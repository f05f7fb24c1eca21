----------------------------- MODULE CallQueue -----------------------------
(***************************************************************************)
(* What the deferred calls of the HAL promise: calls are made one at a     *)
(* time in the order they were posted, each at most once, and none of a    *)
(* type after that type was flushed unless it was posted again.  A call    *)
(* that was flushed leaves a Blank in its place, which nobody makes.       *)
(***************************************************************************)
EXTENDS Sequences, Naturals

CONSTANTS Types, Idle, Blank

VARIABLES calls, current

Init == calls = <<>> /\ current = Idle

(* Calls are added at the end. *)
Posts ==
    /\ Len(calls) <= Len(calls')
    /\ \A i \in 1..Len(calls) : calls'[i] = calls[i]
    /\ UNCHANGED current

(* Expired timers may be posted in the step that flushes a type. *)
Flushes(type) ==
    /\ Len(calls) <= Len(calls')
    /\ \A i \in 1..Len(calls) : calls'[i] = IF calls[i] = type THEN Blank ELSE calls[i]
    /\ \A i \in 1..Len(calls') : calls'[i] # type
    /\ UNCHANGED current

Makes ==
    /\ calls # <<>> /\ Head(calls) # Blank /\ current = Idle
    /\ current' = Head(calls) /\ calls' = Tail(calls)

Skips ==
    /\ calls # <<>> /\ Head(calls) = Blank
    /\ calls' = Tail(calls) /\ UNCHANGED current

Returns == current' = Idle /\ UNCHANGED calls

Next == Posts \/ (\E type \in Types : Flushes(type)) \/ Makes \/ Skips \/ Returns

Spec == Init /\ [][Next]_<<calls, current>>
=============================================================================
