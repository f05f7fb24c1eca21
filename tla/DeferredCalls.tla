--------------------------- MODULE DeferredCalls ---------------------------
(***************************************************************************)
(* The queue of deferred calls of the Open NFC HAL, nfc_hal_dfc.c: a       *)
(* circular array that grows when it is full.  q is tNALDFCQueue: list the *)
(* array, first the slot of the oldest call, number the calls held.  A     *)
(* call is its type (pType) and fn, whether pFunction is still there.      *)
(***************************************************************************)
EXTENDS Naturals, Sequences

CONSTANTS P_NAL_DFC_QUEUE_INITIAL_SIZE, P_NAL_DFC_QUEUE_DELTA

ASSUME DfcAssumption == /\ P_NAL_DFC_QUEUE_INITIAL_SIZE \in Nat \ {0}
                        /\ P_NAL_DFC_QUEUE_DELTA \in Nat \ {0}

NoCall == [type |-> 0, fn |-> FALSE]     \* what is in a slot nothing reads

PNALDFCCreate ==
    [list |-> [i \in 0..P_NAL_DFC_QUEUE_INITIAL_SIZE - 1 |-> NoCall],
     first |-> 0, number |-> 0, size |-> P_NAL_DFC_QUEUE_INITIAL_SIZE]

(* The slot of the i-th call held, from 0. *)
Slot(q, i) == IF q.first + i >= q.size THEN q.first + i - q.size ELSE q.first + i

(* Mutant: the array grows at its end even if the calls wrap around. *)
Grown_InPlace(q) ==
    [q EXCEPT !.list = [i \in 0..q.size + P_NAL_DFC_QUEUE_DELTA - 1 |->
                          IF i < q.size THEN q.list[i] ELSE NoCall],
              !.size = @ + P_NAL_DFC_QUEUE_DELTA]

(* The larger array: when the calls held wrap around, those from first on  *)
(* move to its end.                                                        *)
Grown(q) ==
    LET D == P_NAL_DFC_QUEUE_DELTA
        wraps == q.first + q.number > q.size
        gap == IF wraps THEN q.first ELSE q.size
    IN [list |-> [i \in 0..q.size + D - 1 |->
                    CASE i < gap -> q.list[i]
                      [] i \in gap..gap + D - 1 -> NoCall
                      [] OTHER -> q.list[i - D]],
        first |-> IF wraps THEN q.first + D ELSE q.first,
        number |-> q.number, size |-> q.size + D]

(* PNALDFCPostInternal6.  Without memory for a larger array the call is    *)
(* lost.                                                                   *)
PNALDFCPost(q, type, memory) ==
    LET r == IF q.number = q.size THEN Grown(q) ELSE q
    IN IF q.number = q.size /\ ~memory
       THEN q
       ELSE [r EXCEPT !.list[Slot(r, r.number)] = [type |-> type, fn |-> TRUE],
                      !.number = @ + 1]

(* The call the pump takes, and the queue without it. *)
Oldest(q) == q.list[q.first]

(* Mutant: first runs past the end of the array. *)
Popped_NoWrap(q) == [q EXCEPT !.list[q.first] = NoCall, !.first = @ + 1, !.number = @ - 1]

Popped(q) == [q EXCEPT !.list[q.first] = NoCall, !.first = Slot(q, 1), !.number = @ - 1]

(* Mutant: the part that wraps around is not flushed. *)
PNALDFCFlush_UpToTheEnd(q, type) ==
    LET held == q.first..q.size - 1
    IN [q EXCEPT !.list = [i \in DOMAIN q.list |->
          IF i \in held /\ q.list[i].type = type
          THEN [type |-> type, fn |-> FALSE]
          ELSE q.list[i]]]

(* The calls of a type lose their function; they keep their slots. *)
PNALDFCFlush(q, type) ==
    LET held == {Slot(q, i) : i \in 0..q.number - 1}
    IN [q EXCEPT !.list = [i \in DOMAIN q.list |->
          IF i \in held /\ q.list[i].type = type
          THEN [type |-> type, fn |-> FALSE]
          ELSE q.list[i]]]

(* The i-th call held, and all of them, oldest first: what the queue means. *)
At(q, i) == q.list[Slot(q, i)]
Held(q) == [i \in 1..q.number |-> At(q, i - 1)]

Queued(q, type) == \E i \in 0..q.number - 1 : At(q, i) = [type |-> type, fn |-> TRUE]
=============================================================================
