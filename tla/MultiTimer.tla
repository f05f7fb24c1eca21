----------------------------- MODULE MultiTimer -----------------------------
(***************************************************************************)
(* The timers of the Open NFC HAL, nfc_hal_multi_timer.c: any number of    *)
(* timers on one timer of the platform (porting_hal.c), whose expiry is    *)
(* turned into deferred calls.                                             *)
(*                                                                         *)
(* h holds the state: q the deferred calls, abs each timer's               *)
(* nAbsoluteTimeout (0 when it is not set), last nLastTimerValue, value    *)
(* and expired the platform timer's nTimerValue and bIsExpired, and sock   *)
(* the kinds of bytes in the socket that wakes the driver thread.  writing *)
(* is the assignment, to nTimerValue or to bIsExpired, that CNALTimerSet   *)
(* or CNALTimerCancel makes next, and read the time that the poll which    *)
(* called it has read.  Milliseconds are counted modulo Mod, the source's  *)
(* 2^32.                                                                   *)
(***************************************************************************)
EXTENDS DeferredCalls

CONSTANTS P_NAL_MULTI_TIMER_NUMBER, Mod

ASSUME TimerAssumption == /\ P_NAL_MULTI_TIMER_NUMBER \in Nat \ {0}
                          /\ Mod \in Nat \ {0} /\ Mod % 2 = 0

TimerIds == 0..P_NAL_MULTI_TIMER_NUMBER - 1
TIMER_T9_UPPER_TIMER == P_NAL_MULTI_TIMER_NUMBER - 1   \* the last one
Entropy == P_NAL_MULTI_TIMER_NUMBER          \* the type of an entropy call
Frame == P_NAL_MULTI_TIMER_NUMBER + 1        \* of a call of the link layer
CallTypes == 0..Frame

Never == Mod - 1               \* (uint32_t)-1: no timer of the platform is set

Created ==
    [q |-> PNALDFCCreate, abs |-> [t \in TimerIds |-> 0], last |-> Never,
     value |-> 0, expired |-> FALSE, sock |-> {}, writing |-> "nothing", read |-> 0]

(* Mutant: the driver thread is kicked only when the array is full. *)
Post_KicksWhenFull(h, type, memory) ==
    [h EXCEPT !.q = PNALDFCPost(@, type, memory),
              !.sock = IF h.q.number = h.q.size THEN @ \union {"KICK"} ELSE @]

(* A post, which kicks the driver thread when the queue was empty. *)
Post(h, type, memory) ==
    [h EXCEPT !.q = PNALDFCPost(@, type, memory),
              !.sock = IF h.q.number = 0 THEN @ \union {"KICK"} ELSE @]

(* How long ago e was, as the poll computes it, and whether that is a time *)
(* in the past; otherwise what is left until e.                            *)
Ago(e, now) == IF e <= now THEN now - e ELSE Mod - 1 - e + now
(* Mutant: the two numbers are compared as they are. *)
Expired_NoWrap(e, now) == e <= now
Expired(e, now) == Ago(e, now) <= Mod \div 2 - 1
Left(e, now) == Mod - 1 - Ago(e, now)

(* The earliest of the timers that are still to come. *)
Limit(abs, now) ==
    LET waiting == {t \in TimerIds : abs[t] # 0 /\ ~Expired(abs[t], now)}
    IN IF waiting = {} THEN Never
       ELSE abs[CHOOSE t \in waiting :
                  \A u \in waiting : Left(abs[t], now) <= Left(abs[u], now)]

(* A turn of the loop: an expired timer is reset and its callback posted. *)
PostIfExpired(h, t, now, memory) ==
    IF h.abs[t] # 0 /\ Expired(h.abs[t], now)
    THEN [Post(h, t, memory) EXCEPT !.abs[t] = 0]
    ELSE h

PostExpired(h, now, memory) ==
    LET after[n \in 0..P_NAL_MULTI_TIMER_NUMBER] ==
          IF n = 0 THEN h ELSE PostIfExpired(after[n - 1], n - 1, now, memory)
    IN after[P_NAL_MULTI_TIMER_NUMBER]

(* Mutant: nLastTimerValue outlives the expiry it stood for. *)
PNALMultiTimerPoll_KeepsLast(h, now, elapsed, memory) ==
    LET g == PostExpired(h, now, memory)
        limit == Limit(g.abs, now)
    IN IF limit = h.last
       THEN g
       ELSE [g EXCEPT !.last = limit, !.writing = "value", !.read = now]

(* PNALMultiTimerPoll, until it calls CNALTimerSet with the time from now  *)
(* to the limit, or CNALTimerCancel.                                       *)
PNALMultiTimerPoll(h, now, elapsed, memory) ==
    LET g == PostExpired(h, now, memory)
        limit == Limit(g.abs, now)
        last == IF elapsed THEN Never ELSE h.last
    IN IF limit = last
       THEN [g EXCEPT !.last = limit]
       ELSE [g EXCEPT !.last = limit, !.writing = "value", !.read = now]

(* The first assignment.  CNALTimerSet reads the clock again and adds what *)
(* was left until the limit when the poll read it.                         *)
Valued(h, now) ==
    IF h.writing = "value"
    THEN [h EXCEPT !.writing = "flag", !.read = 0,
                   !.value = IF h.last = Never THEN 0
                             ELSE (now + (h.last + Mod - h.read)) % Mod]
    ELSE h

(* The second assignment, and the byte that wakes the driver thread. *)
Armed(h) ==
    IF h.writing = "flag"
    THEN [h EXCEPT !.writing = "nothing", !.expired = FALSE, !.sock = @ \union {"TIMER"}]
    ELSE h

(* PNALMultiTimerSet and PNALMultiTimerCancel until the poll is through,   *)
(* and what the cancel does in the end.  What the set does, the entropy    *)
(* callback, depends on the thread.  A sum of 0 means that the timer is    *)
(* not set.                                                                *)
SetTimer(h, t, timeout, now, memory) ==
    PNALMultiTimerPoll([h EXCEPT !.abs[t] = (now + timeout) % Mod], now, FALSE, memory)

CancelTimer(h, t, now, memory) ==
    IF h.abs[t] # 0
    THEN PNALMultiTimerPoll([h EXCEPT !.abs[t] = 0], now, FALSE, memory)
    ELSE h

Cancelled(h, t) == [h EXCEPT !.q = PNALDFCFlush(@, t)]
=============================================================================
