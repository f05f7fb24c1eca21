-------------------------- MODULE EventProperties --------------------------
(* What the event loop of HalEvents is checked for. *)
EXTENDS HalEvents

(* Type correctness, and that nobody is in the critical section twice. *)
EventsTypeOK ==
    /\ h.q.size \in Nat /\ DOMAIN h.q.list = 0..h.q.size - 1
    /\ h.q.first \in 0..h.q.size - 1 /\ h.q.number \in 0..h.q.size
    /\ \A i \in DOMAIN h.q.list : h.q.list[i] \in [type : CallTypes, fn : BOOLEAN]
    /\ h.abs \in [TimerIds -> 0..Mod - 1] /\ h.last \in 0..Mod - 1
    /\ h.value \in 0..Mod - 1 /\ h.expired \in BOOLEAN
    /\ h.sock \subseteq {"KICK", "TIMER"}
    /\ h.writing \in {"nothing", "value", "flag"} /\ h.read \in 0..Mod - 1
    /\ now \in 0..Mod - 1 /\ wait \in -1..Mod - 1 + MaxLag
    /\ current \in CallTypes \union {Idle}
    /\ due \in [TimerIds -> -1..Mod - 1] /\ left \in [TimerIds -> -MaxLate..Mod]
    /\ silent \subseteq TimerIds /\ lost \in {"no", "race", "zero"}
    /\ user = NoUser <=> lock # "user"
    /\ lock = "driver" <=> driver \in {"pump", "call"}

(* PNALMultiTimerPoll posts the callback of a timer only when its time has *)
(* passed, whatever the clock's wrap-around makes of the two numbers it    *)
(* compares (nfc_hal_multi_timer.c, the test of nDelta): no call added     *)
(* behind those held is of a timer that is still to come.                  *)
NeverEarly ==
    [][\A i \in h.q.number..h'.q.number - 1 :
         LET t == At(h'.q, i).type IN t \in TimerIds => left'[t] <= 0]_vars

Asleep == driver = "select" /\ h.sock = {}

(* While the driver thread sleeps, its select ends before any timer is due *)
(* that was set and whose callback was not posted, but for the time        *)
(* between reading the clock and using it, in CNALTimerSet and before the  *)
(* select.  The exceptions: nTimerValue is 0 after the two threads' race   *)
(* for it, or because the clock and the timeout add up to 0; the timer is  *)
(* due at 0, the value that says it is not set; a timer is due at the      *)
(* value that stands for none, for which CNALTimerCancel is called; or one *)
(* has expired before the clock's wrap-around and the driver thread looks  *)
(* only after it, so that the select lasts until the clock comes round.    *)
NoTimerForgotten ==
    Asleep /\ lock = "free" =>
      \A t \in TimerIds : due[t] # NotSet =>
        \/ wait # Forever /\ wait <= IF left[t] + 2 * MaxLag > 0 THEN left[t] + 2 * MaxLag ELSE 0
        \/ lost # "no"
        \/ due[t] = 0
        \/ h.last = Never /\ \E u \in TimerIds : due[u] = Never
        \/ \E u \in TimerIds : due[u] # NotSet /\ left[u] < 0 /\ wait >= Mod + left[u]

(* The driver thread never sleeps on a deferred call: a post that finds    *)
(* the queue empty kicks it, the others rely on the kick or on the pump    *)
(* that is running (static_PNALDFCPostInternal, PNALDFCPump).              *)
NoCallForgotten == Asleep => Held(h.q) = <<>>

(* A cancelled timer stays silent: no call of it is made, or left to be    *)
(* made, until it is set again, even if it had expired before the cancel   *)
(* (the flush that ends PNALMultiTimerCancel).                             *)
CancelledStaysSilent ==
    \A t \in silent : h.abs[t] = 0 /\ ~Queued(h.q, t)

(* The circular array, its growth and its flushes are a queue: the calls   *)
(* are made in the order of the posts and none is made twice.              *)
CallsHeld(q) == [i \in 1..q.number |-> IF Held(q)[i].fn THEN Held(q)[i].type ELSE Idle]

Abstract == INSTANCE CallQueue WITH
    Types <- TimerIds, Blank <- Idle, calls <- CallsHeld(h.q)

ImplementsCallQueue == Abstract!Spec

(* nTimerValue is 0 only if no timer is pending or its expiry is being     *)
(* handled.                                                                *)
ZeroMeansNoTimer ==
    Asleep /\ lock = "free" /\ h.value = 0 => h.last = Never
=============================================================================
