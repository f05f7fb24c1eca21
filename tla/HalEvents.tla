----------------------------- MODULE HalEvents -----------------------------
(***************************************************************************)
(* The event loop of the Open NFC HAL and the threads that share its       *)
(* timers and deferred calls.  The driver thread (PDriverReceiveThread in  *)
(* porting_hal.c) waits in select and calls static_PNALBindingPoll; a      *)
(* thread of the upper layer calls the binding and sets and cancels        *)
(* timers.  hCriticalSection keeps the two apart, except where the poll    *)
(* leaves it to call the upper layer, and except for the platform timer,   *)
(* which the driver thread reads and marks expired without it.             *)
(***************************************************************************)
EXTENDS MultiTimer, Integers

CONSTANTS
    UserTimers,     \* the timers the upper layer's thread sets: the upper timer,
                    \* and through its writes those of the link
    Timeouts,       \* the timeouts that are asked for, less the time that passes before
                    \* the poll reads the clock again
    MaxLate,        \* milliseconds a thread may keep an expired timer waiting
    MaxLag,         \* milliseconds between reading the clock and using what it said
    MaxQueued,      \* the upper layer and the link post no more beyond this
    MemoryFails,    \* whether an allocation may fail
    Start           \* the time when the HAL is created

ASSUME EventsAssumption ==
    /\ UserTimers \subseteq TimerIds
    /\ Timeouts \subseteq 0..Mod \div 2 - 2
    /\ MaxLate \in 1..Mod \div 2 - 2 /\ MaxLag \in 0..MaxLate
    /\ MaxQueued \in Nat /\ MemoryFails \in BOOLEAN /\ Start \in 0..Mod - 1

VARIABLES
    h,          \* the state of MultiTimer
    now,        \* what CNALTimerGetCurrentTime returns
    lock,       \* who is in hCriticalSection
    driver,     \* where the driver thread is
    wait,       \* milliseconds until its select times out
    current,    \* the deferred call it is making
    user,       \* the call of the upper layer that is under way
    due,        \* history: the time each timer is due, from its being set until its
                \* callback is posted or it is cancelled
    left,       \* history: milliseconds until then, negative if late
    silent,     \* history: timers that were cancelled, or called for the last time,
                \* and not set since
    lost        \* history: why nTimerValue is 0 although the platform timer was set:
                \* "race", it was marked expired between the two assignments; "zero", the
                \* clock and the timeout add up to 0; "no", it is not, or not for good

vars == <<h, now, lock, driver, wait, current, user, due, left, silent, lost>>

Forever == -1
NotSet == -1
Idle == -1                    \* no call is being made
NoUser == [op |-> "none", t |-> 0]

(* Whether the array can grow in this step; it matters only if it must. *)
Memory ==
    IF MemoryFails /\ h.q.number + P_NAL_MULTI_TIMER_NUMBER + 1 > h.q.size
    THEN BOOLEAN ELSE {TRUE}

Init ==
    /\ h = Created /\ now = Start /\ lock = "free" /\ driver = "look"
    /\ wait = Forever /\ current = Idle /\ user = NoUser
    /\ due = [t \in TimerIds |-> NotSet] /\ left = [t \in TimerIds |-> 0]
    /\ silent = TimerIds /\ lost = "no"

(* The timers that are still to be posted, of those in d, when a poll has  *)
(* made g out of h: all but those it has posted, and those whose calls are *)
(* lost for want of memory.                                                *)
Remaining(d, g, memory) ==
    LET posted == {t \in TimerIds : \E i \in h.q.number..g.q.number - 1 :
                                      At(g.q, i) = [type |-> t, fn |-> TRUE]}
    IN [t \in TimerIds |-> IF t \in posted \/ (~memory /\ g.abs[t] = 0 /\ d[t] # 0)
                           THEN NotSet ELSE d[t]]

(* Whether the platform timer is lost when it has been set. *)
Outcome(g) == IF g.last # Never /\ g.value = 0 THEN "zero" ELSE "no"

(* A poll in the critical section has made g of h.  When CNALTimerSet reads *)
(* the clock again it says some milliseconds more; the lock keeps the other *)
(* thread out meanwhile, so that they may as well pass afterwards.          *)
Lags(g) == IF g.writing = "value" THEN 0..MaxLag ELSE {0}
Completed(g, ms) == Armed(Valued(g, (now + ms) % Mod))

(***************************************************************************)
(* PDriverReceiveThread.                                                   *)
(***************************************************************************)
Goes(from, to) == driver = from /\ driver' = to

(* nTimerValue is read to see whether a timer is set, *)
Look ==
    /\ \/ h.value # 0 /\ Goes("look", "compare") /\ UNCHANGED wait
       \/ h.value = 0 /\ Goes("look", "select") /\ wait' = Forever
    /\ UNCHANGED <<h, now, lock, current, user, due, left, silent, lost>>

(* and again to see how long the select may take, which begins some        *)
(* milliseconds after the clock was read.                                  *)
Compare ==
    /\ \/ h.value > now /\ Goes("compare", "select")
          /\ \E ms \in 0..MaxLag : wait' = h.value - now + ms
       \/ h.value <= now /\ Goes("compare", "expire") /\ UNCHANGED wait
    /\ UNCHANGED <<h, now, lock, current, user, due, left, silent, lost>>

(* The select ends with data of the controller or a finished reset, *)
SelectData ==
    /\ Goes("select", "enter") /\ wait' = Forever
    /\ UNCHANGED <<h, now, lock, current, user, due, left, silent, lost>>

(* with bytes on the control socket, of which only a kick calls the poll,  *)
SelectControl ==
    /\ h.sock # {}
    /\ Goes("select", IF "KICK" \in h.sock THEN "enter" ELSE "look")
    /\ h' = [h EXCEPT !.sock = {}] /\ wait' = Forever
    /\ UNCHANGED <<now, lock, current, user, due, left, silent, lost>>

(* or with neither, after its time. *)
SelectTimeout ==
    /\ h.sock = {} /\ wait = 0
    /\ Goes("select", "expire") /\ wait' = Forever
    /\ UNCHANGED <<h, now, lock, current, user, due, left, silent, lost>>

(* CNALTimerSetExpired: two assignments, between which the other thread    *)
(* may make its own to the same variables.                                 *)
Expire ==
    /\ \/ Goes("expire", "flag") /\ h' = [h EXCEPT !.value = 0]
          /\ lost' = IF h.writing = "flag" THEN "race" ELSE "no"
       \/ Goes("flag", "enter") /\ h' = [h EXCEPT !.expired = TRUE] /\ UNCHANGED lost
    /\ UNCHANGED <<now, lock, wait, current, user, due, left, silent>>

(***************************************************************************)
(* static_PNALBindingPoll, in the driver thread.                           *)
(***************************************************************************)
(* What it does before the pump: CNALTimerIsTimerElapsed and, if so, the   *)
(* poll of the timers; then PSHDLCFramePoll, which may post what the line  *)
(* completed.  The end of a reset connects the services, which cancels and *)
(* sets timers as a deferred call does.                                    *)
Enter ==
    /\ lock = "free" /\ lock' = "driver"
    /\ Goes("enter", "pump") \/ Goes("enter", "call")
    /\ \E memory \in Memory, posts \in BOOLEAN :
         LET g == IF h.expired
                  THEN PNALMultiTimerPoll([h EXCEPT !.expired = FALSE], now, TRUE, memory)
                  ELSE h
         IN \E ms \in Lags(g) :
              LET k == Completed(g, ms)
              IN /\ posts => k.q.number < MaxQueued
                 /\ h' = IF posts THEN Post(k, Frame, memory) ELSE k
                 /\ due' = Remaining(due, h', memory)
                 /\ lost' = IF g.writing = "value" THEN Outcome(k) ELSE lost
    /\ UNCHANGED <<now, wait, current, user, left, silent>>

(* PNALDFCPump takes the oldest call.  Those of the upper timer and of the *)
(* entropy leave the critical section to call the upper layer; the others  *)
(* run in it.                                                              *)
Pump ==
    /\ driver = "pump" /\ h.q.number # 0
    /\ h' = [h EXCEPT !.q = Popped(@)]
    /\ LET c == Oldest(h.q)
       IN IF ~c.fn
          THEN UNCHANGED <<driver, lock, current>>
          ELSE /\ current' = c.type
               /\ IF c.type \in {TIMER_T9_UPPER_TIMER, Entropy}
                  THEN driver' = "upper" /\ lock' = "free"
                  ELSE driver' = "call" /\ UNCHANGED lock
    /\ silent' = silent \union {t \in TimerIds : current' = t /\ h.abs[t] = 0 /\ ~Queued(h'.q, t)}
    /\ UNCHANGED <<now, wait, user, due, left, lost>>

Leave ==
    /\ h.q.number = 0 /\ Goes("pump", "look") /\ lock' = "free"
    /\ UNCHANGED <<h, now, wait, current, user, due, left, silent, lost>>

(* The upper layer returns, and the poll takes the critical section back. *)
UpperReturns ==
    /\ lock = "free" /\ lock' = "driver"
    /\ \/ Goes("upper", "pump") /\ current' = Idle
       \/ Goes("entropy", "call") /\ UNCHANGED current
    /\ UNCHANGED <<h, now, wait, user, due, left, silent, lost>>

(* A call of the link or of the services sets a timer, which hands some    *)
(* entropy to the upper layer outside the critical section,                *)
CallSets(t, timeout) ==
    /\ Goes("call", "entropy") /\ lock' = "free"
    /\ \E memory \in Memory :
         LET g == SetTimer(h, t, timeout, now, memory)
         IN \E ms \in Lags(g) :
              /\ h' = Completed(g, ms)
              /\ due' = Remaining([due EXCEPT ![t] = (now + timeout) % Mod], h', memory)
              /\ lost' = IF g.writing = "value" THEN Outcome(h') ELSE lost
    /\ left' = [left EXCEPT ![t] = timeout] /\ silent' = silent \ {t}
    /\ UNCHANGED <<now, wait, current, user>>

(* cancels one, *)
CallCancels(t) ==
    /\ driver = "call"
    /\ \E memory \in Memory :
         LET g == CancelTimer(h, t, now, memory)
         IN \E ms \in Lags(g) :
              /\ h' = Cancelled(Completed(g, ms), t)
              /\ due' = Remaining([due EXCEPT ![t] = NotSet], h', memory)
              /\ lost' = IF g.writing = "value" THEN Outcome(h') ELSE lost
    /\ silent' = silent \union {t}
    /\ UNCHANGED <<now, lock, driver, wait, current, user, left>>

(* posts another, *)
CallPosts ==
    /\ driver = "call" /\ h.q.number < MaxQueued
    /\ \E memory \in Memory : h' = Post(h, Frame, memory)
    /\ UNCHANGED <<now, lock, driver, wait, current, user, due, left, silent, lost>>

(* or returns to the pump. *)
CallReturns ==
    /\ Goes("call", "pump") /\ current' = Idle
    /\ UNCHANGED <<h, now, lock, wait, user, due, left, silent, lost>>

(***************************************************************************)
(* The upper layer's thread: static_PNALBindingSetVariable for the upper   *)
(* timer, and the calls that reach the link layer's timers.                *)
(***************************************************************************)
UserSets(t, timeout) ==
    /\ lock = "free" /\ lock' = "user" /\ h.q.number < MaxQueued
    /\ user' = [op |-> "set", t |-> t]
    /\ \E memory \in Memory :
         /\ h' = SetTimer(h, t, timeout, now, memory)
         /\ due' = Remaining([due EXCEPT ![t] = (now + timeout) % Mod], h', memory)
    /\ left' = [left EXCEPT ![t] = timeout] /\ silent' = silent \ {t}
    /\ lost' = IF h'.writing = "value" THEN "no" ELSE lost
    /\ UNCHANGED <<now, driver, wait, current>>

UserCancels(t) ==
    /\ lock = "free" /\ lock' = "user"
    /\ user' = [op |-> "cancel", t |-> t]
    /\ \E memory \in Memory :
         /\ h' = CancelTimer(h, t, now, memory)
         /\ due' = Remaining([due EXCEPT ![t] = NotSet], h', memory)
    /\ lost' = IF h'.writing = "value" THEN "no" ELSE lost
    /\ UNCHANGED <<now, driver, wait, current, left, silent>>

(* The call sets the platform timer, when the poll says so, *)
UserAssigns ==
    /\ lock = "user" /\ h.writing = "value"
    /\ h' = Valued(h, now) /\ lost' = Outcome(h')
    /\ UNCHANGED <<now, lock, driver, wait, current, user, due, left, silent>>

(* and ends; outside the poll the entropy is a deferred call. *)
UserLeaves ==
    /\ lock = "user" /\ h.writing # "value" /\ lock' = "free" /\ user' = NoUser
    /\ \E memory \in Memory :
         h' = IF user.op = "set"
              THEN Post(Armed(h), Entropy, memory)
              ELSE Cancelled(Armed(h), user.t)
    /\ silent' = IF user.op = "cancel" THEN silent \union {user.t} ELSE silent
    /\ lost' = IF driver = "flag" THEN "no" ELSE lost
    /\ UNCHANGED <<now, driver, wait, current, due, left>>

(* The other calls of the binding, which post an answer. *)
UserPosts ==
    /\ lock = "free" /\ h.q.number < MaxQueued
    /\ \E memory \in Memory : h' = Post(h, Frame, memory)
    /\ UNCHANGED <<now, lock, driver, wait, current, user, due, left, silent, lost>>

(* A millisecond.  No timer stays expired for longer than MaxLate, and no  *)
(* time read is used more than MaxLag later.                               *)
Tick ==
    /\ h.writing = "value" => now # (h.read + MaxLag) % Mod
    /\ \A t \in TimerIds : h.abs[t] # 0 => left[t] > -MaxLate
    /\ now' = (now + 1) % Mod
    /\ left' = [t \in TimerIds |->
                  IF due[t] = NotSet THEN 0
                  ELSE IF left[t] > -MaxLate THEN left[t] - 1 ELSE left[t]]
    /\ wait' = IF wait > 0 THEN wait - 1 ELSE wait
    /\ UNCHANGED <<h, lock, driver, current, user, due, silent, lost>>

Driver ==
    \/ Look \/ Compare \/ SelectControl \/ SelectTimeout \/ Expire \/ Enter \/ Pump
    \/ Leave \/ UpperReturns \/ CallReturns \/ CallPosts

Next ==
    \/ Driver \/ SelectData \/ UserAssigns \/ UserLeaves \/ UserPosts \/ Tick
    \/ \E t \in TimerIds \ {TIMER_T9_UPPER_TIMER} :
         CallCancels(t) \/ \E timeout \in Timeouts : CallSets(t, timeout)
    \/ \E t \in UserTimers :
         UserCancels(t) \/ \E timeout \in Timeouts : UserSets(t, timeout)

Spec == Init /\ [][Next]_vars
=============================================================================
