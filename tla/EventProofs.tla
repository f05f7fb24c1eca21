---------------------------- MODULE EventProofs ----------------------------
(***************************************************************************)
(* The event loop of the HAL, for every number of timers, every size of    *)
(* the array of deferred calls and every width of the clock.               *)
(***************************************************************************)
EXTENDS EventProperties, DeferredCallsProofs, SequenceTheorems

(* Everything has its type. *)
EventTypes ==
    /\ h \in Hal /\ now \in 0..Mod - 1 /\ wait \in -1..Mod - 1 + MaxLag
    /\ current \in CallTypes \union {Idle}
    /\ due \in [TimerIds -> -1..Mod - 1] /\ left \in [TimerIds -> -MaxLate..Mod]
    /\ silent \in SUBSET TimerIds /\ lost \in {"no", "race", "zero"}
    /\ lock \in {"free", "driver", "user"}
    /\ driver \in {"look", "compare", "select", "expire", "flag", "enter", "pump", "call",
                   "upper", "entropy"}
    /\ user \in [op : {"none", "set", "cancel"}, t : TimerIds]

(* Who is in the critical section. *)
Exclusion ==
    /\ user = NoUser <=> lock # "user"
    /\ user.op = "none" <=> lock # "user"
    /\ lock = "driver" <=> driver \in {"pump", "call"}

(* Calls are made from the pump only. *)
Pumping == driver \in {"call", "upper", "entropy"} \/ current = Idle

(* A cancelled timer, and one whose cancel is under way. *)
Silence ==
    /\ CancelledStaysSilent
    /\ user.op = "cancel" => h.abs[user.t] = 0

(* As long as calls are held, there is a kick or the driver thread is on   *)
(* its way to the pump.                                                    *)
Kicked ==
    h.q.number # 0 =>
      "KICK" \in h.sock \/ driver \in {"enter", "pump", "call", "upper", "entropy"}

(* The timers that are due are those that are set, but for those due at 0: *)
(* no timer is reset unless its callback is posted or it is cancelled.      *)
Agree(abs, d) == \A t \in TimerIds : abs[t] = IF d[t] = NotSet THEN 0 ELSE d[t]

(* A timer that is set is due when its time is up, which the clock may     *)
(* reach only after it wrapped around, or have passed before.              *)
OnTime(abs, rest, at) ==
    \A t \in TimerIds : abs[t] # 0 =>
      /\ rest[t] \in -MaxLate..Mod \div 2 - 2
      /\ abs[t] \in {at + rest[t], at + rest[t] - Mod, at + rest[t] + Mod}

(* The platform timer is set for the earliest of the timers. *)
Earliest(abs, last, rest) ==
    \/ \A t \in TimerIds : abs[t] = 0
    \/ \E t \in TimerIds : /\ abs[t] # 0 /\ abs[t] = last
                           /\ \A u \in TimerIds : abs[u] # 0 => rest[t] <= rest[u]

(* The time a poll has read is not far behind while it is used. *)
Lagged(v, e) == \E lag \in 0..MaxLag : v \in {e + lag, e + lag - Mod}

Reading == h.writing = "value" => Lagged(now, h.read)

(* What the two threads make of the platform timer between them.  Only     *)
(* the driver thread marks it expired, on its way to the poll; only the    *)
(* other thread is found before one of the two assignments; and            *)
(* nTimerValue is what the timer was last set for, or little more, unless  *)
(* that is none, or it is still to be assigned, or the value was lost, or  *)
(* its expiry is still to be handled.                                      *)
Platform ==
    /\ h.expired => driver = "enter"
    /\ h.writing # "nothing" => lock = "user"
    /\ lost # "no" => h.value = 0
    /\ \/ h.last = Never \/ h.writing = "value" \/ lost # "no"
       \/ h.value # 0 /\ Lagged(h.value, h.last)
       \/ h.writing = "nothing" /\ h.value = 0 /\ (driver = "flag" \/ h.expired)

(* The timeout of the select, as long as no byte is coming to end it: it   *)
(* ends at nTimerValue, or little later.                                   *)
Timeout ==
    driver = "select" /\ "TIMER" \notin h.sock /\ h.writing # "flag" =>
      \/ wait = Forever /\ h.value = 0
      \/ wait # Forever /\ h.value # 0 /\ (wait = 0 \/ Lagged(now + wait, h.value))

EventInv ==
    /\ EventTypes /\ Exclusion /\ Pumping /\ Silence /\ Kicked
    /\ Agree(h.abs, due) /\ OnTime(h.abs, left, now)

TimerInv == Earliest(h.abs, h.last, left) /\ Reading /\ Platform /\ Timeout

-----------------------------------------------------------------------------
(* What the operations do to the state of the timers, in the terms of the  *)
(* invariant: k comes from g by calls added behind those held, the ones of *)
(* timers being of timers that were set and had expired, and are now       *)
(* reset; abs are the times when the poll ran.                             *)
Follows(g, k, abs, at) ==
    /\ k \in Hal /\ g.sock \subseteq k.sock /\ g.q.number <= k.q.number
    /\ \A i \in g.q.number..k.q.number - 1 :
         At(k.q, i).type \in TimerIds =>
           /\ abs[At(k.q, i).type] # 0 /\ Expired(abs[At(k.q, i).type], at)
           /\ k.abs[At(k.q, i).type] = 0
    /\ k.q.number # 0 => g.q.number # 0 \/ "KICK" \in k.sock
    /\ \A t \in TimerIds : k.abs[t] \in {abs[t], 0}

(* A timer that was reset has its callback posted, if there is memory. *)
Told(g, k, abs, memory) ==
    memory => \A t \in TimerIds : abs[t] # 0 /\ k.abs[t] = 0 => Posted(g, k, t)

Kept(g, k) == \A i \in 0..g.q.number - 1 : At(k.q, i) = At(g.q, i)

Flushed(g, k, t) ==
    /\ \A i \in 0..g.q.number - 1 : At(k.q, i) = Blanked(At(g.q, i), t)
    /\ \A i \in 0..k.q.number - 1 : ~(At(k.q, i).type = t /\ At(k.q, i).fn)

(* The number of calls held is a number. *)
LEMMA HalNumber ==
    ASSUME NEW g \in Hal
    PROVE  /\ g.q \in Queue /\ g.q.number \in Nat /\ g.abs \in [TimerIds -> 0..Mod - 1]
           /\ \A i \in 0..g.q.number - 1 : At(g.q, i) \in Calls
  BY QueueFields DEF Hal

(* A poll of the timers as they are. *)
LEMMA PollOnlyFollows ==
    ASSUME NEW g \in Hal, NEW at \in 0..Mod - 1, NEW elapsed \in BOOLEAN, NEW memory \in BOOLEAN,
           NEW k, k = PNALMultiTimerPoll(g, at, elapsed, memory)
    PROVE  Follows(g, k, g.abs, at) /\ Kept(g, k) /\ Told(g, k, g.abs, memory)
<1>1. /\ k \in Hal /\ Polled(g, k, at, P_NAL_MULTI_TIMER_NUMBER)
      /\ Lossless(g, k, at, memory, P_NAL_MULTI_TIMER_NUMBER)
  BY PollEffect
<1>2. \A t \in TimerIds : t < P_NAL_MULTI_TIMER_NUMBER
  BY TimerAssumption DEF TimerIds
<1>3. \A t \in TimerIds : k.abs[t] = IF Expired(g.abs[t], at) THEN 0 ELSE g.abs[t]
  BY <1>1, <1>2 DEF Polled
<1>4. Kept(g, k)
  BY <1>1 DEF Polled, Kept
<1>5. ASSUME NEW i \in g.q.number..k.q.number - 1, At(k.q, i).type \in TimerIds
      PROVE  /\ g.abs[At(k.q, i).type] # 0 /\ Expired(g.abs[At(k.q, i).type], at)
             /\ k.abs[At(k.q, i).type] = 0
  <2>1. PICK u \in TimerIds : /\ At(k.q, i) = [type |-> u, fn |-> TRUE]
                              /\ g.abs[u] # 0 /\ Expired(g.abs[u], at)
    BY <1>1 DEF Polled
  <2>2. At(k.q, i).type = u
    BY <2>1
  <2> QED  BY <2>1, <2>2, <1>3
<1>6. Follows(g, k, g.abs, at)
  BY <1>1, <1>3, <1>5 DEF Polled, Follows
<1>7. Told(g, k, g.abs, memory)
  BY <1>1, <1>2, <1>3 DEF Told, Lossless
<1> QED  BY <1>4, <1>6, <1>7

(* A poll, after one timer's time was assigned. *)
LEMMA PollFollows ==
    ASSUME NEW g \in Hal, NEW t \in TimerIds, NEW e \in 0..Mod - 1, NEW at \in 0..Mod - 1,
           NEW elapsed \in BOOLEAN, NEW memory \in BOOLEAN,
           NEW k, k = PNALMultiTimerPoll(WithTimer(g, t, e), at, elapsed, memory)
    PROVE  /\ Follows(g, k, [g.abs EXCEPT ![t] = e], at) /\ Kept(g, k)
           /\ Told(g, k, [g.abs EXCEPT ![t] = e], memory)
           /\ e = 0 => k.abs[t] = 0
<1> PICK w : w = WithTimer(g, t, e)
  OBVIOUS
<1>1. w \in Hal /\ w.abs = [g.abs EXCEPT ![t] = e] /\ w.q = g.q /\ w.sock = g.sock
  BY WithTimerEffect
<1>2. k = PNALMultiTimerPoll(w, at, elapsed, memory)
  OBVIOUS
<1>3. Follows(w, k, w.abs, at) /\ Kept(w, k) /\ Told(w, k, w.abs, memory)
  BY <1>1, <1>2, PollOnlyFollows
<1>4. e = 0 => w.abs[t] = 0
  BY <1>1 DEF Hal
<1> QED  BY <1>1, <1>3, <1>4 DEF Follows, Kept, Told, Posted

(* A step that changes neither the calls nor the timers. *)
LEMMA StaysFollows ==
    ASSUME NEW g \in Hal, NEW k \in Hal, NEW at, k.q = g.q, k.abs = g.abs, g.sock \subseteq k.sock
    PROVE  /\ Follows(g, k, g.abs, at) /\ Kept(g, k)
           /\ \A memory \in BOOLEAN : Told(g, k, g.abs, memory)
  BY HalNumber DEF Follows, Kept, Told

(* The two assignments of CNALTimerSet, after any of these. *)
LEMMA AssignedFollows ==
    ASSUME NEW g \in Hal, NEW k, NEW abs, NEW at, Follows(g, k, abs, at), Kept(g, k),
           NEW memory, Told(g, k, abs, memory),
           NEW time \in 0..Mod - 1, NEW m, m = Armed(k) \/ m = Valued(k, time)
    PROVE  Follows(g, m, abs, at) /\ Kept(g, m) /\ Told(g, m, abs, memory) /\ m.abs = k.abs
<1>1. k \in Hal
  BY DEF Follows
<1>2. m \in Hal /\ m.q = k.q /\ m.abs = k.abs /\ k.sock \subseteq m.sock
  BY <1>1, ArmedEffect, ValuedEffect
<1> QED  BY <1>2 DEF Follows, Kept, Told, Posted

(* A call of another type posted after it. *)
LEMMA PostFollows ==
    ASSUME NEW g \in Hal, NEW k, NEW abs, NEW at, Follows(g, k, abs, at), Kept(g, k),
           NEW memory \in BOOLEAN, Told(g, k, abs, memory),
           NEW type \in CallTypes \ TimerIds,
           NEW m, m = Post(k, type, memory)
    PROVE  Follows(g, m, abs, at) /\ Kept(g, m) /\ Told(g, m, abs, memory) /\ m.abs = k.abs
<1>1. k \in Hal
  BY DEF Follows
<1>2. /\ m \in Hal /\ m.abs = k.abs
      /\ k.sock \subseteq m.sock /\ (k.q.number = 0 => "KICK" \in m.sock)
      /\ \A i \in 0..k.q.number - 1 : At(m.q, i) = At(k.q, i)
      /\ \/ m.q = k.q /\ k.q.number # 0
         \/ /\ m.q.number = k.q.number + 1
            /\ At(m.q, k.q.number) = [type |-> type, fn |-> TRUE]
  BY <1>1, PostEffect
<1>3. g.q.number \in Nat /\ k.q.number \in Nat /\ m.q.number \in Nat /\ g.q.number <= k.q.number
  BY <1>1, <1>2, HalNumber DEF Follows
<1>4. g.q.number <= m.q.number
  BY <1>2, <1>3
<1>5. ASSUME NEW i \in 0..g.q.number - 1
      PROVE  At(m.q, i) = At(g.q, i)
  <2>1. i \in 0..k.q.number - 1
    BY <1>3
  <2> QED  BY <2>1, <1>2 DEF Kept
<1>6. ASSUME NEW i \in g.q.number..m.q.number - 1, At(m.q, i).type \in TimerIds
      PROVE  /\ abs[At(m.q, i).type] # 0 /\ Expired(abs[At(m.q, i).type], at)
             /\ m.abs[At(m.q, i).type] = 0
  <2>1. CASE i \in 0..k.q.number - 1
    <3>1. i \in g.q.number..k.q.number - 1 /\ At(m.q, i) = At(k.q, i)
      BY <2>1, <1>2, <1>3
    <3> QED  BY <3>1, <1>2, <1>6 DEF Follows
  <2>2. CASE i \notin 0..k.q.number - 1
    <3>1. i = k.q.number /\ m.q.number = k.q.number + 1
      BY <2>2, <1>2, <1>3
    <3>2. At(m.q, i).type = type
      BY <3>1, <1>2, <1>3
    <3> QED  BY <3>2, <1>6
  <2> QED  BY <2>1, <2>2
<1>7. ASSUME NEW t, Posted(g, k, t)
      PROVE  Posted(g, m, t)
  <2>1. PICK i \in g.q.number..k.q.number - 1 : At(k.q, i) = [type |-> t, fn |-> TRUE]
    BY <1>7 DEF Posted
  <2>2. i \in 0..k.q.number - 1 /\ i \in g.q.number..m.q.number - 1
    BY <1>2, <1>3
  <2> QED  BY <2>1, <2>2, <1>2 DEF Posted
<1>8. Told(g, m, abs, memory)
  BY <1>2, <1>7 DEF Told
<1> QED  BY <1>2, <1>4, <1>5, <1>6, <1>8 DEF Follows, Kept

(* The flush that ends a cancel. *)
LEMMA CancelledFollows ==
    ASSUME NEW g \in Hal, NEW k, NEW abs, NEW at, Follows(g, k, abs, at), Kept(g, k),
           NEW t \in TimerIds, NEW m, m = Cancelled(k, t)
    PROVE  /\ Follows(g, m, abs, at) /\ Flushed(g, m, t) /\ m.abs = k.abs
           /\ \A memory : abs[t] = 0 /\ Told(g, k, abs, memory) => Told(g, m, abs, memory)
<1>1. k \in Hal
  BY DEF Follows
<1>2. /\ m \in Hal /\ m.abs = k.abs /\ m.sock = k.sock /\ m.q.number = k.q.number
      /\ \A i \in 0..k.q.number - 1 : At(m.q, i) = Blanked(At(k.q, i), t)
  BY <1>1, CancelledEffect
<1>3. g.q.number \in Nat /\ k.q.number \in Nat /\ g.q.number <= k.q.number
  BY <1>1, <1>2, HalNumber DEF Follows
<1>4. ASSUME NEW i \in 0..g.q.number - 1
      PROVE  At(m.q, i) = Blanked(At(g.q, i), t)
  <2>1. i \in 0..k.q.number - 1
    BY <1>3
  <2> QED  BY <2>1, <1>2 DEF Kept
<1>5. \A c \in Calls : Blanked(c, t).type = c.type /\ (c.type = t => ~Blanked(c, t).fn)
  BY DEF Blanked
<1>6. ASSUME NEW i \in 0..m.q.number - 1
      PROVE  At(m.q, i).type = At(k.q, i).type /\ ~(At(m.q, i).type = t /\ At(m.q, i).fn)
  <2>1. At(k.q, i) \in Calls /\ At(m.q, i) = Blanked(At(k.q, i), t)
    BY <1>1, <1>2, HalNumber
  <2> QED  BY <2>1, <1>5
<1>7. ASSUME NEW i \in g.q.number..m.q.number - 1, At(m.q, i).type \in TimerIds
      PROVE  /\ abs[At(m.q, i).type] # 0 /\ Expired(abs[At(m.q, i).type], at)
             /\ m.abs[At(m.q, i).type] = 0
  <2>1. i \in 0..m.q.number - 1 /\ i \in g.q.number..k.q.number - 1
    BY <1>2, <1>3
  <2>2. At(m.q, i).type = At(k.q, i).type
    BY <2>1, <1>6
  <2> QED  BY <2>1, <2>2, <1>2, <1>7 DEF Follows
<1>8. ASSUME NEW u \in TimerIds, u # t, Posted(g, k, u)
      PROVE  Posted(g, m, u)
  <2>1. PICK i \in g.q.number..k.q.number - 1 : At(k.q, i) = [type |-> u, fn |-> TRUE]
    BY <1>8 DEF Posted
  <2>2. i \in 0..k.q.number - 1
    BY <1>3
  <2>3. At(m.q, i) = [type |-> u, fn |-> TRUE]
    BY <2>1, <2>2, <1>2, <1>8 DEF Blanked
  <2> QED  BY <2>3, <1>2 DEF Posted
<1>9. ASSUME NEW memory, abs[t] = 0, Told(g, k, abs, memory)
      PROVE  Told(g, m, abs, memory)
  BY <1>2, <1>8, <1>9 DEF Told
<1> QED  BY <1>2, <1>4, <1>6, <1>7, <1>9 DEF Follows, Flushed

-----------------------------------------------------------------------------
(* The actions in those terms. *)
LEMMA MemoryIsBoolean == Memory \subseteq BOOLEAN
  BY DEF Memory

(* The milliseconds between reading the clock and using it are a time.     *)
LEMMA LagIsTime ==
    /\ \A ms \in 0..MaxLag : ms \in Nat /\ (now \in 0..Mod - 1 => (now + ms) % Mod \in 0..Mod - 1)
    /\ \A g : Lags(g) \subseteq 0..MaxLag
<1>1. MaxLag \in Nat
  BY EventsAssumption, TimerAssumption
<1> QED  BY <1>1, SetTimeInRange DEF Lags

(* The assignments after a poll of the driver thread change neither the    *)
(* calls nor the timers.                                                   *)
LEMMA CompletedFollows ==
    ASSUME now \in 0..Mod - 1, NEW g \in Hal, NEW k, NEW abs, NEW at, Follows(g, k, abs, at),
           Kept(g, k), NEW memory, Told(g, k, abs, memory), NEW ms \in 0..MaxLag,
           NEW m, m = Completed(k, ms)
    PROVE  Follows(g, m, abs, at) /\ Kept(g, m) /\ Told(g, m, abs, memory) /\ m.abs = k.abs
<1>1. (now + ms) % Mod \in 0..Mod - 1
  BY LagIsTime
<1>2. PICK time \in 0..Mod - 1 : time = (now + ms) % Mod
  BY <1>1
<1>3. PICK v : v = Valued(k, time)
  OBVIOUS
<1>4. Follows(g, v, abs, at) /\ Kept(g, v) /\ Told(g, v, abs, memory) /\ v.abs = k.abs
  BY <1>3, AssignedFollows
<1>5. m = Armed(v)
  BY <1>2, <1>3 DEF Completed
<1> QED  BY <1>2, <1>4, <1>5, AssignedFollows

(* The poll of the driver thread. *)
LEMMA EnterFollows ==
    ASSUME EventTypes, Enter
    PROVE  /\ Follows(h, h', h.abs, now) /\ Kept(h, h')
           /\ \E memory \in BOOLEAN : /\ Told(h, h', h.abs, memory)
                                      /\ due' = Remaining(due, h', memory)
<1> DEFINE e == [h EXCEPT !.expired = FALSE]
           p(memory) == IF h.expired THEN PNALMultiTimerPoll(e, now, TRUE, memory) ELSE h
<1>1. PICK memory \in Memory, posts \in BOOLEAN : \E ms \in Lags(p(memory)) :
        /\ h' = IF posts THEN Post(Completed(p(memory), ms), Frame, memory)
                ELSE Completed(p(memory), ms)
        /\ due' = Remaining(due, h', memory)
  BY DEF Enter
<1>2. memory \in BOOLEAN /\ h \in Hal /\ now \in 0..Mod - 1
  BY MemoryIsBoolean DEF EventTypes
<1>3. PICK g : g = p(memory)
  OBVIOUS
<1>4. PICK ms \in 0..MaxLag : /\ h' = IF posts THEN Post(Completed(g, ms), Frame, memory)
                                      ELSE Completed(g, ms)
                              /\ due' = Remaining(due, h', memory)
  BY <1>1, <1>3, LagIsTime
<1>5. Follows(h, g, h.abs, now) /\ Kept(h, g) /\ Told(h, g, h.abs, memory)
  <2>1. CASE h.expired
    <3>1. PICK f : f = e
      OBVIOUS
    <3>2. f \in Hal /\ f.q = h.q /\ f.abs = h.abs /\ f.sock = h.sock
      BY <1>2, <3>1 DEF Hal
    <3>3. g = PNALMultiTimerPoll(f, now, TRUE, memory)
      BY Zenon, <1>3, <2>1, <3>1
    <3>4. Follows(f, g, f.abs, now) /\ Kept(f, g) /\ Told(f, g, f.abs, memory)
      BY <1>2, <3>2, <3>3, PollOnlyFollows
    <3> QED  BY <3>2, <3>4 DEF Follows, Kept, Told, Posted
  <2>2. CASE ~h.expired
    BY <1>2, <1>3, <2>2, StaysFollows
  <2> QED  BY <2>1, <2>2
<1> HIDE DEF p, e
<1>6. PICK k : k = Completed(g, ms)
  OBVIOUS
<1>7. Follows(h, k, h.abs, now) /\ Kept(h, k) /\ Told(h, k, h.abs, memory)
  BY <1>2, <1>5, <1>6, CompletedFollows
<1>8. Frame \in CallTypes \ TimerIds
  BY CallTypesApart
<1>9. Follows(h, h', h.abs, now) /\ Kept(h, h') /\ Told(h, h', h.abs, memory)
  <2>1. CASE posts
    <3>1. h' = Post(k, Frame, memory)
      BY <1>4, <1>6, <2>1
    <3> QED  BY <1>2, <1>7, <1>8, <3>1, PostFollows
  <2>2. CASE ~posts
    <3>1. h' = k
      BY <1>4, <1>6, <2>2
    <3> QED  BY <1>7, <3>1
  <2> QED  BY <2>1, <2>2
<1> QED  BY <1>2, <1>4, <1>9

(* A timer is set, in a deferred call or by the other thread. *)
LEMMA SetsFollows ==
    ASSUME EventTypes, NEW t \in TimerIds, NEW timeout \in Timeouts,
           CallSets(t, timeout) \/ UserSets(t, timeout)
    PROVE  /\ (now + timeout) % Mod \in 0..Mod - 1
           /\ Follows(h, h', [h.abs EXCEPT ![t] = (now + timeout) % Mod], now) /\ Kept(h, h')
           /\ \E memory \in BOOLEAN :
                /\ Told(h, h', [h.abs EXCEPT ![t] = (now + timeout) % Mod], memory)
                /\ due' = Remaining([due EXCEPT ![t] = (now + timeout) % Mod], h', memory)
<1>1. PICK memory \in Memory :
        /\ \/ \E ms \in Lags(SetTimer(h, t, timeout, now, memory)) :
                h' = Completed(SetTimer(h, t, timeout, now, memory), ms)
           \/ h' = SetTimer(h, t, timeout, now, memory)
        /\ due' = Remaining([due EXCEPT ![t] = (now + timeout) % Mod], h', memory)
  BY DEF CallSets, UserSets
<1>2. memory \in BOOLEAN /\ h \in Hal /\ now \in 0..Mod - 1 /\ timeout \in Nat
  <2>1. Timeouts \subseteq Nat
    BY EventsAssumption
  <2> QED  BY <2>1, MemoryIsBoolean DEF EventTypes
<1>3. PICK p : p = SetTimer(h, t, timeout, now, memory)
  OBVIOUS
<1>4. PICK e : e = (now + timeout) % Mod
  OBVIOUS
<1>5. e \in 0..Mod - 1 /\ p = PNALMultiTimerPoll(WithTimer(h, t, e), now, NotElapsed, memory)
  BY <1>2, <1>3, <1>4, SetIsPoll, SetTimeInRange
<1>6. NotElapsed \in BOOLEAN
  BY DEF NotElapsed
<1> DEFINE abs == [h.abs EXCEPT ![t] = e]
<1>7. Follows(h, p, abs, now) /\ Kept(h, p) /\ Told(h, p, abs, memory)
  BY <1>2, <1>5, <1>6, PollFollows
<1> HIDE DEF abs
<1>8. ASSUME NEW ms \in 0..MaxLag, NEW m, m = Completed(p, ms)
      PROVE  Follows(h, m, abs, now) /\ Kept(h, m) /\ Told(h, m, abs, memory)
  BY <1>2, <1>7, <1>8, CompletedFollows
<1>9. h' = p \/ \E ms \in 0..MaxLag : h' = Completed(p, ms)
  BY <1>1, <1>3, LagIsTime
<1>10. Follows(h, h', abs, now) /\ Kept(h, h') /\ Told(h, h', abs, memory)
  BY <1>7, <1>8, <1>9
<1> QED  BY <1>1, <1>2, <1>4, <1>5, <1>10 DEF abs

(* The first half of a cancel. *)
LEMMA CancelFollows ==
    ASSUME EventTypes, NEW t \in TimerIds, NEW memory \in Memory,
           NEW p, p = CancelTimer(h, t, now, memory)
    PROVE  /\ Follows(h, p, [h.abs EXCEPT ![t] = 0], now) /\ Kept(h, p) /\ p.abs[t] = 0
           /\ Told(h, p, [h.abs EXCEPT ![t] = 0], memory)
<1>1. memory \in BOOLEAN /\ h \in Hal /\ now \in 0..Mod - 1 /\ 0 \in 0..Mod - 1
  BY MemoryIsBoolean, TimerAssumption DEF EventTypes
<1>4. NotElapsed \in BOOLEAN
  BY DEF NotElapsed
<1>2. CASE h.abs[t] # 0
  <2>1. p = PNALMultiTimerPoll(WithTimer(h, t, 0), now, NotElapsed, memory)
    BY <1>2, CancelIsPoll
  <2> QED  BY <1>1, <1>4, <2>1, PollFollows
<1>3. CASE h.abs[t] = 0
  <2>1. p = h
    BY <1>3, CancelIsPoll
  <2>2. [h.abs EXCEPT ![t] = 0] = h.abs
    BY <1>1, <1>3 DEF Hal
  <2> QED  BY <1>1, <1>3, <2>1, <2>2, StaysFollows
<1> QED  BY <1>2, <1>3

(* What a cancel leaves to be due, when it or its first half made h. *)
DueAfterCancel(t) ==
    \E memory \in BOOLEAN : /\ Told(h, h', [h.abs EXCEPT ![t] = 0], memory)
                            /\ due' = Remaining([due EXCEPT ![t] = NotSet], h', memory)

(* PNALMultiTimerCancel by a callback: the timer is off and its queued callback gone. *)
LEMMA CallCancelsFollows ==
    ASSUME EventTypes, NEW t \in TimerIds, CallCancels(t)
    PROVE  /\ Follows(h, h', [h.abs EXCEPT ![t] = 0], now) /\ Flushed(h, h', t) /\ h'.abs[t] = 0
           /\ DueAfterCancel(t)
<1>1. PICK memory \in Memory :
        /\ \E ms \in Lags(CancelTimer(h, t, now, memory)) :
             h' = Cancelled(Completed(CancelTimer(h, t, now, memory), ms), t)
        /\ due' = Remaining([due EXCEPT ![t] = NotSet], h', memory)
  BY DEF CallCancels
<1>2. PICK p : p = CancelTimer(h, t, now, memory)
  OBVIOUS
<1>3. PICK ms \in 0..MaxLag : h' = Cancelled(Completed(p, ms), t)
  BY <1>1, <1>2, LagIsTime
<1>4. PICK a : a = Completed(p, ms)
  OBVIOUS
<1> DEFINE abs == [h.abs EXCEPT ![t] = 0]
<1>5. Follows(h, p, abs, now) /\ Kept(h, p) /\ p.abs[t] = 0 /\ Told(h, p, abs, memory)
  BY <1>2, CancelFollows
<1>6. h \in Hal /\ now \in 0..Mod - 1 /\ memory \in BOOLEAN
  BY MemoryIsBoolean DEF EventTypes
<1>7. abs[t] = 0
  BY <1>6 DEF Hal
<1> HIDE DEF abs
<1>8. Follows(h, a, abs, now) /\ Kept(h, a) /\ Told(h, a, abs, memory) /\ a.abs[t] = 0
  BY <1>4, <1>5, <1>6, CompletedFollows
<1>9. h' = Cancelled(a, t)
  BY <1>3, <1>4
<1>10. Follows(h, h', abs, now) /\ Flushed(h, h', t) /\ h'.abs = a.abs /\ Told(h, h', abs, memory)
  BY <1>6, <1>7, <1>8, <1>9, CancelledFollows
<1> QED  BY <1>1, <1>6, <1>8, <1>10 DEF abs, DueAfterCancel

(* The first half of a cancel by the other thread: the timer is off, the queue as it was. *)
LEMMA UserCancelsFollows ==
    ASSUME EventTypes, NEW t \in TimerIds, UserCancels(t)
    PROVE  /\ Follows(h, h', [h.abs EXCEPT ![t] = 0], now) /\ Kept(h, h') /\ h'.abs[t] = 0
           /\ DueAfterCancel(t)
<1>1. PICK memory \in Memory : /\ h' = CancelTimer(h, t, now, memory)
                               /\ due' = Remaining([due EXCEPT ![t] = NotSet], h', memory)
  BY DEF UserCancels
<1>2. memory \in BOOLEAN
  BY MemoryIsBoolean
<1> QED  BY <1>1, <1>2, CancelFollows DEF DueAfterCancel

(* The other thread's first assignment to the platform timer. *)
LEMMA UserAssignsFollows ==
    ASSUME EventTypes, UserAssigns
    PROVE  Follows(h, h', h.abs, now) /\ Kept(h, h') /\ h'.abs = h.abs
<1>1. h \in Hal /\ now \in 0..Mod - 1 /\ h' = Valued(h, now)
  BY DEF EventTypes, UserAssigns
<1>2. h' \in Hal /\ h'.q = h.q /\ h'.abs = h.abs /\ h'.sock = h.sock
  BY <1>1, ValuedEffect
<1> QED  BY <1>1, <1>2, StaysFollows

(* The end of the other thread's call: the entropy after a set, the flush  *)
(* after a cancel.                                                         *)
LEMMA UserLeavesFollows ==
    ASSUME EventTypes, UserLeaves
    PROVE  /\ Follows(h, h', h.abs, now) /\ h'.abs = h.abs
           /\ user.op = "set" => Kept(h, h')
           /\ user.op # "set" => Flushed(h, h', user.t)
<1>1. PICK memory \in Memory : h' = IF user.op = "set" THEN Post(Armed(h), Entropy, memory)
                                    ELSE Cancelled(Armed(h), user.t)
  BY DEF UserLeaves
<1>2. memory \in BOOLEAN /\ h \in Hal /\ user.t \in TimerIds /\ now \in 0..Mod - 1
  BY MemoryIsBoolean DEF EventTypes
<1>3. Follows(h, h, h.abs, now) /\ Kept(h, h) /\ Told(h, h, h.abs, memory)
  BY <1>2, StaysFollows
<1>4. PICK a : a = Armed(h)
  OBVIOUS
<1>5. Follows(h, a, h.abs, now) /\ Kept(h, a) /\ a.abs = h.abs /\ Told(h, a, h.abs, memory)
  BY <1>2, <1>3, <1>4, AssignedFollows
<1>6. Entropy \in CallTypes \ TimerIds
  BY CallTypesApart
<1>7. CASE user.op = "set"
  <2>1. h' = Post(a, Entropy, memory)
    BY <1>1, <1>4, <1>7
  <2> QED  BY <1>2, <1>5, <1>6, <1>7, <2>1, PostFollows
<1>8. CASE user.op # "set"
  <2>1. h' = Cancelled(a, user.t)
    BY <1>1, <1>4, <1>8
  <2> QED  BY <1>2, <1>5, <1>8, <2>1, CancelledFollows
<1> QED  BY <1>7, <1>8

(* A post by the link layer, or by the binding for the upper layer. *)
LEMMA PostsFollows ==
    ASSUME EventTypes, CallPosts \/ UserPosts
    PROVE  Follows(h, h', h.abs, now) /\ Kept(h, h') /\ h'.abs = h.abs
<1>1. PICK memory \in Memory : h' = Post(h, Frame, memory)
  BY DEF CallPosts, UserPosts
<1>2. memory \in BOOLEAN /\ h \in Hal /\ Frame \in CallTypes \ TimerIds
  BY MemoryIsBoolean, CallTypesApart DEF EventTypes
<1>3. Follows(h, h, h.abs, now) /\ Kept(h, h) /\ Told(h, h, h.abs, memory)
  BY <1>2, StaysFollows
<1> QED  BY <1>1, <1>2, <1>3, PostFollows

-----------------------------------------------------------------------------
(* Types, the critical section, and where calls are made. *)
Shape == EventTypes /\ Exclusion /\ Pumping

(* The loop starts with the types, outside the critical section. *)
LEMMA ShapeInit == Init => Shape
<1> SUFFICES ASSUME Init PROVE Shape
  OBVIOUS
<1>1. PNALDFCCreate \in Queue
  BY CreatedQueue
<1>2. Never \in 0..Mod - 1 /\ 0 \in 0..Mod - 1 /\ 0 \in TimerIds
  BY TimerAssumption DEF Never, TimerIds
<1>3. Created \in Hal
  BY <1>1, <1>2 DEF Created, Hal
<1>4. /\ 0 \in -MaxLate..Mod /\ -1 \in -1..Mod - 1 /\ -1 \in -1..Mod - 1 + MaxLag
      /\ Start \in 0..Mod - 1
  <2>1. MaxLate \in Nat /\ MaxLag \in Nat
    BY EventsAssumption, TimerAssumption
  <2> QED  BY <2>1, EventsAssumption, TimerAssumption
<1>5. EventTypes
  BY <1>2, <1>3, <1>4 DEF Init, EventTypes, Idle, Forever, NotSet, NoUser
<1> QED  BY <1>5 DEF Init, Shape, Exclusion, Pumping, NoUser

(* The assumptions on the bounds, as numbers. *)
LEMMA Bounds ==
    /\ MaxLate \in Nat /\ MaxLate >= 1 /\ Mod \in Nat /\ Mod > 0
    /\ MaxLag \in Nat /\ MaxLag <= MaxLate
    /\ \E half \in Nat : Mod = 2 * half /\ Mod \div 2 = half /\ MaxLate <= half - 2
    /\ \A timeout \in Timeouts : timeout \in Nat /\ timeout <= Mod \div 2 - 2
    /\ UserTimers \subseteq TimerIds
<1>1. Mod \in Nat /\ Mod > 0 /\ Mod % 2 = 0
  BY TimerAssumption
<1>2. Mod \div 2 \in Nat /\ Mod = 2 * (Mod \div 2)
  BY <1>1
<1> QED  BY <1>1, <1>2, EventsAssumption

(* The timers that a step of Next is about. *)
LEMMA NextCases ==
    ASSUME Next
    PROVE  \/ Look \/ Compare \/ SelectData \/ SelectControl \/ SelectTimeout \/ Expire \/ Enter
           \/ Pump \/ Leave \/ UpperReturns \/ CallReturns \/ CallPosts \/ UserAssigns
           \/ UserLeaves \/ UserPosts \/ Tick
           \/ \E t \in TimerIds : \/ CallCancels(t) \/ UserCancels(t)
                                  \/ \E timeout \in Timeouts :
                                       CallSets(t, timeout) \/ UserSets(t, timeout)
  BY Bounds DEF Next, Driver

(* The pump takes a call out of the queue and changes nothing else of h. *)
LEMMA PumpEffect ==
    ASSUME EventTypes, Pump
    PROVE  /\ h' \in Hal /\ h'.q.number = h.q.number - 1 /\ h'.abs = h.abs /\ h'.sock = h.sock
           /\ h.q.number \in Nat /\ h.q.number # 0
           /\ Oldest(h.q) = At(h.q, 0) /\ Oldest(h.q) \in Calls
           /\ \A i \in 0..h'.q.number - 1 : At(h'.q, i) = At(h.q, i + 1)
<1>1. h' = [h EXCEPT !.q = Popped(h.q)] /\ h.q.number # 0 /\ h \in Hal
  BY DEF Pump, EventTypes
<1>2. PICK r : r = Popped(h.q)
  OBVIOUS
<1>3. h.q \in Queue /\ h.q.number \in Nat /\ \A i \in 0..h.q.number - 1 : At(h.q, i) \in Calls
  BY <1>1, HalNumber
<1>4. /\ r \in Queue /\ r.number = h.q.number - 1 /\ Oldest(h.q) = At(h.q, 0)
      /\ \A i \in 0..r.number - 1 : At(r, i) = At(h.q, i + 1)
  BY <1>1, <1>2, <1>3, PopTakesTheOldest
<1>5. h' = [h EXCEPT !.q = r]
  BY <1>1, <1>2
<1>6. h' \in Hal /\ h'.q = r /\ h'.abs = h.abs /\ h'.sock = h.sock
  BY <1>1, <1>4, <1>5 DEF Hal
<1>7. At(h.q, 0) \in Calls
  BY <1>1, <1>3
<1> QED  BY <1>1, <1>3, <1>4, <1>6, <1>7

(* Every step keeps the state of the timers one. *)
LEMMA HalStep ==
    ASSUME EventTypes, Next
    PROVE  h' \in Hal
<1>1. CASE Look \/ Compare \/ SelectData \/ SelectTimeout \/ Leave \/ UpperReturns \/ CallReturns
           \/ Tick
  BY <1>1 DEF Look, Compare, SelectData, SelectTimeout, Leave, UpperReturns, CallReturns, Tick,
              EventTypes
<1>2. CASE SelectControl
  BY <1>2 DEF SelectControl, EventTypes, Hal
<1>3. CASE Expire
  <2>1. 0 \in 0..Mod - 1
    BY TimerAssumption
  <2>2. CASE h' = [h EXCEPT !.value = 0]
    BY <2>1, <2>2 DEF EventTypes, Hal
  <2>3. CASE h' = [h EXCEPT !.expired = TRUE]
    BY <2>3 DEF EventTypes, Hal
  <2> QED  BY <1>3, <2>2, <2>3 DEF Expire
<1>4. CASE Enter
  BY <1>4, EnterFollows DEF Follows
<1>5. CASE Pump
  BY <1>5, PumpEffect
<1>6. CASE UserAssigns \/ UserLeaves \/ CallPosts \/ UserPosts
  BY <1>6, UserAssignsFollows, UserLeavesFollows, PostsFollows DEF Follows
<1>7. ASSUME NEW t \in TimerIds, CallCancels(t) \/ UserCancels(t)
      PROVE  h' \in Hal
  BY <1>7, CallCancelsFollows, UserCancelsFollows DEF Follows
<1>8. ASSUME NEW t \in TimerIds, NEW timeout \in Timeouts,
             CallSets(t, timeout) \/ UserSets(t, timeout)
      PROVE  h' \in Hal
  BY <1>8, SetsFollows DEF Follows
<1> QED  BY <1>1, <1>2, <1>3, <1>4, <1>5, <1>6, <1>7, <1>8, NextCases

(* The times the timers are due are times of the clock. *)
LEMMA RemainingTypes ==
    ASSUME NEW d \in [TimerIds -> -1..Mod - 1], NEW g, NEW memory
    PROVE  Remaining(d, g, memory) \in [TimerIds -> -1..Mod - 1]
  BY Bounds DEF Remaining, NotSet

LEMMA DueTypes ==
    ASSUME EventTypes, Enter \/ \E t \in TimerIds : \/ CallCancels(t) \/ UserCancels(t)
                                                  \/ \E timeout \in Timeouts :
                                                       CallSets(t, timeout) \/ UserSets(t, timeout)
    PROVE  due' \in [TimerIds -> -1..Mod - 1]
<1>1. CASE Enter
  BY <1>1, EnterFollows, RemainingTypes DEF EventTypes
<1>2. ASSUME NEW t \in TimerIds, CallCancels(t) \/ UserCancels(t)
      PROVE  due' \in [TimerIds -> -1..Mod - 1]
  <2>1. PICK d : d = [due EXCEPT ![t] = NotSet]
    OBVIOUS
  <2>2. d \in [TimerIds -> -1..Mod - 1]
    BY <2>1, Bounds DEF EventTypes, NotSet
  <2>3. PICK memory \in BOOLEAN : due' = Remaining(d, h', memory)
    BY <1>2, <2>1, CallCancelsFollows, UserCancelsFollows DEF DueAfterCancel
  <2> QED  BY <2>2, <2>3, RemainingTypes
<1>3. ASSUME NEW t \in TimerIds, NEW timeout \in Timeouts,
             CallSets(t, timeout) \/ UserSets(t, timeout)
      PROVE  due' \in [TimerIds -> -1..Mod - 1]
  <2>1. PICK d : d = [due EXCEPT ![t] = (now + timeout) % Mod]
    OBVIOUS
  <2>2. PICK memory \in BOOLEAN : (now + timeout) % Mod \in 0..Mod - 1 /\ due' = Remaining(d, h', memory)
    BY <1>3, <2>1, SetsFollows
  <2>3. d \in [TimerIds -> -1..Mod - 1]
    BY <2>1, <2>2, Bounds DEF EventTypes
  <2> QED  BY <2>2, <2>3, RemainingTypes
<1> QED  BY <1>1, <1>2, <1>3

(* Every step keeps the types, the critical section and the place of the calls. *)
LEMMA ShapeStep == Shape /\ [Next]_vars => Shape'
<1> SUFFICES ASSUME Shape, [Next]_vars PROVE Shape'
  OBVIOUS
<1> USE DEF Shape
<1>1. CASE UNCHANGED vars
  BY <1>1 DEF vars, EventTypes, Exclusion, Pumping
<1>2. CASE Next
  <2>1. h' \in Hal
    BY <1>2, HalStep
  <2>2. CASE Look \/ Compare \/ SelectData \/ SelectControl \/ SelectTimeout \/ Expire
    <3>1. wait' \in -1..Mod - 1 + MaxLag
      <4>1. h.value \in 0..Mod - 1 /\ now \in 0..Mod - 1 /\ Mod \in Nat /\ MaxLag \in Nat
        BY Bounds DEF EventTypes, Hal
      <4>2. h.value > now =>
              \A ms \in 0..MaxLag : h.value - now + ms \in -1..Mod - 1 + MaxLag
        BY <4>1
      <4>3. Forever \in -1..Mod - 1 + MaxLag /\ wait \in -1..Mod - 1 + MaxLag
        BY Bounds DEF Forever, EventTypes
      <4> QED  BY <2>2, <4>2, <4>3
                 DEF Look, Compare, SelectData, SelectControl, SelectTimeout, Expire
    <3>2. lost' \in {"no", "race", "zero"}
      BY <2>2 DEF Look, Compare, SelectData, SelectControl, SelectTimeout, Expire, EventTypes
    <3> QED  BY <2>1, <2>2, <3>1, <3>2
               DEF Look, Compare, SelectData, SelectControl, SelectTimeout, Expire, Goes,
                   EventTypes, Exclusion, Pumping
  <2>3. CASE Enter
    <3>1. lost' \in {"no", "race", "zero"}
      BY <2>3 DEF Enter, Outcome, EventTypes
    <3> QED  BY <2>1, <2>3, <3>1, DueTypes DEF Enter, Goes, EventTypes, Exclusion, Pumping
  <2>4. CASE Pump
    <3>1. Oldest(h.q).type \in CallTypes
      BY <2>4, PumpEffect DEF Calls
    <3>2. current' \in CallTypes \union {Idle}
      BY <2>4, <3>1 DEF Pump, EventTypes
    <3>3. silent' \in SUBSET TimerIds
      BY <2>4 DEF Pump, EventTypes
    <3>4. /\ driver' \in {"pump", "call", "upper"} /\ lock' \in {"free", "driver"}
          /\ lock' = "driver" <=> driver' \in {"pump", "call"}
          /\ driver' \in {"call", "upper"} \/ current' = Idle
      BY <2>4 DEF Pump, EventTypes, Exclusion, Pumping
    <3> QED  BY <2>1, <2>4, <3>2, <3>3, <3>4 DEF Pump, EventTypes, Exclusion, Pumping
  <2>5. CASE Leave \/ UpperReturns \/ CallReturns \/ CallPosts \/ UserAssigns \/ UserPosts
    BY <2>1, <2>5 DEF Leave, UpperReturns, CallReturns, CallPosts, UserAssigns, UserPosts, Outcome,
                      Goes, EventTypes, Exclusion, Pumping
  <2>6. CASE UserLeaves
    <3>1. NoUser \in [op : {"none", "set", "cancel"}, t : TimerIds] /\ NoUser.op = "none"
      BY TimerAssumption DEF NoUser, TimerIds
    <3>2. silent' \in SUBSET TimerIds
      BY <2>6 DEF UserLeaves, EventTypes
    <3> QED  BY <2>1, <2>6, <3>1, <3>2 DEF UserLeaves, EventTypes, Exclusion, Pumping
  <2>7. CASE Tick
    <3>1. now' \in 0..Mod - 1
      BY <2>7, Bounds DEF Tick, EventTypes
    <3>2. wait' \in -1..Mod - 1 + MaxLag
      BY <2>7, Bounds DEF Tick, EventTypes
    <3>3. left' \in [TimerIds -> -MaxLate..Mod]
      <4>1. ASSUME NEW t \in TimerIds
            PROVE  (IF due[t] = NotSet THEN 0
                    ELSE IF left[t] > -MaxLate THEN left[t] - 1 ELSE left[t]) \in -MaxLate..Mod
        <5>1. left[t] \in -MaxLate..Mod
          BY DEF EventTypes
        <5> QED  BY <5>1, Bounds
      <4> QED  BY <2>7, <4>1 DEF Tick
    <3> QED  BY <2>1, <2>7, <3>1, <3>2, <3>3 DEF Tick, EventTypes, Exclusion, Pumping
  <2>8. ASSUME NEW t \in TimerIds, CallCancels(t) \/ UserCancels(t)
        PROVE  Shape'
    <3>1. CASE CallCancels(t)
      BY <2>1, <3>1, DueTypes DEF CallCancels, Outcome, EventTypes, Exclusion, Pumping
    <3>2. CASE UserCancels(t)
      BY <2>1, <3>2, DueTypes DEF UserCancels, EventTypes, Exclusion, Pumping, NoUser
    <3> QED  BY <2>8, <3>1, <3>2
  <2>9. ASSUME NEW t \in TimerIds, NEW timeout \in Timeouts,
               CallSets(t, timeout) \/ UserSets(t, timeout)
        PROVE  Shape'
    <3>1. timeout \in -MaxLate..Mod
      BY Bounds
    <3>2. left' \in [TimerIds -> -MaxLate..Mod] /\ silent' \in SUBSET TimerIds
      BY <2>9, <3>1 DEF CallSets, UserSets, EventTypes
    <3>3. CASE CallSets(t, timeout)
      BY <2>1, <3>2, <3>3, DueTypes DEF CallSets, Outcome, Goes, EventTypes, Exclusion, Pumping
    <3>4. CASE UserSets(t, timeout)
      BY <2>1, <3>2, <3>4, DueTypes DEF UserSets, EventTypes, Exclusion, Pumping, NoUser
    <3> QED  BY <2>9, <3>3, <3>4
  <2> QED  BY <1>2, <2>2, <2>3, <2>4, <2>5, <2>6, <2>7, <2>8, <2>9, NextCases
<1> QED  BY <1>1, <1>2

-----------------------------------------------------------------------------
(* A timer that is set and still to come is not taken for an expired one,  *)
(* on either side of the clock's wrap-around.                              *)
LEMMA ExpiredIsDue ==
    ASSUME NEW abs \in [TimerIds -> 0..Mod - 1], NEW rest \in [TimerIds -> -MaxLate..Mod],
           NEW at \in 0..Mod - 1, OnTime(abs, rest, at),
           NEW t \in TimerIds, abs[t] # 0, Expired(abs[t], at)
    PROVE  rest[t] <= 0
<1>1. PICK half \in Nat : Mod = 2 * half /\ Mod \div 2 = half
  BY Bounds
<1>2. PICK e \in 0..Mod - 1 : e = abs[t]
  OBVIOUS
<1>3. PICK d \in Int : d = rest[t]
  BY Bounds
<1>4. d <= half - 2 /\ (e = at + d \/ e = at + d - Mod \/ e = at + d + Mod)
  BY <1>1, <1>2, <1>3 DEF OnTime
<1>5. (IF e <= at THEN at - e ELSE Mod - 1 - e + at) <= half - 1
  BY <1>1, <1>2 DEF Expired, Ago
<1>6. d <= 0
  BY <1>1, <1>4, <1>5
<1> QED  BY <1>3, <1>6

(* A timer that is set is due after its timeout. *)
LEMMA SetOnTime ==
    ASSUME NEW abs \in [TimerIds -> 0..Mod - 1], NEW rest \in [TimerIds -> -MaxLate..Mod],
           NEW at \in 0..Mod - 1, OnTime(abs, rest, at),
           NEW t \in TimerIds, NEW timeout \in Timeouts
    PROVE  OnTime([abs EXCEPT ![t] = (at + timeout) % Mod], [rest EXCEPT ![t] = timeout], at)
<1>1. PICK half \in Nat : Mod = 2 * half /\ Mod \div 2 = half /\ MaxLate <= half - 2
  BY Bounds
<1>2. /\ timeout \in Nat /\ timeout <= half - 2 /\ MaxLate \in Nat
      /\ Mod \in Nat /\ Mod > 0
  BY <1>1, Bounds
<1>3. (at + timeout) % Mod \in {at + timeout, at + timeout - Mod}
  <2>1. CASE at + timeout < Mod
    BY <2>1, <1>2
  <2>2. CASE at + timeout >= Mod
    <3>1. PICK x \in Nat : x = at + timeout - Mod /\ x < Mod
      BY <1>1, <1>2, <2>2
    <3>2. (x + Mod) % Mod = x
      BY <1>2, <3>1
    <3>3. x + Mod = at + timeout
      BY <1>2, <3>1
    <3> QED  BY <3>1, <3>2, <3>3
  <2> QED  BY <2>1, <2>2, <1>2
<1>4. timeout \in -MaxLate..Mod \div 2 - 2
  BY <1>1, <1>2
<1> QED  BY <1>3, <1>4 DEF OnTime

(* Resetting timers keeps the others on time. *)
LEMMA ResetOnTime ==
    ASSUME NEW abs, NEW rest, NEW at, OnTime(abs, rest, at), NEW k,
           \A t \in TimerIds : k[t] \in {abs[t], 0}
    PROVE  OnTime(k, rest, at)
  BY DEF OnTime

(* And so does the clock, when it wraps around too. *)
LEMMA TickOnTime ==
    ASSUME Shape, Agree(h.abs, due), OnTime(h.abs, left, now), Tick
    PROVE  OnTime(h.abs, left', now')
<1>1. PICK half \in Nat : Mod = 2 * half /\ Mod \div 2 = half
  BY Bounds
<1>2. now \in 0..Mod - 1 /\ Mod \in Nat /\ Mod > 0 /\ MaxLate \in Nat
  BY Bounds DEF Shape, EventTypes
<1>3. now' = IF now + 1 = Mod THEN 0 ELSE now + 1
  <2>1. now' = (now + 1) % Mod
    BY DEF Tick
  <2> QED  BY <1>2, <2>1
<1> SUFFICES ASSUME NEW t \in TimerIds, h.abs[t] # 0
             PROVE  /\ left'[t] \in -MaxLate..Mod \div 2 - 2
                    /\ h.abs[t] \in {now' + left'[t], now' + left'[t] - Mod, now' + left'[t] + Mod}
  BY DEF OnTime
<1>4. left'[t] = left[t] - 1 /\ left[t] > -MaxLate
  BY DEF Tick, Agree
<1>5. PICK d \in Int : d = left[t]
  BY <1>2 DEF Shape, EventTypes
<1>6. PICK e \in 0..Mod - 1 : e = h.abs[t]
  BY DEF Shape, EventTypes, Hal
<1>7. d \in -MaxLate..half - 2 /\ e \in {now + d, now + d - Mod, now + d + Mod}
  BY <1>1, <1>5, <1>6 DEF OnTime
<1>8. d - 1 \in -MaxLate..half - 2
  BY <1>1, <1>2, <1>4, <1>5, <1>7
<1>9. CASE now + 1 = Mod
  <2>1. now' = now + 1 - Mod
    BY <1>2, <1>3, <1>9
  <2>2. e # now + d + Mod
    BY <1>2, <1>9, <1>8, <1>1, <1>7, Bounds
  <2> QED  BY <1>1, <1>2, <1>4, <1>5, <1>6, <1>7, <1>8, <2>1, <2>2
<1>10. CASE now + 1 # Mod
  <2>1. now' = now + 1
    BY <1>3, <1>10
  <2> QED  BY <1>1, <1>2, <1>4, <1>5, <1>6, <1>7, <1>8, <2>1
<1> QED  BY <1>9, <1>10

(* After a poll, the timers that are due are those that are set: one that  *)
(* it has reset was posted, or lost for want of memory.                    *)
LEMMA RemainingAgree ==
    ASSUME NEW abs, NEW d, Agree(abs, d), NEW memory \in BOOLEAN,
           Follows(h, h', abs, now), Told(h, h', abs, memory)
    PROVE  Agree(h'.abs, Remaining(d, h', memory))
<1> SUFFICES ASSUME NEW t \in TimerIds
             PROVE  h'.abs[t] = IF Remaining(d, h', memory)[t] = NotSet THEN 0
                                ELSE Remaining(d, h', memory)[t]
  BY DEF Agree
<1>1. Remaining(d, h', memory)[t] =
        IF Posted(h, h', t) \/ (~memory /\ h'.abs[t] = 0 /\ d[t] # 0) THEN NotSet ELSE d[t]
  BY DEF Remaining, Posted
<1>2. abs[t] = IF d[t] = NotSet THEN 0 ELSE d[t]
  BY DEF Agree
<1>3. h'.abs[t] \in {abs[t], 0}
  BY DEF Follows
<1>4. CASE Posted(h, h', t)
  <2>1. PICK i \in h.q.number..h'.q.number - 1 : At(h'.q, i) = [type |-> t, fn |-> TRUE]
    BY <1>4 DEF Posted
  <2>2. At(h'.q, i).type = t
    BY <2>1
  <2>3. h'.abs[t] = 0
    BY <2>2 DEF Follows
  <2> QED  BY <1>1, <1>4, <2>3
<1>5. CASE ~Posted(h, h', t) /\ memory
  <2>1. h'.abs[t] = abs[t]
    BY <1>3, <1>5 DEF Told
  <2> QED  BY <1>1, <1>2, <1>5, <2>1
<1>6. CASE ~Posted(h, h', t) /\ ~memory
  BY <1>1, <1>2, <1>3, <1>6
<1> QED  BY <1>4, <1>5, <1>6

(* Every step keeps the timers that are due and those that are set the same. *)
LEMMA AgreeStep ==
    ASSUME Shape, Agree(h.abs, due), [Next]_vars
    PROVE  Agree(h'.abs, due')
<1>1. EventTypes /\ h \in Hal /\ h.abs \in [TimerIds -> 0..Mod - 1]
      /\ due \in [TimerIds -> -1..Mod - 1]
  BY DEF Shape, EventTypes, Hal
<1>2. CASE \/ UNCHANGED vars \/ Look \/ Compare \/ SelectData \/ SelectControl \/ SelectTimeout
           \/ Expire \/ Pump \/ Leave \/ UpperReturns \/ CallReturns \/ Tick
  <2>1. h'.abs = h.abs
    <3>1. CASE Pump
      BY <1>1, <3>1, PumpEffect
    <3>2. CASE SelectControl \/ Expire
      BY <1>1, <3>2 DEF SelectControl, Expire, Hal
    <3>3. CASE UNCHANGED h
      BY <3>3
    <3> QED  BY <1>2, <3>1, <3>2, <3>3 DEF vars, Look, Compare, SelectData, SelectTimeout, Leave,
                                           UpperReturns, CallReturns, Tick
  <2>2. due' = due
    BY <1>2 DEF vars, Look, Compare, SelectData, SelectControl, SelectTimeout, Expire, Pump, Leave,
                UpperReturns, CallReturns, Tick
  <2> QED  BY <2>1, <2>2
<1>3. CASE UserAssigns \/ UserLeaves \/ CallPosts \/ UserPosts
  <2>1. h'.abs = h.abs
    BY <1>1, <1>3, UserAssignsFollows, UserLeavesFollows, PostsFollows
  <2>2. due' = due
    BY <1>3 DEF UserAssigns, UserLeaves, CallPosts, UserPosts
  <2> QED  BY <2>1, <2>2
<1>4. CASE Enter
  <2>1. PICK memory \in BOOLEAN : /\ Follows(h, h', h.abs, now) /\ Told(h, h', h.abs, memory)
                                  /\ due' = Remaining(due, h', memory)
    BY <1>1, <1>4, EnterFollows
  <2> QED  BY <2>1, RemainingAgree
<1>5. ASSUME NEW t \in TimerIds, CallCancels(t) \/ UserCancels(t)
      PROVE  Agree(h'.abs, due')
  <2>1. PICK abs, d : abs = [h.abs EXCEPT ![t] = 0] /\ d = [due EXCEPT ![t] = NotSet]
    OBVIOUS
  <2>2. PICK memory \in BOOLEAN : /\ Follows(h, h', abs, now) /\ Told(h, h', abs, memory)
                                  /\ due' = Remaining(d, h', memory)
    BY <1>1, <1>5, <2>1, CallCancelsFollows, UserCancelsFollows DEF DueAfterCancel
  <2>3. Agree(abs, d)
    BY <1>1, <2>1 DEF Agree
  <2> QED  BY <2>2, <2>3, RemainingAgree
<1>6. ASSUME NEW t \in TimerIds, NEW timeout \in Timeouts,
             CallSets(t, timeout) \/ UserSets(t, timeout)
      PROVE  Agree(h'.abs, due')
  <2>1. PICK e : e = (now + timeout) % Mod
    OBVIOUS
  <2>2. PICK abs, d : abs = [h.abs EXCEPT ![t] = e] /\ d = [due EXCEPT ![t] = e]
    OBVIOUS
  <2>3. e \in 0..Mod - 1 /\ e # NotSet
    <3>1. e \in 0..Mod - 1
      BY <1>1, <1>6, <2>1, SetsFollows
    <3> QED  BY <3>1, Bounds DEF NotSet
  <2>4. PICK memory \in BOOLEAN : /\ Follows(h, h', abs, now) /\ Told(h, h', abs, memory)
                                  /\ due' = Remaining(d, h', memory)
    BY <1>1, <1>6, <2>1, <2>2, SetsFollows
  <2>5. Agree(abs, d)
    BY <1>1, <2>2, <2>3 DEF Agree
  <2> QED  BY <2>4, <2>5, RemainingAgree
<1> QED  BY <1>2, <1>3, <1>4, <1>5, <1>6, NextCases

(* Every step keeps each absolute timeout in step with the time its timer has left. *)
LEMMA OnTimeStep ==
    ASSUME Shape, Agree(h.abs, due), OnTime(h.abs, left, now), [Next]_vars
    PROVE  OnTime(h'.abs, left', now')
<1>1. EventTypes /\ h \in Hal /\ h.abs \in [TimerIds -> 0..Mod - 1] /\ now \in 0..Mod - 1
      /\ left \in [TimerIds -> -MaxLate..Mod]
  BY DEF Shape, EventTypes, Hal
<1>2. CASE \/ UNCHANGED vars \/ Look \/ Compare \/ SelectData \/ SelectControl \/ SelectTimeout
           \/ Expire \/ Pump \/ Leave \/ UpperReturns \/ CallReturns
  <2>1. h'.abs = h.abs
    <3>1. CASE Pump
      BY <1>1, <3>1, PumpEffect
    <3>2. CASE SelectControl \/ Expire
      BY <1>1, <3>2 DEF SelectControl, Expire, Hal
    <3>3. CASE UNCHANGED h
      BY <3>3
    <3> QED  BY <1>2, <3>1, <3>2, <3>3 DEF vars, Look, Compare, SelectData, SelectTimeout, Leave,
                                           UpperReturns, CallReturns
  <2>2. left' = left /\ now' = now
    BY <1>2 DEF vars, Look, Compare, SelectData, SelectControl, SelectTimeout, Expire, Pump, Leave,
                UpperReturns, CallReturns
  <2> QED  BY <2>1, <2>2
<1>3. CASE Enter \/ UserAssigns \/ UserLeaves \/ CallPosts \/ UserPosts
  <2>1. Follows(h, h', h.abs, now)
    BY <1>1, <1>3, EnterFollows, UserAssignsFollows, UserLeavesFollows, PostsFollows
  <2>2. OnTime(h'.abs, left, now)
    BY <2>1, ResetOnTime DEF Follows
  <2> QED  BY <1>3, <2>2 DEF Enter, UserAssigns, UserLeaves, CallPosts, UserPosts
<1>4. CASE Tick
  <2>1. h' = h
    BY <1>4 DEF Tick
  <2> QED  BY <1>4, <2>1, TickOnTime
<1>5. ASSUME NEW t \in TimerIds, CallCancels(t) \/ UserCancels(t)
      PROVE  OnTime(h'.abs, left', now')
  <2>1. Follows(h, h', [h.abs EXCEPT ![t] = 0], now)
    BY <1>1, <1>5, CallCancelsFollows, UserCancelsFollows
  <2>2. \A u \in TimerIds : h'.abs[u] \in {h.abs[u], 0}
    BY <1>1, <2>1 DEF Follows
  <2>3. OnTime(h'.abs, left, now)
    BY <2>2, ResetOnTime
  <2> QED  BY <1>5, <2>3 DEF CallCancels, UserCancels
<1>6. ASSUME NEW t \in TimerIds, NEW timeout \in Timeouts,
             CallSets(t, timeout) \/ UserSets(t, timeout)
      PROVE  OnTime(h'.abs, left', now')
  <2>1. Follows(h, h', [h.abs EXCEPT ![t] = (now + timeout) % Mod], now)
    BY <1>1, <1>6, SetsFollows
  <2>2. OnTime([h.abs EXCEPT ![t] = (now + timeout) % Mod], [left EXCEPT ![t] = timeout], now)
    BY <1>1, SetOnTime
  <2>3. OnTime(h'.abs, [left EXCEPT ![t] = timeout], now)
    BY <2>1, <2>2, ResetOnTime DEF Follows
  <2> QED  BY <1>6, <2>3 DEF CallSets, UserSets
<1> QED  BY <1>2, <1>3, <1>4, <1>5, <1>6, NextCases

(* The queue of calls held by a silent timer stays so. *)
LEMMA QueuedMeans ==
    ASSUME NEW g \in Hal, NEW t \in TimerIds
    PROVE  Queued(g.q, t) <=> \E i \in 0..g.q.number - 1 : At(g.q, i).type = t /\ At(g.q, i).fn
<1>1. \A i \in 0..g.q.number - 1 : At(g.q, i) \in Calls
  BY HalNumber
<1>2. \A c \in Calls : c = [type |-> t, fn |-> TRUE] <=> c.type = t /\ c.fn
  BY DEF Calls
<1> QED  BY <1>1, <1>2 DEF Queued

(* No poll posts a call of a timer that was not set. *)
LEMMA FollowsSilent ==
    ASSUME NEW g \in Hal, NEW k, NEW abs, NEW at, Follows(g, k, abs, at),
           NEW t \in TimerIds, abs[t] = 0, ~Queued(g.q, t),
           \/ Kept(g, k) \/ \E u \in TimerIds : Flushed(g, k, u)
    PROVE  k.abs[t] = 0 /\ ~Queued(k.q, t)
<1>1. k \in Hal /\ k.abs[t] = 0
  BY DEF Follows
<1>2. g.q.number \in Nat /\ k.q.number \in Nat
  BY <1>1, HalNumber
<1>3. ASSUME NEW i \in 0..k.q.number - 1, At(k.q, i).type = t, At(k.q, i).fn
      PROVE  FALSE
  <2>1. CASE i \in 0..g.q.number - 1
    <3>1. ~(At(g.q, i).type = t /\ At(g.q, i).fn) /\ At(g.q, i) \in Calls
      BY <2>1, QueuedMeans, HalNumber
    <3>2. At(k.q, i) = At(g.q, i) \/ \E u \in TimerIds : At(k.q, i) = Blanked(At(g.q, i), u)
      BY <2>1 DEF Kept, Flushed
    <3>3. \A c \in Calls, u \in TimerIds : Blanked(c, u) = c \/ ~Blanked(c, u).fn
      BY DEF Blanked
    <3> QED  BY <3>1, <3>2, <3>3, <1>3
  <2>2. CASE i \notin 0..g.q.number - 1
    <3>1. i \in g.q.number..k.q.number - 1
      BY <1>2, <2>2
    <3> QED  BY <3>1, <1>3 DEF Follows
  <2> QED  BY <2>1, <2>2
<1> QED  BY <1>1, <1>3, QueuedMeans

(* No step revives a cancelled timer nor queues its callback again. *)
LEMMA SilenceStep == Shape /\ Silence /\ [Next]_vars => Silence'
<1> SUFFICES ASSUME Shape, Silence, [Next]_vars PROVE Silence'
  OBVIOUS
<1>1. EventTypes /\ Exclusion /\ h \in Hal /\ h.abs \in [TimerIds -> 0..Mod - 1]
      /\ silent \subseteq TimerIds /\ user.t \in TimerIds
  BY DEF Shape, EventTypes, Hal
<1>2. /\ \A t \in silent : h.abs[t] = 0 /\ ~Queued(h.q, t)
      /\ user.op = "cancel" => h.abs[user.t] = 0
  BY DEF Silence, CancelledStaysSilent
<1>3. CASE \/ UNCHANGED vars \/ Look \/ Compare \/ SelectData \/ SelectControl \/ SelectTimeout
           \/ Expire \/ Leave \/ UpperReturns \/ CallReturns \/ Tick
  <2>1. h'.abs = h.abs /\ h'.q = h.q
    <3>1. CASE SelectControl \/ Expire
      BY <1>1, <3>1 DEF SelectControl, Expire, Hal
    <3>2. CASE UNCHANGED h
      BY <3>2
    <3> QED  BY <1>3, <3>1, <3>2 DEF vars, Look, Compare, SelectData, SelectTimeout, Leave,
                                     UpperReturns, CallReturns, Tick
  <2>2. silent' = silent /\ user' = user
    BY <1>3 DEF vars, Look, Compare, SelectData, SelectControl, SelectTimeout, Expire, Leave,
                UpperReturns, CallReturns, Tick
  <2> QED  BY <1>2, <2>1, <2>2 DEF Silence, CancelledStaysSilent
<1>4. CASE Pump
  <2>1. /\ h' \in Hal /\ h'.q.number = h.q.number - 1 /\ h'.abs = h.abs
        /\ h.q.number \in Nat /\ h.q.number # 0
        /\ \A i \in 0..h'.q.number - 1 : At(h'.q, i) = At(h.q, i + 1)
    BY <1>1, <1>4, PumpEffect
  <2>2. user' = user
    BY <1>4 DEF Pump
  <2>3. ASSUME NEW t \in silent'
        PROVE  h.abs[t] = 0 /\ ~Queued(h'.q, t)
    <3>1. CASE t \in silent
      <4>1. h.abs[t] = 0 /\ ~Queued(h.q, t) /\ t \in TimerIds
        BY <1>1, <1>2, <3>1
      <4>2. ASSUME NEW i \in 0..h'.q.number - 1
            PROVE  ~(At(h'.q, i).type = t /\ At(h'.q, i).fn)
        <5>1. i + 1 \in 0..h.q.number - 1 /\ At(h'.q, i) = At(h.q, i + 1)
          BY <2>1
        <5>2. \A j \in 0..h.q.number - 1 : ~(At(h.q, j).type = t /\ At(h.q, j).fn)
          BY <1>1, <4>1, QueuedMeans
        <5> QED  BY <5>1, <5>2
      <4> QED  BY <2>1, <4>1, <4>2, QueuedMeans
    <3>2. CASE t \notin silent
      BY <1>4, <3>2 DEF Pump
    <3> QED  BY <3>1, <3>2
  <2> QED  BY <1>2, <2>1, <2>2, <2>3 DEF Silence, CancelledStaysSilent
<1>5. CASE Enter \/ UserAssigns \/ CallPosts \/ UserPosts
  <2>1. Follows(h, h', h.abs, now) /\ Kept(h, h')
    BY <1>1, <1>5, EnterFollows, UserAssignsFollows, PostsFollows
  <2>2. silent' = silent /\ user' = user
    BY <1>5 DEF Enter, UserAssigns, CallPosts, UserPosts
  <2>3. \A t \in silent : h'.abs[t] = 0 /\ ~Queued(h'.q, t)
    BY <1>1, <1>2, <2>1, FollowsSilent
  <2>4. user.op = "cancel" => h'.abs[user.t] = 0
    BY <1>1, <1>2, <2>1 DEF Follows
  <2> QED  BY <2>2, <2>3, <2>4 DEF Silence, CancelledStaysSilent
<1>6. CASE UserLeaves
  <2>1. /\ Follows(h, h', h.abs, now) /\ h'.abs = h.abs
        /\ user.op = "set" => Kept(h, h')
        /\ user.op # "set" => Flushed(h, h', user.t)
    BY <1>1, <1>6, UserLeavesFollows
  <2>2. user'.op = "none"
    BY <1>6 DEF UserLeaves, NoUser
  <2>3. ASSUME NEW t \in silent'
        PROVE  h'.abs[t] = 0 /\ ~Queued(h'.q, t)
    <3>1. CASE t \in silent
      BY <1>1, <1>2, <2>1, <3>1, FollowsSilent
    <3>2. CASE t \notin silent
      <4>1. user.op = "cancel" /\ t = user.t
        BY <1>6, <3>2 DEF UserLeaves
      <4>2. Flushed(h, h', t) /\ h'.abs[t] = 0 /\ h' \in Hal
        BY <1>2, <2>1, <4>1 DEF Follows
      <4> QED  BY <1>1, <4>1, <4>2, QueuedMeans DEF Flushed
    <3> QED  BY <3>1, <3>2
  <2> QED  BY <2>2, <2>3 DEF Silence, CancelledStaysSilent
<1>7. ASSUME NEW t \in TimerIds, CallCancels(t)
      PROVE  Silence'
  <2>1. Follows(h, h', [h.abs EXCEPT ![t] = 0], now) /\ Flushed(h, h', t) /\ h'.abs[t] = 0
    BY <1>1, <1>7, CallCancelsFollows
  <2>2. silent' = silent \union {t} /\ user' = user
    BY <1>7 DEF CallCancels
  <2>3. \A u \in silent : u \in TimerIds /\ [h.abs EXCEPT ![t] = 0][u] = 0 /\ ~Queued(h.q, u)
    BY <1>1, <1>2
  <2>4. \A u \in silent : h'.abs[u] = 0 /\ ~Queued(h'.q, u)
    BY <1>1, <2>1, <2>3, FollowsSilent
  <2>5. h' \in Hal
    BY <2>1 DEF Follows
  <2>6. ~Queued(h'.q, t)
    BY <2>1, <2>5, QueuedMeans DEF Flushed
  <2>7. user.op = "cancel" => h'.abs[user.t] = 0
    BY <1>1, <1>2, <2>1 DEF Follows
  <2> QED  BY <2>1, <2>2, <2>4, <2>6, <2>7 DEF Silence, CancelledStaysSilent
<1>8. ASSUME NEW t \in TimerIds, UserCancels(t)
      PROVE  Silence'
  <2>1. Follows(h, h', [h.abs EXCEPT ![t] = 0], now) /\ Kept(h, h') /\ h'.abs[t] = 0
    BY <1>1, <1>8, UserCancelsFollows
  <2>2. silent' = silent /\ user'.t = t
    BY <1>8 DEF UserCancels
  <2>3. \A u \in silent : u \in TimerIds /\ [h.abs EXCEPT ![t] = 0][u] = 0 /\ ~Queued(h.q, u)
    BY <1>1, <1>2
  <2>4. \A u \in silent : h'.abs[u] = 0 /\ ~Queued(h'.q, u)
    BY <1>1, <2>1, <2>3, FollowsSilent
  <2> QED  BY <2>1, <2>2, <2>4 DEF Silence, CancelledStaysSilent
<1>9. ASSUME NEW t \in TimerIds, NEW timeout \in Timeouts,
             CallSets(t, timeout) \/ UserSets(t, timeout)
      PROVE  Silence'
  <2>1. Follows(h, h', [h.abs EXCEPT ![t] = (now + timeout) % Mod], now) /\ Kept(h, h')
    BY <1>1, <1>9, SetsFollows
  <2>2. silent' = silent \ {t}
    BY <1>9 DEF CallSets, UserSets
  <2>3. user'.op # "cancel"
    <3>1. CASE CallSets(t, timeout)
      <4>1. lock # "user" /\ user' = user
        BY <1>1, <3>1 DEF CallSets, Goes, Exclusion
      <4> QED  BY <1>1, <4>1 DEF Exclusion
    <3>2. CASE UserSets(t, timeout)
      BY <3>2 DEF UserSets
    <3> QED  BY <1>9, <3>1, <3>2
  <2>4. \A u \in silent \ {t} :
          u \in TimerIds /\ [h.abs EXCEPT ![t] = (now + timeout) % Mod][u] = 0 /\ ~Queued(h.q, u)
    BY <1>1, <1>2
  <2>5. \A u \in silent \ {t} : h'.abs[u] = 0 /\ ~Queued(h'.q, u)
    BY <1>1, <2>1, <2>4, FollowsSilent
  <2> QED  BY <2>2, <2>3, <2>5 DEF Silence, CancelledStaysSilent
<1> QED  BY <1>3, <1>4, <1>5, <1>6, <1>7, <1>8, <1>9, NextCases

(* Every step that queues a call leaves the loop awake or the socket readable. *)
LEMMA KickedStep == Shape /\ Kicked /\ [Next]_vars => Kicked'
<1> SUFFICES ASSUME Shape, Kicked, [Next]_vars PROVE Kicked'
  OBVIOUS
<1>1. EventTypes /\ h \in Hal
  BY DEF Shape, EventTypes
<1>2. CASE \/ UNCHANGED vars \/ Look \/ Compare \/ SelectData \/ SelectTimeout \/ Leave
           \/ UpperReturns \/ CallReturns \/ Tick
  BY <1>2 DEF Kicked, vars, Look, Compare, SelectData, SelectTimeout, Leave, UpperReturns,
              CallReturns, Tick, Goes
<1>3. CASE SelectControl
  <2>1. h'.q = h.q
    BY <1>1, <1>3 DEF SelectControl, Hal
  <2> QED  BY <1>3, <2>1 DEF Kicked, SelectControl, Goes
<1>4. CASE Expire
  <2>1. h'.q = h.q /\ h'.sock = h.sock
    BY <1>1, <1>4 DEF Expire, Hal
  <2> QED  BY <1>4, <2>1 DEF Kicked, Expire, Goes
<1>5. CASE Pump
  BY <1>1, <1>5, PumpEffect DEF Kicked, Pump
<1>6. CASE Enter
  BY <1>6 DEF Kicked, Enter, Goes
<1>7. ASSUME NEW abs, Follows(h, h', abs, now),
             driver' = driver \/ driver' \in {"enter", "pump", "call", "upper", "entropy"}
      PROVE  Kicked'
  BY <1>7 DEF Kicked, Follows
<1>8. CASE UserAssigns \/ UserLeaves \/ CallPosts \/ UserPosts
  <2>1. Follows(h, h', h.abs, now)
    BY <1>1, <1>8, UserAssignsFollows, UserLeavesFollows, PostsFollows
  <2>2. driver' = driver
    BY <1>8 DEF UserAssigns, UserLeaves, CallPosts, UserPosts
  <2> QED  BY <1>7, <2>1, <2>2
<1>9. ASSUME NEW t \in TimerIds, CallCancels(t) \/ UserCancels(t)
      PROVE  Kicked'
  <2>1. Follows(h, h', [h.abs EXCEPT ![t] = 0], now)
    BY <1>1, <1>9, CallCancelsFollows, UserCancelsFollows
  <2>2. driver' = driver
    BY <1>9 DEF CallCancels, UserCancels
  <2> QED  BY <1>7, <2>1, <2>2
<1>10. ASSUME NEW t \in TimerIds, NEW timeout \in Timeouts,
              CallSets(t, timeout) \/ UserSets(t, timeout)
       PROVE  Kicked'
  <2>1. Follows(h, h', [h.abs EXCEPT ![t] = (now + timeout) % Mod], now)
    BY <1>1, <1>10, SetsFollows
  <2>2. driver' = driver \/ driver' = "entropy"
    BY <1>10 DEF CallSets, UserSets, Goes
  <2> QED  BY <1>7, <2>1, <2>2
<1> QED  BY <1>2, <1>3, <1>4, <1>5, <1>6, <1>8, <1>9, <1>10, NextCases

-----------------------------------------------------------------------------
(* The invariant of the event loop holds initially. *)
LEMMA EventInit == Init => EventInv
<1> SUFFICES ASSUME Init PROVE EventInv
  OBVIOUS
<1>1. Shape
  BY ShapeInit
<1>2. h.q.number = 0 /\ h.abs = [t \in TimerIds |-> 0] /\ user.op = "none"
  BY CreatedQueue DEF Init, Created, NoUser
<1>3. Kicked /\ OnTime(h.abs, left, now)
  BY <1>2 DEF Kicked, OnTime
<1>5. Agree(h.abs, due)
  BY <1>2 DEF Init, Agree
<1>4. Silence
  <2>1. \A t \in TimerIds : h.abs[t] = 0 /\ ~Queued(h.q, t)
    BY <1>2 DEF Queued
  <2> QED  BY <1>2, <2>1 DEF Init, Silence, CancelledStaysSilent
<1> QED  BY <1>1, <1>3, <1>4, <1>5 DEF EventInv, Shape

(* And is kept by every step. *)
LEMMA EventStep == EventInv /\ [Next]_vars => EventInv'
<1> SUFFICES ASSUME EventInv, [Next]_vars PROVE EventInv'
  OBVIOUS
<1>1. Shape /\ Silence /\ Kicked /\ Agree(h.abs, due) /\ OnTime(h.abs, left, now)
  BY DEF EventInv, Shape
<1>2. Shape'
  BY <1>1, ShapeStep
<1>3. Silence'
  BY <1>1, SilenceStep
<1>4. Kicked'
  BY <1>1, KickedStep
<1>5. OnTime(h'.abs, left', now')
  BY <1>1, OnTimeStep
<1>6. Agree(h'.abs, due')
  BY <1>1, AgreeStep
<1> QED  BY <1>2, <1>3, <1>4, <1>5, <1>6 DEF EventInv, Shape

(* The inductive invariant of the event loop. *)
THEOREM EventInvHolds == Spec => []EventInv
  BY EventInit, EventStep, PTL DEF Spec

(* Type correctness: the circular array's indexes stay inside it however   *)
(* it grows, and the threads exclude each other.                           *)
THEOREM EventsTypeCorrect == Spec => []EventsTypeOK
<1>1. EventInv => EventsTypeOK
  <2> SUFFICES ASSUME EventInv PROVE EventsTypeOK
    OBVIOUS
  <2>1. EventTypes /\ Exclusion /\ h \in Hal
    BY DEF EventInv, EventTypes
  <2>2. /\ h.q.list \in [0..h.q.size - 1 -> Calls]
        /\ h.q.first \in Nat /\ h.q.number \in Nat /\ h.q.size \in Nat
        /\ h.q.first < h.q.size /\ h.q.number <= h.q.size
    BY <2>1, HalNumber, QueueFields
  <2>3. /\ h.q.size \in Nat /\ DOMAIN h.q.list = 0..h.q.size - 1
        /\ h.q.first \in 0..h.q.size - 1 /\ h.q.number \in 0..h.q.size
    BY <2>2
  <2>4. \A i \in DOMAIN h.q.list : h.q.list[i] \in [type : CallTypes, fn : BOOLEAN]
    BY <2>2 DEF Calls
  <2>5. /\ h.abs \in [TimerIds -> 0..Mod - 1] /\ h.last \in 0..Mod - 1
        /\ h.value \in 0..Mod - 1 /\ h.expired \in BOOLEAN
        /\ h.sock \subseteq {"KICK", "TIMER"}
        /\ h.writing \in {"nothing", "value", "flag"} /\ h.read \in 0..Mod - 1
    BY <2>1 DEF Hal
  <2> QED  BY <2>1, <2>3, <2>4, <2>5 DEF EventsTypeOK, EventTypes, Exclusion
<1> QED  BY <1>1, EventInvHolds, PTL

(* A cancelled timer stays silent, even if it had expired before the       *)
(* cancel and its callback was queued, wherever in the array that was.     *)
THEOREM CancelledStaysSilentHolds == Spec => []CancelledStaysSilent
<1>1. EventInv => CancelledStaysSilent
  BY DEF EventInv, Silence
<1> QED  BY <1>1, EventInvHolds, PTL

(* The driver thread never sleeps while a deferred call is held. *)
THEOREM NoCallForgottenHolds == Spec => []NoCallForgotten
<1>1. EventInv => NoCallForgotten
  <2> SUFFICES ASSUME EventInv, Asleep PROVE Held(h.q) = <<>>
    BY DEF NoCallForgotten
  <2>1. h.q.number = 0
    BY DEF EventInv, Kicked, Asleep
  <2> QED  BY <2>1 DEF Held
<1> QED  BY <1>1, EventInvHolds, PTL

(* No timer's callback is posted before its time, at any value of the      *)
(* clock and for any timeout up to half its range.                         *)
THEOREM NeverEarlyHolds == Spec => NeverEarly
<1>1. ASSUME EventInv, [Next]_vars,
             NEW i \in h.q.number..h'.q.number - 1, At(h'.q, i).type \in TimerIds
      PROVE  left'[At(h'.q, i).type] <= 0
  <2> DEFINE u == At(h'.q, i).type
  <2>1. EventTypes /\ Shape /\ OnTime(h.abs, left, now) /\ h \in Hal
        /\ h.abs \in [TimerIds -> 0..Mod - 1]
        /\ now \in 0..Mod - 1 /\ left \in [TimerIds -> -MaxLate..Mod]
    BY <1>1 DEF EventInv, Shape, EventTypes, Hal
  <2>2. h.q.number \in Nat
    BY <2>1, HalNumber
  <2>3. ASSUME h'.q = h.q PROVE FALSE
    BY <1>1, <2>2, <2>3
  <2>4. CASE \/ UNCHANGED vars \/ Look \/ Compare \/ SelectData \/ SelectControl \/ SelectTimeout
             \/ Expire \/ Leave \/ UpperReturns \/ CallReturns \/ Tick
    <3>1. CASE SelectControl \/ Expire
      BY <2>1, <2>3, <3>1 DEF SelectControl, Expire, Hal
    <3>2. CASE UNCHANGED h
      BY <2>3, <3>2
    <3> QED  BY <2>4, <3>1, <3>2 DEF vars, Look, Compare, SelectData, SelectTimeout, Leave,
                                     UpperReturns, CallReturns, Tick
  <2>5. CASE Pump
    <3>1. h'.q.number = h.q.number - 1
      BY <2>1, <2>5, PumpEffect
    <3> QED  BY <1>1, <2>2, <3>1
  <2>6. CASE Enter \/ UserAssigns \/ UserLeaves \/ CallPosts \/ UserPosts
    <3>1. Follows(h, h', h.abs, now)
      BY <2>1, <2>6, EnterFollows, UserAssignsFollows, UserLeavesFollows, PostsFollows
    <3>2. h.abs[u] # 0 /\ Expired(h.abs[u], now)
      BY <1>1, <3>1 DEF Follows
    <3>3. left[u] <= 0
      BY <1>1, <2>1, <3>2, ExpiredIsDue
    <3> QED  BY <2>6, <3>3 DEF Enter, UserAssigns, UserLeaves, CallPosts, UserPosts
  <2>7. ASSUME NEW t \in TimerIds, CallCancels(t) \/ UserCancels(t)
        PROVE  left'[u] <= 0
    <3>1. Follows(h, h', [h.abs EXCEPT ![t] = 0], now)
      BY <2>1, <2>7, CallCancelsFollows, UserCancelsFollows
    <3>2. [h.abs EXCEPT ![t] = 0][u] # 0 /\ Expired([h.abs EXCEPT ![t] = 0][u], now)
      BY <1>1, <3>1 DEF Follows
    <3>3. [h.abs EXCEPT ![t] = 0][u] = h.abs[u]
      BY <1>1, <2>1, <3>2
    <3>4. left[u] <= 0
      BY <1>1, <2>1, <3>2, <3>3, ExpiredIsDue
    <3> QED  BY <2>7, <3>4 DEF CallCancels, UserCancels
  <2>8. ASSUME NEW t \in TimerIds, NEW timeout \in Timeouts,
               CallSets(t, timeout) \/ UserSets(t, timeout)
        PROVE  left'[u] <= 0
    <3> DEFINE abs == [h.abs EXCEPT ![t] = (now + timeout) % Mod]
               rest == [left EXCEPT ![t] = timeout]
    <3>1. (now + timeout) % Mod \in 0..Mod - 1 /\ Follows(h, h', abs, now)
      BY <2>1, <2>8, SetsFollows
    <3>2. abs[u] # 0 /\ Expired(abs[u], now)
      BY <1>1, <3>1 DEF Follows
    <3>3. OnTime(abs, rest, now)
      BY <2>1, SetOnTime
    <3>4. timeout \in -MaxLate..Mod
      BY Bounds
    <3>5. abs \in [TimerIds -> 0..Mod - 1] /\ rest \in [TimerIds -> -MaxLate..Mod]
      BY <2>1, <3>1, <3>4
    <3>6. left' = rest
      BY <2>8 DEF CallSets, UserSets
    <3> HIDE DEF abs, rest
    <3>7. rest[u] <= 0
      BY <1>1, <2>1, <3>2, <3>3, <3>5, ExpiredIsDue
    <3> QED  BY <3>6, <3>7
  <2> QED  BY <1>1, <2>4, <2>5, <2>6, <2>7, <2>8, NextCases
<1>2. EventInv /\ [Next]_vars =>
        [\A i \in h.q.number..h'.q.number - 1 :
           LET t == At(h'.q, i).type IN t \in TimerIds => left'[t] <= 0]_vars
  BY <1>1
<1> QED  BY <1>2, EventInvHolds, PTL DEF Spec, NeverEarly

-----------------------------------------------------------------------------
(* The circular array as the sequence of the calls it holds. *)
LEMMA CallsHeldAre ==
    ASSUME NEW g \in Hal
    PROVE  /\ CallsHeld(g.q) \in Seq(Int) /\ Len(CallsHeld(g.q)) = g.q.number
           /\ \A i \in 1..g.q.number :
                CallsHeld(g.q)[i] = IF At(g.q, i - 1).fn THEN At(g.q, i - 1).type ELSE Idle
<1>1. g.q.number \in Nat /\ \A i \in 0..g.q.number - 1 : At(g.q, i) \in Calls
  BY HalNumber
<1>2. \A i \in 1..g.q.number : i - 1 \in 0..g.q.number - 1 /\ Held(g.q)[i] = At(g.q, i - 1)
  BY <1>1 DEF Held
<1>3. \A i \in 1..g.q.number :
        CallsHeld(g.q)[i] = IF At(g.q, i - 1).fn THEN At(g.q, i - 1).type ELSE Idle
  BY <1>2 DEF CallsHeld
<1>4. \A c \in Calls : (IF c.fn THEN c.type ELSE Idle) \in Int
  <2>1. \A c \in Calls : c.type \in CallTypes
    BY DEF Calls
  <2>2. CallTypes \subseteq Int /\ Idle \in Int
    BY CallTypesApart DEF Idle
  <2> QED  BY <2>1, <2>2
<1>5. CallsHeld(g.q) = [i \in 1..g.q.number |-> CallsHeld(g.q)[i]]
  BY DEF CallsHeld
<1>6. \A i \in 1..g.q.number : CallsHeld(g.q)[i] \in Int
  BY <1>1, <1>2, <1>3, <1>4
<1>7. CallsHeld(g.q) \in [1..g.q.number -> Int]
  BY <1>5, <1>6
<1>8. CallsHeld(g.q) \in Seq(Int)
  BY <1>1, <1>7, SeqDef
<1>9. Len(CallsHeld(g.q)) = g.q.number
  BY <1>1, <1>7, <1>8, LenProperties
<1> QED  BY <1>3, <1>8, <1>9

(* Calls added at the end are posts of the abstract queue. *)
LEMMA KeptIsPosts ==
    ASSUME h \in Hal, h' \in Hal, h.q.number <= h'.q.number, Kept(h, h'), current' = current
    PROVE  Abstract!Posts
<1>1. h.q.number \in Nat /\ h'.q.number \in Nat
  BY HalNumber
<1>2. ASSUME NEW i \in 1..h.q.number
      PROVE  CallsHeld(h'.q)[i] = CallsHeld(h.q)[i]
  <2>1. i \in 1..h'.q.number /\ i - 1 \in 0..h.q.number - 1
    BY <1>1
  <2>2. At(h'.q, i - 1) = At(h.q, i - 1)
    BY <2>1 DEF Kept
  <2> QED  BY <2>1, <2>2, CallsHeldAre
<1>3. Len(CallsHeld(h.q)) = h.q.number /\ Len(CallsHeld(h'.q)) = h'.q.number
  BY CallsHeldAre
<1> QED  BY <1>2, <1>3 DEF Abstract!Posts

(* A cancel is a flush of the abstract queue. *)
LEMMA FlushedIsFlushes ==
    ASSUME h \in Hal, NEW t \in TimerIds, NEW abs, Follows(h, h', abs, now), Flushed(h, h', t),
           current' = current
    PROVE  Abstract!Flushes(t)
<1>1. h' \in Hal /\ h.q.number <= h'.q.number /\ h.q.number \in Nat /\ h'.q.number \in Nat
  BY HalNumber DEF Follows
<1>2. t \in Nat /\ Idle = -1 /\ t # Idle
  BY CallTypesApart DEF Idle
<1>3. \A c \in Calls : (IF Blanked(c, t).fn THEN Blanked(c, t).type ELSE Idle) =
        IF (IF c.fn THEN c.type ELSE Idle) = t THEN Idle ELSE (IF c.fn THEN c.type ELSE Idle)
  BY <1>2 DEF Blanked
<1>4. ASSUME NEW i \in 1..h.q.number
      PROVE  CallsHeld(h'.q)[i] = IF CallsHeld(h.q)[i] = t THEN Idle ELSE CallsHeld(h.q)[i]
  <2>1. i \in 1..h'.q.number /\ i - 1 \in 0..h.q.number - 1
    BY <1>1
  <2>2. At(h'.q, i - 1) = Blanked(At(h.q, i - 1), t) /\ At(h.q, i - 1) \in Calls
    BY <2>1, HalNumber DEF Flushed
  <2>3. CallsHeld(h.q)[i] = IF At(h.q, i - 1).fn THEN At(h.q, i - 1).type ELSE Idle
    BY CallsHeldAre
  <2>4. CallsHeld(h'.q)[i] = IF At(h'.q, i - 1).fn THEN At(h'.q, i - 1).type ELSE Idle
    BY <1>1, <2>1, CallsHeldAre
  <2> QED  BY <2>2, <2>3, <2>4, <1>3
<1>5. ASSUME NEW i \in 1..h'.q.number
      PROVE  CallsHeld(h'.q)[i] # t
  <2>1. i - 1 \in 0..h'.q.number - 1
    BY <1>1
  <2>2. ~(At(h'.q, i - 1).type = t /\ At(h'.q, i - 1).fn)
    BY <2>1 DEF Flushed
  <2>3. CallsHeld(h'.q)[i] = IF At(h'.q, i - 1).fn THEN At(h'.q, i - 1).type ELSE Idle
    BY <1>1, CallsHeldAre
  <2> QED  BY <2>2, <2>3, <1>2
<1>6. Len(CallsHeld(h.q)) = h.q.number /\ Len(CallsHeld(h'.q)) = h'.q.number
  BY <1>1, CallsHeldAre
<1> QED  BY <1>1, <1>4, <1>5, <1>6 DEF Abstract!Flushes

(* The pump makes or skips the first call of the abstract queue. *)
LEMMA PumpIsMakesOrSkips ==
    ASSUME Shape, Pump
    PROVE  Abstract!Makes \/ Abstract!Skips
<1>1. /\ h' \in Hal /\ h'.q.number = h.q.number - 1
      /\ h.q.number \in Nat /\ h.q.number # 0
      /\ Oldest(h.q) = At(h.q, 0) /\ Oldest(h.q) \in Calls
      /\ \A i \in 0..h'.q.number - 1 : At(h'.q, i) = At(h.q, i + 1)
  BY PumpEffect DEF Shape
<1>2. h \in Hal /\ driver = "pump" /\ current = Idle
  BY DEF Shape, EventTypes, Pumping, Pump
<1> DEFINE a == CallsHeld(h.q)
           b == CallsHeld(h'.q)
<1>3. /\ a \in Seq(Int) /\ Len(a) = h.q.number
      /\ \A i \in 1..h.q.number : a[i] = IF At(h.q, i - 1).fn THEN At(h.q, i - 1).type ELSE Idle
  BY <1>2, CallsHeldAre
<1>4. /\ b \in Seq(Int) /\ Len(b) = h'.q.number
      /\ \A i \in 1..h'.q.number : b[i] = IF At(h'.q, i - 1).fn THEN At(h'.q, i - 1).type ELSE Idle
  BY <1>1, CallsHeldAre
<1> HIDE DEF a, b
<1>5. ASSUME NEW i \in 1..h'.q.number
      PROVE  b[i] = a[i + 1]
  <2>1. /\ i - 1 \in 0..h'.q.number - 1 /\ i + 1 \in 1..h.q.number
        /\ (i - 1) + 1 = i /\ (i + 1) - 1 = i
    BY <1>1
  <2>2. At(h'.q, i - 1) = At(h.q, i)
    BY <1>1, <2>1
  <2>3. a[i + 1] = IF At(h.q, i).fn THEN At(h.q, i).type ELSE Idle
    BY <1>3, <2>1
  <2> QED  BY <1>4, <2>2, <2>3
<1>6. a # <<>> /\ Tail(a) \in Seq(Int) /\ Len(Tail(a)) = Len(a) - 1
      /\ \A i \in 1..Len(Tail(a)) : Tail(a)[i] = a[i + 1]
  BY <1>1, <1>3
<1>7. b = Tail(a)
  <2>1. Len(b) = Len(Tail(a)) /\ \A i \in 1..Len(b) : b[i] = Tail(a)[i]
    BY <1>1, <1>3, <1>4, <1>5, <1>6
  <2> QED  BY <2>1, <1>4, <1>6, SeqEqual
<1>8. Head(a) = IF Oldest(h.q).fn THEN Oldest(h.q).type ELSE Idle
  <2>1. 1 \in 1..h.q.number /\ 1 - 1 = 0
    BY <1>1
  <2>2. Head(a) = a[1]
    BY <1>6
  <2> QED  BY <1>1, <1>3, <2>1, <2>2
<1>9. Oldest(h.q).type \in Nat /\ Idle = -1
  BY <1>1, CallTypesApart DEF Calls, Idle
<1>10. CASE Oldest(h.q).fn
  <2>1. current' = Head(a) /\ Head(a) # Idle
    BY <1>8, <1>9, <1>10 DEF Pump
  <2> QED  BY <2>1, <1>2, <1>6, <1>7 DEF Abstract!Makes, a, b
<1>11. CASE ~Oldest(h.q).fn
  <2>1. current' = current /\ Head(a) = Idle
    BY <1>8, <1>11 DEF Pump
  <2> QED  BY <2>1, <1>6, <1>7 DEF Abstract!Skips, a, b
<1> QED  BY <1>10, <1>11

(* The deferred calls of the HAL, over the circular array with its growth, *)
(* its flushes and its failed allocations, are the queue of CallQueue: in  *)
(* order, each call at most once, none that was flushed.                   *)
THEOREM ImplementsCallQueueHolds == Spec => ImplementsCallQueue
<1>1. Init => Abstract!Init
  <2> SUFFICES ASSUME Init PROVE Abstract!Init
    OBVIOUS
  <2>1. h \in Hal /\ h.q.number = 0
    BY ShapeInit, CreatedQueue DEF Init, Shape, EventTypes, Created
  <2>2. CallsHeld(h.q) = <<>>
    BY <2>1, CallsHeldAre
  <2> QED  BY <2>2 DEF Init, Abstract!Init
<1>2. ASSUME EventInv, [Next]_vars
      PROVE  Abstract!Next \/ UNCHANGED <<CallsHeld(h.q), current>>
  <2>1. Shape /\ EventTypes /\ h \in Hal
    BY <1>2 DEF EventInv, Shape, EventTypes
  <2>2. CASE \/ UNCHANGED vars \/ Look \/ Compare \/ SelectData \/ SelectControl \/ SelectTimeout
             \/ Expire \/ Leave \/ UpperReturns \/ CallReturns \/ Tick
    <3>1. h'.q = h.q
      <4>1. CASE SelectControl \/ Expire
        BY <2>1, <4>1 DEF SelectControl, Expire, Hal
      <4>2. CASE UNCHANGED h
        BY <4>2
      <4> QED  BY <2>2, <4>1, <4>2 DEF vars, Look, Compare, SelectData, SelectTimeout, Leave,
                                       UpperReturns, CallReturns, Tick
    <3>2. CallsHeld(h'.q) = CallsHeld(h.q)
      BY <3>1
    <3>3. current' = current \/ current' = Idle
      BY <2>2 DEF vars, Look, Compare, SelectData, SelectControl, SelectTimeout, Expire, Leave,
                  UpperReturns, CallReturns, Tick
    <3> QED  BY <3>2, <3>3 DEF Abstract!Next, Abstract!Returns
  <2>3. CASE Pump
    BY <2>1, <2>3, PumpIsMakesOrSkips DEF Abstract!Next
  <2>4. CASE Enter \/ UserAssigns \/ CallPosts \/ UserPosts
    <3>1. Follows(h, h', h.abs, now) /\ Kept(h, h')
      BY <2>1, <2>4, EnterFollows, UserAssignsFollows, PostsFollows
    <3>2. current' = current
      BY <2>4 DEF Enter, UserAssigns, CallPosts, UserPosts
    <3> QED  BY <2>1, <3>1, <3>2, KeptIsPosts DEF Follows, Abstract!Next
  <2>5. CASE UserLeaves
    <3>1. /\ Follows(h, h', h.abs, now)
          /\ user.op = "set" => Kept(h, h')
          /\ user.op # "set" => Flushed(h, h', user.t)
          /\ current' = current /\ user.t \in TimerIds
      BY <2>1, <2>5, UserLeavesFollows DEF UserLeaves, EventTypes
    <3>2. CASE user.op = "set"
      BY <2>1, <3>1, <3>2, KeptIsPosts DEF Follows, Abstract!Next
    <3>3. CASE user.op # "set"
      <4>1. Abstract!Flushes(user.t)
        BY <2>1, <3>1, <3>3, FlushedIsFlushes
      <4> QED  BY <3>1, <4>1 DEF Abstract!Next
    <3> QED  BY <3>2, <3>3
  <2>6. ASSUME NEW t \in TimerIds, CallCancels(t)
        PROVE  Abstract!Next
    <3>1. Follows(h, h', [h.abs EXCEPT ![t] = 0], now) /\ Flushed(h, h', t) /\ current' = current
      BY <2>1, <2>6, CallCancelsFollows DEF CallCancels
    <3>2. Abstract!Flushes(t)
      BY <2>1, <3>1, FlushedIsFlushes
    <3> QED  BY <3>2 DEF Abstract!Next
  <2>7. ASSUME NEW t \in TimerIds, UserCancels(t)
        PROVE  Abstract!Next
    <3>1. Follows(h, h', [h.abs EXCEPT ![t] = 0], now) /\ Kept(h, h') /\ current' = current
      BY <2>1, <2>7, UserCancelsFollows DEF UserCancels
    <3> QED  BY <2>1, <3>1, KeptIsPosts DEF Follows, Abstract!Next
  <2>8. ASSUME NEW t \in TimerIds, NEW timeout \in Timeouts,
               CallSets(t, timeout) \/ UserSets(t, timeout)
        PROVE  Abstract!Next
    <3>1. /\ Follows(h, h', [h.abs EXCEPT ![t] = (now + timeout) % Mod], now) /\ Kept(h, h')
          /\ current' = current
      BY <2>1, <2>8, SetsFollows DEF CallSets, UserSets
    <3> QED  BY <2>1, <3>1, KeptIsPosts DEF Follows, Abstract!Next
  <2> QED  BY <1>2, <2>2, <2>3, <2>4, <2>5, <2>6, <2>7, <2>8, NextCases
<1>3. EventInv /\ [Next]_vars => [Abstract!Next]_<<CallsHeld(h.q), current>>
  BY <1>2
<1> QED  BY <1>1, <1>3, EventInvHolds, PTL DEF Spec, ImplementsCallQueue, Abstract!Spec

-----------------------------------------------------------------------------
(* The platform timer.  What a poll at the time at does to it: k comes     *)
(* from g by one that is not for an expiry.                                *)
Sets(g, k, at) ==
    /\ k.expired = g.expired /\ k.value = g.value
    /\ k.last = g.last => k.writing = g.writing /\ k.read = g.read
    /\ k.last # g.last => k.writing = "value" /\ k.read = at

(* After any poll no timer is left expired, and the platform timer is set  *)
(* for the earliest of the others.                                         *)
Looked(k, at) ==
    /\ k.last = Limit(k.abs, at)
    /\ \A t \in TimerIds : k.abs[t] = 0 \/ ~Expired(k.abs[t], at)

(* A poll that went through all the timers has looked at each. *)
LEMMA PollLooks ==
    ASSUME NEW g \in Hal, NEW k, NEW at \in 0..Mod - 1, Polled(g, k, at, P_NAL_MULTI_TIMER_NUMBER),
           k.last = Limit(k.abs, at)
    PROVE  Looked(k, at)
<1>1. \A t \in TimerIds : t < P_NAL_MULTI_TIMER_NUMBER
  BY TimerAssumption DEF TimerIds
<1> QED  BY <1>1 DEF Polled, Looked

(* A poll that is not for an expiry, of timers of which one was assigned.  *)
LEMMA PollSets ==
    ASSUME NEW g \in Hal, NEW t \in TimerIds, NEW e \in 0..Mod - 1, NEW at \in 0..Mod - 1,
           NEW memory \in BOOLEAN,
           NEW k, k = PNALMultiTimerPoll(WithTimer(g, t, e), at, NotElapsed, memory)
    PROVE  k \in Hal /\ Sets(g, k, at) /\ Looked(k, at)
<1>1. PICK w : w = WithTimer(g, t, e)
  OBVIOUS
<1>2. /\ w \in Hal /\ w.last = g.last /\ w.value = g.value /\ w.expired = g.expired
      /\ w.writing = g.writing /\ w.read = g.read
  <2>1. /\ w \in Hal /\ w.abs = [g.abs EXCEPT ![t] = e]
        /\ w.q = g.q /\ w.last = g.last /\ w.value = g.value /\ w.expired = g.expired
        /\ w.sock = g.sock /\ w.writing = g.writing /\ w.read = g.read
    BY <1>1, WithTimerEffect
  <2> QED  BY <2>1
<1>3. PICK elapsed \in BOOLEAN : elapsed = NotElapsed /\ ~elapsed
  BY DEF NotElapsed
<1>4. k = PNALMultiTimerPoll(w, at, elapsed, memory)
  BY <1>1, <1>3
<1>5. /\ k \in Hal /\ Polled(w, k, at, P_NAL_MULTI_TIMER_NUMBER)
      /\ k.last = Limit(k.abs, at) /\ k.value = w.value
      /\ k.last = (IF elapsed THEN Never ELSE w.last) => k.writing = w.writing /\ k.read = w.read
      /\ k.last # (IF elapsed THEN Never ELSE w.last) => k.writing = "value" /\ k.read = at
  BY <1>2, <1>4, PollEffect
<1>6. Looked(k, at)
  BY <1>2, <1>5, PollLooks
<1>7. k.expired = g.expired
  BY <1>2, <1>5 DEF Polled
<1> QED  BY <1>2, <1>3, <1>5, <1>6, <1>7 DEF Sets

(* PNALMultiTimerSet ends in a look at all the timers. *)
LEMMA SetTimerSets ==
    ASSUME EventTypes, NEW t \in TimerIds, NEW timeout \in Timeouts, NEW memory \in Memory,
           NEW k, k = SetTimer(h, t, timeout, now, memory)
    PROVE  k \in Hal /\ Sets(h, k, now) /\ Looked(k, now)
<1>1. memory \in BOOLEAN /\ h \in Hal /\ now \in 0..Mod - 1 /\ timeout \in Nat
  BY MemoryIsBoolean, Bounds DEF EventTypes
<1>2. PICK e \in 0..Mod - 1 : e = (now + timeout) % Mod
  BY <1>1, SetTimeInRange
<1>3. k = PNALMultiTimerPoll(WithTimer(h, t, e), now, NotElapsed, memory)
  BY <1>1, <1>2, SetIsPoll
<1> QED  BY <1>1, <1>3, PollSets

(* So does PNALMultiTimerCancel, unless the timer was off already. *)
LEMMA CancelTimerSets ==
    ASSUME EventTypes, NEW t \in TimerIds, NEW memory \in Memory,
           NEW k, k = CancelTimer(h, t, now, memory)
    PROVE  k \in Hal /\ Sets(h, k, now) /\ (Looked(k, now) \/ k = h)
<1>1. memory \in BOOLEAN /\ h \in Hal /\ now \in 0..Mod - 1 /\ 0 \in 0..Mod - 1
  BY MemoryIsBoolean, TimerAssumption DEF EventTypes
<1>2. CASE h.abs[t] = 0
  <2>1. k = h
    BY <1>2, CancelIsPoll
  <2> QED  BY <1>1, <2>1 DEF Sets
<1>3. CASE h.abs[t] # 0
  <2>1. k = PNALMultiTimerPoll(WithTimer(h, t, 0), now, NotElapsed, memory)
    BY <1>3, CancelIsPoll
  <2> QED  BY <1>1, <2>1, PollSets
<1> QED  BY <1>2, <1>3

(* The time left that the poll computes orders timers as the clock does:   *)
(* it is a millisecond short behind the wrap-around, which no timer's time *)
(* 0 can show, because that means it is not set.                           *)
LEMMA LeftOrders ==
    ASSUME NEW e \in 1..Mod - 1, NEW f \in 1..Mod - 1, NEW at \in 0..Mod - 1,
           NEW d \in -MaxLate..Mod \div 2 - 2, NEW c \in -MaxLate..Mod \div 2 - 2,
           e \in {at + d, at + d - Mod, at + d + Mod}, f \in {at + c, at + c - Mod, at + c + Mod},
           ~Expired(e, at), ~Expired(f, at), Left(e, at) <= Left(f, at)
    PROVE  d <= c
<1>1. PICK half \in Nat : Mod = 2 * half /\ Mod \div 2 = half /\ MaxLate <= half - 2
  BY Bounds
<1>2. MaxLate \in Nat
  BY Bounds
<1>3. /\ ~((IF e <= at THEN at - e ELSE Mod - 1 - e + at) <= half - 1)
      /\ ~((IF f <= at THEN at - f ELSE Mod - 1 - f + at) <= half - 1)
      /\ (IF f <= at THEN at - f ELSE Mod - 1 - f + at) <= (IF e <= at THEN at - e ELSE Mod - 1 - e + at)
  BY <1>1 DEF Expired, Ago, Left
<1>4. d = IF e <= at THEN e - at + Mod ELSE e - at
  BY <1>1, <1>2, <1>3
<1>5. c = IF f <= at THEN f - at + Mod ELSE f - at
  BY <1>1, <1>2, <1>3
<1> QED  BY <1>1, <1>2, <1>3, <1>4, <1>5

(* The limit computed by a look is the earliest of the timers that are set. *)
LEMMA LookedEarliest ==
    ASSUME NEW k \in Hal, NEW rest \in [TimerIds -> -MaxLate..Mod], NEW at \in 0..Mod - 1,
           OnTime(k.abs, rest, at), Looked(k, at)
    PROVE  Earliest(k.abs, k.last, rest)
<1>1. k.abs \in [TimerIds -> 0..Mod - 1]
  BY DEF Hal
<1>2. CASE \A t \in TimerIds : k.abs[t] = 0
  BY <1>2 DEF Earliest
<1>3. CASE ~\A t \in TimerIds : k.abs[t] = 0
  <2>1. PICK t \in TimerIds :
          /\ k.abs[t] # 0 /\ ~Expired(k.abs[t], at) /\ Limit(k.abs, at) = k.abs[t]
          /\ \A u \in TimerIds : k.abs[u] # 0 /\ ~Expired(k.abs[u], at) =>
                                   Left(k.abs[t], at) <= Left(k.abs[u], at)
    BY <1>1, <1>3, LimitIsEarliest DEF Looked
  <2>2. ASSUME NEW u \in TimerIds, k.abs[u] # 0
        PROVE  rest[t] <= rest[u]
    <3>1. ~Expired(k.abs[u], at) /\ Left(k.abs[t], at) <= Left(k.abs[u], at)
      BY <2>1, <2>2 DEF Looked
    <3>2. k.abs[t] \in 1..Mod - 1 /\ k.abs[u] \in 1..Mod - 1
      BY <1>1, <2>1, <2>2
    <3>3. /\ rest[t] \in -MaxLate..Mod \div 2 - 2 /\ rest[u] \in -MaxLate..Mod \div 2 - 2
          /\ k.abs[t] \in {at + rest[t], at + rest[t] - Mod, at + rest[t] + Mod}
          /\ k.abs[u] \in {at + rest[u], at + rest[u] - Mod, at + rest[u] + Mod}
      BY <2>1, <2>2 DEF OnTime
    <3> QED  BY <2>1, <3>1, <3>2, <3>3, LeftOrders
  <2> QED  BY <2>1, <2>2 DEF Earliest, Looked
<1> QED  BY <1>2, <1>3

(* A post leaves the platform timer alone. *)
LEMMA PostKeeps ==
    ASSUME NEW g \in Hal, NEW type, NEW memory, NEW k, k = Post(g, type, memory)
    PROVE  /\ k.abs = g.abs /\ k.last = g.last /\ k.value = g.value /\ k.expired = g.expired
           /\ k.writing = g.writing /\ k.read = g.read /\ g.sock \subseteq k.sock
<1>1. k = [g EXCEPT !.q = PNALDFCPost(g.q, type, memory),
                    !.sock = IF g.q.number = 0 THEN g.sock \union {"KICK"} ELSE g.sock]
  BY DEF Post
<1> QED  BY <1>1 DEF Hal

(* And so does a flush. *)
LEMMA CancelledKeeps ==
    ASSUME NEW g \in Hal, NEW t, NEW k, k = Cancelled(g, t)
    PROVE  /\ k.abs = g.abs /\ k.last = g.last /\ k.value = g.value /\ k.expired = g.expired
           /\ k.writing = g.writing /\ k.read = g.read /\ k.sock = g.sock
<1>1. PICK r : k = [g EXCEPT !.q = r]
  BY DEF Cancelled
<1> QED  BY <1>1 DEF Hal

(* A time that is read again some milliseconds later. *)
LEMMA LaterIsLagged ==
    ASSUME NEW at \in 0..Mod - 1, NEW ms \in 0..MaxLag
    PROVE  (at + ms) % Mod \in 0..Mod - 1 /\ Lagged((at + ms) % Mod, at)
<1>1. /\ Mod \in Nat /\ Mod > 0 /\ MaxLag \in Nat /\ MaxLag < Mod
  BY Bounds
<1>2. ms \in Nat /\ at + ms < 2 * Mod /\ at + ms \in Nat
  BY <1>1
<1>3. CASE at + ms < Mod
  <2>1. (at + ms) % Mod = at + ms /\ at + ms \in 0..Mod - 1
    BY <1>1, <1>2, <1>3
  <2>2. Lagged(at + ms, at)
    BY DEF Lagged
  <2> QED  BY <2>1, <2>2
<1>4. CASE at + ms >= Mod
  <2>1. PICK x \in Nat : x = at + ms - Mod /\ x < Mod
    BY <1>1, <1>2, <1>4
  <2>2. (x + Mod) % Mod = x
    BY <1>1, <2>1
  <2>3. x + Mod = at + ms
    BY <1>1, <2>1
  <2> QED  BY <1>1, <2>1, <2>2, <2>3 DEF Lagged
<1> QED  BY <1>1, <1>2, <1>3, <1>4

(* CNALTimerSet's value is the limit of the poll, or as much later as its  *)
(* reading of the clock is later than the poll's.                          *)
LEMMA ValueIsLagged ==
    ASSUME NEW e \in 0..Mod - 1, NEW r \in 0..Mod - 1, NEW at \in 0..Mod - 1, Lagged(at, r)
    PROVE  Lagged((at + (e + Mod - r)) % Mod, e)
<1>1. /\ Mod \in Nat /\ Mod > 0 /\ MaxLag \in Nat /\ MaxLag < Mod
  BY Bounds
<1>2. PICK lag \in 0..MaxLag : at \in {r + lag, r + lag - Mod}
  BY DEF Lagged
<1>3. lag \in Nat /\ lag < Mod /\ e + lag \in Nat /\ e + lag < 2 * Mod
  BY <1>1
<1>4. at + (e + Mod - r) \in {e + lag, e + lag + Mod}
  BY <1>1, <1>2
<1>5. (at + (e + Mod - r)) % Mod \in {e + lag, e + lag - Mod}
  <2>1. CASE e + lag < Mod
    <3>1. (e + lag) % Mod = e + lag /\ (e + lag + Mod) % Mod = e + lag
      BY <1>1, <1>3, <2>1
    <3> QED  BY <1>4, <3>1
  <2>2. CASE e + lag >= Mod
    <3>1. PICK x \in Nat : x = e + lag - Mod /\ x < Mod
      BY <1>1, <1>3, <2>2
    <3>2. (x + Mod) % Mod = x /\ (x + Mod + Mod) % Mod = x
      BY <1>1, <3>1
    <3>3. x + Mod = e + lag
      BY <1>1, <3>1
    <3> QED  BY <1>4, <3>1, <3>2, <3>3
  <2> QED  BY <1>1, <1>3, <2>1, <2>2
<1> QED  BY <1>5 DEF Lagged

(* What the platform timer is after the first assignment, and why. *)
Written(g, why) ==
    \/ why = "no" /\ (g.last = Never \/ (g.value # 0 /\ Lagged(g.value, g.last)))
    \/ why = "zero" /\ g.value = 0

(* The first assignment, at the time at. *)
LEMMA ValuedWritten ==
    ASSUME NEW g \in Hal, NEW at \in 0..Mod - 1, g.writing = "value", Lagged(at, g.read),
           NEW k, k = Valued(g, at)
    PROVE  /\ k \in Hal /\ k.writing = "flag" /\ Written(k, Outcome(k))
           /\ k.abs = g.abs /\ k.last = g.last /\ k.expired = g.expired /\ k.sock = g.sock
<1>1. /\ k \in Hal /\ k.writing = "flag" /\ k.value = ValueOf(g, at)
      /\ k.abs = g.abs /\ k.last = g.last /\ k.expired = g.expired /\ k.sock = g.sock
  BY ValuedEffect
<1>2. CASE g.last = Never
  BY <1>1, <1>2 DEF Written, Outcome
<1>3. CASE g.last # Never
  <2>1. k.value = (at + (g.last + Mod - g.read)) % Mod
    BY <1>1, <1>3 DEF ValueOf
  <2>2. g.last \in 0..Mod - 1 /\ g.read \in 0..Mod - 1
    BY DEF Hal
  <2>3. Lagged(k.value, k.last)
    BY <1>1, <2>1, <2>2, ValueIsLagged
  <2> QED  BY <1>1, <1>3, <2>3 DEF Written, Outcome
<1> QED  BY <1>1, <1>2, <1>3

(* Both assignments, within the critical section. *)
LEMMA CompletedSets ==
    ASSUME EventTypes, NEW g \in Hal, g.writing \in {"nothing", "value"},
           g.writing = "value" => g.read = now,
           NEW ms \in 0..MaxLag, NEW k, k = Completed(g, ms)
    PROVE  /\ k \in Hal /\ k.writing = "nothing" /\ k.abs = g.abs /\ k.last = g.last
           /\ g.writing = "value" => ~k.expired /\ Written(k, Outcome(k))
           /\ g.writing # "value" => k = g
<1>1. PICK at \in 0..Mod - 1 : at = (now + ms) % Mod /\ Lagged(at, now)
  BY LaterIsLagged DEF EventTypes
<1>2. PICK v : v = Valued(g, at)
  OBVIOUS
<1>3. k = Armed(v)
  BY <1>1, <1>2 DEF Completed
<1>4. CASE g.writing = "value"
  <2>1. /\ v \in Hal /\ v.writing = "flag" /\ Written(v, Outcome(v))
        /\ v.abs = g.abs /\ v.last = g.last
    BY <1>1, <1>2, <1>4, ValuedWritten
  <2>2. /\ k \in Hal /\ k.writing = "nothing" /\ ~k.expired
        /\ k.abs = v.abs /\ k.last = v.last /\ k.value = v.value
    BY <1>3, <2>1, ArmedEffect
  <2> QED  BY <1>4, <2>1, <2>2 DEF Written, Outcome
<1>5. CASE g.writing # "value"
  <2>1. v = g
    BY <1>1, <1>2, <1>5, ValuedEffect
  <2>2. k = g
    BY <1>3, <1>5, <2>1, ArmedEffect
  <2> QED  BY <1>5, <2>2
<1> QED  BY <1>4, <1>5

(* The poll of the driver thread, for an expiry or not. *)
LEMMA EnterSets ==
    ASSUME EventTypes, Enter, h.writing = "nothing"
    PROVE  /\ ~h'.expired /\ h'.writing = "nothing"
           /\ h.expired => /\ Looked(h', now)
                           /\ Written(h', lost') \/ (h'.last = Never /\ h'.value = h.value
                                                                     /\ lost' = lost)
           /\ ~h.expired => /\ h'.abs = h.abs /\ h'.last = h.last /\ h'.value = h.value
                            /\ lost' = lost
<1> DEFINE e == [h EXCEPT !.expired = FALSE]
           p(memory) == IF h.expired THEN PNALMultiTimerPoll(e, now, TRUE, memory) ELSE h
<1>1. PICK memory \in Memory, posts \in BOOLEAN : \E ms \in Lags(p(memory)) :
        LET k == Completed(p(memory), ms)
        IN /\ h' = IF posts THEN Post(k, Frame, memory) ELSE k
           /\ lost' = IF p(memory).writing = "value" THEN Outcome(k) ELSE lost
  BY DEF Enter
<1>2. memory \in BOOLEAN /\ h \in Hal /\ now \in 0..Mod - 1
  BY MemoryIsBoolean DEF EventTypes
<1>3. PICK g : g = p(memory)
  OBVIOUS
<1>4. PICK ms, k :
        /\ ms \in 0..MaxLag
        /\ k = Completed(g, ms)
        /\ h' = IF posts THEN Post(k, Frame, memory) ELSE k
        /\ lost' = IF g.writing = "value" THEN Outcome(k) ELSE lost
  BY <1>1, <1>3, LagIsTime
<1>5. /\ g \in Hal /\ ~g.expired /\ g.writing \in {"nothing", "value"}
      /\ g.writing = "value" => g.read = now
      /\ g.value = h.value
      /\ h.expired => Looked(g, now) /\ (g.writing = "value" \/ g.last = Never)
      /\ ~h.expired => g = h
  <2>1. CASE ~h.expired
    BY <1>2, <1>3, <2>1
  <2>2. CASE h.expired
    <3>1. PICK f : f = e
      OBVIOUS
    <3>2. /\ f \in Hal /\ ~f.expired /\ f.writing = "nothing" /\ f.value = h.value
      BY <1>2, <3>1 DEF Hal
    <3>3. PICK elapsed \in BOOLEAN : elapsed = TRUE
      OBVIOUS
    <3>4. g = PNALMultiTimerPoll(f, now, elapsed, memory)
      BY Zenon, <1>3, <2>2, <3>1, <3>3
    <3>5. /\ g \in Hal /\ Polled(f, g, now, P_NAL_MULTI_TIMER_NUMBER)
          /\ g.last = Limit(g.abs, now) /\ g.value = f.value
          /\ g.last = (IF elapsed THEN Never ELSE f.last)
               => g.writing = f.writing /\ g.read = f.read
          /\ g.last # (IF elapsed THEN Never ELSE f.last)
               => g.writing = "value" /\ g.read = now
      BY <1>2, <3>2, <3>4, PollEffect
    <3>6. Looked(g, now) /\ ~g.expired
      BY <1>2, <3>2, <3>5, PollLooks DEF Polled
    <3> QED  BY <2>2, <3>2, <3>3, <3>5, <3>6
  <2> QED  BY <2>1, <2>2
<1> HIDE DEF p, e
<1>6. /\ k \in Hal /\ k.writing = "nothing" /\ k.abs = g.abs /\ k.last = g.last
      /\ g.writing = "value" => ~k.expired /\ Written(k, Outcome(k))
      /\ g.writing # "value" => k = g
  BY <1>4, <1>5, CompletedSets
<1>7. /\ h'.abs = k.abs /\ h'.last = k.last /\ h'.value = k.value
      /\ h'.expired = k.expired /\ h'.writing = k.writing
  <2>1. CASE posts
    <3>1. h' = Post(k, Frame, memory)
      BY <1>4, <2>1
    <3> QED  BY <1>6, <3>1, PostKeeps
  <2>2. CASE ~posts
    BY <1>4, <2>2
  <2> QED  BY <2>1, <2>2
<1>8. ~h'.expired /\ h'.writing = "nothing"
  BY <1>5, <1>6, <1>7
<1>9. ASSUME ~h.expired
      PROVE  /\ h'.abs = h.abs /\ h'.last = h.last /\ h'.value = h.value /\ lost' = lost
  BY <1>4, <1>5, <1>6, <1>7, <1>9
<1>10. ASSUME h.expired
       PROVE  /\ Looked(h', now)
              /\ Written(h', lost') \/ (h'.last = Never /\ h'.value = h.value /\ lost' = lost)
  <2>1. Looked(h', now)
    BY <1>5, <1>6, <1>7, <1>10 DEF Looked
  <2>2. CASE g.writing = "value"
    BY <1>4, <1>6, <1>7, <2>1, <2>2 DEF Written
  <2>3. CASE g.writing # "value"
    BY <1>4, <1>5, <1>6, <1>7, <1>10, <2>1, <2>3
  <2> QED  BY <2>2, <2>3
<1> QED  BY <1>8, <1>9, <1>10

(* A set or a cancel inside a deferred call, both assignments. *)
LEMMA CallSetsSets ==
    ASSUME EventTypes, NEW t \in TimerIds, h.writing = "nothing", ~h.expired,
           CallCancels(t) \/ \E timeout \in Timeouts : CallSets(t, timeout)
    PROVE  /\ ~h'.expired /\ h'.writing = "nothing"
           /\ Looked(h', now) \/ (h'.abs = h.abs /\ h'.last = h.last /\ CallCancels(t))
           /\ \/ Written(h', lost')
              \/ h'.last = h.last /\ h'.value = h.value /\ lost' = lost
<1>1. h \in Hal /\ now \in 0..Mod - 1
  BY DEF EventTypes
<1>2. ASSUME NEW k \in Hal, Sets(h, k, now), NEW ms \in 0..MaxLag, NEW a, a = Completed(k, ms)
      PROVE  /\ a \in Hal /\ a.abs = k.abs /\ a.last = k.last /\ ~a.expired /\ a.writing = "nothing"
             /\ k.writing = "value" => Written(a, Outcome(a))
             /\ k.writing # "value" => a.last = h.last /\ a.value = h.value
  <2>1. k.writing \in {"nothing", "value"} /\ (k.writing = "value" => k.read = now)
    BY <1>2 DEF Sets
  <2>2. /\ a \in Hal /\ a.writing = "nothing" /\ a.abs = k.abs /\ a.last = k.last
        /\ k.writing = "value" => ~a.expired /\ Written(a, Outcome(a))
        /\ k.writing # "value" => a = k
    BY <1>2, <2>1, CompletedSets
  <2> QED  BY <1>2, <2>1, <2>2 DEF Sets
<1>3. ASSUME NEW timeout \in Timeouts, CallSets(t, timeout)
      PROVE  /\ ~h'.expired /\ h'.writing = "nothing" /\ Looked(h', now)
             /\ \/ Written(h', lost')
                \/ h'.last = h.last /\ h'.value = h.value /\ lost' = lost
  <2>1. PICK memory \in Memory : \E ms \in Lags(SetTimer(h, t, timeout, now, memory)) :
          /\ h' = Completed(SetTimer(h, t, timeout, now, memory), ms)
          /\ lost' = IF SetTimer(h, t, timeout, now, memory).writing = "value" THEN Outcome(h')
                     ELSE lost
    BY <1>3 DEF CallSets
  <2>2. PICK k : k = SetTimer(h, t, timeout, now, memory)
    OBVIOUS
  <2>3. PICK ms \in 0..MaxLag : /\ h' = Completed(k, ms)
                                /\ lost' = IF k.writing = "value" THEN Outcome(h') ELSE lost
    BY <2>1, <2>2, LagIsTime
  <2>4. k \in Hal /\ Sets(h, k, now) /\ Looked(k, now)
    BY <2>2, SetTimerSets
  <2>5. /\ h' \in Hal /\ h'.abs = k.abs /\ h'.last = k.last /\ ~h'.expired
        /\ h'.writing = "nothing"
        /\ k.writing = "value" => Written(h', Outcome(h'))
        /\ k.writing # "value" => h'.last = h.last /\ h'.value = h.value
    BY <1>2, <2>3, <2>4
  <2> QED  BY <2>3, <2>4, <2>5 DEF Looked
<1>4. ASSUME CallCancels(t)
      PROVE  /\ ~h'.expired /\ h'.writing = "nothing"
             /\ Looked(h', now) \/ (h'.abs = h.abs /\ h'.last = h.last)
             /\ \/ Written(h', lost')
                \/ h'.last = h.last /\ h'.value = h.value /\ lost' = lost
  <2>1. PICK memory \in Memory : \E ms \in Lags(CancelTimer(h, t, now, memory)) :
          /\ h' = Cancelled(Completed(CancelTimer(h, t, now, memory), ms), t)
          /\ lost' = IF CancelTimer(h, t, now, memory).writing = "value" THEN Outcome(h') ELSE lost
    BY <1>4 DEF CallCancels
  <2>2. PICK k : k = CancelTimer(h, t, now, memory)
    OBVIOUS
  <2>3. PICK ms, a :
          /\ ms \in 0..MaxLag
          /\ a = Completed(k, ms) /\ h' = Cancelled(a, t)
          /\ lost' = IF k.writing = "value" THEN Outcome(h') ELSE lost
    BY <2>1, <2>2, LagIsTime
  <2>4. k \in Hal /\ Sets(h, k, now) /\ (Looked(k, now) \/ k = h)
    BY <2>2, CancelTimerSets
  <2>5. /\ a \in Hal /\ a.abs = k.abs /\ a.last = k.last /\ ~a.expired /\ a.writing = "nothing"
        /\ k.writing = "value" => Written(a, Outcome(a))
        /\ k.writing # "value" => a.last = h.last /\ a.value = h.value
    BY <1>2, <2>3, <2>4
  <2>6. /\ h'.abs = a.abs /\ h'.last = a.last /\ h'.value = a.value /\ h'.expired = a.expired
        /\ h'.writing = a.writing
    BY <2>3, <2>5, CancelledKeeps
  <2>7. k.writing = "value" => Written(h', Outcome(h'))
    BY <2>5, <2>6 DEF Written, Outcome
  <2>8. Looked(h', now) \/ (h'.abs = h.abs /\ h'.last = h.last)
    BY <2>4, <2>5, <2>6 DEF Looked
  <2> QED  BY <2>3, <2>5, <2>6, <2>7, <2>8
<1>5. CASE \E timeout \in Timeouts : CallSets(t, timeout)
  <2>1. PICK timeout \in Timeouts : CallSets(t, timeout)
    BY <1>5
  <2> QED  BY <1>3, <2>1
<1>6. CASE CallCancels(t)
  BY <1>4, <1>6
<1> QED  BY <1>5, <1>6

(* The poll of one by the other thread, *)
LEMMA UserSetsSets ==
    ASSUME EventTypes, NEW t \in TimerIds,
           UserCancels(t) \/ \E timeout \in Timeouts : UserSets(t, timeout)
    PROVE  /\ Sets(h, h', now) /\ (Looked(h', now) \/ (h' = h /\ UserCancels(t)))
           /\ lost' = IF h'.writing = "value" THEN "no" ELSE lost
<1>1. ASSUME NEW timeout \in Timeouts, UserSets(t, timeout)
      PROVE  Sets(h, h', now) /\ Looked(h', now)
  BY <1>1, SetTimerSets DEF UserSets
<1>2. ASSUME UserCancels(t)
      PROVE  Sets(h, h', now) /\ (Looked(h', now) \/ h' = h)
  BY <1>2, CancelTimerSets DEF UserCancels
<1> QED  BY <1>1, <1>2 DEF UserSets, UserCancels

(* its first assignment, *)
LEMMA UserAssignsSets ==
    ASSUME EventTypes, Reading, UserAssigns
    PROVE  /\ h'.writing = "flag" /\ Written(h', lost')
           /\ h'.abs = h.abs /\ h'.last = h.last /\ h'.expired = h.expired /\ h'.sock = h.sock
<1>1. h \in Hal /\ now \in 0..Mod - 1 /\ h.writing = "value" /\ Lagged(now, h.read)
      /\ h' = Valued(h, now) /\ lost' = Outcome(h')
  BY DEF EventTypes, Reading, UserAssigns
<1> QED  BY <1>1, ValuedWritten

(* and its second. *)
LEMMA UserLeavesSets ==
    ASSUME EventTypes, UserLeaves
    PROVE  /\ h'.writing = "nothing" /\ h'.abs = h.abs /\ h'.last = h.last /\ h'.value = h.value
           /\ h.sock \subseteq h'.sock
           /\ h.writing = "flag" => ~h'.expired /\ "TIMER" \in h'.sock
           /\ h.writing # "flag" => h'.expired = h.expired /\ h'.writing = h.writing
<1>1. PICK memory \in Memory : h' = IF user.op = "set" THEN Post(Armed(h), Entropy, memory)
                                    ELSE Cancelled(Armed(h), user.t)
  BY DEF UserLeaves
<1>2. h \in Hal /\ h.writing \in {"nothing", "flag"}
  BY DEF EventTypes, Hal, UserLeaves
<1>3. PICK a : a = Armed(h)
  OBVIOUS
<1>4. /\ a \in Hal /\ a.writing = "nothing"
      /\ a.abs = h.abs /\ a.last = h.last /\ a.value = h.value
      /\ h.sock \subseteq a.sock
      /\ h.writing = "flag" => ~a.expired /\ "TIMER" \in a.sock
      /\ h.writing # "flag" => a = h
  BY <1>2, <1>3, ArmedEffect
<1>5. /\ h'.abs = a.abs /\ h'.last = a.last /\ h'.value = a.value /\ h'.expired = a.expired
      /\ h'.writing = a.writing /\ a.sock \subseteq h'.sock
  <2>1. CASE user.op = "set"
    <3>1. h' = Post(a, Entropy, memory)
      BY <1>1, <1>3, <2>1
    <3> QED  BY <1>4, <3>1, PostKeeps
  <2>2. CASE user.op # "set"
    <3>1. h' = Cancelled(a, user.t)
      BY <1>1, <1>3, <2>2
    <3> QED  BY <1>4, <3>1, CancelledKeeps
  <2> QED  BY <2>1, <2>2
<1> QED  BY <1>2, <1>4, <1>5

(* The steps that leave the timers and the platform timer alone. *)
LEMMA OthersKeep ==
    ASSUME EventTypes,
           \/ UNCHANGED vars \/ Look \/ Compare \/ SelectData \/ SelectControl \/ SelectTimeout
           \/ Pump \/ Leave \/ UpperReturns \/ CallReturns \/ CallPosts \/ UserPosts \/ Tick
    PROVE  /\ h'.abs = h.abs /\ h'.last = h.last /\ h'.value = h.value /\ h'.expired = h.expired
           /\ h'.writing = h.writing /\ h'.read = h.read /\ lost' = lost
<1>1. CASE Pump
  <2>1. PICK r : h' = [h EXCEPT !.q = r]
    BY <1>1 DEF Pump
  <2> QED  BY <1>1, <2>1 DEF Pump, EventTypes, Hal
<1>2. CASE SelectControl
  BY <1>2 DEF SelectControl, EventTypes, Hal
<1>3. CASE CallPosts \/ UserPosts
  <2>1. PICK memory \in Memory : h' = Post(h, Frame, memory)
    BY <1>3 DEF CallPosts, UserPosts
  <2>2. h \in Hal
    BY DEF EventTypes
  <2>3. /\ h'.abs = h.abs /\ h'.last = h.last /\ h'.value = h.value /\ h'.expired = h.expired
        /\ h'.writing = h.writing /\ h'.read = h.read
    BY <2>1, <2>2, PostKeeps
  <2> QED  BY <1>3, <2>3 DEF CallPosts, UserPosts
<1>4. CASE UNCHANGED <<h, lost>>
  BY <1>4
<1> QED  BY <1>1, <1>2, <1>3, <1>4 DEF vars, Look, Compare, SelectData, SelectTimeout, Leave,
                                       UpperReturns, CallReturns, Tick

(* The race for the platform timer, step by step. *)
LEMMA PlatformStep ==
    ASSUME Shape, Platform, Reading, [Next]_vars
    PROVE  Platform'
<1>1. EventTypes /\ Exclusion /\ h \in Hal
  BY DEF Shape, EventTypes
<1>2. CASE \/ UNCHANGED vars \/ Look \/ Compare \/ SelectData \/ SelectControl \/ SelectTimeout
           \/ Pump \/ Leave \/ UpperReturns \/ CallReturns \/ CallPosts \/ UserPosts \/ Tick
  <2>1. /\ h'.abs = h.abs /\ h'.last = h.last /\ h'.value = h.value /\ h'.expired = h.expired
        /\ h'.writing = h.writing /\ h'.read = h.read /\ lost' = lost
    BY <1>1, <1>2, OthersKeep
  <2>2. h.writing # "nothing" => lock' = "user"
    BY <1>1, <1>2 DEF Platform, Exclusion, vars, Look, Compare, SelectData, SelectControl,
                      SelectTimeout, Pump, Leave, UpperReturns, CallReturns, CallPosts, UserPosts,
                      Tick, Goes
  <2>3. driver \in {"flag", "enter"} => driver' = driver
    BY <1>2 DEF vars, Look, Compare, SelectData, SelectControl, SelectTimeout, Pump, Leave,
                UpperReturns, CallReturns, CallPosts, UserPosts, Tick, Goes
  <2> QED  BY <2>1, <2>2, <2>3 DEF Platform
<1>3. CASE Expire
  <2>1. lock' = lock
    BY <1>3 DEF Expire
  <2>2. CASE /\ Goes("expire", "flag") /\ h' = [h EXCEPT !.value = 0]
             /\ lost' = IF h.writing = "flag" THEN "race" ELSE "no"
    <3>1. /\ h'.value = 0 /\ h'.last = h.last /\ h'.expired = h.expired /\ h'.writing = h.writing
          /\ h.writing \in {"nothing", "value", "flag"}
      BY <1>1, <2>2 DEF Hal
    <3>2. ~h.expired /\ driver' = "flag"
      BY <2>2 DEF Platform, Goes
    <3> QED  BY <2>1, <2>2, <3>1, <3>2 DEF Platform
  <2>3. CASE Goes("flag", "enter") /\ h' = [h EXCEPT !.expired = TRUE] /\ lost' = lost
    <3>1. /\ h'.value = h.value /\ h'.last = h.last /\ h'.expired /\ h'.writing = h.writing
      BY <1>1, <2>3 DEF Hal
    <3>2. driver' = "enter"
      BY <2>3 DEF Goes
    <3> QED  BY <2>1, <2>3, <3>1, <3>2 DEF Platform
  <2> QED  BY <1>3, <2>2, <2>3 DEF Expire
<1>4. CASE Enter
  <2>1. h.writing = "nothing" /\ driver # "flag"
    BY <1>4 DEF Enter, Platform, Goes
  <2>2. /\ ~h'.expired /\ h'.writing = "nothing"
        /\ h.expired => /\ Looked(h', now)
                        /\ Written(h', lost') \/ (h'.last = Never /\ h'.value = h.value
                                                                  /\ lost' = lost)
        /\ ~h.expired => /\ h'.abs = h.abs /\ h'.last = h.last /\ h'.value = h.value
                         /\ lost' = lost
    BY <1>1, <1>4, <2>1, EnterSets
  <2> QED  BY <2>1, <2>2 DEF Platform, Written
<1>5. CASE UserAssigns
  <2>1. /\ h'.writing = "flag" /\ Written(h', lost')
        /\ h'.abs = h.abs /\ h'.last = h.last /\ h'.expired = h.expired /\ h'.sock = h.sock
    BY <1>1, <1>5, UserAssignsSets
  <2>2. lock' = "user" /\ driver' = driver
    BY <1>5 DEF UserAssigns
  <2> QED  BY <2>1, <2>2 DEF Platform, Written
<1>6. CASE UserLeaves
  <2>1. lost' = (IF driver = "flag" THEN "no" ELSE lost) /\ driver' = driver /\ h.writing # "value"
    BY <1>6 DEF UserLeaves
  <2>2. /\ h'.writing = "nothing" /\ h'.abs = h.abs /\ h'.last = h.last /\ h'.value = h.value
        /\ h.sock \subseteq h'.sock
        /\ h.writing = "flag" => ~h'.expired /\ "TIMER" \in h'.sock
        /\ h.writing # "flag" => h'.expired = h.expired /\ h'.writing = h.writing
    BY <1>1, <1>6, UserLeavesSets
  <2> QED  BY <2>1, <2>2 DEF Platform
<1>7. ASSUME NEW t \in TimerIds, CallCancels(t) \/ \E timeout \in Timeouts : CallSets(t, timeout)
      PROVE  Platform'
  <2>1. driver = "call"
    BY <1>7 DEF CallCancels, CallSets, Goes
  <2>2. h.writing = "nothing" /\ ~h.expired
    BY <1>1, <2>1 DEF Platform, Exclusion
  <2>3. /\ ~h'.expired /\ h'.writing = "nothing"
        /\ Looked(h', now) \/ (h'.abs = h.abs /\ h'.last = h.last /\ CallCancels(t))
        /\ \/ Written(h', lost')
           \/ h'.last = h.last /\ h'.value = h.value /\ lost' = lost
    BY <1>1, <1>7, <2>2, CallSetsSets
  <2> QED  BY <2>1, <2>2, <2>3 DEF Platform, Written
<1>8. ASSUME NEW t \in TimerIds, UserCancels(t) \/ \E timeout \in Timeouts : UserSets(t, timeout)
      PROVE  Platform'
  <2>1. lock' = "user" /\ driver' = driver /\ lock = "free"
    BY <1>8 DEF UserCancels, UserSets
  <2>2. /\ Sets(h, h', now) /\ (Looked(h', now) \/ (h' = h /\ UserCancels(t)))
        /\ lost' = IF h'.writing = "value" THEN "no" ELSE lost
    BY <1>1, <1>8, UserSetsSets
  <2>3. h.writing = "nothing"
    BY <2>1 DEF Platform
  <2> QED  BY <2>1, <2>2, <2>3 DEF Platform, Sets
<1> QED  BY <1>2, <1>3, <1>4, <1>5, <1>6, <1>7, <1>8, NextCases

(* The time that a poll has read is used before MaxLag milliseconds passed. *)
LEMMA ReadingStep ==
    ASSUME Shape, Platform, Reading, [Next]_vars
    PROVE  Reading'
<1>1. EventTypes /\ Exclusion /\ h \in Hal /\ now \in 0..Mod - 1 /\ h.read \in 0..Mod - 1
  BY DEF Shape, EventTypes, Hal
<1>2. CASE Tick
  <2>1. /\ h' = h /\ now' = (now + 1) % Mod
        /\ h.writing = "value" => now # (h.read + MaxLag) % Mod
    BY <1>2 DEF Tick
  <2>2. Mod \in Nat /\ Mod > 0 /\ MaxLag \in Nat /\ MaxLag + 2 <= Mod
    BY Bounds
  <2>3. now' = IF now + 1 = Mod THEN 0 ELSE now + 1
    BY <1>1, <2>1, <2>2
  <2> SUFFICES ASSUME h.writing = "value" PROVE Lagged(now', h.read)
    BY <2>1 DEF Reading
  <2>4. PICK lag \in 0..MaxLag : now \in {h.read + lag, h.read + lag - Mod}
    BY DEF Reading, Lagged
  <2>5. PICK r \in 0..Mod - 1, n \in 0..Mod - 1 : r = h.read /\ n = now
    BY <1>1
  <2>6. lag # MaxLag
    <3>1. CASE n = r + MaxLag
      <4>1. (r + MaxLag) % Mod = r + MaxLag
        BY <2>2, <2>5, <3>1
      <4> QED  BY <2>1, <2>5, <3>1, <4>1
    <3>2. CASE n = r + MaxLag - Mod
      <4>1. n \in Nat /\ (n + Mod) % Mod = n
        BY <2>2
      <4>2. n + Mod = r + MaxLag
        BY <2>2, <3>2
      <4> QED  BY <2>1, <2>5, <4>1, <4>2
    <3> QED  BY <2>4, <2>5, <3>1, <3>2
  <2>7. PICK next \in 0..MaxLag : next = lag + 1
    BY <2>2, <2>6
  <2>8. now' \in {h.read + next, h.read + next - Mod}
    BY <2>2, <2>3, <2>4, <2>5, <2>7
  <2> QED  BY <2>8 DEF Lagged
<1>3. CASE \/ UNCHANGED vars \/ Look \/ Compare \/ SelectData \/ SelectControl \/ SelectTimeout
           \/ Pump \/ Leave \/ UpperReturns \/ CallReturns \/ CallPosts \/ UserPosts
  <2>1. h'.writing = h.writing /\ h'.read = h.read
    BY <1>1, <1>3, OthersKeep
  <2>2. now' = now
    BY <1>3 DEF vars, Look, Compare, SelectData, SelectControl, SelectTimeout, Pump, Leave,
                UpperReturns, CallReturns, CallPosts, UserPosts
  <2> QED  BY <2>1, <2>2 DEF Reading
<1>4. CASE Expire
  <2>1. h'.writing = h.writing /\ h'.read = h.read /\ now' = now
    BY <1>1, <1>4 DEF Expire, Hal
  <2> QED  BY <2>1 DEF Reading
<1>5. CASE Enter
  <2>1. h.writing = "nothing"
    BY <1>5 DEF Enter, Platform
  <2>2. h'.writing = "nothing"
    BY <1>1, <1>5, <2>1, EnterSets
  <2> QED  BY <2>2 DEF Reading
<1>6. CASE UserAssigns
  BY <1>1, <1>6, UserAssignsSets DEF Reading
<1>7. CASE UserLeaves
  BY <1>1, <1>7, UserLeavesSets DEF Reading
<1>8. ASSUME NEW t \in TimerIds, CallCancels(t) \/ \E timeout \in Timeouts : CallSets(t, timeout)
      PROVE  Reading'
  <2>1. h.writing = "nothing" /\ ~h.expired
    BY <1>1, <1>8 DEF Platform, Exclusion, CallCancels, CallSets, Goes
  <2>2. h'.writing = "nothing"
    BY <1>1, <1>8, <2>1, CallSetsSets
  <2> QED  BY <2>2 DEF Reading
<1>9. ASSUME NEW t \in TimerIds, UserCancels(t) \/ \E timeout \in Timeouts : UserSets(t, timeout)
      PROVE  Reading'
  <2>1. lock = "free" /\ now' = now
    BY <1>9 DEF UserCancels, UserSets
  <2>2. h.writing = "nothing"
    BY <2>1 DEF Platform
  <2>3. Sets(h, h', now)
    BY <1>1, <1>9, UserSetsSets
  <2>4. h'.writing = "value" => h'.read = now
    BY <2>2, <2>3 DEF Sets
  <2>5. Lagged(now, now)
    <3>1. 0 \in 0..MaxLag /\ now + 0 = now
      BY <1>1, Bounds
    <3> QED  BY <3>1 DEF Lagged
  <2> QED  BY <2>1, <2>4, <2>5 DEF Reading
<1> QED  BY <1>2, <1>3, <1>4, <1>5, <1>6, <1>7, <1>8, <1>9, NextCases

(* The timeout of the select follows the clock and the platform timer. *)
LEMMA TimeoutStep ==
    ASSUME Shape, Timeout, Platform, Reading, [Next]_vars
    PROVE  Timeout'
<1>1. /\ EventTypes /\ h \in Hal /\ now \in 0..Mod - 1 /\ wait \in -1..Mod - 1 + MaxLag
      /\ h.value \in 0..Mod - 1
      /\ Mod \in Nat /\ Mod > 0 /\ MaxLag \in Nat /\ MaxLag + 2 <= Mod
  BY Bounds DEF Shape, EventTypes, Hal
<1>2. CASE Look \/ Compare
  <2>1. h' = h /\ now' = now
    BY <1>2 DEF Look, Compare
  <2>2. CASE driver' = "select"
    <3>1. \/ wait' = Forever /\ h.value = 0
          \/ h.value > now /\ \E ms \in 0..MaxLag : wait' = h.value - now + ms
      BY <1>2, <2>2 DEF Look, Compare, Goes
    <3>2. ASSUME h.value > now, NEW ms \in 0..MaxLag, wait' = h.value - now + ms
          PROVE  wait' # Forever /\ h.value # 0 /\ Lagged(now + wait', h.value)
      <4>1. now + wait' = h.value + ms /\ wait' # -1 /\ h.value # 0
        BY <1>1, <3>2
      <4> QED  BY <4>1 DEF Forever, Lagged
    <3> QED  BY <2>1, <3>1, <3>2 DEF Timeout
  <2> QED  BY <2>2 DEF Timeout
<1>3. CASE \/ SelectData \/ SelectControl \/ SelectTimeout \/ Expire \/ Enter \/ Pump \/ Leave
           \/ UpperReturns \/ CallReturns \/ CallPosts
           \/ \E t \in TimerIds : CallCancels(t) \/ \E timeout \in Timeouts : CallSets(t, timeout)
  <2>1. driver' # "select"
    BY <1>3 DEF SelectData, SelectControl, SelectTimeout, Expire, Enter, Pump, Leave, UpperReturns,
                CallReturns, CallPosts, CallCancels, CallSets, Goes
  <2> QED  BY <2>1 DEF Timeout
<1>4. CASE UNCHANGED vars
  BY <1>4 DEF vars, Timeout
<1>5. CASE UserAssigns
  BY <1>1, <1>5, UserAssignsSets DEF Timeout
<1>6. CASE UserLeaves
  <2>1. driver' = driver /\ wait' = wait /\ now' = now
    BY <1>6 DEF UserLeaves
  <2>2. /\ h'.writing = "nothing" /\ h'.abs = h.abs /\ h'.last = h.last /\ h'.value = h.value
        /\ h.sock \subseteq h'.sock
        /\ h.writing = "flag" => ~h'.expired /\ "TIMER" \in h'.sock
        /\ h.writing # "flag" => h'.expired = h.expired /\ h'.writing = h.writing
    BY <1>1, <1>6, UserLeavesSets
  <2> QED  BY <2>1, <2>2 DEF Timeout
<1>7. CASE UserPosts
  <2>1. driver' = driver /\ wait' = wait /\ now' = now
    BY <1>7 DEF UserPosts
  <2>2. h'.value = h.value /\ h'.writing = h.writing
    BY <1>1, <1>7, OthersKeep
  <2>3. h.sock \subseteq h'.sock
    BY <1>1, <1>7, PostsFollows DEF Follows
  <2> QED  BY <2>1, <2>2, <2>3 DEF Timeout
<1>8. CASE Tick
  <2>1. h' = h /\ driver' = driver /\ now' = (now + 1) % Mod
        /\ wait' = IF wait > 0 THEN wait - 1 ELSE wait
    BY <1>8 DEF Tick
  <2>2. CASE wait = Forever \/ wait = 0
    <3>1. wait' = wait
      BY <1>1, <2>1, <2>2 DEF Forever
    <3> QED  BY <2>1, <2>2, <3>1 DEF Timeout, Forever
  <2>3. CASE ~(driver = "select" /\ "TIMER" \notin h.sock /\ h.writing # "flag")
    BY <2>1, <2>3 DEF Timeout
  <2>4. CASE wait > 0 /\ Lagged(now + wait, h.value)
    <3>1. PICK w \in Nat, n \in 0..Mod - 1, v \in 0..Mod - 1 :
            w = wait /\ w > 0 /\ n = now /\ v = h.value
      <4>1. wait \in Nat
        BY <1>1, <2>4
      <4> QED  BY <1>1, <2>4, <4>1
    <3>2. PICK lag \in 0..MaxLag : n + w \in {v + lag, v + lag - Mod}
      BY <2>4, <3>1 DEF Lagged
    <3>3. wait' = w - 1 /\ wait' # Forever
      BY <2>1, <3>1 DEF Forever
    <3>4. CASE n + 1 < Mod
      <4>1. (n + 1) % Mod = n + 1
        BY <1>1, <3>4
      <4>2. now' + wait' = n + w
        BY <2>1, <3>1, <3>3, <4>1
      <4>3. Lagged(now' + wait', h.value)
        BY <3>1, <3>2, <4>2 DEF Lagged
      <4> QED  BY <2>1, <3>1, <3>3, <4>3 DEF Timeout, Forever
    <3>5. CASE n + 1 = Mod
      <4>1. (n + 1) % Mod = 0
        BY <1>1, <3>5
      <4>2. now' + wait' = w - 1
        BY <2>1, <3>1, <3>3, <4>1
      <4>3. n + w # v + lag - Mod
        BY <1>1, <3>1, <3>5
      <4>4. w - 1 = v + lag - Mod
        BY <1>1, <3>1, <3>2, <3>5, <4>3
      <4>5. Lagged(now' + wait', h.value)
        BY <3>1, <4>2, <4>4 DEF Lagged
      <4> QED  BY <2>1, <3>1, <3>3, <4>5 DEF Timeout, Forever
    <3> QED  BY <1>1, <3>4, <3>5
  <2>5. wait = Forever \/ wait = 0 \/ wait > 0
    BY <1>1 DEF Forever
  <2>6. CASE wait > 0 /\ ~Lagged(now + wait, h.value)
    BY <2>3, <2>6 DEF Timeout, Forever
  <2> QED  BY <2>2, <2>4, <2>5, <2>6
<1>9. ASSUME NEW t \in TimerIds, UserCancels(t) \/ \E timeout \in Timeouts : UserSets(t, timeout)
      PROVE  Timeout'
  <2>1. driver' = driver /\ wait' = wait /\ now' = now
    BY <1>9 DEF UserCancels, UserSets
  <2>2. Sets(h, h', now)
    BY <1>1, <1>9, UserSetsSets
  <2>3. h.sock \subseteq h'.sock
    <3>1. CASE UserCancels(t)
      BY <1>1, <3>1, UserCancelsFollows DEF Follows
    <3>2. ASSUME NEW timeout \in Timeouts, UserSets(t, timeout)
          PROVE  h.sock \subseteq h'.sock
      BY <1>1, <3>2, SetsFollows DEF Follows
    <3> QED  BY <1>9, <3>1, <3>2
  <2>4. h.writing = "nothing"
    BY <1>9 DEF UserCancels, UserSets, Platform
  <2>5. h'.value = h.value
    BY <2>2 DEF Sets
  <2> QED  BY <2>1, <2>3, <2>4, <2>5 DEF Timeout
<1> QED  BY <1>2, <1>3, <1>4, <1>5, <1>6, <1>7, <1>8, <1>9, NextCases

(* The platform timer stays set for the earliest of the timers. *)
LEMMA EarliestStep ==
    ASSUME Shape, Agree(h.abs, due), OnTime(h.abs, left, now), Platform, Reading,
           Earliest(h.abs, h.last, left), [Next]_vars
    PROVE  Earliest(h'.abs, h'.last, left')
<1>1. EventTypes /\ Exclusion /\ h \in Hal /\ left \in [TimerIds -> -MaxLate..Mod]
  BY DEF Shape, EventTypes
<1>2. Shape' /\ OnTime(h'.abs, left', now')
  BY ShapeStep, OnTimeStep
<1>3. h' \in Hal /\ left' \in [TimerIds -> -MaxLate..Mod] /\ now' \in 0..Mod - 1
  BY <1>2 DEF Shape, EventTypes
<1>4. ASSUME Looked(h', now), now' = now
      PROVE  Earliest(h'.abs, h'.last, left')
  BY <1>2, <1>3, <1>4, LookedEarliest
<1>5. CASE Tick
  <2>1. h' = h
    BY <1>5 DEF Tick
  <2>2. \A t \in TimerIds : h.abs[t] # 0 => left'[t] = left[t] - 1 /\ left[t] \in Int
    <3>1. \A t \in TimerIds : left[t] \in Int
      BY <1>1, Bounds
    <3> QED  BY <1>5, <3>1 DEF Tick, Agree
  <2> QED  BY <2>1, <2>2 DEF Earliest
<1>6. CASE \/ UNCHANGED vars \/ Look \/ Compare \/ SelectData \/ SelectControl \/ SelectTimeout
           \/ Pump \/ Leave \/ UpperReturns \/ CallReturns \/ CallPosts \/ UserPosts
  <2>1. h'.abs = h.abs /\ h'.last = h.last
    BY <1>1, <1>6, OthersKeep
  <2>2. left' = left
    BY <1>6 DEF vars, Look, Compare, SelectData, SelectControl, SelectTimeout, Pump, Leave,
                UpperReturns, CallReturns, CallPosts, UserPosts
  <2> QED  BY <2>1, <2>2
<1>7. CASE Expire
  <2>1. h'.abs = h.abs /\ h'.last = h.last /\ left' = left
    BY <1>1, <1>7 DEF Expire, Hal
  <2> QED  BY <2>1
<1>8. CASE Enter
  <2>1. h.writing = "nothing" /\ now' = now /\ left' = left
    BY <1>8 DEF Enter, Platform
  <2>2. /\ h.expired => Looked(h', now)
        /\ ~h.expired => h'.abs = h.abs /\ h'.last = h.last
    BY <1>1, <1>8, <2>1, EnterSets
  <2> QED  BY <1>4, <2>1, <2>2
<1>9. CASE UserAssigns \/ UserLeaves
  <2>1. left' = left
    BY <1>9 DEF UserAssigns, UserLeaves
  <2>2. h'.abs = h.abs /\ h'.last = h.last
    BY <1>1, <1>9, UserAssignsSets, UserLeavesSets
  <2> QED  BY <2>1, <2>2
<1>10. ASSUME NEW t \in TimerIds, CallCancels(t) \/ \E timeout \in Timeouts : CallSets(t, timeout)
       PROVE  Earliest(h'.abs, h'.last, left')
  <2>1. driver = "call" /\ now' = now /\ (CallCancels(t) => left' = left)
    BY <1>10 DEF CallCancels, CallSets, Goes
  <2>2. h.writing = "nothing" /\ ~h.expired
    BY <1>1, <2>1 DEF Platform, Exclusion
  <2>3. Looked(h', now) \/ (h'.abs = h.abs /\ h'.last = h.last /\ CallCancels(t))
    BY <1>1, <1>10, <2>2, CallSetsSets
  <2> QED  BY <1>4, <2>1, <2>3
<1>11. ASSUME NEW t \in TimerIds, UserCancels(t) \/ \E timeout \in Timeouts : UserSets(t, timeout)
       PROVE  Earliest(h'.abs, h'.last, left')
  <2>1. now' = now /\ (UserCancels(t) => left' = left)
    BY <1>11 DEF UserCancels, UserSets
  <2>2. Looked(h', now) \/ (h' = h /\ UserCancels(t))
    BY <1>1, <1>11, UserSetsSets
  <2> QED  BY <1>4, <2>1, <2>2
<1> QED  BY <1>5, <1>6, <1>7, <1>8, <1>9, <1>10, <1>11, NextCases

(* The inductive invariant of the platform timer, beside that of the loop. *)
THEOREM TimerInvHolds == Spec => []TimerInv
<1>1. Init => TimerInv
  <2> SUFFICES ASSUME Init PROVE TimerInv
    OBVIOUS
  <2>1. /\ h.abs = [t \in TimerIds |-> 0] /\ h.last = Never /\ h.value = 0
        /\ h.expired = FALSE /\ h.writing = "nothing" /\ lost = "no" /\ driver = "look"
    BY DEF Init, Created
  <2> QED  BY <2>1 DEF TimerInv, Earliest, Reading, Platform, Timeout
<1>2. EventInv /\ TimerInv /\ [Next]_vars => TimerInv'
  <2> SUFFICES ASSUME EventInv, TimerInv, [Next]_vars PROVE TimerInv'
    OBVIOUS
  <2>1. /\ Shape /\ Agree(h.abs, due) /\ OnTime(h.abs, left, now) /\ Platform /\ Timeout
        /\ Reading /\ Earliest(h.abs, h.last, left)
    BY DEF EventInv, TimerInv, Shape
  <2>2. Platform'
    BY <2>1, PlatformStep
  <2>3. Reading'
    BY <2>1, ReadingStep
  <2>4. Timeout'
    BY <2>1, TimeoutStep
  <2>5. Earliest(h'.abs, h'.last, left')
    BY <2>1, EarliestStep
  <2> QED  BY <2>2, <2>3, <2>4, <2>5 DEF TimerInv
<1> QED  BY <1>1, <1>2, EventInvHolds, PTL DEF Spec

(* While the driver thread sleeps its select ends before any timer is due  *)
(* that was set and not posted or cancelled, but for two delays of the     *)
(* threads between reading the clock and using it.  The exceptions are     *)
(* those that the property names: nTimerValue was lost in the race of the  *)
(* two threads or came out as 0, a timer due at 0, one due at the value    *)
(* that stands for none, and one that had expired before the clock wrapped *)
(* around.                                                                 *)
THEOREM NoTimerForgottenHolds == Spec => []NoTimerForgotten
<1>1. EventInv /\ TimerInv => NoTimerForgotten
  <2> SUFFICES ASSUME EventInv, TimerInv, Asleep, lock = "free",
                      NEW t \in TimerIds, due[t] # NotSet,
                      lost = "no", due[t] # 0,
                      ~(h.last = Never /\ \E u \in TimerIds : due[u] = Never)
               PROVE  \/ wait # Forever
                         /\ wait <= IF left[t] + 2 * MaxLag > 0 THEN left[t] + 2 * MaxLag ELSE 0
                      \/ \E u \in TimerIds : due[u] # NotSet /\ left[u] < 0 /\ wait >= Mod + left[u]
    BY DEF NoTimerForgotten
  <2>1. driver = "select" /\ "TIMER" \notin h.sock /\ h.writing = "nothing" /\ ~h.expired
    BY DEF Asleep, TimerInv, Platform
  <2>2. \A u \in TimerIds : h.abs[u] = IF due[u] = NotSet THEN 0 ELSE due[u]
    BY DEF EventInv, Agree
  <2>3. PICK s \in TimerIds : /\ h.abs[s] # 0 /\ h.abs[s] = h.last
                              /\ \A u \in TimerIds : h.abs[u] # 0 => left[s] <= left[u]
    BY <2>2 DEF TimerInv, Earliest
  <2>4. due[s] # NotSet /\ due[s] = h.last /\ h.last # Never /\ left[s] <= left[t]
    BY <2>2, <2>3
  <2>5. h.value # 0 /\ Lagged(h.value, h.last)
    BY <2>1, <2>4 DEF TimerInv, Platform
  <2>6. wait # Forever /\ (wait = 0 \/ Lagged(now + wait, h.value))
    BY <2>1, <2>5 DEF TimerInv, Timeout
  <2>7. PICK half \in Nat : Mod = 2 * half /\ Mod \div 2 = half /\ MaxLate <= half - 2
    BY Bounds
  <2>8. PICK d \in Int, e \in Int, n \in 0..Mod - 1, v \in 0..Mod - 1, x \in 0..Mod - 1, w \in Nat :
          /\ d = left[s] /\ e = left[t] /\ n = now /\ v = h.value /\ x = h.last /\ w = wait
          /\ d <= e
    <3>1. left[s] \in Int /\ left[t] \in Int
      BY Bounds DEF EventInv, EventTypes
    <3>2. now \in 0..Mod - 1 /\ h.value \in 0..Mod - 1 /\ h.last \in 0..Mod - 1
      BY DEF EventInv, EventTypes, Hal
    <3>3. wait \in Nat
      BY <2>6, Bounds DEF EventInv, EventTypes, Forever
    <3> QED  BY <2>4, <3>1, <3>2, <3>3
  <2>9. d \in -MaxLate..half - 2 /\ x \in {n + d, n + d - Mod, n + d + Mod}
    BY <2>3, <2>7, <2>8 DEF EventInv, OnTime
  <2>10. MaxLag \in Nat
    BY Bounds
  <2>11. CASE w = 0
    BY <2>6, <2>8, <2>10, <2>11
  <2>12. CASE w # 0
    <3>1. PICK a \in 0..MaxLag, b \in 0..MaxLag : /\ v \in {x + a, x + a - Mod}
                                                 /\ n + w \in {v + b, v + b - Mod}
      BY <2>5, <2>6, <2>8, <2>12 DEF Lagged
    <3>2. CASE x = n + d + Mod /\ v = x + a /\ n + w = v + b
      <4>1. d < 0 /\ w >= Mod + d
        BY <2>7, <2>8, <2>10, <3>2
      <4> QED  BY <2>4, <2>8, <4>1
    <3>3. CASE ~(x = n + d + Mod /\ v = x + a /\ n + w = v + b)
      <4>1. w <= d + a + b
        BY <2>7, <2>9, <2>10, <3>1, <3>3
      <4>2. w <= IF e + 2 * MaxLag > 0 THEN e + 2 * MaxLag ELSE 0
        BY <2>8, <2>10, <2>12, <4>1
      <4> QED  BY <2>6, <2>8, <4>2
    <3> QED  BY <3>2, <3>3
  <2> QED  BY <2>11, <2>12
<1> QED  BY <1>1, EventInvHolds, TimerInvHolds, PTL
=============================================================================
