-------------------------- MODULE LinkQueueProofs --------------------------
(***************************************************************************)
(* What the layers of the HAL tell each other through the queue of         *)
(* deferred calls, for every list of messages and every number of faults:  *)
(* no wake-up is lost, a received frame is passed on before the next one   *)
(* replaces it, and an acknowledgement finds the message it completes.     *)
(***************************************************************************)
EXTENDS LinkProofs

(* The calls that carry something from one layer to another; the others    *)
(* only bring the transmission or the connection on.                       *)
Watched == {"FrameRead", "DataReady", "StreamData", "Acknowledged", "BufferFree", "ConnectDone"}
Neutral == PlainCalls \ Watched

(* Which of them are never queued before which. *)
NeverBefore ==
    {<<"FrameRead", "FrameRead">>, <<"FrameRead", "DataReady">>, <<"FrameRead", "Acknowledged">>,
     <<"DataReady", "DataReady">>, <<"DataReady", "StreamData">>, <<"DataReady", "ConnectDone">>,
     <<"StreamData", "StreamData">>, <<"Acknowledged", "Acknowledged">>}

InOrder(q) == \A i, j \in DOMAIN q : i < j => <<q[i].fn, q[j].fn>> \notin NeverBefore

(* The read that is under way, the frame that is read, and their calls. *)
Reads(s) ==
    /\ s.reading => "FrameRead" \notin Fns(s.dfc)
    /\ s.buf = <<>> <=> "DataReady" \notin Fns(s.dfc)
    /\ Len(s.buf) <= 1 /\ s.readFull = FALSE
    /\ InOrder(s.dfc)

(* Before the connection is up nothing is read or acknowledged, and after  *)
(* a reset nothing is under way at all.                                    *)
Starts(s) ==
    /\ s.status # "UA_SENT" =>
          Fns(s.dfc) \intersect {"DataReady", "StreamData", "Acknowledged", "BufferFree"} = {}
    /\ s.status = "RESET_PENDING" =>
          Fns(s.dfc) \subseteq {"T6"} /\ s.armed \subseteq {"T6"} /\ s.tx = NoTx /\ ~s.reading
    /\ s.status \notin {"UA_SENT", "RESET_PENDING"} => s.connCb = TRUE

(* The window of one frame is taken, by the last frame of a message. *)
Waits(s) == s.nextToSend > s.lastAck + 1
LastWaits(s) == Waits(s) /\ s.slots[0].pay.last

(* The HCI layer u: what it does not know yet a call will tell it; calm    *)
(* says that the controller has not restarted.                             *)
Told(s, u) ==
    /\ s.status = "UA_SENT" => u.connected \/ "ConnectDone" \in Fns(s.dfc)
    /\ \A c \in Range(s.dfc) : c.fn = "StreamData" => c.pay = u.rx
    /\ ~u.connected =>
          u.waiting = <<>> /\ u.sent = <<>> /\ "Acknowledged" \notin Fns(s.dfc) /\ ~Waits(s)
Woken(s, u, calm) ==
    u.connected /\ u.waiting # <<>> /\ calm =>
        \/ Waits(s) /\ s.writeFull = TRUE
        \/ "Acknowledged" \in Fns(s.dfc) \/ "BufferFree" \in Fns(s.dfc)

(* Every end of a message that is sent or acknowledged has its context. *)
Contexts(s, u) ==
    /\ u.waiting \in Seq([m : Nat, frag : Nat]) /\ u.sent \in Seq(Nat) /\ DOMAIN s.slots = {0}
    /\ "Acknowledged" \in Fns(s.dfc) => Len(u.sent) >= 1
    /\ LastWaits(s) => Len(u.sent) >= IF "Acknowledged" \in Fns(s.dfc) THEN 2 ELSE 1

Queue(s, u, calm) == Reads(s) /\ Starts(s) /\ Told(s, u) /\ Woken(s, u, calm) /\ Contexts(s, u)

(* A controller that has not restarted has sent no RST. *)
NoRST(f) == f.t # "RST"
Unbroken ==
    faults["restart"] = 0 =>
        /\ ctrl.state # "rst"
        /\ \A f \in Range(toHost) : NoRST(f)
        /\ \A c \in Range(host.dfc) : c.fn = "FrameRead" => NoRST(c.f)

Calm == faults["restart"] = 0

QueueInv == Queue(host, hci, Calm) /\ Unbroken /\ asked \in Nat

-----------------------------------------------------------------------------
(* The queue.                                                              *)

(* A call that may follow all that are queued is posted. *)
LEMMA AppendInOrder ==
    ASSUME NEW S, NEW q \in Seq(S), NEW c \in S
    PROVE  /\ Append(q, c) \in Seq(S) /\ Range(Append(q, c)) = Range(q) \union {c}
           /\ InOrder(q) /\ (\A fn \in Fns(q) : <<fn, c.fn>> \notin NeverBefore)
              => InOrder(Append(q, c))
<1> DEFINE r == Append(q, c)
<1>1. /\ r \in Seq(S) /\ Len(q) \in Nat /\ DOMAIN q = 1..Len(q) /\ DOMAIN r = 1..Len(q) + 1
      /\ \A i \in 1..Len(q) : r[i] = q[i]
      /\ r[Len(q) + 1] = c
  BY AppendProperties, LenProperties
<1> HIDE DEF r
<1>2. Range(r) = Range(q) \union {c}
  BY <1>1 DEF Range
<1>3. ASSUME InOrder(q), \A fn \in Fns(q) : <<fn, c.fn>> \notin NeverBefore,
             NEW i \in DOMAIN r, NEW j \in DOMAIN r, i < j
      PROVE  <<r[i].fn, r[j].fn>> \notin NeverBefore
  <2>1. i \in DOMAIN q /\ r[i] = q[i]
    BY <1>1, <1>3
  <2>2. CASE j \in DOMAIN q
    BY <1>1, <1>3, <2>1, <2>2 DEF InOrder
  <2>3. CASE j \notin DOMAIN q
    <3>1. r[j] = c
      BY <1>1, <2>3
    <3>2. q[i].fn \in Fns(q)
      BY <2>1 DEF Fns, Range
    <3> QED  BY <1>3, <2>1, <3>1, <3>2
  <2> QED  BY <2>2, <2>3
<1>4. InOrder(q) /\ (\A fn \in Fns(q) : <<fn, c.fn>> \notin NeverBefore) => InOrder(r)
  BY <1>3 DEF InOrder
<1> QED  BY <1>1, <1>2, <1>4 DEF r

(* The call at the head is run. *)
LEMMA TailInOrder ==
    ASSUME NEW S, NEW q \in Seq(S), q # <<>>
    PROVE  /\ Range(q) = Range(Tail(q)) \union {Head(q)}
           /\ InOrder(q) => /\ InOrder(Tail(q))
                            /\ \A fn \in Fns(Tail(q)) : <<Head(q).fn, fn>> \notin NeverBefore
<1> DEFINE r == Tail(q)
<1>1. /\ Len(q) \in Nat /\ Len(q) > 0 /\ DOMAIN q = 1..Len(q)
      /\ DOMAIN r = 1..Len(q) - 1 /\ Head(q) = q[1]
      /\ \A i \in 1..Len(q) - 1 : r[i] = q[i + 1]
  BY HeadTailProperties, LenProperties, EmptySeq
<1> HIDE DEF r
<1>2. Range(q) = Range(r) \union {Head(q)}
  <2>1. ASSUME NEW i \in DOMAIN q PROVE q[i] \in Range(r) \union {Head(q)}
    <3>1. CASE i = 1
      BY <1>1, <3>1
    <3>2. CASE i # 1
      <4>1. i - 1 \in DOMAIN r /\ r[i - 1] = q[i]
        BY <1>1, <3>2
      <4> QED  BY <4>1 DEF Range
    <3> QED  BY <3>1, <3>2
  <2>2. ASSUME NEW i \in DOMAIN r PROVE r[i] \in Range(q)
    <3>1. i + 1 \in DOMAIN q /\ r[i] = q[i + 1]
      BY <1>1
    <3> QED  BY <3>1 DEF Range
  <2>3. Head(q) \in Range(q)
    BY <1>1 DEF Range
  <2> QED  BY <2>1, <2>2, <2>3 DEF Range
<1>3. ASSUME InOrder(q), NEW i \in DOMAIN r, NEW j \in DOMAIN r, i < j
      PROVE  <<r[i].fn, r[j].fn>> \notin NeverBefore
  <2>1. i + 1 \in DOMAIN q /\ j + 1 \in DOMAIN q /\ i + 1 < j + 1 /\ r[i] = q[i + 1] /\ r[j] = q[j + 1]
    BY <1>1, <1>3
  <2> QED  BY <1>3, <2>1 DEF InOrder
<1>4. ASSUME InOrder(q), NEW j \in DOMAIN r
      PROVE  <<Head(q).fn, r[j].fn>> \notin NeverBefore
  <2>1. 1 \in DOMAIN q /\ j + 1 \in DOMAIN q /\ 1 < j + 1 /\ r[j] = q[j + 1]
    BY <1>1
  <2> QED  BY <1>1, <1>4, <2>1 DEF InOrder
<1>5. InOrder(q) => InOrder(r) /\ \A fn \in Fns(r) : <<Head(q).fn, fn>> \notin NeverBefore
  BY <1>3, <1>4 DEF InOrder, Fns, Range
<1> QED  BY <1>2, <1>5 DEF r

(* The calls of some types are flushed. *)
LEMMA FlushInOrder ==
    ASSUME NEW s, DOMAIN s = Fields, NEW S, s.dfc \in Seq(S), NEW fns, NEW k, k = Flush(s, fns)
    PROVE  /\ Only(s, k, {"dfc"}) /\ k.dfc \in Seq(S)
           /\ Range(k.dfc) = {c \in Range(s.dfc) : c.fn \notin fns}
           /\ InOrder(s.dfc) => InOrder(k.dfc)
<1> DEFINE d == s.dfc
           N == Len(d)
           F == CHOOSE f : Keeps(f, d, fns, N)
           K(n) == {c \in {d[i] : i \in 1..n} : c.fn \notin fns}
<1>1. N \in Nat /\ DOMAIN d = 1..N
  OBVIOUS
<1>2. Keeps(F, d, fns, N)
  <2>1. \E f : Keeps(f, d, fns, N)
    BY <1>1, KeepsDefined
  <2> QED  BY <2>1
<1>3. k = [s EXCEPT !.dfc = F[N]]
  BY DEF Flush, Keeps
<1> HIDE DEF F
<1>4. /\ F[0] = <<>>
      /\ \A n \in 0..N - 1 : F[n + 1] = Kept(F[n], d[n + 1], fns)
  BY <1>1, <1>2 DEF Keeps
<1> DEFINE P == {n \in Nat : n <= N => /\ F[n] \in Seq(S) /\ Range(F[n]) = K(n)
                                       /\ InOrder(d) => InOrder(F[n])}
<1>5. 0 \in P
  <2>1. F[0] \in Seq(S) /\ Range(F[0]) = {} /\ InOrder(F[0])
    BY <1>4 DEF InOrder, Range
  <2>2. K(0) = {}
    OBVIOUS
  <2> QED  BY <2>1, <2>2
<1>6. ASSUME NEW n \in P PROVE n + 1 \in P
  <2>1. CASE n + 1 <= N
    <3>1. /\ F[n] \in Seq(S) /\ Range(F[n]) = K(n) /\ (InOrder(d) => InOrder(F[n]))
          /\ n + 1 \in DOMAIN d /\ d[n + 1] \in S
          /\ F[n + 1] = IF d[n + 1].fn \in fns THEN F[n] ELSE Append(F[n], d[n + 1])
      BY <1>1, <1>4, <2>1 DEF Kept
    <3>2. {d[i] : i \in 1..n + 1} = {d[i] : i \in 1..n} \union {d[n + 1]}
      OBVIOUS
    <3>3. CASE d[n + 1].fn \in fns
      <4>1. K(n + 1) = K(n)
        BY <3>2, <3>3
      <4> HIDE DEF K
      <4>2. /\ F[n + 1] \in Seq(S) /\ Range(F[n + 1]) = K(n + 1)
            /\ InOrder(d) => InOrder(F[n + 1])
        BY <3>1, <3>3, <4>1
      <4> QED  BY <4>2
    <3>4. CASE d[n + 1].fn \notin fns
      <4>1. K(n + 1) = K(n) \union {d[n + 1]}
        BY <3>2, <3>4
      <4>2. ASSUME InOrder(d), NEW fn \in Fns(F[n])
            PROVE  <<fn, d[n + 1].fn>> \notin NeverBefore
        <5>1. PICK i \in 1..n : d[i].fn = fn
          BY <3>1, <4>2 DEF Fns
        <5>2. i \in DOMAIN d /\ n + 1 \in DOMAIN d /\ i < n + 1
          BY <1>1, <3>1
        <5> HIDE DEF d
        <5> QED  BY <4>2, <5>1, <5>2 DEF InOrder
      <4> HIDE DEF K
      <4>3. /\ F[n + 1] \in Seq(S) /\ Range(F[n + 1]) = Range(F[n]) \union {d[n + 1]}
            /\ InOrder(d) => InOrder(F[n + 1])
        <5>1. PICK c \in S : c = d[n + 1]
          BY <3>1
        <5>2. F[n + 1] = Append(F[n], c)
          BY <3>1, <3>4, <5>1
        <5>3. InOrder(d) => (\A fn \in Fns(F[n]) : <<fn, c.fn>> \notin NeverBefore)
          BY <4>2, <5>1
        <5> HIDE DEF d
        <5> QED  BY <3>1, <5>1, <5>2, <5>3, AppendInOrder
      <4>4. Range(F[n + 1]) = K(n + 1)
        BY <3>1, <4>1, <4>3
      <4>5. n + 1 \in Nat
        OBVIOUS
      <4> HIDE DEF d
      <4> QED  BY <4>3, <4>4, <4>5
    <3> QED  BY <3>3, <3>4
  <2>2. CASE ~(n + 1 <= N)
    BY <2>2
  <2> QED  BY <2>1, <2>2
<1> HIDE DEF P
<1>7. P = Nat
  <2>1. P \in SUBSET Nat
    BY DEF P
  <2> QED  BY <1>5, <1>6, <2>1, ByInduction
<1>8. F[N] \in Seq(S) /\ Range(F[N]) = K(N) /\ (InOrder(d) => InOrder(F[N]))
  <2>1. N \in P /\ N <= N
    BY <1>1, <1>7
  <2> HIDE DEF K, N
  <2> QED  BY <2>1 DEF P
<1>9. K(N) = {c \in Range(d) : c.fn \notin fns}
  BY <1>1 DEF Range
<1>10. Only(s, k, {"dfc"}) /\ k.dfc = F[N]
  BY <1>3 DEF Only, Fields
<1> QED  BY <1>8, <1>9, <1>10

(* r has the watched calls of q in an order that is no worse; a frame that *)
(* was read may have been dropped.                                         *)
Like(q, r) ==
    /\ \A c : c.fn \in Watched /\ c \in Range(r) => c \in Range(q)
    /\ \A c : c.fn \in Watched \ {"FrameRead"} /\ c \in Range(q) => c \in Range(r)
    /\ InOrder(q) => InOrder(r)

(* The transmission has run, or something else that is neutral: k differs  *)
(* from s only in what the watched calls do not depend on.                 *)
Moving ==
    {"nextWindow", "readLastAck", "ready", "ctrl", "pending", "rrSent", "piggy", "armed", "dfc",
     "tx"}
Kin(s, k, mode) == Only(s, k, Moving) /\ k.dfc \in Seq(DfcCalls(mode)) /\ Like(s.dfc, k.dfc)

Based(s, mode) == DOMAIN s = Fields /\ s.dfc \in Seq(DfcCalls(mode))

LEMMA KinSelf ==
    ASSUME NEW mode, NEW s, Based(s, mode)
    PROVE  Kin(s, s, mode)
BY DEF Based, Kin, Only, Like

LEMMA KinTrans ==
    ASSUME NEW mode, NEW s, NEW k, NEW l, Kin(s, k, mode), Kin(k, l, mode)
    PROVE  Kin(s, l, mode)
BY DEF Kin, Only, Like

LEMMA KinBased ==
    ASSUME NEW mode, NEW s, NEW k, Kin(s, k, mode)
    PROVE  Based(k, mode)
BY DEF Kin, Only, Based

(* Fields that the transmission changes are changed. *)
LEMMA KinFields ==
    ASSUME NEW mode, NEW s, Based(s, mode), NEW k, Only(s, k, Moving), k.dfc = s.dfc
    PROVE  Kin(s, k, mode)
BY DEF Based, Kin, Like

LEMMA KinPost ==
    ASSUME NEW mode, NEW s, Based(s, mode), NEW fn \in Neutral, NEW k, k = Post(s, fn)
    PROVE  Kin(s, k, mode) /\ Only(s, k, {"dfc"})
<1> DEFINE c == [fn |-> fn]
<1>1. c \in DfcCalls(mode) /\ c.fn = fn
  BY DEF DfcCalls, Neutral
<1>2. Only(s, k, {"dfc"}) /\ k.dfc = Append(s.dfc, c)
  BY DEF Based, Post, Only, Fields
<1> HIDE DEF c
<1>3. fn \notin Watched /\ \A x : <<x, fn>> \notin NeverBefore
  BY DEF Neutral, Watched, NeverBefore
<1>4. /\ k.dfc \in Seq(DfcCalls(mode)) /\ Range(k.dfc) = Range(s.dfc) \union {c}
      /\ InOrder(s.dfc) => InOrder(k.dfc)
  BY <1>1, <1>2, <1>3, AppendInOrder DEF Based
<1>5. Like(s.dfc, k.dfc)
  BY <1>1, <1>3, <1>4 DEF Like
<1>6. Only(s, k, Moving)
  BY <1>2 DEF Only, Moving
<1> QED  BY <1>2, <1>4, <1>5, <1>6 DEF Kin

LEMMA KinFlush ==
    ASSUME NEW mode, NEW s, Based(s, mode), NEW fns, fns \intersect Watched \subseteq {"FrameRead"},
           NEW k, k = Flush(s, fns)
    PROVE  Kin(s, k, mode) /\ Only(s, k, {"dfc"})
<1>1. /\ Only(s, k, {"dfc"}) /\ k.dfc \in Seq(DfcCalls(mode))
      /\ Range(k.dfc) = {c \in Range(s.dfc) : c.fn \notin fns}
      /\ InOrder(s.dfc) => InOrder(k.dfc)
  BY FlushInOrder DEF Based
<1>2. Like(s.dfc, k.dfc)
  BY <1>1 DEF Like
<1>3. Only(s, k, Moving)
  BY <1>1 DEF Only, Moving
<1> QED  BY <1>1, <1>2, <1>3 DEF Kin

LEMMA KinTimerSet ==
    ASSUME NEW mode, NEW s, Based(s, mode), NEW t, NEW k, k = TimerSet(s, t)
    PROVE  Kin(s, k, mode) /\ Only(s, k, {"armed"})
<1>1. Only(s, k, {"armed"})
  BY TimerSetEffect DEF Based
<1>2. Only(s, k, Moving) /\ k.dfc = s.dfc
  BY <1>1 DEF Only, Moving, Fields
<1> QED  BY <1>1, <1>2, KinFields

LEMMA KinTimerCancel ==
    ASSUME NEW mode, NEW s, Based(s, mode), NEW t \in Timers, NEW k, k = TimerCancel(s, t)
    PROVE  Kin(s, k, mode) /\ Only(s, k, {"armed", "dfc"})
<1> DEFINE a == [s EXCEPT !.armed = @ \ {t}]
<1>1. Only(s, a, {"armed"}) /\ a.dfc = s.dfc
  BY DEF Based, Only, Fields
<1>2. k = Flush(a, {t})
  BY DEF TimerCancel
<1> HIDE DEF a
<1>3. Only(s, a, Moving)
  BY <1>1 DEF Only, Moving
<1>4. Kin(s, a, mode) /\ Based(a, mode)
  BY <1>1, <1>3, KinFields, KinBased
<1>5. {t} \intersect Watched \subseteq {"FrameRead"}
  BY DEF Timers, Watched
<1>6. Kin(a, k, mode) /\ Only(a, k, {"dfc"})
  BY <1>2, <1>4, <1>5, KinFlush
<1>7. Only(s, k, {"armed", "dfc"})
  BY <1>1, <1>6 DEF Only
<1> QED  BY <1>4, <1>6, <1>7, KinTrans

(* What static_PSHDLCWriteTransmit hands to the frame layer: k has a new   *)
(* frame f in the frame buffer, with everything else of the transmission.  *)
Writes(s, k, f, cb) ==
    k.tx = [t |-> "TX", f |-> f, cb |-> cb, bad |-> s.tx # NoTx, new |-> TRUE]

LEMMA KinFrameWrite ==
    ASSUME NEW mode, NEW s, Based(s, mode), NEW f, NEW cb \in {"FrameWritten", "ConnectWritten"},
           NEW k, k = FrameWrite(s, f, cb)
    PROVE  Kin(s, k, mode) /\ Only(s, k, {"dfc", "tx"}) /\ Writes(s, k, f, cb)
<1>1. cb \in Neutral
  BY DEF Neutral, PlainCalls, Watched
<1>2. PICK p : p = Post(s, cb)
  OBVIOUS
<1>3. Kin(s, p, mode) /\ Based(p, mode) /\ Only(s, p, {"dfc"})
  BY <1>1, <1>2, KinPost, KinBased
<1> DEFINE tx == [t |-> "TX", f |-> f, cb |-> cb, bad |-> s.tx # NoTx, new |-> TRUE]
<1>4. k = [p EXCEPT !.tx = tx]
  BY <1>2 DEF FrameWrite
<1> HIDE DEF tx
<1>5. Only(p, k, {"tx"}) /\ k.dfc = p.dfc /\ k.tx = tx
  BY <1>3, <1>4 DEF Based, Only, Fields
<1>6. Only(p, k, Moving)
  BY <1>5 DEF Only, Moving
<1>7. Kin(p, k, mode)
  BY <1>3, <1>5, <1>6, KinFields
<1>8. Only(s, k, {"dfc", "tx"})
  BY <1>3, <1>5 DEF Only
<1> QED  BY <1>3, <1>5, <1>7, <1>8, KinTrans DEF Writes, tx

LEMMA KinSent ==
    ASSUME NEW mode, NEW s, Based(s, mode), NEW f, NEW k, k = Sent(s, f)
    PROVE  /\ Kin(s, k, mode) /\ Only(s, k, {"dfc", "tx", "pending", "ctrl", "armed"})
           /\ Writes(s, k, f, "FrameWritten") /\ k.ctrl = "NONE"
<1>1. PICK w : w = FrameWrite(s, f, "FrameWritten")
  OBVIOUS
<1>2. /\ Kin(s, w, mode) /\ Based(w, mode) /\ Only(s, w, {"dfc", "tx"})
      /\ Writes(s, w, f, "FrameWritten")
  BY <1>1, KinFrameWrite, KinBased
<1>3. PICK a : a = [w EXCEPT !.pending = TRUE, !.ctrl = "NONE"]
  OBVIOUS
<1>4. Only(w, a, {"pending", "ctrl"}) /\ a.dfc = w.dfc /\ a.tx = w.tx /\ a.ctrl = "NONE"
  BY <1>2, <1>3 DEF Based, Only, Fields
<1>5. Only(w, a, Moving)
  BY <1>4 DEF Only, Moving
<1>6. Kin(w, a, mode) /\ Based(a, mode)
  BY <1>2, <1>4, <1>5, KinFields, KinBased
<1>7. k = TimerCancel(a, "T4") /\ "T4" \in Timers
  BY <1>1, <1>3 DEF Sent, Timers
<1>8. Kin(a, k, mode) /\ Only(a, k, {"armed", "dfc"})
  BY <1>6, <1>7, KinTimerCancel
<1>9. Kin(s, k, mode)
  BY <1>2, <1>6, <1>8, KinTrans
<1>10. Only(s, k, {"dfc", "tx", "pending", "ctrl", "armed"}) /\ k.tx = a.tx /\ k.ctrl = a.ctrl
  BY <1>2, <1>4, <1>8 DEF Only, Fields
<1> QED  BY <1>2, <1>4, <1>9, <1>10 DEF Writes

LEMMA KinAcknowledgeSent ==
    ASSUME NEW mode, NEW s, Based(s, mode), NEW k, k = ReadAcknowledgeSent(s)
    PROVE  Kin(s, k, mode) /\ Only(s, k, {"dfc", "armed", "readLastAck"})
<1>1. PICK a : a = [s EXCEPT !.readLastAck = s.readNext - 1]
  OBVIOUS
<1>2. Only(s, a, {"readLastAck"}) /\ a.dfc = s.dfc
  BY <1>1 DEF Based, Only, Fields
<1>3. Only(s, a, Moving)
  BY <1>2 DEF Only, Moving
<1>4. Kin(s, a, mode) /\ Based(a, mode)
  BY <1>2, <1>3, KinFields, KinBased
<1>5. k = TimerCancel(a, "T1") /\ "T1" \in Timers
  BY <1>1 DEF ReadAcknowledgeSent, Timers
<1>6. Kin(a, k, mode) /\ Only(a, k, {"armed", "dfc"})
  BY <1>4, <1>5, KinTimerCancel
<1>7. Only(s, k, {"dfc", "armed", "readLastAck"})
  BY <1>2, <1>6 DEF Only
<1> QED  BY <1>4, <1>6, <1>7, KinTrans

(* The frame that static_PSHDLCWriteTransmit may choose, *)
Chooses(s, f) ==
    \/ /\ s.nextWindow # s.nextToSend /\ s.ctrl \in {"NONE", "RR"}
       /\ LET slot == s.slots[s.nextWindow % s.window]
          IN  f = IFrame(slot.ns, ThreeBits(s.readNext), slot.pay)
    \/ s.ctrl \notin {"NONE", "UA"} /\ f = Ctrl(s.ctrl, ThreeBits(s.readNext))
    \/ s.ctrl = "UA" /\ f = UA

(* and that it has been handed over, or nothing. *)
Transmits(s, k) ==
    \/ k.tx = s.tx /\ k.ctrl = s.ctrl
    \/ k.ctrl = "NONE" /\ \E f : Chooses(s, f) /\ Writes(s, k, f, "FrameWritten")

LEMMA KinSendCtrl ==
    ASSUME NEW mode, NEW s, Based(s, mode), s.ctrl # "NONE", NEW k, k = SendCtrl(s)
    PROVE  Kin(s, k, mode) /\ Transmits(s, k)
<1>1. PICK a : a = [s EXCEPT !.rrSent = TRUE]
  OBVIOUS
<1>2. Only(s, a, {"rrSent"}) /\ a.dfc = s.dfc
  BY <1>1 DEF Based, Only, Fields
<1>3. Only(s, a, Moving)
  BY <1>2 DEF Only, Moving
<1>4. Kin(s, a, mode) /\ Based(a, mode)
  BY <1>2, <1>3, KinFields, KinBased
<1>5. PICK r : r = TimerSet(a, "T6")
  OBVIOUS
<1>6. Kin(a, r, mode) /\ Based(r, mode) /\ Only(a, r, {"armed"})
  BY <1>4, <1>5, KinTimerSet, KinBased
<1>7. r.tx = s.tx /\ r.ctrl = s.ctrl /\ r.readNext = s.readNext
  BY <1>2, <1>6 DEF Only, Fields
<1>8. CASE s.ctrl = "UA"
  <2>1. k = Sent(r, UA)
    BY <1>1, <1>5, <1>8 DEF SendCtrl
  <2>2. Kin(r, k, mode) /\ Writes(r, k, UA, "FrameWritten") /\ k.ctrl = "NONE"
    BY <1>6, <2>1, KinSent
  <2>3. Writes(s, k, UA, "FrameWritten") /\ Chooses(s, UA)
    BY <1>7, <1>8, <2>2 DEF Writes, Chooses
  <2> QED  BY <1>4, <1>6, <2>2, <2>3, KinTrans DEF Transmits
<1>9. CASE s.ctrl # "UA"
  <2>1. PICK c : c = ReadAcknowledgeSent(r)
    OBVIOUS
  <2>2. Kin(r, c, mode) /\ Based(c, mode) /\ Only(r, c, {"dfc", "armed", "readLastAck"})
    BY <1>6, <2>1, KinAcknowledgeSent, KinBased
  <2>3. c.tx = s.tx
    BY <1>7, <2>2 DEF Only, Fields
  <2>4. PICK f : f = Ctrl(s.ctrl, ThreeBits(s.readNext))
    OBVIOUS
  <2>5. k = Sent(c, f)
    BY <1>1, <1>5, <1>9, <2>1, <2>4 DEF SendCtrl
  <2>6. Kin(c, k, mode) /\ Writes(c, k, f, "FrameWritten") /\ k.ctrl = "NONE"
    BY <2>2, <2>5, KinSent
  <2>7. Writes(s, k, f, "FrameWritten") /\ Chooses(s, f)
    BY <1>9, <2>3, <2>4, <2>6 DEF Writes, Chooses
  <2>8. Kin(s, k, mode)
    BY <1>4, <1>6, <2>2, <2>6, KinTrans
  <2> QED  BY <2>6, <2>7, <2>8 DEF Transmits
<1> QED  BY <1>8, <1>9

LEMMA KinSendIFrame ==
    ASSUME NEW mode, NEW s, Based(s, mode), s.nextWindow # s.nextToSend,
           s.ctrl \in {"NONE", "RR"}, NEW k, k = SendIFrame(s)
    PROVE  Kin(s, k, mode) /\ Transmits(s, k)
<1>1. PICK a : a = TimerSet(s, "T2")
  OBVIOUS
<1>2. Kin(s, a, mode) /\ Based(a, mode) /\ Only(s, a, {"armed"})
  BY <1>1, KinTimerSet, KinBased
<1>3. PICK b : b = ReadAcknowledgeSent(a)
  OBVIOUS
<1>4. Kin(a, b, mode) /\ Based(b, mode) /\ Only(a, b, {"dfc", "armed", "readLastAck"})
  BY <1>2, <1>3, KinAcknowledgeSent, KinBased
<1>5. PICK c : c = [b EXCEPT !.nextWindow = @ + 1]
  OBVIOUS
<1>6. Only(b, c, {"nextWindow"}) /\ c.dfc = b.dfc
  BY <1>4, <1>5 DEF Based, Only, Fields
<1>7. Only(b, c, Moving)
  BY <1>6 DEF Only, Moving
<1>8. Kin(b, c, mode) /\ Based(c, mode)
  BY <1>4, <1>6, <1>7, KinFields, KinBased
<1>9. c.tx = s.tx
  BY <1>2, <1>4, <1>6 DEF Only, Fields
<1>10. PICK slot : slot = s.slots[s.nextWindow % s.window]
  OBVIOUS
<1>11. PICK f : f = IFrame(slot.ns, ThreeBits(s.readNext), slot.pay)
  OBVIOUS
<1>12. k = Sent(c, f)
  BY <1>1, <1>3, <1>5, <1>10, <1>11 DEF SendIFrame
<1>13. Kin(c, k, mode) /\ Writes(c, k, f, "FrameWritten") /\ k.ctrl = "NONE"
  BY <1>8, <1>12, KinSent
<1>14. Writes(s, k, f, "FrameWritten") /\ Chooses(s, f)
  BY <1>9, <1>10, <1>11, <1>13 DEF Writes, Chooses
<1>15. Kin(s, k, mode)
  BY <1>2, <1>4, <1>8, <1>13, KinTrans
<1> QED  BY <1>13, <1>14, <1>15 DEF Transmits

LEMMA KinTransmit ==
    ASSUME NEW mode, NEW s, Based(s, mode), NEW force \in BOOLEAN,
           NEW k, k = WriteTransmit(s, force)
    PROVE  Kin(s, k, mode) /\ Transmits(s, k)
<1> DEFINE some   == s.nextWindow # s.nextToSend /\ s.ready
           iframe == some /\ s.ctrl \in {"NONE", "RR"}
           skip   == s.pending \/ (~some /\ s.ctrl = "NONE") \/ (iframe /\ s.rrSent)
<1>1. CASE skip
  <2>1. k = s
    BY <1>1 DEF WriteTransmit
  <2> QED  BY <2>1, KinSelf DEF Transmits
<1>2. CASE ~skip /\ iframe
  <2>1. k = SendIFrame(s)
    BY <1>2 DEF WriteTransmit
  <2> QED  BY <1>2, <2>1, KinSendIFrame
<1>3. CASE ~skip /\ ~iframe
  <2>1. s.ctrl # "NONE"
    BY <1>3
  <2>2. CASE force
    <3>1. k = SendCtrl(s)
      BY <1>3, <2>2 DEF WriteTransmit
    <3> QED  BY <2>1, <3>1, KinSendCtrl
  <2>3. CASE ~force
    <3>1. k = TimerSet(s, "T4")
      BY <1>3, <2>3 DEF WriteTransmit
    <3>2. Kin(s, k, mode) /\ Only(s, k, {"armed"})
      BY <3>1, KinTimerSet
    <3> QED  BY <3>2 DEF Transmits, Only, Fields
  <2> QED  BY <2>2, <2>3
<1> QED  BY <1>1, <1>2, <1>3

(* Nothing is transmitted by an instance that has nothing to send. *)
LEMMA QuietTransmit ==
    ASSUME NEW s, s.ctrl = "NONE", s.nextWindow = s.nextToSend, NEW force, NEW k,
           k = WriteTransmit(s, force)
    PROVE  k = s
BY DEF WriteTransmit

-----------------------------------------------------------------------------
(* The com port.                                                           *)

(* The frame that has just been written stays in the frame buffer, *)
LEMMA KinNotTaken ==
    ASSUME NEW mode, NEW s, Based(s, mode),
           s.tx # NoTx => s.tx.cb \in {"FrameWritten", "ConnectWritten"} /\ DOMAIN s.tx = {"t", "f", "cb", "bad", "new"},
           NEW k, k = NotTaken(s)
    PROVE  /\ Kin(s, k, mode) /\ Only(s, k, {"dfc", "tx"})
           /\ IF s.tx = NoTx THEN k.tx = NoTx
              ELSE k.tx # NoTx /\ k.tx.f = s.tx.f /\ k.tx.cb = s.tx.cb /\ k.tx.bad = s.tx.bad
<1>1. CASE ~(s.tx # NoTx /\ s.tx.new)
  <2>1. k = s
    BY <1>1 DEF NotTaken
  <2> QED  BY <2>1, KinSelf DEF Only, Based
<1>2. CASE s.tx # NoTx /\ s.tx.new
  <2>1. PICK a : a = Flush(s, {s.tx.cb})
    OBVIOUS
  <2>2. {s.tx.cb} \intersect Watched \subseteq {"FrameRead"}
    BY <1>2 DEF Watched
  <2>3. Kin(s, a, mode) /\ Based(a, mode) /\ Only(s, a, {"dfc"})
    BY <2>1, <2>2, KinFlush, KinBased
  <2>4. k = [a EXCEPT !.tx.new = FALSE]
    BY <1>2, <2>1 DEF NotTaken
  <2>5. a.tx = s.tx
    BY <2>3 DEF Only, Fields
  <2>6. Only(a, k, {"tx"}) /\ k.dfc = a.dfc /\ k.tx = [s.tx EXCEPT !.new = FALSE]
    BY <2>3, <2>4, <2>5 DEF Based, Only, Fields
  <2>7. Only(a, k, Moving)
    BY <2>6 DEF Only, Moving
  <2>8. Kin(a, k, mode)
    BY <2>3, <2>6, <2>7, KinFields
  <2>9. Only(s, k, {"dfc", "tx"})
    BY <2>3, <2>6 DEF Only
  <2>10. k.tx # NoTx /\ k.tx.f = s.tx.f /\ k.tx.cb = s.tx.cb /\ k.tx.bad = s.tx.bad
    <3>1. DOMAIN k.tx = {"t", "f", "cb", "bad", "new"}
      BY <1>2, <2>6
    <3>2. DOMAIN NoTx = {"t"}
      BY DEF NoTx
    <3> QED  BY <1>2, <2>6, <3>1, <3>2
  <2> QED  BY <1>2, <2>3, <2>8, <2>9, <2>10, KinTrans
<1> QED  BY <1>1, <1>2

(* or the port takes it. *)
LEMMA KinTaken ==
    ASSUME NEW mode, NEW s, Based(s, mode), NEW k, k = Taken(s)
    PROVE  Kin(s, k, mode) /\ Only(s, k, {"tx"}) /\ k.tx = NoTx
<1>1. Only(s, k, {"tx"}) /\ k.dfc = s.dfc /\ k.tx = NoTx
  BY DEF Based, Taken, Only, Fields
<1>2. Only(s, k, Moving)
  BY <1>1 DEF Only, Moving
<1> QED  BY <1>1, <1>2, KinFields

LEMMA KinTakenOnRead ==
    ASSUME NEW mode, NEW s, Based(s, mode), s.tx.cb \in {"FrameWritten", "ConnectWritten"},
           NEW k, k = TakenOnRead(s)
    PROVE  Kin(s, k, mode) /\ Only(s, k, {"dfc", "tx"}) /\ k.tx = NoTx
<1>1. CASE s.tx.new
  <2>1. k = Taken(s)
    BY <1>1 DEF TakenOnRead
  <2>2. Kin(s, k, mode) /\ Only(s, k, {"tx"}) /\ k.tx = NoTx
    BY <2>1, KinTaken
  <2> QED  BY <2>2 DEF Only
<1>2. CASE ~s.tx.new
  <2>1. PICK p : p = Post(s, s.tx.cb)
    OBVIOUS
  <2>2. s.tx.cb \in Neutral
    BY DEF Neutral, PlainCalls, Watched
  <2>3. Kin(s, p, mode) /\ Based(p, mode) /\ Only(s, p, {"dfc"})
    BY <2>1, <2>2, KinPost, KinBased
  <2>4. k = Taken(p)
    BY <1>2, <2>1 DEF TakenOnRead
  <2>5. Kin(p, k, mode) /\ Only(p, k, {"tx"}) /\ k.tx = NoTx
    BY <2>3, <2>4, KinTaken
  <2>6. Only(s, k, {"dfc", "tx"})
    BY <2>3, <2>5 DEF Only
  <2> QED  BY <2>3, <2>5, <2>6, KinTrans
<1> QED  BY <1>1, <1>2

-----------------------------------------------------------------------------
(* Steps that leave the watched calls alone.                               *)

LEMMA LikeFns ==
    ASSUME NEW q, NEW r, Like(q, r)
    PROVE  /\ \A fn \in Watched : fn \in Fns(r) => fn \in Fns(q)
           /\ \A fn \in Watched \ {"FrameRead"} : fn \in Fns(q) => fn \in Fns(r)
<1>1. ASSUME NEW fn \in Watched, fn \in Fns(r) PROVE fn \in Fns(q)
  <2>1. PICK c \in Range(r) : c.fn = fn
    BY <1>1 DEF Fns
  <2> QED  BY <1>1, <2>1 DEF Like, Fns
<1>2. ASSUME NEW fn \in Watched \ {"FrameRead"}, fn \in Fns(q) PROVE fn \in Fns(r)
  <2>1. PICK c \in Range(q) : c.fn = fn
    BY <1>2 DEF Fns
  <2> QED  BY <1>2, <2>1 DEF Like, Fns
<1> QED  BY <1>1, <1>2

LEMMA QueueKept ==
    ASSUME NEW s, NEW u, NEW calm, Queue(s, u, calm), NEW k, Like(s.dfc, k.dfc), Starts(k),
           k.reading => "FrameRead" \notin Fns(k.dfc),
           k.buf = s.buf, k.readFull = s.readFull, k.slots = s.slots,
           k.status = "UA_SENT" => s.status = "UA_SENT",
           Waits(k) => Waits(s),
           u.connected /\ calm /\ Waits(s) /\ s.writeFull = TRUE => Waits(k) /\ k.writeFull = TRUE
    PROVE  Queue(k, u, calm)
<1>1. /\ \A fn \in Watched : fn \in Fns(k.dfc) => fn \in Fns(s.dfc)
      /\ \A fn \in Watched \ {"FrameRead"} : fn \in Fns(s.dfc) => fn \in Fns(k.dfc)
  BY LikeFns
<1>2. /\ "DataReady" \in Fns(k.dfc) <=> "DataReady" \in Fns(s.dfc)
      /\ "Acknowledged" \in Fns(k.dfc) <=> "Acknowledged" \in Fns(s.dfc)
      /\ "BufferFree" \in Fns(k.dfc) <=> "BufferFree" \in Fns(s.dfc)
      /\ "ConnectDone" \in Fns(k.dfc) <=> "ConnectDone" \in Fns(s.dfc)
  BY <1>1 DEF Watched
<1>3. Reads(k)
  BY <1>2 DEF Queue, Reads, Like
<1>4. Told(k, u)
  <2>1. ASSUME NEW c \in Range(k.dfc), c.fn = "StreamData" PROVE c.pay = u.rx
    <3>1. c \in Range(s.dfc)
      BY <2>1 DEF Like, Watched
    <3> QED  BY <2>1, <3>1 DEF Queue, Told
  <2> QED  BY <1>2, <2>1 DEF Queue, Told
<1>5. Woken(k, u, calm)
  BY <1>2 DEF Queue, Woken
<1>6. Contexts(k, u)
  BY <1>2 DEF Queue, Contexts, LastWaits
<1> QED  BY <1>3, <1>4, <1>5, <1>6 DEF Queue

LEMMA KinQueue ==
    ASSUME NEW s, NEW u, NEW calm, Queue(s, u, calm), s.status # "RESET_PENDING",
           NEW mode, NEW k, Kin(s, k, mode)
    PROVE  Queue(k, u, calm) /\ k.status = s.status
<1>1. /\ k.reading = s.reading /\ k.buf = s.buf /\ k.readFull = s.readFull /\ k.slots = s.slots
      /\ k.status = s.status /\ k.connCb = s.connCb /\ k.writeFull = s.writeFull
      /\ k.lastAck = s.lastAck /\ k.nextToSend = s.nextToSend
  BY DEF Kin, Only, Moving, Fields
<1>2. \A fn \in Watched : fn \in Fns(k.dfc) => fn \in Fns(s.dfc)
  BY LikeFns DEF Kin
<1>3. Starts(k)
  BY <1>1, <1>2 DEF Queue, Starts, Watched
<1>4. k.reading => "FrameRead" \notin Fns(k.dfc)
  BY <1>1, <1>2 DEF Queue, Reads, Watched
<1> QED  BY <1>1, <1>3, <1>4, QueueKept DEF Kin, Waits

(* A connection that is being set up: the numbers may start again. *)
Links ==
    {"status", "connNext", "window", "readNext", "lastAck", "nextToSend", "log", "rlog"}

LEMMA ConnectQueue ==
    ASSUME NEW s, NEW u, NEW calm, Queue(s, u, calm), s.status \notin {"UA_SENT", "RESET_PENDING"},
           ~u.connected, NEW k, Only(s, k, Moving \union Links), Like(s.dfc, k.dfc), ~Waits(k),
           k.status \notin {"UA_SENT", "RESET_PENDING"}
    PROVE  Queue(k, u, calm)
<1>1. /\ k.reading = s.reading /\ k.buf = s.buf /\ k.readFull = s.readFull /\ k.slots = s.slots
      /\ k.connCb = s.connCb /\ k.writeFull = s.writeFull
  BY DEF Only, Moving, Links, Fields
<1>2. \A fn \in Watched : fn \in Fns(k.dfc) => fn \in Fns(s.dfc)
  BY LikeFns
<1>3. Starts(k)
  BY <1>1, <1>2 DEF Queue, Starts, Watched
<1>4. k.reading => "FrameRead" \notin Fns(k.dfc)
  BY <1>1, <1>2 DEF Queue, Reads, Watched
<1> QED  BY <1>1, <1>3, <1>4, QueueKept

(* The connection is up: its callback is queued. *)
LEMMA ConnectCompletedQueue ==
    ASSUME NEW mode, NEW s, Based(s, mode), NEW u, NEW calm, Queue(s, u, calm),
           s.status # "RESET_PENDING", ~u.connected, ~Waits(s), s.connCb = TRUE,
           "DataReady" \notin Fns(s.dfc), NEW t, Only(s, t, {"status"}),
           NEW k, k = ConnectCompleted(t)
    PROVE  /\ Queue(k, u, calm) /\ k.status = "UA_SENT" /\ k.dfc \in Seq(DfcCalls(mode))
           /\ Only(s, k, {"status", "connCb", "armed", "dfc"})
           /\ \A c \in Range(k.dfc) : c.fn = "FrameRead" => c \in Range(s.dfc)
<1>1. PICK a : a = [t EXCEPT !.status = "UA_SENT", !.connCb = FALSE]
  OBVIOUS
<1>2. /\ Only(s, a, {"status", "connCb"}) /\ a.dfc = s.dfc /\ a.status = "UA_SENT"
      /\ Based(a, mode) /\ t.connCb = TRUE
  BY <1>1 DEF Based, Only, Fields
<1>3. PICK b : b = TimerCancel(a, "T3")
  OBVIOUS
<1>4. Kin(a, b, mode) /\ Based(b, mode) /\ Only(a, b, {"armed", "dfc"})
  BY <1>2, <1>3, KinTimerCancel, KinBased DEF Timers
<1>5. /\ Only(s, b, {"status", "connCb", "armed", "dfc"}) /\ Like(s.dfc, b.dfc)
      /\ b.status = "UA_SENT"
  BY <1>2, <1>4 DEF Kin, Only, Fields
<1> DEFINE c == [fn |-> "ConnectDone"]
<1>6. k = Post(b, "ConnectDone")
  BY <1>1, <1>2, <1>3 DEF ConnectCompleted
<1>7. Only(b, k, {"dfc"}) /\ k.dfc = Append(b.dfc, c)
  BY <1>4, <1>6 DEF Based, Post, Only, Fields
<1>8. c \in DfcCalls(mode) /\ c.fn = "ConnectDone"
  BY DEF DfcCalls, PlainCalls
<1> HIDE DEF c
<1>9. /\ \A fn \in Watched : fn \in Fns(b.dfc) => fn \in Fns(s.dfc)
      /\ \A fn \in Watched \ {"FrameRead"} : fn \in Fns(s.dfc) => fn \in Fns(b.dfc)
  BY <1>5, LikeFns
<1>10. /\ "DataReady" \notin Fns(b.dfc)
       /\ \A fn \in Fns(b.dfc) : <<fn, c.fn>> \notin NeverBefore
  <2>1. "DataReady" \notin Fns(b.dfc)
    BY <1>9 DEF Watched
  <2> QED  BY <1>8, <2>1 DEF NeverBefore
<1>11. /\ k.dfc \in Seq(DfcCalls(mode)) /\ Range(k.dfc) = Range(b.dfc) \union {c}
       /\ InOrder(s.dfc) => InOrder(k.dfc)
  BY <1>4, <1>5, <1>7, <1>8, <1>10, AppendInOrder DEF Based, Like
<1>12. Fns(k.dfc) = Fns(b.dfc) \union {"ConnectDone"}
  BY <1>8, <1>11 DEF Fns
<1>13. Only(s, k, {"status", "connCb", "armed", "dfc"}) /\ k.status = "UA_SENT"
  BY <1>5, <1>7 DEF Only, Fields
<1>14. /\ k.reading = s.reading /\ k.buf = s.buf /\ k.readFull = s.readFull /\ k.slots = s.slots
       /\ k.writeFull = s.writeFull /\ k.lastAck = s.lastAck /\ k.nextToSend = s.nextToSend
  BY <1>13 DEF Only, Fields
<1>15. /\ \A fn \in Watched \ {"ConnectDone"} : fn \in Fns(k.dfc) => fn \in Fns(s.dfc)
       /\ \A fn \in Watched \ {"FrameRead"} : fn \in Fns(s.dfc) => fn \in Fns(k.dfc)
  BY <1>9, <1>12
<1>16. Reads(k)
  <2>1. "DataReady" \in Fns(k.dfc) <=> "DataReady" \in Fns(s.dfc)
    BY <1>15 DEF Watched
  <2>2. "FrameRead" \in Fns(k.dfc) => "FrameRead" \in Fns(s.dfc)
    BY <1>15 DEF Watched
  <2> QED  BY <1>11, <1>14, <2>1, <2>2 DEF Queue, Reads
<1>17. Starts(k)
  BY <1>13 DEF Starts
<1>18. \A d \in Range(k.dfc) : d.fn \in {"FrameRead", "StreamData"} => d \in Range(s.dfc)
  BY <1>5, <1>8, <1>11 DEF Like, Watched
<1>19. Told(k, u) /\ Woken(k, u, calm)
  <2>1. "ConnectDone" \in Fns(k.dfc) /\ ("Acknowledged" \in Fns(k.dfc) => "Acknowledged" \in Fns(s.dfc))
    BY <1>12, <1>15 DEF Watched
  <2> QED  BY <1>14, <1>18, <2>1 DEF Queue, Told, Woken, Waits
<1>20. Contexts(k, u)
  <2>1. "Acknowledged" \in Fns(k.dfc) => "Acknowledged" \in Fns(s.dfc)
    BY <1>15 DEF Watched
  <2> QED  BY <1>14, <2>1 DEF Queue, Contexts, LastWaits, Waits
<1> QED  BY <1>11, <1>13, <1>16, <1>17, <1>18, <1>19, <1>20 DEF Queue

-----------------------------------------------------------------------------
(* Acknowledgements.                                                       *)

(* The last frame is acknowledged: the window is free, and a call of the   *)
(* write handler says what has ended or that there is room again.          *)
Freed(s, k, mode) ==
    /\ Only(s, k, {"dfc", "armed", "lastAck", "nextWindow", "writeFull"})
    /\ k.lastAck = s.nextToSend - 1 /\ k.nextWindow = s.nextToSend
    /\ k.dfc \in Seq(DfcCalls(mode))
    /\ \A c : c.fn \in Watched \ {"Acknowledged", "BufferFree"} =>
                  (c \in Range(k.dfc) <=> c \in Range(s.dfc))
    /\ "Acknowledged" \in Fns(k.dfc) <=> "Acknowledged" \in Fns(s.dfc) \/ LastWaits(s)
    /\ "BufferFree" \in Fns(s.dfc) => "BufferFree" \in Fns(k.dfc)
    /\ s.writeFull = TRUE /\ ~LastWaits(s) => "BufferFree" \in Fns(k.dfc)
    /\ InOrder(s.dfc) /\ Fns(s.dfc) \intersect {"FrameRead", "Acknowledged"} = {}
          => InOrder(k.dfc)

LEMMA AcknowledgeEffect ==
    ASSUME NEW mode, NEW s, Based(s, mode), Values(s), NEW nr \in Int, s.lastAck < nr,
           nr <= s.nextWindow, s.nextWindow - nr # 1, NEW k, k = Acknowledge(s, nr)
    PROVE  \/ nr # s.nextToSend /\ \E a : Only(s, a, {}) /\ k = WriteTransmit(a, FALSE)
           \/ nr = s.nextToSend /\ Freed(s, k, mode)
<1>1. /\ DOMAIN s = Fields /\ s.dfc \in Seq(DfcCalls(mode))
      /\ s.lastAck \in Nat /\ s.nextWindow \in Nat /\ s.nextToSend \in Nat
      /\ s.nextWindow <= s.nextToSend /\ s.nextToSend <= s.lastAck + 2
      /\ s.window = 1
  BY DEF Based, Values, P_SHDLC_MAX_WINDOW_SIZE
<1> DEFINE ends  == {i \in s.lastAck + 1..nr - 1 : s.slots[i % s.window].pay.last}
           calls == [i \in 1..Cardinality(ends) |-> [fn |-> "Acknowledged"]]
           acked == [s EXCEPT !.dfc = @ \o calls, !.lastAck = nr - 1, !.nextWindow = nr]
           idle  == [TimerCancel(acked, "T2") EXCEPT !.writeFull = FALSE]
<1>2. k = IF nr # s.nextToSend THEN WriteTransmit(acked, FALSE)
          ELSE IF s.writeFull /\ ends = {} THEN Post(idle, "BufferFree") ELSE idle
  BY DEF Acknowledge
<1>3. /\ nr = s.lastAck + 1 => ends = {}
      /\ nr = s.lastAck + 2 => ends = IF s.slots[0].pay.last THEN {s.lastAck + 1} ELSE {}
  <2>1. nr = s.lastAck + 1 => s.lastAck + 1..nr - 1 = {}
    BY <1>1
  <2>2. nr = s.lastAck + 2 => s.lastAck + 1..nr - 1 = {s.lastAck + 1}
    BY <1>1
  <2>3. (s.lastAck + 1) % s.window = 0
    BY <1>1
  <2> QED  BY <2>1, <2>2, <2>3
<1>4. nr = s.lastAck + 1 \/ nr = s.lastAck + 2
  BY <1>1
<1>5. ends = IF nr = s.lastAck + 2 /\ s.slots[0].pay.last THEN {s.lastAck + 1} ELSE {}
  BY <1>1, <1>3, <1>4
<1> HIDE DEF ends
<1>6. PICK c : c = [fn |-> "Acknowledged"]
  OBVIOUS
<1>7. c \in DfcCalls(mode) /\ c.fn = "Acknowledged"
  BY <1>6 DEF DfcCalls, PlainCalls
<1>8. PICK q : q = s.dfc \o calls
  OBVIOUS
<1>9. IF ends = {} THEN q = s.dfc ELSE q = Append(s.dfc, c)
  <2>1. CASE ends = {}
    <3>1. Cardinality(ends) = 0
      BY <2>1, FS_EmptySet
    <3>2. calls = <<>>
      BY <3>1
    <3> HIDE DEF calls
    <3> QED  BY <1>1, <1>8, <2>1, <3>2, ConcatEmptySeq
  <2>2. CASE ends # {}
    <3>1. Cardinality(ends) = 1
      BY <1>5, <2>2, FS_Singleton
    <3>2. calls = <<c>>
      BY <1>6, <3>1
    <3> HIDE DEF calls
    <3> QED  BY <1>1, <1>7, <1>8, <2>2, <3>2, AppendIsConcat
  <2> QED  BY <2>1, <2>2
<1>10. PICK a : a = [s EXCEPT !.dfc = q, !.lastAck = nr - 1, !.nextWindow = nr]
  OBVIOUS
<1>11. acked = a
  BY <1>1, <1>8, <1>10 DEF Fields
<1> HIDE DEF calls
<1>12. k = IF nr # s.nextToSend THEN WriteTransmit(a, FALSE)
           ELSE IF s.writeFull /\ ends = {}
                THEN Post([TimerCancel(a, "T2") EXCEPT !.writeFull = FALSE], "BufferFree")
                ELSE [TimerCancel(a, "T2") EXCEPT !.writeFull = FALSE]
  BY <1>2, <1>11
<1> HIDE DEF acked
<1>13. /\ Only(s, a, {"dfc", "lastAck", "nextWindow"}) /\ a.dfc = q /\ a.lastAck = nr - 1
       /\ a.nextWindow = nr
  BY <1>1, <1>10 DEF Only, Fields
<1>14. CASE nr # s.nextToSend
  <2>1. nr = s.lastAck + 1 /\ s.nextWindow = nr /\ ends = {}
    BY <1>1, <1>4, <1>5, <1>14
  <2>2. a.dfc = s.dfc /\ a.lastAck = s.lastAck /\ a.nextWindow = s.nextWindow
    BY <1>1, <1>9, <1>13, <2>1
  <2>3. \A x \in Fields : a[x] = s[x]
    BY <1>13, <2>2 DEF Only
  <2>4. Only(s, a, {})
    BY <1>13, <2>3 DEF Only
  <2> QED  BY <1>12, <1>14, <2>4
<1>15. CASE nr = s.nextToSend
  <2>1. LastWaits(s) <=> ends # {}
    BY <1>1, <1>4, <1>5, <1>15 DEF LastWaits, Waits
  <2>2. /\ q \in Seq(DfcCalls(mode)) /\ Range(q) = Range(s.dfc) \union (IF ends = {} THEN {} ELSE {c})
        /\ InOrder(s.dfc) /\ Fns(s.dfc) \intersect {"FrameRead", "Acknowledged"} = {}
              => InOrder(q)
    <3>1. CASE ends = {}
      BY <1>1, <1>9, <3>1
    <3>2. CASE ends # {}
      <4>1. Fns(s.dfc) \intersect {"FrameRead", "Acknowledged"} = {}
              => \A fn \in Fns(s.dfc) : <<fn, c.fn>> \notin NeverBefore
        BY <1>7 DEF NeverBefore
      <4>2. PICK S : S = DfcCalls(mode)
        OBVIOUS
      <4>3. s.dfc \in Seq(S) /\ c \in S
        BY <1>1, <1>7, <4>2
      <4>4. /\ Append(s.dfc, c) \in Seq(S) /\ Range(Append(s.dfc, c)) = Range(s.dfc) \union {c}
            /\ InOrder(s.dfc) /\ (\A fn \in Fns(s.dfc) : <<fn, c.fn>> \notin NeverBefore)
                  => InOrder(Append(s.dfc, c))
        BY <4>3, AppendInOrder
      <4> QED  BY <1>9, <3>2, <4>1, <4>2, <4>4
    <3> QED  BY <3>1, <3>2
  <2>3. PICK b : b = TimerCancel(a, "T2")
    OBVIOUS
  <2>4. Based(a, mode)
    BY <1>13, <2>2 DEF Based, Only
  <2>5. Kin(a, b, mode) /\ Based(b, mode) /\ Only(a, b, {"armed", "dfc"})
    BY <2>3, <2>4, KinTimerCancel, KinBased DEF Timers
  <2>6. PICK e : e = [b EXCEPT !.writeFull = FALSE]
    OBVIOUS
  <2>7. Only(b, e, {"writeFull"}) /\ e.dfc = b.dfc /\ Based(e, mode)
    BY <2>5, <2>6 DEF Based, Only, Fields
  <2>8. k = IF s.writeFull /\ ends = {} THEN Post(e, "BufferFree") ELSE e
    BY <1>12, <1>15, <2>3, <2>6
  <2>9. PICK d : d = [fn |-> "BufferFree"]
    OBVIOUS
  <2>10. d \in DfcCalls(mode) /\ d.fn = "BufferFree"
    BY <2>9 DEF DfcCalls, PlainCalls
  <2>11. IF s.writeFull /\ ends = {} THEN Only(e, k, {"dfc"}) /\ k.dfc = Append(e.dfc, d) ELSE k = e
    BY <2>7, <2>8, <2>9 DEF Based, Post, Only, Fields
  <2>12. /\ Only(e, k, {"dfc"}) /\ k.dfc \in Seq(DfcCalls(mode))
         /\ Range(k.dfc) = Range(e.dfc) \union (IF s.writeFull /\ ends = {} THEN {d} ELSE {})
         /\ InOrder(e.dfc) => InOrder(k.dfc)
    <3>1. CASE s.writeFull /\ ends = {}
      <4>1. \A fn : <<fn, d.fn>> \notin NeverBefore
        BY <2>10 DEF NeverBefore
      <4>2. PICK S : S = DfcCalls(mode)
        OBVIOUS
      <4>3. e.dfc \in Seq(S) /\ d \in S
        BY <2>7, <2>10, <4>2 DEF Based
      <4>4. /\ Append(e.dfc, d) \in Seq(S) /\ Range(Append(e.dfc, d)) = Range(e.dfc) \union {d}
            /\ InOrder(e.dfc) /\ (\A fn \in Fns(e.dfc) : <<fn, d.fn>> \notin NeverBefore)
                  => InOrder(Append(e.dfc, d))
        BY <4>3, AppendInOrder
      <4> QED  BY <2>11, <3>1, <4>1, <4>2, <4>4
    <3>2. CASE ~(s.writeFull /\ ends = {})
      BY <2>7, <2>11, <3>2 DEF Based, Only
    <3> QED  BY <3>1, <3>2
  <2>13. Only(s, k, {"dfc", "armed", "lastAck", "nextWindow", "writeFull"})
    BY <1>13, <2>5, <2>7, <2>12 DEF Only
  <2>14. k.lastAck = s.nextToSend - 1 /\ k.nextWindow = s.nextToSend
    <3>1. k.lastAck = a.lastAck /\ k.nextWindow = a.nextWindow
      BY <2>5, <2>7, <2>12 DEF Only, Fields
    <3> QED  BY <1>13, <1>15, <3>1
  <2>15. \A x : x.fn \in Watched \ {"FrameRead"} => (x \in Range(e.dfc) <=> x \in Range(q))
    BY <1>13, <2>5, <2>7 DEF Kin, Like
  <2>16. \A x : x.fn = "FrameRead" => (x \in Range(e.dfc) <=> x \in Range(q))
    <3>1. PICK g : g = [a EXCEPT !.armed = @ \ {"T2"}]
      OBVIOUS
    <3>2. DOMAIN g = Fields /\ g.dfc = a.dfc
      BY <2>4, <3>1 DEF Based, Fields
    <3>3. b = Flush(g, {"T2"})
      BY <2>3, <3>1 DEF TimerCancel
    <3>4. PICK fns : fns = {"T2"}
      OBVIOUS
    <3>5. Range(b.dfc) = {x \in Range(g.dfc) : x.fn \notin fns}
      BY <2>4, <3>2, <3>3, <3>4, FlushInOrder DEF Based
    <3> QED  BY <1>13, <2>7, <3>2, <3>4, <3>5
  <2>17. \A x : x.fn \in Watched \ {"Acknowledged", "BufferFree"} =>
                  (x \in Range(k.dfc) <=> x \in Range(s.dfc))
    BY <1>7, <2>2, <2>10, <2>12, <2>15, <2>16
  <2>18. /\ \A x : x.fn = "Acknowledged" => (x \in Range(k.dfc) <=> x \in Range(q))
         /\ \A x : x.fn = "BufferFree" /\ x \in Range(s.dfc) => x \in Range(k.dfc)
         /\ s.writeFull /\ ends = {} => d \in Range(k.dfc)
    BY <2>2, <2>10, <2>12, <2>15 DEF Watched
  <2>19. /\ "Acknowledged" \in Fns(k.dfc) <=> "Acknowledged" \in Fns(s.dfc) \/ LastWaits(s)
         /\ "BufferFree" \in Fns(s.dfc) => "BufferFree" \in Fns(k.dfc)
         /\ s.writeFull = TRUE /\ ~LastWaits(s) => "BufferFree" \in Fns(k.dfc)
    <3>1. "Acknowledged" \in Fns(k.dfc) <=> "Acknowledged" \in Fns(q)
      BY <2>18 DEF Fns
    <3>2. Fns(q) = Fns(s.dfc) \union (IF ends = {} THEN {} ELSE {"Acknowledged"})
      BY <1>7, <2>2 DEF Fns
    <3>3. "BufferFree" \in Fns(s.dfc) => "BufferFree" \in Fns(k.dfc)
      BY <2>18 DEF Fns
    <3>4. s.writeFull = TRUE /\ ~LastWaits(s) => "BufferFree" \in Fns(k.dfc)
      BY <2>1, <2>10, <2>18 DEF Fns
    <3> QED  BY <2>1, <3>1, <3>2, <3>3, <3>4
  <2>20. InOrder(q) => InOrder(k.dfc)
    BY <1>13, <2>5, <2>7, <2>12 DEF Kin, Like
  <2> QED  BY <1>15, <2>2, <2>12, <2>13, <2>14, <2>17, <2>19, <2>20 DEF Freed
<1> QED  BY <1>14, <1>15

LEMMA FreedQueue ==
    ASSUME NEW s, s.nextToSend \in Nat, NEW u, NEW calm, Queue(s, u, calm), s.status = "UA_SENT",
           "FrameRead" \notin Fns(s.dfc), "Acknowledged" \notin Fns(s.dfc),
           NEW mode, NEW k, Freed(s, k, mode)
    PROVE  Queue(k, u, calm)
<1>1. /\ k.reading = s.reading /\ k.buf = s.buf /\ k.readFull = s.readFull /\ k.slots = s.slots
      /\ k.status = s.status /\ k.connCb = s.connCb /\ k.nextToSend = s.nextToSend
  BY DEF Freed, Only, Fields
<1>2. ~Waits(k)
  BY <1>1 DEF Freed, Waits
<1>3. \A fn \in Watched \ {"Acknowledged", "BufferFree"} : fn \in Fns(k.dfc) <=> fn \in Fns(s.dfc)
  <2>1. ASSUME NEW fn \in Watched \ {"Acknowledged", "BufferFree"}, fn \in Fns(k.dfc)
        PROVE  fn \in Fns(s.dfc)
    BY <2>1 DEF Freed, Fns
  <2>2. ASSUME NEW fn \in Watched \ {"Acknowledged", "BufferFree"}, fn \in Fns(s.dfc)
        PROVE  fn \in Fns(k.dfc)
    BY <2>2 DEF Freed, Fns
  <2> QED  BY <2>1, <2>2
<1>4. /\ "FrameRead" \notin Fns(k.dfc)
      /\ "DataReady" \in Fns(k.dfc) <=> "DataReady" \in Fns(s.dfc)
      /\ "ConnectDone" \in Fns(k.dfc) <=> "ConnectDone" \in Fns(s.dfc)
  BY <1>3 DEF Watched
<1>5. /\ "Acknowledged" \in Fns(k.dfc) <=> LastWaits(s)
      /\ "BufferFree" \in Fns(s.dfc) => "BufferFree" \in Fns(k.dfc)
      /\ s.writeFull = TRUE /\ ~LastWaits(s) => "BufferFree" \in Fns(k.dfc)
      /\ InOrder(s.dfc) => InOrder(k.dfc)
      /\ \A c \in Range(k.dfc) : c.fn = "StreamData" => c \in Range(s.dfc)
  <2>1. Fns(s.dfc) \intersect {"FrameRead", "Acknowledged"} = {}
    OBVIOUS
  <2>2. \A c \in Range(k.dfc) : c.fn = "StreamData" => c \in Range(s.dfc)
    BY DEF Freed, Watched
  <2> QED  BY <2>1, <2>2 DEF Freed
<1>6. Reads(k)
  BY <1>1, <1>4, <1>5 DEF Queue, Reads
<1>7. Starts(k)
  BY <1>1 DEF Starts
<1>8. Told(k, u)
  BY <1>1, <1>2, <1>4, <1>5 DEF Queue, Told, LastWaits
<1>9. Woken(k, u, calm)
  BY <1>5 DEF Queue, Woken
<1>10. Contexts(k, u)
  BY <1>1, <1>2, <1>5 DEF Queue, Contexts, LastWaits
<1> QED  BY <1>6, <1>7, <1>8, <1>9, <1>10 DEF Queue

(* What an acknowledgement f leaves: whether I frames may be sent, the     *)
(* transmission tried, or the window free.                                 *)
Receives(s, f, k, mode) ==
    \E a : /\ Only(s, a, {"ready"})
           /\ \/ k = a
              \/ k = WriteTransmit(a, FALSE)
              \/ /\ f.t \in {"RR", "RNR", "REJ"}
                 /\ Rebuild32BitIdentifier(s, f.nr) = s.nextToSend
                 /\ Freed(a, k, mode)

LEMMA ReceptionEffect ==
    ASSUME NEW mode, NEW s, Based(s, mode), Values(s), NEW f,
           f.t \in {"RR", "RNR", "REJ"} => f.nr \in 0..7,
           NEW r, r = WriteReceptionCtrlFrame(s, f)
    PROVE  Receives(s, f, r.s, mode)
<1>1. /\ DOMAIN s = Fields /\ s.lastAck \in Nat /\ s.nextWindow \in Nat /\ s.nextToSend \in Nat
      /\ s.nextWindow <= s.nextToSend /\ s.nextToSend <= s.lastAck + 2
  BY DEF Based, Values, P_SHDLC_MAX_WINDOW_SIZE
<1>2. PICK ready : ready = (f.t # "RNR")
  OBVIOUS
<1>3. PICK seen : seen = [s EXCEPT !.ready = ready]
  OBVIOUS
<1>4. Only(s, seen, {"ready"}) /\ seen.ready \in BOOLEAN
  BY <1>1, <1>2, <1>3 DEF Only, Fields
<1>5. PICK nr : nr = Rebuild32BitIdentifier(s, f.nr)
  OBVIOUS
<1>6. PICK lost : lost = s.nextWindow - nr
  OBVIOUS
<1>7. r = IF f.t \notin {"RR", "RNR", "REJ"} THEN [ok |-> TRUE, s |-> s]
          ELSE IF ~(s.lastAck < nr /\ nr <= s.nextWindow) THEN [ok |-> FALSE, s |-> seen]
          ELSE IF lost = 1 THEN [ok |-> TRUE, s |-> [seen EXCEPT !.lastAck = nr - 1]]
          ELSE [ok |-> TRUE, s |-> Acknowledge(seen, nr)]
  BY <1>2, <1>3, <1>5, <1>6 DEF WriteReceptionCtrlFrame
<1>8. CASE f.t \notin {"RR", "RNR", "REJ"}
  <2>1. Only(s, s, {"ready"}) /\ r.s = s
    BY <1>1, <1>7, <1>8 DEF Only
  <2> QED  BY <2>1 DEF Receives
<1>9. CASE f.t \in {"RR", "RNR", "REJ"} /\ ~(s.lastAck < nr /\ nr <= s.nextWindow)
  <2>1. r.s = seen
    BY <1>7, <1>9
  <2> QED  BY <1>4, <2>1 DEF Receives
<1>10. CASE f.t \in {"RR", "RNR", "REJ"} /\ s.lastAck < nr /\ nr <= s.nextWindow
  <2>1. nr \in Int
    BY <1>1, <1>5, <1>10 DEF Rebuild32BitIdentifier, ThreeBits
  <2>2. /\ seen.lastAck = s.lastAck /\ seen.nextWindow = s.nextWindow
        /\ seen.nextToSend = s.nextToSend
    BY <1>4 DEF Only, Fields
  <2>3. CASE lost # 1
    <3>1. r.s = Acknowledge(seen, nr)
      BY <1>7, <1>10, <2>3
    <3>2. Based(seen, mode) /\ Values(seen)
      <4>1. \A x \in Fields \ {"ready"} : seen[x] = s[x]
        BY <1>4 DEF Only
      <4> QED  BY <1>4, <4>1 DEF Based, Values, Only, Fields
    <3>3. seen.lastAck < nr /\ nr <= seen.nextWindow /\ seen.nextWindow - nr # 1
      BY <1>6, <1>10, <2>2, <2>3
    <3>4. PICK k : k = Acknowledge(seen, nr)
      OBVIOUS
    <3>5. \/ nr # seen.nextToSend /\ \E a : Only(seen, a, {}) /\ k = WriteTransmit(a, FALSE)
          \/ nr = seen.nextToSend /\ Freed(seen, k, mode)
      BY ZenonT(40), <2>1, <3>2, <3>3, <3>4, AcknowledgeEffect
    <3>6. ASSUME NEW a, Only(seen, a, {}) PROVE Only(s, a, {"ready"})
      BY <1>4, <3>6 DEF Only
    <3> QED  BY <1>4, <1>5, <1>10, <2>2, <3>1, <3>4, <3>5, <3>6 DEF Receives
  <2>4. CASE lost = 1
    <3>1. nr - 1 = s.lastAck
      BY <1>1, <1>6, <1>10, <2>1, <2>4
    <3>2. r.s = [seen EXCEPT !.lastAck = nr - 1]
      BY <1>7, <1>10, <2>4
    <3>3. Only(s, r.s, {"ready"})
      BY <1>4, <2>2, <3>1, <3>2 DEF Only, Fields
    <3> QED  BY <3>3 DEF Receives
  <2> QED  BY <2>3, <2>4
<1> QED  BY <1>8, <1>9, <1>10

LEMMA ReceptionQueue ==
    ASSUME NEW mode, NEW s, Based(s, mode), Values(s), NEW u, NEW calm, Queue(s, u, calm),
           s.status = "UA_SENT", "FrameRead" \notin Fns(s.dfc), "Acknowledged" \notin Fns(s.dfc),
           NEW f, NEW k, Receives(s, f, k, mode)
    PROVE  /\ Queue(k, u, calm) /\ k.status = "UA_SENT" /\ Based(k, mode) /\ k.buf = s.buf
           /\ "FrameRead" \notin Fns(k.dfc)
           /\ "DataReady" \in Fns(k.dfc) <=> "DataReady" \in Fns(s.dfc)
<1>1. PICK a : /\ Only(s, a, {"ready"})
               /\ k = a \/ k = WriteTransmit(a, FALSE) \/ Freed(a, k, mode)
  BY DEF Receives
<1>2. Only(s, a, Moving) /\ a.dfc = s.dfc
  BY <1>1 DEF Only, Moving, Fields
<1>3. Kin(s, a, mode) /\ Based(a, mode)
  BY <1>2, KinFields, KinBased
<1>4. Queue(a, u, calm) /\ a.status = "UA_SENT"
  BY <1>3, KinQueue
<1>5. a.buf = s.buf
  BY <1>1 DEF Only, Fields
<1>6. CASE k = a
  BY <1>2, <1>3, <1>4, <1>5, <1>6
<1>7. CASE k = WriteTransmit(a, FALSE)
  <2>1. Kin(a, k, mode)
    BY <1>3, <1>7, KinTransmit
  <2>2. Queue(k, u, calm) /\ k.status = a.status
    BY <1>4, <2>1, KinQueue
  <2>3. /\ "FrameRead" \in Fns(k.dfc) => "FrameRead" \in Fns(a.dfc)
        /\ "DataReady" \in Fns(k.dfc) <=> "DataReady" \in Fns(a.dfc)
    BY <2>1, LikeFns DEF Kin, Watched
  <2>4. k.buf = a.buf
    BY <2>1 DEF Kin, Only, Moving, Fields
  <2> QED  BY <1>2, <1>4, <1>5, <2>1, <2>2, <2>3, <2>4, KinBased
<1>8. CASE Freed(a, k, mode)
  <2>1. a.nextToSend \in Nat
    BY <1>1 DEF Only, Values, Fields
  <2>2. Queue(k, u, calm)
    BY <1>2, <1>4, <1>8, <2>1, FreedQueue
  <2>3. k.status = a.status /\ k.buf = a.buf /\ Based(k, mode)
    BY <1>8 DEF Freed, Only, Fields, Based
  <2>4. \A c : c.fn \in {"FrameRead", "DataReady"} => (c \in Range(k.dfc) <=> c \in Range(a.dfc))
    BY <1>8 DEF Freed, Watched
  <2>5. /\ "FrameRead" \in Fns(k.dfc) <=> "FrameRead" \in Fns(a.dfc)
        /\ "DataReady" \in Fns(k.dfc) <=> "DataReady" \in Fns(a.dfc)
    BY <2>4 DEF Fns
  <2> QED  BY <1>2, <1>4, <1>5, <2>2, <2>3, <2>5
<1> QED  BY <1>1, <1>6, <1>7, <1>8

-----------------------------------------------------------------------------
(* Reception.                                                              *)

(* The frame that is expected goes into the read buffer, and the HCI layer *)
(* will hear of it.                                                        *)
Accepts(s, pay, m, mode) ==
    /\ Only(s, m, {"ctrl", "rrSent", "armed", "dfc", "readNext", "piggy", "buf", "rlog"})
    /\ m.ctrl = "RR" /\ m.readNext = s.readNext + 1
    /\ m.buf = <<pay>> /\ m.rlog = Append(s.rlog, pay)
    /\ \E q \in Seq(DfcCalls(mode)) :
          Like(s.dfc, q) /\ m.dfc = Append(q, [fn |-> "DataReady"])

LEMMA AcceptedEffect ==
    ASSUME NEW mode, NEW s, Based(s, mode), Values(s), s.buf = <<>>, NEW pay,
           NEW k, k = ReadAccepted(s, pay)
    PROVE  \E m, force : force \in BOOLEAN /\ Accepts(s, pay, m, mode) /\ k = WriteTransmit(m, force)
<1>1. DOMAIN s = Fields /\ s.window = 1 /\ s.readNext \in Nat /\ s.readLastAck \in Nat
      /\ s.readLastAck < s.readNext
  BY DEF Based, Values, P_SHDLC_MAX_WINDOW_SIZE
<1>2. PICK o : o = [s EXCEPT !.ctrl = "RR"]
  OBVIOUS
<1>3. Only(s, o, {"ctrl"}) /\ o.ctrl = "RR" /\ o.dfc = s.dfc
  BY <1>1, <1>2 DEF Only, Fields
<1>4. Kin(s, o, mode) /\ Based(o, mode)
  <2>1. Only(s, o, Moving)
    BY <1>3 DEF Only, Moving
  <2> QED  BY <1>3, <2>1, KinFields, KinBased
<1>5. PICK e : e = [o EXCEPT !.rrSent = FALSE]
  OBVIOUS
<1>6. PICK c : c = IF s.rrSent THEN TimerCancel(e, "T6") ELSE o
  OBVIOUS
<1>7. /\ Only(s, c, {"ctrl", "rrSent", "armed", "dfc"}) /\ c.ctrl = "RR" /\ Kin(s, c, mode)
  <2>1. CASE s.rrSent
    <3>1. Only(o, e, {"rrSent"}) /\ e.dfc = o.dfc
      BY <1>4, <1>5 DEF Based, Only, Fields
    <3>2. Only(o, e, Moving)
      BY <3>1 DEF Only, Moving
    <3>3. Kin(o, e, mode) /\ Based(e, mode)
      BY <1>4, <3>1, <3>2, KinFields, KinBased
    <3>4. Kin(e, c, mode) /\ Only(e, c, {"armed", "dfc"})
      BY <1>6, <2>1, <3>3, KinTimerCancel DEF Timers
    <3>5. Only(s, c, {"ctrl", "rrSent", "armed", "dfc"}) /\ c.ctrl = "RR"
      BY <1>3, <3>1, <3>4 DEF Only, Fields
    <3>6. Kin(s, c, mode)
      BY <1>4, <3>3, <3>4, KinTrans
    <3> QED  BY <3>5, <3>6
  <2>2. CASE ~s.rrSent
    <3>1. c = o
      BY <1>6, <2>2
    <3> QED  BY <1>3, <1>4, <3>1 DEF Only
  <2> QED  BY <2>1, <2>2
<1>8. PICK d : d = [c EXCEPT !.readNext = @ + 1, !.piggy = pay.kind = "chained",
                             !.buf = Append(@, pay), !.rlog = Append(@, pay)]
  OBVIOUS
<1>9. /\ Only(c, d, {"readNext", "piggy", "buf", "rlog"}) /\ d.readNext = c.readNext + 1
      /\ d.buf = Append(c.buf, pay) /\ d.rlog = Append(c.rlog, pay) /\ d.dfc = c.dfc
      /\ d.ctrl = c.ctrl
  <2>1. DOMAIN c = Fields
    BY <1>7 DEF Only
  <2> QED  BY <1>8, <2>1 DEF Only, Fields
<1>10. c.buf = <<>> /\ c.readNext = s.readNext /\ c.rlog = s.rlog
  BY <1>7 DEF Only, Fields
<1>11. Append(<<>>, pay) = <<pay>>
  OBVIOUS
<1>12. PICK m : m = Post(d, "DataReady")
  OBVIOUS
<1>13. Only(d, m, {"dfc"}) /\ m.dfc = Append(d.dfc, [fn |-> "DataReady"])
  BY <1>9, <1>12 DEF Only, Post, Fields
<1>14. /\ Only(s, m, {"ctrl", "rrSent", "armed", "dfc", "readNext", "piggy", "buf", "rlog"})
       /\ m.ctrl = d.ctrl /\ m.readNext = d.readNext /\ m.buf = d.buf /\ m.rlog = d.rlog
  BY <1>7, <1>9, <1>13 DEF Only, Fields
<1>15. Accepts(s, pay, m, mode)
  BY <1>7, <1>9, <1>10, <1>11, <1>13, <1>14 DEF Accepts, Kin
<1>16. k = WriteTransmit(m, ForcesAck(s, pay))
  <2>1. s.readNext - s.readLastAck >= s.window
    BY <1>1
  <2> QED  BY <1>2, <1>5, <1>6, <1>8, <1>12, <2>1 DEF ReadAccepted
<1>17. ForcesAck(s, pay) \in BOOLEAN
  BY DEF ForcesAck
<1> QED  BY <1>15, <1>16, <1>17

LEMMA AcceptedQueue ==
    ASSUME NEW mode, NEW s, NEW u, NEW calm, Queue(s, u, calm), s.status = "UA_SENT",
           "FrameRead" \notin Fns(s.dfc), "DataReady" \notin Fns(s.dfc), NEW pay,
           NEW m, Accepts(s, pay, m, mode)
    PROVE  Queue(m, u, calm) /\ Based(m, mode) /\ m.status = "UA_SENT" /\ "FrameRead" \notin Fns(m.dfc)
<1>1. /\ DOMAIN m = Fields
      /\ m.reading = s.reading /\ m.readFull = s.readFull /\ m.slots = s.slots
      /\ m.status = s.status /\ m.connCb = s.connCb /\ m.nextToSend = s.nextToSend
      /\ m.lastAck = s.lastAck /\ m.writeFull = s.writeFull
  BY DEF Accepts, Only, Fields
<1>2. m.buf = <<pay>> /\ Len(m.buf) = 1 /\ m.buf # <<>>
  BY DEF Accepts
<1>3. PICK q \in Seq(DfcCalls(mode)) : Like(s.dfc, q) /\ m.dfc = Append(q, [fn |-> "DataReady"])
  BY DEF Accepts
<1>4. PICK c : c = [fn |-> "DataReady"]
  OBVIOUS
<1>5. c \in DfcCalls(mode) /\ c.fn = "DataReady"
  BY <1>4 DEF DfcCalls, PlainCalls
<1>6. /\ \A fn \in Watched : fn \in Fns(q) => fn \in Fns(s.dfc)
      /\ \A fn \in Watched \ {"FrameRead"} : fn \in Fns(s.dfc) => fn \in Fns(q)
  BY <1>3, LikeFns
<1>7. /\ m.dfc \in Seq(DfcCalls(mode)) /\ Range(m.dfc) = Range(q) \union {c}
      /\ InOrder(q) => InOrder(m.dfc)
  <2>1. \A fn \in Fns(q) : <<fn, c.fn>> \notin NeverBefore
    <3>1. "FrameRead" \notin Fns(q) /\ "DataReady" \notin Fns(q)
      BY <1>6 DEF Watched
    <3> QED  BY <1>5, <3>1 DEF NeverBefore
  <2> QED  BY <1>3, <1>4, <1>5, <2>1, AppendInOrder
<1>8. Fns(m.dfc) = Fns(q) \union {"DataReady"}
  BY <1>5, <1>7 DEF Fns
<1>9. /\ "FrameRead" \notin Fns(m.dfc) /\ "DataReady" \in Fns(m.dfc)
      /\ "Acknowledged" \in Fns(m.dfc) <=> "Acknowledged" \in Fns(s.dfc)
      /\ "BufferFree" \in Fns(m.dfc) <=> "BufferFree" \in Fns(s.dfc)
      /\ "ConnectDone" \in Fns(m.dfc) <=> "ConnectDone" \in Fns(s.dfc)
  BY <1>6, <1>8 DEF Watched
<1>10. \A d \in Range(m.dfc) : d.fn = "StreamData" => d \in Range(s.dfc)
  BY <1>3, <1>5, <1>7 DEF Like, Watched
<1>11. Reads(m)
  BY <1>1, <1>2, <1>3, <1>7, <1>9 DEF Queue, Reads, Like
<1>12. Starts(m) /\ Told(m, u) /\ Woken(m, u, calm) /\ Contexts(m, u)
  BY <1>1, <1>9, <1>10 DEF Queue, Starts, Told, Woken, Contexts, LastWaits, Waits
<1> QED  BY <1>1, <1>7, <1>9, <1>11, <1>12 DEF Queue, Based

(* WriteTransmit after anything that leaves the queue in order. *)
LEMMA TransmitQueue ==
    ASSUME NEW mode, NEW s, Based(s, mode), NEW u, NEW calm, Queue(s, u, calm),
           s.status # "RESET_PENDING", "FrameRead" \notin Fns(s.dfc),
           NEW force \in BOOLEAN, NEW k, k = WriteTransmit(s, force)
    PROVE  /\ Queue(k, u, calm) /\ k.status = s.status /\ Based(k, mode)
           /\ "FrameRead" \notin Fns(k.dfc)
<1>1. Kin(s, k, mode)
  BY KinTransmit
<1>2. "FrameRead" \in Fns(k.dfc) => "FrameRead" \in Fns(s.dfc)
  BY <1>1, LikeFns DEF Kin, Watched
<1> QED  BY <1>1, <1>2, KinQueue, KinBased

(* An I frame. *)
LEMMA ReadIFrameQueue ==
    ASSUME NEW mode \in Modes, NEW s, Settled(s, mode), s.status = "UA_SENT",
           NEW u, NEW calm, Queue(s, u, calm),
           Fns(s.dfc) \intersect {"FrameRead", "DataReady", "Acknowledged"} = {},
           NEW f, f.nr \in 0..7, NEW k, k = ReadIFrame(s, f)
    PROVE  /\ Queue(k, u, calm) /\ k.status = "UA_SENT" /\ Based(k, mode)
           /\ "FrameRead" \notin Fns(k.dfc)
<1>1. PICK c : c = Ctrl("RR", f.nr)
  OBVIOUS
<1>2. PICK r : r = WriteReceptionCtrlFrame(s, c)
  OBVIOUS
<1>3. c.t = "RR" /\ c.nr \in 0..7
  BY <1>1 DEF Ctrl
<1>4. Settled(r.s, mode)
  BY <1>2, <1>3, ReceptionSettled
<1>5. Based(s, mode) /\ Values(s) /\ Values(r.s)
  BY <1>4 DEF Settled, Sound, Instance, Based
<1>6. PICK a : a = r.s
  OBVIOUS
<1>7. Receives(s, c, a, mode)
  BY <1>2, <1>3, <1>5, <1>6, ReceptionEffect
<1>8. /\ Queue(a, u, calm) /\ a.status = "UA_SENT" /\ Based(a, mode)
      /\ "FrameRead" \notin Fns(a.dfc)
      /\ "DataReady" \in Fns(a.dfc) <=> "DataReady" \in Fns(s.dfc)
  BY <1>5, <1>7, ReceptionQueue
<1>9. "DataReady" \notin Fns(a.dfc) /\ a.buf = <<>>
  BY <1>8 DEF Queue, Reads
<1>10. k = IF ~r.ok THEN a
           ELSE IF f.ns # ThreeBits(a.readNext)
           THEN WriteTransmit([a EXCEPT !.ctrl = "REJ"], TRUE)
           ELSE IF Len(a.buf) >= ReadCap
           THEN WriteTransmit([a EXCEPT !.ctrl = "RNR", !.readFull = TRUE], FALSE)
           ELSE ReadAccepted(a, f.pay)
  BY <1>1, <1>2, <1>6 DEF ReadIFrame
<1>11. ~(Len(a.buf) >= ReadCap)
  BY <1>9, ShdlcAssumption
<1>12. CASE k = a
  BY <1>8, <1>12
<1>13. CASE k = WriteTransmit([a EXCEPT !.ctrl = "REJ"], TRUE)
  <2>1. PICK b : b = [a EXCEPT !.ctrl = "REJ"]
    OBVIOUS
  <2>2. Only(a, b, {"ctrl"}) /\ b.dfc = a.dfc
    BY <1>8, <2>1 DEF Based, Only, Fields
  <2>3. Only(a, b, Moving)
    BY <2>2 DEF Only, Moving
  <2>4. Kin(a, b, mode)
    BY <1>8, <2>2, <2>3, KinFields
  <2>5. Queue(b, u, calm) /\ b.status = "UA_SENT" /\ Based(b, mode)
    BY <1>8, <2>4, KinQueue, KinBased
  <2>6. PICK force \in BOOLEAN : force = TRUE
    OBVIOUS
  <2>7. k = WriteTransmit(b, force)
    BY <1>13, <2>1, <2>6
  <2> QED  BY <1>8, <2>2, <2>5, <2>7, TransmitQueue
<1>14. CASE k = ReadAccepted(a, f.pay)
  <2>1. PICK m, force : /\ force \in BOOLEAN /\ Accepts(a, f.pay, m, mode)
                        /\ k = WriteTransmit(m, force)
    BY <1>5, <1>6, <1>8, <1>9, <1>14, AcceptedEffect
  <2>2. /\ Queue(m, u, calm) /\ Based(m, mode) /\ m.status = "UA_SENT"
        /\ "FrameRead" \notin Fns(m.dfc)
    BY <1>8, <1>9, <2>1, AcceptedQueue
  <2> QED  BY <2>1, <2>2, TransmitQueue
<1> QED  BY <1>10, <1>11, <1>12, <1>13, <1>14

(* The numbers start again. *)
LEMMA ConnectStateEffect ==
    ASSUME NEW mode, NEW s, Based(s, mode), NEW w, NEW k, k = ConnectState(s, w)
    PROVE  /\ Only(s, k, {"window", "readNext", "readLastAck", "lastAck", "nextToSend",
                          "nextWindow", "ready", "log", "rlog"})
           /\ k.dfc = s.dfc /\ ~Waits(k)
           /\ k.readNext = 32 /\ k.lastAck = 31 /\ k.nextToSend = 32 /\ k.nextWindow = 32
           /\ k.log = <<>> /\ k.rlog = <<>>
<1>1. PICK id : id = FirstId
  OBVIOUS
<1>2. k = [s EXCEPT !.window = w, !.readNext = id, !.readLastAck = id - 1, !.lastAck = id - 1,
                    !.nextToSend = id, !.nextWindow = id, !.ready = TRUE, !.log = <<>>,
                    !.rlog = <<>>]
  BY <1>1 DEF ConnectState
<1>3. DOMAIN s = Fields
  BY DEF Based
<1>4. /\ k.readNext = id /\ k.lastAck = id - 1 /\ k.nextToSend = id /\ k.nextWindow = id
      /\ k.log = <<>> /\ k.rlog = <<>> /\ k.dfc = s.dfc
  BY <1>2, <1>3 DEF Fields
<1>5. Only(s, k, {"window", "readNext", "readLastAck", "lastAck", "nextToSend", "nextWindow",
                  "ready", "log", "rlog"})
  BY <1>2, <1>3 DEF Only, Fields
<1>6. id = 32 /\ id - 1 = 31
  BY <1>1 DEF FirstId
<1>7. ~Waits(k)
  BY <1>4, <1>6 DEF Waits
<1> QED  BY <1>4, <1>5, <1>6, <1>7

(* A frame of the handshake is written, or left for later. *)
LEMMA ConnectSendEffect ==
    ASSUME NEW mode, NEW s, Based(s, mode), NEW frame, NEW k, k = ConnectSendFrame(s, frame)
    PROVE  /\ Only(s, k, {"status", "connNext", "armed", "dfc", "tx"})
           /\ Like(s.dfc, k.dfc) /\ k.dfc \in Seq(DfcCalls(mode))
           /\ k.status \in {"SEND_RESET_PENDING", "SEND_UA_PENDING"}
<1>1. CASE s.status \in {"SEND_RESET_PENDING", "SEND_UA_PENDING"}
  <2>1. k = [s EXCEPT !.connNext = frame]
    BY <1>1 DEF ConnectSendFrame
  <2> QED  BY <1>1, <2>1 DEF Based, Only, Like, Fields
<1>2. CASE s.status \notin {"SEND_RESET_PENDING", "SEND_UA_PENDING"} /\ frame = "RST"
  <2>1. PICK a : a = [s EXCEPT !.status = "SEND_RESET_PENDING"]
    OBVIOUS
  <2>2. PICK b : b = TimerSet(a, "T3")
    OBVIOUS
  <2>3. PICK f : f = RST(s.window)
    OBVIOUS
  <2>4. k = FrameWrite(b, f, "ConnectWritten")
    BY <1>2, <2>1, <2>2, <2>3 DEF ConnectSendFrame
  <2>5. Only(s, a, {"status"}) /\ a.dfc = s.dfc /\ a.status = "SEND_RESET_PENDING" /\ Based(a, mode)
    BY <2>1 DEF Based, Only, Fields
  <2>6. Only(a, b, {"armed"}) /\ Kin(a, b, mode) /\ Based(b, mode)
    BY <2>2, <2>5, KinTimerSet, KinBased
  <2>7. Only(b, k, {"dfc", "tx"}) /\ Kin(b, k, mode)
    BY <2>4, <2>6, KinFrameWrite
  <2>8. Only(s, k, {"status", "connNext", "armed", "dfc", "tx"}) /\ k.status = a.status
    BY <2>5, <2>6, <2>7 DEF Only, Fields
  <2> QED  BY <2>5, <2>6, <2>7, <2>8 DEF Kin, Like
<1>3. CASE s.status \notin {"SEND_RESET_PENDING", "SEND_UA_PENDING"} /\ frame # "RST"
  <2>1. PICK a : a = [s EXCEPT !.status = "SEND_UA_PENDING"]
    OBVIOUS
  <2>2. k = FrameWrite(a, UA, "ConnectWritten")
    BY <1>3, <2>1 DEF ConnectSendFrame
  <2>3. Only(s, a, {"status"}) /\ a.dfc = s.dfc /\ a.status = "SEND_UA_PENDING" /\ Based(a, mode)
    BY <2>1 DEF Based, Only, Fields
  <2>4. Only(a, k, {"dfc", "tx"}) /\ Kin(a, k, mode)
    BY <2>2, <2>3, KinFrameWrite
  <2>5. Only(s, k, {"status", "connNext", "armed", "dfc", "tx"}) /\ k.status = a.status
    BY <2>3, <2>4 DEF Only, Fields
  <2> QED  BY <2>3, <2>4, <2>5 DEF Kin, Like
<1> QED  BY <1>1, <1>2, <1>3

(* A frame that is read before the connection is up. *)
LEMMA ConnectReadQueue ==
    ASSUME NEW mode, NEW s, Based(s, mode), s.status \notin {"UA_SENT", "RESET_PENDING"},
           ~Waits(s), NEW u, ~u.connected, NEW calm, Queue(s, u, calm),
           "FrameRead" \notin Fns(s.dfc), NEW f, NEW k, k = ConnectReadCompleted(s, f)
    PROVE  /\ Queue(k, u, calm) /\ k.status # "RESET_PENDING" /\ Based(k, mode)
           /\ "FrameRead" \notin Fns(k.dfc)
<1>1. CASE f.t = "UA"
  <2>1. k = ConnectCompleted(s)
    BY <1>1 DEF ConnectReadCompleted
  <2>2. "DataReady" \notin Fns(s.dfc) /\ s.connCb = TRUE
    BY DEF Queue, Starts
  <2>3. Only(s, s, {"status"})
    BY DEF Based, Only
  <2>4. /\ Queue(k, u, calm) /\ k.status = "UA_SENT" /\ k.dfc \in Seq(DfcCalls(mode))
        /\ Only(s, k, {"status", "connCb", "armed", "dfc"})
        /\ \A c \in Range(k.dfc) : c.fn = "FrameRead" => c \in Range(s.dfc)
    BY <2>1, <2>2, <2>3, ConnectCompletedQueue
  <2> QED  BY <2>4 DEF Based, Only, Fns
<1>2. CASE f.t # "UA" /\ RSTAccepted(f)
  <2>1. PICK c : c = ConnectState(s, f.win)
    OBVIOUS
  <2>2. k = ConnectSendFrame(c, "UA")
    BY <1>2, <2>1 DEF ConnectReadCompleted
  <2>3. Only(s, c, Moving \union Links) /\ c.dfc = s.dfc /\ ~Waits(c) /\ Based(c, mode)
    BY <2>1, ConnectStateEffect DEF Only, Based, Moving, Links
  <2>4. /\ Only(c, k, {"status", "connNext", "armed", "dfc", "tx"})
        /\ Like(c.dfc, k.dfc) /\ k.dfc \in Seq(DfcCalls(mode))
        /\ k.status \in {"SEND_RESET_PENDING", "SEND_UA_PENDING"}
    BY <2>2, <2>3, ConnectSendEffect
  <2>5. Only(s, k, Moving \union Links) /\ Based(k, mode) /\ ~Waits(k)
    BY <2>3, <2>4 DEF Only, Based, Moving, Links, Fields, Waits
  <2>6. Queue(k, u, calm)
    BY <2>3, <2>4, <2>5, ConnectQueue
  <2>7. "FrameRead" \notin Fns(k.dfc)
    BY <2>3, <2>4, LikeFns DEF Watched
  <2> QED  BY <2>4, <2>5, <2>6, <2>7
<1>3. CASE f.t # "UA" /\ ~RSTAccepted(f)
  <2>1. k = s
    BY <1>3 DEF ConnectReadCompleted
  <2> QED  BY <2>1
<1> QED  BY <1>1, <1>2, <1>3

(* A frame that is read on a connection that is up. *)
LEMMA ReadQueue ==
    ASSUME NEW mode \in Modes, NEW s, Settled(s, mode), s.status = "UA_SENT",
           NEW u, NEW calm, Queue(s, u, calm),
           Fns(s.dfc) \intersect {"FrameRead", "DataReady", "Acknowledged"} = {},
           NEW f \in Frames(mode), calm => NoRST(f), NEW k, k = ReadReadCompleted(s, f)
    PROVE  /\ Queue(k, u, calm) /\ k.status = "UA_SENT" /\ Based(k, mode)
           /\ "FrameRead" \notin Fns(k.dfc)
<1>1. Based(s, mode) /\ Values(s)
  BY DEF Settled, Sound, Instance, Based
<1>2. CASE f.t = "I"
  <2>1. f.nr \in 0..7
    BY <1>2 DEF Frames, PeerFrames
  <2>2. k = ReadIFrame(s, f)
    BY <1>2 DEF ReadReadCompleted
  <2> QED  BY <2>1, <2>2, ReadIFrameQueue
<1>3. CASE f.t # "I" /\ RSTAccepted(f)
  <2>1. PICK c : c = ConnectState(s, f.win)
    OBVIOUS
  <2>2. PICK d : d = Post(c, "ResetIndication")
    OBVIOUS
  <2>3. PICK e : e = [d EXCEPT !.ctrl = "UA"]
    OBVIOUS
  <2>4. PICK force \in BOOLEAN : force = FALSE
    OBVIOUS
  <2>5. k = WriteTransmit(e, force)
    BY <1>3, <2>1, <2>2, <2>3, <2>4 DEF ReadReadCompleted
  <2>6. /\ Only(s, c, {"window", "readNext", "readLastAck", "lastAck", "nextToSend",
                       "nextWindow", "ready", "log", "rlog"})
        /\ c.dfc = s.dfc /\ ~Waits(c)
    BY <1>1, <2>1, ConnectStateEffect
  <2>7. /\ c.reading = s.reading /\ c.buf = s.buf /\ c.readFull = s.readFull /\ c.slots = s.slots
        /\ c.status = s.status /\ Based(c, mode)
    BY <1>1, <2>6 DEF Only, Fields, Based
  <2>8. ~calm
    BY <1>3 DEF RSTAccepted, NoRST
  <2>9. Like(s.dfc, c.dfc) /\ Starts(c)
    BY <2>6, <2>7 DEF Like, Starts
  <2>10. Queue(c, u, calm)
    BY <2>6, <2>7, <2>8, <2>9, QueueKept
  <2>11. "ResetIndication" \in Neutral
    BY DEF Neutral, PlainCalls, Watched
  <2>12. Kin(c, d, mode) /\ Based(d, mode)
    BY <2>2, <2>7, <2>11, KinPost, KinBased
  <2>13. Only(d, e, {"ctrl"}) /\ e.dfc = d.dfc
    BY <2>3, <2>12 DEF Based, Only, Fields
  <2>14. Only(d, e, Moving)
    BY <2>13 DEF Only, Moving
  <2>15. Kin(d, e, mode)
    BY <2>12, <2>13, <2>14, KinFields
  <2>16. Kin(c, e, mode) /\ Based(e, mode)
    BY <2>12, <2>15, KinTrans, KinBased
  <2>17. Queue(e, u, calm) /\ e.status = "UA_SENT"
    BY <2>7, <2>10, <2>16, KinQueue
  <2>18. "FrameRead" \notin Fns(e.dfc)
    BY <2>6, <2>16, LikeFns DEF Kin, Watched
  <2> QED  BY <2>5, <2>16, <2>17, <2>18, TransmitQueue
<1>4. CASE f.t # "I" /\ ~RSTAccepted(f)
  <2>1. PICK r : r = WriteReceptionCtrlFrame(s, f)
    OBVIOUS
  <2>2. k = r.s
    BY <1>4, <2>1 DEF ReadReadCompleted
  <2>3. f.t \in {"RR", "RNR", "REJ"} => f.nr \in 0..7
    BY DEF Frames, PeerFrames
  <2>4. Receives(s, f, k, mode)
    BY <1>1, <2>1, <2>2, <2>3, ReceptionEffect
  <2> QED  BY <1>1, <2>4, ReceptionQueue
<1> QED  BY <1>2, <1>3, <1>4

(* Every frame that is read. *)
LEMMA GenericReadQueue ==
    ASSUME NEW mode \in Modes, NEW s, Settled(s, mode), s.status # "RESET_PENDING",
           NEW u, u.connected => s.status = "UA_SENT", NEW calm, Queue(s, u, calm),
           Fns(s.dfc) \intersect {"FrameRead", "DataReady", "Acknowledged"} = {},
           NEW f \in Frames(mode), calm => NoRST(f), NEW k, k = GenericReadCompleted(s, f)
    PROVE  /\ Queue(k, u, calm) /\ k.status # "RESET_PENDING" /\ Based(k, mode)
           /\ "FrameRead" \notin Fns(k.dfc)
<1>1. PICK r : r = IF s.status = "UA_SENT" THEN ReadReadCompleted(s, f)
                                           ELSE ConnectReadCompleted(s, f)
  OBVIOUS
<1>2. k = [r EXCEPT !.reading = TRUE]
  BY <1>1 DEF GenericReadCompleted, FrameRead
<1>3. /\ Queue(r, u, calm) /\ r.status # "RESET_PENDING" /\ Based(r, mode)
      /\ "FrameRead" \notin Fns(r.dfc)
  <2>1. CASE s.status = "UA_SENT"
    <3>1. r = ReadReadCompleted(s, f)
      BY <1>1, <2>1
    <3> QED  BY <2>1, <3>1, ReadQueue
  <2>2. CASE s.status # "UA_SENT"
    <3>1. r = ConnectReadCompleted(s, f)
      BY <1>1, <2>2
    <3>2. Based(s, mode) /\ ~Waits(s)
      BY <2>2 DEF Settled, Sound, Instance, Values, Based, Phases, Quiet, Waits
    <3> QED  BY <2>2, <3>1, <3>2, ConnectReadQueue
  <2> QED  BY <2>1, <2>2
<1>4. Only(r, k, {"reading"}) /\ k.dfc = r.dfc
  BY <1>2, <1>3 DEF Based, Only, Fields
<1>5. /\ k.buf = r.buf /\ k.readFull = r.readFull /\ k.slots = r.slots /\ k.status = r.status
      /\ k.connCb = r.connCb /\ k.writeFull = r.writeFull /\ k.lastAck = r.lastAck
      /\ k.nextToSend = r.nextToSend /\ Based(k, mode)
  BY <1>3, <1>4 DEF Only, Fields, Based
<1>6. Starts(k) /\ Like(r.dfc, k.dfc)
  BY <1>3, <1>4, <1>5 DEF Queue, Starts, Like
<1>7. Queue(k, u, calm)
  BY <1>3, <1>4, <1>5, <1>6, QueueKept DEF Waits
<1> QED  BY <1>3, <1>4, <1>5, <1>7

-----------------------------------------------------------------------------
(* The call at the head of the queue.                                      *)

(* PNALDFCPump has taken the call c. *)
Popped(s, p, c, mode) ==
    /\ Only(s, p, {"dfc"}) /\ Based(p, mode) /\ c \in DfcCalls(mode)
    /\ Range(s.dfc) = Range(p.dfc) \union {c} /\ Fns(s.dfc) = Fns(p.dfc) \union {c.fn}
    /\ InOrder(s.dfc) => /\ InOrder(p.dfc)
                         /\ \A fn \in Fns(p.dfc) : <<c.fn, fn>> \notin NeverBefore

LEMMA PumpedPopped ==
    ASSUME NEW mode, Based(host, mode), NEW fn, AtHead(fn), NEW p, p = Pumped,
           NEW c, c = Head(host.dfc)
    PROVE  Popped(host, p, c, mode) /\ c.fn = fn
<1>1. Only(host, p, {"dfc"}) /\ p.dfc = Tail(host.dfc) /\ host.dfc # <<>> /\ c.fn = fn
  BY DEF Based, Pumped, Only, Fields, AtHead
<1>2. PICK S : S = DfcCalls(mode)
  OBVIOUS
<1>3. PICK q \in Seq(S) : q = host.dfc
  BY <1>2 DEF Based
<1>4. /\ Range(q) = Range(Tail(q)) \union {Head(q)}
      /\ InOrder(q) => /\ InOrder(Tail(q))
                       /\ \A x \in Fns(Tail(q)) : <<Head(q).fn, x>> \notin NeverBefore
  BY <1>1, <1>3, TailInOrder
<1>5. Tail(q) \in Seq(S) /\ Head(q) \in S
  BY <1>1, <1>3, HeadTailProperties
<1>6. Based(p, mode)
  BY <1>1, <1>2, <1>3, <1>5 DEF Only, Based
<1>7. Fns(host.dfc) = Fns(p.dfc) \union {c.fn}
  BY <1>1, <1>3, <1>4 DEF Fns
<1> QED  BY <1>1, <1>2, <1>3, <1>4, <1>5, <1>6, <1>7 DEF Popped

(* A call that nothing here waits for, or a frame or a datum that is taken *)
(* care of as it runs.                                                     *)
LEMMA PopQueue ==
    ASSUME NEW mode, NEW s, NEW u, NEW calm, Queue(s, u, calm), NEW p, NEW c, Popped(s, p, c, mode),
           c.fn \notin {"DataReady", "Acknowledged", "BufferFree", "ConnectDone"}
    PROVE  Queue(p, u, calm) /\ p.status = s.status
<1>1. /\ p.reading = s.reading /\ p.buf = s.buf /\ p.readFull = s.readFull /\ p.slots = s.slots
      /\ p.status = s.status /\ p.connCb = s.connCb /\ p.writeFull = s.writeFull
      /\ p.lastAck = s.lastAck /\ p.nextToSend = s.nextToSend /\ p.armed = s.armed /\ p.tx = s.tx
  BY DEF Popped, Only, Fields
<1>2. /\ Fns(p.dfc) \subseteq Fns(s.dfc) /\ Range(p.dfc) \subseteq Range(s.dfc)
      /\ "DataReady" \in Fns(p.dfc) <=> "DataReady" \in Fns(s.dfc)
      /\ "Acknowledged" \in Fns(p.dfc) <=> "Acknowledged" \in Fns(s.dfc)
      /\ "BufferFree" \in Fns(p.dfc) <=> "BufferFree" \in Fns(s.dfc)
      /\ "ConnectDone" \in Fns(p.dfc) <=> "ConnectDone" \in Fns(s.dfc)
  BY DEF Popped
<1>3. Reads(p)
  BY <1>1, <1>2 DEF Queue, Reads, Popped
<1>4. Starts(p)
  BY <1>1, <1>2 DEF Queue, Starts
<1>5. Told(p, u) /\ Woken(p, u, calm) /\ Contexts(p, u)
  BY <1>1, <1>2 DEF Queue, Told, Woken, Contexts, LastWaits, Waits
<1> QED  BY <1>1, <1>3, <1>4, <1>5 DEF Queue

(* The connection is known to be up. *)
LEMMA ConnectDoneQueue ==
    ASSUME NEW mode, NEW s, NEW u, DOMAIN u = HciFields, NEW calm, Queue(s, u, calm), NEW p, NEW c,
           Popped(s, p, c, mode), c.fn = "ConnectDone", NEW v, v = [u EXCEPT !.connected = TRUE]
    PROVE  Queue(p, v, calm) /\ p.status = s.status
<1>1. /\ p.reading = s.reading /\ p.buf = s.buf /\ p.readFull = s.readFull /\ p.slots = s.slots
      /\ p.status = s.status /\ p.connCb = s.connCb /\ p.writeFull = s.writeFull
      /\ p.lastAck = s.lastAck /\ p.nextToSend = s.nextToSend /\ p.armed = s.armed /\ p.tx = s.tx
  BY DEF Popped, Only, Fields
<1>2. /\ Fns(p.dfc) \subseteq Fns(s.dfc) /\ Range(p.dfc) \subseteq Range(s.dfc)
      /\ "DataReady" \in Fns(p.dfc) <=> "DataReady" \in Fns(s.dfc)
      /\ "Acknowledged" \in Fns(p.dfc) <=> "Acknowledged" \in Fns(s.dfc)
      /\ "BufferFree" \in Fns(p.dfc) <=> "BufferFree" \in Fns(s.dfc)
  BY DEF Popped
<1>3. v.connected = TRUE /\ v.waiting = u.waiting /\ v.sent = u.sent /\ v.rx = u.rx
  BY DEF HciFields
<1>4. Reads(p)
  BY <1>1, <1>2 DEF Queue, Reads, Popped
<1>5. Starts(p)
  BY <1>1, <1>2 DEF Queue, Starts
<1>6. Told(p, v)
  BY <1>2, <1>3 DEF Queue, Told
<1>7. Woken(p, v, calm)
  BY <1>1, <1>2, <1>3 DEF Queue, Told, Woken, Waits
<1>8. Contexts(p, v)
  BY <1>1, <1>2, <1>3 DEF Queue, Contexts, LastWaits, Waits
<1> QED  BY <1>1, <1>4, <1>5, <1>6, <1>7, <1>8 DEF Queue

(* No frame has been read that was not read before. *)
Older(q, r) == \A c \in Range(r) : c.fn = "FrameRead" => c \in Range(q)

LEMMA KinOlder ==
    ASSUME NEW mode, NEW s, NEW k, Kin(s, k, mode)
    PROVE  Older(s.dfc, k.dfc)
BY DEF Kin, Like, Older, Watched

(* The end of a step. *)
LEMMA SettleQueue ==
    ASSUME NEW mode \in Modes, NEW s, Settled(s, mode), NEW u, NEW calm, Queue(s, u, calm),
           Settle(s)
    PROVE  Queue(host', u, calm) /\ Older(s.dfc, host'.dfc)
<1>1. Based(s, mode) /\ TxOK(s)
  BY DEF Settled, Sound, Instance, Based
<1>2. host' = NotTaken(s) \/ (s.tx # NoTx /\ host' = Taken(s))
  BY DEF Settle
<1>3. CASE s.status = "RESET_PENDING"
  <2>1. s.tx = NoTx
    BY <1>3 DEF Queue, Starts
  <2>2. host' = s
    BY <1>2, <2>1 DEF NotTaken
  <2> QED  BY <2>2 DEF Older
<1>4. CASE s.status # "RESET_PENDING"
  <2>1. s.tx # NoTx => /\ s.tx.cb \in {"FrameWritten", "ConnectWritten"}
                       /\ DOMAIN s.tx = {"t", "f", "cb", "bad", "new"}
    BY <1>1 DEF TxOK
  <2>2. Kin(s, host', mode)
    BY <1>1, <1>2, <2>1, KinNotTaken, KinTaken
  <2> QED  BY <1>4, <2>2, KinQueue, KinOlder
<1> QED  BY <1>3, <1>4

-----------------------------------------------------------------------------
(* The loops of the HCI layer.                                             *)

(* Both layers in the write loop: what is still to be sent is either known *)
(* to wait for the window or looked at in the next turn.                   *)
Writing(p, mode) ==
    /\ Both(p, p.u.connected, mode) /\ p.u.connected /\ Queue(p.s, p.u, FALSE)
    /\ p.stop => Waits(p.s) /\ p.s.writeFull = TRUE

(* The message at the head of the list is cut further. *)
LEMMA CutWaiting ==
    ASSUME NEW S, S = [m : Nat, frag : Nat], NEW q \in Seq(S), q # <<>>
    PROVE  /\ Head(q) \in S /\ Head(q) = q[1] /\ Tail(q) \in Seq(S)
           /\ [q EXCEPT ![1].frag = @ + 1] \in Seq(S)
<1>1. /\ Head(q) \in S /\ Tail(q) \in Seq(S) /\ Len(q) \in Nat /\ Len(q) > 0
      /\ DOMAIN q = 1..Len(q) /\ Head(q) = q[1]
  <2>1. PICK T : T = S
    OBVIOUS
  <2>2. /\ Head(q) \in T /\ Tail(q) \in Seq(T)
    BY <2>1, HeadTailProperties
  <2>3. Len(q) \in Nat /\ Len(q) > 0 /\ DOMAIN q = 1..Len(q) /\ Head(q) = q[1]
    BY <2>1, LenProperties, EmptySeq
  <2> QED  BY <2>1, <2>2, <2>3
<1>2. [Head(q) EXCEPT !.frag = @ + 1] \in S
  BY <1>1
<1>3. PICK x \in S : x = [q[1] EXCEPT !.frag = @ + 1]
  BY <1>1, <1>2
<1>4. [q EXCEPT ![1] = x] \in Seq(S)
  <2>1. 1 \in 1..Len(q)
    BY <1>1
  <2> QED  BY <2>1, ExceptSeq
<1>5. [q EXCEPT ![1].frag = @ + 1] = [q EXCEPT ![1] = x]
  BY <1>3
<1> QED  BY <1>1, <1>4, <1>5

(* PSHDLCWrite refuses a frame as long as the window is taken, *)
LEMMA RefusedQueue ==
    ASSUME NEW mode \in Modes, NEW s, Settled(s, mode), NEW u, Queue(s, u, FALSE), Waits(s), NEW pay,
           NEW r, r = PSHDLCWrite(s, pay)
    PROVE  /\ r.ok = FALSE /\ Queue(r.s, u, FALSE) /\ Waits(r.s) /\ r.s.writeFull = TRUE
           /\ Older(s.dfc, r.s.dfc)
<1>1. /\ DOMAIN s = Fields /\ s.lastAck \in Nat /\ s.nextToSend \in Nat /\ s.window = 1
  BY DEF Settled, Sound, Instance, Values, P_SHDLC_MAX_WINDOW_SIZE
<1>2. s.nextToSend - s.lastAck - 1 >= s.window
  BY <1>1 DEF Waits
<1>3. r.ok = FALSE /\ r.s = [s EXCEPT !.writeFull = TRUE]
  BY <1>2 DEF PSHDLCWrite
<1>4. PICK k : k = r.s
  OBVIOUS
<1>5. Only(s, k, {"writeFull"}) /\ k.dfc = s.dfc /\ k.writeFull = TRUE
  BY <1>1, <1>3, <1>4 DEF Only, Fields
<1>6. /\ k.reading = s.reading /\ k.buf = s.buf /\ k.readFull = s.readFull /\ k.slots = s.slots
      /\ k.status = s.status /\ k.connCb = s.connCb /\ k.armed = s.armed /\ k.tx = s.tx
      /\ k.lastAck = s.lastAck /\ k.nextToSend = s.nextToSend
  BY <1>5 DEF Only, Fields
<1>7. Waits(k)
  BY <1>6 DEF Waits
<1>8. Reads(k) /\ Starts(k) /\ Told(k, u) /\ Woken(k, u, FALSE) /\ Contexts(k, u)
  BY <1>5, <1>6 DEF Queue, Reads, Starts, Told, Woken, Contexts, LastWaits, Waits
<1> QED  BY <1>3, <1>4, <1>5, <1>7, <1>8 DEF Queue, Older

(* and takes it otherwise; v is the HCI layer with a context for it. *)
LEMMA AcceptedWriteQueue ==
    ASSUME NEW mode \in Modes, NEW s, Settled(s, mode), s.status = "UA_SENT", NEW u,
           Queue(s, u, FALSE), ~Waits(s), NEW pay, NEW v, v.connected, v.rx = u.rx,
           v.waiting \in Seq([m : Nat, frag : Nat]), v.sent \in Seq(Nat), u.sent \in Seq(Nat),
           Len(v.sent) >= Len(u.sent), pay.last => Len(v.sent) >= Len(u.sent) + 1,
           NEW r, r = PSHDLCWrite(s, pay)
    PROVE  r.ok = TRUE /\ Queue(r.s, v, FALSE) /\ Waits(r.s) /\ Older(s.dfc, r.s.dfc)
<1>1. /\ DOMAIN s = Fields /\ s.lastAck \in Nat /\ s.nextToSend \in Nat /\ s.window = 1
      /\ s.lastAck < s.nextToSend /\ s.dfc \in Seq(DfcCalls(mode))
  BY DEF Settled, Sound, Instance, Values, P_SHDLC_MAX_WINDOW_SIZE
<1>2. ~(s.nextToSend - s.lastAck - 1 >= s.window) /\ s.nextToSend = s.lastAck + 1
  BY <1>1 DEF Waits
<1>3. s.nextToSend % s.window = 0
  BY <1>1
<1>4. PICK slot : slot = [t |-> "SLOT", ns |-> ThreeBits(s.nextToSend), pay |-> pay]
  OBVIOUS
<1>5. PICK slots : slots = [s.slots EXCEPT ![0] = slot]
  OBVIOUS
<1>6. DOMAIN slots = {0} /\ slots[0].pay = pay
  <2>1. DOMAIN s.slots = {0}
    BY DEF Queue, Contexts
  <2> QED  BY <1>4, <1>5, <2>1
<1>7. PICK a : a = [s EXCEPT !.slots = slots, !.nextToSend = @ + 1, !.log = Append(@, pay)]
  OBVIOUS
<1>8. r.ok = TRUE /\ r.s = WriteTransmit(a, FALSE)
  BY <1>1, <1>2, <1>3, <1>4, <1>5, <1>7 DEF PSHDLCWrite, Fields
<1>9. /\ Only(s, a, {"slots", "nextToSend", "log"}) /\ a.slots = slots
      /\ a.nextToSend = s.nextToSend + 1 /\ a.dfc = s.dfc
  BY <1>1, <1>7 DEF Only, Fields
<1>10. /\ a.reading = s.reading /\ a.buf = s.buf /\ a.readFull = s.readFull
       /\ a.status = s.status /\ a.connCb = s.connCb /\ a.armed = s.armed /\ a.tx = s.tx
       /\ a.lastAck = s.lastAck /\ DOMAIN a = Fields
  BY <1>9 DEF Only, Fields
<1>11. Waits(a)
  BY <1>1, <1>2, <1>9, <1>10 DEF Waits
<1>12. Reads(a) /\ Starts(a)
  BY <1>9, <1>10 DEF Queue, Reads, Starts
<1>13. Told(a, v) /\ Woken(a, v, FALSE)
  BY <1>9 DEF Queue, Told, Woken
<1>14. Contexts(a, v)
  <2>1. Len(u.sent) \in Nat /\ Len(v.sent) \in Nat
    BY LenProperties
  <2>2. LastWaits(a) => pay.last
    BY <1>6, <1>9 DEF LastWaits
  <2>3. "Acknowledged" \in Fns(a.dfc) => Len(u.sent) >= 1
    BY <1>9 DEF Queue, Contexts
  <2> QED  BY <1>6, <1>9, <2>1, <2>2, <2>3 DEF Contexts
<1>15. Queue(a, v, FALSE) /\ Based(a, mode)
  BY <1>1, <1>9, <1>10, <1>12, <1>13, <1>14 DEF Queue, Based
<1>16. PICK force \in BOOLEAN : force = FALSE
  OBVIOUS
<1>17. PICK k : k = WriteTransmit(a, force)
  OBVIOUS
<1>18. Kin(a, k, mode)
  BY <1>15, <1>17, KinTransmit
<1>19. Queue(k, v, FALSE) /\ k.lastAck = a.lastAck /\ k.nextToSend = a.nextToSend
  BY <1>10, <1>15, <1>18, KinQueue DEF Kin, Only, Moving, Fields
<1>20. Waits(k) /\ Older(s.dfc, k.dfc)
  BY <1>9, <1>11, <1>18, <1>19, KinOlder DEF Waits
<1> QED  BY <1>8, <1>16, <1>17, <1>19, <1>20

(* One turn of the write loop. *)
LEMMA FragmentQueue ==
    ASSUME NEW mode \in Modes, NEW p, Writing(p, mode), NEW q, q = WriteFragment(p)
    PROVE  /\ Writing(q, mode) /\ q.u.connected = p.u.connected /\ Older(p.s.dfc, q.s.dfc)
           /\ p.stop \/ p.u.waiting = <<>> => q = p
           /\ Waits(p.s) => q.stop \/ q.u.waiting = <<>>
           /\ q.stop \/ q.u.waiting = <<>> \/ Waits(q.s)
<1>1. CASE p.stop \/ p.u.waiting = <<>>
  <2>1. q = p
    BY <1>1 DEF WriteFragment
  <2> QED  BY <1>1, <2>1 DEF Older
<1>2. CASE ~(p.stop \/ p.u.waiting = <<>>)
  <2>1. PICK s, u : s = p.s /\ u = p.u
    OBVIOUS
  <2>2. /\ Settled(s, mode) /\ s.status = "UA_SENT" /\ DOMAIN u = HciFields /\ u.connected
        /\ Queue(s, u, FALSE) /\ u.waiting # <<>>
    BY <1>2, <2>1 DEF Writing, Both
  <2>3. PICK w : w = Head(u.waiting)
    OBVIOUS
  <2>4. PICK pay : pay = [m |-> w.m, frag |-> w.frag, last |-> w.frag = Frags[w.m]]
    OBVIOUS
  <2>5. PICK r : r = PSHDLCWrite(s, pay)
    OBVIOUS
  <2>6. PICK v : v = IF w.frag = Frags[w.m]
                     THEN [u EXCEPT !.waiting = Tail(@), !.sent = Append(@, w.m)]
                     ELSE [u EXCEPT !.waiting[1].frag = @ + 1]
    OBVIOUS
  <2>7. q = [s |-> r.s, u |-> IF r.ok THEN v ELSE u, stop |-> ~r.ok]
    BY <1>2, <2>1, <2>3, <2>4, <2>5, <2>6 DEF WriteFragment
  <2>8. PICK S : S = [m : Nat, frag : Nat]
    OBVIOUS
  <2>9. u.waiting \in Seq(S) /\ u.sent \in Seq(Nat)
    BY <2>2, <2>8 DEF Queue, Contexts
  <2>10. PICK l : l = u.waiting
    OBVIOUS
  <2>11. /\ w \in S /\ w = l[1] /\ Tail(l) \in Seq(S)
         /\ [l EXCEPT ![1].frag = @ + 1] \in Seq(S)
    BY <2>2, <2>3, <2>8, <2>9, <2>10, CutWaiting
  <2>12. /\ v.connected = u.connected /\ v.rx = u.rx /\ v.waiting \in Seq(S)
         /\ v.sent = (IF w.frag = Frags[w.m] THEN Append(u.sent, w.m) ELSE u.sent)
    <3>1. CASE w.frag = Frags[w.m]
      BY <2>2, <2>6, <2>10, <2>11, <3>1 DEF HciFields
    <3>2. CASE w.frag # Frags[w.m]
      <4>1. v = [u EXCEPT !.waiting = [l EXCEPT ![1].frag = @ + 1]]
        BY <2>2, <2>6, <2>10, <3>2 DEF HciFields
      <4> QED  BY <2>2, <2>11, <3>2, <4>1 DEF HciFields
    <3> QED  BY <3>1, <3>2
  <2>13. /\ v.sent \in Seq(Nat) /\ Len(v.sent) >= Len(u.sent)
         /\ pay.last => Len(v.sent) >= Len(u.sent) + 1
    <3>1. w.m \in Nat
      BY <2>8, <2>11
    <3>2. Len(u.sent) \in Nat
      BY <2>9, LenProperties
    <3>3. CASE w.frag = Frags[w.m]
      <4>1. v.sent \in Seq(Nat) /\ Len(v.sent) = Len(u.sent) + 1
        BY <2>9, <2>12, <3>1, <3>3, AppendProperties
      <4> QED  BY <3>2, <4>1
    <3>4. CASE w.frag # Frags[w.m]
      <4>1. v.sent = u.sent /\ ~pay.last
        BY <2>4, <2>12, <3>4
      <4> QED  BY <2>9, <3>2, <4>1
    <3> QED  BY <3>3, <3>4
  <2>14. Both(q, u.connected, mode)
    BY <2>1, FragmentBoth DEF Writing
  <2>15. CASE Waits(s)
    <3>1. /\ r.ok = FALSE /\ Queue(r.s, u, FALSE) /\ Waits(r.s) /\ r.s.writeFull = TRUE
          /\ Older(s.dfc, r.s.dfc)
      BY <2>2, <2>5, <2>15, RefusedQueue
    <3>2. q.s = r.s /\ q.u = u /\ q.stop = TRUE
      <4>1. q.s = r.s /\ q.u = u /\ q.stop = ~r.ok
        BY <2>7, <3>1
      <4> QED  BY <3>1, <4>1, Zenon
    <3> QED  BY <1>2, <2>1, <2>2, <2>14, <3>1, <3>2 DEF Writing
  <2>16. CASE ~Waits(s)
    <3>1. v.connected /\ v.waiting \in Seq([m : Nat, frag : Nat])
      BY <2>2, <2>8, <2>12
    <3>2. r.ok = TRUE /\ Queue(r.s, v, FALSE) /\ Waits(r.s) /\ Older(s.dfc, r.s.dfc)
      BY <2>2, <2>5, <2>9, <2>12, <2>13, <2>16, <3>1, AcceptedWriteQueue
    <3>3. q.s = r.s /\ q.u = v /\ q.stop = FALSE
      <4>1. q.s = r.s /\ q.u = v /\ q.stop = ~r.ok
        BY <2>7, <3>2
      <4> QED  BY <3>2, <4>1, Zenon
    <3> QED  BY <1>2, <2>1, <2>2, <2>12, <2>14, <2>16, <3>2, <3>3 DEF Writing
  <2> QED  BY <2>15, <2>16
<1> QED  BY <1>1, <1>2

(* The write loop ends with nothing to send or a window that is taken. *)
LEMMA WriteMachineQueue ==
    ASSUME NEW mode \in Modes, NEW s, Settled(s, mode), s.status = "UA_SENT", NEW u,
           DOMAIN u = HciFields, u.connected, Queue(s, u, FALSE), NEW calm,
           NEW q, q = WriteMachine(s, u)
    PROVE  Queue(q.s, q.u, calm) /\ Settled(q.s, mode) /\ Older(s.dfc, q.s.dfc)
<1>1. PICK a : a = [s |-> s, u |-> u, stop |-> FALSE]
  OBVIOUS
<1>2. PICK b : b = WriteFragment(WriteFragment(a)) /\ q = [s |-> b.s, u |-> b.u]
  BY <1>1, WriteMachineTurns
<1>3. PICK c : c = WriteFragment(a)
  OBVIOUS
<1>4. Writing(a, mode)
  BY <1>1 DEF Writing, Both
<1>5. /\ Writing(c, mode) /\ Older(s.dfc, c.s.dfc)
      /\ c.stop \/ c.u.waiting = <<>> \/ Waits(c.s)
  BY <1>1, <1>3, <1>4, FragmentQueue
<1>6. /\ Writing(b, mode) /\ Older(c.s.dfc, b.s.dfc)
      /\ c.stop \/ c.u.waiting = <<>> => b = c
      /\ Waits(c.s) => b.stop \/ b.u.waiting = <<>>
  BY <1>2, <1>3, <1>5, FragmentQueue
<1>7. b.u.waiting = <<>> \/ (Waits(b.s) /\ b.s.writeFull = TRUE)
  BY <1>5, <1>6 DEF Writing
<1>8. Queue(b.s, b.u, calm)
  BY <1>6, <1>7 DEF Writing, Queue, Woken
<1>9. Settled(b.s, mode) /\ Older(s.dfc, b.s.dfc)
  BY <1>5, <1>6 DEF Writing, Both, Older
<1> QED  BY <1>2, <1>8, <1>9

(* PHCIFrameWrite *)
LEMMA WriteMessageQueue ==
    ASSUME NEW mode \in Modes, NEW s, Settled(s, mode), s.status = "UA_SENT", NEW u,
           DOMAIN u = HciFields, u.connected, NEW calm, Queue(s, u, calm), NEW m \in Nat,
           NEW q, q = PHCIFrameWrite(s, u, m)
    PROVE  Queue(q.s, q.u, calm) /\ Settled(q.s, mode) /\ Older(s.dfc, q.s.dfc)
<1>1. PICK S : S = [m : Nat, frag : Nat]
  OBVIOUS
<1>2. PICK w : w = [m |-> m, frag |-> 1]
  OBVIOUS
<1>3. PICK v : v = [u EXCEPT !.waiting = Append(@, w)]
  OBVIOUS
<1>4. q = WriteMachine(s, v)
  BY <1>2, <1>3 DEF PHCIFrameWrite
<1>5. /\ DOMAIN v = HciFields /\ v.connected /\ v.waiting = Append(u.waiting, w)
      /\ v.sent = u.sent /\ v.rx = u.rx
  BY <1>3 DEF HciFields
<1>6. v.waiting \in Seq(S)
  <2>1. w \in S
    BY <1>1, <1>2
  <2>2. u.waiting \in Seq(S)
    BY <1>1 DEF Queue, Contexts
  <2> QED  BY <1>5, <2>1, <2>2, AppendProperties
<1>7. Told(s, v) /\ Woken(s, v, FALSE)
  BY <1>5 DEF Queue, Told, Woken
<1>8. Contexts(s, v)
  BY <1>1, <1>5, <1>6 DEF Queue, Contexts
<1>9. Queue(s, v, FALSE)
  BY <1>7, <1>8 DEF Queue
<1> QED  BY <1>4, <1>5, <1>9, WriteMachineQueue

(* The write handler is called: v is the HCI layer with which it runs the  *)
(* write loop.                                                             *)
Handles(p, u, whole, v) ==
    /\ DOMAIN v = HciFields /\ v.connected /\ Queue(p, v, FALSE)
    /\ WriteAcknowledged(p, u, whole) = WriteMachine(p, v)
    /\ whole => /\ u.sent # <<>> /\ u.sent \in Seq(Nat)
                /\ v.sent = Tail(u.sent) /\ v.done = Append(u.done, Head(u.sent))
    /\ ~whole => v = u

LEMMA HandlerQueue ==
    ASSUME NEW mode \in Modes, NEW s, NEW u, DOMAIN u = HciFields, NEW calm, Queue(s, u, calm),
           u.connected, NEW p, NEW whole \in BOOLEAN, NEW c,
           c.fn = IF whole THEN "Acknowledged" ELSE "BufferFree", Popped(s, p, c, mode)
    PROVE  \E v : Handles(p, u, whole, v)
<1>1. /\ p.reading = s.reading /\ p.buf = s.buf /\ p.readFull = s.readFull /\ p.slots = s.slots
      /\ p.status = s.status /\ p.connCb = s.connCb /\ p.writeFull = s.writeFull
      /\ p.lastAck = s.lastAck /\ p.nextToSend = s.nextToSend /\ p.armed = s.armed /\ p.tx = s.tx
  BY DEF Popped, Only, Fields
<1>2. /\ Fns(p.dfc) \subseteq Fns(s.dfc) /\ Range(p.dfc) \subseteq Range(s.dfc)
      /\ "DataReady" \in Fns(p.dfc) <=> "DataReady" \in Fns(s.dfc)
      /\ "ConnectDone" \in Fns(p.dfc) <=> "ConnectDone" \in Fns(s.dfc)
      /\ c.fn \in Fns(s.dfc)
  BY DEF Popped
<1>3. whole => "Acknowledged" \notin Fns(p.dfc)
  BY DEF Popped, Queue, Reads, NeverBefore
<1>4. Reads(p)
  BY <1>1, <1>2 DEF Queue, Reads, Popped
<1>5. Starts(p)
  BY <1>1, <1>2 DEF Queue, Starts
<1>6. CASE ~whole
  <2>1. WriteAcknowledged(p, u, whole) = WriteMachine(p, u)
    BY <1>6 DEF WriteAcknowledged
  <2>2. Told(p, u) /\ Woken(p, u, FALSE)
    BY <1>1, <1>2, <1>6 DEF Queue, Told, Woken
  <2>3. "Acknowledged" \in Fns(p.dfc) <=> "Acknowledged" \in Fns(s.dfc)
    BY <1>6 DEF Popped
  <2>4. Contexts(p, u)
    BY <1>1, <2>3 DEF Queue, Contexts, LastWaits, Waits
  <2>5. Queue(p, u, FALSE)
    BY <1>4, <1>5, <2>2, <2>4 DEF Queue
  <2> QED  BY <1>6, <2>1, <2>5 DEF Handles
<1>7. CASE whole
  <2>1. u.sent \in Seq(Nat) /\ Len(u.sent) >= 1
    BY <1>2, <1>7 DEF Queue, Contexts
  <2>2. /\ u.sent # <<>> /\ Tail(u.sent) \in Seq(Nat) /\ Len(u.sent) \in Nat
        /\ Len(Tail(u.sent)) = Len(u.sent) - 1
    <3>1. u.sent # <<>> /\ Len(u.sent) \in Nat
      BY <2>1, LenProperties
    <3> QED  BY <2>1, <3>1, HeadTailProperties
  <2>3. PICK v : v = [u EXCEPT !.sent = Tail(@), !.done = Append(@, Head(u.sent))]
    OBVIOUS
  <2>4. WriteAcknowledged(p, u, whole) = WriteMachine(p, v)
    BY <1>7, <2>2, <2>3 DEF WriteAcknowledged
  <2>5. /\ DOMAIN v = HciFields /\ v.connected /\ v.waiting = u.waiting
        /\ v.sent = Tail(u.sent) /\ v.rx = u.rx /\ v.done = Append(u.done, Head(u.sent))
    BY <2>3 DEF HciFields
  <2>6. Told(p, v) /\ Woken(p, v, FALSE)
    BY <1>2, <2>5 DEF Queue, Told, Woken
  <2>7. LastWaits(p) => Len(v.sent) >= 1
    <3>1. LastWaits(p) => Len(u.sent) >= 2
      BY <1>1, <1>2, <1>7 DEF Queue, Contexts, LastWaits, Waits
    <3> QED  BY <2>2, <2>5, <3>1
  <2>8. Contexts(p, v)
    BY <1>1, <1>3, <1>7, <2>2, <2>5, <2>7 DEF Queue, Contexts
  <2>9. Queue(p, v, FALSE)
    BY <1>4, <1>5, <2>6, <2>8 DEF Queue
  <2> QED  BY <1>7, <2>1, <2>2, <2>4, <2>5, <2>9 DEF Handles
<1> QED  BY <1>6, <1>7

(* static_PHCIFrameSHDLCWriteAcknowledged: a message has ended, or there   *)
(* is room again.                                                          *)
LEMMA WriteAcknowledgedQueue ==
    ASSUME NEW mode \in Modes, NEW s, NEW u, DOMAIN u = HciFields, NEW calm, Queue(s, u, calm),
           NEW p, Settled(p, mode), u.connected => s.status = "UA_SENT",
           NEW whole \in BOOLEAN, NEW c,
           c.fn = IF whole THEN "Acknowledged" ELSE "BufferFree", Popped(s, p, c, mode),
           NEW q, q = WriteAcknowledged(p, u, whole)
    PROVE  Queue(q.s, q.u, calm) /\ Settled(q.s, mode) /\ Older(p.dfc, q.s.dfc)
<1>1. /\ p.reading = s.reading /\ p.buf = s.buf /\ p.readFull = s.readFull /\ p.slots = s.slots
      /\ p.status = s.status /\ p.connCb = s.connCb /\ p.writeFull = s.writeFull
      /\ p.lastAck = s.lastAck /\ p.nextToSend = s.nextToSend /\ p.armed = s.armed /\ p.tx = s.tx
  BY DEF Popped, Only, Fields
<1>2. CASE ~u.connected
  <2>1. /\ Fns(p.dfc) \subseteq Fns(s.dfc) /\ Range(p.dfc) \subseteq Range(s.dfc)
        /\ "DataReady" \in Fns(p.dfc) <=> "DataReady" \in Fns(s.dfc)
        /\ "ConnectDone" \in Fns(p.dfc) <=> "ConnectDone" \in Fns(s.dfc)
    BY DEF Popped
  <2>2. q = [s |-> p, u |-> u]
    BY <1>2 DEF WriteAcknowledged
  <2>3. Told(p, u) /\ Woken(p, u, calm)
    BY <1>1, <1>2, <2>1 DEF Queue, Told, Woken, Waits
  <2>4. Contexts(p, u)
    BY <1>1, <1>2, <2>1 DEF Queue, Told, Contexts, LastWaits, Waits
  <2>5. Reads(p)
    BY <1>1, <2>1 DEF Queue, Reads, Popped
  <2>6. Starts(p)
    BY <1>1, <2>1 DEF Queue, Starts
  <2> QED  BY <2>2, <2>3, <2>4, <2>5, <2>6 DEF Queue, Older
<1>3. CASE u.connected
  <2>1. PICK v : Handles(p, u, whole, v)
    BY <1>3, HandlerQueue
  <2> QED  BY <1>1, <1>3, <2>1, WriteMachineQueue DEF Handles
<1> QED  BY <1>2, <1>3

(* The first turn of the read loop takes the one frame that is there. *)
LEMMA ReadTurnQueue ==
    ASSUME NEW mode \in Modes, NEW s, NEW u, DOMAIN u = HciFields, NEW calm, Queue(s, u, calm),
           u.connected, s.buf \in Seq(PeerPayloads),
           NEW p, NEW c, c.fn = "DataReady", Popped(s, p, c, mode),
           NEW a, a = [s |-> p, u |-> u], NEW q, q = ReadFrame(a)
    PROVE  Queue(q.s, q.u, calm) /\ Older(p.dfc, q.s.dfc) /\ q.s.buf = <<>>
<1>1. /\ p.reading = s.reading /\ p.buf = s.buf /\ p.readFull = s.readFull /\ p.slots = s.slots
      /\ p.status = s.status /\ p.connCb = s.connCb /\ p.writeFull = s.writeFull
      /\ p.lastAck = s.lastAck /\ p.nextToSend = s.nextToSend /\ p.armed = s.armed /\ p.tx = s.tx
  BY DEF Popped, Only, Fields
<1>2. /\ Fns(p.dfc) \subseteq Fns(s.dfc) /\ Range(p.dfc) \subseteq Range(s.dfc)
      /\ "Acknowledged" \in Fns(p.dfc) <=> "Acknowledged" \in Fns(s.dfc)
      /\ "BufferFree" \in Fns(p.dfc) <=> "BufferFree" \in Fns(s.dfc)
      /\ "ConnectDone" \in Fns(p.dfc) <=> "ConnectDone" \in Fns(s.dfc)
      /\ "DataReady" \in Fns(s.dfc)
      /\ p.dfc \in Seq(DfcCalls(mode)) /\ DOMAIN p = Fields
  BY DEF Popped, Based
<1>3. InOrder(p.dfc) /\ "DataReady" \notin Fns(p.dfc) /\ "StreamData" \notin Fns(p.dfc)
  BY DEF Popped, Queue, Reads, NeverBefore
<1>4. /\ s.buf # <<>> /\ Len(s.buf) <= 1 /\ s.readFull = FALSE /\ s.status = "UA_SENT"
  BY <1>2 DEF Queue, Reads, Starts
<1>5. Head(s.buf) \in PeerPayloads /\ Tail(s.buf) = <<>>
  <2>1. PICK S : S = PeerPayloads
    OBVIOUS
  <2>2. PICK b \in Seq(S) : b = s.buf
    BY <2>1
  <2>3. b # <<>> /\ Len(b) \in Nat /\ Len(b) <= 1
    BY <1>4, <2>2, LenProperties
  <2>4. Head(b) \in S /\ Tail(b) \in Seq(S) /\ Len(Tail(b)) = Len(b) - 1 /\ Len(b) > 0
    BY <2>3, HeadTailProperties, EmptySeq
  <2>5. Tail(b) = <<>>
    BY <2>3, <2>4, EmptySeq
  <2> QED  BY <2>1, <2>2, <2>4, <2>5
<1>6. PICK d : d = [fn |-> "StreamData", pay |-> Head(s.buf)]
  OBVIOUS
<1>7. d \in DfcCalls(mode) /\ d.fn = "StreamData" /\ d.pay = Head(s.buf)
  BY <1>5, <1>6 DEF DfcCalls
<1>8. PICK k : k = [[p EXCEPT !.buf = Tail(@)] EXCEPT !.dfc = Append(@, d)]
  OBVIOUS
<1>9. PICK v : v = [u EXCEPT !.rx = Head(s.buf)]
  OBVIOUS
<1>10. q = [s |-> k, u |-> v]
  <2>1. PSHDLCRead(p) = [p EXCEPT !.buf = Tail(@)]
    BY <1>1, <1>4 DEF PSHDLCRead
  <2> QED  BY <1>1, <1>4, <1>6, <1>8, <1>9, <2>1 DEF ReadFrame
<1>11. /\ Only(p, k, {"buf", "dfc"}) /\ k.buf = <<>> /\ k.dfc = Append(p.dfc, d)
  BY <1>1, <1>2, <1>5, <1>8 DEF Only, Fields
<1>12. /\ k.dfc \in Seq(DfcCalls(mode)) /\ Range(k.dfc) = Range(p.dfc) \union {d}
       /\ InOrder(k.dfc)
  <2>1. \A fn \in Fns(p.dfc) : <<fn, d.fn>> \notin NeverBefore
    BY <1>3, <1>7 DEF NeverBefore
  <2>2. PICK S : S = DfcCalls(mode)
    OBVIOUS
  <2>3. p.dfc \in Seq(S) /\ d \in S
    BY <1>2, <1>7, <2>2
  <2>4. /\ Append(p.dfc, d) \in Seq(S) /\ Range(Append(p.dfc, d)) = Range(p.dfc) \union {d}
        /\ InOrder(Append(p.dfc, d))
    BY <1>3, <2>1, <2>3, AppendInOrder
  <2> QED  BY <1>11, <2>2, <2>4
<1>13. Fns(k.dfc) = Fns(p.dfc) \union {"StreamData"}
  BY <1>7, <1>12 DEF Fns
<1>14. /\ k.reading = s.reading /\ k.readFull = s.readFull /\ k.slots = s.slots
       /\ k.status = s.status /\ k.connCb = s.connCb /\ k.writeFull = s.writeFull
       /\ k.lastAck = s.lastAck /\ k.nextToSend = s.nextToSend
  BY <1>1, <1>11 DEF Only, Fields
<1>15. /\ v.connected = u.connected /\ v.waiting = u.waiting /\ v.sent = u.sent
       /\ v.rx = Head(s.buf)
  BY <1>9 DEF HciFields
<1>16. Reads(k)
  <2>1. Len(k.buf) = 0
    BY <1>11
  <2>2. k.reading => "FrameRead" \notin Fns(k.dfc)
    BY <1>2, <1>13, <1>14 DEF Queue, Reads
  <2> QED  BY <1>3, <1>4, <1>11, <1>12, <1>13, <1>14, <2>1, <2>2 DEF Reads
<1>17. Starts(k)
  BY <1>4, <1>14 DEF Starts
<1>18. Told(k, v)
  <2>1. ASSUME NEW e \in Range(k.dfc), e.fn = "StreamData" PROVE e.pay = v.rx
    <3>1. e \notin Range(p.dfc)
      BY <1>3, <2>1 DEF Fns
    <3> QED  BY <1>7, <1>12, <1>15, <2>1, <3>1
  <2> QED  BY <1>15, <2>1 DEF Told
<1>19. /\ "Acknowledged" \in Fns(k.dfc) <=> "Acknowledged" \in Fns(s.dfc)
       /\ "BufferFree" \in Fns(k.dfc) <=> "BufferFree" \in Fns(s.dfc)
  BY <1>2, <1>13
<1>20. Woken(k, v, calm) /\ Contexts(k, v)
  BY <1>14, <1>15, <1>19 DEF Queue, Woken, Contexts, LastWaits, Waits
<1>21. Older(p.dfc, k.dfc)
  BY <1>7, <1>12 DEF Older
<1>22. Queue(k, v, calm)
  BY <1>16, <1>17, <1>18, <1>20 DEF Queue
<1>23. q.s = k /\ q.u = v
  BY <1>10
<1> QED  BY <1>11, <1>21, <1>22, <1>23

(* The others find nothing. *)
LEMMA ReadMachineQueue ==
    ASSUME NEW s, NEW u, NEW a, a = [s |-> s, u |-> u], NEW b, b = ReadFrame(a), b.s.buf = <<>>,
           NEW q, q = ReadMachine(s, u)
    PROVE  q = b
<1> DEFINE T == CHOOSE f : ReadTurns(f, a, ReadCap)
<1>1. ReadCap \in Nat /\ ReadCap >= 1
  BY ShdlcAssumption
<1>2. ReadTurns(T, a, ReadCap)
  BY <1>1, TurnsDefined
<1>3. q = T[ReadCap]
  BY DEF ReadMachine, ReadTurns
<1> HIDE DEF T
<1>4. T[0] = a /\ \A n \in 0..ReadCap - 1 : T[n + 1] = ReadFrame(T[n])
  <2>1. \A i \in 0..ReadCap : T[i] = IF i = 0 THEN a ELSE ReadFrame(T[i - 1])
    BY <1>1, <1>2 DEF ReadTurns
  <2>2. T[0] = a
    BY <1>1, <2>1
  <2>3. ASSUME NEW n \in 0..ReadCap - 1 PROVE T[n + 1] = ReadFrame(T[n])
    <3>1. n + 1 \in 0..ReadCap /\ n + 1 # 0 /\ n + 1 - 1 = n
      BY <1>1
    <3> QED  BY <2>1, <3>1
  <2> QED  BY <2>2, <2>3
<1>5. ReadFrame(b) = b
  BY DEF ReadFrame
<1> DEFINE P == {n \in Nat : n + 1 <= ReadCap => T[n + 1] = b}
<1>6. 0 \in P
  <2>1. 0 \in 0..ReadCap - 1
    BY <1>1
  <2>2. T[0 + 1] = b
    BY <1>4, <2>1
  <2> QED  BY <2>2
<1>7. ASSUME NEW n \in P PROVE n + 1 \in P
  <2>1. CASE n + 1 + 1 <= ReadCap
    <3>1. n + 1 \in 0..ReadCap - 1 /\ T[n + 1] = b
      BY <1>1, <2>1
    <3>2. T[n + 1 + 1] = b
      BY <1>4, <1>5, <3>1
    <3> QED  BY <3>2
  <2>2. CASE ~(n + 1 + 1 <= ReadCap)
    BY <2>2
  <2> QED  BY <2>1, <2>2
<1> HIDE DEF P
<1>8. P = Nat
  <2>1. P \in SUBSET Nat
    BY DEF P
  <2> QED  BY <1>6, <1>7, <2>1, ByInduction
<1>9. ReadCap - 1 \in P /\ ReadCap - 1 + 1 = ReadCap
  BY <1>1, <1>8
<1>10. T[ReadCap - 1 + 1] = b
  BY <1>9 DEF P
<1> QED  BY <1>3, <1>9, <1>10

(* A frame is passed on. *)
LEMMA DataReadyQueue ==
    ASSUME NEW mode \in Modes, NEW s, Settled(s, mode), NEW u, DOMAIN u = HciFields, NEW calm,
           Queue(s, u, calm), NEW p, NEW c, c.fn = "DataReady", Popped(s, p, c, mode),
           NEW q, q = DataReady(p, u)
    PROVE  Queue(q.s, q.u, calm) /\ Older(p.dfc, q.s.dfc)
<1>1. "DataReady" \in Fns(s.dfc) /\ s.status = "UA_SENT"
  BY DEF Popped, Queue, Starts
<1>2. u.connected
  <2>1. "ConnectDone" \notin Fns(s.dfc)
    BY DEF Popped, Queue, Reads, NeverBefore
  <2> QED  BY <1>1, <2>1 DEF Queue, Told
<1>3. s.buf \in Seq(PeerPayloads)
  BY DEF Settled, Sound, Instance, Values
<1>4. PICK a : a = [s |-> p, u |-> u]
  OBVIOUS
<1>5. PICK b : b = ReadFrame(a)
  OBVIOUS
<1>6. Queue(b.s, b.u, calm) /\ Older(p.dfc, b.s.dfc) /\ b.s.buf = <<>>
  BY <1>2, <1>3, <1>4, <1>5, ReadTurnQueue
<1>7. q = ReadMachine(p, u)
  BY <1>2 DEF DataReady
<1>8. q = b
  BY <1>4, <1>5, <1>6, <1>7, ReadMachineQueue
<1> QED  BY <1>6, <1>8

-----------------------------------------------------------------------------
(* The connection.                                                         *)

(* A frame of the handshake has gone out. *)
LEMMA ConnectWrittenQueue ==
    ASSUME NEW mode \in Modes, NEW s, Settled(s, mode), s.status # "RESET_PENDING",
           NEW u, u.connected => s.status = "UA_SENT", NEW calm, Queue(s, u, calm),
           NEW k, k = ConnectWriteFrameCompleted(s)
    PROVE  Queue(k, u, calm) /\ Older(s.dfc, k.dfc) /\ k.status # "RESET_PENDING"
<1>1. CASE s.status = "UA_SENT"
  <2>1. k = s
    BY <1>1 DEF ConnectWriteFrameCompleted
  <2> QED  BY <2>1 DEF Older
<1>2. CASE s.status # "UA_SENT"
  <2>1. /\ Based(s, mode) /\ ~Waits(s) /\ ~u.connected
        /\ s.connCb = TRUE /\ "DataReady" \notin Fns(s.dfc)
    BY <1>2 DEF Settled, Sound, Instance, Values, Based, Phases, Quiet, Waits, Queue, Starts
  <2>2. PICK a : a = [s EXCEPT !.status = IF @ = "SEND_RESET_PENDING" THEN "RESET_SENT"
                                          ELSE "UA_SENT"]
    OBVIOUS
  <2>3. Only(s, a, {"status"}) /\ a.status \in {"RESET_SENT", "UA_SENT"} /\ a.dfc = s.dfc
    BY <2>1, <2>2 DEF Based, Only, Fields
  <2>4. CASE s.connNext # "NONE"
    <3>1. PICK b : b = [a EXCEPT !.connNext = "NONE"]
      OBVIOUS
    <3>2. PICK next : next = s.connNext
      OBVIOUS
    <3>3. k = ConnectSendFrame(b, next)
      BY <1>2, <2>2, <2>4, <3>1, <3>2 DEF ConnectWriteFrameCompleted
    <3>4. Only(s, b, {"status", "connNext"}) /\ b.dfc = s.dfc /\ Based(b, mode)
      BY <2>1, <2>3, <3>1 DEF Based, Only, Fields
    <3>5. /\ Only(b, k, {"status", "connNext", "armed", "dfc", "tx"})
          /\ Like(b.dfc, k.dfc) /\ k.dfc \in Seq(DfcCalls(mode))
          /\ k.status \in {"SEND_RESET_PENDING", "SEND_UA_PENDING"}
      BY <3>3, <3>4, ConnectSendEffect
    <3>6. Only(s, k, Moving \union Links) /\ ~Waits(k)
      BY <2>1, <3>4, <3>5 DEF Only, Moving, Links, Fields, Waits
    <3>7. Queue(k, u, calm)
      BY <1>2, <2>1, <3>4, <3>5, <3>6, ConnectQueue
    <3>8. Older(s.dfc, k.dfc)
      BY <3>4, <3>5 DEF Like, Older, Watched
    <3> QED  BY <3>5, <3>7, <3>8
  <2>5. CASE s.connNext = "NONE" /\ a.status = "UA_SENT"
    <3>1. k = ConnectCompleted(a)
      BY <1>2, <2>2, <2>5 DEF ConnectWriteFrameCompleted
    <3>2. /\ Queue(k, u, calm) /\ k.status = "UA_SENT"
          /\ \A c \in Range(k.dfc) : c.fn = "FrameRead" => c \in Range(s.dfc)
      BY <2>1, <2>3, <3>1, ConnectCompletedQueue
    <3> QED  BY <3>2 DEF Older
  <2>6. CASE s.connNext = "NONE" /\ a.status # "UA_SENT"
    <3>1. k = a
      BY <1>2, <2>2, <2>6 DEF ConnectWriteFrameCompleted
    <3>2. Only(s, k, Moving \union Links) /\ Like(s.dfc, k.dfc) /\ ~Waits(k)
      BY <2>1, <2>3, <3>1 DEF Only, Moving, Links, Fields, Waits, Like
    <3>3. k.status \notin {"UA_SENT", "RESET_PENDING"}
      BY <2>3, <2>6, <3>1
    <3>4. Queue(k, u, calm)
      BY <1>2, <2>1, <3>2, <3>3, ConnectQueue
    <3> QED  BY <2>3, <3>1, <3>3, <3>4 DEF Older
  <2> QED  BY <2>4, <2>5, <2>6
<1> QED  BY <1>1, <1>2

(* The frame layer reads again and RST is sent, again or for the first     *)
(* time.                                                                   *)
LEMMA RestartQueue ==
    ASSUME NEW mode \in Modes, NEW s, s.status # "UA_SENT", NEW u, ~u.connected,
           NEW calm, Queue(s, u, calm), NEW b,
           Only(s, b, {"status", "connCb", "dfc", "tx", "reading"}), b.connCb = TRUE,
           Based(b, mode), Like(s.dfc, b.dfc), "FrameRead" \notin Fns(b.dfc),
           NEW k, k = ConnectSendFrame(b, "RST")
    PROVE  Queue(k, u, calm) /\ Older(s.dfc, k.dfc)
<1>1. PICK frame : frame = "RST"
  OBVIOUS
<1>2. /\ Only(b, k, {"status", "connNext", "armed", "dfc", "tx"})
      /\ Like(b.dfc, k.dfc) /\ k.status \in {"SEND_RESET_PENDING", "SEND_UA_PENDING"}
  BY <1>1, ConnectSendEffect
<1>3. Like(s.dfc, k.dfc)
  BY <1>2 DEF Like
<1>4. /\ k.buf = s.buf /\ k.readFull = s.readFull /\ k.slots = s.slots /\ k.connCb = TRUE
      /\ k.lastAck = s.lastAck /\ k.nextToSend = s.nextToSend
  BY <1>2 DEF Only, Fields
<1>5. \A fn \in Watched : fn \in Fns(k.dfc) => fn \in Fns(b.dfc) /\ fn \in Fns(s.dfc)
  BY <1>2, <1>3, LikeFns
<1>6. Starts(k)
  BY <1>2, <1>4, <1>5 DEF Queue, Starts, Watched
<1>7. "FrameRead" \notin Fns(k.dfc)
  BY <1>5 DEF Watched
<1>8. Queue(k, u, calm)
  BY <1>2, <1>3, <1>4, <1>6, <1>7, QueueKept DEF Waits
<1> QED  BY <1>3, <1>8 DEF Older, Like, Watched

(* T3: the frame layer starts again. *)
LEMMA ConnectTimerQueue ==
    ASSUME NEW mode \in Modes, NEW s, Based(s, mode), s.status \notin {"UA_SENT", "RESET_PENDING"},
           NEW u, ~u.connected, NEW calm, Queue(s, u, calm),
           NEW k, k = ConnectTimerCompleted(s)
    PROVE  Queue(k, u, calm) /\ Older(s.dfc, k.dfc)
<1>1. PICK fns : fns = FrameCalls
  OBVIOUS
<1>2. PICK f : f = Flush(s, fns)
  OBVIOUS
<1>3. /\ Only(s, f, {"dfc"}) /\ f.dfc \in Seq(DfcCalls(mode))
      /\ Range(f.dfc) = {c \in Range(s.dfc) : c.fn \notin fns}
      /\ InOrder(s.dfc) => InOrder(f.dfc)
  BY <1>2, FlushInOrder DEF Based
<1>4. PICK a : a = [f EXCEPT !.tx = NoTx, !.reading = FALSE]
  OBVIOUS
<1>5. PICK b : b = [[a EXCEPT !.reading = TRUE] EXCEPT !.status = "INIT"]
  OBVIOUS
<1>6. k = ConnectSendFrame(b, "RST")
  BY <1>1, <1>2, <1>4, <1>5 DEF ConnectTimerCompleted, FramePreReset, FrameRead
<1>7. Only(f, b, {"status", "tx", "reading"}) /\ b.dfc = f.dfc
  <2>1. DOMAIN f = Fields
    BY <1>3 DEF Only
  <2> QED  BY <1>4, <1>5, <2>1 DEF Only, Fields
<1>8. /\ Only(s, b, {"status", "connCb", "dfc", "tx", "reading"}) /\ b.connCb = s.connCb
      /\ Based(b, mode)
  BY <1>3, <1>7 DEF Only, Based, Fields
<1>9. Like(s.dfc, b.dfc) /\ "FrameRead" \notin Fns(b.dfc)
  <2>1. "FrameRead" \in fns /\ fns \intersect Watched = {"FrameRead"}
    BY <1>1 DEF FrameCalls, Watched
  <2>2. Like(s.dfc, b.dfc)
    BY <1>3, <1>7, <2>1 DEF Like
  <2> QED  BY <1>3, <1>7, <2>1, <2>2 DEF Fns
<1>10. b.connCb = TRUE
  BY <1>8 DEF Queue, Starts
<1> QED  BY <1>6, <1>8, <1>9, <1>10, RestartQueue

(* PSHDLCConnect *)
LEMMA ConnectStartQueue ==
    ASSUME NEW mode \in Modes, NEW s, Based(s, mode), s.status = "RESET_PENDING",
           NEW u, ~u.connected, NEW calm, Queue(s, u, calm), NEW k, k = PSHDLCConnect(s)
    PROVE  Queue(k, u, calm) /\ Older(s.dfc, k.dfc)
<1>1. PICK b : b = [[s EXCEPT !.status = "INIT", !.connCb = TRUE] EXCEPT !.reading = TRUE]
  OBVIOUS
<1>2. k = ConnectSendFrame(b, "RST")
  BY <1>1 DEF PSHDLCConnect, FrameRead
<1>3. /\ Only(s, b, {"status", "connCb", "dfc", "tx", "reading"}) /\ b.connCb = TRUE
      /\ b.dfc = s.dfc /\ Based(b, mode)
  BY <1>1 DEF Based, Only, Fields
<1>4. Like(s.dfc, b.dfc) /\ "FrameRead" \notin Fns(b.dfc)
  BY <1>3 DEF Like, Queue, Starts
<1> QED  BY <1>2, <1>3, <1>4, RestartQueue

(* PHCIFramePreReset, when the only calls queued are those of the frame    *)
(* layer: nothing is left.                                                 *)
LEMMA PreResetQueue ==
    ASSUME NEW mode \in Modes, NEW s, Based(s, mode),
           \A i \in DOMAIN s.dfc : s.dfc[i].fn = "FrameWritten",
           NEW u, DOMAIN u = HciFields, NEW calm, NEW q, q = PHCIFramePreReset(s, u)
    PROVE  Queue(q.s, q.u, calm) /\ Older(s.dfc, q.s.dfc)
<1>1. PICK one, two, three : /\ one = {"StreamData"} /\ two = FrameCalls
                             /\ three = {"T1", "T2", "T3", "T4"}
  OBVIOUS
<1>2. PICK a : a = Flush(s, one)
  OBVIOUS
<1>3. Only(s, a, {"dfc"}) /\ a.dfc \in Seq(DfcCalls(mode)) /\ Fns(a.dfc) = Fns(s.dfc) \ one
  BY <1>2, FlushEffect DEF Based
<1>4. DOMAIN a = Fields
  BY <1>3 DEF Only
<1>5. PICK b : b = FramePreReset(a)
  OBVIOUS
<1>6. /\ Only(a, b, {"dfc", "tx", "reading"}) /\ b.dfc \in Seq(DfcCalls(mode))
      /\ Fns(b.dfc) = Fns(a.dfc) \ two
  BY <1>1, <1>3, <1>4, <1>5, FramePreResetEffect
<1>7. DOMAIN b = Fields
  BY <1>6 DEF Only
<1>8. PICK e : e = Flush(b, three)
  OBVIOUS
<1>9. Fns(e.dfc) = Fns(b.dfc) \ three
  BY <1>6, <1>7, <1>8, FlushEffect
<1>10. Fns(e.dfc) = {}
  <2>1. Fns(s.dfc) \subseteq {"FrameWritten"}
    BY DEF Fns, Range
  <2> QED  BY <1>1, <1>3, <1>6, <1>9, <2>1 DEF FrameCalls
<1>11. PICK k, v : k = q.s /\ v = q.u
  OBVIOUS
<1>12. /\ k = [Created EXCEPT !.status = "RESET_PENDING", !.dfc = e.dfc,
                              !.armed = a.armed \cap {"T6"}]
       /\ v = [u EXCEPT !.connected = FALSE, !.waiting = <<>>, !.sent = <<>>]
  BY <1>1, <1>2, <1>5, <1>8, <1>11 DEF PHCIFramePreReset, PSHDLCPreReset
<1>13. /\ k.status = "RESET_PENDING" /\ k.dfc = e.dfc /\ k.armed \subseteq {"T6"}
       /\ k.reading = FALSE /\ k.buf = <<>> /\ k.readFull = FALSE /\ k.tx = NoTx
       /\ k.lastAck = FirstId - 1 /\ k.nextToSend = FirstId
  BY <1>12 DEF Created
<1>14. DOMAIN k.slots = {0}
  <2>1. 0..P_SHDLC_MAX_WINDOW_SIZE - 1 = {0}
    BY DEF P_SHDLC_MAX_WINDOW_SIZE
  <2>2. k.slots = [i \in 0..P_SHDLC_MAX_WINDOW_SIZE - 1 |-> NoTx]
    BY <1>12 DEF Created
  <2> QED  BY <2>1, <2>2
<1>15. v.connected = FALSE /\ v.waiting = <<>> /\ v.sent = <<>>
  BY <1>12 DEF HciFields
<1>16. Range(k.dfc) = {} /\ Fns(k.dfc) = {} /\ InOrder(k.dfc)
  <2>1. Fns(k.dfc) = {}
    BY <1>10, <1>13
  <2>2. Range(k.dfc) = {}
    BY <2>1 DEF Fns
  <2>3. DOMAIN k.dfc = {}
    BY <2>2 DEF Range
  <2> QED  BY <2>1, <2>2, <2>3 DEF InOrder
<1>17. ~Waits(k)
  BY <1>13 DEF Waits, FirstId
<1>18. Reads(k)
  <2>1. Len(k.buf) = 0
    BY <1>13
  <2> QED  BY <1>13, <1>16, <2>1 DEF Reads
<1>19. Starts(k)
  BY <1>13, <1>16 DEF Starts
<1>20. Told(k, v) /\ Woken(k, v, calm)
  BY <1>13, <1>15, <1>16, <1>17 DEF Told, Woken
<1>21. Contexts(k, v)
  BY <1>14, <1>15, <1>16, <1>17 DEF Contexts, LastWaits
<1>22. Queue(k, v, calm) /\ Older(s.dfc, k.dfc)
  BY <1>16, <1>18, <1>19, <1>20, <1>21 DEF Queue, Older
<1> QED  BY <1>11, <1>22

-----------------------------------------------------------------------------
(* What PNALDFCPump may run.                                               *)

(* Something moves in the transmission, and it goes on. *)
LEMMA MovedQueue ==
    ASSUME NEW mode, NEW p, Based(p, mode), NEW u, NEW calm, Queue(p, u, calm),
           p.status # "RESET_PENDING", NEW a, Only(p, a, Moving), a.dfc = p.dfc,
           NEW force \in BOOLEAN, NEW k, k = WriteTransmit(a, force)
    PROVE  Queue(k, u, calm) /\ Older(p.dfc, k.dfc)
<1>1. Kin(p, a, mode)
  BY KinFields
<1>2. Based(a, mode)
  BY <1>1, KinBased
<1>3. Kin(a, k, mode)
  BY <1>2, KinTransmit
<1>4. Kin(p, k, mode)
  BY <1>1, <1>3, KinTrans
<1> QED  BY <1>4, KinQueue, KinOlder

(* A frame has been read. *)
LEMMA FrameReadQueue ==
    ASSUME NEW mode \in Modes, NEW s, NEW u, u.connected => s.status = "UA_SENT",
           NEW calm, Queue(s, u, calm), NEW p, NEW c, c.fn = "FrameRead", Popped(s, p, c, mode),
           Settled(p, mode), calm => NoRST(c.f), NEW k, k = GenericReadCompleted(p, c.f)
    PROVE  /\ Queue(k, u, calm) /\ k.status # "RESET_PENDING" /\ Based(k, mode)
           /\ "FrameRead" \notin Fns(k.dfc)
<1>1. Queue(p, u, calm) /\ p.status = s.status
  BY PopQueue
<1>2. p.status # "RESET_PENDING"
  <2>1. "FrameRead" \in Fns(s.dfc)
    BY DEF Popped
  <2> QED  BY <1>1, <2>1 DEF Queue, Starts
<1>3. InOrder(s.dfc)
  BY DEF Queue, Reads
<1>4. Fns(p.dfc) \intersect {"FrameRead", "DataReady", "Acknowledged"} = {}
  BY <1>3 DEF Popped, NeverBefore
<1>5. c.f \in Frames(mode)
  <2>1. c \in DfcCalls(mode)
    BY DEF Popped
  <2> QED  BY <2>1 DEF DfcCalls, PlainCalls, Timers
<1>6. PICK f : f = c.f
  OBVIOUS
<1> QED  BY <1>1, <1>2, <1>4, <1>5, <1>6, GenericReadQueue

(* The timer after an RR has expired. *)
LEMMA RRTimerQueue ==
    ASSUME NEW mode \in Modes, NEW s, Settled(s, mode), NEW u, NEW calm, Queue(s, u, calm), NEW p,
           NEW c, c.fn = "T6", Popped(s, p, c, mode), NEW k, k = RRFrameAlreadySentTimer(p)
    PROVE  Queue(k, u, calm) /\ Older(p.dfc, k.dfc)
<1>1. Queue(p, u, calm) /\ p.status = s.status
  BY PopQueue
<1>2. Based(p, mode)
  BY DEF Popped
<1>3. PICK a : a = [p EXCEPT !.rrSent = FALSE]
  OBVIOUS
<1>4. Only(p, a, {"rrSent"}) /\ a.dfc = p.dfc /\ k = WriteTransmit(a, TRUE)
  BY <1>2, <1>3 DEF Based, Only, Fields, RRFrameAlreadySentTimer
<1>5. CASE p.status # "RESET_PENDING"
  <2>1. Only(p, a, Moving)
    BY <1>4 DEF Only, Moving
  <2>2. PICK force \in BOOLEAN : k = WriteTransmit(a, force)
    BY <1>4
  <2> QED  BY <1>1, <1>2, <1>4, <1>5, <2>1, <2>2, MovedQueue
<1>6. CASE p.status = "RESET_PENDING"
  <2>1. Quiet(s)
    BY <1>1, <1>6 DEF Settled, Sound, Phases
  <2>2. /\ a.ctrl = s.ctrl /\ a.nextWindow = s.nextWindow /\ a.nextToSend = s.nextToSend
        /\ a.status = p.status /\ a.armed = p.armed /\ a.tx = p.tx /\ a.reading = p.reading
        /\ a.connCb = p.connCb /\ a.buf = p.buf /\ a.readFull = p.readFull /\ a.slots = p.slots
        /\ a.nextToSend = p.nextToSend /\ a.lastAck = p.lastAck /\ a.writeFull = p.writeFull
    BY <1>4 DEF Only, Fields, Popped
  <2>3. k = a
    BY <1>4, <2>1, <2>2, QuietTransmit DEF Quiet
  <2>4. Starts(a)
    BY <1>1, <1>4, <2>2 DEF Queue, Starts
  <2>5. Like(p.dfc, a.dfc) /\ (a.reading => "FrameRead" \notin Fns(a.dfc))
    BY <1>1, <1>4, <2>2 DEF Like, Queue, Reads
  <2>6. Queue(a, u, calm)
    BY <1>1, <2>2, <2>4, <2>5, QueueKept DEF Waits
  <2> QED  BY <1>4, <2>3, <2>6 DEF Older
<1> QED  BY <1>5, <1>6

(* A step that ends with what s says. *)
LEMMA EndQueue ==
    ASSUME NEW mode \in Modes, NEW c, NEW p, Popped(host, p, c, mode), NEW s, Settled(s, mode),
           NEW calm, Queue(s, hci', calm), Older(p.dfc, s.dfc), Settle(s)
    PROVE  Queue(host', hci', calm) /\ Older(host.dfc, host'.dfc)
<1>1. PICK u : u = hci'
  OBVIOUS
<1>2. Queue(host', u, calm) /\ Older(s.dfc, host'.dfc)
  BY <1>1, SettleQueue
<1> QED  BY <1>1, <1>2 DEF Older, Popped

LEMMA CallsQueue ==
    ASSUME NEW mode \in Modes, Settled(host, mode), DOMAIN hci = HciFields, Old(host),
           hci.connected => host.status = "UA_SENT", NEW calm, Queue(host, hci, calm), Calls,
           calm => \A c \in Range(host.dfc) : c.fn = "FrameRead" => NoRST(c.f)
    PROVE  Queue(host', hci', calm) /\ Older(host.dfc, host'.dfc)
<1>1. PICK p : p = Pumped
  OBVIOUS
<1>2. PICK c : c = Head(host.dfc)
  OBVIOUS
<1>3. \A fn : AtHead(fn) => Ran(host, p, fn, mode) /\ Popped(host, p, c, mode) /\ c.fn = fn
  <2>1. Based(host, mode)
    BY DEF Settled, Sound, Instance, Based
  <2> QED  BY <1>1, <1>2, <2>1, PumpedRan, PumpedPopped
<1>4. ASSUME NEW fn, AtHead(fn), fn \notin {"FrameWritten", "T2", "T4", "T6"}
      PROVE  Settled(p, mode) /\ p.status = host.status
  BY <1>3, <1>4, RanSettled
<1>5. PICK u : u = hci
  OBVIOUS
<1>6. ASSUME NEW fn, AtHead(fn),
             fn \notin {"DataReady", "Acknowledged", "BufferFree", "ConnectDone"}
      PROVE  Queue(p, u, calm) /\ p.status = host.status /\ Based(p, mode)
  <2>1. Popped(host, p, c, mode) /\ c.fn = fn
    BY <1>3, <1>6
  <2> QED  BY <1>5, <1>6, <2>1, PopQueue DEF Popped
<1>7. ASSUME NEW fn, AtHead(fn), fn \in {"FrameRead", "FrameWritten", "T2", "T3", "T4"}
      PROVE  host.status # "RESET_PENDING"
  <2>1. fn \in Fns(host.dfc)
    BY <1>3, <1>7 DEF Popped
  <2> QED  BY <1>7, <2>1 DEF Queue, Starts
<1>8. CASE FrameReadDone
  <2>1. AtHead("FrameRead") /\ hci' = hci
    BY <1>8 DEF FrameReadDone
  <2>2. PICK s : s = GenericReadCompleted(p, c.f)
    OBVIOUS
  <2>3. Popped(host, p, c, mode) /\ c.fn = "FrameRead" /\ Settled(p, mode)
    BY <1>3, <1>4, <2>1
  <2>4. calm => NoRST(c.f)
    <3>1. c \in Range(host.dfc)
      BY <2>3 DEF Popped
    <3> QED  BY <2>3, <3>1
  <2>5. /\ Queue(s, u, calm) /\ s.status # "RESET_PENDING" /\ Based(s, mode)
        /\ "FrameRead" \notin Fns(s.dfc)
    BY <1>5, <2>2, <2>3, <2>4, FrameReadQueue
  <2>6. TxOK(s)
    <3>1. c.f \in Frames(mode)
      BY <2>3 DEF Popped, DfcCalls, PlainCalls, Timers
    <3>2. PICK f : f = c.f
      OBVIOUS
    <3>3. Settled(s, mode)
      BY <2>2, <2>3, <3>1, <3>2, GenericReadSettled
    <3> QED  BY <3>3 DEF Settled, Sound, Instance
  <2>7. host' = NotTaken(s) \/ (s.tx # NoTx /\ host' = TakenOnRead(s))
    BY <1>1, <1>2, <1>8, <2>2 DEF FrameReadDone
  <2>8. Kin(s, host', mode)
    <3>1. s.tx # NoTx => /\ s.tx.cb \in {"FrameWritten", "ConnectWritten"}
                         /\ DOMAIN s.tx = {"t", "f", "cb", "bad", "new"}
      BY <2>6 DEF TxOK
    <3>2. CASE host' = NotTaken(s)
      BY <2>5, <3>1, <3>2, KinNotTaken
    <3>3. CASE s.tx # NoTx /\ host' = TakenOnRead(s)
      BY <2>5, <3>1, <3>3, KinTakenOnRead
    <3> QED  BY <2>7, <3>2, <3>3
  <2>9. Older(host.dfc, host'.dfc)
    <3>1. Older(s.dfc, host'.dfc)
      BY <2>8, KinOlder
    <3> QED  BY <2>5, <3>1 DEF Older, Fns
  <2> QED  BY <1>5, <2>1, <2>5, <2>8, <2>9, KinQueue
<1>9. CASE ConnectWritten
  <2>1. PICK s : s = ConnectWriteFrameCompleted(p)
    OBVIOUS
  <2>2. AtHead("ConnectWritten") /\ hci' = hci /\ Settle(s)
    BY <1>1, <1>9, <2>1 DEF ConnectWritten, Runs
  <2>3. Settled(p, mode) /\ Queue(p, u, calm) /\ p.status = host.status
    BY <1>4, <1>6, <2>2
  <2>4. p.status # "RESET_PENDING"
    <3>1. "ConnectWritten" \in Fns(host.dfc)
      BY <1>3, <2>2 DEF Popped
    <3> QED  BY <2>3, <3>1 DEF Queue, Starts
  <2>5. Queue(s, u, calm) /\ Older(p.dfc, s.dfc)
    BY <1>5, <2>1, <2>3, <2>4, ConnectWrittenQueue
  <2>6. Settled(s, mode)
    BY <2>1, <2>3, ConnectWrittenSettled
  <2> QED  BY <1>3, <1>5, <2>2, <2>5, <2>6, EndQueue
<1>10. CASE FrameWritten
  <2>1. PICK s : s = WriteFrameCompleted(p)
    OBVIOUS
  <2>2. AtHead("FrameWritten") /\ hci' = hci /\ Settle(s)
    BY <1>1, <1>10, <2>1 DEF FrameWritten, Runs
  <2>3. Queue(p, u, calm) /\ p.status # "RESET_PENDING" /\ Based(p, mode)
    BY <1>6, <1>7, <2>2
  <2>4. PICK a : a = [p EXCEPT !.pending = FALSE]
    OBVIOUS
  <2>5. Only(p, a, Moving) /\ a.dfc = p.dfc
    BY <2>3, <2>4 DEF Based, Only, Moving, Fields
  <2>6. PICK force \in BOOLEAN : s = WriteTransmit(a, force)
    BY <2>1, <2>4 DEF WriteFrameCompleted
  <2>7. Queue(s, u, calm) /\ Older(p.dfc, s.dfc)
    BY <2>3, <2>5, <2>6, MovedQueue
  <2>8. Settled(s, mode)
    <3>1. /\ Only(host, p, {"dfc", "tx"}) /\ p.dfc \in Seq(DfcCalls(mode)) /\ p.tx = host.tx
          /\ Fns(p.dfc) \subseteq Fns(host.dfc)
          /\ Fns(host.dfc) \subseteq Fns(p.dfc) \union {"FrameWritten"}
      BY <1>3, <2>2 DEF Ran, Only, Fields
    <3> QED  BY <2>1, <3>1, FrameWrittenSettled
  <2> QED  BY <1>3, <1>5, <2>2, <2>7, <2>8, EndQueue
<1>11. CASE ResendTimer
  <2>1. PICK s : s = WriteTimerCompleted(p)
    OBVIOUS
  <2>2. AtHead("T2") /\ hci' = hci /\ Settle(s)
    BY <1>1, <1>11, <2>1 DEF ResendTimer, Runs
  <2>3. Queue(p, u, calm) /\ p.status # "RESET_PENDING" /\ Based(p, mode)
    BY <1>6, <1>7, <2>2
  <2>4. \/ s = p
        \/ \E a : \E force \in BOOLEAN :
              Only(p, a, Moving) /\ a.dfc = p.dfc /\ s = WriteTransmit(a, force)
    <3>1. PICK a : a = [p EXCEPT !.nextWindow = @ - 1]
      OBVIOUS
    <3>2. Only(p, a, Moving) /\ a.dfc = p.dfc
      BY <2>3, <3>1 DEF Based, Only, Moving, Fields
    <3> QED  BY <2>1, <3>1, <3>2 DEF WriteTimerCompleted
  <2>5. Queue(s, u, calm) /\ Older(p.dfc, s.dfc)
    BY <2>3, <2>4, MovedQueue DEF Older
  <2>6. Settled(s, mode)
    BY <1>3, <2>1, <2>2, ResendTimerSettled
  <2> QED  BY <1>3, <1>5, <2>2, <2>5, <2>6, EndQueue
<1>12. CASE ResetTimer
  <2>1. PICK s : s = ConnectTimerCompleted(p)
    OBVIOUS
  <2>2. AtHead("T3") /\ hci' = hci /\ Settle(s)
    BY <1>1, <1>12, <2>1 DEF ResetTimer, Runs
  <2>3. Queue(p, u, calm) /\ p.status # "RESET_PENDING" /\ Based(p, mode) /\ p.status = host.status
    BY <1>6, <1>7, <2>2
  <2>4. host.status # "UA_SENT"
    BY <1>3, <2>2 DEF Settled, Sound, Phases, Coming, Ran
  <2>5. Queue(s, u, calm) /\ Older(p.dfc, s.dfc)
    BY <1>5, <2>1, <2>3, <2>4, ConnectTimerQueue
  <2>6. Settled(s, mode)
    <3>1. Settled(p, mode)
      BY <1>4, <2>2
    <3>2. Idle(p, mode) /\ "ConnectDone" \notin Fns(p.dfc)
      BY <2>3, <2>4, <3>1, IdleBefore DEF Settled
    <3> QED  BY <2>1, <3>2, ConnectTimerSettled
  <2> QED  BY <1>3, <1>5, <2>2, <2>5, <2>6, EndQueue
<1>13. CASE PiggyBackTimer
  <2>1. PICK s : s = WriteTransmit(p, TRUE)
    OBVIOUS
  <2>2. AtHead("T4") /\ hci' = hci /\ Settle(s)
    BY <1>1, <1>13, <2>1 DEF PiggyBackTimer, Runs
  <2>3. Queue(p, u, calm) /\ p.status # "RESET_PENDING" /\ Based(p, mode)
    BY <1>6, <1>7, <2>2
  <2>4. PICK force \in BOOLEAN :
             Only(p, p, Moving) /\ p.dfc = p.dfc /\ s = WriteTransmit(p, force)
    BY <2>1, <2>3 DEF Based, Only
  <2>5. Queue(s, u, calm) /\ Older(p.dfc, s.dfc)
    BY <2>3, <2>4, MovedQueue
  <2>6. Settled(s, mode)
    <3>1. Sound(p, mode)
      BY <1>3, <2>2, TimerRanSound
    <3> QED  BY <2>4, <3>1, TransmitSettled
  <2> QED  BY <1>3, <1>5, <2>2, <2>5, <2>6, EndQueue
<1>14. CASE RRTimer
  <2>1. PICK s : s = RRFrameAlreadySentTimer(p)
    OBVIOUS
  <2>2. AtHead("T6") /\ hci' = hci /\ Settle(s)
    BY <1>1, <1>14, <2>1 DEF RRTimer, Runs
  <2>3. Queue(s, u, calm) /\ Older(p.dfc, s.dfc)
    BY <1>3, <1>5, <2>1, <2>2, RRTimerQueue
  <2>4. Settled(s, mode)
    BY <1>3, <2>1, <2>2, RRTimerSettled
  <2> QED  BY <1>3, <1>5, <2>2, <2>3, <2>4, EndQueue
<1>15. CASE ResetIndication \/ StreamData
  <2>1. PICK fn \in {"ResetIndication", "StreamData"} : AtHead(fn) /\ hci' = hci /\ Settle(p)
    BY <1>1, <1>15 DEF ResetIndication, StreamData, Runs
  <2>2. Settled(p, mode) /\ Queue(p, u, calm) /\ Older(p.dfc, p.dfc)
    BY <1>4, <1>6, <2>1 DEF Older
  <2> QED  BY <1>3, <1>5, <2>1, <2>2, EndQueue
<1>16. CASE ConnectDone
  <2>1. AtHead("ConnectDone") /\ hci' = [hci EXCEPT !.connected = TRUE] /\ Settle(p)
    BY <1>1, <1>16 DEF ConnectDone, RunsHci
  <2>2. Settled(p, mode) /\ Older(p.dfc, p.dfc)
    BY <1>4, <2>1 DEF Older
  <2>3. PICK v : v = [u EXCEPT !.connected = TRUE]
    OBVIOUS
  <2>4. Queue(p, v, calm)
    BY <1>3, <1>5, <2>1, <2>3, ConnectDoneQueue
  <2>5. hci' = v
    BY <1>5, <2>1, <2>3
  <2> QED  BY <1>3, <2>1, <2>2, <2>4, <2>5, EndQueue
<1>17. CASE Acknowledged \/ BufferFree
  <2>1. PICK fn \in {"Acknowledged", "BufferFree"}, whole \in BOOLEAN :
             /\ fn = IF whole THEN "Acknowledged" ELSE "BufferFree"
             /\ AtHead(fn) /\ RunsHci(fn, WriteAcknowledged(p, u, whole))
    BY <1>1, <1>5, <1>17 DEF Acknowledged, BufferFree, RunsHci
  <2>2. PICK q : q = WriteAcknowledged(p, u, whole)
    OBVIOUS
  <2>3. Settle(q.s) /\ hci' = q.u
    BY <2>1, <2>2 DEF RunsHci
  <2>4. Popped(host, p, c, mode) /\ c.fn = IF whole THEN "Acknowledged" ELSE "BufferFree"
    BY <1>3, <2>1
  <2>5. Settled(p, mode)
    BY <1>4, <2>1
  <2>6. Queue(q.s, q.u, calm) /\ Settled(q.s, mode) /\ Older(p.dfc, q.s.dfc)
    BY <1>5, <2>2, <2>4, <2>5, WriteAcknowledgedQueue
  <2> QED  BY <2>3, <2>4, <2>6, EndQueue
<1>18. CASE DataIsReady
  <2>1. PICK q : q = DataReady(p, u)
    OBVIOUS
  <2>2. AtHead("DataReady") /\ Settle(q.s) /\ hci' = q.u
    BY <1>1, <1>5, <1>18, <2>1 DEF DataIsReady, RunsHci
  <2>3. Settled(p, mode) /\ p.status = host.status
    BY <1>4, <2>2
  <2>4. Popped(host, p, c, mode) /\ c.fn = "DataReady"
    BY <1>3, <2>2
  <2>5. Queue(q.s, q.u, calm) /\ Older(p.dfc, q.s.dfc)
    BY <1>5, <2>1, <2>4, DataReadyQueue
  <2>6. Settled(q.s, mode)
    <3>1. CASE u.connected
      <4>1. q = ReadMachine(p, u)
        BY <2>1, <3>1 DEF DataReady
      <4>2. Both(q, u.connected, mode)
        BY <1>5, <2>3, <3>1, <4>1, ReadMachineBoth
      <4> QED  BY <4>2 DEF Both
    <3>2. CASE ~u.connected
      <4>1. q = [s |-> p, u |-> u]
        BY <2>1, <3>2 DEF DataReady
      <4> QED  BY <2>3, <4>1
    <3> QED  BY <3>1, <3>2
  <2> QED  BY <2>2, <2>4, <2>5, <2>6, EndQueue
<1> QED
  BY <1>8, <1>9, <1>10, <1>11, <1>12, <1>13, <1>14, <1>15, <1>16, <1>17, <1>18 DEF Calls

-----------------------------------------------------------------------------
(* The other steps of the host.                                            *)

(* The rest of a frame goes out. *)
LEMMA PollWriteQueue ==
    ASSUME NEW mode \in Modes, Settled(host, mode), Old(host),
           hci.connected => host.status = "UA_SENT", NEW calm, Queue(host, hci, calm), PollWrite
    PROVE  Queue(host', hci', calm) /\ Older(host.dfc, host'.dfc)
<1>1. PICK p : p = Taken(host)
  OBVIOUS
<1>2. PICK s : s = IF host.tx.cb = "FrameWritten" THEN WriteFrameCompleted(p)
                   ELSE ConnectWriteFrameCompleted(p)
  OBVIOUS
<1>3. hci' = hci /\ host.tx # NoTx
      /\ (host' = NotTaken(s) \/ (s.tx # NoTx /\ host' = Taken(s)))
  BY <1>1, <1>2 DEF PollWrite
<1>4. /\ Sound(host, mode) /\ DOMAIN host = Fields /\ host.dfc \in Seq(DfcCalls(mode))
      /\ Based(host, mode)
  BY DEF Settled, Sound, Instance, Based
<1>5. Kin(host, p, mode) /\ Only(host, p, {"tx"}) /\ p.tx = NoTx
  BY <1>1, <1>4, KinTaken
<1>6. Only(host, p, {"tx", "dfc"}) /\ p.dfc = host.dfc
  BY <1>5 DEF Only, Fields
<1>7. PICK u : u = hci
  OBVIOUS
<1>8. host.status # "RESET_PENDING"
  BY <1>3 DEF Queue, Starts
<1>9. Queue(p, u, calm) /\ p.status = host.status /\ Based(p, mode)
  BY <1>5, <1>7, <1>8, KinQueue, KinBased
<1>10. Settled(s, mode) /\ s.status # "RESET_PENDING" /\ Queue(s, u, calm) /\ Older(p.dfc, s.dfc)
  <2>1. CASE host.tx.cb = "FrameWritten"
    <3>1. s = WriteFrameCompleted(p)
      BY <1>2, <2>1
    <3>2. /\ p.dfc \in Seq(DfcCalls(mode)) /\ Fns(p.dfc) \subseteq Fns(host.dfc)
          /\ Fns(host.dfc) \subseteq Fns(p.dfc) \union {"FrameWritten"}
          /\ Only(host, p, {"dfc", "tx"})
      BY <1>4, <1>6 DEF Only
    <3>3. Settled(s, mode) /\ s.status = host.status
      BY <1>5, <3>1, <3>2, FrameWrittenSettled
    <3>4. PICK a : a = [p EXCEPT !.pending = FALSE]
      OBVIOUS
    <3>5. Only(p, a, Moving) /\ a.dfc = p.dfc
      BY <1>9, <3>4 DEF Based, Only, Moving, Fields
    <3>6. PICK force \in BOOLEAN : s = WriteTransmit(a, force)
      BY <3>1, <3>4 DEF WriteFrameCompleted
    <3>7. Queue(s, u, calm) /\ Older(p.dfc, s.dfc)
      BY <1>8, <1>9, <3>5, <3>6, MovedQueue
    <3> QED  BY <1>8, <3>3, <3>7
  <2>2. CASE host.tx.cb # "FrameWritten"
    <3>1. s = ConnectWriteFrameCompleted(p)
      BY <1>2, <2>2
    <3>2. /\ p.dfc \in Seq(DfcCalls(mode)) /\ Fns(host.dfc) \subseteq Fns(p.dfc)
          /\ Fns(p.dfc) \subseteq Fns(host.dfc) \union {"FrameWritten", "ConnectWritten"}
      BY <1>4, <1>6
    <3>3. Settled(p, mode)
      BY <1>4, <1>5, <1>6, <2>2, <3>2, TakenSound
    <3>4. Settled(s, mode)
      BY <3>1, <3>3, ConnectWrittenSettled
    <3>5. Queue(s, u, calm) /\ Older(p.dfc, s.dfc) /\ s.status # "RESET_PENDING"
      BY <1>7, <1>8, <1>9, <3>1, <3>3, ConnectWrittenQueue
    <3> QED  BY <3>4, <3>5
  <2> QED  BY <2>1, <2>2
<1>11. Kin(s, host', mode)
  <2>1. Based(s, mode) /\ TxOK(s)
    BY <1>10 DEF Settled, Sound, Instance, Based
  <2>2. s.tx # NoTx => /\ s.tx.cb \in {"FrameWritten", "ConnectWritten"}
                       /\ DOMAIN s.tx = {"t", "f", "cb", "bad", "new"}
    BY <2>1 DEF TxOK
  <2> QED  BY <1>3, <2>1, <2>2, KinNotTaken, KinTaken
<1>12. Queue(host', u, calm) /\ Older(s.dfc, host'.dfc)
  BY <1>10, <1>11, KinQueue, KinOlder
<1> QED  BY <1>3, <1>6, <1>7, <1>10, <1>12 DEF Older

(* A frame of the controller is read. *)
LEMMA PollReadQueue ==
    ASSUME NEW mode \in Modes, Based(host, mode), toHost \in Seq(Frames(mode)), NEW calm,
           Queue(host, hci, calm), PollRead
    PROVE  /\ Queue(host', hci', calm) /\ toHost # <<>> /\ toHost' = Tail(toHost)
           /\ \A c \in Range(host'.dfc) :
                 c.fn = "FrameRead" => c \in Range(host.dfc) \/ c.f = Head(toHost)
<1>1. PICK c : c = [fn |-> "FrameRead", f |-> Head(toHost)]
  OBVIOUS
<1>2. /\ toHost # <<>> /\ toHost' = Tail(toHost) /\ hci' = hci /\ host.reading
      /\ host' = [host EXCEPT !.dfc = Append(@, c), !.reading = FALSE]
  BY <1>1 DEF PollRead
<1>3. PICK k, u : k = host' /\ u = hci
  OBVIOUS
<1>4. /\ Only(host, k, {"dfc", "reading"}) /\ k.dfc = Append(host.dfc, c) /\ k.reading = FALSE
  BY <1>2, <1>3 DEF Based, Only, Fields
<1>5. c \in DfcCalls(mode) /\ c.fn = "FrameRead" /\ c.f = Head(toHost)
  <2>1. Head(toHost) \in Frames(mode)
    BY <1>2, HeadTailProperties
  <2> QED  BY <1>1, <2>1 DEF DfcCalls
<1>6. Range(k.dfc) = Range(host.dfc) \union {c} /\ InOrder(k.dfc)
  <2>1. PICK S : S = DfcCalls(mode)
    OBVIOUS
  <2>2. PICK q \in Seq(S) : q = host.dfc
    BY <2>1 DEF Based
  <2>3. InOrder(q) /\ "FrameRead" \notin Fns(q)
    BY <1>2, <2>2 DEF Queue, Reads
  <2>4. \A fn \in Fns(q) : <<fn, c.fn>> \notin NeverBefore
    BY <1>5, <2>3 DEF NeverBefore
  <2>5. c \in S
    BY <1>5, <2>1
  <2>6. Range(Append(q, c)) = Range(q) \union {c} /\ InOrder(Append(q, c))
    BY <2>3, <2>4, <2>5, AppendInOrder
  <2> QED  BY <1>4, <2>2, <2>6
<1>7. Fns(k.dfc) = Fns(host.dfc) \union {"FrameRead"}
  BY <1>5, <1>6 DEF Fns
<1>8. /\ k.buf = host.buf /\ k.readFull = host.readFull /\ k.slots = host.slots
      /\ k.status = host.status /\ k.connCb = host.connCb /\ k.writeFull = host.writeFull
      /\ k.lastAck = host.lastAck /\ k.nextToSend = host.nextToSend
  BY <1>4 DEF Only, Fields
<1>9. Reads(k)
  BY <1>3, <1>4, <1>6, <1>7, <1>8 DEF Queue, Reads
<1>10. Starts(k)
  BY <1>2, <1>7, <1>8 DEF Queue, Starts
<1>11. Told(k, u)
  <2>1. \A e \in Range(k.dfc) : e.fn = "StreamData" => e \in Range(host.dfc)
    BY <1>5, <1>6
  <2> QED  BY <1>3, <1>7, <1>8, <2>1 DEF Queue, Told, Waits
<1>12. Woken(k, u, calm) /\ Contexts(k, u)
  BY <1>3, <1>7, <1>8 DEF Queue, Woken, Contexts, LastWaits, Waits
<1>13. Queue(k, u, calm)
  BY <1>9, <1>10, <1>11, <1>12 DEF Queue
<1> QED  BY <1>2, <1>3, <1>5, <1>6, <1>13

(* A timer expires. *)
LEMMA ExpiresQueue ==
    ASSUME NEW mode \in Modes, Settled(host, mode), NEW calm, Queue(host, hci, calm),
           NEW t \in Timers, TimerExpires(t)
    PROVE  Queue(host', hci', calm) /\ Older(host.dfc, host'.dfc)
<1>1. PICK a : a = [host EXCEPT !.armed = @ \ {t}]
  OBVIOUS
<1>2. t \in host.armed /\ host' = Post(a, t) /\ hci' = hci
  BY <1>1 DEF TimerExpires
<1>3. PICK k, u : k = host' /\ u = hci
  OBVIOUS
<1>4. Based(host, mode)
  BY DEF Settled, Sound, Instance, Based
<1>5. Only(host, a, {"armed"}) /\ a.armed = host.armed \ {t} /\ a.dfc = host.dfc
  BY <1>1, <1>4 DEF Based, Only, Fields
<1>6. Only(host, a, Moving)
  BY <1>5 DEF Only, Moving
<1>7. Kin(host, a, mode)
  BY <1>4, <1>5, <1>6, KinFields
<1>8. Based(a, mode)
  BY <1>7, KinBased
<1>9. t \in Neutral
  BY DEF Neutral, Watched, PlainCalls, Timers
<1>10. Kin(a, k, mode) /\ Only(a, k, {"dfc"})
  BY <1>2, <1>3, <1>8, <1>9, KinPost
<1>11. Kin(host, k, mode)
  BY <1>7, <1>10, KinTrans
<1>12. Older(host.dfc, k.dfc)
  BY <1>11, KinOlder
<1>13. CASE host.status # "RESET_PENDING"
  BY <1>2, <1>3, <1>11, <1>12, <1>13, KinQueue
<1>14. CASE host.status = "RESET_PENDING"
  <2>1. t = "T6"
    BY <1>2, <1>14 DEF Queue, Starts
  <2>2. t \in PlainCalls /\ a.dfc \in Seq(DfcCalls(mode)) /\ DOMAIN a = Fields
    BY <1>8, <1>9 DEF Neutral, Based
  <2>3. Fns(k.dfc) = Fns(host.dfc) \union {"T6"}
    <3>1. Fns(k.dfc) = Fns(a.dfc) \union {t}
      BY <1>2, <1>3, <2>2, PostEffect
    <3> QED  BY <1>5, <2>1, <3>1
  <2>4. /\ k.status = host.status /\ k.armed \subseteq host.armed /\ k.tx = host.tx
        /\ k.reading = host.reading /\ k.connCb = host.connCb /\ k.buf = host.buf
        /\ k.readFull = host.readFull /\ k.slots = host.slots /\ k.writeFull = host.writeFull
        /\ k.nextToSend = host.nextToSend /\ k.lastAck = host.lastAck
    BY <1>5, <1>10 DEF Only, Fields
  <2>5. Starts(k)
    BY <1>14, <2>3, <2>4 DEF Queue, Starts
  <2>6. Like(host.dfc, k.dfc) /\ (k.reading => "FrameRead" \notin Fns(k.dfc))
    BY <1>11, <2>3, <2>4 DEF Kin, Queue, Reads
  <2>7. Queue(host, u, calm)
    BY <1>3
  <2>8. Queue(k, u, calm)
    BY <2>4, <2>5, <2>6, <2>7, QueueKept DEF Waits
  <2> QED  BY <1>2, <1>3, <1>12, <2>8
<1> QED  BY <1>13, <1>14

(* The user writes, connects, or resets the HAL. *)
LEMMA UserWritesQueue ==
    ASSUME NEW mode \in Modes, Settled(host, mode), DOMAIN hci = HciFields,
           hci.connected => host.status = "UA_SENT", asked \in Nat, NEW calm,
           Queue(host, hci, calm), UserWrites
    PROVE  Queue(host', hci', calm) /\ Older(host.dfc, host'.dfc) /\ asked' \in Nat
<1>1. PICK m \in Nat : m = asked + 1
  OBVIOUS
<1>2. PICK q : q = PHCIFrameWrite(host, hci, m)
  OBVIOUS
<1>3. hci.connected /\ Settle(q.s) /\ hci' = q.u /\ asked' = m
  BY <1>1, <1>2 DEF UserWrites
<1>4. Queue(q.s, q.u, calm) /\ Settled(q.s, mode) /\ Older(host.dfc, q.s.dfc)
  BY <1>2, <1>3, WriteMessageQueue
<1>5. PICK s, u : s = q.s /\ u = q.u
  OBVIOUS
<1>6. Queue(host', u, calm) /\ Older(s.dfc, host'.dfc)
  BY <1>3, <1>4, <1>5, SettleQueue
<1> QED  BY <1>3, <1>4, <1>5, <1>6 DEF Older

LEMMA ConnectsQueue ==
    ASSUME NEW mode \in Modes, Settled(host, mode), hci.connected => host.status = "UA_SENT",
           NEW calm, Queue(host, hci, calm), Connect
    PROVE  Queue(host', hci', calm) /\ Older(host.dfc, host'.dfc)
<1>1. PICK s, u : s = PSHDLCConnect(host) /\ u = hci
  OBVIOUS
<1>2. host.status = "RESET_PENDING" /\ Settle(s) /\ hci' = hci
  BY <1>1 DEF Connect
<1>3. Sound(host, mode) /\ Based(host, mode) /\ ~u.connected
  BY <1>1, <1>2 DEF Settled, Sound, Instance, Based
<1>4. Idle(host, mode) /\ "ConnectDone" \notin Fns(host.dfc)
  BY <1>2, <1>3, IdleBefore
<1>5. Settled(s, mode)
  BY <1>1, <1>4, ConnectSettled
<1>6. Queue(s, u, calm) /\ Older(host.dfc, s.dfc)
  BY <1>1, <1>2, <1>3, ConnectStartQueue
<1>7. Queue(host', u, calm) /\ Older(s.dfc, host'.dfc)
  BY <1>2, <1>5, <1>6, SettleQueue
<1> QED  BY <1>1, <1>2, <1>6, <1>7 DEF Older

LEMMA UserResetsQueue ==
    ASSUME NEW mode \in Modes, Based(host, mode), DOMAIN hci = HciFields, NEW calm, UserResets
    PROVE  Queue(host', hci', calm) /\ Older(host.dfc, host'.dfc)
<1>1. PICK q : q = PHCIFramePreReset(host, hci)
  OBVIOUS
<1>2. PICK s, u : s = host /\ u = hci
  OBVIOUS
<1>3. /\ \A i \in DOMAIN s.dfc : s.dfc[i].fn = "FrameWritten"
      /\ q = PHCIFramePreReset(s, u) /\ Based(s, mode) /\ DOMAIN u = HciFields
      /\ host' = q.s /\ hci' = q.u
  BY <1>1, <1>2 DEF UserResets
<1>4. Queue(q.s, q.u, calm) /\ Older(s.dfc, q.s.dfc)
  BY <1>3, PreResetQueue
<1> QED  BY <1>2, <1>3, <1>4

-----------------------------------------------------------------------------
(* The controller, and every step.                                         *)

(* No RST is among what is new on the line. *)
Clean == /\ ctrl.state # "rst" => ctrl'.state # "rst"
         /\ \A f \in Range(toHost') : f \in Range(toHost) \/ NoRST(f)

LEMMA SaysClean ==
    ASSUME NEW mode \in Modes, toHost \in Seq(Frames(mode)), NEW f \in Frames(mode), Says(f)
    PROVE  \A g \in Range(toHost') : g \in Range(toHost) \/ g = f
<1>1. PICK S : S = Frames(mode)
  OBVIOUS
<1>2. PICK q \in Seq(S) : q = toHost
  BY <1>1
<1>3. toHost' = Append(q, f) /\ f \in S
  BY <1>1, <1>2 DEF Says
<1>4. /\ Len(q) \in Nat /\ DOMAIN q = 1..Len(q) /\ DOMAIN Append(q, f) = 1..Len(q) + 1
      /\ \A i \in 1..Len(q) : Append(q, f)[i] = q[i]
      /\ Append(q, f)[Len(q) + 1] = f
  BY <1>2, <1>3, AppendProperties, LenProperties
<1>5. ASSUME NEW i \in DOMAIN Append(q, f)
      PROVE  Append(q, f)[i] \in Range(q) \/ Append(q, f)[i] = f
  <2>1. CASE i \in 1..Len(q)
    BY <1>4, <2>1 DEF Range
  <2>2. CASE i \notin 1..Len(q)
    BY <1>4, <2>2
  <2> QED  BY <2>1, <2>2
<1> QED  BY <1>2, <1>3, <1>5 DEF Range

LEMMA AnswersClean ==
    ASSUME NEW mode \in Modes, NEW c, Peer(c, mode), c.state = "up", NEW t \in {"RR", "REJ", "RNR"},
           t = "RNR" => c.busy, toHost \in Seq(Frames(mode)), Answers(c, t)
    PROVE  Clean
<1>1. CASE Says(Ctrl(t, c.vr)) /\ ctrl' = c
  <2>1. PICK f : f = Ctrl(t, c.vr)
    OBVIOUS
  <2>2. f \in Frames(mode)
    BY <2>1, CtrlFrame DEF Peer
  <2>3. NoRST(f)
    BY <2>1 DEF Ctrl, NoRST
  <2>4. \A g \in Range(toHost') : g \in Range(toHost) \/ g = f
    BY <1>1, <2>1, <2>2, SaysClean
  <2> QED  BY <1>1, <2>3, <2>4 DEF Clean
<1>2. CASE CanSend(c) /\ Says(NewFrame(c)) /\ ctrl' = SentFrame(c)
  <2>1. PICK f : f = NewFrame(c)
    OBVIOUS
  <2>2. f \in Frames(mode)
    BY <1>2, <2>1, SendsPeer
  <2>3. NoRST(f)
    BY <2>1 DEF NewFrame, IFrame, NoRST
  <2>4. \A g \in Range(toHost') : g \in Range(toHost) \/ g = f
    BY <1>2, <2>1, <2>2, SaysClean
  <2>5. ctrl'.state = c.state
    BY <1>2 DEF SentFrame, Peer
  <2> QED  BY <2>3, <2>4, <2>5 DEF Clean
<1> QED  BY <1>1, <1>2 DEF Answers

LEMMA TakesClean ==
    ASSUME NEW mode \in Modes, Peer(ctrl, mode), toHost \in Seq(Frames(mode)), NEW f, CtrlTakes(f)
    PROVE  Clean
<1>1. CASE f.t = "RST" /\ Says(UA) /\ ctrl' = Reset("up")
  <2>1. PICK g : g = UA
    OBVIOUS
  <2>2. g \in Frames(mode) /\ NoRST(g)
    BY <2>1 DEF UA, Frames, PeerFrames, NoRST
  <2>3. \A e \in Range(toHost') : e \in Range(toHost) \/ e = g
    BY <1>1, <2>1, <2>2, SaysClean
  <2>4. ctrl'.state = "up"
    BY <1>1 DEF Reset, Boot
  <2> QED  BY <2>2, <2>3, <2>4 DEF Clean
<1>2. CASE f.t = "UA" /\ Silent /\ ctrl' = IF ctrl.state = "rst" THEN Reset("up") ELSE ctrl
  BY <1>2 DEF Silent, Clean
<1>3. CASE f.t = "I" /\ ctrl.state = "up" /\ CtrlTakesIFrame(Acks(ctrl, f.nr), f)
  <2>1. PICK nr : nr = f.nr
    OBVIOUS
  <2>2. PICK c : c = Acks(ctrl, nr)
    OBVIOUS
  <2>3. Peer(c, mode) /\ c.state = "up"
    <3>1. Peer(c, mode)
      BY <2>2, AcksPeer
    <3>2. c.state = ctrl.state
      BY <2>2 DEF Acks, Peer
    <3> QED  BY <1>3, <3>1, <3>2
  <2>4. CtrlTakesIFrame(c, f)
    BY <1>3, <2>1, <2>2
  <2>5. CASE f.ns # c.vr /\ Answers(c, "REJ")
    BY <2>3, <2>5, AnswersClean
  <2>6. CASE f.ns = c.vr /\ c.busy /\ Answers(c, "RNR")
    BY <2>3, <2>6, AnswersClean
  <2>7. CASE f.ns = c.vr /\ ~c.busy
             /\ Answers([c EXCEPT !.vr = (@ + 1) % 8, !.got = Append(@, f.pay)], "RR")
    <3>1. PICK d : d = [c EXCEPT !.vr = (@ + 1) % 8, !.got = Append(@, f.pay)]
      OBVIOUS
    <3>2. (c.vr + 1) % 8 \in 0..7
      BY <2>3 DEF Peer
    <3>3. Peer(d, mode) /\ d.state = "up"
      BY <2>3, <3>1, <3>2 DEF Peer
    <3> QED  BY <2>7, <3>1, <3>3, AnswersClean
  <2> QED  BY <2>4, <2>5, <2>6, <2>7 DEF CtrlTakesIFrame
<1>4. CASE /\ f.t \in {"RR", "REJ", "RNR"} /\ ctrl.state = "up" /\ Silent
           /\ ctrl' = [Acks(ctrl, f.nr) EXCEPT !.hold = f.t = "RNR"]
  <2>1. PICK nr : nr = f.nr
    OBVIOUS
  <2>2. PICK c : c = Acks(ctrl, nr)
    OBVIOUS
  <2>3. Peer(c, mode)
    BY <2>2, AcksPeer
  <2>4. c.state = ctrl.state
    BY <2>2 DEF Acks, Peer
  <2>5. ctrl'.state = c.state
    BY <1>4, <2>1, <2>2, <2>3 DEF Peer
  <2> QED  BY <1>4, <2>4, <2>5 DEF Silent, Clean
<1>5. CASE f.t \notin {"RST", "UA"} /\ (f.t = "BAD" \/ ctrl.state # "up") /\ Silent
           /\ UNCHANGED ctrl
  BY <1>5 DEF Silent, Clean
<1> QED  BY <1>1, <1>2, <1>3, <1>4, <1>5 DEF CtrlTakes

(* The controller sends no RST unless it has restarted. *)
LEMMA ControllerClean ==
    ASSUME NEW mode \in Modes, Peer(ctrl, mode), toHost \in Seq(Frames(mode)), ctrl.state # "rst",
           CtrlReceives \/ CtrlSends \/ CtrlResends \/ CtrlBusy \/ CtrlFree \/ CtrlRepeatsRST
    PROVE  Clean
<1>1. CASE CtrlReceives
  <2>1. PICK f : f = Head(toCtrl) /\ CtrlTakes(f)
    BY <1>1 DEF CtrlReceives
  <2> QED  BY <2>1, TakesClean
<1>2. CASE CtrlSends
  <2>1. PICK f : f = NewFrame(ctrl)
    OBVIOUS
  <2>2. CanSend(ctrl) /\ Says(f) /\ ctrl' = SentFrame(ctrl)
    BY <1>2, <2>1 DEF CtrlSends
  <2>3. f \in Frames(mode)
    BY <2>1, <2>2, SendsPeer
  <2>4. NoRST(f)
    BY <2>1 DEF NewFrame, IFrame, NoRST
  <2>5. \A g \in Range(toHost') : g \in Range(toHost) \/ g = f
    BY <2>2, <2>3, SaysClean
  <2>6. ctrl'.state = ctrl.state
    BY <2>2 DEF SentFrame, Peer
  <2> QED  BY <2>4, <2>5, <2>6 DEF Clean
<1>3. CASE CtrlResends
  <2>1. PICK n : n = ctrl.next - 1
    OBVIOUS
  <2>2. PICK pay : pay = [n |-> n, kind |-> PeerKinds[n]]
    OBVIOUS
  <2>3. PICK f : f = IFrame(ctrl.vs, ctrl.vr, pay)
    OBVIOUS
  <2>4. Says(f) /\ UNCHANGED ctrl /\ ctrl.out
    BY <1>3, <2>1, <2>2, <2>3 DEF CtrlResends
  <2>5. n \in 1..Len(PeerKinds)
    BY <2>1, <2>4, LinkAssumption DEF Peer
  <2>6. pay \in PeerPayloads
    BY <2>2, <2>5, KindOfPayload
  <2>7. f \in Frames(mode)
    BY <2>3, <2>6, IFrameOfPeer
  <2>8. NoRST(f)
    BY <2>3 DEF IFrame, NoRST
  <2>9. \A g \in Range(toHost') : g \in Range(toHost) \/ g = f
    BY <2>4, <2>7, SaysClean
  <2> QED  BY <2>4, <2>8, <2>9 DEF Clean
<1>4. CASE CtrlBusy
  <2>1. ctrl'.state = ctrl.state /\ toHost' = toHost
    BY <1>4 DEF CtrlBusy, Peer
  <2> QED  BY <2>1 DEF Clean
<1>5. CASE CtrlFree
  <2>1. PICK t \in {"RR", "REJ", "RNR"} : t = "RR"
    OBVIOUS
  <2>2. PICK f : f = Ctrl(t, ctrl.vr)
    OBVIOUS
  <2>3. f \in Frames(mode)
    BY <2>1, <2>2, CtrlFrame
  <2>4. NoRST(f) /\ Says(f)
    BY <1>5, <2>1, <2>2 DEF CtrlFree, Ctrl, NoRST
  <2>5. \A g \in Range(toHost') : g \in Range(toHost) \/ g = f
    BY <2>3, <2>4, SaysClean
  <2>6. ctrl'.state = ctrl.state
    BY <1>5 DEF CtrlFree, Peer
  <2> QED  BY <2>4, <2>5, <2>6 DEF Clean
<1>6. ~CtrlRepeatsRST
  BY DEF CtrlRepeatsRST
<1> QED  BY <1>1, <1>2, <1>3, <1>4, <1>5, <1>6

(* What is read stays as it was, or is clean. *)
Reading ==
    \A c \in Range(host'.dfc) : c.fn = "FrameRead" => c \in Range(host.dfc) \/ NoRST(c.f)

LEMMA UnbrokenKept ==
    ASSUME Unbroken, faults["restart"] = 0, Clean, Reading
    PROVE  Unbroken'
BY DEF Unbroken, Clean, Reading

LEMMA RestartsKept ==
    ASSUME faults \in [FaultKinds -> Nat],
           UNCHANGED faults \/ \E k \in FaultKinds \ {"restart"} : Strikes(k)
    PROVE  faults'["restart"] = faults["restart"]
BY DEF Strikes, FaultKinds

(* The HAL, created and reset, satisfies the invariant, *)
LEMMA QueueInit == Init => QueueInv
<1> SUFFICES ASSUME Init PROVE QueueInv
  OBVIOUS
<1>1. PICK k, u : k = host /\ u = hci
  OBVIOUS
<1>2. k = [Created EXCEPT !.status = "RESET_PENDING"] /\ u = HciCreated
  BY <1>1 DEF Init
<1>3. /\ k.status = "RESET_PENDING" /\ k.dfc = <<>> /\ k.armed = {}
      /\ k.reading = FALSE /\ k.buf = <<>> /\ k.readFull = FALSE /\ k.tx = NoTx
      /\ k.lastAck = FirstId - 1 /\ k.nextToSend = FirstId
  BY <1>2 DEF Created
<1>4. DOMAIN k.slots = {0}
  <2>1. 0..P_SHDLC_MAX_WINDOW_SIZE - 1 = {0}
    BY DEF P_SHDLC_MAX_WINDOW_SIZE
  <2>2. k.slots = [i \in 0..P_SHDLC_MAX_WINDOW_SIZE - 1 |-> NoTx]
    BY <1>2 DEF Created
  <2> QED  BY <2>1, <2>2
<1>5. u.connected = FALSE /\ u.waiting = <<>> /\ u.sent = <<>>
  BY <1>2 DEF HciCreated
<1>6. Range(k.dfc) = {} /\ Fns(k.dfc) = {} /\ InOrder(k.dfc)
  BY <1>3 DEF Fns, Range, InOrder
<1>7. ~Waits(k)
  BY <1>3 DEF Waits, FirstId
<1>8. Reads(k)
  <2>1. Len(k.buf) = 0
    BY <1>3
  <2> QED  BY <1>3, <1>6, <2>1 DEF Reads
<1>9. Starts(k)
  BY <1>3, <1>6 DEF Starts
<1>10. Told(k, u) /\ Woken(k, u, Calm)
  BY <1>3, <1>5, <1>6, <1>7 DEF Told, Woken
<1>11. Contexts(k, u)
  BY <1>4, <1>5, <1>6, <1>7 DEF Contexts, LastWaits
<1>12. Unbroken
  <2>1. ctrl.state # "rst"
    BY DEF Init, Boot
  <2>2. Range(toHost) = {}
    BY DEF Init, Range
  <2> QED  BY <1>1, <1>6, <2>1, <2>2 DEF Unbroken
<1> QED  BY <1>1, <1>8, <1>9, <1>10, <1>11, <1>12 DEF QueueInv, Queue, Init

(* and every step of the host and of the controller keeps it. *)
LEMMA QueueStep == LinkInv /\ QueueInv /\ [Next]_vars => QueueInv'
<1> SUFFICES ASSUME LinkInv, QueueInv, [Next]_vars PROVE QueueInv'
  OBVIOUS
<1>1. PICK mode \in Modes : mode = Mode
  BY ModeInModes
<1>2. /\ Settled(host, mode) /\ Old(host) /\ Based(host, mode) /\ DOMAIN hci = HciFields
      /\ hci.connected => host.status = "UA_SENT"
  BY <1>1 DEF LinkInv, HostInv, Settled, Sound, Instance, Based
<1>3. /\ Peer(ctrl, mode) /\ toHost \in Seq(Frames(mode)) /\ faults \in [FaultKinds -> Nat]
  BY <1>1 DEF LinkInv, PeerInv
<1>4. PICK calm : calm = Calm
  OBVIOUS
<1>5. Queue(host, hci, calm) /\ Unbroken /\ asked \in Nat
  BY <1>4 DEF QueueInv
<1>6. calm => \A c \in Range(host.dfc) : c.fn = "FrameRead" => NoRST(c.f)
  BY <1>4, <1>5 DEF Calm, Unbroken
<1>7. UNCHANGED <<toHost, ctrl>> => Clean
  BY DEF Clean
<1>8. Older(host.dfc, host'.dfc) => Reading
  BY DEF Older, Reading
<1>9. ASSUME faults'["restart"] = faults["restart"], Queue(host', hci', calm), asked' \in Nat,
             Clean \/ faults["restart"] # 0, faults["restart"] = 0 => Reading
      PROVE  QueueInv'
  <2>1. Calm' = Calm
    BY <1>9 DEF Calm
  <2>2. Unbroken'
    <3>1. CASE faults["restart"] = 0
      BY <1>5, <1>9, <3>1, UnbrokenKept
    <3>2. CASE faults["restart"] # 0
      BY <1>9, <3>2 DEF Unbroken
    <3> QED  BY <3>1, <3>2
  <2> QED  BY <1>4, <1>9, <2>1, <2>2 DEF QueueInv
<1>10. UNCHANGED faults => faults'["restart"] = faults["restart"]
  OBVIOUS
<1>11. CASE Calls
  <2>1. UNCHANGED <<toHost, ctrl, faults, asked>>
    BY <1>11 DEF Calls, Runs, RunsHci, FrameReadDone, ConnectWritten, FrameWritten, ResendTimer,
                 ResetTimer, PiggyBackTimer, RRTimer, ResetIndication, StreamData, ConnectDone,
                 Acknowledged, BufferFree, DataIsReady
  <2>2. Queue(host', hci', calm) /\ Older(host.dfc, host'.dfc)
    BY <1>2, <1>5, <1>6, <1>11, CallsQueue
  <2> QED  BY <1>5, <1>7, <1>8, <1>9, <2>1, <2>2
<1>12. CASE PollWrite
  <2>1. UNCHANGED <<toHost, ctrl, faults, asked>>
    BY <1>12 DEF PollWrite
  <2>2. Queue(host', hci', calm) /\ Older(host.dfc, host'.dfc)
    BY <1>2, <1>5, <1>12, PollWriteQueue
  <2> QED  BY <1>5, <1>7, <1>8, <1>9, <2>1, <2>2
<1>13. CASE PollRead
  <2>1. UNCHANGED <<ctrl, faults, asked>>
    BY <1>13 DEF PollRead
  <2>2. /\ Queue(host', hci', calm) /\ toHost # <<>> /\ toHost' = Tail(toHost)
        /\ \A c \in Range(host'.dfc) :
              c.fn = "FrameRead" => c \in Range(host.dfc) \/ c.f = Head(toHost)
    BY <1>2, <1>3, <1>5, <1>13, PollReadQueue
  <2>3. Range(toHost) = Range(toHost') \union {Head(toHost)}
    <3>1. PICK S : S = Frames(mode)
      OBVIOUS
    <3>2. PICK q \in Seq(S) : q = toHost
      BY <1>3, <3>1
    <3>3. Range(q) = Range(Tail(q)) \union {Head(q)}
      BY <2>2, <3>2, TailInOrder
    <3> QED  BY <2>2, <3>2, <3>3
  <2>4. Clean
    BY <2>1, <2>3 DEF Clean
  <2>5. faults["restart"] = 0 => Reading
    BY <1>5, <2>2, <2>3 DEF Unbroken, Reading
  <2> QED  BY <1>5, <1>9, <2>1, <2>2, <2>4, <2>5
<1>14. CASE Connect
  <2>1. UNCHANGED <<toHost, ctrl, faults, asked>>
    BY <1>14 DEF Connect
  <2>2. Queue(host', hci', calm) /\ Older(host.dfc, host'.dfc)
    BY <1>2, <1>5, <1>14, ConnectsQueue
  <2> QED  BY <1>5, <1>7, <1>8, <1>9, <2>1, <2>2
<1>15. CASE \E t \in Timers : TimerExpires(t)
  <2>1. PICK t \in Timers : TimerExpires(t)
    BY <1>15
  <2>2. UNCHANGED <<toHost, ctrl, faults, asked>>
    BY <2>1 DEF TimerExpires
  <2>3. Queue(host', hci', calm) /\ Older(host.dfc, host'.dfc)
    BY <1>2, <1>5, <2>1, ExpiresQueue
  <2> QED  BY <1>5, <1>7, <1>8, <1>9, <2>2, <2>3
<1>16. CASE UserWrites
  <2>1. UNCHANGED <<toHost, ctrl, faults>>
    BY <1>16 DEF UserWrites
  <2>2. Queue(host', hci', calm) /\ Older(host.dfc, host'.dfc) /\ asked' \in Nat
    BY <1>2, <1>5, <1>16, UserWritesQueue
  <2> QED  BY <1>7, <1>8, <1>9, <2>1, <2>2
<1>17. CASE UserResets
  <2>1. Strikes("reset") /\ toHost' = <<>> /\ ctrl' = Reset("boot") /\ asked' = asked
    BY <1>17 DEF UserResets
  <2>2. faults'["restart"] = faults["restart"]
    BY <1>3, <2>1, RestartsKept DEF FaultKinds
  <2>3. Queue(host', hci', calm) /\ Older(host.dfc, host'.dfc)
    BY <1>2, <1>17, UserResetsQueue
  <2>4. Clean
    <3>1. ctrl'.state = "boot"
      BY <2>1 DEF Reset, Boot
    <3>2. Range(toHost') = {}
      BY <2>1 DEF Range
    <3> QED  BY <3>1, <3>2 DEF Clean
  <2> QED  BY <1>5, <1>8, <1>9, <2>1, <2>2, <2>3, <2>4
<1>18. UNCHANGED <<host, hci, asked>> => /\ Queue(host', hci', calm) /\ Reading
                                         /\ asked' \in Nat
  BY <1>5 DEF Reading
<1>19. CASE CtrlReceives \/ CtrlSends \/ CtrlResends \/ CtrlBusy \/ CtrlFree \/ CtrlRepeatsRST
  <2>1. UNCHANGED faults \/ Strikes("busy")
    BY <1>19 DEF CtrlReceives, CtrlSends, CtrlResends, CtrlFree, CtrlBusy, CtrlRepeatsRST
  <2>2. faults'["restart"] = faults["restart"]
    BY <1>3, <2>1, RestartsKept DEF FaultKinds
  <2>3. UNCHANGED <<host, hci, asked>>
    BY <1>19 DEF CtrlReceives, CtrlSends, CtrlResends, CtrlFree, CtrlBusy, CtrlRepeatsRST
  <2>4. Clean \/ faults["restart"] # 0
    <3>1. CASE faults["restart"] = 0
      <4>1. ctrl.state # "rst"
        BY <1>5, <3>1 DEF Unbroken
      <4> QED  BY <1>3, <1>19, <4>1, ControllerClean
    <3> QED  BY <3>1
  <2> QED  BY <1>9, <1>18, <2>2, <2>3, <2>4
<1>20. CASE CtrlRestarts
  <2>1. Strikes("restart") /\ UNCHANGED <<host, hci, asked>>
    BY <1>20 DEF CtrlRestarts
  <2>2. faults'["restart"] = faults["restart"] + 1
    BY <1>3, <2>1 DEF Strikes, FaultKinds
  <2>3. faults'["restart"] # 0
    BY <1>3, <2>2 DEF FaultKinds
  <2>4. Calm' = FALSE /\ Unbroken'
    BY <2>3 DEF Calm, Unbroken
  <2>5. Queue(host', hci', Calm')
    BY <1>5, <2>1, <2>4 DEF Queue, Woken
  <2> QED  BY <1>5, <2>1, <2>4, <2>5 DEF QueueInv
<1>21. CASE Loses
  <2>1. Strikes("loss") /\ UNCHANGED <<host, hci, asked, ctrl>>
        /\ (toHost' = toHost \/ (toHost # <<>> /\ toHost' = Tail(toHost)))
    BY <1>21 DEF Loses
  <2>2. faults'["restart"] = faults["restart"]
    BY <1>3, <2>1, RestartsKept DEF FaultKinds
  <2>3. Range(toHost') \subseteq Range(toHost)
    <3>1. PICK S : S = Frames(mode)
      OBVIOUS
    <3>2. PICK q \in Seq(S) : q = toHost
      BY <1>3, <3>1
    <3>3. q # <<>> => Range(q) = Range(Tail(q)) \union {Head(q)}
      BY <3>2, TailInOrder
    <3> QED  BY <2>1, <3>2, <3>3
  <2>4. Clean
    BY <2>1, <2>3 DEF Clean
  <2> QED  BY <1>9, <1>18, <2>1, <2>2, <2>4
<1>22. CASE UNCHANGED vars
  <2>1. UNCHANGED <<host, hci, asked, toHost, ctrl, faults>>
    BY <1>22 DEF vars
  <2> QED  BY <1>7, <1>9, <1>18, <2>1
<1> QED  BY <1>11, <1>12, <1>13, <1>14, <1>15, <1>16, <1>17, <1>19, <1>20, <1>21, <1>22
         DEF Next, Host, Controller

(* The inductive invariant: which calls of the queue follow which, what    *)
(* each of them will find in tSHDLCInstance and in tHCIFrameInstance when  *)
(* it runs, and that a controller that has not restarted sends no RST.     *)
THEOREM QueueInvHolds == Spec => []QueueInv
<1>1. Init => LinkInv /\ QueueInv
  BY LinkInit, QueueInit
<1>2. LinkInv /\ QueueInv /\ [Next]_vars => (LinkInv /\ QueueInv)'
  BY LinkStep, QueueStep
<1> QED  BY <1>1, <1>2, PTL DEF Spec

(* StreamDataIntact of LinkProperties: static_PHCIFrameReadMachine copies  *)
(* a frame to aRxPacket only when the deferred call that points into it    *)
(* for the last one has run, and the read buffer never holds two frames.   *)
THEOREM StreamDataIntactHolds == Spec => []StreamDataIntact
<1>1. QueueInv => StreamDataIntact
  <2> SUFFICES ASSUME QueueInv PROVE StreamDataIntact
    OBVIOUS
  <2>1. Reads(host) /\ Told(host, hci)
    BY DEF QueueInv, Queue
  <2>2. \A i \in DOMAIN host.dfc : host.dfc[i] \in Range(host.dfc)
    BY DEF Range
  <2> QED  BY <2>1, <2>2 DEF StreamDataIntact, Reads, Told
<1> QED  BY <1>1, QueueInvHolds, PTL

(* NoLostWakeUp of LinkProperties: a message that PHCIFrameWrite holds     *)
(* back has a frame in the window or a call of the write handler queued,   *)
(* unless the controller has restarted; a frame in aReadBuffer has a call  *)
(* of the read handler queued.                                             *)
THEOREM NoLostWakeUpHolds == Spec => []NoLostWakeUp
<1>1. QueueInv => NoLostWakeUp
  <2> SUFFICES ASSUME QueueInv PROVE NoLostWakeUp
    OBVIOUS
  <2>1. Reads(host) /\ Woken(host, hci, Calm)
    BY DEF QueueInv, Queue
  <2>2. \A fn : fn \in Fns(host.dfc) => Queued(fn)
    BY DEF Fns, Range, Queued
  <2>3. host.buf # <<>> => Queued("DataReady")
    BY <2>1, <2>2 DEF Reads
  <2>4. hci.connected /\ hci.waiting # <<>> /\ faults["restart"] = 0
           => Unacked \/ Queued("Acknowledged") \/ Queued("BufferFree")
    BY <2>1, <2>2 DEF Woken, Calm, Waits, Unacked
  <2> QED  BY <2>3, <2>4 DEF NoLostWakeUp
<1> QED  BY <1>1, QueueInvHolds, PTL

(* AckHasContext of LinkProperties: the assertion of                       *)
(* static_PHCIFrameWriteMachine that a write context waits when a message  *)
(* is acknowledged, also when the controller has restarted.                *)
THEOREM AckHasContextHolds == Spec => []AckHasContext
<1>1. LinkInv /\ QueueInv => AckHasContext
  <2> SUFFICES ASSUME LinkInv, QueueInv, AtHead("Acknowledged") PROVE hci.sent # <<>>
    BY DEF AckHasContext
  <2>1. Contexts(host, hci)
    BY DEF QueueInv, Queue
  <2>2. "Acknowledged" \in Fns(host.dfc)
    <3>1. PICK S : S = DfcCalls(Mode)
      OBVIOUS
    <3>2. PICK q \in Seq(S) : q = host.dfc
      BY <3>1 DEF LinkInv, HostInv, Settled, Sound, Instance
    <3>3. q # <<>> /\ Head(q).fn = "Acknowledged"
      BY <3>2 DEF AtHead
    <3>4. Head(q).fn \in Fns(q)
      BY <3>2, <3>3, TailCalls
    <3> QED  BY <3>2, <3>3, <3>4
  <2>3. Len(hci.sent) >= 1
    BY <2>1, <2>2 DEF Contexts
  <2>4. Len(<<>>) = 0
    OBVIOUS
  <2> QED  BY <2>3, <2>4
<1> QED  BY <1>1, LinkInvHolds, QueueInvHolds, PTL
=============================================================================
