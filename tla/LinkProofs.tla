----------------------------- MODULE LinkProofs -----------------------------
(***************************************************************************)
(* The link layer, for every list of messages, every read buffer and every *)
(* number of faults: the order of its identifiers, and that a frame which  *)
(* waits has something that brings the transmission back to it.            *)
(***************************************************************************)
EXTENDS LinkProperties, SequenceTheorems, FiniteSetTheorems, NaturalsInduction,
        WellFoundedInduction, TLAPS

(* What the controller sends. *)
PeerPayloads == [n : Nat, kind : {"chained", "event", "other"}]
PeerFrames ==
    [t : {"RST"}, win : {1, DEFAULT_WINDOW_SIZE}] \union [t : {"UA"}]
    \union [t : {"RR", "RNR", "REJ"}, nr : 0..7]
    \union [t : {"I"}, ns : 0..7, nr : 0..7, pay : PeerPayloads]

(* As long as it has never been busy, it has not sent RNR. *)
Frames(mode) == {f \in PeerFrames : mode = "calm" => f.t # "RNR"}

(* The deferred calls. *)
PlainCalls ==
    Timers \union {"ConnectWritten", "FrameWritten", "ResetIndication", "ConnectDone",
                   "Acknowledged", "BufferFree", "DataReady"}
DfcCalls(mode) ==
    [fn : PlainCalls] \union [fn : {"FrameRead"}, f : Frames(mode)]
    \union [fn : {"StreamData"}, pay : PeerPayloads]

Fns(q) == {c.fn : c \in Range(q)}
Coming(s, t) == t \in s.armed \/ t \in Fns(s.dfc)

(* The fields of tSHDLCInstance, *)
Fields ==
    {"status", "connNext", "connCb", "window", "readNext", "readLastAck", "lastAck",
     "nextToSend", "nextWindow", "ready", "ctrl", "pending", "writeFull", "readFull", "rrSent",
     "piggy", "slots", "buf", "armed", "dfc", "tx", "reading", "log", "rlog"}

Statuses == {"INIT", "SEND_RESET_PENDING", "RESET_SENT", "SEND_UA_PENDING", "UA_SENT",
             "RESET_PENDING"}

(* their values, *)
Values(s) ==
    /\ s.status \in Statuses
    /\ s.connNext \in {"NONE", "RST", "UA"} /\ s.ctrl \in {"NONE", "RR", "RNR", "REJ", "UA"}
    /\ s.window = P_SHDLC_MAX_WINDOW_SIZE
    /\ s.lastAck \in Nat /\ s.nextWindow \in Nat /\ s.nextToSend \in Nat
    /\ s.readLastAck \in Nat /\ s.readNext \in Nat
    /\ s.lastAck < s.nextWindow /\ s.nextWindow <= s.nextToSend
    /\ s.nextToSend <= s.lastAck + 1 + s.window
    /\ s.readLastAck < s.readNext
    /\ s.ready \in BOOLEAN /\ s.pending \in BOOLEAN /\ s.rrSent \in BOOLEAN
    /\ s.buf \in Seq(PeerPayloads)

(* and the frame being written, its completion posted when it is new. *)
TxOK(s) ==
    s.tx # NoTx => /\ DOMAIN s.tx = {"t", "f", "cb", "bad", "new"} /\ s.tx.t = "TX"
                   /\ s.tx.cb \in {"FrameWritten", "ConnectWritten"} /\ s.tx.new \in BOOLEAN
                   /\ s.tx.new => s.tx.cb \in Fns(s.dfc)

Instance(s, mode) ==
    /\ DOMAIN s = Fields /\ Values(s) /\ TxOK(s)
    /\ s.armed \subseteq Timers \ {"T1"} /\ s.dfc \in Seq(DfcCalls(mode))
    /\ mode = "calm" => s.ready

(* Nothing is sent before the connection is up, and its timer is over then. *)
Quiet(s) ==
    /\ s.ctrl = "NONE" /\ ~s.pending
    /\ s.nextWindow = s.nextToSend /\ s.nextToSend = s.lastAck + 1

Phases(s) ==
    /\ s.status # "UA_SENT" => Quiet(s) /\ "ConnectDone" \notin Fns(s.dfc)
    /\ s.status = "UA_SENT" => ~Coming(s, "T3")

(* What is on its way is waited for. *)
Awaited(s) ==
    /\ s.pending => "FrameWritten" \in Fns(s.dfc) \/ (s.tx # NoTx /\ s.tx.cb = "FrameWritten")
    /\ s.rrSent => Coming(s, "T6")
    /\ s.nextWindow = s.nextToSend /\ s.nextToSend > s.lastAck + 1 => Coming(s, "T2")

Sound(s, mode) == Instance(s, mode) /\ Phases(s) /\ Awaited(s)

(* What waits to be sent will be tried again: a control frame, and, unless *)
(* the controller has been busy, an I frame.                               *)
CtrlTried(s) == s.ctrl # "NONE" => Coming(s, "T4") \/ s.pending \/ s.rrSent
IFrameTried(s) == s.nextWindow # s.nextToSend => s.pending \/ s.rrSent \/ s.ctrl # "NONE"

Settled(s, mode) == Sound(s, mode) /\ CtrlTried(s) /\ (mode = "calm" => IFrameTried(s))

Mode == IF faults["busy"] = 0 THEN "calm" ELSE "busy"

(* The host between two steps, *)
Old(s) == s.tx # NoTx => ~s.tx.new

HciFields == {"connected", "waiting", "sent", "rx", "done"}

HostInv ==
    /\ Settled(host, Mode) /\ Old(host)
    /\ DOMAIN hci = HciFields /\ (hci.connected => host.status = "UA_SENT")

(* and the controller, which refuses frames only when it is busy. *)
Peer(c, mode) ==
    /\ DOMAIN c = {"state", "vr", "vs", "out", "hold", "busy", "next", "got", "log"}
    /\ c.vr \in 0..7 /\ c.vs \in 0..7 /\ (mode = "calm" => ~c.busy)
    /\ c.next \in 1..Len(PeerKinds) + 1 /\ (c.out => c.next > 1)

PeerInv ==
    /\ Peer(ctrl, Mode) /\ toHost \in Seq(Frames(Mode)) /\ faults \in [FaultKinds -> Nat]

LinkInv == HostInv /\ PeerInv

-----------------------------------------------------------------------------
(* Induction, for what can be said by membership of a set. *)
LEMMA ByInduction ==
    ASSUME NEW S \in SUBSET Nat, 0 \in S, \A n \in S : n + 1 \in S
    PROVE  S = Nat
<1> SUFFICES ASSUME Nat \ S # {} PROVE FALSE
  OBVIOUS
<1>1. PICK x \in Nat \ S : \A y \in Nat \ S : <<y, x>> \notin OpToRel(<, Nat)
  BY NatLessThanWellFounded, WFMin
<1>2. \A y \in Nat : y < x => <<y, x>> \in OpToRel(<, Nat)
  BY DEF OpToRel
<1>3. \A y \in Nat \ S : ~(y < x)
  BY <1>1, <1>2
<1>4. x # 0 /\ x - 1 \in Nat /\ x - 1 \in S
  BY <1>3
<1>5. (x - 1) + 1 \in S
  BY <1>4
<1> QED  BY <1>4, <1>5

(* f tells what a flush has kept of the first calls of q. *)
Keeps(f, q, fns, n) ==
    f = [i \in 0..n |-> IF i = 0 THEN <<>> ELSE Kept(f[i - 1], q[i], fns)]

(* The recursive definition in Flush has a solution. *)
LEMMA KeepsDefined ==
    ASSUME NEW q, NEW fns, NEW n \in Nat
    PROVE  \E f : Keeps(f, q, fns, n)
<1> DEFINE P == {k \in Nat : \E f : Keeps(f, q, fns, k)}
<1>1. 0 \in P
  <2> DEFINE f == [i \in 0..0 |-> <<>>]
  <2>1. f = [i \in 0..0 |-> IF i = 0 THEN <<>> ELSE Kept(f[i - 1], q[i], fns)]
    OBVIOUS
  <2> HIDE DEF f
  <2> QED  BY <2>1 DEF Keeps
<1>2. ASSUME NEW k \in P PROVE k + 1 \in P
  <2>1. PICK f : f = [i \in 0..k |-> IF i = 0 THEN <<>> ELSE Kept(f[i - 1], q[i], fns)]
    BY DEF Keeps
  <2> DEFINE g == [i \in 0..k + 1 |->
                     IF i = k + 1 THEN Kept(f[k], q[k + 1], fns) ELSE f[i]]
  <2>2. ASSUME NEW i \in 0..k + 1
        PROVE  g[i] = IF i = 0 THEN <<>> ELSE Kept(g[i - 1], q[i], fns)
    <3>1. CASE i = k + 1
      BY <3>1
    <3>2. CASE i \in 0..k
      BY <2>1, <3>2
    <3> QED  BY <3>1, <3>2
  <2>3. g = [i \in 0..k + 1 |-> g[i]]
    OBVIOUS
  <2> HIDE DEF g
  <2>4. Keeps(g, q, fns, k + 1)
    BY <2>2, <2>3 DEF Keeps
  <2> QED  BY <2>4
<1> HIDE DEF P
<1>3. P = Nat
  <2>1. P \in SUBSET Nat
    BY DEF P
  <2> QED  BY <1>1, <1>2, <2>1, ByInduction
<1> QED  BY <1>3 DEF P

-----------------------------------------------------------------------------
(* Posting puts one call more into the queue, *)
LEMMA AppendCalls ==
    ASSUME NEW S, NEW q \in Seq(S), NEW c \in S
    PROVE  Append(q, c) \in Seq(S) /\ Fns(Append(q, c)) = Fns(q) \union {c.fn}
<1> DEFINE r == Append(q, c)
<1>1. /\ r \in Seq(S) /\ Len(q) \in Nat /\ DOMAIN q = 1..Len(q) /\ DOMAIN r = 1..Len(q) + 1
      /\ \A i \in 1..Len(q) : r[i] = q[i]
      /\ r[Len(q) + 1] = c
  BY AppendProperties, LenProperties
<1> HIDE DEF r
<1>2. Range(r) = Range(q) \union {c}
  BY <1>1 DEF Range
<1>3. Fns(r) = Fns(q) \union {c.fn}
  BY <1>2 DEF Fns
<1> QED  BY <1>1, <1>3 DEF r

(* and running one takes it out. *)
LEMMA TailCalls ==
    ASSUME NEW S, NEW q \in Seq(S), q # <<>>
    PROVE  /\ Tail(q) \in Seq(S) /\ Head(q) \in S
           /\ Fns(Tail(q)) \subseteq Fns(q) /\ Fns(q) \subseteq Fns(Tail(q)) \union {Head(q).fn}
           /\ Head(q).fn \in Fns(q)
<1> DEFINE r == Tail(q)
<1>1. /\ r \in Seq(S) /\ Head(q) \in S /\ Len(q) \in Nat /\ Len(q) > 0 /\ DOMAIN q = 1..Len(q)
      /\ DOMAIN r = 1..Len(q) - 1 /\ Head(q) = q[1]
      /\ \A i \in 1..Len(q) - 1 : r[i] = q[i + 1]
  BY HeadTailProperties, LenProperties, EmptySeq
<1> HIDE DEF r
<1>2. Range(r) \subseteq Range(q)
  BY <1>1 DEF Range
<1>3. Range(q) \subseteq Range(r) \union {Head(q)}
  <2>1. ASSUME NEW i \in DOMAIN q PROVE q[i] \in Range(r) \union {Head(q)}
    <3>1. CASE i = 1
      BY <1>1, <3>1
    <3>2. CASE i # 1
      <4>1. i - 1 \in DOMAIN r /\ r[i - 1] = q[i]
        BY <1>1, <3>2
      <4> QED  BY <4>1 DEF Range
    <3> QED  BY <3>1, <3>2
  <2> QED  BY <2>1 DEF Range
<1>4. Head(q) \in Range(q)
  BY <1>1 DEF Range
<1>5. /\ Fns(r) \subseteq Fns(q) /\ Fns(q) \subseteq Fns(r) \union {Head(q).fn}
      /\ Head(q).fn \in Fns(q)
  BY <1>2, <1>3, <1>4 DEF Fns
<1> QED  BY <1>1, <1>5 DEF r

(* Several calls of one function are posted. *)
LEMMA ConcatCalls ==
    ASSUME NEW S, NEW q \in Seq(S), NEW n \in Nat, NEW c \in S, NEW d, d = [i \in 1..n |-> c]
    PROVE  /\ q \o d \in Seq(S)
           /\ Fns(q) \subseteq Fns(q \o d) /\ Fns(q \o d) \subseteq Fns(q) \union {c.fn}
<1> DEFINE r == q \o d
<1>1. d \in Seq(S) /\ Len(d) = n
  OBVIOUS
<1>2. /\ r \in Seq(S) /\ Len(q) \in Nat /\ DOMAIN q = 1..Len(q) /\ DOMAIN r = 1..Len(q) + n
      /\ \A i \in 1..Len(q) + n : r[i] = IF i <= Len(q) THEN q[i] ELSE d[i - Len(q)]
  <2>1. q \o d \in Seq(S) /\ Len(q \o d) = Len(q) + n
    BY <1>1, ConcatProperties
  <2>2. \A i \in 1..Len(q) + n : r[i] = IF i <= Len(q) THEN q[i] ELSE d[i - Len(q)]
    BY <1>1, ConcatProperties
  <2>3. Len(q) \in Nat /\ DOMAIN q = 1..Len(q) /\ DOMAIN (q \o d) = 1..Len(q) + n
    BY <2>1, LenProperties
  <2> QED  BY <2>1, <2>2, <2>3
<1>3. \A i \in 1..n : d[i] = c
  OBVIOUS
<1> HIDE DEF r
<1>4. Range(q) \subseteq Range(r)
  BY <1>2 DEF Range
<1>5. Range(r) \subseteq Range(q) \union {c}
  <2>1. ASSUME NEW i \in DOMAIN r PROVE r[i] \in Range(q) \union {c}
    <3>1. CASE i <= Len(q)
      BY <1>2, <3>1 DEF Range
    <3>2. CASE ~(i <= Len(q))
      <4>1. i - Len(q) \in 1..n
        BY <1>2, <3>2
      <4> QED  BY <1>2, <1>3, <3>2, <4>1
    <3> QED  BY <3>1, <3>2
  <2> QED  BY <2>1 DEF Range
<1>6. Fns(q) \subseteq Fns(r) /\ Fns(r) \subseteq Fns(q) \union {c.fn}
  BY <1>4, <1>5 DEF Fns
<1> QED  BY <1>2, <1>6 DEF r

(* A flush keeps the calls of the other types. *)
LEMMA FlushKeeps ==
    ASSUME NEW s, DOMAIN s = Fields, NEW S, s.dfc \in Seq(S), NEW fns
    PROVE  \E q \in Seq(S) : Flush(s, fns) = [s EXCEPT !.dfc = q] /\ Fns(q) = Fns(s.dfc) \ fns
<1> DEFINE d == s.dfc
           N == Len(d)
           F == CHOOSE f : Keeps(f, d, fns, N)
           K(n) == {d[i].fn : i \in 1..n} \ fns
<1>1. N \in Nat /\ DOMAIN d = 1..N
  OBVIOUS
<1>2. Keeps(F, d, fns, N)
  <2>1. \E f : Keeps(f, d, fns, N)
    BY <1>1, KeepsDefined
  <2> QED  BY <2>1
<1>3. Flush(s, fns) = [s EXCEPT !.dfc = F[N]]
  BY DEF Flush, Keeps
<1> HIDE DEF F
<1>4. /\ F[0] = <<>>
      /\ \A n \in 0..N - 1 : F[n + 1] = Kept(F[n], d[n + 1], fns)
  BY <1>1, <1>2 DEF Keeps
<1> DEFINE P == {n \in Nat : n <= N => F[n] \in Seq(S) /\ Fns(F[n]) = K(n)}
<1>5. 0 \in P
  <2>1. F[0] \in Seq(S) /\ Fns(F[0]) = {}
    BY <1>4 DEF Fns, Range
  <2>2. K(0) = {}
    OBVIOUS
  <2> QED  BY <2>1, <2>2
<1>6. ASSUME NEW n \in P PROVE n + 1 \in P
  <2>1. CASE n + 1 <= N
    <3>1. /\ F[n] \in Seq(S) /\ Fns(F[n]) = K(n) /\ n + 1 \in DOMAIN d /\ d[n + 1] \in S
          /\ F[n + 1] = IF d[n + 1].fn \in fns THEN F[n] ELSE Append(F[n], d[n + 1])
      BY <1>1, <1>4, <2>1 DEF Kept
    <3>2. {d[i].fn : i \in 1..n + 1} = {d[i].fn : i \in 1..n} \union {d[n + 1].fn}
      OBVIOUS
    <3>3. F[n + 1] \in Seq(S) /\ Fns(F[n + 1]) = K(n + 1)
      <4>1. CASE d[n + 1].fn \in fns
        <5>1. K(n + 1) = K(n)
          BY <3>2, <4>1
        <5> HIDE DEF K
        <5> QED  BY <3>1, <4>1, <5>1
      <4>2. CASE d[n + 1].fn \notin fns
        <5>1. K(n + 1) = K(n) \union {d[n + 1].fn}
          BY <3>2, <4>2
        <5> HIDE DEF K
        <5>2. F[n + 1] \in Seq(S) /\ Fns(F[n + 1]) = Fns(F[n]) \union {d[n + 1].fn}
          BY <3>1, <4>2, AppendCalls
        <5> QED  BY <3>1, <5>1, <5>2
      <4> QED  BY <4>1, <4>2
    <3> HIDE DEF K
    <3> QED  BY <3>3
  <2>2. CASE ~(n + 1 <= N)
    BY <2>2
  <2> QED  BY <2>1, <2>2
<1> HIDE DEF P
<1>7. P = Nat
  <2>1. P \in SUBSET Nat
    BY DEF P
  <2> QED  BY <1>5, <1>6, <2>1, ByInduction
<1>8. F[N] \in Seq(S) /\ Fns(F[N]) = K(N)
  <2>1. N \in P /\ N <= N
    BY <1>1, <1>7
  <2> HIDE DEF K, N
  <2> QED  BY <2>1 DEF P
<1>9. K(N) = Fns(d) \ fns
  BY <1>1 DEF Range, Fns
<1> QED  BY <1>3, <1>8, <1>9

-----------------------------------------------------------------------------
(* What the functions that post, flush and set timers change.              *)
Modes == {"calm", "busy"}

(* k is s with other values of the fields X. *)
Only(s, k, X) == DOMAIN k = Fields /\ \A x \in Fields \ X : k[x] = s[x]

(* PNALDFCPost: one call more. *)
LEMMA PostEffect ==
    ASSUME NEW s, DOMAIN s = Fields, NEW mode, s.dfc \in Seq(DfcCalls(mode)), NEW fn \in PlainCalls,
           NEW k, k = Post(s, fn)
    PROVE  /\ Only(s, k, {"dfc"}) /\ k.dfc \in Seq(DfcCalls(mode))
           /\ Fns(k.dfc) = Fns(s.dfc) \union {fn}
<1>1. [fn |-> fn] \in DfcCalls(mode)
  BY DEF DfcCalls
<1>2. Only(s, k, {"dfc"}) /\ k.dfc = Append(s.dfc, [fn |-> fn])
  BY DEF Post, Only, Fields
<1> QED  BY <1>1, <1>2, AppendCalls

(* PNALDFCFlush: the calls of some types fewer. *)
LEMMA FlushEffect ==
    ASSUME NEW s, DOMAIN s = Fields, NEW mode, s.dfc \in Seq(DfcCalls(mode)), NEW fns,
           NEW k, k = Flush(s, fns)
    PROVE  /\ Only(s, k, {"dfc"}) /\ k.dfc \in Seq(DfcCalls(mode))
           /\ Fns(k.dfc) = Fns(s.dfc) \ fns
<1>1. PICK q \in Seq(DfcCalls(mode)) : k = [s EXCEPT !.dfc = q] /\ Fns(q) = Fns(s.dfc) \ fns
  BY ZenonT(40), FlushKeeps
<1> QED  BY <1>1 DEF Only, Fields

(* PNALMultiTimerSet: one timer more. *)
LEMMA TimerSetEffect ==
    ASSUME NEW s, DOMAIN s = Fields, NEW t, NEW k, k = TimerSet(s, t)
    PROVE  Only(s, k, {"armed"}) /\ k.armed = s.armed \union {t}
BY DEF TimerSet, Only, Fields

(* PNALMultiTimerCancel: the timer and its queued call are gone. *)
LEMMA TimerCancelEffect ==
    ASSUME NEW s, DOMAIN s = Fields, NEW mode, s.dfc \in Seq(DfcCalls(mode)), NEW t,
           NEW k, k = TimerCancel(s, t)
    PROVE  /\ Only(s, k, {"armed", "dfc"}) /\ k.dfc \in Seq(DfcCalls(mode))
           /\ k.armed = s.armed \ {t} /\ Fns(k.dfc) = Fns(s.dfc) \ {t}
<1> DEFINE a == [s EXCEPT !.armed = @ \ {t}]
<1>1. Only(s, a, {"armed"}) /\ a.armed = s.armed \ {t} /\ DOMAIN a = Fields /\ a.dfc = s.dfc
  BY DEF Only, Fields
<1>2. k = Flush(a, {t})
  BY DEF TimerCancel
<1> HIDE DEF a
<1>3. /\ Only(a, k, {"dfc"}) /\ k.dfc \in Seq(DfcCalls(mode))
      /\ Fns(k.dfc) = Fns(a.dfc) \ {t}
  BY <1>1, <1>2, FlushEffect
<1>4. k.armed = a.armed
  BY <1>3 DEF Only, Fields
<1> QED  BY <1>1, <1>3, <1>4 DEF Only

(* The fields that the transmission does not depend on. *)
Inert == {"connCb", "writeFull", "readFull", "piggy", "slots", "reading", "log", "rlog"}

(* What waits goes on waiting as long as its calls and timers stay. *)
LEMMA Carries ==
    ASSUME NEW mode \in Modes, NEW s, NEW k,
           Only(s, k, {"dfc", "armed", "buf", "readNext", "readLastAck"} \union Inert),
           k.dfc \in Seq(DfcCalls(mode)), k.armed \subseteq Timers \ {"T1"},
           k.buf \in Seq(PeerPayloads), k.readNext \in Nat, k.readLastAck \in Nat,
           k.readLastAck < k.readNext,
           "FrameWritten" \in Fns(s.dfc) => "FrameWritten" \in Fns(k.dfc),
           "ConnectWritten" \in Fns(s.dfc) => "ConnectWritten" \in Fns(k.dfc),
           Coming(s, "T2") => Coming(k, "T2"), Coming(s, "T6") => Coming(k, "T6"),
           Coming(k, "T3") => Coming(s, "T3"),
           "ConnectDone" \in Fns(k.dfc) => "ConnectDone" \in Fns(s.dfc),
           Sound(s, mode)
    PROVE  /\ Sound(k, mode)
           /\ (Coming(s, "T4") => Coming(k, "T4")) /\ CtrlTried(s) => CtrlTried(k)
           /\ IFrameTried(s) => IFrameTried(k)
<1>1. /\ DOMAIN k = Fields
      /\ k.status = s.status /\ k.connNext = s.connNext /\ k.window = s.window
      /\ k.lastAck = s.lastAck /\ k.nextToSend = s.nextToSend /\ k.nextWindow = s.nextWindow
      /\ k.ready = s.ready /\ k.ctrl = s.ctrl /\ k.pending = s.pending /\ k.rrSent = s.rrSent
      /\ k.tx = s.tx
  BY DEF Only, Fields, Inert
<1>2. TxOK(s) => TxOK(k)
  BY <1>1 DEF TxOK
<1>3. Instance(k, mode)
  BY <1>1, <1>2 DEF Sound, Instance, Values
<1>4. Phases(k)
  BY <1>1 DEF Sound, Phases, Quiet
<1>5. Awaited(k)
  BY <1>1 DEF Sound, Awaited
<1>6. (Coming(s, "T4") => Coming(k, "T4")) /\ CtrlTried(s) => CtrlTried(k)
  BY <1>1 DEF CtrlTried
<1>7. IFrameTried(s) => IFrameTried(k)
  BY <1>1 DEF IFrameTried
<1> QED  BY <1>3, <1>4, <1>5, <1>6, <1>7 DEF Sound

-----------------------------------------------------------------------------
(* Transmission.                                                           *)

(* A frame handed to the frame layer is pending until its completion. *)
LEMMA SentSettled ==
    ASSUME NEW mode \in Modes, NEW s, Sound(s, mode), s.status = "UA_SENT", NEW f,
           NEW k, k = Sent(s, f)
    PROVE  Settled(k, mode) /\ k.status = "UA_SENT" /\ k.tx.new
<1>1. DOMAIN s = Fields /\ s.dfc \in Seq(DfcCalls(mode)) /\ "FrameWritten" \in PlainCalls
  BY DEF Sound, Instance, PlainCalls
<1>2. PICK p : p = Post(s, "FrameWritten")
  OBVIOUS
<1>3. /\ Only(s, p, {"dfc"}) /\ p.dfc \in Seq(DfcCalls(mode))
      /\ Fns(p.dfc) = Fns(s.dfc) \union {"FrameWritten"}
  BY <1>1, <1>2, PostEffect
<1> DEFINE tx == [t |-> "TX", f |-> f, cb |-> "FrameWritten", bad |-> s.tx # NoTx, new |-> TRUE]
<1>4. PICK a : a = [FrameWrite(s, f, "FrameWritten") EXCEPT !.pending = TRUE, !.ctrl = "NONE"]
  OBVIOUS
<1>5. a = [[p EXCEPT !.tx = tx] EXCEPT !.pending = TRUE, !.ctrl = "NONE"]
  BY <1>2, <1>4 DEF FrameWrite
<1>6. /\ tx # NoTx /\ DOMAIN tx = {"t", "f", "cb", "bad", "new"} /\ tx.t = "TX"
      /\ tx.cb = "FrameWritten" /\ tx.new = TRUE /\ tx.new \in BOOLEAN
  BY DEF NoTx
<1> HIDE DEF tx
<1>7. /\ Only(p, a, {"tx", "pending", "ctrl"}) /\ a.tx = tx /\ a.pending = TRUE /\ a.ctrl = "NONE"
      /\ DOMAIN a = Fields /\ a.dfc = p.dfc
  BY <1>3, <1>5 DEF Only, Fields
<1>8. k = TimerCancel(a, "T4")
  BY <1>4 DEF Sent
<1>9. /\ Only(a, k, {"armed", "dfc"}) /\ k.dfc \in Seq(DfcCalls(mode))
      /\ k.armed = a.armed \ {"T4"} /\ Fns(k.dfc) = Fns(a.dfc) \ {"T4"}
  <2>1. a.dfc \in Seq(DfcCalls(mode))
    BY <1>3, <1>7
  <2> QED  BY <1>7, <1>8, <2>1, TimerCancelEffect
<1>10. /\ DOMAIN k = Fields
       /\ k.status = s.status /\ k.connNext = s.connNext /\ k.window = s.window
       /\ k.lastAck = s.lastAck /\ k.nextToSend = s.nextToSend /\ k.nextWindow = s.nextWindow
       /\ k.readNext = s.readNext /\ k.readLastAck = s.readLastAck /\ k.buf = s.buf
       /\ k.ready = s.ready /\ k.rrSent = s.rrSent /\ k.armed = s.armed \ {"T4"}
       /\ k.tx = tx /\ k.pending = TRUE /\ k.ctrl = "NONE"
  BY <1>3, <1>7, <1>9 DEF Only, Fields
<1>11. Fns(k.dfc) = (Fns(s.dfc) \union {"FrameWritten"}) \ {"T4"}
  BY <1>3, <1>7, <1>9
<1>12. TxOK(k)
  BY <1>6, <1>10, <1>11 DEF TxOK
<1>13. Instance(k, mode)
  BY <1>9, <1>10, <1>12 DEF Sound, Instance, Values
<1>14. Phases(k)
  BY <1>10, <1>11 DEF Sound, Phases, Quiet, Coming
<1>15. Awaited(k)
  BY <1>10, <1>11 DEF Sound, Awaited, Coming
<1>16. CtrlTried(k) /\ IFrameTried(k)
  BY <1>10 DEF CtrlTried, IFrameTried
<1> QED  BY <1>6, <1>10, <1>13, <1>14, <1>15, <1>16 DEF Sound, Settled

(* An acknowledgement that leaves with a frame. *)
LEMMA AcknowledgeSentSound ==
    ASSUME NEW mode \in Modes, NEW s, Sound(s, mode), NEW k, k = ReadAcknowledgeSent(s)
    PROVE  /\ Sound(k, mode) /\ k.status = s.status /\ k.armed = s.armed \ {"T1"}
           /\ k.nextWindow = s.nextWindow /\ k.nextToSend = s.nextToSend /\ k.lastAck = s.lastAck
           /\ k.rrSent = s.rrSent
<1> DEFINE a == [s EXCEPT !.readLastAck = s.readNext - 1]
<1>1. /\ DOMAIN s = Fields /\ s.dfc \in Seq(DfcCalls(mode)) /\ s.armed \subseteq Timers \ {"T1"}
      /\ s.readNext \in Nat /\ s.readLastAck \in Nat /\ s.readLastAck < s.readNext
      /\ s.buf \in Seq(PeerPayloads)
  BY DEF Sound, Instance, Values
<1>2. /\ Only(s, a, {"readLastAck"}) /\ a.readLastAck = s.readNext - 1 /\ DOMAIN a = Fields
      /\ a.dfc = s.dfc /\ a.armed = s.armed /\ a.readNext = s.readNext
  BY <1>1 DEF Only, Fields
<1>3. k = TimerCancel(a, "T1")
  BY DEF ReadAcknowledgeSent
<1> HIDE DEF a
<1>4. /\ Only(a, k, {"armed", "dfc"}) /\ k.dfc \in Seq(DfcCalls(mode))
      /\ k.armed = s.armed \ {"T1"} /\ Fns(k.dfc) = Fns(s.dfc) \ {"T1"}
  <2>1. a.dfc \in Seq(DfcCalls(mode))
    BY <1>1, <1>2
  <2>2. /\ Only(a, k, {"armed", "dfc"}) /\ k.dfc \in Seq(DfcCalls(mode))
        /\ k.armed = a.armed \ {"T1"} /\ Fns(k.dfc) = Fns(a.dfc) \ {"T1"}
    BY <1>2, <1>3, <2>1, TimerCancelEffect
  <2> QED  BY <1>2, <2>2
<1>5. /\ Only(s, k, {"armed", "dfc", "readLastAck"})
  BY <1>2, <1>4 DEF Only
<1>6. /\ k.readNext \in Nat /\ k.readLastAck \in Nat /\ k.readLastAck < k.readNext
      /\ k.buf \in Seq(PeerPayloads) /\ k.armed \subseteq Timers \ {"T1"}
      /\ k.status = s.status /\ k.nextWindow = s.nextWindow /\ k.nextToSend = s.nextToSend
      /\ k.lastAck = s.lastAck /\ k.rrSent = s.rrSent
  BY <1>1, <1>2, <1>4 DEF Only, Fields
<1>7. Only(s, k, {"dfc", "armed", "buf", "readNext", "readLastAck"} \union Inert)
  BY <1>5 DEF Only
<1>8. /\ "FrameWritten" \in Fns(s.dfc) => "FrameWritten" \in Fns(k.dfc)
      /\ "ConnectWritten" \in Fns(s.dfc) => "ConnectWritten" \in Fns(k.dfc)
      /\ Coming(s, "T2") => Coming(k, "T2")
      /\ Coming(s, "T6") => Coming(k, "T6")
      /\ Coming(k, "T3") => Coming(s, "T3")
      /\ "ConnectDone" \in Fns(k.dfc) => "ConnectDone" \in Fns(s.dfc)
  BY <1>4 DEF Coming
<1>9. Sound(k, mode)
  BY <1>4, <1>6, <1>7, <1>8, Carries
<1> QED  BY <1>4, <1>6, <1>9

(* A timer that is set. *)
LEMMA TimerSetSound ==
    ASSUME NEW mode \in Modes, NEW s, Sound(s, mode), NEW t \in {"T2", "T4", "T6"},
           NEW k, k = TimerSet(s, t)
    PROVE  /\ Sound(k, mode) /\ k.armed = s.armed \union {t} /\ Only(s, k, {"armed"})
           /\ k.dfc = s.dfc /\ DOMAIN k = Fields
<1>1. /\ DOMAIN s = Fields /\ s.dfc \in Seq(DfcCalls(mode)) /\ s.armed \subseteq Timers \ {"T1"}
      /\ s.readNext \in Nat /\ s.readLastAck \in Nat /\ s.readLastAck < s.readNext
      /\ s.buf \in Seq(PeerPayloads)
  BY DEF Sound, Instance, Values
<1>2. Only(s, k, {"armed"}) /\ k.armed = s.armed \union {t}
  BY <1>1, TimerSetEffect
<1>3. /\ k.dfc = s.dfc /\ k.buf = s.buf /\ k.readNext = s.readNext
      /\ k.readLastAck = s.readLastAck /\ DOMAIN k = Fields
  BY <1>2 DEF Only, Fields
<1>4. Only(s, k, {"dfc", "armed", "buf", "readNext", "readLastAck"} \union Inert)
  BY <1>2 DEF Only
<1>5. k.armed \subseteq Timers \ {"T1"}
  BY <1>1, <1>2 DEF Timers
<1>6. /\ Coming(s, "T2") => Coming(k, "T2")
      /\ Coming(s, "T6") => Coming(k, "T6")
      /\ Coming(k, "T3") => Coming(s, "T3")
  BY <1>2, <1>3 DEF Coming
<1>7. Sound(k, mode)
  BY <1>1, <1>3, <1>4, <1>5, <1>6, Carries
<1> QED  BY <1>2, <1>3, <1>7

(* A control frame is sent: T6 keeps I frames back until it is over. *)
LEMMA SendCtrlSettled ==
    ASSUME NEW mode \in Modes, NEW s, Sound(s, mode), s.status = "UA_SENT",
           NEW k, k = SendCtrl(s)
    PROVE  Settled(k, mode) /\ k.status = "UA_SENT" /\ k.tx.new
<1>1. PICK a : a = [s EXCEPT !.rrSent = TRUE]
  OBVIOUS
<1>2. PICK r : r = TimerSet(a, "T6")
  OBVIOUS
<1>3. DOMAIN s = Fields
  BY DEF Sound, Instance
<1>4. Only(s, a, {"rrSent"}) /\ a.rrSent = TRUE /\ DOMAIN a = Fields
  BY <1>1, <1>3 DEF Only, Fields
<1>5. Only(a, r, {"armed"}) /\ r.armed = a.armed \union {"T6"}
  BY <1>2, <1>4, TimerSetEffect
<1>6. /\ DOMAIN r = Fields
      /\ r.status = s.status /\ r.connNext = s.connNext /\ r.window = s.window
      /\ r.lastAck = s.lastAck /\ r.nextToSend = s.nextToSend /\ r.nextWindow = s.nextWindow
      /\ r.readNext = s.readNext /\ r.readLastAck = s.readLastAck /\ r.buf = s.buf
      /\ r.ready = s.ready /\ r.rrSent = TRUE /\ r.armed = s.armed \union {"T6"}
      /\ r.tx = s.tx /\ r.pending = s.pending /\ r.ctrl = s.ctrl /\ r.dfc = s.dfc
  BY <1>4, <1>5 DEF Only, Fields
<1>7. Sound(r, mode)
  <2>1. s.armed \subseteq Timers \ {"T1"} => r.armed \subseteq Timers \ {"T1"}
    BY <1>6 DEF Timers
  <2>2. Instance(r, mode)
    BY <1>6, <2>1 DEF Sound, Instance, Values, TxOK
  <2>3. Phases(r) /\ Awaited(r)
    BY <1>6 DEF Sound, Phases, Quiet, Awaited, Coming
  <2> QED  BY <2>2, <2>3 DEF Sound
<1>8. PICK c : c = ReadAcknowledgeSent(r)
  OBVIOUS
<1>9. Sound(c, mode) /\ c.status = "UA_SENT"
  BY <1>6, <1>7, <1>8, AcknowledgeSentSound
<1>10. \/ k = Sent(r, UA)
       \/ k = Sent(c, Ctrl(s.ctrl, ThreeBits(s.readNext)))
  BY <1>1, <1>2, <1>8 DEF SendCtrl
<1>11. CASE k = Sent(r, UA)
  BY <1>6, <1>7, <1>11, SentSettled
<1>12. CASE k = Sent(c, Ctrl(s.ctrl, ThreeBits(s.readNext)))
  BY <1>9, <1>12, SentSettled
<1> QED  BY <1>10, <1>11, <1>12

(* An I frame is sent: T2 will bring the transmission back to it. *)
LEMMA SendIFrameSettled ==
    ASSUME NEW mode \in Modes, NEW s, Sound(s, mode), s.nextWindow # s.nextToSend,
           NEW k, k = SendIFrame(s)
    PROVE  Settled(k, mode) /\ k.status = "UA_SENT" /\ k.tx.new
<1>1. PICK a : a = TimerSet(s, "T2")
  OBVIOUS
<1>2. Sound(a, mode) /\ a.armed = s.armed \union {"T2"} /\ Only(s, a, {"armed"})
  BY <1>1, TimerSetSound
<1>3. PICK b : b = ReadAcknowledgeSent(a)
  OBVIOUS
<1>4. /\ Sound(b, mode) /\ b.armed = a.armed \ {"T1"} /\ b.nextWindow = a.nextWindow
      /\ b.nextToSend = a.nextToSend
  BY <1>2, <1>3, AcknowledgeSentSound
<1>5. "T2" \in b.armed /\ b.nextWindow # b.nextToSend
  BY <1>2, <1>4 DEF Only, Fields
<1>6. DOMAIN b = Fields
  BY <1>4 DEF Sound, Instance
<1>7. b.status = "UA_SENT"
  BY <1>4, <1>5 DEF Sound, Phases, Quiet
<1>8. PICK c : c = [b EXCEPT !.nextWindow = @ + 1]
  OBVIOUS
<1>9. /\ DOMAIN c = Fields
      /\ c.status = b.status /\ c.connNext = b.connNext /\ c.window = b.window
      /\ c.lastAck = b.lastAck /\ c.nextToSend = b.nextToSend /\ c.nextWindow = b.nextWindow + 1
      /\ c.readNext = b.readNext /\ c.readLastAck = b.readLastAck /\ c.buf = b.buf
      /\ c.ready = b.ready /\ c.rrSent = b.rrSent /\ c.armed = b.armed
      /\ c.tx = b.tx /\ c.pending = b.pending /\ c.ctrl = b.ctrl /\ c.dfc = b.dfc
  BY <1>6, <1>8 DEF Fields
<1>10. Sound(c, mode)
  <2>1. Values(c)
    <3>1. Values(b)
      BY <1>4 DEF Sound, Instance
    <3>2. b.nextWindow \in Nat /\ b.nextToSend \in Nat /\ b.nextWindow <= b.nextToSend
          /\ b.lastAck \in Nat /\ b.lastAck < b.nextWindow
      BY <3>1 DEF Values
    <3>3. /\ c.nextWindow \in Nat /\ c.nextWindow <= c.nextToSend /\ c.lastAck < c.nextWindow
      BY <1>5, <1>9, <3>2
    <3> QED  BY <1>9, <3>1, <3>3 DEF Values
  <2>2. Instance(c, mode)
    BY <1>4, <1>9, <2>1 DEF Sound, Instance, TxOK
  <2>3. Phases(c)
    BY <1>4, <1>7, <1>9 DEF Sound, Phases, Quiet, Coming
  <2>4. Awaited(c)
    BY <1>4, <1>5, <1>9 DEF Sound, Awaited, Coming
  <2> QED  BY <2>2, <2>3, <2>4 DEF Sound
<1>11. \E f : k = Sent(c, f)
  BY <1>1, <1>3, <1>8 DEF SendIFrame
<1> QED  BY <1>7, <1>9, <1>10, <1>11, SentSettled

(* The frame buffer of s is left alone, or written. *)
Renews(s, k) == k.tx = s.tx \/ k.tx.new

(* Whatever static_PSHDLCWriteTransmit decides, what still waits is waited *)
(* for.                                                                    *)
LEMMA TransmitSettled ==
    ASSUME NEW mode \in Modes, NEW s, Sound(s, mode), NEW force \in BOOLEAN,
           NEW k, k = WriteTransmit(s, force)
    PROVE  Settled(k, mode) /\ k.status = s.status /\ Renews(s, k)
<1> DEFINE some   == s.nextWindow # s.nextToSend /\ s.ready
           iframe == some /\ s.ctrl \in {"NONE", "RR"}
           skip   == s.pending \/ (~some /\ s.ctrl = "NONE") \/ (iframe /\ s.rrSent)
<1>1. /\ mode = "calm" => s.ready
      /\ s.status \in Statuses
      /\ s.status # "UA_SENT" => s.ctrl = "NONE" /\ ~s.pending /\ s.nextWindow = s.nextToSend
  BY DEF Sound, Instance, Values, Phases, Quiet
<1>2. CASE skip
  <2>1. k = s
    BY <1>2 DEF WriteTransmit
  <2>2. CtrlTried(s) /\ (mode = "calm" => IFrameTried(s))
    BY <1>1, <1>2 DEF CtrlTried, IFrameTried
  <2> QED  BY <2>1, <2>2 DEF Settled, Renews
<1>3. CASE ~skip /\ iframe
  <2>1. k = SendIFrame(s)
    BY <1>3 DEF WriteTransmit
  <2> QED  BY <1>1, <1>3, <2>1, SendIFrameSettled DEF Renews
<1>4. CASE ~skip /\ ~iframe
  <2>1. s.ctrl # "NONE" /\ s.status = "UA_SENT"
    BY <1>1, <1>4
  <2>2. CASE force
    <3>1. k = SendCtrl(s)
      BY <1>4, <2>2 DEF WriteTransmit
    <3> QED  BY <2>1, <3>1, SendCtrlSettled DEF Renews
  <2>3. CASE ~force
    <3>1. k = TimerSet(s, "T4")
      BY <1>4, <2>3 DEF WriteTransmit
    <3>2. Sound(k, mode) /\ k.armed = s.armed \union {"T4"} /\ Only(s, k, {"armed"})
      BY <3>1, TimerSetSound
    <3>3. k.ctrl = s.ctrl /\ k.status = s.status /\ k.tx = s.tx /\ "T4" \in k.armed
      BY <3>2 DEF Only, Fields
    <3> QED  BY <2>1, <3>2, <3>3 DEF Settled, CtrlTried, IFrameTried, Coming, Renews
  <2> QED  BY <2>2, <2>3
<1> QED  BY <1>2, <1>3, <1>4

-----------------------------------------------------------------------------
(* Connection.                                                             *)

(* r has the calls of q and fn. *)
Adds(q, r, fn) == Fns(r) = Fns(q) \union {fn}

(* A frame goes into the frame buffer and its completion is posted. *)
LEMMA FrameWriteEffect ==
    ASSUME NEW mode \in Modes, NEW s, DOMAIN s = Fields, s.dfc \in Seq(DfcCalls(mode)), NEW f,
           NEW cb \in {"FrameWritten", "ConnectWritten"}, NEW k, k = FrameWrite(s, f, cb)
    PROVE  /\ Only(s, k, {"dfc", "tx"}) /\ k.dfc \in Seq(DfcCalls(mode))
           /\ Adds(s.dfc, k.dfc, cb) /\ TxOK(k) /\ k.tx # NoTx /\ k.tx.cb = cb /\ k.tx.new
<1>1. cb \in PlainCalls
  BY DEF PlainCalls
<1>2. PICK p : p = Post(s, cb)
  OBVIOUS
<1>3. /\ Only(s, p, {"dfc"}) /\ p.dfc \in Seq(DfcCalls(mode))
      /\ Fns(p.dfc) = Fns(s.dfc) \union {cb}
  BY <1>1, <1>2, PostEffect
<1> DEFINE tx == [t |-> "TX", f |-> f, cb |-> cb, bad |-> s.tx # NoTx, new |-> TRUE]
<1>4. k = [p EXCEPT !.tx = tx]
  BY <1>2 DEF FrameWrite
<1>5. /\ tx # NoTx /\ DOMAIN tx = {"t", "f", "cb", "bad", "new"} /\ tx.t = "TX"
      /\ tx.cb = cb /\ tx.new = TRUE /\ tx.new \in BOOLEAN
  BY DEF NoTx
<1> HIDE DEF tx
<1>6. Only(s, k, {"dfc", "tx"}) /\ k.dfc = p.dfc /\ k.tx = tx
  BY <1>3, <1>4 DEF Only, Fields
<1>7. TxOK(k)
  BY <1>3, <1>5, <1>6 DEF TxOK
<1> QED  BY <1>3, <1>5, <1>6, <1>7 DEF Adds

(* An instance with nothing to send. *)
Idle(s, mode) == Instance(s, mode) /\ Quiet(s) /\ (s.rrSent => Coming(s, "T6"))

(* It is settled on either side of the connection. *)
LEMMA IdleSettled ==
    ASSUME NEW mode \in Modes, NEW s, Idle(s, mode),
           s.status # "UA_SENT" => "ConnectDone" \notin Fns(s.dfc),
           s.status = "UA_SENT" => ~Coming(s, "T3")
    PROVE  Settled(s, mode)
<1>1. Phases(s)
  BY DEF Idle, Phases
<1>2. s.lastAck \in Nat
  BY DEF Idle, Instance, Values
<1>3. Awaited(s)
  BY <1>2 DEF Idle, Quiet, Awaited
<1>4. CtrlTried(s) /\ IFrameTried(s)
  BY DEF Idle, Quiet, CtrlTried, IFrameTried
<1> QED  BY <1>1, <1>3, <1>4 DEF Idle, Sound, Settled

(* Before the connection is up an instance that is settled is idle. *)
LEMMA IdleBefore ==
    ASSUME NEW mode \in Modes, NEW s, Sound(s, mode), s.status # "UA_SENT"
    PROVE  Idle(s, mode) /\ "ConnectDone" \notin Fns(s.dfc)
BY DEF Sound, Phases, Awaited, Idle

(* RST or UA is sent, or remembered until the frame before it has left. *)
LEMMA ConnectSendIdle ==
    ASSUME NEW mode \in Modes, NEW s, Idle(s, mode), "ConnectDone" \notin Fns(s.dfc),
           NEW frame \in {"RST", "UA"}, NEW k, k = ConnectSendFrame(s, frame)
    PROVE  /\ Idle(k, mode) /\ "ConnectDone" \notin Fns(k.dfc) /\ k.status # "UA_SENT"
           /\ k.tx = s.tx \/ k.tx.new
<1>1. DOMAIN s = Fields /\ s.dfc \in Seq(DfcCalls(mode)) /\ s.armed \subseteq Timers \ {"T1"}
  BY DEF Idle, Instance
<1>2. CASE s.status \in {"SEND_RESET_PENDING", "SEND_UA_PENDING"}
  <2>1. k = [s EXCEPT !.connNext = frame]
    BY <1>2 DEF ConnectSendFrame
  <2>2. Only(s, k, {"connNext"}) /\ k.connNext = frame
    BY <1>1, <2>1 DEF Only, Fields
  <2>3. /\ DOMAIN k = Fields /\ k.window = s.window /\ k.status = s.status
        /\ k.lastAck = s.lastAck /\ k.nextToSend = s.nextToSend /\ k.nextWindow = s.nextWindow
        /\ k.readNext = s.readNext /\ k.readLastAck = s.readLastAck /\ k.buf = s.buf
        /\ k.ready = s.ready /\ k.rrSent = s.rrSent /\ k.armed = s.armed /\ k.dfc = s.dfc
        /\ k.pending = s.pending /\ k.ctrl = s.ctrl /\ k.tx = s.tx
    BY <2>2 DEF Only, Fields
  <2>4. Values(k)
    BY <2>2, <2>3 DEF Idle, Instance, Values
  <2>5. Instance(k, mode)
    BY <2>3, <2>4 DEF Idle, Instance, TxOK
  <2>6. Quiet(k) /\ (k.rrSent => Coming(k, "T6"))
    BY <2>3 DEF Idle, Quiet, Coming
  <2> QED  BY <1>2, <2>3, <2>5, <2>6 DEF Idle
<1>3. CASE s.status \notin {"SEND_RESET_PENDING", "SEND_UA_PENDING"}
  <2>1. PICK a, f : /\ Only(s, a, {"status", "armed"})
                    /\ a.status \in {"SEND_RESET_PENDING", "SEND_UA_PENDING"}
                    /\ s.armed \subseteq a.armed /\ a.armed \subseteq s.armed \union {"T3"}
                    /\ k = FrameWrite(a, f, "ConnectWritten")
    <3>1. CASE frame = "RST"
      <4>1. PICK b : b = [s EXCEPT !.status = "SEND_RESET_PENDING"]
        OBVIOUS
      <4>2. PICK a : a = TimerSet(b, "T3")
        OBVIOUS
      <4>3. Only(s, b, {"status"}) /\ b.status = "SEND_RESET_PENDING" /\ b.armed = s.armed
            /\ DOMAIN b = Fields
        BY <1>1, <4>1 DEF Only, Fields
      <4>4. Only(b, a, {"armed"}) /\ a.armed = b.armed \union {"T3"}
        BY <4>2, <4>3, TimerSetEffect
      <4>5. Only(s, a, {"status", "armed"}) /\ a.status = "SEND_RESET_PENDING"
        BY <4>3, <4>4 DEF Only, Fields
      <4>6. k = FrameWrite(a, RST(s.window), "ConnectWritten")
        BY <1>3, <3>1, <4>1, <4>2 DEF ConnectSendFrame
      <4> QED  BY <4>3, <4>4, <4>5, <4>6
    <3>2. CASE frame = "UA"
      <4>1. PICK a : a = [s EXCEPT !.status = "SEND_UA_PENDING"]
        OBVIOUS
      <4>2. Only(s, a, {"status", "armed"}) /\ a.status = "SEND_UA_PENDING" /\ a.armed = s.armed
        BY <1>1, <4>1 DEF Only, Fields
      <4>3. k = FrameWrite(a, UA, "ConnectWritten")
        BY <1>3, <3>2, <4>1 DEF ConnectSendFrame
      <4> QED  BY <4>2, <4>3
    <3> QED  BY <3>1, <3>2
  <2>2. a.dfc = s.dfc
    BY <2>1 DEF Only, Fields
  <2>3. /\ Only(a, k, {"dfc", "tx"}) /\ k.dfc \in Seq(DfcCalls(mode))
        /\ Fns(k.dfc) = Fns(a.dfc) \union {"ConnectWritten"} /\ TxOK(k) /\ k.tx.new
    <3>1. DOMAIN a = Fields /\ a.dfc \in Seq(DfcCalls(mode))
      BY <1>1, <2>1, <2>2 DEF Only
    <3>2. k = FrameWrite(a, f, "ConnectWritten")
      BY <2>1
    <3>3. /\ Only(a, k, {"dfc", "tx"}) /\ k.dfc \in Seq(DfcCalls(mode)) /\ TxOK(k)
          /\ k.tx.new /\ Adds(a.dfc, k.dfc, "ConnectWritten")
      BY <3>1, <3>2, FrameWriteEffect
    <3> QED  BY <3>3 DEF Adds
  <2>4. /\ DOMAIN k = Fields /\ k.status \in {"SEND_RESET_PENDING", "SEND_UA_PENDING"}
        /\ k.connNext = s.connNext /\ k.window = s.window
        /\ k.lastAck = s.lastAck /\ k.nextToSend = s.nextToSend /\ k.nextWindow = s.nextWindow
        /\ k.readNext = s.readNext /\ k.readLastAck = s.readLastAck /\ k.buf = s.buf
        /\ k.ready = s.ready /\ k.rrSent = s.rrSent /\ k.armed = a.armed
        /\ k.pending = s.pending /\ k.ctrl = s.ctrl
    BY <2>1, <2>3 DEF Only, Fields
  <2>5. k.armed \subseteq Timers \ {"T1"}
    BY <1>1, <2>1, <2>4 DEF Timers
  <2>6. Values(k)
    BY <2>4 DEF Idle, Instance, Values, Statuses
  <2>7. Instance(k, mode)
    BY <2>3, <2>4, <2>5, <2>6 DEF Idle, Instance
  <2>8. Quiet(k)
    BY <2>4 DEF Idle, Quiet
  <2>9. k.rrSent => Coming(k, "T6")
    BY <2>1, <2>2, <2>3, <2>4 DEF Idle, Coming
  <2> QED  BY <2>2, <2>3, <2>4, <2>7, <2>8, <2>9 DEF Idle
<1> QED  BY <1>2, <1>3

(* The connection is up: its timer is cancelled and its user told. *)
LEMMA ConnectCompletedSettled ==
    ASSUME NEW mode \in Modes, NEW s, Idle(s, mode), NEW k, k = ConnectCompleted(s)
    PROVE  Settled(k, mode) /\ k.status = "UA_SENT" /\ k.tx = s.tx
<1>1. DOMAIN s = Fields /\ s.dfc \in Seq(DfcCalls(mode)) /\ s.armed \subseteq Timers \ {"T1"}
  BY DEF Idle, Instance
<1>2. PICK a : a = [s EXCEPT !.status = "UA_SENT", !.connCb = FALSE]
  OBVIOUS
<1>3. /\ Only(s, a, {"status", "connCb"}) /\ a.status = "UA_SENT" /\ DOMAIN a = Fields
      /\ a.dfc \in Seq(DfcCalls(mode)) /\ a.dfc = s.dfc
  BY <1>1, <1>2 DEF Only, Fields
<1>4. PICK c : c = TimerCancel(a, "T3")
  OBVIOUS
<1>5. /\ Only(a, c, {"armed", "dfc"}) /\ c.dfc \in Seq(DfcCalls(mode))
      /\ c.armed = a.armed \ {"T3"} /\ Fns(c.dfc) = Fns(a.dfc) \ {"T3"}
  BY <1>3, <1>4, TimerCancelEffect
<1>6. k = c \/ k = Post(c, "ConnectDone")
  BY <1>2, <1>4 DEF ConnectCompleted
<1>7. /\ Only(c, k, {"dfc"}) /\ k.dfc \in Seq(DfcCalls(mode))
      /\ Fns(c.dfc) \subseteq Fns(k.dfc) /\ Fns(k.dfc) \subseteq Fns(c.dfc) \union {"ConnectDone"}
  <2>1. DOMAIN c = Fields /\ "ConnectDone" \in PlainCalls
    BY <1>5 DEF Only, PlainCalls
  <2>2. CASE k = c
    BY <1>5, <2>1, <2>2 DEF Only
  <2>3. CASE k = Post(c, "ConnectDone")
    <3>1. /\ Only(c, k, {"dfc"}) /\ k.dfc \in Seq(DfcCalls(mode))
          /\ Fns(k.dfc) = Fns(c.dfc) \union {"ConnectDone"}
      BY <1>5, <2>1, <2>3, PostEffect
    <3> QED  BY <3>1
  <2> QED  BY <1>6, <2>2, <2>3
<1>8. /\ DOMAIN k = Fields /\ k.status = "UA_SENT"
      /\ k.connNext = s.connNext /\ k.window = s.window
      /\ k.lastAck = s.lastAck /\ k.nextToSend = s.nextToSend /\ k.nextWindow = s.nextWindow
      /\ k.readNext = s.readNext /\ k.readLastAck = s.readLastAck /\ k.buf = s.buf
      /\ k.ready = s.ready /\ k.rrSent = s.rrSent /\ k.armed = s.armed \ {"T3"}
      /\ k.pending = s.pending /\ k.ctrl = s.ctrl /\ k.tx = s.tx
  BY <1>3, <1>5, <1>7 DEF Only, Fields
<1>9. /\ Fns(s.dfc) \ {"T3"} \subseteq Fns(k.dfc)
      /\ Fns(k.dfc) \subseteq (Fns(s.dfc) \ {"T3"}) \union {"ConnectDone"}
  BY <1>3, <1>5, <1>7
<1>10. TxOK(k)
  BY <1>8, <1>9 DEF Idle, Instance, TxOK
<1>11. Values(k)
  BY <1>8 DEF Idle, Instance, Values, Statuses
<1>12. Instance(k, mode)
  BY <1>1, <1>7, <1>8, <1>10, <1>11 DEF Idle, Instance
<1>13. Quiet(k)
  BY <1>8 DEF Idle, Quiet
<1>14. ~Coming(k, "T3") /\ (k.rrSent => Coming(k, "T6"))
  BY <1>8, <1>9 DEF Idle, Coming
<1>15. Idle(k, mode)
  BY <1>12, <1>13, <1>14 DEF Idle
<1> QED  BY <1>8, <1>14, <1>15, IdleSettled

(* RST: both sides start from the first identifier again. *)
LEMMA ConnectStateSound ==
    ASSUME NEW mode \in Modes, NEW s, NEW k, k = ConnectState(s, P_SHDLC_MAX_WINDOW_SIZE)
    PROVE  /\ Sound(s, mode) => Sound(k, mode) /\ k.dfc = s.dfc /\ k.status = s.status
           /\ Idle(s, mode) => Idle(k, mode) /\ k.dfc = s.dfc /\ k.status = s.status
<1> SUFFICES ASSUME Instance(s, mode)
             PROVE  /\ Sound(s, mode) => Sound(k, mode) /\ k.dfc = s.dfc /\ k.status = s.status
                    /\ Idle(s, mode) => Idle(k, mode) /\ k.dfc = s.dfc /\ k.status = s.status
  BY DEF Sound, Idle
<1>1. DOMAIN s = Fields
  BY DEF Instance
<1>2. /\ DOMAIN k = Fields /\ k.status = s.status /\ k.connNext = s.connNext
      /\ k.buf = s.buf /\ k.rrSent = s.rrSent /\ k.armed = s.armed /\ k.dfc = s.dfc
      /\ k.pending = s.pending /\ k.ctrl = s.ctrl /\ k.tx = s.tx
      /\ k.window = P_SHDLC_MAX_WINDOW_SIZE /\ k.ready = TRUE
      /\ k.readNext = 32 /\ k.readLastAck = 31
      /\ k.lastAck = 31 /\ k.nextToSend = 32 /\ k.nextWindow = 32
  <2>1. DOMAIN k = Fields
    BY <1>1 DEF ConnectState
  <2>2. /\ k.window = P_SHDLC_MAX_WINDOW_SIZE /\ k.ready = TRUE
        /\ k.readNext = 32 /\ k.readLastAck = 31
        /\ k.lastAck = 31 /\ k.nextToSend = 32 /\ k.nextWindow = 32
    BY <1>1 DEF ConnectState, FirstId, Fields
  <2>3. k.status = s.status /\ k.connNext = s.connNext
    BY <1>1 DEF ConnectState, Fields
  <2>4. k.buf = s.buf /\ k.rrSent = s.rrSent /\ k.armed = s.armed /\ k.dfc = s.dfc
    BY <1>1 DEF ConnectState, Fields
  <2>5. k.pending = s.pending /\ k.ctrl = s.ctrl /\ k.tx = s.tx
    BY <1>1 DEF ConnectState, Fields
  <2> QED  BY <2>1, <2>2, <2>3, <2>4, <2>5
<1>3. Values(k)
  <2>1. /\ k.lastAck \in Nat /\ k.nextWindow \in Nat /\ k.nextToSend \in Nat
        /\ k.readLastAck \in Nat /\ k.readNext \in Nat
        /\ k.lastAck < k.nextWindow /\ k.nextWindow <= k.nextToSend
        /\ k.nextToSend <= k.lastAck + 1 + k.window /\ k.readLastAck < k.readNext
    BY <1>2 DEF P_SHDLC_MAX_WINDOW_SIZE
  <2>2. k.ready \in BOOLEAN
    BY <1>2
  <2> QED  BY <1>1, <1>2, <2>1, <2>2 DEF Instance, Values
<1>4. Instance(k, mode)
  BY <1>1, <1>2, <1>3 DEF Instance, TxOK
<1>5. Sound(s, mode) => Phases(k) /\ Awaited(k)
  BY <1>1, <1>2 DEF Sound, Phases, Quiet, Awaited, Coming
<1>6. Idle(s, mode) => Quiet(k) /\ (k.rrSent => Coming(k, "T6"))
  BY <1>1, <1>2 DEF Idle, Quiet, Coming
<1> QED  BY <1>2, <1>4, <1>5, <1>6 DEF Sound, Idle

(* A frame received while the connection is being made. *)
LEMMA ConnectReadSettled ==
    ASSUME NEW mode \in Modes, NEW s, Sound(s, mode), s.status # "UA_SENT", NEW f,
           NEW k, k = ConnectReadCompleted(s, f)
    PROVE  Settled(k, mode)
<1>1. Idle(s, mode) /\ "ConnectDone" \notin Fns(s.dfc)
  BY IdleBefore
<1>2. CASE f.t = "UA"
  <2>1. k = ConnectCompleted(s)
    BY <1>2 DEF ConnectReadCompleted
  <2> QED  BY <1>1, <2>1, ConnectCompletedSettled
<1>3. CASE f.t # "UA" /\ RSTAccepted(f)
  <2>1. f.win = P_SHDLC_MAX_WINDOW_SIZE
    BY <1>3 DEF RSTAccepted, P_SHDLC_MAX_WINDOW_SIZE
  <2>2. PICK c : c = ConnectState(s, P_SHDLC_MAX_WINDOW_SIZE)
    OBVIOUS
  <2>3. Idle(c, mode) /\ "ConnectDone" \notin Fns(c.dfc)
    BY <1>1, <2>2, ConnectStateSound
  <2>4. k = ConnectSendFrame(c, "UA")
    BY <1>3, <2>1, <2>2 DEF ConnectReadCompleted
  <2>5. Idle(k, mode) /\ "ConnectDone" \notin Fns(k.dfc) /\ k.status # "UA_SENT"
    BY <2>3, <2>4, ConnectSendIdle
  <2> QED  BY <2>5, IdleSettled
<1>4. CASE f.t # "UA" /\ ~RSTAccepted(f)
  <2>1. k = s
    BY <1>4 DEF ConnectReadCompleted
  <2> QED  BY <1>1, <2>1, IdleSettled
<1> QED  BY <1>2, <1>3, <1>4

(* RST or UA has left. *)
LEMMA ConnectWrittenSettled ==
    ASSUME NEW mode \in Modes, NEW s, Settled(s, mode),
           NEW k, k = ConnectWriteFrameCompleted(s)
    PROVE  /\ Settled(k, mode) /\ (s.status = "UA_SENT" => k = s)
           /\ k.tx = s.tx \/ k.tx.new
<1>1. CASE s.status = "UA_SENT"
  BY <1>1 DEF ConnectWriteFrameCompleted
<1>2. CASE s.status # "UA_SENT"
  <2>1. Idle(s, mode) /\ "ConnectDone" \notin Fns(s.dfc)
    BY <1>2, IdleBefore DEF Settled
  <2>2. DOMAIN s = Fields /\ s.connNext \in {"NONE", "RST", "UA"}
    BY <2>1 DEF Idle, Instance, Values
  <2>3. PICK a : a = [s EXCEPT !.status = IF @ = "SEND_RESET_PENDING" THEN "RESET_SENT" ELSE "UA_SENT"]
    OBVIOUS
  <2>4. PICK b : b = [a EXCEPT !.connNext = "NONE"]
    OBVIOUS
  <2>5. Only(s, a, {"status"}) /\ a.tx = s.tx /\ a.status \in {"RESET_SENT", "UA_SENT"} /\ DOMAIN a = Fields
    BY <2>2, <2>3 DEF Only, Fields
  <2>6. Only(s, b, {"status", "connNext"}) /\ b.status = a.status /\ b.connNext = "NONE"
        /\ b.tx = s.tx
    BY <2>4, <2>5 DEF Only, Fields
  <2>7. ASSUME NEW c \in {a, b} PROVE Idle(c, mode) /\ "ConnectDone" \notin Fns(c.dfc)
    <3>1. /\ Only(s, c, {"status", "connNext"}) /\ c.status \in {"RESET_SENT", "UA_SENT"}
          /\ c.connNext \in {"NONE", "RST", "UA"}
      BY <2>2, <2>5, <2>6 DEF Only, Fields
    <3>2. /\ DOMAIN c = Fields /\ c.window = s.window
          /\ c.lastAck = s.lastAck /\ c.nextToSend = s.nextToSend /\ c.nextWindow = s.nextWindow
          /\ c.readNext = s.readNext /\ c.readLastAck = s.readLastAck /\ c.buf = s.buf
          /\ c.ready = s.ready /\ c.rrSent = s.rrSent /\ c.armed = s.armed /\ c.dfc = s.dfc
          /\ c.pending = s.pending /\ c.ctrl = s.ctrl /\ c.tx = s.tx
      BY <3>1 DEF Only, Fields
    <3>3. Values(c)
      BY <2>1, <3>1, <3>2 DEF Idle, Instance, Values, Statuses
    <3>4. Instance(c, mode)
      BY <2>1, <3>2, <3>3 DEF Idle, Instance, TxOK
    <3>5. Quiet(c) /\ (c.rrSent => Coming(c, "T6"))
      BY <2>1, <3>2 DEF Idle, Quiet, Coming
    <3> QED  BY <2>1, <3>2, <3>4, <3>5 DEF Idle
  <2>8. CASE s.connNext # "NONE"
    <3>1. k = ConnectSendFrame(b, s.connNext) /\ s.connNext \in {"RST", "UA"}
      BY <1>2, <2>2, <2>3, <2>4, <2>8 DEF ConnectWriteFrameCompleted
    <3>2. Idle(k, mode) /\ "ConnectDone" \notin Fns(k.dfc) /\ k.status # "UA_SENT"
          /\ (k.tx = b.tx \/ k.tx.new)
      BY <2>7, <3>1, ConnectSendIdle
    <3> QED  BY <1>2, <2>6, <3>2, IdleSettled
  <2>9. CASE s.connNext = "NONE" /\ a.status = "UA_SENT"
    <3>1. k = ConnectCompleted(a)
      BY <1>2, <2>3, <2>9 DEF ConnectWriteFrameCompleted
    <3> QED  BY <1>2, <2>5, <2>7, <3>1, ConnectCompletedSettled
  <2>10. CASE s.connNext = "NONE" /\ a.status # "UA_SENT"
    <3>1. k = a
      BY <1>2, <2>3, <2>10 DEF ConnectWriteFrameCompleted
    <3> QED  BY <1>2, <2>5, <2>7, <2>10, <3>1, IdleSettled
  <2> QED  BY <2>8, <2>9, <2>10
<1> QED  BY <1>1, <1>2

(* The frame layer is emptied. *)
LEMMA FramePreResetEffect ==
    ASSUME NEW mode \in Modes, NEW s, DOMAIN s = Fields, s.dfc \in Seq(DfcCalls(mode)),
           NEW k, k = FramePreReset(s)
    PROVE  /\ Only(s, k, {"dfc", "tx", "reading"}) /\ k.dfc \in Seq(DfcCalls(mode))
           /\ Fns(k.dfc) = Fns(s.dfc) \ FrameCalls /\ k.tx = NoTx
<1>1. PICK a : a = Flush(s, FrameCalls)
  OBVIOUS
<1>2. /\ Only(s, a, {"dfc"}) /\ a.dfc \in Seq(DfcCalls(mode))
      /\ Fns(a.dfc) = Fns(s.dfc) \ FrameCalls
  BY <1>1, FlushEffect
<1>3. k = [a EXCEPT !.tx = NoTx, !.reading = FALSE]
  BY <1>1 DEF FramePreReset
<1>4. Only(s, k, {"dfc", "tx", "reading"}) /\ k.dfc = a.dfc /\ k.tx = NoTx
  BY <1>2, <1>3 DEF Only, Fields
<1> QED  BY <1>2, <1>4

(* An instance that is idle stays so when the frame layer starts again. *)
LEMMA RestartIdle ==
    ASSUME NEW mode \in Modes, NEW s, Idle(s, mode), "ConnectDone" \notin Fns(s.dfc),
           NEW k, DOMAIN k = Fields, Only(s, k, {"status", "connCb", "dfc", "tx", "reading"}),
           k.status = "INIT", k.dfc \in Seq(DfcCalls(mode)),
           Fns(k.dfc) = Fns(s.dfc) \/ Fns(k.dfc) = Fns(s.dfc) \ FrameCalls,
           TxOK(k)
    PROVE  Idle(k, mode) /\ "ConnectDone" \notin Fns(k.dfc)
<1>1. /\ k.connNext = s.connNext /\ k.window = s.window
      /\ k.lastAck = s.lastAck /\ k.nextToSend = s.nextToSend /\ k.nextWindow = s.nextWindow
      /\ k.readNext = s.readNext /\ k.readLastAck = s.readLastAck /\ k.buf = s.buf
      /\ k.ready = s.ready /\ k.rrSent = s.rrSent /\ k.armed = s.armed
      /\ k.pending = s.pending /\ k.ctrl = s.ctrl
  BY DEF Only, Fields
<1>2. "ConnectDone" \notin Fns(k.dfc) /\ ("T6" \in Fns(s.dfc) => "T6" \in Fns(k.dfc))
  BY DEF FrameCalls
<1>3. Values(k)
  BY <1>1 DEF Idle, Instance, Values, Statuses
<1>4. Instance(k, mode)
  BY <1>1, <1>3 DEF Idle, Instance
<1>5. Quiet(k) /\ (k.rrSent => Coming(k, "T6"))
  BY <1>1, <1>2 DEF Idle, Quiet, Coming
<1> QED  BY <1>2, <1>4, <1>5 DEF Idle

(* RST is sent again: T3 has expired, or the controller is reset. *)
LEMMA ConnectTimerSettled ==
    ASSUME NEW mode \in Modes, NEW s, Idle(s, mode), "ConnectDone" \notin Fns(s.dfc),
           NEW k, k = ConnectTimerCompleted(s)
    PROVE  Settled(k, mode) /\ k.status # "UA_SENT"
<1>1. DOMAIN s = Fields /\ s.dfc \in Seq(DfcCalls(mode))
  BY DEF Idle, Instance
<1>2. PICK a : a = FramePreReset(s)
  OBVIOUS
<1>3. /\ Only(s, a, {"dfc", "tx", "reading"}) /\ a.dfc \in Seq(DfcCalls(mode))
      /\ Fns(a.dfc) = Fns(s.dfc) \ FrameCalls /\ a.tx = NoTx
  BY <1>1, <1>2, FramePreResetEffect
<1>4. PICK b : b = [[a EXCEPT !.reading = TRUE] EXCEPT !.status = "INIT"]
  OBVIOUS
<1>5. k = ConnectSendFrame(b, "RST")
  BY <1>2, <1>4 DEF ConnectTimerCompleted, FrameRead
<1>6. /\ Only(s, b, {"status", "connCb", "dfc", "tx", "reading"}) /\ b.status = "INIT"
      /\ b.dfc = a.dfc /\ b.tx = NoTx /\ DOMAIN b = Fields
  BY <1>3, <1>4 DEF Only, Fields
<1>7. TxOK(b)
  BY <1>6 DEF TxOK
<1>8. b.dfc \in Seq(DfcCalls(mode)) /\ Fns(b.dfc) = Fns(s.dfc) \ FrameCalls
  BY <1>3, <1>6
<1>9. Idle(b, mode) /\ "ConnectDone" \notin Fns(b.dfc)
  BY <1>6, <1>7, <1>8, RestartIdle
<1>10. Idle(k, mode) /\ "ConnectDone" \notin Fns(k.dfc) /\ k.status # "UA_SENT"
  BY <1>5, <1>9, ConnectSendIdle
<1> QED  BY <1>10, IdleSettled

(* PSHDLCConnect starts the frame layer and sends RST. *)
LEMMA ConnectSettled ==
    ASSUME NEW mode \in Modes, NEW s, Idle(s, mode), "ConnectDone" \notin Fns(s.dfc),
           NEW k, k = PSHDLCConnect(s)
    PROVE  Settled(k, mode) /\ k.status # "UA_SENT"
<1>1. DOMAIN s = Fields /\ s.dfc \in Seq(DfcCalls(mode)) /\ TxOK(s)
  BY DEF Idle, Instance
<1>2. PICK b : b = [[s EXCEPT !.status = "INIT", !.connCb = TRUE] EXCEPT !.reading = TRUE]
  OBVIOUS
<1>3. k = ConnectSendFrame(b, "RST")
  BY <1>2 DEF PSHDLCConnect, FrameRead
<1>4. /\ Only(s, b, {"status", "connCb", "dfc", "tx", "reading"}) /\ b.status = "INIT"
      /\ b.dfc = s.dfc /\ b.tx = s.tx /\ DOMAIN b = Fields
  BY <1>1, <1>2 DEF Only, Fields
<1>5. TxOK(b)
  BY <1>1, <1>4 DEF TxOK
<1>6. b.dfc \in Seq(DfcCalls(mode)) /\ Fns(b.dfc) = Fns(s.dfc)
  BY <1>1, <1>4
<1>7. Idle(b, mode) /\ "ConnectDone" \notin Fns(b.dfc)
  BY <1>4, <1>5, <1>6, RestartIdle
<1>8. Idle(k, mode) /\ "ConnectDone" \notin Fns(k.dfc) /\ k.status # "UA_SENT"
  BY <1>3, <1>7, ConnectSendIdle
<1> QED  BY <1>8, IdleSettled

(* The HAL is reset: only T6 survives, and deferred calls that are none of *)
(* the link's.                                                             *)
LEMMA PreResetSettled ==
    ASSUME NEW mode \in Modes, NEW s, DOMAIN s = Fields, s.dfc \in Seq(DfcCalls(mode)),
           s.armed \subseteq Timers \ {"T1"}, "ConnectDone" \notin Fns(s.dfc),
           NEW k, k = PSHDLCPreReset(s)
    PROVE  Settled(k, mode) /\ k.status = "RESET_PENDING" /\ k.tx = NoTx
<1>1. PICK a : a = FramePreReset(s)
  OBVIOUS
<1>2. /\ Only(s, a, {"dfc", "tx", "reading"}) /\ a.dfc \in Seq(DfcCalls(mode))
      /\ Fns(a.dfc) = Fns(s.dfc) \ FrameCalls
  BY <1>1, FramePreResetEffect
<1>3. PICK b : b = Flush(a, {"T1", "T2", "T3", "T4"})
  OBVIOUS
<1>4. /\ b.dfc \in Seq(DfcCalls(mode)) /\ Fns(b.dfc) = Fns(a.dfc) \ {"T1", "T2", "T3", "T4"}
  <2>1. DOMAIN a = Fields
    BY <1>2 DEF Only
  <2>2. a.dfc \in Seq(DfcCalls(mode))
    BY <1>2
  <2>3. PICK fns : fns = {"T1", "T2", "T3", "T4"}
    OBVIOUS
  <2>4. b = Flush(a, fns)
    BY <1>3, <2>3
  <2>5. b.dfc \in Seq(DfcCalls(mode)) /\ Fns(b.dfc) = Fns(a.dfc) \ fns
    BY <2>1, <2>2, <2>4, FlushEffect
  <2> QED  BY <2>3, <2>5
<1>5. k = [Created EXCEPT !.status = "RESET_PENDING", !.dfc = b.dfc, !.armed = s.armed \cap {"T6"}]
  BY <1>1, <1>3 DEF PSHDLCPreReset
<1>6. DOMAIN Created = Fields
  BY DEF Created, Fields
<1>7. /\ DOMAIN k = Fields /\ k.status = "RESET_PENDING" /\ k.dfc = b.dfc
      /\ k.armed = s.armed \cap {"T6"}
  BY <1>5, <1>6 DEF Fields
<1>8. /\ k.connNext = "NONE" /\ k.ctrl = "NONE" /\ k.window = P_SHDLC_MAX_WINDOW_SIZE
      /\ k.readNext = 32 /\ k.readLastAck = 31 /\ k.lastAck = 31
      /\ k.nextToSend = 32 /\ k.nextWindow = 32 /\ k.buf = <<>> /\ k.tx = NoTx
  BY <1>5 DEF Created, FirstId
<1>9. k.ready = TRUE /\ k.pending = FALSE /\ k.rrSent = FALSE
  BY <1>5 DEF Created
<1>10. Values(k)
  <2>1. k.ready \in BOOLEAN /\ k.pending \in BOOLEAN /\ k.rrSent \in BOOLEAN
    BY <1>9
  <2>2. k.nextToSend <= k.lastAck + 1 + k.window
    BY <1>8 DEF P_SHDLC_MAX_WINDOW_SIZE
  <2> QED  BY <1>7, <1>8, <2>1, <2>2 DEF Values, Statuses
<1>11. TxOK(k)
  BY <1>8 DEF TxOK
<1>12. Instance(k, mode)
  BY <1>4, <1>7, <1>9, <1>10, <1>11 DEF Instance
<1>13. Quiet(k)
  BY <1>8, <1>9 DEF Quiet
<1>14. Idle(k, mode) /\ "ConnectDone" \notin Fns(k.dfc)
  BY <1>2, <1>4, <1>7, <1>9, <1>12, <1>13 DEF Idle
<1> QED  BY <1>7, <1>8, <1>14, IdleSettled

-----------------------------------------------------------------------------
(* Acknowledgements.                                                       *)

(* The calls of the write handler are posted. *)
LEMMA AcknowledgeSettled ==
    ASSUME NEW mode \in Modes, NEW s, Settled(s, mode), s.status = "UA_SENT",
           NEW nr \in Int, s.lastAck < nr, nr <= s.nextWindow, NEW k, k = Acknowledge(s, nr)
    PROVE  Settled(k, mode) /\ k.status = "UA_SENT"
<1>1. /\ Sound(s, mode) /\ CtrlTried(s) /\ DOMAIN s = Fields /\ s.dfc \in Seq(DfcCalls(mode))
      /\ Values(s) /\ s.lastAck \in Nat /\ s.nextWindow \in Nat /\ s.nextToSend \in Nat
      /\ s.nextWindow <= s.nextToSend /\ s.nextToSend <= s.lastAck + 1 + s.window
      /\ s.window = P_SHDLC_MAX_WINDOW_SIZE
  BY DEF Settled, Sound, Instance, Values
<1> DEFINE ends  == {i \in s.lastAck + 1..nr - 1 : s.slots[i % s.window].pay.last}
           calls == [i \in 1..Cardinality(ends) |-> [fn |-> "Acknowledged"]]
           acked == [s EXCEPT !.dfc = @ \o calls, !.lastAck = nr - 1, !.nextWindow = nr]
           idle  == [TimerCancel(acked, "T2") EXCEPT !.writeFull = FALSE]
<1>2. Cardinality(ends) \in Nat
  <2>1. IsFiniteSet(s.lastAck + 1..nr - 1)
    BY <1>1, FS_Interval
  <2>2. IsFiniteSet(ends)
    BY <2>1, FS_Subset
  <2> QED  BY <2>2, FS_CardinalityType
<1>3. k = IF nr # s.nextToSend THEN WriteTransmit(acked, FALSE)
          ELSE IF s.writeFull /\ ends = {} THEN Post(idle, "BufferFree") ELSE idle
  BY DEF Acknowledge
<1> HIDE DEF ends
<1>4. [fn |-> "Acknowledged"] \in DfcCalls(mode) /\ [fn |-> "Acknowledged"].fn = "Acknowledged"
  BY DEF DfcCalls, PlainCalls
<1>5. PICK q : q = s.dfc \o calls
  OBVIOUS
<1>6. /\ q \in Seq(DfcCalls(mode))
      /\ Fns(s.dfc) \subseteq Fns(q) /\ Fns(q) \subseteq Fns(s.dfc) \union {"Acknowledged"}
  <2>1. PICK n, c : n = Cardinality(ends) /\ c = [fn |-> "Acknowledged"]
    OBVIOUS
  <2>2. n \in Nat /\ c \in DfcCalls(mode) /\ c.fn = "Acknowledged"
    BY <1>2, <1>4, <2>1
  <2>3. calls = [i \in 1..n |-> c]
    BY <2>1
  <2>4. s.dfc \in Seq(DfcCalls(mode))
    BY <1>1
  <2> HIDE DEF calls
  <2>5. PICK d : d = s.dfc
    OBVIOUS
  <2>6. d \in Seq(DfcCalls(mode))
    BY <2>4, <2>5
  <2>7. /\ d \o calls \in Seq(DfcCalls(mode))
        /\ Fns(d) \subseteq Fns(d \o calls) /\ Fns(d \o calls) \subseteq Fns(d) \union {c.fn}
    BY <2>2, <2>3, <2>6, ConcatCalls
  <2> QED  BY <1>5, <2>2, <2>5, <2>7
<1> HIDE DEF calls
<1>7. PICK a : a = acked
  OBVIOUS
<1>8. a = [s EXCEPT !.dfc = q, !.lastAck = nr - 1, !.nextWindow = nr]
  BY <1>1, <1>5, <1>7 DEF Fields
<1>9. /\ Only(s, a, {"dfc", "lastAck", "nextWindow"}) /\ a.dfc = q /\ a.lastAck = nr - 1
      /\ a.nextWindow = nr
  BY <1>1, <1>8 DEF Only, Fields
<1>10. k = IF nr # s.nextToSend THEN WriteTransmit(a, FALSE)
           ELSE IF s.writeFull /\ ends = {}
                THEN Post([TimerCancel(a, "T2") EXCEPT !.writeFull = FALSE], "BufferFree")
                ELSE [TimerCancel(a, "T2") EXCEPT !.writeFull = FALSE]
  BY <1>3, <1>7
<1> HIDE DEF acked
<1>11. /\ DOMAIN a = Fields /\ a.status = s.status /\ a.connNext = s.connNext
       /\ a.window = s.window /\ a.nextToSend = s.nextToSend
       /\ a.readNext = s.readNext /\ a.readLastAck = s.readLastAck /\ a.buf = s.buf
       /\ a.ready = s.ready /\ a.rrSent = s.rrSent /\ a.armed = s.armed
       /\ a.pending = s.pending /\ a.ctrl = s.ctrl /\ a.tx = s.tx
  BY <1>9 DEF Only, Fields
<1>12. Values(a)
  <2>1. /\ a.lastAck \in Nat /\ a.nextWindow \in Nat /\ a.lastAck < a.nextWindow
        /\ a.nextWindow <= a.nextToSend /\ a.nextToSend <= a.lastAck + 1 + a.window
    BY <1>1, <1>9, <1>11 DEF P_SHDLC_MAX_WINDOW_SIZE
  <2> QED  BY <1>1, <1>11, <2>1 DEF Values
<1>13. TxOK(a)
  BY <1>1, <1>6, <1>9, <1>11 DEF Sound, Instance, TxOK
<1>14. Instance(a, mode)
  BY <1>1, <1>6, <1>9, <1>11, <1>12, <1>13 DEF Sound, Instance
<1>15. Phases(a)
  BY <1>1, <1>6, <1>9, <1>11 DEF Sound, Phases, Coming
<1>16. Awaited(a)
  <2>1. a.nextToSend > a.lastAck + 1 => a.nextWindow # a.nextToSend
    BY <1>1, <1>9, <1>11
  <2> QED  BY <1>1, <1>6, <1>9, <1>11, <2>1 DEF Sound, Awaited, Coming
<1>17. Sound(a, mode)
  BY <1>14, <1>15, <1>16 DEF Sound
<1>18. CASE nr # s.nextToSend
  <2>1. k = WriteTransmit(a, FALSE)
    BY <1>10, <1>18
  <2> QED  BY <1>11, <1>17, <2>1, TransmitSettled
<1>19. CASE nr = s.nextToSend
  <2>1. PICK c : c = TimerCancel(a, "T2")
    OBVIOUS
  <2>2. DOMAIN a = Fields /\ a.dfc \in Seq(DfcCalls(mode))
    BY <1>6, <1>9, <1>11
  <2>3. /\ Only(a, c, {"armed", "dfc"}) /\ c.dfc \in Seq(DfcCalls(mode))
        /\ c.armed = a.armed \ {"T2"} /\ Fns(c.dfc) = Fns(a.dfc) \ {"T2"}
    BY <2>1, <2>2, TimerCancelEffect
  <2>4. PICK e : e = [c EXCEPT !.writeFull = FALSE]
    OBVIOUS
  <2>5. Only(a, e, {"armed", "dfc", "writeFull"}) /\ e.armed = c.armed /\ e.dfc = c.dfc
    BY <2>3, <2>4 DEF Only, Fields
  <2>6. k = e \/ k = Post(e, "BufferFree")
    BY <1>10, <1>19, <2>1, <2>4
  <2>7. /\ Only(e, k, {"dfc"}) /\ k.dfc \in Seq(DfcCalls(mode))
        /\ Fns(e.dfc) \subseteq Fns(k.dfc) /\ Fns(k.dfc) \subseteq Fns(e.dfc) \union {"BufferFree"}
    <3>1. DOMAIN e = Fields /\ e.dfc \in Seq(DfcCalls(mode)) /\ "BufferFree" \in PlainCalls
      BY <2>3, <2>5 DEF Only, PlainCalls
    <3>2. CASE k = e
      BY <3>1, <3>2 DEF Only
    <3>3. CASE k = Post(e, "BufferFree")
      <4>1. /\ Only(e, k, {"dfc"}) /\ k.dfc \in Seq(DfcCalls(mode))
            /\ Fns(k.dfc) = Fns(e.dfc) \union {"BufferFree"}
        BY <3>1, <3>3, PostEffect
      <4> QED  BY <4>1
    <3> QED  BY <2>6, <3>2, <3>3
  <2>8. /\ DOMAIN k = Fields /\ k.status = a.status /\ k.connNext = a.connNext
        /\ k.window = a.window /\ k.nextToSend = a.nextToSend
        /\ k.lastAck = a.lastAck /\ k.nextWindow = a.nextWindow
        /\ k.readNext = a.readNext /\ k.readLastAck = a.readLastAck /\ k.buf = a.buf
        /\ k.ready = a.ready /\ k.rrSent = a.rrSent /\ k.armed = a.armed \ {"T2"}
        /\ k.pending = a.pending /\ k.ctrl = a.ctrl /\ k.tx = a.tx
    BY <2>3, <2>5, <2>7 DEF Only, Fields
  <2>9. /\ Fns(a.dfc) \ {"T2"} \subseteq Fns(k.dfc)
        /\ Fns(k.dfc) \subseteq Fns(a.dfc) \union {"BufferFree"}
    BY <2>3, <2>5, <2>7
  <2>10. Values(k)
    BY <1>12, <2>8 DEF Values
  <2>11. TxOK(k)
    BY <1>13, <2>8, <2>9 DEF TxOK
  <2>12. Instance(k, mode)
    BY <1>14, <2>7, <2>8, <2>10, <2>11 DEF Instance
  <2>13. Phases(k)
    BY <1>11, <1>15, <2>8, <2>9 DEF Phases, Coming
  <2>14. Awaited(k)
    <3>1. k.nextToSend = k.lastAck + 1 /\ k.lastAck \in Nat
      BY <1>1, <1>9, <1>11, <1>19, <2>8
    <3> QED  BY <1>16, <2>8, <2>9, <3>1 DEF Awaited, Coming
  <2>15. CtrlTried(k)
    BY <1>1, <1>6, <1>9, <1>11, <2>8, <2>9 DEF CtrlTried, Coming
  <2>16. IFrameTried(k)
    BY <1>9, <1>11, <1>19, <2>8 DEF IFrameTried
  <2> QED  BY <1>11, <2>8, <2>12, <2>13, <2>14, <2>15, <2>16 DEF Sound, Settled
<1> QED  BY <1>18, <1>19

(* The fields one by one, for a change of ctrl, of the flags or of nothing *)
(* the transmission depends on. *)
SameLink(s, k) ==
    /\ DOMAIN k = Fields /\ k.status = s.status /\ k.connNext = s.connNext /\ k.window = s.window
    /\ k.lastAck = s.lastAck /\ k.nextToSend = s.nextToSend /\ k.nextWindow = s.nextWindow
    /\ k.tx = s.tx

(* What says whether I frames may be sent. *)
LEMMA ReadySettled ==
    ASSUME NEW mode \in Modes, NEW s, Settled(s, mode), NEW ready \in BOOLEAN,
           mode = "calm" => ready, NEW k, k = [s EXCEPT !.ready = ready]
    PROVE  /\ Settled(k, mode) /\ SameLink(s, k)
<1>1. DOMAIN s = Fields
  BY DEF Settled, Sound, Instance
<1>2. SameLink(s, k)
  BY <1>1 DEF Fields, SameLink
<1>3. /\ k.readNext = s.readNext /\ k.readLastAck = s.readLastAck /\ k.buf = s.buf
      /\ k.ready = ready /\ k.rrSent = s.rrSent /\ k.armed = s.armed /\ k.dfc = s.dfc
      /\ k.pending = s.pending /\ k.ctrl = s.ctrl
  BY <1>1 DEF Fields
<1>4. Values(k)
  BY <1>2, <1>3 DEF Settled, Sound, Instance, Values, SameLink
<1>5. Instance(k, mode)
  BY <1>2, <1>3, <1>4 DEF Settled, Sound, Instance, TxOK, SameLink
<1>6. Phases(k) /\ Awaited(k)
  BY <1>2, <1>3 DEF Settled, Sound, Phases, Quiet, Awaited, Coming, SameLink
<1>7. CtrlTried(k) /\ (mode = "calm" => IFrameTried(k))
  BY <1>2, <1>3 DEF Settled, CtrlTried, IFrameTried, Coming, SameLink
<1> QED  BY <1>2, <1>5, <1>6, <1>7 DEF Sound, Settled

(* An RR, RNR or REJ, or the acknowledgement that an I frame carries. *)
LEMMA ReceptionSettled ==
    ASSUME NEW mode \in Modes, NEW s, Settled(s, mode), s.status = "UA_SENT", NEW f,
           f.t \in {"RR", "RNR", "REJ"} => f.nr \in 0..7, mode = "calm" => f.t # "RNR",
           NEW r, r = WriteReceptionCtrlFrame(s, f)
    PROVE  Settled(r.s, mode) /\ r.s.status = "UA_SENT"
<1>1. /\ DOMAIN s = Fields /\ s.lastAck \in Nat /\ s.nextWindow \in Nat /\ s.nextToSend \in Nat
      /\ s.nextWindow <= s.nextToSend /\ s.nextToSend <= s.lastAck + 1 + s.window
      /\ s.window = P_SHDLC_MAX_WINDOW_SIZE
  BY DEF Settled, Sound, Instance, Values
<1>2. PICK ready : ready = (f.t # "RNR")
  OBVIOUS
<1>3. PICK seen : seen = [s EXCEPT !.ready = ready]
  OBVIOUS
<1>4. Settled(seen, mode) /\ SameLink(s, seen)
  BY <1>2, <1>3, ReadySettled
<1>5. PICK nr : nr = Rebuild32BitIdentifier(s, f.nr)
  OBVIOUS
<1>6. PICK lost : lost = s.nextWindow - nr
  OBVIOUS
<1>7. r = IF f.t \notin {"RR", "RNR", "REJ"} THEN [ok |-> TRUE, s |-> s]
          ELSE IF ~(s.lastAck < nr /\ nr <= s.nextWindow) THEN [ok |-> FALSE, s |-> seen]
          ELSE IF lost = 1 THEN [ok |-> TRUE, s |-> [seen EXCEPT !.lastAck = nr - 1]]
          ELSE [ok |-> TRUE, s |-> Acknowledge(seen, nr)]
  BY <1>2, <1>3, <1>5, <1>6 DEF WriteReceptionCtrlFrame
<1>8. CASE f.t \notin {"RR", "RNR", "REJ"}
  BY <1>7, <1>8
<1>9. CASE f.t \in {"RR", "RNR", "REJ"} /\ ~(s.lastAck < nr /\ nr <= s.nextWindow)
  BY <1>4, <1>7, <1>9 DEF SameLink
<1>10. CASE f.t \in {"RR", "RNR", "REJ"} /\ s.lastAck < nr /\ nr <= s.nextWindow
  <2>1. nr \in Int
    BY <1>1, <1>5, <1>10 DEF Rebuild32BitIdentifier, ThreeBits
  <2>2. seen.status = "UA_SENT" /\ seen.lastAck < nr /\ nr <= seen.nextWindow
    BY <1>4, <1>10 DEF SameLink
  <2>3. CASE lost # 1
    <3>1. r.s = Acknowledge(seen, nr)
      BY <1>7, <1>10, <2>3
    <3> QED  BY <1>4, <2>1, <2>2, <3>1, AcknowledgeSettled
  <2>4. CASE lost = 1
    <3>1. nr - 1 = s.lastAck
      BY <1>1, <1>6, <1>10, <2>1, <2>4 DEF P_SHDLC_MAX_WINDOW_SIZE
    <3>2. r.s = [seen EXCEPT !.lastAck = nr - 1]
      BY <1>7, <1>10, <2>4
    <3>3. DOMAIN seen = Fields /\ seen.lastAck = nr - 1
      BY <1>4, <3>1 DEF SameLink
    <3>4. [seen EXCEPT !.lastAck = nr - 1] = seen
      <4>1. seen = [x \in Fields |-> seen[x]]
        BY <1>3, <3>3
      <4> QED  BY <3>3, <4>1 DEF Fields
    <3> QED  BY <1>4, <2>2, <3>2, <3>4
  <2> QED  BY <2>3, <2>4
<1> QED  BY <1>8, <1>9, <1>10

-----------------------------------------------------------------------------
(* Reception and transmission, from outside.                               *)

(* On a connection that is up a control frame may be chosen, and a flag be *)
(* cleared, before the transmission is tried.                              *)
LEMMA ChangesSound ==
    ASSUME NEW mode \in Modes, NEW s, NEW k, Sound(s, mode), s.status = "UA_SENT",
           Only(s, k, {"dfc", "armed", "buf", "readNext", "ctrl", "rrSent", "pending"} \union Inert),
           k.dfc \in Seq(DfcCalls(mode)), k.armed \subseteq Timers \ {"T1"},
           k.buf \in Seq(PeerPayloads), k.readNext \in Nat, s.readNext <= k.readNext,
           k.ctrl \in {"NONE", "RR", "RNR", "REJ", "UA"},
           k.rrSent \in BOOLEAN, k.rrSent => s.rrSent /\ (Coming(s, "T6") => Coming(k, "T6")),
           k.pending \in BOOLEAN, k.pending => s.pending,
           k.pending /\ "FrameWritten" \in Fns(s.dfc) => "FrameWritten" \in Fns(k.dfc),
           s.tx # NoTx /\ s.tx.new => s.tx.cb \in Fns(k.dfc),
           Coming(s, "T2") => Coming(k, "T2"), Coming(k, "T3") => Coming(s, "T3")
    PROVE  Sound(k, mode) /\ k.status = "UA_SENT"
<1>1. /\ DOMAIN k = Fields
      /\ k.status = s.status /\ k.connNext = s.connNext /\ k.window = s.window
      /\ k.lastAck = s.lastAck /\ k.nextToSend = s.nextToSend /\ k.nextWindow = s.nextWindow
      /\ k.ready = s.ready /\ k.tx = s.tx /\ k.readLastAck = s.readLastAck
  BY DEF Only, Fields, Inert
<1>2. s.readLastAck \in Nat /\ s.readNext \in Nat /\ s.readLastAck < s.readNext
  BY DEF Sound, Instance, Values
<1>3. k.readLastAck < k.readNext
  BY <1>1, <1>2
<1>4. Values(k)
  BY <1>1, <1>3 DEF Sound, Instance, Values
<1>5. TxOK(k)
  BY <1>1 DEF Sound, Instance, TxOK
<1>6. Instance(k, mode)
  BY <1>1, <1>4, <1>5 DEF Sound, Instance
<1>7. Phases(k)
  BY <1>1 DEF Sound, Phases
<1>8. Awaited(k)
  BY <1>1 DEF Sound, Awaited
<1> QED  BY <1>1, <1>6, <1>7, <1>8 DEF Sound

(* The control frame is chosen, and readFull with it. *)
LEMMA CtrlSound ==
    ASSUME NEW mode \in Modes, NEW s, Sound(s, mode), s.status = "UA_SENT",
           NEW k, Only(s, k, {"ctrl", "readFull"}), k.ctrl \in {"RR", "RNR", "REJ", "UA"}
    PROVE  Sound(k, mode) /\ k.status = "UA_SENT"
<1>1. DOMAIN s = Fields /\ s.dfc \in Seq(DfcCalls(mode)) /\ s.armed \subseteq Timers \ {"T1"}
      /\ s.buf \in Seq(PeerPayloads) /\ s.readNext \in Nat /\ s.rrSent \in BOOLEAN
      /\ s.pending \in BOOLEAN /\ TxOK(s)
  BY DEF Sound, Instance, Values
<1>3. Only(s, k, {"dfc", "armed", "buf", "readNext", "ctrl", "rrSent", "pending"} \union Inert)
  BY DEF Only, Inert
<1>4. /\ k.dfc = s.dfc /\ k.armed = s.armed /\ k.buf = s.buf /\ k.readNext = s.readNext
      /\ k.rrSent = s.rrSent /\ k.pending = s.pending
  BY DEF Only, Fields
<1>5. s.tx # NoTx /\ s.tx.new => s.tx.cb \in Fns(k.dfc)
  BY <1>1, <1>4 DEF TxOK
<1>6. /\ Coming(s, "T2") => Coming(k, "T2")
      /\ Coming(s, "T6") => Coming(k, "T6")
      /\ Coming(k, "T3") => Coming(s, "T3")
  BY <1>4 DEF Coming
<1>7. /\ k.dfc \in Seq(DfcCalls(mode)) /\ k.armed \subseteq Timers \ {"T1"}
      /\ k.buf \in Seq(PeerPayloads) /\ k.readNext \in Nat /\ s.readNext <= k.readNext
      /\ k.ctrl \in {"NONE", "RR", "RNR", "REJ", "UA"}
      /\ k.rrSent \in BOOLEAN /\ k.pending \in BOOLEAN
      /\ k.rrSent => s.rrSent /\ (Coming(s, "T6") => Coming(k, "T6"))
      /\ k.pending => s.pending
      /\ k.pending /\ "FrameWritten" \in Fns(s.dfc) => "FrameWritten" \in Fns(k.dfc)
  BY <1>1, <1>4, <1>6
<1> QED  BY <1>3, <1>5, <1>6, <1>7, ChangesSound

(* The I frame that is expected: an RR is owed for it at once. *)
LEMMA AcceptedSettled ==
    ASSUME NEW mode \in Modes, NEW s, Sound(s, mode), s.status = "UA_SENT",
           NEW pay \in PeerPayloads, NEW k, k = ReadAccepted(s, pay)
    PROVE  Settled(k, mode) /\ k.status = "UA_SENT"
<1>1. DOMAIN s = Fields /\ s.dfc \in Seq(DfcCalls(mode)) /\ s.armed \subseteq Timers \ {"T1"}
      /\ s.buf \in Seq(PeerPayloads) /\ s.readNext \in Nat /\ s.rrSent \in BOOLEAN
      /\ s.pending \in BOOLEAN /\ TxOK(s) /\ s.window = 1
      /\ s.readLastAck \in Nat /\ s.readLastAck < s.readNext
  BY DEF Sound, Instance, Values, P_SHDLC_MAX_WINDOW_SIZE
<1>2. PICK o : o = [s EXCEPT !.ctrl = "RR"]
  OBVIOUS
<1>3. /\ Only(s, o, {"ctrl"}) /\ o.ctrl = "RR" /\ DOMAIN o = Fields /\ o.dfc = s.dfc
      /\ o.armed = s.armed /\ o.rrSent = s.rrSent
  BY <1>1, <1>2 DEF Only, Fields
<1>4. PICK e : e = [o EXCEPT !.rrSent = FALSE]
  OBVIOUS
<1>5. PICK c : c = IF s.rrSent THEN TimerCancel(e, "T6") ELSE o
  OBVIOUS
<1>6. /\ Only(s, c, {"ctrl", "rrSent", "armed", "dfc"}) /\ c.ctrl = "RR"
      /\ c.dfc \in Seq(DfcCalls(mode)) /\ c.armed \subseteq s.armed /\ c.rrSent = FALSE
      /\ Fns(c.dfc) \subseteq Fns(s.dfc) /\ Fns(s.dfc) \ {"T6"} \subseteq Fns(c.dfc)
      /\ s.armed \ {"T6"} \subseteq c.armed
  <2>1. CASE s.rrSent
    <3>1. /\ Only(o, e, {"rrSent"}) /\ e.rrSent = FALSE /\ DOMAIN e = Fields /\ e.dfc = o.dfc
          /\ e.armed = o.armed
      BY <1>3, <1>4 DEF Only, Fields
    <3>2. DOMAIN e = Fields /\ e.dfc \in Seq(DfcCalls(mode)) /\ c = TimerCancel(e, "T6")
      BY <1>1, <1>3, <1>5, <2>1, <3>1
    <3>3. /\ Only(e, c, {"armed", "dfc"}) /\ c.dfc \in Seq(DfcCalls(mode))
          /\ c.armed = e.armed \ {"T6"} /\ Fns(c.dfc) = Fns(e.dfc) \ {"T6"}
      BY <3>2, TimerCancelEffect
    <3>4. Only(s, c, {"ctrl", "rrSent", "armed", "dfc"}) /\ c.ctrl = "RR" /\ c.rrSent = FALSE
      BY <1>3, <3>1, <3>3 DEF Only, Fields
    <3> QED  BY <1>3, <3>1, <3>3, <3>4
  <2>2. CASE ~s.rrSent
    <3>1. c = o
      BY <1>5, <2>2
    <3>2. Only(s, c, {"ctrl", "rrSent", "armed", "dfc"}) /\ c.rrSent = FALSE
      BY <1>1, <1>3, <2>2, <3>1 DEF Only, Fields
    <3> QED  BY <1>1, <1>3, <3>1, <3>2
  <2> QED  BY <2>1, <2>2
<1>7. PICK d : d = [c EXCEPT !.readNext = @ + 1, !.piggy = pay.kind = "chained",
                             !.buf = Append(@, pay), !.rlog = Append(@, pay)]
  OBVIOUS
<1>8. /\ Only(c, d, {"readNext", "piggy", "buf", "rlog"}) /\ d.readNext = c.readNext + 1
      /\ d.buf = Append(c.buf, pay) /\ DOMAIN d = Fields /\ d.dfc = c.dfc /\ d.armed = c.armed
      /\ d.ctrl = c.ctrl /\ d.rrSent = c.rrSent /\ d.pending = c.pending
  <2>1. DOMAIN c = Fields
    BY <1>6 DEF Only
  <2> QED  BY <1>7, <2>1 DEF Only, Fields
<1>9. PICK g : g = IF s.buf = <<>> THEN Post(d, "DataReady") ELSE d
  OBVIOUS
<1>10. /\ Only(d, g, {"dfc"}) /\ g.dfc \in Seq(DfcCalls(mode))
       /\ Fns(d.dfc) \subseteq Fns(g.dfc) /\ Fns(g.dfc) \subseteq Fns(d.dfc) \union {"DataReady"}
  <2>1. DOMAIN d = Fields /\ d.dfc \in Seq(DfcCalls(mode)) /\ "DataReady" \in PlainCalls
    BY <1>6, <1>8 DEF PlainCalls
  <2>2. CASE g = d
    BY <2>1, <2>2 DEF Only
  <2>3. CASE g = Post(d, "DataReady")
    <3>1. /\ Only(d, g, {"dfc"}) /\ g.dfc \in Seq(DfcCalls(mode))
          /\ Fns(g.dfc) = Fns(d.dfc) \union {"DataReady"}
      BY <2>1, <2>3, PostEffect
    <3> QED  BY <3>1
  <2> QED  BY <1>9, <2>2, <2>3
<1>11. \E force \in BOOLEAN : k = WriteTransmit(g, force)
  <2>1. s.readNext - s.readLastAck >= s.window
    BY <1>1
  <2>2. k = WriteTransmit(g, ForcesAck(s, pay))
    BY <1>2, <1>4, <1>5, <1>7, <1>9, <2>1 DEF ReadAccepted
  <2>3. ForcesAck(s, pay) \in BOOLEAN
    BY DEF ForcesAck
  <2> QED  BY <2>2, <2>3
<1>12. Only(s, g, {"dfc", "armed", "buf", "readNext", "ctrl", "rrSent", "pending"} \union Inert)
  BY <1>6, <1>8, <1>10 DEF Only, Inert
<1>13. /\ g.ctrl = "RR" /\ g.rrSent = FALSE /\ g.armed = c.armed /\ g.readNext = s.readNext + 1
       /\ g.buf = Append(s.buf, pay) /\ g.pending = s.pending
  BY <1>6, <1>8, <1>10 DEF Only, Fields
<1>14. /\ Fns(s.dfc) \ {"T6"} \subseteq Fns(g.dfc)
       /\ Fns(g.dfc) \subseteq Fns(s.dfc) \union {"DataReady"}
  BY <1>6, <1>8, <1>10
<1>15. g.buf \in Seq(PeerPayloads)
  BY <1>1, <1>13, AppendProperties
<1>16. /\ Coming(s, "T2") => Coming(g, "T2")
       /\ Coming(g, "T3") => Coming(s, "T3")
  BY <1>6, <1>13, <1>14 DEF Coming
<1>17. s.tx # NoTx /\ s.tx.new => s.tx.cb \in Fns(g.dfc)
  BY <1>1, <1>14 DEF TxOK
<1>18. g.armed \subseteq Timers \ {"T1"}
  BY <1>1, <1>6, <1>13
<1>19. /\ g.dfc \in Seq(DfcCalls(mode)) /\ g.readNext \in Nat /\ s.readNext <= g.readNext
       /\ g.ctrl \in {"NONE", "RR", "RNR", "REJ", "UA"}
       /\ g.rrSent \in BOOLEAN /\ g.pending \in BOOLEAN
       /\ g.rrSent => s.rrSent /\ (Coming(s, "T6") => Coming(g, "T6"))
       /\ g.pending => s.pending
       /\ g.pending /\ "FrameWritten" \in Fns(s.dfc) => "FrameWritten" \in Fns(g.dfc)
  <2>1. g.rrSent \in BOOLEAN /\ ~g.rrSent
    BY <1>13
  <2>2. g.pending \in BOOLEAN /\ (g.pending => s.pending)
    BY <1>1, <1>13
  <2>3. g.ctrl \in {"NONE", "RR", "RNR", "REJ", "UA"} /\ g.readNext \in Nat /\ s.readNext <= g.readNext
    BY <1>1, <1>13
  <2> QED  BY <1>10, <1>14, <2>1, <2>2, <2>3
<1>20. Sound(g, mode) /\ g.status = "UA_SENT"
  BY <1>12, <1>15, <1>16, <1>17, <1>18, <1>19, ChangesSound
<1> QED  BY <1>11, <1>20, TransmitSettled

(* Any I frame. *)
LEMMA ReadIFrameSettled ==
    ASSUME NEW mode \in Modes, NEW s, Settled(s, mode), s.status = "UA_SENT", NEW f,
           f.nr \in 0..7, f.pay \in PeerPayloads, NEW k, k = ReadIFrame(s, f)
    PROVE  Settled(k, mode) /\ k.status = "UA_SENT"
<1>1. PICK c : c = Ctrl("RR", f.nr)
  OBVIOUS
<1>2. PICK r : r = WriteReceptionCtrlFrame(s, c)
  OBVIOUS
<1>3. c.t = "RR" /\ c.nr \in 0..7
  BY <1>1 DEF Ctrl
<1>4. Settled(r.s, mode) /\ r.s.status = "UA_SENT"
  BY <1>2, <1>3, ReceptionSettled
<1>5. Sound(r.s, mode)
  BY <1>4 DEF Settled
<1>6. k = IF ~r.ok THEN r.s
          ELSE IF f.ns # ThreeBits(r.s.readNext)
          THEN WriteTransmit([r.s EXCEPT !.ctrl = "REJ"], TRUE)
          ELSE IF Len(r.s.buf) >= ReadCap
          THEN WriteTransmit([r.s EXCEPT !.ctrl = "RNR", !.readFull = TRUE], FALSE)
          ELSE ReadAccepted(r.s, f.pay)
  BY <1>1, <1>2 DEF ReadIFrame
<1>7. \/ k = r.s
      \/ k = WriteTransmit([r.s EXCEPT !.ctrl = "REJ"], TRUE)
      \/ k = WriteTransmit([r.s EXCEPT !.ctrl = "RNR", !.readFull = TRUE], FALSE)
      \/ k = ReadAccepted(r.s, f.pay)
  BY <1>6
<1>8. CASE k = r.s
  BY <1>4, <1>8
<1>9. CASE k = WriteTransmit([r.s EXCEPT !.ctrl = "REJ"], TRUE)
  <2>1. PICK g : g = [r.s EXCEPT !.ctrl = "REJ"]
    OBVIOUS
  <2>2. Sound(g, mode) /\ g.status = "UA_SENT"
    <3>1. DOMAIN r.s = Fields
      BY <1>5 DEF Sound, Instance
    <3>2. Only(r.s, g, {"ctrl", "readFull"}) /\ g.ctrl \in {"RR", "RNR", "REJ", "UA"}
      BY <2>1, <3>1 DEF Only, Fields
    <3> QED  BY <1>4, <1>5, <3>2, CtrlSound
  <2>3. k = WriteTransmit(g, TRUE)
    BY <1>9, <2>1
  <2> QED  BY <2>2, <2>3, TransmitSettled
<1>10. CASE k = WriteTransmit([r.s EXCEPT !.ctrl = "RNR", !.readFull = TRUE], FALSE)
  <2>1. PICK g : g = [r.s EXCEPT !.ctrl = "RNR", !.readFull = TRUE]
    OBVIOUS
  <2>2. Sound(g, mode) /\ g.status = "UA_SENT"
    <3>1. DOMAIN r.s = Fields
      BY <1>5 DEF Sound, Instance
    <3>2. Only(r.s, g, {"ctrl", "readFull"}) /\ g.ctrl \in {"RR", "RNR", "REJ", "UA"}
      BY <2>1, <3>1 DEF Only, Fields
    <3> QED  BY <1>4, <1>5, <3>2, CtrlSound
  <2>3. k = WriteTransmit(g, FALSE)
    BY <1>10, <2>1
  <2> QED  BY <2>2, <2>3, TransmitSettled
<1>11. CASE k = ReadAccepted(r.s, f.pay)
  BY <1>4, <1>5, <1>11, AcceptedSettled
<1> QED  BY <1>7, <1>8, <1>9, <1>10, <1>11

(* A frame received on a connection that is up. *)
LEMMA ReadSettled ==
    ASSUME NEW mode \in Modes, NEW s, Settled(s, mode), s.status = "UA_SENT",
           NEW f \in Frames(mode), NEW k, k = ReadReadCompleted(s, f)
    PROVE  Settled(k, mode) /\ k.status = "UA_SENT"
<1>1. f \in PeerFrames /\ (mode = "calm" => f.t # "RNR")
  BY DEF Frames
<1>2. CASE f.t = "I"
  <2>1. f.nr \in 0..7 /\ f.pay \in PeerPayloads
    BY <1>1, <1>2 DEF PeerFrames
  <2>2. k = ReadIFrame(s, f)
    BY <1>2 DEF ReadReadCompleted
  <2> QED  BY <2>1, <2>2, ReadIFrameSettled
<1>3. CASE f.t # "I" /\ RSTAccepted(f)
  <2>1. f.win = P_SHDLC_MAX_WINDOW_SIZE
    BY <1>3 DEF RSTAccepted, P_SHDLC_MAX_WINDOW_SIZE
  <2>2. PICK c : c = ConnectState(s, P_SHDLC_MAX_WINDOW_SIZE)
    OBVIOUS
  <2>3. Sound(c, mode) /\ c.status = "UA_SENT"
    BY <2>2, ConnectStateSound DEF Settled
  <2>4. PICK p : p = Post(c, "ResetIndication")
    OBVIOUS
  <2>5. Sound(p, mode) /\ p.status = "UA_SENT"
    <3>1. DOMAIN c = Fields /\ c.dfc \in Seq(DfcCalls(mode)) /\ "ResetIndication" \in PlainCalls
      BY <2>3 DEF Sound, Instance, PlainCalls
    <3>2. /\ Only(c, p, {"dfc"}) /\ p.dfc \in Seq(DfcCalls(mode))
          /\ Fns(p.dfc) = Fns(c.dfc) \union {"ResetIndication"}
      BY <2>4, <3>1, PostEffect
    <3>3. /\ p.buf = c.buf /\ p.armed = c.armed /\ p.readNext = c.readNext
          /\ p.readLastAck = c.readLastAck /\ p.status = c.status
      BY <3>2 DEF Only, Fields
    <3>4. /\ "FrameWritten" \in Fns(c.dfc) => "FrameWritten" \in Fns(p.dfc)
          /\ "ConnectWritten" \in Fns(c.dfc) => "ConnectWritten" \in Fns(p.dfc)
          /\ Coming(c, "T2") => Coming(p, "T2")
          /\ Coming(c, "T6") => Coming(p, "T6")
          /\ Coming(p, "T3") => Coming(c, "T3")
          /\ "ConnectDone" \in Fns(p.dfc) => "ConnectDone" \in Fns(c.dfc)
      BY <3>2, <3>3 DEF Coming
    <3>5. /\ p.buf \in Seq(PeerPayloads) /\ p.readNext \in Nat /\ p.readLastAck \in Nat
          /\ p.readLastAck < p.readNext /\ p.armed \subseteq Timers \ {"T1"}
      BY <2>3, <3>3 DEF Sound, Instance, Values
    <3>6. Only(c, p, {"dfc", "armed", "buf", "readNext", "readLastAck"} \union Inert)
      BY <3>2 DEF Only
    <3>7. p.dfc \in Seq(DfcCalls(mode))
      BY <3>2
    <3>8. Sound(p, mode)
      BY <2>3, <3>4, <3>5, <3>6, <3>7, Carries
    <3> QED  BY <2>3, <3>3, <3>8
  <2>6. PICK g : g = [p EXCEPT !.ctrl = "UA"]
    OBVIOUS
  <2>7. Sound(g, mode) /\ g.status = "UA_SENT"
    <3>1. DOMAIN p = Fields
      BY <2>5 DEF Sound, Instance
    <3>2. Only(p, g, {"ctrl", "readFull"}) /\ g.ctrl \in {"RR", "RNR", "REJ", "UA"}
      BY <2>6, <3>1 DEF Only, Fields
    <3> QED  BY <2>5, <3>2, CtrlSound
  <2>8. k = WriteTransmit(g, FALSE)
    BY <1>3, <2>1, <2>2, <2>4, <2>6 DEF ReadReadCompleted
  <2> QED  BY <2>7, <2>8, TransmitSettled
<1>4. CASE f.t # "I" /\ ~RSTAccepted(f)
  <2>1. PICK r : r = WriteReceptionCtrlFrame(s, f)
    OBVIOUS
  <2>2. f.t \in {"RR", "RNR", "REJ"} => f.nr \in 0..7
    BY <1>1 DEF PeerFrames
  <2>3. Settled(r.s, mode) /\ r.s.status = "UA_SENT"
    BY <1>1, <2>1, <2>2, ReceptionSettled
  <2>4. k = r.s
    BY <1>4, <2>1 DEF ReadReadCompleted
  <2> QED  BY <2>3, <2>4
<1> QED  BY <1>2, <1>3, <1>4

(* Whether a read is under way does not matter. *)
LEMMA FrameReadSettled ==
    ASSUME NEW mode \in Modes, NEW s, Settled(s, mode), NEW k, k = FrameRead(s)
    PROVE  Settled(k, mode) /\ k.status = s.status
<1>1. DOMAIN s = Fields
  BY DEF Settled, Sound, Instance
<1>2. /\ DOMAIN k = Fields /\ k.status = s.status /\ k.connNext = s.connNext
      /\ k.window = s.window /\ k.lastAck = s.lastAck /\ k.nextToSend = s.nextToSend
      /\ k.nextWindow = s.nextWindow /\ k.tx = s.tx
      /\ k.readNext = s.readNext /\ k.readLastAck = s.readLastAck /\ k.buf = s.buf
      /\ k.ready = s.ready /\ k.rrSent = s.rrSent /\ k.armed = s.armed /\ k.dfc = s.dfc
      /\ k.pending = s.pending /\ k.ctrl = s.ctrl
  BY <1>1 DEF FrameRead, Fields
<1>3. Instance(k, mode)
  BY <1>2 DEF Settled, Sound, Instance, Values, TxOK
<1>4. Phases(k) /\ Awaited(k)
  BY <1>2 DEF Settled, Sound, Phases, Quiet, Awaited, Coming
<1>5. CtrlTried(k) /\ (mode = "calm" => IFrameTried(k))
  BY <1>2 DEF Settled, CtrlTried, IFrameTried, Coming
<1> QED  BY <1>2, <1>3, <1>4, <1>5 DEF Sound, Settled

(* A frame received, whatever the phase. *)
LEMMA GenericReadSettled ==
    ASSUME NEW mode \in Modes, NEW s, Settled(s, mode),
           NEW f \in Frames(mode), NEW k, k = GenericReadCompleted(s, f)
    PROVE  Settled(k, mode) /\ (s.status = "UA_SENT" => k.status = "UA_SENT")
<1>1. CASE s.status = "UA_SENT"
  <2>1. PICK r : r = ReadReadCompleted(s, f)
    OBVIOUS
  <2>2. Settled(r, mode) /\ r.status = "UA_SENT"
    BY <1>1, <2>1, ReadSettled
  <2>3. k = FrameRead(r)
    BY <1>1, <2>1 DEF GenericReadCompleted
  <2> QED  BY <2>2, <2>3, FrameReadSettled
<1>2. CASE s.status # "UA_SENT"
  <2>1. PICK r : r = ConnectReadCompleted(s, f)
    OBVIOUS
  <2>2. Settled(r, mode)
    BY <1>2, <2>1, ConnectReadSettled DEF Settled
  <2>3. k = FrameRead(r)
    BY <1>2, <2>1 DEF GenericReadCompleted
  <2> QED  BY <1>2, <2>2, <2>3, FrameReadSettled
<1> QED  BY <1>1, <1>2

(* Fields the transmission does not depend on. *)
LEMMA InertSettled ==
    ASSUME NEW mode \in Modes, NEW s, Settled(s, mode), NEW k, Only(s, k, Inert)
    PROVE  Settled(k, mode) /\ k.status = s.status
<1>1. /\ k.buf = s.buf /\ k.armed = s.armed /\ k.readNext = s.readNext /\ k.dfc = s.dfc
      /\ k.readLastAck = s.readLastAck /\ k.status = s.status
  BY DEF Only, Fields, Inert
<1>2. Only(s, k, {"dfc", "armed", "buf", "readNext", "readLastAck"} \union Inert)
  BY DEF Only
<1>3. /\ k.buf \in Seq(PeerPayloads) /\ k.readNext \in Nat /\ k.readLastAck \in Nat
      /\ k.readLastAck < k.readNext /\ k.armed \subseteq Timers \ {"T1"}
      /\ k.dfc \in Seq(DfcCalls(mode))
  BY <1>1 DEF Settled, Sound, Instance, Values
<1>4. /\ Coming(s, "T2") => Coming(k, "T2")
      /\ Coming(s, "T6") => Coming(k, "T6")
      /\ Coming(s, "T4") => Coming(k, "T4")
      /\ Coming(k, "T3") => Coming(s, "T3")
  BY <1>1 DEF Coming
<1>5. Sound(s, mode)
  BY DEF Settled
<1>6. /\ Sound(k, mode)
      /\ (Coming(s, "T4") => Coming(k, "T4")) /\ CtrlTried(s) => CtrlTried(k)
      /\ IFrameTried(s) => IFrameTried(k)
  BY <1>1, <1>2, <1>3, <1>4, <1>5, Carries
<1> QED  BY <1>1, <1>4, <1>6 DEF Settled

(* PSHDLCWrite, whether the window is full or not. *)
LEMMA WriteSettled ==
    ASSUME NEW mode \in Modes, NEW s, Settled(s, mode), s.status = "UA_SENT", NEW pay,
           NEW r, r = PSHDLCWrite(s, pay)
    PROVE  Settled(r.s, mode) /\ r.s.status = "UA_SENT"
<1>1. /\ Sound(s, mode) /\ Instance(s, mode) /\ DOMAIN s = Fields /\ Values(s)
      /\ s.lastAck \in Nat /\ s.nextWindow \in Nat /\ s.nextToSend \in Nat
      /\ s.nextWindow <= s.nextToSend /\ s.window \in Nat /\ s.lastAck < s.nextWindow
  BY DEF Settled, Sound, Instance, Values, P_SHDLC_MAX_WINDOW_SIZE
<1>2. CASE s.nextToSend - s.lastAck - 1 >= s.window
  <2>1. r.s = [s EXCEPT !.writeFull = TRUE]
    BY <1>2 DEF PSHDLCWrite
  <2>2. Only(s, r.s, Inert)
    BY <1>1, <2>1 DEF Only, Fields, Inert
  <2> QED  BY <2>2, InertSettled
<1>3. CASE ~(s.nextToSend - s.lastAck - 1 >= s.window)
  <2>1. PICK slots : slots = [s.slots EXCEPT ![s.nextToSend % s.window] =
                                [t |-> "SLOT", ns |-> ThreeBits(s.nextToSend), pay |-> pay]]
    OBVIOUS
  <2>2. PICK a : a = [s EXCEPT !.slots = slots, !.nextToSend = @ + 1, !.log = Append(@, pay)]
    OBVIOUS
  <2>3. r.s = WriteTransmit(a, FALSE)
    BY <1>1, <1>3, <2>1, <2>2 DEF PSHDLCWrite, Fields
  <2>4. /\ DOMAIN a = Fields /\ a.status = s.status /\ a.connNext = s.connNext
        /\ a.window = s.window /\ a.nextToSend = s.nextToSend + 1
        /\ a.lastAck = s.lastAck /\ a.nextWindow = s.nextWindow
        /\ a.readNext = s.readNext /\ a.readLastAck = s.readLastAck /\ a.buf = s.buf
        /\ a.ready = s.ready /\ a.rrSent = s.rrSent /\ a.armed = s.armed /\ a.dfc = s.dfc
        /\ a.pending = s.pending /\ a.ctrl = s.ctrl /\ a.tx = s.tx
    BY <1>1, <2>2 DEF Fields
  <2>5. Values(a)
    <3>1. /\ a.nextToSend \in Nat /\ a.nextWindow <= a.nextToSend
          /\ a.nextToSend <= a.lastAck + 1 + a.window
      BY <1>1, <1>3, <2>4
    <3> QED  BY <1>1, <2>4, <3>1 DEF Values
  <2>6. Instance(a, mode)
    BY <1>1, <2>4, <2>5 DEF Instance, TxOK
  <2>7. Phases(a)
    BY <1>1, <2>4 DEF Sound, Phases, Coming
  <2>8. Awaited(a)
    <3>1. a.nextWindow # a.nextToSend
      BY <1>1, <2>4
    <3> QED  BY <1>1, <2>4, <3>1 DEF Sound, Awaited, Coming
  <2>9. Sound(a, mode)
    BY <2>6, <2>7, <2>8 DEF Sound
  <2> QED  BY ZenonT(40), <2>3, <2>4, <2>9, TransmitSettled
<1> QED  BY <1>2, <1>3

(* PSHDLCRead: a frame leaves the read buffer. *)
LEMMA ReadTakenSettled ==
    ASSUME NEW mode \in Modes, NEW s, Settled(s, mode), s.status = "UA_SENT", s.buf # <<>>,
           NEW k, k = PSHDLCRead(s)
    PROVE  Settled(k, mode) /\ k.status = "UA_SENT"
<1>1. /\ Sound(s, mode) /\ DOMAIN s = Fields /\ s.dfc \in Seq(DfcCalls(mode))
      /\ s.armed \subseteq Timers \ {"T1"} /\ s.buf \in Seq(PeerPayloads) /\ s.readNext \in Nat
      /\ s.readLastAck \in Nat /\ s.readLastAck < s.readNext
  BY DEF Settled, Sound, Instance, Values
<1>2. PICK a : a = [s EXCEPT !.buf = Tail(@)]
  OBVIOUS
<1>3. Only(s, a, {"buf"}) /\ a.buf = Tail(s.buf) /\ a.dfc = s.dfc /\ a.armed = s.armed
      /\ a.readNext = s.readNext /\ a.readLastAck = s.readLastAck /\ a.status = s.status
      /\ DOMAIN a = Fields
  BY <1>1, <1>2 DEF Only, Fields
<1>4. a.buf \in Seq(PeerPayloads)
  BY <1>1, <1>3, HeadTailProperties
<1>5. Only(s, a, {"dfc", "armed", "buf", "readNext", "readLastAck"} \union Inert)
  BY <1>3 DEF Only
<1>6. /\ Coming(s, "T2") => Coming(a, "T2")
      /\ Coming(s, "T6") => Coming(a, "T6")
      /\ Coming(s, "T4") => Coming(a, "T4")
      /\ Coming(a, "T3") => Coming(s, "T3")
  BY <1>3 DEF Coming
<1>7. /\ Sound(a, mode)
      /\ (Coming(s, "T4") => Coming(a, "T4")) /\ CtrlTried(s) => CtrlTried(a)
      /\ IFrameTried(s) => IFrameTried(a)
  BY <1>1, <1>3, <1>4, <1>5, <1>6, Carries
<1>8. Settled(a, mode) /\ a.status = "UA_SENT"
  BY <1>3, <1>6, <1>7 DEF Settled
<1>9. CASE k = a
  BY <1>8, <1>9
<1>10. CASE k # a
  <2>1. PICK c : c = [a EXCEPT !.readFull = FALSE, !.ctrl = "RR"]
    OBVIOUS
  <2>2. k = WriteTransmit(c, TRUE)
    BY <1>2, <1>10, <2>1 DEF PSHDLCRead
  <2>3. Only(a, c, {"ctrl", "readFull"}) /\ c.ctrl \in {"RR", "RNR", "REJ", "UA"}
    BY <1>3, <2>1 DEF Only, Fields
  <2>4. Sound(c, mode) /\ c.status = "UA_SENT"
    BY <1>7, <1>8, <2>3, CtrlSound
  <2> QED  BY <2>2, <2>4, TransmitSettled
<1> QED  BY <1>9, <1>10

(* What the end of a call or of a frame may change. *)
LEMMA StepSound ==
    ASSUME NEW mode \in Modes, NEW s, Sound(s, mode), NEW k,
           Only(s, k, {"dfc", "tx", "pending", "rrSent"}), TxOK(k), k.dfc \in Seq(DfcCalls(mode)),
           Fns(k.dfc) \subseteq Fns(s.dfc) \union {"FrameWritten", "ConnectWritten"},
           k.pending \in BOOLEAN, k.rrSent \in BOOLEAN,
           k.pending => \/ "FrameWritten" \in Fns(k.dfc)
                        \/ k.tx # NoTx /\ k.tx.cb = "FrameWritten",
           k.pending => s.pending, k.rrSent => s.rrSent,
           k.rrSent /\ Coming(s, "T6") => Coming(k, "T6"),
           s.nextWindow = s.nextToSend /\ s.nextToSend > s.lastAck + 1 /\ Coming(s, "T2")
             => Coming(k, "T2")
    PROVE  /\ Sound(k, mode) /\ k.status = s.status
           /\ (Coming(s, "T4") => Coming(k, "T4")) /\ (s.pending => k.pending)
              /\ (s.rrSent => k.rrSent) /\ Settled(s, mode) => Settled(k, mode)
<1>1. /\ DOMAIN k = Fields
      /\ k.status = s.status /\ k.connNext = s.connNext /\ k.window = s.window
      /\ k.lastAck = s.lastAck /\ k.nextToSend = s.nextToSend /\ k.nextWindow = s.nextWindow
      /\ k.readNext = s.readNext /\ k.readLastAck = s.readLastAck /\ k.buf = s.buf
      /\ k.ready = s.ready /\ k.ctrl = s.ctrl /\ k.armed = s.armed
  BY DEF Only, Fields
<1>2. Values(k)
  BY <1>1 DEF Sound, Instance, Values
<1>3. Instance(k, mode)
  BY <1>1, <1>2 DEF Sound, Instance
<1>4. ("T3" \in Fns(k.dfc) => "T3" \in Fns(s.dfc))
      /\ ("ConnectDone" \in Fns(k.dfc) => "ConnectDone" \in Fns(s.dfc))
  OBVIOUS
<1>5. Phases(k)
  BY <1>1, <1>4 DEF Sound, Phases, Quiet, Coming
<1>6. Awaited(k)
  BY <1>1 DEF Sound, Awaited
<1>7. (Coming(s, "T4") => Coming(k, "T4")) /\ (s.pending => k.pending)
              /\ (s.rrSent => k.rrSent) /\ Settled(s, mode)
      => CtrlTried(k) /\ (mode = "calm" => IFrameTried(k))
  BY <1>1 DEF Settled, CtrlTried, IFrameTried
<1> QED  BY <1>1, <1>3, <1>5, <1>6, <1>7 DEF Sound, Settled

-----------------------------------------------------------------------------
(* The com port.                                                           *)

(* The port has not taken the whole frame: its completion is withdrawn. *)
LEMMA NotTakenSettled ==
    ASSUME NEW mode \in Modes, NEW s, Settled(s, mode), NEW k, k = NotTaken(s)
    PROVE  Settled(k, mode) /\ k.status = s.status /\ Old(k)
<1>1. /\ Sound(s, mode) /\ DOMAIN s = Fields /\ s.dfc \in Seq(DfcCalls(mode)) /\ TxOK(s)
      /\ s.pending \in BOOLEAN /\ s.rrSent \in BOOLEAN
  BY DEF Settled, Sound, Instance, Values
<1>2. CASE ~(s.tx # NoTx /\ s.tx.new)
  <2>1. k = s
    BY <1>2 DEF NotTaken
  <2> QED  BY <1>2, <2>1 DEF Old
<1>3. CASE s.tx # NoTx /\ s.tx.new
  <2>1. PICK fns : fns = {s.tx.cb}
    OBVIOUS
  <2>2. PICK a : a = Flush(s, fns)
    OBVIOUS
  <2>3. /\ Only(s, a, {"dfc"}) /\ a.dfc \in Seq(DfcCalls(mode))
        /\ Fns(a.dfc) = Fns(s.dfc) \ fns
    BY <1>1, <2>2, FlushEffect
  <2>4. k = [a EXCEPT !.tx.new = FALSE]
    BY <1>3, <2>1, <2>2 DEF NotTaken
  <2>5. Only(a, k, {"tx"}) /\ k.tx = [a.tx EXCEPT !.new = FALSE] /\ k.dfc = a.dfc /\ a.tx = s.tx
    BY <2>3, <2>4 DEF Only, Fields
  <2>6. /\ DOMAIN s.tx = {"t", "f", "cb", "bad", "new"} /\ s.tx.t = "TX"
        /\ s.tx.cb \in {"FrameWritten", "ConnectWritten"}
    BY <1>1, <1>3 DEF TxOK
  <2>7. /\ DOMAIN k.tx = {"t", "f", "cb", "bad", "new"} /\ k.tx.t = "TX" /\ k.tx.cb = s.tx.cb
        /\ k.tx.new = FALSE
    BY <2>5, <2>6
  <2>8. k.tx # NoTx
    BY <2>7 DEF NoTx
  <2>9. TxOK(k) /\ Old(k)
    BY <2>6, <2>7 DEF TxOK, Old
  <2>10. /\ k.pending = s.pending /\ k.rrSent = s.rrSent /\ k.armed = s.armed
         /\ Only(s, k, {"dfc", "tx", "pending", "rrSent"})
    BY <2>3, <2>5 DEF Only, Fields
  <2>11. Fns(k.dfc) = Fns(s.dfc) \ {s.tx.cb} /\ k.dfc \in Seq(DfcCalls(mode))
    BY <2>1, <2>3, <2>5
  <2>12. k.pending => \/ "FrameWritten" \in Fns(k.dfc)
                      \/ k.tx # NoTx /\ k.tx.cb = "FrameWritten"
    <3>1. k.pending => \/ "FrameWritten" \in Fns(s.dfc) \/ s.tx.cb = "FrameWritten"
      BY <1>1, <2>10 DEF Sound, Awaited
    <3> QED  BY <2>7, <2>8, <2>11, <3>1
  <2>13. /\ Coming(s, "T2") => Coming(k, "T2")
         /\ Coming(s, "T6") => Coming(k, "T6")
         /\ Coming(s, "T4") => Coming(k, "T4")
    BY <2>6, <2>10, <2>11 DEF Coming
  <2>14. /\ k.pending \in BOOLEAN /\ k.rrSent \in BOOLEAN
         /\ (k.pending => s.pending) /\ (k.rrSent => s.rrSent)
         /\ (s.pending => k.pending) /\ (s.rrSent => k.rrSent)
         /\ Fns(k.dfc) \subseteq Fns(s.dfc) \union {"FrameWritten", "ConnectWritten"}
    BY <1>1, <2>10, <2>11
  <2> QED  BY <1>1, <2>9, <2>10, <2>11, <2>12, <2>13, <2>14, StepSound
<1> QED  BY <1>2, <1>3

(* It has: the frame buffer is free. *)
LEMMA TakenSound ==
    ASSUME NEW mode \in Modes, NEW s, Sound(s, mode), NEW k, Only(s, k, {"tx", "dfc"}), k.tx = NoTx,
           k.dfc \in Seq(DfcCalls(mode)), Fns(s.dfc) \subseteq Fns(k.dfc),
           Fns(k.dfc) \subseteq Fns(s.dfc) \union {"FrameWritten", "ConnectWritten"},
           s.tx # NoTx /\ s.tx.cb = "FrameWritten" => "FrameWritten" \in Fns(k.dfc)
    PROVE  Sound(k, mode) /\ (Settled(s, mode) => Settled(k, mode)) /\ k.status = s.status /\ Old(k)
<1>1. TxOK(k) /\ Old(k)
  BY DEF TxOK, Old
<1>2. /\ k.pending = s.pending /\ k.rrSent = s.rrSent /\ k.armed = s.armed
      /\ Only(s, k, {"dfc", "tx", "pending", "rrSent"})
  BY DEF Only, Fields
<1>3. s.pending \in BOOLEAN /\ s.rrSent \in BOOLEAN
  BY DEF Sound, Instance, Values
<1>4. k.pending => "FrameWritten" \in Fns(k.dfc)
  BY <1>2 DEF Sound, Awaited
<1>5. /\ Coming(s, "T2") => Coming(k, "T2")
      /\ Coming(s, "T6") => Coming(k, "T6")
      /\ Coming(s, "T4") => Coming(k, "T4")
  BY <1>2 DEF Coming
<1>6. /\ k.pending \in BOOLEAN /\ k.rrSent \in BOOLEAN
      /\ (k.pending => s.pending) /\ (k.rrSent => s.rrSent)
      /\ (s.pending => k.pending) /\ (s.rrSent => k.rrSent)
  BY <1>2, <1>3
<1> QED  BY <1>1, <1>2, <1>4, <1>5, <1>6, StepSound

(* A frame that the port has taken at once keeps its completion. *)
LEMMA TakenSettled ==
    ASSUME NEW mode \in Modes, NEW s, Settled(s, mode), s.tx # NoTx => s.tx.new,
           NEW k, k = Taken(s)
    PROVE  Settled(k, mode) /\ k.status = s.status /\ Old(k)
<1>1. Sound(s, mode) /\ DOMAIN s = Fields /\ s.dfc \in Seq(DfcCalls(mode)) /\ TxOK(s)
  BY DEF Settled, Sound, Instance
<1>2. Only(s, k, {"tx", "dfc"}) /\ k.tx = NoTx /\ k.dfc = s.dfc
  BY <1>1 DEF Taken, Only, Fields
<1>3. s.tx # NoTx => s.tx.cb \in Fns(k.dfc)
  BY <1>1, <1>2 DEF TxOK
<1>4. k.dfc \in Seq(DfcCalls(mode)) /\ Fns(s.dfc) = Fns(k.dfc)
  BY <1>1, <1>2
<1> QED  BY <1>1, <1>2, <1>3, <1>4, TakenSound

(* What PSHDLCFrameRead finds out about it. *)
LEMMA TakenOnReadSettled ==
    ASSUME NEW mode \in Modes, NEW s, Settled(s, mode), s.tx # NoTx, NEW k, k = TakenOnRead(s)
    PROVE  Settled(k, mode) /\ k.status = s.status /\ Old(k)
<1>1. /\ Sound(s, mode) /\ DOMAIN s = Fields /\ s.dfc \in Seq(DfcCalls(mode))
      /\ s.tx.cb \in {"FrameWritten", "ConnectWritten"} /\ s.tx.new \in BOOLEAN
  BY DEF Settled, Sound, Instance, TxOK
<1>2. CASE s.tx.new
  <2>1. k = Taken(s)
    BY <1>2 DEF TakenOnRead
  <2> QED  BY <1>2, <2>1, TakenSettled
<1>3. CASE ~s.tx.new
  <2>1. PICK cb : cb = s.tx.cb
    OBVIOUS
  <2>2. PICK p : p = Post(s, cb)
    OBVIOUS
  <2>3. cb \in PlainCalls
    BY <1>1, <2>1 DEF PlainCalls
  <2>4. /\ Only(s, p, {"dfc"}) /\ p.dfc \in Seq(DfcCalls(mode))
        /\ Fns(p.dfc) = Fns(s.dfc) \union {cb}
    BY <1>1, <2>2, <2>3, PostEffect
  <2>5. k = Taken(p)
    BY <1>3, <2>1, <2>2 DEF TakenOnRead
  <2>6. Only(s, k, {"tx", "dfc"}) /\ k.tx = NoTx /\ k.dfc = p.dfc
    BY <2>4, <2>5 DEF Taken, Only, Fields
  <2>7. /\ k.dfc \in Seq(DfcCalls(mode)) /\ Fns(s.dfc) \subseteq Fns(k.dfc)
        /\ Fns(k.dfc) \subseteq Fns(s.dfc) \union {"FrameWritten", "ConnectWritten"}
        /\ s.tx.cb \in Fns(k.dfc)
    BY <1>1, <2>1, <2>4, <2>6
  <2> QED  BY <1>1, <2>6, <2>7, TakenSound
<1> QED  BY <1>1, <1>2, <1>3

(* Settle, as every step of the host does it. *)
LEMMA SettleSettled ==
    ASSUME NEW mode \in Modes, NEW s, Settled(s, mode), Settle(s)
    PROVE  Settled(host', mode) /\ host'.status = s.status /\ Old(host')
<1>1. CASE host' = NotTaken(s)
  BY <1>1, NotTakenSettled
<1>2. CASE s.tx # NoTx /\ s.tx.new /\ host' = Taken(s)
  BY <1>2, TakenSettled
<1> QED  BY <1>1, <1>2 DEF Settle

-----------------------------------------------------------------------------
(* The calls that PNALDFCPump runs.                                        *)

(* p is what is left of s when a call of fn has been taken from its queue. *)
Ran(s, p, fn, mode) ==
    /\ Only(s, p, {"dfc"}) /\ p.dfc \in Seq(DfcCalls(mode)) /\ Fns(p.dfc) \subseteq Fns(s.dfc)
    /\ Fns(s.dfc) \subseteq Fns(p.dfc) \union {fn} /\ fn \in Fns(s.dfc)

(* PNALDFCPump takes the oldest call. *)
LEMMA PumpedRan ==
    ASSUME NEW mode \in Modes, Settled(host, mode), NEW fn, AtHead(fn), NEW p, p = Pumped
    PROVE  Ran(host, p, fn, mode) /\ Head(host.dfc) \in DfcCalls(mode)
<1>1. /\ DOMAIN host = Fields /\ host.dfc \in Seq(DfcCalls(mode)) /\ host.dfc # <<>>
      /\ Head(host.dfc).fn = fn
  BY DEF Settled, Sound, Instance, AtHead
<1>2. /\ Tail(host.dfc) \in Seq(DfcCalls(mode)) /\ Head(host.dfc) \in DfcCalls(mode)
      /\ Fns(Tail(host.dfc)) \subseteq Fns(host.dfc)
      /\ Fns(host.dfc) \subseteq Fns(Tail(host.dfc)) \union {Head(host.dfc).fn}
      /\ Head(host.dfc).fn \in Fns(host.dfc)
  BY <1>1, TailCalls
<1>3. Only(host, p, {"dfc"}) /\ p.dfc = Tail(host.dfc)
  BY <1>1 DEF Pumped, Only, Fields
<1> QED  BY <1>1, <1>2, <1>3 DEF Ran

(* Most calls wait for nothing that the transmission depends on. *)
LEMMA RanSettled ==
    ASSUME NEW mode \in Modes, NEW s, Settled(s, mode), Old(s), NEW p, NEW fn, Ran(s, p, fn, mode),
           fn \notin {"FrameWritten", "T2", "T4", "T6"}
    PROVE  Settled(p, mode) /\ p.status = s.status
<1>1. /\ Sound(s, mode) /\ s.pending \in BOOLEAN /\ s.rrSent \in BOOLEAN
      /\ TxOK(s)
  BY DEF Settled, Sound, Instance, Values
<1>2. /\ p.pending = s.pending /\ p.rrSent = s.rrSent /\ p.armed = s.armed /\ p.tx = s.tx
      /\ Only(s, p, {"dfc", "tx", "pending", "rrSent"})
  BY DEF Ran, Only, Fields
<1>3. TxOK(p)
  BY <1>1, <1>2 DEF TxOK, Old
<1>4. p.pending => \/ "FrameWritten" \in Fns(p.dfc)
                   \/ p.tx # NoTx /\ p.tx.cb = "FrameWritten"
  BY <1>1, <1>2 DEF Sound, Awaited, Ran
<1>5. /\ Coming(s, "T2") => Coming(p, "T2")
      /\ Coming(s, "T6") => Coming(p, "T6")
      /\ Coming(s, "T4") => Coming(p, "T4")
  BY <1>2 DEF Coming, Ran
<1>6. /\ p.pending \in BOOLEAN /\ p.rrSent \in BOOLEAN
      /\ (p.pending => s.pending) /\ (p.rrSent => s.rrSent)
      /\ (s.pending => p.pending) /\ (s.rrSent => p.rrSent)
      /\ Fns(p.dfc) \subseteq Fns(s.dfc) \union {"FrameWritten", "ConnectWritten"}
      /\ p.dfc \in Seq(DfcCalls(mode))
  BY <1>1, <1>2 DEF Ran
<1> QED  BY <1>1, <1>2, <1>3, <1>4, <1>5, <1>6, StepSound

(* The end of a frame, whether its completion was queued or the port has   *)
(* just taken the rest.                                                    *)
LEMMA FrameWrittenSettled ==
    ASSUME NEW mode \in Modes, NEW s, Settled(s, mode), Old(s), NEW p, Only(s, p, {"dfc", "tx"}),
           p.dfc \in Seq(DfcCalls(mode)), Fns(p.dfc) \subseteq Fns(s.dfc),
           Fns(s.dfc) \subseteq Fns(p.dfc) \union {"FrameWritten"}, p.tx = s.tx \/ p.tx = NoTx,
           NEW k, k = WriteFrameCompleted(p)
    PROVE  Settled(k, mode) /\ k.status = s.status /\ Renews(p, k)
<1>1. /\ Sound(s, mode) /\ s.rrSent \in BOOLEAN /\ TxOK(s)
  BY DEF Settled, Sound, Instance, Values
<1>2. PICK a : a = [p EXCEPT !.pending = FALSE]
  OBVIOUS
<1>3. Only(p, a, {"pending"}) /\ a.pending = FALSE /\ a.dfc = p.dfc /\ a.tx = p.tx
  BY <1>2 DEF Only, Fields
<1>4. Only(s, a, {"dfc", "tx", "pending", "rrSent"}) /\ a.rrSent = s.rrSent /\ a.armed = s.armed
  BY <1>3 DEF Only, Fields
<1>5. TxOK(a)
  BY <1>1, <1>3 DEF TxOK, Old
<1>6. a.pending \in BOOLEAN /\ ~a.pending
  BY <1>3
<1>7. /\ Coming(s, "T2") => Coming(a, "T2")
      /\ Coming(s, "T6") => Coming(a, "T6")
  BY <1>3, <1>4 DEF Coming
<1>8. /\ a.dfc \in Seq(DfcCalls(mode)) /\ a.rrSent \in BOOLEAN /\ (a.rrSent => s.rrSent)
      /\ Fns(a.dfc) \subseteq Fns(s.dfc) \union {"FrameWritten", "ConnectWritten"}
  BY <1>1, <1>3, <1>4
<1>9. Sound(a, mode) /\ a.status = s.status
  BY <1>1, <1>4, <1>5, <1>6, <1>7, <1>8, StepSound
<1>10. k = WriteTransmit(a, FALSE)
  BY <1>2 DEF WriteFrameCompleted
<1>11. Settled(k, mode) /\ k.status = a.status /\ Renews(a, k)
  BY <1>9, <1>10, TransmitSettled
<1> QED  BY <1>3, <1>9, <1>11 DEF Renews

(* T6: I frames may be sent again. *)
LEMMA RRTimerSettled ==
    ASSUME NEW mode \in Modes, NEW s, Settled(s, mode), Old(s), NEW p, Ran(s, p, "T6", mode),
           NEW k, k = RRFrameAlreadySentTimer(p)
    PROVE  Settled(k, mode) /\ k.status = s.status
<1>1. /\ Sound(s, mode) /\ s.pending \in BOOLEAN /\ TxOK(s)
  BY DEF Settled, Sound, Instance, Values
<1>2. PICK a : a = [p EXCEPT !.rrSent = FALSE]
  OBVIOUS
<1>3. Only(p, a, {"rrSent"}) /\ a.rrSent = FALSE /\ a.dfc = p.dfc
  BY <1>2 DEF Only, Fields, Ran
<1>4. /\ Only(s, a, {"dfc", "tx", "pending", "rrSent"}) /\ a.pending = s.pending
      /\ a.armed = s.armed /\ a.tx = s.tx
  BY <1>3 DEF Only, Fields, Ran
<1>5. TxOK(a)
  BY <1>1, <1>4 DEF TxOK, Old
<1>6. a.rrSent \in BOOLEAN /\ ~a.rrSent
  BY <1>3
<1>7. Coming(s, "T2") => Coming(a, "T2")
  BY <1>3, <1>4 DEF Coming, Ran
<1>8. a.pending => \/ "FrameWritten" \in Fns(a.dfc)
                   \/ a.tx # NoTx /\ a.tx.cb = "FrameWritten"
  BY <1>1, <1>3, <1>4 DEF Sound, Awaited, Ran
<1>9. /\ a.dfc \in Seq(DfcCalls(mode)) /\ a.pending \in BOOLEAN /\ (a.pending => s.pending)
      /\ Fns(a.dfc) \subseteq Fns(s.dfc) \union {"FrameWritten", "ConnectWritten"}
  BY <1>1, <1>3, <1>4 DEF Ran
<1>10. Sound(a, mode) /\ a.status = s.status
  BY <1>1, <1>4, <1>5, <1>6, <1>7, <1>8, <1>9, StepSound
<1>11. k = WriteTransmit(a, TRUE)
  BY <1>2 DEF RRFrameAlreadySentTimer
<1> QED  BY <1>10, <1>11, TransmitSettled

(* T4 and T2 are over: what is left is sound as it is, except for a frame  *)
(* that only T2 would have brought back.                                   *)
LEMMA TimerRanSound ==
    ASSUME NEW mode \in Modes, NEW s, Settled(s, mode), Old(s), NEW p, NEW fn \in {"T2", "T4"},
           Ran(s, p, fn, mode), fn = "T2" => s.nextWindow <= s.lastAck + 1
    PROVE  Sound(p, mode) /\ p.status = s.status /\ (fn = "T2" => Settled(p, mode))
<1>1. /\ Sound(s, mode) /\ s.pending \in BOOLEAN /\ s.rrSent \in BOOLEAN /\ TxOK(s)
      /\ s.nextWindow \in Nat /\ s.nextToSend \in Nat /\ s.lastAck \in Nat
  BY DEF Settled, Sound, Instance, Values
<1>2. /\ p.pending = s.pending /\ p.rrSent = s.rrSent /\ p.armed = s.armed /\ p.tx = s.tx
      /\ Only(s, p, {"dfc", "tx", "pending", "rrSent"})
  BY DEF Ran, Only, Fields
<1>3. TxOK(p)
  BY <1>1, <1>2 DEF TxOK, Old
<1>4. p.pending => \/ "FrameWritten" \in Fns(p.dfc)
                   \/ p.tx # NoTx /\ p.tx.cb = "FrameWritten"
  BY <1>1, <1>2 DEF Sound, Awaited, Ran
<1>5. /\ fn # "T2" /\ Coming(s, "T2") => Coming(p, "T2")
      /\ Coming(s, "T6") => Coming(p, "T6")
      /\ fn = "T2" /\ Coming(s, "T4") => Coming(p, "T4")
  BY <1>2 DEF Coming, Ran
<1>6. fn = "T2" => ~(s.nextWindow = s.nextToSend /\ s.nextToSend > s.lastAck + 1)
  BY <1>1
<1>7. /\ p.pending \in BOOLEAN /\ p.rrSent \in BOOLEAN
      /\ (p.pending => s.pending) /\ (p.rrSent => s.rrSent)
      /\ (s.pending => p.pending) /\ (s.rrSent => p.rrSent)
      /\ Fns(p.dfc) \subseteq Fns(s.dfc) \union {"FrameWritten", "ConnectWritten"}
      /\ p.dfc \in Seq(DfcCalls(mode))
  BY <1>1, <1>2 DEF Ran
<1>8. s.nextWindow = s.nextToSend /\ s.nextToSend > s.lastAck + 1 /\ Coming(s, "T2")
        => Coming(p, "T2")
  BY <1>5, <1>6
<1>9. p.rrSent /\ Coming(s, "T6") => Coming(p, "T6")
  BY <1>5
<1> HIDE <1>5, <1>6
<1>10. /\ Sound(p, mode) /\ p.status = s.status
       /\ (Coming(s, "T4") => Coming(p, "T4")) /\ (s.pending => p.pending)
          /\ (s.rrSent => p.rrSent) /\ Settled(s, mode) => Settled(p, mode)
  BY <1>1, <1>2, <1>3, <1>4, <1>7, <1>8, <1>9, StepSound
<1> QED  BY <1>5, <1>7, <1>10

(* T2: the window goes back to the frame that is not acknowledged. *)
LEMMA ResendTimerSettled ==
    ASSUME NEW mode \in Modes, NEW s, Settled(s, mode), Old(s), NEW p, Ran(s, p, "T2", mode),
           NEW k, k = WriteTimerCompleted(p)
    PROVE  Settled(k, mode) /\ k.status = s.status
<1>1. /\ Sound(s, mode) /\ Values(s) /\ TxOK(s)
      /\ s.nextWindow \in Nat /\ s.nextToSend \in Nat /\ s.lastAck \in Nat
      /\ s.nextWindow <= s.nextToSend
  BY DEF Settled, Sound, Instance, Values
<1>2. /\ DOMAIN p = Fields
      /\ p.status = s.status /\ p.connNext = s.connNext /\ p.window = s.window
      /\ p.lastAck = s.lastAck /\ p.nextToSend = s.nextToSend /\ p.nextWindow = s.nextWindow
      /\ p.readNext = s.readNext /\ p.readLastAck = s.readLastAck /\ p.buf = s.buf
      /\ p.ready = s.ready /\ p.rrSent = s.rrSent /\ p.armed = s.armed
      /\ p.pending = s.pending /\ p.ctrl = s.ctrl /\ p.tx = s.tx
  BY DEF Ran, Only, Fields
<1>3. CASE s.nextWindow > s.lastAck + 1
  <2>1. PICK a : a = [p EXCEPT !.nextWindow = @ - 1]
    OBVIOUS
  <2>2. k = WriteTransmit(a, TRUE)
    BY <1>2, <1>3, <2>1 DEF WriteTimerCompleted
  <2>3. /\ DOMAIN a = Fields
        /\ a.status = s.status /\ a.connNext = s.connNext /\ a.window = s.window
        /\ a.lastAck = s.lastAck /\ a.nextToSend = s.nextToSend
        /\ a.nextWindow = s.nextWindow - 1
        /\ a.readNext = s.readNext /\ a.readLastAck = s.readLastAck /\ a.buf = s.buf
        /\ a.ready = s.ready /\ a.rrSent = s.rrSent /\ a.armed = s.armed
        /\ a.pending = s.pending /\ a.ctrl = s.ctrl /\ a.tx = s.tx /\ a.dfc = p.dfc
    BY <1>2, <2>1 DEF Fields
  <2>4. /\ a.nextWindow \in Nat /\ a.lastAck < a.nextWindow /\ a.nextWindow <= a.nextToSend
        /\ a.nextWindow # a.nextToSend
    BY <1>1, <1>3, <2>3
  <2>5. Values(a)
    BY <1>1, <2>3, <2>4 DEF Values
  <2>6. TxOK(a)
    BY <1>1, <2>3 DEF TxOK, Old
  <2>7. Instance(a, mode)
    BY <1>1, <2>3, <2>5, <2>6 DEF Sound, Instance, Ran
  <2>8. Phases(a)
    <3>1. s.status = "UA_SENT"
      BY <1>1, <1>3 DEF Sound, Phases, Quiet
    <3> QED  BY <1>1, <2>3, <3>1 DEF Sound, Phases, Coming, Ran
  <2>9. Awaited(a)
    BY <1>1, <2>3, <2>4 DEF Sound, Awaited, Coming, Ran
  <2>10. Sound(a, mode)
    BY <2>7, <2>8, <2>9 DEF Sound
  <2> QED  BY <2>2, <2>3, <2>10, TransmitSettled
<1>4. CASE ~(s.nextWindow > s.lastAck + 1)
  <2>1. k = p
    BY <1>2, <1>4 DEF WriteTimerCompleted
  <2>2. s.nextWindow <= s.lastAck + 1
    BY <1>1, <1>4
  <2> QED  BY <2>1, <2>2, TimerRanSound
<1> QED  BY <1>3, <1>4

-----------------------------------------------------------------------------
(* The loops of the HCI frame layer.                                       *)

(* Both layers, on a connection that is up. *)
Both(p, connected, mode) ==
    /\ Settled(p.s, mode) /\ p.s.status = "UA_SENT"
    /\ DOMAIN p.u = HciFields /\ p.u.connected = connected

(* One turn of the write loop. *)
LEMMA FragmentBoth ==
    ASSUME NEW mode \in Modes, NEW connected, NEW p, Both(p, connected, mode),
           NEW q, q = WriteFragment(p)
    PROVE  Both(q, connected, mode)
<1>1. PICK w : w = Head(p.u.waiting)
  OBVIOUS
<1>2. PICK pay : pay = [m |-> w.m, frag |-> w.frag, last |-> w.frag = Frags[w.m]]
  OBVIOUS
<1>3. PICK r : r = PSHDLCWrite(p.s, pay)
  OBVIOUS
<1>4. Settled(r.s, mode) /\ r.s.status = "UA_SENT"
  BY <1>3, WriteSettled DEF Both
<1>5. PICK u : u = IF w.frag = Frags[w.m]
                   THEN [p.u EXCEPT !.waiting = Tail(@), !.sent = Append(@, w.m)]
                   ELSE [p.u EXCEPT !.waiting[1].frag = @ + 1]
  OBVIOUS
<1>6. DOMAIN u = HciFields /\ u.connected = connected
  BY <1>5 DEF Both, HciFields
<1>7. q = IF p.stop \/ p.u.waiting = <<>> THEN p
          ELSE [s |-> r.s, u |-> IF r.ok THEN u ELSE p.u, stop |-> ~r.ok]
  BY <1>1, <1>2, <1>3, <1>5 DEF WriteFragment
<1>8. CASE p.stop \/ p.u.waiting = <<>>
  BY <1>7, <1>8
<1>9. CASE ~(p.stop \/ p.u.waiting = <<>>)
  <2>1. q.s = r.s /\ q.u \in {u, p.u}
    BY <1>7, <1>9
  <2> QED  BY <1>4, <1>6, <2>1 DEF Both
<1> QED  BY <1>8, <1>9

(* The write loop takes two turns. *)
LEMMA WriteMachineTurns ==
    ASSUME NEW s, NEW u, NEW q, q = WriteMachine(s, u), NEW a, a = [s |-> s, u |-> u, stop |-> FALSE]
    PROVE  \E b : b = WriteFragment(WriteFragment(a)) /\ q = [s |-> b.s, u |-> b.u]
<1> DEFINE Turns(f) == f = [n \in 0..P_SHDLC_MAX_WINDOW_SIZE + 1 |->
                              IF n = 0 THEN a ELSE WriteFragment(f[n - 1])]
           T == CHOOSE f : Turns(f)
<1>1. P_SHDLC_MAX_WINDOW_SIZE + 1 = 2
  BY DEF P_SHDLC_MAX_WINDOW_SIZE
<1>2. q = [s |-> T[2].s, u |-> T[2].u]
  BY <1>1 DEF WriteMachine
<1>3. Turns(T)
  <2> DEFINE g == [n \in 0..2 |-> IF n = 0 THEN a ELSE IF n = 1 THEN WriteFragment(a)
                                  ELSE WriteFragment(WriteFragment(a))]
  <2>1. g = [n \in 0..2 |-> IF n = 0 THEN a ELSE WriteFragment(g[n - 1])]
    <3>1. ASSUME NEW n \in 0..2
          PROVE  g[n] = IF n = 0 THEN a ELSE WriteFragment(g[n - 1])
      <4>1. CASE n = 0
        BY <4>1
      <4>2. CASE n = 1
        BY <4>2
      <4>3. CASE n = 2
        BY <4>3
      <4> QED  BY <4>1, <4>2, <4>3
    <3>2. g = [n \in 0..2 |-> g[n]]
      OBVIOUS
    <3> HIDE DEF g
    <3> QED  BY <3>1, <3>2
  <2> HIDE DEF g
  <2>2. Turns(g)
    BY <1>1, <2>1
  <2> HIDE DEF Turns
  <2> QED  BY <2>2
<1> HIDE DEF T
<1>4. T[0] = a /\ T[1] = WriteFragment(T[0]) /\ T[2] = WriteFragment(T[1])
  <2>1. \A n \in 0..2 : T[n] = IF n = 0 THEN a ELSE WriteFragment(T[n - 1])
    BY <1>1, <1>3
  <2>2. T[0] = a
    BY <2>1
  <2>3. T[1] = WriteFragment(T[0])
    BY <2>1
  <2>4. T[2] = WriteFragment(T[1])
    BY <2>1
  <2> QED  BY <2>2, <2>3, <2>4
<1> QED  BY <1>2, <1>4

(* The write loop leaves both layers settled. *)
LEMMA WriteMachineBoth ==
    ASSUME NEW mode \in Modes, NEW connected, NEW s, NEW u, Settled(s, mode), s.status = "UA_SENT",
           DOMAIN u = HciFields, u.connected = connected, NEW q, q = WriteMachine(s, u)
    PROVE  Both(q, connected, mode)
<1>1. PICK a : a = [s |-> s, u |-> u, stop |-> FALSE]
  OBVIOUS
<1>2. PICK b : b = WriteFragment(WriteFragment(a)) /\ q = [s |-> b.s, u |-> b.u]
  BY <1>1, WriteMachineTurns
<1>3. PICK c : c = WriteFragment(a)
  OBVIOUS
<1>4. Both(a, connected, mode)
  BY <1>1 DEF Both
<1>5. Both(c, connected, mode)
  BY <1>3, <1>4, FragmentBoth
<1>6. Both(b, connected, mode)
  BY <1>2, <1>3, <1>5, FragmentBoth
<1> QED  BY <1>2, <1>6 DEF Both

(* PHCIFrameWrite *)
LEMMA WriteBoth ==
    ASSUME NEW mode \in Modes, NEW s, NEW u, Settled(s, mode), s.status = "UA_SENT",
           DOMAIN u = HciFields, NEW m, NEW q, q = PHCIFrameWrite(s, u, m)
    PROVE  Both(q, u.connected, mode)
<1>1. PICK v : v = [u EXCEPT !.waiting = Append(@, [m |-> m, frag |-> 1])]
  OBVIOUS
<1>2. DOMAIN v = HciFields /\ v.connected = u.connected
  BY <1>1 DEF HciFields
<1>3. q = WriteMachine(s, v)
  BY <1>1 DEF PHCIFrameWrite
<1> QED  BY <1>2, <1>3, WriteMachineBoth

(* The write handler. *)
LEMMA WriteAcknowledgedBoth ==
    ASSUME NEW mode \in Modes, NEW s, NEW u, Settled(s, mode), u.connected => s.status = "UA_SENT",
           DOMAIN u = HciFields, NEW whole \in BOOLEAN, NEW q, q = WriteAcknowledged(s, u, whole)
    PROVE  /\ Settled(q.s, mode) /\ q.s.status = s.status
           /\ DOMAIN q.u = HciFields /\ q.u.connected = u.connected
<1>1. CASE ~u.connected
  <2>1. q = [s |-> s, u |-> u]
    BY <1>1 DEF WriteAcknowledged
  <2> QED  BY <2>1
<1>2. CASE u.connected
  <2>1. PICK v : v = [u EXCEPT !.sent = Tail(@), !.done = Append(@, Head(u.sent))]
    OBVIOUS
  <2>2. DOMAIN v = HciFields /\ v.connected = u.connected
    BY <2>1 DEF HciFields
  <2>3. q = WriteMachine(s, v) \/ q = WriteMachine(s, u)
    BY <1>2, <2>1 DEF WriteAcknowledged
  <2>4. Both(q, u.connected, mode)
    BY <1>2, <2>2, <2>3, WriteMachineBoth
  <2> QED  BY <1>2, <2>4 DEF Both
<1> QED  BY <1>1, <1>2

(* One turn of the read loop. *)
LEMMA ReadFrameBoth ==
    ASSUME NEW mode \in Modes, NEW connected, NEW p, Both(p, connected, mode),
           NEW q, q = ReadFrame(p)
    PROVE  Both(q, connected, mode)
<1>1. CASE p.s.buf = <<>>
  <2>1. q = p
    BY <1>1 DEF ReadFrame
  <2> QED  BY <2>1
<1>2. CASE p.s.buf # <<>>
  <2>1. PICK r : r = PSHDLCRead(p.s)
    OBVIOUS
  <2>2. PICK s : s = p.s
    OBVIOUS
  <2>3. Settled(s, mode) /\ s.status = "UA_SENT" /\ s.buf # <<>> /\ r = PSHDLCRead(s)
    BY <1>2, <2>1, <2>2 DEF Both
  <2>4. Settled(r, mode) /\ r.status = "UA_SENT"
    BY <2>3, ReadTakenSettled
  <2>5. PICK c : c = [fn |-> "StreamData", pay |-> Head(s.buf)]
    OBVIOUS
  <2>6. c \in DfcCalls(mode) /\ c.fn = "StreamData"
    <3>1. s.buf \in Seq(PeerPayloads)
      BY <2>3 DEF Settled, Sound, Instance, Values
    <3>2. Head(s.buf) \in PeerPayloads
      BY <2>3, <3>1, HeadTailProperties
    <3> QED  BY <2>5, <3>2 DEF DfcCalls
  <2>7. /\ Sound(r, mode) /\ DOMAIN r = Fields /\ r.dfc \in Seq(DfcCalls(mode))
        /\ r.armed \subseteq Timers \ {"T1"} /\ r.buf \in Seq(PeerPayloads) /\ r.readNext \in Nat
        /\ r.readLastAck \in Nat /\ r.readLastAck < r.readNext
    BY <2>4 DEF Settled, Sound, Instance, Values
  <2>8. PICK d : d = r.dfc
    OBVIOUS
  <2>9. d \in Seq(DfcCalls(mode))
    BY <2>7, <2>8
  <2>10. /\ Append(d, c) \in Seq(DfcCalls(mode)) /\ Fns(Append(d, c)) = Fns(d) \union {c.fn}
    BY <2>6, <2>9, AppendCalls
  <2>11. PICK k : k = [r EXCEPT !.dfc = Append(@, c)]
    OBVIOUS
  <2>12. Only(r, k, {"dfc"}) /\ k.dfc = Append(d, c)
    BY <2>7, <2>8, <2>11 DEF Only, Fields
  <2>13. k.armed = r.armed /\ k.buf = r.buf /\ k.readNext = r.readNext
         /\ k.readLastAck = r.readLastAck /\ k.status = r.status
    BY <2>12 DEF Only, Fields
  <2>14. Only(r, k, {"dfc", "armed", "buf", "readNext", "readLastAck"} \union Inert)
    BY <2>12 DEF Only
  <2>15. k.dfc \in Seq(DfcCalls(mode)) /\ Fns(k.dfc) = Fns(r.dfc) \union {"StreamData"}
    BY <2>6, <2>8, <2>10, <2>12
  <2>16. /\ Coming(r, "T2") => Coming(k, "T2")
         /\ Coming(r, "T6") => Coming(k, "T6")
         /\ Coming(r, "T4") => Coming(k, "T4")
         /\ Coming(k, "T3") => Coming(r, "T3")
         /\ "FrameWritten" \in Fns(r.dfc) => "FrameWritten" \in Fns(k.dfc)
         /\ "ConnectWritten" \in Fns(r.dfc) => "ConnectWritten" \in Fns(k.dfc)
         /\ "ConnectDone" \in Fns(k.dfc) => "ConnectDone" \in Fns(r.dfc)
    BY <2>13, <2>15 DEF Coming
  <2>17. /\ k.armed \subseteq Timers \ {"T1"} /\ k.buf \in Seq(PeerPayloads) /\ k.readNext \in Nat
         /\ k.readLastAck \in Nat /\ k.readLastAck < k.readNext /\ k.dfc \in Seq(DfcCalls(mode))
    BY <2>7, <2>13, <2>15
  <2>18. /\ Sound(k, mode)
         /\ (Coming(r, "T4") => Coming(k, "T4")) /\ CtrlTried(r) => CtrlTried(k)
         /\ IFrameTried(r) => IFrameTried(k)
    BY <2>7, <2>14, <2>16, <2>17, Carries
  <2>19. Settled(k, mode) /\ k.status = "UA_SENT"
    BY <2>4, <2>13, <2>16, <2>18 DEF Settled
  <2>20. q.s = k /\ q.u = [p.u EXCEPT !.rx = Head(s.buf)]
    BY <1>2, <2>1, <2>2, <2>5, <2>11 DEF ReadFrame
  <2> QED  BY <2>19, <2>20 DEF Both, HciFields
<1> QED  BY <1>1, <1>2

(* f tells what n turns have made of p. *)
ReadTurns(f, p, n) ==
    f = [i \in 0..n |-> IF i = 0 THEN p ELSE ReadFrame(f[i - 1])]

(* The recursive definition in ReadMachine has a solution. *)
LEMMA TurnsDefined ==
    ASSUME NEW p, NEW n \in Nat
    PROVE  \E f : ReadTurns(f, p, n)
<1> DEFINE P == {k \in Nat : \E f : ReadTurns(f, p, k)}
<1>1. 0 \in P
  <2> DEFINE f == [i \in 0..0 |-> p]
  <2>1. f = [i \in 0..0 |-> IF i = 0 THEN p ELSE ReadFrame(f[i - 1])]
    OBVIOUS
  <2> HIDE DEF f
  <2> QED  BY <2>1 DEF ReadTurns
<1>2. ASSUME NEW k \in P PROVE k + 1 \in P
  <2>1. PICK f : f = [i \in 0..k |-> IF i = 0 THEN p ELSE ReadFrame(f[i - 1])]
    BY DEF ReadTurns
  <2> DEFINE g == [i \in 0..k + 1 |-> IF i = k + 1 THEN ReadFrame(f[k]) ELSE f[i]]
  <2>2. ASSUME NEW i \in 0..k + 1
        PROVE  g[i] = IF i = 0 THEN p ELSE ReadFrame(g[i - 1])
    <3>1. CASE i = k + 1
      BY <3>1
    <3>2. CASE i \in 0..k
      BY <2>1, <3>2
    <3> QED  BY <3>1, <3>2
  <2>3. g = [i \in 0..k + 1 |-> g[i]]
    OBVIOUS
  <2> HIDE DEF g
  <2>4. ReadTurns(g, p, k + 1)
    BY <2>2, <2>3 DEF ReadTurns
  <2> QED  BY <2>4
<1> HIDE DEF P
<1>3. P = Nat
  <2>1. P \in SUBSET Nat
    BY DEF P
  <2> QED  BY <1>1, <1>2, <2>1, ByInduction
<1> QED  BY <1>3 DEF P

(* The loop empties the read buffer, and leaves both layers settled. *)
LEMMA ReadMachineBoth ==
    ASSUME NEW mode \in Modes, NEW connected, NEW s, NEW u, Settled(s, mode), s.status = "UA_SENT",
           DOMAIN u = HciFields, u.connected = connected, NEW q, q = ReadMachine(s, u)
    PROVE  Both(q, connected, mode)
<1> DEFINE a == [s |-> s, u |-> u]
           T == CHOOSE f : ReadTurns(f, a, ReadCap)
<1>1. ReadCap \in Nat
  BY ShdlcAssumption
<1>2. ReadTurns(T, a, ReadCap)
  BY <1>1, TurnsDefined
<1>3. q = T[ReadCap]
  BY DEF ReadMachine, ReadTurns
<1>4. Both(a, connected, mode)
  BY DEF Both
<1> HIDE DEF a, T
<1>5. T[0] = a /\ \A n \in 0..ReadCap - 1 : T[n + 1] = ReadFrame(T[n])
  BY <1>1, <1>2 DEF ReadTurns
<1> DEFINE P == {n \in Nat : n <= ReadCap => Both(T[n], connected, mode)}
<1>6. 0 \in P
  BY <1>4, <1>5
<1>7. ASSUME NEW n \in P PROVE n + 1 \in P
  <2>1. CASE n + 1 <= ReadCap
    <3>1. Both(T[n], connected, mode) /\ T[n + 1] = ReadFrame(T[n])
      BY <1>1, <1>5, <2>1
    <3>2. Both(T[n + 1], connected, mode)
      BY <3>1, ReadFrameBoth
    <3> QED  BY <3>2
  <2>2. CASE ~(n + 1 <= ReadCap)
    BY <2>2
  <2> QED  BY <2>1, <2>2
<1> HIDE DEF P
<1>8. P = Nat
  <2>1. P \in SUBSET Nat
    BY DEF P
  <2> QED  BY <1>6, <1>7, <2>1, ByInduction
<1>9. ReadCap \in P /\ ReadCap <= ReadCap
  BY <1>1, <1>8
<1> QED  BY <1>3, <1>9 DEF P

-----------------------------------------------------------------------------
(* The steps.                                                              *)

(* A call runs, and leaves the HCI layer as it is. *)
LEMMA RunsHost ==
    ASSUME NEW mode \in Modes, Mode' = mode, Mode = mode, HostInv, NEW s, Settle(s), hci' = hci,
           Settled(s, mode), host.status = "UA_SENT" => s.status = "UA_SENT"
    PROVE  HostInv'
<1>1. Settled(host', mode) /\ host'.status = s.status /\ Old(host')
  BY SettleSettled
<1> QED  BY <1>1 DEF HostInv

(* A call that takes or leaves the HCI layer connected. *)
LEMMA RunsHciHost ==
    ASSUME NEW mode \in Modes, Mode' = mode, NEW s, Settle(s), Settled(s, mode),
           DOMAIN hci' = HciFields, hci'.connected => s.status = "UA_SENT"
    PROVE  HostInv'
<1>1. Settled(host', mode) /\ host'.status = s.status /\ Old(host')
  BY SettleSettled
<1> QED  BY <1>1 DEF HostInv

(* Every call that PNALDFCPump may run. *)
LEMMA CallsHost ==
    ASSUME NEW mode \in Modes, Mode' = mode, Mode = mode, HostInv, Calls
    PROVE  HostInv'
<1>1. /\ Settled(host, mode) /\ Old(host) /\ DOMAIN hci = HciFields
      /\ hci.connected => host.status = "UA_SENT"
  BY DEF HostInv
<1>2. PICK p : p = Pumped
  OBVIOUS
<1>3. \A fn : AtHead(fn) => Ran(host, p, fn, mode) /\ Head(host.dfc) \in DfcCalls(mode)
  BY <1>1, <1>2, PumpedRan
<1>4. ASSUME NEW fn, AtHead(fn), fn \notin {"FrameWritten", "T2", "T4", "T6"}
      PROVE  Settled(p, mode) /\ p.status = host.status
  BY <1>1, <1>3, <1>4, RanSettled
<1>5. CASE FrameReadDone
  <2>1. PICK f : f = Head(host.dfc).f
    OBVIOUS
  <2>2. PICK s : s = GenericReadCompleted(p, f)
    OBVIOUS
  <2>3. AtHead("FrameRead") /\ hci' = hci
    BY <1>5 DEF FrameReadDone
  <2>4. f \in Frames(mode)
    <3>1. Head(host.dfc) \in DfcCalls(mode) /\ Head(host.dfc).fn = "FrameRead"
      BY <1>3, <2>3 DEF AtHead
    <3> QED  BY <2>1, <3>1 DEF DfcCalls, PlainCalls, Timers
  <2>5. Settled(p, mode) /\ p.status = host.status
    BY <1>4, <2>3
  <2>6. Settled(s, mode) /\ (p.status = "UA_SENT" => s.status = "UA_SENT")
    BY <2>2, <2>4, <2>5, GenericReadSettled
  <2>7. host' = NotTaken(s) \/ (s.tx # NoTx /\ host' = TakenOnRead(s))
    BY <1>2, <1>5, <2>1, <2>2 DEF FrameReadDone
  <2>8. Settled(host', mode) /\ host'.status = s.status /\ Old(host')
    BY <2>6, <2>7, NotTakenSettled, TakenOnReadSettled
  <2> QED  BY <1>1, <2>3, <2>5, <2>6, <2>8 DEF HostInv
<1>6. CASE ConnectWritten
  <2>1. PICK s : s = ConnectWriteFrameCompleted(p)
    OBVIOUS
  <2>2. AtHead("ConnectWritten") /\ hci' = hci /\ Settle(s)
    BY <1>2, <1>6, <2>1 DEF ConnectWritten, Runs
  <2>3. Settled(p, mode) /\ p.status = host.status
    BY <1>4, <2>2
  <2>4. Settled(s, mode) /\ (p.status = "UA_SENT" => s = p)
    BY <2>1, <2>3, ConnectWrittenSettled
  <2> QED  BY <2>2, <2>3, <2>4, RunsHost
<1>7. CASE FrameWritten
  <2>1. PICK s : s = WriteFrameCompleted(p)
    OBVIOUS
  <2>2. AtHead("FrameWritten") /\ hci' = hci /\ Settle(s)
    BY <1>2, <1>7, <2>1 DEF FrameWritten, Runs
  <2>3. /\ Only(host, p, {"dfc", "tx"}) /\ p.dfc \in Seq(DfcCalls(mode)) /\ p.tx = host.tx
        /\ Fns(p.dfc) \subseteq Fns(host.dfc)
        /\ Fns(host.dfc) \subseteq Fns(p.dfc) \union {"FrameWritten"}
    <3>1. Ran(host, p, "FrameWritten", mode)
      BY <1>3, <2>2
    <3> QED  BY <3>1 DEF Ran, Only, Fields
  <2>4. Settled(s, mode) /\ s.status = host.status
    BY <1>1, <2>1, <2>3, FrameWrittenSettled
  <2> QED  BY <2>2, <2>4, RunsHost
<1>8. CASE ResendTimer
  <2>1. PICK s : s = WriteTimerCompleted(p)
    OBVIOUS
  <2>2. AtHead("T2") /\ hci' = hci /\ Settle(s)
    BY <1>2, <1>8, <2>1 DEF ResendTimer, Runs
  <2>3. Settled(s, mode) /\ s.status = host.status
    BY <1>1, <1>3, <2>1, <2>2, ResendTimerSettled
  <2> QED  BY <2>2, <2>3, RunsHost
<1>9. CASE ResetTimer
  <2>1. PICK s : s = ConnectTimerCompleted(p)
    OBVIOUS
  <2>2. AtHead("T3") /\ hci' = hci /\ Settle(s)
    BY <1>2, <1>9, <2>1 DEF ResetTimer, Runs
  <2>3. Settled(p, mode) /\ p.status = host.status
    BY <1>4, <2>2
  <2>4. host.status # "UA_SENT"
    BY <1>1, <1>3, <2>2 DEF Settled, Sound, Phases, Coming, Ran
  <2>5. Idle(p, mode) /\ "ConnectDone" \notin Fns(p.dfc)
    BY <2>3, <2>4, IdleBefore DEF Settled
  <2>6. Settled(s, mode)
    BY <2>1, <2>5, ConnectTimerSettled
  <2> QED  BY <2>2, <2>4, <2>6, RunsHost
<1>10. CASE PiggyBackTimer
  <2>1. PICK s : s = WriteTransmit(p, TRUE)
    OBVIOUS
  <2>2. AtHead("T4") /\ hci' = hci /\ Settle(s)
    BY <1>2, <1>10, <2>1 DEF PiggyBackTimer, Runs
  <2>3. Sound(p, mode) /\ p.status = host.status
    BY <1>1, <1>3, <2>2, TimerRanSound
  <2>4. Settled(s, mode) /\ s.status = p.status
    BY <2>1, <2>3, TransmitSettled
  <2> QED  BY <2>2, <2>3, <2>4, RunsHost
<1>11. CASE RRTimer
  <2>1. PICK s : s = RRFrameAlreadySentTimer(p)
    OBVIOUS
  <2>2. AtHead("T6") /\ hci' = hci /\ Settle(s)
    BY <1>2, <1>11, <2>1 DEF RRTimer, Runs
  <2>3. Settled(s, mode) /\ s.status = host.status
    BY <1>1, <1>3, <2>1, <2>2, RRTimerSettled
  <2> QED  BY <2>2, <2>3, RunsHost
<1>12. CASE ResetIndication \/ StreamData
  <2>1. PICK fn \in {"ResetIndication", "StreamData"} : AtHead(fn) /\ hci' = hci /\ Settle(p)
    BY <1>2, <1>12 DEF ResetIndication, StreamData, Runs
  <2>2. Settled(p, mode) /\ p.status = host.status
    BY <1>4, <2>1
  <2> QED  BY <2>1, <2>2, RunsHost
<1>13. CASE ConnectDone
  <2>1. AtHead("ConnectDone") /\ hci' = [hci EXCEPT !.connected = TRUE] /\ Settle(p)
    BY <1>2, <1>13 DEF ConnectDone, RunsHci
  <2>2. Settled(p, mode) /\ p.status = host.status
    BY <1>4, <2>1
  <2>3. host.status = "UA_SENT"
    BY <1>1, <1>3, <2>1 DEF Settled, Sound, Phases, Ran
  <2>4. DOMAIN hci' = HciFields
    BY <1>1, <2>1
  <2> QED  BY <2>1, <2>2, <2>3, <2>4, RunsHciHost
<1>14. CASE Acknowledged \/ BufferFree
  <2>1. PICK fn \in {"Acknowledged", "BufferFree"}, whole \in BOOLEAN :
             AtHead(fn) /\ RunsHci(fn, WriteAcknowledged(p, hci, whole))
    BY <1>2, <1>14 DEF Acknowledged, BufferFree, RunsHci
  <2>2. Settled(p, mode) /\ p.status = host.status
    BY <1>4, <2>1
  <2>3. PICK q : q = WriteAcknowledged(p, hci, whole)
    OBVIOUS
  <2>4. /\ Settled(q.s, mode) /\ q.s.status = p.status
        /\ DOMAIN q.u = HciFields /\ q.u.connected = hci.connected
    BY <1>1, <2>2, <2>3, WriteAcknowledgedBoth
  <2>5. Settle(q.s) /\ hci' = q.u
    BY <2>1, <2>3 DEF RunsHci
  <2> QED  BY <1>1, <2>2, <2>4, <2>5, RunsHciHost
<1>15. CASE DataIsReady
  <2>1. PICK q : q = DataReady(p, hci)
    OBVIOUS
  <2>2. AtHead("DataReady") /\ Settle(q.s) /\ hci' = q.u
    BY <1>2, <1>15, <2>1 DEF DataIsReady, RunsHci
  <2>3. Settled(p, mode) /\ p.status = host.status
    BY <1>4, <2>2
  <2>4. /\ Settled(q.s, mode) /\ q.s.status = p.status
        /\ DOMAIN q.u = HciFields /\ q.u.connected = hci.connected
    <3>1. CASE hci.connected
      <4>1. q = ReadMachine(p, hci)
        BY <2>1, <3>1 DEF DataReady
      <4>2. Both(q, hci.connected, mode)
        BY <1>1, <2>3, <3>1, <4>1, ReadMachineBoth
      <4> QED  BY <1>1, <2>3, <3>1, <4>2 DEF Both
    <3>2. CASE ~hci.connected
      <4>1. q = [s |-> p, u |-> hci]
        BY <2>1, <3>2 DEF DataReady
      <4> QED  BY <1>1, <2>3, <4>1
    <3> QED  BY <3>1, <3>2
  <2> QED  BY <1>1, <2>2, <2>3, <2>4, RunsHciHost
<1> QED  BY <1>5, <1>6, <1>7, <1>8, <1>9, <1>10, <1>11, <1>12, <1>13, <1>14, <1>15 DEF Calls

(* A frame that has just been written goes out at once. *)
LEMMA RewrittenTaken ==
    ASSUME NEW mode \in Modes, NEW t, t.tx = NoTx, NEW s, Settled(s, mode), Renews(t, s),
           s.tx # NoTx, NEW k, k = Taken(s)
    PROVE  Settled(k, mode) /\ k.status = s.status /\ Old(k)
<1>1. s.tx.new
  BY DEF Renews
<1> QED  BY <1>1, TakenSettled

(* The rest of a frame goes out and its completion runs. *)
LEMMA PollWriteHost ==
    ASSUME NEW mode \in Modes, Mode' = mode, Mode = mode, HostInv, PollWrite
    PROVE  HostInv'
<1>1. /\ Settled(host, mode) /\ Old(host) /\ DOMAIN hci = HciFields
      /\ hci.connected => host.status = "UA_SENT"
  BY DEF HostInv
<1>2. PICK p : p = Taken(host)
  OBVIOUS
<1>3. PICK s : s = IF host.tx.cb = "FrameWritten" THEN WriteFrameCompleted(p)
                   ELSE ConnectWriteFrameCompleted(p)
  OBVIOUS
<1>4. hci' = hci /\ host.tx # NoTx
      /\ (host' = NotTaken(s) \/ (s.tx # NoTx /\ host' = Taken(s)))
  BY <1>2, <1>3 DEF PollWrite
<1>5. /\ Sound(host, mode) /\ DOMAIN host = Fields /\ host.dfc \in Seq(DfcCalls(mode))
      /\ TxOK(host)
  BY <1>1 DEF Settled, Sound, Instance
<1>6. Only(host, p, {"tx", "dfc"}) /\ p.tx = NoTx /\ p.dfc = host.dfc
  BY <1>2, <1>5 DEF Taken, Only, Fields
<1>7. Settled(s, mode) /\ (host.status = "UA_SENT" => s.status = "UA_SENT") /\ Renews(p, s)
  <2>1. CASE host.tx.cb = "FrameWritten"
    <3>1. s = WriteFrameCompleted(p)
      BY <1>3, <2>1
    <3>2. /\ Only(host, p, {"dfc", "tx"}) /\ p.dfc \in Seq(DfcCalls(mode))
          /\ Fns(p.dfc) \subseteq Fns(host.dfc)
          /\ Fns(host.dfc) \subseteq Fns(p.dfc) \union {"FrameWritten"}
      BY <1>5, <1>6 DEF Only
    <3> QED  BY <1>1, <1>6, <3>1, <3>2, FrameWrittenSettled
  <2>2. CASE host.tx.cb # "FrameWritten"
    <3>1. s = ConnectWriteFrameCompleted(p)
      BY <1>3, <2>2
    <3>2. /\ p.dfc \in Seq(DfcCalls(mode)) /\ Fns(host.dfc) \subseteq Fns(p.dfc)
          /\ Fns(p.dfc) \subseteq Fns(host.dfc) \union {"FrameWritten", "ConnectWritten"}
      BY <1>5, <1>6
    <3>3. Settled(p, mode) /\ p.status = host.status
      BY <1>1, <1>5, <1>6, <2>2, <3>2, TakenSound
    <3>4. /\ Settled(s, mode) /\ (p.status = "UA_SENT" => s = p)
          /\ s.tx = p.tx \/ s.tx.new
      BY <3>1, <3>3, ConnectWrittenSettled
    <3> QED  BY <3>3, <3>4 DEF Renews
  <2> QED  BY <2>1, <2>2
<1>8. Settled(host', mode) /\ host'.status = s.status /\ Old(host')
  <2>1. CASE host' = NotTaken(s)
    BY <1>7, <2>1, NotTakenSettled
  <2>2. CASE s.tx # NoTx /\ host' = Taken(s)
    BY <1>6, <1>7, <2>2, RewrittenTaken
  <2> QED  BY <1>4, <2>1, <2>2
<1> QED  BY <1>1, <1>4, <1>7, <1>8 DEF HostInv

(* The queue of the host grows by a call that ends no wait. *)
LEMMA QueuedHost ==
    ASSUME NEW mode \in Modes, NEW s, Settled(s, mode), Old(s), NEW k,
           Only(s, k, {"dfc", "armed", "reading"}), k.dfc \in Seq(DfcCalls(mode)),
           NEW fn \in Timers \union {"FrameRead"}, Fns(k.dfc) = Fns(s.dfc) \union {fn},
           \/ fn = "FrameRead" /\ k.armed = s.armed
           \/ fn \in s.armed /\ k.armed = s.armed \ {fn}
    PROVE  Settled(k, mode) /\ k.status = s.status /\ Old(k)
<1>1. /\ k.buf = s.buf /\ k.readNext = s.readNext /\ k.tx = s.tx
      /\ k.readLastAck = s.readLastAck /\ k.status = s.status
  BY DEF Only, Fields
<1>2. Only(s, k, {"dfc", "armed", "buf", "readNext", "readLastAck"} \union Inert)
  BY DEF Only, Inert
<1>3. /\ k.buf \in Seq(PeerPayloads) /\ k.readNext \in Nat /\ k.readLastAck \in Nat
      /\ k.readLastAck < k.readNext /\ k.armed \subseteq Timers \ {"T1"}
      /\ Sound(s, mode)
  BY <1>1 DEF Settled, Sound, Instance, Values
<1>4. /\ Coming(s, "T2") => Coming(k, "T2")
      /\ Coming(s, "T6") => Coming(k, "T6")
      /\ Coming(s, "T4") => Coming(k, "T4")
      /\ "FrameWritten" \in Fns(s.dfc) => "FrameWritten" \in Fns(k.dfc)
      /\ "ConnectWritten" \in Fns(s.dfc) => "ConnectWritten" \in Fns(k.dfc)
      /\ "ConnectDone" \in Fns(k.dfc) => "ConnectDone" \in Fns(s.dfc)
  BY DEF Coming, Timers
<1>5. Coming(k, "T3") => Coming(s, "T3")
  BY DEF Coming
<1>6. /\ Sound(k, mode)
      /\ (Coming(s, "T4") => Coming(k, "T4")) /\ CtrlTried(s) => CtrlTried(k)
      /\ IFrameTried(s) => IFrameTried(k)
  BY <1>2, <1>3, <1>4, <1>5, Carries
<1> QED  BY <1>1, <1>4, <1>6 DEF Settled, Old

(* A frame of the controller is read. *)
LEMMA PollReadHost ==
    ASSUME NEW mode \in Modes, Mode' = mode, Mode = mode, HostInv,
           toHost \in Seq(Frames(mode)), PollRead
    PROVE  HostInv' /\ toHost' \in Seq(Frames(mode))
<1>1. Settled(host, mode) /\ Old(host) /\ DOMAIN host = Fields /\ host.dfc \in Seq(DfcCalls(mode))
  BY DEF HostInv, Settled, Sound, Instance
<1>2. PICK c : c = [fn |-> "FrameRead", f |-> Head(toHost)]
  OBVIOUS
<1>3. /\ toHost # <<>> /\ toHost' = Tail(toHost) /\ hci' = hci
      /\ host' = [host EXCEPT !.dfc = Append(@, c), !.reading = FALSE]
  BY <1>2 DEF PollRead
<1>4. Head(toHost) \in Frames(mode) /\ toHost' \in Seq(Frames(mode))
  BY <1>3, HeadTailProperties
<1>5. c \in DfcCalls(mode) /\ c.fn = "FrameRead"
  BY <1>2, <1>4 DEF DfcCalls
<1>6. PICK d : d = host.dfc
  OBVIOUS
<1>7. /\ Only(host, host', {"dfc", "armed", "reading"}) /\ host'.dfc = Append(d, c)
      /\ host'.armed = host.armed
  BY <1>1, <1>3, <1>6 DEF Only, Fields
<1>8. d \in Seq(DfcCalls(mode))
  BY <1>1, <1>6
<1>9. Append(d, c) \in Seq(DfcCalls(mode)) /\ Fns(Append(d, c)) = Fns(d) \union {c.fn}
  BY <1>5, <1>8, AppendCalls
<1>10. /\ host'.dfc \in Seq(DfcCalls(mode)) /\ "FrameRead" \in Timers \union {"FrameRead"}
       /\ Fns(host'.dfc) = Fns(host.dfc) \union {"FrameRead"}
  BY <1>5, <1>6, <1>7, <1>9
<1>11. Settled(host', mode) /\ host'.status = host.status /\ Old(host')
  BY <1>1, <1>7, <1>10, QueuedHost
<1> QED  BY <1>3, <1>4, <1>11 DEF HostInv

(* A timer expires: its call is posted. *)
LEMMA ExpiresHost ==
    ASSUME NEW mode \in Modes, Mode' = mode, Mode = mode, HostInv,
           NEW t \in Timers, TimerExpires(t)
    PROVE  HostInv'
<1>1. Settled(host, mode) /\ Old(host) /\ DOMAIN host = Fields /\ host.dfc \in Seq(DfcCalls(mode))
  BY DEF HostInv, Settled, Sound, Instance
<1>2. PICK a : a = [host EXCEPT !.armed = @ \ {t}]
  OBVIOUS
<1>3. t \in host.armed /\ host' = Post(a, t) /\ hci' = hci
  BY <1>2 DEF TimerExpires
<1>4. Only(host, a, {"armed"}) /\ a.armed = host.armed \ {t} /\ a.dfc = host.dfc
      /\ DOMAIN a = Fields
  BY <1>1, <1>2 DEF Only, Fields
<1>5. /\ Only(a, host', {"dfc"}) /\ host'.dfc \in Seq(DfcCalls(mode))
      /\ Fns(host'.dfc) = Fns(a.dfc) \union {t}
  <2>1. t \in PlainCalls /\ a.dfc \in Seq(DfcCalls(mode))
    BY <1>1, <1>4 DEF PlainCalls
  <2> QED  BY <1>3, <1>4, <2>1, PostEffect
<1>6. /\ Only(host, host', {"dfc", "armed", "reading"}) /\ host'.armed = host.armed \ {t}
      /\ Fns(host'.dfc) = Fns(host.dfc) \union {t} /\ t \in Timers \union {"FrameRead"}
  BY <1>4, <1>5 DEF Only, Fields
<1>7. Settled(host', mode) /\ host'.status = host.status /\ Old(host')
  BY <1>1, <1>3, <1>5, <1>6, QueuedHost
<1> QED  BY <1>3, <1>7 DEF HostInv

(* The user of the HCI layer sends a message. *)
LEMMA UserWritesHost ==
    ASSUME NEW mode \in Modes, Mode' = mode, Mode = mode, HostInv, UserWrites
    PROVE  HostInv'
<1>1. PICK q : q = PHCIFrameWrite(host, hci, asked + 1)
  OBVIOUS
<1>2. hci.connected /\ Settle(q.s) /\ hci' = q.u
  BY <1>1 DEF UserWrites
<1>3. Settled(host, mode) /\ host.status = "UA_SENT" /\ DOMAIN hci = HciFields
  BY <1>2 DEF HostInv
<1>4. Both(q, hci.connected, mode)
  BY <1>1, <1>3, WriteBoth
<1>5. /\ Settled(q.s, mode) /\ DOMAIN hci' = HciFields
      /\ hci'.connected => q.s.status = "UA_SENT"
  BY <1>2, <1>4 DEF Both
<1> QED  BY <1>2, <1>5, RunsHciHost

(* The HAL connects once the controller is out of its reset. *)
LEMMA ConnectHost ==
    ASSUME NEW mode \in Modes, Mode' = mode, Mode = mode, HostInv, Connect
    PROVE  HostInv'
<1>1. PICK s : s = PSHDLCConnect(host)
  OBVIOUS
<1>2. host.status = "RESET_PENDING" /\ Settle(s) /\ hci' = hci
  BY <1>1 DEF Connect
<1>3. Sound(host, mode) /\ host.status # "UA_SENT"
  BY <1>2 DEF HostInv, Settled
<1>4. Idle(host, mode) /\ "ConnectDone" \notin Fns(host.dfc)
  BY <1>3, IdleBefore
<1>5. Settled(s, mode)
  BY <1>1, <1>4, ConnectSettled
<1> QED  BY <1>2, <1>3, <1>5, RunsHost

(* The user resets the HAL. *)
LEMMA UserResetsHost ==
    ASSUME NEW mode \in Modes, Mode' = mode, Mode = mode, HostInv, UserResets
    PROVE  HostInv'
<1>1. /\ DOMAIN host = Fields /\ host.dfc \in Seq(DfcCalls(mode))
      /\ host.armed \subseteq Timers \ {"T1"} /\ DOMAIN hci = HciFields
  BY DEF HostInv, Settled, Sound, Instance
<1>2. PICK fns : fns = {"StreamData"}
  OBVIOUS
<1>3. PICK a : a = Flush(host, fns)
  OBVIOUS
<1>4. /\ \A i \in DOMAIN host.dfc : host.dfc[i].fn = "FrameWritten"
      /\ host' = PSHDLCPreReset(a)
      /\ hci' = [hci EXCEPT !.connected = FALSE, !.waiting = <<>>, !.sent = <<>>]
  BY <1>2, <1>3 DEF UserResets, PHCIFramePreReset
<1>5. /\ Only(host, a, {"dfc"}) /\ a.dfc \in Seq(DfcCalls(mode))
      /\ Fns(a.dfc) = Fns(host.dfc) \ fns
  BY <1>1, <1>3, FlushEffect
<1>6. DOMAIN a = Fields /\ a.armed = host.armed
  BY <1>5 DEF Only, Fields
<1>7. "ConnectDone" \notin Fns(a.dfc)
  BY <1>4, <1>5 DEF Fns, Range
<1>8. Settled(host', mode) /\ host'.status = "RESET_PENDING" /\ host'.tx = NoTx
  <2>1. a.armed \subseteq Timers \ {"T1"} /\ a.dfc \in Seq(DfcCalls(mode))
    BY <1>1, <1>5, <1>6
  <2> QED  BY <1>4, <1>6, <1>7, <2>1, PreResetSettled
<1>9. DOMAIN hci' = HciFields /\ ~hci'.connected
  BY <1>1, <1>4 DEF HciFields
<1> QED  BY <1>8, <1>9 DEF HostInv, Old

-----------------------------------------------------------------------------
(* The controller.                                                         *)

(* An acknowledgement changes at most what is to be sent next. *)
LEMMA AcksPeer ==
    ASSUME NEW mode \in Modes, NEW c, Peer(c, mode), NEW nr, NEW d, d = Acks(c, nr)
    PROVE  Peer(d, mode) /\ d.vr = c.vr /\ d.busy = c.busy
<1>1. CASE c.out /\ nr = (c.vs + 1) % 8
  <2>1. d = [c EXCEPT !.out = FALSE, !.vs = nr]
    BY <1>1 DEF Acks
  <2>2. nr \in 0..7
    BY <1>1 DEF Peer
  <2> QED  BY <2>1, <2>2 DEF Peer
<1>2. CASE ~(c.out /\ nr = (c.vs + 1) % 8)
  BY <1>2 DEF Acks
<1> QED  BY <1>1, <1>2

(* What it sends is one of its frames. *)
LEMMA CtrlFrame ==
    ASSUME NEW mode \in Modes, NEW c, Peer(c, mode), NEW t \in {"RR", "REJ", "RNR"},
           t = "RNR" => mode # "calm"
    PROVE  Ctrl(t, c.vr) \in Frames(mode)
BY DEF Ctrl, Peer, Frames, PeerFrames

(* The payload of a frame of the controller, the frame itself, *)
LEMMA KindOfPayload ==
    ASSUME NEW n \in 1..Len(PeerKinds)
    PROVE  [n |-> n, kind |-> PeerKinds[n]] \in PeerPayloads
<1>1. PeerKinds[n] \in {"chained", "event", "other"}
  BY LinkAssumption
<1> QED  BY <1>1 DEF PeerPayloads

(* sent for the first time or again, *)
LEMMA IFrameOfPeer ==
    ASSUME NEW mode \in Modes, NEW c, Peer(c, mode), NEW pay \in PeerPayloads
    PROVE  IFrame(c.vs, c.vr, pay) \in Frames(mode)
<1>1. c.vs \in 0..7 /\ c.vr \in 0..7
  BY DEF Peer
<1> QED  BY <1>1 DEF IFrame, Frames, PeerFrames

(* and the controller once it has sent it. *)
LEMMA SendsPeer ==
    ASSUME NEW mode \in Modes, NEW c, Peer(c, mode), CanSend(c)
    PROVE  NewFrame(c) \in Frames(mode) /\ Peer(SentFrame(c), mode)
<1>1. Len(PeerKinds) \in Nat /\ c.next \in 1..Len(PeerKinds)
  BY LinkAssumption, LenProperties DEF Peer, CanSend
<1>2. NewFrame(c) \in Frames(mode)
  BY <1>1, KindOfPayload, IFrameOfPeer DEF NewFrame
<1>3. Peer(SentFrame(c), mode)
  <2>1. PICK d : d = SentFrame(c)
    OBVIOUS
  <2>2. /\ DOMAIN d = DOMAIN c /\ d.vr = c.vr /\ d.vs = c.vs /\ d.busy = c.busy
        /\ d.out = TRUE /\ d.next = c.next + 1
    BY <2>1 DEF SentFrame, Peer
  <2>3. d.next \in 1..Len(PeerKinds) + 1 /\ d.next > 1
    BY <1>1, <2>2
  <2> QED  BY <2>1, <2>2, <2>3 DEF Peer
<1> QED  BY <1>2, <1>3

(* It answers an I frame. *)
LEMMA AnswersPeer ==
    ASSUME NEW mode \in Modes, NEW c, Peer(c, mode), NEW t \in {"RR", "REJ", "RNR"},
           t = "RNR" => c.busy, toHost \in Seq(Frames(mode)), Answers(c, t)
    PROVE  Peer(ctrl', mode) /\ toHost' \in Seq(Frames(mode))
<1>1. Ctrl(t, c.vr) \in Frames(mode)
  BY CtrlFrame DEF Peer
<1>2. CASE Says(Ctrl(t, c.vr)) /\ ctrl' = c
  BY <1>1, <1>2, AppendProperties DEF Says
<1>3. CASE CanSend(c) /\ Says(NewFrame(c)) /\ ctrl' = SentFrame(c)
  <2>1. NewFrame(c) \in Frames(mode) /\ Peer(SentFrame(c), mode)
    BY <1>3, SendsPeer
  <2> QED  BY <1>3, <2>1, AppendProperties DEF Says
<1> QED  BY <1>2, <1>3 DEF Answers

(* It starts again: the frame to be sent is not forgotten. *)
LEMMA ResetPeer ==
    ASSUME NEW mode \in Modes, Peer(ctrl, mode), NEW state
    PROVE  Peer(Reset(state), mode)
<1>1. ctrl.next \in 1..Len(PeerKinds) + 1
  BY DEF Peer
<1>2. PICK d : d = Reset(state)
  OBVIOUS
<1>3. /\ DOMAIN d = {"state", "vr", "vs", "out", "hold", "busy", "next", "got", "log"}
      /\ d.vr = 0 /\ d.vs = 0 /\ d.out = FALSE /\ d.busy = FALSE /\ d.next = ctrl.next
  BY <1>2 DEF Reset, Boot
<1> QED  BY <1>1, <1>2, <1>3 DEF Peer

(* The controller takes a frame. *)
LEMMA TakesPeer ==
    ASSUME NEW mode \in Modes, Peer(ctrl, mode), toHost \in Seq(Frames(mode)),
           NEW f, CtrlTakes(f)
    PROVE  Peer(ctrl', mode) /\ toHost' \in Seq(Frames(mode))
<1>1. CASE f.t = "RST" /\ Says(UA) /\ ctrl' = Reset("up")
  <2>1. UA \in Frames(mode)
    BY DEF UA, Frames, PeerFrames
  <2> QED  BY <1>1, <2>1, ResetPeer, AppendProperties DEF Says
<1>2. CASE Silent /\ ctrl' = IF ctrl.state = "rst" THEN Reset("up") ELSE ctrl
  BY <1>2, ResetPeer DEF Silent
<1>3. CASE CtrlTakesIFrame(Acks(ctrl, f.nr), f)
  <2>1. PICK c : c = Acks(ctrl, f.nr)
    OBVIOUS
  <2>2. Peer(c, mode)
    BY <2>1, AcksPeer
  <2>3. CASE Answers(c, "REJ")
    BY <2>2, <2>3, AnswersPeer
  <2>4. CASE c.busy /\ Answers(c, "RNR")
    BY <2>2, <2>4, AnswersPeer
  <2>5. CASE Answers([c EXCEPT !.vr = (@ + 1) % 8, !.got = Append(@, f.pay)], "RR")
    <3>1. PICK d : d = [c EXCEPT !.vr = (@ + 1) % 8, !.got = Append(@, f.pay)]
      OBVIOUS
    <3>2. /\ DOMAIN d = DOMAIN c /\ d.vr = (c.vr + 1) % 8 /\ d.vs = c.vs /\ d.busy = c.busy
          /\ d.out = c.out /\ d.next = c.next
      BY <2>2, <3>1 DEF Peer
    <3>3. d.vr \in 0..7
      BY <2>2, <3>2 DEF Peer
    <3>4. Peer(d, mode)
      BY <2>2, <3>2, <3>3 DEF Peer
    <3> QED  BY <2>5, <3>1, <3>4, AnswersPeer
  <2> QED  BY <1>3, <2>1, <2>3, <2>4, <2>5 DEF CtrlTakesIFrame
<1>4. CASE Silent /\ ctrl' = [Acks(ctrl, f.nr) EXCEPT !.hold = f.t = "RNR"]
  <2>1. PICK c : c = Acks(ctrl, f.nr)
    OBVIOUS
  <2>2. Peer(c, mode)
    BY <2>1, AcksPeer
  <2>3. ctrl' = [c EXCEPT !.hold = f.t = "RNR"] /\ toHost' = toHost
    BY <1>4, <2>1 DEF Silent
  <2> QED  BY <2>2, <2>3 DEF Peer
<1>5. CASE Silent /\ UNCHANGED ctrl
  BY <1>5 DEF Silent
<1> QED  BY <1>1, <1>2, <1>3, <1>4, <1>5 DEF CtrlTakes

(* Every step of the controller but the one that makes it busy. *)
LEMMA ControllerPeer ==
    ASSUME NEW mode \in Modes, Peer(ctrl, mode), toHost \in Seq(Frames(mode)),
           CtrlReceives \/ CtrlSends \/ CtrlResends \/ CtrlFree \/ CtrlRestarts \/ CtrlRepeatsRST
    PROVE  Peer(ctrl', mode) /\ toHost' \in Seq(Frames(mode))
<1>1. CASE CtrlReceives
  BY <1>1, TakesPeer DEF CtrlReceives
<1>2. CASE CtrlSends
  <2>1. NewFrame(ctrl) \in Frames(mode) /\ Peer(SentFrame(ctrl), mode)
    BY <1>2, SendsPeer DEF CtrlSends
  <2> QED  BY <1>2, <2>1, AppendProperties DEF CtrlSends, Says
<1>3. CASE CtrlResends
  <2>1. Len(PeerKinds) \in Nat /\ ctrl.next - 1 \in 1..Len(PeerKinds)
    BY <1>3, LinkAssumption, LenProperties DEF CtrlResends, Peer
  <2>2. PICK f : f = IFrame(ctrl.vs, ctrl.vr,
                            [n |-> ctrl.next - 1, kind |-> PeerKinds[ctrl.next - 1]])
    OBVIOUS
  <2>3. f \in Frames(mode)
    BY <2>1, <2>2, KindOfPayload, IFrameOfPeer
  <2>4. ctrl' = ctrl /\ Says(f)
    BY <1>3, <2>2 DEF CtrlResends
  <2> QED  BY <2>3, <2>4, AppendProperties DEF Says
<1>4. CASE CtrlFree
  <2>1. Ctrl("RR", ctrl.vr) \in Frames(mode)
    BY CtrlFrame
  <2>2. Peer(ctrl', mode)
    BY <1>4 DEF CtrlFree, Peer
  <2> QED  BY <1>4, <2>1, <2>2, AppendProperties DEF CtrlFree, Says
<1>5. CASE CtrlRestarts \/ CtrlRepeatsRST
  <2>1. PICK w \in {1, DEFAULT_WINDOW_SIZE} : Says(RST(w))
    BY <1>5 DEF CtrlRestarts, CtrlRepeatsRST
  <2>2. RST(w) \in Frames(mode)
    BY DEF RST, Frames, PeerFrames
  <2>3. Peer(ctrl', mode)
    BY <1>5, ResetPeer DEF CtrlRestarts, CtrlRepeatsRST
  <2> QED  BY <2>1, <2>2, <2>3, AppendProperties DEF Says
<1> QED  BY <1>1, <1>2, <1>3, <1>4, <1>5

(* What is sound as long as the controller has never been busy, is so when *)
(* it has.                                                                 *)
LEMMA BusyWeaker ==
    ASSUME NEW s, Settled(s, "calm")
    PROVE  Settled(s, "busy")
<1>1. Frames("calm") \subseteq Frames("busy")
  BY DEF Frames
<1>2. DfcCalls("calm") \subseteq DfcCalls("busy")
  BY <1>1 DEF DfcCalls
<1>3. s.dfc \in Seq(DfcCalls("busy"))
  <2>1. s.dfc \in Seq(DfcCalls("calm"))
    BY DEF Settled, Sound, Instance
  <2> HIDE DEF DfcCalls
  <2> QED  BY <1>2, <2>1
<1> QED  BY <1>3 DEF Settled, Sound, Instance

(* The mode changes with the fault that makes the controller busy. *)
LEMMA ModeKept ==
    ASSUME faults \in [FaultKinds -> Nat],
           UNCHANGED faults \/ \E k \in FaultKinds \ {"busy"} : Strikes(k)
    PROVE  Mode' = Mode /\ faults' \in [FaultKinds -> Nat]
<1>1. CASE UNCHANGED faults
  BY <1>1 DEF Mode
<1>2. CASE \E k \in FaultKinds \ {"busy"} : Strikes(k)
  <2>1. PICK k \in FaultKinds \ {"busy"} : faults' = [faults EXCEPT ![k] = @ + 1]
    BY <1>2 DEF Strikes
  <2>2. faults' \in [FaultKinds -> Nat] /\ faults'["busy"] = faults["busy"]
    BY <2>1 DEF FaultKinds
  <2> QED  BY <2>2 DEF Mode
<1> QED  BY <1>1, <1>2

(* The controller becomes busy. *)
LEMMA CtrlBusyInv ==
    ASSUME LinkInv, CtrlBusy
    PROVE  LinkInv'
<1>1. /\ faults["busy"] = 0 /\ faults \in [FaultKinds -> Nat]
      /\ faults' = [faults EXCEPT !["busy"] = @ + 1]
  BY DEF LinkInv, PeerInv, CtrlBusy, Strikes
<1>2. Mode = "calm" /\ Mode' = "busy" /\ faults' \in [FaultKinds -> Nat]
  BY <1>1 DEF Mode, FaultKinds
<1>3. /\ host' = host /\ hci' = hci /\ toHost' = toHost
      /\ ctrl' = [ctrl EXCEPT !.busy = TRUE]
  BY DEF CtrlBusy
<1>4. Settled(host', "busy")
  BY <1>2, <1>3, BusyWeaker DEF LinkInv, HostInv
<1>5. Peer(ctrl', "busy")
  BY <1>2, <1>3 DEF LinkInv, PeerInv, Peer
<1>6. toHost' \in Seq(Frames("busy"))
  <2>1. Frames("calm") \subseteq Frames("busy")
    BY DEF Frames
  <2>2. toHost \in Seq(Frames("calm"))
    BY <1>2 DEF LinkInv, PeerInv
  <2> HIDE DEF Frames
  <2> QED  BY <1>3, <2>1, <2>2
<1>7. Old(host') /\ DOMAIN hci' = HciFields /\ (hci'.connected => host'.status = "UA_SENT")
  BY <1>3 DEF LinkInv, HostInv
<1> QED  BY <1>2, <1>4, <1>5, <1>6, <1>7 DEF LinkInv, HostInv, PeerInv

-----------------------------------------------------------------------------
(* The invariant.                                                          *)

(* The controller has been busy or it has not. *)
LEMMA ModeInModes == Mode \in Modes
BY DEF Mode, Modes

(* The HAL, created and reset, satisfies the invariant, *)
LEMMA LinkInit == Init => LinkInv
<1> SUFFICES ASSUME Init PROVE LinkInv
  OBVIOUS
<1>1. faults \in [FaultKinds -> Nat] /\ Mode = "calm" /\ Mode \in Modes
  BY ModeInModes DEF Init, Mode, FaultKinds
<1>2. /\ DOMAIN host = Fields /\ host.status = "RESET_PENDING" /\ host.dfc = <<>>
      /\ host.armed = {} /\ host.tx = NoTx /\ host.buf = <<>>
  BY DEF Init, Created, Fields
<1>3. /\ host.connNext = "NONE" /\ host.ctrl = "NONE" /\ host.window = P_SHDLC_MAX_WINDOW_SIZE
      /\ host.readNext = 32 /\ host.readLastAck = 31 /\ host.lastAck = 31
      /\ host.nextToSend = 32 /\ host.nextWindow = 32
      /\ host.ready = TRUE /\ host.pending = FALSE /\ host.rrSent = FALSE
  BY DEF Init, Created, FirstId
<1>4. Values(host)
  <2>1. host.ready \in BOOLEAN /\ host.pending \in BOOLEAN /\ host.rrSent \in BOOLEAN
    BY <1>3
  <2>2. host.nextToSend <= host.lastAck + 1 + host.window
    BY <1>3 DEF P_SHDLC_MAX_WINDOW_SIZE
  <2> QED  BY <1>2, <1>3, <2>1, <2>2 DEF Values, Statuses
<1>5. Instance(host, Mode)
  BY <1>2, <1>3, <1>4 DEF Instance, TxOK
<1>6. Idle(host, Mode)
  BY <1>3, <1>5 DEF Idle, Quiet
<1>7. "ConnectDone" \notin Fns(host.dfc)
  BY <1>2 DEF Fns, Range
<1>8. Settled(host, Mode)
  BY <1>1, <1>2, <1>6, <1>7, IdleSettled
<1>9. HostInv
  BY <1>2, <1>8 DEF HostInv, Old, Init, HciCreated, HciFields
<1>10. Peer(ctrl, Mode)
  <2>1. Len(PeerKinds) \in Nat
    BY LinkAssumption, LenProperties
  <2>2. ctrl = Boot
    BY DEF Init
  <2>3. ctrl.next = 1 /\ 1 \in 1..Len(PeerKinds) + 1
    BY <2>1, <2>2 DEF Boot
  <2> QED  BY <2>2, <2>3 DEF Boot, Peer
<1>11. toHost \in Seq(Frames(Mode))
  BY DEF Init
<1> QED  BY <1>1, <1>9, <1>10, <1>11 DEF LinkInv, PeerInv

(* and every step of the host and of the controller keeps it. *)
LEMMA LinkStep == LinkInv /\ [Next]_vars => LinkInv'
<1> SUFFICES ASSUME LinkInv, [Next]_vars PROVE LinkInv'
  OBVIOUS
<1>1. PICK mode \in Modes : mode = Mode
  BY ModeInModes
<1>2. /\ HostInv /\ Peer(ctrl, mode) /\ toHost \in Seq(Frames(mode))
      /\ faults \in [FaultKinds -> Nat]
  BY <1>1 DEF LinkInv, PeerInv
<1>3. ASSUME Mode' = Mode, faults' \in [FaultKinds -> Nat], HostInv', Peer(ctrl', mode),
             toHost' \in Seq(Frames(mode))
      PROVE  LinkInv'
  BY <1>1, <1>3 DEF LinkInv, PeerInv
<1>4. UNCHANGED faults => Mode' = Mode /\ faults' \in [FaultKinds -> Nat]
  BY <1>2, ModeKept
<1>5. UNCHANGED <<host, hci>> /\ Mode' = Mode => HostInv'
  BY <1>2 DEF HostInv
<1>6. CASE Calls
  <2>1. UNCHANGED <<toHost, ctrl, faults>>
    BY <1>6 DEF Calls, Runs, RunsHci, FrameReadDone, ConnectWritten, FrameWritten, ResendTimer,
                ResetTimer, PiggyBackTimer, RRTimer, ResetIndication, StreamData, ConnectDone,
                Acknowledged, BufferFree, DataIsReady
  <2>2. HostInv'
    BY <1>1, <1>2, <1>4, <1>6, <2>1, CallsHost
  <2> QED  BY <1>2, <1>3, <1>4, <2>1, <2>2
<1>7. CASE PollWrite
  <2>1. UNCHANGED <<toHost, ctrl, faults>>
    BY <1>7 DEF PollWrite
  <2>2. HostInv'
    BY <1>1, <1>2, <1>4, <1>7, <2>1, PollWriteHost
  <2> QED  BY <1>2, <1>3, <1>4, <2>1, <2>2
<1>8. CASE PollRead
  <2>1. UNCHANGED <<ctrl, faults>>
    BY <1>8 DEF PollRead
  <2>2. HostInv' /\ toHost' \in Seq(Frames(mode))
    BY <1>1, <1>2, <1>4, <1>8, <2>1, PollReadHost
  <2> QED  BY <1>2, <1>3, <1>4, <2>1, <2>2
<1>9. CASE Connect
  <2>1. UNCHANGED <<toHost, ctrl, faults>>
    BY <1>9 DEF Connect
  <2>2. HostInv'
    BY <1>1, <1>2, <1>4, <1>9, <2>1, ConnectHost
  <2> QED  BY <1>2, <1>3, <1>4, <2>1, <2>2
<1>10. CASE \E t \in Timers : TimerExpires(t)
  <2>1. PICK t \in Timers : TimerExpires(t)
    BY <1>10
  <2>2. UNCHANGED <<toHost, ctrl, faults>>
    BY <2>1 DEF TimerExpires
  <2>3. HostInv'
    BY <1>1, <1>2, <1>4, <2>1, <2>2, ExpiresHost
  <2> QED  BY <1>2, <1>3, <1>4, <2>2, <2>3
<1>11. CASE UserWrites
  <2>1. UNCHANGED <<toHost, ctrl, faults>>
    BY <1>11 DEF UserWrites
  <2>2. HostInv'
    BY <1>1, <1>2, <1>4, <1>11, <2>1, UserWritesHost
  <2> QED  BY <1>2, <1>3, <1>4, <2>1, <2>2
<1>12. CASE UserResets
  <2>1. Strikes("reset") /\ toHost' = <<>> /\ ctrl' = Reset("boot")
    BY <1>12 DEF UserResets
  <2>2. Mode' = Mode /\ faults' \in [FaultKinds -> Nat]
    BY <1>2, <2>1, ModeKept DEF FaultKinds
  <2>3. HostInv'
    BY <1>1, <1>2, <1>12, <2>2, UserResetsHost
  <2>4. Peer(ctrl', mode) /\ toHost' \in Seq(Frames(mode))
    BY <1>2, <2>1, ResetPeer
  <2> QED  BY <1>3, <2>2, <2>3, <2>4
<1>13. CASE CtrlReceives \/ CtrlSends \/ CtrlResends \/ CtrlFree \/ CtrlRestarts
              \/ CtrlRepeatsRST
  <2>1. UNCHANGED faults \/ Strikes("restart")
    BY <1>13 DEF CtrlReceives, CtrlSends, CtrlResends, CtrlFree, CtrlRestarts, CtrlRepeatsRST
  <2>2. Mode' = Mode /\ faults' \in [FaultKinds -> Nat]
    BY <1>2, <2>1, ModeKept DEF FaultKinds
  <2>3. UNCHANGED <<host, hci>>
    BY <1>13 DEF CtrlReceives, CtrlSends, CtrlResends, CtrlFree, CtrlRestarts, CtrlRepeatsRST
  <2>4. Peer(ctrl', mode) /\ toHost' \in Seq(Frames(mode))
    BY <1>2, <1>13, ControllerPeer
  <2> QED  BY <1>3, <1>5, <2>2, <2>3, <2>4
<1>14. CASE CtrlBusy
  BY <1>14, CtrlBusyInv
<1>15. CASE Loses
  <2>1. Strikes("loss") /\ UNCHANGED <<host, hci, ctrl>>
        /\ (toHost' = toHost \/ (toHost # <<>> /\ toHost' = Tail(toHost)))
    BY <1>15 DEF Loses
  <2>2. Mode' = Mode /\ faults' \in [FaultKinds -> Nat]
    BY <1>2, <2>1, ModeKept DEF FaultKinds
  <2>3. toHost' \in Seq(Frames(mode))
    BY <1>2, <2>1, HeadTailProperties
  <2> QED  BY <1>2, <1>3, <1>5, <2>1, <2>2, <2>3
<1>16. CASE UNCHANGED vars
  <2>1. UNCHANGED <<host, hci, toHost, ctrl, faults>>
    BY <1>16 DEF vars
  <2> QED  BY <1>2, <1>3, <1>4, <1>5, <2>1
<1> QED  BY <1>6, <1>7, <1>8, <1>9, <1>10, <1>11, <1>12, <1>13, <1>14, <1>15, <1>16
         DEF Next, Host, Controller

(* The inductive invariant: what waits in tSHDLCInstance is always waited  *)
(* for by a timer, a completion or a queued call, the identifiers keep     *)
(* their order, and the controller sends RNR only after it has been busy.  *)
THEOREM LinkInvHolds == Spec => []LinkInv
BY LinkInit, LinkStep, PTL DEF Spec

(* LinkTypeOK of LinkProperties: the fields of tSHDLCInstance hold what    *)
(* they may, and nLastAck, nNextWindowFrame and nNextToSend keep the order *)
(* that the assertions of nfc_hal_shdlc.c state, whatever is lost, sent    *)
(* again or reset.                                                         *)
THEOREM LinkTypeCorrect == Spec => []LinkTypeOK
<1>1. LinkInv => LinkTypeOK
  <2> SUFFICES ASSUME LinkInv PROVE LinkTypeOK
    OBVIOUS
  <2>1. Values(host) /\ host.armed \subseteq Timers \ {"T1"} /\ Old(host)
    BY DEF LinkInv, HostInv, Settled, Sound, Instance
  <2>2. host.window \in 1..P_SHDLC_MAX_WINDOW_SIZE
    BY <2>1 DEF Values, P_SHDLC_MAX_WINDOW_SIZE
  <2> QED  BY <2>1, <2>2 DEF LinkTypeOK, Values, Statuses, Old
<1> QED  BY <1>1, LinkInvHolds, PTL

(* ResendScheduled of LinkProperties: whatever waits to be sent or to be   *)
(* acknowledged, there is a timer, a completion or a queued call that will *)
(* run static_PSHDLCWriteTransmit for it.                                  *)
THEOREM ResendScheduledHolds == Spec => []ResendScheduled
<1>1. LinkInv => ResendScheduled
  <2> SUFFICES ASSUME LinkInv PROVE ResendScheduled
    OBVIOUS
  <2>1. /\ Awaited(host) /\ CtrlTried(host) /\ (Mode = "calm" => IFrameTried(host))
        /\ Values(host)
    BY DEF LinkInv, HostInv, Settled, Sound, Instance
  <2>2. \A fn : fn \in Fns(host.dfc) => Queued(fn)
    BY DEF Fns, Range, Queued
  <2>3. \A t : Coming(host, t) => Pending(t)
    BY <2>2 DEF Coming, Pending
  <2>4. host.pending => host.tx # NoTx \/ Queued("FrameWritten")
    BY <2>1, <2>2 DEF Awaited
  <2>5. host.rrSent => Pending("T6")
    BY <2>1, <2>3 DEF Awaited
  <2>6. host.ctrl # "NONE" => Pending("T4") \/ host.pending \/ host.rrSent
    BY <2>1, <2>3 DEF CtrlTried
  <2>7. Unacked /\ faults["busy"] = 0
           => Pending("T2") \/ host.pending \/ host.rrSent \/ host.ctrl # "NONE"
    <3>1. CASE host.nextWindow = host.nextToSend
      BY <2>1, <2>3, <3>1 DEF Awaited, Unacked
    <3>2. CASE host.nextWindow # host.nextToSend
      BY <2>1, <3>2 DEF IFrameTried, Mode
    <3> QED  BY <3>1, <3>2
  <2> QED  BY <2>4, <2>5, <2>6, <2>7 DEF ResendScheduled
<1> QED  BY <1>1, LinkInvHolds, PTL
=============================================================================
