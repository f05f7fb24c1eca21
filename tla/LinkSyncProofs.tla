--------------------------- MODULE LinkSyncProofs ---------------------------
(***************************************************************************)
(* What the two ends of the link have sent and received, for every list of *)
(* messages, list of frames of the controller and number of losses: within *)
(* a session frames arrive once and in order, what is acknowledged was     *)
(* received, and what is completed was received.                           *)
(*                                                                         *)
(* All this until the controller restarts by itself, and on the assumption *)
(* that T3 does not expire while RST or the answer to it is under way.     *)
(***************************************************************************)
EXTENDS LinkQueueProofs

(* The pairs of a line, the earlier frame first. *)
Pairs(q) == {p \in Range(q) \X Range(q) :
                \E i, j \in DOMAIN q : i < j /\ p = <<q[i], q[j]>>}

(* The frames on their way to the controller, the one in the frame buffer  *)
(* last; and those on their way to the host, the one it has read first.    *)
InTx(s) == IF s.tx = NoTx THEN {} ELSE {s.tx.f}
InRead(s) == {c.f : c \in {d \in Range(s.dfc) : d.fn = "FrameRead"}}

Out(s, q) == Range(q) \union InTx(s)
OutPairs(s, q) == Pairs(q) \union (Range(q) \X InTx(s))
In(s, q) == InRead(s) \union Range(q)
InPairs(s, q) == Pairs(q) \union (InRead(s) \X Range(q))

(* With full width, what the controller counts in three bits: the frame it *)
(* expects next, the one it will send next, and the one that is to be      *)
(* acknowledged next.                                                      *)
Expects(c) == FirstId + Len(c.got)
Sends(c) == FirstId + Len(c.log)
Owed(c) == IF c.out THEN Sends(c) - 1 ELSE Sends(c)

(* Neither side is more than one frame ahead of the other. *)
Abreast(s, c) ==
    /\ s.lastAck \in Nat /\ s.nextToSend <= s.lastAck + 2
    /\ s.lastAck + 1 <= Expects(c) /\ Expects(c) <= s.nextToSend
    /\ Owed(c) <= s.readNext /\ s.readNext <= Sends(c)
    /\ s.nextToSend = FirstId + Len(s.log) /\ s.readNext = FirstId + Len(s.rlog)
    /\ c.vr = Expects(c) % 8 /\ c.vs = Owed(c) % 8 /\ c.out \in BOOLEAN

(* What was received is what was sent. *)
Fragments == [m : Nat, frag : Nat, last : BOOLEAN]
Same(s, c) ==
    /\ s.log \in Seq(Fragments) /\ c.got \in Seq(Fragments)
    /\ s.rlog \in Seq(PeerPayloads) /\ c.log \in Seq(Nat)
    /\ \A i \in 1..Len(c.got) : c.got[i] = s.log[i]
    /\ \A i \in 1..Len(s.rlog) : s.rlog[i].n = c.log[i]
    /\ Waits(s) => /\ s.log # <<>>
                   /\ s.slots[0].ns = (s.nextToSend - 1) % 8
                   /\ s.slots[0].pay = s.log[Len(s.log)]
    /\ c.out => c.log # <<>> /\ c.log[Len(c.log)] = c.next - 1

(* The numbers x of a line with the frames F and the pairs P: k, or k + 1  *)
(* once that is below lim, and no k behind a k + 1.                        *)
Has(x, f) == IF x = "ns" THEN f.t = "I" ELSE f.t \in {"I", "RR", "RNR", "REJ"}

Steady(x, F, P, k, lim) ==
    /\ \A f \in F : Has(x, f) => f[x] = k % 8 \/ (f[x] = (k + 1) % 8 /\ k + 1 < lim)
    /\ \A p \in P : Has(x, p[1]) /\ Has(x, p[2]) /\ p[1][x] = (k + 1) % 8
                       => p[2][x] = (k + 1) % 8

Outgoing(s, c, F, P) ==
    /\ Steady("ns", F, P, Expects(c) - 1, s.nextToSend)
    /\ Steady("nr", F, P, Owed(c), s.readNext + 1)
    /\ \A f \in F : f.t = "I" /\ Expects(c) < s.nextToSend /\ f.ns = Expects(c) % 8
                       => f.pay = s.log[Len(c.got) + 1]
    /\ \A f \in F : f.t \in {"I", "RR", "RNR", "REJ", "RST", "BAD"}

Incoming(s, c, F, P) ==
    /\ Steady("ns", F, P, s.readNext - 1, Sends(c))
    /\ Steady("nr", F, P, s.lastAck + 1, Expects(c) + 1)
    /\ \A f \in F : f.t = "I" /\ s.readNext < Sends(c) /\ f.ns = s.readNext % 8
                       => f.pay.n = c.log[Len(s.rlog) + 1]

(* A session: the frames F and pairs P go to the controller, G and Q to    *)
(* the host.                                                               *)
Ends(s, c, F, P) ==
    /\ Abreast(s, c) /\ Same(s, c) /\ Outgoing(s, c, F, P)
    /\ s.connNext = "NONE" /\ s.ctrl # "UA" /\ s.status # "SEND_UA_PENDING"
Session(s, c, F, G, Q) ==
    /\ Incoming(s, c, G, Q) /\ \A f \in F : f.t # "RST"

(* A frame the controller has sent since RST, of which the host has taken  *)
(* none.                                                                   *)
First(g, c) ==
    /\ g.t = "I" => g.ns = 0 /\ Sends(c) = FirstId + 1 /\ g.pay.n = c.log[1]
    /\ Has("nr", g) => g.nr = 0

(* RST will be sent. *)
Asking(s) == s.status = "RESET_PENDING" \/ "T3" \in Fns(s.dfc)

(* Before the session: at most one RST is under way, no UA with it, and    *)
(* behind UA the frames of the session that begins.                        *)
Shaking(s, c, F, P, G, Q) ==
    /\ s.lastAck = FirstId - 1 /\ s.nextToSend = FirstId /\ s.readNext = FirstId
    /\ \A f \in F : f.t \in {"RST", "BAD"}
    /\ \A p \in P : ~(p[1].t = "RST" /\ p[2].t = "RST")
    /\ Asking(s) => \A f \in F : f.t # "RST"
    /\ Asking(s) \/ (\E f \in F : f.t = "RST") => \A g \in G : g.t # "UA"
    /\ \A p \in Q : p[1].t = "UA" => First(p[2], c)

(* The calls of the handshake. *)
Once(q, fn) == \A i, j \in DOMAIN q : i < j => ~(q[i].fn = fn /\ q[j].fn = fn)
Calling(s) ==
    /\ s.tx # NoTx \/ "ConnectWritten" \in Fns(s.dfc) => s.status = "SEND_RESET_PENDING"
    /\ s.tx # NoTx => s.tx.cb = "ConnectWritten"
    /\ s.tx # NoTx /\ ~s.tx.new => "ConnectWritten" \notin Fns(s.dfc)
    /\ "T3" \in s.armed => "T3" \notin Fns(s.dfc)
    /\ Once(s.dfc, "T3") /\ Once(s.dfc, "ConnectWritten")

Linked(s, c, F, P, G, Q) ==
    /\ Ends(s, c, F, P)
    /\ s.status = "UA_SENT" => Session(s, c, F, G, Q)
    /\ s.status # "UA_SENT" => Shaking(s, c, F, P, G, Q) /\ Calling(s)

(* The HCI layer: the messages that are sent are, in order, one that was   *)
(* taken and will be completed by a queued call, and the one whose last    *)
(* frame is in the window.                                                 *)
Ended(s) == IF "Acknowledged" \in Fns(s.dfc) THEN 1 ELSE 0
Completes(s, u, c, tk) ==
    /\ Range(u.done) \subseteq tk /\ u.done \in Seq(Nat)
    /\ \A p \in Range(c.got) : p.last => p.m \in tk
    /\ Ended(s) = 1 => u.sent[1] \in tk
    /\ LastWaits(s) => u.sent[Ended(s) + 1] = s.slots[0].pay.m
    /\ Len(u.sent) = Ended(s) + IF LastWaits(s) THEN 1 ELSE 0

SyncInv ==
    faults["restart"] = 0 =>
        /\ Linked(host, ctrl, Out(host, toCtrl), OutPairs(host, toCtrl),
                  In(host, toHost), InPairs(host, toHost))
        /\ toCtrl \in Seq(Range(toCtrl))
        /\ Completes(host, hci, ctrl, taken)

-----------------------------------------------------------------------------
(* The lines.                                                              *)

LEMMA AppendPairs ==
    ASSUME NEW S, NEW q \in Seq(S), NEW f
    PROVE  /\ Append(q, f) \in Seq(S \union {f})
           /\ Range(Append(q, f)) = Range(q) \union {f}
           /\ Pairs(Append(q, f)) \subseteq Pairs(q) \union (Range(q) \X {f})
<1> DEFINE r == Append(q, f)
<1>1. q \in Seq(S \union {f}) /\ f \in S \union {f}
  OBVIOUS
<1>2. /\ r \in Seq(S \union {f}) /\ Len(q) \in Nat /\ DOMAIN q = 1..Len(q)
      /\ DOMAIN r = 1..Len(q) + 1
      /\ \A i \in 1..Len(q) : r[i] = q[i]
      /\ r[Len(q) + 1] = f
  BY <1>1, AppendProperties, LenProperties
<1> HIDE DEF r
<1>3. Range(r) = Range(q) \union {f}
  BY <1>2 DEF Range
<1>4. ASSUME NEW i \in DOMAIN r, NEW j \in DOMAIN r, i < j
      PROVE  <<r[i], r[j]>> \in Pairs(q) \union (Range(q) \X {f})
  <2>1. i \in DOMAIN q /\ r[i] = q[i] /\ q[i] \in Range(q)
    BY <1>2, <1>4 DEF Range
  <2>2. CASE j \in DOMAIN q
    <3>1. r[j] = q[j] /\ q[j] \in Range(q)
      BY <1>2, <2>2 DEF Range
    <3> QED  BY <1>4, <2>1, <2>2, <3>1 DEF Pairs
  <2>3. CASE j \notin DOMAIN q
    <3>1. r[j] = f
      BY <1>2, <2>3
    <3> QED  BY <2>1, <3>1
  <2> QED  BY <2>2, <2>3
<1>5. Pairs(r) \subseteq Pairs(q) \union (Range(q) \X {f})
  BY <1>4 DEF Pairs
<1> QED  BY <1>2, <1>3, <1>5 DEF r

LEMMA TailPairs ==
    ASSUME NEW S, NEW q \in Seq(S), q # <<>>
    PROVE  /\ Tail(q) \in Seq(S) /\ Head(q) \in Range(q) /\ Head(q) \in S
           /\ Range(Tail(q)) \subseteq Range(q) /\ Pairs(Tail(q)) \subseteq Pairs(q)
           /\ \A g \in Range(Tail(q)) : <<Head(q), g>> \in Pairs(q)
<1> DEFINE r == Tail(q)
<1>1. /\ r \in Seq(S) /\ Len(q) \in Nat /\ Len(q) > 0 /\ DOMAIN q = 1..Len(q)
      /\ DOMAIN r = 1..Len(q) - 1 /\ Head(q) = q[1] /\ Head(q) \in S
      /\ \A i \in 1..Len(q) - 1 : r[i] = q[i + 1]
  BY HeadTailProperties, LenProperties, EmptySeq
<1> HIDE DEF r
<1>2. Head(q) \in Range(q)
  BY <1>1 DEF Range
<1>3. ASSUME NEW i \in DOMAIN r PROVE i + 1 \in DOMAIN q /\ r[i] = q[i + 1] /\ r[i] \in Range(q)
  BY <1>1 DEF Range
<1>4. Range(r) \subseteq Range(q)
  BY <1>3 DEF Range
<1>5. ASSUME NEW i \in DOMAIN r, NEW j \in DOMAIN r, i < j PROVE <<r[i], r[j]>> \in Pairs(q)
  <2>1. /\ i + 1 \in DOMAIN q /\ r[i] = q[i + 1] /\ r[i] \in Range(q)
        /\ j + 1 \in DOMAIN q /\ r[j] = q[j + 1] /\ r[j] \in Range(q) /\ i + 1 < j + 1
    BY <1>1, <1>3, <1>5
  <2> QED  BY <2>1 DEF Pairs
<1>6. Pairs(r) \subseteq Pairs(q)
  BY <1>5 DEF Pairs
<1>7. ASSUME NEW j \in DOMAIN r PROVE <<Head(q), r[j]>> \in Pairs(q)
  <2>1. 1 \in DOMAIN q /\ j + 1 \in DOMAIN q /\ 1 < j + 1 /\ r[j] = q[j + 1] /\ r[j] \in Range(q)
    BY <1>1, <1>3
  <2> QED  BY <1>1, <1>2, <2>1 DEF Pairs
<1>8. \A g \in Range(r) : <<Head(q), g>> \in Pairs(q)
  BY <1>7 DEF Range
<1> QED  BY <1>1, <1>2, <1>4, <1>6, <1>8 DEF r

(* A line with fewer frames; frames with a wrong LRC do not matter. *)
Fewer(F, P, E, R) ==
    /\ \A f \in F : f = BAD \/ f \in E
    /\ \A p \in P : p[1] = BAD \/ p[2] = BAD \/ p \in R

(* The same with one frame more, behind all others. *)
More(F, P, E, R, g) ==
    /\ \A f \in F : f = BAD \/ f = g \/ f \in E
    /\ \A p \in P : p[1] = BAD \/ p[2] = BAD \/ p \in R \/ (p[1] \in E /\ p[2] = g)

(* F and P are what is left when the first frame f of E and R has gone. *)
Behind(f, F, P, E, R) ==
    /\ f \in E /\ F \subseteq E /\ P \subseteq R /\ \A g \in F : <<f, g>> \in R
    /\ \A p \in P : p[1] \in F /\ p[2] \in F

LEMMA SteadyFewer ==
    ASSUME NEW x \in {"ns", "nr"}, NEW E, NEW R, NEW k, NEW lim, Steady(x, E, R, k, lim),
           NEW F, NEW P, Fewer(F, P, E, R)
    PROVE  Steady(x, F, P, k, lim)
<1>1. ~Has(x, BAD)
  BY DEF Has, BAD
<1> QED  BY <1>1 DEF Steady, Fewer

(* A frame with the latest number follows. *)
LEMMA SteadyMore ==
    ASSUME NEW x \in {"ns", "nr"}, NEW E, NEW R, NEW k \in Int, NEW lim \in Int, Steady(x, E, R, k, lim),
           NEW g, Has(x, g) => g[x] = (lim - 1) % 8, lim - 1 = k \/ lim - 1 = k + 1,
           NEW F, NEW P, More(F, P, E, R, g)
    PROVE  Steady(x, F, P, k, lim)
<1>1. ~Has(x, BAD)
  BY DEF Has, BAD
<1>2. k % 8 # (k + 1) % 8
  OBVIOUS
<1>3. ASSUME Has(x, g) PROVE g[x] = k % 8 \/ (g[x] = (k + 1) % 8 /\ k + 1 < lim)
  BY <1>3
<1>4. ASSUME NEW f \in E, Has(x, f), Has(x, g), f[x] = (k + 1) % 8 PROVE g[x] = (k + 1) % 8
  <2>1. k + 1 < lim
    BY <1>2, <1>4 DEF Steady
  <2>2. lim - 1 = k + 1
    BY <2>1
  <2> QED  BY <1>4, <2>2
<1> QED  BY <1>1, <1>3, <1>4 DEF Steady, More

(* The limit grows. *)
LEMMA SteadyLimit ==
    ASSUME NEW x, NEW F, NEW P, NEW k \in Int, NEW lim \in Int, Steady(x, F, P, k, lim),
           NEW l \in Int, lim <= l
    PROVE  Steady(x, F, P, k, l)
BY DEF Steady

(* k + 1 is taken: behind it there is nothing older. *)
LEMMA SteadyNext ==
    ASSUME NEW x, NEW E, NEW R, NEW k \in Int, NEW lim, Steady(x, E, R, k, lim),
           NEW f, Has(x, f), f[x] = (k + 1) % 8, NEW F, NEW P, Behind(f, F, P, E, R), NEW l
    PROVE  Steady(x, F, P, k + 1, l)
<1>1. ASSUME NEW g \in F, Has(x, g) PROVE g[x] = (k + 1) % 8
  <2>1. <<f, g>> \in R
    BY DEF Behind
  <2>2. PICK p \in R : p = <<f, g>>
    BY <2>1
  <2> QED  BY <1>1, <2>2 DEF Steady
<1>2. (k + 1) % 8 # (k + 1 + 1) % 8
  OBVIOUS
<1>3. ASSUME NEW p \in P, Has(x, p[1]), Has(x, p[2]), p[1][x] = (k + 1 + 1) % 8
      PROVE p[2][x] = (k + 1 + 1) % 8
  <2>1. p[1] \in F
    BY DEF Behind
  <2> QED  BY <1>1, <1>2, <1>3, <2>1
<1> QED  BY <1>1, <1>3 DEF Steady

-----------------------------------------------------------------------------
(* The two ends of a session.                                              *)

LEMMA Numbers ==
    ASSUME NEW s, NEW c, Abreast(s, c), Same(s, c)
    PROVE  /\ s.lastAck \in Nat /\ s.nextToSend \in Nat /\ s.readNext \in Nat
           /\ Len(s.log) \in Nat /\ Len(s.rlog) \in Nat /\ Len(c.got) \in Nat /\ Len(c.log) \in Nat
           /\ Expects(c) \in Nat /\ Sends(c) \in Nat /\ Owed(c) \in Nat
           /\ Owed(c) = Sends(c) \/ (c.out /\ Owed(c) = Sends(c) - 1)
           /\ s.nextToSend = s.lastAck + 1 \/ s.nextToSend = s.lastAck + 2
           /\ Expects(c) = s.lastAck + 1 \/ Expects(c) = s.lastAck + 2
<1>1. /\ Len(s.log) \in Nat /\ Len(s.rlog) \in Nat /\ Len(c.got) \in Nat /\ Len(c.log) \in Nat
  BY LenProperties DEF Same
<1>2. Expects(c) \in Nat /\ Sends(c) \in Nat /\ s.nextToSend \in Nat /\ s.readNext \in Nat
  <2>1. s.nextToSend = FirstId + Len(s.log) /\ s.readNext = FirstId + Len(s.rlog)
    BY DEF Abreast
  <2>2. Expects(c) \in Nat /\ Sends(c) \in Nat
    BY <1>1 DEF Expects, Sends, FirstId
  <2>3. s.nextToSend \in Nat /\ s.readNext \in Nat
    BY <1>1, <2>1 DEF FirstId
  <2> QED  BY <2>2, <2>3
<1>3. Owed(c) \in Nat /\ (Owed(c) = Sends(c) \/ (c.out /\ Owed(c) = Sends(c) - 1))
  BY <1>1 DEF Owed, Sends, FirstId
<1>4. s.lastAck \in Nat /\ s.nextToSend <= s.lastAck + 2 /\ s.lastAck + 1 <= Expects(c)
      /\ Expects(c) <= s.nextToSend
  BY DEF Abreast
<1>5. ASSUME NEW a \in Nat, NEW e \in Nat, NEW n \in Nat, a + 1 <= e, e <= n, n <= a + 2
      PROVE  (n = a + 1 \/ n = a + 2) /\ (e = a + 1 \/ e = a + 2)
  BY <1>5
<1>6. /\ s.nextToSend = s.lastAck + 1 \/ s.nextToSend = s.lastAck + 2
      /\ Expects(c) = s.lastAck + 1 \/ Expects(c) = s.lastAck + 2
  BY <1>2, <1>4, <1>5
<1> QED  BY <1>1, <1>2, <1>3, <1>4, <1>6

LEMMA Mod8 ==
    ASSUME NEW n \in Nat
    PROVE  /\ (n - 1) % 8 # n % 8 /\ n % 8 # (n + 1) % 8 /\ ((n % 8) + 1) % 8 = (n + 1) % 8
           /\ (n + 1) % 8 # (n + 2) % 8 /\ n % 8 \in 0..7 /\ (n + 1 - 1) % 8 = n % 8
           /\ (n - 1 + 1) % 8 = n % 8
OBVIOUS

LEMMA OneBack ==
    ASSUME NEW n \in Nat, NEW m, m = n + 1
    PROVE  m - 1 = n
OBVIOUS

LEMMA WindowFree ==
    ASSUME NEW s, NEW c, Abreast(s, c), Same(s, c), ~Waits(s)
    PROVE  /\ s.nextToSend = s.lastAck + 1 /\ Expects(c) = s.nextToSend
           /\ s.nextToSend + 1 <= s.lastAck + 2 /\ Expects(c) <= s.nextToSend + 1
           /\ s.nextToSend <= s.nextToSend + 1 /\ s.nextToSend + 1 - 1 = s.nextToSend
           /\ ~(Expects(c) - 1 + 1 < s.nextToSend) /\ Len(c.got) = Len(s.log)
<1>1. /\ s.lastAck \in Nat /\ s.nextToSend \in Nat /\ Expects(c) \in Nat
      /\ Expects(c) <= s.nextToSend /\ s.lastAck + 1 <= Expects(c)
  BY Numbers DEF Abreast
<1>2. s.nextToSend = s.lastAck + 1 /\ Expects(c) = s.nextToSend
  BY <1>1 DEF Waits
<1>3. /\ s.nextToSend + 1 <= s.lastAck + 2 /\ Expects(c) <= s.nextToSend + 1
      /\ s.nextToSend <= s.nextToSend + 1 /\ s.nextToSend + 1 - 1 = s.nextToSend
      /\ ~(Expects(c) - 1 + 1 < s.nextToSend)
  BY <1>1, <1>2
<1>4. /\ Len(s.log) \in Nat /\ Len(c.got) \in Nat /\ s.nextToSend = 32 + Len(s.log)
      /\ Expects(c) = 32 + Len(c.got)
  BY Numbers DEF Abreast, Expects, FirstId
<1>5. Len(c.got) = Len(s.log)
  BY <1>2, <1>4
<1> QED  BY <1>2, <1>3, <1>5

(* A frame of the controller that the host has not received yet. *)
LEMMA FrameAhead ==
    ASSUME NEW s, NEW c, Abreast(s, c), Same(s, c), s.readNext < Sends(c)
    PROVE  s.readNext + 1 = Sends(c) /\ Owed(c) = s.readNext /\ Owed(c) <= s.readNext + 1 /\ c.out
<1>1. /\ s.readNext \in Nat /\ Sends(c) \in Nat /\ Owed(c) \in Nat /\ Owed(c) <= s.readNext
      /\ Owed(c) = Sends(c) \/ (c.out /\ Owed(c) = Sends(c) - 1)
  BY Numbers DEF Abreast
<1> QED  BY <1>1

(* What the host and the lines may change without the session noticing. *)
Alike(s, k) ==
    /\ k.status = s.status /\ k.connNext = s.connNext /\ k.lastAck = s.lastAck
    /\ k.nextToSend = s.nextToSend /\ k.readNext = s.readNext /\ k.slots = s.slots
    /\ k.log = s.log /\ k.rlog = s.rlog

LEMMA OutgoingFewer ==
    ASSUME NEW s, NEW c, NEW E, NEW R, Outgoing(s, c, E, R), NEW k, Alike(s, k),
           NEW F, NEW P, Fewer(F, P, E, R)
    PROVE  Outgoing(k, c, F, P)
<1>1. Steady("ns", F, P, Expects(c) - 1, k.nextToSend)
  BY SteadyFewer DEF Outgoing, Alike
<1>2. Steady("nr", F, P, Owed(c), k.readNext + 1)
  BY SteadyFewer DEF Outgoing, Alike
<1>3. \A f \in F : f.t = "BAD" \/ f \in E
  BY DEF Fewer, BAD
<1> QED  BY <1>1, <1>2, <1>3 DEF Outgoing, Alike

LEMMA IncomingFewer ==
    ASSUME NEW s, NEW c, NEW E, NEW R, Incoming(s, c, E, R), NEW k, Alike(s, k),
           NEW F, NEW P, Fewer(F, P, E, R)
    PROVE  Incoming(k, c, F, P)
<1>1. Steady("ns", F, P, k.readNext - 1, Sends(c))
  BY SteadyFewer DEF Incoming, Alike
<1>2. Steady("nr", F, P, k.lastAck + 1, Expects(c) + 1)
  BY SteadyFewer DEF Incoming, Alike
<1>3. \A f \in F : f.t = "BAD" \/ f \in E
  BY DEF Fewer, BAD
<1> QED  BY <1>1, <1>2, <1>3 DEF Incoming, Alike

LEMMA EndsFewer ==
    ASSUME NEW s, NEW c, NEW E, NEW R, Ends(s, c, E, R), NEW k, Alike(s, k), k.ctrl # "UA",
           NEW F, NEW P, Fewer(F, P, E, R)
    PROVE  Ends(k, c, F, P)
<1>1. Abreast(k, c)
  BY DEF Ends, Abreast, Alike
<1>2. Same(k, c)
  BY DEF Ends, Same, Alike, Waits
<1>3. Outgoing(k, c, F, P)
  BY OutgoingFewer DEF Ends
<1> QED  BY <1>1, <1>2, <1>3 DEF Ends, Alike

LEMMA SessionFewer ==
    ASSUME NEW s, NEW c, NEW E, NEW H, NEW T, Session(s, c, E, H, T), NEW k, Alike(s, k),
           NEW F, \A f \in F : f = BAD \/ f \in E, NEW G, NEW Q, Fewer(G, Q, H, T)
    PROVE  Session(k, c, F, G, Q)
<1>1. Incoming(k, c, G, Q)
  BY IncomingFewer DEF Session
<1> QED  BY <1>1 DEF Session, BAD

(* The frame that static_PSHDLCWriteTransmit writes: the one in the        *)
(* window, or a control frame, with what has been received until now.      *)
Current(s, g) ==
    /\ g.t \in {"I", "RR", "RNR", "REJ"} /\ g.nr = s.readNext % 8
    /\ g.t = "I" => Waits(s) /\ g.ns = s.slots[0].ns /\ g.pay = s.slots[0].pay

LEMMA OutgoingMore ==
    ASSUME NEW s, NEW c, NEW E, NEW R, Ends(s, c, E, R), NEW g, Current(s, g),
           NEW F, NEW P, More(F, P, E, R, g)
    PROVE  Outgoing(s, c, F, P)
<1> Abreast(s, c) /\ Same(s, c) /\ Outgoing(s, c, E, R)
  BY DEF Ends
<1>0. /\ s.lastAck \in Nat /\ s.nextToSend \in Nat /\ s.readNext \in Nat
      /\ Expects(c) \in Nat /\ Sends(c) \in Nat /\ Owed(c) \in Nat
      /\ Owed(c) = Sends(c) \/ Owed(c) = Sends(c) - 1
      /\ s.nextToSend = s.lastAck + 1 \/ s.nextToSend = s.lastAck + 2
      /\ Expects(c) = s.lastAck + 1 \/ Expects(c) = s.lastAck + 2
      /\ Owed(c) <= s.readNext /\ s.readNext <= Sends(c) /\ Expects(c) <= s.nextToSend
  BY Numbers DEF Abreast
<1>9. /\ Len(s.log) \in Nat /\ Len(c.got) \in Nat /\ Expects(c) = 32 + Len(c.got)
      /\ s.nextToSend = 32 + Len(s.log)
  BY Numbers DEF Abreast, Expects, FirstId
<1>1. Has("ns", g) => g["ns"] = (s.nextToSend - 1) % 8
  BY DEF Has, Current, Same
<1>2. Has("nr", g) => g["nr"] = (s.readNext + 1 - 1) % 8
  BY <1>0 DEF Current
<1>3. Steady("ns", F, P, Expects(c) - 1, s.nextToSend)
  <2>1. Steady("ns", E, R, Expects(c) - 1, s.nextToSend)
    BY DEF Outgoing
  <2>2. s.nextToSend - 1 = Expects(c) - 1 \/ s.nextToSend - 1 = Expects(c) - 1 + 1
    BY <1>0
  <2> QED  BY <2>1, <2>2, <1>0, <1>1, SteadyMore
<1>4. Steady("nr", F, P, Owed(c), s.readNext + 1)
  <2>1. Steady("nr", E, R, Owed(c), s.readNext + 1)
    BY DEF Outgoing
  <2>2. s.readNext + 1 - 1 = Owed(c) \/ s.readNext + 1 - 1 = Owed(c) + 1
    BY <1>0
  <2> QED  BY <2>1, <2>2, <1>0, <1>2, SteadyMore
<1>5. ASSUME g.t = "I", Expects(c) < s.nextToSend PROVE g.pay = s.log[Len(c.got) + 1]
  <2>1. g.pay = s.log[Len(s.log)]
    BY <1>5 DEF Current, Same
  <2>2. s.nextToSend = Expects(c) + 1
    BY <1>0, <1>5
  <2>3. Len(s.log) = Len(c.got) + 1
    BY <1>9, <2>2
  <2> QED  BY <2>1, <2>3
<1>6. \A f \in F : f.t = "BAD" \/ f = g \/ f \in E
  BY DEF More, BAD
<1>7. ASSUME NEW f \in F, f.t = "I", Expects(c) < s.nextToSend, f.ns = Expects(c) % 8
      PROVE  f.pay = s.log[Len(c.got) + 1]
  BY <1>5, <1>6, <1>7 DEF Outgoing
<1>8. \A f \in F : f.t \in {"I", "RR", "RNR", "REJ", "RST", "BAD"}
  BY <1>6 DEF Outgoing, Current
<1> QED  BY <1>3, <1>4, <1>7, <1>8 DEF Outgoing

LEMMA EndsMore ==
    ASSUME NEW s, NEW c, NEW E, NEW R, Ends(s, c, E, R), NEW g, Current(s, g),
           NEW F, NEW P, More(F, P, E, R, g)
    PROVE  Ends(s, c, F, P)
BY OutgoingMore DEF Ends

(* PSHDLCWrite takes a frame: the window is full. *)
LEMMA EndsWritten ==
    ASSUME NEW s, NEW c, NEW F, NEW P, Ends(s, c, F, P), ~Waits(s), NEW pay \in Fragments, NEW k,
           k.status = s.status, k.connNext = s.connNext, k.ctrl # "UA", k.lastAck = s.lastAck,
           k.readNext = s.readNext, k.rlog = s.rlog, k.nextToSend = s.nextToSend + 1,
           k.log = Append(s.log, pay), k.slots[0].ns = s.nextToSend % 8, k.slots[0].pay = pay
    PROVE  /\ Ends(k, c, F, P)
           /\ \A G, Q : Session(s, c, F, G, Q) => Session(k, c, F, G, Q)
<1>0. Abreast(s, c) /\ Same(s, c) /\ Outgoing(s, c, F, P)
  BY DEF Ends
<1>1. s.lastAck \in Nat /\ s.nextToSend \in Nat /\ s.readNext \in Nat /\ Expects(c) \in Nat
  BY <1>0, Numbers
<1>2. /\ s.nextToSend = s.lastAck + 1 /\ Expects(c) = s.nextToSend
      /\ s.nextToSend + 1 <= s.lastAck + 2 /\ Expects(c) <= s.nextToSend + 1
      /\ s.nextToSend <= s.nextToSend + 1 /\ s.nextToSend + 1 - 1 = s.nextToSend
      /\ ~(Expects(c) - 1 + 1 < s.nextToSend) /\ Len(c.got) = Len(s.log)
  BY <1>0, WindowFree
<1>3. /\ Len(k.log) = Len(s.log) + 1 /\ k.log \in Seq(Fragments)
      /\ k.log[Len(k.log)] = pay /\ \A i \in 1..Len(s.log) : k.log[i] = s.log[i]
  BY <1>0, AppendProperties DEF Same
<1>4. Abreast(k, c)
  <2>1. k.nextToSend <= k.lastAck + 2 /\ Expects(c) <= k.nextToSend
    BY <1>2
  <2>2. k.nextToSend = FirstId + Len(k.log)
    BY <1>0, <1>3, LenProperties DEF FirstId, Abreast, Same
  <2>3. k.readNext = FirstId + Len(k.rlog)
    BY <1>0 DEF Abreast
  <2> QED  BY <1>0, <2>1, <2>2, <2>3 DEF Abreast
<1>5. Same(k, c)
  <2>2. \A i \in 1..Len(c.got) : c.got[i] = k.log[i]
    BY <1>0, <1>2, <1>3 DEF Same
  <2>3. k.nextToSend - 1 = s.nextToSend
    BY <1>1, OneBack
  <2>4. k.slots[0].ns = (k.nextToSend - 1) % 8
    BY <2>3
  <2>5. k.slots[0].pay = k.log[Len(k.log)]
    BY <1>3
  <2>6. k.log # <<>>
    <3>1. s.log \in Seq(Fragments)
      BY <1>0 DEF Same
    <3> QED  BY <3>1, AppendProperties
  <2> QED  BY <1>0, <1>3, <2>2, <2>4, <2>5, <2>6 DEF Same
<1>6. Outgoing(k, c, F, P)
  <2>1. Steady("ns", F, P, Expects(c) - 1, s.nextToSend)
    BY <1>0 DEF Outgoing
  <2>2. Steady("ns", F, P, Expects(c) - 1, k.nextToSend)
    BY <1>1, <1>2, <2>1, SteadyLimit
  <2>3. ASSUME NEW f \in F, f.t = "I" PROVE f.ns # Expects(c) % 8
    <3>1. Has("ns", f)
      BY <2>3 DEF Has
    <3>2. f["ns"] = (Expects(c) - 1) % 8
      BY <1>2, <2>1, <3>1 DEF Steady
    <3>3. (Expects(c) - 1) % 8 # Expects(c) % 8
      BY <1>1, Mod8
    <3> QED  BY <3>2, <3>3
  <2> QED  BY <1>0, <2>2, <2>3 DEF Outgoing
<1>7. Ends(k, c, F, P)
  BY <1>4, <1>5, <1>6 DEF Ends
<1>8. ASSUME NEW G, NEW Q, Session(s, c, F, G, Q) PROVE Session(k, c, F, G, Q)
  BY <1>8 DEF Session, Incoming
<1> QED  BY <1>7, <1>8

(* The frame in the window is acknowledged: it had been received. *)
LEMMA EndsAcked ==
    ASSUME NEW s, NEW c, NEW F, NEW P, Ends(s, c, F, P), s.nextToSend = s.lastAck + 2,
           NEW H, NEW T, Session(s, c, F, H, T), NEW f, NEW G, NEW Q, Behind(f, G, Q, H, T),
           Has("nr", f), f.nr = (s.lastAck + 2) % 8, NEW k,
           k.status = s.status, k.connNext = s.connNext, k.ctrl # "UA", k.lastAck = s.lastAck + 1,
           k.nextToSend = s.nextToSend, k.readNext = s.readNext, k.rlog = s.rlog, k.log = s.log
    PROVE  Expects(c) = s.nextToSend /\ Ends(k, c, F, P) /\ Session(k, c, F, G, Q)
<1>0. Abreast(s, c) /\ Same(s, c) /\ Outgoing(s, c, F, P) /\ Incoming(s, c, H, T)
  BY DEF Ends, Session
<1>1. /\ s.lastAck \in Nat /\ s.nextToSend \in Nat /\ s.readNext \in Nat
      /\ Expects(c) \in Nat /\ Sends(c) \in Nat /\ Owed(c) \in Nat /\ Expects(c) <= s.nextToSend
  BY <1>0, Numbers DEF Abreast
<1>2. Steady("nr", H, T, s.lastAck + 1, Expects(c) + 1) /\ f \in H
  BY <1>0 DEF Incoming, Behind
<1>3. s.lastAck + 2 < Expects(c) + 1
  <2>1. f["nr"] = (s.lastAck + 1) % 8 \/ s.lastAck + 1 + 1 < Expects(c) + 1
    BY <1>2 DEF Steady
  <2>2. (s.lastAck + 1) % 8 # (s.lastAck + 2) % 8
    BY <1>1
  <2> QED  BY <1>1, <2>1, <2>2
<1>4. Expects(c) = s.nextToSend
  BY <1>1, <1>3
<1>5. Abreast(k, c)
  <2>1. /\ k.lastAck \in Nat /\ k.nextToSend <= k.lastAck + 2 /\ k.lastAck + 1 <= Expects(c)
        /\ Expects(c) <= k.nextToSend
    BY <1>1, <1>4
  <2> QED  BY <1>0, <2>1 DEF Abreast
<1>6. Same(k, c)
  <2>1. ~Waits(k)
    BY <1>1 DEF Waits
  <2> QED  BY <1>0, <2>1 DEF Same
<1>7. Outgoing(k, c, F, P)
  BY <1>0 DEF Outgoing
<1>8. Incoming(k, c, G, Q)
  <2>1. f["nr"] = (s.lastAck + 1 + 1) % 8
    BY <1>1
  <2>2. Steady("nr", G, Q, s.lastAck + 1 + 1, Expects(c) + 1)
    BY <1>1, <1>2, <2>1, SteadyNext
  <2>3. Steady("nr", G, Q, k.lastAck + 1, Expects(c) + 1)
    BY <2>2
  <2>4. Fewer(G, Q, H, T)
    BY DEF Behind, Fewer
  <2>5. Steady("ns", G, Q, k.readNext - 1, Sends(c))
    BY <1>0, <2>4, SteadyFewer DEF Incoming
  <2> QED  BY <1>0, <2>3, <2>5 DEF Incoming, Behind
<1> QED  BY <1>4, <1>5, <1>6, <1>7, <1>8 DEF Ends, Session

(* The frame the host expects is accepted. *)
LEMMA EndsAccepted ==
    ASSUME NEW s, NEW c, NEW F, NEW P, Ends(s, c, F, P), NEW G, NEW Q, Session(s, c, F, G, Q),
           s.readNext < Sends(c), NEW pay \in PeerPayloads, pay.n = c.log[Len(s.rlog) + 1],
           Steady("ns", G, Q, s.readNext, Sends(c)), NEW k,
           k.status = s.status, k.connNext = s.connNext, k.ctrl # "UA", k.lastAck = s.lastAck,
           k.nextToSend = s.nextToSend, k.log = s.log, k.slots = s.slots,
           k.readNext = s.readNext + 1, k.rlog = Append(s.rlog, pay)
    PROVE  Ends(k, c, F, P) /\ Session(k, c, F, G, Q)
<1>0. Abreast(s, c) /\ Same(s, c) /\ Outgoing(s, c, F, P) /\ Incoming(s, c, G, Q)
  BY DEF Ends, Session
<1>1. /\ s.lastAck \in Nat /\ s.nextToSend \in Nat /\ s.readNext \in Nat
      /\ Expects(c) \in Nat /\ Sends(c) \in Nat /\ Owed(c) \in Nat /\ Owed(c) <= s.readNext
      /\ Owed(c) = Sends(c) \/ Owed(c) = Sends(c) - 1
  BY <1>0, Numbers DEF Abreast
<1>2. k.readNext = Sends(c) /\ Owed(c) <= k.readNext /\ Owed(c) = s.readNext
  BY <1>0, FrameAhead
<1>3. /\ k.rlog \in Seq(PeerPayloads) /\ Len(k.rlog) = Len(s.rlog) + 1 /\ Len(s.rlog) \in Nat
      /\ k.rlog[Len(s.rlog) + 1] = pay /\ \A i \in 1..Len(s.rlog) : k.rlog[i] = s.rlog[i]
  BY <1>0, AppendProperties, LenProperties DEF Same
<1>4. Abreast(k, c)
  <2>1. k.readNext = FirstId + Len(k.rlog)
    BY <1>0, <1>3 DEF Abreast, FirstId
  <2> QED  BY <1>0, <1>1, <1>2, <2>1 DEF Abreast
<1>5. Same(k, c)
  <2>1. ASSUME NEW i \in 1..Len(k.rlog) PROVE k.rlog[i].n = c.log[i]
    <3>1. i \in 1..Len(s.rlog) \/ i = Len(s.rlog) + 1
      BY <1>3
    <3> QED  BY <1>0, <1>3, <3>1 DEF Same
  <2>2. Waits(k) <=> Waits(s)
    BY DEF Waits
  <2> QED  BY <1>0, <1>3, <2>1, <2>2 DEF Same
<1>6. Outgoing(k, c, F, P)
  <2>1. Steady("nr", F, P, Owed(c), s.readNext + 1)
    BY <1>0 DEF Outgoing
  <2>2. Steady("nr", F, P, Owed(c), k.readNext + 1)
    BY <1>1, <2>1, SteadyLimit
  <2> QED  BY <1>0, <2>2 DEF Outgoing
<1>7. Incoming(k, c, G, Q)
  <2>1. k.readNext - 1 = s.readNext /\ ~(k.readNext < Sends(c))
    BY <1>1, <1>2
  <2> QED  BY <1>0, <2>1 DEF Incoming
<1> QED  BY <1>4, <1>5, <1>6, <1>7 DEF Ends, Session

-----------------------------------------------------------------------------
(* The lines, as the steps of the host change them.                        *)

LEMMA OutKept ==
    ASSUME NEW s, NEW k, InTx(k) \subseteq InTx(s), NEW q
    PROVE  Fewer(Out(k, q), OutPairs(k, q), Out(s, q), OutPairs(s, q))
BY DEF Fewer, Out, OutPairs

LEMMA OutWritten ==
    ASSUME NEW s, NEW k, NEW f, NEW cb, Writes(s, k, f, cb), NEW q
    PROVE  More(Out(k, q), OutPairs(k, q), Out(s, q), OutPairs(s, q), f)
<1>1. InTx(k) = {f}
  BY DEF Writes, InTx, NoTx
<1>2. \A p \in OutPairs(k, q) : p \in Pairs(q) \/ (p[1] \in Range(q) /\ p[2] = f)
  BY <1>1 DEF OutPairs
<1> QED  BY <1>1, <1>2 DEF More, Out, OutPairs

LEMMA OutTaken ==
    ASSUME NEW s, s.tx # NoTx, NEW S, NEW q \in Seq(S), NEW g \in OnTheWire(s.tx),
           NEW k, k.tx = NoTx
    PROVE  Fewer(Out(k, Append(q, g)), OutPairs(k, Append(q, g)), Out(s, q), OutPairs(s, q))
<1>1. InTx(k) = {} /\ InTx(s) = {s.tx.f} /\ (g = BAD \/ g = s.tx.f)
  BY DEF InTx, OnTheWire
<1>2. /\ Range(Append(q, g)) = Range(q) \union {g}
      /\ Pairs(Append(q, g)) \subseteq Pairs(q) \union (Range(q) \X {g})
  BY AppendPairs
<1>3. \A f \in Out(k, Append(q, g)) : f = BAD \/ f \in Out(s, q)
  BY <1>1, <1>2 DEF Out
<1>4. ASSUME NEW p \in OutPairs(k, Append(q, g)) PROVE p[1] = BAD \/ p[2] = BAD \/ p \in OutPairs(s, q)
  <2>1. p \in Pairs(q) \/ p \in Range(q) \X {g}
    BY <1>1, <1>2, <1>4 DEF OutPairs
  <2> QED  BY <1>1, <2>1 DEF OutPairs
<1> QED  BY <1>3, <1>4 DEF Fewer

LEMMA InKept ==
    ASSUME NEW s, NEW k, Older(s.dfc, k.dfc), NEW h
    PROVE  Fewer(In(k, h), InPairs(k, h), In(s, h), InPairs(s, h))
<1>1. InRead(k) \subseteq InRead(s)
  BY DEF InRead, Older
<1> QED  BY <1>1 DEF Fewer, In, InPairs

(* The frame whose call is run is the first of those that are coming. *)
LEMMA InTaken ==
    ASSUME NEW s, NEW p, NEW e, NEW mode, Popped(s, p, e, mode), e.fn = "FrameRead",
           InOrder(s.dfc), NEW h
    PROVE  /\ Behind(e.f, In(p, h), InPairs(p, h), In(s, h), InPairs(s, h))
           /\ "FrameRead" \notin Fns(p.dfc)
<1>1. "FrameRead" \notin Fns(p.dfc)
  BY DEF Popped, NeverBefore
<1>2. InRead(p) = {}
  BY <1>1 DEF InRead, Fns
<1>3. e.f \in InRead(s)
  BY DEF InRead, Popped
<1>4. /\ In(p, h) = Range(h) /\ InPairs(p, h) = Pairs(h)
  BY <1>2 DEF In, InPairs
<1>5. \A g \in Range(h) : <<e.f, g>> \in InPairs(s, h)
  BY <1>3 DEF InPairs
<1>6. \A x \in Pairs(h) : x[1] \in Range(h) /\ x[2] \in Range(h)
  BY DEF Pairs
<1>7. Pairs(h) \subseteq InPairs(s, h) /\ Range(h) \subseteq In(s, h) /\ e.f \in In(s, h)
  BY <1>3 DEF InPairs, In
<1> QED  BY <1>1, <1>4, <1>5, <1>6, <1>7 DEF Behind

-----------------------------------------------------------------------------
(* The host in a session.                                                  *)

LiveOn(s, c, q, h) ==
    /\ s.status = "UA_SENT" /\ Ends(s, c, Out(s, q), OutPairs(s, q))
    /\ Session(s, c, Out(s, q), In(s, h), InPairs(s, h))

LEMMA LiveKept ==
    ASSUME NEW s, NEW c, NEW q, NEW h, LiveOn(s, c, q, h), NEW k, Alike(s, k), k.ctrl # "UA",
           InTx(k) \subseteq InTx(s), Older(s.dfc, k.dfc)
    PROVE  LiveOn(k, c, q, h)
<1>1. Fewer(Out(k, q), OutPairs(k, q), Out(s, q), OutPairs(s, q))
  BY OutKept
<1>2. Fewer(In(k, h), InPairs(k, h), In(s, h), InPairs(s, h))
  BY InKept
<1>3. Ends(k, c, Out(k, q), OutPairs(k, q))
  BY <1>1, EndsFewer DEF LiveOn
<1>4. Session(k, c, Out(k, q), In(k, h), InPairs(k, h))
  <2>1. \A f \in Out(k, q) : f = BAD \/ f \in Out(s, q)
    BY <1>1 DEF Fewer
  <2> QED  BY <1>2, <2>1, SessionFewer DEF LiveOn
<1> QED  BY <1>3, <1>4 DEF LiveOn, Alike

LEMMA LiveWritten ==
    ASSUME NEW s, NEW c, NEW q, NEW h, LiveOn(s, c, q, h), NEW k, Alike(s, k), k.ctrl # "UA",
           Older(s.dfc, k.dfc), NEW g, Current(s, g), NEW cb, Writes(s, k, g, cb)
    PROVE  LiveOn(k, c, q, h)
<1>1. More(Out(k, q), OutPairs(k, q), Out(s, q), OutPairs(s, q), g)
  BY OutWritten
<1>2. Fewer(In(k, h), InPairs(k, h), In(s, h), InPairs(s, h))
  BY InKept
<1>3. Ends(s, c, Out(k, q), OutPairs(k, q))
  BY <1>1, EndsMore DEF LiveOn
<1>4. Fewer(Out(k, q), OutPairs(k, q), Out(k, q), OutPairs(k, q))
  BY DEF Fewer
<1>5. Ends(k, c, Out(k, q), OutPairs(k, q))
  BY <1>3, <1>4, EndsFewer
<1>6. \A f \in Out(k, q) : f.t # "RST"
  BY <1>1 DEF More, BAD, Current, LiveOn, Session
<1>7. Incoming(k, c, In(k, h), InPairs(k, h))
  BY <1>2, IncomingFewer DEF LiveOn, Session
<1> QED  BY <1>5, <1>6, <1>7 DEF LiveOn, Alike, Session

LEMMA KinAlike ==
    ASSUME NEW s, NEW k, NEW mode, Kin(s, k, mode)
    PROVE  Alike(s, k) /\ Older(s.dfc, k.dfc)
<1>1. Older(s.dfc, k.dfc)
  BY KinOlder
<1>2. Only(s, k, Moving)
  BY DEF Kin
<1> QED  BY <1>1, <1>2 DEF Alike, Only, Moving, Fields

(* The window of one frame. *)
Narrow(s) ==
    /\ s.window = 1 /\ s.lastAck \in Nat /\ s.nextWindow \in Nat /\ s.nextToSend \in Nat
    /\ s.lastAck < s.nextWindow /\ s.nextWindow <= s.nextToSend
    /\ s.ctrl \in {"NONE", "RR", "RNR", "REJ", "UA"}

LEMMA LiveTransmit ==
    ASSUME NEW s, NEW c, NEW q, NEW h, LiveOn(s, c, q, h), Narrow(s), NEW mode, Based(s, mode),
           NEW force \in BOOLEAN, NEW k, k = WriteTransmit(s, force)
    PROVE  LiveOn(k, c, q, h) /\ Kin(s, k, mode)
<1>1. Kin(s, k, mode) /\ Transmits(s, k)
  BY KinTransmit
<1>2. Alike(s, k) /\ Older(s.dfc, k.dfc)
  BY <1>1, KinAlike
<1>3. s.ctrl # "UA"
  BY DEF LiveOn, Ends
<1>4. CASE k.tx = s.tx /\ k.ctrl = s.ctrl
  <2>1. InTx(k) \subseteq InTx(s)
    BY <1>4 DEF InTx
  <2> QED  BY <1>1, <1>2, <1>3, <1>4, <2>1, LiveKept
<1>5. CASE k.ctrl = "NONE" /\ \E f : Chooses(s, f) /\ Writes(s, k, f, "FrameWritten")
  <2>1. PICK f : Chooses(s, f) /\ Writes(s, k, f, "FrameWritten")
    BY <1>5
  <2>2. Current(s, f)
    <3>1. CASE /\ s.nextWindow # s.nextToSend
               /\ LET slot == s.slots[s.nextWindow % s.window]
                  IN  f = IFrame(slot.ns, ThreeBits(s.readNext), slot.pay)
      <4>1. s.nextWindow % s.window = 0
        BY DEF Narrow
      <4>2. Waits(s)
        BY <3>1 DEF Narrow, Waits
      <4> QED  BY <3>1, <4>1, <4>2 DEF Current, IFrame, ThreeBits
    <3>2. CASE s.ctrl \notin {"NONE", "UA"} /\ f = Ctrl(s.ctrl, ThreeBits(s.readNext))
      <4>1. s.ctrl \in {"RR", "RNR", "REJ"}
        BY <3>2 DEF Narrow
      <4> QED  BY <3>2, <4>1 DEF Current, Ctrl, ThreeBits
    <3> QED  BY <1>3, <2>1, <3>1, <3>2 DEF Chooses
  <2> QED  BY <1>1, <1>2, <1>5, <2>1, <2>2, LiveWritten
<1> QED  BY <1>1, <1>4, <1>5 DEF Transmits

LEMMA SettledNarrow ==
    ASSUME NEW mode \in Modes, NEW s, Sound(s, mode)
    PROVE  Narrow(s) /\ Based(s, mode) /\ Values(s)
BY DEF Sound, Instance, Values, Narrow, Based, P_SHDLC_MAX_WINDOW_SIZE

(* What is completed, as long as no message ends. *)
LEMMA CompletesKept ==
    ASSUME NEW s, NEW u, NEW c, NEW tk, Completes(s, u, c, tk), NEW k,
           k.slots = s.slots, k.lastAck = s.lastAck, k.nextToSend = s.nextToSend,
           "Acknowledged" \in Fns(k.dfc) <=> "Acknowledged" \in Fns(s.dfc)
    PROVE  Completes(k, u, c, tk)
<1>1. Ended(k) = Ended(s) /\ (LastWaits(k) <=> LastWaits(s))
  BY DEF Ended, LastWaits, Waits
<1> QED  BY <1>1 DEF Completes

LEMMA CompletesKin ==
    ASSUME NEW s, NEW u, NEW c, NEW tk, Completes(s, u, c, tk), NEW k, NEW mode, Kin(s, k, mode)
    PROVE  Completes(k, u, c, tk)
<1>1. Alike(s, k)
  BY KinAlike
<1>2. "Acknowledged" \in Fns(k.dfc) <=> "Acknowledged" \in Fns(s.dfc)
  BY LikeFns DEF Kin, Watched
<1> QED  BY <1>1, <1>2, CompletesKept DEF Alike

LEMMA RebuiltNext ==
    ASSUME NEW s, s.lastAck \in Nat, NEW nr \in Nat, nr < 8,
           Rebuild32BitIdentifier(s, nr) = s.lastAck + 2
    PROVE  nr = (s.lastAck + 2) % 8
<1>1. PICK a \in Nat : a = s.lastAck
  OBVIOUS
<1>2. (IF nr > a % 8 THEN a - (a % 8) + nr ELSE a - (a % 8) + 8 + nr) = a + 2
  BY <1>1 DEF Rebuild32BitIdentifier, ThreeBits
<1>3. PICK r \in 0..7 : r = a % 8
  BY <1>1
<1>4. nr = r + 2 \/ nr + 8 = r + 2
  BY <1>2, <1>3
<1>5. nr = (a + 2) % 8
  BY <1>3, <1>4
<1> QED  BY <1>1, <1>5

(* An acknowledgement is received, in a frame of its own or in f. *)
Receiving(p, f, u, c, tk, q, h, mode) ==
    /\ p.status = "UA_SENT" /\ Narrow(p) /\ Based(p, mode)
    /\ Ends(p, c, Out(p, q), OutPairs(p, q))
    /\ \E H, T : Session(p, c, Out(p, q), H, T) /\ Behind(f, In(p, h), InPairs(p, h), H, T)
    /\ Completes(p, u, c, tk) /\ "Acknowledged" \notin Fns(p.dfc)

LEMMA ReceivingLive ==
    ASSUME NEW p, NEW f, NEW u, NEW c, NEW tk, NEW q, NEW h, NEW mode,
           Receiving(p, f, u, c, tk, q, h, mode)
    PROVE  LiveOn(p, c, q, h)
<1>1. PICK H, T : Session(p, c, Out(p, q), H, T) /\ Behind(f, In(p, h), InPairs(p, h), H, T)
  BY DEF Receiving
<1>2. Fewer(In(p, h), InPairs(p, h), H, T)
  BY <1>1 DEF Behind, Fewer
<1>3. Session(p, c, Out(p, q), In(p, h), InPairs(p, h))
  BY <1>1, <1>2, SessionFewer DEF Alike
<1> QED  BY <1>3 DEF LiveOn, Receiving

(* The window is freed: its frame had been received. *)
LEMMA FreedLive ==
    ASSUME NEW p, NEW f, NEW u, NEW c, NEW tk, NEW q, NEW h, NEW mode,
           Receiving(p, f, u, c, tk, q, h, mode), Has("nr", f), f.nr \in 0..7,
           Rebuild32BitIdentifier(p, f.nr) = p.nextToSend, NEW k, Freed(p, k, mode)
    PROVE  LiveOn(k, c, q, h) /\ Completes(k, u, c, tk)
<1>1. PICK H, T : Session(p, c, Out(p, q), H, T) /\ Behind(f, In(p, h), InPairs(p, h), H, T)
  BY DEF Receiving
<1>2. /\ k.status = p.status /\ k.connNext = p.connNext /\ k.ctrl = p.ctrl /\ k.tx = p.tx
      /\ k.nextToSend = p.nextToSend /\ k.readNext = p.readNext /\ k.slots = p.slots
      /\ k.log = p.log /\ k.rlog = p.rlog /\ k.lastAck = p.nextToSend - 1
  BY DEF Freed, Only, Fields
<1>3. Older(p.dfc, k.dfc) /\ InTx(k) \subseteq InTx(p)
  BY <1>2 DEF Freed, Older, Watched, InTx
<1>4. /\ p.lastAck \in Nat /\ p.nextToSend \in Nat /\ Abreast(p, c) /\ Same(p, c)
      /\ p.nextToSend = p.lastAck + 1 \/ p.nextToSend = p.lastAck + 2
  BY Numbers DEF Receiving, Ends
<1>5. Ended(p) = 0 /\ k.ctrl # "UA"
  BY <1>2 DEF Receiving, Ended, Ends
<1>6. CASE p.nextToSend = p.lastAck + 1
  <2>1. k.lastAck = p.lastAck /\ ~Waits(p) /\ ~LastWaits(p)
    BY <1>2, <1>4, <1>6 DEF Waits, LastWaits
  <2>2. Alike(p, k)
    BY <1>2, <2>1 DEF Alike
  <2>3. LiveOn(p, c, q, h)
    BY ReceivingLive
  <2>4. "Acknowledged" \notin Fns(k.dfc)
    BY <2>1 DEF Freed, Receiving
  <2>5. Completes(k, u, c, tk)
    BY <1>2, <2>1, <2>4, CompletesKept DEF Receiving
  <2> QED  BY <1>3, <1>5, <2>2, <2>3, <2>5, LiveKept
<1>7. CASE p.nextToSend = p.lastAck + 2
  <2>1. f.nr = (p.lastAck + 2) % 8
    BY <1>4, <1>7, RebuiltNext
  <2>2. k.lastAck = p.lastAck + 1
    BY <1>2, <1>4, <1>7
  <2>3. /\ Expects(c) = p.nextToSend /\ Ends(k, c, Out(p, q), OutPairs(p, q))
        /\ Session(k, c, Out(p, q), In(p, h), InPairs(p, h))
    BY <1>1, <1>2, <1>5, <1>7, <2>1, <2>2, EndsAcked DEF Receiving
  <2>4. LiveOn(k, c, q, h)
    <3>1. Fewer(Out(k, q), OutPairs(k, q), Out(p, q), OutPairs(p, q))
      BY <1>3, OutKept
    <3>2. Fewer(In(k, h), InPairs(k, h), In(p, h), InPairs(p, h))
      BY <1>3, InKept
    <3>3. Alike(k, k)
      BY DEF Alike
    <3>4. Ends(k, c, Out(k, q), OutPairs(k, q))
      BY <1>5, <2>3, <3>1, <3>3, EndsFewer
    <3>5. \A g \in Out(k, q) : g = BAD \/ g \in Out(p, q)
      BY <3>1 DEF Fewer
    <3>6. Session(k, c, Out(k, q), In(k, h), InPairs(k, h))
      BY <2>3, <3>2, <3>3, <3>5, SessionFewer
    <3> QED  BY <1>2, <3>4, <3>6 DEF LiveOn, Receiving
  <2>5. Waits(p) /\ ~Waits(k) /\ ~LastWaits(k)
    BY <1>2, <1>4, <1>7 DEF Waits, LastWaits
  <2>6. LastWaits(p) => p.slots[0].pay.m \in tk
    <3>1. SUFFICES ASSUME LastWaits(p) PROVE p.slots[0].pay.m \in tk
      OBVIOUS
    <3>2. Len(c.got) = Len(p.log) /\ Len(c.got) \in Nat /\ Len(c.got) > 0
      <4>1. Len(c.got) \in Nat /\ Len(p.log) \in Nat /\ 32 + Len(c.got) = 32 + Len(p.log)
        BY <1>4, <2>3, Numbers DEF Abreast, Expects, FirstId
      <4>2. p.log # <<>>
        BY <1>4, <2>5 DEF Same
      <4>3. Len(p.log) # 0
        BY <1>4, <4>2, EmptySeq DEF Same
      <4> QED  BY <4>1, <4>3
    <3>3. p.slots[0].pay = p.log[Len(p.log)]
      BY <1>4, <2>5 DEF Same
    <3>4. c.got[Len(c.got)] = p.slots[0].pay
      <4>1. PICK n : n = Len(c.got)
        OBVIOUS
      <4>2. n \in 1..n /\ n = Len(p.log)
        BY <3>2, <4>1
      <4>3. \A i \in 1..n : c.got[i] = p.log[i]
        BY <1>4, <4>1 DEF Same
      <4> QED  BY <3>3, <4>1, <4>2, <4>3
    <3>5. c.got[Len(c.got)] \in Range(c.got)
      BY <1>4, <3>2 DEF Same, Range
    <3> QED  BY <3>1, <3>4, <3>5 DEF Completes, Receiving, LastWaits
  <2>7. Ended(k) = IF LastWaits(p) THEN 1 ELSE 0
    BY DEF Freed, Receiving, Ended
  <2>8. Completes(k, u, c, tk)
    BY <1>5, <2>5, <2>6, <2>7 DEF Completes, Receiving
  <2> QED  BY <2>4, <2>8
<1> QED  BY <1>4, <1>6, <1>7

LEMMA ReadyReceiving ==
    ASSUME NEW p, NEW f, NEW u, NEW c, NEW tk, NEW q, NEW h, NEW mode,
           Receiving(p, f, u, c, tk, q, h, mode), NEW a, Only(p, a, {"ready"})
    PROVE  /\ Receiving(a, f, u, c, tk, q, h, mode)
           /\ a.buf = p.buf /\ a.readNext = p.readNext /\ a.rlog = p.rlog /\ a.dfc = p.dfc
           /\ a.lastAck = p.lastAck /\ a.nextToSend = p.nextToSend
<1>1. /\ Alike(p, a) /\ a.dfc = p.dfc /\ a.tx = p.tx /\ a.ctrl = p.ctrl /\ a.window = p.window
      /\ a.nextWindow = p.nextWindow /\ a.buf = p.buf /\ DOMAIN a = Fields
  BY DEF Only, Fields, Alike
<1>2. /\ Out(a, q) = Out(p, q) /\ OutPairs(a, q) = OutPairs(p, q)
      /\ In(a, h) = In(p, h) /\ InPairs(a, h) = InPairs(p, h)
  BY <1>1 DEF Out, OutPairs, In, InPairs, InTx, InRead
<1>3. PICK H, T : Session(p, c, Out(p, q), H, T) /\ Behind(f, In(p, h), InPairs(p, h), H, T)
  BY DEF Receiving
<1>4. \A F, P : Fewer(F, P, F, P) /\ \A g \in F : g = BAD \/ g \in F
  BY DEF Fewer
<1>5. Ends(a, c, Out(a, q), OutPairs(a, q))
  BY <1>1, <1>2, <1>4, EndsFewer DEF Receiving, Ends
<1>6. Session(a, c, Out(a, q), H, T)
  BY <1>1, <1>2, <1>3, <1>4, SessionFewer
<1>7. Completes(a, u, c, tk)
  BY <1>1, CompletesKept DEF Receiving, Alike
<1>8. Narrow(a) /\ Based(a, mode)
  BY <1>1 DEF Receiving, Narrow, Based, Alike
<1> QED  BY <1>1, <1>2, <1>3, <1>5, <1>6, <1>7, <1>8 DEF Receiving, Alike

(* The acknowledgement g that f carries has been received. *)
LEMMA LiveReceives ==
    ASSUME NEW p, NEW f, NEW u, NEW c, NEW tk, NEW q, NEW h, NEW mode,
           Receiving(p, f, u, c, tk, q, h, mode), NEW g,
           g.t \in {"RR", "RNR", "REJ"} => Has("nr", f) /\ f.nr \in 0..7 /\ g.nr = f.nr,
           NEW k, Receives(p, g, k, mode)
    PROVE  /\ LiveOn(k, c, q, h) /\ Completes(k, u, c, tk) /\ Older(p.dfc, k.dfc)
           /\ k.buf = p.buf /\ k.readNext = p.readNext /\ k.rlog = p.rlog
<1>1. PICK a : /\ Only(p, a, {"ready"})
               /\ \/ k = a
                  \/ k = WriteTransmit(a, FALSE)
                  \/ /\ g.t \in {"RR", "RNR", "REJ"}
                     /\ Rebuild32BitIdentifier(p, g.nr) = p.nextToSend
                     /\ Freed(a, k, mode)
  BY DEF Receives
<1>2. /\ Receiving(a, f, u, c, tk, q, h, mode)
      /\ a.buf = p.buf /\ a.readNext = p.readNext /\ a.rlog = p.rlog /\ a.dfc = p.dfc
      /\ a.lastAck = p.lastAck /\ a.nextToSend = p.nextToSend
  BY <1>1, ReadyReceiving
<1>3. LiveOn(a, c, q, h) /\ Completes(a, u, c, tk) /\ Narrow(a) /\ Based(a, mode)
  BY <1>2, ReceivingLive DEF Receiving
<1>4. CASE k = a
  BY <1>2, <1>3, <1>4 DEF Older
<1>5. CASE k = WriteTransmit(a, FALSE)
  <2>1. LiveOn(k, c, q, h) /\ Kin(a, k, mode)
    BY <1>3, <1>5, LiveTransmit
  <2>2. Completes(k, u, c, tk) /\ Alike(a, k) /\ Older(a.dfc, k.dfc)
    BY <1>3, <2>1, CompletesKin, KinAlike
  <2>3. k.buf = a.buf
    BY <2>1 DEF Kin, Only, Moving, Fields
  <2> QED  BY <1>2, <2>1, <2>2, <2>3 DEF Alike
<1>6. CASE /\ g.t \in {"RR", "RNR", "REJ"}
           /\ Rebuild32BitIdentifier(p, g.nr) = p.nextToSend
           /\ Freed(a, k, mode)
  <2>1. Rebuild32BitIdentifier(a, f.nr) = a.nextToSend
    BY <1>2, <1>6 DEF Rebuild32BitIdentifier
  <2>2. LiveOn(k, c, q, h) /\ Completes(k, u, c, tk)
    BY <1>2, <1>6, <2>1, FreedLive
  <2>3. k.buf = a.buf /\ k.readNext = a.readNext /\ k.rlog = a.rlog
    BY <1>6 DEF Freed, Only, Fields
  <2>4. Older(a.dfc, k.dfc)
    BY <1>6 DEF Freed, Older, Watched
  <2> QED  BY <1>2, <2>2, <2>3, <2>4
<1> QED  BY <1>1, <1>4, <1>5, <1>6

(* An I frame with the number that is expected is the frame the controller *)
(* has sent last; nothing older follows it.                                *)
LEMMA Expected ==
    ASSUME NEW s, NEW c, NEW F, NEW P, Ends(s, c, F, P), NEW H, NEW T, Session(s, c, F, H, T),
           NEW f, NEW G, NEW Q, Behind(f, G, Q, H, T), f.t = "I", f.ns = s.readNext % 8
    PROVE  /\ s.readNext < Sends(c) /\ f.pay.n = c.log[Len(s.rlog) + 1]
           /\ Steady("ns", G, Q, s.readNext, Sends(c))
<1>0. Abreast(s, c) /\ Same(s, c) /\ Incoming(s, c, H, T) /\ f \in H
  BY DEF Ends, Session, Behind
<1>1. s.readNext \in Nat /\ Sends(c) \in Nat
  BY <1>0, Numbers
<1>2. PICK n \in Int : n = s.readNext - 1 /\ n + 1 = s.readNext
  BY <1>1
<1>3. Steady("ns", H, T, n, Sends(c)) /\ Has("ns", f) /\ f["ns"] = (n + 1) % 8
  BY <1>0, <1>2 DEF Incoming, Has
<1>4. n % 8 # (n + 1) % 8
  BY <1>2
<1>5. n + 1 < Sends(c)
  BY <1>0, <1>3, <1>4 DEF Steady
<1>6. Steady("ns", G, Q, n + 1, Sends(c))
  BY <1>3, SteadyNext
<1>7. s.readNext < Sends(c)
  BY <1>2, <1>5
<1>8. f.pay.n = c.log[Len(s.rlog) + 1]
  BY <1>0, <1>7 DEF Incoming
<1>9. Steady("ns", G, Q, s.readNext, Sends(c))
  BY <1>2, <1>6
<1> QED  BY <1>7, <1>8, <1>9

(* The frame is accepted. *)
LEMMA LiveAccepts ==
    ASSUME NEW s, NEW c, NEW q, NEW h, LiveOn(s, c, q, h), NEW pay \in PeerPayloads,
           s.readNext < Sends(c), pay.n = c.log[Len(s.rlog) + 1],
           Steady("ns", In(s, h), InPairs(s, h), s.readNext, Sends(c)),
           NEW mode, NEW k, Accepts(s, pay, k, mode)
    PROVE  /\ LiveOn(k, c, q, h) /\ Older(s.dfc, k.dfc)
           /\ \A u, tk : Completes(s, u, c, tk) => Completes(k, u, c, tk)
<1>1. /\ k.status = s.status /\ k.connNext = s.connNext /\ k.lastAck = s.lastAck
      /\ k.nextToSend = s.nextToSend /\ k.log = s.log /\ k.slots = s.slots /\ k.tx = s.tx
      /\ k.readNext = s.readNext + 1 /\ k.rlog = Append(s.rlog, pay) /\ k.ctrl # "UA"
  BY DEF Accepts, Only, Fields
<1>2. Ends(k, c, Out(s, q), OutPairs(s, q))
      /\ Session(k, c, Out(s, q), In(s, h), InPairs(s, h))
  BY <1>1, EndsAccepted DEF LiveOn
<1>3. /\ Out(k, q) = Out(s, q) /\ OutPairs(k, q) = OutPairs(s, q)
  BY <1>1 DEF Out, OutPairs, InTx
<1>4. PICK r \in Seq(DfcCalls(mode)) : Like(s.dfc, r) /\ k.dfc = Append(r, [fn |-> "DataReady"])
  BY DEF Accepts
<1>5. PICK e : e = [fn |-> "DataReady"]
  OBVIOUS
<1>6. PICK S : S = DfcCalls(mode)
  OBVIOUS
<1>7. e \in S
  BY <1>5, <1>6 DEF DfcCalls, PlainCalls
<1>8. Range(k.dfc) = Range(r) \union {e}
  BY <1>4, <1>5, <1>6, <1>7, AppendInOrder
<1>9. Older(s.dfc, k.dfc)
  BY <1>4, <1>5, <1>8 DEF Older, Like, Watched
<1>10. "Acknowledged" \in Fns(k.dfc) <=> "Acknowledged" \in Fns(s.dfc)
  <2>1. "Acknowledged" \in Fns(r) <=> "Acknowledged" \in Fns(s.dfc)
    BY <1>4, LikeFns DEF Watched
  <2> QED  BY <1>5, <1>8, <2>1 DEF Fns
<1>11. Fewer(In(k, h), InPairs(k, h), In(s, h), InPairs(s, h))
  BY <1>9, InKept
<1>12. Session(k, c, Out(k, q), In(k, h), InPairs(k, h))
  BY <1>2, <1>3, <1>11, SessionFewer DEF Alike
<1>13. \A u, tk : Completes(s, u, c, tk) => Completes(k, u, c, tk)
  BY <1>1, <1>10, CompletesKept
<1> QED  BY <1>1, <1>2, <1>3, <1>9, <1>12, <1>13 DEF LiveOn

(* A control frame is chosen. *)
LEMMA LiveChooses ==
    ASSUME NEW s, NEW c, NEW q, NEW h, LiveOn(s, c, q, h), Narrow(s), NEW mode, Based(s, mode),
           NEW u, NEW tk, Completes(s, u, c, tk),
           NEW a, Only(s, a, {"ctrl", "readFull", "pending", "rrSent", "nextWindow"}),
           a.ctrl \in {"NONE", "RR", "RNR", "REJ"},
           a.nextWindow = s.nextWindow \/ (a.nextWindow = s.nextWindow - 1 /\ a.nextWindow > s.lastAck),
           NEW force \in BOOLEAN, NEW k, k = WriteTransmit(a, force)
    PROVE  LiveOn(k, c, q, h) /\ Completes(k, u, c, tk) /\ Older(s.dfc, k.dfc)
<1>1. /\ Alike(s, a) /\ a.dfc = s.dfc /\ a.tx = s.tx /\ DOMAIN a = Fields /\ a.window = s.window
  BY DEF Only, Fields, Alike
<1>2. InTx(a) \subseteq InTx(s) /\ Older(s.dfc, a.dfc) /\ a.ctrl # "UA"
  BY <1>1 DEF InTx, Older
<1>3. LiveOn(a, c, q, h)
  BY <1>1, <1>2, LiveKept
<1>4. Narrow(a)
  <2>1. a.nextWindow \in Nat /\ s.lastAck < a.nextWindow /\ a.nextWindow <= s.nextToSend
    BY DEF Narrow
  <2> QED  BY <1>1, <2>1 DEF Narrow, Alike
<1>5. Based(a, mode) /\ Completes(a, u, c, tk)
  BY <1>1, CompletesKept DEF Based, Alike
<1>6. LiveOn(k, c, q, h) /\ Kin(a, k, mode)
  BY <1>3, <1>4, <1>5, LiveTransmit
<1>7. Completes(k, u, c, tk) /\ Older(a.dfc, k.dfc)
  BY <1>5, <1>6, CompletesKin, KinAlike
<1> QED  BY <1>1, <1>6, <1>7

LEMMA LiveReadIFrame ==
    ASSUME NEW mode \in Modes, NEW p, NEW f \in Frames(mode), NEW u, NEW c, NEW tk, NEW q, NEW h,
           Receiving(p, f, u, c, tk, q, h, mode), Settled(p, mode), p.buf = <<>>, f.t = "I",
           NEW k, k = ReadIFrame(p, f)
    PROVE  LiveOn(k, c, q, h) /\ Completes(k, u, c, tk) /\ Older(p.dfc, k.dfc)
<1>1. f.nr \in 0..7 /\ f.pay \in PeerPayloads /\ Has("nr", f)
  BY DEF Frames, PeerFrames, Has
<1>2. PICK g : g = Ctrl("RR", f.nr)
  OBVIOUS
<1>3. g.t = "RR" /\ g.nr = f.nr
  BY <1>2 DEF Ctrl
<1>4. PICK r : r = WriteReceptionCtrlFrame(p, g)
  OBVIOUS
<1>5. Settled(r.s, mode)
  BY <1>1, <1>3, <1>4, ReceptionSettled DEF Receiving
<1>6. Receives(p, g, r.s, mode)
  BY <1>1, <1>3, <1>4, SettledNarrow, ReceptionEffect DEF Settled
<1>7. PICK s : s = r.s
  OBVIOUS
<1>8. /\ LiveOn(s, c, q, h) /\ Completes(s, u, c, tk) /\ Older(p.dfc, s.dfc)
      /\ s.buf = p.buf /\ s.readNext = p.readNext /\ s.rlog = p.rlog
  BY <1>1, <1>3, <1>6, <1>7, LiveReceives
<1>9. Narrow(s) /\ Based(s, mode) /\ Values(s)
  BY <1>5, <1>7, SettledNarrow DEF Settled
<1>10. k = IF ~r.ok THEN s
           ELSE IF f.ns # ThreeBits(s.readNext) THEN WriteTransmit([s EXCEPT !.ctrl = "REJ"], TRUE)
           ELSE IF Len(s.buf) >= ReadCap
           THEN WriteTransmit([s EXCEPT !.ctrl = "RNR", !.readFull = TRUE], FALSE)
           ELSE ReadAccepted(s, f.pay)
  BY <1>2, <1>4, <1>7 DEF ReadIFrame
<1>11. CASE k = s
  BY <1>8, <1>11
<1>12. CASE k = WriteTransmit([s EXCEPT !.ctrl = "REJ"], TRUE)
  <2>1. PICK a : a = [s EXCEPT !.ctrl = "REJ"]
    OBVIOUS
  <2>2. Only(s, a, {"ctrl", "readFull", "pending", "rrSent", "nextWindow"})
        /\ a.ctrl = "REJ" /\ a.nextWindow = s.nextWindow
    BY <1>9, <2>1 DEF Only, Based, Fields
  <2>3. k = WriteTransmit(a, TRUE)
    BY <1>12, <2>1
  <2>4. LiveOn(k, c, q, h) /\ Completes(k, u, c, tk) /\ Older(s.dfc, k.dfc)
    BY <1>8, <1>9, <2>2, <2>3, LiveChooses
  <2> QED  BY <1>8, <2>4 DEF Older
<1>13. CASE k = WriteTransmit([s EXCEPT !.ctrl = "RNR", !.readFull = TRUE], FALSE)
  <2>1. PICK a : a = [s EXCEPT !.ctrl = "RNR", !.readFull = TRUE]
    OBVIOUS
  <2>2. Only(s, a, {"ctrl", "readFull", "pending", "rrSent", "nextWindow"})
        /\ a.ctrl = "RNR" /\ a.nextWindow = s.nextWindow
    BY <1>9, <2>1 DEF Only, Based, Fields
  <2>3. k = WriteTransmit(a, FALSE)
    BY <1>13, <2>1
  <2>4. LiveOn(k, c, q, h) /\ Completes(k, u, c, tk) /\ Older(s.dfc, k.dfc)
    BY <1>8, <1>9, <2>2, <2>3, LiveChooses
  <2> QED  BY <1>8, <2>4 DEF Older
<1>14. CASE f.ns = ThreeBits(s.readNext) /\ k = ReadAccepted(s, f.pay)
  <2>1. PICK H, T : Session(p, c, Out(p, q), H, T) /\ Behind(f, In(p, h), InPairs(p, h), H, T)
    BY DEF Receiving
  <2>2. /\ p.readNext < Sends(c) /\ f.pay.n = c.log[Len(p.rlog) + 1]
        /\ Steady("ns", In(p, h), InPairs(p, h), p.readNext, Sends(c))
    BY <1>8, <1>14, <2>1, Expected DEF Receiving, ThreeBits
  <2>3. Steady("ns", In(s, h), InPairs(s, h), s.readNext, Sends(c))
    <3>1. Fewer(In(s, h), InPairs(s, h), In(p, h), InPairs(p, h))
      BY <1>8, InKept
    <3> QED  BY <1>8, <2>2, <3>1, SteadyFewer
  <2>4. PICK m, force : force \in BOOLEAN /\ Accepts(s, f.pay, m, mode) /\ k = WriteTransmit(m, force)
    BY <1>8, <1>9, <1>14, AcceptedEffect
  <2>5. LiveOn(m, c, q, h) /\ Older(s.dfc, m.dfc) /\ Completes(m, u, c, tk)
    BY <1>1, <1>8, <2>2, <2>3, <2>4, LiveAccepts
  <2>6. Narrow(m)
    BY <1>9, <2>4 DEF Accepts, Only, Fields, Narrow
  <2>7. Based(m, mode)
    <3>1. PICK S : S = DfcCalls(mode)
      OBVIOUS
    <3>2. PICK e : e = [fn |-> "DataReady"]
      OBVIOUS
    <3>3. e \in S
      BY <3>1, <3>2 DEF DfcCalls, PlainCalls
    <3>4. PICK x \in Seq(S) : m.dfc = Append(x, e)
      BY <2>4, <3>1, <3>2 DEF Accepts
    <3>5. m.dfc \in Seq(S)
      BY <3>3, <3>4, AppendProperties
    <3> QED  BY <2>4, <3>1, <3>5 DEF Accepts, Only, Based
  <2>8. LiveOn(k, c, q, h) /\ Kin(m, k, mode)
    BY <2>4, <2>5, <2>6, <2>7, LiveTransmit
  <2>9. Completes(k, u, c, tk) /\ Older(m.dfc, k.dfc)
    BY <2>5, <2>8, CompletesKin, KinAlike
  <2> QED  BY <1>8, <2>5, <2>8, <2>9 DEF Older
<1> QED  BY <1>10, <1>11, <1>12, <1>13, <1>14

(* A frame of the controller is taken on a connection that is up. *)
LEMMA LiveRead ==
    ASSUME NEW mode \in Modes, NEW p, NEW f \in Frames(mode), NEW u, NEW c, NEW tk, NEW q, NEW h,
           Receiving(p, f, u, c, tk, q, h, mode), Settled(p, mode), p.buf = <<>>, NoRST(f),
           NEW k, k = GenericReadCompleted(p, f)
    PROVE  LiveOn(k, c, q, h) /\ Completes(k, u, c, tk)
<1>1. PICK s : s = ReadReadCompleted(p, f)
  OBVIOUS
<1>2. LiveOn(s, c, q, h) /\ Completes(s, u, c, tk)
  <2>1. CASE f.t = "I"
    BY <1>1, <2>1, LiveReadIFrame DEF ReadReadCompleted
  <2>2. CASE f.t # "I"
    <3>1. ~RSTAccepted(f)
      BY DEF RSTAccepted, NoRST
    <3>2. PICK r : r = WriteReceptionCtrlFrame(p, f)
      OBVIOUS
    <3>3. s = r.s
      BY <1>1, <2>2, <3>1, <3>2 DEF ReadReadCompleted
    <3>4. f.t \in {"RR", "RNR", "REJ"} => f.nr \in 0..7 /\ Has("nr", f)
      BY DEF Frames, PeerFrames, Has
    <3>5. Receives(p, f, r.s, mode)
      BY <3>2, <3>4, SettledNarrow, ReceptionEffect DEF Settled
    <3> QED  BY <3>3, <3>4, <3>5, LiveReceives
  <2> QED  BY <2>1, <2>2
<1>3. k = [s EXCEPT !.reading = TRUE] /\ DOMAIN s = Fields
  <2>1. Settled(s, mode)
    BY <1>1, ReadSettled DEF Receiving
  <2> QED  BY <1>1, <2>1 DEF GenericReadCompleted, FrameRead, Receiving, Settled, Sound, Instance
<1>4. /\ Alike(s, k) /\ k.dfc = s.dfc /\ k.tx = s.tx /\ k.ctrl = s.ctrl
  BY <1>3 DEF Fields, Alike
<1>5. LiveOn(k, c, q, h)
  BY <1>2, <1>4, LiveKept DEF InTx, Older, LiveOn, Ends
<1>6. Completes(k, u, c, tk)
  BY <1>2, <1>4, CompletesKept DEF Alike
<1> QED  BY <1>5, <1>6

-----------------------------------------------------------------------------
(* The com port, for the lines.                                            *)

(* The frame in the buffer stays, or the port has taken what was in it.    *)
Port(s, k, q, r, mode) ==
    /\ Kin(s, k, mode) /\ Only(s, k, {"dfc", "tx"})
    /\ \/ InTx(k) = InTx(s) /\ r = q
       \/ s.tx # NoTx /\ k.tx = NoTx /\ \E g \in OnTheWire(s.tx) : r = Append(q, g)

(* Every step of the host ends so. *)
LEMMA PortNotTaken ==
    ASSUME NEW mode, NEW s, Based(s, mode), TxOK(s), NEW k, k = NotTaken(s), NEW q
    PROVE  Port(s, k, q, q, mode)
<1>1. s.tx # NoTx => /\ s.tx.cb \in {"FrameWritten", "ConnectWritten"}
                     /\ DOMAIN s.tx = {"t", "f", "cb", "bad", "new"}
  BY DEF TxOK
<1>2. /\ Kin(s, k, mode) /\ Only(s, k, {"dfc", "tx"})
      /\ IF s.tx = NoTx THEN k.tx = NoTx
         ELSE k.tx # NoTx /\ k.tx.f = s.tx.f /\ k.tx.cb = s.tx.cb /\ k.tx.bad = s.tx.bad
  BY <1>1, KinNotTaken
<1> QED  BY <1>2 DEF Port, InTx

LEMMA PortTaken ==
    ASSUME NEW mode, NEW s, Based(s, mode), s.tx # NoTx, NEW k, k = Taken(s), NEW q,
           NEW g \in OnTheWire(s.tx)
    PROVE  Port(s, k, q, Append(q, g), mode)
<1>1. Kin(s, k, mode) /\ Only(s, k, {"tx"}) /\ k.tx = NoTx
  BY KinTaken
<1>2. Only(s, k, {"dfc", "tx"})
  BY <1>1 DEF Only
<1> QED  BY <1>1, <1>2 DEF Port

LEMMA PortTakenOnRead ==
    ASSUME NEW mode, NEW s, Based(s, mode), TxOK(s), s.tx # NoTx, NEW k, k = TakenOnRead(s), NEW q,
           NEW g \in OnTheWire(s.tx)
    PROVE  Port(s, k, q, Append(q, g), mode)
<1>1. s.tx.cb \in {"FrameWritten", "ConnectWritten"}
  BY DEF TxOK
<1>2. Kin(s, k, mode) /\ Only(s, k, {"dfc", "tx"}) /\ k.tx = NoTx
  BY <1>1, KinTakenOnRead
<1> QED  BY <1>2 DEF Port

LEMMA SettlePort ==
    ASSUME NEW mode, NEW s, Settled(s, mode), Settle(s)
    PROVE  Port(s, host', toCtrl, toCtrl', mode)
<1>1. Based(s, mode) /\ TxOK(s)
  BY DEF Settled, Sound, Instance, Based
<1>2. CASE host' = NotTaken(s) /\ toCtrl' = toCtrl
  BY <1>1, <1>2, PortNotTaken
<1>3. CASE /\ s.tx # NoTx /\ host' = Taken(s)
           /\ \E f \in OnTheWire(s.tx) : toCtrl' = Append(toCtrl, f)
  BY <1>1, <1>3, PortTaken
<1> QED  BY <1>2, <1>3 DEF Settle

(* A line, with the set of its frames. *)
Line(q) == q \in Seq(Range(q))

LEMMA PortLine ==
    ASSUME NEW s, NEW k, NEW q, Line(q), NEW r, NEW mode, Port(s, k, q, r, mode)
    PROVE  /\ Line(r) /\ Fewer(Out(k, r), OutPairs(k, r), Out(s, q), OutPairs(s, q))
<1>1. CASE InTx(k) = InTx(s) /\ r = q
  BY <1>1, OutKept DEF Line
<1>2. CASE s.tx # NoTx /\ k.tx = NoTx /\ \E g \in OnTheWire(s.tx) : r = Append(q, g)
  <2>1. PICK g \in OnTheWire(s.tx) : r = Append(q, g)
    BY <1>2
  <2>2. PICK S : S = Range(q)
    OBVIOUS
  <2>3. q \in Seq(S)
    BY <2>2 DEF Line
  <2>4. Append(q, g) \in Seq(S \union {g}) /\ Range(Append(q, g)) = S \union {g}
    <3>1. /\ Append(q, g) \in Seq(S \union {g})
          /\ Range(Append(q, g)) = Range(q) \union {g}
      BY <2>3, AppendPairs
    <3> QED  BY <2>2, <3>1
  <2>5. Fewer(Out(k, r), OutPairs(k, r), Out(s, q), OutPairs(s, q))
    BY <1>2, <2>1, <2>3, OutTaken
  <2> QED  BY <2>1, <2>4, <2>5 DEF Line
<1> QED  BY <1>1, <1>2 DEF Port

(* The end of a step in a session. *)
LEMMA PortLive ==
    ASSUME NEW s, NEW c, NEW q, NEW h, LiveOn(s, c, q, h), Line(q),
           NEW k, NEW r, NEW mode, Port(s, k, q, r, mode)
    PROVE  LiveOn(k, c, r, h) /\ Line(r)
<1>1. Line(r) /\ Fewer(Out(k, r), OutPairs(k, r), Out(s, q), OutPairs(s, q))
  BY PortLine
<1>2. Alike(s, k) /\ Older(s.dfc, k.dfc)
  BY KinAlike DEF Port
<1>3. Fewer(In(k, h), InPairs(k, h), In(s, h), InPairs(s, h))
  BY <1>2, InKept
<1>4. k.ctrl # "UA"
  BY DEF Port, Only, Fields, LiveOn, Ends
<1>5. Ends(k, c, Out(k, r), OutPairs(k, r))
  BY <1>1, <1>2, <1>4, EndsFewer DEF LiveOn
<1>6. Session(k, c, Out(k, r), In(k, h), InPairs(k, h))
  <2>1. \A f \in Out(k, r) : f = BAD \/ f \in Out(s, q)
    BY <1>1 DEF Fewer
  <2> QED  BY <1>2, <1>3, <2>1, SessionFewer DEF LiveOn
<1> QED  BY <1>1, <1>2, <1>5, <1>6 DEF LiveOn, Alike

-----------------------------------------------------------------------------
(* The steps of the host in a session.                                     *)

LEMMA PopLive ==
    ASSUME NEW s, NEW c, NEW q, NEW h, LiveOn(s, c, q, h), NEW p, NEW e, NEW mode,
           Popped(s, p, e, mode)
    PROVE  /\ LiveOn(p, c, q, h) /\ Older(s.dfc, p.dfc)
           /\ \A u, tk : e.fn # "Acknowledged" /\ Completes(s, u, c, tk) => Completes(p, u, c, tk)
<1>1. Alike(s, p) /\ p.tx = s.tx /\ p.ctrl = s.ctrl /\ Older(s.dfc, p.dfc)
  BY DEF Popped, Only, Fields, Alike, Older
<1>2. LiveOn(p, c, q, h)
  BY <1>1, LiveKept DEF InTx, LiveOn, Ends
<1>3. ASSUME NEW u, NEW tk, e.fn # "Acknowledged", Completes(s, u, c, tk)
      PROVE  Completes(p, u, c, tk)
  <2>1. "Acknowledged" \in Fns(p.dfc) <=> "Acknowledged" \in Fns(s.dfc)
    BY <1>3 DEF Popped
  <2> QED  BY <1>1, <1>3, <2>1, CompletesKept DEF Alike
<1> QED  BY <1>1, <1>2, <1>3

(* PSHDLCWrite refuses a frame, *)
LEMMA LiveRefused ==
    ASSUME NEW mode \in Modes, NEW s, Settled(s, mode), Waits(s), NEW c, NEW q, NEW h,
           LiveOn(s, c, q, h), NEW u, NEW tk, Completes(s, u, c, tk),
           NEW pay, NEW r, r = PSHDLCWrite(s, pay)
    PROVE  LiveOn(r.s, c, q, h) /\ Completes(r.s, u, c, tk)
<1>1. /\ DOMAIN s = Fields /\ s.lastAck \in Nat /\ s.nextToSend \in Nat /\ s.window = 1
  BY DEF Settled, Sound, Instance, Values, P_SHDLC_MAX_WINDOW_SIZE
<1>2. s.nextToSend - s.lastAck - 1 >= s.window
  BY <1>1 DEF Waits
<1>3. PICK k : k = [s EXCEPT !.writeFull = TRUE]
  OBVIOUS
<1>4. r.s = k
  BY <1>2, <1>3 DEF PSHDLCWrite
<1>5. Only(s, k, {"writeFull"})
  BY <1>1, <1>3 DEF Only
<1>6. Alike(s, k) /\ k.tx = s.tx /\ k.ctrl = s.ctrl /\ k.dfc = s.dfc
  BY <1>5 DEF Only, Fields, Alike
<1>7. LiveOn(k, c, q, h)
  BY <1>6, LiveKept DEF InTx, LiveOn, Ends, Older
<1>8. Completes(k, u, c, tk)
  BY <1>6, CompletesKept DEF Alike
<1> QED  BY <1>4, <1>7, <1>8

(* or takes it, for a message that v may have ended. *)
LEMMA LiveTaken ==
    ASSUME NEW mode \in Modes, NEW s, Settled(s, mode), ~Waits(s), NEW c, NEW q, NEW h,
           LiveOn(s, c, q, h), NEW u, NEW tk, Completes(s, u, c, tk), u.sent \in Seq(Nat),
           DOMAIN s.slots = {0},
           NEW pay \in Fragments, NEW v, v.done = u.done,
           v.sent = IF pay.last THEN Append(u.sent, pay.m) ELSE u.sent,
           NEW r, r = PSHDLCWrite(s, pay)
    PROVE  LiveOn(r.s, c, q, h) /\ Completes(r.s, v, c, tk)
<1>1. /\ DOMAIN s = Fields /\ s.lastAck \in Nat /\ s.nextToSend \in Nat /\ s.window = 1
      /\ s.lastAck < s.nextToSend /\ s.dfc \in Seq(DfcCalls(mode)) /\ Narrow(s)
  <2>1. Narrow(s)
    BY SettledNarrow DEF Settled
  <2> QED  BY <2>1 DEF Settled, Sound, Instance, Values, P_SHDLC_MAX_WINDOW_SIZE
<1>2. ~(s.nextToSend - s.lastAck - 1 >= s.window) /\ s.nextToSend = s.lastAck + 1
  BY <1>1 DEF Waits
<1>3. s.nextToSend % s.window = 0
  BY <1>1
<1>4. PICK slot : slot = [t |-> "SLOT", ns |-> ThreeBits(s.nextToSend), pay |-> pay]
  OBVIOUS
<1>5. PICK slots : slots = [s.slots EXCEPT ![0] = slot]
  OBVIOUS
<1>6. slots[0].pay = pay /\ slots[0].ns = s.nextToSend % 8
  BY <1>4, <1>5 DEF ThreeBits
<1>7. PICK a : a = [s EXCEPT !.slots = slots, !.nextToSend = @ + 1, !.log = Append(@, pay)]
  OBVIOUS
<1>8. r.s = WriteTransmit(a, FALSE)
  BY <1>1, <1>2, <1>3, <1>4, <1>5, <1>7 DEF PSHDLCWrite, Fields
<1>9. /\ Only(s, a, {"slots", "nextToSend", "log"}) /\ a.slots = slots
      /\ a.nextToSend = s.nextToSend + 1 /\ a.log = Append(s.log, pay)
  BY <1>1, <1>7 DEF Only, Fields
<1>10. /\ a.status = s.status /\ a.connNext = s.connNext /\ a.ctrl = s.ctrl /\ a.tx = s.tx
       /\ a.lastAck = s.lastAck /\ a.readNext = s.readNext /\ a.rlog = s.rlog /\ a.dfc = s.dfc
       /\ a.window = s.window /\ a.nextWindow = s.nextWindow /\ DOMAIN a = Fields
  BY <1>9 DEF Only, Fields
<1>11. LiveOn(a, c, q, h)
  <2>1. /\ Out(a, q) = Out(s, q) /\ OutPairs(a, q) = OutPairs(s, q)
        /\ In(a, h) = In(s, h) /\ InPairs(a, h) = InPairs(s, h)
    BY <1>10 DEF Out, OutPairs, InTx, In, InPairs, InRead
  <2>2. PICK F, P : F = Out(s, q) /\ P = OutPairs(s, q)
    OBVIOUS
  <2>3. a.ctrl # "UA"
    BY <1>10 DEF LiveOn, Ends
  <2>4. Ends(a, c, F, P) /\ \A G, Q : Session(s, c, F, G, Q) => Session(a, c, F, G, Q)
    BY <1>6, <1>9, <1>10, <2>2, <2>3, EndsWritten DEF LiveOn
  <2> QED  BY <1>10, <2>1, <2>2, <2>4 DEF LiveOn
<1>12. Narrow(a) /\ Based(a, mode)
  <2>1. a.nextWindow <= a.nextToSend /\ a.nextToSend \in Nat
    BY <1>1, <1>9, <1>10 DEF Narrow
  <2> QED  BY <1>1, <1>10, <2>1 DEF Narrow, Based
<1>13. Completes(a, v, c, tk)
  <2>1. Ended(a) = Ended(s) /\ Ended(s) \in {0, 1} /\ ~LastWaits(s)
    BY <1>10 DEF Ended, LastWaits
  <2>2. LastWaits(a) <=> pay.last
    <3>1. Waits(a)
      BY <1>1, <1>2, <1>9, <1>10 DEF Waits
    <3> QED  BY <1>6, <1>9, <3>1 DEF LastWaits
  <2>3. Len(u.sent) = Ended(s)
    BY <2>1 DEF Completes
  <2>4. CASE pay.last
    <3>1. PICK l \in Seq(Nat), m \in Nat, n \in {0, 1} : l = u.sent /\ m = pay.m /\ n = Ended(s)
      BY <2>1 DEF Fragments
    <3>2. v.sent = Append(l, m) /\ Len(l) = n
      BY <2>3, <2>4, <3>1
    <3>3. Len(Append(l, m)) = n + 1 /\ Append(l, m)[n + 1] = m /\ (n = 1 => Append(l, m)[1] = l[1])
      BY <3>2, AppendProperties
    <3> QED  BY <1>6, <1>9, <2>1, <2>2, <2>4, <3>1, <3>2, <3>3 DEF Completes
  <2>5. CASE ~pay.last
    BY <2>1, <2>2, <2>3, <2>5 DEF Completes
  <2> QED  BY <2>4, <2>5
<1>14. PICK force \in BOOLEAN : force = FALSE
  OBVIOUS
<1>15. PICK k : k = WriteTransmit(a, force)
  OBVIOUS
<1>16. LiveOn(k, c, q, h) /\ Kin(a, k, mode)
  BY <1>11, <1>12, <1>15, LiveTransmit
<1>17. Completes(k, v, c, tk)
  BY <1>13, <1>16, CompletesKin
<1> QED  BY <1>8, <1>14, <1>15, <1>16, <1>17

(* Both layers in the write loop, in a session. *)
LiveWriting(p, c, q, h, tk, mode) ==
    Writing(p, mode) /\ LiveOn(p.s, c, q, h) /\ Completes(p.s, p.u, c, tk)

(* One turn of the write loop. *)
LEMMA LiveFragment ==
    ASSUME NEW mode \in Modes, NEW p, NEW c, NEW q, NEW h, NEW tk,
           LiveWriting(p, c, q, h, tk, mode), NEW b, b = WriteFragment(p)
    PROVE  LiveWriting(b, c, q, h, tk, mode)
<1>1. Writing(b, mode)
  BY FragmentQueue DEF LiveWriting
<1>2. CASE p.stop \/ p.u.waiting = <<>>
  <2>1. b = p
    BY <1>2 DEF WriteFragment
  <2> QED  BY <2>1
<1>3. CASE ~(p.stop \/ p.u.waiting = <<>>)
  <2>1. PICK s, u : s = p.s /\ u = p.u
    OBVIOUS
  <2>2. /\ Settled(s, mode) /\ DOMAIN u = HciFields /\ Queue(s, u, FALSE) /\ u.waiting # <<>>
        /\ LiveOn(s, c, q, h) /\ Completes(s, u, c, tk)
    BY <1>3, <2>1 DEF LiveWriting, Writing, Both
  <2>3. PICK w : w = Head(u.waiting)
    OBVIOUS
  <2>4. PICK pay : pay = [m |-> w.m, frag |-> w.frag, last |-> w.frag = Frags[w.m]]
    OBVIOUS
  <2>5. PICK r : r = PSHDLCWrite(s, pay)
    OBVIOUS
  <2>6. PICK v : v = IF w.frag = Frags[w.m]
                     THEN [u EXCEPT !.waiting = Tail(@), !.sent = Append(@, w.m)]
                     ELSE [u EXCEPT !.waiting[1].frag = @ + 1]
    OBVIOUS
  <2>7. b = [s |-> r.s, u |-> IF r.ok THEN v ELSE u, stop |-> ~r.ok]
    BY <1>3, <2>1, <2>3, <2>4, <2>5, <2>6 DEF WriteFragment
  <2>8. PICK S : S = [m : Nat, frag : Nat]
    OBVIOUS
  <2>9. u.waiting \in Seq(S) /\ u.sent \in Seq(Nat) /\ DOMAIN s.slots = {0}
    BY <2>2, <2>8 DEF Queue, Contexts
  <2>10. PICK l : l = u.waiting
    OBVIOUS
  <2>11. w \in S
    BY <2>2, <2>3, <2>8, <2>9, <2>10, CutWaiting
  <2>12. pay \in Fragments
    BY <2>4, <2>8, <2>11 DEF Fragments
  <2>13. /\ v.done = u.done
         /\ v.sent = IF pay.last THEN Append(u.sent, pay.m) ELSE u.sent
    <3>1. CASE w.frag = Frags[w.m]
      BY <2>2, <2>4, <2>6, <3>1 DEF HciFields
    <3>2. CASE w.frag # Frags[w.m]
      <4>1. v = [u EXCEPT !.waiting = [l EXCEPT ![1].frag = @ + 1]]
        BY <2>2, <2>6, <2>10, <3>2 DEF HciFields
      <4>2. v.done = u.done /\ v.sent = u.sent
        BY <2>2, <4>1 DEF HciFields
      <4>3. ~pay.last
        BY <2>4, <3>2
      <4> QED  BY <4>2, <4>3
    <3> QED  BY <3>1, <3>2
  <2>14. CASE Waits(s)
    <3>1. LiveOn(r.s, c, q, h) /\ Completes(r.s, u, c, tk)
      BY <2>2, <2>5, <2>14, LiveRefused
    <3>2. r.ok = FALSE
      BY <2>2, <2>5, <2>14, RefusedQueue
    <3>3. b.s = r.s /\ b.u = u
      BY <2>7, <3>2
    <3> QED  BY <1>1, <3>1, <3>3 DEF LiveWriting
  <2>15. CASE ~Waits(s)
    <3>1. LiveOn(r.s, c, q, h) /\ Completes(r.s, v, c, tk)
      BY <2>2, <2>5, <2>9, <2>12, <2>13, <2>15, LiveTaken
    <3>2. r.ok
      <4>1. s.lastAck \in Nat /\ s.nextToSend \in Nat /\ s.window = 1 /\ s.lastAck < s.nextToSend
        BY <2>2 DEF Settled, Sound, Instance, Values, P_SHDLC_MAX_WINDOW_SIZE
      <4>2. ~(s.nextToSend - s.lastAck - 1 >= s.window)
        BY <2>15, <4>1 DEF Waits
      <4> QED  BY <2>5, <4>2 DEF PSHDLCWrite
    <3>3. b.s = r.s /\ b.u = v
      BY <2>7, <3>2
    <3> QED  BY <1>1, <3>1, <3>3 DEF LiveWriting
  <2> QED  BY <2>14, <2>15
<1> QED  BY <1>2, <1>3

LEMMA LiveWriteMachine ==
    ASSUME NEW mode \in Modes, NEW s, Settled(s, mode), s.status = "UA_SENT", NEW u,
           DOMAIN u = HciFields, u.connected, Queue(s, u, FALSE), NEW c, NEW q, NEW h,
           LiveOn(s, c, q, h), NEW tk, Completes(s, u, c, tk), NEW b, b = WriteMachine(s, u)
    PROVE  LiveOn(b.s, c, q, h) /\ Completes(b.s, b.u, c, tk)
<1>1. PICK a : a = [s |-> s, u |-> u, stop |-> FALSE]
  OBVIOUS
<1>2. PICK d : d = WriteFragment(WriteFragment(a)) /\ b = [s |-> d.s, u |-> d.u]
  BY <1>1, WriteMachineTurns
<1>3. PICK e : e = WriteFragment(a)
  OBVIOUS
<1>4. LiveWriting(a, c, q, h, tk, mode)
  BY <1>1 DEF LiveWriting, Writing, Both
<1>5. LiveWriting(e, c, q, h, tk, mode)
  BY <1>3, <1>4, LiveFragment
<1>6. LiveWriting(d, c, q, h, tk, mode)
  BY <1>2, <1>3, <1>5, LiveFragment
<1> QED  BY <1>2, <1>6 DEF LiveWriting

(* PHCIFrameWrite *)
LEMMA LiveWriteMessage ==
    ASSUME NEW mode \in Modes, NEW s, Settled(s, mode), s.status = "UA_SENT", NEW u,
           DOMAIN u = HciFields, u.connected, NEW calm, Queue(s, u, calm), NEW m \in Nat,
           NEW c, NEW q, NEW h, LiveOn(s, c, q, h), NEW tk, Completes(s, u, c, tk),
           NEW b, b = PHCIFrameWrite(s, u, m)
    PROVE  LiveOn(b.s, c, q, h) /\ Completes(b.s, b.u, c, tk)
<1>1. PICK S : S = [m : Nat, frag : Nat]
  OBVIOUS
<1>2. PICK w : w = [m |-> m, frag |-> 1]
  OBVIOUS
<1>3. PICK v : v = [u EXCEPT !.waiting = Append(@, w)]
  OBVIOUS
<1>4. b = WriteMachine(s, v)
  BY <1>2, <1>3 DEF PHCIFrameWrite
<1>5. /\ DOMAIN v = HciFields /\ v.connected /\ v.waiting = Append(u.waiting, w)
      /\ v.sent = u.sent /\ v.rx = u.rx /\ v.done = u.done
  BY <1>3 DEF HciFields
<1>6. v.waiting \in Seq(S)
  <2>1. w \in S
    BY <1>1, <1>2
  <2>2. u.waiting \in Seq(S)
    BY <1>1 DEF Queue, Contexts
  <2> QED  BY <1>5, <2>1, <2>2, AppendProperties
<1>7. Told(s, v) /\ Woken(s, v, FALSE)
  BY <1>5 DEF Queue, Told, Woken
<1>8. Contexts(s, v)
  BY <1>1, <1>5, <1>6 DEF Queue, Contexts
<1>9. Queue(s, v, FALSE)
  BY <1>7, <1>8 DEF Queue
<1>10. Completes(s, v, c, tk)
  BY <1>5 DEF Completes
<1> QED  BY <1>4, <1>5, <1>9, <1>10, LiveWriteMachine

(* static_PHCIFrameSHDLCWriteAcknowledged: the message that is completed   *)
(* had been received.                                                      *)
LEMMA LiveWriteAcknowledged ==
    ASSUME NEW mode \in Modes, NEW s, s.status = "UA_SENT", NEW u, DOMAIN u = HciFields,
           NEW calm, Queue(s, u, calm), NEW p, Settled(p, mode), NEW whole \in BOOLEAN, NEW e,
           e.fn = IF whole THEN "Acknowledged" ELSE "BufferFree", Popped(s, p, e, mode),
           NEW c, NEW q, NEW h, LiveOn(s, c, q, h), NEW tk, Completes(s, u, c, tk),
           NEW b, b = WriteAcknowledged(p, u, whole)
    PROVE  LiveOn(b.s, c, q, h) /\ Completes(b.s, b.u, c, tk)
<1>1. LiveOn(p, c, q, h) /\ (~whole => Completes(p, u, c, tk)) /\ p.status = "UA_SENT"
  <2>1. e.fn = "Acknowledged" <=> whole
    OBVIOUS
  <2> QED  BY <2>1, PopLive DEF LiveOn
<1>2. CASE ~u.connected
  <2>1. b.s = p /\ b.u = u
    BY <1>2 DEF WriteAcknowledged
  <2>2. ~whole
    BY <1>2 DEF Queue, Told, Popped
  <2> QED  BY <1>1, <2>1, <2>2
<1>3. CASE u.connected
  <2>1. PICK v : Handles(p, u, whole, v)
    BY <1>3, HandlerQueue
  <2>2. b = WriteMachine(p, v) /\ DOMAIN v = HciFields /\ v.connected /\ Queue(p, v, FALSE)
    BY <2>1 DEF Handles
  <2>3. Completes(p, v, c, tk)
    <3>1. CASE ~whole
      BY <1>1, <2>1, <3>1 DEF Handles
    <3>2. CASE whole
      <4>1. PICK l \in Seq(Nat) : l = u.sent /\ l # <<>> /\ v.sent = Tail(l)
                                  /\ v.done = Append(u.done, Head(l))
        BY <2>1, <3>2 DEF Handles
      <4>2. p.slots = s.slots /\ p.lastAck = s.lastAck /\ p.nextToSend = s.nextToSend
        BY DEF Popped, Only, Fields
      <4>3. Ended(s) = 1 /\ Ended(p) = 0 /\ (LastWaits(p) <=> LastWaits(s))
        <5>1. "Acknowledged" \in Fns(s.dfc) /\ "Acknowledged" \notin Fns(p.dfc)
          BY <3>2 DEF Popped, Queue, Reads, NeverBefore
        <5> QED  BY <4>2, <5>1 DEF Ended, LastWaits, Waits
      <4>4. PICK n \in {0, 1} : n = IF LastWaits(s) THEN 1 ELSE 0
        OBVIOUS
      <4>5. Len(l) = 1 + n /\ l[1] \in tk /\ (n = 1 => l[2] = s.slots[0].pay.m)
        BY <4>1, <4>3, <4>4 DEF Completes
      <4>6. /\ Len(Tail(l)) = n /\ Head(l) = l[1] /\ Head(l) \in Nat
            /\ n = 1 => Tail(l)[1] = l[2]
        <5>1. Len(Tail(l)) = Len(l) - 1 /\ Head(l) \in Nat
              /\ \A i \in 1..Len(Tail(l)) : Tail(l)[i] = l[i + 1]
          BY <4>1, HeadTailProperties
        <5> QED  BY <4>5, <5>1
      <4>7. v.done \in Seq(Nat) /\ Range(v.done) \subseteq tk
        <5>1. PICK d \in Seq(Nat) : d = u.done /\ Range(d) \subseteq tk
          BY DEF Completes
        <5>2. PICK x \in Nat : x = Head(l)
          BY <4>6
        <5>3. Range(Append(d, x)) = Range(d) \union {x}
          <6>1. PICK S : S = Nat
            OBVIOUS
          <6>2. d \in Seq(S)
            BY <5>1, <6>1
          <6> QED  BY <6>2, AppendPairs
        <5>4. Append(d, x) \in Seq(Nat)
          BY <5>1, <5>2, AppendProperties
        <5> QED  BY <4>1, <4>5, <4>6, <5>1, <5>2, <5>3, <5>4
      <4> QED  BY <4>1, <4>2, <4>3, <4>4, <4>5, <4>6, <4>7 DEF Completes
    <3> QED  BY <3>1, <3>2
  <2> QED  BY <1>1, <1>3, <2>2, <2>3, LiveWriteMachine
<1> QED  BY <1>2, <1>3

(* A frame is passed on. *)
LEMMA LiveDataReady ==
    ASSUME NEW mode \in Modes, NEW s, Settled(s, mode), NEW u, DOMAIN u = HciFields, NEW calm,
           Queue(s, u, calm), NEW p, NEW e, e.fn = "DataReady", Popped(s, p, e, mode),
           NEW c, NEW q, NEW h, LiveOn(s, c, q, h), NEW tk, Completes(s, u, c, tk),
           NEW b, b = DataReady(p, u)
    PROVE  LiveOn(b.s, c, q, h) /\ Completes(b.s, b.u, c, tk)
<1>1. "DataReady" \in Fns(s.dfc) /\ s.status = "UA_SENT"
  BY DEF Popped, Queue, Starts
<1>2. u.connected
  <2>1. "ConnectDone" \notin Fns(s.dfc)
    BY DEF Popped, Queue, Reads, NeverBefore
  <2> QED  BY <1>1, <2>1 DEF Queue, Told
<1>3. s.buf \in Seq(PeerPayloads)
  BY DEF Settled, Sound, Instance, Values
<1>4. PICK a : a = [s |-> p, u |-> u]
  OBVIOUS
<1>5. PICK k : k = ReadFrame(a)
  OBVIOUS
<1>6. Older(p.dfc, k.s.dfc) /\ k.s.buf = <<>>
  BY <1>2, <1>3, <1>4, <1>5, ReadTurnQueue
<1>7. b = ReadMachine(p, u)
  BY <1>2 DEF DataReady
<1>8. b = k
  BY <1>4, <1>5, <1>6, <1>7, ReadMachineQueue
<1>9. /\ p.buf = s.buf /\ s.buf # <<>> /\ p.readFull = FALSE /\ DOMAIN p = Fields
      /\ p.dfc \in Seq(DfcCalls(mode))
  BY <1>1 DEF Popped, Only, Fields, Queue, Reads, Based
<1>10. PICK d : d = [fn |-> "StreamData", pay |-> Head(s.buf)]
  OBVIOUS
<1>11. PICK l : l = [[p EXCEPT !.buf = Tail(@)] EXCEPT !.dfc = Append(@, d)]
  OBVIOUS
<1>12. PICK v : v = [u EXCEPT !.rx = Head(s.buf)]
  OBVIOUS
<1>13. k.s = l /\ k.u = v
  <2>1. PSHDLCRead(p) = [p EXCEPT !.buf = Tail(@)]
    BY <1>9 DEF PSHDLCRead
  <2> QED  BY <1>4, <1>5, <1>9, <1>10, <1>11, <1>12, <2>1 DEF ReadFrame
<1>14. Only(p, l, {"buf", "dfc"}) /\ l.dfc = Append(p.dfc, d)
  BY <1>9, <1>11 DEF Only, Fields
<1>15. "Acknowledged" \in Fns(l.dfc) <=> "Acknowledged" \in Fns(p.dfc)
  <2>1. Range(Append(p.dfc, d)) = Range(p.dfc) \union {d}
    <3>1. PICK S : S = DfcCalls(mode)
      OBVIOUS
    <3>2. p.dfc \in Seq(S)
      BY <1>9, <3>1
    <3>3. ASSUME NEW T, NEW t \in Seq(T)
          PROVE  Range(Append(t, d)) = Range(t) \union {d}
      BY AppendPairs
    <3> QED  BY <3>2, <3>3
  <2> QED  BY <1>10, <1>14, <2>1 DEF Fns
<1>16. LiveOn(p, c, q, h) /\ Completes(p, u, c, tk)
  BY PopLive
<1>17. Alike(p, l) /\ l.tx = p.tx /\ l.ctrl = p.ctrl
  BY <1>14 DEF Only, Fields, Alike
<1>18. LiveOn(l, c, q, h)
  BY <1>6, <1>13, <1>16, <1>17, LiveKept DEF LiveOn, Ends, InTx
<1>19. Completes(l, u, c, tk)
  BY <1>15, <1>16, <1>17, CompletesKept DEF Alike
<1>20. Completes(l, v, c, tk)
  <2>1. v.done = u.done /\ v.sent = u.sent
    BY <1>12 DEF HciFields
  <2> QED  BY <1>19, <2>1 DEF Completes
<1> QED  BY <1>8, <1>13, <1>18, <1>20

(* A frame that was read is taken. *)
LEMMA LiveFrameRead ==
    ASSUME NEW mode \in Modes, NEW s, Settled(s, mode), NEW u, NEW calm, Queue(s, u, calm),
           NEW p, Settled(p, mode), NEW e, e.fn = "FrameRead", Popped(s, p, e, mode), NoRST(e.f),
           NEW c, NEW q, NEW h, LiveOn(s, c, q, h), NEW tk, Completes(s, u, c, tk),
           NEW k, k = GenericReadCompleted(p, e.f)
    PROVE  LiveOn(k, c, q, h) /\ Completes(k, u, c, tk)
<1>1. LiveOn(p, c, q, h) /\ Completes(p, u, c, tk)
  BY PopLive
<1>2. Narrow(p) /\ Based(p, mode)
  BY SettledNarrow DEF Settled
<1>3. InOrder(s.dfc)
  BY DEF Queue, Reads
<1>4. Behind(e.f, In(p, h), InPairs(p, h), In(s, h), InPairs(s, h))
  BY <1>3, InTaken
<1>5. Session(p, c, Out(p, q), In(s, h), InPairs(s, h))
  <2>1. Alike(s, p) /\ Out(p, q) = Out(s, q)
    BY DEF Popped, Only, Fields, Alike, Out, InTx
  <2>2. PICK F, G, Q : F = Out(s, q) /\ G = In(s, h) /\ Q = InPairs(s, h)
    OBVIOUS
  <2>3. Fewer(G, Q, G, Q) /\ \A f \in F : f = BAD \/ f \in F
    BY DEF Fewer
  <2>4. Session(s, c, F, G, Q)
    BY <2>2 DEF LiveOn
  <2>5. Session(p, c, F, G, Q)
    BY <2>1, <2>3, <2>4, SessionFewer
  <2> QED  BY <2>1, <2>2, <2>5
<1>6. Fns(p.dfc) \intersect {"DataReady", "Acknowledged"} = {} /\ e.f \in Frames(mode)
  <2>1. e.f \in Frames(mode)
    BY DEF Popped, DfcCalls, PlainCalls, Timers
  <2> QED  BY <1>3, <2>1 DEF Popped, NeverBefore
<1>7. p.buf = <<>>
  <2>1. "DataReady" \notin Fns(s.dfc) /\ p.buf = s.buf
    BY <1>6 DEF Popped, Only, Fields
  <2> QED  BY <2>1 DEF Queue, Reads
<1>8. PICK f : f = e.f
  OBVIOUS
<1>9. Receiving(p, f, u, c, tk, q, h, mode)
  BY <1>1, <1>2, <1>4, <1>5, <1>6, <1>8 DEF Receiving, LiveOn
<1> QED  BY <1>6, <1>7, <1>8, <1>9, LiveRead

(* The end of a step. *)
LEMMA LiveEnds ==
    ASSUME NEW mode, NEW s, Settled(s, mode), Settle(s), NEW c, NEW h,
           LiveOn(s, c, toCtrl, h), Line(toCtrl), NEW u, NEW tk, Completes(s, u, c, tk)
    PROVE  LiveOn(host', c, toCtrl', h) /\ Line(toCtrl') /\ Completes(host', u, c, tk)
<1>1. PICK k, q, r : k = host' /\ q = toCtrl /\ r = toCtrl'
  OBVIOUS
<1>2. Port(s, k, q, r, mode)
  BY <1>1, SettlePort
<1>3. LiveOn(k, c, r, h) /\ Line(r)
  BY <1>1, <1>2, PortLive
<1>4. Completes(k, u, c, tk)
  BY <1>2, CompletesKin DEF Port
<1> QED  BY <1>1, <1>3, <1>4

(* What moves in the transmission leaves the control frame as it is. *)
LEMMA LiveMoved ==
    ASSUME NEW mode \in Modes, NEW p, NEW c, NEW q, NEW h, LiveOn(p, c, q, h), NEW u, NEW tk,
           Completes(p, u, c, tk), Narrow(p), Based(p, mode),
           NEW a, Only(p, a, {"pending", "rrSent", "nextWindow"}),
           a.nextWindow = p.nextWindow \/ (a.nextWindow = p.nextWindow - 1 /\ a.nextWindow > p.lastAck),
           NEW force \in BOOLEAN, NEW k, k = WriteTransmit(a, force)
    PROVE  LiveOn(k, c, q, h) /\ Completes(k, u, c, tk)
<1>1. Only(p, a, {"ctrl", "readFull", "pending", "rrSent", "nextWindow"}) /\ a.ctrl = p.ctrl
  BY DEF Only, Fields
<1>2. a.ctrl \in {"NONE", "RR", "RNR", "REJ"}
  BY <1>1 DEF Narrow, LiveOn, Ends
<1> QED  BY <1>1, <1>2, LiveChooses

(* Every call that PNALDFCPump may run in a session. *)
LEMMA LiveCalls ==
    ASSUME NEW mode \in Modes, Settled(host, mode), DOMAIN hci = HciFields, Old(host),
           NEW calm, Queue(host, hci, calm), Calls,
           \A e \in Range(host.dfc) : e.fn = "FrameRead" => NoRST(e.f),
           NEW c, NEW h, LiveOn(host, c, toCtrl, h), Line(toCtrl),
           NEW tk, Completes(host, hci, c, tk)
    PROVE  LiveOn(host', c, toCtrl', h) /\ Line(toCtrl') /\ Completes(host', hci', c, tk)
<1>1. PICK p : p = Pumped
  OBVIOUS
<1>2. PICK e : e = Head(host.dfc)
  OBVIOUS
<1>3. \A fn : AtHead(fn) => Ran(host, p, fn, mode) /\ Popped(host, p, e, mode) /\ e.fn = fn
  <2>1. Based(host, mode)
    BY DEF Settled, Sound, Instance, Based
  <2> QED  BY <1>1, <1>2, <2>1, PumpedRan, PumpedPopped
<1>4. ASSUME NEW fn, AtHead(fn), fn \notin {"FrameWritten", "T2", "T4", "T6"}
      PROVE  Settled(p, mode) /\ p.status = host.status
  BY <1>3, <1>4, RanSettled
<1>5. PICK u, q : u = hci /\ q = toCtrl
  OBVIOUS
<1>6. ASSUME NEW fn, AtHead(fn), fn # "Acknowledged"
      PROVE  /\ LiveOn(p, c, q, h) /\ Completes(p, u, c, tk) /\ Narrow(p) /\ Based(p, mode)
  <2>1. Popped(host, p, e, mode) /\ e.fn # "Acknowledged"
    BY <1>3, <1>6
  <2>2. LiveOn(p, c, q, h) /\ Completes(p, u, c, tk)
    BY <1>5, <2>1, PopLive
  <2>3. Narrow(host)
    BY SettledNarrow DEF Settled
  <2>4. Narrow(p) /\ Based(p, mode)
    BY <2>1, <2>3 DEF Popped, Only, Fields, Narrow
  <2> QED  BY <2>2, <2>4
<1>7. host.status = "UA_SENT"
  BY DEF LiveOn
<1>8. CASE FrameReadDone
  <2>1. AtHead("FrameRead") /\ hci' = hci
    BY <1>8 DEF FrameReadDone
  <2>2. PICK s : s = GenericReadCompleted(p, e.f)
    OBVIOUS
  <2>3. Popped(host, p, e, mode) /\ e.fn = "FrameRead" /\ Settled(p, mode)
    BY <1>3, <1>4, <2>1
  <2>4. NoRST(e.f)
    <3>1. e \in Range(host.dfc)
      BY <2>3 DEF Popped
    <3> QED  BY <2>3, <3>1
  <2>5. LiveOn(s, c, q, h) /\ Completes(s, u, c, tk)
    BY <1>5, <2>2, <2>3, <2>4, LiveFrameRead
  <2>6. Based(s, mode) /\ TxOK(s)
    <3>1. e.f \in Frames(mode)
      BY <2>3 DEF Popped, DfcCalls, PlainCalls, Timers
    <3>2. PICK f : f = e.f
      OBVIOUS
    <3>3. Settled(s, mode)
      BY <2>2, <2>3, <3>1, <3>2, GenericReadSettled
    <3> QED  BY <3>3 DEF Settled, Sound, Instance, Based
  <2>7. PICK k, r : k = host' /\ r = toCtrl'
    OBVIOUS
  <2>8. Port(s, k, q, r, mode)
    <3>1. \/ k = NotTaken(s) /\ r = q
          \/ s.tx # NoTx /\ k = TakenOnRead(s) /\ \E g \in OnTheWire(s.tx) : r = Append(q, g)
      BY <1>1, <1>2, <1>5, <1>8, <2>2, <2>7 DEF FrameReadDone
    <3> QED  BY <2>6, <3>1, PortNotTaken, PortTakenOnRead
  <2>9. LiveOn(k, c, r, h) /\ Line(r)
    BY <1>5, <2>5, <2>8, PortLive
  <2>10. Completes(k, u, c, tk)
    BY <2>5, <2>8, CompletesKin DEF Port
  <2> QED  BY <1>5, <2>1, <2>7, <2>9, <2>10
<1>9. CASE ConnectWritten
  <2>1. PICK s : s = ConnectWriteFrameCompleted(p)
    OBVIOUS
  <2>2. AtHead("ConnectWritten") /\ hci' = hci /\ Settle(s)
    BY <1>1, <1>9, <2>1 DEF ConnectWritten, Runs
  <2>3. Settled(p, mode) /\ LiveOn(p, c, q, h) /\ Completes(p, u, c, tk)
    BY <1>4, <1>6, <2>2
  <2>4. s = p
    BY <1>4, <1>7, <2>1, <2>2 DEF ConnectWriteFrameCompleted
  <2> QED  BY <1>5, <2>2, <2>3, <2>4, LiveEnds
<1>10. CASE FrameWritten
  <2>1. PICK s : s = WriteFrameCompleted(p)
    OBVIOUS
  <2>2. AtHead("FrameWritten") /\ hci' = hci /\ Settle(s)
    BY <1>1, <1>10, <2>1 DEF FrameWritten, Runs
  <2>3. LiveOn(p, c, q, h) /\ Completes(p, u, c, tk) /\ Narrow(p) /\ Based(p, mode)
    BY <1>6, <2>2
  <2>4. PICK a : a = [p EXCEPT !.pending = FALSE]
    OBVIOUS
  <2>5. Only(p, a, {"pending", "rrSent", "nextWindow"}) /\ a.nextWindow = p.nextWindow
    BY <2>3, <2>4 DEF Based, Only, Fields
  <2>6. PICK force \in BOOLEAN : s = WriteTransmit(a, force)
    BY <2>1, <2>4 DEF WriteFrameCompleted
  <2>7. LiveOn(s, c, q, h) /\ Completes(s, u, c, tk)
    BY <2>3, <2>5, <2>6, LiveMoved
  <2>8. Settled(s, mode)
    <3>1. /\ Only(host, p, {"dfc", "tx"}) /\ p.dfc \in Seq(DfcCalls(mode)) /\ p.tx = host.tx
          /\ Fns(p.dfc) \subseteq Fns(host.dfc)
          /\ Fns(host.dfc) \subseteq Fns(p.dfc) \union {"FrameWritten"}
      BY <1>3, <2>2 DEF Ran, Only, Fields
    <3> QED  BY <2>1, <3>1, FrameWrittenSettled
  <2> QED  BY <1>5, <2>2, <2>7, <2>8, LiveEnds
<1>11. CASE ResendTimer
  <2>1. PICK s : s = WriteTimerCompleted(p)
    OBVIOUS
  <2>2. AtHead("T2") /\ hci' = hci /\ Settle(s)
    BY <1>1, <1>11, <2>1 DEF ResendTimer, Runs
  <2>3. LiveOn(p, c, q, h) /\ Completes(p, u, c, tk) /\ Narrow(p) /\ Based(p, mode)
    BY <1>6, <2>2
  <2>4. LiveOn(s, c, q, h) /\ Completes(s, u, c, tk)
    <3>1. CASE p.nextWindow > p.lastAck + 1
      <4>1. PICK a : a = [p EXCEPT !.nextWindow = @ - 1]
        OBVIOUS
      <4>2. Only(p, a, {"pending", "rrSent", "nextWindow"}) /\ a.nextWindow = p.nextWindow - 1
        BY <2>3, <4>1 DEF Based, Only, Fields
      <4>3. a.nextWindow > p.lastAck
        BY <2>3, <3>1, <4>2 DEF Narrow
      <4>4. PICK force \in BOOLEAN : s = WriteTransmit(a, force)
        BY <2>1, <3>1, <4>1 DEF WriteTimerCompleted
      <4> QED  BY <2>3, <4>2, <4>3, <4>4, LiveMoved
    <3>2. CASE ~(p.nextWindow > p.lastAck + 1)
      <4>1. s = p
        BY <2>1, <3>2 DEF WriteTimerCompleted
      <4> QED  BY <2>3, <4>1
    <3> QED  BY <3>1, <3>2
  <2>5. Settled(s, mode)
    BY <1>3, <2>1, <2>2, ResendTimerSettled
  <2> QED  BY <1>5, <2>2, <2>4, <2>5, LiveEnds
<1>12. CASE ResetTimer
  <2>1. AtHead("T3")
    BY <1>12 DEF ResetTimer, Runs
  <2>2. FALSE
    BY <1>3, <1>7, <2>1 DEF Settled, Sound, Phases, Coming, Ran
  <2> QED  BY <2>2
<1>13. CASE PiggyBackTimer
  <2>1. PICK s : s = WriteTransmit(p, TRUE)
    OBVIOUS
  <2>2. AtHead("T4") /\ hci' = hci /\ Settle(s)
    BY <1>1, <1>13, <2>1 DEF PiggyBackTimer, Runs
  <2>3. LiveOn(p, c, q, h) /\ Completes(p, u, c, tk) /\ Narrow(p) /\ Based(p, mode)
    BY <1>6, <2>2
  <2>4. PICK force, a : force \in BOOLEAN /\ a = p /\ s = WriteTransmit(a, force)
    BY <2>1
  <2>5. Only(p, a, {"pending", "rrSent", "nextWindow"}) /\ a.nextWindow = p.nextWindow
    BY <2>3, <2>4 DEF Based, Only
  <2>6. LiveOn(s, c, q, h) /\ Completes(s, u, c, tk)
    BY <2>3, <2>4, <2>5, LiveMoved
  <2>7. Settled(s, mode)
    <3>1. Sound(p, mode)
      BY <1>3, <2>2, TimerRanSound
    <3> QED  BY <2>4, <3>1, TransmitSettled
  <2> QED  BY <1>5, <2>2, <2>6, <2>7, LiveEnds
<1>14. CASE RRTimer
  <2>1. PICK s : s = RRFrameAlreadySentTimer(p)
    OBVIOUS
  <2>2. AtHead("T6") /\ hci' = hci /\ Settle(s)
    BY <1>1, <1>14, <2>1 DEF RRTimer, Runs
  <2>3. LiveOn(p, c, q, h) /\ Completes(p, u, c, tk) /\ Narrow(p) /\ Based(p, mode)
    BY <1>6, <2>2
  <2>4. PICK a : a = [p EXCEPT !.rrSent = FALSE]
    OBVIOUS
  <2>5. Only(p, a, {"pending", "rrSent", "nextWindow"}) /\ a.nextWindow = p.nextWindow
    BY <2>3, <2>4 DEF Based, Only, Fields
  <2>6. PICK force \in BOOLEAN : s = WriteTransmit(a, force)
    BY <2>1, <2>4 DEF RRFrameAlreadySentTimer
  <2>7. LiveOn(s, c, q, h) /\ Completes(s, u, c, tk)
    BY <2>3, <2>5, <2>6, LiveMoved
  <2>8. Settled(s, mode)
    BY <1>3, <2>1, <2>2, RRTimerSettled
  <2> QED  BY <1>5, <2>2, <2>7, <2>8, LiveEnds
<1>15. CASE ResetIndication \/ StreamData
  <2>1. PICK fn \in {"ResetIndication", "StreamData"} : AtHead(fn) /\ hci' = hci /\ Settle(p)
    BY <1>1, <1>15 DEF ResetIndication, StreamData, Runs
  <2>2. Settled(p, mode) /\ LiveOn(p, c, q, h) /\ Completes(p, u, c, tk)
    BY <1>4, <1>6, <2>1
  <2> QED  BY <1>5, <2>1, <2>2, LiveEnds
<1>16. CASE ConnectDone
  <2>1. AtHead("ConnectDone") /\ hci' = [hci EXCEPT !.connected = TRUE] /\ Settle(p)
    BY <1>1, <1>16 DEF ConnectDone, RunsHci
  <2>2. Settled(p, mode) /\ LiveOn(p, c, q, h) /\ Completes(p, u, c, tk)
    BY <1>4, <1>6, <2>1
  <2>3. PICK v : v = [u EXCEPT !.connected = TRUE]
    OBVIOUS
  <2>4. v.done = u.done /\ v.sent = u.sent /\ hci' = v
    BY <1>5, <2>1, <2>3 DEF HciFields
  <2>5. Completes(p, v, c, tk)
    BY <2>2, <2>4 DEF Completes
  <2> QED  BY <1>5, <2>1, <2>2, <2>4, <2>5, LiveEnds
<1>17. CASE Acknowledged \/ BufferFree
  <2>1. PICK fn \in {"Acknowledged", "BufferFree"}, whole \in BOOLEAN :
             /\ fn = IF whole THEN "Acknowledged" ELSE "BufferFree"
             /\ AtHead(fn) /\ RunsHci(fn, WriteAcknowledged(p, u, whole))
    BY <1>1, <1>5, <1>17 DEF Acknowledged, BufferFree, RunsHci
  <2>2. PICK b : b = WriteAcknowledged(p, u, whole)
    OBVIOUS
  <2>3. Settle(b.s) /\ hci' = b.u
    BY <2>1, <2>2 DEF RunsHci
  <2>4. Popped(host, p, e, mode) /\ e.fn = IF whole THEN "Acknowledged" ELSE "BufferFree"
    BY <1>3, <2>1
  <2>5. Settled(p, mode)
    BY <1>4, <2>1
  <2>6. Settled(b.s, mode)
    BY <1>5, <1>7, <2>2, <2>4, <2>5, WriteAcknowledgedQueue
  <2>7. LiveOn(b.s, c, q, h) /\ Completes(b.s, b.u, c, tk)
    BY <1>5, <1>7, <2>2, <2>4, <2>5, LiveWriteAcknowledged
  <2> QED  BY <1>5, <2>3, <2>6, <2>7, LiveEnds
<1>18. CASE DataIsReady
  <2>1. PICK b : b = DataReady(p, u)
    OBVIOUS
  <2>2. AtHead("DataReady") /\ Settle(b.s) /\ hci' = b.u
    BY <1>1, <1>5, <1>18, <2>1 DEF DataIsReady, RunsHci
  <2>3. Settled(p, mode) /\ p.status = host.status
    BY <1>4, <2>2
  <2>4. Popped(host, p, e, mode) /\ e.fn = "DataReady"
    BY <1>3, <2>2
  <2>5. LiveOn(b.s, c, q, h) /\ Completes(b.s, b.u, c, tk)
    BY <1>5, <2>1, <2>4, LiveDataReady
  <2>6. Settled(b.s, mode)
    <3>1. CASE u.connected
      <4>1. b = ReadMachine(p, u)
        BY <2>1, <3>1 DEF DataReady
      <4>2. Both(b, u.connected, mode)
        BY <1>5, <1>7, <2>3, <3>1, <4>1, ReadMachineBoth
      <4> QED  BY <4>2 DEF Both
    <3>2. CASE ~u.connected
      <4>1. b = [s |-> p, u |-> u]
        BY <2>1, <3>2 DEF DataReady
      <4> QED  BY <2>3, <4>1
    <3> QED  BY <3>1, <3>2
  <2> QED  BY <1>5, <2>2, <2>5, <2>6, LiveEnds
<1> QED
  BY <1>8, <1>9, <1>10, <1>11, <1>12, <1>13, <1>14, <1>15, <1>16, <1>17, <1>18 DEF Calls

(* The rest of a frame goes out. *)
LEMMA LivePollWrite ==
    ASSUME NEW mode \in Modes, Settled(host, mode), Old(host), PollWrite,
           NEW c, NEW h, LiveOn(host, c, toCtrl, h), Line(toCtrl),
           NEW tk, Completes(host, hci, c, tk)
    PROVE  LiveOn(host', c, toCtrl', h) /\ Line(toCtrl') /\ Completes(host', hci', c, tk)
<1>1. PICK p : p = Taken(host)
  OBVIOUS
<1>2. PICK s : s = IF host.tx.cb = "FrameWritten" THEN WriteFrameCompleted(p)
                   ELSE ConnectWriteFrameCompleted(p)
  OBVIOUS
<1>3. PICK q, u, k, r : q = toCtrl /\ u = hci /\ k = host' /\ r = toCtrl'
  OBVIOUS
<1>4. hci' = hci /\ host.tx # NoTx
  BY DEF PollWrite
<1>5. PICK f \in OnTheWire(host.tx) :
           \/ k = NotTaken(s) /\ r = Append(q, f)
           \/ s.tx # NoTx /\ k = Taken(s) /\ r = q \o <<f, s.tx.f>>
  BY <1>1, <1>2, <1>3 DEF PollWrite
<1>6. PICK l : l = Append(q, f)
  OBVIOUS
<1>7. Based(host, mode) /\ Sound(host, mode) /\ DOMAIN host = Fields
  BY DEF Settled, Sound, Instance, Based
<1>8. Port(host, p, q, l, mode)
  BY <1>1, <1>4, <1>6, <1>7, PortTaken
<1>9. LiveOn(p, c, l, h) /\ Line(l) /\ Completes(p, u, c, tk)
  BY <1>3, <1>8, PortLive, CompletesKin DEF Port
<1>10. Kin(host, p, mode) /\ Only(host, p, {"tx"}) /\ p.tx = NoTx
  BY <1>1, <1>7, KinTaken
<1>11. Narrow(p) /\ Based(p, mode)
  <2>1. Narrow(host)
    BY SettledNarrow DEF Settled
  <2> QED  BY <1>10, <2>1, KinBased DEF Only, Fields, Narrow
<1>12. LiveOn(s, c, l, h) /\ Completes(s, u, c, tk) /\ Settled(s, mode)
  <2>1. CASE host.tx.cb = "FrameWritten"
    <3>1. s = WriteFrameCompleted(p)
      BY <1>2, <2>1
    <3>2. /\ p.dfc \in Seq(DfcCalls(mode)) /\ Fns(p.dfc) \subseteq Fns(host.dfc)
          /\ Fns(host.dfc) \subseteq Fns(p.dfc) \union {"FrameWritten"}
          /\ Only(host, p, {"dfc", "tx"})
      BY <1>10, <1>11 DEF Only, Fields, Based
    <3>3. Settled(s, mode)
      BY <1>10, <3>1, <3>2, FrameWrittenSettled
    <3>4. PICK a : a = [p EXCEPT !.pending = FALSE]
      OBVIOUS
    <3>5. Only(p, a, {"pending", "rrSent", "nextWindow"}) /\ a.nextWindow = p.nextWindow
      BY <1>11, <3>4 DEF Based, Only, Fields
    <3>6. PICK force \in BOOLEAN : s = WriteTransmit(a, force)
      BY <3>1, <3>4 DEF WriteFrameCompleted
    <3> QED  BY <1>9, <1>11, <3>3, <3>5, <3>6, LiveMoved
  <2>2. CASE host.tx.cb # "FrameWritten"
    <3>1. p.status = "UA_SENT"
      BY <1>9 DEF LiveOn
    <3>2. s = p
      BY <1>2, <2>2, <3>1 DEF ConnectWriteFrameCompleted
    <3>3. /\ p.dfc \in Seq(DfcCalls(mode)) /\ Fns(host.dfc) \subseteq Fns(p.dfc)
          /\ Fns(p.dfc) \subseteq Fns(host.dfc) \union {"FrameWritten", "ConnectWritten"}
          /\ Only(host, p, {"tx", "dfc"})
      BY <1>10, <1>11 DEF Only, Fields, Based
    <3>4. Settled(p, mode)
      BY <1>7, <1>10, <2>2, <3>3, TakenSound
    <3> QED  BY <1>9, <3>2, <3>4
  <2> QED  BY <2>1, <2>2
<1>13. Based(s, mode) /\ TxOK(s)
  BY <1>12 DEF Settled, Sound, Instance, Based
<1>14. Port(s, k, l, r, mode)
  <2>1. CASE k = NotTaken(s) /\ r = Append(q, f)
    BY <1>6, <1>13, <2>1, PortNotTaken
  <2>2. CASE s.tx # NoTx /\ k = Taken(s) /\ r = q \o <<f, s.tx.f>>
    <3>1. s.tx.f \in OnTheWire(s.tx)
      BY DEF OnTheWire
    <3>2. r = Append(l, s.tx.f)
      <4>1. PICK S : S = Range(q) \union {f, s.tx.f}
        OBVIOUS
      <4>2. PICK g : g = s.tx.f
        OBVIOUS
      <4>3. q \in Seq(S) /\ f \in S /\ g \in S
        <5>1. q \in Seq(Range(q)) /\ Range(q) \subseteq S
          BY <1>3, <4>1 DEF Line
        <5> QED  BY <4>1, <4>2, <5>1, SeqMonotonic
      <4>4. q \o <<f, g>> = Append(Append(q, f), g)
        BY <4>3
      <4> QED  BY <1>6, <2>2, <4>2, <4>4
    <3> QED  BY <1>13, <2>2, <3>1, <3>2, PortTaken
  <2> QED  BY <1>5, <2>1, <2>2
<1>15. LiveOn(k, c, r, h) /\ Line(r)
  BY <1>9, <1>12, <1>14, PortLive
<1>16. Completes(k, u, c, tk)
  BY <1>12, <1>14, CompletesKin DEF Port
<1> QED  BY <1>3, <1>4, <1>15, <1>16

(* A frame is read: it is still the first of those that are coming. *)
LEMMA ReadFewer ==
    ASSUME NEW s, NEW mode, Based(s, mode), "FrameRead" \notin Fns(s.dfc),
           NEW h, Line(h), h # <<>>, NEW k, k.dfc = Append(s.dfc, [fn |-> "FrameRead", f |-> Head(h)])
    PROVE  /\ Fewer(In(k, Tail(h)), InPairs(k, Tail(h)), In(s, h), InPairs(s, h))
           /\ Line(Tail(h)) /\ Head(h) \in Range(h) /\ Range(Tail(h)) \subseteq Range(h)
           /\ Fns(k.dfc) = Fns(s.dfc) \union {"FrameRead"}
<1>1. PICK S : S = Range(h)
  OBVIOUS
<1>2. PICK t : t = Tail(h)
  OBVIOUS
<1>3. PICK g : g = Head(h)
  OBVIOUS
<1>4. PICK e : e = [fn |-> "FrameRead", f |-> g]
  OBVIOUS
<1>5. /\ g \in S /\ Range(t) \subseteq S /\ Pairs(t) \subseteq Pairs(h) /\ t \in Seq(S)
      /\ \A f \in Range(t) : <<g, f>> \in Pairs(h)
  <2>1. h \in Seq(S)
    BY <1>1 DEF Line
  <2> QED  BY <1>1, <1>2, <1>3, <2>1, TailPairs
<1>6. Range(k.dfc) = Range(s.dfc) \union {e}
  <2>1. PICK C : C = DfcCalls(mode)
    OBVIOUS
  <2>2. s.dfc \in Seq(C)
    BY <2>1 DEF Based
  <2>3. Range(Append(s.dfc, e)) = Range(s.dfc) \union {e}
    BY <2>2, AppendPairs
  <2> QED  BY <1>3, <1>4, <2>3
<1>7. InRead(k) = {g} /\ InRead(s) = {} /\ Fns(k.dfc) = Fns(s.dfc) \union {"FrameRead"}
  BY <1>4, <1>6 DEF InRead, Fns
<1>8. Line(t)
  BY <1>5 DEF Line, Range
<1> QED  BY <1>1, <1>2, <1>3, <1>5, <1>7, <1>8 DEF Fewer, In, InPairs

LEMMA LivePollRead ==
    ASSUME NEW mode \in Modes, Settled(host, mode), NEW calm, Queue(host, hci, calm), PollRead,
           NEW c, NEW q, LiveOn(host, c, q, toHost), Line(toHost),
           NEW u, NEW tk, Completes(host, u, c, tk)
    PROVE  LiveOn(host', c, q, toHost') /\ Completes(host', u, c, tk)
<1>1. PICK k, h : k = host' /\ h = toHost
  OBVIOUS
<1>2. PICK e : e = [fn |-> "FrameRead", f |-> Head(h)]
  OBVIOUS
<1>3. /\ host.reading /\ h # <<>> /\ toHost' = Tail(h)
      /\ k = [host EXCEPT !.dfc = Append(@, e), !.reading = FALSE]
  BY <1>1, <1>2 DEF PollRead
<1>4. Based(host, mode) /\ "FrameRead" \notin Fns(host.dfc) /\ DOMAIN host = Fields
  BY <1>3 DEF Settled, Sound, Instance, Based, Queue, Reads
<1>5. Only(host, k, {"dfc", "reading"}) /\ k.dfc = Append(host.dfc, e)
  BY <1>3, <1>4 DEF Only, Fields
<1>6. /\ Fewer(In(k, Tail(h)), InPairs(k, Tail(h)), In(host, h), InPairs(host, h))
      /\ Fns(k.dfc) = Fns(host.dfc) \union {"FrameRead"}
  BY <1>1, <1>2, <1>3, <1>4, <1>5, ReadFewer
<1>7. Alike(host, k) /\ k.tx = host.tx /\ k.ctrl = host.ctrl
  BY <1>5 DEF Only, Fields, Alike
<1>8. Out(k, q) = Out(host, q) /\ OutPairs(k, q) = OutPairs(host, q)
  BY <1>7 DEF Out, OutPairs, InTx
<1>9. PICK F, P : F = Out(host, q) /\ P = OutPairs(host, q)
  OBVIOUS
<1>10. Fewer(F, P, F, P) /\ \A f \in F : f = BAD \/ f \in F
  BY DEF Fewer
<1>11. k.ctrl # "UA" /\ Ends(host, c, F, P) /\ Session(host, c, F, In(host, h), InPairs(host, h))
  BY <1>1, <1>7, <1>9 DEF LiveOn, Ends
<1>12. Ends(k, c, F, P)
  BY <1>7, <1>10, <1>11, EndsFewer
<1>13. Session(k, c, F, In(k, Tail(h)), InPairs(k, Tail(h)))
  BY <1>6, <1>7, <1>10, <1>11, SessionFewer
<1>14. LiveOn(k, c, q, Tail(h))
  BY <1>7, <1>8, <1>9, <1>12, <1>13 DEF LiveOn, Alike
<1>15. Completes(k, u, c, tk)
  BY <1>6, <1>7, CompletesKept DEF Alike
<1> QED  BY <1>1, <1>3, <1>14, <1>15

(* A timer expires. *)
LEMMA LiveExpires ==
    ASSUME NEW mode \in Modes, Settled(host, mode), NEW t \in Timers, TimerExpires(t),
           NEW c, NEW q, NEW h, LiveOn(host, c, q, h), NEW u, NEW tk, Completes(host, u, c, tk)
    PROVE  LiveOn(host', c, q, h) /\ Completes(host', u, c, tk)
<1>1. PICK a : a = [host EXCEPT !.armed = @ \ {t}]
  OBVIOUS
<1>2. host' = Post(a, t)
  BY <1>1 DEF TimerExpires
<1>3. PICK k : k = host'
  OBVIOUS
<1>4. Based(host, mode)
  BY DEF Settled, Sound, Instance, Based
<1>5. Only(host, a, {"armed"}) /\ a.dfc = host.dfc
  BY <1>1, <1>4 DEF Based, Only, Fields
<1>6. Kin(host, a, mode)
  <2>1. Only(host, a, Moving)
    BY <1>5 DEF Only, Moving
  <2> QED  BY <1>4, <1>5, <2>1, KinFields
<1>7. Kin(a, k, mode) /\ Only(a, k, {"dfc"})
  <2>1. t \in Neutral
    BY DEF Neutral, Watched, PlainCalls, Timers
  <2> QED  BY <1>2, <1>3, <1>6, <2>1, KinBased, KinPost
<1>8. Kin(host, k, mode) /\ k.tx = host.tx /\ k.ctrl = host.ctrl
  <2>1. k.tx = host.tx /\ k.ctrl = host.ctrl
    BY <1>5, <1>7 DEF Only, Fields
  <2> QED  BY <1>6, <1>7, <2>1, KinTrans
<1>9. Alike(host, k) /\ Older(host.dfc, k.dfc)
  BY <1>8, KinAlike
<1>10. LiveOn(k, c, q, h)
  BY <1>8, <1>9, LiveKept DEF LiveOn, Ends, InTx
<1>11. Completes(k, u, c, tk)
  BY <1>8, CompletesKin
<1> QED  BY <1>3, <1>10, <1>11

(* The user writes. *)
LEMMA LiveUserWrites ==
    ASSUME NEW mode \in Modes, Settled(host, mode), DOMAIN hci = HciFields, asked \in Nat,
           NEW calm, Queue(host, hci, calm), UserWrites,
           NEW c, NEW h, LiveOn(host, c, toCtrl, h), Line(toCtrl),
           NEW tk, Completes(host, hci, c, tk)
    PROVE  LiveOn(host', c, toCtrl', h) /\ Line(toCtrl') /\ Completes(host', hci', c, tk)
<1>1. PICK m \in Nat : m = asked + 1
  OBVIOUS
<1>2. PICK b : b = PHCIFrameWrite(host, hci, m)
  OBVIOUS
<1>3. hci.connected /\ Settle(b.s) /\ hci' = b.u
  BY <1>1, <1>2 DEF UserWrites
<1>4. host.status = "UA_SENT"
  BY DEF LiveOn
<1>5. Settled(b.s, mode)
  BY <1>2, <1>3, <1>4, WriteMessageQueue
<1>6. PICK s, u, v, q : s = b.s /\ u = hci /\ v = b.u /\ q = toCtrl
  OBVIOUS
<1>7. LiveOn(b.s, c, q, h) /\ Completes(b.s, b.u, c, tk)
  BY <1>2, <1>3, <1>4, <1>6, LiveWriteMessage
<1> QED  BY <1>3, <1>5, <1>6, <1>7, LiveEnds

-----------------------------------------------------------------------------
(* The host before the session.                                            *)

Shaken(s, c, q, h) ==
    /\ s.status # "UA_SENT" /\ Ends(s, c, Out(s, q), OutPairs(s, q))
    /\ Shaking(s, c, Out(s, q), OutPairs(s, q), In(s, h), InPairs(s, h)) /\ Calling(s)

(* The status may change. *)
Counted(s, k) ==
    /\ k.connNext = s.connNext /\ k.lastAck = s.lastAck /\ k.nextToSend = s.nextToSend
    /\ k.readNext = s.readNext /\ k.slots = s.slots /\ k.log = s.log /\ k.rlog = s.rlog

LEMMA EndsCounted ==
    ASSUME NEW s, NEW c, NEW E, NEW R, Ends(s, c, E, R), NEW k, Counted(s, k), k.ctrl # "UA",
           k.status # "SEND_UA_PENDING", NEW F, NEW P, Fewer(F, P, E, R)
    PROVE  Ends(k, c, F, P)
<1>1. Abreast(k, c) /\ Same(k, c)
  BY DEF Ends, Abreast, Same, Counted, Waits
<1>2. Steady("ns", F, P, Expects(c) - 1, k.nextToSend) /\ Steady("nr", F, P, Owed(c), k.readNext + 1)
  <2>1. "ns" \in {"ns", "nr"} /\ "nr" \in {"ns", "nr"}
    OBVIOUS
  <2>2. Steady("ns", E, R, Expects(c) - 1, s.nextToSend) /\ Steady("nr", E, R, Owed(c), s.readNext + 1)
    BY DEF Ends, Outgoing
  <2>3. PICK x, y : x = s.nextToSend /\ y = s.readNext + 1
    OBVIOUS
  <2>4. Steady("ns", F, P, Expects(c) - 1, x) /\ Steady("nr", F, P, Owed(c), y)
    BY <2>1, <2>2, <2>3, SteadyFewer
  <2> QED  BY <2>3, <2>4 DEF Counted
<1>3. /\ \A f \in F : f.t = "I" /\ Expects(c) < k.nextToSend /\ f.ns = Expects(c) % 8
                        => f.pay = k.log[Len(c.got) + 1]
      /\ \A f \in F : f.t \in {"I", "RR", "RNR", "REJ", "RST", "BAD"}
  BY DEF Ends, Outgoing, Counted, Fewer, BAD
<1> QED  BY <1>1, <1>2, <1>3 DEF Ends, Outgoing, Counted

LEMMA ShakenFewer ==
    ASSUME NEW s, NEW c, NEW q, NEW h, Shaken(s, c, q, h), NEW k, Counted(s, k), k.ctrl # "UA",
           k.status \notin {"UA_SENT", "SEND_UA_PENDING"}, Asking(k) => Asking(s), Calling(k),
           NEW r, Fewer(Out(k, r), OutPairs(k, r), Out(s, q), OutPairs(s, q)),
           NEW i, Fewer(In(k, i), InPairs(k, i), In(s, h), InPairs(s, h))
    PROVE  Shaken(k, c, r, i)
<1>1. PICK F, P, G, Q : /\ F = Out(k, r) /\ P = OutPairs(k, r)
                        /\ G = In(k, i) /\ Q = InPairs(k, i)
  OBVIOUS
<1>2. PICK E, R, H, T : /\ E = Out(s, q) /\ R = OutPairs(s, q)
                        /\ H = In(s, h) /\ T = InPairs(s, h)
  OBVIOUS
<1>3. Ends(s, c, E, R) /\ Shaking(s, c, E, R, H, T) /\ Fewer(F, P, E, R) /\ Fewer(G, Q, H, T)
  BY <1>1, <1>2 DEF Shaken
<1>4. Ends(k, c, F, P)
  BY <1>3, EndsCounted
<1>5. k.lastAck = FirstId - 1 /\ k.nextToSend = FirstId /\ k.readNext = FirstId
  BY <1>3 DEF Shaking, Counted
<1>6. /\ \A f \in F : f.t \in {"RST", "BAD"} /\ (f.t = "RST" => f \in E)
      /\ \A g \in G : g.t = "UA" => g \in H
  BY <1>3 DEF Shaking, Fewer, BAD
<1>7. \A p \in P : ~(p[1].t = "RST" /\ p[2].t = "RST")
  BY <1>3 DEF Shaking, Fewer, BAD
<1>8. \A p \in Q : p[1].t = "UA" => First(p[2], c)
  BY <1>3 DEF Shaking, Fewer, BAD, First, Has
<1>9. Shaking(k, c, F, P, G, Q)
  BY <1>3, <1>5, <1>6, <1>7, <1>8 DEF Shaking
<1> QED  BY <1>1, <1>4, <1>9 DEF Shaken

(* How often a call is queued. *)
LEMMA OnceNone ==
    ASSUME NEW q, NEW fn, fn \notin Fns(q)
    PROVE  Once(q, fn)
<1>1. \A i \in DOMAIN q : q[i] \in Range(q)
  BY DEF Range
<1> QED  BY <1>1 DEF Once, Fns

LEMMA OnceAppend ==
    ASSUME NEW S, NEW q \in Seq(S), NEW e, NEW fn, Once(q, fn), e.fn = fn => fn \notin Fns(q)
    PROVE  Once(Append(q, e), fn)
<1>1. PICK n \in Nat : n = Len(q)
  OBVIOUS
<1>2. /\ DOMAIN q = 1..n /\ DOMAIN Append(q, e) = 1..n + 1
      /\ \A i \in 1..n : Append(q, e)[i] = q[i] /\ q[i] \in Range(q)
      /\ Append(q, e)[n + 1] = e
  BY <1>1 DEF Range
<1>3. ASSUME NEW i \in 1..n + 1, NEW j \in 1..n + 1, i < j,
             Append(q, e)[i].fn = fn, Append(q, e)[j].fn = fn
      PROVE  FALSE
  <2>1. i \in 1..n
    BY <1>3
  <2>2. CASE j \in 1..n
    BY <1>2, <1>3, <2>1, <2>2 DEF Once
  <2>3. CASE j = n + 1
    BY <1>2, <1>3, <2>1, <2>3 DEF Fns
  <2> QED  BY <1>3, <2>2, <2>3
<1> QED  BY <1>2, <1>3 DEF Once

LEMMA OnceTail ==
    ASSUME NEW S, NEW q \in Seq(S), q # <<>>, NEW fn, Once(q, fn)
    PROVE  Once(Tail(q), fn) /\ (Head(q).fn = fn => fn \notin Fns(Tail(q)))
<1>1. PICK n \in Nat : n = Len(q) /\ n > 0
  OBVIOUS
<1>2. /\ DOMAIN q = 1..n /\ DOMAIN Tail(q) = 1..n - 1 /\ Head(q) = q[1]
      /\ \A i \in 1..n - 1 : Tail(q)[i] = q[i + 1]
  BY <1>1
<1>3. ASSUME NEW i \in 1..n - 1, NEW j \in 1..n - 1, i < j,
             Tail(q)[i].fn = fn, Tail(q)[j].fn = fn
      PROVE  FALSE
  <2>1. i + 1 \in 1..n /\ j + 1 \in 1..n /\ i + 1 < j + 1
    BY <1>1, <1>3
  <2> QED  BY <1>2, <1>3, <2>1 DEF Once
<1>4. ASSUME Head(q).fn = fn, fn \in Fns(Tail(q))
      PROVE  FALSE
  <2>1. PICK j \in 1..n - 1 : Tail(q)[j].fn = fn
    BY <1>2, <1>4 DEF Fns, Range
  <2>2. 1 \in 1..n /\ j + 1 \in 1..n /\ 1 < j + 1
    BY <1>1, <2>1
  <2> QED  BY <1>2, <1>4, <2>1, <2>2 DEF Once
<1> QED  BY <1>2, <1>3, <1>4 DEF Once

(* Nothing but what the handshake does not depend on has changed. *)
LEMMA StillShaken ==
    ASSUME NEW s, NEW c, NEW q, NEW h, Shaken(s, c, q, h), NEW k, NEW X,
           X = {"pending", "rrSent", "reading", "connCb", "dfc", "armed"}, Only(s, k, X),
           k.armed \subseteq s.armed, Fns(k.dfc) \subseteq Fns(s.dfc), Older(s.dfc, k.dfc),
           Once(k.dfc, "T3"), Once(k.dfc, "ConnectWritten")
    PROVE  Shaken(k, c, q, h) /\ Counted(s, k)
<1>1. /\ Counted(s, k) /\ k.status = s.status /\ k.tx = s.tx /\ k.ctrl = s.ctrl
  BY DEF Only, Fields, Counted
<1>2. k.ctrl # "UA" /\ k.status \notin {"UA_SENT", "SEND_UA_PENDING"}
  BY <1>1 DEF Shaken, Ends
<1>3. Asking(k) => Asking(s)
  BY <1>1 DEF Asking
<1>4. Calling(k)
  BY <1>1 DEF Shaken, Calling
<1>5. Fewer(Out(k, q), OutPairs(k, q), Out(s, q), OutPairs(s, q))
  BY <1>1, OutKept DEF InTx
<1>6. Fewer(In(k, h), InPairs(k, h), In(s, h), InPairs(s, h))
  BY InKept
<1> QED  BY <1>1, <1>2, <1>3, <1>4, <1>5, <1>6, ShakenFewer

(* A call has been taken. *)
LEMMA PopShaken ==
    ASSUME NEW s, NEW c, NEW q, NEW h, Shaken(s, c, q, h), NEW mode, Based(s, mode), s.dfc # <<>>,
           NEW p, NEW e, Popped(s, p, e, mode), p.dfc = Tail(s.dfc), e = Head(s.dfc)
    PROVE  /\ Shaken(p, c, q, h) /\ Counted(s, p)
           /\ e.fn \in {"T3", "ConnectWritten"} => e.fn \notin Fns(p.dfc)
<1>1. Once(s.dfc, "T3") /\ Once(s.dfc, "ConnectWritten")
  BY DEF Shaken, Calling
<1>2. PICK S : S = DfcCalls(mode)
  OBVIOUS
<1>3. s.dfc \in Seq(S)
  BY <1>2 DEF Based
<1>4. /\ Once(p.dfc, "T3") /\ Once(p.dfc, "ConnectWritten")
      /\ e.fn \in {"T3", "ConnectWritten"} => e.fn \notin Fns(p.dfc)
  BY <1>1, <1>3, OnceTail
<1>5. Fns(p.dfc) \subseteq Fns(s.dfc) /\ Older(s.dfc, p.dfc)
  BY DEF Popped, Older
<1>6. PICK X : X = {"pending", "rrSent", "reading", "connCb", "dfc", "armed"}
  OBVIOUS
<1>7. Only(s, p, X) /\ p.armed \subseteq s.armed
  BY <1>6 DEF Popped, Only, Fields
<1>8. Shaken(p, c, q, h) /\ Counted(s, p)
  BY <1>4, <1>5, <1>6, <1>7, StillShaken
<1> QED  BY <1>4, <1>8

(* A frame that is still in the buffer is left to PSHDLCFramePoll. *)
LEMMA OldSettles ==
    ASSUME NEW s, Old(s), Settle(s)
    PROVE  host' = s /\ toCtrl' = toCtrl
BY DEF Old, Settle, NotTaken

(* UA is taken: what follows it belongs to the session. *)
LEMMA AnsweredLive ==
    ASSUME NEW s, NEW c, NEW q, NEW h, Shaken(s, c, q, h), NEW mode, NEW p, NEW e,
           Popped(s, p, e, mode), e.fn = "FrameRead", e.f.t = "UA", InOrder(s.dfc),
           NEW k, Counted(s, k), k.status = "UA_SENT", k.ctrl # "UA",
           InTx(k) \subseteq InTx(s), Older(p.dfc, k.dfc)
    PROVE  LiveOn(k, c, q, h)
<1>1. Behind(e.f, In(p, h), InPairs(p, h), In(s, h), InPairs(s, h))
  BY InTaken
<1>2. PICK G, Q : G = In(k, h) /\ Q = InPairs(k, h)
  OBVIOUS
<1>3. Fewer(G, Q, In(p, h), InPairs(p, h))
  BY <1>2, InKept
<1>4. \A g \in G : g = BAD \/ First(g, c)
  BY <1>1, <1>3 DEF Fewer, Behind, Shaken, Shaking
<1>5. \A x \in Q : x[1] = BAD \/ x[2] = BAD \/ (x[1] \in In(p, h) /\ x[2] \in In(p, h))
  BY <1>1, <1>3 DEF Fewer, Behind
<1>6. \A g \in In(p, h) : First(g, c)
  BY <1>1 DEF Behind, Shaken, Shaking
<1>7. k.readNext = 32 /\ k.lastAck = 31 /\ Len(k.rlog) = 0
  <2>1. k.readNext = FirstId /\ k.lastAck = FirstId - 1 /\ k.rlog = s.rlog /\ s.readNext = k.readNext
    BY DEF Shaken, Shaking, Counted
  <2>2. s.readNext = FirstId + Len(s.rlog) /\ Len(s.rlog) \in Nat
    BY DEF Shaken, Ends, Abreast, Same
  <2> QED  BY <2>1, <2>2 DEF FirstId
<1>8. PICK n \in Nat : n = Sends(c)
  BY Numbers DEF Shaken, Ends
<1>9. PICK x \in Nat : x = Expects(c)
  BY Numbers DEF Shaken, Ends
<1>10. \A g \in G : g.t = "I" => g.ns = 0 /\ n = 33 /\ g.pay.n = c.log[1]
  BY <1>4, <1>8 DEF First, FirstId, BAD
<1>11. \A g \in G : Has("nr", g) => g.nr = 0
  BY <1>4 DEF First, Has, BAD
<1>12. \A y \in Q : /\ Has("ns", y[1]) /\ Has("ns", y[2]) => y[1].ns = 0 /\ y[2].ns = 0
                    /\ Has("nr", y[1]) /\ Has("nr", y[2]) => y[1].nr = 0 /\ y[2].nr = 0
  BY <1>5, <1>6 DEF First, Has, BAD
<1>13. Steady("ns", G, Q, 31, n)
  <2>1. \A f \in G : Has("ns", f) => f["ns"] = 32 % 8 /\ 32 < n
    BY <1>10 DEF Has
  <2>2. \A y \in Q : Has("ns", y[1]) /\ Has("ns", y[2]) => y[2]["ns"] = 32 % 8
    BY <1>12
  <2> QED  BY <2>1, <2>2 DEF Steady
<1>14. Steady("nr", G, Q, 32, x + 1)
  <2>1. \A f \in G : Has("nr", f) => f["nr"] = 32 % 8
    BY <1>11
  <2>2. \A y \in Q : Has("nr", y[1]) /\ Has("nr", y[2]) => y[1]["nr"] # 33 % 8
    BY <1>12
  <2> QED  BY <2>1, <2>2 DEF Steady
<1>15. Incoming(k, c, G, Q)
  <2>1. k.readNext - 1 = 31 /\ k.lastAck + 1 = 32 /\ Len(k.rlog) + 1 = 1
    BY <1>7
  <2> QED  BY <1>8, <1>9, <1>10, <1>13, <1>14, <2>1 DEF Incoming
<1>16. Fewer(Out(k, q), OutPairs(k, q), Out(s, q), OutPairs(s, q))
  BY OutKept
<1>17. Ends(k, c, Out(k, q), OutPairs(k, q))
  BY <1>16, EndsCounted DEF Shaken
<1>18. \A f \in Out(k, q) : f.t # "RST"
  <2>1. e.f \in In(s, h)
    BY <1>1 DEF Behind
  <2>2. \A f \in Out(s, q) : f.t # "RST"
    BY <2>1 DEF Shaken, Shaking
  <2> QED  BY <1>16, <2>2 DEF Fewer, BAD
<1> QED  BY <1>2, <1>15, <1>17, <1>18 DEF LiveOn, Session

(* The rest of RST goes out as the frame layer reads. *)
LEMMA ShakenOnRead ==
    ASSUME NEW s, NEW c, NEW q, NEW h, Shaken(s, c, q, h), Line(q), NEW mode \in Modes,
           Based(s, mode), TxOK(s), s.tx # NoTx, ~s.tx.new, NEW k, k = TakenOnRead(s),
           NEW g \in OnTheWire(s.tx)
    PROVE  Shaken(k, c, Append(q, g), h) /\ Counted(s, k) /\ Line(Append(q, g))
<1>1. PICK r : r = Append(q, g)
  OBVIOUS
<1>2. Port(s, k, q, r, mode)
  BY <1>1, PortTakenOnRead
<1>3. Line(r) /\ Fewer(Out(k, r), OutPairs(k, r), Out(s, q), OutPairs(s, q))
  BY <1>2, PortLine
<1>4. Only(s, k, {"dfc", "tx"}) /\ Older(s.dfc, k.dfc)
  BY <1>2, KinAlike DEF Port
<1>5. Counted(s, k) /\ k.status = s.status /\ k.armed = s.armed /\ k.ctrl = s.ctrl
  BY <1>4 DEF Only, Fields, Counted
<1>6. Fewer(In(k, h), InPairs(k, h), In(s, h), InPairs(s, h))
  BY <1>4, InKept
<1>7. s.status = "SEND_RESET_PENDING" /\ s.tx.cb = "ConnectWritten"
      /\ "ConnectWritten" \notin Fns(s.dfc)
  BY DEF Shaken, Calling
<1>8. PICK e : e = [fn |-> "ConnectWritten"]
  OBVIOUS
<1>9. k.dfc = Append(s.dfc, e) /\ k.tx = NoTx
  BY <1>7, <1>8 DEF TakenOnRead, Taken, Post, Based, Fields
<1>10. PICK S : S = DfcCalls(mode)
  OBVIOUS
<1>11. s.dfc \in Seq(S) /\ e \in S
  BY <1>8, <1>10 DEF Based, DfcCalls, PlainCalls
<1>12. Fns(k.dfc) = Fns(s.dfc) \union {"ConnectWritten"}
  <2>1. Fns(Append(s.dfc, e)) = Fns(s.dfc) \union {e.fn}
    BY <1>11, AppendCalls
  <2> QED  BY <1>8, <1>9, <2>1
<1>13. Once(k.dfc, "T3") /\ Once(k.dfc, "ConnectWritten")
  <2>1. Once(s.dfc, "T3") /\ Once(s.dfc, "ConnectWritten")
    BY DEF Shaken, Calling
  <2>2. e.fn = "ConnectWritten" /\ e.fn # "T3"
    BY <1>8
  <2> QED  BY <1>7, <1>9, <1>11, <2>1, <2>2, OnceAppend
<1>14. Calling(k)
  BY <1>5, <1>7, <1>9, <1>12, <1>13 DEF Shaken, Calling
<1>15. Asking(k) => Asking(s)
  BY <1>5, <1>12 DEF Asking
<1>16. k.ctrl # "UA" /\ k.status \notin {"UA_SENT", "SEND_UA_PENDING"}
  BY <1>5 DEF Shaken, Ends
<1> QED  BY <1>1, <1>3, <1>5, <1>6, <1>14, <1>15, <1>16, ShakenFewer

(* A frame that is read before the session. *)
LEMMA ShakenFrameRead ==
    ASSUME NEW mode \in Modes, Settled(host, mode), Old(host), NEW calm, Queue(host, hci, calm),
           ~hci.connected, FrameReadDone,
           \A e \in Range(host.dfc) : e.fn = "FrameRead" => NoRST(e.f),
           NEW c, NEW h, Shaken(host, c, toCtrl, h), Line(toCtrl)
    PROVE  /\ Line(toCtrl') /\ Counted(host, host')
           /\ LiveOn(host', c, toCtrl', h) \/ Shaken(host', c, toCtrl', h)
<1>1. PICK p, e, s : /\ p = Pumped /\ e = Head(host.dfc) /\ s = GenericReadCompleted(p, e.f)
  OBVIOUS
<1>2. Based(host, mode) /\ TxOK(host) /\ host.dfc # <<>>
  BY SettledNarrow DEF Settled, Sound, Instance, FrameReadDone, AtHead
<1>3. Popped(host, p, e, mode) /\ e.fn = "FrameRead"
  BY <1>1, <1>2, PumpedPopped DEF FrameReadDone
<1>4. p.dfc = Tail(host.dfc)
  BY <1>1, <1>2 DEF Pumped, Based, Fields
<1>5. Shaken(p, c, toCtrl, h) /\ Counted(host, p)
  BY <1>1, <1>2, <1>3, <1>4, PopShaken
<1>6. e.f.t # "RST" /\ e.fn \in Fns(host.dfc)
  BY <1>3 DEF Popped, NoRST
<1>7. /\ p.status = host.status /\ p.tx = host.tx /\ p.connCb = host.connCb /\ p.armed = host.armed
      /\ p.lastAck = host.lastAck /\ p.nextToSend = host.nextToSend /\ p.ctrl = host.ctrl
      /\ DOMAIN p = Fields /\ Based(p, mode)
  BY <1>3 DEF Popped, Only, Fields
<1>8. host.status # "RESET_PENDING" /\ host.status # "UA_SENT" /\ host.connCb = TRUE
  BY <1>3, <1>6 DEF Queue, Starts, Shaken
<1>9. s = FrameRead(ConnectReadCompleted(p, e.f))
  BY <1>1, <1>7, <1>8 DEF GenericReadCompleted
<1>10. \/ host' = NotTaken(s) /\ toCtrl' = toCtrl
       \/ s.tx # NoTx /\ host' = TakenOnRead(s) /\ \E g \in OnTheWire(s.tx) : toCtrl' = Append(toCtrl, g)
  BY <1>1 DEF FrameReadDone
<1>11. CASE e.f.t = "UA"
  <2>1. PICK a : a = ConnectCompleted(p)
    OBVIOUS
  <2>2. s = FrameRead(a)
    BY <1>9, <1>11, <2>1 DEF ConnectReadCompleted
  <2>3. Queue(p, hci, calm)
    BY <1>3, PopQueue
  <2>4. ~Waits(p) /\ "DataReady" \notin Fns(p.dfc)
    <3>1. host.nextToSend = host.lastAck + 1
      BY <1>8 DEF Settled, Sound, Phases, Quiet
    <3>2. host.nextToSend \in Nat /\ host.lastAck \in Nat
      BY DEF Settled, Sound, Instance, Values
    <3>3. "DataReady" \notin Fns(host.dfc)
      BY <1>8 DEF Queue, Starts
    <3> QED  BY <1>3, <1>7, <3>1, <3>2, <3>3 DEF Waits, Popped
  <2>5. Only(p, p, {"status"})
    BY <1>7 DEF Only
  <2>6. /\ a.status = "UA_SENT" /\ a.dfc \in Seq(DfcCalls(mode))
        /\ Only(p, a, {"status", "connCb", "armed", "dfc"})
        /\ \A d \in Range(a.dfc) : d.fn = "FrameRead" => d \in Range(p.dfc)
    BY <1>7, <1>8, <2>1, <2>3, <2>4, <2>5, ConnectCompletedQueue
  <2>7. /\ s.status = "UA_SENT" /\ s.dfc = a.dfc /\ DOMAIN s = Fields
        /\ Only(p, s, {"status", "connCb", "armed", "dfc", "reading"})
    BY <2>2, <2>6 DEF FrameRead, Only, Fields
  <2>8. Older(p.dfc, s.dfc) /\ Based(s, mode)
    BY <2>6, <2>7 DEF Older, Based
  <2>9. Counted(p, s) /\ s.tx = host.tx /\ s.ctrl = host.ctrl
    BY <1>7, <2>7 DEF Only, Fields, Counted
  <2>10. Counted(host, s)
    BY <1>5, <2>9 DEF Counted
  <2>11. TxOK(s)
    BY <1>2, <2>9 DEF TxOK, Old
  <2>12. LiveOn(s, c, toCtrl, h)
    <3>1. InOrder(host.dfc) /\ InTx(s) \subseteq InTx(host) /\ s.ctrl # "UA"
      BY <2>9 DEF Queue, Reads, InTx, Shaken, Ends
    <3> QED  BY <1>3, <1>11, <2>7, <2>8, <2>10, <3>1, AnsweredLive
  <2>13. PICK k, r : k = host' /\ r = toCtrl'
    OBVIOUS
  <2>14. Port(s, k, toCtrl, r, mode)
    <3>1. CASE k = NotTaken(s) /\ r = toCtrl
      BY <2>8, <2>11, <3>1, PortNotTaken
    <3>2. CASE s.tx # NoTx /\ k = TakenOnRead(s) /\ \E g \in OnTheWire(s.tx) : r = Append(toCtrl, g)
      BY <2>8, <2>11, <3>2, PortTakenOnRead
    <3> QED  BY <1>10, <2>13, <3>1, <3>2
  <2>15. LiveOn(k, c, r, h) /\ Line(r)
    BY <2>12, <2>14, PortLive
  <2>16. Counted(host, k)
    BY <2>10, <2>14 DEF Port, Only, Fields, Counted
  <2> QED  BY <2>13, <2>15, <2>16
<1>12. CASE e.f.t # "UA"
  <2>1. s = [p EXCEPT !.reading = TRUE]
    BY <1>6, <1>9, <1>12 DEF ConnectReadCompleted, RSTAccepted, FrameRead
  <2>2. /\ s.dfc = p.dfc /\ s.armed = p.armed /\ s.tx = host.tx
        /\ Only(p, s, {"pending", "rrSent", "reading", "connCb", "dfc", "armed"})
    BY <1>7, <2>1 DEF Only, Fields
  <2>3. Shaken(s, c, toCtrl, h) /\ Counted(p, s)
    BY <1>5, <2>2, StillShaken DEF Shaken, Calling, Older
  <2>4. Counted(host, s) /\ Based(s, mode) /\ TxOK(s)
    BY <1>2, <1>5, <1>7, <2>2, <2>3 DEF Counted, Based, Only, TxOK, Old
  <2>5. CASE host' = NotTaken(s) /\ toCtrl' = toCtrl
    <3>1. host' = s
      BY <2>2, <2>5 DEF NotTaken, Old
    <3> QED  BY <2>3, <2>4, <2>5, <3>1
  <2>6. CASE s.tx # NoTx /\ host' = TakenOnRead(s) /\ \E g \in OnTheWire(s.tx) : toCtrl' = Append(toCtrl, g)
    <3>1. PICK g \in OnTheWire(s.tx) : toCtrl' = Append(toCtrl, g)
      BY <2>6
    <3>2. ~s.tx.new
      BY <2>2, <2>6 DEF Old
    <3>3. PICK k : k = host'
      OBVIOUS
    <3>4. Shaken(k, c, Append(toCtrl, g), h) /\ Counted(s, k) /\ Line(Append(toCtrl, g))
      BY <2>3, <2>4, <2>6, <3>1, <3>2, <3>3, ShakenOnRead
    <3>5. Counted(host, k)
      BY <2>4, <3>4 DEF Counted
    <3> QED  BY <3>1, <3>3, <3>4, <3>5
  <2> QED  BY <1>10, <2>5, <2>6
<1> QED  BY <1>11, <1>12

(* RST is handed over while none is under way. *)
Resets(s, k) ==
    /\ Only(s, k, {"status", "armed", "dfc", "tx"}) /\ k.status = "SEND_RESET_PENDING"
    /\ k.dfc = Append(s.dfc, [fn |-> "ConnectWritten"])
    /\ k.tx # NoTx /\ k.tx.new /\ k.tx.cb = "ConnectWritten" /\ k.tx.f = RST(s.window)

LEMMA SendsRST ==
    ASSUME NEW s, DOMAIN s = Fields, s.status = "INIT", s.tx = NoTx,
           NEW k, k = ConnectSendFrame(s, "RST")
    PROVE  Resets(s, k)
<1>1. PICK a : a = TimerSet([s EXCEPT !.status = "SEND_RESET_PENDING"], "T3")
  OBVIOUS
<1>2. k = FrameWrite(a, RST(s.window), "ConnectWritten")
  BY <1>1 DEF ConnectSendFrame
<1>3. /\ Only(s, a, {"status", "armed"}) /\ a.status = "SEND_RESET_PENDING"
      /\ a.dfc = s.dfc /\ a.tx = s.tx
  BY <1>1 DEF TimerSet, Only, Fields
<1>4. PICK t : t = [t |-> "TX", f |-> RST(s.window), cb |-> "ConnectWritten", bad |-> a.tx # NoTx, new |-> TRUE]
  OBVIOUS
<1>5. k = [a EXCEPT !.dfc = Append(s.dfc, [fn |-> "ConnectWritten"]), !.tx = t]
  BY <1>2, <1>3, <1>4 DEF FrameWrite, Post, Only, Fields
<1>6. t # NoTx /\ t.new /\ t.cb = "ConnectWritten" /\ t.f = RST(s.window)
  BY <1>4 DEF NoTx
<1>7. /\ Only(s, k, {"status", "armed", "dfc", "tx"}) /\ k.status = "SEND_RESET_PENDING"
      /\ k.tx = t /\ k.dfc = Append(s.dfc, [fn |-> "ConnectWritten"])
  BY <1>3, <1>5 DEF Only, Fields
<1> QED  BY <1>6, <1>7 DEF Resets

(* The port then takes it, or not. *)
LEMMA ResetSettles ==
    ASSUME NEW s, NEW c, NEW q, NEW h, Shaken(s, c, q, h), Line(q), NEW mode \in Modes,
           Based(s, mode), \A f \in Out(s, q) : f.t # "RST", \A g \in In(s, h) : g.t # "UA",
           {"T3", "ConnectWritten"} \intersect Fns(s.dfc) = {}, NEW k, Resets(s, k),
           NEW l, NEW r, Port(k, l, q, r, mode),
           \/ l = NotTaken(k)
           \/ l = Taken(k)
    PROVE  Shaken(l, c, r, h) /\ Counted(s, l) /\ Line(r)
<1>1. PICK S, e : S = DfcCalls(mode) /\ e = [fn |-> "ConnectWritten"]
  OBVIOUS
<1>2. s.dfc \in Seq(S) /\ e \in S /\ e.fn = "ConnectWritten" /\ k.dfc = Append(s.dfc, e)
  BY <1>1 DEF Based, DfcCalls, PlainCalls, Resets
<1>3. Fns(k.dfc) = Fns(s.dfc) \union {"ConnectWritten"} /\ k.dfc \in Seq(S)
  BY <1>2, AppendCalls
<1>4. Once(k.dfc, "T3") /\ Once(k.dfc, "ConnectWritten")
  <2>1. Once(s.dfc, "T3") /\ Once(s.dfc, "ConnectWritten")
    BY DEF Shaken, Calling
  <2> QED  BY <1>2, <2>1, OnceAppend
<1>5. /\ Counted(s, k) /\ k.ctrl = s.ctrl /\ DOMAIN k = Fields
      /\ k.status = "SEND_RESET_PENDING"
  BY DEF Resets, Only, Fields, Counted
<1>6. /\ Only(k, l, {"dfc", "tx"}) /\ Older(k.dfc, l.dfc)
  BY KinAlike DEF Port
<1>7. /\ Counted(s, l) /\ l.ctrl = s.ctrl /\ l.status = "SEND_RESET_PENDING"
  BY <1>5, <1>6 DEF Only, Fields, Counted
<1>8. "T3" \notin Fns(l.dfc) /\ Calling(l)
  <2>1. CASE l = NotTaken(k)
    <3>1. PICK b : b = Flush(k, {"ConnectWritten"})
      OBVIOUS
    <3>2. Only(k, b, {"dfc"}) /\ Fns(b.dfc) = Fns(k.dfc) \ {"ConnectWritten"}
      BY <1>1, <1>3, <1>5, <3>1, FlushEffect
    <3>3. l = [b EXCEPT !.tx.new = FALSE]
      BY <2>1, <3>1 DEF NotTaken, Resets
    <3>4. l.dfc = b.dfc /\ l.tx = [k.tx EXCEPT !.new = FALSE]
      BY <3>2, <3>3 DEF Only, Fields
    <3>5. l.tx.cb = "ConnectWritten"
      BY <3>4 DEF Resets
    <3>6. "T3" \notin Fns(l.dfc) /\ "ConnectWritten" \notin Fns(l.dfc)
      BY <1>3, <3>2, <3>4
    <3>7. Once(l.dfc, "T3") /\ Once(l.dfc, "ConnectWritten")
      BY <3>6, OnceNone
    <3> QED  BY <1>7, <3>5, <3>6, <3>7 DEF Calling
  <2>2. CASE l = Taken(k)
    <3>1. l.tx = NoTx /\ l.dfc = k.dfc
      BY <1>5, <2>2 DEF Taken, Fields
    <3>2. "T3" \notin Fns(l.dfc)
      BY <1>3, <3>1
    <3> QED  BY <1>4, <1>7, <3>1, <3>2 DEF Calling
  <2> QED  BY <2>1, <2>2
<1>9. PICK F, P, G, Q : F = Out(l, r) /\ P = OutPairs(l, r) /\ G = In(l, h) /\ Q = InPairs(l, h)
  OBVIOUS
<1>10. Line(r) /\ Fewer(F, P, Out(k, q), OutPairs(k, q))
  BY <1>9, PortLine
<1>11. /\ Out(k, q) = Range(q) \union {k.tx.f}
       /\ OutPairs(k, q) = Pairs(q) \union (Range(q) \X {k.tx.f})
  BY DEF Out, OutPairs, InTx, Resets
<1>12. /\ Range(q) \subseteq Out(s, q)
       /\ \A x \in Pairs(q) : x[1] \in Range(q) /\ x[2] \in Range(q)
  BY DEF Out, Pairs
<1>13. /\ \A f \in Range(q) : f.t = "BAD"
       /\ k.tx.f.t = "RST"
  BY <1>12 DEF Shaken, Shaking, Resets, RST
<1>14. \A f \in F : f.t \in {"RST", "BAD"}
  BY <1>10, <1>11, <1>13 DEF Fewer, BAD
<1>15. \A x \in P : ~(x[1].t = "RST" /\ x[2].t = "RST")
  <2>1. ASSUME NEW x \in OutPairs(k, q) PROVE ~(x[1].t = "RST" /\ x[2].t = "RST")
    <3>1. x[1] \in Range(q)
      BY <1>11, <1>12
    <3> QED  BY <1>13, <3>1
  <2> QED  BY <1>10, <2>1 DEF Fewer, BAD
<1>16. Fewer(G, Q, In(s, h), InPairs(s, h))
  <2>1. Older(s.dfc, k.dfc)
    <3>1. Range(k.dfc) = Range(s.dfc) \union {e}
      BY <1>2, AppendInOrder
    <3> QED  BY <1>2, <3>1 DEF Older
  <2>2. Older(s.dfc, l.dfc)
    BY <1>6, <2>1 DEF Older
  <2> QED  BY <1>9, <2>2, InKept
<1>17. /\ \A g \in G : g.t # "UA"
       /\ \A x \in Q : x[1].t # "UA"
  <2>1. \A g \in G : g.t # "UA"
    BY <1>16 DEF Fewer, BAD
  <2>2. \A x \in Q : x[1] \in G
    BY <1>9 DEF InPairs, In, Pairs
  <2> QED  BY <2>1, <2>2
<1>18. ~Asking(l)
  BY <1>7, <1>8 DEF Asking
<1>19. Shaking(l, c, F, P, G, Q)
  BY <1>7, <1>14, <1>15, <1>17, <1>18 DEF Shaking, Shaken, Counted
<1>20. Ends(l, c, F, P)
  <2>1. Abreast(l, c) /\ Same(l, c) /\ l.connNext = "NONE" /\ l.ctrl # "UA"
    BY <1>7 DEF Shaken, Ends, Abreast, Same, Counted, Waits
  <2>2. Steady("ns", F, P, Expects(c) - 1, l.nextToSend) /\ Steady("nr", F, P, Owed(c), l.readNext + 1)
    <3>1. \A f \in F : ~Has("ns", f) /\ ~Has("nr", f)
      BY <1>14 DEF Has
    <3>2. \A x \in P : x[1] \in F
      BY <1>9 DEF OutPairs, Out, Pairs
    <3> QED  BY <3>1, <3>2 DEF Steady
  <2>3. Outgoing(l, c, F, P)
    BY <1>14, <2>2 DEF Outgoing
  <2> QED  BY <1>7, <2>1, <2>3 DEF Ends
<1> QED  BY <1>7, <1>8, <1>9, <1>10, <1>19, <1>20 DEF Shaken

(* The frame layer has started again, and RST is sent. *)
LEMMA RestartShaken ==
    ASSUME NEW mode \in Modes, NEW s, NEW c, NEW h, Shaken(s, c, toCtrl, h), Line(toCtrl),
           Asking(s), NEW b, Counted(s, b), b.ctrl = s.ctrl, b.status = "INIT", b.tx = NoTx,
           Based(b, mode), {"T3", "ConnectWritten", "FrameRead"} \intersect Fns(b.dfc) = {},
           NEW k, k = ConnectSendFrame(b, "RST"), Settled(k, mode), Settle(k)
    PROVE  Shaken(host', c, toCtrl', h) /\ Counted(s, host') /\ Line(toCtrl')
<1>1. Calling(b)
  BY OnceNone DEF Calling
<1>2. InRead(b) = {} /\ InTx(b) = {}
  BY DEF InRead, InTx, Fns
<1>3. /\ Out(b, toCtrl) \subseteq Out(s, toCtrl)
      /\ Fewer(Out(b, toCtrl), OutPairs(b, toCtrl), Out(s, toCtrl), OutPairs(s, toCtrl))
  BY <1>2, OutKept DEF Out
<1>4. /\ In(b, h) \subseteq In(s, h)
      /\ Fewer(In(b, h), InPairs(b, h), In(s, h), InPairs(s, h))
  BY <1>2 DEF In, InPairs, Fewer
<1>5. ~Asking(b)
  BY DEF Asking
<1>6. Shaken(b, c, toCtrl, h)
  <2>1. b.ctrl # "UA" /\ b.status \notin {"UA_SENT", "SEND_UA_PENDING"}
    BY DEF Shaken, Ends
  <2> QED  BY <1>1, <1>3, <1>4, <1>5, <2>1, ShakenFewer
<1>7. /\ \A f \in Out(b, toCtrl) : f.t # "RST"
      /\ \A g \in In(b, h) : g.t # "UA"
  BY <1>3, <1>4 DEF Shaken, Shaking
<1>8. Resets(b, k)
  BY SendsRST DEF Based
<1>9. PICK l, r : l = host' /\ r = toCtrl'
  OBVIOUS
<1>10. Port(k, l, toCtrl, r, mode)
  BY <1>9, SettlePort
<1>11. l = NotTaken(k) \/ l = Taken(k)
  BY <1>9 DEF Settle
<1>12. Shaken(l, c, r, h) /\ Counted(b, l) /\ Line(r)
  BY <1>6, <1>7, <1>8, <1>10, <1>11, ResetSettles
<1> QED  BY <1>9, <1>12 DEF Counted

(* T3 has expired. *)
LEMMA ShakenResetTimer ==
    ASSUME NEW mode \in Modes, Settled(host, mode), Old(host),
           NEW c, NEW h, Shaken(host, c, toCtrl, h), Line(toCtrl), ResetTimer
    PROVE  Shaken(host', c, toCtrl', h) /\ Counted(host, host') /\ Line(toCtrl')
<1>1. PICK p, e, k : /\ p = Pumped /\ e = Head(host.dfc) /\ k = ConnectTimerCompleted(p)
  OBVIOUS
<1>2. AtHead("T3") /\ Settle(k)
  BY <1>1 DEF ResetTimer, Runs
<1>3. Based(host, mode) /\ host.dfc # <<>>
  BY <1>2, SettledNarrow DEF Settled, AtHead
<1>4. Popped(host, p, e, mode) /\ e.fn = "T3" /\ p.dfc = Tail(host.dfc)
  BY <1>1, <1>2, <1>3, PumpedPopped DEF Pumped, Based, Fields
<1>5. Counted(host, p) /\ "T3" \notin Fns(p.dfc)
  BY <1>1, <1>3, <1>4, PopShaken
<1>6. Asking(host)
  BY <1>4 DEF Asking, Popped
<1>7. Settled(p, mode) /\ p.status = host.status /\ p.ctrl = host.ctrl /\ DOMAIN p = Fields
  <2>1. Ran(host, p, "T3", mode)
    BY <1>1, <1>2, PumpedRan
  <2>2. Settled(p, mode)
    BY <2>1, RanSettled
  <2> QED  BY <1>4, <2>2 DEF Popped, Only, Fields
<1>8. Idle(p, mode) /\ "ConnectDone" \notin Fns(p.dfc)
  BY <1>7, IdleBefore DEF Settled, Shaken
<1>9. Settled(k, mode)
  BY <1>1, <1>8, ConnectTimerSettled
<1>10. PICK a, b : a = FramePreReset(p) /\ b = [FrameRead(a) EXCEPT !.status = "INIT"]
  OBVIOUS
<1>11. k = ConnectSendFrame(b, "RST")
  BY <1>1, <1>10 DEF ConnectTimerCompleted
<1>12. /\ Only(p, a, {"dfc", "tx", "reading"}) /\ a.dfc \in Seq(DfcCalls(mode))
       /\ Fns(a.dfc) = Fns(p.dfc) \ FrameCalls /\ a.tx = NoTx
  BY <1>4, <1>7, <1>10, FramePreResetEffect DEF Popped, Based
<1>13. /\ Only(p, b, {"dfc", "tx", "reading", "status"}) /\ b.dfc = a.dfc /\ b.tx = NoTx
       /\ b.status = "INIT"
  BY <1>10, <1>12 DEF FrameRead, Only, Fields
<1>14. Counted(host, b) /\ b.ctrl = host.ctrl
  BY <1>5, <1>7, <1>13 DEF Counted, Only, Fields
<1>15. Based(b, mode) /\ {"T3", "ConnectWritten", "FrameRead"} \intersect Fns(b.dfc) = {}
  BY <1>5, <1>12, <1>13 DEF Based, Only, FrameCalls
<1> QED  BY <1>2, <1>6, <1>9, <1>11, <1>13, <1>14, <1>15, RestartShaken

(* The HAL connects. *)
LEMMA ShakenConnect ==
    ASSUME NEW mode \in Modes, Settled(host, mode), NEW calm, Queue(host, hci, calm),
           NEW c, NEW h, Shaken(host, c, toCtrl, h), Line(toCtrl), Connect
    PROVE  Shaken(host', c, toCtrl', h) /\ Counted(host, host') /\ Line(toCtrl')
<1>1. PICK b, k : /\ b = FrameRead([host EXCEPT !.status = "INIT", !.connCb = TRUE])
                  /\ k = ConnectSendFrame(b, "RST")
  OBVIOUS
<1>2. k = PSHDLCConnect(host) /\ Settle(k) /\ host.status = "RESET_PENDING"
  BY <1>1 DEF PSHDLCConnect, Connect
<1>3. Based(host, mode)
  BY SettledNarrow DEF Settled
<1>4. /\ Only(host, b, {"status", "connCb", "reading"}) /\ b.status = "INIT"
  BY <1>1, <1>3 DEF FrameRead, Based, Only, Fields
<1>5. /\ Counted(host, b) /\ b.ctrl = host.ctrl /\ b.tx = host.tx /\ b.dfc = host.dfc
      /\ Based(b, mode)
  BY <1>3, <1>4 DEF Only, Fields, Counted, Based
<1>6. host.tx = NoTx /\ Fns(host.dfc) \subseteq {"T6"}
  BY <1>2 DEF Queue, Starts
<1>7. Asking(host)
  BY <1>2 DEF Asking
<1>8. Settled(k, mode)
  BY <1>2, IdleBefore, ConnectSettled DEF Settled
<1> QED  BY <1>1, <1>2, <1>4, <1>5, <1>6, <1>7, <1>8, RestartShaken

(* RST has gone out. *)
LEMMA WrittenStatus ==
    ASSUME NEW s, NEW c, NEW q, NEW h, Shaken(s, c, q, h), DOMAIN s = Fields,
           s.tx # NoTx \/ s.status = "SEND_RESET_PENDING",
           NEW a, Only(s, a, {"tx"}), a.tx = NoTx, NEW k, k = ConnectWriteFrameCompleted(a)
    PROVE  Only(s, k, {"tx", "status"}) /\ k.tx = NoTx /\ k.status = "RESET_SENT"
<1>1. s.status = "SEND_RESET_PENDING" /\ s.connNext = "NONE"
  BY DEF Shaken, Calling, Ends
<1>2. DOMAIN a = Fields /\ a.status = s.status /\ a.connNext = s.connNext
  BY DEF Only, Fields
<1>3. PICK b : b = [a EXCEPT !.status = "RESET_SENT"]
  OBVIOUS
<1>4. k = b
  <2>1. a.status = "SEND_RESET_PENDING" /\ a.connNext = "NONE" /\ b.status = "RESET_SENT"
    BY <1>1, <1>2, <1>3 DEF Fields
  <2> QED  BY <1>3, <2>1 DEF ConnectWriteFrameCompleted
<1> QED  BY <1>2, <1>3, <1>4 DEF Only, Fields

LEMMA ShakenWritten ==
    ASSUME NEW s, NEW c, NEW q, NEW h, Shaken(s, c, q, h), DOMAIN s = Fields,
           s.tx # NoTx \/ s.status = "SEND_RESET_PENDING",
           "ConnectWritten" \notin Fns(s.dfc), NEW a, Only(s, a, {"tx"}), a.tx = NoTx,
           NEW k, k = ConnectWriteFrameCompleted(a),
           NEW r, Fewer(Out(k, r), OutPairs(k, r), Out(s, q), OutPairs(s, q))
    PROVE  Shaken(k, c, r, h) /\ Counted(s, k)
<1>1. Only(s, k, {"tx", "status"}) /\ k.tx = NoTx /\ k.status = "RESET_SENT"
  BY WrittenStatus
<1>2. /\ Counted(s, k) /\ k.dfc = s.dfc /\ k.armed = s.armed /\ k.ctrl = s.ctrl
  BY <1>1 DEF Only, Fields, Counted
<1>3. Asking(k) => Asking(s)
  BY <1>1, <1>2 DEF Asking
<1>4. Calling(k)
  BY <1>1, <1>2 DEF Shaken, Calling
<1>5. Fewer(In(k, h), InPairs(k, h), In(s, h), InPairs(s, h))
  BY <1>2, InKept DEF Older
<1>6. k.ctrl # "UA" /\ k.status \notin {"UA_SENT", "SEND_UA_PENDING"}
  BY <1>1, <1>2 DEF Shaken, Ends
<1>7. Shaken(k, c, r, h)
  BY <1>2, <1>3, <1>4, <1>5, <1>6, ShakenFewer
<1> QED  BY <1>2, <1>7

(* Every call that PNALDFCPump may run before the session. *)
LEMMA ShakenCalls ==
    ASSUME NEW mode \in Modes, Settled(host, mode), Old(host), NEW calm, Queue(host, hci, calm),
           ~hci.connected, Calls,
           \A e \in Range(host.dfc) : e.fn = "FrameRead" => NoRST(e.f),
           NEW c, NEW h, Shaken(host, c, toCtrl, h), Line(toCtrl)
    PROVE  /\ Line(toCtrl') /\ Counted(host, host')
           /\ LiveOn(host', c, toCtrl', h) \/ Shaken(host', c, toCtrl', h)
<1>1. PICK p, e : p = Pumped /\ e = Head(host.dfc)
  OBVIOUS
<1>2. Based(host, mode) /\ Narrow(host)
  BY SettledNarrow DEF Settled
<1>3. ASSUME NEW fn, AtHead(fn)
      PROVE  /\ Popped(host, p, e, mode) /\ e.fn = fn /\ fn \in Fns(host.dfc)
             /\ Shaken(p, c, toCtrl, h) /\ Counted(host, p)
             /\ fn \in {"T3", "ConnectWritten"} => fn \notin Fns(p.dfc)
  <2>1. Popped(host, p, e, mode) /\ e.fn = fn /\ host.dfc # <<>>
    BY <1>1, <1>2, <1>3, PumpedPopped DEF AtHead
  <2>2. p.dfc = Tail(host.dfc)
    BY <1>1, <1>2 DEF Pumped, Based, Fields
  <2> QED  BY <1>1, <1>2, <2>1, <2>2, PopShaken DEF Popped
<1>4. host.status # "UA_SENT" /\ Quiet(host)
  BY DEF Shaken, Settled, Sound, Phases
<1>5. /\ ~AtHead("StreamData") /\ ~AtHead("Acknowledged") /\ ~AtHead("BufferFree")
      /\ ~AtHead("DataReady") /\ ~AtHead("ConnectDone")
  <2>1. "ConnectDone" \notin Fns(host.dfc)
    BY <1>4 DEF Settled, Sound, Phases
  <2>2. Fns(host.dfc) \intersect {"DataReady", "StreamData", "Acknowledged", "BufferFree"} = {}
    BY <1>4 DEF Queue, Starts
  <2> QED  BY <1>3, <2>1, <2>2
<1>6. ASSUME NEW fn, AtHead(fn)
      PROVE  /\ DOMAIN p = Fields /\ p.ctrl = "NONE" /\ p.nextWindow = p.nextToSend
             /\ p.nextToSend = p.lastAck + 1 /\ p.tx = host.tx /\ p.status = host.status
  <2>1. Popped(host, p, e, mode)
    BY <1>3, <1>6
  <2> QED  BY <1>4, <2>1 DEF Popped, Only, Fields, Quiet
<1>7. ASSUME NEW s, Only(p, s, {"pending", "rrSent"}), NEW fn, AtHead(fn), Settle(s)
      PROVE  /\ Line(toCtrl') /\ Counted(host, host') /\ Shaken(host', c, toCtrl', h)
  <2>1. /\ s.dfc = p.dfc /\ s.armed = p.armed /\ s.tx = host.tx
        /\ Only(p, s, {"pending", "rrSent", "reading", "connCb", "dfc", "armed"})
    BY <1>6, <1>7 DEF Only, Fields
  <2>2. Shaken(p, c, toCtrl, h) /\ Counted(host, p)
    BY <1>3, <1>7
  <2>3. Shaken(s, c, toCtrl, h) /\ Counted(p, s)
    BY <2>1, <2>2, StillShaken DEF Shaken, Calling, Older
  <2>4. host' = s /\ toCtrl' = toCtrl
    BY <1>7, <2>1, OldSettles DEF Old
  <2> QED  BY <2>2, <2>3, <2>4 DEF Counted
<1>8. CASE FrameReadDone
  BY <1>8, ShakenFrameRead
<1>9. CASE ConnectWritten
  <2>1. PICK k : k = ConnectWriteFrameCompleted(p)
    OBVIOUS
  <2>2. AtHead("ConnectWritten") /\ Settle(k)
    BY <1>1, <1>9, <2>1 DEF ConnectWritten, Runs
  <2>3. /\ Shaken(p, c, toCtrl, h) /\ Counted(host, p) /\ "ConnectWritten" \in Fns(host.dfc)
        /\ "ConnectWritten" \notin Fns(p.dfc)
    BY <1>3, <2>2
  <2>4. host.status = "SEND_RESET_PENDING" /\ host.tx = NoTx
    BY <2>3 DEF Shaken, Calling, Old
  <2>5. p.tx = NoTx /\ p.status = "SEND_RESET_PENDING" /\ DOMAIN p = Fields
    BY <1>6, <2>2, <2>4
  <2>6. Only(p, p, {"tx"})
    BY <2>5 DEF Only
  <2>7. k.tx = NoTx
    BY <2>1, <2>3, <2>5, <2>6, WrittenStatus
  <2>8. Fewer(Out(k, toCtrl), OutPairs(k, toCtrl), Out(p, toCtrl), OutPairs(p, toCtrl))
    BY <2>7, OutKept DEF InTx
  <2>9. Shaken(k, c, toCtrl, h) /\ Counted(p, k)
    BY <2>1, <2>3, <2>5, <2>6, <2>8, ShakenWritten
  <2>10. host' = k /\ toCtrl' = toCtrl
    BY <2>2, <2>7, OldSettles DEF Old
  <2> QED  BY <2>3, <2>9, <2>10 DEF Counted
<1>10. CASE FrameWritten
  <2>1. PICK a, s : a = [p EXCEPT !.pending = FALSE] /\ s = WriteTransmit(a, FALSE)
    OBVIOUS
  <2>2. AtHead("FrameWritten") /\ Settle(s)
    BY <1>1, <1>10, <2>1 DEF FrameWritten, Runs, WriteFrameCompleted
  <2>3. Only(p, a, {"pending", "rrSent"}) /\ a.ctrl = "NONE" /\ a.nextWindow = a.nextToSend
    BY <1>6, <2>1, <2>2 DEF Only, Fields
  <2>4. s = a
    BY <2>1, <2>3, QuietTransmit
  <2> QED  BY <1>7, <2>2, <2>3, <2>4
<1>11. CASE ResendTimer
  <2>1. AtHead("T2") /\ Settle(WriteTimerCompleted(p))
    BY <1>1, <1>11 DEF ResendTimer, Runs
  <2>2. p.nextWindow = p.lastAck + 1 /\ p.lastAck \in Nat /\ DOMAIN p = Fields
    <3>1. Popped(host, p, e, mode)
      BY <1>3, <2>1
    <3> QED  BY <1>2, <1>6, <2>1, <3>1 DEF Popped, Only, Fields, Narrow
  <2>3. WriteTimerCompleted(p) = p
    <3>1. ~(p.nextWindow > p.lastAck + 1)
      BY <2>2
    <3> QED  BY <3>1 DEF WriteTimerCompleted
  <2>4. Only(p, p, {"pending", "rrSent"})
    BY <2>2 DEF Only
  <2> QED  BY <1>7, <2>1, <2>3, <2>4
<1>12. CASE ResetTimer
  BY <1>12, ShakenResetTimer
<1>13. CASE PiggyBackTimer
  <2>1. PICK s : s = WriteTransmit(p, TRUE)
    OBVIOUS
  <2>2. AtHead("T4") /\ Settle(s)
    BY <1>1, <1>13, <2>1 DEF PiggyBackTimer, Runs
  <2>3. s = p /\ DOMAIN p = Fields
    BY <1>6, <2>1, <2>2, QuietTransmit
  <2>4. Only(p, s, {"pending", "rrSent"})
    BY <2>3 DEF Only
  <2> QED  BY <1>7, <2>2, <2>4
<1>14. CASE RRTimer
  <2>1. PICK a, s : a = [p EXCEPT !.rrSent = FALSE] /\ s = WriteTransmit(a, TRUE)
    OBVIOUS
  <2>2. AtHead("T6") /\ Settle(s)
    BY <1>1, <1>14, <2>1 DEF RRTimer, Runs, RRFrameAlreadySentTimer
  <2>3. Only(p, a, {"pending", "rrSent"}) /\ a.ctrl = "NONE" /\ a.nextWindow = a.nextToSend
    BY <1>6, <2>1, <2>2 DEF Only, Fields
  <2>4. s = a
    BY <2>1, <2>3, QuietTransmit
  <2> QED  BY <1>7, <2>2, <2>3, <2>4
<1>15. CASE ResetIndication
  <2>1. AtHead("ResetIndication") /\ Settle(p)
    BY <1>1, <1>15 DEF ResetIndication, Runs
  <2>2. Only(p, p, {"pending", "rrSent"})
    BY <1>6, <2>1 DEF Only
  <2> QED  BY <1>7, <2>1, <2>2
<1>16. ~(StreamData \/ ConnectDone \/ Acknowledged \/ BufferFree \/ DataIsReady)
  BY <1>5 DEF StreamData, ConnectDone, Acknowledged, BufferFree, DataIsReady, Runs, RunsHci
<1> QED  BY <1>8, <1>9, <1>10, <1>11, <1>12, <1>13, <1>14, <1>15, <1>16 DEF Calls

(* The rest of RST goes out. *)
LEMMA ShakenPollWrite ==
    ASSUME NEW mode \in Modes, Settled(host, mode), Old(host), PollWrite,
           NEW c, NEW h, Shaken(host, c, toCtrl, h), Line(toCtrl)
    PROVE  Line(toCtrl') /\ Counted(host, host') /\ Shaken(host', c, toCtrl', h)
<1>1. host.tx # NoTx /\ host.tx.cb = "ConnectWritten" /\ "ConnectWritten" \notin Fns(host.dfc)
  BY DEF PollWrite, Shaken, Calling, Old
<1>2. PICK a, k : a = Taken(host) /\ k = ConnectWriteFrameCompleted(a)
  OBVIOUS
<1>3. DOMAIN host = Fields
  BY SettledNarrow DEF Settled, Based
<1>4. Only(host, a, {"tx"}) /\ a.tx = NoTx
  BY <1>2, <1>3 DEF Taken, Only, Fields
<1>5. k.tx = NoTx
  BY <1>1, <1>2, <1>3, <1>4, WrittenStatus
<1>6. PICK f \in OnTheWire(host.tx) : host' = NotTaken(k) /\ toCtrl' = Append(toCtrl, f)
  BY <1>1, <1>2, <1>5 DEF PollWrite
<1>7. host' = k
  BY <1>5, <1>6 DEF NotTaken
<1>8. PICK S, r : S = Range(toCtrl) /\ r = Append(toCtrl, f)
  OBVIOUS
<1>9. toCtrl \in Seq(S)
  BY <1>8 DEF Line
<1>10. Line(r)
  <2>1. r \in Seq(S \union {f}) /\ Range(r) = S \union {f}
    BY <1>8, <1>9, AppendPairs
  <2> QED  BY <2>1 DEF Line
<1>11. Fewer(Out(k, r), OutPairs(k, r), Out(host, toCtrl), OutPairs(host, toCtrl))
  BY <1>1, <1>5, <1>8, <1>9, OutTaken
<1>12. Shaken(k, c, r, h) /\ Counted(host, k)
  BY <1>1, <1>2, <1>3, <1>4, <1>11, ShakenWritten
<1> QED  BY <1>6, <1>7, <1>8, <1>10, <1>12

(* A call that is not one of the handshake's is posted. *)
LEMMA ShakenPost ==
    ASSUME NEW s, NEW c, NEW q, NEW h, Shaken(s, c, q, h), NEW mode, Based(s, mode),
           NEW k, Only(s, k, {"armed", "dfc", "reading"}), k.armed \subseteq s.armed,
           NEW e \in DfcCalls(mode), k.dfc = Append(s.dfc, e), e.fn # "ConnectWritten",
           e.fn = "T3" => /\ "T3" \in s.armed /\ "T3" \notin k.armed
                          /\ \A f \in Out(s, q) : f.t # "RST"
                          /\ \A g \in In(s, h) : g.t # "UA",
           NEW i, Fewer(In(k, i), InPairs(k, i), In(s, h), InPairs(s, h))
    PROVE  Shaken(k, c, q, i) /\ Counted(s, k)
<1>1. /\ Counted(s, k) /\ k.status = s.status /\ k.tx = s.tx /\ k.ctrl = s.ctrl
  BY DEF Only, Fields, Counted
<1>2. PICK S : S = DfcCalls(mode)
  OBVIOUS
<1>3. s.dfc \in Seq(S) /\ e \in S
  BY <1>2 DEF Based
<1>4. Fns(k.dfc) = Fns(s.dfc) \union {e.fn}
  BY <1>3, AppendCalls
<1>5. "T3" \in s.armed => "T3" \notin Fns(s.dfc)
  BY DEF Shaken, Calling
<1>6. Once(k.dfc, "T3") /\ Once(k.dfc, "ConnectWritten")
  <2>1. Once(s.dfc, "T3") /\ Once(s.dfc, "ConnectWritten")
    BY DEF Shaken, Calling
  <2> QED  BY <1>3, <1>5, <2>1, OnceAppend
<1>7. Calling(k)
  BY <1>1, <1>4, <1>5, <1>6 DEF Shaken, Calling
<1>8. k.ctrl # "UA" /\ k.status \notin {"UA_SENT", "SEND_UA_PENDING"}
  BY <1>1 DEF Shaken, Ends
<1>9. Fewer(Out(k, q), OutPairs(k, q), Out(s, q), OutPairs(s, q))
  BY <1>1, OutKept DEF InTx
<1>10. CASE e.fn # "T3"
  <2>1. Asking(k) => Asking(s)
    BY <1>1, <1>4, <1>10 DEF Asking
  <2> QED  BY <1>1, <1>7, <1>8, <1>9, <2>1, ShakenFewer
<1>11. CASE e.fn = "T3"
  <2>1. PICK F, P, G, Q : F = Out(k, q) /\ P = OutPairs(k, q) /\ G = In(k, i) /\ Q = InPairs(k, i)
    OBVIOUS
  <2>2. F = Out(s, q) /\ P = OutPairs(s, q)
    BY <1>1, <2>1 DEF Out, OutPairs, InTx
  <2>3. \A g \in G : g.t # "UA"
    BY <1>11, <2>1 DEF Fewer, BAD
  <2>4. \A x \in Q : x[1].t = "UA" => First(x[2], c)
    BY <2>1 DEF Shaken, Shaking, Fewer, BAD, First, Has
  <2>5. Shaking(k, c, F, P, G, Q)
    BY <1>1, <1>11, <2>2, <2>3, <2>4 DEF Shaken, Shaking, Counted
  <2>6. Ends(k, c, F, P)
    BY <1>1, <1>8, <1>9, <2>1, EndsCounted DEF Shaken
  <2> QED  BY <1>1, <1>7, <1>8, <2>1, <2>5, <2>6 DEF Shaken
<1> QED  BY <1>10, <1>11

(* A frame is read. *)
LEMMA ShakenPollRead ==
    ASSUME NEW mode \in Modes, Settled(host, mode), NEW calm, Queue(host, hci, calm), PollRead,
           toHost \in Seq(Frames(mode)),
           NEW c, NEW q, Shaken(host, c, q, toHost), Line(toHost)
    PROVE  Shaken(host', c, q, toHost') /\ Counted(host, host')
<1>1. PICK k, h : k = host' /\ h = toHost
  OBVIOUS
<1>2. PICK e : e = [fn |-> "FrameRead", f |-> Head(h)]
  OBVIOUS
<1>3. /\ host.reading /\ h # <<>> /\ toHost' = Tail(h)
      /\ k = [host EXCEPT !.dfc = Append(@, e), !.reading = FALSE]
  BY <1>1, <1>2 DEF PollRead
<1>4. Based(host, mode) /\ "FrameRead" \notin Fns(host.dfc) /\ DOMAIN host = Fields
  BY <1>3 DEF Settled, Sound, Instance, Based, Queue, Reads
<1>5. Only(host, k, {"dfc", "reading"}) /\ k.dfc = Append(host.dfc, e)
  BY <1>3, <1>4 DEF Only, Fields
<1>6. Fewer(In(k, Tail(h)), InPairs(k, Tail(h)), In(host, h), InPairs(host, h))
  BY <1>1, <1>2, <1>3, <1>4, <1>5, ReadFewer
<1>7. e \in DfcCalls(mode) /\ e.fn = "FrameRead"
  <2>1. PICK S : S = Frames(mode)
    OBVIOUS
  <2>2. Head(h) \in S
    BY <1>1, <1>3, <2>1
  <2> QED  BY <1>2, <2>1, <2>2 DEF DfcCalls
<1>8. Only(host, k, {"armed", "dfc", "reading"}) /\ k.armed = host.armed
  BY <1>5 DEF Only, Fields
<1>9. Shaken(k, c, q, Tail(h)) /\ Counted(host, k)
  BY <1>1, <1>4, <1>5, <1>6, <1>7, <1>8, ShakenPost
<1> QED  BY <1>1, <1>3, <1>9

(* A timer expires; T3 does not as long as RST, or the answer to it, is    *)
(* under way.                                                              *)
LEMMA ShakenExpires ==
    ASSUME "T3" \notin Early, NEW mode \in Modes, Settled(host, mode),
           NEW t \in Timers, TimerExpires(t), NEW c, Shaken(host, c, toCtrl, toHost)
    PROVE  Shaken(host', c, toCtrl, toHost) /\ Counted(host, host')
<1>1. PICK k, e : k = host' /\ e = [fn |-> t]
  OBVIOUS
<1>2. Based(host, mode) /\ DOMAIN host = Fields
  BY SettledNarrow DEF Settled, Based
<1>3. k = [host EXCEPT !.armed = @ \ {t}, !.dfc = Append(host.dfc, e)]
  BY <1>1, <1>2 DEF TimerExpires, Post, Fields
<1>4. /\ Only(host, k, {"armed", "dfc", "reading"}) /\ k.armed = host.armed \ {t}
      /\ k.dfc = Append(host.dfc, e) /\ t \in host.armed
  BY <1>2, <1>3 DEF Only, Fields, TimerExpires
<1>5. e \in DfcCalls(mode) /\ e.fn = t /\ t # "ConnectWritten" /\ t # "FrameRead"
  BY <1>1 DEF DfcCalls, PlainCalls, Timers
<1>6. Older(host.dfc, k.dfc)
  <2>1. PICK S : S = DfcCalls(mode)
    OBVIOUS
  <2>2. Range(k.dfc) = Range(host.dfc) \union {e}
    BY <1>2, <1>4, <1>5, <2>1, AppendInOrder DEF Based
  <2> QED  BY <1>5, <2>2 DEF Older
<1>7. Fewer(In(k, toHost), InPairs(k, toHost), In(host, toHost), InPairs(host, toHost))
  BY <1>6, InKept
<1>8. t = "T3" => /\ \A f \in Out(host, toCtrl) : f.t # "RST"
                  /\ \A g \in In(host, toHost) : g.t # "UA"
  <2> SUFFICES ASSUME t = "T3"
               PROVE  /\ \A f \in Out(host, toCtrl) : f.t # "RST"
                      /\ \A g \in In(host, toHost) : g.t # "UA"
    OBVIOUS
  <2>1. ~UnderWay({"RST"}, {"UA"})
    BY DEF TimerExpires, InTime
  <2>2. InTx(host) = {} /\ (\A f \in Range(toCtrl) : f.t # "RST") /\ \A g \in Range(toHost) : g.t # "UA"
    BY <2>1 DEF UnderWay, InTx, Range
  <2>3. \A g \in InRead(host) : g.t # "UA"
    BY <2>1 DEF UnderWay, InRead, Range
  <2> QED  BY <2>2, <2>3 DEF Out, In
<1> QED  BY <1>1, <1>2, <1>4, <1>5, <1>7, <1>8, ShakenPost

-----------------------------------------------------------------------------
(* Both ends start again.                                                  *)

Opened(s) ==
    /\ s.lastAck = FirstId - 1 /\ s.nextToSend = FirstId /\ s.readNext = FirstId
    /\ s.log = <<>> /\ s.rlog = <<>>
Blank(c) == c.got = <<>> /\ c.log = <<>> /\ c.vr = 0 /\ c.vs = 0 /\ c.out = FALSE

LEMMA StartsAgain ==
    ASSUME NEW s, Opened(s), NEW c, Blank(c)
    PROVE  /\ Abreast(s, c) /\ Same(s, c)
           /\ Sends(c) = FirstId /\ Expects(c) = FirstId /\ Owed(c) = FirstId
<1>1. /\ c.got = <<>> /\ c.log = <<>> /\ c.vr = 0 /\ c.vs = 0 /\ c.out = FALSE
      /\ s.lastAck = FirstId - 1 /\ s.nextToSend = FirstId /\ s.readNext = FirstId
      /\ s.log = <<>> /\ s.rlog = <<>>
  BY DEF Opened, Blank
<1>2. Len(c.got) = 0 /\ Len(c.log) = 0 /\ Len(s.log) = 0 /\ Len(s.rlog) = 0
  BY <1>1
<1>3. Sends(c) = 32 /\ Expects(c) = 32 /\ Owed(c) = 32
  BY <1>1, <1>2 DEF Sends, Expects, Owed, FirstId
<1>4. Abreast(s, c)
  <2>1. s.lastAck = 31 /\ s.nextToSend = 32 /\ s.readNext = 32 /\ 32 % 8 = 0
    BY <1>1 DEF FirstId
  <2>2. s.nextToSend = FirstId + Len(s.log) /\ s.readNext = FirstId + Len(s.rlog)
    BY <1>1, <1>2 DEF FirstId
  <2>3. c.vr = Expects(c) % 8 /\ c.vs = Owed(c) % 8 /\ c.out \in BOOLEAN
    BY <1>1, <1>3, <2>1
  <2> QED  BY <1>3, <2>1, <2>2, <2>3 DEF Abreast
<1>5. Same(s, c)
  <2>1. ~Waits(s)
    BY <1>1 DEF Waits, FirstId
  <2>2. /\ s.log \in Seq(Fragments) /\ c.got \in Seq(Fragments)
        /\ s.rlog \in Seq(PeerPayloads) /\ c.log \in Seq(Nat)
    BY <1>1
  <2> QED  BY <1>1, <1>2, <2>1, <2>2 DEF Same
<1> QED  BY <1>1, <1>3, <1>4, <1>5 DEF FirstId

LEMMA FreshShaken ==
    ASSUME NEW k, Opened(k), k.status = "RESET_PENDING", k.connNext = "NONE", k.ctrl = "NONE",
           k.tx = NoTx, Fns(k.dfc) \subseteq {"T6"}, NEW c, Blank(c), NEW q, q = <<>>,
           NEW u, u.sent = <<>>, u.done \in Seq(Nat), NEW tk, Range(u.done) \subseteq tk
    PROVE  Shaken(k, c, q, q) /\ Line(q) /\ Completes(k, u, c, tk)
<1>1. Range(q) = {} /\ Pairs(q) = {} /\ Line(q)
  BY DEF Range, Pairs, Line
<1>2. InRead(k) = {} /\ InTx(k) = {}
  BY DEF InRead, InTx, Fns
<1>3. Out(k, q) = {} /\ OutPairs(k, q) = {} /\ In(k, q) = {} /\ InPairs(k, q) = {}
  BY <1>1, <1>2 DEF Out, OutPairs, In, InPairs
<1>4. Ends(k, c, {}, {})
  BY StartsAgain DEF Ends, Outgoing, Steady
<1>5. Shaking(k, c, {}, {}, {}, {})
  BY DEF Shaking, Opened
<1>6. Calling(k)
  <2>1. "T3" \notin Fns(k.dfc) /\ "ConnectWritten" \notin Fns(k.dfc)
    OBVIOUS
  <2> QED  BY <2>1, OnceNone DEF Calling
<1>7. Completes(k, u, c, tk)
  <2>1. Ended(k) = 0 /\ ~LastWaits(k)
    BY DEF Ended, LastWaits, Waits, Opened, FirstId
  <2>2. Range(c.got) = {}
    BY DEF Blank, Range
  <2>3. Len(u.sent) = 0
    OBVIOUS
  <2> QED  BY <2>1, <2>2, <2>3 DEF Completes
<1> QED  BY <1>1, <1>3, <1>4, <1>5, <1>6, <1>7 DEF Shaken

(* The user resets the HAL and the controller. *)
LEMMA ShakenUserResets ==
    ASSUME NEW mode \in Modes, Based(host, mode), DOMAIN hci = HciFields, NEW calm, UserResets,
           Queue(host', hci', calm), NEW tk, Completes(host, hci, ctrl, tk)
    PROVE  /\ Shaken(host', ctrl', toCtrl', toHost') /\ Line(toCtrl')
           /\ Completes(host', hci', ctrl', tk)
<1>1. PICK k, v, c : k = host' /\ v = hci' /\ c = ctrl'
  OBVIOUS
<1>2. PICK d, a : k = [Created EXCEPT !.status = "RESET_PENDING", !.dfc = d, !.armed = a]
  BY <1>1 DEF UserResets, PHCIFramePreReset, PSHDLCPreReset
<1>3. /\ k.status = "RESET_PENDING" /\ Opened(k) /\ k.connNext = "NONE"
      /\ k.ctrl = "NONE" /\ k.tx = NoTx
  BY <1>2 DEF Created, Opened
<1>4. v.done = hci.done /\ v.sent = <<>>
  BY <1>1 DEF UserResets, PHCIFramePreReset, HciFields
<1>5. PICK q : q = <<>>
  OBVIOUS
<1>6. toCtrl' = q /\ toHost' = q /\ Blank(c)
  BY <1>1, <1>5 DEF UserResets, Blank, Reset, Boot
<1>7. Fns(k.dfc) \subseteq {"T6"}
  BY <1>1, <1>3 DEF Queue, Starts
<1>8. v.done \in Seq(Nat) /\ Range(v.done) \subseteq tk
  BY <1>4 DEF Completes
<1>9. Shaken(k, c, q, q) /\ Line(q) /\ Completes(k, v, c, tk)
  BY <1>3, <1>4, <1>5, <1>6, <1>7, <1>8, FreshShaken
<1> QED  BY <1>1, <1>6, <1>9

-----------------------------------------------------------------------------
(* The steps of the host.                                                  *)

On(s, c, q, h) == LiveOn(s, c, q, h) \/ Shaken(s, c, q, h)

LEMMA LinkedOn ==
    ASSUME NEW s, NEW c, NEW q, NEW h
    PROVE  Linked(s, c, Out(s, q), OutPairs(s, q), In(s, h), InPairs(s, h)) <=> On(s, c, q, h)
BY DEF Linked, On, LiveOn, Shaken

LEMMA LineOf ==
    ASSUME NEW S, NEW q \in Seq(S)
    PROVE  Line(q)
BY DEF Line, Range

(* Before the session no message ends. *)
LEMMA CompletesCounted ==
    ASSUME NEW s, NEW u, NEW c, NEW tk, Completes(s, u, c, tk), s.status # "UA_SENT",
           ~u.connected, NEW calm, Queue(s, u, calm), NEW k, Counted(s, k), NEW still,
           Queue(k, u, still)
    PROVE  Completes(k, u, c, tk)
<1>1. "Acknowledged" \notin Fns(s.dfc)
  BY DEF Queue, Told
<1>2. "Acknowledged" \notin Fns(k.dfc)
  BY DEF Queue, Told
<1> QED  BY <1>1, <1>2, CompletesKept DEF Counted

(* The calls that PNALDFCPump may run before the session leave the HCI     *)
(* layer alone.                                                            *)
LEMMA ShakenCallsHci ==
    ASSUME NEW mode \in Modes, Settled(host, mode), NEW calm, Queue(host, hci, calm),
           host.status # "UA_SENT", Calls
    PROVE  UNCHANGED hci
<1>1. host.dfc # <<>> /\ Head(host.dfc).fn \in Fns(host.dfc)
  <2>1. PICK S : S = DfcCalls(mode)
    OBVIOUS
  <2>2. PICK q \in Seq(S) : q = host.dfc
    BY <2>1 DEF Settled, Sound, Instance
  <2>3. q # <<>>
    BY <2>2 DEF Calls, Runs, RunsHci, FrameReadDone, ConnectWritten, FrameWritten, ResendTimer,
                ResetTimer, PiggyBackTimer, RRTimer, ResetIndication, StreamData, ConnectDone,
                Acknowledged, BufferFree, DataIsReady, AtHead
  <2> QED  BY <2>2, <2>3, TailCalls
<1>2. Fns(host.dfc) \intersect {"DataReady", "Acknowledged", "BufferFree"} = {}
  BY DEF Queue, Starts
<1>3. "ConnectDone" \notin Fns(host.dfc)
  BY DEF Settled, Sound, Phases
<1>4. ~ConnectDone /\ ~Acknowledged /\ ~BufferFree /\ ~DataIsReady
  BY <1>1, <1>2, <1>3 DEF ConnectDone, Acknowledged, BufferFree, DataIsReady, RunsHci, AtHead
<1> QED  BY <1>4 DEF Calls, Runs, FrameReadDone, ConnectWritten, FrameWritten, ResendTimer,
                     ResetTimer, PiggyBackTimer, RRTimer, ResetIndication, StreamData

LEMMA HostSync ==
    ASSUME NEW mode \in Modes, Settled(host, mode), Old(host), DOMAIN hci = HciFields,
           hci.connected => host.status = "UA_SENT", toHost \in Seq(Frames(mode)), asked \in Nat,
           NEW calm, Queue(host, hci, calm), NEW still, Queue(host', hci', still),
           \A e \in Range(host.dfc) : e.fn = "FrameRead" => NoRST(e.f), "T3" \notin Early,
           On(host, ctrl, toCtrl, toHost), Line(toCtrl), Completes(host, hci, ctrl, taken),
           Host \/ (\E t \in Timers : TimerExpires(t)) \/ UserWrites \/ UserResets
    PROVE  /\ On(host', ctrl', toCtrl', toHost') /\ Line(toCtrl')
           /\ Completes(host', hci', ctrl', taken')
<1>1. PICK c, h, tk : c = ctrl /\ h = toHost /\ tk = taken
  OBVIOUS
<1>2. Line(toHost)
  <2>1. PICK S : S = Frames(mode)
    OBVIOUS
  <2>2. PICK q \in Seq(S) : q = toHost
    BY <2>1
  <2> QED  BY <2>2, LineOf
<1>3. Based(host, mode)
  BY DEF Based, Settled, Sound, Instance
<1>4. CASE UserResets
  <2>1. taken' = tk /\ Completes(host, hci, ctrl, tk)
    BY <1>1, <1>4 DEF UserResets
  <2>2. /\ Shaken(host', ctrl', toCtrl', toHost') /\ Line(toCtrl')
        /\ Completes(host', hci', ctrl', tk)
    BY <1>3, <1>4, <2>1, ShakenUserResets
  <2> QED  BY <2>1, <2>2 DEF On
<1>5. Calls \/ PollWrite \/ Connect => ctrl' = c /\ taken' = tk /\ toHost' = h
  BY <1>1 DEF Connect, PollWrite, Calls, Runs, RunsHci, FrameReadDone, ConnectWritten,
              FrameWritten, ResendTimer, ResetTimer, PiggyBackTimer, RRTimer, ResetIndication,
              StreamData, ConnectDone, Acknowledged, BufferFree, DataIsReady
<1>6. UserWrites => ctrl' = c /\ taken' = tk /\ toHost' = h
  BY <1>1 DEF UserWrites
<1>7. PollRead => ctrl' = c /\ taken' = tk /\ toCtrl' = toCtrl /\ hci' = hci
  BY <1>1 DEF PollRead
<1>8. \A t \in Timers : TimerExpires(t) => /\ ctrl' = c /\ taken' = tk /\ toHost' = h
                                           /\ toCtrl' = toCtrl /\ hci' = hci
  BY <1>1 DEF TimerExpires
<1>9. Line(toCtrl) /\ Completes(host, hci, c, tk) /\ On(host, c, toCtrl, h) /\ Line(h)
  BY <1>1, <1>2
<1>10. ASSUME LiveOn(host, c, toCtrl, h), ~UserResets
       PROVE  On(host', ctrl', toCtrl', toHost') /\ Line(toCtrl') /\ Completes(host', hci', ctrl', taken')
  <2>1. host.status = "UA_SENT"
    BY <1>10 DEF LiveOn
  <2>2. ~Connect
    BY <2>1 DEF Connect
  <2>3. CASE Calls
    BY <1>5, <1>9, <1>10, <2>3, LiveCalls DEF On
  <2>4. CASE PollWrite
    BY <1>5, <1>9, <1>10, <2>4, LivePollWrite DEF On
  <2>5. CASE PollRead
    BY <1>1, <1>7, <1>9, <1>10, <2>5, LivePollRead DEF On
  <2>6. CASE \E t \in Timers : TimerExpires(t)
    BY <1>8, <1>9, <1>10, <2>6, LiveExpires DEF On
  <2>7. CASE UserWrites
    BY <1>6, <1>9, <1>10, <2>7, LiveUserWrites DEF On
  <2> QED  BY <1>10, <2>2, <2>3, <2>4, <2>5, <2>6, <2>7 DEF Host
<1>11. ASSUME Shaken(host, c, toCtrl, h), ~UserResets
       PROVE  On(host', ctrl', toCtrl', toHost') /\ Line(toCtrl') /\ Completes(host', hci', ctrl', taken')
  <2>1. host.status # "UA_SENT" /\ ~hci.connected
    BY <1>11 DEF Shaken
  <2>2. ~UserWrites
    BY <2>1 DEF UserWrites
  <2>3. ASSUME Counted(host, host'), hci' = hci
        PROVE  Completes(host', hci', c, tk)
    <3>1. PICK u : u = hci
      OBVIOUS
    <3>2. Queue(host, u, calm) /\ Queue(host', u, still) /\ Completes(host, u, c, tk) /\ ~u.connected
      BY <1>9, <2>1, <2>3, <3>1
    <3>3. Completes(host', u, c, tk)
      BY <2>1, <2>3, <3>2, CompletesCounted
    <3> QED  BY <2>3, <3>1, <3>3
  <2>4. CASE Calls
    <3>1. hci' = hci
      BY <2>1, <2>4, ShakenCallsHci
    <3>2. /\ Line(toCtrl') /\ Counted(host, host')
          /\ LiveOn(host', c, toCtrl', h) \/ Shaken(host', c, toCtrl', h)
      BY <1>9, <1>11, <2>1, <2>4, ShakenCalls
    <3> QED  BY <1>5, <2>3, <2>4, <3>1, <3>2 DEF On
  <2>5. CASE PollWrite
    <3>1. hci' = hci
      BY <2>5 DEF PollWrite
    <3>2. Line(toCtrl') /\ Counted(host, host') /\ Shaken(host', c, toCtrl', h)
      BY <1>9, <1>11, <2>5, ShakenPollWrite
    <3> QED  BY <1>5, <2>3, <2>5, <3>1, <3>2 DEF On
  <2>6. CASE PollRead
    <3>1. PICK q : q = toCtrl
      OBVIOUS
    <3>2. Shaken(host', c, q, toHost') /\ Counted(host, host')
      BY <1>1, <1>9, <1>11, <2>6, <3>1, ShakenPollRead
    <3> QED  BY <1>7, <1>9, <2>3, <2>6, <3>1, <3>2 DEF On
  <2>7. CASE \E t \in Timers : TimerExpires(t)
    <3>1. PICK t \in Timers : TimerExpires(t)
      BY <2>7
    <3>2. Shaken(host', c, toCtrl, toHost) /\ Counted(host, host')
      BY <1>1, <1>11, <3>1, ShakenExpires
    <3> QED  BY <1>1, <1>8, <1>9, <2>3, <3>1, <3>2 DEF On
  <2>8. CASE Connect
    <3>1. hci' = hci
      BY <2>8 DEF Connect
    <3>2. Shaken(host', c, toCtrl', h) /\ Counted(host, host') /\ Line(toCtrl')
      BY <1>9, <1>11, <2>8, ShakenConnect
    <3> QED  BY <1>5, <2>3, <2>8, <3>1, <3>2 DEF On
  <2> QED  BY <1>11, <2>2, <2>4, <2>5, <2>6, <2>7, <2>8 DEF Host
<1> QED  BY <1>4, <1>9, <1>10, <1>11 DEF On

-----------------------------------------------------------------------------
(* The lines, as the steps of the controller change them.                  *)

LEMMA InMore ==
    ASSUME NEW s, NEW h, Line(h), NEW g
    PROVE  /\ More(In(s, Append(h, g)), InPairs(s, Append(h, g)), In(s, h), InPairs(s, h), g)
           /\ Line(Append(h, g))
<1>1. PICK S : S = Range(h)
  OBVIOUS
<1>2. PICK r : r = Append(h, g)
  OBVIOUS
<1>3. /\ r \in Seq(S \union {g}) /\ Range(r) = Range(h) \union {g}
      /\ Pairs(r) \subseteq Pairs(h) \union (Range(h) \X {g})
  <2>1. h \in Seq(S)
    BY <1>1 DEF Line
  <2> QED  BY <1>2, <2>1, AppendPairs
<1>4. More(In(s, r), InPairs(s, r), In(s, h), InPairs(s, h), g)
  BY <1>3 DEF More, In, InPairs
<1>5. Line(r)
  BY <1>1, <1>3 DEF Line
<1> QED  BY <1>2, <1>4, <1>5

LEMMA InTail ==
    ASSUME NEW s, NEW h, Line(h), h # <<>>
    PROVE  Fewer(In(s, Tail(h)), InPairs(s, Tail(h)), In(s, h), InPairs(s, h)) /\ Line(Tail(h))
<1>1. PICK S : S = Range(h)
  OBVIOUS
<1>2. PICK r : r = Tail(h)
  OBVIOUS
<1>3. r \in Seq(S) /\ Range(r) \subseteq Range(h) /\ Pairs(r) \subseteq Pairs(h)
  BY <1>1, <1>2, TailPairs DEF Line
<1>4. Fewer(In(s, r), InPairs(s, r), In(s, h), InPairs(s, h))
  BY <1>3 DEF Fewer, In, InPairs
<1>5. Line(r)
  <2>1. PICK n \in Nat : r \in [1..n -> S]
    BY <1>3 DEF Seq
  <2>2. r \in [1..n -> Range(r)]
    BY <2>1 DEF Range
  <2> QED  BY <2>1, <2>2 DEF Line, Seq
<1> QED  BY <1>2, <1>4, <1>5

(* The first frame reaches the controller, or is lost. *)
LEMMA OutTail ==
    ASSUME NEW s, NEW q, Line(q), q # <<>>
    PROVE  /\ Behind(Head(q), Out(s, Tail(q)), OutPairs(s, Tail(q)), Out(s, q), OutPairs(s, q))
           /\ Fewer(Out(s, Tail(q)), OutPairs(s, Tail(q)), Out(s, q), OutPairs(s, q))
           /\ Line(Tail(q))
<1>1. PICK S : S = Range(q)
  OBVIOUS
<1>2. PICK r, f : r = Tail(q) /\ f = Head(q)
  OBVIOUS
<1>3. /\ r \in Seq(S) /\ f \in Range(q)
      /\ Range(r) \subseteq Range(q) /\ Pairs(r) \subseteq Pairs(q)
      /\ \A g \in Range(r) : <<f, g>> \in Pairs(q)
  BY <1>1, <1>2, TailPairs DEF Line
<1>4. Fewer(Out(s, r), OutPairs(s, r), Out(s, q), OutPairs(s, q))
  BY <1>3 DEF Fewer, Out, OutPairs
<1>5. Behind(f, Out(s, r), OutPairs(s, r), Out(s, q), OutPairs(s, q))
  <2>1. Out(s, r) \subseteq Out(s, q) /\ f \in Out(s, q) /\ OutPairs(s, r) \subseteq OutPairs(s, q)
    BY <1>3 DEF Out, OutPairs
  <2>2. \A g \in Out(s, r) : <<f, g>> \in OutPairs(s, q)
    BY <1>3 DEF Out, OutPairs
  <2>3. \A p \in OutPairs(s, r) : p[1] \in Out(s, r) /\ p[2] \in Out(s, r)
    BY DEF Out, OutPairs, Pairs
  <2> QED  BY <2>1, <2>2, <2>3 DEF Behind
<1>6. Line(r)
  <2>1. PICK n \in Nat : r \in [1..n -> S]
    BY <1>3 DEF Seq
  <2>2. r \in [1..n -> Range(r)]
    BY <2>1 DEF Range
  <2> QED  BY <2>1, <2>2 DEF Line, Seq
<1> QED  BY <1>2, <1>4, <1>5, <1>6

-----------------------------------------------------------------------------
(* The steps of the controller.                                            *)

(* What a session does not depend on has changed. *)
CtrlAlike(c, d) ==
    /\ d.got = c.got /\ d.log = c.log /\ d.vr = c.vr /\ d.vs = c.vs /\ d.out = c.out
    /\ d.next = c.next

LEMMA PeerAlike ==
    ASSUME NEW s, NEW c, NEW q, NEW h, On(s, c, q, h), NEW d, CtrlAlike(c, d)
    PROVE  On(s, d, q, h)
<1>1. Expects(d) = Expects(c) /\ Sends(d) = Sends(c) /\ Owed(d) = Owed(c)
  BY DEF CtrlAlike, Expects, Sends, Owed
<1>2. /\ d.got = c.got /\ d.log = c.log /\ d.vr = c.vr /\ d.vs = c.vs /\ d.out = c.out
      /\ d.next = c.next
  BY DEF CtrlAlike
<1>3. \A E, R : Ends(s, c, E, R) => Ends(s, d, E, R)
  BY <1>1, <1>2 DEF Ends, Abreast, Same, Outgoing
<1>4. \A E, G, Q : Session(s, c, E, G, Q) => Session(s, d, E, G, Q)
  BY <1>1, <1>2 DEF Session, Incoming
<1>5. \A E, R, G, Q : Shaking(s, c, E, R, G, Q) => Shaking(s, d, E, R, G, Q)
  <2>1. \A g : First(g, c) => First(g, d)
    BY <1>1, <1>2 DEF First
  <2> QED  BY <2>1 DEF Shaking
<1> QED  BY <1>3, <1>4, <1>5 DEF On, LiveOn, Shaken

(* What the controller says: the frame that is not acknowledged, or a      *)
(* control frame, with what it has received until now.                     *)
Said(c, g) ==
    /\ g.t \in {"I", "RR", "RNR", "REJ"} /\ g.nr = c.vr
    /\ g.t = "I" => c.out /\ g.ns = c.vs /\ g.pay.n = c.next - 1

LEMMA IncomingMore ==
    ASSUME NEW s, NEW c, NEW F, NEW P, Ends(s, c, F, P), NEW H, NEW T, Incoming(s, c, H, T),
           NEW g, Said(c, g), NEW G, NEW Q, More(G, Q, H, T, g)
    PROVE  Incoming(s, c, G, Q)
<1>0. Abreast(s, c) /\ Same(s, c)
  BY DEF Ends
<1>1. /\ s.lastAck \in Nat /\ s.nextToSend \in Nat /\ s.readNext \in Nat
      /\ Expects(c) \in Nat /\ Sends(c) \in Nat /\ Owed(c) \in Nat
      /\ Owed(c) = Sends(c) \/ (c.out /\ Owed(c) = Sends(c) - 1)
      /\ Expects(c) = s.lastAck + 1 \/ Expects(c) = s.lastAck + 2
      /\ Owed(c) <= s.readNext /\ s.readNext <= Sends(c)
  BY <1>0, Numbers DEF Abreast
<1>2. Has("ns", g) => g["ns"] = (Sends(c) - 1) % 8
  <2>1. c.out => Owed(c) = Sends(c) - 1
    BY DEF Owed
  <2> QED  BY <1>0, <2>1 DEF Has, Said, Abreast
<1>3. Has("nr", g) => g["nr"] = (Expects(c) + 1 - 1) % 8
  <2>1. Expects(c) + 1 - 1 = Expects(c)
    BY <1>1
  <2> QED  BY <1>0, <2>1 DEF Said, Abreast
<1>4. Steady("ns", G, Q, s.readNext - 1, Sends(c))
  <2>1. Steady("ns", H, T, s.readNext - 1, Sends(c))
    BY DEF Incoming
  <2>2. Sends(c) - 1 = s.readNext - 1 \/ Sends(c) - 1 = s.readNext - 1 + 1
    BY <1>1
  <2> QED  BY <2>1, <2>2, <1>1, <1>2, SteadyMore
<1>5. Steady("nr", G, Q, s.lastAck + 1, Expects(c) + 1)
  <2>1. Steady("nr", H, T, s.lastAck + 1, Expects(c) + 1)
    BY DEF Incoming
  <2>2. Expects(c) + 1 - 1 = s.lastAck + 1 \/ Expects(c) + 1 - 1 = s.lastAck + 1 + 1
    BY <1>1
  <2> QED  BY <2>1, <2>2, <1>1, <1>3, SteadyMore
<1>6. ASSUME g.t = "I", s.readNext < Sends(c) PROVE g.pay.n = c.log[Len(s.rlog) + 1]
  <2>1. g.pay.n = c.log[Len(c.log)]
    BY <1>0, <1>6 DEF Said, Same
  <2>2. s.readNext + 1 = Sends(c)
    BY <1>0, <1>6, FrameAhead
  <2>3. /\ Len(s.rlog) \in Nat /\ Len(c.log) \in Nat /\ s.readNext = 32 + Len(s.rlog)
        /\ Sends(c) = 32 + Len(c.log)
    BY <1>0, Numbers DEF Abreast, Sends, FirstId
  <2>4. Len(c.log) = Len(s.rlog) + 1
    BY <2>2, <2>3
  <2> QED  BY <2>1, <2>4
<1>7. \A f \in G : f.t = "BAD" \/ f = g \/ f \in H
  BY DEF More, BAD
<1>8. ASSUME NEW f \in G, f.t = "I", s.readNext < Sends(c), f.ns = s.readNext % 8
      PROVE  f.pay.n = c.log[Len(s.rlog) + 1]
  BY <1>6, <1>7, <1>8 DEF Incoming
<1> QED  BY <1>4, <1>5, <1>8 DEF Incoming

(* The first it says in a session. *)
LEMMA SaidFirst ==
    ASSUME NEW s, NEW c, NEW F, NEW P, Ends(s, c, F, P), s.lastAck = FirstId - 1,
           s.nextToSend = FirstId, s.readNext = FirstId, NEW g, Said(c, g)
    PROVE  First(g, c)
<1>0. Abreast(s, c) /\ Same(s, c)
  BY DEF Ends
<1>1. /\ Expects(c) \in Nat /\ Sends(c) \in Nat /\ Owed(c) \in Nat /\ Len(c.log) \in Nat
      /\ Expects(c) = 32 /\ Owed(c) <= 32 /\ 32 <= Sends(c) /\ Sends(c) = 32 + Len(c.log)
  <2>1. s.lastAck = 31 /\ s.nextToSend = 32 /\ s.readNext = 32
    BY DEF FirstId
  <2>2. s.lastAck + 1 <= Expects(c) /\ Expects(c) <= s.nextToSend
        /\ Owed(c) <= s.readNext /\ s.readNext <= Sends(c)
    BY <1>0 DEF Abreast
  <2>3. /\ Expects(c) \in Nat /\ Sends(c) \in Nat /\ Owed(c) \in Nat /\ Len(c.log) \in Nat
    BY <1>0, Numbers
  <2>4. Sends(c) = 32 + Len(c.log)
    BY DEF Sends, FirstId
  <2> QED  BY <2>1, <2>2, <2>3, <2>4
<1>2. c.vr = 0
  BY <1>0, <1>1 DEF Abreast
<1>3. ASSUME g.t = "I" PROVE g.ns = 0 /\ Sends(c) = FirstId + 1 /\ g.pay.n = c.log[1]
  <2>1. c.out /\ g.ns = c.vs /\ g.pay.n = c.log[Len(c.log)] /\ c.log # <<>> /\ c.log \in Seq(Nat)
    BY <1>0, <1>3 DEF Said, Same
  <2>2. Owed(c) = Sends(c) - 1 /\ c.vs = Owed(c) % 8
    BY <1>0, <2>1 DEF Owed, Abreast
  <2>3. Len(c.log) # 0
    BY <2>1
  <2>4. Len(c.log) = 1 /\ Owed(c) = 32
    <3>1. PICK n \in Nat : n = Len(c.log)
      BY <1>1
    <3>2. PICK w \in Nat : w = Owed(c)
      BY <1>1
    <3>3. w <= 32 /\ w = 32 + n - 1 /\ n # 0
      BY <1>1, <2>2, <2>3, <3>1, <3>2
    <3>4. n = 1 /\ w = 32
      BY <3>3
    <3> QED  BY <3>1, <3>2, <3>4
  <2>5. c.vs = 0
    BY <2>2, <2>4
  <2> QED  BY <1>1, <2>1, <2>4, <2>5 DEF FirstId
<1> QED  BY <1>2, <1>3 DEF First, Said

LEMMA Speaks ==
    ASSUME NEW s, NEW c, NEW q, NEW h, On(s, c, q, h), Line(h), NEW g, Said(c, g)
    PROVE  On(s, c, q, Append(h, g)) /\ Line(Append(h, g))
<1>1. PICK r : r = Append(h, g)
  OBVIOUS
<1>2. More(In(s, r), InPairs(s, r), In(s, h), InPairs(s, h), g) /\ Line(r)
  BY <1>1, InMore
<1>3. CASE LiveOn(s, c, q, h)
  <2>1. Ends(s, c, Out(s, q), OutPairs(s, q)) /\ Incoming(s, c, In(s, h), InPairs(s, h))
    BY <1>3 DEF LiveOn, Session
  <2>2. Incoming(s, c, In(s, r), InPairs(s, r))
    BY <1>2, <2>1, IncomingMore
  <2>3. LiveOn(s, c, q, r)
    BY <1>3, <2>2 DEF LiveOn, Session
  <2> QED  BY <1>1, <1>2, <2>3 DEF On
<1>4. CASE Shaken(s, c, q, h)
  <2>1. /\ Ends(s, c, Out(s, q), OutPairs(s, q)) /\ s.lastAck = FirstId - 1
        /\ s.nextToSend = FirstId /\ s.readNext = FirstId
    BY <1>4 DEF Shaken, Shaking
  <2>2. First(g, c)
    BY <2>1, SaidFirst
  <2>3. \A f \in In(s, r) : f = BAD \/ f = g \/ f \in In(s, h)
    BY <1>2 DEF More
  <2>4. \A f \in In(s, r) : f.t # "UA" \/ f \in In(s, h)
    BY <2>3 DEF BAD, Said
  <2>5. ASSUME NEW p \in InPairs(s, r), p[1].t = "UA" PROVE First(p[2], c)
    <3>1. p[1] # BAD
      BY <2>5 DEF BAD
    <3>2. p[2] = BAD => First(p[2], c)
      BY DEF First, Has, BAD
    <3>3. p[2] = BAD \/ p \in InPairs(s, h) \/ p[2] = g
      BY <1>2, <3>1 DEF More
    <3> QED  BY <1>4, <2>2, <2>5, <3>2, <3>3 DEF Shaken, Shaking
  <2>6. Shaking(s, c, Out(s, q), OutPairs(s, q), In(s, r), InPairs(s, r))
    BY <1>4, <2>4, <2>5 DEF Shaken, Shaking
  <2> QED  BY <1>1, <1>2, <1>4, <2>6 DEF On, Shaken
<1> QED  BY <1>3, <1>4 DEF On

(* It sends a frame of its own. *)
LEMMA SentSpeaks ==
    ASSUME NEW s, NEW c, NEW q, NEW h, On(s, c, q, h), Line(h), ~c.out, c.next \in Nat,
           NEW d, d.got = c.got, d.log = Append(c.log, c.next), d.vr = c.vr, d.vs = c.vs,
           d.out = TRUE, d.next = c.next + 1
    PROVE  On(s, d, q, h)
<1>1. PICK E, R, G, Q : E = Out(s, q) /\ R = OutPairs(s, q) /\ G = In(s, h) /\ Q = InPairs(s, h)
  OBVIOUS
<1>2. Ends(s, c, E, R)
  BY <1>1 DEF On, LiveOn, Shaken
<1>3. Abreast(s, c) /\ Same(s, c) /\ Outgoing(s, c, E, R)
  BY <1>2 DEF Ends
<1>4. /\ d.log \in Seq(Nat) /\ Len(d.log) = Len(c.log) + 1 /\ Len(c.log) \in Nat
      /\ d.log[Len(c.log) + 1] = c.next /\ \A i \in 1..Len(c.log) : d.log[i] = c.log[i]
      /\ d.log # <<>>
  BY <1>3, AppendProperties, LenProperties DEF Same
<1>5. /\ s.readNext \in Nat /\ Len(s.rlog) \in Nat /\ Sends(c) \in Nat
      /\ Expects(c) \in Nat /\ Owed(c) <= s.readNext /\ s.readNext <= Sends(c)
  BY <1>3, Numbers DEF Abreast
<1>6. Owed(c) = Sends(c) /\ s.readNext = Sends(c)
  BY <1>5 DEF Owed
<1>7. Sends(d) = Sends(c) + 1 /\ Owed(d) = Owed(c) /\ Expects(d) = Expects(c)
  <2>1. Sends(d) = Sends(c) + 1
    BY <1>4 DEF Sends, FirstId
  <2>2. Owed(d) = Sends(d) - 1
    BY DEF Owed
  <2> QED  BY <1>5, <1>6, <2>1, <2>2 DEF Expects
<1>8. Abreast(s, d)
  <2>1. s.readNext <= Sends(d)
    BY <1>5, <1>7
  <2> QED  BY <1>3, <1>7, <2>1 DEF Abreast
<1>9. Same(s, d)
  <2>1. Len(s.rlog) <= Len(c.log)
    <3>1. s.readNext = 32 + Len(s.rlog) /\ Sends(c) = 32 + Len(c.log)
      BY <1>3 DEF Abreast, Sends, FirstId
    <3> QED  BY <1>4, <1>5, <3>1
  <2>2. \A i \in 1..Len(s.rlog) : i \in 1..Len(c.log)
    BY <1>4, <1>5, <2>1
  <2>3. \A i \in 1..Len(s.rlog) : s.rlog[i].n = d.log[i]
    BY <1>3, <1>4, <2>2 DEF Same
  <2>4. d.log[Len(d.log)] = d.next - 1
    BY <1>4
  <2> QED  BY <1>3, <1>4, <2>3, <2>4 DEF Same
<1>10. Ends(s, d, E, R)
  BY <1>2, <1>3, <1>7, <1>8, <1>9 DEF Ends, Outgoing
<1>11. ASSUME Session(s, c, E, G, Q) PROVE Session(s, d, E, G, Q)
  <2>1. Incoming(s, c, G, Q)
    BY <1>11 DEF Session
  <2>2. Steady("ns", G, Q, s.readNext - 1, Sends(c))
    BY <2>1 DEF Incoming
  <2>3. Steady("ns", G, Q, s.readNext - 1, Sends(d))
    BY <1>5, <1>7, <2>2, SteadyLimit
  <2>4. ASSUME NEW f \in G, f.t = "I" PROVE f.ns # s.readNext % 8
    <3>1. Has("ns", f)
      BY <2>4 DEF Has
    <3>2. ~(s.readNext - 1 + 1 < Sends(c))
      BY <1>5, <1>6
    <3>3. f["ns"] = (s.readNext - 1) % 8
      BY <2>2, <3>1, <3>2 DEF Steady
    <3>4. (s.readNext - 1) % 8 # s.readNext % 8
      BY <1>5, Mod8
    <3> QED  BY <3>3, <3>4
  <2>5. Incoming(s, d, G, Q)
    BY <1>7, <2>1, <2>3, <2>4 DEF Incoming
  <2> QED  BY <1>11, <2>5 DEF Session
<1>12. ASSUME Shaking(s, c, E, R, G, Q) PROVE Shaking(s, d, E, R, G, Q)
  <2>1. s.readNext = FirstId
    BY <1>12 DEF Shaking
  <2>2. Sends(c) # FirstId + 1
    BY <1>6, <2>1 DEF FirstId
  <2>3. \A g : First(g, c) => First(g, d)
    BY <2>2 DEF First
  <2> QED  BY <1>12, <2>3 DEF Shaking
<1> QED  BY <1>1, <1>10, <1>11, <1>12 DEF On, LiveOn, Shaken

(* The controller takes the acknowledgement of a frame f, or ignores it, *)
Acking(c, d, f) ==
    \/ d.out = c.out /\ d.vs = c.vs
    \/ c.out /\ Has("nr", f) /\ f.nr = (c.vs + 1) % 8 /\ d.out = FALSE /\ d.vs = f.nr

LEMMA AckingNumbers ==
    ASSUME NEW s, NEW c, NEW E, NEW R, Ends(s, c, E, R), NEW f, NEW F, NEW P,
           Behind(f, F, P, E, R), NEW d, d.log = c.log, Acking(c, d, f)
    PROVE  /\ Owed(d) <= s.readNext /\ d.vs = Owed(d) % 8 /\ d.out \in BOOLEAN
           /\ d.out => c.out
           /\ Sends(d) = Sends(c) /\ Steady("nr", F, P, Owed(d), s.readNext + 1)
<1>0. Abreast(s, c) /\ Same(s, c) /\ Steady("nr", E, R, Owed(c), s.readNext + 1)
  BY DEF Ends, Outgoing
<1>1. /\ s.readNext \in Nat /\ Sends(c) \in Nat /\ Owed(c) \in Nat
      /\ Owed(c) <= s.readNext /\ c.vs = Owed(c) % 8 /\ c.out \in BOOLEAN
  BY <1>0, Numbers DEF Abreast
<1>2. Sends(d) = Sends(c)
  BY DEF Sends
<1>3. CASE d.out = c.out /\ d.vs = c.vs
  <2>1. Owed(d) = Owed(c)
    BY <1>2, <1>3 DEF Owed
  <2>2. Fewer(F, P, E, R)
    BY DEF Behind, Fewer
  <2>3. Steady("nr", F, P, Owed(c), s.readNext + 1)
    BY <1>0, <2>2, SteadyFewer
  <2> QED  BY <1>1, <1>2, <1>3, <2>1, <2>3
<1>4. CASE c.out /\ Has("nr", f) /\ f.nr = (c.vs + 1) % 8 /\ d.out = FALSE /\ d.vs = f.nr
  <2>1. Owed(c) = Sends(c) - 1 /\ Owed(d) = Sends(c)
    BY <1>2, <1>4 DEF Owed
  <2>2. Owed(d) = Owed(c) + 1
    BY <1>1, <2>1
  <2>3. f["nr"] = (Owed(c) + 1) % 8
    BY <1>1, <1>4, Mod8
  <2>4. f \in E
    BY DEF Behind
  <2>5. Owed(c) + 1 < s.readNext + 1
    <3>1. (Owed(c) + 1) % 8 # Owed(c) % 8
      BY <1>1, Mod8
    <3> QED  BY <1>0, <1>4, <2>3, <2>4, <3>1 DEF Steady
  <2>6. Owed(d) <= s.readNext
    BY <1>1, <2>2, <2>5
  <2>7. Steady("nr", F, P, Owed(c) + 1, s.readNext + 1)
    BY <1>0, <1>1, <1>4, <2>3, SteadyNext
  <2> QED  BY <1>2, <1>4, <2>2, <2>3, <2>6, <2>7
<1> QED  BY <1>3, <1>4 DEF Acking

(* and the frame itself, when it is the one that it expects. *)
Getting(c, d, f) ==
    \/ d.vr = c.vr /\ d.got = c.got
    \/ f.t = "I" /\ f.ns = c.vr /\ d.vr = (c.vr + 1) % 8 /\ d.got = Append(c.got, f.pay)

LEMMA GettingNumbers ==
    ASSUME NEW s, NEW c, NEW E, NEW R, Ends(s, c, E, R), NEW f, NEW F, NEW P,
           Behind(f, F, P, E, R), NEW d, Getting(c, d, f)
    PROVE  /\ s.lastAck + 1 <= Expects(d) /\ Expects(d) <= s.nextToSend /\ d.vr = Expects(d) % 8
           /\ Expects(c) <= Expects(d) /\ Expects(d) \in Nat /\ d.got \in Seq(Fragments)
           /\ \A i \in 1..Len(d.got) : d.got[i] = s.log[i]
           /\ Steady("ns", F, P, Expects(d) - 1, s.nextToSend)
           /\ \A g \in F : g.t = "I" /\ Expects(d) < s.nextToSend /\ g.ns = Expects(d) % 8
                              => g.pay = s.log[Len(d.got) + 1]
<1>0. /\ Abreast(s, c) /\ Same(s, c) /\ Outgoing(s, c, E, R)
      /\ Steady("ns", E, R, Expects(c) - 1, s.nextToSend)
  BY DEF Ends, Outgoing
<1>1. /\ s.lastAck \in Nat /\ s.nextToSend \in Nat /\ Expects(c) \in Nat /\ Len(c.got) \in Nat
      /\ Expects(c) <= s.nextToSend /\ s.lastAck + 1 <= Expects(c)
      /\ s.nextToSend = s.lastAck + 1 \/ s.nextToSend = s.lastAck + 2
      /\ Len(s.log) \in Nat
  BY <1>0, Numbers DEF Abreast
<1>2. Expects(c) = 32 + Len(c.got) /\ s.nextToSend = 32 + Len(s.log)
  BY <1>0 DEF Expects, FirstId, Abreast
<1>3. CASE d.vr = c.vr /\ d.got = c.got
  <2>1. Expects(d) = Expects(c)
    BY <1>3 DEF Expects
  <2>2. Fewer(F, P, E, R)
    BY DEF Behind, Fewer
  <2>3. Steady("ns", F, P, Expects(c) - 1, s.nextToSend)
    BY <1>0, <2>2, SteadyFewer
  <2>4. F \subseteq E
    BY DEF Behind
  <2>5. \A g \in F : g.t = "I" /\ Expects(d) < s.nextToSend /\ g.ns = Expects(d) % 8
                        => g.pay = s.log[Len(d.got) + 1]
    BY <1>0, <1>3, <2>1, <2>4 DEF Outgoing
  <2>6. d.vr = Expects(d) % 8
    BY <1>0, <1>3, <2>1 DEF Abreast
  <2>7. d.got \in Seq(Fragments) /\ \A i \in 1..Len(d.got) : d.got[i] = s.log[i]
    BY <1>0, <1>3 DEF Same
  <2>8. /\ s.lastAck + 1 <= Expects(d) /\ Expects(d) <= s.nextToSend
        /\ Expects(c) <= Expects(d) /\ Expects(d) \in Nat
    BY <1>1, <2>1
  <2>9. Steady("ns", F, P, Expects(d) - 1, s.nextToSend)
    BY <2>1, <2>3
  <2> QED  BY <2>5, <2>6, <2>7, <2>8, <2>9
<1>4. CASE f.t = "I" /\ f.ns = c.vr /\ d.vr = (c.vr + 1) % 8 /\ d.got = Append(c.got, f.pay)
  <2>1. f \in E /\ Has("ns", f) /\ f["ns"] = Expects(c) % 8
    BY <1>0, <1>4 DEF Behind, Has, Abreast
  <2>2. Expects(c) < s.nextToSend
    <3>1. (Expects(c) - 1) % 8 # Expects(c) % 8
      BY <1>1, Mod8
    <3>2. Expects(c) - 1 + 1 < s.nextToSend
      BY <1>0, <2>1, <3>1 DEF Steady
    <3> QED  BY <1>1, <3>2
  <2>3. s.nextToSend = Expects(c) + 1
    BY <1>1, <2>2
  <2>4. f.pay = s.log[Len(c.got) + 1]
    BY <1>0, <1>4, <2>1, <2>2 DEF Outgoing
  <2>5. Len(c.got) + 1 \in 1..Len(s.log)
    BY <1>1, <1>2, <2>2
  <2>6. f.pay \in Fragments
    <3>1. s.log \in Seq(Fragments)
      BY <1>0 DEF Same
    <3> QED  BY <2>4, <2>5, <3>1
  <2>7. /\ d.got \in Seq(Fragments) /\ Len(d.got) = Len(c.got) + 1
        /\ d.got[Len(c.got) + 1] = f.pay /\ \A i \in 1..Len(c.got) : d.got[i] = c.got[i]
    BY <1>0, <1>4, <2>6, AppendProperties DEF Same
  <2>8. Expects(d) = Expects(c) + 1
    BY <1>1, <1>2, <2>7 DEF Expects, FirstId
  <2>9. \A i \in 1..Len(d.got) : d.got[i] = s.log[i]
    <3>1. \A i \in 1..Len(d.got) : i \in 1..Len(c.got) \/ i = Len(c.got) + 1
      BY <1>1, <2>7
    <3> QED  BY <1>0, <2>4, <2>7, <3>1 DEF Same
  <2>10. Steady("ns", F, P, Expects(d) - 1, s.nextToSend)
    <3>1. PICK k \in Int : k = Expects(c) - 1
      BY <1>1
    <3>2. k + 1 = Expects(c) /\ Expects(d) - 1 = k + 1
      BY <1>1, <2>8, <3>1
    <3>3. f["ns"] = (k + 1) % 8 /\ Steady("ns", E, R, k, s.nextToSend)
      BY <1>0, <2>1, <3>1, <3>2
    <3>4. Steady("ns", F, P, k + 1, s.nextToSend)
      BY <2>1, <3>3, SteadyNext
    <3> QED  BY <3>2, <3>4
  <2>11. ~(Expects(d) < s.nextToSend)
    BY <1>1, <2>3, <2>8
  <2>12. d.vr = Expects(d) % 8
    BY <1>0, <1>1, <1>4, <2>8, Mod8 DEF Abreast
  <2>13. s.lastAck + 1 <= Expects(d) /\ Expects(d) <= s.nextToSend /\ Expects(c) <= Expects(d) /\ Expects(d) \in Nat
    BY <1>1, <2>3, <2>8
  <2> QED  BY <2>7, <2>9, <2>10, <2>11, <2>12, <2>13
<1> QED  BY <1>3, <1>4 DEF Getting

(* The controller takes a frame of a session. *)
LEMMA Hears ==
    ASSUME NEW s, NEW c, NEW E, NEW R, Ends(s, c, E, R), NEW f, NEW F, NEW P,
           Behind(f, F, P, E, R), NEW G, NEW Q, Session(s, c, E, G, Q),
           NEW d, d.log = c.log, d.next = c.next, Acking(c, d, f), Getting(c, d, f)
    PROVE  Ends(s, d, F, P) /\ Session(s, d, F, G, Q)
<1>0. Abreast(s, c) /\ Same(s, c) /\ Outgoing(s, c, E, R) /\ Incoming(s, c, G, Q)
  BY DEF Ends, Session
<1>1. /\ Owed(d) <= s.readNext /\ d.vs = Owed(d) % 8 /\ d.out \in BOOLEAN /\ (d.out => c.out)
      /\ Sends(d) = Sends(c) /\ Steady("nr", F, P, Owed(d), s.readNext + 1)
  BY AckingNumbers
<1>2. /\ s.lastAck + 1 <= Expects(d) /\ Expects(d) <= s.nextToSend /\ d.vr = Expects(d) % 8
      /\ Expects(c) <= Expects(d) /\ Expects(d) \in Nat /\ d.got \in Seq(Fragments)
      /\ \A i \in 1..Len(d.got) : d.got[i] = s.log[i]
      /\ Steady("ns", F, P, Expects(d) - 1, s.nextToSend)
      /\ \A g \in F : g.t = "I" /\ Expects(d) < s.nextToSend /\ g.ns = Expects(d) % 8
                         => g.pay = s.log[Len(d.got) + 1]
  BY GettingNumbers
<1>3. Abreast(s, d)
  BY <1>0, <1>1, <1>2 DEF Abreast
<1>4. Same(s, d)
  BY <1>0, <1>1, <1>2 DEF Same
<1>5. F \subseteq E
  BY DEF Behind
<1>6. Outgoing(s, d, F, P)
  BY <1>0, <1>1, <1>2, <1>5 DEF Outgoing
<1>7. Incoming(s, d, G, Q)
  <2>1. Steady("nr", G, Q, s.lastAck + 1, Expects(c) + 1) /\ s.lastAck \in Nat /\ Expects(c) \in Nat
    BY <1>0, Numbers DEF Incoming
  <2>2. Expects(c) + 1 \in Int /\ Expects(d) + 1 \in Int /\ Expects(c) + 1 <= Expects(d) + 1
        /\ s.lastAck + 1 \in Int
    BY <1>2, <2>1
  <2>3. Steady("nr", G, Q, s.lastAck + 1, Expects(d) + 1)
    BY <2>1, <2>2, SteadyLimit
  <2> QED  BY <1>0, <1>1, <2>3 DEF Incoming
<1> QED  BY <1>3, <1>4, <1>5, <1>6, <1>7 DEF Ends, Session

(* Frames are lost. *)
LEMMA OnFewer ==
    ASSUME NEW s, NEW c, NEW q, NEW h, On(s, c, q, h),
           NEW r, Fewer(Out(s, r), OutPairs(s, r), Out(s, q), OutPairs(s, q)),
           NEW i, Fewer(In(s, i), InPairs(s, i), In(s, h), InPairs(s, h))
    PROVE  On(s, c, r, i)
<1>1. Alike(s, s) /\ Counted(s, s)
  BY DEF Alike, Counted
<1>2. CASE LiveOn(s, c, q, h)
  <2>1. s.ctrl # "UA" /\ s.status = "UA_SENT" /\ Ends(s, c, Out(s, q), OutPairs(s, q))
        /\ Session(s, c, Out(s, q), In(s, h), InPairs(s, h))
    BY <1>2 DEF LiveOn, Ends
  <2>2. Ends(s, c, Out(s, r), OutPairs(s, r))
    BY <1>1, <2>1, EndsFewer
  <2>3. \A f \in Out(s, r) : f = BAD \/ f \in Out(s, q)
    BY DEF Fewer
  <2>4. Session(s, c, Out(s, r), In(s, i), InPairs(s, i))
    BY <1>1, <2>1, <2>3, SessionFewer
  <2> QED  BY <2>1, <2>2, <2>4 DEF On, LiveOn
<1>3. CASE Shaken(s, c, q, h)
  <2>1. s.ctrl # "UA" /\ s.status \notin {"UA_SENT", "SEND_UA_PENDING"} /\ Calling(s)
    BY <1>3 DEF Shaken, Ends
  <2>2. Shaken(s, c, r, i)
    BY <1>1, <1>3, <2>1, ShakenFewer
  <2> QED  BY <2>2 DEF On
<1> QED  BY <1>2, <1>3 DEF On

LEMMA SameFewer ==
    ASSUME NEW s, NEW q
    PROVE  /\ Fewer(Out(s, q), OutPairs(s, q), Out(s, q), OutPairs(s, q))
           /\ Fewer(In(s, q), InPairs(s, q), In(s, q), InPairs(s, q))
BY DEF Fewer

LEMMA LosesSync ==
    ASSUME On(host, ctrl, toCtrl, toHost), Line(toCtrl), Line(toHost), Loses
    PROVE  On(host, ctrl, toCtrl', toHost') /\ Line(toCtrl')
<1>1. PICK s, c, q, h : s = host /\ c = ctrl /\ q = toCtrl /\ h = toHost
  OBVIOUS
<1>2. CASE q # <<>> /\ toCtrl' = Tail(q) /\ toHost' = h
  <2>1. /\ Fewer(Out(s, Tail(q)), OutPairs(s, Tail(q)), Out(s, q), OutPairs(s, q))
        /\ Line(Tail(q))
    BY <1>1, <1>2, OutTail
  <2>2. On(s, c, Tail(q), h)
    BY <1>1, <2>1, SameFewer, OnFewer
  <2> QED  BY <1>1, <1>2, <2>1, <2>2
<1>3. CASE h # <<>> /\ toHost' = Tail(h) /\ toCtrl' = q
  <2>1. Fewer(In(s, Tail(h)), InPairs(s, Tail(h)), In(s, h), InPairs(s, h))
    BY <1>1, <1>3, InTail
  <2>2. On(s, c, q, Tail(h))
    BY <1>1, <2>1, SameFewer, OnFewer
  <2> QED  BY <1>1, <1>3, <2>2
<1> QED  BY <1>1, <1>2, <1>3 DEF Loses

(* It answers a frame. *)
CtrlFields == {"state", "vr", "vs", "out", "hold", "busy", "next", "got", "log"}

LEMMA AnswersSync ==
    ASSUME NEW s, NEW d, NEW q, On(s, d, q, toHost), Line(toHost), DOMAIN d = CtrlFields,
           d.next \in Nat, NEW t \in {"RR", "RNR", "REJ"}, Answers(d, t)
    PROVE  On(s, ctrl', q, toHost')
<1>1. PICK h, e : h = toHost /\ e = ctrl'
  OBVIOUS
<1>2. CASE Says(Ctrl(t, d.vr)) /\ ctrl' = d
  <2>1. PICK g : g = Ctrl(t, d.vr)
    OBVIOUS
  <2>2. Said(d, g)
    BY <2>1 DEF Said, Ctrl
  <2>3. toHost' = Append(h, g)
    BY <1>1, <1>2, <2>1 DEF Says
  <2> QED  BY <1>1, <1>2, <2>2, <2>3, Speaks
<1>3. CASE CanSend(d) /\ Says(NewFrame(d)) /\ ctrl' = SentFrame(d)
  <2>1. PICK pay : pay = [n |-> d.next, kind |-> PeerKinds[d.next]]
    OBVIOUS
  <2>2. PICK g : g = IFrame(d.vs, d.vr, pay)
    OBVIOUS
  <2>3. toHost' = Append(h, g) /\ ~d.out
    BY <1>1, <1>3, <2>1, <2>2 DEF Says, NewFrame, CanSend
  <2>4. /\ e.got = d.got /\ e.log = Append(d.log, d.next) /\ e.vr = d.vr /\ e.vs = d.vs
        /\ e.out = TRUE /\ e.next = d.next + 1
    BY <1>1, <1>3 DEF SentFrame, CtrlFields
  <2>5. On(s, e, q, h)
    BY <1>1, <2>3, <2>4, SentSpeaks
  <2>6. e.next - 1 = d.next
    BY <2>4
  <2>7. Said(e, g)
    BY <2>1, <2>2, <2>4, <2>6 DEF Said, IFrame
  <2> QED  BY <1>1, <2>3, <2>5, <2>7, Speaks
<1> QED  BY <1>2, <1>3 DEF Answers

(* It takes RST: the session begins again on its side. *)
LEMMA TakesRST ==
    ASSUME NEW s, NEW c, NEW q, NEW h, On(s, c, q, h), Line(q), Line(h), q # <<>>,
           Head(q).t = "RST", NEW d, Blank(d)
    PROVE  Shaken(s, d, Tail(q), Append(h, UA))
<1>1. PICK r, f, i : r = Tail(q) /\ f = Head(q) /\ i = Append(h, UA)
  OBVIOUS
<1>2. /\ Behind(f, Out(s, r), OutPairs(s, r), Out(s, q), OutPairs(s, q))
      /\ More(In(s, i), InPairs(s, i), In(s, h), InPairs(s, h), UA)
  BY <1>1, OutTail, InMore
<1>3. PICK F, P, E, R : /\ F = Out(s, r) /\ P = OutPairs(s, r)
                        /\ E = Out(s, q) /\ R = OutPairs(s, q)
  OBVIOUS
<1>4. /\ f \in E /\ F \subseteq E /\ P \subseteq R /\ \A g \in F : <<f, g>> \in R
      /\ f.t = "RST"
  BY <1>1, <1>2, <1>3 DEF Behind
<1>5. Shaken(s, c, q, h)
  BY <1>3, <1>4 DEF On, LiveOn, Session
<1>6. /\ s.status # "UA_SENT" /\ Ends(s, c, E, R) /\ Calling(s)
      /\ s.lastAck = FirstId - 1 /\ s.nextToSend = FirstId /\ s.readNext = FirstId
      /\ \A g \in E : g.t \in {"RST", "BAD"}
      /\ \A p \in R : ~(p[1].t = "RST" /\ p[2].t = "RST")
      /\ ~Asking(s) /\ \A g \in In(s, h) : g.t # "UA"
  BY <1>3, <1>4, <1>5 DEF Shaken, Shaking
<1>7. Opened(s)
  <2>1. Abreast(s, c) /\ Same(s, c)
    BY <1>6 DEF Ends
  <2>2. Len(s.log) \in Nat /\ Len(s.rlog) \in Nat
    BY <2>1, Numbers
  <2>3. s.nextToSend = FirstId + Len(s.log) /\ s.readNext = FirstId + Len(s.rlog)
    BY <2>1 DEF Abreast
  <2>4. Len(s.log) = 0 /\ Len(s.rlog) = 0
    BY <1>6, <2>2, <2>3 DEF FirstId
  <2>5. s.log \in Seq(Fragments) /\ s.rlog \in Seq(PeerPayloads)
    BY <2>1 DEF Same
  <2>6. s.log = <<>> /\ s.rlog = <<>>
    BY <2>4, <2>5, EmptySeq
  <2> QED  BY <1>6, <2>6 DEF Opened
<1>8. Abreast(s, d) /\ Same(s, d)
  BY <1>7, StartsAgain
<1>9. \A g \in F : g.t = "RST" \/ g.t = "BAD"
  BY <1>4, <1>6
<1>10. \A g \in F : g.t # "RST"
  BY <1>4, <1>6
<1>11. \A g \in F : ~Has("ns", g) /\ ~Has("nr", g)
  BY <1>9 DEF Has
<1>12. \A p \in P : p[1] \in F /\ p[2] \in F
  BY <1>2, <1>3 DEF Behind
<1>13. Outgoing(s, d, F, P)
  <2>1. \A k, lim : Steady("ns", F, P, k, lim) /\ Steady("nr", F, P, k, lim)
    BY <1>11, <1>12 DEF Steady
  <2>2. \A g \in F : g.t # "I"
    BY <1>9
  <2> QED  BY <1>9, <2>1, <2>2 DEF Outgoing
<1>14. Ends(s, d, F, P)
  BY <1>6, <1>8, <1>13 DEF Ends
<1>15. ASSUME NEW p \in InPairs(s, i), p[1].t = "UA" PROVE First(p[2], d)
  <2>1. p[1] \notin In(s, h)
    BY <1>6, <1>15
  <2>2. \A o \in InPairs(s, h) : o[1] \in In(s, h)
    BY DEF InPairs, In, Pairs
  <2>3. p[1] # BAD
    BY <1>15 DEF BAD
  <2>4. p[2] = BAD
    BY <1>2, <2>1, <2>2, <2>3 DEF More
  <2> QED  BY <2>4 DEF First, Has, BAD
<1>16. Shaking(s, d, F, P, In(s, i), InPairs(s, i))
  BY <1>4, <1>6, <1>9, <1>10, <1>15 DEF Shaking
<1> QED  BY <1>1, <1>3, <1>6, <1>14, <1>16 DEF Shaken

(* It takes a frame of the session. *)
LEMMA TakesFrame ==
    ASSUME NEW s, NEW c, NEW q, NEW h, On(s, c, q, h), Line(q), q # <<>>,
           Head(q).t \in {"I", "RR", "RNR", "REJ"}, NEW d, d.log = c.log, d.next = c.next,
           Acking(c, d, Head(q)), Getting(c, d, Head(q))
    PROVE  On(s, d, Tail(q), h)
<1>1. PICK r, f : r = Tail(q) /\ f = Head(q)
  OBVIOUS
<1>2. Behind(f, Out(s, r), OutPairs(s, r), Out(s, q), OutPairs(s, q))
  BY <1>1, OutTail
<1>3. LiveOn(s, c, q, h)
  <2>1. f \in Out(s, q) /\ f.t \notin {"RST", "BAD"}
    BY <1>1, <1>2 DEF Behind
  <2> QED  BY <2>1 DEF On, Shaken, Shaking
<1>4. PICK E, R, F, P, G, Q : /\ E = Out(s, q) /\ R = OutPairs(s, q) /\ F = Out(s, r)
                              /\ P = OutPairs(s, r) /\ G = In(s, h) /\ Q = InPairs(s, h)
  OBVIOUS
<1>5. Ends(s, c, E, R) /\ Session(s, c, E, G, Q) /\ Behind(f, F, P, E, R)
      /\ Acking(c, d, f) /\ Getting(c, d, f)
  BY <1>1, <1>2, <1>3, <1>4 DEF LiveOn
<1>6. Ends(s, d, F, P) /\ Session(s, d, F, G, Q)
  BY <1>5, Hears
<1> QED  BY <1>1, <1>3, <1>4, <1>6 DEF On, LiveOn

LEMMA AcksAcking ==
    ASSUME NEW c, DOMAIN c = CtrlFields, NEW f, Has("nr", f), NEW a, a = Acks(c, f.nr)
    PROVE  /\ Acking(c, a, f) /\ DOMAIN a = CtrlFields /\ a.vr = c.vr /\ a.got = c.got
           /\ a.log = c.log /\ a.next = c.next
BY DEF Acks, Acking, CtrlFields

LEMMA CtrlReceivesSync ==
    ASSUME NEW mode, Peer(ctrl, mode), On(host, ctrl, toCtrl, toHost), Line(toCtrl), Line(toHost),
           CtrlReceives
    PROVE  On(host, ctrl', toCtrl', toHost') /\ Line(toCtrl')
<1>1. PICK s, c, q, h, f, r : /\ s = host /\ c = ctrl /\ q = toCtrl /\ h = toHost
                              /\ f = Head(q) /\ r = Tail(q)
  OBVIOUS
<1>2. q # <<>> /\ CtrlTakes(f) /\ toCtrl' = r
  BY <1>1 DEF CtrlReceives
<1>3. /\ On(s, c, q, h) /\ Line(q) /\ Line(h) /\ DOMAIN c = CtrlFields /\ c.next \in Nat
  <2>1. \A n \in 1..Len(PeerKinds) + 1 : n \in Nat
    BY LinkAssumption
  <2> QED  BY <1>1, <2>1 DEF Peer, CtrlFields
<1>4. /\ Fewer(Out(s, r), OutPairs(s, r), Out(s, q), OutPairs(s, q)) /\ Line(r)
      /\ f \in Out(s, q)
  BY <1>1, <1>2, <1>3, OutTail DEF Behind
<1>5. f.t # "UA"
  BY <1>3, <1>4 DEF On, LiveOn, Shaken, Ends, Outgoing
<1>6. CASE f.t = "RST" /\ Says(UA) /\ ctrl' = Reset("up")
  <2>1. PICK d : d = ctrl'
    OBVIOUS
  <2>2. Blank(d)
    BY <1>6, <2>1 DEF Blank, Reset, Boot
  <2>3. Shaken(s, d, r, Append(h, UA))
    BY <1>1, <1>2, <1>3, <1>6, <2>2, TakesRST
  <2>4. toHost' = Append(h, UA)
    BY <1>1, <1>6 DEF Says
  <2> QED  BY <1>1, <1>2, <1>4, <2>1, <2>3, <2>4 DEF On
<1>7. CASE f.t = "I" /\ ctrl.state = "up" /\ CtrlTakesIFrame(Acks(ctrl, f.nr), f)
  <2>1. PICK a : a = Acks(c, f.nr)
    OBVIOUS
  <2>2. CtrlTakesIFrame(a, f) /\ Has("nr", f)
    BY <1>1, <1>7, <2>1 DEF Has
  <2>3. /\ Acking(c, a, f) /\ DOMAIN a = CtrlFields /\ a.vr = c.vr /\ a.got = c.got
        /\ a.log = c.log /\ a.next = c.next
    BY <1>3, <2>1, <2>2, AcksAcking
  <2>4. ASSUME NEW d, NEW t \in {"RR", "RNR", "REJ"}, Answers(d, t), DOMAIN d = CtrlFields,
               d.log = c.log, d.next = c.next, Acking(c, d, f), Getting(c, d, f)
        PROVE  On(s, ctrl', r, toHost')
    <3>1. On(s, d, r, h)
      BY <1>1, <1>2, <1>3, <1>7, <2>4, TakesFrame
    <3> QED  BY <1>1, <1>3, <2>4, <3>1, AnswersSync
  <2>5. PICK b : b = [a EXCEPT !.vr = (@ + 1) % 8, !.got = Append(@, f.pay)]
    OBVIOUS
  <2>6. \/ f.ns # a.vr /\ Answers(a, "REJ")
        \/ f.ns = a.vr /\ a.busy /\ Answers(a, "RNR")
        \/ f.ns = a.vr /\ ~a.busy /\ Answers(b, "RR")
    BY <2>2, <2>5 DEF CtrlTakesIFrame
  <2>7. ASSUME NEW t \in {"REJ", "RNR"}, Answers(a, t) PROVE On(s, ctrl', r, toHost')
    <3>1. Getting(c, a, f)
      BY <2>3 DEF Getting
    <3>2. t \in {"RR", "RNR", "REJ"}
      OBVIOUS
    <3> QED  BY <2>3, <2>4, <2>7, <3>1, <3>2
  <2>8. ASSUME f.ns = a.vr, NEW t \in {"RR"}, Answers(b, t) PROVE On(s, ctrl', r, toHost')
    <3>1. /\ DOMAIN b = CtrlFields /\ b.vr = (c.vr + 1) % 8 /\ b.got = Append(c.got, f.pay)
          /\ b.log = c.log /\ b.next = c.next /\ b.out = a.out /\ b.vs = a.vs
      BY <2>3, <2>5 DEF CtrlFields
    <3>2. Acking(c, b, f) /\ Getting(c, b, f)
      BY <1>7, <2>3, <2>8, <3>1 DEF Acking, Getting
    <3>3. t \in {"RR", "RNR", "REJ"}
      OBVIOUS
    <3> QED  BY <2>4, <2>8, <3>1, <3>2, <3>3
  <2>9. On(s, ctrl', r, toHost')
    BY <2>6, <2>7, <2>8
  <2> QED  BY <1>1, <1>2, <1>4, <2>9
<1>8. CASE /\ f.t \in {"RR", "REJ", "RNR"} /\ ctrl.state = "up" /\ Silent
           /\ ctrl' = [Acks(ctrl, f.nr) EXCEPT !.hold = f.t = "RNR"]
  <2>1. PICK a, d : a = Acks(c, f.nr) /\ d = ctrl'
    OBVIOUS
  <2>2. Has("nr", f) /\ f.t \in {"I", "RR", "RNR", "REJ"}
    BY <1>8 DEF Has
  <2>3. /\ Acking(c, a, f) /\ DOMAIN a = CtrlFields /\ a.vr = c.vr /\ a.got = c.got
        /\ a.log = c.log /\ a.next = c.next
    BY <1>3, <2>1, <2>2, AcksAcking
  <2>4. d = [a EXCEPT !.hold = f.t = "RNR"]
    BY <1>1, <1>8, <2>1
  <2>5. /\ d.vr = c.vr /\ d.got = c.got /\ d.log = c.log /\ d.next = c.next
        /\ d.out = a.out /\ d.vs = a.vs
    BY <2>3, <2>4 DEF CtrlFields
  <2>6. Acking(c, d, f) /\ Getting(c, d, f)
    BY <2>3, <2>5 DEF Acking, Getting
  <2>7. On(s, d, r, h)
    BY <1>1, <1>2, <1>3, <2>2, <2>5, <2>6, TakesFrame
  <2> QED  BY <1>1, <1>2, <1>4, <1>8, <2>1, <2>7 DEF Silent
<1>9. CASE UNCHANGED <<ctrl, toHost>>
  <2>1. On(s, c, r, h)
    BY <1>3, <1>4, SameFewer, OnFewer
  <2> QED  BY <1>1, <1>2, <1>4, <1>9, <2>1
<1> QED  BY <1>2, <1>5, <1>6, <1>7, <1>8, <1>9 DEF CtrlTakes, Silent

(* It speaks by itself. *)
LEMMA CtrlSpeaksSync ==
    ASSUME NEW mode, Peer(ctrl, mode), On(host, ctrl, toCtrl, toHost), Line(toHost),
           CtrlSends \/ CtrlResends \/ CtrlBusy \/ CtrlFree
    PROVE  On(host, ctrl', toCtrl, toHost') /\ ctrl'.got = ctrl.got
<1>1. PICK s, c, q, h, d : s = host /\ c = ctrl /\ q = toCtrl /\ h = toHost /\ d = ctrl'
  OBVIOUS
<1>2. /\ On(s, c, q, h) /\ Line(h) /\ DOMAIN c = CtrlFields /\ c.next \in Nat
  <2>1. \A n \in 1..Len(PeerKinds) + 1 : n \in Nat
    BY LinkAssumption
  <2> QED  BY <1>1, <2>1 DEF Peer, CtrlFields
<1>3. CASE CtrlSends
  <2>1. PICK pay : pay = [n |-> c.next, kind |-> PeerKinds[c.next]]
    OBVIOUS
  <2>2. PICK g : g = IFrame(c.vs, c.vr, pay)
    OBVIOUS
  <2>3. toHost' = Append(h, g) /\ ~c.out /\ d = SentFrame(c)
    BY <1>1, <1>3, <2>1, <2>2 DEF CtrlSends, Says, NewFrame, CanSend
  <2>4. /\ d.got = c.got /\ d.log = Append(c.log, c.next) /\ d.vr = c.vr /\ d.vs = c.vs
        /\ d.out = TRUE /\ d.next = c.next + 1
    BY <1>2, <2>3 DEF SentFrame, CtrlFields
  <2>5. On(s, d, q, h)
    BY <1>2, <2>3, <2>4, SentSpeaks
  <2>6. d.next - 1 = c.next
    BY <1>2, <2>4
  <2>7. Said(d, g)
    BY <2>1, <2>2, <2>4, <2>6 DEF Said, IFrame
  <2>8. On(s, d, q, Append(h, g))
    BY <1>2, <2>5, <2>7, Speaks
  <2> QED  BY <1>1, <2>3, <2>4, <2>8
<1>4. CASE CtrlResends
  <2>1. PICK n : n = c.next - 1
    OBVIOUS
  <2>2. PICK pay : pay = [n |-> n, kind |-> PeerKinds[n]]
    OBVIOUS
  <2>3. PICK g : g = IFrame(c.vs, c.vr, pay)
    OBVIOUS
  <2>4. toHost' = Append(h, g) /\ c.out /\ d = c
    BY <1>1, <1>4, <2>1, <2>2, <2>3 DEF CtrlResends, Says
  <2>5. Said(c, g)
    BY <2>1, <2>2, <2>3, <2>4 DEF Said, IFrame
  <2>6. On(s, c, q, Append(h, g))
    BY <1>2, <2>5, Speaks
  <2> QED  BY <1>1, <2>4, <2>6
<1>5. CASE CtrlBusy
  <2>1. d = [c EXCEPT !.busy = TRUE] /\ toHost' = h
    BY <1>1, <1>5 DEF CtrlBusy
  <2>2. CtrlAlike(c, d)
    BY <1>2, <2>1 DEF CtrlAlike, CtrlFields
  <2>3. On(s, d, q, h)
    BY <1>2, <2>2, PeerAlike
  <2> QED  BY <1>1, <2>1, <2>2, <2>3 DEF CtrlAlike
<1>6. CASE CtrlFree
  <2>1. PICK t \in {"RR", "RNR", "REJ"} : t = "RR"
    OBVIOUS
  <2>2. PICK g : g = Ctrl(t, c.vr)
    OBVIOUS
  <2>3. d = [c EXCEPT !.busy = FALSE] /\ toHost' = Append(h, g)
    BY <1>1, <1>6, <2>1, <2>2 DEF CtrlFree, Says
  <2>4. CtrlAlike(c, d)
    BY <1>2, <2>3 DEF CtrlAlike, CtrlFields
  <2>5. On(s, d, q, h)
    BY <1>2, <2>4, PeerAlike
  <2>6. Said(d, g)
    BY <2>2, <2>4 DEF Said, Ctrl, CtrlAlike
  <2>7. On(s, d, q, Append(h, g))
    BY <1>2, <2>5, <2>6, Speaks
  <2> QED  BY <1>1, <2>3, <2>4, <2>7 DEF CtrlAlike
<1> QED  BY <1>3, <1>4, <1>5, <1>6

-----------------------------------------------------------------------------
(* The invariant holds when nothing has been sent, *)
LEMMA SyncInit == Init => SyncInv
<1> SUFFICES ASSUME Init PROVE SyncInv
  OBVIOUS
<1>1. PICK k, u, c, q, tk : k = host /\ u = hci /\ c = ctrl /\ q = <<>> /\ tk = taken
  OBVIOUS
<1>2. /\ k = [Created EXCEPT !.status = "RESET_PENDING"] /\ u = HciCreated /\ c = Boot
      /\ toCtrl = q /\ toHost = q
  BY <1>1 DEF Init
<1>3. /\ k.status = "RESET_PENDING" /\ Opened(k) /\ k.connNext = "NONE"
      /\ k.ctrl = "NONE" /\ k.tx = NoTx /\ k.dfc = <<>>
  BY <1>2 DEF Created, Opened
<1>4. Fns(k.dfc) \subseteq {"T6"}
  BY <1>3 DEF Fns, Range
<1>5. Blank(c) /\ u.sent = <<>> /\ u.done = <<>>
  BY <1>2 DEF Blank, Boot, HciCreated
<1>6. u.done \in Seq(Nat) /\ Range(u.done) \subseteq tk
  BY <1>5 DEF Range
<1>7. Shaken(k, c, q, q) /\ Line(q) /\ Completes(k, u, c, tk)
  BY <1>1, <1>3, <1>4, <1>5, <1>6, FreshShaken
<1>8. On(host, ctrl, toCtrl, toHost) /\ Line(toCtrl) /\ Completes(host, hci, ctrl, taken)
  BY <1>1, <1>2, <1>7 DEF On
<1> QED  BY <1>8, LinkedOn DEF SyncInv, Line

(* and every step keeps it. *)
LEMMA SyncStep ==
    "T3" \notin Early => (LinkInv /\ QueueInv /\ QueueInv' /\ SyncInv /\ [Next]_vars => SyncInv')
<1> SUFFICES ASSUME "T3" \notin Early, LinkInv, QueueInv, QueueInv', SyncInv, [Next]_vars,
                    faults'["restart"] = 0
             PROVE  /\ On(host', ctrl', toCtrl', toHost') /\ Line(toCtrl')
                    /\ Completes(host', hci', ctrl', taken')
  BY LinkedOn DEF SyncInv, Line
<1>1. PICK mode \in Modes : mode = Mode
  BY ModeInModes
<1>2. /\ Settled(host, mode) /\ Old(host) /\ DOMAIN hci = HciFields
      /\ hci.connected => host.status = "UA_SENT"
  BY <1>1 DEF LinkInv, HostInv
<1>3. /\ Peer(ctrl, mode) /\ toHost \in Seq(Frames(mode)) /\ faults \in [FaultKinds -> Nat]
  BY <1>1 DEF LinkInv, PeerInv
<1>4. ~CtrlRestarts /\ faults["restart"] = 0
  <2>1. CtrlRestarts => faults'["restart"] = faults["restart"] + 1 /\ faults["restart"] \in Nat
    BY <1>3 DEF CtrlRestarts, Strikes, FaultKinds
  <2>2. ~CtrlRestarts
    <3>1. \A n \in Nat : n + 1 # 0
      OBVIOUS
    <3> QED  BY <2>1, <3>1
  <2>3. UNCHANGED faults \/ \E k \in FaultKinds \ {"restart"} : Strikes(k)
    BY <2>2 DEF Next, Host, Controller, Calls, Runs, RunsHci, FrameReadDone, ConnectWritten,
                FrameWritten, ResendTimer, ResetTimer, PiggyBackTimer, RRTimer, ResetIndication,
                StreamData, ConnectDone, Acknowledged, BufferFree, DataIsReady, PollWrite,
                PollRead, TimerExpires, UserWrites, UserResets, Connect, CtrlReceives, CtrlSends,
                CtrlResends, CtrlBusy, CtrlFree, CtrlRepeatsRST, Loses, FaultKinds, vars
  <2>4. faults["restart"] = 0
    BY <1>3, <2>3, RestartsKept
  <2> QED  BY <2>2, <2>4
<1>5. On(host, ctrl, toCtrl, toHost) /\ Line(toCtrl) /\ Completes(host, hci, ctrl, taken)
  BY <1>4, LinkedOn DEF SyncInv, Line
<1>6. Line(toHost)
  <2>1. PICK S : S = Frames(mode)
    OBVIOUS
  <2>2. PICK q \in Seq(S) : q = toHost
    BY <1>3, <2>1
  <2> QED  BY <2>2, LineOf
<1>7. PICK calm, still : calm = Calm /\ still = Calm'
  OBVIOUS
<1>8. /\ Queue(host, hci, calm) /\ Queue(host', hci', still) /\ asked \in Nat
      /\ ctrl.state # "rst"
      /\ \A e \in Range(host.dfc) : e.fn = "FrameRead" => NoRST(e.f)
  BY <1>4, <1>7 DEF QueueInv, Unbroken
<1>9. CASE Host \/ (\E t \in Timers : TimerExpires(t)) \/ UserWrites \/ UserResets
  BY <1>2, <1>3, <1>5, <1>8, <1>9, HostSync
<1>10. CASE CtrlReceives
  <2>1. On(host, ctrl', toCtrl', toHost') /\ Line(toCtrl')
    BY <1>3, <1>5, <1>6, <1>10, CtrlReceivesSync
  <2>2. /\ UNCHANGED <<host, hci>> /\ taken \subseteq taken'
        /\ \A p \in Range(ctrl'.got) : p.last => p.m \in taken'
    BY <1>10 DEF CtrlReceives
  <2>3. Completes(host', hci', ctrl', taken')
    BY <1>5, <2>2 DEF Completes
  <2> QED  BY <2>1, <2>2, <2>3
<1>11. CASE CtrlSends \/ CtrlResends \/ CtrlBusy \/ CtrlFree
  <2>1. On(host, ctrl', toCtrl, toHost') /\ ctrl'.got = ctrl.got
    BY <1>3, <1>5, <1>6, <1>11, CtrlSpeaksSync
  <2>2. UNCHANGED <<host, hci, toCtrl, taken>>
    BY <1>11 DEF CtrlSends, CtrlResends, CtrlBusy, CtrlFree
  <2>3. Completes(host', hci', ctrl', taken')
    BY <1>5, <2>1, <2>2 DEF Completes
  <2> QED  BY <1>5, <2>1, <2>2, <2>3
<1>12. ~CtrlRepeatsRST
  BY <1>8 DEF CtrlRepeatsRST
<1>13. CASE Loses
  <2>1. On(host, ctrl, toCtrl', toHost') /\ Line(toCtrl')
    BY <1>5, <1>6, <1>13, LosesSync
  <2>2. UNCHANGED <<host, hci, ctrl, taken>>
    BY <1>13 DEF Loses
  <2> QED  BY <1>5, <2>1, <2>2
<1>14. CASE UNCHANGED vars
  <2>1. UNCHANGED <<host, hci, toCtrl, toHost, ctrl, taken>>
    BY <1>14 DEF vars
  <2> QED  BY <1>5, <2>1
<1> QED  BY <1>4, <1>9, <1>10, <1>11, <1>12, <1>13, <1>14 DEF Next, Controller

(* The inductive invariant: the two ends of a session are no more than one *)
(* frame apart, the three-bit numbers on the lines are the last two, and   *)
(* none is behind a later one; before the session at most one RST or UA is *)
(* under way, and T3 is not set off while it is.                           *)
THEOREM SyncInvHolds ==
    ASSUME "T3" \notin Early
    PROVE  Spec => []SyncInv
<1>1. Init => LinkInv /\ QueueInv /\ SyncInv
  BY LinkInit, QueueInit, SyncInit
<1>2. LinkInv /\ QueueInv /\ SyncInv /\ [Next]_vars => (LinkInv /\ QueueInv /\ SyncInv)'
  BY LinkStep, QueueStep, SyncStep
<1> QED  BY <1>1, <1>2, PTL DEF Spec

(* FramesInOrder of LinkProperties, as long as the controller does not     *)
(* restart by itself: static_PSHDLCReadIFrame accepts the frames of the    *)
(* controller, and the controller those of static_PSHDLCWriteTransmit,     *)
(* each once and in order, however often they are lost or sent again.      *)
THEOREM FramesInOrderHolds ==
    ASSUME "T3" \notin Early
    PROVE  Spec => [](faults["restart"] = 0 => FramesInOrder)
<1>1. SyncInv => (faults["restart"] = 0 => FramesInOrder)
  <2> SUFFICES ASSUME SyncInv, faults["restart"] = 0, InSession
               PROVE  /\ IsPrefix(ctrl.got, host.log)
                      /\ IsPrefix([i \in DOMAIN host.rlog |-> host.rlog[i].n], ctrl.log)
    BY DEF FramesInOrder
  <2>1. PICK s, c : s = host /\ c = ctrl
    OBVIOUS
  <2>2. Abreast(s, c) /\ Same(s, c)
    BY <2>1 DEF SyncInv, Linked, Ends
  <2>3. /\ Expects(c) <= s.nextToSend /\ s.readNext <= Sends(c)
        /\ s.nextToSend = FirstId + Len(s.log) /\ s.readNext = FirstId + Len(s.rlog)
    BY <2>2 DEF Abreast
  <2>4. /\ s.log \in Seq(Fragments) /\ c.got \in Seq(Fragments) /\ c.log \in Seq(Nat)
        /\ s.rlog \in Seq(PeerPayloads) /\ \A i \in 1..Len(c.got) : c.got[i] = s.log[i]
        /\ \A i \in 1..Len(s.rlog) : s.rlog[i].n = c.log[i]
    BY <2>2 DEF Same
  <2>5. Len(c.got) <= Len(s.log) /\ Len(s.rlog) <= Len(c.log)
    BY <2>2, <2>3, Numbers DEF Expects, Sends, FirstId
  <2>6. PICK r : r = [i \in DOMAIN s.rlog |-> s.rlog[i].n]
    OBVIOUS
  <2>7. r \in Seq(Nat) /\ Len(r) = Len(s.rlog) /\ \A i \in 1..Len(r) : r[i] = c.log[i]
    <3>1. PICK n \in Nat : n = Len(s.rlog)
      BY <2>4, LenProperties
    <3>2. s.rlog \in [1..n -> PeerPayloads]
      BY <2>4, <3>1, LenProperties
    <3>3. r \in [1..n -> Nat]
      BY <2>6, <3>2 DEF PeerPayloads
    <3>4. r \in Seq(Nat)
      BY <3>3 DEF Seq
    <3>5. Len(r) = n
      BY <3>3, <3>4, LenProperties
    <3> QED  BY <2>4, <2>6, <3>1, <3>2, <3>4, <3>5
  <2>8. ASSUME NEW S, NEW a \in Seq(S), NEW T, NEW b \in Seq(T), Len(a) <= Len(b),
               \A i \in 1..Len(a) : a[i] = b[i]
        PROVE  IsPrefix(a, b)
    <3>1. SubSeq(a, 1, Len(a)) = SubSeq(b, 1, Len(a))
      BY <2>8 DEF SubSeq
    <3> QED  BY <2>8, <3>1 DEF IsPrefix
  <2>9. IsPrefix(c.got, s.log)
    BY <2>4, <2>5, <2>8
  <2>10. IsPrefix(r, c.log)
    BY <2>4, <2>5, <2>7, <2>8
  <2> QED  BY <2>1, <2>6, <2>9, <2>10
<1> QED  BY <1>1, SyncInvHolds, PTL

(* AckedFramesWereTaken of LinkProperties, as long as the controller does  *)
(* not restart by itself: the frames that static_PSHDLCReadAcknowledge     *)
(* removes from the window have been received.                             *)
THEOREM AckedFramesWereTakenHolds ==
    ASSUME "T3" \notin Early
    PROVE  Spec => [](faults["restart"] = 0 => AckedFramesWereTaken)
<1>1. SyncInv => (faults["restart"] = 0 => AckedFramesWereTaken)
  <2> SUFFICES ASSUME SyncInv, faults["restart"] = 0
               PROVE  host.lastAck + 1 - FirstId <= Len(ctrl.got)
    BY DEF AckedFramesWereTaken
  <2>1. PICK s, c : s = host /\ c = ctrl
    OBVIOUS
  <2>2. Abreast(s, c) /\ Same(s, c)
    BY <2>1 DEF SyncInv, Linked, Ends
  <2>3. s.lastAck \in Nat /\ Len(c.got) \in Nat /\ s.lastAck + 1 <= 32 + Len(c.got)
    BY <2>2, Numbers DEF Abreast, Expects, FirstId
  <2> QED  BY <2>1, <2>3 DEF FirstId
<1> QED  BY <1>1, SyncInvHolds, PTL

(* CompletedUnlessRestarted of LinkProperties: the messages that           *)
(* static_PHCIFrameWriteMachine completes have been received to the end.   *)
THEOREM CompletedUnlessRestartedHolds ==
    ASSUME "T3" \notin Early
    PROVE  Spec => []CompletedUnlessRestarted
<1>1. SyncInv => CompletedUnlessRestarted
  BY DEF SyncInv, Completes, CompletedUnlessRestarted, CompletedWasTaken
<1> QED  BY <1>1, SyncInvHolds, PTL
=============================================================================
