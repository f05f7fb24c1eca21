---------------------------- MODULE UtilityProofs ----------------------------
(***************************************************************************)
(* Proofs about the utility handler: its types, that only a read ends its  *)
(* loop, and that it takes none of the orders the core sends through the   *)
(* queue the two share.                                                    *)
(***************************************************************************)
EXTENDS UtilityHandler, SequenceTheorems, TLAPS

(* A row of the table names a handler. *)
LEMMA MatchingIsAHandler ==
  ASSUME NEW st, NEW ev
  PROVE  "none" \notin Matching(st, ev)
<1>1. DOMAIN trans = {1, 2, 3, 4, 5}
  BY DEF trans
<1>2. \A i \in DOMAIN trans : trans[i].fn # "none"
  BY <1>1 DEF trans
<1> QED  BY <1>2 DEF Matching

(* The table lookup keeps the types, whatever the local msg holds. *)
LEMMA LookupType ==
  ASSUME UtilityTypeOK, NEW u \in Residue, NEW t, Lookup([u EXCEPT !.type = t]) \/ Lookup(u)
  PROVE  /\ state' \in Int /\ event' \in Int /\ session' \in Int
         /\ upc' \in {"read", "write"} /\ (fn' # "none" <=> upc' = "write")
<1>1. u \in [type : Int, state : Int, event : Int]
  BY UtilityAssumption
<1> DEFINE m == [u EXCEPT !.type = t]
<1>2. m.state \in Int /\ m.event \in Int
  BY <1>1
<1>3. "none" \notin Matching(state', event')
  BY MatchingIsAHandler
<1>4. ASSUME NEW v, v.state \in Int, v.event \in Int, Lookup(v)
      PROVE  /\ state' \in Int /\ event' \in Int /\ session' \in Int
             /\ upc' \in {"read", "write"} /\ (fn' # "none" <=> upc' = "write")
  BY <1>3, <1>4, UtilityAssumption DEF Lookup, UtilityTypeOK
<1> HIDE DEF m
<1>5. CASE Lookup(m)
  BY <1>2, <1>4, <1>5
<1>6. CASE Lookup(u)
  BY <1>1, <1>4, <1>6
<1> QED  BY <1>5, <1>6 DEF m

(* msgrcv takes one message out of the queue; the others keep their order. *)
LEMMA Removed ==
  ASSUME NEW S, NEW s \in Seq(S), NEW i \in 1..Len(s)
  PROVE  /\ RemoveAt(s, i) \in Seq(S)
         /\ Len(RemoveAt(s, i)) = Len(s) - 1
         /\ \A j \in 1..Len(s) - 1 : RemoveAt(s, i)[j] = IF j < i THEN s[j] ELSE s[j + 1]
<1> DEFINE a == SubSeq(s, 1, i - 1)
           b == SubSeq(s, i + 1, Len(s))
<1>1. Len(s) \in Nat /\ \A j \in 1..Len(s) : s[j] \in S
  BY LenProperties, ElementOfSeq
<1>2. /\ a \in Seq(S) /\ Len(a) = i - 1
      /\ \A j \in 1..i - 1 : a[j] = s[j]
  <2>1. /\ a \in Seq(S) /\ Len(a) = (IF 1 <= i - 1 THEN (i - 1) - 1 + 1 ELSE 0)
        /\ \A j \in 1..(i - 1) - 1 + 1 : a[j] = s[1 + j - 1]
    BY <1>1, SubSeqProperties
  <2> HIDE DEF a
  <2> QED  BY <1>1, <2>1
<1>3. /\ b \in Seq(S) /\ Len(b) = Len(s) - i
      /\ \A j \in 1..Len(s) - i : b[j] = s[i + j]
  <2>1. /\ b \in Seq(S) /\ Len(b) = (IF i + 1 <= Len(s) THEN Len(s) - (i + 1) + 1 ELSE 0)
        /\ \A j \in 1..Len(s) - (i + 1) + 1 : b[j] = s[(i + 1) + j - 1]
    BY <1>1, SubSeqProperties
  <2> HIDE DEF b
  <2> QED  BY <1>1, <2>1
<1> HIDE DEF a, b
<1>4. /\ a \o b \in Seq(S) /\ Len(a \o b) = Len(a) + Len(b)
      /\ \A j \in 1..Len(a) + Len(b) : (a \o b)[j] = IF j <= Len(a) THEN a[j] ELSE b[j - Len(a)]
  BY <1>2, <1>3, ConcatProperties
<1>5. RemoveAt(s, i) = a \o b
  BY DEF RemoveAt, a, b
<1>6. Len(a \o b) = Len(s) - 1
  BY <1>1, <1>2, <1>3, <1>4
<1>7. ASSUME NEW j \in 1..Len(s) - 1
      PROVE  (a \o b)[j] = IF j < i THEN s[j] ELSE s[j + 1]
  <2>1. j \in 1..Len(a) + Len(b)
    BY <1>1, <1>2, <1>3
  <2>2. CASE j < i
    BY <1>1, <1>2, <1>4, <2>1, <2>2
  <2>3. CASE ~(j < i)
    <3>1. j - Len(a) \in 1..Len(s) - i /\ i + (j - Len(a)) = j + 1 /\ ~(j <= Len(a))
      BY <1>1, <1>2, <2>3
    <3> QED  BY <1>3, <1>4, <2>1, <2>3, <3>1
  <2> QED  BY <2>2, <2>3
<1> QED  BY <1>4, <1>5, <1>6, <1>7

(* Every step of the utility handler and of its neighbours keeps the types. *)
LEMMA UtilityStepType ==
  ASSUME UtilityTypeOK, [Next]_uvars
  PROVE  UtilityTypeOK'
<1>1. CASE GetMessageStateEvent
  <2>1. UNCHANGED <<ids, out, nsent, norders, delivered>>
    BY <1>1 DEF GetMessageStateEvent
  <2>2. PICK u \in Residue : Lookup(u) \/ \E t : Lookup([u EXCEPT !.type = t])
    BY <1>1 DEF GetMessageStateEvent
  <2>3. inq' \in Seq(Message)
    BY <1>1, Removed DEF GetMessageStateEvent, UtilityTypeOK
  <2> QED  BY <2>1, <2>2, <2>3, LookupType DEF UtilityTypeOK
<1>2. CASE HandlerWrite
  BY <1>2, UtilityAssumption DEF HandlerWrite, UtilityTypeOK, Returns
<1>3. CASE Stop
  BY <1>3 DEF Stop, UtilityTypeOK
<1>4. CASE CoreCreates
  BY <1>4 DEF CoreCreates, UtilityTypeOK
<1>5. ASSUME NEW m \in Message, Enqueue(m), nsent' \in Nat, norders' \in Nat
      PROVE  UtilityTypeOK'
  <2>1. Append(inq, m) \in Seq(Message)
    BY AppendProperties DEF UtilityTypeOK
  <2> QED  BY <1>5, <2>1 DEF Enqueue, UtilityTypeOK
<1>6. CASE CoreOrders
  <2>1. [session |-> 34567, type |-> 0, whole |-> TRUE, n |-> norders + 1] \in Message
    BY DEF Message, UtilityTypeOK
  <2> QED  BY <1>5, <1>6, <2>1 DEF CoreOrders, UtilityTypeOK
<1>7. CASE SendsToUtility
  <2>1. \A t \in {1, 2}, w \in BOOLEAN :
           [session |-> 1, type |-> t, whole |-> w, n |-> 0] \in Message
    BY DEF Message
  <2> QED  BY <1>5, <1>7, <2>1 DEF SendsToUtility, UtilityTypeOK
<1>8. CASE CoreReads
  BY <1>8, UtilityAssumption DEF CoreReads, UtilityTypeOK
<1>9. CASE DeviceReads
  <2>1. Head(inq) \in Message /\ Tail(inq) \in Seq(Message)
    BY <1>9, HeadTailProperties DEF DeviceReads, UtilityTypeOK
  <2>2. Head(inq).n \in Nat
    BY <2>1 DEF Message
  <2>3. delivered' \in Seq(Nat)
    BY <1>9, <2>2, AppendProperties DEF DeviceReads, UtilityTypeOK
  <2> QED  BY <1>9, <2>1, <2>3 DEF DeviceReads, UtilityTypeOK
<1>10. CASE UNCHANGED uvars
  BY <1>10 DEF uvars, UtilityTypeOK
<1> QED  BY <1>1, <1>2, <1>3, <1>4, <1>6, <1>7, <1>8, <1>9, <1>10 DEF Next

(* Type correctness of the utility handler. *)
THEOREM UtilityTypeCorrect == Spec => []UtilityTypeOK
<1>1. Init => UtilityTypeOK
  BY UtilityAssumption, EmptySeq DEF Init, UtilityTypeOK, ST_INIT
<1> QED  BY <1>1, UtilityStepType, PTL DEF Spec

(* Only GetMessageStateEvent ends the loop: no handler returns ST_TERM, and
   EndComm, which returns main's state, runs only in a state that is not it. *)
Running == upc = "write" => state # ST_TERM

(* Every step keeps Running, and only a read leads into the last state. *)
LEMMA RunningStep ==
  ASSUME Running, [Next]_uvars
  PROVE  /\ Running'
         /\ state # ST_TERM /\ state' = ST_TERM => upc = "read"
<1>1. CASE GetMessageStateEvent
  <2>1. PICK m : Lookup(m)
    BY <1>1 DEF GetMessageStateEvent
  <2>2. \A i \in DOMAIN trans : trans[i].st # ST_TERM
    <3>1. DOMAIN trans = {1, 2, 3, 4, 5}
      BY DEF trans
    <3> QED  BY <3>1 DEF trans, ST_TERM, ST_INIT, ST_AUTH, ST_READ, ST_END, ST_ANY
  <2>3. Matching(ST_TERM, event') = {}
    BY <2>2 DEF Matching
  <2> QED  BY <1>1, <2>1, <2>3 DEF GetMessageStateEvent, Lookup, Running
<1>2. CASE HandlerWrite
  BY <1>2 DEF HandlerWrite, Returns, Running, ST_TERM
<1>3. CASE Stop \/ CoreCreates \/ CoreOrders \/ CoreReads \/ SendsToUtility \/ DeviceReads
  <2>1. state' = state /\ (upc' = upc \/ upc' = "stopped")
    <3>1. CASE Stop \/ CoreCreates \/ CoreReads \/ DeviceReads
      BY <3>1 DEF Stop, CoreCreates, CoreReads, DeviceReads
    <3>2. CASE CoreOrders
      BY <3>2 DEF CoreOrders, Enqueue
    <3>3. CASE SendsToUtility
      BY <3>3 DEF SendsToUtility, Enqueue
    <3> QED  BY <1>3, <3>1, <3>2, <3>3
  <2> QED  BY <2>1 DEF Running
<1>4. CASE UNCHANGED uvars
  BY <1>4 DEF uvars, Running
<1> QED  BY <1>1, <1>2, <1>3, <1>4 DEF Next

(* No handler ends the utility handler's loop. *)
THEOREM OnlyAReadEndsTheLoopHolds == Spec => OnlyAReadEndsTheLoop
<1>1. Init => Running
  BY DEF Init, Running
<1>2. Running /\ [Next]_uvars =>
        Running' /\ [state # ST_TERM /\ state' = ST_TERM => upc = "read"]_uvars
  BY RunningStep
<1> QED  BY <1>1, <1>2, PTL DEF Spec, OnlyAReadEndsTheLoop

-----------------------------------------------------------------------------
(* The orders are numbered as they are sent, and none of them has the message
   type the utility handler asks for. *)
OrderInv ==
  /\ OrdersReachDeviceInOrder
  /\ Len(delivered) <= norders
  /\ \A i \in 1..Len(inq) : inq[i].n # 0 => inq[i].session # 1

(* Taking a message that is no order out of the queue keeps them in order. *)
LEMMA OrderKeptByRead ==
  ASSUME UtilityTypeOK, OrderInv, NEW i \in 1..Len(inq), inq[i].session = 1,
         inq' = RemoveAt(inq, i), UNCHANGED <<norders, delivered>>
  PROVE  OrderInv'
<1>1. /\ Len(inq) \in Nat /\ Len(inq') = Len(inq) - 1
      /\ \A j \in 1..Len(inq') : inq'[j] = IF j < i THEN inq[j] ELSE inq[j + 1]
  BY Removed, LenProperties DEF UtilityTypeOK
<1>2. inq[i].n = 0
  BY DEF OrderInv
<1>3. \A j \in 1..Len(inq') :
         /\ (IF j < i THEN j ELSE j + 1) \in 1..Len(inq)
         /\ inq'[j] = inq[IF j < i THEN j ELSE j + 1]
  BY <1>1
<1>4. \A j \in 1..Len(inq) : j # i =>
         /\ (IF j < i THEN j ELSE j - 1) \in 1..Len(inq')
         /\ inq'[IF j < i THEN j ELSE j - 1] = inq[j]
  BY <1>1
<1>5. {inq'[j].n : j \in 1..Len(inq')} \ {0} = {inq[j].n : j \in 1..Len(inq)} \ {0}
  <2>1. ASSUME NEW x, x # 0, NEW j \in 1..Len(inq'), x = inq'[j].n
        PROVE  \E k \in 1..Len(inq) : x = inq[k].n
    BY <1>3, <2>1
  <2>2. ASSUME NEW x, x # 0, NEW j \in 1..Len(inq), x = inq[j].n
        PROVE  \E k \in 1..Len(inq') : x = inq'[k].n
    <3>1. j # i
      BY <1>2, <2>2
    <3> QED  BY <1>4, <2>2, <3>1
  <2> DEFINE s == {inq[j].n : j \in 1..Len(inq)} \ {0}
             t == {inq'[j].n : j \in 1..Len(inq')} \ {0}
  <2>3. \A x : x \in t <=> x # 0 /\ \E j \in 1..Len(inq') : x = inq'[j].n
    OBVIOUS
  <2>4. \A x : x \in s <=> x # 0 /\ \E j \in 1..Len(inq) : x = inq[j].n
    OBVIOUS
  <2> HIDE DEF s, t
  <2>5. \A x : x \in t <=> x \in s
    <3>1. ASSUME NEW x, x \in t PROVE x \in s
      <4>1. x # 0 /\ \E j \in 1..Len(inq') : x = inq'[j].n
        BY <2>3, <3>1
      <4>2. \E k \in 1..Len(inq) : x = inq[k].n
        BY <2>1, <4>1
      <4> QED  BY <2>4, <4>1, <4>2
    <3>2. ASSUME NEW x, x \in s PROVE x \in t
      <4>1. x # 0 /\ \E j \in 1..Len(inq) : x = inq[j].n
        BY <2>4, <3>2
      <4>2. \E k \in 1..Len(inq') : x = inq'[k].n
        BY <2>2, <4>1
      <4> QED  BY <2>3, <4>1, <4>2
    <3> QED  BY <3>1, <3>2
  <2>6. t = s
    BY <2>5
  <2> QED  BY <2>6 DEF s, t
<1>6. ASSUME NEW j \in 1..Len(inq'), NEW k \in 1..Len(inq'), j < k,
             inq'[j].n # 0, inq'[k].n # 0
      PROVE  inq'[j].n < inq'[k].n
  <2> DEFINE jj == IF j < i THEN j ELSE j + 1
             kk == IF k < i THEN k ELSE k + 1
  <2>1. /\ jj \in 1..Len(inq) /\ kk \in 1..Len(inq)
        /\ inq'[j] = inq[jj] /\ inq'[k] = inq[kk] /\ jj < kk
    BY <1>3, <1>6
  <2> HIDE DEF jj, kk
  <2> QED  BY <1>6, <2>1 DEF OrderInv, OrdersReachDeviceInOrder
<1>7. \A j \in 1..Len(inq') : inq'[j].n # 0 => inq'[j].session # 1
  BY <1>3 DEF OrderInv
<1> QED  BY <1>5, <1>6, <1>7 DEF OrderInv, OrdersReachDeviceInOrder

(* A message sent to the queue: an order gets the next number. *)
LEMMA OrderKeptBySend ==
  ASSUME UtilityTypeOK, OrderInv, NEW m \in Message, Enqueue(m),
         \/ norders' = norders + 1 /\ m.n = norders + 1 /\ m.session # 1
         \/ norders' = norders /\ m.n = 0
  PROVE  OrderInv'
<1>1. /\ Len(inq) \in Nat /\ Len(inq') = Len(inq) + 1
      /\ \A j \in 1..Len(inq) : inq'[j] = inq[j]
      /\ inq'[Len(inq) + 1] = m
      /\ delivered' = delivered
  BY AppendProperties, LenProperties DEF UtilityTypeOK, Enqueue
<1>2. norders \in Nat /\ Len(delivered) \in Nat /\ Len(delivered) <= norders
  BY LenProperties DEF UtilityTypeOK, OrderInv
<1> DEFINE s == {inq[j].n : j \in 1..Len(inq)} \ {0}
           t == {inq'[j].n : j \in 1..Len(inq')} \ {0}
<1>3. s = Len(delivered) + 1..norders
  BY DEF OrderInv, OrdersReachDeviceInOrder
<1>4. t = IF m.n = 0 THEN s ELSE s \cup {m.n}
  <2>1. 1..Len(inq') = 1..Len(inq) \cup {Len(inq) + 1}
    BY <1>1
  <2>2. \A j \in 1..Len(inq) : inq'[j].n = inq[j].n
    BY <1>1
  <2>3. \A x : x \in t <=> x # 0 /\ \E j \in 1..Len(inq') : x = inq'[j].n
    OBVIOUS
  <2>4. \A x : x \in s <=> x # 0 /\ \E j \in 1..Len(inq) : x = inq[j].n
    OBVIOUS
  <2>5. \A x : x \in t <=> x # 0 /\ (x = m.n \/ \E j \in 1..Len(inq) : x = inq[j].n)
    BY <1>1, <2>1, <2>2, <2>3
  <2> HIDE DEF s, t
  <2> QED  BY <2>4, <2>5
<1> HIDE DEF s, t
<1>5. t = Len(delivered) + 1..norders'
  <2>1. CASE m.n = 0
    BY <1>2, <1>3, <1>4, <2>1
  <2>2. CASE m.n # 0
    BY <1>2, <1>3, <1>4, <2>2
  <2> QED  BY <2>1, <2>2
<1>6. \A j \in 1..Len(inq) : inq[j].n # 0 => inq[j].n <= norders
  <2>1. \A j \in 1..Len(inq) : inq[j].n # 0 => inq[j].n \in s
    BY DEF s
  <2> QED  BY <1>2, <1>3, <2>1
<1>7. ASSUME NEW j \in 1..Len(inq'), NEW k \in 1..Len(inq'), j < k,
             inq'[j].n # 0, inq'[k].n # 0
      PROVE  inq'[j].n < inq'[k].n
  <2>1. j \in 1..Len(inq) /\ inq'[j] = inq[j]
    BY <1>1, <1>7
  <2>2. CASE k \in 1..Len(inq)
    BY <1>1, <1>7, <2>1, <2>2 DEF OrderInv, OrdersReachDeviceInOrder
  <2>3. CASE k = Len(inq) + 1
    <3>1. inq'[k] = m /\ m.n = norders + 1
      BY <1>1, <1>7, <2>3
    <3>2. inq[j].n \in Nat /\ inq[j].n <= norders
      <4>1. inq[j] \in Message
        BY <2>1, ElementOfSeq DEF UtilityTypeOK
      <4> QED  BY <1>6, <1>7, <2>1, <4>1 DEF Message
    <3> QED  BY <1>2, <2>1, <3>1, <3>2
  <2> QED  BY <1>1, <2>2, <2>3
<1>8. ASSUME NEW j \in 1..Len(inq'), inq'[j].n # 0 PROVE inq'[j].session # 1
  <2>1. CASE j \in 1..Len(inq)
    BY <1>1, <1>8, <2>1 DEF OrderInv
  <2>2. CASE j = Len(inq) + 1
    BY <1>1, <1>8, <2>2
  <2> QED  BY <1>1, <2>1, <2>2
<1>9. /\ \A j \in 1..Len(delivered') : delivered'[j] = j
      /\ Len(delivered') <= norders'
  BY <1>1, <1>2 DEF OrderInv, OrdersReachDeviceInOrder
<1>10. {inq'[j].n : j \in 1..Len(inq')} \ {0} = Len(delivered') + 1..norders'
  BY <1>1, <1>5 DEF t
<1> QED  BY <1>7, <1>8, <1>9, <1>10 DEF OrderInv, OrdersReachDeviceInOrder

(* The device wrapper's read: an order at the head of the queue is the next. *)
LEMMA OrderKeptByDevice ==
  ASSUME UtilityTypeOK, OrderInv, DeviceReads
  PROVE  OrderInv'
<1>1. inq \in Seq(Message) /\ inq # << >> /\ inq' = Tail(inq)
  BY DEF UtilityTypeOK, DeviceReads
<1>2. /\ Len(inq) \in Nat \ {0} /\ Head(inq) = inq[1] /\ Len(inq') = Len(inq) - 1
      /\ \A j \in 1..Len(inq') : j + 1 \in 1..Len(inq) /\ inq'[j] = inq[j + 1]
  BY <1>1, EmptySeq, HeadTailProperties
<1>3. /\ norders \in Nat /\ Len(delivered) \in Nat /\ Len(delivered) <= norders
      /\ norders' = norders /\ delivered \in Seq(Nat)
  BY LenProperties DEF UtilityTypeOK, OrderInv, DeviceReads
<1>4. \A j \in 1..Len(inq) : inq[j].n \in Nat
  <2>1. \A j \in 1..Len(inq) : inq[j] \in Message
    BY <1>1, ElementOfSeq
  <2> QED  BY <2>1 DEF Message
<1> DEFINE s == {inq[j].n : j \in 1..Len(inq)} \ {0}
           t == {inq'[j].n : j \in 1..Len(inq')} \ {0}
           n == inq[1].n
<1>5. s = Len(delivered) + 1..norders
  BY DEF OrderInv, OrdersReachDeviceInOrder
<1>6. \A x : x \in t <=> x # 0 /\ \E j \in 1..Len(inq') : x = inq'[j].n
  OBVIOUS
<1>7. \A x : x \in s <=> x # 0 /\ \E j \in 1..Len(inq) : x = inq[j].n
  OBVIOUS
<1> HIDE DEF s, t
<1>8. \A j \in 1..Len(inq) : j # 1 => j - 1 \in 1..Len(inq') /\ inq'[j - 1] = inq[j]
  BY <1>2
<1>9. \A x : x \in s <=> x \in t \/ (x # 0 /\ x = n)
  <2>1. ASSUME NEW x \in s PROVE x \in t \/ (x # 0 /\ x = n)
    <3>1. PICK j \in 1..Len(inq) : x = inq[j].n /\ x # 0
      BY <1>7, <2>1
    <3> QED  BY <1>6, <1>8, <3>1
  <2>2. ASSUME NEW x \in t PROVE x \in s
    BY <1>2, <1>6, <1>7, <2>2
  <2>3. n # 0 => n \in s
    BY <1>2, <1>7
  <2> QED  BY <2>1, <2>2, <2>3
<1>10. \A x \in t : n # 0 => n < x
  <2> SUFFICES ASSUME NEW x \in t, n # 0 PROVE n < x
    OBVIOUS
  <2>1. PICK j \in 1..Len(inq') : x = inq'[j].n /\ x # 0
    BY <1>6
  <2>2. j + 1 \in 1..Len(inq) /\ x = inq[j + 1].n /\ 1 < j + 1 /\ 1 \in 1..Len(inq)
    BY <1>2, <2>1
  <2> QED  BY <2>1, <2>2 DEF OrderInv, OrdersReachDeviceInOrder
<1>11. n \in Nat
  BY <1>2, <1>4
<1>12. /\ \A j \in 1..Len(delivered') : delivered'[j] = j
       /\ Len(delivered') <= norders'
       /\ t = Len(delivered') + 1..norders'
  <2>1. CASE n = 0
    <3>1. delivered' = delivered
      BY <1>2, <2>1 DEF DeviceReads
    <3>2. t = s
      BY <1>6, <1>9, <2>1
    <3> QED  BY <1>3, <1>5, <3>1, <3>2 DEF OrderInv, OrdersReachDeviceInOrder
  <2>2. CASE n # 0
    <3>1. n \in s
      BY <1>9, <2>2
    <3>2. Len(delivered) + 1 <= n /\ n <= norders
      BY <1>3, <1>5, <1>11, <3>1
    <3>3. n = Len(delivered) + 1
      <4>1. Len(delivered) + 1 \in s
        BY <1>3, <1>5, <1>11, <3>2
      <4>2. Len(delivered) + 1 \in t \/ Len(delivered) + 1 = n
        BY <1>9, <4>1
      <4> QED  BY <1>3, <1>10, <1>11, <2>2, <3>2, <4>2
    <3>4. n \notin t
      BY <1>10, <1>11, <2>2
    <3>5. t = s \ {n}
      BY <1>9, <3>4
    <3>6. t = n + 1..norders
      BY <1>3, <1>5, <1>11, <3>3, <3>5
    <3>7. delivered' = Append(delivered, n)
      BY <1>2, <1>11, <2>2 DEF DeviceReads
    <3>8. /\ Len(delivered') = Len(delivered) + 1
          /\ \A j \in 1..Len(delivered) : delivered'[j] = delivered[j]
          /\ delivered'[Len(delivered) + 1] = n
      BY <1>3, <1>11, <3>7, AppendProperties
    <3>9. \A j \in 1..Len(delivered') : delivered'[j] = j
      <4> SUFFICES ASSUME NEW j \in 1..Len(delivered') PROVE delivered'[j] = j
        OBVIOUS
      <4>1. j \in 1..Len(delivered) \/ j = Len(delivered) + 1
        BY <1>3, <3>8
      <4> QED  BY <3>3, <3>8, <4>1 DEF OrderInv, OrdersReachDeviceInOrder
    <3> QED  BY <1>3, <3>2, <3>3, <3>6, <3>8, <3>9
  <2> QED  BY <2>1, <2>2
<1>13. ASSUME NEW j \in 1..Len(inq'), NEW k \in 1..Len(inq'), j < k,
             inq'[j].n # 0, inq'[k].n # 0
      PROVE  inq'[j].n < inq'[k].n
  <2>1. /\ j + 1 \in 1..Len(inq) /\ k + 1 \in 1..Len(inq) /\ j + 1 < k + 1
        /\ inq'[j] = inq[j + 1] /\ inq'[k] = inq[k + 1]
    BY <1>2, <1>13
  <2> QED  BY <1>13, <2>1 DEF OrderInv, OrdersReachDeviceInOrder
<1>14. \A j \in 1..Len(inq') : inq'[j].n # 0 => inq'[j].session # 1
  BY <1>2 DEF OrderInv
<1> QED  BY <1>12, <1>13, <1>14 DEF OrderInv, OrdersReachDeviceInOrder, t

(* The device wrapper gets the orders of the core, all and in their order,
   although the utility handler reads from the same queue. *)
THEOREM OrdersReachDeviceInOrderHolds == Spec => []OrdersReachDeviceInOrder
<1>1. Init => OrderInv
  <2> SUFFICES ASSUME Init PROVE OrderInv
    OBVIOUS
  <2>1. inq = << >> /\ delivered = << >> /\ norders = 0 /\ Len(inq) = 0 /\ Len(delivered) = 0
    BY DEF Init
  <2> QED  BY <2>1 DEF OrderInv, OrdersReachDeviceInOrder
<1>2. UtilityTypeOK /\ OrderInv /\ [Next]_uvars => OrderInv'
  <2> SUFFICES ASSUME UtilityTypeOK, OrderInv, [Next]_uvars PROVE OrderInv'
    OBVIOUS
  <2>1. ASSUME UNCHANGED <<inq, norders, delivered>> PROVE OrderInv'
    BY <2>1 DEF OrderInv, OrdersReachDeviceInOrder
  <2>2. CASE GetMessageStateEvent
    BY <2>1, <2>2, OrderKeptByRead DEF GetMessageStateEvent, FirstForUs
  <2>3. CASE CoreOrders
    <3>1. [session |-> 34567, type |-> 0, whole |-> TRUE, n |-> norders + 1] \in Message
      BY DEF Message, UtilityTypeOK
    <3> QED  BY <2>3, <3>1, OrderKeptBySend DEF CoreOrders
  <2>4. CASE SendsToUtility
    <3>1. \A t \in {1, 2}, w \in BOOLEAN :
             [session |-> 1, type |-> t, whole |-> w, n |-> 0] \in Message
      BY DEF Message
    <3> QED  BY <2>4, <3>1, OrderKeptBySend DEF SendsToUtility
  <2>5. CASE DeviceReads
    BY <2>5, OrderKeptByDevice
  <2>6. CASE HandlerWrite \/ Stop \/ CoreCreates \/ CoreReads \/ UNCHANGED uvars
    BY <2>1, <2>6 DEF HandlerWrite, Stop, CoreCreates, CoreReads, uvars
  <2> QED  BY <2>2, <2>3, <2>4, <2>5, <2>6 DEF Next
<1>3. OrderInv => OrdersReachDeviceInOrder
  BY DEF OrderInv
<1> QED  BY <1>1, <1>2, <1>3, UtilityTypeCorrect, PTL DEF Spec
=============================================================================
