------------------------ MODULE DeferredCallsProofs ------------------------
(***************************************************************************)
(* What the operations on the circular array of deferred calls do to the   *)
(* calls held, for every size of the array, and what the loop of           *)
(* PNALMultiTimerPoll does to the timers, for every number of timers.      *)
(***************************************************************************)
EXTENDS MultiTimer, Integers, NaturalsInduction, WellFoundedInduction, TLAPS

Calls == [type : CallTypes, fn : BOOLEAN]

Queue ==
    {q \in [list : UNION {[0..n - 1 -> Calls] : n \in Nat},
            first : Nat, number : Nat, size : Nat] :
       /\ q.list \in [0..q.size - 1 -> Calls]
       /\ q.first < q.size /\ q.number <= q.size}

Hal ==
    [q : Queue, abs : [TimerIds -> 0..Mod - 1], last : 0..Mod - 1, value : 0..Mod - 1,
     expired : BOOLEAN, sock : SUBSET {"KICK", "TIMER"},
     writing : {"nothing", "value", "flag"}, read : 0..Mod - 1]

(* A queue is known by its fields. *)
LEMMA QueueByFields ==
    ASSUME NEW list, NEW first \in Nat, NEW number \in Nat, NEW size \in Nat,
           list \in [0..size - 1 -> Calls], first < size, number <= size
    PROVE  [list |-> list, first |-> first, number |-> number, size |-> size] \in Queue
  BY DEF Queue

(* And the other way round. *)
LEMMA QueueFields ==
    ASSUME NEW q \in Queue
    PROVE  /\ q = [list |-> q.list, first |-> q.first, number |-> q.number, size |-> q.size]
           /\ q.list \in [0..q.size - 1 -> Calls]
           /\ q.first \in Nat /\ q.number \in Nat /\ q.size \in Nat
           /\ q.first < q.size /\ q.number <= q.size
           /\ \A i \in 0..q.number - 1 : Slot(q, i) \in 0..q.size - 1 /\ At(q, i) \in Calls
  BY DEF Queue, Slot, At

(* PNALDFCCreate makes an empty queue. *)
LEMMA CreatedQueue == PNALDFCCreate \in Queue /\ PNALDFCCreate.number = 0
<1>1. NoCall \in Calls
  BY TimerAssumption DEF NoCall, Calls, CallTypes, Frame
<1> QED  BY <1>1, QueueByFields, DfcAssumption DEF PNALDFCCreate

(* The larger array of static_PNALDFCPostInternal holds the same calls in  *)
(* the same order, whether or not they wrapped around.                     *)
LEMMA GrownHoldsTheSame ==
    ASSUME NEW q \in Queue, q.number = q.size
    PROVE  /\ Grown(q) \in Queue
           /\ Grown(q).number = q.number /\ Grown(q).size > q.size
           /\ \A i \in 0..q.number - 1 : At(Grown(q), i) = At(q, i)
<1> DEFINE D == P_NAL_DFC_QUEUE_DELTA
           wraps == q.first + q.number > q.size
           gap == IF wraps THEN q.first ELSE q.size
           list == [i \in 0..q.size + D - 1 |->
                      CASE i < gap -> q.list[i]
                        [] i \in gap..gap + D - 1 -> NoCall
                        [] OTHER -> q.list[i - D]]
           first == IF wraps THEN q.first + D ELSE q.first
<1>1. Grown(q) = [list |-> list, first |-> first, number |-> q.number, size |-> q.size + D]
  BY DEF Grown
<1>2. D \in Nat /\ D > 0
  BY DfcAssumption
<1>3. list \in [0..q.size + D - 1 -> Calls]
  <2>1. NoCall \in Calls
    BY TimerAssumption DEF NoCall, Calls, CallTypes, Frame
  <2>2. q.first \in Nat /\ q.size \in Nat /\ q.first < q.size /\ q.list \in [0..q.size - 1 -> Calls]
    BY QueueFields
  <2>3. gap \in 0..q.size
    BY <2>2
  <2> HIDE DEF gap, D
  <2>4. ASSUME NEW i \in 0..q.size + D - 1
        PROVE  (CASE i < gap -> q.list[i]
                  [] i \in gap..gap + D - 1 -> NoCall
                  [] OTHER -> q.list[i - D]) \in Calls
    <3>1. CASE i < gap
      BY <3>1, <2>2, <2>3
    <3>2. CASE i \in gap..gap + D - 1
      BY <3>2, <2>1, <2>3, <1>2
    <3>3. CASE i >= gap + D
      BY SMTT(30), <3>3, <2>2, <2>3, <1>2
    <3> QED  BY <3>1, <3>2, <3>3, <2>3, <1>2, <2>2
  <2> QED  BY <2>4
<1>4. first \in Nat /\ first < q.size + D
  BY <1>2, QueueFields
<1>5. Grown(q) \in Queue
  <2> HIDE DEF list, first, D
  <2> QED  BY <1>1, <1>2, <1>3, <1>4, QueueFields, QueueByFields
<1>6. ASSUME NEW i \in 0..q.number - 1
      PROVE  At(Grown(q), i) = At(q, i)
  <2>1. At(Grown(q), i) = list[IF first + i >= q.size + D THEN first + i - (q.size + D)
                               ELSE first + i]
    BY <1>1 DEF At, Slot
  <2>2. At(q, i) = q.list[IF q.first + i >= q.size THEN q.first + i - q.size ELSE q.first + i]
    BY DEF At, Slot
  <2>3. q.first \in Nat /\ q.size \in Nat /\ q.first < q.size /\ i \in Nat /\ i < q.size
    BY QueueFields
  <2>7. /\ \A j \in 0..q.size + D - 1 : j < gap => list[j] = q.list[j]
        /\ \A j \in 0..q.size + D - 1 : j >= gap + D => list[j] = q.list[j - D]
    <3>1. gap \in Int
      BY <2>3
    <3> HIDE DEF gap
    <3> QED  BY <2>3, <3>1, <1>2
  <2>8. first = IF wraps THEN q.first + D ELSE q.first
    OBVIOUS
  <2> HIDE DEF list, first, D
  <2>4. CASE wraps /\ q.first + i >= q.size
    <3>1. At(Grown(q), i) = list[q.first + i - q.size] /\ At(q, i) = q.list[q.first + i - q.size]
      BY <2>1, <2>2, <2>3, <2>4, <2>8, <1>2
    <3>2. q.first + i - q.size \in 0..q.size + D - 1 /\ q.first + i - q.size < gap
      BY <2>3, <2>4, <1>2
    <3> QED  BY <3>1, <3>2, <2>7
  <2>5. CASE wraps /\ q.first + i < q.size
    <3>1. At(Grown(q), i) = list[q.first + D + i] /\ At(q, i) = q.list[q.first + i]
      BY <2>1, <2>2, <2>3, <2>5, <2>8, <1>2
    <3>2. /\ q.first + D + i \in 0..q.size + D - 1 /\ q.first + D + i >= gap + D
          /\ q.first + D + i - D = q.first + i
      BY <2>3, <2>5, <1>2
    <3> DEFINE j == q.first + D + i
    <3>3. j \in 0..q.size + D - 1 /\ j >= gap + D /\ j - D = q.first + i
      BY <3>2, <2>3, <1>2
    <3>4. list[j] = q.list[j - D]
      <4> HIDE DEF j
      <4> QED  BY <3>3, <2>7
    <3> QED  BY <3>1, <3>3, <3>4
  <2>6. CASE ~wraps
    <3>1. q.first = 0 /\ gap = q.size
      BY <2>3, <2>6
    <3>2. At(Grown(q), i) = list[i] /\ At(q, i) = q.list[i]
      BY <3>1, <2>1, <2>2, <2>3, <2>6, <2>8, <1>2
    <3> QED  BY <3>1, <3>2, <2>3, <2>7, <1>2
  <2> QED  BY <2>4, <2>5, <2>6, <2>3
<1> QED  BY <1>1, <1>2, <1>5, <1>6, QueueFields

(* static_PNALDFCPostInternal adds the call behind those held, or, when    *)
(* the array cannot grow, changes nothing.                                 *)
LEMMA PostAddsAtTheEnd ==
    ASSUME NEW q \in Queue, NEW type \in CallTypes, NEW memory \in BOOLEAN,
           NEW r, r = PNALDFCPost(q, type, memory)
    PROVE  /\ r \in Queue
           /\ \A i \in 0..q.number - 1 : At(r, i) = At(q, i)
           /\ \/ r = q /\ q.number > 0 /\ ~memory
              \/ r.number = q.number + 1 /\ At(r, q.number) = [type |-> type, fn |-> TRUE]
<1> DEFINE c == [type |-> type, fn |-> TRUE]
<1>1. c \in Calls
  BY DEF Calls
<1>2. CASE q.number = q.size /\ ~memory
  BY <1>2, QueueFields DEF PNALDFCPost
<1>3. ASSUME NEW p \in Queue, p.number < p.size, p.number = q.number,
             \A i \in 0..q.number - 1 : At(p, i) = At(q, i),
             r = [p EXCEPT !.list[Slot(p, p.number)] = c, !.number = @ + 1]
      PROVE  /\ r \in Queue
             /\ \A i \in 0..q.number - 1 : At(r, i) = At(q, i)
             /\ r.number = q.number + 1 /\ At(r, q.number) = c
  <2>1. /\ p = [list |-> p.list, first |-> p.first, number |-> p.number, size |-> p.size]
        /\ p.list \in [0..p.size - 1 -> Calls]
        /\ p.first \in Nat /\ p.number \in Nat /\ p.size \in Nat /\ p.first < p.size
    BY QueueFields
  <2> DEFINE s == Slot(p, p.number)
             list == [p.list EXCEPT ![s] = c]
  <2>2. s \in 0..p.size - 1
    BY <2>1, <1>3 DEF Slot
  <2>3. r = [list |-> list, first |-> p.first, number |-> p.number + 1, size |-> p.size]
    BY <2>1, <1>3
  <2>4. list \in [0..p.size - 1 -> Calls] /\ list[s] = c
    BY <2>1, <2>2, <1>1
  <2>5. ASSUME NEW i \in 0..p.number - 1
        PROVE  /\ Slot(p, i) # s /\ Slot(p, i) \in 0..p.size - 1
               /\ list[Slot(p, i)] = p.list[Slot(p, i)]
    <3>1. /\ Slot(p, i) = IF p.first + i >= p.size THEN p.first + i - p.size ELSE p.first + i
          /\ s = IF p.first + p.number >= p.size THEN p.first + p.number - p.size
                 ELSE p.first + p.number
      BY DEF Slot
    <3>2. Slot(p, i) # s /\ Slot(p, i) \in 0..p.size - 1
      <4> HIDE DEF s
      <4> QED  BY SMTT(30), <2>1, <3>1, <1>3
    <3> QED  BY <2>1, <2>2, <3>2
  <2> HIDE DEF list, c
  <2>6. \A i \in 0..p.number : At(r, i) = list[Slot(p, i)]
    BY <2>3 DEF At, Slot
  <2>7. r \in Queue /\ r.number = q.number + 1
    <3>1. p.number + 1 \in Nat /\ p.number + 1 <= p.size
      BY <2>1, <1>3
    <3> QED  BY <2>1, <2>3, <2>4, <3>1, <1>3, QueueByFields
  <2>8. \A i \in 0..q.number - 1 : At(r, i) = At(q, i)
    BY <2>1, <2>5, <2>6, <1>3 DEF At
  <2> QED  BY <2>1, <2>4, <2>6, <2>7, <2>8, <1>3
<1>4. CASE q.number = q.size /\ memory
  <2>1. r = [Grown(q) EXCEPT !.list[Slot(Grown(q), Grown(q).number)] = c, !.number = @ + 1]
    BY <1>4 DEF PNALDFCPost
  <2>2. /\ Grown(q) \in Queue /\ Grown(q).number < Grown(q).size /\ Grown(q).number = q.number
        /\ \A i \in 0..q.number - 1 : At(Grown(q), i) = At(q, i)
    BY <1>4, GrownHoldsTheSame
  <2> QED  BY <2>1, <2>2, <1>3
<1>5. CASE q.number # q.size
  <2>1. r = [q EXCEPT !.list[Slot(q, q.number)] = c, !.number = @ + 1]
    BY <1>5 DEF PNALDFCPost
  <2>2. q.number < q.size
    BY <1>5, QueueFields
  <2> QED  BY <2>1, <2>2, <1>3
<1> QED  BY <1>2, <1>4, <1>5

(* PNALDFCPump takes the oldest call; the others move up by one. *)
LEMMA PopTakesTheOldest ==
    ASSUME NEW q \in Queue, q.number # 0, NEW r, r = Popped(q)
    PROVE  /\ r \in Queue /\ r.number = q.number - 1
           /\ Oldest(q) = At(q, 0)
           /\ \A i \in 0..r.number - 1 : At(r, i) = At(q, i + 1)
<1>1. /\ q = [list |-> q.list, first |-> q.first, number |-> q.number, size |-> q.size]
      /\ q.list \in [0..q.size - 1 -> Calls]
      /\ q.first \in Nat /\ q.number \in Nat /\ q.size \in Nat
      /\ q.first < q.size /\ q.number <= q.size
  BY QueueFields
<1> DEFINE list == [q.list EXCEPT ![q.first] = NoCall]
<1>2. r = [list |-> list, first |-> Slot(q, 1), number |-> q.number - 1, size |-> q.size]
  BY <1>1 DEF Popped
<1>3. list \in [0..q.size - 1 -> Calls]
  BY <1>1, TimerAssumption DEF NoCall, Calls, CallTypes, Frame
<1>4. Slot(q, 1) \in Nat /\ Slot(q, 1) < q.size
  BY <1>1 DEF Slot
<1>5. Oldest(q) = At(q, 0)
  BY <1>1 DEF Oldest, At, Slot
<1>6. ASSUME NEW i \in 0..q.number - 2
      PROVE  At(r, i) = At(q, i + 1)
  <2>1. Slot(r, i) = Slot(q, i + 1) /\ Slot(q, i + 1) \in 0..q.size - 1 /\ Slot(q, i + 1) # q.first
    <3>1. /\ r.first = IF q.first + 1 >= q.size THEN q.first + 1 - q.size ELSE q.first + 1
          /\ r.size = q.size /\ i \in Nat /\ i + 1 < q.number
      BY <1>1, <1>2 DEF Slot
    <3>2. Slot(r, i) = IF r.first + i >= q.size THEN r.first + i - q.size ELSE r.first + i
      BY <3>1 DEF Slot
    <3>3. Slot(q, i + 1) = IF q.first + (i + 1) >= q.size THEN q.first + (i + 1) - q.size
                           ELSE q.first + (i + 1)
      BY DEF Slot
    <3>6. /\ q.first \in Nat /\ q.number \in Nat /\ q.size \in Nat
          /\ q.first < q.size /\ q.number <= q.size
      BY <1>1
    <3>4. CASE q.first + 1 >= q.size
      <4>1. q.first + 1 = q.size /\ r.first = 0
        BY <3>1, <3>4, <3>6
      <4>2. Slot(r, i) = i /\ Slot(q, i + 1) = i
        BY <4>1, <3>1, <3>2, <3>3, <3>6
      <4> QED  BY <4>1, <4>2, <3>1, <3>6
    <3>5. CASE q.first + 1 < q.size
      <4>1. r.first = q.first + 1
        BY <3>1, <3>5, <3>6
      <4> QED  BY <4>1, <3>1, <3>2, <3>3, <3>6
    <3> QED  BY <3>4, <3>5, <3>6
  <2>2. list[Slot(q, i + 1)] = q.list[Slot(q, i + 1)]
    BY <2>1, <1>1
  <2> QED  BY <2>1, <2>2, <1>2 DEF At
<1> HIDE DEF list
<1>7. r \in Queue
  BY SMTT(30), <1>1, <1>2, <1>3, <1>4, QueueByFields
<1> QED  BY <1>1, <1>2, <1>5, <1>6, <1>7

(* What a flush makes of a call. *)
Blanked(c, type) == IF c.type = type THEN [type |-> type, fn |-> FALSE] ELSE c

(* PNALDFCFlush takes the function of each call of the type, wherever it   *)
(* is in the array, and leaves the others alone.                           *)
LEMMA FlushBlanksTheType ==
    ASSUME NEW q \in Queue, NEW type \in CallTypes, NEW r, r = PNALDFCFlush(q, type)
    PROVE  /\ r \in Queue /\ r.number = q.number
           /\ \A i \in 0..q.number - 1 :
                At(r, i) = Blanked(At(q, i), type)
<1>1. /\ q = [list |-> q.list, first |-> q.first, number |-> q.number, size |-> q.size]
      /\ q.list \in [0..q.size - 1 -> Calls]
      /\ q.first \in Nat /\ q.number \in Nat /\ q.size \in Nat
      /\ q.first < q.size /\ q.number <= q.size
      /\ \A i \in 0..q.number - 1 : Slot(q, i) \in 0..q.size - 1
  BY QueueFields
<1> DEFINE held == {Slot(q, i) : i \in 0..q.number - 1}
           list == [j \in 0..q.size - 1 |->
                      IF j \in held /\ q.list[j].type = type
                      THEN [type |-> type, fn |-> FALSE]
                      ELSE q.list[j]]
<1>2. r = [list |-> list, first |-> q.first, number |-> q.number, size |-> q.size]
  BY <1>1 DEF PNALDFCFlush
<1>4. [type |-> type, fn |-> FALSE] \in Calls
  BY DEF Calls
<1>5. list \in [0..q.size - 1 -> Calls]
  BY <1>1, <1>4
<1>6. ASSUME NEW i \in 0..q.number - 1
      PROVE  list[Slot(q, i)] = Blanked(At(q, i), type)
  BY <1>1 DEF At, Blanked
<1> HIDE DEF list
<1>7. \A i \in 0..q.number - 1 : At(r, i) = list[Slot(q, i)]
  BY <1>2 DEF At, Slot
<1>8. r \in Queue
  BY <1>1, <1>2, <1>5, QueueByFields
<1>9. r.number = q.number
  BY <1>2
<1>10. \A i \in 0..q.number - 1 :
         At(r, i) = Blanked(At(q, i), type)
  <2> SUFFICES ASSUME NEW i \in 0..q.number - 1
               PROVE  At(r, i) = Blanked(At(q, i), type)
    OBVIOUS
  <2>1. At(r, i) = list[Slot(q, i)]
    BY <1>7
  <2> QED  BY <2>1, <1>6
<1> QED  BY <1>8, <1>9, <1>10

-----------------------------------------------------------------------------
(* The loop of PNALMultiTimerPoll is a recursive function of the number of *)
(* turns.  What its turns preserve, the loop preserves.                    *)

(* A set of naturals that has a member has a least one. *)
LEMMA LeastNatural ==
    ASSUME NEW T \in SUBSET Nat, T # {}
    PROVE  \E x \in T : \A y \in T : x <= y
<1>1. PICK x \in T : \A y \in T : <<y, x>> \notin OpToRel(<, Nat)
  BY NatLessThanWellFounded, WFMin
<1>2. \A y \in Nat : y < x => <<y, x>> \in OpToRel(<, Nat)
  BY DEF OpToRel
<1>3. \A y \in T : ~(y < x)
  BY <1>1, <1>2
<1> QED  BY <1>3

(* Induction, for what can be said by membership of a set. *)
LEMMA NaturalsByInduction ==
    ASSUME NEW S \in SUBSET Nat, 0 \in S, \A n \in S : n + 1 \in S
    PROVE  S = Nat
<1> SUFFICES ASSUME Nat \ S # {} PROVE FALSE
  OBVIOUS
<1>1. PICK x \in Nat \ S : \A y \in Nat \ S : x <= y
  BY LeastNatural
<1>2. x # 0 /\ x - 1 \in Nat /\ x - 1 \in S
  BY <1>1
<1>3. (x - 1) + 1 \in S
  BY <1>2
<1> QED  BY <1>1, <1>2, <1>3

(* f tells what the loop of the poll has made of h after each turn. *)
Turns(f, h, now, memory, n) ==
    f = [k \in 0..n |-> IF k = 0 THEN h ELSE PostIfExpired(f[k - 1], k - 1, now, memory)]

(* The loop terminates: its recursive definition has a solution. *)
LEMMA LoopDefined ==
    ASSUME NEW h, NEW now, NEW memory, NEW n \in Nat
    PROVE  \E f : Turns(f, h, now, memory, n)
<1> DEFINE P == {k \in Nat : \E f : Turns(f, h, now, memory, k)}
<1>1. 0 \in P
  <2> DEFINE f == [j \in 0..0 |-> h]
  <2>1. f = [j \in 0..0 |-> IF j = 0 THEN h ELSE PostIfExpired(f[j - 1], j - 1, now, memory)]
    OBVIOUS
  <2> HIDE DEF f
  <2> QED  BY <2>1 DEF Turns
<1>2. ASSUME NEW k \in P PROVE k + 1 \in P
  <2>1. PICK f : f = [j \in 0..k |-> IF j = 0 THEN h
                                     ELSE PostIfExpired(f[j - 1], j - 1, now, memory)]
    BY DEF Turns
  <2> DEFINE g == [j \in 0..k + 1 |-> IF j = k + 1 THEN PostIfExpired(f[k], k, now, memory)
                                      ELSE f[j]]
  <2>2. ASSUME NEW j \in 0..k + 1
        PROVE  g[j] = IF j = 0 THEN h ELSE PostIfExpired(g[j - 1], j - 1, now, memory)
    <3>1. CASE j = k + 1
      BY <3>1
    <3>2. CASE j \in 0..k
      BY <2>1, <3>2
    <3> QED  BY <3>1, <3>2
  <2>3. g = [j \in 0..k + 1 |-> IF j = 0 THEN h
                                ELSE PostIfExpired(g[j - 1], j - 1, now, memory)]
    BY <2>2
  <2>4. \E e : Turns(e, h, now, memory, k + 1)
    <3> HIDE DEF g
    <3> QED  BY <2>3 DEF Turns
  <2>5. k + 1 \in Nat
    OBVIOUS
  <2> QED  BY <2>4, <2>5
<1> HIDE DEF P
<1>3. P \in SUBSET Nat
  BY DEF P
<1>4. P = Nat
  BY <1>1, <1>2, <1>3, NaturalsByInduction
<1> QED  BY <1>4 DEF P

(* S[n] is what is to hold after n turns of the loop of the poll: if h has *)
(* it before the first and every turn hands it on, the loop ends with it.  *)
LEMMA LoopInduction ==
    ASSUME NEW h, NEW now, NEW memory, NEW S, h \in S[0],
           \A n \in 0..P_NAL_MULTI_TIMER_NUMBER - 1 : \A g \in S[n] :
             PostIfExpired(g, n, now, memory) \in S[n + 1]
    PROVE  PostExpired(h, now, memory) \in S[P_NAL_MULTI_TIMER_NUMBER]
<1> DEFINE N == P_NAL_MULTI_TIMER_NUMBER
           F == CHOOSE f : Turns(f, h, now, memory, N)
<1>1. N \in Nat
  BY TimerAssumption
<1>2. Turns(F, h, now, memory, N)
  <2>1. \E f : Turns(f, h, now, memory, N)
    BY <1>1, LoopDefined
  <2> QED  BY <2>1
<1>3. PostExpired(h, now, memory) = F[N]
  BY DEF PostExpired, Turns
<1> HIDE DEF F, N
<1>4. /\ F[0] = h
      /\ \A n \in 0..N - 1 : F[n + 1] = PostIfExpired(F[n], n, now, memory)
  BY <1>1, <1>2 DEF Turns
<1> DEFINE P == {n \in Nat : n <= N => F[n] \in S[n]}
<1>5. 0 \in P
  BY <1>4
<1>6. ASSUME NEW n \in P PROVE n + 1 \in P
  <2>1. CASE n + 1 <= N
    <3>1. n \in 0..N - 1 /\ F[n] \in S[n]
      BY <2>1, <1>1
    <3>2. F[n + 1] \in S[n + 1]
      BY <3>1, <1>4 DEF N
    <3> QED  BY <3>2
  <2> QED  BY <2>1, <1>1
<1> HIDE DEF P
<1>7. P \in SUBSET Nat
  BY DEF P
<1>8. P = Nat
  BY <1>5, <1>6, <1>7, NaturalsByInduction
<1>9. N <= N
  BY <1>1
<1> QED  BY <1>1, <1>3, <1>8, <1>9 DEF P, N

-----------------------------------------------------------------------------
(* g is h after n turns of the loop: calls were only added, each of a      *)
(* timer that had expired, the timers they are of were reset and no other, *)
(* and the driver thread was kicked if the queue is no longer empty.       *)
Polled(h, g, now, n) ==
    /\ g.expired = h.expired /\ h.sock \subseteq g.sock
    /\ h.q.number <= g.q.number
    /\ \A i \in 0..h.q.number - 1 : At(g.q, i) = At(h.q, i)
    /\ \A i \in h.q.number..g.q.number - 1 :
         \E t \in TimerIds : /\ At(g.q, i) = [type |-> t, fn |-> TRUE]
                             /\ h.abs[t] # 0 /\ Expired(h.abs[t], now)
    /\ g.q.number # 0 => h.q.number # 0 \/ "KICK" \in g.sock
    /\ \A t \in TimerIds :
         g.abs[t] = IF t < n /\ Expired(h.abs[t], now) THEN 0 ELSE h.abs[t]

(* The callback of t is among the calls that g has more than h. *)
Posted(h, g, t) ==
    \E i \in h.q.number..g.q.number - 1 : At(g.q, i) = [type |-> t, fn |-> TRUE]

(* None is lost, unless there is no memory. *)
Lossless(h, g, now, memory, n) ==
    memory => \A t \in TimerIds :
                t < n /\ h.abs[t] # 0 /\ Expired(h.abs[t], now) => Posted(h, g, t)

After(h, now, memory, n) ==
    {g \in Hal : /\ g.last = h.last /\ g.value = h.value
                 /\ g.writing = h.writing /\ g.read = h.read
                 /\ Polled(h, g, now, n) /\ Lossless(h, g, now, memory, n)}

(* The types of the deferred calls are told apart. *)
LEMMA CallTypesApart ==
    /\ TimerIds \subseteq CallTypes /\ Entropy \in CallTypes /\ Frame \in CallTypes
    /\ Entropy \notin TimerIds /\ Frame \notin TimerIds /\ TIMER_T9_UPPER_TIMER \in TimerIds
    /\ TimerIds \subseteq Nat /\ CallTypes \subseteq Nat
  BY TimerAssumption DEF TimerIds, CallTypes, Entropy, Frame, TIMER_T9_UPPER_TIMER

(* A post adds the call or nothing, and leaves the timers alone; a post to *)
(* an empty queue adds it and kicks the driver thread.                     *)
LEMMA PostEffect ==
    ASSUME NEW h \in Hal, NEW type \in CallTypes, NEW memory \in BOOLEAN,
           NEW g, g = Post(h, type, memory)
    PROVE  /\ g \in Hal
           /\ g.abs = h.abs /\ g.last = h.last /\ g.value = h.value
           /\ g.expired = h.expired /\ g.writing = h.writing /\ g.read = h.read
           /\ h.sock \subseteq g.sock /\ (h.q.number = 0 => "KICK" \in g.sock)
           /\ \A i \in 0..h.q.number - 1 : At(g.q, i) = At(h.q, i)
           /\ \/ g.q = h.q /\ h.q.number # 0 /\ ~memory
              \/ /\ g.q.number = h.q.number + 1
                 /\ At(g.q, h.q.number) = [type |-> type, fn |-> TRUE]
<1> DEFINE r == PNALDFCPost(h.q, type, memory)
           sock == IF h.q.number = 0 THEN h.sock \union {"KICK"} ELSE h.sock
<1>1. g = [h EXCEPT !.q = r, !.sock = sock]
  BY DEF Post
<1>2. h.q \in Queue /\ h.sock \subseteq {"KICK", "TIMER"}
  BY DEF Hal
<1>3. /\ r \in Queue
      /\ \A i \in 0..h.q.number - 1 : At(r, i) = At(h.q, i)
      /\ \/ r = h.q /\ h.q.number > 0 /\ ~memory
         \/ r.number = h.q.number + 1 /\ At(r, h.q.number) = [type |-> type, fn |-> TRUE]
  BY <1>2, PostAddsAtTheEnd
<1>4. sock \subseteq {"KICK", "TIMER"} /\ h.sock \subseteq sock /\ (h.q.number = 0 => "KICK" \in sock)
  BY <1>2
<1> HIDE DEF r, sock
<1>5. g \in Hal
  BY <1>1, <1>3, <1>4 DEF Hal
<1>6. /\ g.q = r /\ g.sock = sock /\ g.abs = h.abs /\ g.last = h.last /\ g.value = h.value
      /\ g.expired = h.expired /\ g.writing = h.writing /\ g.read = h.read
  BY <1>1 DEF Hal
<1>7. h.q.number > 0 => h.q.number # 0
  BY <1>2, QueueFields
<1> QED  BY <1>3, <1>4, <1>5, <1>6, <1>7

(* One turn of the loop. *)
LEMMA TurnEffect ==
    ASSUME NEW h \in Hal, NEW now, NEW memory \in BOOLEAN,
           NEW n \in 0..P_NAL_MULTI_TIMER_NUMBER - 1, NEW g \in After(h, now, memory, n)
    PROVE  PostIfExpired(g, n, now, memory) \in After(h, now, memory, n + 1)
<1>1. n \in TimerIds /\ n \in CallTypes /\ n \in Nat
  BY CallTypesApart, TimerAssumption DEF TimerIds
<1>2. g \in Hal /\ Polled(h, g, now, n) /\ Lossless(h, g, now, memory, n)
  BY DEF After
<1>3. g.abs[n] = h.abs[n]
  BY <1>1, <1>2 DEF Polled
<1>4. CASE ~(g.abs[n] # 0 /\ Expired(g.abs[n], now))
  <2>1. PostIfExpired(g, n, now, memory) = g
    BY <1>4 DEF PostIfExpired
  <2>2. ASSUME NEW t \in TimerIds
        PROVE  g.abs[t] = IF t < n + 1 /\ Expired(h.abs[t], now) THEN 0 ELSE h.abs[t]
    <3>1. g.abs[t] = IF t < n /\ Expired(h.abs[t], now) THEN 0 ELSE h.abs[t]
      BY <1>2 DEF Polled
    <3>2. t # n => (t < n <=> t < n + 1)
      BY <1>1, CallTypesApart
    <3>3. n < n + 1
      BY <1>1
    <3> QED  BY <3>1, <3>2, <3>3, <1>3, <1>4
  <2>3. Polled(h, g, now, n + 1)
    BY <1>2, <2>2 DEF Polled
  <2>4. Lossless(h, g, now, memory, n + 1)
    <3>1. ASSUME NEW t \in TimerIds, t < n + 1, h.abs[t] # 0, Expired(h.abs[t], now)
          PROVE  t < n
      <4>1. t # n /\ t \in Nat
        BY <3>1, <1>3, <1>4, CallTypesApart
      <4> QED  BY <4>1, <3>1, <1>1
    <3> QED  BY <3>1, <1>2 DEF Lossless
  <2> QED  BY <2>1, <2>3, <2>4 DEF After
<1>5. CASE g.abs[n] # 0 /\ Expired(g.abs[n], now)
  <2> DEFINE p == Post(g, n, memory)
             k == PostIfExpired(g, n, now, memory)
  <2>1. k = [p EXCEPT !.abs[n] = 0]
    BY <1>5 DEF PostIfExpired
  <2>2. /\ p \in Hal
        /\ p.abs = g.abs /\ p.last = g.last /\ p.value = g.value
        /\ p.expired = g.expired /\ p.writing = g.writing /\ p.read = g.read
        /\ g.sock \subseteq p.sock /\ (g.q.number = 0 => "KICK" \in p.sock)
        /\ \A i \in 0..g.q.number - 1 : At(p.q, i) = At(g.q, i)
        /\ \/ p.q = g.q /\ g.q.number # 0 /\ ~memory
           \/ /\ p.q.number = g.q.number + 1
              /\ At(p.q, g.q.number) = [type |-> n, fn |-> TRUE]
    BY <1>1, <1>2, PostEffect
  <2> HIDE DEF p, k
  <2>3. /\ k.q = p.q /\ k.last = p.last /\ k.value = p.value /\ k.expired = p.expired
        /\ k.sock = p.sock /\ k.writing = p.writing /\ k.read = p.read
        /\ k.abs = [p.abs EXCEPT ![n] = 0]
    BY <2>1, <2>2 DEF Hal
  <2>4. p.abs \in [TimerIds -> 0..Mod - 1] /\ 0 \in 0..Mod - 1
    BY <2>2, TimerAssumption DEF Hal
  <2>5. k.abs \in [TimerIds -> 0..Mod - 1]
    BY <2>3, <2>4
  <2>6. k \in Hal
    BY <2>1, <2>2, <2>3, <2>5 DEF Hal
  <2>7. ASSUME NEW t \in TimerIds
        PROVE  k.abs[t] = IF t < n + 1 /\ Expired(h.abs[t], now) THEN 0 ELSE h.abs[t]
    <3>1. g.abs[t] = IF t < n /\ Expired(h.abs[t], now) THEN 0 ELSE h.abs[t]
      BY <1>2 DEF Polled
    <3>2. t # n => (t < n <=> t < n + 1)
      BY <1>1, CallTypesApart
    <3>3. n < n + 1
      BY <1>1
    <3>4. k.abs[t] = IF t = n THEN 0 ELSE g.abs[t]
      BY <2>2, <2>3, <2>4
    <3> QED  BY <3>1, <3>2, <3>3, <3>4, <1>3, <1>5
  <2>8. h.q \in Queue /\ g.q \in Queue /\ p.q \in Queue
    BY <1>2, <2>2 DEF Hal
  <2>9. h.q.number \in Nat /\ g.q.number \in Nat /\ p.q.number \in Nat
    BY <2>8, QueueFields
  <2>10. h.q.number <= g.q.number /\ h.q.number <= p.q.number
    BY <1>2, <2>2, <2>9 DEF Polled
  <2>11. \A i \in 0..h.q.number - 1 : At(p.q, i) = At(h.q, i)
    <3>1. \A i \in 0..h.q.number - 1 : i \in 0..g.q.number - 1 /\ At(g.q, i) = At(h.q, i)
      BY <1>2, <2>9, <2>10 DEF Polled
    <3> QED  BY <3>1, <2>2
  <2>12. ASSUME NEW i \in h.q.number..p.q.number - 1
         PROVE  \E t \in TimerIds : /\ At(p.q, i) = [type |-> t, fn |-> TRUE]
                                    /\ h.abs[t] # 0 /\ Expired(h.abs[t], now)
    <3>1. CASE i \in 0..g.q.number - 1
      <4>1. i \in h.q.number..g.q.number - 1 /\ At(p.q, i) = At(g.q, i)
        BY <3>1, <2>2, <2>9
      <4> QED  BY <4>1, <1>2 DEF Polled
    <3>2. CASE i \notin 0..g.q.number - 1
      <4>1. i = g.q.number /\ p.q.number = g.q.number + 1
        BY <3>2, <2>2, <2>9
      <4>2. At(p.q, i) = [type |-> n, fn |-> TRUE] /\ h.abs[n] # 0 /\ Expired(h.abs[n], now)
        BY <4>1, <2>2, <2>9, <1>3, <1>5
      <4> QED  BY <4>2, <1>1
    <3> QED  BY <3>1, <3>2
  <2>13. /\ p.expired = h.expired /\ h.sock \subseteq p.sock
         /\ p.q.number # 0 => h.q.number # 0 \/ "KICK" \in p.sock
    BY <1>2, <2>2 DEF Polled
  <2>14. Polled(h, k, now, n + 1)
    BY <2>3, <2>7, <2>10, <2>11, <2>12, <2>13 DEF Polled
  <2>15. /\ k.last = h.last /\ k.value = h.value
         /\ k.writing = h.writing /\ k.read = h.read
    BY <2>2, <2>3 DEF After
  <2>16. ASSUME memory, NEW t \in TimerIds, t < n + 1, h.abs[t] # 0, Expired(h.abs[t], now)
         PROVE  Posted(h, k, t)
    <3>1. CASE t = n
      <4>1. /\ p.q.number = g.q.number + 1 /\ At(p.q, g.q.number) = [type |-> t, fn |-> TRUE]
            /\ g.q.number \in h.q.number..p.q.number - 1
        BY <2>2, <2>9, <2>10, <2>16, <3>1
      <4> QED  BY <4>1, <2>3 DEF Posted
    <3>2. CASE t # n
      <4>1. t < n
        BY <3>2, <2>16, <1>1, CallTypesApart
      <4>2. PICK i \in h.q.number..g.q.number - 1 : At(g.q, i) = [type |-> t, fn |-> TRUE]
        BY <4>1, <2>16, <1>2 DEF Lossless, Posted
      <4>3. i \in 0..g.q.number - 1 /\ i \in h.q.number..p.q.number - 1
        BY <2>2, <2>9
      <4> QED  BY <4>2, <4>3, <2>2, <2>3 DEF Posted
    <3> QED  BY <3>1, <3>2
  <2>17. Lossless(h, k, now, memory, n + 1)
    BY <2>16 DEF Lossless
  <2> QED  BY <2>6, <2>14, <2>15, <2>17 DEF After, k
<1> QED  BY <1>4, <1>5

(* And the loop. *)
LEMMA LoopEffect ==
    ASSUME NEW h \in Hal, NEW now, NEW memory \in BOOLEAN
    PROVE  PostExpired(h, now, memory) \in After(h, now, memory, P_NAL_MULTI_TIMER_NUMBER)
<1> DEFINE N == P_NAL_MULTI_TIMER_NUMBER
           S == [n \in 0..N |-> After(h, now, memory, n)]
<1>1. N \in Nat /\ 0 \in 0..N /\ N \in 0..N
  BY TimerAssumption
<1>2. h \in S[0]
  <2>1. h.q \in Queue /\ h.q.number \in Nat
    BY QueueFields DEF Hal
  <2>2. \A t \in TimerIds : ~(t < 0)
    BY CallTypesApart
  <2>3. Polled(h, h, now, 0)
    BY <2>1, <2>2 DEF Polled
  <2>4. Lossless(h, h, now, memory, 0)
    BY <2>2 DEF Lossless
  <2> QED  BY <1>1, <2>3, <2>4 DEF After
<1>3. ASSUME NEW n \in 0..N - 1, NEW g \in S[n]
      PROVE  PostIfExpired(g, n, now, memory) \in S[n + 1]
  <2>1. n \in 0..N /\ n + 1 \in 0..N
    BY <1>1
  <2> QED  BY <2>1, TurnEffect
<1> HIDE DEF S
<1>4. PostExpired(h, now, memory) \in S[P_NAL_MULTI_TIMER_NUMBER]
  BY <1>2, <1>3, LoopInduction
<1> QED  BY <1>1, <1>4 DEF S

-----------------------------------------------------------------------------
(* The times the poll computes with are those of the clock. *)
LEMMA LeftInRange ==
    ASSUME NEW e \in 0..Mod - 1, NEW now \in 0..Mod - 1
    PROVE  Left(e, now) \in Nat /\ Left(e, now) <= Mod - 1
  BY TimerAssumption DEF Left, Ago

(* nLimit is the time of the earliest timer still to come, or the value    *)
(* that stands for none.                                                   *)
LEMMA LimitIsEarliest ==
    ASSUME NEW abs \in [TimerIds -> 0..Mod - 1], NEW now \in 0..Mod - 1
    PROVE  \/ /\ Limit(abs, now) = Never
              /\ \A t \in TimerIds : abs[t] = 0 \/ Expired(abs[t], now)
           \/ \E t \in TimerIds :
                /\ abs[t] # 0 /\ ~Expired(abs[t], now) /\ Limit(abs, now) = abs[t]
                /\ \A u \in TimerIds :
                     abs[u] # 0 /\ ~Expired(abs[u], now) => Left(abs[t], now) <= Left(abs[u], now)
<1> DEFINE waiting == {t \in TimerIds : abs[t] # 0 /\ ~Expired(abs[t], now)}
           first(t) == \A u \in waiting : Left(abs[t], now) <= Left(abs[u], now)
           e == CHOOSE t \in waiting : first(t)
<1>1. CASE waiting = {}
  BY <1>1 DEF Limit
<1>2. CASE waiting # {}
  <2> DEFINE T == {Left(abs[t], now) : t \in waiting}
  <2>1. T \in SUBSET Nat /\ T # {}
    BY <1>2, LeftInRange
  <2>2. PICK x \in T : \A y \in T : x <= y
    BY <2>1, LeastNatural
  <2>3. \E t \in waiting : first(t)
    BY <2>2
  <2>4. e \in waiting /\ first(e)
    BY <2>3
  <2>5. Limit(abs, now) = abs[e]
    BY <1>2 DEF Limit
  <2> HIDE DEF e
  <2> QED  BY <2>4, <2>5
<1> QED  BY <1>1, <1>2

(* Either way it is a time of the clock. *)
LEMMA LimitInRange ==
    ASSUME NEW abs \in [TimerIds -> 0..Mod - 1], NEW now \in 0..Mod - 1
    PROVE  Limit(abs, now) \in 0..Mod - 1
<1>1. Never \in 0..Mod - 1
  BY TimerAssumption DEF Never
<1> QED  BY <1>1, LimitIsEarliest

(* PNALMultiTimerPoll: the loop, and the platform timer to be set for the  *)
(* earliest timer still to come unless that is what it was set for.        *)
LEMMA PollEffect ==
    ASSUME NEW h \in Hal, NEW now \in 0..Mod - 1, NEW memory \in BOOLEAN, NEW elapsed \in BOOLEAN,
           NEW k, k = PNALMultiTimerPoll(h, now, elapsed, memory)
    PROVE  /\ k \in Hal /\ Polled(h, k, now, P_NAL_MULTI_TIMER_NUMBER)
           /\ Lossless(h, k, now, memory, P_NAL_MULTI_TIMER_NUMBER)
           /\ k.last = Limit(k.abs, now) /\ k.value = h.value
           /\ k.last = (IF elapsed THEN Never ELSE h.last)
                => k.writing = h.writing /\ k.read = h.read
           /\ k.last # (IF elapsed THEN Never ELSE h.last)
                => k.writing = "value" /\ k.read = now
<1> DEFINE g == PostExpired(h, now, memory)
           limit == Limit(g.abs, now)
           last == IF elapsed THEN Never ELSE h.last
<1>1. k = IF limit = last THEN [g EXCEPT !.last = limit]
          ELSE [g EXCEPT !.last = limit, !.writing = "value", !.read = now]
  BY DEF PNALMultiTimerPoll
<1>2. /\ g \in Hal /\ g.last = h.last /\ g.value = h.value
      /\ g.writing = h.writing /\ g.read = h.read
      /\ Polled(h, g, now, P_NAL_MULTI_TIMER_NUMBER)
      /\ Lossless(h, g, now, memory, P_NAL_MULTI_TIMER_NUMBER)
  BY LoopEffect DEF After
<1>3. limit \in 0..Mod - 1
  BY <1>2, LimitInRange DEF Hal
<1> HIDE DEF g, limit, last
<1>4. ASSUME k.q = g.q, k.abs = g.abs, k.expired = g.expired, k.sock = g.sock
      PROVE  /\ Polled(h, k, now, P_NAL_MULTI_TIMER_NUMBER)
             /\ Lossless(h, k, now, memory, P_NAL_MULTI_TIMER_NUMBER)
  BY <1>2, <1>4 DEF Polled, Lossless, Posted
<1>5. CASE limit = last
  <2>1. k = [g EXCEPT !.last = limit]
    BY <1>1, <1>5
  <2>2. k \in Hal
    BY <2>1, <1>2, <1>3 DEF Hal
  <2>3. /\ k.q = g.q /\ k.abs = g.abs /\ k.expired = g.expired /\ k.sock = g.sock
        /\ k.last = limit /\ k.value = g.value /\ k.writing = g.writing /\ k.read = g.read
    BY <2>1, <1>2 DEF Hal
  <2> QED  BY <2>2, <2>3, <1>2, <1>4, <1>5 DEF limit, last
<1>6. CASE limit # last
  <2>1. k = [g EXCEPT !.last = limit, !.writing = "value", !.read = now]
    BY <1>1, <1>6
  <2>2. k \in Hal
    BY <2>1, <1>2, <1>3 DEF Hal
  <2>3. /\ k.q = g.q /\ k.abs = g.abs /\ k.expired = g.expired /\ k.sock = g.sock
        /\ k.last = limit /\ k.value = g.value /\ k.writing = "value" /\ k.read = now
    BY <2>1, <1>2 DEF Hal
  <2> QED  BY <2>2, <2>3, <1>2, <1>4, <1>6 DEF limit, last
<1> QED  BY <1>5, <1>6

-----------------------------------------------------------------------------
(* The nAbsoluteTimeout of one timer is assigned. *)
WithTimer(h, t, e) == [h EXCEPT !.abs[t] = e]

(* Assigning the timeout of one timer touches nothing else of the instance. *)
LEMMA WithTimerEffect ==
    ASSUME NEW h \in Hal, NEW t \in TimerIds, NEW e \in 0..Mod - 1, NEW g, g = WithTimer(h, t, e)
    PROVE  /\ g \in Hal /\ g.abs = [h.abs EXCEPT ![t] = e]
           /\ g.q = h.q /\ g.last = h.last /\ g.value = h.value /\ g.expired = h.expired
           /\ g.sock = h.sock /\ g.writing = h.writing /\ g.read = h.read
<1>1. g = [h EXCEPT !.abs = [h.abs EXCEPT ![t] = e]]
  BY DEF WithTimer, Hal
<1>2. [h.abs EXCEPT ![t] = e] \in [TimerIds -> 0..Mod - 1]
  BY DEF Hal
<1> QED  BY <1>1, <1>2 DEF Hal

(* They are not called for an expiry of the platform timer. *)
NotElapsed == FALSE

(* PNALMultiTimerSet and PNALMultiTimerCancel assign it and poll. *)
LEMMA SetIsPoll ==
    ASSUME NEW h, NEW t, NEW timeout, NEW now, NEW memory
    PROVE  SetTimer(h, t, timeout, now, memory) =
             PNALMultiTimerPoll(WithTimer(h, t, (now + timeout) % Mod), now, NotElapsed, memory)
  BY Zenon DEF SetTimer, WithTimer, NotElapsed

(* A cancel does so only if the timer is set. *)
LEMMA CancelIsPoll ==
    ASSUME NEW h, NEW t, NEW now, NEW memory
    PROVE  /\ h.abs[t] # 0 =>
                CancelTimer(h, t, now, memory) =
                  PNALMultiTimerPoll(WithTimer(h, t, 0), now, NotElapsed, memory)
           /\ h.abs[t] = 0 => CancelTimer(h, t, now, memory) = h
  BY Zenon DEF CancelTimer, WithTimer, NotElapsed

(* The time a timer is set for is a time of the clock. *)
LEMMA SetTimeInRange ==
    ASSUME NEW timeout \in Nat, NEW now \in 0..Mod - 1
    PROVE  (now + timeout) % Mod \in 0..Mod - 1
  BY TimerAssumption

(* The value after the first assignment of CNALTimerSet at the time at. *)
ValueOf(h, at) == IF h.last = Never THEN 0 ELSE (at + (h.last + Mod - h.read)) % Mod

(* The first assignment of CNALTimerSet and of CNALTimerCancel. *)
LEMMA ValuedEffect ==
    ASSUME NEW h \in Hal, NEW at \in 0..Mod - 1, NEW g, g = Valued(h, at)
    PROVE  /\ g \in Hal /\ g.writing # "value"
           /\ g.q = h.q /\ g.abs = h.abs /\ g.last = h.last
           /\ g.expired = h.expired /\ g.sock = h.sock
           /\ h.writing = "value" => g.writing = "flag" /\ g.value = ValueOf(h, at)
           /\ h.writing # "value" => g = h
<1>1. 0 \in 0..Mod - 1 /\ ValueOf(h, at) \in 0..Mod - 1
  <2>1. at + (h.last + Mod - h.read) \in Nat /\ Mod \in Nat \ {0}
    BY TimerAssumption DEF Hal
  <2> QED  BY <2>1 DEF ValueOf
<1>2. CASE h.writing = "value"
  <2>1. g = [h EXCEPT !.writing = "flag", !.read = 0, !.value = ValueOf(h, at)]
    BY <1>2 DEF Valued, ValueOf
  <2>2. g \in Hal
    BY <2>1, <1>1 DEF Hal
  <2>3. /\ g.writing = "flag" /\ g.value = ValueOf(h, at)
        /\ g.q = h.q /\ g.abs = h.abs /\ g.last = h.last
        /\ g.expired = h.expired /\ g.sock = h.sock
    BY <2>1 DEF Hal
  <2> QED  BY <2>2, <2>3, <1>2
<1>3. CASE h.writing # "value"
  BY <1>3 DEF Valued
<1> QED  BY <1>2, <1>3

(* The second. *)
LEMMA ArmedEffect ==
    ASSUME NEW h \in Hal, NEW g, g = Armed(h)
    PROVE  /\ g \in Hal /\ g.writing # "flag"
           /\ g.q = h.q /\ g.abs = h.abs /\ g.last = h.last /\ g.value = h.value
           /\ h.sock \subseteq g.sock /\ g.read = h.read
           /\ h.writing = "flag" => ~g.expired /\ "TIMER" \in g.sock /\ g.writing = "nothing"
           /\ h.writing # "flag" => g = h
<1>1. h.sock \union {"TIMER"} \subseteq {"KICK", "TIMER"}
  BY DEF Hal
<1>2. CASE h.writing = "flag"
  <2>1. g = [h EXCEPT !.writing = "nothing", !.expired = FALSE, !.sock = h.sock \union {"TIMER"}]
    BY <1>2 DEF Armed
  <2>2. g \in Hal
    BY <2>1, <1>1 DEF Hal
  <2>3. /\ g.writing = "nothing" /\ ~g.expired /\ g.sock = h.sock \union {"TIMER"}
        /\ g.q = h.q /\ g.abs = h.abs /\ g.last = h.last /\ g.value = h.value
        /\ g.read = h.read
    BY <2>1 DEF Hal
  <2> QED  BY <2>2, <2>3, <1>2
<1>3. CASE h.writing # "flag"
  BY <1>3 DEF Armed
<1> QED  BY <1>2, <1>3

(* The flush that ends PNALMultiTimerCancel. *)
LEMMA CancelledEffect ==
    ASSUME NEW h \in Hal, NEW t \in TimerIds, NEW g, g = Cancelled(h, t)
    PROVE  /\ g \in Hal
           /\ g.abs = h.abs /\ g.last = h.last /\ g.value = h.value /\ g.expired = h.expired
           /\ g.sock = h.sock /\ g.writing = h.writing /\ g.read = h.read
           /\ g.q.number = h.q.number
           /\ \A i \in 0..h.q.number - 1 :
                At(g.q, i) = Blanked(At(h.q, i), t)
<1>1. PICK r : r = PNALDFCFlush(h.q, t) /\ g = [h EXCEPT !.q = r]
  BY DEF Cancelled
<1>2. h.q \in Queue /\ t \in CallTypes
  BY CallTypesApart DEF Hal
<1>3. /\ r \in Queue /\ r.number = h.q.number
      /\ \A i \in 0..h.q.number - 1 :
           At(r, i) = Blanked(At(h.q, i), t)
  BY <1>1, <1>2, FlushBlanksTheType
<1>4. /\ g.q = r /\ g.abs = h.abs /\ g.last = h.last /\ g.value = h.value
      /\ g.expired = h.expired /\ g.sock = h.sock /\ g.writing = h.writing /\ g.read = h.read
  BY <1>1 DEF Hal
<1>5. g \in Hal
  BY <1>1, <1>3 DEF Hal
<1> QED  BY <1>3, <1>4, <1>5
=============================================================================
