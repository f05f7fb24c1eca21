--------------------------- MODULE MsgLayoutProofs ---------------------------
(***************************************************************************)
(* Proofs about the bytes of the messages, for every content of the        *)
(* utility handler's messages and every number of messages: the fields     *)
(* and the text of a message of the stack reach its reader, and a message  *)
(* of the utility handler makes the core do nothing new.                   *)
(*                                                                         *)
(* What a buffer holds is said with the size w of a long as an argument.   *)
(***************************************************************************)
EXTENDS MsgLayout, SequenceTheorems, WellFoundedInduction, NaturalsInduction, TLAPS

Byte == {x \in Nat : x < 256}
Buffers(w) == [0..3 * w + MAXSIZE - 1 -> Byte]
Fields == {TypeField, StateField, EventField}

(* LongAt, and that the text has n characters. *)
LongIn(w, b, k) ==
  IF \A i \in 2..w - 1 : b[k * w + i] = 0 THEN b[k * w] + 256 * b[k * w + 1] ELSE -1

IsText(w, b, n) ==
  /\ n \in 0..MAXSIZE
  /\ n = MAXSIZE \/ b[3 * w + n] = 0
  /\ \A j \in 0..n - 1 : b[3 * w + j] # 0

(* What the bytes b of a message or a buffer say of what was meant: the    *)
(* fields and the text.  With longs of eight bytes the last eleven         *)
(* characters and the zero byte are missing.                               *)
Says(w, b, meant) ==
  /\ LongIn(w, b, TypeField) = meant.type
  /\ LongIn(w, b, StateField) = meant.state
  /\ LongIn(w, b, EventField) = meant.event
  /\ LET n == Len(meant.text)
     IN /\ \A i \in 0..(IF w = 4 THEN n ELSE n - 11) - 1 :
             b[3 * w + i] = meant.text[i + 1] /\ meant.text[i + 1] # 0
        /\ w = 4 => b[12 + n] = 0

(* A message of the stack, *)
StackMeant ==
  {t \in [from : {"stack"}, type : Int, state : Int, event : Int, text : Seq(Byte)] :
     11 <= Len(t.text) /\ Len(t.text) < MAXSIZE}

OfStack(w, m) ==
  /\ m.meant \in StackMeant
  /\ m.bytes \in [0..Len(m.meant.text) + 12 -> Byte]
  /\ Says(w, m.bytes, m.meant)

(* and one of the utility handler: no byte behind the type is zero. *)
UtilityMeant == [from |-> "utility"]
OfUtility(w, m) ==
  /\ m.meant = UtilityMeant
  /\ \E n \in Nat : /\ n < MAXSIZE /\ m.bytes \in [0..n -> Byte]
                    /\ \A i \in w..n : m.bytes[i] # 0

(* A message to the core has a row in its table, and a request a text that *)
(* can be cut short twice; a message to the device has come from the core. *)
ToCore(t) == Row(t.state, t.event) /\ (t.state = ST_INIT => Len(t.text) >= 51)
ToDevice(t) == t.state = ST_SEND_TO_DEVICE /\ t.event = EV_SEND_TO_DEVICE

Wired(w, k, m) ==
  \/ k = QUEUE_CORE /\ OfUtility(w, m)
  \/ /\ OfStack(w, m)
     /\ k = QUEUE_CORE => ToCore(m.meant)
     /\ k = QUEUE_DEVICE => ToDevice(m.meant)

Msgs(w, k) ==
  {m \in [bytes : UNION {[0..n -> Byte] : n \in Nat}, meant : StackMeant \union {UtilityMeant}] :
     Wired(w, k, m)}

(* A reader's buffer after a message of the stack, *)
Arrived(w, b, meant) ==
  \/ meant = None \/ meant = UtilityMeant
  \/ meant \in StackMeant /\ Says(w, b, meant)

(* and the core's after any: the state it holds is spoilt, or the event is *)
(* that of its last message of the stack, whose text is still long.        *)
Remembers(w, b, last) ==
  /\ b[3 * w + MAXSIZE - 1] = 0
  /\ \/ b[w + 2] # 0
     \/ /\ LongIn(w, b, EventField) = last[2]
        /\ last[1] = ST_INIT => \A j \in Nat : j < 40 => b[3 * w + j] # 0

QueuesInv(w, qq) == DOMAIN qq = Keys /\ \A k \in Keys : qq[k] \in Seq(Msgs(w, k))

(* State and event of the core's last message of the stack. *)
IsTold(t) == t \in Int \X Int /\ (t = <<0, 0>> \/ Row(t[1], t[2]))

BuffersInv ==
  /\ long \in {4, 8} /\ buf \in [Readers -> Buffers(long)]
  /\ QueuesInv(long, q)
  /\ DOMAIN seen = Readers /\ \A r \in Readers : Arrived(long, buf[r], seen[r])
  /\ seen["device"] # None => seen["device"] \in StackMeant /\ ToDevice(seen["device"])

CoreInv ==
  /\ IsTold(told) /\ Remembers(long, buf["core"], told)
  /\ ~Row(state, event)
  /\ fired # None => fired = told

LayoutInv == BuffersInv /\ CoreInv

-----------------------------------------------------------------------------
(* Longs and texts in a buffer.                                            *)

(* A number below 65536 stored in a long is found there again, and the     *)
(* rest of the buffer stays.                                               *)
LEMMA SetFieldIs ==
  ASSUME long \in {4, 8}, NEW b \in Buffers(long), NEW k \in Fields, NEW v \in Nat, v < 65536
  PROVE  /\ SetLong(b, k, v) \in Buffers(long) /\ LongIn(long, SetLong(b, k, v), k) = v
         /\ \A j \in Fields : j # k => LongIn(long, SetLong(b, k, v), j) = LongIn(long, b, j)
         /\ \A i \in Nat : i < MAXSIZE => SetLong(b, k, v)[3 * long + i] = b[3 * long + i]
<1> DEFINE c == SetLong(b, k, v)
<1>0. Fields = {0, 1, 2} /\ k \in {0, 1, 2}
  BY DEF Fields, TypeField, StateField, EventField
<1>1. v % 256 \in Byte /\ v \div 256 \in Byte /\ (v % 256) + 256 * (v \div 256) = v
  BY DEF Byte
<1>2. /\ \A i \in Nat : ByteOf(v, i) \in Byte
      /\ ByteOf(v, 0) = v % 256 /\ ByteOf(v, 1) = v \div 256
      /\ \A i \in Nat : i > 1 => ByteOf(v, i) = 0
  BY <1>1 DEF ByteOf, Byte
<1>3. PICK w \in {4, 8} : w = long
  OBVIOUS
<1>4. PICK last \in Nat : last = 3 * w + MAXSIZE - 1
  BY DEF MAXSIZE
<1>5. DOMAIN b = 0..last /\ \A i \in 0..last : b[i] \in Byte
  BY <1>3, <1>4 DEF Buffers
<1>6. \A i \in 0..last : c[i] = IF i \div w = k THEN ByteOf(v, i % w) ELSE b[i]
  BY <1>0, <1>3, <1>5 DEF SetLong
<1>7. c = [i \in 0..last |-> c[i]]
  BY <1>5 DEF SetLong
<1> HIDE DEF c
<1>8. \A j \in {0, 1, 2} : \A i \in 0..w - 1 :
         j * w + i \in 0..last /\ (j * w + i) \div w = j /\ (j * w + i) % w = i
  <2>1. CASE w = 4
    BY <1>4, <2>1 DEF MAXSIZE
  <2>2. CASE w = 8
    BY <1>4, <2>2 DEF MAXSIZE
  <2> QED  BY <1>3, <2>1, <2>2
<1>9. \A i \in 3 * w..last : i \div w # k
  <2>1. CASE w = 4
    BY <1>0, <2>1
  <2>2. CASE w = 8
    BY <1>0, <2>2
  <2> QED  BY <1>3, <2>1, <2>2
<1>10. ASSUME NEW j \in {0, 1, 2}
       PROVE  LongIn(w, c, j) = IF j = k THEN v ELSE LongIn(w, b, j)
  <2>1. PICK n \in Nat : n = j * w
    BY <1>3
  <2>2. \A i \in 0..w - 1 : n + i \in 0..last /\ (n + i) \div w = j /\ (n + i) % w = i
    BY <1>8, <2>1
  <2>3. \A i \in 0..w - 1 : c[n + i] = IF j = k THEN ByteOf(v, i) ELSE b[n + i]
    BY <1>6, <2>2
  <2>4. /\ 0 \in 0..w - 1 /\ n + 0 = n /\ 1 \in 0..w - 1
        /\ \A i \in 2..w - 1 : i \in 0..w - 1 /\ i \in Nat /\ i > 1
    BY <1>3
  <2>5. CASE j = k
    <3>1. c[n] = v % 256 /\ c[n + 1] = v \div 256 /\ \A i \in 2..w - 1 : c[n + i] = 0
      BY <1>2, <2>3, <2>4, <2>5
    <3> QED  BY <1>1, <2>1, <2>5, <3>1 DEF LongIn
  <2>6. CASE j # k
    <3>1. c[n] = b[n] /\ c[n + 1] = b[n + 1] /\ \A i \in 2..w - 1 : c[n + i] = b[n + i]
      BY <2>3, <2>4, <2>6
    <3> QED  BY <2>1, <2>6, <3>1 DEF LongIn
  <2> QED  BY <2>5, <2>6
<1>11. \A i \in 3 * w..last : c[i] = b[i]
  BY <1>3, <1>6, <1>9
<1>12. c \in Buffers(long)
  <2>1. \A i \in 0..last : i % w \in Nat
    BY <1>3
  <2>2. ASSUME NEW i \in 0..last PROVE c[i] \in Byte
    <3>1. PICK j \in Nat : j = i % w
      BY <2>1
    <3>2. c[i] = ByteOf(v, j) \/ c[i] = b[i]
      BY <1>6, <3>1
    <3> QED  BY <1>2, <1>5, <3>2
  <2> QED  BY <1>3, <1>4, <1>7, <2>2 DEF Buffers
<1>13. LongIn(long, c, k) = v /\ \A j \in Fields : j # k => LongIn(long, c, j) = LongIn(long, b, j)
  BY <1>0, <1>3, <1>10
<1>14. \A i \in Nat : i < MAXSIZE => c[3 * w + i] = b[3 * w + i]
  <2>1. \A i \in Nat : i < MAXSIZE => 3 * w + i \in 3 * w..last
    BY <1>4 DEF MAXSIZE
  <2> QED  BY <1>11, <2>1
<1> QED  BY <1>3, <1>12, <1>13, <1>14 DEF c

(* A text of the stack copied into the buffer is found there again, and    *)
(* the fields stay, and so does the last byte.                             *)
LEMMA StrcpyIs ==
  ASSUME long \in {4, 8}, NEW b \in Buffers(long), NEW t \in Texts \ {"empty"},
         NEW c, c = Strcpy(b, t)
  PROVE  /\ c \in Buffers(long) /\ IsText(long, c, Strlen[t])
         /\ Strlen[t] \in Nat /\ Strlen[t] >= 24 /\ Strlen[t] < 56
         /\ \A i \in 0..3 * long - 1 : c[i] = b[i]
<1>1. Strlen[t] \in Nat /\ Strlen[t] >= 24 /\ Strlen[t] < 56
      /\ Characters[t] \in Byte /\ Characters[t] # 0
  BY DEF Strlen, Texts, Characters, Byte
<1>2. PICK n \in Nat : n = Strlen[t] /\ n >= 24 /\ n < 56
  BY <1>1
<1>3. PICK w \in {4, 8} : w = long
  OBVIOUS
<1>4. PICK last \in Nat : last = 3 * w + MAXSIZE - 1 /\ last > 3 * w + n /\ n < MAXSIZE
  BY <1>2 DEF MAXSIZE
<1>5. DOMAIN b = 0..last /\ \A i \in 0..last : b[i] \in Byte
  BY <1>3, <1>4 DEF Buffers
<1>6. \A i \in 0..last :
         c[i] = IF i \in 3 * w..3 * w + n - 1 THEN Characters[t]
                ELSE IF i = 3 * w + n THEN 0 ELSE b[i]
  BY <1>2, <1>3, <1>5 DEF Strcpy
<1>7. c = [i \in 0..last |-> c[i]]
  BY <1>5 DEF Strcpy
<1>8. c \in Buffers(long)
  <2>1. 0 \in Byte
    BY DEF Byte
  <2>2. \A i \in 0..last : c[i] \in Byte
    BY <1>1, <1>5, <1>6, <2>1
  <2> QED  BY <1>3, <1>4, <1>7, <2>2 DEF Buffers
<1>9. IsText(long, c, n)
  <2>1. 3 * w + n \in 0..last /\ c[3 * w + n] = 0
    BY <1>2, <1>4, <1>6
  <2>2. \A j \in 0..n - 1 : 3 * w + j \in 3 * w..3 * w + n - 1 /\ 3 * w + j \in 0..last
    BY <1>4
  <2>3. \A j \in 0..n - 1 : c[3 * w + j] = Characters[t]
    BY <1>6, <2>2
  <2>4. n \in 0..MAXSIZE
    BY <1>4 DEF MAXSIZE
  <2> QED  BY <1>1, <1>3, <2>1, <2>3, <2>4 DEF IsText
<1>10. \A i \in 0..3 * w - 1 : c[i] = b[i]
  BY <1>4, <1>6
<1> QED  BY <1>1, <1>2, <1>3, <1>8, <1>9, <1>10

(* Where the fields are the same, so are the longs. *)
LEMMA SameLongs ==
  ASSUME NEW w \in {4, 8}, NEW b, NEW c, \A i \in 0..3 * w - 1 : c[i] = b[i], NEW k \in Fields
  PROVE  LongIn(w, c, k) = LongIn(w, b, k)
<1>1. k \in {0, 1, 2}
  BY DEF Fields, TypeField, StateField, EventField
<1>2. PICK n \in Nat : n = k * w /\ n + w <= 3 * w
  BY <1>1
<1>3. c[n] = b[n] /\ c[n + 1] = b[n + 1] /\ \A i \in 2..w - 1 : c[n + i] = b[n + i]
  BY <1>2
<1> QED  BY <1>2, <1>3 DEF LongIn

(* Every buffer holds one text: it has a first zero byte or none, *)
LEMMA TextExists ==
  ASSUME NEW w \in {4, 8}, NEW b
  PROVE  \E n \in 0..MAXSIZE : IsText(w, b, n)
<1> DEFINE Ends == {n \in Nat : n <= MAXSIZE /\ (n = MAXSIZE \/ b[3 * w + n] = 0)}
<1>1. MAXSIZE \in Nat
  BY DEF MAXSIZE
<1>2. MAXSIZE \in Ends
  BY <1>1
<1>3. PICK n \in Ends : \A j \in Ends : <<j, n>> \notin OpToRel(<, Nat)
  <2>1. Ends \subseteq Nat /\ Ends # {}
    BY <1>2
  <2> HIDE DEF Ends
  <2> QED  BY <2>1, NatLessThanWellFounded, WFMin
<1>4. ASSUME NEW j \in 0..n - 1 PROVE b[3 * w + j] # 0
  <2>1. j \in Nat /\ n \in Nat /\ j < n /\ n <= MAXSIZE
    OBVIOUS
  <2>2. <<j, n>> \in OpToRel(<, Nat)
    BY <2>1 DEF OpToRel
  <2>3. j \notin Ends
    BY <1>3, <2>2
  <2> QED  BY <1>1, <2>1, <2>3
<1>5. n \in 0..MAXSIZE
  BY <1>1
<1> QED  BY <1>1, <1>4, <1>5 DEF IsText

(* and TextOf finds it. *)
LEMMA TextIs ==
  ASSUME long \in {4, 8}, NEW b \in Buffers(long), NEW n, IsText(long, b, n)
  PROVE  /\ n \in Nat /\ TextOf(b) = [i \in 1..n |-> b[3 * long + i - 1]]
         /\ TextOf(b) \in Seq(Byte) /\ Len(TextOf(b)) = n
<1>1. n \in Nat /\ n <= MAXSIZE /\ MAXSIZE \in Nat
  BY DEF IsText, MAXSIZE
<1> DEFINE first == 3 * long
           First(k) == /\ k = MAXSIZE \/ b[first + k] = 0
                       /\ \A j \in 0..k - 1 : b[first + j] # 0
<1>2. n \in 0..MAXSIZE /\ First(n)
  BY DEF IsText
<1>3. ASSUME NEW k \in 0..MAXSIZE, First(k) PROVE k = n
  <2>1. CASE k < n
    <3>1. k \in 0..n - 1 /\ k # MAXSIZE
      BY <1>1, <2>1
    <3> QED  BY <1>2, <1>3, <3>1
  <2>2. CASE n < k
    <3>1. n \in 0..k - 1 /\ n # MAXSIZE
      BY <1>1, <2>2
    <3> QED  BY <1>2, <1>3, <3>1
  <2> QED  BY <1>1, <2>1, <2>2
<1> HIDE DEF First
<1>4. n = CHOOSE k \in 0..MAXSIZE : First(k)
  BY <1>2, <1>3
<1>5. TextOf(b) = [i \in 1..n |-> b[first + i - 1]]
  BY <1>4 DEF TextOf, First
<1>6. PICK w \in {4, 8} : w = long
  OBVIOUS
<1>7. \A i \in 1..n : b[3 * w + i - 1] \in Byte
  BY <1>1, <1>6 DEF Buffers
<1>8. PICK s : s = [i \in 1..n |-> b[3 * w + i - 1]]
  OBVIOUS
<1>9. s \in Seq(Byte) /\ Len(s) = n
  BY <1>1, <1>7, <1>8
<1> QED  BY <1>1, <1>5, <1>6, <1>8, <1>9

-----------------------------------------------------------------------------
(* Messages.                                                               *)

(* What message_queue_write of the stack puts on a queue. *)
LEMMA WireIs ==
  ASSUME long \in {4, 8}, NEW b \in Buffers(long), NEW n \in Nat, IsText(long, b, n),
         11 <= n, n < MAXSIZE, NEW m, m = Wire(b),
         \A k \in Fields : LongIn(long, b, k) \in Int
  PROVE  /\ OfStack(long, m) /\ m.bytes \in UNION {[0..i -> Byte] : i \in Nat}
         /\ m = [bytes |-> m.bytes, meant |-> m.meant] /\ Len(m.meant.text) = n
         /\ m.meant.state = LongIn(long, b, StateField)
         /\ m.meant.event = LongIn(long, b, EventField)
<1>1. PICK t : t = TextOf(b)
  OBVIOUS
<1>2. PICK w \in {4, 8} : w = long
  OBVIOUS
<1>3. t = [i \in 1..n |-> b[3 * w + i - 1]] /\ t \in Seq(Byte) /\ Len(t) = n
  BY <1>1, <1>2, TextIs
<1>4. LongAt(b, TypeField) = LongIn(w, b, TypeField) /\ LongAt(b, StateField) = LongIn(w, b, StateField)
      /\ LongAt(b, EventField) = LongIn(w, b, EventField)
  BY <1>2 DEF LongAt, LongIn
<1>5. StackBuflen(t) - 1 = n + 12
  BY <1>3 DEF StackBuflen
<1>6. PICK z : z = [from |-> "stack", type |-> LongIn(w, b, TypeField),
                    state |-> LongIn(w, b, StateField), event |-> LongIn(w, b, EventField),
                    text |-> t]
  OBVIOUS
<1>7. PICK c : c = [i \in 0..n + 12 |-> b[i]]
  OBVIOUS
<1>8. m = [bytes |-> c, meant |-> z]
  BY <1>1, <1>4, <1>5, <1>6, <1>7 DEF Wire
<1>9. z \in StackMeant
  BY <1>2, <1>3, <1>6 DEF StackMeant, Fields
<1>10. PICK last \in Nat : last = 3 * w + MAXSIZE - 1 /\ n + 12 <= last
  BY <1>2 DEF MAXSIZE
<1>11. \A i \in 0..last : b[i] \in Byte
  BY <1>2, <1>10 DEF Buffers
<1>12. c \in [0..n + 12 -> Byte]
  BY <1>7, <1>10, <1>11
<1>13. \A i \in 0..3 * w - 1 : c[i] = b[i]
  BY <1>7
<1>14. \A i \in 0..n - 1 : t[i + 1] = b[3 * w + i] /\ t[i + 1] # 0
  <2>1. \A i \in 0..n - 1 : i + 1 \in 1..n /\ 3 * w + (i + 1) - 1 = 3 * w + i
    OBVIOUS
  <2>2. \A i \in 0..n - 1 : b[3 * w + i] # 0
    BY <1>2 DEF IsText
  <2> QED  BY <1>3, <2>1, <2>2
<1>15. Says(w, c, z)
  <2>1. /\ LongIn(w, c, TypeField) = z.type /\ LongIn(w, c, StateField) = z.state
        /\ LongIn(w, c, EventField) = z.event
    BY <1>6, <1>13, SameLongs DEF Fields
  <2>2. z.text = t
    BY <1>6
  <2>3. CASE w = 4
    <3>1. \A i \in 0..n - 1 : c[3 * w + i] = b[3 * w + i]
      BY <1>7, <2>3
    <3>2. c[12 + n] = 0
      BY <1>2, <1>7, <2>3 DEF IsText, MAXSIZE
    <3>3. Len(z.text) = n /\ \A i \in 0..n - 1 : c[3 * w + i] = z.text[i + 1] /\ z.text[i + 1] # 0
      BY <1>3, <1>14, <2>2, <3>1
    <3> QED  BY <2>1, <2>3, <3>2, <3>3 DEF Says
  <2>4. CASE w = 8
    <3>1. \A i \in 0..n - 11 - 1 : c[3 * w + i] = b[3 * w + i] /\ i \in 0..n - 1
      BY <1>7, <2>4
    <3>2. Len(z.text) = n
          /\ \A i \in 0..n - 11 - 1 : c[3 * w + i] = z.text[i + 1] /\ z.text[i + 1] # 0
      BY <1>3, <1>14, <2>2, <3>1
    <3> QED  BY <2>1, <2>4, <3>2 DEF Says
  <2> QED  BY <2>3, <2>4
<1>16. m.bytes = c /\ m.meant = z /\ Len(z.text) = n /\ z.state = LongIn(w, b, StateField)
       /\ z.event = LongIn(w, b, EventField)
  BY <1>3, <1>6, <1>8
<1> QED  BY <1>2, <1>8, <1>9, <1>12, <1>15, <1>16 DEF OfStack

(* A long is a number. *)
LEMMA LongsAreInts ==
  ASSUME NEW w \in {4, 8}, NEW b \in Buffers(w), NEW k \in Fields
  PROVE  LongIn(w, b, k) \in Int
<1>1. k \in {0, 1, 2}
  BY DEF Fields, TypeField, StateField, EventField
<1>2. PICK n \in Nat : n = k * w /\ n + 1 <= 3 * w - 1
  BY <1>1
<1>3. b[n] \in Byte /\ b[n + 1] \in Byte
  BY <1>2 DEF Buffers, MAXSIZE
<1> QED  BY <1>2, <1>3 DEF LongIn, Byte

(* What the utility handler puts on the core's queue: its text is cut off  *)
(* before the zero byte.                                                   *)
LEMMA UtilityWireIs ==
  ASSUME long \in {4, 8}, NEW type \in UtilityTypes, NEW text \in UtilityTexts,
         NEW m, m = UtilityWire(type, text)
  PROVE  m \in Msgs(long, QUEUE_CORE)
<1>1. /\ type \in Nat /\ type < 65536 /\ text \in Seq(Nat \ {0}) /\ Len(text) < MAXSIZE
      /\ \A i \in 1..Len(text) : text[i] < 256
  BY LayoutAssumption DEF MAXSIZE
<1>2. \A i \in 1..Len(text) : text[i] \in Byte /\ text[i] # 0
  BY <1>1 DEF Byte
<1>3. PICK w \in {4, 8} : w = long
  OBVIOUS
<1>4. PICK n \in Nat : n = Len(text) /\ n < MAXSIZE
  BY <1>1
<1>6. PICK body : body = text \o <<0>>
  OBVIOUS
<1>7. \A j \in 1..n : body[j] = text[j]
  BY <1>1, <1>4, <1>6
<1>8. PICK c : c = [i \in 0..n |-> IF i < w THEN ByteOf(type, i) ELSE body[i - w + 1]]
  OBVIOUS
<1>9. m = [bytes |-> c, meant |-> UtilityMeant]
  BY <1>3, <1>4, <1>6, <1>8 DEF UtilityWire, UtilityMeant
<1>10. \A i \in Nat : ByteOf(type, i) \in Byte
  BY <1>1 DEF ByteOf, Byte
<1>11. ASSUME NEW i \in w..n PROVE c[i] \in Byte /\ c[i] # 0
  <2>1. i - w + 1 \in 1..n /\ i \in 0..n /\ ~(i < w)
    OBVIOUS
  <2>2. c[i] = body[i - w + 1]
    BY <1>8, <2>1
  <2> QED  BY <1>2, <1>4, <1>7, <2>1, <2>2
<1>12. c \in [0..n -> Byte]
  <2>1. ASSUME NEW i \in 0..n PROVE c[i] \in Byte
    <3>1. CASE i < w
      <4>1. c[i] = ByteOf(type, i)
        BY <1>8, <3>1
      <4> QED  BY <1>10, <4>1
    <3>2. CASE ~(i < w)
      BY <1>11, <3>2
    <3> QED  BY <3>1, <3>2
  <2>2. c = [i \in 0..n |-> c[i]]
    BY <1>8
  <2> QED  BY <2>1, <2>2
<1>13. OfUtility(w, m)
  BY <1>4, <1>9, <1>11, <1>12 DEF OfUtility
<1> QED  BY <1>3, <1>9, <1>12, <1>13 DEF Msgs, Wired

(* A message is put over the reader's buffer. *)
LEMMA LaidIs ==
  ASSUME long \in {4, 8}, NEW b \in Buffers(long), NEW n \in Nat, NEW m,
         m.bytes \in [0..n -> Byte], NEW c, c = Laid(m, b)
  PROVE  /\ c \in Buffers(long)
         /\ \A i \in 0..3 * long + MAXSIZE - 1 : c[i] = IF i <= n THEN m.bytes[i] ELSE b[i]
<1>1. PICK last : last = 3 * long + MAXSIZE - 1
  OBVIOUS
<1>2. DOMAIN b = 0..last /\ \A i \in 0..last : b[i] \in Byte
  BY <1>1 DEF Buffers
<1>3. PICK d : d = m.bytes
  OBVIOUS
<1>4. DOMAIN d = 0..n /\ \A i \in 0..n : d[i] \in Byte
  BY <1>3
<1>5. c = [i \in 0..last |-> IF i \in 0..n THEN d[i] ELSE b[i]]
  BY <1>2, <1>3, <1>4 DEF Laid
<1>6. \A i \in 0..last : i \in 0..n <=> i <= n
  OBVIOUS
<1>7. \A i \in 0..last : c[i] = IF i <= n THEN d[i] ELSE b[i]
  BY <1>5, <1>6
<1>8. c \in [0..last -> Byte]
  BY <1>2, <1>4, <1>5
<1> QED  BY <1>1, <1>3, <1>7, <1>8 DEF Buffers

(* The message of the stack a reader has laid over its buffer arrives, and *)
(* the zero byte at the end of the core's stays.                           *)
LEMMA StackArrives ==
  ASSUME long \in {4, 8}, NEW b \in Buffers(long), NEW m, OfStack(long, m), NEW c, c = Laid(m, b)
  PROVE  /\ c \in Buffers(long) /\ Says(long, c, m.meant)
         /\ b[3 * long + MAXSIZE - 1] = 0 => c[3 * long + MAXSIZE - 1] = 0
<1>1. PICK t : t = m.meant
  OBVIOUS
<1>2. PICK d : d = m.bytes
  OBVIOUS
<1>3. t.text \in Seq(Byte) /\ 11 <= Len(t.text) /\ Len(t.text) < MAXSIZE
  BY <1>1 DEF OfStack, StackMeant
<1>4. PICK n \in Nat : n = Len(t.text) /\ 11 <= n /\ n < MAXSIZE
  BY <1>3
<1>5. PICK w \in {4, 8} : w = long
  OBVIOUS
<1>6. d \in [0..n + 12 -> Byte] /\ Says(w, d, t)
  BY <1>1, <1>2, <1>4, <1>5 DEF OfStack
<1>7. PICK last \in Nat : last = 3 * w + MAXSIZE - 1
  BY <1>5 DEF MAXSIZE
<1>8. c \in Buffers(long) /\ \A i \in 0..last : c[i] = IF i <= n + 12 THEN d[i] ELSE b[i]
  BY <1>2, <1>5, <1>6, <1>7, LaidIs
<1>9. \A i \in 0..3 * w - 1 : c[i] = d[i]
  BY <1>4, <1>5, <1>7, <1>8 DEF MAXSIZE
<1>10. \A k \in Fields : LongIn(w, c, k) = LongIn(w, d, k)
  BY <1>9, SameLongs
<1>11. CASE w = 4
  <2>1. last = 139 /\ n + 12 <= last
    BY <1>4, <1>7, <1>11 DEF MAXSIZE
  <2>2. \A i \in 0..n : 12 + i \in 0..last /\ 12 + i <= n + 12
    BY <2>1
  <2>3. \A i \in 0..n : c[12 + i] = d[12 + i]
    BY <1>8, <2>2
  <2>4. d[12 + n] = 0 /\ \A i \in 0..n - 1 : d[12 + i] = t.text[i + 1] /\ t.text[i + 1] # 0
    BY <1>4, <1>6, <1>11 DEF Says
  <2>5. Says(w, c, t)
    <3>1. \A i \in 0..n - 1 : i \in 0..n
      OBVIOUS
    <3>2. c[12 + n] = 0 /\ \A i \in 0..n - 1 : c[12 + i] = t.text[i + 1] /\ t.text[i + 1] # 0
      BY <2>3, <2>4, <3>1
    <3> QED  BY SMTT(30), <1>4, <1>6, <1>10, <1>11, <3>2 DEF Says, Fields
  <2>6. b[last] = 0 => c[last] = 0
    <3>1. CASE n + 12 = last
      BY <1>4, <1>6, <1>8, <1>11, <3>1 DEF Says
    <3>2. CASE n + 12 # last
      BY <1>8, <2>1, <3>2
    <3> QED  BY <3>1, <3>2
  <2> QED  BY <1>1, <1>5, <1>7, <1>8, <2>5, <2>6
<1>12. CASE w = 8
  <2>1. last = 151 /\ n + 12 < last
    BY <1>4, <1>7, <1>12 DEF MAXSIZE
  <2>2. \A i \in 0..n - 11 - 1 : 24 + i \in 0..last /\ 24 + i <= n + 12
    BY <2>1
  <2>3. \A i \in 0..n - 11 - 1 : c[24 + i] = d[24 + i]
    BY <1>8, <2>2
  <2>4. Says(w, c, t)
    <3>1. \A i \in 0..n - 11 - 1 : c[3 * w + i] = t.text[i + 1] /\ t.text[i + 1] # 0
      BY <1>4, <1>6, <1>12, <2>3 DEF Says
    <3> QED  BY <1>4, <1>6, <1>10, <1>12, <3>1 DEF Says, Fields
  <2>5. b[last] = 0 => c[last] = 0
    BY <1>8, <2>1
  <2> QED  BY <1>1, <1>5, <1>7, <1>8, <2>4, <2>5
<1> QED  BY <1>11, <1>12

(* A message of the utility handler spoils the state, or leaves the event  *)
(* and the text.                                                           *)
LEMMA UtilityRemembers ==
  ASSUME long \in {4, 8}, NEW b \in Buffers(long), NEW m, OfUtility(long, m), NEW last,
         Remembers(long, b, last), NEW c, c = Laid(m, b)
  PROVE  c \in Buffers(long) /\ Remembers(long, c, last)
<1>1. PICK w \in {4, 8} : w = long
  OBVIOUS
<1>2. PICK d : d = m.bytes
  OBVIOUS
<1>3. PICK n \in Nat : n < MAXSIZE /\ d \in [0..n -> Byte] /\ \A i \in w..n : d[i] # 0
  BY <1>1, <1>2 DEF OfUtility
<1>4. PICK top \in Nat : top = 3 * w + MAXSIZE - 1 /\ n < top /\ 3 * w + 40 < top
  BY <1>1, <1>3 DEF MAXSIZE
<1>5. c \in Buffers(long) /\ \A i \in 0..top : c[i] = IF i <= n THEN d[i] ELSE b[i]
  BY <1>1, <1>2, <1>3, <1>4, LaidIs
<1>6. c[top] = 0
  BY <1>1, <1>4, <1>5 DEF Remembers
<1>7. CASE w + 2 <= n
  <2>1. w + 2 \in 0..top /\ w + 2 \in w..n
    BY <1>4, <1>7
  <2>2. c[w + 2] # 0
    BY <1>3, <1>5, <1>7, <2>1
  <2> QED  BY <1>1, <1>4, <1>5, <1>6, <2>2 DEF Remembers
<1>8. CASE ~(w + 2 <= n)
  <2>1. \A i \in w + 2..top : c[i] = b[i]
    BY <1>5, <1>8
  <2>2. c[w + 2] = b[w + 2]
    BY <1>4, <2>1
  <2>3. LongIn(w, c, EventField) = LongIn(w, b, EventField)
    <3>1. PICK e \in Nat : e = 2 * w /\ e >= w + 2 /\ e + w - 1 <= top
      BY <1>4
    <3>2. c[e] = b[e] /\ c[e + 1] = b[e + 1] /\ \A i \in 2..w - 1 : c[e + i] = b[e + i]
      BY <2>1, <3>1
    <3> QED  BY <3>1, <3>2 DEF LongIn, EventField
  <2>4. \A j \in Nat : j < 40 => c[3 * w + j] = b[3 * w + j]
    BY <1>4, <2>1
  <2> QED  BY <1>1, <1>4, <1>5, <1>6, <2>2, <2>3, <2>4 DEF Remembers
<1> QED  BY <1>7, <1>8

(* What the core's buffer holds after a message of either kind. *)
LEMMA CoreHolds ==
  ASSUME long \in {4, 8}, NEW b \in Buffers(long), NEW m \in Msgs(long, QUEUE_CORE),
         NEW last, IsTold(last), Remembers(long, b, last), NEW c, c = Laid(m, b),
         NEW t, t = IF m.meant.from = "stack" THEN <<m.meant.state, m.meant.event>> ELSE last
  PROVE  /\ c \in Buffers(long) /\ IsTold(t) /\ Remembers(long, c, t)
         /\ Arrived(long, c, m.meant)
<1>1. CASE OfUtility(long, m)
  <2>1. m.meant = UtilityMeant
    BY <1>1 DEF OfUtility
  <2>2. t = last
    BY <2>1 DEF UtilityMeant
  <2> QED  BY <1>1, <2>1, <2>2, UtilityRemembers DEF Arrived
<1>2. CASE ~OfUtility(long, m)
  <2>1. OfStack(long, m) /\ ToCore(m.meant)
    BY <1>2 DEF Msgs, Wired
  <2>2. m.meant \in StackMeant
    BY <2>1 DEF OfStack
  <2>3. PICK z : z = m.meant
    OBVIOUS
  <2>4. z.from = "stack" /\ z.state \in Int /\ z.event \in Int /\ z.text \in Seq(Byte)
    BY <2>2, <2>3 DEF StackMeant
  <2>5. t = <<z.state, z.event>>
    BY <2>3, <2>4
  <2>6. IsTold(t)
    BY <2>1, <2>3, <2>4, <2>5 DEF IsTold, ToCore
  <2>7. /\ c \in Buffers(long) /\ Says(long, c, z)
        /\ b[3 * long + MAXSIZE - 1] = 0 => c[3 * long + MAXSIZE - 1] = 0
    BY <2>1, <2>3, StackArrives
  <2>8. c[3 * long + MAXSIZE - 1] = 0
    BY <2>7 DEF Remembers
  <2>9. LongIn(long, c, EventField) = t[2]
    BY <2>5, <2>7 DEF Says
  <2>10. ASSUME t[1] = ST_INIT, NEW j \in Nat, j < 40 PROVE c[3 * long + j] # 0
    <3>1. PICK n \in Nat : n = Len(z.text) /\ n >= 51
      BY <2>1, <2>3, <2>4, <2>5, <2>10 DEF ToCore
    <3>2. j \in 0..(IF long = 4 THEN n ELSE n - 11) - 1
      BY <2>10, <3>1
    <3> QED  BY <2>7, <3>1, <3>2 DEF Says
  <2> QED  BY <2>2, <2>3, <2>6, <2>7, <2>8, <2>9, <2>10 DEF Remembers, Arrived
<1> QED  BY <1>1, <1>2

(* The event of a row is the event of no other. *)
LEMMA RowOfEvent ==
  ASSUME NEW s, NEW t, NEW e, Row(s, e), Row(t, e)
  PROVE  s = t
BY DEF Row, RequestEvents, EV_SEND_TO_CORE_NO_ACK, EV_SEND_TO_CORE, EV_SEND_TO_CORE_DEV_ACK,
       EV_SEND_TO_DEVICE

(* So a row the core's buffer chooses is that of its last message of the   *)
(* stack, and the text of a request is there still.                        *)
LEMMA OnlyTold ==
  ASSUME long \in {4, 8}, NEW c, NEW t, IsTold(t), Remembers(long, c, t),
         Row(LongIn(long, c, StateField), LongIn(long, c, EventField))
  PROVE  /\ t = <<LongIn(long, c, StateField), LongIn(long, c, EventField)>>
         /\ t[1] = ST_INIT => \A j \in Nat : j < 40 => c[3 * long + j] # 0
<1> DEFINE s == LongIn(long, c, StateField)
           e == LongIn(long, c, EventField)
<1>1. c[long + 2] = 0
  <2>1. SUFFICES ASSUME c[long + 2] # 0 PROVE s = -1
    <3>1. ~Row(-1, e)
      BY DEF Row, ST_INIT, ST_SEND_TO_DEVICE
    <3> QED  BY <3>1
  <2>2. StateField * long + 2 = long + 2 /\ 2 \in 2..long - 1
    BY DEF StateField
  <2> QED  BY <2>1, <2>2 DEF LongIn
<1>2. e = t[2] /\ (t[1] = ST_INIT => \A j \in Nat : j < 40 => c[3 * long + j] # 0)
  BY <1>1 DEF Remembers
<1>3. t # <<0, 0>>
  <2>1. ~Row(s, 0)
    BY DEF Row, RequestEvents, EV_SEND_TO_CORE_NO_ACK, EV_SEND_TO_CORE, EV_SEND_TO_CORE_DEV_ACK,
           EV_SEND_TO_DEVICE
  <2> QED  BY <1>2, <2>1
<1>4. Row(t[1], t[2]) /\ t = <<t[1], t[2]>>
  BY <1>3 DEF IsTold
<1>5. s = t[1]
  BY <1>2, <1>4, RowOfEvent
<1> QED  BY <1>2, <1>4, <1>5

-----------------------------------------------------------------------------
(* The queues.                                                             *)

LEMMA QueueAppended ==
  ASSUME NEW w, QueuesInv(w, q), NEW k \in Keys, NEW m \in Msgs(w, k),
         NEW r, r = [q EXCEPT ![k] = Append(@, m)]
  PROVE  QueuesInv(w, r)
<1>1. q[k] \in Seq(Msgs(w, k))
  BY DEF QueuesInv
<1>2. Append(q[k], m) \in Seq(Msgs(w, k))
  BY <1>1, AppendProperties
<1>3. DOMAIN r = Keys /\ \A j \in Keys : r[j] = IF j = k THEN Append(q[k], m) ELSE q[j]
  BY DEF QueuesInv
<1> QED  BY <1>2, <1>3 DEF QueuesInv

LEMMA QueueRead ==
  ASSUME NEW w, QueuesInv(w, q), NEW k \in Keys, q[k] # << >>
  PROVE  /\ Head(q[k]) \in Msgs(w, k) /\ Tail(q[k]) \in Seq(Msgs(w, k))
         /\ \A r : r = [q EXCEPT ![k] = Tail(@)] => QueuesInv(w, r)
<1>1. q[k] \in Seq(Msgs(w, k))
  BY DEF QueuesInv
<1>2. Head(q[k]) \in Msgs(w, k) /\ Tail(q[k]) \in Seq(Msgs(w, k))
  BY <1>1, HeadTailProperties
<1>3. ASSUME NEW r, r = [q EXCEPT ![k] = Tail(@)] PROVE QueuesInv(w, r)
  <2>1. DOMAIN r = Keys /\ \A j \in Keys : r[j] = IF j = k THEN Tail(q[k]) ELSE q[j]
    BY <1>3 DEF QueuesInv
  <2> QED  BY <1>2, <2>1 DEF QueuesInv
<1> QED  BY <1>2, <1>3

(* A message of the stack may go to every queue whose reader can use it. *)
LEMMA WireFits ==
  ASSUME long \in {4, 8}, NEW b \in Buffers(long), NEW n \in Nat, IsText(long, b, n),
         11 <= n, n < MAXSIZE, NEW k \in Keys,
         NEW s, s = LongIn(long, b, StateField), NEW e, e = LongIn(long, b, EventField),
         k = QUEUE_CORE => Row(s, e) /\ (s = ST_INIT => n >= 51),
         k = QUEUE_DEVICE => s = ST_SEND_TO_DEVICE /\ e = EV_SEND_TO_DEVICE
  PROVE  Wire(b) \in Msgs(long, k)
<1>1. \A f \in Fields : LongIn(long, b, f) \in Int
  BY LongsAreInts
<1>2. PICK m : m = Wire(b)
  OBVIOUS
<1>3. /\ OfStack(long, m) /\ m.bytes \in UNION {[0..i -> Byte] : i \in Nat}
      /\ m = [bytes |-> m.bytes, meant |-> m.meant] /\ Len(m.meant.text) = n
      /\ m.meant.state = s /\ m.meant.event = e
  BY <1>1, <1>2, WireIs
<1>4. m.meant \in StackMeant
  BY <1>3 DEF OfStack
<1>5. k = QUEUE_CORE => ToCore(m.meant)
  BY <1>3 DEF ToCore
<1>6. k = QUEUE_DEVICE => ToDevice(m.meant)
  BY <1>3 DEF ToDevice
<1>7. Wired(long, k, m)
  BY <1>3, <1>5, <1>6 DEF Wired
<1> QED  BY <1>2, <1>3, <1>4, <1>7 DEF Msgs

(* A copy a handler writes. *)
LEMMA CopyFits ==
  ASSUME long \in {4, 8}, NEW b \in Buffers(long), NEW n \in Nat, IsText(long, b, n),
         11 <= n, n < MAXSIZE, NEW k \in Keys, NEW s \in Nat, s < 65536, NEW e \in Nat, e < 65536,
         s # ST_INIT, k = QUEUE_CORE => Row(s, e),
         k = QUEUE_DEVICE => s = ST_SEND_TO_DEVICE /\ e = EV_SEND_TO_DEVICE
  PROVE  Copy(b, s, e) \in Seq(Msgs(long, k))
<1>1. PICK c : c = SetLong(b, StateField, s)
  OBVIOUS
<1>2. PICK d : d = SetLong(c, EventField, e)
  OBVIOUS
<1>3. StateField \in Fields /\ EventField \in Fields /\ StateField # EventField
  BY DEF Fields, StateField, EventField
<1>4. /\ c \in Buffers(long) /\ LongIn(long, c, StateField) = s
      /\ \A i \in Nat : i < MAXSIZE => c[3 * long + i] = b[3 * long + i]
  BY <1>1, <1>3, SetFieldIs
<1>5. /\ d \in Buffers(long) /\ LongIn(long, d, EventField) = e
      /\ LongIn(long, d, StateField) = LongIn(long, c, StateField)
      /\ \A i \in Nat : i < MAXSIZE => d[3 * long + i] = c[3 * long + i]
  BY ONLY <1>2, <1>3, <1>4, SetFieldIs, long \in {4, 8}, e \in Nat, e < 65536
<1>6. IsText(long, d, n)
  <2>1. MAXSIZE \in Nat
    BY DEF MAXSIZE
  <2>2. \A i \in Nat : i < MAXSIZE => d[3 * long + i] = b[3 * long + i]
    BY <1>4, <1>5
  <2> QED  BY <2>1, <2>2 DEF IsText
<1>7. Wire(d) \in Msgs(long, k)
  BY <1>4, <1>5, <1>6, WireFits
<1>8. Copy(b, s, e) = <<Wire(d)>>
  BY <1>1, <1>2 DEF Copy
<1> QED  BY <1>7, <1>8

(* What the core's handlers write when their buffer has a request's text   *)
(* or answers a message of the device.                                     *)
LEMMA HandledFits ==
  ASSUME long \in {4, 8}, NEW b \in Buffers(long), b[3 * long + MAXSIZE - 1] = 0,
         NEW s, NEW e, Row(s, e),
         s = ST_INIT => \A j \in Nat : j < 40 => b[3 * long + j] # 0
  PROVE  \A k \in Keys : Handled(b, e, k) \in Seq(Msgs(long, k))
<1> DEFINE Device(t) == Copy(t, ST_SEND_TO_DEVICE, EV_SEND_TO_DEVICE)
           App(t) == Copy(t, ST_SEND_ACK, EV_SEND_TO_APP)
<1>1. /\ ST_SEND_TO_DEVICE \in Nat /\ ST_SEND_TO_DEVICE < 65536 /\ ST_SEND_TO_DEVICE # ST_INIT
      /\ ST_SEND_ACK \in Nat /\ ST_SEND_ACK < 65536 /\ ST_SEND_ACK # ST_INIT
      /\ EV_SEND_TO_DEVICE \in Nat /\ EV_SEND_TO_DEVICE < 65536
      /\ EV_SEND_TO_APP \in Nat /\ EV_SEND_TO_APP < 65536
      /\ Row(ST_SEND_TO_DEVICE, EV_SEND_TO_DEVICE)
      /\ QUEUE_APPLICATION # QUEUE_CORE /\ QUEUE_APPLICATION # QUEUE_DEVICE
      /\ QUEUE_APPLICATION \in Keys
  BY DEF ST_SEND_TO_DEVICE, ST_INIT, ST_SEND_ACK, EV_SEND_TO_DEVICE, EV_SEND_TO_APP, Row,
         QUEUE_APPLICATION, QUEUE_CORE, QUEUE_DEVICE, Keys
<1>2. ASSUME NEW t \in Buffers(long), NEW n \in Nat, IsText(long, t, n), 11 <= n, n < MAXSIZE
      PROVE  /\ App(t) \in Seq(Msgs(long, QUEUE_APPLICATION))
             /\ \A k \in Keys : Device(t) \in Seq(Msgs(long, k))
  <2>1. App(t) \in Seq(Msgs(long, QUEUE_APPLICATION))
    BY <1>1, <1>2, CopyFits
  <2>2. ASSUME NEW k \in Keys PROVE Device(t) \in Seq(Msgs(long, k))
    BY <1>1, <1>2, <2>2, CopyFits
  <2> QED  BY <2>1, <2>2
<1>3. ASSUME NEW t \in Texts \ {"empty"}
      PROVE  /\ App(Strcpy(b, t)) \in Seq(Msgs(long, QUEUE_APPLICATION))
             /\ \A k \in Keys : Device(Strcpy(b, t)) \in Seq(Msgs(long, k))
  <2>1. PICK c : c = Strcpy(b, t)
    OBVIOUS
  <2>2. /\ c \in Buffers(long) /\ IsText(long, c, Strlen[t]) /\ Strlen[t] \in Nat
        /\ Strlen[t] >= 24 /\ Strlen[t] < 56
    BY <2>1, StrcpyIs
  <2>3. 11 <= Strlen[t] /\ Strlen[t] < MAXSIZE
    BY <2>2 DEF MAXSIZE
  <2> QED  BY <1>2, <2>1, <2>2, <2>3
<1>4. ASSUME s = ST_INIT
      PROVE  /\ App(b) \in Seq(Msgs(long, QUEUE_APPLICATION))
             /\ \A k \in Keys : Device(b) \in Seq(Msgs(long, k))
  <2>1. PICK n \in 0..MAXSIZE : IsText(long, b, n)
    BY TextExists
  <2>2. n \in Nat /\ n <= MAXSIZE /\ MAXSIZE = 128
    BY <2>1 DEF MAXSIZE
  <2>3. n < MAXSIZE
    <3>1. SUFFICES ASSUME n = MAXSIZE PROVE FALSE
      BY <2>2
    <3>2. 127 \in 0..n - 1
      BY <2>2, <3>1
    <3>3. b[3 * long + 127] # 0
      BY <2>1, <3>2 DEF IsText
    <3> QED  BY <2>2, <3>3
  <2>4. 11 <= n
    <3>1. SUFFICES ASSUME n < 11 PROVE FALSE
      BY <2>2
    <3>2. b[3 * long + n] # 0
      BY <1>4, <2>2, <3>1
    <3> QED  BY <2>1, <2>3, <3>2 DEF IsText
  <2> QED  BY <1>2, <2>1, <2>2, <2>3, <2>4
<1>5. EV_SEND_TO_DEVICE_NO_ACK = EV_SEND_TO_DEVICE
  BY DEF EV_SEND_TO_DEVICE_NO_ACK, EV_SEND_TO_DEVICE
<1>6. "glow_led" \in Texts \ {"empty"} /\ "app_ack" \in Texts \ {"empty"}
  BY DEF Texts
<1> HIDE DEF Device, App
<1> SUFFICES ASSUME NEW k \in Keys PROVE Handled(b, e, k) \in Seq(Msgs(long, k))
  OBVIOUS
<1>7. PICK out : out = Handled(b, e, k)
  OBVIOUS
<1>8. << >> \in Seq(Msgs(long, k))
  OBVIOUS
<1>9. CASE s = ST_INIT
  <2>1. \/ k = QUEUE_CORE /\ out = Device(b)
        \/ k = QUEUE_APPLICATION /\ out = App(b)
        \/ k = QUEUE_DEVICE /\ (out = Device(b) \/ out = Device(Strcpy(b, "glow_led")))
        \/ out = << >>
    BY <1>5, <1>7, <1>9
       DEF Handled, Device, App, Row, RequestEvents, ST_INIT, ST_SEND_TO_DEVICE,
           EV_SEND_TO_CORE_NO_ACK, EV_SEND_TO_CORE, EV_SEND_TO_CORE_DEV_ACK, EV_SEND_TO_DEVICE
  <2> QED  BY <1>3, <1>4, <1>6, <1>7, <1>8, <1>9, <2>1
<1>10. CASE s # ST_INIT
  <2>1. (k = QUEUE_APPLICATION /\ out = App(Strcpy(b, "app_ack"))) \/ out = << >>
    BY <1>7, <1>10
       DEF Handled, App, Row, RequestEvents, ST_INIT, ST_SEND_TO_DEVICE,
           EV_SEND_TO_CORE_NO_ACK, EV_SEND_TO_CORE, EV_SEND_TO_CORE_DEV_ACK, EV_SEND_TO_DEVICE
  <2> QED  BY <1>3, <1>6, <1>7, <1>8, <2>1
<1> QED  BY <1>9, <1>10

-----------------------------------------------------------------------------
(* The steps.                                                              *)

LEMMA LayoutInit == Init => LayoutInv
<1> SUFFICES ASSUME Init PROVE LayoutInv
  OBVIOUS
<1>1. long \in {4, 8}
  BY LayoutAssumption DEF Init
<1>2. PICK fill \in {0, 7} :
        buf = [r \in Readers |->
                 [i \in 0..BufferSize(long) - 1 |-> IF r = "core" THEN 0 ELSE fill]]
  BY DEF Init
<1>3. "core" \in Readers
  BY DEF Readers
<1>4. buf \in [Readers -> Buffers(long)]
  <2>1. 0 \in Byte /\ fill \in Byte
    BY DEF Byte
  <2>2. PICK D : D = 0..BufferSize(long) - 1
    OBVIOUS
  <2>3. buf = [r \in Readers |-> [i \in D |-> IF r = "core" THEN 0 ELSE fill]]
    BY <1>2, <2>2
  <2>4. \A r \in Readers : buf[r] \in [D -> Byte]
    BY <2>1, <2>3
  <2>5. buf \in [Readers -> [D -> Byte]]
    BY <2>3, <2>4
  <2>6. BufferSize(long) - 1 = 3 * long + MAXSIZE - 1
    BY <1>1 DEF BufferSize, MAXSIZE
  <2> QED  BY <2>2, <2>5, <2>6 DEF Buffers
<1>5. PICK w \in {4, 8} : w = long
  BY <1>1
<1>6. \A i \in Nat : i < 3 * w + MAXSIZE => buf["core"][i] = 0
  BY <1>2, <1>3, <1>5 DEF BufferSize, MAXSIZE
<1>7. Remembers(w, buf["core"], <<0, 0>>)
  <2>1. PICK top \in Nat : top = 3 * w + MAXSIZE - 1 /\ 3 * w < top
    BY <1>5 DEF MAXSIZE
  <2>2. buf["core"][top] = 0
    BY <1>6, <2>1 DEF MAXSIZE
  <2>3. LongIn(w, buf["core"], EventField) = 0
    <3>1. PICK e \in Nat : e = EventField * w /\ e + w = 3 * w
      BY <1>5 DEF EventField
    <3>2. buf["core"][e] = 0 /\ buf["core"][e + 1] = 0
          /\ \A i \in 2..w - 1 : buf["core"][e + i] = 0
      BY <1>6, <3>1 DEF MAXSIZE
    <3> QED  BY <3>1, <3>2 DEF LongIn
  <2>4. 0 # ST_INIT
    BY DEF ST_INIT
  <2> QED  BY <2>1, <2>2, <2>3, <2>4 DEF Remembers
<1>8. QueuesInv(long, q)
  BY DEF Init, QueuesInv
<1>9. BuffersInv
  BY <1>1, <1>4, <1>8 DEF Init, BuffersInv, Arrived, Readers
<1>10. ~Row(state, event)
  BY DEF Init, Row, RequestEvents, ST_INIT, ST_SEND_TO_DEVICE, EV_SEND_TO_CORE_NO_ACK,
         EV_SEND_TO_CORE, EV_SEND_TO_CORE_DEV_ACK
<1>11. IsTold(told) /\ Remembers(long, buf["core"], told) /\ fired = None
  BY <1>5, <1>7 DEF Init, IsTold
<1> QED  BY <1>9, <1>10, <1>11 DEF LayoutInv, CoreInv

(* The three calls of the application. *)
LEMMA AppSendsStep ==
  ASSUME LayoutInv, NEW ev \in RequestEvents, AppSends(ev)
  PROVE  LayoutInv'
<1> DEFINE text == IF ev = EV_SEND_TO_CORE_NO_ACK THEN "no_ack_request" ELSE "ack_request"
<1>1. PICK b1 : b1 = Strcpy(buf["app"], text)
  OBVIOUS
<1>2. PICK b2 : b2 = SetLong(b1, TypeField, MSG_TYPE_GLOW_LED)
  OBVIOUS
<1>3. PICK b3 : b3 = SetLong(b2, StateField, ST_INIT)
  OBVIOUS
<1>4. PICK b : b = SetLong(b3, EventField, ev)
  OBVIOUS
<1>5. /\ buf' = [buf EXCEPT !["app"] = b]
      /\ q' = [q EXCEPT ![QUEUE_CORE] = Append(@, Wire(b))]
      /\ seen' = [seen EXCEPT !["app"] = None]
      /\ UNCHANGED <<long, state, event, fired, told>>
  BY <1>1, <1>2, <1>3, <1>4 DEF AppSends
<1>6. /\ BuffersInv /\ CoreInv /\ long \in {4, 8} /\ buf \in [Readers -> Buffers(long)]
      /\ QueuesInv(long, q) /\ "app" \in Readers /\ "core" \in Readers
  BY DEF LayoutInv, BuffersInv, Readers
<1>7. text \in Texts \ {"empty"} /\ Strlen[text] \in Nat /\ Strlen[text] >= 51 /\ Strlen[text] < 56
  BY DEF Texts, Strlen
<1>8. b1 \in Buffers(long) /\ IsText(long, b1, Strlen[text])
  BY <1>1, <1>6, <1>7, StrcpyIs
<1>9. StateField # EventField /\ MSG_TYPE_GLOW_LED < 65536 /\ ST_INIT < 65536 /\ ev < 65536
  BY DEF StateField, EventField, MSG_TYPE_GLOW_LED, ST_INIT, RequestEvents,
         EV_SEND_TO_CORE_NO_ACK, EV_SEND_TO_CORE, EV_SEND_TO_CORE_DEV_ACK
<1>10. /\ TypeField \in Fields /\ StateField \in Fields /\ EventField \in Fields
       /\ MSG_TYPE_GLOW_LED \in Nat /\ ST_INIT \in Nat /\ ev \in Nat
  BY DEF Fields, MSG_TYPE_GLOW_LED, ST_INIT, RequestEvents, EV_SEND_TO_CORE_NO_ACK,
         EV_SEND_TO_CORE, EV_SEND_TO_CORE_DEV_ACK
<1> DEFINE Stored(c, k, v, d) ==
             /\ d \in Buffers(long) /\ LongIn(long, d, k) = v
             /\ \A j \in Fields : j # k => LongIn(long, d, j) = LongIn(long, c, j)
             /\ \A i \in Nat : i < MAXSIZE => d[3 * long + i] = c[3 * long + i]
<1>11. ASSUME NEW c \in Buffers(long), NEW k \in Fields, NEW v \in Nat, v < 65536
       PROVE  Stored(c, k, v, SetLong(c, k, v))
  BY ONLY <1>6, <1>11, SetFieldIs
<1> HIDE DEF Stored
<1>12. /\ b2 \in Buffers(long) /\ b3 \in Buffers(long) /\ b \in Buffers(long)
       /\ LongIn(long, b3, StateField) = ST_INIT /\ LongIn(long, b, EventField) = ev
       /\ LongIn(long, b, StateField) = LongIn(long, b3, StateField)
       /\ \A i \in Nat : i < MAXSIZE => b2[3 * long + i] = b1[3 * long + i]
       /\ \A i \in Nat : i < MAXSIZE => b3[3 * long + i] = b2[3 * long + i]
       /\ \A i \in Nat : i < MAXSIZE => b[3 * long + i] = b3[3 * long + i]
  <2>1. Stored(b1, TypeField, MSG_TYPE_GLOW_LED, b2)
    BY <1>2, <1>8, <1>9, <1>10, <1>11
  <2>2. b2 \in Buffers(long) /\ \A i \in Nat : i < MAXSIZE => b2[3 * long + i] = b1[3 * long + i]
    BY <2>1 DEF Stored
  <2>3. Stored(b2, StateField, ST_INIT, b3)
    BY <1>3, <1>9, <1>10, <1>11, <2>2
  <2>4. /\ b3 \in Buffers(long) /\ LongIn(long, b3, StateField) = ST_INIT
        /\ \A i \in Nat : i < MAXSIZE => b3[3 * long + i] = b2[3 * long + i]
    BY <2>3 DEF Stored
  <2>5. Stored(b3, EventField, ev, b)
    BY <1>4, <1>9, <1>10, <1>11, <2>4
  <2>6. /\ b \in Buffers(long) /\ LongIn(long, b, EventField) = ev
        /\ LongIn(long, b, StateField) = LongIn(long, b3, StateField)
        /\ \A i \in Nat : i < MAXSIZE => b[3 * long + i] = b3[3 * long + i]
    BY <1>9, <1>10, <2>5 DEF Stored
  <2> QED  BY <2>2, <2>4, <2>6
<1>13. LongIn(long, b, StateField) = ST_INIT
  BY <1>12
<1>14. PICK n \in Nat : n = Strlen[text] /\ n >= 51 /\ n < MAXSIZE
  BY <1>7 DEF MAXSIZE
<1>15. IsText(long, b, n)
  <2>1. MAXSIZE \in Nat
    BY DEF MAXSIZE
  <2>2. \A i \in Nat : i < MAXSIZE => b[3 * long + i] = b1[3 * long + i]
    BY <1>12
  <2>3. IsText(long, b1, n)
    BY <1>8, <1>14
  <2> QED  BY <1>14, <2>1, <2>2, <2>3 DEF IsText
<1>16. Wire(b) \in Msgs(long, QUEUE_CORE) /\ QUEUE_CORE \in Keys
  <2>1. QUEUE_CORE \in Keys /\ QUEUE_CORE # QUEUE_DEVICE
    BY DEF Keys, QUEUE_CORE, QUEUE_DEVICE
  <2>2. Row(ST_INIT, ev)
    BY DEF Row
  <2> QED  BY <1>6, <1>12, <1>13, <1>14, <1>15, <2>1, <2>2, WireFits
<1>17. QueuesInv(long, q')
  BY <1>5, <1>6, <1>16, QueueAppended
<1>18. buf' \in [Readers -> Buffers(long)] /\ buf'["core"] = buf["core"]
  BY <1>5, <1>6, <1>12 DEF Readers
<1>19. BuffersInv'
  BY <1>5, <1>6, <1>17, <1>18 DEF BuffersInv, Arrived, Readers
<1>20. CoreInv'
  BY <1>5, <1>6, <1>18 DEF CoreInv
<1> QED  BY <1>19, <1>20 DEF LayoutInv

(* A reader lays a message of the stack over its buffer. *)
LEMMA ReaderReads ==
  ASSUME BuffersInv, NEW r \in {"app", "device"}, NEW k \in Keys, k # QUEUE_CORE, Read(r, k),
         q' = [q EXCEPT ![k] = Tail(@)], UNCHANGED long
  PROVE  /\ QueuesInv(long, q') /\ buf' \in [Readers -> Buffers(long)]
         /\ \A i \in Readers \ {r} : buf'[i] = buf[i] /\ seen'[i] = seen[i]
         /\ DOMAIN seen' = Readers /\ Arrived(long, buf'[r], seen'[r]) /\ seen'[r] \in StackMeant
         /\ k = QUEUE_DEVICE => ToDevice(seen'[r])
<1>1. PICK m : m = Head(q[k])
  OBVIOUS
<1>2. /\ q[k] # << >> /\ buf' = [buf EXCEPT ![r] = Laid(m, buf[r])]
      /\ seen' = [seen EXCEPT ![r] = m.meant]
  BY <1>1 DEF Read
<1>3. /\ long \in {4, 8} /\ buf \in [Readers -> Buffers(long)] /\ QueuesInv(long, q)
      /\ DOMAIN seen = Readers /\ r \in Readers
  BY DEF BuffersInv, Readers
<1>4. m \in Msgs(long, k) /\ QueuesInv(long, q')
  BY <1>1, <1>2, <1>3, QueueRead
<1>5. OfStack(long, m) /\ (k = QUEUE_DEVICE => ToDevice(m.meant))
  BY <1>4 DEF Msgs, Wired
<1>6. PICK c : c = Laid(m, buf[r])
  OBVIOUS
<1>7. buf[r] \in Buffers(long)
  BY <1>3
<1>8. c \in Buffers(long) /\ Says(long, c, m.meant)
  BY <1>3, <1>5, <1>6, <1>7, StackArrives
<1>9. m.meant \in StackMeant
  BY <1>5 DEF OfStack
<1>10. Arrived(long, c, m.meant)
  BY <1>8, <1>9 DEF Arrived
<1>11. buf' \in [Readers -> Buffers(long)] /\ buf'[r] = c /\ \A i \in Readers \ {r} : buf'[i] = buf[i]
  BY <1>2, <1>3, <1>6, <1>8
<1>12. /\ DOMAIN seen' = Readers /\ seen'[r] = m.meant
       /\ \A i \in Readers \ {r} : seen'[i] = seen[i]
  BY <1>2, <1>3
<1> QED  BY <1>4, <1>5, <1>9, <1>10, <1>11, <1>12

LEMMA AppReadsStep ==
  ASSUME LayoutInv, AppReads
  PROVE  LayoutInv'
<1>1. /\ BuffersInv /\ CoreInv /\ Read("app", QUEUE_APPLICATION)
      /\ q' = [q EXCEPT ![QUEUE_APPLICATION] = Tail(@)]
      /\ UNCHANGED <<long, state, event, fired, told>>
  BY DEF LayoutInv, AppReads
<1>2. QUEUE_APPLICATION \in Keys /\ QUEUE_APPLICATION # QUEUE_CORE
  BY DEF Keys, QUEUE_APPLICATION, QUEUE_CORE
<1>3. /\ QueuesInv(long, q') /\ buf' \in [Readers -> Buffers(long)]
      /\ \A i \in Readers \ {"app"} : buf'[i] = buf[i] /\ seen'[i] = seen[i]
      /\ DOMAIN seen' = Readers /\ Arrived(long, buf'["app"], seen'["app"])
  BY <1>1, <1>2, ReaderReads
<1>4. buf'["core"] = buf["core"] /\ seen'["device"] = seen["device"]
  BY <1>3 DEF Readers
<1>5. \A i \in Readers : Arrived(long, buf'[i], seen'[i])
  BY <1>1, <1>3 DEF BuffersInv
<1>6. BuffersInv'
  BY <1>1, <1>3, <1>4, <1>5 DEF BuffersInv
<1>7. CoreInv'
  BY <1>1, <1>4 DEF CoreInv
<1> QED  BY <1>6, <1>7 DEF LayoutInv

LEMMA DeviceReadsStep ==
  ASSUME LayoutInv, DeviceReads
  PROVE  LayoutInv'
<1>1. /\ BuffersInv /\ CoreInv /\ Read("device", QUEUE_DEVICE)
      /\ q' = [q EXCEPT ![QUEUE_DEVICE] = Tail(@)]
      /\ UNCHANGED <<long, state, event, fired, told>>
  BY DEF LayoutInv, DeviceReads
<1>2. QUEUE_DEVICE \in Keys /\ QUEUE_DEVICE # QUEUE_CORE
  BY DEF Keys, QUEUE_DEVICE, QUEUE_CORE
<1>3. /\ QueuesInv(long, q') /\ buf' \in [Readers -> Buffers(long)]
      /\ \A i \in Readers \ {"device"} : buf'[i] = buf[i] /\ seen'[i] = seen[i]
      /\ DOMAIN seen' = Readers /\ Arrived(long, buf'["device"], seen'["device"])
      /\ seen'["device"] \in StackMeant /\ ToDevice(seen'["device"])
  BY <1>1, <1>2, ReaderReads
<1>4. buf'["core"] = buf["core"]
  BY <1>3 DEF Readers
<1>5. \A i \in Readers : Arrived(long, buf'[i], seen'[i])
  BY <1>1, <1>3 DEF BuffersInv
<1>6. BuffersInv'
  BY <1>1, <1>3, <1>5 DEF BuffersInv
<1>7. CoreInv'
  BY <1>1, <1>4 DEF CoreInv
<1> QED  BY <1>6, <1>7 DEF LayoutInv

(* The device's answer keeps the state and the event of what it read. *)
LEMMA DeviceAnswersStep ==
  ASSUME LayoutInv, DeviceAnswers
  PROVE  LayoutInv'
<1>1. PICK a : a = Strcpy(buf["device"], "device_ack")
  OBVIOUS
<1>2. PICK b : b = SetLong(a, TypeField, MSG_TYPE_GLOW_LED)
  OBVIOUS
<1>3. /\ seen["device"] # None /\ buf' = [buf EXCEPT !["device"] = b]
      /\ q' = [q EXCEPT ![QUEUE_CORE] = Append(@, Wire(b))]
      /\ seen' = [seen EXCEPT !["device"] = None]
      /\ UNCHANGED <<long, state, event, fired, told>>
  BY <1>1, <1>2 DEF DeviceAnswers
<1>4. /\ BuffersInv /\ CoreInv /\ long \in {4, 8} /\ buf \in [Readers -> Buffers(long)]
      /\ QueuesInv(long, q) /\ "device" \in Readers /\ buf["device"] \in Buffers(long)
  BY DEF LayoutInv, BuffersInv, Readers
<1>5. PICK z : z = seen["device"]
  OBVIOUS
<1>6. z \in StackMeant /\ ToDevice(z) /\ Arrived(long, buf["device"], z)
  BY <1>3, <1>4, <1>5 DEF BuffersInv
<1>7. Says(long, buf["device"], z)
  <2>1. z # UtilityMeant
    <3>1. z.from = "stack"
      BY <1>6 DEF StackMeant
    <3> QED  BY <3>1 DEF UtilityMeant
  <2> QED  BY <1>3, <1>5, <1>6, <2>1 DEF Arrived
<1>8. /\ LongIn(long, buf["device"], StateField) = ST_SEND_TO_DEVICE
      /\ LongIn(long, buf["device"], EventField) = EV_SEND_TO_DEVICE
  BY <1>6, <1>7 DEF Says, ToDevice
<1>9. PICK n \in Nat : n = Strlen["device_ack"] /\ n >= 24 /\ n < MAXSIZE
  BY DEF Strlen, Texts, MAXSIZE
<1>10. /\ a \in Buffers(long) /\ IsText(long, a, n)
       /\ \A i \in 0..3 * long - 1 : a[i] = buf["device"][i]
  <2>1. "device_ack" \in Texts \ {"empty"}
    BY DEF Texts
  <2> QED  BY <1>1, <1>4, <1>9, <2>1, StrcpyIs
<1>11. /\ LongIn(long, a, StateField) = ST_SEND_TO_DEVICE
       /\ LongIn(long, a, EventField) = EV_SEND_TO_DEVICE
  BY <1>4, <1>8, <1>10, SameLongs DEF Fields
<1>12. /\ TypeField \in Fields /\ StateField \in Fields /\ EventField \in Fields
       /\ TypeField # StateField /\ TypeField # EventField
       /\ MSG_TYPE_GLOW_LED \in Nat /\ MSG_TYPE_GLOW_LED < 65536
  BY DEF Fields, TypeField, StateField, EventField, MSG_TYPE_GLOW_LED
<1>13. /\ b \in Buffers(long) /\ LongIn(long, b, StateField) = ST_SEND_TO_DEVICE
       /\ LongIn(long, b, EventField) = EV_SEND_TO_DEVICE
       /\ \A i \in Nat : i < MAXSIZE => b[3 * long + i] = a[3 * long + i]
  BY <1>2, <1>4, <1>10, <1>11, <1>12, SetFieldIs
<1>14. IsText(long, b, n)
  <2>1. MAXSIZE \in Nat
    BY DEF MAXSIZE
  <2> QED  BY <1>9, <1>10, <1>13, <2>1 DEF IsText
<1>15. Wire(b) \in Msgs(long, QUEUE_CORE) /\ QUEUE_CORE \in Keys
  <2>1. QUEUE_CORE \in Keys /\ QUEUE_CORE # QUEUE_DEVICE
    BY DEF Keys, QUEUE_CORE, QUEUE_DEVICE
  <2>2. Row(ST_SEND_TO_DEVICE, EV_SEND_TO_DEVICE) /\ ST_SEND_TO_DEVICE # ST_INIT
    BY DEF Row, ST_SEND_TO_DEVICE, ST_INIT
  <2>3. 11 <= n
    BY <1>9
  <2> QED  BY <1>4, <1>9, <1>13, <1>14, <2>1, <2>2, <2>3, WireFits
<1>16. QueuesInv(long, q')
  BY <1>3, <1>4, <1>15, QueueAppended
<1>17. buf' \in [Readers -> Buffers(long)] /\ buf'["core"] = buf["core"]
  BY <1>3, <1>4, <1>13 DEF Readers
<1>18. BuffersInv'
  BY <1>3, <1>4, <1>16, <1>17 DEF BuffersInv, Arrived, Readers
<1>19. CoreInv'
  BY <1>3, <1>4, <1>17 DEF CoreInv
<1> QED  BY <1>18, <1>19 DEF LayoutInv

(* The core reads a message, looks its row up and runs the handler. *)
LEMMA CoreReadsStep ==
  ASSUME LayoutInv, CoreReads
  PROVE  LayoutInv'
<1>1. /\ BuffersInv /\ CoreInv /\ long \in {4, 8} /\ buf \in [Readers -> Buffers(long)]
      /\ QueuesInv(long, q) /\ DOMAIN seen = Readers /\ IsTold(told)
      /\ Remembers(long, buf["core"], told) /\ ~Row(state, event)
      /\ "core" \in Readers /\ "device" \in Readers /\ buf["core"] \in Buffers(long)
  BY DEF LayoutInv, BuffersInv, CoreInv, Readers
<1>2. PICK m : m = Head(q[QUEUE_CORE])
  OBVIOUS
<1>3. PICK c : c = Laid(m, buf["core"])
  OBVIOUS
<1>4. PICK t : t = IF m.meant.from = "stack" THEN <<m.meant.state, m.meant.event>> ELSE told
  OBVIOUS
<1>5. /\ q[QUEUE_CORE] # << >> /\ buf' = [buf EXCEPT !["core"] = c]
      /\ seen' = [seen EXCEPT !["core"] = m.meant] /\ told' = t /\ long' = long
  BY <1>2, <1>3, <1>4 DEF CoreReads, Read
<1>6. buf'["core"] = c
  BY <1>1, <1>5
<1>7. QUEUE_CORE \in Keys
  BY DEF Keys
<1>8. m \in Msgs(long, QUEUE_CORE) /\ Tail(q[QUEUE_CORE]) \in Seq(Msgs(long, QUEUE_CORE))
  BY <1>1, <1>2, <1>5, <1>7, QueueRead
<1>9. /\ c \in Buffers(long) /\ IsTold(t) /\ Remembers(long, c, t)
      /\ Arrived(long, c, m.meant)
  BY <1>1, <1>3, <1>4, <1>8, CoreHolds
<1>10. PICK s, e :
         /\ s = IF LongAt(c, TypeField) = MSG_TYPE_GLOW_LED THEN LongAt(c, StateField) ELSE state
         /\ e = IF LongAt(c, TypeField) = MSG_TYPE_GLOW_LED THEN LongAt(c, EventField) ELSE event
  OBVIOUS
<1>11. /\ event' = e /\ state' = (IF Row(s, e) THEN 0 ELSE s)
       /\ fired' = (IF Row(s, e) THEN <<s, e>> ELSE None)
       /\ q' = [k \in Keys |->
                  (IF k = QUEUE_CORE THEN Tail(q[k]) ELSE q[k])
                  \o (IF Row(s, e) THEN Handled(c, e, k) ELSE << >>)]
  BY <1>6, <1>10 DEF CoreReads
<1>12. ASSUME Row(s, e)
       PROVE  t = <<s, e>> /\ (s = ST_INIT => \A j \in Nat : j < 40 => c[3 * long + j] # 0)
  <2>1. LongAt(c, TypeField) = MSG_TYPE_GLOW_LED
    BY <1>1, <1>10, <1>12
  <2>2. s = LongIn(long, c, StateField) /\ e = LongIn(long, c, EventField)
    BY <1>10, <2>1 DEF LongAt, LongIn
  <2> QED  BY <1>1, <1>9, <1>12, <2>2, OnlyTold
<1>13. QueuesInv(long, q')
  <2>1. ASSUME NEW k \in Keys PROVE q'[k] \in Seq(Msgs(long, k))
    <3>1. PICK u : u = IF k = QUEUE_CORE THEN Tail(q[k]) ELSE q[k]
      OBVIOUS
    <3>2. PICK v : v = IF Row(s, e) THEN Handled(c, e, k) ELSE << >>
      OBVIOUS
    <3>3. u \in Seq(Msgs(long, k))
      BY <1>1, <1>8, <3>1 DEF QueuesInv
    <3>4. v \in Seq(Msgs(long, k))
      <4>1. CASE Row(s, e)
        <5>1. c[3 * long + MAXSIZE - 1] = 0
          BY <1>9 DEF Remembers
        <5>2. Handled(c, e, k) \in Seq(Msgs(long, k))
          BY <1>1, <1>9, <1>12, <4>1, <5>1, HandledFits
        <5> QED  BY <3>2, <4>1, <5>2
      <4>2. CASE ~Row(s, e)
        BY <3>2, <4>2
      <4> QED  BY <4>1, <4>2
    <3>5. q'[k] = u \o v
      BY <1>11, <3>1, <3>2
    <3> QED  BY <3>3, <3>4, <3>5, ConcatProperties
  <2>2. DOMAIN q' = Keys
    BY <1>11
  <2> QED  BY <2>1, <2>2 DEF QueuesInv
<1>14. /\ buf' \in [Readers -> Buffers(long)] /\ DOMAIN seen' = Readers
       /\ seen'["core"] = m.meant
       /\ \A i \in Readers \ {"core"} : buf'[i] = buf[i] /\ seen'[i] = seen[i]
  BY <1>1, <1>5, <1>9
<1>15. \A i \in Readers : Arrived(long, buf'[i], seen'[i])
  BY <1>1, <1>6, <1>9, <1>14 DEF BuffersInv
<1>16. BuffersInv'
  <2>1. seen'["device"] = seen["device"]
    BY <1>14 DEF Readers
  <2> QED  BY <1>1, <1>5, <1>13, <1>14, <1>15, <2>1 DEF BuffersInv
<1>17. ~Row(state', event')
  <2>1. ~Row(0, e)
    BY DEF Row, ST_INIT, ST_SEND_TO_DEVICE
  <2> QED  BY <1>11, <2>1
<1>18. fired' # None => fired' = told'
  BY <1>5, <1>11, <1>12
<1>19. CoreInv'
  BY <1>5, <1>6, <1>9, <1>17, <1>18 DEF CoreInv
<1> QED  BY <1>16, <1>19 DEF LayoutInv

LEMMA UtilityWritesStep ==
  ASSUME LayoutInv, NEW type \in UtilityTypes, NEW text \in UtilityTexts, UtilityWrites(type, text)
  PROVE  LayoutInv'
<1>1. /\ BuffersInv /\ CoreInv /\ QueuesInv(long, q) /\ long \in {4, 8}
      /\ q' = [q EXCEPT ![QUEUE_CORE] = Append(@, UtilityWire(type, text))]
      /\ UNCHANGED <<long, buf, state, event, fired, seen, told>>
  BY DEF LayoutInv, BuffersInv, UtilityWrites
<1>2. UtilityWire(type, text) \in Msgs(long, QUEUE_CORE)
  BY <1>1, UtilityWireIs
<1>3. QUEUE_CORE \in Keys
  BY DEF Keys
<1>4. QueuesInv(long, q')
  BY <1>1, <1>2, <1>3, QueueAppended
<1>5. BuffersInv'
  BY <1>1, <1>4 DEF BuffersInv
<1>6. CoreInv'
  BY <1>1 DEF CoreInv
<1> QED  BY <1>5, <1>6 DEF LayoutInv

LEMMA LayoutStep ==
  ASSUME LayoutInv, [Next]_lvars
  PROVE  LayoutInv'
<1>1. CASE \E ev \in RequestEvents : AppSends(ev)
  BY <1>1, AppSendsStep
<1>2. CASE AppReads
  BY <1>2, AppReadsStep
<1>3. CASE DeviceReads
  BY <1>3, DeviceReadsStep
<1>4. CASE DeviceAnswers
  BY <1>4, DeviceAnswersStep
<1>5. CASE CoreReads
  BY <1>5, CoreReadsStep
<1>6. CASE \E type \in UtilityTypes, text \in UtilityTexts : UtilityWrites(type, text)
  BY <1>6, UtilityWritesStep
<1>7. CASE UNCHANGED lvars
  BY <1>7 DEF lvars, LayoutInv, BuffersInv, CoreInv
<1> QED  BY <1>1, <1>2, <1>3, <1>4, <1>5, <1>6, <1>7 DEF Next

-----------------------------------------------------------------------------
(* The theorems.                                                           *)

(* Every message on a queue and every reader's buffer is one of the        *)
(* programs' making, and the core's buffer remembers its last message of   *)
(* the stack or is no use to it.                                           *)
THEOREM LayoutInvHolds == Spec => []LayoutInv
<1>1. LayoutInv /\ [Next]_lvars => LayoutInv'
  BY LayoutStep
<1> QED  BY LayoutInit, <1>1, PTL DEF Spec

(* message_queue_write does not count a long's real size, and still no     *)
(* reader ever finds another type, state or event than were sent.          *)
THEOREM FieldsArriveHolds == Spec => []FieldsArrive
<1>1. LayoutInv => FieldsArrive
  <2> SUFFICES ASSUME LayoutInv, NEW r \in Readers, FromStack(r)
               PROVE  /\ LongAt(buf[r], TypeField) = seen[r].type
                      /\ LongAt(buf[r], StateField) = seen[r].state
                      /\ LongAt(buf[r], EventField) = seen[r].event
    BY DEF FieldsArrive
  <2>1. Arrived(long, buf[r], seen[r])
    BY DEF LayoutInv, BuffersInv
  <2>2. seen[r] # None /\ seen[r] # UtilityMeant
    BY DEF FromStack, UtilityMeant
  <2>3. Says(long, buf[r], seen[r])
    BY <2>1, <2>2 DEF Arrived
  <2>4. \A k \in Fields : LongAt(buf[r], k) = LongIn(long, buf[r], k)
    BY DEF LongAt, LongIn
  <2> QED  BY <2>3, <2>4 DEF Says, Fields
<1> QED  BY <1>1, LayoutInvHolds, PTL

(* What the strings of the texts come to on the way, whatever lay in the   *)
(* readers' buffers before.                                                *)
THEOREM TextArrivesHolds == Spec => []TextArrives
<1>1. LayoutInv => TextArrives
  <2> SUFFICES ASSUME LayoutInv, NEW r \in Readers, FromStack(r)
               PROVE  IF long = 4 THEN TextOf(buf[r]) = seen[r].text
                      ELSE IsPrefix(SubSeq(seen[r].text, 1, Len(seen[r].text) - 11), TextOf(buf[r]))
    BY DEF TextArrives
  <2>1. long \in {4, 8} /\ buf[r] \in Buffers(long) /\ Arrived(long, buf[r], seen[r])
    BY DEF LayoutInv, BuffersInv
  <2>2. PICK b, z : b = buf[r] /\ z = seen[r]
    OBVIOUS
  <2>3. z # None /\ z # UtilityMeant
    BY <2>2 DEF FromStack, UtilityMeant
  <2>4. Says(long, b, z) /\ z \in StackMeant
    BY <2>1, <2>2, <2>3 DEF Arrived
  <2>5. PICK t \in Seq(Byte) : t = z.text /\ 11 <= Len(t) /\ Len(t) < MAXSIZE
    BY <2>4 DEF StackMeant
  <2>6. PICK n \in Nat : n = Len(t) /\ 11 <= n /\ n < MAXSIZE
    BY <2>5
  <2>7. PICK l \in 0..MAXSIZE : IsText(long, b, l)
    BY <2>1, TextExists
  <2>8. /\ l \in Nat /\ TextOf(b) = [i \in 1..l |-> b[3 * long + i - 1]]
        /\ TextOf(b) \in Seq(Byte) /\ Len(TextOf(b)) = l
    BY <2>1, <2>2, <2>7, TextIs
  <2>9. PICK u : u = TextOf(b)
    OBVIOUS
  <2>10. CASE long = 4
    <3>1. /\ b[3 * long + n] = 0
          /\ \A i \in 0..n - 1 : b[3 * long + i] = t[i + 1] /\ b[3 * long + i] # 0
      BY <2>4, <2>5, <2>6, <2>10 DEF Says
    <3>2. IsText(long, b, n)
      <4>1. MAXSIZE \in Nat
        BY DEF MAXSIZE
      <4>2. n \in 0..MAXSIZE
        BY <2>6, <4>1
      <4> QED  BY <3>1, <4>2 DEF IsText
    <3>3. u \in Seq(Byte) /\ Len(u) = n /\ u = [i \in 1..n |-> b[3 * long + i - 1]]
      <4>1. b \in Buffers(long)
        BY <2>1, <2>2
      <4> QED  BY <2>1, <2>9, <3>2, <4>1, TextIs
    <3>4. \A i \in 1..n : u[i] = t[i]
      <4>1. \A i \in 1..n : i - 1 \in 0..n - 1 /\ (i - 1) + 1 = i
        OBVIOUS
      <4> QED  BY <3>1, <3>3, <4>1
    <3>5. u = t
      BY ONLY <2>5, <2>6, <3>3, <3>4, SeqEqual
    <3> QED  BY <2>2, <2>5, <2>6, <2>9, <2>10, <3>5
  <2>11. CASE long = 8
    <3>1. PICK p \in Nat : p = n - 11
      BY <2>6
    <3>2. \A i \in 0..p - 1 : b[3 * long + i] = t[i + 1] /\ b[3 * long + i] # 0
      BY <2>4, <2>5, <2>6, <2>11, <3>1 DEF Says
    <3>3. p <= l
      <4>1. SUFFICES ASSUME l < p PROVE FALSE
        BY <2>8, <3>1
      <4>2. l # MAXSIZE /\ l \in 0..p - 1
        BY <2>5, <2>6, <2>8, <3>1, <4>1
      <4> QED  BY <2>7, <2>11, <3>2, <4>2 DEF IsText
    <3>4. PICK v : v = SubSeq(t, 1, p)
      OBVIOUS
    <3>5. v \in Seq(Byte) /\ Len(v) = p /\ \A i \in 1..p : v[i] = t[i]
      BY <2>5, <2>6, <3>1, <3>4
    <3>6. \A i \in 1..p : u[i] = v[i]
      <4>1. \A i \in 1..p : i - 1 \in 0..p - 1 /\ (i - 1) + 1 = i /\ i \in 1..l
        BY <2>8, <3>3
      <4>2. \A i \in 1..p : u[i] = b[3 * long + i - 1]
        BY <2>8, <2>9, <4>1
      <4> QED  BY <3>2, <3>5, <4>1, <4>2
    <3>7. u \in Seq(Byte) /\ Len(u) = l
      BY <2>8, <2>9
    <3>8. v = SubSeq(u, 1, Len(v)) /\ Len(v) <= Len(u)
      BY <2>8, <3>3, <3>5, <3>6, <3>7
    <3>9. IsPrefix(v, u)
      BY <3>5, <3>7, <3>8 DEF IsPrefix
    <3> QED  BY <2>2, <2>5, <2>6, <2>9, <2>11, <3>1, <3>4, <3>9
  <2> QED  BY <2>1, <2>10, <2>11
<1> QED  BY <1>1, LayoutInvHolds, PTL

(* However many messages of the utility handler reach the core, and        *)
(* whatever their texts: the core only repeats the last request.           *)
THEOREM ForeignOnlyRepeatsHolds == Spec => []ForeignOnlyRepeats
<1>1. LayoutInv => ForeignOnlyRepeats
  BY DEF LayoutInv, CoreInv, ForeignOnlyRepeats
<1> QED  BY <1>1, LayoutInvHolds, PTL
=============================================================================
