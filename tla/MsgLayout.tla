----------------------------- MODULE MsgLayout -----------------------------
(***************************************************************************)
(* What the queue managers put on the wire, byte by byte.  msgsnd takes    *)
(* buflen bytes from msg_type on, and msgrcv lays them over the reader's   *)
(* buffer, whose other bytes stay.  The stack's struct msgbuff has the     *)
(* type, the state, the event and then the text, and its buflen counts     *)
(* three longs of four bytes whatever a long is; the utility handler's has *)
(* the text right behind the type, and its buflen counts no long at all.   *)
(* The utility handler's QUEUE_WRITE_TO_APPLICATION is the core's queue.   *)
(*                                                                         *)
(* The core's handlers take one step here; CoreFsm has their interleavings. *)
(***************************************************************************)
EXTENDS StackDefs, SequencesExt

CONSTANTS
  LongSizes,       \* sizeof(long) on the machines the programs are built for
  UtilityTypes,    \* msg_type in the utility handler's uninitialised message
  UtilityTexts,    \* and its msg_text, without the zero byte
  MaxRequests,     \* bound: requests of the application
  MaxForeign       \* bound: messages of the utility handler

ASSUME LayoutAssumption ==
  /\ LongSizes \subseteq {4, 8}
  /\ \A type \in UtilityTypes : type \in Nat /\ type < 65536
  /\ \A t \in UtilityTexts :
       t \in Seq(Nat \ {0}) /\ Len(t) < 128 /\ \A i \in 1..Len(t) : t[i] < 256
  /\ MaxRequests \in Nat /\ MaxForeign \in Nat

VARIABLES
  long,      \* sizeof(long)
  buf,       \* the buffers of the core, the device wrapper and the application
  q,         \* the queues
  state,     \* the core's global
  event,     \* the core's global
  fired,     \* auxiliary: state and event of the row its last message chose
  seen,      \* auxiliary: what the sender of each one's last message meant
  told,      \* auxiliary: state and event of the core's last message of the stack
  waiting,   \* whether the application waits for an acknowledgement
  nreq, nforeign    \* auxiliary: messages sent so far

lvars == <<long, buf, q, state, event, fired, seen, told, waiting, nreq, nforeign>>

MAXSIZE == 128
Readers == {"core", "device", "app"}
None == <<>>

-----------------------------------------------------------------------------
(* A buffer is a function from the offset behind msg_session_id to a byte. *)
BufferSize(w) == 3 * w + MAXSIZE

(* The bytes of a long, least significant first. *)
ByteOf(v, i) == IF i = 0 THEN v % 256 ELSE IF i = 1 THEN v \div 256 ELSE 0

(* The k-th long of b; -1 for a value none of the programs uses. *)
LongAt(b, k) ==
  IF \A i \in 2..long - 1 : b[k * long + i] = 0
  THEN b[k * long] + 256 * b[k * long + 1]
  ELSE -1

SetLong(b, k, v) ==
  [i \in DOMAIN b |-> IF i \div long = k /\ k < 3 THEN ByteOf(v, i % long) ELSE b[i]]

TypeField == 0
StateField == 1
EventField == 2

(* The string in msg_text, all of it if there is no zero byte. *)
TextOf(b) ==
  LET first == 3 * long
      n == CHOOSE k \in 0..MAXSIZE :
             /\ k = MAXSIZE \/ b[first + k] = 0
             /\ \A j \in 0..k - 1 : b[first + j] # 0
  IN [i \in 1..n |-> b[first + i - 1]]

(* Each text of the stack is a run of one character of its own. *)
Characters == [t \in Texts |->
  CASE t = "empty" -> 64 [] t = "no_ack_request" -> 65 [] t = "ack_request" -> 66
    [] t = "glow_led" -> 67 [] t = "app_ack" -> 68 [] t = "device_ack" -> 69]

(* Mutant: the texts are shorter. *)
Strcpy_Brief(b, text) ==
  [i \in DOMAIN b |->
     CASE i \in 3 * long..3 * long + 3 -> Characters[text]
       [] i = 3 * long + 4 -> 0
       [] OTHER -> b[i]]

(* strcpy of one of the stack's texts into msg_text. *)
Strcpy(b, text) ==
  [i \in DOMAIN b |->
     CASE i \in 3 * long..3 * long + Strlen[text] - 1 -> Characters[text]
       [] i = 3 * long + Strlen[text] -> 0
       [] OTHER -> b[i]]

-----------------------------------------------------------------------------
(* Mutant: the zero byte is not counted. *)
StackBuflen_NoZero(text) == Len(text) + 12

(* buflen in the stack's message_queue_write. *)
StackBuflen(text) == Len(text) + 1 + 12

(* A message of the stack on a queue, and what its sender meant by it. *)
Wire(b) ==
  [bytes |-> [i \in 0..StackBuflen(TextOf(b)) - 1 |-> b[i]],
   meant |-> [from |-> "stack", type |-> LongAt(b, TypeField), state |-> LongAt(b, StateField),
              event |-> LongAt(b, EventField), text |-> TextOf(b)]]

(* A message of the utility handler: its buflen and its struct msgbuff. *)
UtilityWire(type, text) ==
  LET body == text \o <<0>>
  IN [bytes |-> [i \in 0..Len(text) |-> IF i < long THEN ByteOf(type, i) ELSE body[i - long + 1]],
      meant |-> [from |-> "utility"]]

(* msgrcv. *)
Laid(m, b) == [i \in DOMAIN b |-> IF i \in DOMAIN m.bytes THEN m.bytes[i] ELSE b[i]]

Read(reader, key) ==
  /\ q[key] # << >>
  /\ buf' = [buf EXCEPT ![reader] = Laid(Head(q[key]), @)]
  /\ seen' = [seen EXCEPT ![reader] = Head(q[key]).meant]

-----------------------------------------------------------------------------
(* The core's buffer is a zeroed global; the others are on a stack and start
   with anything, here with one byte throughout. *)
Init ==
  /\ long \in LongSizes
  /\ \E fill \in {0, 7} :
       buf = [r \in Readers |->
                [i \in 0..BufferSize(long) - 1 |-> IF r = "core" THEN 0 ELSE fill]]
  /\ q = [k \in Keys |-> << >>]
  /\ state = ST_INIT /\ event = 0 /\ fired = None
  /\ seen = [r \in Readers |-> None] /\ told = <<0, 0>>
  /\ waiting = FALSE /\ nreq = 0 /\ nforeign = 0

(* The three calls of application_handler.c, up to their write. *)
AppSends(ev) ==
  /\ ~waiting /\ nreq < MaxRequests
  /\ LET text == IF ev = EV_SEND_TO_CORE_NO_ACK THEN "no_ack_request" ELSE "ack_request"
         b == SetLong(SetLong(SetLong(Strcpy(buf["app"], text),
                TypeField, MSG_TYPE_GLOW_LED), StateField, ST_INIT), EventField, ev)
     IN /\ buf' = [buf EXCEPT !["app"] = b]
        /\ q' = [q EXCEPT ![QUEUE_CORE] = Append(@, Wire(b))]
  /\ waiting' = (ev # EV_SEND_TO_CORE_NO_ACK)
  /\ seen' = [seen EXCEPT !["app"] = None]
  /\ nreq' = nreq + 1
  /\ UNCHANGED <<long, state, event, fired, told, nforeign>>

(* The end of the two calls that wait. *)
AppReads ==
  /\ waiting /\ Read("app", QUEUE_APPLICATION)
  /\ q' = [q EXCEPT ![QUEUE_APPLICATION] = Tail(@)]
  /\ waiting' = FALSE
  /\ UNCHANGED <<long, state, event, fired, told, nreq, nforeign>>

(* callback_tester.c: read; edit and answer. *)
DeviceReads ==
  /\ seen["device"] = None /\ Read("device", QUEUE_DEVICE)
  /\ q' = [q EXCEPT ![QUEUE_DEVICE] = Tail(@)]
  /\ UNCHANGED <<long, state, event, fired, told, waiting, nreq, nforeign>>

DeviceAnswers ==
  /\ seen["device"] # None
  /\ LET b == SetLong(Strcpy(buf["device"], "device_ack"), TypeField, MSG_TYPE_GLOW_LED)
     IN /\ buf' = [buf EXCEPT !["device"] = b]
        /\ q' = [q EXCEPT ![QUEUE_CORE] = Append(@, Wire(b))]
  /\ seen' = [seen EXCEPT !["device"] = None]
  /\ UNCHANGED <<long, state, event, fired, told, waiting, nreq, nforeign>>

(* What the handler of the row with the event ev writes to the queue k. *)
Copy(b, st, ev) == <<Wire(SetLong(SetLong(b, StateField, st), EventField, ev))>>
Handled(b, ev, k) ==
  CASE k = QUEUE_CORE /\ ev = EV_SEND_TO_CORE_NO_ACK ->
         Copy(b, ST_SEND_TO_DEVICE, EV_SEND_TO_DEVICE_NO_ACK)
    [] k = QUEUE_APPLICATION /\ ev = EV_SEND_TO_CORE ->
         Copy(b, ST_SEND_ACK, EV_SEND_TO_APP)
    [] k = QUEUE_DEVICE /\ ev = EV_SEND_TO_CORE ->
         Copy(b, ST_SEND_TO_DEVICE, EV_SEND_TO_DEVICE_NO_ACK)
    [] k = QUEUE_DEVICE /\ ev = EV_SEND_TO_CORE_DEV_ACK ->
         Copy(Strcpy(b, "glow_led"), ST_SEND_TO_DEVICE, EV_SEND_TO_DEVICE)
    [] k = QUEUE_APPLICATION /\ ev = EV_SEND_TO_DEVICE ->
         Copy(Strcpy(b, "app_ack"), ST_SEND_ACK, EV_SEND_TO_APP)
    [] OTHER -> << >>

(* Mutant: main compares only the event. *)
Row_EventOnly(st, ev) == ev \in RequestEvents \union {EV_SEND_TO_DEVICE}

(* Whether the table has a row for a state and an event. *)
Row(st, ev) ==
  \/ st = ST_INIT /\ ev \in RequestEvents
  \/ st = ST_SEND_TO_DEVICE /\ ev = EV_SEND_TO_DEVICE

(* GetMessageStateEvent, the table and the handler.  A message of another
   type leaves state and event as they are. *)
CoreReads ==
  /\ state # ST_TERM /\ Read("core", QUEUE_CORE)
  /\ LET m == Head(q[QUEUE_CORE]).meant
     IN told' = IF m.from = "stack" THEN <<m.state, m.event>> ELSE told
  /\ LET b == buf'["core"]
         glow == LongAt(b, TypeField) = MSG_TYPE_GLOW_LED
         st == IF glow THEN LongAt(b, StateField) ELSE state
         ev == IF glow THEN LongAt(b, EventField) ELSE event
     IN /\ event' = ev
        /\ state' = IF Row(st, ev) THEN 0 ELSE st
        /\ fired' = IF Row(st, ev) THEN <<st, ev>> ELSE None
        /\ q' = [k \in Keys |->
             (IF k = QUEUE_CORE THEN Tail(q[k]) ELSE q[k])
             \o (IF Row(st, ev) THEN Handled(b, ev, k) ELSE << >>)]
  /\ UNCHANGED <<long, waiting, nreq, nforeign>>

(* A handler of the utility handler writes main's message. *)
UtilityWrites(type, text) ==
  /\ nforeign < MaxForeign
  /\ q' = [q EXCEPT ![QUEUE_CORE] = Append(@, UtilityWire(type, text))]
  /\ nforeign' = nforeign + 1
  /\ UNCHANGED <<long, buf, state, event, fired, seen, told, waiting, nreq>>

Next ==
  \/ \E ev \in RequestEvents : AppSends(ev)
  \/ AppReads \/ DeviceReads \/ DeviceAnswers \/ CoreReads
  \/ \E type \in UtilityTypes, text \in UtilityTexts : UtilityWrites(type, text)

Spec == Init /\ [][Next]_lvars

-----------------------------------------------------------------------------
FromStack(r) == seen[r] # None /\ seen[r].from = "stack"

(* The type, the state and the event of a message of the stack reach its
   reader, with longs of eight bytes too: every text is long enough, even cut
   short twice on its way, to make up for the bytes message_queue_write does
   not count. *)
FieldsArrive ==
  \A r \in Readers : FromStack(r) =>
    /\ LongAt(buf[r], TypeField) = seen[r].type
    /\ LongAt(buf[r], StateField) = seen[r].state
    /\ LongAt(buf[r], EventField) = seen[r].event

(* With longs of four bytes the reader has the sender's text.  With longs of
   eight bytes the last twelve bytes are missing, the zero byte among them:
   what follows is the reader's own. *)
TextArrives ==
  \A r \in Readers : FromStack(r) =>
    IF long = 4 THEN TextOf(buf[r]) = seen[r].text
    ELSE IsPrefix(SubSeq(seen[r].text, 1, Len(seen[r].text) - 11), TextOf(buf[r]))

(* Whatever messages of the utility handler lay over the core's buffer, the
   core does nothing for them but what its last message of the stack asked
   for, again: no part of a foreign text is ever taken for another request. *)
ForeignOnlyRepeats == fired # None => fired = told
=============================================================================
