----------------------------- MODULE StackProofs -----------------------------
(***************************************************************************)
(* The running stack, for any set of applications, any queue size and any  *)
(* uninitialised contents of the device wrapper's buffer: that TypeOK,     *)
(* ChannelContract, CoreStopsOnlyAfterBlindRead and AckCausality are       *)
(* invariants, that the stack implements AckService, that no               *)
(* acknowledgement is written twice, and that what is owed is accounted    *)
(* for.                                                                    *)
(*                                                                         *)
(* TypeOK is inductive; none of the other invariants is.  A message passes *)
(* through the queues, the core's msg and pend and the device wrapper's    *)
(* dmsg, and what is true of it in one place follows from what was true of *)
(* it in the one before.  FlowInv says it for all of those places at once. *)
(* Its parts take the values of sent, seen and blind as arguments: these   *)
(* only ever grow.                                                         *)
(***************************************************************************)
EXTENDS NutrinoStack, StackAccounting, SequenceTheorems, FiniteSetTheorems, TLAPS

(* A write a handler has still to make. *)
PendingWrite == [key : Keys, msg : MsgBuff]

-----------------------------------------------------------------------------
(* message_queue_write asks for between 13 and 68 bytes: every text of the
   programs fits in msg_text and in the struct of the reader. *)
LEMMA MsgSizeBounds ==
  ASSUME NEW m \in MsgBuff
  PROVE  MsgSize(m) \in 13..68 /\ MsgSize(m) <= StructSize
<1>1. m.text \in Texts
  BY DEF MsgBuff
<1>2. Strlen[m.text] \in 0..55
  BY <1>1 DEF Strlen, Texts
<1> QED  BY <1>2 DEF MsgSize, StructSize

(* The keys of the state table trans: a request in ST_INIT, or a message in
   ST_SEND_TO_DEVICE with the event two of the header's names share. *)
LEMMA TableKeys ==
  ASSUME NEW st, NEW ev
  PROVE  HasTransition(st, ev) <=>
           \/ st = ST_INIT /\ ev \in RequestEvents
           \/ st = ST_SEND_TO_DEVICE /\ ev = EV_SEND_TO_DEVICE
<1>1. 1..5 = {1, 2, 3, 4, 5}
  OBVIOUS
<1> QED
  BY <1>1 DEF HasTransition, trans, RequestEvents, EV_SEND_TO_DEVICE,
              EV_SEND_TO_DEVICE_NO_ACK

(* What main's search of the table calls: Init_led for a request, Send_ack for
   a message that comes back from the device, nothing otherwise. *)
LEMMA DispatchCases ==
  ASSUME NEW st, NEW ev, NEW m
  PROVE  /\ ~HasTransition(st, ev) => Dispatch(st, ev, m) = << >>
         /\ st = ST_INIT /\ ev \in RequestEvents => Dispatch(st, ev, m) = Init_led(m)
         /\ st = ST_SEND_TO_DEVICE /\ ev = EV_SEND_TO_DEVICE
              => Dispatch(st, ev, m) = Send_ack(m)
<1> DEFINE Row(i) == /\ trans[i].st = st /\ trans[i].ev = ev
                     /\ \A j \in 1..5 : trans[j].st = st /\ trans[j].ev = ev => i <= j
           f == FirstTransition(st, ev)
<1>1. 1..5 = {1, 2, 3, 4, 5}
  OBVIOUS
<1>2. ~HasTransition(st, ev) => Dispatch(st, ev, m) = << >>
  BY DEF Dispatch
<1>3. ASSUME HasTransition(st, ev)
      PROVE  f \in 1..5 /\ trans[f].st = st
  <2>1. \E i \in 1..5 : Row(i)
    BY <1>1, <1>3 DEF HasTransition
  <2> QED  BY <2>1 DEF FirstTransition
<1>4. \A i \in 1..5 :
        /\ trans[i].st = ST_INIT => trans[i].fn = "Init_led"
        /\ trans[i].st = ST_SEND_TO_DEVICE => trans[i].fn = "Send_ack"
  BY <1>1 DEF trans, ST_INIT, ST_SEND_TO_DEVICE
<1>5. ASSUME st = ST_INIT, ev \in RequestEvents
      PROVE  Dispatch(st, ev, m) = Init_led(m)
  <2>1. HasTransition(st, ev)
    BY <1>5, TableKeys
  <2> QED  BY <2>1, <1>3, <1>4, <1>5 DEF Dispatch
<1>6. ASSUME st = ST_SEND_TO_DEVICE, ev = EV_SEND_TO_DEVICE
      PROVE  Dispatch(st, ev, m) = Send_ack(m)
  <2>1. HasTransition(st, ev)
    BY <1>6, TableKeys
  <2>2. trans[f].fn = "Send_ack"
    BY <2>1, <1>3, <1>4, <1>6
  <2> QED  BY <2>1, <2>2 DEF Dispatch
<1> QED  BY <1>2, <1>5, <1>6

(* A handler's write is well formed. *)
LEMMA WriteType ==
  ASSUME NEW m \in MsgBuff, NEW k \in Keys, NEW st \in Int, NEW ev \in Int
  PROVE  Write(k, m, st, ev) \in PendingWrite
<1>1. [m EXCEPT !.state = st, !.event = ev] \in MsgBuff
  BY DEF MsgBuff
<1> QED  BY <1>1 DEF Write, PendingWrite

(* Whatever message main hands to the table, the writes are well formed. *)
LEMMA DispatchType ==
  ASSUME NEW st \in Int, NEW ev \in Int, NEW m \in MsgBuff
  PROVE  Dispatch(st, ev, m) \in Seq(PendingWrite)
<1>0. /\ QUEUE_CORE \in Keys /\ QUEUE_APPLICATION \in Keys /\ QUEUE_DEVICE \in Keys
      /\ ST_SEND_TO_DEVICE \in Int /\ ST_SEND_ACK \in Int
      /\ EV_SEND_TO_DEVICE_NO_ACK \in Int /\ EV_SEND_TO_APP \in Int
      /\ EV_SEND_TO_DEVICE \in Int
  BY DEF Keys, ST_SEND_TO_DEVICE, ST_SEND_ACK, EV_SEND_TO_DEVICE_NO_ACK,
         EV_SEND_TO_APP, EV_SEND_TO_DEVICE
<1>1. Init_led(m) \in Seq(PendingWrite)
  <2>1. [m EXCEPT !.text = "glow_led"] \in MsgBuff
    BY DEF MsgBuff, Texts
  <2>2. /\ Write(QUEUE_CORE, m, ST_SEND_TO_DEVICE, EV_SEND_TO_DEVICE_NO_ACK) \in PendingWrite
        /\ Write(QUEUE_APPLICATION, m, ST_SEND_ACK, EV_SEND_TO_APP) \in PendingWrite
        /\ Write(QUEUE_DEVICE, m, ST_SEND_TO_DEVICE, EV_SEND_TO_DEVICE_NO_ACK) \in PendingWrite
        /\ Write(QUEUE_DEVICE, [m EXCEPT !.text = "glow_led"],
                 ST_SEND_TO_DEVICE, EV_SEND_TO_DEVICE) \in PendingWrite
    BY <1>0, <2>1, WriteType
  <2> QED  BY <2>2 DEF Init_led
<1>2. Send_ack(m) \in Seq(PendingWrite)
  <2>1. [m EXCEPT !.text = "app_ack"] \in MsgBuff
    BY DEF MsgBuff, Texts
  <2>2. Write(QUEUE_APPLICATION, [m EXCEPT !.text = "app_ack"],
              ST_SEND_ACK, EV_SEND_TO_APP) \in PendingWrite
    BY <1>0, <2>1, WriteType
  <2> QED  BY <2>2 DEF Send_ack
<1> QED  BY <1>1, <1>2 DEF Dispatch

-----------------------------------------------------------------------------
(* The queue operations keep the queues well formed.  A write never makes a
   queue exceed msg_qbytes: message_queue_write fails instead (IPC_NOWAIT). *)
LEMMA QueueInitType ==
  ASSUME QueueTypeOK, NEW k \in Keys, message_queue_init(k)
  PROVE  QueueTypeOK'
BY DEF QueueTypeOK, message_queue_init

(* message_queue_write keeps the types of the queues, whether msgsnd succeeds or not. *)
LEMMA QueueWriteType ==
  ASSUME QueueTypeOK, NEW k \in Keys, NEW m \in MsgBuff, message_queue_write(k, m)
  PROVE  QueueTypeOK'
<1>1. MsgSize(m) \in Int
  BY MsgSizeBounds
<1>2. CASE MsgsndOk(k, m) /\ queues' = [queues EXCEPT ![k] = Append(@, m)]
           /\ cbytes' = [cbytes EXCEPT ![k] = @ + MsgSize(m)] /\ UNCHANGED ids
  <2>1. queues' \in [Keys -> Seq(MsgBuff)]
    <3>1. Append(queues[k], m) \in Seq(MsgBuff)
      BY AppendProperties DEF QueueTypeOK
    <3> QED  BY <3>1, <1>2 DEF QueueTypeOK
  <2>2. cbytes' \in [Keys -> Int] /\ \A l \in Keys : cbytes'[l] <= QBytes
    BY <1>1, <1>2 DEF QueueTypeOK, MsgsndOk
  <2> QED  BY <2>1, <2>2, <1>2 DEF QueueTypeOK
<1>3. CASE UNCHANGED qvars
  BY <1>3 DEF QueueTypeOK, qvars
<1> QED  BY <1>2, <1>3 DEF message_queue_write

(* message_queue_read keeps the types of the queues, whether msgrcv succeeds or not. *)
LEMMA QueueReadType ==
  ASSUME QueueTypeOK, NEW k \in Keys, message_queue_read(k)
  PROVE  QueueTypeOK'
<1>1. CASE MsgrcvOk(k) /\ queues' = [queues EXCEPT ![k] = Tail(@)]
           /\ cbytes' = [cbytes EXCEPT ![k] = @ - MsgSize(Head(queues[k]))]
           /\ UNCHANGED ids
  <2>1. Head(queues[k]) \in MsgBuff /\ Tail(queues[k]) \in Seq(MsgBuff)
    BY <1>1, HeadTailProperties DEF QueueTypeOK, MsgrcvOk
  <2>2. queues' \in [Keys -> Seq(MsgBuff)]
    BY <1>1, <2>1 DEF QueueTypeOK
  <2>3. MsgSize(Head(queues[k])) \in 13..68
    BY <2>1, MsgSizeBounds
  <2>4. cbytes' \in [Keys -> Int] /\ \A l \in Keys : cbytes'[l] <= QBytes
    <3> DEFINE n == MsgSize(Head(queues[k]))
    <3>1. cbytes' = [cbytes EXCEPT ![k] = cbytes[k] - n]
      BY <1>1
    <3>2. n \in 13..68
      BY <2>3
    <3> HIDE DEF n
    <3> QED  BY <3>1, <3>2, QueueAssumption DEF QueueTypeOK
  <2> QED  BY <2>2, <2>4, <1>1 DEF QueueTypeOK
<1>2. CASE UNCHANGED qvars
  BY <1>2 DEF QueueTypeOK, qvars
<1> QED  BY <1>1, <1>2 DEF message_queue_read

(* A read leaves a well-formed message in the caller's buffer, new or old. *)
LEMMA ReadIntoType ==
  ASSUME QueueTypeOK, NEW k \in Keys, NEW b \in MsgBuff
  PROVE  ReadInto(k, b) \in MsgBuff
BY HeadTailProperties DEF ReadInto, MsgrcvOk, QueueTypeOK

(* The bookkeeping of writes is well formed. *)
LEMMA NoteWriteType ==
  ASSUME AuxTypeOK, NEW k \in Keys, NEW m \in MsgBuff, NoteWrite(k, m)
  PROVE  acked' \in SUBSET (Origins \X Texts) /\ dropped' \in SUBSET Origins
<1>1. m.origin \in Origins /\ m.text \in Texts
  BY DEF MsgBuff
<1>2. <<m.origin, m.text>> \in Origins \X Texts
  BY <1>1
<1> QED  BY <1>1, <1>2 DEF NoteWrite, AuxTypeOK

-----------------------------------------------------------------------------
(* The three keys of the stack are keys of queues. *)
LEMMA KeysAreKeys ==
  QUEUE_CORE \in Keys /\ QUEUE_APPLICATION \in Keys /\ QUEUE_DEVICE \in Keys
BY DEF Keys

(* A core step keeps the types: the three queue inits, GetMessageStateEvent
   with the table lookup, a handler's write, and the end of main's loop. *)
LEMMA CoreStepType ==
  ASSUME TypeOK, Core
  PROVE  TypeOK'
<1> USE DEF TypeOK
<1>1. AppTypeOK' /\ DevTypeOK'
  BY DEF Core, appVars, devVars, AppTypeOK, DevTypeOK
<1>2. CASE CoreQueueInit /\ UNCHANGED <<acked, dropped>>
  <2>1. QueueTypeOK'
    BY <1>2, QueueInitType, KeysAreKeys DEF CoreQueueInit
  <2>2. CoreTypeOK'
    BY <1>2 DEF CoreQueueInit, CoreTypeOK
  <2>3. AuxTypeOK'
    BY <1>2 DEF Core, AuxTypeOK
  <2> QED  BY <1>1, <2>1, <2>2, <2>3
<1>3. CASE GetMessageStateEvent /\ UNCHANGED <<acked, dropped>>
  <2>1. QueueTypeOK'
    BY <1>3, QueueReadType, KeysAreKeys DEF GetMessageStateEvent
  <2>2. msg' \in MsgBuff
    BY <1>3, ReadIntoType, KeysAreKeys DEF GetMessageStateEvent, CoreTypeOK
  <2> DEFINE st == IF msg'.type = MSG_TYPE_GLOW_LED THEN msg'.state ELSE state
  <2>3. st \in Int /\ event' \in Int
    <3>1. msg'.state \in Int /\ msg'.event \in Int
      BY <2>2 DEF MsgBuff
    <3> QED  BY <3>1, <1>3 DEF GetMessageStateEvent, CoreTypeOK
  <2>4. pend' = Dispatch(st, event', msg')
    BY <1>3 DEF GetMessageStateEvent
  <2>5. pend' \in Seq(PendingWrite)
    BY <2>2, <2>3, <2>4, DispatchType
  <2>6. state' = 0 \/ state' = st
    BY <1>3 DEF GetMessageStateEvent
  <2>7. cpc' = IF pend' = << >> THEN "read" ELSE "write"
    BY <1>3 DEF GetMessageStateEvent
  <2>8. state' \in Int
    BY <2>3, <2>6
  <2> HIDE DEF st
  <2>9. CoreTypeOK'
    BY <2>2, <2>3, <2>5, <2>7, <2>8 DEF CoreTypeOK, PendingWrite
  <2>10. AuxTypeOK'
    BY <1>3 DEF Core, AuxTypeOK
  <2> QED  BY <1>1, <2>1, <2>9, <2>10
<1>4. CASE HandlerWrite /\ NoteWrite(Head(pend).key, Head(pend).msg)
  <2>1. pend \in Seq(PendingWrite) /\ pend # << >>
    BY <1>4 DEF HandlerWrite, CoreTypeOK, PendingWrite
  <2>2. Head(pend) \in PendingWrite /\ Tail(pend) \in Seq(PendingWrite)
    BY <2>1, HeadTailProperties
  <2>3. Head(pend).key \in Keys /\ Head(pend).msg \in MsgBuff
    BY <2>2 DEF PendingWrite
  <2>4. QueueTypeOK'
    BY <1>4, <2>3, QueueWriteType DEF HandlerWrite
  <2>5. CoreTypeOK'
    <3>1. CASE Tail(pend) = << >>
      BY <1>4, <2>2, <3>1 DEF HandlerWrite, CoreTypeOK, PendingWrite
    <3>2. CASE Tail(pend) # << >>
      BY <1>4, <2>2, <3>2 DEF HandlerWrite, CoreTypeOK, PendingWrite
    <3> QED  BY <3>1, <3>2
  <2>6. AuxTypeOK'
    <3>1. acked' \in SUBSET (Origins \X Texts) /\ dropped' \in SUBSET Origins
      BY <1>4, <2>3, NoteWriteType
    <3> QED  BY <3>1 DEF Core, AuxTypeOK
  <2> QED  BY <1>1, <2>4, <2>5, <2>6
<1>5. CASE CoreStop /\ UNCHANGED <<acked, dropped>>
  BY <1>1, <1>5 DEF CoreStop, Core, CoreTypeOK, QueueTypeOK, AuxTypeOK, qvars
<1> QED  BY <1>2, <1>3, <1>4, <1>5 DEF Core

(* A step of the device wrapper keeps the types, from whatever its buffer
   held when the process started. *)
LEMMA DeviceStepType ==
  ASSUME TypeOK, Device
  PROVE  TypeOK'
<1> USE DEF TypeOK
<1>1. CoreTypeOK' /\ AppTypeOK'
  BY DEF Device, coreVars, appVars, CoreTypeOK, AppTypeOK
<1>2. CASE DeviceRead /\ blind' = (blind \/ ReadFails(QUEUE_DEVICE))
           /\ seen' = (IF MsgrcvOk(QUEUE_DEVICE)
                       THEN seen \cup {Head(queues[QUEUE_DEVICE]).origin} ELSE seen)
           /\ UNCHANGED <<acked, dropped>>
  <2>1. QueueTypeOK'
    BY <1>2, QueueReadType, KeysAreKeys DEF DeviceRead
  <2>2. ReadInto(QUEUE_DEVICE, dmsg) \in MsgBuff
    BY ReadIntoType, KeysAreKeys DEF DevTypeOK
  <2>3. DevTypeOK'
    <3> DEFINE b == ReadInto(QUEUE_DEVICE, dmsg)
    <3>1. dpc' = "write"
      BY <1>2 DEF DeviceRead
    <3>2. dmsg' = [b EXCEPT !.type = MSG_TYPE_GLOW_LED, !.text = "device_ack"]
      BY <1>2 DEF DeviceRead
    <3>3. b \in MsgBuff
      BY <2>2
    <3> HIDE DEF b
    <3>4. dmsg' \in MsgBuff
      <4>1. MSG_TYPE_GLOW_LED \in Int /\ "device_ack" \in Texts
        BY DEF Texts, MSG_TYPE_GLOW_LED
      <4> QED  BY <3>2, <3>3, <4>1 DEF MsgBuff
    <3> QED  BY <3>1, <3>4 DEF DevTypeOK
  <2>4. seen' \in SUBSET Origins
    <3>1. MsgrcvOk(QUEUE_DEVICE) => Head(queues[QUEUE_DEVICE]) \in MsgBuff
      BY KeysAreKeys, HeadTailProperties DEF MsgrcvOk, QueueTypeOK
    <3>2. MsgrcvOk(QUEUE_DEVICE) => Head(queues[QUEUE_DEVICE]).origin \in Origins
      BY <3>1 DEF MsgBuff
    <3> QED  BY <1>2, <3>2 DEF AuxTypeOK
  <2>5. blind' \in BOOLEAN
    BY <1>2
  <2>6. AuxTypeOK'
    <3>1. UNCHANGED <<sent, acked, dropped, restarts>>
      BY <1>2 DEF Device
    <3> QED  BY <3>1, <2>4, <2>5, Zenon DEF AuxTypeOK
  <2> QED  BY <1>1, <2>1, <2>3, <2>6
<1>3. CASE DeviceWrite /\ NoteWrite(QUEUE_CORE, dmsg) /\ UNCHANGED <<seen, blind>>
  <2>1. QueueTypeOK'
    BY <1>3, QueueWriteType, KeysAreKeys DEF DeviceWrite, DevTypeOK
  <2>2. DevTypeOK'
    BY <1>3 DEF DeviceWrite, DevTypeOK
  <2>3. acked' \in SUBSET (Origins \X Texts) /\ dropped' \in SUBSET Origins
    BY <1>3, NoteWriteType, KeysAreKeys DEF DevTypeOK
  <2>4. AuxTypeOK'
    BY <1>3, <2>3 DEF Device, AuxTypeOK
  <2> QED  BY <1>1, <2>1, <2>2, <2>4
<1> QED  BY <1>2, <1>3 DEF Device

(* The message a call builds is well formed, and so is its request. *)
LEMMA RequestType ==
  ASSUME AppTypeOK, NEW a \in Apps, NEW ev \in RequestEvents, NEW t \in Texts
  PROVE  Request(a, ev, t) \in MsgBuff /\ Request(a, ev, t).origin \in Requests
<1>1. nreq[a] + 1 \in Nat
  BY DEF AppTypeOK
<1>2. [app |-> a, n |-> nreq[a] + 1, event |-> ev] \in Requests
  BY <1>1 DEF Requests
<1>3. ev \in Int
  BY DEF RequestEvents, EV_SEND_TO_CORE_NO_ACK, EV_SEND_TO_CORE, EV_SEND_TO_CORE_DEV_ACK
<1>4. SESSION \in Int /\ MSG_TYPE_GLOW_LED \in Int /\ ST_INIT \in Int
  BY DEF SESSION, MSG_TYPE_GLOW_LED, ST_INIT
<1> QED  BY <1>2, <1>3, <1>4 DEF Request, MsgBuff, Origins

(* What the three calls have in common: each is SendRequest of some request. *)
LEMMA CallsSendRequests ==
  ASSUME NEW a \in Apps, glow_led(a) \/ glow_led_with_fsm_ack(a) \/ glow_led_with_board_ack(a)
  PROVE  \E ev \in RequestEvents, t \in Texts \ {"app_ack"}, pc \in {"menu", "wait"} :
            SendRequest(a, Request(a, ev, t), pc)
<1>1. /\ EV_SEND_TO_CORE_NO_ACK \in RequestEvents
      /\ EV_SEND_TO_CORE \in RequestEvents
      /\ EV_SEND_TO_CORE_DEV_ACK \in RequestEvents
  BY DEF RequestEvents
<1>2. /\ "no_ack_request" \in Texts \ {"app_ack"}
      /\ "ack_request" \in Texts \ {"app_ack"}
  BY DEF Texts
<1> QED  BY <1>1, <1>2 DEF glow_led, glow_led_with_fsm_ack, glow_led_with_board_ack

(* A call's write keeps the types. *)
LEMMA UserStepType ==
  ASSUME TypeOK, NEW a \in Apps, User(a)
  PROVE  TypeOK'
<1> USE DEF TypeOK
<1>1. PICK ev \in RequestEvents, t \in Texts \ {"app_ack"}, pc \in {"menu", "wait"} :
         SendRequest(a, Request(a, ev, t), pc)
  BY CallsSendRequests DEF User
<1> DEFINE m == Request(a, ev, t)
<1>2. m \in MsgBuff /\ m.origin \in Requests
  BY RequestType
<1> HIDE DEF m
<1>3. SendRequest(a, m, pc)
  BY <1>1 DEF m
<1>4. buf'[a] = m /\ call'[a] = m.origin
  BY <1>3 DEF SendRequest, AppTypeOK
<1>5. QueueTypeOK'
  BY <1>2, <1>3, QueueWriteType, KeysAreKeys DEF SendRequest
<1>6. AppTypeOK'
  BY <1>2, <1>3 DEF SendRequest, AppTypeOK, Origins
<1>7. CoreTypeOK' /\ DevTypeOK'
  BY DEF User, coreVars, devVars, CoreTypeOK, DevTypeOK
<1>8. acked' \in SUBSET (Origins \X Texts) /\ dropped' \in SUBSET Origins
  BY <1>2, <1>4, NoteWriteType, KeysAreKeys DEF User
<1>9. sent' \in SUBSET Requests
  BY <1>2, <1>4 DEF User, AuxTypeOK
<1>10. AuxTypeOK'
  BY <1>8, <1>9 DEF User, AuxTypeOK
<1> QED  BY <1>5, <1>6, <1>7, <1>10

(* The read at the end of an acknowledged call keeps the types. *)
LEMMA CallReturnsType ==
  ASSUME TypeOK, NEW a \in Apps, CallReturns(a)
  PROVE  TypeOK'
<1> USE DEF TypeOK
<1>1. QueueTypeOK'
  BY QueueReadType, KeysAreKeys DEF CallReturns, ReadAck
<1>2. ReadInto(QUEUE_APPLICATION, buf[a]) \in MsgBuff
  BY ReadIntoType, KeysAreKeys DEF AppTypeOK
<1>3. AppTypeOK'
  BY <1>2 DEF CallReturns, ReadAck, AppTypeOK
<1>4. CoreTypeOK' /\ DevTypeOK' /\ AuxTypeOK'
  BY DEF CallReturns, coreVars, devVars, auxVars, CoreTypeOK, DevTypeOK, AuxTypeOK
<1> QED  BY <1>1, <1>3, <1>4

(* A zeroed struct msgbuff is well formed. *)
LEMMA ZeroMsgType == ZeroMsg \in MsgBuff /\ NoBuf \in MsgBuff /\ NoOrigin \in Origins
BY DEF ZeroMsg, NoBuf, MsgBuff, Texts, Origins

(* The death and the start of a process keep the types. *)
LEMMA RestartType ==
  ASSUME TypeOK, Restart
  PROVE  TypeOK'
<1> USE DEF TypeOK
<1>1. AuxTypeOK'
  BY DEF Restart, AuxTypeOK
<1>2. QueueTypeOK'
  BY DEF Restart, CoreRestart, DeviceRestart, AppRestart, qvars, QueueTypeOK
<1>3. CASE CoreRestart /\ UNCHANGED <<appVars, devVars>>
  <2>1. CoreTypeOK'
    BY <1>3, ZeroMsgType DEF CoreRestart, CoreTypeOK, ST_INIT
  <2> QED  BY <1>1, <1>2, <1>3, <2>1 DEF appVars, devVars, AppTypeOK, DevTypeOK
<1>4. CASE DeviceRestart /\ UNCHANGED <<coreVars, appVars>>
  <2>1. DevTypeOK'
    BY <1>4, GarbageAssumption DEF DeviceRestart, DevTypeOK
  <2> QED  BY <1>1, <1>2, <1>4, <2>1 DEF appVars, coreVars, AppTypeOK, CoreTypeOK
<1>5. CASE \E a \in Apps : AppRestart(a) /\ UNCHANGED <<coreVars, devVars>>
  <2>1. AppTypeOK'
    BY <1>5, ZeroMsgType DEF AppRestart, AppTypeOK
  <2> QED  BY <1>1, <1>2, <1>5, <2>1 DEF devVars, coreVars, DevTypeOK, CoreTypeOK
<1> QED  BY <1>3, <1>4, <1>5 DEF Restart

-----------------------------------------------------------------------------
(* Type correctness of the whole stack, for every number of applications and
   of requests, every queue size and every uninitialised buffer: no sequence
   of reads, writes, failures and restarts makes a queue exceed msg_qbytes or
   leaves a handler of the core running with nothing to write. *)
THEOREM TypeCorrect == Spec => []TypeOK
<1>1. Init => TypeOK
  <2> SUFFICES ASSUME Init PROVE TypeOK
    OBVIOUS
  <2>1. QueueTypeOK
    BY QueueAssumption, StackAssumption, EmptySeq DEF Init, QueueTypeOK
  <2>2. CoreTypeOK
    BY ZeroMsgType DEF Init, CoreInit, CoreTypeOK, ST_INIT
  <2>3. AppTypeOK /\ DevTypeOK
    BY ZeroMsgType, GarbageAssumption DEF Init, AppInit, DevInit, AppTypeOK, DevTypeOK
  <2>4. AuxTypeOK
    BY DEF Init, AuxTypeOK
  <2> QED  BY <2>1, <2>2, <2>3, <2>4 DEF TypeOK
<1>2. TypeOK /\ [Next]_vars => TypeOK'
  <2> SUFFICES ASSUME TypeOK, [Next]_vars PROVE TypeOK'
    OBVIOUS
  <2>1. CASE Core
    BY <2>1, CoreStepType
  <2>2. CASE Device
    BY <2>2, DeviceStepType
  <2>3. CASE \E a \in Apps : User(a) \/ CallReturns(a)
    BY <2>3, UserStepType, CallReturnsType
  <2>4. CASE Restart
    BY <2>4, RestartType
  <2>5. CASE UNCHANGED vars
    BY <2>5 DEF vars, qvars, coreVars, appVars, devVars, auxVars, TypeOK,
                QueueTypeOK, CoreTypeOK, AppTypeOK, DevTypeOK, AuxTypeOK
  <2> QED  BY <2>1, <2>2, <2>3, <2>4, <2>5 DEF Next
<1> QED  BY <1>1, <1>2, PTL DEF Spec

-----------------------------------------------------------------------------
(* A message the core can act on, with the request it descends from: the
   request itself, or the same on its way back. *)
CoreBound(m, se) ==
  /\ m.type = MSG_TYPE_GLOW_LED
  /\ \/ /\ m.state = ST_INIT
        /\ m.event = m.origin.event
        /\ m.text # "app_ack"
     \/ /\ m.state = ST_SEND_TO_DEVICE
        /\ m.event = EV_SEND_TO_DEVICE
        /\ m.origin.event # EV_SEND_TO_CORE_NO_ACK => m.origin \in se

(* What holds of a message m in queue k, or about to be written to it. *)
Sound(k, m, sn, se, bl) ==
  /\ k = QUEUE_APPLICATION => m.state = ST_SEND_ACK /\ m.event = EV_SEND_TO_APP
  /\ k = QUEUE_DEVICE => m.state = ST_SEND_TO_DEVICE /\ m.event = EV_SEND_TO_DEVICE
  /\ m.origin = NoOrigin => bl
  /\ m.origin # NoOrigin =>
       /\ m.origin \in sn
       /\ k = QUEUE_CORE => CoreBound(m, se)
       /\ k = QUEUE_APPLICATION /\ m.text = "app_ack"
            /\ m.origin.event # EV_SEND_TO_CORE_NO_ACK => m.origin \in se

(* What holds of the message the core has read last. *)
Received(m, sn, se, bl) ==
  /\ m.origin = NoOrigin => bl \/ m = ZeroMsg
  /\ m.origin # NoOrigin => m.origin \in sn /\ CoreBound(m, se)

QueueInv == \A k \in Keys : \A i \in 1..Len(queues[k]) :
              /\ queues[k][i].session >= 1
              /\ Sound(k, queues[k][i], sent, seen, blind)

PendInv == \A i \in 1..Len(pend) :
             Sound(pend[i].key, pend[i].msg, sent, seen, blind)

MsgInv == Received(msg, sent, seen, blind)

DevInv == /\ dmsg.origin # NoOrigin =>
               /\ dmsg.origin \in sent
               /\ dmsg.origin \in seen
               /\ dmsg.state = ST_SEND_TO_DEVICE
               /\ dmsg.event = EV_SEND_TO_DEVICE
          /\ dpc = "write" =>
               /\ dmsg.type = MSG_TYPE_GLOW_LED
               /\ dmsg.origin = NoOrigin => blind

FlowInv == /\ QueueInv
           /\ PendInv
           /\ MsgInv
           /\ DevInv
           /\ CoreStopsOnlyAfterBlindRead
           /\ AckCausality

(* sent, seen and blind only grow. *)
Grow == sent \subseteq sent' /\ seen \subseteq seen' /\ (blind => blind')

-----------------------------------------------------------------------------
(* What is known of a message stays known as the history grows. *)
LEMMA SoundGrows ==
  ASSUME NEW k, NEW m, NEW sn, NEW se, NEW bl, NEW sn2, NEW se2, NEW bl2,
         sn \subseteq sn2, se \subseteq se2, bl => bl2
  PROVE  /\ Sound(k, m, sn, se, bl) => Sound(k, m, sn2, se2, bl2)
         /\ Received(m, sn, se, bl) => Received(m, sn2, se2, bl2)
<1>1. CoreBound(m, se) => CoreBound(m, se2)
  BY DEF CoreBound
<1> QED  BY <1>1 DEF Sound, Received

(* A write adds one message at the end of one queue, if it succeeds, and that
   one has a valid first long. *)
LEMMA QueueWriteFlow ==
  ASSUME QueueTypeOK, QueueInv, Grow,
         NEW k \in Keys, NEW m \in MsgBuff, message_queue_write(k, m),
         MsgsndOk(k, m) => Sound(k, m, sent', seen', blind')
  PROVE  QueueInv'
<1> SUFFICES ASSUME NEW l \in Keys, NEW i \in 1..Len(queues'[l])
             PROVE  /\ queues'[l][i].session >= 1
                    /\ Sound(l, queues'[l][i], sent', seen', blind')
  BY DEF QueueInv
<1>1. ASSUME i \in 1..Len(queues[l]), queues'[l][i] = queues[l][i]
      PROVE  /\ queues'[l][i].session >= 1
             /\ Sound(l, queues'[l][i], sent', seen', blind')
  BY <1>1, SoundGrows DEF QueueInv, Grow
<1>2. CASE MsgsndOk(k, m) /\ queues' = [queues EXCEPT ![k] = Append(@, m)]
  <2>1. CASE l # k
    BY <1>1, <1>2, <2>1 DEF QueueTypeOK
  <2>2. CASE l = k
    <3>1. queues'[l] = Append(queues[l], m) /\ queues[l] \in Seq(MsgBuff)
      BY <1>2, <2>2 DEF QueueTypeOK
    <3>2. CASE i <= Len(queues[l])
      BY <1>1, <3>1, <3>2, AppendProperties
    <3>3. CASE i > Len(queues[l])
      <4>1. queues'[l][i] = m
        BY <3>1, <3>3, AppendProperties
      <4> QED  BY <4>1, <1>2, <2>2 DEF MsgsndOk
    <3>4. Len(queues[l]) \in Nat /\ i \in Int
      BY <3>1, LenProperties
    <3> QED  BY <3>2, <3>3, <3>4
  <2> QED  BY <2>1, <2>2
<1>3. CASE UNCHANGED qvars
  BY <1>1, <1>3 DEF qvars
<1> QED  BY <1>2, <1>3 DEF message_queue_write

(* A read takes the first message of one queue or changes nothing. *)
LEMMA QueueReadFlow ==
  ASSUME QueueTypeOK, QueueInv, Grow, NEW k \in Keys, message_queue_read(k)
  PROVE  QueueInv'
<1> SUFFICES ASSUME NEW l \in Keys, NEW i \in 1..Len(queues'[l])
             PROVE  /\ queues'[l][i].session >= 1
                    /\ Sound(l, queues'[l][i], sent', seen', blind')
  BY DEF QueueInv
<1>1. ASSUME NEW j \in 1..Len(queues[l]), queues'[l][i] = queues[l][j]
      PROVE  /\ queues'[l][i].session >= 1
             /\ Sound(l, queues'[l][i], sent', seen', blind')
  BY <1>1, SoundGrows DEF QueueInv, Grow
<1>2. CASE MsgrcvOk(k) /\ queues' = [queues EXCEPT ![k] = Tail(@)]
  <2>1. CASE l # k
    BY <1>1, <1>2, <2>1 DEF QueueTypeOK
  <2>2. CASE l = k
    <3>1. /\ queues'[l] = Tail(queues[l]) /\ queues[l] \in Seq(MsgBuff)
          /\ queues[l] # << >>
      BY <1>2, <2>2 DEF QueueTypeOK, MsgrcvOk
    <3>2. i + 1 \in 1..Len(queues[l]) /\ queues'[l][i] = queues[l][i + 1]
      BY <3>1, HeadTailProperties, LenProperties
    <3> QED  BY <1>1, <3>2
  <2> QED  BY <2>1, <2>2
<1>3. CASE UNCHANGED qvars
  BY <1>1, <1>3 DEF qvars
<1> QED  BY <1>2, <1>3 DEF message_queue_read

(* A message at the head of a queue is sound. *)
LEMMA HeadSound ==
  ASSUME QueueTypeOK, QueueInv, NEW k \in Keys, MsgrcvOk(k)
  PROVE  Sound(k, Head(queues[k]), sent, seen, blind)
<1>1. queues[k] \in Seq(MsgBuff) /\ queues[k] # << >>
  BY DEF QueueTypeOK, MsgrcvOk
<1>2. 1 \in 1..Len(queues[k]) /\ Head(queues[k]) = queues[k][1]
  BY <1>1, EmptySeq, LenProperties
<1> QED  BY <1>2 DEF QueueInv

-----------------------------------------------------------------------------
(* What the fields of a handler's write are. *)
LEMMA WriteFields ==
  ASSUME NEW m \in MsgBuff, NEW k, NEW st, NEW ev
  PROVE  LET w == Write(k, m, st, ev) IN
         /\ w.key = k
         /\ w.msg.state = st /\ w.msg.event = ev /\ w.msg.type = m.type
         /\ w.msg.text = m.text /\ w.msg.origin = m.origin
BY DEF Write, MsgBuff

(* Every write of Send_ack is sound when the message it is given is the core's
   own or comes back from the device. *)
LEMMA SendAckSound ==
  ASSUME NEW m \in MsgBuff, NEW sn, NEW se, NEW bl,
         m.origin = NoOrigin => bl,
         m.origin # NoOrigin =>
           /\ m.origin \in sn
           /\ m.origin.event # EV_SEND_TO_CORE_NO_ACK => m.origin \in se
  PROVE  \A i \in 1..Len(Send_ack(m)) :
            Sound(Send_ack(m)[i].key, Send_ack(m)[i].msg, sn, se, bl)
<1> DEFINE b == [m EXCEPT !.text = "app_ack"]
           w == Write(QUEUE_APPLICATION, b, ST_SEND_ACK, EV_SEND_TO_APP)
<1>1. b \in MsgBuff /\ b.origin = m.origin
  BY DEF MsgBuff, Texts
<1>2. Send_ack(m) = << w >>
  BY DEF Send_ack, EV_SEND_TO_DEVICE
<1> HIDE DEF b
<1>3. /\ w.key = QUEUE_APPLICATION
      /\ w.msg.state = ST_SEND_ACK /\ w.msg.event = EV_SEND_TO_APP
      /\ w.msg.origin = m.origin
  BY <1>1, WriteFields
<1> HIDE DEF w
<1>4. Sound(w.key, w.msg, sn, se, bl)
  BY <1>3 DEF Sound, QUEUE_APPLICATION, QUEUE_DEVICE, QUEUE_CORE
<1> QED  BY <1>2, <1>4

(* Every write of Init_led is sound when the message it is given is a request
   with the event of its origin, or nobody's. *)
LEMMA InitLedSound ==
  ASSUME NEW m \in MsgBuff, NEW sn, NEW se, NEW bl,
         m.origin = NoOrigin => bl,
         m.origin # NoOrigin =>
           /\ m.origin \in sn
           /\ m.type = MSG_TYPE_GLOW_LED
           /\ m.event = m.origin.event
           /\ m.text # "app_ack"
  PROVE  \A i \in 1..Len(Init_led(m)) :
            Sound(Init_led(m)[i].key, Init_led(m)[i].msg, sn, se, bl)
<1> USE DEF QUEUE_APPLICATION, QUEUE_DEVICE, QUEUE_CORE, EV_SEND_TO_CORE_NO_ACK,
            EV_SEND_TO_CORE, EV_SEND_TO_CORE_DEV_ACK
<1>1. CASE m.event = EV_SEND_TO_CORE_NO_ACK
  <2> DEFINE w == Write(QUEUE_CORE, m, ST_SEND_TO_DEVICE, EV_SEND_TO_DEVICE_NO_ACK)
  <2>1. Init_led(m) = << w >>
    BY <1>1 DEF Init_led
  <2>2. /\ w.key = QUEUE_CORE /\ w.msg.type = m.type
        /\ w.msg.state = ST_SEND_TO_DEVICE /\ w.msg.event = EV_SEND_TO_DEVICE_NO_ACK
        /\ w.msg.origin = m.origin
    BY WriteFields
  <2> HIDE DEF w
  <2>3. Sound(w.key, w.msg, sn, se, bl)
    BY <2>2, <1>1 DEF Sound, CoreBound, EV_SEND_TO_DEVICE, EV_SEND_TO_DEVICE_NO_ACK
  <2> QED  BY <2>1, <2>3
<1>2. CASE m.event = EV_SEND_TO_CORE
  <2> DEFINE w == Write(QUEUE_APPLICATION, m, ST_SEND_ACK, EV_SEND_TO_APP)
             x == Write(QUEUE_DEVICE, m, ST_SEND_TO_DEVICE, EV_SEND_TO_DEVICE_NO_ACK)
  <2>1. Init_led(m) = << w, x >>
    BY <1>2 DEF Init_led
  <2>2. /\ w.key = QUEUE_APPLICATION /\ w.msg.text = m.text
        /\ w.msg.state = ST_SEND_ACK /\ w.msg.event = EV_SEND_TO_APP
        /\ w.msg.origin = m.origin
    BY WriteFields
  <2>3. /\ x.key = QUEUE_DEVICE
        /\ x.msg.state = ST_SEND_TO_DEVICE /\ x.msg.event = EV_SEND_TO_DEVICE_NO_ACK
        /\ x.msg.origin = m.origin
    BY WriteFields
  <2> HIDE DEF w, x
  <2>4. Sound(w.key, w.msg, sn, se, bl)
    BY <2>2 DEF Sound
  <2>5. Sound(x.key, x.msg, sn, se, bl)
    BY <2>3 DEF Sound, EV_SEND_TO_DEVICE, EV_SEND_TO_DEVICE_NO_ACK
  <2>6. \A i \in 1..Len(<< w, x >>) : << w, x >>[i] = w \/ << w, x >>[i] = x
    OBVIOUS
  <2> QED  BY <2>1, <2>4, <2>5, <2>6
<1>3. CASE m.event = EV_SEND_TO_CORE_DEV_ACK
  <2> DEFINE b == [m EXCEPT !.text = "glow_led"]
             w == Write(QUEUE_DEVICE, b, ST_SEND_TO_DEVICE, EV_SEND_TO_DEVICE)
  <2>1. b \in MsgBuff /\ b.origin = m.origin
    BY DEF MsgBuff, Texts
  <2>2. Init_led(m) = << w >>
    BY <1>3 DEF Init_led
  <2> HIDE DEF b
  <2>3. /\ w.key = QUEUE_DEVICE
        /\ w.msg.state = ST_SEND_TO_DEVICE /\ w.msg.event = EV_SEND_TO_DEVICE
        /\ w.msg.origin = m.origin
    BY <2>1, WriteFields
  <2> HIDE DEF w
  <2>4. Sound(w.key, w.msg, sn, se, bl)
    BY <2>3 DEF Sound
  <2> QED  BY <2>2, <2>4
<1>4. CASE m.event \notin RequestEvents
  <2>1. Init_led(m) = << >>
    BY <1>4 DEF Init_led, RequestEvents
  <2> QED  BY <2>1
<1> QED  BY <1>1, <1>2, <1>3, <1>4 DEF RequestEvents

(* Whatever message main has, just read or left by a read that failed, the
   writes the table leads to are sound. *)
LEMMA DispatchSound ==
  ASSUME NEW m \in MsgBuff, NEW sn, NEW se, NEW bl, NEW st, NEW ev,
         Received(m, sn, se, bl),
         m.type = MSG_TYPE_GLOW_LED => st = m.state /\ ev = m.event
  PROVE  LET d == Dispatch(st, ev, m) IN
         \A i \in 1..Len(d) : Sound(d[i].key, d[i].msg, sn, se, bl)
<1>1. CASE ~HasTransition(st, ev)
  <2>1. Dispatch(st, ev, m) = << >>
    BY <1>1, DispatchCases
  <2> QED  BY <2>1
<1>2. ASSUME HasTransition(st, ev), m.origin = NoOrigin
      PROVE  bl
  <2>1. CASE m = ZeroMsg
    <3>1. st = 0
      BY <2>1 DEF ZeroMsg, MSG_TYPE_GLOW_LED
    <3> QED  BY <3>1, <1>2, TableKeys DEF ST_INIT, ST_SEND_TO_DEVICE
  <2> QED  BY <2>1, <1>2 DEF Received
<1>3. ASSUME m.origin # NoOrigin
      PROVE  m.origin \in sn /\ CoreBound(m, se) /\ st = m.state /\ ev = m.event
  BY <1>3 DEF Received, CoreBound
<1>4. CASE st = ST_INIT /\ ev \in RequestEvents
  <2>1. Dispatch(st, ev, m) = Init_led(m)
    BY <1>4, DispatchCases
  <2>2. HasTransition(st, ev)
    BY <1>4, TableKeys
  <2>3. m.origin = NoOrigin => bl
    BY <1>2, <2>2
  <2>4. m.origin # NoOrigin =>
          /\ m.origin \in sn
          /\ m.type = MSG_TYPE_GLOW_LED
          /\ m.event = m.origin.event
          /\ m.text # "app_ack"
    BY <1>3, <1>4 DEF CoreBound, ST_INIT, ST_SEND_TO_DEVICE
  <2>5. \A i \in 1..Len(Init_led(m)) :
          Sound(Init_led(m)[i].key, Init_led(m)[i].msg, sn, se, bl)
    BY <2>3, <2>4, InitLedSound
  <2> QED  BY <2>1, <2>5
<1>5. CASE st = ST_SEND_TO_DEVICE /\ ev = EV_SEND_TO_DEVICE
  <2>1. Dispatch(st, ev, m) = Send_ack(m)
    BY <1>5, DispatchCases
  <2>2. HasTransition(st, ev)
    BY <1>5, TableKeys
  <2>3. m.origin = NoOrigin => bl
    BY <1>2, <2>2
  <2>4. m.origin # NoOrigin =>
          /\ m.origin \in sn
          /\ m.origin.event # EV_SEND_TO_CORE_NO_ACK => m.origin \in se
    BY <1>3, <1>5 DEF CoreBound, ST_INIT, ST_SEND_TO_DEVICE
  <2>5. \A i \in 1..Len(Send_ack(m)) :
          Sound(Send_ack(m)[i].key, Send_ack(m)[i].msg, sn, se, bl)
    BY <2>3, <2>4, SendAckSound
  <2> QED  BY <2>1, <2>5
<1> QED  BY <1>1, <1>4, <1>5, TableKeys

-----------------------------------------------------------------------------
(* An acknowledgement that a sound write puts in QUEUE_APPLICATION respects
   AckCausality. *)
LEMMA NoteWriteCausality ==
  ASSUME AuxTypeOK, AckCausality, Grow, NEW k \in Keys, NEW m \in MsgBuff,
         NoteWrite(k, m),
         MsgsndOk(k, m) /\ k = QUEUE_APPLICATION => Sound(k, m, sent', seen', blind')
  PROVE  AckCausality'
<1> SUFFICES ASSUME NEW x \in acked', x[1] # NoOrigin
             PROVE  /\ x[1] \in sent'
                    /\ x[2] = "app_ack" /\ x[1].event # EV_SEND_TO_CORE_NO_ACK
                         => x[1] \in seen'
  BY DEF AckCausality
<1>1. CASE x \in acked
  BY <1>1 DEF AckCausality, Grow
<1>2. CASE x \notin acked
  <2>1. k = QUEUE_APPLICATION /\ MsgsndOk(k, m) /\ x = <<m.origin, m.text>>
    BY <1>2 DEF NoteWrite
  <2>2. Sound(k, m, sent', seen', blind')
    BY <2>1
  <2> QED  BY <2>1, <2>2 DEF Sound
<1> QED  BY <1>1, <1>2

(* Steps that leave the core's variables alone keep what is said of them. *)
LEMMA CoreUnchangedFlow ==
  ASSUME TypeOK, FlowInv, Grow, UNCHANGED coreVars
  PROVE  PendInv' /\ MsgInv' /\ CoreStopsOnlyAfterBlindRead'
<1>1. UNCHANGED <<cpc, state, msg, pend>>
  BY DEF coreVars
<1>2. PendInv'
  <2> SUFFICES ASSUME NEW i \in 1..Len(pend)
               PROVE  Sound(pend[i].key, pend[i].msg, sent', seen', blind')
    BY <1>1 DEF PendInv
  <2> QED  BY SoundGrows DEF FlowInv, PendInv, Grow
<1>3. MsgInv'
  <2>1. Received(msg, sent', seen', blind')
    BY SoundGrows DEF FlowInv, MsgInv, Grow
  <2> QED  BY <1>1, <2>1 DEF MsgInv
<1>4. CoreStopsOnlyAfterBlindRead'
  BY <1>1 DEF FlowInv, CoreStopsOnlyAfterBlindRead, Grow
<1> QED  BY <1>2, <1>3, <1>4

(* The same of the device wrapper's. *)
LEMMA DevUnchangedFlow ==
  ASSUME FlowInv, Grow, UNCHANGED devVars
  PROVE  DevInv'
BY DEF FlowInv, DevInv, Grow, devVars

(* A step that writes nothing adds no acknowledgement. *)
LEMMA NoWriteCausality ==
  ASSUME AckCausality, Grow, UNCHANGED acked
  PROVE  AckCausality'
BY DEF AckCausality, Grow

-----------------------------------------------------------------------------
(* The core keeps FlowInv.  The step that matters is GetMessageStateEvent: it
   turns the message at the head of QUEUE_CORE into a handler's writes. *)
LEMMA CoreStepFlow ==
  ASSUME TypeOK, FlowInv, Core
  PROVE  FlowInv'
<1>1. Grow /\ UNCHANGED devVars
  BY DEF Core, Grow
<1>2. DevInv'
  BY <1>1, DevUnchangedFlow
<1>3. CASE CoreQueueInit /\ UNCHANGED <<acked, dropped>>
  <2>1. UNCHANGED <<queues, sent, seen, blind>>
    BY <1>3 DEF CoreQueueInit, message_queue_init, Core
  <2>2. QueueInv' /\ PendInv' /\ MsgInv' /\ AckCausality'
    BY <1>3, <2>1 DEF CoreQueueInit, FlowInv, QueueInv, PendInv, MsgInv, AckCausality
  <2>3. CoreStopsOnlyAfterBlindRead'
    BY <1>3, <2>1 DEF CoreQueueInit, FlowInv, CoreStopsOnlyAfterBlindRead
  <2> QED  BY <1>2, <2>2, <2>3 DEF FlowInv
<1>4. CASE GetMessageStateEvent /\ UNCHANGED <<acked, dropped>>
  <2> DEFINE st == IF msg'.type = MSG_TYPE_GLOW_LED THEN msg'.state ELSE state
  <2>1. QueueInv'
    BY <1>1, <1>4, QueueReadFlow, KeysAreKeys DEF GetMessageStateEvent, TypeOK, FlowInv
  <2>2. UNCHANGED <<sent, seen, blind>>
    BY DEF Core
  <2>3. msg' \in MsgBuff
    BY <1>4, ReadIntoType, KeysAreKeys DEF GetMessageStateEvent, TypeOK, CoreTypeOK
  <2>4. Received(msg', sent, seen, blind)
    <3>1. CASE MsgrcvOk(QUEUE_CORE)
      <4>1. msg' = Head(queues[QUEUE_CORE])
        BY <1>4, <3>1 DEF GetMessageStateEvent, ReadInto
      <4>2. Sound(QUEUE_CORE, msg', sent, seen, blind)
        BY <3>1, <4>1, HeadSound, KeysAreKeys DEF TypeOK, FlowInv
      <4> QED  BY <4>2 DEF Sound, Received
    <3>2. CASE ~MsgrcvOk(QUEUE_CORE)
      <4>1. msg' = msg
        BY <1>4, <3>2 DEF GetMessageStateEvent, ReadInto
      <4> QED  BY <4>1 DEF FlowInv, MsgInv
    <3> QED  BY <3>1, <3>2
  <2>5. MsgInv'
    BY <2>2, <2>4 DEF MsgInv
  <2>6. pend' = Dispatch(st, event', msg')
    BY <1>4 DEF GetMessageStateEvent
  <2>7. msg'.type = MSG_TYPE_GLOW_LED => st = msg'.state /\ event' = msg'.event
    BY <1>4 DEF GetMessageStateEvent
  <2>8. state' = st \/ state' = 0
    BY <1>4 DEF GetMessageStateEvent
  <2>9. msg'.type # MSG_TYPE_GLOW_LED => st = state
    OBVIOUS
  <2> HIDE DEF st
  <2>10. PendInv'
    <3> DEFINE d == Dispatch(st, event', msg')
    <3>1. \A i \in 1..Len(d) : Sound(d[i].key, d[i].msg, sent, seen, blind)
      BY <2>3, <2>4, <2>7, DispatchSound
    <3> HIDE DEF d
    <3> QED  BY <2>2, <2>6, <3>1 DEF PendInv, d
  <2>11. CoreStopsOnlyAfterBlindRead'
    <3>1. cpc' # "stopped"
      BY <1>4 DEF GetMessageStateEvent
    <3>2. ASSUME st = ST_TERM PROVE blind
      <4>1. CASE msg'.type = MSG_TYPE_GLOW_LED
        <5>1. msg'.state = ST_TERM
          BY <2>7, <3>2, <4>1
        <5>2. msg'.origin = NoOrigin
          BY <2>4, <5>1 DEF Received, CoreBound, ST_TERM, ST_INIT, ST_SEND_TO_DEVICE
        <5>3. msg' # ZeroMsg
          BY <5>1 DEF ZeroMsg, ST_TERM
        <5> QED  BY <2>4, <5>2, <5>3 DEF Received
      <4>2. CASE msg'.type # MSG_TYPE_GLOW_LED
        BY <2>9, <3>2, <4>2 DEF FlowInv, CoreStopsOnlyAfterBlindRead
      <4> QED  BY <4>1, <4>2
    <3> QED  BY <3>1, <3>2, <2>2, <2>8 DEF CoreStopsOnlyAfterBlindRead, ST_TERM
  <2>12. AckCausality'
    BY <1>1, <1>4, NoWriteCausality DEF FlowInv
  <2> QED  BY <1>2, <2>1, <2>5, <2>10, <2>11, <2>12 DEF FlowInv
<1>5. CASE HandlerWrite /\ NoteWrite(Head(pend).key, Head(pend).msg)
  <2>1. pend \in Seq(PendingWrite) /\ pend # << >>
    BY <1>5 DEF HandlerWrite, TypeOK, CoreTypeOK, PendingWrite
  <2>2. Head(pend) \in PendingWrite
    BY <2>1, HeadTailProperties
  <2>3. Head(pend).key \in Keys /\ Head(pend).msg \in MsgBuff
    BY <2>2 DEF PendingWrite
  <2>4. UNCHANGED <<sent, seen, blind, msg>>
    BY <1>5 DEF Core, HandlerWrite
  <2>5. Sound(Head(pend).key, Head(pend).msg, sent', seen', blind')
    <3>1. 1 \in 1..Len(pend) /\ Head(pend) = pend[1]
      BY <2>1, EmptySeq, LenProperties
    <3> QED  BY <2>4, <3>1 DEF FlowInv, PendInv
  <2>6. QueueInv'
    BY <1>1, <1>5, <2>3, <2>5, QueueWriteFlow DEF HandlerWrite, TypeOK, FlowInv
  <2>7. PendInv'
    <3>1. pend' = Tail(pend)
      BY <1>5 DEF HandlerWrite
    <3> SUFFICES ASSUME NEW i \in 1..Len(Tail(pend))
                 PROVE  Sound(Tail(pend)[i].key, Tail(pend)[i].msg, sent, seen, blind)
      BY <2>4, <3>1 DEF PendInv
    <3>2. i + 1 \in 1..Len(pend) /\ Tail(pend)[i] = pend[i + 1]
      BY <2>1, HeadTailProperties, LenProperties
    <3> QED  BY <3>2 DEF FlowInv, PendInv
  <2>8. MsgInv'
    BY <2>4 DEF FlowInv, MsgInv
  <2>9. CoreStopsOnlyAfterBlindRead'
    <3>1. (state' = 0 /\ cpc' = "read") \/ UNCHANGED <<state, cpc>>
      BY <1>5 DEF HandlerWrite
    <3> QED  BY <3>1, <2>4 DEF FlowInv, CoreStopsOnlyAfterBlindRead, ST_TERM
  <2>10. AckCausality'
    BY <1>1, <1>5, <2>3, <2>5, NoteWriteCausality DEF TypeOK, FlowInv
  <2> QED  BY <1>2, <2>6, <2>7, <2>8, <2>9, <2>10 DEF FlowInv
<1>6. CASE CoreStop /\ UNCHANGED <<acked, dropped>>
  <2>1. UNCHANGED <<queues, sent, seen, blind, state, msg, pend>>
    BY <1>6 DEF CoreStop, qvars, Core
  <2>2. QueueInv' /\ PendInv' /\ MsgInv' /\ AckCausality'
    BY <1>6, <2>1 DEF FlowInv, QueueInv, PendInv, MsgInv, AckCausality
  <2>3. CoreStopsOnlyAfterBlindRead'
    BY <1>6, <2>1 DEF CoreStop, FlowInv, CoreStopsOnlyAfterBlindRead
  <2> QED  BY <1>2, <2>2, <2>3 DEF FlowInv
<1> QED  BY <1>3, <1>4, <1>5, <1>6 DEF Core

(* The device wrapper keeps FlowInv: what it sends for a request it has read
   from QUEUE_DEVICE, and anything else it sends follows a failed read. *)
LEMMA DeviceStepFlow ==
  ASSUME TypeOK, FlowInv, Device
  PROVE  FlowInv'
<1>1. CASE DeviceRead /\ blind' = (blind \/ ReadFails(QUEUE_DEVICE))
           /\ seen' = (IF MsgrcvOk(QUEUE_DEVICE)
                       THEN seen \cup {Head(queues[QUEUE_DEVICE]).origin} ELSE seen)
           /\ UNCHANGED <<acked, dropped>>
  <2>1. Grow /\ UNCHANGED coreVars /\ UNCHANGED sent
    BY <1>1 DEF Device, Grow
  <2>2. QueueInv'
    BY <1>1, <2>1, QueueReadFlow, KeysAreKeys DEF DeviceRead, TypeOK, FlowInv
  <2>3. PendInv' /\ MsgInv' /\ CoreStopsOnlyAfterBlindRead'
    BY <2>1, CoreUnchangedFlow
  <2>4. AckCausality'
    BY <1>1, <2>1, NoWriteCausality DEF FlowInv
  <2>5. DevInv'
    <3> DEFINE b == ReadInto(QUEUE_DEVICE, dmsg)
    <3>1. dmsg' = [b EXCEPT !.type = MSG_TYPE_GLOW_LED, !.text = "device_ack"]
      BY <1>1 DEF DeviceRead
    <3>2. b \in MsgBuff
      BY ReadIntoType, KeysAreKeys DEF TypeOK, DevTypeOK
    <3>3. /\ b.origin # NoOrigin =>
               /\ b.origin \in sent /\ b.origin \in seen'
               /\ b.state = ST_SEND_TO_DEVICE /\ b.event = EV_SEND_TO_DEVICE
          /\ b.origin = NoOrigin => blind'
      <4>1. CASE MsgrcvOk(QUEUE_DEVICE)
        <5>1. b = Head(queues[QUEUE_DEVICE])
          BY <4>1 DEF ReadInto
        <5>2. Sound(QUEUE_DEVICE, b, sent, seen, blind)
          BY <4>1, <5>1, HeadSound, KeysAreKeys DEF TypeOK, FlowInv
        <5>3. b.origin \in seen'
          BY <1>1, <4>1, <5>1
        <5> HIDE DEF b
        <5> QED  BY <1>1, <5>2, <5>3 DEF Sound
      <4>2. CASE ~MsgrcvOk(QUEUE_DEVICE)
        <5>1. b = dmsg
          BY <4>2 DEF ReadInto
        <5>2. ReadFails(QUEUE_DEVICE)
          BY <1>1, <4>2 DEF DeviceRead, message_queue_read
        <5>3. blind'
          BY <1>1, <5>2
        <5> HIDE DEF b
        <5> QED  BY <2>1, <5>1, <5>3 DEF FlowInv, DevInv, Grow
      <4> QED  BY <4>1, <4>2
    <3> HIDE DEF b
    <3>4. /\ dmsg'.type = MSG_TYPE_GLOW_LED /\ dmsg'.origin = b.origin
          /\ dmsg'.state = b.state /\ dmsg'.event = b.event
      BY <3>1, <3>2 DEF MsgBuff
    <3> QED  BY <2>1, <3>3, <3>4 DEF DevInv
  <2> QED  BY <2>2, <2>3, <2>4, <2>5 DEF FlowInv
<1>2. CASE DeviceWrite /\ NoteWrite(QUEUE_CORE, dmsg) /\ UNCHANGED <<seen, blind>>
  <2>1. Grow /\ UNCHANGED coreVars /\ UNCHANGED <<sent, seen, blind>>
    BY <1>2 DEF Device, Grow
  <2>2. dmsg \in MsgBuff
    BY DEF TypeOK, DevTypeOK
  <2>3. Sound(QUEUE_CORE, dmsg, sent', seen', blind')
    BY <1>2, <2>1 DEF DeviceWrite, FlowInv, DevInv, Sound, CoreBound,
       QUEUE_CORE, QUEUE_APPLICATION, QUEUE_DEVICE
  <2>4. QueueInv'
    BY <1>2, <2>1, <2>2, <2>3, QueueWriteFlow, KeysAreKeys DEF DeviceWrite, TypeOK, FlowInv
  <2>5. PendInv' /\ MsgInv' /\ CoreStopsOnlyAfterBlindRead'
    BY <2>1, CoreUnchangedFlow
  <2>6. AckCausality'
    BY <1>2, <2>1, <2>2, <2>3, NoteWriteCausality, KeysAreKeys DEF TypeOK, FlowInv
  <2>7. DevInv'
    BY <1>2, <2>1 DEF DeviceWrite, FlowInv, DevInv
  <2> QED  BY <2>4, <2>5, <2>6, <2>7 DEF FlowInv
<1> QED  BY <1>1, <1>2 DEF Device

(* A call keeps FlowInv: its request is recorded as sent when it is queued. *)
LEMMA UserStepFlow ==
  ASSUME TypeOK, FlowInv, NEW a \in Apps, User(a)
  PROVE  FlowInv'
<1>1. PICK ev \in RequestEvents, t \in Texts \ {"app_ack"}, pc \in {"menu", "wait"} :
         SendRequest(a, Request(a, ev, t), pc)
  BY CallsSendRequests DEF User
<1> DEFINE m == Request(a, ev, t)
<1>2. m \in MsgBuff /\ m.origin \in Requests
  BY RequestType DEF TypeOK
<1>3. /\ m.type = MSG_TYPE_GLOW_LED /\ m.state = ST_INIT
      /\ m.event = m.origin.event /\ m.text # "app_ack"
  BY DEF Request
<1> HIDE DEF m
<1>4. SendRequest(a, m, pc)
  BY <1>1 DEF m
<1>5. buf'[a] = m /\ call'[a] = m.origin
  BY <1>4 DEF SendRequest, TypeOK, AppTypeOK
<1>6. Grow /\ UNCHANGED coreVars /\ UNCHANGED devVars
  BY DEF User, Grow
<1>7. MsgsndOk(QUEUE_CORE, m) => Sound(QUEUE_CORE, m, sent', seen', blind')
  <2>1. m.origin # NoOrigin
    BY <1>2, StackAssumption
  <2>2. MsgsndOk(QUEUE_CORE, m) => m.origin \in sent'
    BY <1>5 DEF User
  <2> QED  BY <1>3, <2>1, <2>2 DEF Sound, CoreBound, QUEUE_CORE, QUEUE_APPLICATION,
                                  QUEUE_DEVICE
<1>8. QueueInv'
  BY <1>2, <1>4, <1>6, <1>7, QueueWriteFlow, KeysAreKeys DEF SendRequest, TypeOK, FlowInv
<1>9. NoteWrite(QUEUE_CORE, m)
  BY <1>5 DEF User
<1>10. AckCausality'
  BY <1>2, <1>6, <1>7, <1>9, NoteWriteCausality, KeysAreKeys DEF TypeOK, FlowInv
<1>11. PendInv' /\ MsgInv' /\ CoreStopsOnlyAfterBlindRead' /\ DevInv'
  BY <1>6, CoreUnchangedFlow, DevUnchangedFlow
<1> QED  BY <1>8, <1>10, <1>11 DEF FlowInv

(* So does the read that ends a call. *)
LEMMA CallReturnsFlow ==
  ASSUME TypeOK, FlowInv, NEW a \in Apps, CallReturns(a)
  PROVE  FlowInv'
<1>1. Grow /\ UNCHANGED coreVars /\ UNCHANGED devVars /\ UNCHANGED acked
  BY DEF CallReturns, auxVars, Grow
<1>2. QueueInv'
  BY <1>1, QueueReadFlow, KeysAreKeys DEF CallReturns, ReadAck, TypeOK, FlowInv
<1>3. AckCausality'
  BY <1>1, NoWriteCausality DEF FlowInv
<1>4. PendInv' /\ MsgInv' /\ CoreStopsOnlyAfterBlindRead' /\ DevInv'
  BY <1>1, CoreUnchangedFlow, DevUnchangedFlow
<1> QED  BY <1>2, <1>3, <1>4 DEF FlowInv

(* And the death of a process: it forgets, and forgetting breaks nothing. *)
LEMMA RestartFlow ==
  ASSUME TypeOK, FlowInv, Restart
  PROVE  FlowInv'
<1>1. Grow /\ UNCHANGED <<sent, seen, blind, acked>>
  BY DEF Restart, Grow
<1>2. QueueInv'
  BY <1>1 DEF Restart, CoreRestart, DeviceRestart, AppRestart, qvars, FlowInv, QueueInv
<1>3. AckCausality'
  BY <1>1, NoWriteCausality DEF FlowInv
<1>4. CASE CoreRestart /\ UNCHANGED <<appVars, devVars>>
  <2>1. pend' = << >> /\ msg' = ZeroMsg /\ cpc' = "init_core" /\ state' = ST_INIT
    BY <1>4 DEF CoreRestart
  <2>2. PendInv' /\ MsgInv'
    BY <2>1 DEF PendInv, MsgInv, Received, ZeroMsg
  <2>3. CoreStopsOnlyAfterBlindRead'
    BY <2>1 DEF CoreStopsOnlyAfterBlindRead, ST_INIT, ST_TERM
  <2>4. DevInv'
    BY <1>1, <1>4, DevUnchangedFlow
  <2> QED  BY <1>2, <1>3, <2>2, <2>3, <2>4 DEF FlowInv
<1>5. CASE DeviceRestart /\ UNCHANGED <<coreVars, appVars>>
  <2>1. DevInv'
    BY <1>5, GarbageAssumption DEF DeviceRestart, DevInv
  <2> QED  BY <1>1, <1>2, <1>3, <1>5, <2>1, CoreUnchangedFlow DEF FlowInv
<1>6. CASE \E a \in Apps : AppRestart(a) /\ UNCHANGED <<coreVars, devVars>>
  BY <1>1, <1>2, <1>3, <1>6, CoreUnchangedFlow, DevUnchangedFlow DEF FlowInv
<1> QED  BY <1>4, <1>5, <1>6 DEF Restart

-----------------------------------------------------------------------------
(* The inductive invariant of the stack. *)
THEOREM FlowCorrect == Spec => []FlowInv
<1>1. Init => FlowInv
  <2> SUFFICES ASSUME Init PROVE FlowInv
    OBVIOUS
  <2>1. QueueInv
    BY DEF Init, QueueInv
  <2>2. PendInv /\ MsgInv /\ CoreStopsOnlyAfterBlindRead
    BY DEF Init, CoreInit, PendInv, MsgInv, Received, ZeroMsg,
           CoreStopsOnlyAfterBlindRead, ST_INIT, ST_TERM
  <2>3. DevInv
    BY GarbageAssumption DEF Init, DevInit, DevInv
  <2>4. AckCausality
    BY DEF Init, AckCausality
  <2> QED  BY <2>1, <2>2, <2>3, <2>4 DEF FlowInv
<1>2. TypeOK /\ FlowInv /\ [Next]_vars => FlowInv'
  <2> SUFFICES ASSUME TypeOK, FlowInv, [Next]_vars PROVE FlowInv'
    OBVIOUS
  <2>1. CASE Core
    BY <2>1, CoreStepFlow
  <2>2. CASE Device
    BY <2>2, DeviceStepFlow
  <2>3. CASE \E a \in Apps : User(a) \/ CallReturns(a)
    BY <2>3, UserStepFlow, CallReturnsFlow
  <2>4. CASE Restart
    BY <2>4, RestartFlow
  <2>5. CASE UNCHANGED vars
    BY <2>5 DEF vars, qvars, coreVars, devVars, auxVars, FlowInv, QueueInv, PendInv,
                MsgInv, DevInv, CoreStopsOnlyAfterBlindRead, AckCausality
  <2> QED  BY <2>1, <2>2, <2>3, <2>4, <2>5 DEF Next
<1> QED  BY <1>1, <1>2, TypeCorrect, PTL DEF Spec

(* Every message in a queue is one its reader acts on, and fits the struct it
   is read into although message_queue_read allows a byte more. *)
THEOREM ChannelContractHolds == Spec => []ChannelContract
<1>1. TypeOK /\ FlowInv => ChannelContract
  <2> SUFFICES ASSUME TypeOK, FlowInv, NEW k \in Keys, NEW i \in 1..Len(queues[k])
               PROVE  Understood(k, queues[k][i])
    BY DEF ChannelContract
  <2> DEFINE m == queues[k][i]
  <2>1. m \in MsgBuff
    BY ElementOfSeq DEF TypeOK, QueueTypeOK
  <2>2. m.session >= 1 /\ Sound(k, m, sent, seen, blind)
    BY DEF FlowInv, QueueInv
  <2> HIDE DEF m
  <2>3. MsgSize(m) <= StructSize
    BY <2>1, MsgSizeBounds
  <2>4. ASSUME k = QUEUE_CORE, m.origin # NoOrigin
        PROVE  m.type = MSG_TYPE_GLOW_LED /\ HasTransition(m.state, m.event)
    <3>1. CoreBound(m, seen)
      BY <2>2, <2>4 DEF Sound
    <3>2. m.origin \in Requests
      BY <2>1, <2>4 DEF MsgBuff, Origins
    <3>3. m.origin.event \in RequestEvents
      BY <3>2 DEF Requests
    <3> QED  BY <3>1, <3>3, TableKeys DEF CoreBound
  <2>5. Understood(k, m)
    BY <2>2, <2>3, <2>4 DEF Understood, Sound
  <2> QED  BY <2>5 DEF m
<1> QED  BY <1>1, TypeCorrect, FlowCorrect, PTL

(* The core's "infinite" loop ends only after the device wrapper has gone on
   from a failed read with an uninitialised buffer. *)
THEOREM CoreStopsOnlyAfterBlindReadHolds == Spec => []CoreStopsOnlyAfterBlindRead
<1>1. FlowInv => CoreStopsOnlyAfterBlindRead
  BY DEF FlowInv
<1> QED  BY <1>1, FlowCorrect, PTL

(* Acknowledgements follow their causes: the request was sent, and for one
   that goes to the device, Send_ack runs only after the device has read it. *)
THEOREM AckCausalityHolds == Spec => []AckCausality
<1>1. FlowInv => AckCausality
  BY DEF FlowInv
<1> QED  BY <1>1, FlowCorrect, PTL

-----------------------------------------------------------------------------
(***************************************************************************)
(* Acknowledgements.                                                       *)
(*                                                                         *)
(* The acknowledgements a request is still owed are implied by messages in *)
(* four places: QUEUE_CORE, QUEUE_DEVICE, the writes a handler has still   *)
(* to make and the device wrapper's buffer.  AckInv says that no two of    *)
(* those messages owe the same acknowledgement and none owes one that was  *)
(* already made.                                                           *)
(*                                                                         *)
(* AckConservation and WaitersCovered are about numbers of messages.       *)
(* Conserved says the same of the acknowledgements themselves, as sets:    *)
(* what a request has had and what it is still owed is what AckService     *)
(* promises it.  Since no two messages owe the same acknowledgement,       *)
(* counting the messages counts those.                                     *)
(***************************************************************************)
Holders == {"core", "device", "pend", "wrapper"}

(* The i-th message held at a place will cause the acknowledgement x. *)
Owes(at, i, x) ==
  /\ x[1] # NoOrigin
  /\ \/ /\ at = "core" /\ i \in 1..Len(queues[QUEUE_CORE])
        /\ x \in AcksFromCore(queues[QUEUE_CORE][i])
     \/ /\ at = "device" /\ i \in 1..Len(queues[QUEUE_DEVICE])
        /\ x = <<queues[QUEUE_DEVICE][i].origin, "app_ack">>
     \/ at = "pend" /\ i \in 1..Len(pend) /\ x \in AcksFromWrite(pend[i])
     \/ at = "wrapper" /\ i = 1 /\ dpc = "write" /\ x = <<dmsg.origin, "app_ack">>

(* No two messages under way owe the same acknowledgement. *)
OwedOnce ==
  \A at, at2 \in Holders : \A i, i2 \in Nat : \A x :
     Owes(at, i, x) /\ Owes(at2, i2, x) => at = at2 /\ i = i2

(* What is owed has not been acknowledged yet. *)
OwedNotAcked ==
  \A at \in Holders : \A i \in Nat : \A x :
     Owes(at, i, x) => x \notin acked

(* The requests of an application are numbered. *)
Numbered == \A o \in sent : o.n <= nreq[o.app]

(* A process that still has a message of a request in its buffer got it from
   its queue, which exists: its next read does not fail and leave the message
   to be handled again. *)
NoStaleBuffer ==
  /\ msg.origin # NoOrigin => QUEUE_CORE \in ids
  /\ dmsg.origin # NoOrigin => QUEUE_DEVICE \in ids

(* The core writes to its own queue only what is to come back from the device,
   so such a message owes no acknowledgement by Init_led any more. *)
ReturnsOnly ==
  \A i \in 1..Len(pend) : pend[i].key = QUEUE_CORE => pend[i].msg.event = EV_SEND_TO_DEVICE

AckInv == OwedOnce /\ OwedNotAcked /\ Numbered /\ NoStaleBuffer /\ ReturnsOnly

-----------------------------------------------------------------------------
(* What message_queue_read does to the queues, by position. *)
LEMMA ReadShape ==
  ASSUME QueueTypeOK, NEW k \in Keys, message_queue_read(k)
  PROVE  /\ \A l \in Keys : l # k => queues'[l] = queues[l]
         /\ ids' = ids
         /\ MsgrcvOk(k) =>
              /\ Head(queues[k]) = queues[k][1] /\ 1 \in 1..Len(queues[k])
              /\ Len(queues'[k]) = Len(queues[k]) - 1
              /\ \A i \in 1..Len(queues'[k]) :
                   i + 1 \in 1..Len(queues[k]) /\ queues'[k][i] = queues[k][i + 1]
         /\ ~MsgrcvOk(k) => queues' = queues /\ k \notin ids
<1>1. queues \in [Keys -> Seq(MsgBuff)]
  BY DEF QueueTypeOK
<1>2. CASE MsgrcvOk(k) /\ queues' = [queues EXCEPT ![k] = Tail(@)] /\ UNCHANGED ids
  <2>1. queues[k] \in Seq(MsgBuff) /\ queues[k] # << >>
    BY <1>1, <1>2 DEF MsgrcvOk
  <2>2. queues'[k] = Tail(queues[k])
    BY <1>1, <1>2
  <2>3. Len(queues[k]) \in Nat \ {0} /\ Head(queues[k]) = queues[k][1]
    BY <2>1, EmptySeq, LenProperties
  <2>4. /\ Len(Tail(queues[k])) = Len(queues[k]) - 1
        /\ \A i \in 1..Len(Tail(queues[k])) : Tail(queues[k])[i] = queues[k][i + 1]
    BY <2>1, HeadTailProperties
  <2> QED  BY <1>1, <1>2, <2>2, <2>3, <2>4
<1>3. CASE ReadFails(k) /\ UNCHANGED qvars
  <2>2. k \notin ids
    <3>1. ASSUME queues[k] # << >> PROVE ~(MsgSize(Head(queues[k])) > ReadLimit)
      <4> DEFINE n == MsgSize(Head(queues[k]))
      <4>1. n \in 13..68
        BY <1>1, <3>1, HeadTailProperties, MsgSizeBounds
      <4> HIDE DEF n
      <4>2. ~(n > ReadLimit)
        BY <4>1 DEF ReadLimit
      <4> QED  BY <4>2 DEF n
    <3> QED  BY <1>3, <3>1 DEF ReadFails
  <2>3. ~MsgrcvOk(k)
    BY <2>2 DEF MsgrcvOk
  <2> QED  BY <1>3, <2>2, <2>3 DEF qvars
<1> QED  BY <1>2, <1>3 DEF message_queue_read

(* What message_queue_write does to the queues, by position. *)
LEMMA WriteShape ==
  ASSUME QueueTypeOK, NEW k \in Keys, NEW m \in MsgBuff, message_queue_write(k, m)
  PROVE  /\ \A l \in Keys : l # k => queues'[l] = queues[l]
         /\ ids' = ids
         /\ Len(queues[k]) \in Nat
         /\ MsgsndOk(k, m) =>
              /\ Len(queues'[k]) = Len(queues[k]) + 1
              /\ \A i \in 1..Len(queues[k]) : queues'[k][i] = queues[k][i]
              /\ queues'[k][Len(queues[k]) + 1] = m
         /\ ~MsgsndOk(k, m) => queues' = queues
<1>1. queues \in [Keys -> Seq(MsgBuff)] /\ queues[k] \in Seq(MsgBuff)
  BY DEF QueueTypeOK
<1>2. CASE MsgsndOk(k, m) /\ queues' = [queues EXCEPT ![k] = Append(@, m)] /\ UNCHANGED ids
  <2>1. queues'[k] = Append(queues[k], m)
    BY <1>1, <1>2
  <2>2. /\ Len(Append(queues[k], m)) = Len(queues[k]) + 1
        /\ \A i \in 1..Len(queues[k]) : Append(queues[k], m)[i] = queues[k][i]
        /\ Append(queues[k], m)[Len(queues[k]) + 1] = m
    BY <1>1, AppendProperties
  <2> QED  BY <1>1, <1>2, <2>1, <2>2, LenProperties
<1>3. CASE ~MsgsndOk(k, m) /\ UNCHANGED qvars
  BY <1>1, <1>3, LenProperties DEF qvars
<1> QED  BY <1>2, <1>3 DEF message_queue_write

(* OwedAcks is what the messages held somewhere owe. *)
LEMMA OwedAcksByPlace ==
  \A x : x \in OwedAcks <=> \E at \in Holders : \E i \in Nat : Owes(at, i, x)
<1> SUFFICES ASSUME NEW x
             PROVE  x \in OwedAcks <=> \E at \in Holders : \E i \in Nat : Owes(at, i, x)
  OBVIOUS
<1> USE DEF Holders
<1>1. x \in OwedAcks <=>
        /\ x[1] # NoOrigin
        /\ x \in OwedByCore \/ x \in OwedByDevice \/ x \in OwedByHandler \/ x \in OwedByWrapper
  BY DEF OwedAcks
<1>2. x[1] # NoOrigin /\ x \in OwedByCore <=> \E i \in Nat : Owes("core", i, x)
  BY DEF Owes, OwedByCore, Messages
<1>3. x[1] # NoOrigin /\ x \in OwedByDevice <=> \E i \in Nat : Owes("device", i, x)
  BY DEF Owes, OwedByDevice, Messages
<1>4. x[1] # NoOrigin /\ x \in OwedByHandler <=> \E i \in Nat : Owes("pend", i, x)
  BY DEF Owes, OwedByHandler
<1>5. x[1] # NoOrigin /\ x \in OwedByWrapper <=> Owes("wrapper", 1, x)
  BY DEF Owes, OwedByWrapper
<1>6. \A i \in Nat : Owes("wrapper", i, x) => i = 1
  BY DEF Owes
<1> QED  BY <1>1, <1>2, <1>3, <1>4, <1>5, <1>6

(* The same after a step. *)
LEMMA OwedAcksByPlaceNext ==
  \A x : x \in OwedAcks' <=> \E at \in Holders : \E i \in Nat : Owes(at, i, x)'
<1>1. (\A x : x \in OwedAcks <=> \E at \in Holders : \E i \in Nat : Owes(at, i, x))'
  BY OwedAcksByPlace, PTL
<1> QED  BY <1>1

(* What a handler's write will cause, for a request's message. *)
LEMMA AcksOfWrite ==
  ASSUME NEW m \in MsgBuff, NEW k, NEW st, NEW ev
  PROVE  AcksFromWrite(Write(k, m, st, ev)) =
           {<<m.origin, IF k = QUEUE_APPLICATION THEN m.text ELSE "app_ack">>}
BY WriteFields DEF AcksFromWrite

(* The writes of a handler cause the acknowledgements its message owed, each of
   them once; those for nobody's message cause nobody's. *)
LEMMA DispatchAcks ==
  ASSUME NEW m \in MsgBuff, NEW se, NEW st, NEW ev,
         m.origin # NoOrigin => CoreBound(m, se) /\ st = m.state /\ ev = m.event
  PROVE  LET d == Dispatch(st, ev, m) IN
         /\ \A i \in 1..Len(d) : \A x \in AcksFromWrite(d[i]) : x[1] = m.origin
         /\ m.origin # NoOrigin =>
              /\ \A i \in 1..Len(d) : AcksFromWrite(d[i]) \subseteq AcksFromCore(m)
              /\ \A x \in AcksFromCore(m) : \E i \in 1..Len(d) : x \in AcksFromWrite(d[i])
              /\ \A i, j \in 1..Len(d) : \A x :
                    x \in AcksFromWrite(d[i]) /\ x \in AcksFromWrite(d[j]) => i = j
<1> DEFINE g == [m EXCEPT !.text = "glow_led"]
           b == [m EXCEPT !.text = "app_ack"]
           o == m.origin
           w1 == Write(QUEUE_CORE, m, ST_SEND_TO_DEVICE, EV_SEND_TO_DEVICE_NO_ACK)
           w2 == Write(QUEUE_APPLICATION, m, ST_SEND_ACK, EV_SEND_TO_APP)
           w3 == Write(QUEUE_DEVICE, m, ST_SEND_TO_DEVICE, EV_SEND_TO_DEVICE_NO_ACK)
           w4 == Write(QUEUE_DEVICE, g, ST_SEND_TO_DEVICE, EV_SEND_TO_DEVICE)
           w5 == Write(QUEUE_APPLICATION, b, ST_SEND_ACK, EV_SEND_TO_APP)
           d == Dispatch(st, ev, m)
           ack == <<o, "app_ack">>
<1>1. /\ g \in MsgBuff /\ g.origin = o
      /\ b \in MsgBuff /\ b.origin = o /\ b.text = "app_ack"
  BY DEF MsgBuff, Texts
<1> HIDE DEF g, b
<1>2. /\ AcksFromWrite(w1) = {ack} /\ AcksFromWrite(w3) = {ack}
      /\ AcksFromWrite(w2) = {<<o, m.text>>}
      /\ AcksFromWrite(w4) = {ack} /\ AcksFromWrite(w5) = {ack}
  BY <1>1, AcksOfWrite DEF QUEUE_CORE, QUEUE_APPLICATION, QUEUE_DEVICE
<1>3. \/ d = << >> /\ o = NoOrigin
      \/ d = << w1 >> /\ (o # NoOrigin => m.event # EV_SEND_TO_CORE)
      \/ d = << w2, w3 >> /\ m.event = EV_SEND_TO_CORE
           /\ (o # NoOrigin => m.text # "app_ack")
      \/ d = << w4 >> /\ (o # NoOrigin => m.event # EV_SEND_TO_CORE)
      \/ d = << w5 >> /\ (o # NoOrigin => m.event # EV_SEND_TO_CORE)
  <2>1. /\ HasTransition(st, ev) <=>
             \/ st = ST_INIT /\ ev \in RequestEvents
             \/ st = ST_SEND_TO_DEVICE /\ ev = EV_SEND_TO_DEVICE
        /\ ~HasTransition(st, ev) => d = << >>
        /\ st = ST_INIT /\ ev \in RequestEvents => d = Init_led(m)
        /\ st = ST_SEND_TO_DEVICE /\ ev = EV_SEND_TO_DEVICE => d = Send_ack(m)
    BY TableKeys, DispatchCases
  <2>2. o # NoOrigin => m.origin.event \in RequestEvents
    BY DEF MsgBuff, Origins, Requests
  <2>3. Send_ack(m) = << w5 >>
    BY DEF Send_ack, EV_SEND_TO_DEVICE, b
  <2>4. /\ m.event = EV_SEND_TO_CORE_NO_ACK => Init_led(m) = << w1 >>
        /\ m.event = EV_SEND_TO_CORE => Init_led(m) = << w2, w3 >>
        /\ m.event = EV_SEND_TO_CORE_DEV_ACK => Init_led(m) = << w4 >>
        /\ m.event \notin RequestEvents => Init_led(m) = << >>
    BY DEF Init_led, RequestEvents, EV_SEND_TO_CORE_NO_ACK, EV_SEND_TO_CORE,
           EV_SEND_TO_CORE_DEV_ACK, g
  <2> HIDE DEF d, w1, w2, w3, w4, w5
  <2>5. CASE o # NoOrigin
    <3>1. CASE m.state = ST_INIT /\ m.event = o.event /\ m.text # "app_ack"
      BY <2>1, <2>2, <2>4, <2>5, <3>1 DEF RequestEvents, EV_SEND_TO_CORE_NO_ACK,
         EV_SEND_TO_CORE, EV_SEND_TO_CORE_DEV_ACK
    <3>2. CASE m.state = ST_SEND_TO_DEVICE /\ m.event = EV_SEND_TO_DEVICE
      BY <2>1, <2>3, <2>5, <3>2 DEF EV_SEND_TO_DEVICE, EV_SEND_TO_CORE
    <3> QED  BY <2>5, <3>1, <3>2 DEF CoreBound
  <2>6. CASE o = NoOrigin
    BY <2>1, <2>3, <2>4, <2>6 DEF RequestEvents
  <2> QED  BY <2>5, <2>6
<1>4. AcksFromCore(m) = {ack} \cup (IF m.event = EV_SEND_TO_CORE THEN {<<o, m.text>>} ELSE {})
  BY DEF AcksFromCore
<1> HIDE DEF d, w1, w2, w3, w4, w5
<1>5. ASSUME NEW w, d = << w >>, AcksFromWrite(w) = {ack},
             o # NoOrigin => m.event # EV_SEND_TO_CORE
      PROVE  /\ \A i \in 1..Len(d) : \A x \in AcksFromWrite(d[i]) : x[1] = o
             /\ o # NoOrigin =>
                  /\ \A i \in 1..Len(d) : AcksFromWrite(d[i]) \subseteq AcksFromCore(m)
                  /\ \A x \in AcksFromCore(m) : \E i \in 1..Len(d) : x \in AcksFromWrite(d[i])
                  /\ \A i, j \in 1..Len(d) : \A x :
                        x \in AcksFromWrite(d[i]) /\ x \in AcksFromWrite(d[j]) => i = j
  <2>1. Len(d) = 1 /\ d[1] = w
    BY <1>5
  <2>2. \A i \in 1..Len(d) : i = 1
    BY <2>1
  <2> QED  BY <1>4, <1>5, <2>1, <2>2
<1>6. ASSUME d = << w2, w3 >>, m.event = EV_SEND_TO_CORE, o # NoOrigin => m.text # "app_ack"
      PROVE  /\ \A i \in 1..Len(d) : \A x \in AcksFromWrite(d[i]) : x[1] = o
             /\ o # NoOrigin =>
                  /\ \A i \in 1..Len(d) : AcksFromWrite(d[i]) \subseteq AcksFromCore(m)
                  /\ \A x \in AcksFromCore(m) : \E i \in 1..Len(d) : x \in AcksFromWrite(d[i])
                  /\ \A i, j \in 1..Len(d) : \A x :
                        x \in AcksFromWrite(d[i]) /\ x \in AcksFromWrite(d[j]) => i = j
  <2>1. Len(d) = 2 /\ d[1] = w2 /\ d[2] = w3
    BY <1>6
  <2>2. \A i \in 1..Len(d) : i = 1 \/ i = 2
    BY <2>1
  <2>3. ack # <<o, m.text>> \/ o = NoOrigin
    BY <1>6
  <2> QED  BY <1>2, <1>4, <1>6, <2>1, <2>2, <2>3
<1>7. CASE d = << >> /\ o = NoOrigin
  BY <1>7 DEF d
<1>8. CASE d # << >> \/ o # NoOrigin
  BY <1>2, <1>3, <1>5, <1>6, <1>8 DEF d
<1> QED  BY <1>7, <1>8

(* A handler's write to QUEUE_CORE has the event of a message on its way back. *)
LEMMA DispatchReturns ==
  ASSUME NEW m \in MsgBuff, NEW st, NEW ev
  PROVE  LET d == Dispatch(st, ev, m) IN
         \A i \in 1..Len(d) : d[i].key = QUEUE_CORE => d[i].msg.event = EV_SEND_TO_DEVICE
<1> DEFINE g == [m EXCEPT !.text = "glow_led"]
           b == [m EXCEPT !.text = "app_ack"]
           w1 == Write(QUEUE_CORE, m, ST_SEND_TO_DEVICE, EV_SEND_TO_DEVICE_NO_ACK)
           w2 == Write(QUEUE_APPLICATION, m, ST_SEND_ACK, EV_SEND_TO_APP)
           w3 == Write(QUEUE_DEVICE, m, ST_SEND_TO_DEVICE, EV_SEND_TO_DEVICE_NO_ACK)
           w4 == Write(QUEUE_DEVICE, g, ST_SEND_TO_DEVICE, EV_SEND_TO_DEVICE)
           w5 == Write(QUEUE_APPLICATION, b, ST_SEND_ACK, EV_SEND_TO_APP)
           d == Dispatch(st, ev, m)
<1>1. g \in MsgBuff /\ b \in MsgBuff
  BY DEF MsgBuff, Texts
<1>2. /\ w1.msg.event = EV_SEND_TO_DEVICE
      /\ w2.key # QUEUE_CORE /\ w3.key # QUEUE_CORE /\ w4.key # QUEUE_CORE /\ w5.key # QUEUE_CORE
  BY <1>1, WriteFields DEF EV_SEND_TO_DEVICE, EV_SEND_TO_DEVICE_NO_ACK, QUEUE_CORE,
     QUEUE_APPLICATION, QUEUE_DEVICE
<1>3. d = << >> \/ d = Init_led(m) \/ d = Send_ack(m)
  BY DEF Dispatch
<1>4. Init_led(m) \in {<< >>, << w1 >>, << w2, w3 >>, << w4 >>}
  BY DEF Init_led
<1>5. Send_ack(m) \in {<< >>, << w5 >>}
  BY DEF Send_ack
<1> HIDE DEF d, w1, w2, w3, w4, w5
<1>6. ASSUME NEW i \in 1..Len(d), d[i].key = QUEUE_CORE
      PROVE  d[i].msg.event = EV_SEND_TO_DEVICE
  <2>1. CASE d = << >>
    BY <1>6, <2>1
  <2>2. ASSUME NEW w, d = << w >> PROVE d[i] = w
    BY <2>2
  <2>3. CASE d = << w2, w3 >>
    BY <1>2, <1>6, <2>3
  <2> QED  BY <1>2, <1>3, <1>4, <1>5, <1>6, <2>1, <2>2, <2>3
<1> QED  BY <1>6 DEF d

(* A message under way is of a request that was sent. *)
LEMMA OwesSent ==
  ASSUME TypeOK, FlowInv, NEW at, NEW i, NEW x, Owes(at, i, x)
  PROVE  x[1] \in sent
<1>1. CASE at = "core"
  <2>1. i \in 1..Len(queues[QUEUE_CORE]) /\ x[1] = queues[QUEUE_CORE][i].origin
    BY <1>1 DEF Owes, AcksFromCore
  <2>2. Sound(QUEUE_CORE, queues[QUEUE_CORE][i], sent, seen, blind)
    BY <2>1, KeysAreKeys DEF FlowInv, QueueInv
  <2> QED  BY <2>1, <2>2 DEF Sound, Owes
<1>2. CASE at = "device"
  <2>1. i \in 1..Len(queues[QUEUE_DEVICE]) /\ x[1] = queues[QUEUE_DEVICE][i].origin
    BY <1>2 DEF Owes
  <2>2. Sound(QUEUE_DEVICE, queues[QUEUE_DEVICE][i], sent, seen, blind)
    BY <2>1, KeysAreKeys DEF FlowInv, QueueInv
  <2> QED  BY <2>1, <2>2 DEF Sound, Owes
<1>3. CASE at = "pend"
  <2>1. i \in 1..Len(pend) /\ x[1] = pend[i].msg.origin
    BY <1>3 DEF Owes, AcksFromWrite
  <2>2. Sound(pend[i].key, pend[i].msg, sent, seen, blind)
    BY <2>1 DEF FlowInv, PendInv
  <2> QED  BY <2>1, <2>2 DEF Sound, Owes
<1>4. CASE at = "wrapper"
  BY <1>4 DEF Owes, FlowInv, DevInv
<1> QED  BY <1>1, <1>2, <1>3, <1>4 DEF Owes

-----------------------------------------------------------------------------
(* The places a step leaves alone. *)
LEMMA OwesUnchanged ==
  ASSUME NEW i, NEW x
  PROVE  /\ queues'[QUEUE_CORE] = queues[QUEUE_CORE] =>
              (Owes("core", i, x)' <=> Owes("core", i, x))
         /\ queues'[QUEUE_DEVICE] = queues[QUEUE_DEVICE] =>
              (Owes("device", i, x)' <=> Owes("device", i, x))
         /\ pend' = pend => (Owes("pend", i, x)' <=> Owes("pend", i, x))
         /\ UNCHANGED devVars => (Owes("wrapper", i, x)' <=> Owes("wrapper", i, x))
BY DEF Owes, AcksFromCore, AcksFromWrite, devVars

(* Reading QUEUE_CORE: what the message taken from it owed, its handler's
   writes owe now. *)
LEMMA CoreReadAcks ==
  ASSUME TypeOK, FlowInv, AckInv, GetMessageStateEvent, UNCHANGED <<devVars, acked>>
  PROVE  /\ OwedAcks' = OwedAcks
         /\ OwedOnce' /\ OwedNotAcked' /\ ReturnsOnly'
<1> DEFINE st == IF msg'.type = MSG_TYPE_GLOW_LED THEN msg'.state ELSE state
           q == queues[QUEUE_CORE]
<1>1. message_queue_read(QUEUE_CORE) /\ QueueTypeOK /\ QUEUE_CORE # QUEUE_DEVICE
  BY DEF GetMessageStateEvent, TypeOK, QUEUE_CORE, QUEUE_DEVICE
<1>2. queues'[QUEUE_DEVICE] = queues[QUEUE_DEVICE]
  BY <1>1, ReadShape, KeysAreKeys
<1>3. pend = << >>
  BY DEF GetMessageStateEvent, TypeOK, CoreTypeOK
<1>4. msg' \in MsgBuff
  BY ReadIntoType, KeysAreKeys DEF GetMessageStateEvent, TypeOK, CoreTypeOK
<1>5. pend' = Dispatch(st, event', msg')
  BY DEF GetMessageStateEvent
<1>6. MsgrcvOk(QUEUE_CORE) => msg' = q[1]
  BY <1>1, ReadShape, KeysAreKeys DEF GetMessageStateEvent, ReadInto
<1>7. ~MsgrcvOk(QUEUE_CORE) => queues' = queues /\ msg'.origin = NoOrigin
  BY <1>1, ReadShape, KeysAreKeys DEF GetMessageStateEvent, ReadInto, AckInv, NoStaleBuffer
<1>8. msg'.origin # NoOrigin =>
        CoreBound(msg', seen) /\ st = msg'.state /\ event' = msg'.event
  <2>1. ASSUME msg'.origin # NoOrigin PROVE CoreBound(msg', seen)
    <3>1. Sound(QUEUE_CORE, q[1], sent, seen, blind) /\ msg' = q[1]
      BY <1>1, <1>6, <1>7, <2>1, ReadShape, KeysAreKeys DEF FlowInv, QueueInv
    <3> QED  BY <2>1, <3>1 DEF Sound
  <2> QED  BY <2>1 DEF CoreBound, GetMessageStateEvent
<1> HIDE DEF st
<1> DEFINE d == Dispatch(st, event', msg')
<1>9. /\ \A i \in 1..Len(d) : \A x \in AcksFromWrite(d[i]) : x[1] = msg'.origin
      /\ msg'.origin # NoOrigin =>
           /\ \A i \in 1..Len(d) : AcksFromWrite(d[i]) \subseteq AcksFromCore(msg')
           /\ \A x \in AcksFromCore(msg') : \E i \in 1..Len(d) : x \in AcksFromWrite(d[i])
           /\ \A i, j \in 1..Len(d) : \A x :
                 x \in AcksFromWrite(d[i]) /\ x \in AcksFromWrite(d[j]) => i = j
  BY <1>4, <1>8, DispatchAcks
<1> HIDE DEF d
<1>10. pend' = d
  BY <1>5 DEF d
(* Where an acknowledgement owed after the step was owed before. *)
<1>11. ASSUME NEW i \in Nat, NEW x, Owes("pend", i, x)'
       PROVE  /\ Owes("core", 1, x)
              /\ MsgrcvOk(QUEUE_CORE)
              /\ \A j \in Nat : Owes("pend", j, x)' => j = i
  <2>1. i \in 1..Len(d) /\ x \in AcksFromWrite(d[i]) /\ x[1] # NoOrigin
    BY <1>10, <1>11 DEF Owes, AcksFromWrite
  <2>2. msg'.origin # NoOrigin
    BY <1>9, <2>1
  <2>3. x \in AcksFromCore(msg') /\ MsgrcvOk(QUEUE_CORE) /\ msg' = q[1]
    BY <1>6, <1>7, <1>9, <2>1, <2>2
  <2>4. 1 \in 1..Len(q)
    BY <1>1, <2>3, ReadShape, KeysAreKeys
  <2>5. Owes("core", 1, x)
    BY <2>1, <2>3, <2>4 DEF Owes
  <2>6. ASSUME NEW j \in Nat, Owes("pend", j, x)' PROVE j = i
    <3>1. j \in 1..Len(d) /\ x \in AcksFromWrite(d[j])
      BY <1>10, <2>6 DEF Owes, AcksFromWrite
    <3> QED  BY <1>9, <2>1, <2>2, <3>1
  <2> QED  BY <2>3, <2>5, <2>6
<1>12. ASSUME NEW i \in Nat, NEW x, Owes("core", i, x)'
       PROVE  Owes("core", IF MsgrcvOk(QUEUE_CORE) THEN i + 1 ELSE i, x)
  BY <1>1, <1>12, ReadShape, KeysAreKeys DEF Owes, AcksFromCore
<1>13. \A i \in Nat : \A x : /\ Owes("device", i, x)' <=> Owes("device", i, x)
                             /\ Owes("wrapper", i, x)' <=> Owes("wrapper", i, x)
  BY <1>2, OwesUnchanged
<1>14. ASSUME NEW x, NEW i \in Nat, Owes("core", i, x)
       PROVE  \E at \in Holders : \E j \in Nat : Owes(at, j, x)'
  <2>1. CASE ~MsgrcvOk(QUEUE_CORE)
    BY <1>7, <1>14, <2>1, OwesUnchanged DEF Holders
  <2>2. CASE MsgrcvOk(QUEUE_CORE) /\ i = 1
    <3>1. x \in AcksFromCore(msg') /\ x[1] # NoOrigin
      BY <1>6, <1>14, <2>2 DEF Owes
    <3>2. x[1] = msg'.origin
      BY <3>1 DEF AcksFromCore
    <3>3. PICK j \in 1..Len(d) : x \in AcksFromWrite(d[j])
      BY <1>9, <3>1, <3>2
    <3>4. Owes("pend", j, x)'
      BY <1>10, <3>1, <3>3 DEF Owes, AcksFromWrite
    <3>5. j \in Nat
      OBVIOUS
    <3> QED  BY <3>4, <3>5 DEF Holders
  <2>3. CASE MsgrcvOk(QUEUE_CORE) /\ i # 1
    <3>1. /\ i \in 1..Len(q) /\ x \in AcksFromCore(q[i]) /\ x[1] # NoOrigin
      BY <1>14 DEF Owes
    <3>2. i - 1 \in 1..Len(queues'[QUEUE_CORE]) /\ queues'[QUEUE_CORE][i - 1] = q[i]
      BY <1>1, <2>3, <3>1, ReadShape, KeysAreKeys
    <3>3. Owes("core", i - 1, x)'
      BY <3>1, <3>2 DEF Owes, AcksFromCore
    <3>4. i - 1 \in Nat
      BY <3>1, <2>3
    <3> QED  BY <3>3, <3>4 DEF Holders
  <2> QED  BY <2>1, <2>2, <2>3
<1>15. OwedAcks' = OwedAcks
  <2>1. ASSUME NEW x, x \in OwedAcks' PROVE x \in OwedAcks
    <3>1. PICK at \in Holders, i \in Nat : Owes(at, i, x)'
      BY OwedAcksByPlaceNext, <2>1
    <3>2. \E at2 \in Holders : \E i2 \in Nat : Owes(at2, i2, x)
      <4>1. i + 1 \in Nat
        OBVIOUS
      <4> QED  BY <1>11, <1>12, <1>13, <3>1, <4>1 DEF Holders
    <3> QED  BY <3>2, OwedAcksByPlace
  <2>2. ASSUME NEW x, x \in OwedAcks PROVE x \in OwedAcks'
    <3>1. PICK at \in Holders, i \in Nat : Owes(at, i, x)
      BY <2>2, OwedAcksByPlace
    <3>2. at # "pend"
      BY <1>3, <3>1 DEF Owes
    <3>3. \E at2 \in Holders : \E i2 \in Nat : Owes(at2, i2, x)'
      BY <1>13, <1>14, <3>1, <3>2 DEF Holders
    <3> QED  BY OwedAcksByPlaceNext, <3>3
  <2> QED  BY <2>1, <2>2
<1>16. OwedOnce'
  <2> SUFFICES ASSUME NEW at \in Holders, NEW at2 \in Holders, NEW i \in Nat, NEW i2 \in Nat,
                      NEW x, Owes(at, i, x)', Owes(at2, i2, x)'
               PROVE  at = at2 /\ i = i2
    BY DEF OwedOnce
  <2>1. i # 0 /\ i2 # 0
    BY DEF Owes
  <2>2. i + 1 \in Nat /\ i2 + 1 \in Nat /\ 1 \in Nat /\ i + 1 # 1 /\ i2 + 1 # 1
    BY <2>1
  <2> QED  BY <1>11, <1>12, <1>13, <2>2 DEF AckInv, OwedOnce, Holders
<1>17. OwedNotAcked'
  <2> SUFFICES ASSUME NEW at \in Holders, NEW i \in Nat, NEW x, Owes(at, i, x)'
               PROVE  x \notin acked
    BY DEF OwedNotAcked
  <2>1. x \in OwedAcks
    BY <1>15, OwedAcksByPlaceNext
  <2> QED  BY <2>1, OwedAcksByPlace DEF AckInv, OwedNotAcked
<1>18. ReturnsOnly'
  BY <1>4, <1>10, DispatchReturns DEF ReturnsOnly, d
<1> QED  BY <1>15, <1>16, <1>17, <1>18

(* A handler's write: the message takes what it owes with it, to QUEUE_CORE or
   QUEUE_DEVICE; in QUEUE_APPLICATION it is the acknowledgement; and if the
   write fails it is lost. *)
LEMMA HandlerWriteAcks ==
  ASSUME TypeOK, AckInv, HandlerWrite, UNCHANGED devVars,
         NoteWrite(Head(pend).key, Head(pend).msg)
  PROVE  LET w  == Head(pend)
             x0 == <<w.msg.origin, w.msg.text>>
             ok == MsgsndOk(w.key, w.msg)
         IN /\ OwedOnce' /\ OwedNotAcked' /\ ReturnsOnly'
            /\ OwedAcks' \subseteq OwedAcks
            /\ \A x \in OwedAcks \ OwedAcks' : x[1] = w.msg.origin
            /\ w.msg.origin = NoOrigin => OwedAcks' = OwedAcks
            /\ ok /\ w.key # QUEUE_APPLICATION => OwedAcks' = OwedAcks
            /\ w.key = QUEUE_APPLICATION =>
                 /\ OwedAcks' = OwedAcks \ {x0}
                 /\ w.msg.origin # NoOrigin => x0 \in OwedAcks
<1> DEFINE w  == Head(pend)
           x0 == <<w.msg.origin, w.msg.text>>
           ok == MsgsndOk(w.key, w.msg)
           target == IF w.key = QUEUE_CORE THEN "core" ELSE "device"
<1>1. /\ pend \in Seq([key : Keys, msg : MsgBuff]) /\ pend # << >>
      /\ QueueTypeOK
  BY DEF TypeOK, CoreTypeOK, HandlerWrite
<1>2. /\ w = pend[1] /\ w \in [key : Keys, msg : MsgBuff]
      /\ Len(pend) \in Nat /\ 1 \in 1..Len(pend)
      /\ Len(pend') = Len(pend) - 1
      /\ \A i \in 1..Len(pend') : i + 1 \in 1..Len(pend) /\ pend'[i] = pend[i + 1]
  <2>1. pend' = Tail(pend)
    BY DEF HandlerWrite
  <2>2. Len(pend) \in Nat \ {0}
    BY <1>1, EmptySeq, LenProperties
  <2>3. Head(pend) = pend[1] /\ Head(pend) \in [key : Keys, msg : MsgBuff]
    <3>1. Head(pend) = pend[1]
      BY <1>1
    <3>2. ASSUME NEW S, pend \in Seq(S) PROVE pend[1] \in S
      BY <2>2, <3>2, ElementOfSeq
    <3> QED  BY <1>1, <3>1, <3>2
  <2>4. /\ Len(Tail(pend)) = Len(pend) - 1
        /\ \A i \in 1..Len(Tail(pend)) : Tail(pend)[i] = pend[i + 1]
    BY <1>1, HeadTailProperties
  <2> QED  BY <2>1, <2>2, <2>3, <2>4
<1>3. message_queue_write(w.key, w.msg) /\ w.key \in Keys /\ w.msg \in MsgBuff
  BY <1>2 DEF HandlerWrite
<1> HIDE DEF w
<1>4. /\ \A l \in Keys : l # w.key => queues'[l] = queues[l]
      /\ Len(queues[w.key]) \in Nat
      /\ ok =>
           /\ Len(queues'[w.key]) = Len(queues[w.key]) + 1
           /\ \A i \in 1..Len(queues[w.key]) : queues'[w.key][i] = queues[w.key][i]
           /\ queues'[w.key][Len(queues[w.key]) + 1] = w.msg
      /\ ~ok => queues' = queues
  BY <1>1, <1>3, WriteShape
<1>5. AcksFromWrite(w) = {IF w.key = QUEUE_APPLICATION THEN x0
                          ELSE <<w.msg.origin, "app_ack">>}
  BY DEF AcksFromWrite
<1>6. w.key = QUEUE_CORE => AcksFromCore(w.msg) = {<<w.msg.origin, "app_ack">>}
  <2>1. w.key = QUEUE_CORE => w.msg.event = EV_SEND_TO_DEVICE
    BY <1>2 DEF AckInv, ReturnsOnly
  <2> QED  BY <2>1 DEF AcksFromCore, EV_SEND_TO_DEVICE, EV_SEND_TO_CORE
<1>7. /\ QUEUE_CORE # QUEUE_APPLICATION /\ QUEUE_CORE # QUEUE_DEVICE
      /\ QUEUE_DEVICE # QUEUE_APPLICATION
      /\ w.key = QUEUE_CORE \/ w.key = QUEUE_DEVICE \/ w.key = QUEUE_APPLICATION
  BY <1>3 DEF Keys, QUEUE_CORE, QUEUE_DEVICE, QUEUE_APPLICATION
<1>8. \A x : Owes("pend", 1, x) <=> x[1] # NoOrigin /\ x \in AcksFromWrite(w)
  BY <1>2 DEF Owes
(* Where an acknowledgement owed after the step was owed before, and back. *)
<1>9. ASSUME NEW i \in Nat, NEW x
      PROVE  Owes("pend", i, x)' => Owes("pend", i + 1, x)
  BY <1>2 DEF Owes, AcksFromWrite
<1>10. ASSUME NEW i \in Nat, NEW x, i # 1, Owes("pend", i, x)
       PROVE  i - 1 \in Nat /\ Owes("pend", i - 1, x)'
  <2>1. i \in 1..Len(pend) /\ x \in AcksFromWrite(pend[i]) /\ x[1] # NoOrigin
    BY <1>10 DEF Owes
  <2>2. i - 1 \in 1..Len(pend') /\ pend'[i - 1] = pend[i]
    BY <1>2, <1>10, <2>1
  <2> QED  BY <2>1, <2>2 DEF Owes, AcksFromWrite
<1>11. ASSUME NEW i \in Nat, NEW x, w.key # QUEUE_CORE \/ ~ok
       PROVE  Owes("core", i, x)' <=> Owes("core", i, x)
  BY <1>4, <1>11, OwesUnchanged, KeysAreKeys
<1>12. ASSUME NEW i \in Nat, NEW x, w.key # QUEUE_DEVICE \/ ~ok
       PROVE  Owes("device", i, x)' <=> Owes("device", i, x)
  BY <1>4, <1>12, OwesUnchanged, KeysAreKeys
<1>13. ASSUME NEW i \in Nat, NEW x, w.key = QUEUE_CORE, ok
       PROVE  Owes("core", i, x)' <=>
                \/ Owes("core", i, x)
                \/ i = Len(queues[QUEUE_CORE]) + 1 /\ Owes("pend", 1, x)
  <2>1. CASE i \in 1..Len(queues[QUEUE_CORE])
    BY <1>4, <1>13, <2>1 DEF Owes, AcksFromCore
  <2>2. CASE i = Len(queues[QUEUE_CORE]) + 1
    BY <1>4, <1>5, <1>6, <1>7, <1>8, <1>13, <2>2 DEF Owes, AcksFromCore
  <2>3. CASE i \notin 1..(Len(queues[QUEUE_CORE]) + 1)
    BY <1>4, <1>13, <2>3 DEF Owes
  <2> QED  BY <1>4, <1>13, <2>1, <2>2, <2>3
<1>14. ASSUME NEW i \in Nat, NEW x, w.key = QUEUE_DEVICE, ok
       PROVE  Owes("device", i, x)' <=>
                \/ Owes("device", i, x)
                \/ i = Len(queues[QUEUE_DEVICE]) + 1 /\ Owes("pend", 1, x)
  <2>1. CASE i \in 1..Len(queues[QUEUE_DEVICE])
    BY <1>4, <1>14, <2>1 DEF Owes
  <2>2. CASE i = Len(queues[QUEUE_DEVICE]) + 1
    BY <1>4, <1>5, <1>7, <1>8, <1>14, <2>2 DEF Owes
  <2>3. CASE i \notin 1..(Len(queues[QUEUE_DEVICE]) + 1)
    BY <1>4, <1>14, <2>3 DEF Owes
  <2> QED  BY <1>4, <1>14, <2>1, <2>2, <2>3
<1>15. \A i \in Nat : \A x : Owes("wrapper", i, x)' <=> Owes("wrapper", i, x)
  BY OwesUnchanged
<1>16. ASSUME NEW at \in Holders, NEW i \in Nat, NEW x, Owes(at, i, x)'
       PROVE  \/ at # "pend" /\ Owes(at, i, x)
              \/ at = "pend" /\ Owes("pend", i + 1, x)
              \/ /\ Owes("pend", 1, x) /\ ok /\ w.key # QUEUE_APPLICATION
                 /\ at = target /\ i = Len(queues[w.key]) + 1
  BY <1>7, <1>9, <1>11, <1>12, <1>13, <1>14, <1>15, <1>16 DEF Holders
<1>17. \A at \in Holders : \A i \in Nat : \A x :
          Owes(at, i, x)' => i # 0 /\ i + 1 \in Nat /\ i + 1 # 1
  BY DEF Owes
<1>18. OwedOnce'
  BY <1>16, <1>17 DEF AckInv, OwedOnce, Holders
<1>19. OwedAcks' \subseteq OwedAcks
  <2> SUFFICES ASSUME NEW x, x \in OwedAcks' PROVE x \in OwedAcks
    OBVIOUS
  <2>1. PICK at \in Holders, i \in Nat : Owes(at, i, x)'
    BY OwedAcksByPlaceNext
  <2>2. \E at2 \in Holders : \E i2 \in Nat : Owes(at2, i2, x)
    BY <1>16, <1>17, <2>1 DEF Holders
  <2> QED  BY <2>2, OwedAcksByPlace
<1>20. ASSUME NEW x, x \in OwedAcks, x \notin OwedAcks'
       PROVE  Owes("pend", 1, x) /\ (~ok \/ w.key = QUEUE_APPLICATION)
  <2>1. PICK at \in Holders, i \in Nat : Owes(at, i, x)
    BY <1>20, OwedAcksByPlace
  <2>2. ~ \E at2 \in Holders : \E i2 \in Nat : Owes(at2, i2, x)'
    BY <1>20, OwedAcksByPlaceNext
  <2>3. Len(queues[w.key]) + 1 \in Nat
    BY <1>4
  <2>4. at = "pend" /\ i = 1
    BY <1>10, <1>11, <1>12, <1>13, <1>14, <1>15, <2>1, <2>2 DEF Holders
  <2> QED  BY <1>7, <1>13, <1>14, <2>1, <2>2, <2>3, <2>4 DEF Holders
<1>21. w.key = QUEUE_APPLICATION /\ w.msg.origin # NoOrigin => Owes("pend", 1, x0)
  BY <1>5, <1>8
<1>22. ASSUME w.key = QUEUE_APPLICATION, NEW x, x \in OwedAcks' PROVE x # x0
  <2> SUFFICES ASSUME x = x0 PROVE FALSE
    OBVIOUS
  <2>1. PICK at \in Holders, i \in Nat : Owes(at, i, x)'
    BY <1>22, OwedAcksByPlaceNext
  <2>2. x[1] # NoOrigin
    BY <2>1 DEF Owes
  <2>3. Owes("pend", 1, x) /\ 1 \in Nat /\ "pend" \in Holders
    BY <1>21, <1>22, <2>2 DEF Holders
  <2> QED  BY <1>16, <1>17, <1>22, <2>1, <2>3 DEF AckInv, OwedOnce
<1>23. OwedNotAcked'
  <2> SUFFICES ASSUME NEW at \in Holders, NEW i \in Nat, NEW x, Owes(at, i, x)'
               PROVE  x \notin acked'
    BY DEF OwedNotAcked
  <2>1. x \in OwedAcks /\ x \in OwedAcks'
    BY <1>19, OwedAcksByPlaceNext
  <2>2. x \notin acked
    BY <2>1, OwedAcksByPlace DEF AckInv, OwedNotAcked
  <2>3. acked' = acked \/ (w.key = QUEUE_APPLICATION /\ acked' = acked \cup {x0})
    BY DEF NoteWrite, w
  <2> QED  BY <1>22, <2>1, <2>2, <2>3
<1>24. ReturnsOnly'
  BY <1>2 DEF AckInv, ReturnsOnly
<1>25. w.msg.origin = NoOrigin => OwedAcks' = OwedAcks
  BY <1>5, <1>8, <1>19, <1>20
<1>26. ok /\ w.key # QUEUE_APPLICATION => OwedAcks' = OwedAcks
  BY <1>19, <1>20
<1>27. ASSUME w.key = QUEUE_APPLICATION
       PROVE  /\ OwedAcks' = OwedAcks \ {x0}
              /\ w.msg.origin # NoOrigin => x0 \in OwedAcks
  <2>1. \A x : x \in OwedAcks /\ x \notin OwedAcks' => x = x0
    BY <1>5, <1>8, <1>20, <1>27
  <2>2. w.msg.origin # NoOrigin => x0 \in OwedAcks
    BY <1>21, <1>27, OwedAcksByPlace DEF Holders
  <2> QED  BY <1>19, <1>22, <1>27, <2>1, <2>2
<1>28. \A x \in OwedAcks \ OwedAcks' : x[1] = w.msg.origin
  BY <1>5, <1>8, <1>20
<1> QED  BY <1>18, <1>19, <1>23, <1>24, <1>25, <1>26, <1>27, <1>28 DEF w

(* The device wrapper's read: the message keeps owing its acknowledgement in
   the wrapper's buffer, and a read that fails finds no request's message
   there to answer again. *)
LEMMA DeviceReadAcks ==
  ASSUME TypeOK, AckInv, DeviceRead, UNCHANGED <<coreVars, acked>>
  PROVE  /\ OwedAcks' = OwedAcks
         /\ OwedOnce' /\ OwedNotAcked'
<1> DEFINE q == queues[QUEUE_DEVICE]
           ok == MsgrcvOk(QUEUE_DEVICE)
<1>1. message_queue_read(QUEUE_DEVICE) /\ QueueTypeOK /\ QUEUE_CORE # QUEUE_DEVICE
  BY DEF DeviceRead, TypeOK, QUEUE_CORE, QUEUE_DEVICE
<1>2. /\ queues'[QUEUE_CORE] = queues[QUEUE_CORE]
      /\ ok => /\ Head(q) = q[1] /\ 1 \in 1..Len(q)
               /\ Len(queues'[QUEUE_DEVICE]) = Len(q) - 1
               /\ \A i \in 1..Len(queues'[QUEUE_DEVICE]) :
                    i + 1 \in 1..Len(q) /\ queues'[QUEUE_DEVICE][i] = q[i + 1]
      /\ ~ok => queues' = queues /\ QUEUE_DEVICE \notin ids
  BY <1>1, ReadShape, KeysAreKeys
<1>3. dpc = "read" /\ dpc' = "write"
  BY DEF DeviceRead
<1>4. dmsg'.origin = ReadInto(QUEUE_DEVICE, dmsg).origin
  <2>1. ReadInto(QUEUE_DEVICE, dmsg) \in MsgBuff
    BY ReadIntoType, KeysAreKeys DEF TypeOK, DevTypeOK
  <2> QED  BY <2>1 DEF DeviceRead, MsgBuff
<1>5. (ok => dmsg'.origin = q[1].origin) /\ (~ok => dmsg'.origin = NoOrigin)
  BY <1>2, <1>4 DEF ReadInto, AckInv, NoStaleBuffer
(* Where an acknowledgement owed after the step was owed before, and back. *)
<1>6. \A i \in Nat : \A x : /\ Owes("core", i, x)' <=> Owes("core", i, x)
                            /\ Owes("pend", i, x)' <=> Owes("pend", i, x)
  BY <1>2, OwesUnchanged DEF coreVars
<1>7. ASSUME NEW i \in Nat, NEW x
      PROVE  Owes("wrapper", i, x)' <=> i = 1 /\ ok /\ Owes("device", 1, x)
  BY <1>2, <1>3, <1>5 DEF Owes
<1>8. ASSUME NEW i \in Nat, NEW x, Owes("device", i, x)'
      PROVE  Owes("device", IF ok THEN i + 1 ELSE i, x)
  BY <1>2, <1>8 DEF Owes
<1>9. ASSUME NEW i \in Nat, NEW x, Owes("device", i, x), ~ok \/ i # 1
      PROVE  \E j \in Nat : Owes("device", j, x)'
  <2>1. CASE ~ok
    BY <1>2, <1>9, <2>1, OwesUnchanged
  <2>2. CASE ok
    <3>1. i \in 1..Len(q) /\ x = <<q[i].origin, "app_ack">> /\ x[1] # NoOrigin
      BY <1>9 DEF Owes
    <3>2. i - 1 \in 1..Len(queues'[QUEUE_DEVICE]) /\ queues'[QUEUE_DEVICE][i - 1] = q[i]
      BY <1>2, <1>9, <2>2, <3>1
    <3>3. Owes("device", i - 1, x)' /\ i - 1 \in Nat
      BY <3>1, <3>2 DEF Owes
    <3> QED  BY <3>3
  <2> QED  BY <2>1, <2>2
<1>10. \A i \in Nat : \A x : ~Owes("wrapper", i, x)
  BY <1>3 DEF Owes
<1>11. \A at \in Holders : \A i \in Nat : \A x :
          Owes(at, i, x)' => i # 0 /\ i + 1 \in Nat /\ i + 1 # 1 /\ 1 \in Nat
  BY DEF Owes
<1>12. OwedOnce'
  BY <1>6, <1>7, <1>8, <1>11 DEF AckInv, OwedOnce, Holders
<1>13. OwedAcks' = OwedAcks
  <2>1. ASSUME NEW x, x \in OwedAcks' PROVE x \in OwedAcks
    <3>1. PICK at \in Holders, i \in Nat : Owes(at, i, x)'
      BY OwedAcksByPlaceNext, <2>1
    <3>2. \E at2 \in Holders : \E i2 \in Nat : Owes(at2, i2, x)
      BY <1>6, <1>7, <1>8, <1>11, <3>1 DEF Holders
    <3> QED  BY <3>2, OwedAcksByPlace
  <2>2. ASSUME NEW x, x \in OwedAcks PROVE x \in OwedAcks'
    <3>1. PICK at \in Holders, i \in Nat : Owes(at, i, x)
      BY <2>2, OwedAcksByPlace
    <3>2. \E at2 \in Holders : \E i2 \in Nat : Owes(at2, i2, x)'
      BY <1>6, <1>7, <1>9, <1>10, <3>1 DEF Holders
    <3> QED  BY OwedAcksByPlaceNext, <3>2
  <2> QED  BY <2>1, <2>2
<1>14. OwedNotAcked'
  <2> SUFFICES ASSUME NEW at \in Holders, NEW i \in Nat, NEW x, Owes(at, i, x)'
               PROVE  x \notin acked
    BY DEF OwedNotAcked
  <2>1. x \in OwedAcks
    BY <1>13, OwedAcksByPlaceNext
  <2> QED  BY <2>1, OwedAcksByPlace DEF AckInv, OwedNotAcked
<1> QED  BY <1>12, <1>13, <1>14

(* A message written to QUEUE_CORE, by whichever process. *)
LEMMA CoreArrival ==
  ASSUME QueueTypeOK, NEW m \in MsgBuff, message_queue_write(QUEUE_CORE, m)
  PROVE  /\ Len(queues[QUEUE_CORE]) + 1 \in Nat
         /\ queues'[QUEUE_DEVICE] = queues[QUEUE_DEVICE]
         /\ \A i \in Nat : \A x :
              Owes("core", i, x)' <=>
                \/ Owes("core", i, x)
                \/ /\ MsgsndOk(QUEUE_CORE, m) /\ i = Len(queues[QUEUE_CORE]) + 1
                   /\ x[1] # NoOrigin /\ x \in AcksFromCore(m)
         /\ \A x : ~Owes("core", Len(queues[QUEUE_CORE]) + 1, x)
<1> DEFINE q == queues[QUEUE_CORE]
<1>1. QUEUE_CORE \in Keys /\ QUEUE_DEVICE \in Keys /\ QUEUE_CORE # QUEUE_DEVICE
  BY KeysAreKeys DEF QUEUE_CORE, QUEUE_DEVICE
<1>2. /\ queues'[QUEUE_DEVICE] = queues[QUEUE_DEVICE]
      /\ Len(q) \in Nat
      /\ MsgsndOk(QUEUE_CORE, m) =>
           /\ Len(queues'[QUEUE_CORE]) = Len(q) + 1
           /\ \A i \in 1..Len(q) : queues'[QUEUE_CORE][i] = q[i]
           /\ queues'[QUEUE_CORE][Len(q) + 1] = m
      /\ ~MsgsndOk(QUEUE_CORE, m) => queues' = queues
  BY <1>1, WriteShape
<1>3. ASSUME NEW i \in Nat, NEW x, MsgsndOk(QUEUE_CORE, m)
      PROVE  Owes("core", i, x)' <=>
                \/ Owes("core", i, x)
                \/ i = Len(q) + 1 /\ x[1] # NoOrigin /\ x \in AcksFromCore(m)
  <2>1. CASE i \in 1..Len(q)
    BY <1>2, <1>3, <2>1 DEF Owes, AcksFromCore
  <2>2. CASE i = Len(q) + 1
    BY <1>2, <1>3, <2>2 DEF Owes, AcksFromCore
  <2>3. CASE i \notin 1..(Len(q) + 1)
    BY <1>2, <1>3, <2>3 DEF Owes
  <2> QED  BY <1>2, <2>1, <2>2, <2>3
<1>4. ASSUME NEW i \in Nat, NEW x, ~MsgsndOk(QUEUE_CORE, m)
      PROVE  Owes("core", i, x)' <=> Owes("core", i, x)
  BY <1>2, <1>4, OwesUnchanged
<1>5. \A x : ~Owes("core", Len(q) + 1, x)
  BY <1>2 DEF Owes
<1> QED  BY <1>2, <1>3, <1>4, <1>5

(* The device wrapper's write: what it owed, the message in QUEUE_CORE owes; if
   the write fails it is lost. *)
LEMMA DeviceWriteAcks ==
  ASSUME TypeOK, FlowInv, AckInv, DeviceWrite, UNCHANGED coreVars,
         NoteWrite(QUEUE_CORE, dmsg)
  PROVE  /\ OwedAcks' \subseteq OwedAcks
         /\ \A x \in OwedAcks \ OwedAcks' : x[1] = dmsg.origin
         /\ MsgsndOk(QUEUE_CORE, dmsg) \/ dmsg.origin = NoOrigin => OwedAcks' = OwedAcks
         /\ OwedOnce' /\ OwedNotAcked'
<1> DEFINE n == Len(queues[QUEUE_CORE]) + 1
           ok == MsgsndOk(QUEUE_CORE, dmsg)
<1>1. /\ message_queue_write(QUEUE_CORE, dmsg) /\ QueueTypeOK /\ dmsg \in MsgBuff
      /\ dpc = "write" /\ dpc' = "read"
  BY DEF DeviceWrite, TypeOK, DevTypeOK
<1>2. dmsg.origin # NoOrigin => AcksFromCore(dmsg) = {<<dmsg.origin, "app_ack">>}
  BY DEF FlowInv, DevInv, AcksFromCore, EV_SEND_TO_DEVICE, EV_SEND_TO_CORE
<1>3. \A x : Owes("wrapper", 1, x) <=> x[1] # NoOrigin /\ x = <<dmsg.origin, "app_ack">>
  BY <1>1 DEF Owes
<1>4. \A x : x \in AcksFromCore(dmsg) => x[1] = dmsg.origin
  BY DEF AcksFromCore
<1>5. \A i \in Nat : \A x :
         Owes("core", i, x)' <=> \/ Owes("core", i, x)
                                 \/ ok /\ i = n /\ Owes("wrapper", 1, x)
  BY <1>1, <1>2, <1>3, <1>4, CoreArrival
<1>6. n \in Nat /\ \A x : ~Owes("core", n, x)
  BY <1>1, CoreArrival
<1>7. \A i \in Nat : \A x : /\ Owes("device", i, x)' <=> Owes("device", i, x)
                            /\ Owes("pend", i, x)' <=> Owes("pend", i, x)
  BY <1>1, CoreArrival, OwesUnchanged DEF coreVars
<1>8. \A i \in Nat : \A x : ~Owes("wrapper", i, x)' /\ (Owes("wrapper", i, x) => i = 1)
  BY <1>1 DEF Owes
<1>9. OwedOnce'
  BY <1>5, <1>6, <1>7, <1>8 DEF AckInv, OwedOnce, Holders
<1>10. OwedAcks' \subseteq OwedAcks
  <2> SUFFICES ASSUME NEW x, x \in OwedAcks' PROVE x \in OwedAcks
    OBVIOUS
  <2>1. PICK at \in Holders, i \in Nat : Owes(at, i, x)'
    BY OwedAcksByPlaceNext
  <2>2. \E at2 \in Holders : \E i2 \in Nat : Owes(at2, i2, x)
    BY <1>5, <1>7, <1>8, <2>1 DEF Holders
  <2> QED  BY <2>2, OwedAcksByPlace
<1>11. ASSUME ok \/ dmsg.origin = NoOrigin, NEW x, x \in OwedAcks PROVE x \in OwedAcks'
  <2>1. PICK at \in Holders, i \in Nat : Owes(at, i, x)
    BY <1>11, OwedAcksByPlace
  <2>2. \E at2 \in Holders : \E i2 \in Nat : Owes(at2, i2, x)'
    BY <1>3, <1>5, <1>6, <1>7, <1>8, <1>11, <2>1 DEF Holders
  <2> QED  BY OwedAcksByPlaceNext, <2>2
<1>12. OwedNotAcked'
  <2> SUFFICES ASSUME NEW at \in Holders, NEW i \in Nat, NEW x, Owes(at, i, x)'
               PROVE  x \notin acked'
    BY DEF OwedNotAcked
  <2>1. x \in OwedAcks
    BY <1>10, OwedAcksByPlaceNext
  <2>2. acked' = acked
    BY DEF NoteWrite, QUEUE_CORE, QUEUE_APPLICATION
  <2> QED  BY <2>1, <2>2, OwedAcksByPlace DEF AckInv, OwedNotAcked
<1>13. ASSUME NEW x, x \in OwedAcks, x \notin OwedAcks' PROVE x[1] = dmsg.origin
  <2>1. PICK at \in Holders, i \in Nat : Owes(at, i, x)
    BY <1>13, OwedAcksByPlace
  <2>2. ~ \E at2 \in Holders : \E i2 \in Nat : Owes(at2, i2, x)'
    BY <1>13, OwedAcksByPlaceNext
  <2>3. Owes("wrapper", 1, x)
    BY <1>5, <1>7, <1>8, <2>1, <2>2 DEF Holders
  <2> QED  BY <1>3, <2>3
<1> QED  BY <1>9, <1>10, <1>11, <1>12, <1>13

(* The three calls send a request whose text is not an acknowledgement's, and
   the one Init_led acknowledges has the text it gives that acknowledgement. *)
LEMMA CallsSendTexts ==
  ASSUME NEW a \in Apps, glow_led(a) \/ glow_led_with_fsm_ack(a) \/ glow_led_with_board_ack(a)
  PROVE  \E ev \in RequestEvents, t \in Texts \ {"app_ack"}, pc \in {"menu", "wait"} :
            /\ SendRequest(a, Request(a, ev, t), pc)
            /\ ev = EV_SEND_TO_CORE => t = "ack_request"
<1>1. /\ EV_SEND_TO_CORE_NO_ACK \in RequestEvents
      /\ EV_SEND_TO_CORE \in RequestEvents
      /\ EV_SEND_TO_CORE_DEV_ACK \in RequestEvents
      /\ EV_SEND_TO_CORE # EV_SEND_TO_CORE_NO_ACK
  BY DEF RequestEvents, EV_SEND_TO_CORE, EV_SEND_TO_CORE_NO_ACK
<1>2. /\ "no_ack_request" \in Texts \ {"app_ack"}
      /\ "ack_request" \in Texts \ {"app_ack"}
  BY DEF Texts
<1> QED  BY <1>1, <1>2 DEF glow_led, glow_led_with_fsm_ack, glow_led_with_board_ack

(* A call: its request is new, so that what it owes is owed by nothing else and
   has not been acknowledged. *)
LEMMA UserAcks ==
  ASSUME TypeOK, FlowInv, AckInv, NEW a \in Apps, User(a)
  PROVE  LET o == call'[a] IN
         /\ o \in Requests /\ o \notin sent
         /\ OwedOnce' /\ OwedNotAcked' /\ Numbered'
         /\ MsgsndOk(QUEUE_CORE, buf'[a]) =>
              sent' = sent \cup {o} /\ OwedAcks' = OwedAcks \cup Service!AcksFor(o)
         /\ ~MsgsndOk(QUEUE_CORE, buf'[a]) =>
              sent' = sent /\ OwedAcks' = OwedAcks /\ o \in dropped'
<1>1. PICK ev \in RequestEvents, t \in Texts \ {"app_ack"}, pc \in {"menu", "wait"} :
         /\ SendRequest(a, Request(a, ev, t), pc)
         /\ ev = EV_SEND_TO_CORE => t = "ack_request"
  BY CallsSendTexts DEF User
<1> DEFINE m == Request(a, ev, t)
           o == m.origin
           ok == MsgsndOk(QUEUE_CORE, m)
           n == Len(queues[QUEUE_CORE]) + 1
<1>2. /\ m \in MsgBuff /\ o \in Requests /\ o # NoOrigin
      /\ m.event = ev /\ m.text = t
      /\ o.app = a /\ o.n = nreq[a] + 1 /\ o.event = ev
  BY RequestType, StackAssumption DEF TypeOK, Request
<1> HIDE DEF m
<1>3. SendRequest(a, m, pc)
  BY <1>1 DEF m
<1>4. /\ QueueTypeOK /\ message_queue_write(QUEUE_CORE, m)
      /\ buf'[a] = m /\ call'[a] = o /\ nreq' = [nreq EXCEPT ![a] = @ + 1]
  BY <1>3 DEF SendRequest, TypeOK, AppTypeOK
<1>5. /\ UNCHANGED <<coreVars, devVars>> /\ NoteWrite(QUEUE_CORE, m)
      /\ sent' = (IF ok THEN sent \cup {o} ELSE sent)
  BY <1>4 DEF User
<1>6. nreq \in [Apps -> Nat] /\ \A u \in sent : u.app \in Apps /\ u.n \in Nat
  BY DEF TypeOK, AppTypeOK, AuxTypeOK, Requests
<1>7. o \notin sent
  BY <1>2, <1>6 DEF AckInv, Numbered
<1>8. Numbered'
  <2>1. \A u \in sent : u.n <= nreq'[u.app]
    BY <1>4, <1>6 DEF AckInv, Numbered
  <2>2. o.n <= nreq'[o.app]
    BY <1>2, <1>4, <1>6
  <2> QED  BY <1>5, <2>1, <2>2 DEF Numbered
<1>9. AcksFromCore(m) = Service!AcksFor(o)
  BY <1>1, <1>2 DEF AcksFromCore, Service!AcksFor, Service!EV_SEND_TO_CORE, EV_SEND_TO_CORE
<1>10. \A x \in AcksFromCore(m) : x[1] = o
  BY DEF AcksFromCore
<1>11. \A i \in Nat : \A x :
          Owes("core", i, x)' <=> \/ Owes("core", i, x)
                                  \/ ok /\ i = n /\ x \in AcksFromCore(m)
  BY <1>2, <1>4, <1>10, CoreArrival
<1>12. n \in Nat
  BY <1>2, <1>4, CoreArrival
<1>13. \A i \in Nat : \A x : /\ Owes("device", i, x)' <=> Owes("device", i, x)
                             /\ Owes("pend", i, x)' <=> Owes("pend", i, x)
                             /\ Owes("wrapper", i, x)' <=> Owes("wrapper", i, x)
  BY <1>2, <1>4, <1>5, CoreArrival, OwesUnchanged DEF coreVars
<1>14. \A at \in Holders : \A i \in Nat : \A x \in AcksFromCore(m) : ~Owes(at, i, x)
  BY <1>7, <1>10, OwesSent
<1>15. \A x \in AcksFromCore(m) : x \notin acked
  BY <1>2, <1>7, <1>10 DEF FlowInv, AckCausality
<1>16. \A at \in Holders : \A i \in Nat : \A x :
          Owes(at, i, x)' => \/ Owes(at, i, x)
                             \/ ok /\ at = "core" /\ i = n /\ x \in AcksFromCore(m)
  BY <1>11, <1>13 DEF Holders
<1>17. OwedOnce'
  BY <1>14, <1>16 DEF AckInv, OwedOnce
<1>18. acked' = acked
  BY <1>5 DEF NoteWrite, QUEUE_CORE, QUEUE_APPLICATION
<1>19. OwedNotAcked'
  BY <1>15, <1>16, <1>18 DEF AckInv, OwedNotAcked
<1>20. \A x : x \in OwedAcks' <=> x \in OwedAcks \/ (ok /\ x \in AcksFromCore(m))
  <2>1. ASSUME NEW x, x \in OwedAcks' PROVE x \in OwedAcks \/ (ok /\ x \in AcksFromCore(m))
    <3>1. PICK at \in Holders, i \in Nat : Owes(at, i, x)'
      BY OwedAcksByPlaceNext, <2>1
    <3> QED  BY <1>16, <3>1, OwedAcksByPlace
  <2>2. ASSUME NEW x, x \in OwedAcks PROVE x \in OwedAcks'
    <3>1. PICK at \in Holders, i \in Nat : Owes(at, i, x)
      BY <2>2, OwedAcksByPlace
    <3>2. Owes(at, i, x)'
      BY <1>11, <1>13, <3>1 DEF Holders
    <3> QED  BY <3>2, OwedAcksByPlaceNext
  <2>3. ASSUME NEW x \in AcksFromCore(m), ok PROVE x \in OwedAcks'
    <3>1. PICK j \in Nat : j = n
      BY <1>12
    <3> QED  BY <1>11, <2>3, <3>1, OwedAcksByPlaceNext DEF Holders
  <2> QED  BY <2>1, <2>2, <2>3
<1>21. ok => OwedAcks' = OwedAcks \cup Service!AcksFor(o)
  BY <1>9, <1>20
<1>22. ~ok => OwedAcks' = OwedAcks
  BY <1>20
<1>23. ~ok => o \in dropped'
  BY <1>5 DEF NoteWrite
<1> QED  BY <1>2, <1>4, <1>5, <1>7, <1>8, <1>17, <1>19, <1>21, <1>22, <1>23

(* Steps that touch neither the messages under way nor acked: the core's queue
   inits and its stop, and a call's read of QUEUE_APPLICATION. *)
LEMMA QuietAcks ==
  ASSUME AckInv, UNCHANGED <<pend, devVars, acked>>,
         queues'[QUEUE_CORE] = queues[QUEUE_CORE], queues'[QUEUE_DEVICE] = queues[QUEUE_DEVICE]
  PROVE  OwedAcks' = OwedAcks /\ OwedOnce' /\ OwedNotAcked'
<1>1. \A at \in Holders : \A i \in Nat : \A x : Owes(at, i, x)' <=> Owes(at, i, x)
  BY OwesUnchanged DEF Holders
<1>2. \A x : x \in OwedAcks' <=> x \in OwedAcks
  BY <1>1, OwedAcksByPlace, OwedAcksByPlaceNext
<1> QED  BY <1>1, <1>2 DEF AckInv, OwedOnce, OwedNotAcked

(* A process that dies takes the messages in its hands with it. *)
LEMMA RestartAcks ==
  ASSUME AckInv, Restart
  PROVE  /\ OwedAcks' \subseteq OwedAcks
         /\ OwedOnce' /\ OwedNotAcked'
<1>1. queues' = queues /\ acked' = acked
  BY DEF Restart, CoreRestart, DeviceRestart, AppRestart, qvars
<1>2. \/ UNCHANGED devVars /\ (pend' = << >> \/ pend' = pend)
      \/ pend' = pend /\ dpc' = "read"
  BY DEF Restart, CoreRestart, DeviceRestart, coreVars
<1>3. \A i \in Nat : \A x : pend' = << >> => ~Owes("pend", i, x)'
  BY DEF Owes
<1>4. \A i \in Nat : \A x : dpc' = "read" => ~Owes("wrapper", i, x)'
  BY DEF Owes
<1>5. \A at \in Holders : \A i \in Nat : \A x : Owes(at, i, x)' => Owes(at, i, x)
  BY <1>1, <1>2, <1>3, <1>4, OwesUnchanged DEF Holders
<1>6. \A x : x \in OwedAcks' => x \in OwedAcks
  BY <1>5, OwedAcksByPlace, OwedAcksByPlaceNext
<1> QED  BY <1>1, <1>5, <1>6 DEF AckInv, OwedOnce, OwedNotAcked

(* A buffer holds a request's message only once its queue exists, since queues
   are never removed. *)
LEMMA BuffersStayFresh ==
  ASSUME TypeOK, AckInv, Next
  PROVE  NoStaleBuffer'
<1>1. ASSUME ids \subseteq ids', msg'.origin # NoOrigin => msg' = msg,
             dmsg'.origin # NoOrigin => dmsg' = dmsg
      PROVE  NoStaleBuffer'
  BY <1>1 DEF AckInv, NoStaleBuffer
<1>2. ASSUME NEW k \in Keys, NEW m \in MsgBuff, message_queue_write(k, m)
      PROVE  ids' = ids
  BY <1>2 DEF message_queue_write, qvars
<1>3. ASSUME NEW k \in Keys, message_queue_read(k) PROVE ids' = ids
  BY <1>3 DEF message_queue_read, qvars
<1>4. CASE Core
  <2>1. dmsg' = dmsg
    BY <1>4 DEF Core, devVars
  <2>2. CASE CoreQueueInit
    BY <1>1, <2>1, <2>2 DEF CoreQueueInit, message_queue_init
  <2>3. CASE GetMessageStateEvent
    BY <1>3, <2>1, <2>3, KeysAreKeys DEF GetMessageStateEvent, ReadInto, MsgrcvOk, AckInv,
       NoStaleBuffer
  <2>4. CASE HandlerWrite
    BY <1>1, <2>1, <2>4 DEF HandlerWrite, message_queue_write, qvars
  <2>5. CASE CoreStop
    BY <1>1, <2>1, <2>5 DEF CoreStop, qvars
  <2> QED  BY <1>4, <2>2, <2>3, <2>4, <2>5 DEF Core
<1>5. CASE Device
  <2>1. msg' = msg
    BY <1>5 DEF Device, coreVars
  <2>2. CASE DeviceRead
    <3>1. ids' = ids
      BY <1>3, <2>2, KeysAreKeys DEF DeviceRead
    <3>2. ReadInto(QUEUE_DEVICE, dmsg) \in MsgBuff
      BY ReadIntoType, KeysAreKeys DEF TypeOK, DevTypeOK
    <3>3. dmsg'.origin = ReadInto(QUEUE_DEVICE, dmsg).origin
      BY <2>2, <3>2 DEF DeviceRead, MsgBuff
    <3>4. ReadInto(QUEUE_DEVICE, dmsg) = dmsg \/ QUEUE_DEVICE \in ids
      BY DEF ReadInto, MsgrcvOk
    <3> QED  BY <2>1, <3>1, <3>3, <3>4 DEF AckInv, NoStaleBuffer
  <2>3. CASE DeviceWrite
    BY <1>1, <2>1, <2>3 DEF DeviceWrite, message_queue_write, qvars
  <2> QED  BY <1>5, <2>2, <2>3 DEF Device
<1>6. CASE \E a \in Apps : User(a) \/ CallReturns(a)
  <2>1. PICK a \in Apps : User(a) \/ CallReturns(a)
    BY <1>6
  <2>2. msg' = msg /\ dmsg' = dmsg
    BY <2>1 DEF User, CallReturns, coreVars, devVars
  <2>3. ids' = ids
    BY <2>1, <1>3, KeysAreKeys DEF User, CallReturns, ReadAck, glow_led, glow_led_with_fsm_ack,
       glow_led_with_board_ack, SendRequest, message_queue_write, qvars
  <2> QED  BY <1>1, <2>2, <2>3
<1>7. CASE Restart
  <2>1. ids' = ids
    BY <1>7 DEF Restart, CoreRestart, DeviceRestart, AppRestart, qvars
  <2>2. msg' = msg \/ msg'.origin = NoOrigin
    BY <1>7 DEF Restart, CoreRestart, coreVars, ZeroMsg
  <2>3. dmsg' = dmsg \/ dmsg'.origin = NoOrigin
    BY <1>7, GarbageAssumption DEF Restart, DeviceRestart, devVars
  <2> QED  BY <1>1, <2>1, <2>2, <2>3
<1> QED  BY <1>4, <1>5, <1>6, <1>7 DEF Next

(* AckInv is preserved by every step. *)
LEMMA AckStep ==
  ASSUME TypeOK, FlowInv, AckInv, [Next]_vars
  PROVE  AckInv'
<1>1. ASSUME UNCHANGED <<sent, nreq>> PROVE Numbered'
  BY <1>1 DEF AckInv, Numbered
<1>2. ASSUME UNCHANGED pend PROVE ReturnsOnly'
  BY <1>2 DEF AckInv, ReturnsOnly
<1>3. CASE Core
  <2>1. NoStaleBuffer' /\ Numbered'
    BY <1>1, <1>3, BuffersStayFresh DEF Next, Core, appVars
  <2>2. CASE CoreQueueInit /\ UNCHANGED <<acked, dropped>>
    <3>1. queues' = queues /\ UNCHANGED <<pend, devVars, acked>>
      BY <1>3, <2>2 DEF Core, CoreQueueInit, message_queue_init
    <3> QED  BY <1>2, <2>1, <3>1, QuietAcks DEF AckInv
  <2>3. CASE GetMessageStateEvent /\ UNCHANGED <<acked, dropped>>
    BY <1>3, <2>1, <2>3, CoreReadAcks DEF Core, AckInv
  <2>4. CASE HandlerWrite /\ NoteWrite(Head(pend).key, Head(pend).msg)
    BY <1>3, <2>1, <2>4, HandlerWriteAcks DEF Core, AckInv
  <2>5. CASE CoreStop /\ UNCHANGED <<acked, dropped>>
    <3>1. queues' = queues /\ UNCHANGED <<pend, devVars, acked>>
      BY <1>3, <2>5 DEF Core, CoreStop, qvars
    <3> QED  BY <1>2, <2>1, <3>1, QuietAcks DEF AckInv
  <2> QED  BY <1>3, <2>2, <2>3, <2>4, <2>5 DEF Core
<1>4. CASE Device
  <2>1. NoStaleBuffer' /\ Numbered' /\ ReturnsOnly' /\ UNCHANGED coreVars
    BY <1>1, <1>2, <1>4, BuffersStayFresh DEF Next, Device, appVars, coreVars
  <2>2. CASE DeviceRead /\ UNCHANGED <<acked, dropped>>
    BY <2>1, <2>2, DeviceReadAcks DEF AckInv
  <2>3. CASE DeviceWrite /\ NoteWrite(QUEUE_CORE, dmsg)
    BY <2>1, <2>3, DeviceWriteAcks DEF AckInv
  <2> QED  BY <1>4, <2>2, <2>3 DEF Device
<1>5. CASE \E a \in Apps : User(a)
  <2>1. PICK a \in Apps : User(a)
    BY <1>5
  <2>2. NoStaleBuffer' /\ ReturnsOnly'
    BY <1>2, <2>1, BuffersStayFresh DEF Next, User, coreVars
  <2> QED  BY <2>1, <2>2, UserAcks DEF AckInv
<1>6. CASE \E a \in Apps : CallReturns(a)
  <2>1. PICK a \in Apps : CallReturns(a)
    BY <1>6
  <2>2. NoStaleBuffer' /\ Numbered' /\ UNCHANGED <<pend, devVars, acked>>
    BY <1>1, <2>1, BuffersStayFresh DEF Next, CallReturns, ReadAck, coreVars, auxVars
  <2>3. /\ queues'[QUEUE_CORE] = queues[QUEUE_CORE]
        /\ queues'[QUEUE_DEVICE] = queues[QUEUE_DEVICE]
    <3>1. message_queue_read(QUEUE_APPLICATION) /\ QueueTypeOK
      BY <2>1 DEF CallReturns, ReadAck, TypeOK
    <3> QED  BY <3>1, ReadShape, KeysAreKeys DEF QUEUE_CORE, QUEUE_DEVICE, QUEUE_APPLICATION
  <2> QED  BY <1>2, <2>2, <2>3, QuietAcks DEF AckInv
<1>7. CASE Restart
  <2>1. NoStaleBuffer' /\ Numbered'
    BY <1>1, <1>7, BuffersStayFresh DEF Next, Restart, appVars, AppRestart
  <2>2. ReturnsOnly'
    <3>1. pend' = pend \/ pend' = << >>
      BY <1>7 DEF Restart, CoreRestart, coreVars
    <3> QED  BY <1>2, <3>1 DEF ReturnsOnly
  <2> QED  BY <1>7, <2>1, <2>2, RestartAcks DEF AckInv
<1>8. CASE UNCHANGED vars
  <2>1. /\ UNCHANGED <<pend, devVars, acked, sent, nreq>> /\ queues' = queues
        /\ NoStaleBuffer'
    BY <1>8 DEF vars, coreVars, auxVars, appVars, qvars, devVars, AckInv, NoStaleBuffer
  <2> QED  BY <1>1, <1>2, <2>1, QuietAcks DEF AckInv
<1> QED  BY <1>3, <1>4, <1>5, <1>6, <1>7, <1>8 DEF Next

(* In every reachable state no two messages under way owe the same
   acknowledgement and none owes one that has been made. *)
THEOREM AckInvHolds == Spec => []AckInv
<1>1. Init => AckInv
  <2> SUFFICES ASSUME Init PROVE AckInv
    OBVIOUS
  <2>1. /\ \A k \in Keys : queues[k] = << >>
        /\ pend = << >> /\ dpc = "read" /\ sent = {}
        /\ msg.origin = NoOrigin
    BY DEF Init, CoreInit, DevInit, ZeroMsg
  <2>2. dmsg.origin = NoOrigin
    BY GarbageAssumption DEF Init, DevInit
  <2>3. \A at \in Holders : \A i \in Nat : \A x : ~Owes(at, i, x)
    BY <2>1, KeysAreKeys DEF Owes, Holders
  <2> QED  BY <2>1, <2>2, <2>3 DEF AckInv, OwedOnce, OwedNotAcked, Numbered, NoStaleBuffer,
           ReturnsOnly
<1>2. TypeOK /\ FlowInv /\ AckInv /\ [Next]_vars => AckInv'
  BY AckStep
<1> QED  BY <1>1, <1>2, TypeCorrect, FlowCorrect, PTL DEF Spec

-----------------------------------------------------------------------------
(* What a step does to QUEUE_APPLICATION: only a handler's write makes it
   longer. *)
LEMMA ApplicationGrows ==
  ASSUME TypeOK, Next,
         Len(queues'[QUEUE_APPLICATION]) > Len(queues[QUEUE_APPLICATION])
  PROVE  /\ Core /\ HandlerWrite /\ NoteWrite(Head(pend).key, Head(pend).msg)
         /\ Head(pend).key = QUEUE_APPLICATION
         /\ MsgsndOk(QUEUE_APPLICATION, Head(pend).msg)
         /\ queues'[QUEUE_APPLICATION][Len(queues'[QUEUE_APPLICATION])] = Head(pend).msg
<1> DEFINE q == queues[QUEUE_APPLICATION]
           r == queues'[QUEUE_APPLICATION]
<1>1. QueueTypeOK /\ Len(q) \in Nat
  BY KeysAreKeys, LenProperties DEF TypeOK, QueueTypeOK
<1>2. r # q
  BY <1>1
<1>3. ASSUME NEW k \in Keys, message_queue_read(k) PROVE Len(r) <= Len(q)
  BY <1>1, <1>3, ReadShape, KeysAreKeys
<1>4. ASSUME NEW k \in Keys, NEW m \in MsgBuff, message_queue_write(k, m)
      PROVE  /\ k = QUEUE_APPLICATION /\ MsgsndOk(k, m)
             /\ r[Len(r)] = m
  BY <1>1, <1>2, <1>4, WriteShape, KeysAreKeys
<1>5. QUEUE_CORE # QUEUE_APPLICATION
  BY DEF QUEUE_CORE, QUEUE_APPLICATION
<1>6. CASE Core
  <2>1. ~CoreQueueInit /\ ~CoreStop
    BY <1>2 DEF CoreQueueInit, CoreStop, message_queue_init, qvars
  <2>2. ~GetMessageStateEvent
    BY <1>1, <1>3, KeysAreKeys DEF GetMessageStateEvent
  <2>3. HandlerWrite /\ NoteWrite(Head(pend).key, Head(pend).msg)
    BY <1>6, <2>1, <2>2 DEF Core
  <2>4. Head(pend) \in [key : Keys, msg : MsgBuff]
    BY <2>3, HeadTailProperties DEF TypeOK, CoreTypeOK, HandlerWrite
  <2> QED  BY <1>4, <1>6, <2>3, <2>4 DEF HandlerWrite
<1>7. CASE Device
  <2>1. ~DeviceRead
    BY <1>1, <1>3, KeysAreKeys DEF DeviceRead
  <2>2. ~DeviceWrite
    BY <1>4, <1>5, KeysAreKeys DEF DeviceWrite, TypeOK, DevTypeOK
  <2> QED  BY <1>7, <2>1, <2>2 DEF Device
<1>8. CASE \E a \in Apps : User(a) \/ CallReturns(a)
  <2>1. PICK a \in Apps : User(a) \/ CallReturns(a)
    BY <1>8
  <2>2. ~CallReturns(a)
    BY <1>1, <1>3, KeysAreKeys DEF CallReturns, ReadAck
  <2>3. PICK ev \in RequestEvents, t \in Texts \ {"app_ack"}, pc \in {"menu", "wait"} :
           SendRequest(a, Request(a, ev, t), pc)
    BY <2>1, <2>2, CallsSendRequests DEF User
  <2>4. Request(a, ev, t) \in MsgBuff
    BY RequestType DEF TypeOK
  <2> QED  BY <1>4, <1>5, <2>3, <2>4, KeysAreKeys DEF SendRequest
<1>9. CASE Restart
  BY <1>2, <1>9 DEF Restart, CoreRestart, DeviceRestart, AppRestart, qvars
<1> QED  BY <1>6, <1>7, <1>8, <1>9 DEF Next

(* No acknowledgement of a request is written twice. *)
THEOREM AckAtMostOnceHolds == Spec => AckAtMostOnce
<1> DEFINE Fresh == LET q == queues'[QUEUE_APPLICATION] IN
                    Len(q) > Len(queues[QUEUE_APPLICATION]) =>
                      \/ q[Len(q)].origin = NoOrigin
                      \/ <<q[Len(q)].origin, q[Len(q)].text>> \notin acked
<1>1. TypeOK /\ AckInv /\ [Next]_vars => [Fresh]_vars
  <2> SUFFICES ASSUME TypeOK, AckInv, Next,
                      Len(queues'[QUEUE_APPLICATION]) > Len(queues[QUEUE_APPLICATION]),
                      Head(pend).msg.origin # NoOrigin
               PROVE  <<Head(pend).msg.origin, Head(pend).msg.text>> \notin acked
    BY ApplicationGrows
  <2>1. /\ Core /\ HandlerWrite /\ NoteWrite(Head(pend).key, Head(pend).msg)
        /\ Head(pend).key = QUEUE_APPLICATION
    BY ApplicationGrows
  <2>2. <<Head(pend).msg.origin, Head(pend).msg.text>> \in OwedAcks
    BY <2>1, HandlerWriteAcks DEF Core
  <2> QED  BY <2>2, OwedAcksByPlace DEF AckInv, OwedNotAcked
<1> QED  BY <1>1, TypeCorrect, AckInvHolds, PTL DEF Spec, AckAtMostOnce

-----------------------------------------------------------------------------
(* One step of the stack, seen as a step of AckService. *)
Faulty == restarts > 0 \/ dropped \ {NoOrigin} # {}
Delivered == {x \in acked : x[1] # NoOrigin}

(* Nothing a step may do to acked, dropped and restarts is invisible to the
   service except what is nobody's. *)
LEMMA ServiceStutters ==
  ASSUME OwedAcks' = OwedAcks, Delivered' = Delivered, UNCHANGED <<sent, restarts>>,
         dropped' = dropped \/ dropped' = dropped \cup {NoOrigin}
  PROVE  UNCHANGED Service!ackVars
<1>1. Faulty' = Faulty
  <2>1. dropped' \ {NoOrigin} = dropped \ {NoOrigin}
    OBVIOUS
  <2> QED  BY <2>1 DEF Faulty
<1> QED  BY <1>1 DEF Service!ackVars, Faulty, Delivered

(* Whatever loses a request's message is a fault. *)
LEMMA ServiceFaults ==
  ASSUME OwedAcks' \subseteq OwedAcks, UNCHANGED <<sent, acked>>,
         restarts' > 0 \/ \E o \in dropped' : o # NoOrigin
  PROVE  Service!Fault
<1>1. Faulty'
  BY DEF Faulty
<1> QED  BY <1>1 DEF Service!Fault, Faulty

(* What NoteWrite records of a message that is not written to
   QUEUE_APPLICATION. *)
LEMMA NotedElsewhere ==
  ASSUME NEW k, NEW m, NoteWrite(k, m), k # QUEUE_APPLICATION \/ ~MsgsndOk(k, m)
  PROVE  /\ acked' = acked
         /\ MsgsndOk(k, m) => dropped' = dropped
         /\ ~MsgsndOk(k, m) => dropped' = dropped \cup {m.origin}
BY DEF NoteWrite

(* The steps of the core: only a handler's write is visible. *)
LEMMA CoreServes ==
  ASSUME TypeOK, FlowInv, AckInv, Core
  PROVE  Service!Next \/ UNCHANGED Service!ackVars
<1>1. UNCHANGED <<devVars, sent, restarts>>
  BY DEF Core
<1>2. CASE (CoreQueueInit \/ CoreStop) /\ UNCHANGED <<acked, dropped>>
  <2>1. queues' = queues /\ UNCHANGED pend
    BY <1>2 DEF CoreQueueInit, CoreStop, message_queue_init, qvars
  <2> QED  BY <1>1, <1>2, <2>1, QuietAcks, ServiceStutters DEF Delivered
<1>3. CASE GetMessageStateEvent /\ UNCHANGED <<acked, dropped>>
  BY <1>1, <1>3, CoreReadAcks, ServiceStutters DEF Delivered
<1>4. CASE HandlerWrite /\ NoteWrite(Head(pend).key, Head(pend).msg)
  <2> DEFINE w  == Head(pend)
             x0 == <<w.msg.origin, w.msg.text>>
             ok == MsgsndOk(w.key, w.msg)
  <2>1. /\ OwedAcks' \subseteq OwedAcks
        /\ w.msg.origin = NoOrigin => OwedAcks' = OwedAcks
        /\ ok /\ w.key # QUEUE_APPLICATION => OwedAcks' = OwedAcks
        /\ w.key = QUEUE_APPLICATION =>
             /\ OwedAcks' = OwedAcks \ {x0}
             /\ w.msg.origin # NoOrigin => x0 \in OwedAcks
    BY <1>1, <1>4, HandlerWriteAcks
  <2>2. NoteWrite(w.key, w.msg)
    BY <1>4
  <2> HIDE DEF w
  <2>3. CASE ~ok
    <3>1. acked' = acked /\ dropped' = dropped \cup {w.msg.origin}
      BY <2>2, <2>3, NotedElsewhere
    <3>2. CASE w.msg.origin = NoOrigin
      BY <1>1, <2>1, <3>1, <3>2, ServiceStutters DEF Delivered
    <3>3. CASE w.msg.origin # NoOrigin
      BY <1>1, <2>1, <3>1, <3>3, ServiceFaults DEF Service!Next
    <3> QED  BY <3>2, <3>3
  <2>4. CASE ok /\ w.key # QUEUE_APPLICATION
    BY <1>1, <2>1, <2>2, <2>4, NotedElsewhere, ServiceStutters DEF Delivered
  <2>5. CASE ok /\ w.key = QUEUE_APPLICATION
    <3>1. acked' = acked \cup {x0} /\ dropped' = dropped
      BY <2>2, <2>5 DEF NoteWrite
    <3>2. CASE w.msg.origin = NoOrigin
      <4>1. Delivered' = Delivered
        BY <3>1, <3>2 DEF Delivered
      <4> QED  BY <1>1, <2>1, <3>1, <3>2, <4>1, ServiceStutters
    <3>3. CASE w.msg.origin # NoOrigin
      <4>1. Delivered' = Delivered \cup {x0}
        BY <3>1, <3>3 DEF Delivered
      <4>2. Faulty' = Faulty
        BY <1>1, <3>1 DEF Faulty
      <4>3. x0 \in OwedAcks /\ OwedAcks' = OwedAcks \ {x0}
        BY <2>1, <2>5, <3>3
      <4>4. Service!Deliver
        BY <1>1, <4>1, <4>2, <4>3 DEF Service!Deliver, Delivered, Faulty
      <4> QED  BY <4>4 DEF Service!Next
    <3> QED  BY <3>2, <3>3
  <2> QED  BY <2>3, <2>4, <2>5
<1> QED  BY <1>2, <1>3, <1>4 DEF Core

(* The stack implements the service: every step of a process is a step of
   AckService or leaves it unchanged. *)
THEOREM ImplementsAckServiceHolds == Spec => ImplementsAckService
<1>1. Init => Service!Init
  <2> SUFFICES ASSUME Init PROVE Service!Init
    OBVIOUS
  <2>1. /\ \A k \in Keys : queues[k] = << >>
        /\ pend = << >> /\ dpc = "read" /\ sent = {} /\ acked = {} /\ dropped = {}
        /\ restarts = 0
    BY DEF Init, CoreInit, DevInit
  <2>2. \A at \in Holders : \A i \in Nat : \A x : ~Owes(at, i, x)
    BY <2>1, KeysAreKeys DEF Owes, Holders
  <2>3. OwedAcks = {}
    BY <2>2, OwedAcksByPlace
  <2>4. Faulty = FALSE /\ Delivered = {}
    BY <2>1 DEF Faulty, Delivered
  <2> QED  BY <2>1, <2>3, <2>4 DEF Service!Init, Faulty, Delivered
<1>2. TypeOK /\ FlowInv /\ AckInv /\ [Next]_vars => [Service!Next]_Service!ackVars
  <2> SUFFICES ASSUME TypeOK, FlowInv, AckInv, [Next]_vars
               PROVE  Service!Next \/ UNCHANGED Service!ackVars
    OBVIOUS
  <2>1. CASE Core
    BY <2>1, CoreServes
  <2>2. CASE Device
    <3>1. UNCHANGED <<coreVars, sent, restarts>>
      BY <2>2 DEF Device
    <3>2. CASE DeviceRead /\ UNCHANGED <<acked, dropped>>
      BY <3>1, <3>2, DeviceReadAcks, ServiceStutters DEF Delivered
    <3>3. CASE DeviceWrite /\ NoteWrite(QUEUE_CORE, dmsg)
      <4>1. /\ OwedAcks' \subseteq OwedAcks
            /\ MsgsndOk(QUEUE_CORE, dmsg) \/ dmsg.origin = NoOrigin => OwedAcks' = OwedAcks
        BY <3>1, <3>3, DeviceWriteAcks
      <4>2. /\ acked' = acked
            /\ MsgsndOk(QUEUE_CORE, dmsg) => dropped' = dropped
            /\ ~MsgsndOk(QUEUE_CORE, dmsg) => dropped' = dropped \cup {dmsg.origin}
        BY <3>3, NotedElsewhere DEF QUEUE_CORE, QUEUE_APPLICATION
      <4>3. CASE MsgsndOk(QUEUE_CORE, dmsg) \/ dmsg.origin = NoOrigin
        BY <3>1, <4>1, <4>2, <4>3, ServiceStutters DEF Delivered
      <4>4. CASE ~(MsgsndOk(QUEUE_CORE, dmsg) \/ dmsg.origin = NoOrigin)
        BY <3>1, <4>1, <4>2, <4>4, ServiceFaults DEF Service!Next
      <4> QED  BY <4>3, <4>4
    <3> QED  BY <2>2, <3>2, <3>3 DEF Device
  <2>3. CASE \E a \in Apps : User(a)
    <3>1. PICK a \in Apps : User(a)
      BY <2>3
    <3> DEFINE o == call'[a]
    <3>2. UNCHANGED restarts /\ NoteWrite(QUEUE_CORE, buf'[a])
      BY <3>1 DEF User
    <3>3. /\ acked' = acked
          /\ MsgsndOk(QUEUE_CORE, buf'[a]) => dropped' = dropped
      BY <3>2, NotedElsewhere DEF QUEUE_CORE, QUEUE_APPLICATION
    <3>4. /\ o \in Requests /\ o \notin sent
          /\ MsgsndOk(QUEUE_CORE, buf'[a]) =>
               sent' = sent \cup {o} /\ OwedAcks' = OwedAcks \cup Service!AcksFor(o)
          /\ ~MsgsndOk(QUEUE_CORE, buf'[a]) =>
               sent' = sent /\ OwedAcks' = OwedAcks /\ o \in dropped'
      BY <3>1, UserAcks
    <3>5. CASE MsgsndOk(QUEUE_CORE, buf'[a])
      <4>1. Faulty' = Faulty /\ Delivered' = Delivered
        BY <3>2, <3>3, <3>5 DEF Faulty, Delivered
      <4>2. o \in sent' \ sent
        BY <3>4, <3>5
      <4>3. Service!Ask
        BY <3>4, <3>5, <4>1, <4>2 DEF Service!Ask, Faulty, Delivered
      <4> QED  BY <4>3 DEF Service!Next
    <3>6. CASE ~MsgsndOk(QUEUE_CORE, buf'[a])
      <4>1. o # NoOrigin
        BY <3>4, StackAssumption
      <4> QED  BY <3>3, <3>4, <3>6, <4>1, ServiceFaults DEF Service!Next
    <3> QED  BY <3>5, <3>6
  <2>4. CASE \E a \in Apps : CallReturns(a)
    <3>1. PICK a \in Apps : CallReturns(a)
      BY <2>4
    <3>2. UNCHANGED <<pend, devVars, acked, sent, dropped, restarts>>
      BY <3>1 DEF CallReturns, coreVars, auxVars
    <3>3. /\ queues'[QUEUE_CORE] = queues[QUEUE_CORE]
          /\ queues'[QUEUE_DEVICE] = queues[QUEUE_DEVICE]
      <4>1. message_queue_read(QUEUE_APPLICATION) /\ QueueTypeOK
        BY <3>1 DEF CallReturns, ReadAck, TypeOK
      <4> QED  BY <4>1, ReadShape, KeysAreKeys DEF QUEUE_CORE, QUEUE_DEVICE, QUEUE_APPLICATION
    <3> QED  BY <3>2, <3>3, QuietAcks, ServiceStutters DEF Delivered
  <2>5. CASE Restart
    <3>1. restarts' > 0 /\ UNCHANGED <<sent, acked>>
      BY <2>5 DEF Restart, TypeOK, AuxTypeOK
    <3> QED  BY <2>5, <3>1, RestartAcks, ServiceFaults DEF Service!Next
  <2>6. CASE UNCHANGED vars
    <3>1. /\ UNCHANGED <<pend, devVars, acked, sent, dropped, restarts>> /\ queues' = queues
      BY <2>6 DEF vars, coreVars, auxVars, qvars, devVars
    <3> QED  BY <3>1, QuietAcks, ServiceStutters DEF Delivered
  <2> QED  BY <2>1, <2>2, <2>3, <2>4, <2>5, <2>6 DEF Next
<1> QED  BY <1>1, <1>2, TypeCorrect, FlowCorrect, AckInvHolds, PTL
         DEF Spec, ImplementsAckService, Service!Spec

-----------------------------------------------------------------------------
(* The numbers.                                                            *)

(* What a request that met no fault has had and is still owed. *)
Conserved ==
  restarts = 0 =>
    \A o \in sent \ dropped : {x \in acked \cup OwedAcks : x[1] = o} = Service!AcksFor(o)

(* Every step of the stack conserves them. *)
LEMMA ConservedStep ==
  ASSUME TypeOK, FlowInv, AckInv, Conserved, [Next]_vars
  PROVE  Conserved'
<1> SUFFICES ASSUME restarts' = 0, NEW o \in sent' \ dropped'
             PROVE  {x \in acked' \cup OwedAcks' : x[1] = o} = Service!AcksFor(o)
  BY DEF Conserved, Service!AcksFor
<1>1. ASSUME o \in sent, dropped \subseteq dropped', UNCHANGED restarts,
             \A x : x[1] = o => (x \in acked' \cup OwedAcks' <=> x \in acked \cup OwedAcks)
      PROVE  {x \in acked' \cup OwedAcks' : x[1] = o} = Service!AcksFor(o)
  BY <1>1 DEF Conserved
<1>2. sent \subseteq Requests /\ NoOrigin \notin Requests
  BY StackAssumption DEF TypeOK, AuxTypeOK
<1>3. CASE Core
  <2>1. UNCHANGED <<devVars, sent, restarts>>
    BY <1>3 DEF Core
  <2>2. CASE (CoreQueueInit \/ CoreStop) /\ UNCHANGED <<acked, dropped>>
    <3>1. queues' = queues /\ UNCHANGED pend
      BY <2>2 DEF CoreQueueInit, CoreStop, message_queue_init, qvars
    <3> QED  BY <1>1, <2>1, <2>2, <3>1, QuietAcks
  <2>3. CASE GetMessageStateEvent /\ UNCHANGED <<acked, dropped>>
    BY <1>1, <2>1, <2>3, CoreReadAcks
  <2>4. CASE HandlerWrite /\ NoteWrite(Head(pend).key, Head(pend).msg)
    <3> DEFINE w  == Head(pend)
               x0 == <<w.msg.origin, w.msg.text>>
               ok == MsgsndOk(w.key, w.msg)
    <3>1. /\ OwedAcks' \subseteq OwedAcks
          /\ \A x \in OwedAcks \ OwedAcks' : x[1] = w.msg.origin
          /\ ok /\ w.key # QUEUE_APPLICATION => OwedAcks' = OwedAcks
          /\ w.key = QUEUE_APPLICATION =>
               /\ OwedAcks' = OwedAcks \ {x0}
               /\ w.msg.origin # NoOrigin => x0 \in OwedAcks
      BY <2>1, <2>4, HandlerWriteAcks
    <3>2. NoteWrite(w.key, w.msg)
      BY <2>4
    <3> HIDE DEF w
    <3>3. o \in sent /\ o # NoOrigin
      BY <1>2, <2>1
    <3>4. CASE ~ok
      <4>1. acked' = acked /\ dropped' = dropped \cup {w.msg.origin}
        BY <3>2, <3>4, NotedElsewhere
      <4>2. o # w.msg.origin
        BY <4>1
      <4> QED  BY <1>1, <2>1, <3>1, <3>3, <4>1, <4>2
    <3>5. CASE ok /\ w.key # QUEUE_APPLICATION
      BY <1>1, <2>1, <3>1, <3>2, <3>3, <3>5, NotedElsewhere
    <3>6. CASE ok /\ w.key = QUEUE_APPLICATION
      <4>1. acked' = acked \cup {x0} /\ dropped' = dropped /\ x0[1] = w.msg.origin
        BY <3>2, <3>6 DEF NoteWrite
      <4> HIDE DEF x0
      <4>2. \A x : x[1] = o => (x \in acked' \cup OwedAcks' <=> x \in acked \cup OwedAcks)
        BY <3>1, <3>3, <3>6, <4>1
      <4> QED  BY <1>1, <2>1, <3>3, <4>1, <4>2
    <3> QED  BY <3>4, <3>5, <3>6
  <2> QED  BY <1>3, <2>2, <2>3, <2>4 DEF Core
<1>4. CASE Device
  <2>1. UNCHANGED <<coreVars, sent, restarts>>
    BY <1>4 DEF Device
  <2>2. CASE DeviceRead /\ UNCHANGED <<acked, dropped>>
    BY <1>1, <2>1, <2>2, DeviceReadAcks
  <2>3. CASE DeviceWrite /\ NoteWrite(QUEUE_CORE, dmsg)
    <3>1. /\ OwedAcks' \subseteq OwedAcks
          /\ \A x \in OwedAcks \ OwedAcks' : x[1] = dmsg.origin
          /\ MsgsndOk(QUEUE_CORE, dmsg) => OwedAcks' = OwedAcks
      BY <2>1, <2>3, DeviceWriteAcks
    <3>2. /\ acked' = acked /\ dropped \subseteq dropped'
          /\ ~MsgsndOk(QUEUE_CORE, dmsg) => dmsg.origin \in dropped'
      BY <2>3, NotedElsewhere DEF QUEUE_CORE, QUEUE_APPLICATION
    <3> QED  BY <1>1, <2>1, <3>1, <3>2
  <2> QED  BY <1>4, <2>2, <2>3 DEF Device
<1>5. CASE \E a \in Apps : User(a)
  <2>1. PICK a \in Apps : User(a)
    BY <1>5
  <2> DEFINE n == call'[a]
             ok == MsgsndOk(QUEUE_CORE, buf'[a])
  <2>2. /\ UNCHANGED restarts /\ acked' = acked /\ dropped \subseteq dropped'
    BY <2>1 DEF User, NoteWrite, QUEUE_CORE, QUEUE_APPLICATION
  <2>3. /\ n \in Requests /\ n \notin sent
        /\ ok => sent' = sent \cup {n} /\ OwedAcks' = OwedAcks \cup Service!AcksFor(n)
        /\ ~ok => sent' = sent /\ OwedAcks' = OwedAcks
    BY <2>1, UserAcks
  <2>4. \A x \in Service!AcksFor(n) : x[1] = n
    BY DEF Service!AcksFor
  <2>5. \A x \in OwedAcks : x[1] \in sent
    BY OwesSent, OwedAcksByPlace
  <2>6. \A x \in acked : x[1] \in sent \/ x[1] = NoOrigin
    BY DEF FlowInv, AckCausality
  <2> HIDE DEF n, ok
  <2>7. CASE o \in sent
    BY <1>1, <2>2, <2>3, <2>4, <2>7
  <2>8. CASE o \notin sent
    <3>1. o = n /\ OwedAcks' = OwedAcks \cup Service!AcksFor(n)
      BY <2>3, <2>8
    <3>2. \A x : x \in acked' \cup OwedAcks' /\ x[1] = o <=> x \in Service!AcksFor(o)
      BY <1>2, <2>2, <2>3, <2>4, <2>5, <2>6, <3>1
    <3> QED  BY <3>2
  <2> QED  BY <2>7, <2>8
<1>6. CASE \E a \in Apps : CallReturns(a)
  <2>1. PICK a \in Apps : CallReturns(a)
    BY <1>6
  <2>2. UNCHANGED <<pend, devVars, acked, sent, dropped, restarts>>
    BY <2>1 DEF CallReturns, coreVars, auxVars
  <2>3. /\ queues'[QUEUE_CORE] = queues[QUEUE_CORE]
        /\ queues'[QUEUE_DEVICE] = queues[QUEUE_DEVICE]
    <3>1. message_queue_read(QUEUE_APPLICATION) /\ QueueTypeOK
      BY <2>1 DEF CallReturns, ReadAck, TypeOK
    <3> QED  BY <3>1, ReadShape, KeysAreKeys DEF QUEUE_CORE, QUEUE_DEVICE, QUEUE_APPLICATION
  <2> QED  BY <1>1, <2>2, <2>3, QuietAcks
<1>7. CASE Restart
  BY <1>7 DEF Restart, TypeOK, AuxTypeOK
<1>8. CASE UNCHANGED vars
  <2>1. /\ UNCHANGED <<pend, devVars, acked, sent, dropped, restarts>> /\ queues' = queues
    BY <1>8 DEF vars, coreVars, auxVars, qvars, devVars
  <2> QED  BY <1>1, <2>1, QuietAcks
<1> QED  BY <1>3, <1>4, <1>5, <1>6, <1>7, <1>8 DEF Next

(* A request that met no fault has had, or is owed, what it was promised. *)
THEOREM ConservedHolds == Spec => []Conserved
<1>1. Init => Conserved
  BY DEF Init, Conserved
<1>2. TypeOK /\ FlowInv /\ AckInv /\ Conserved /\ [Next]_vars => Conserved'
  BY ConservedStep
<1> QED  BY <1>1, <1>2, TypeCorrect, FlowCorrect, AckInvHolds, PTL DEF Spec

(* Where x is owed, by position. *)
At(at, x) == {i \in Nat : Owes(at, i, x)}

(* At most one message at a place owes x, and if one does no other place has
   such a message. *)
LEMMA AtCounts ==
  ASSUME AckInv, NEW at \in Holders, NEW x
  PROVE  /\ IsFiniteSet(At(at, x))
         /\ (\E i \in Nat : Owes(at, i, x)) => Cardinality(At(at, x)) = 1
         /\ ~(\E i \in Nat : Owes(at, i, x)) => Cardinality(At(at, x)) = 0
         /\ (\E i \in Nat : Owes(at, i, x)) =>
              \A at2 \in Holders : \A i \in Nat : Owes(at2, i, x) => at2 = at
<1>1. CASE \E i \in Nat : Owes(at, i, x)
  <2>1. PICK i \in Nat : Owes(at, i, x)
    BY <1>1
  <2>2. \A at2 \in Holders : \A j \in Nat : Owes(at2, j, x) => at2 = at /\ j = i
    BY <2>1 DEF AckInv, OwedOnce
  <2>3. At(at, x) = {i}
    BY <2>1, <2>2 DEF At
  <2> QED  BY <1>1, <2>2, <2>3, FS_Singleton
<1>2. CASE ~(\E i \in Nat : Owes(at, i, x))
  <2>1. At(at, x) = {}
    BY <1>2 DEF At
  <2> QED  BY <1>2, <2>1, FS_EmptySet
<1> QED  BY <1>1, <1>2

(* Counting the messages under way counts the acknowledgements owed. *)
LEMMA Counted ==
  ASSUME TypeOK, FlowInv, AckInv, Conserved
  PROVE  AckConservation
<1> SUFFICES ASSUME restarts = 0, NEW o \in sent \ dropped
             PROVE  Cardinality({x \in acked : x[1] = o}) + Owed(o) = AcksOf(o)
  BY DEF AckConservation
<1> DEFINE A == <<o, "app_ack">>
           B == <<o, "ack_request">>
           core == queues[QUEUE_CORE]
           device == queues[QUEUE_DEVICE]
<1>1. /\ o # NoOrigin
      /\ A # B /\ A[1] = o /\ B[1] = o
      /\ Service!AcksFor(o) = IF o.event = EV_SEND_TO_CORE THEN {A, B} ELSE {A}
  BY StackAssumption DEF TypeOK, AuxTypeOK, Service!AcksFor, Service!EV_SEND_TO_CORE,
     EV_SEND_TO_CORE
<1>2. {x \in acked \cup OwedAcks : x[1] = o} = Service!AcksFor(o)
  BY DEF Conserved
<1>3. ASSUME NEW at \in Holders, NEW i \in Nat, NEW x, Owes(at, i, x), x[1] = o
      PROVE  x = A \/ x = B
  BY <1>1, <1>2, <1>3, OwedAcksByPlace
<1>4. In(QUEUE_CORE, o) = At("core", A)
  <2>1. \A i \in 1..Len(core) : core[i].origin = o <=> A \in AcksFromCore(core[i])
    BY DEF AcksFromCore
  <2> QED  BY <1>1, <2>1 DEF In, At, Owes
<1>5. {i \in In(QUEUE_CORE, o) : core[i].event = EV_SEND_TO_CORE} = At("core", B)
  <2>1. ASSUME NEW i \in 1..Len(core), core[i].origin = o, core[i].event = EV_SEND_TO_CORE
        PROVE  Owes("core", i, B)
    <3>1. Sound(QUEUE_CORE, core[i], sent, seen, blind)
      BY KeysAreKeys DEF FlowInv, QueueInv
    <3>2. core[i].text # "app_ack"
      BY <1>1, <2>1, <3>1 DEF Sound, CoreBound, EV_SEND_TO_CORE, EV_SEND_TO_DEVICE
    <3>3. Owes("core", i, <<o, core[i].text>>)
      BY <1>1, <2>1 DEF Owes, AcksFromCore
    <3>4. <<o, core[i].text>> = B
      BY <1>3, <3>2, <3>3 DEF Holders
    <3> QED  BY <3>3, <3>4
  <2>2. ASSUME NEW i \in Nat, Owes("core", i, B)
        PROVE  i \in 1..Len(core) /\ core[i].origin = o /\ core[i].event = EV_SEND_TO_CORE
    <3>1. i \in 1..Len(core) /\ B \in AcksFromCore(core[i])
      BY <2>2 DEF Owes
    <3>2. B # <<core[i].origin, "app_ack">>
      OBVIOUS
    <3> QED  BY <3>1, <3>2 DEF AcksFromCore
  <2> QED  BY <2>1, <2>2 DEF In, At
<1>6. In(QUEUE_DEVICE, o) = At("device", A)
  BY <1>1 DEF In, At, Owes
<1>7. At("device", B) = {} /\ At("wrapper", B) = {}
  <2>1. \A p : B # <<p, "app_ack">>
    OBVIOUS
  <2> QED  BY <2>1 DEF At, Owes
<1>8. {i \in 1..Len(pend) : pend[i].msg.origin = o} = At("pend", A) \cup At("pend", B)
  <2>1. ASSUME NEW i \in 1..Len(pend), pend[i].msg.origin = o
        PROVE  Owes("pend", i, A) \/ Owes("pend", i, B)
    <3> DEFINE x == <<o, IF pend[i].key = QUEUE_APPLICATION THEN pend[i].msg.text
                         ELSE "app_ack">>
    <3>1. AcksFromWrite(pend[i]) = {x} /\ x[1] = o
      BY <2>1 DEF AcksFromWrite
    <3> HIDE DEF x
    <3>2. Owes("pend", i, x)
      BY <1>1, <3>1 DEF Owes
    <3> QED  BY <1>3, <3>1, <3>2 DEF Holders
  <2>2. ASSUME NEW i \in Nat, NEW x, Owes("pend", i, x), x[1] = o
        PROVE  i \in 1..Len(pend) /\ pend[i].msg.origin = o
    BY <2>2 DEF Owes, AcksFromWrite
  <2> QED  BY <1>1, <2>1, <2>2 DEF At
<1>9. At("pend", A) \cap At("pend", B) = {}
  BY <1>1 DEF At, Owes, AcksFromWrite
<1>10. (dpc = "write" /\ dmsg.origin = o) <=> \E i \in Nat : Owes("wrapper", i, A)
  BY <1>1 DEF Owes
<1> HIDE DEF A, B
<1> DEFINE c == Cardinality(At("core", A))
           d == Cardinality(At("device", A))
           p == Cardinality(At("pend", A))
           r == IF dpc = "write" /\ dmsg.origin = o THEN 1 ELSE 0
           cb == Cardinality(At("core", B))
           pb == Cardinality(At("pend", B))
           k == Cardinality({x \in acked : x[1] = o})
<1>11. Owed(o) = c + cb + d + (p + pb) + r
  <2>1. IsFiniteSet(At("pend", A)) /\ IsFiniteSet(At("pend", B)) /\ p \in Nat /\ pb \in Nat
    BY AtCounts, FS_CardinalityType DEF Holders
  <2>2. At("pend", A) \cap At("pend", B) = {}
    BY <1>9
  <2>3. Cardinality(At("pend", A) \cup At("pend", B)) = p + pb
    <3>1. Cardinality(At("pend", A) \cup At("pend", B))
            = p + pb - Cardinality(At("pend", A) \cap At("pend", B))
      BY <2>1, FS_Union
    <3>2. Cardinality(At("pend", A) \cap At("pend", B)) = 0
      BY <2>2, FS_EmptySet
    <3> HIDE DEF p, pb
    <3> QED  BY <2>1, <3>1, <3>2
  <2> QED  BY <1>4, <1>5, <1>6, <1>8, <2>3 DEF Owed
<1>12. /\ A \in OwedAcks => c + d + p + r = 1
       /\ A \notin OwedAcks => c + d + p + r = 0
       /\ c \in Nat /\ d \in Nat /\ p \in Nat /\ r \in Nat
  <2> DEFINE Has(at) == \E i \in Nat : Owes(at, i, A)
  <2>1. A \in OwedAcks <=> Has("core") \/ Has("device") \/ Has("pend") \/ Has("wrapper")
    BY OwedAcksByPlace DEF Holders
  <2>2. /\ c = IF Has("core") THEN 1 ELSE 0
        /\ d = IF Has("device") THEN 1 ELSE 0
        /\ p = IF Has("pend") THEN 1 ELSE 0
        /\ r = IF Has("wrapper") THEN 1 ELSE 0
    BY <1>10, AtCounts DEF Holders
  <2>3. \A at, at2 \in Holders : Has(at) /\ Has(at2) => at = at2
    BY AtCounts
  <2>4. /\ ~(Has("core") /\ Has("device")) /\ ~(Has("core") /\ Has("pend"))
        /\ ~(Has("core") /\ Has("wrapper")) /\ ~(Has("device") /\ Has("pend"))
        /\ ~(Has("device") /\ Has("wrapper")) /\ ~(Has("pend") /\ Has("wrapper"))
    BY <2>3 DEF Holders
  <2> HIDE DEF Has, c, d, p, r
  <2> QED  BY <2>1, <2>2, <2>4
<1>13. /\ B \in OwedAcks => cb + pb = 1
       /\ B \notin OwedAcks => cb + pb = 0
       /\ cb \in Nat /\ pb \in Nat
  <2> DEFINE Has(at) == \E i \in Nat : Owes(at, i, B)
  <2>1. B \in OwedAcks <=> Has("core") \/ Has("pend")
    BY <1>7, OwedAcksByPlace DEF Holders, At
  <2>2. /\ cb = IF Has("core") THEN 1 ELSE 0
        /\ pb = IF Has("pend") THEN 1 ELSE 0
    BY AtCounts DEF Holders
  <2>3. ~(Has("core") /\ Has("pend"))
    BY AtCounts DEF Holders
  <2> HIDE DEF Has, cb, pb
  <2> QED  BY <2>1, <2>2, <2>3
<1>14. /\ A \in OwedAcks => A \notin acked
       /\ B \in OwedAcks => B \notin acked
  BY OwedAcksByPlace DEF AckInv, OwedNotAcked
<1>15. \A x : x \in acked /\ x[1] = o => x \in Service!AcksFor(o)
  BY <1>2
<1>16. \A x \in Service!AcksFor(o) : x[1] = o /\ (x \in acked \/ x \in OwedAcks)
  BY <1>2
<1> HIDE DEF c, d, p, r, cb, pb
<1>17. CASE o.event # EV_SEND_TO_CORE
  <2>1. B \notin OwedAcks
    BY <1>1, <1>2, <1>17
  <2>2. {x \in acked : x[1] = o} = IF A \in OwedAcks THEN {} ELSE {A}
    BY <1>1, <1>14, <1>15, <1>16, <1>17
  <2>3. k = IF A \in OwedAcks THEN 0 ELSE 1
    BY <2>2, FS_EmptySet, FS_Singleton
  <2> HIDE DEF k
  <2> QED  BY <1>11, <1>12, <1>13, <1>17, <2>1, <2>3 DEF AcksOf, k
<1>18. CASE o.event = EV_SEND_TO_CORE
  <2>1. {x \in acked : x[1] = o} = (IF A \in OwedAcks THEN {} ELSE {A})
                                   \cup (IF B \in OwedAcks THEN {} ELSE {B})
    BY <1>1, <1>14, <1>15, <1>16, <1>18
  <2>2. Cardinality({A} \cup {B}) = 2
    <3>1. IsFiniteSet({A}) /\ Cardinality({A}) = 1 /\ B \notin {A}
      BY <1>1, FS_Singleton
    <3>2. Cardinality({A} \cup {B}) = Cardinality({A}) + 1
      BY <3>1, FS_AddElement
    <3> QED  BY <3>1, <3>2
  <2>3. k = (IF A \in OwedAcks THEN 0 ELSE 1) + (IF B \in OwedAcks THEN 0 ELSE 1)
    <3>1. CASE A \in OwedAcks /\ B \in OwedAcks
      BY <2>1, <3>1, FS_EmptySet
    <3>2. CASE A \in OwedAcks /\ B \notin OwedAcks
      <4>1. {x \in acked : x[1] = o} = {B}
        BY <2>1, <3>2
      <4>2. Cardinality({B}) = 1
        BY FS_Singleton
      <4> QED  BY <3>2, <4>1, <4>2
    <3>3. CASE A \notin OwedAcks /\ B \in OwedAcks
      <4>1. {x \in acked : x[1] = o} = {A}
        BY <2>1, <3>3
      <4>2. Cardinality({A}) = 1
        BY FS_Singleton
      <4> QED  BY <3>3, <4>1, <4>2
    <3>4. CASE A \notin OwedAcks /\ B \notin OwedAcks
      BY <2>1, <2>2, <3>4
    <3> QED  BY <3>1, <3>2, <3>3, <3>4
  <2> HIDE DEF k
  <2> QED  BY <1>11, <1>12, <1>13, <1>18, <2>3 DEF AcksOf, k
<1> QED  BY <1>17, <1>18

(* Unless a fault touched it, a request has had its acknowledgements or they
   are under way. *)
THEOREM AckConservationHolds == Spec => []AckConservation
<1>1. TypeOK /\ FlowInv /\ AckInv /\ Conserved => AckConservation
  BY Counted
<1> QED  BY <1>1, TypeCorrect, FlowCorrect, AckInvHolds, ConservedHolds, PTL

-----------------------------------------------------------------------------
(* WaitersCovered, with the finiteness its cardinalities need. *)
Covered ==
  restarts = 0 /\ dropped \subseteq {NoOrigin} =>
    /\ IsFiniteSet(Waiters) /\ IsFiniteSet(OwedAcks)
    /\ Cardinality(Waiters) <= Len(queues[QUEUE_APPLICATION]) + Cardinality(OwedAcks)

(* Every step of the stack keeps the waiting calls covered: a call that starts
   to wait has added what it is owed, one that returns takes one message, and
   an acknowledgement that is no longer owed is in the queue. *)
LEMMA CoveredStep ==
  ASSUME TypeOK, FlowInv, AckInv, Covered, [Next]_vars
  PROVE  Covered'
<1> DEFINE q == queues[QUEUE_APPLICATION]
           r == queues'[QUEUE_APPLICATION]
           W == Waiters
           V == Waiters'
           O == OwedAcks
           P == OwedAcks'
<1> SUFFICES ASSUME restarts' = 0, dropped' \subseteq {NoOrigin}
             PROVE  /\ IsFiniteSet(V) /\ IsFiniteSet(P)
                    /\ Cardinality(V) <= Len(r) + Cardinality(P)
  BY DEF Covered
<1>1. restarts = 0 /\ dropped \subseteq {NoOrigin} /\ UNCHANGED restarts
  <2>1. dropped \subseteq dropped'
    BY DEF Next, Core, Device, User, CallReturns, Restart, NoteWrite, vars, auxVars
  <2>2. UNCHANGED restarts
    BY DEF Next, Core, Device, User, CallReturns, Restart, vars, auxVars, TypeOK, AuxTypeOK
  <2> QED  BY <2>1, <2>2
<1>2. /\ IsFiniteSet(W) /\ IsFiniteSet(O) /\ Cardinality(W) \in Nat /\ Cardinality(O) \in Nat
      /\ Cardinality(W) <= Len(q) + Cardinality(O)
      /\ Len(q) \in Nat /\ QueueTypeOK
  BY <1>1, FS_CardinalityType, KeysAreKeys, LenProperties DEF Covered, TypeOK, QueueTypeOK
<1>3. ASSUME UNCHANGED apc PROVE V = W
  BY <1>3 DEF Waiters
<1>4. ASSUME V = W, P = O, Len(r) >= Len(q), Len(r) \in Nat
      PROVE  /\ IsFiniteSet(V) /\ IsFiniteSet(P)
             /\ Cardinality(V) <= Len(r) + Cardinality(P)
  <2> HIDE DEF V, W, O, P, q, r
  <2> QED  BY <1>2, <1>4
<1>5. /\ QUEUE_CORE # QUEUE_APPLICATION /\ QUEUE_DEVICE # QUEUE_APPLICATION
      /\ QUEUE_CORE # QUEUE_DEVICE
  BY DEF QUEUE_CORE, QUEUE_DEVICE, QUEUE_APPLICATION
<1>6. CASE Core
  <2>1. UNCHANGED <<devVars, sent>> /\ V = W
    BY <1>3, <1>6 DEF Core, appVars
  <2>2. CASE (CoreQueueInit \/ CoreStop) /\ UNCHANGED <<acked, dropped>>
    <3>1. queues' = queues /\ UNCHANGED pend
      BY <2>2 DEF CoreQueueInit, CoreStop, message_queue_init, qvars
    <3> QED  BY <1>2, <1>4, <2>1, <2>2, <3>1, QuietAcks
  <2>3. CASE GetMessageStateEvent /\ UNCHANGED <<acked, dropped>>
    <3>1. P = O
      BY <2>1, <2>3, CoreReadAcks
    <3>2. r = q
      BY <1>2, <1>5, <2>3, ReadShape, KeysAreKeys DEF GetMessageStateEvent
    <3> QED  BY <1>2, <1>4, <2>1, <3>1, <3>2
  <2>4. CASE HandlerWrite /\ NoteWrite(Head(pend).key, Head(pend).msg)
    <3> DEFINE w  == Head(pend)
               x0 == <<w.msg.origin, w.msg.text>>
               ok == MsgsndOk(w.key, w.msg)
    <3>1. /\ w.msg.origin = NoOrigin => P = O
          /\ ok /\ w.key # QUEUE_APPLICATION => P = O
          /\ w.key = QUEUE_APPLICATION => P = O \ {x0}
      BY <2>1, <2>4, HandlerWriteAcks
    <3>2. w \in [key : Keys, msg : MsgBuff]
      BY <2>4, HeadTailProperties DEF TypeOK, CoreTypeOK, HandlerWrite
    <3>3. message_queue_write(w.key, w.msg) /\ NoteWrite(w.key, w.msg)
      BY <2>4 DEF HandlerWrite
    <3> HIDE DEF w
    <3>4. /\ w.key # QUEUE_APPLICATION \/ ~ok => r = q
          /\ w.key = QUEUE_APPLICATION /\ ok => Len(r) = Len(q) + 1
      BY <1>2, <3>2, <3>3, WriteShape, KeysAreKeys
    <3>5. ok \/ w.msg.origin = NoOrigin
      BY <3>3 DEF NoteWrite
    <3>6. CASE w.key # QUEUE_APPLICATION \/ ~ok
      BY <1>2, <1>4, <2>1, <3>1, <3>4, <3>5, <3>6
    <3>7. CASE w.key = QUEUE_APPLICATION /\ ok
      <4>1. Len(r) = Len(q) + 1 /\ P = O \ {x0}
        BY <3>1, <3>4, <3>7
      <4>2. IsFiniteSet(P) /\ Cardinality(P) >= Cardinality(O) - 1 /\ Cardinality(P) \in Nat
        <5>1. /\ IsFiniteSet(P)
              /\ Cardinality(P) = IF x0 \in O THEN Cardinality(O) - 1 ELSE Cardinality(O)
          BY <1>2, <4>1, FS_RemoveElement
        <5>2. Cardinality(P) \in Nat
          BY <5>1, FS_CardinalityType
        <5> HIDE DEF O, P
        <5> QED  BY <1>2, <5>1, <5>2
      <4> HIDE DEF O, P, V, W, q, r
      <4> QED  BY <1>2, <2>1, <4>1, <4>2
    <3> QED  BY <3>6, <3>7
  <2> QED  BY <1>6, <2>2, <2>3, <2>4 DEF Core
<1>7. CASE Device
  <2>1. UNCHANGED <<coreVars, sent>> /\ V = W
    BY <1>3, <1>7 DEF Device, appVars
  <2>2. CASE DeviceRead /\ UNCHANGED <<acked, dropped>>
    <3>1. P = O
      BY <2>1, <2>2, DeviceReadAcks
    <3>2. r = q
      BY <1>2, <1>5, <2>2, ReadShape, KeysAreKeys DEF DeviceRead
    <3> QED  BY <1>2, <1>4, <2>1, <3>1, <3>2
  <2>3. CASE DeviceWrite /\ NoteWrite(QUEUE_CORE, dmsg)
    <3>1. MsgsndOk(QUEUE_CORE, dmsg) \/ dmsg.origin = NoOrigin
      BY <2>3 DEF NoteWrite
    <3>2. P = O
      BY <2>1, <2>3, <3>1, DeviceWriteAcks
    <3>3. r = q
      BY <1>2, <1>5, <2>3, WriteShape, KeysAreKeys DEF DeviceWrite, TypeOK, DevTypeOK
    <3> QED  BY <1>2, <1>4, <2>1, <3>2, <3>3
  <2> QED  BY <1>7, <2>2, <2>3 DEF Device
<1>8. CASE \E a \in Apps : User(a)
  <2>1. PICK a \in Apps : User(a)
    BY <1>8
  <2> DEFINE o == call'[a]
             x1 == <<o, "app_ack">>
  <2>2. /\ o \in Requests /\ o \notin sent
        /\ ~MsgsndOk(QUEUE_CORE, buf'[a]) => o \in dropped'
        /\ MsgsndOk(QUEUE_CORE, buf'[a]) => P = O \cup Service!AcksFor(o)
    BY <2>1, UserAcks
  <2>3. P = O \cup Service!AcksFor(o)
    BY <2>2, StackAssumption
  <2>4. PICK ev \in RequestEvents, t \in Texts \ {"app_ack"}, pc \in {"menu", "wait"} :
           SendRequest(a, Request(a, ev, t), pc)
    BY <2>1, CallsSendRequests DEF User
  <2>5. Request(a, ev, t) \in MsgBuff
    BY RequestType DEF TypeOK
  <2>6. r = q
    BY <1>2, <1>5, <2>4, <2>5, WriteShape, KeysAreKeys DEF SendRequest
  <2>7. V \subseteq W \cup {a}
    BY <2>4 DEF SendRequest, Waiters, TypeOK, AppTypeOK
  <2>8. IsFiniteSet(V) /\ Cardinality(V) \in Nat /\ Cardinality(V) <= Cardinality(W) + 1
    <3>1. IsFiniteSet(W \cup {a}) /\ Cardinality(W \cup {a}) <= Cardinality(W) + 1
      <4>1. /\ IsFiniteSet(W \cup {a})
            /\ Cardinality(W \cup {a}) =
                 IF a \in W THEN Cardinality(W) ELSE Cardinality(W) + 1
        BY <1>2, FS_AddElement
      <4> HIDE DEF W
      <4> QED  BY <1>2, <4>1
    <3>2. IsFiniteSet(V) /\ Cardinality(V) <= Cardinality(W \cup {a})
      BY <2>7, <3>1, FS_Subset
    <3>3. Cardinality(V) \in Nat /\ Cardinality(W \cup {a}) \in Nat
      BY <3>1, <3>2, FS_CardinalityType
    <3> HIDE DEF V, W
    <3> QED  BY <1>2, <3>1, <3>2, <3>3
  <2>9. x1 \notin O
    <3>1. \A x \in O : x[1] \in sent
      BY OwesSent, OwedAcksByPlace
    <3> QED  BY <2>2, <3>1
  <2>10. IsFiniteSet(P) /\ Cardinality(P) \in Nat /\ Cardinality(P) >= Cardinality(O) + 1
    <3>1. IsFiniteSet(O \cup {x1}) /\ Cardinality(O \cup {x1}) = Cardinality(O) + 1
      BY <1>2, <2>9, FS_AddElement
    <3>2. PICK y : P = (O \cup {x1}) \cup {y}
      <4>1. \/ Service!AcksFor(o) = {x1} \cup {x1}
            \/ Service!AcksFor(o) = {x1} \cup {<<o, "ack_request">>}
        BY DEF Service!AcksFor
      <4> QED  BY <2>3, <4>1
    <3>3. IsFiniteSet(P) /\ Cardinality(P) >= Cardinality(O \cup {x1})
      <4>1. Cardinality(O \cup {x1}) \in Nat
        BY <3>1, FS_CardinalityType
      <4> DEFINE S == O \cup {x1}
      <4>2. /\ IsFiniteSet(P)
            /\ Cardinality(P) = IF y \in S THEN Cardinality(S) ELSE Cardinality(S) + 1
        BY <3>1, <3>2, FS_AddElement
      <4> HIDE DEF P, S
      <4>3. Cardinality(S) \in Nat
        BY <4>1 DEF S
      <4>4. Cardinality(P) >= Cardinality(S)
        BY <4>2, <4>3
      <4> QED  BY <4>2, <4>4 DEF S
    <3> QED  BY <1>2, <3>1, <3>3, FS_CardinalityType
  <2> HIDE DEF O, P, V, W, q, r
  <2> QED  BY <1>2, <2>6, <2>8, <2>10
<1>9. CASE \E a \in Apps : CallReturns(a)
  <2>1. PICK a \in Apps : CallReturns(a)
    BY <1>9
  <2>2. UNCHANGED <<pend, devVars, acked, sent, dropped>>
    BY <2>1 DEF CallReturns, coreVars, auxVars
  <2>3. message_queue_read(QUEUE_APPLICATION)
    BY <2>1 DEF CallReturns, ReadAck
  <2>4. P = O
    <3>1. /\ queues'[QUEUE_CORE] = queues[QUEUE_CORE]
          /\ queues'[QUEUE_DEVICE] = queues[QUEUE_DEVICE]
      BY <1>2, <1>5, <2>3, ReadShape, KeysAreKeys
    <3> QED  BY <2>2, <3>1, QuietAcks
  <2>5. Len(r) >= Len(q) - 1 /\ Len(r) \in Nat
    BY <1>2, <2>3, ReadShape, KeysAreKeys
  <2>6. V = W \ {a} /\ a \in W
    BY <2>1 DEF CallReturns, ReadAck, Waiters, TypeOK, AppTypeOK
  <2>7. IsFiniteSet(V) /\ Cardinality(V) = Cardinality(W) - 1
    BY <1>2, <2>6, FS_RemoveElement
  <2> HIDE DEF O, P, V, W, q, r
  <2> QED  BY <1>2, <2>4, <2>5, <2>7
<1>10. CASE Restart
  BY <1>1, <1>10 DEF Restart, TypeOK, AuxTypeOK
<1>11. CASE UNCHANGED vars
  <2>1. /\ UNCHANGED <<pend, devVars, acked, apc>> /\ queues' = queues
    BY <1>11 DEF vars, coreVars, auxVars, qvars, devVars, appVars
  <2> QED  BY <1>2, <1>3, <1>4, <2>1, QuietAcks
<1> QED  BY <1>6, <1>7, <1>8, <1>9, <1>10, <1>11 DEF Next

(* While nothing is lost and no process dies, as many acknowledgements wait or
   are under way as there are applications blocked in a read. *)
THEOREM WaitersCoveredHolds == Spec => []WaitersCovered
<1>1. Init => Covered
  <2> SUFFICES ASSUME Init PROVE Covered
    OBVIOUS
  <2>1. /\ \A k \in Keys : queues[k] = << >>
        /\ pend = << >> /\ dpc = "read"
    BY DEF Init, CoreInit, DevInit
  <2>2. Waiters = {}
    BY DEF Init, AppInit, Waiters
  <2>3. \A at \in Holders : \A i \in Nat : \A x : ~Owes(at, i, x)
    BY <2>1, KeysAreKeys DEF Owes, Holders
  <2>4. OwedAcks = {}
    BY <2>3, OwedAcksByPlace
  <2>5. Len(queues[QUEUE_APPLICATION]) = 0
    BY <2>1, KeysAreKeys
  <2>6. IsFiniteSet({}) /\ Cardinality({}) = 0
    BY FS_EmptySet
  <2> QED  BY <2>2, <2>4, <2>5, <2>6 DEF Covered
<1>2. TypeOK /\ FlowInv /\ AckInv /\ Covered /\ [Next]_vars => Covered'
  BY CoveredStep
<1>3. Covered => WaitersCovered
  BY DEF Covered, WaitersCovered
<1> QED  BY <1>1, <1>2, <1>3, TypeCorrect, FlowCorrect, AckInvHolds, PTL DEF Spec
=============================================================================
