------------------------------- MODULE CoreFsm -------------------------------
(***************************************************************************)
(* core_fsm.c, the process that moves messages between application and     *)
(* device.  One step per system call: another process may run between any  *)
(* two of them, and between the two writes of Init_led in particular.      *)
(***************************************************************************)
EXTENDS QueueManager

VARIABLES
  cpc,     \* where main is: the three queue_inits, read, write, stopped
  state,   \* global: state of the message being handled, 0 after a handler
  event,   \* global: its event
  msg,     \* global: the last message read; handlers get a copy of it
  pend     \* the writes the running handler has still to make

coreVars == <<cpc, state, event, msg, pend>>

-----------------------------------------------------------------------------
(* The handlers, as the messages they write and where. *)

(* Mutant: the handler forgets m.msg_event. *)
Write_KeepsEvent(key, m, st, ev) == [key |-> key, msg |-> [m EXCEPT !.state = st]]

Write(key, m, st, ev) ==
  [key |-> key, msg |-> [m EXCEPT !.state = st, !.event = ev]]

(* Mutant: the first case of the switch has no break. *)
Init_led_FallsThrough(m) ==
  LET acked_by_core ==
        << Write(QUEUE_APPLICATION, m, ST_SEND_ACK, EV_SEND_TO_APP),
           Write(QUEUE_DEVICE, m, ST_SEND_TO_DEVICE, EV_SEND_TO_DEVICE_NO_ACK) >>
  IN CASE m.event = EV_SEND_TO_CORE_NO_ACK ->
            << Write(QUEUE_CORE, m, ST_SEND_TO_DEVICE, EV_SEND_TO_DEVICE_NO_ACK) >>
            \o acked_by_core
       [] m.event = EV_SEND_TO_CORE -> acked_by_core
       [] m.event = EV_SEND_TO_CORE_DEV_ACK ->
            << Write(QUEUE_DEVICE, [m EXCEPT !.text = "glow_led"],
                     ST_SEND_TO_DEVICE, EV_SEND_TO_DEVICE) >>
       [] OTHER -> << >>

(* A request without acknowledgement goes back to the core's own queue; one
   with an acknowledgement from the core is acknowledged before it is passed
   on; one with an acknowledgement from the board is passed on. *)
Init_led(m) ==
  CASE m.event = EV_SEND_TO_CORE_NO_ACK ->
         << Write(QUEUE_CORE, m, ST_SEND_TO_DEVICE, EV_SEND_TO_DEVICE_NO_ACK) >>
    [] m.event = EV_SEND_TO_CORE ->
         << Write(QUEUE_APPLICATION, m, ST_SEND_ACK, EV_SEND_TO_APP),
            Write(QUEUE_DEVICE, m, ST_SEND_TO_DEVICE, EV_SEND_TO_DEVICE_NO_ACK) >>
    [] m.event = EV_SEND_TO_CORE_DEV_ACK ->
         << Write(QUEUE_DEVICE, [m EXCEPT !.text = "glow_led"],
                  ST_SEND_TO_DEVICE, EV_SEND_TO_DEVICE) >>
    [] OTHER -> << >>

(* Mutant: neither test of Send_ack succeeds. *)
Send_ack_Silent(m) == << >>

(* if(EV_SEND_TO_DEVICE) tests a constant: the acknowledgement always goes. *)
Send_ack(m) ==
  IF EV_SEND_TO_DEVICE # 0
  THEN << Write(QUEUE_APPLICATION, [m EXCEPT !.text = "app_ack"],
                ST_SEND_ACK, EV_SEND_TO_APP) >>
  ELSE << >>

(* Mutant: the row of a request to the board names the wrong handler. *)
trans_WrongHandler ==
  << [st |-> ST_INIT, ev |-> EV_SEND_TO_CORE_NO_ACK,  fn |-> "Init_led"],
     [st |-> ST_INIT, ev |-> EV_SEND_TO_CORE,         fn |-> "Init_led"],
     [st |-> ST_INIT, ev |-> EV_SEND_TO_CORE_DEV_ACK, fn |-> "Send_ack"],
     [st |-> ST_SEND_TO_DEVICE, ev |-> EV_SEND_TO_DEVICE_NO_ACK, fn |-> "Send_ack"],
     [st |-> ST_SEND_TO_DEVICE, ev |-> EV_SEND_TO_DEVICE,        fn |-> "Send_ack"] >>

(* The state table.  The last two rows have the same key; main stops at the
   first row that matches. *)
trans ==
  << [st |-> ST_INIT, ev |-> EV_SEND_TO_CORE_NO_ACK,  fn |-> "Init_led"],
     [st |-> ST_INIT, ev |-> EV_SEND_TO_CORE,         fn |-> "Init_led"],
     [st |-> ST_INIT, ev |-> EV_SEND_TO_CORE_DEV_ACK, fn |-> "Init_led"],
     [st |-> ST_SEND_TO_DEVICE, ev |-> EV_SEND_TO_DEVICE_NO_ACK, fn |-> "Send_ack"],
     [st |-> ST_SEND_TO_DEVICE, ev |-> EV_SEND_TO_DEVICE,        fn |-> "Send_ack"] >>

HasTransition(st, ev) == \E i \in 1..5 : trans[i].st = st /\ trans[i].ev = ev

FirstTransition(st, ev) ==
  CHOOSE i \in 1..5 :
     /\ trans[i].st = st /\ trans[i].ev = ev
     /\ \A j \in 1..5 : trans[j].st = st /\ trans[j].ev = ev => i <= j

Dispatch(st, ev, m) ==
  IF ~HasTransition(st, ev) THEN << >>
  ELSE IF trans[FirstTransition(st, ev)].fn = "Init_led" THEN Init_led(m)
  ELSE Send_ack(m)

-----------------------------------------------------------------------------
(* Static storage: all zero, and MSG_TYPE_GLOW_LED is 0. *)
ZeroMsg == [session |-> 0, type |-> 0, state |-> 0, event |-> 0,
            text |-> "empty", origin |-> NoOrigin]

CoreInit ==
  /\ cpc = "init_core"
  /\ state = ST_INIT
  /\ event = 0
  /\ msg = ZeroMsg
  /\ pend = << >>

CoreQueueInit ==
  /\ \/ /\ cpc = "init_core"
        /\ message_queue_init(QUEUE_CORE)
        /\ cpc' = "init_application"
     \/ /\ cpc = "init_application"
        /\ message_queue_init(QUEUE_APPLICATION)
        /\ cpc' = "init_device"
     \/ /\ cpc = "init_device"
        /\ message_queue_init(QUEUE_DEVICE)
        /\ cpc' = "read"
  /\ UNCHANGED <<state, event, msg, pend>>

(* GetMessageStateEvent and the table lookup, up to the handler's first write.
   main's test of message_type compares two zeroes, so it never skips the
   table.  A read that fails leaves the previous message to be looked at. *)
GetMessageStateEvent ==
  /\ cpc = "read"
  /\ state # ST_TERM
  /\ message_queue_read(QUEUE_CORE)
  /\ msg' = ReadInto(QUEUE_CORE, msg)
  /\ event' = IF msg'.type = MSG_TYPE_GLOW_LED THEN msg'.event ELSE event
  /\ LET st == IF msg'.type = MSG_TYPE_GLOW_LED THEN msg'.state ELSE state
     IN  /\ pend' = Dispatch(st, event', msg')
         /\ state' = IF pend' = << >> /\ HasTransition(st, event') THEN 0 ELSE st
  /\ cpc' = IF pend' = << >> THEN "read" ELSE "write"

(* Mutants: the handler never returns to main; it returns the terminal state;
   it returns after its first write. *)
HandlerWrite_NoReturn ==
  /\ cpc = "write" /\ pend # << >>
  /\ message_queue_write(Head(pend).key, Head(pend).msg)
  /\ pend' = Tail(pend)
  /\ UNCHANGED <<cpc, state, event, msg>>

HandlerWrite_ReturnsTerm ==
  /\ cpc = "write"
  /\ message_queue_write(Head(pend).key, Head(pend).msg)
  /\ pend' = Tail(pend)
  /\ IF Tail(pend) = << >>
     THEN cpc' = "read" /\ state' = ST_TERM
     ELSE UNCHANGED <<cpc, state>>
  /\ UNCHANGED <<event, msg>>

HandlerWrite_FirstOnly ==
  /\ cpc = "write"
  /\ message_queue_write(Head(pend).key, Head(pend).msg)
  /\ pend' = << >>
  /\ cpc' = "read" /\ state' = 0
  /\ UNCHANGED <<event, msg>>

(* One message_queue_write of the handler; after the last one the handler
   returns 0, which main stores in state. *)
HandlerWrite ==
  /\ cpc = "write"
  /\ message_queue_write(Head(pend).key, Head(pend).msg)
  /\ pend' = Tail(pend)
  /\ IF Tail(pend) = << >>
     THEN cpc' = "read" /\ state' = 0
     ELSE UNCHANGED <<cpc, state>>
  /\ UNCHANGED <<event, msg>>

(* main leaves its loop. *)
CoreStop ==
  /\ cpc = "read"
  /\ state = ST_TERM
  /\ cpc' = "stopped"
  /\ UNCHANGED <<state, event, msg, pend, qvars>>

(* The process dies wherever it is and is started again. *)
CoreRestart ==
  /\ cpc' = "init_core"
  /\ state' = ST_INIT
  /\ event' = 0
  /\ msg' = ZeroMsg
  /\ pend' = << >>
  /\ UNCHANGED qvars

(* The core has writes pending exactly while a handler runs. *)
CoreTypeOK ==
  /\ cpc \in {"init_core", "init_application", "init_device",
              "read", "write", "stopped"}
  /\ state \in Int
  /\ event \in Int
  /\ msg \in MsgBuff
  /\ pend \in Seq([key : Keys, msg : MsgBuff])
  /\ pend # << >> <=> cpc = "write"
=============================================================================
