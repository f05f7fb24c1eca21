----------------------------- MODULE Application -----------------------------
(***************************************************************************)
(* my_NFC_UserSpace_App.c and application_handler.c: the menu and the      *)
(* three calls behind it.  Any number of instances may run; they share the *)
(* one QUEUE_APPLICATION.                                                  *)
(*                                                                         *)
(* All three calls return 0 whatever happened, which the menu reports as   *)
(* success: a call that has returned is a call reported successful.        *)
(***************************************************************************)
EXTENDS QueueManager

CONSTANT MaxRequests   \* bound: the calls the user of one instance makes

ASSUME ApplicationAssumption == MaxRequests \in Nat

VARIABLES
  apc,    \* app -> "menu", or "wait": inside a call, after its write
  buf,    \* app -> the call's struct msgbuff, as the last call left it
  call,   \* auxiliary: app -> the request of its latest call, or NoOrigin
  nreq    \* auxiliary: app -> how many calls the user has made

appVars == <<apc, buf, call, nreq>>

SESSION == 34567

(* The message a call builds. *)
Request(a, ev, text) ==
  [session |-> SESSION, type |-> MSG_TYPE_GLOW_LED, state |-> ST_INIT,
   event |-> ev, text |-> text,
   origin |-> [app |-> a, n |-> nreq[a] + 1, event |-> ev]]

(* The buffer before the first call: it has no content yet, and no call reads
   its own before it has filled it in. *)
NoBuf == [session |-> 0, type |-> 0, state |-> 0, event |-> 0,
          text |-> "empty", origin |-> NoOrigin]

AppInit ==
  /\ apc = [a \in Apps |-> "menu"]
  /\ buf = [a \in Apps |-> NoBuf]
  /\ call = [a \in Apps |-> NoOrigin]
  /\ nreq = [a \in Apps |-> 0]

(* The user picks an entry of the menu and the call writes its request; its
   failure goes unnoticed. *)
SendRequest(a, m, pc) ==
  /\ apc[a] = "menu"
  /\ nreq[a] < MaxRequests
  /\ message_queue_write(QUEUE_CORE, m)
  /\ apc' = [apc EXCEPT ![a] = pc]
  /\ buf' = [buf EXCEPT ![a] = m]
  /\ call' = [call EXCEPT ![a] = m.origin]
  /\ nreq' = [nreq EXCEPT ![a] = @ + 1]

glow_led(a) ==
  SendRequest(a, Request(a, EV_SEND_TO_CORE_NO_ACK, "no_ack_request"), "menu")

glow_led_with_fsm_ack(a) ==
  SendRequest(a, Request(a, EV_SEND_TO_CORE, "ack_request"), "wait")

glow_led_with_board_ack(a) ==
  SendRequest(a, Request(a, EV_SEND_TO_CORE_DEV_ACK, "ack_request"), "wait")

(* The second half of the two acknowledged calls: read whatever is oldest in
   QUEUE_APPLICATION and return. *)
ReadAck(a) ==
  /\ apc[a] = "wait"
  /\ message_queue_read(QUEUE_APPLICATION)
  /\ buf' = [buf EXCEPT ![a] = ReadInto(QUEUE_APPLICATION, @)]
  /\ apc' = [apc EXCEPT ![a] = "menu"]
  /\ UNCHANGED <<call, nreq>>

(* main has no way out of its loop: the user interrupts the process, inside
   a call or not, and starts it again. *)
AppRestart(a) ==
  /\ apc' = [apc EXCEPT ![a] = "menu"]
  /\ buf' = [buf EXCEPT ![a] = NoBuf]
  /\ call' = [call EXCEPT ![a] = NoOrigin]
  /\ UNCHANGED <<nreq, qvars>>

AppTypeOK ==
  /\ apc \in [Apps -> {"menu", "wait"}]
  /\ buf \in [Apps -> MsgBuff]
  /\ call \in [Apps -> Origins]
  /\ nreq \in [Apps -> Nat]
=============================================================================
