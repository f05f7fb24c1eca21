------------------------------ MODULE StackDefs ------------------------------
(***************************************************************************)
(* The two headers every process of the stack is compiled with,            *)
(* core/include/queue_manager.h and core/include/core_fsm.h: queue keys,   *)
(* message types, states, events and struct msgbuff.                       *)
(*                                                                         *)
(* Numeric values are the header's own, because two of them coincide and   *)
(* the code depends on it: EV_SEND_TO_DEVICE = EV_SEND_TO_DEVICE_NO_ACK.   *)
(***************************************************************************)
EXTENDS Integers, Sequences

CONSTANTS
  Apps,        \* the running instances of the user-space application
  NoOrigin     \* auxiliary: the origin of a message no application asked for

(* Queue keys that some process of the stack uses. *)
QUEUE_DEVICE      == 10201
QUEUE_APPLICATION == 10202
QUEUE_CORE        == 10204
Keys == {QUEUE_DEVICE, QUEUE_APPLICATION, QUEUE_CORE}

MSG_TYPE_GLOW_LED == 0

(* States of a message. *)
ST_TERM           == 2
ST_INIT           == 12301
ST_SEND_TO_DEVICE == 12302
ST_SEND_ACK       == 12303

(* Events of a message.  The last two share one value. *)
EV_SEND_TO_CORE_NO_ACK   == 12351
EV_SEND_TO_CORE          == 12353
EV_SEND_TO_APP           == 12354
EV_SEND_TO_CORE_DEV_ACK  == 12355
EV_SEND_TO_DEVICE        == 12352
EV_SEND_TO_DEVICE_NO_ACK == 12352

(* The events an application can open a request with. *)
RequestEvents ==
  {EV_SEND_TO_CORE_NO_ACK, EV_SEND_TO_CORE, EV_SEND_TO_CORE_DEV_ACK}

(***************************************************************************)
(* The texts the programs copy into msg_text, by what they are for, and    *)
(* their strlen.  Nothing else of a text matters: its length is the size   *)
(* of the message on the queue.                                            *)
(***************************************************************************)
Texts ==
  {"empty", "no_ack_request", "ack_request", "glow_led", "app_ack", "device_ack"}
Strlen ==
  [t \in Texts |-> CASE t = "empty"          -> 0    \* a zeroed buffer
                     [] t = "no_ack_request" -> 51   \* glow_led
                     [] t = "ack_request"    -> 55   \* the two acknowledged calls
                     [] t = "glow_led"       -> 31   \* core to device
                     [] t = "app_ack"        -> 24   \* core to application
                     [] t = "device_ack"     -> 54]  \* device to core

(***************************************************************************)
(* Auxiliary: the request a message descends from.  The programs number    *)
(* nothing (every message carries session 34567), so who a message is for  *)
(* is only visible here.  No guard reads it.                               *)
(***************************************************************************)
Requests == [app : Apps, n : Nat, event : RequestEvents]
Origins  == Requests \cup {NoOrigin}

(* struct msgbuff, with the auxiliary origin. *)
MsgBuff ==
  [session : Int, type : Int, state : Int, event : Int,
   text : Texts, origin : Origins]
=============================================================================
