---------------------------- MODULE DeviceWrapper ----------------------------
(***************************************************************************)
(* callback_tester.c, the process that stands for the device: it answers   *)
(* every message of QUEUE_DEVICE with an acknowledgement to QUEUE_CORE.    *)
(***************************************************************************)
EXTENDS QueueManager

CONSTANT
  Garbage   \* the contents an uninitialised struct msgbuff may have

(* No application's request is among them. *)
ASSUME GarbageAssumption ==
  Garbage # {} /\ \A g \in Garbage : g \in MsgBuff /\ g.origin = NoOrigin

VARIABLES
  dpc,    \* "read" or "write"
  dmsg    \* main's msg, uninitialised until the first read that succeeds

devVars == <<dpc, dmsg>>

DevInit ==
  /\ dpc = "read"
  /\ dmsg \in Garbage

(* The read, whose failure goes unnoticed, and the edit of the buffer. *)
DeviceRead ==
  /\ dpc = "read"
  /\ message_queue_read(QUEUE_DEVICE)
  /\ dmsg' = [ReadInto(QUEUE_DEVICE, dmsg) EXCEPT
                !.type = MSG_TYPE_GLOW_LED, !.text = "device_ack"]
  /\ dpc' = "write"

(* Mutants: the answer may be written again; it goes to the wrong queue. *)
DeviceWrite_Again ==
  /\ dpc = "write"
  /\ message_queue_write(QUEUE_CORE, dmsg)
  /\ dpc' \in {"read", "write"}
  /\ UNCHANGED dmsg

DeviceWrite_WrongQueue ==
  /\ dpc = "write"
  /\ message_queue_write(QUEUE_DEVICE, dmsg)
  /\ dpc' = "read"
  /\ UNCHANGED dmsg

(* State and event go back as they came. *)
DeviceWrite ==
  /\ dpc = "write"
  /\ message_queue_write(QUEUE_CORE, dmsg)
  /\ dpc' = "read"
  /\ UNCHANGED dmsg

DeviceRestart ==
  /\ dpc' = "read"
  /\ dmsg' \in Garbage
  /\ UNCHANGED qvars

DevTypeOK ==
  /\ dpc \in {"read", "write"}
  /\ dmsg \in MsgBuff
=============================================================================
