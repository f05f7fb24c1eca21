---------------------------- MODULE QueueManager ----------------------------
(***************************************************************************)
(* queue_manager.c over the System V message queues of the kernel.  The    *)
(* queues are the only state the processes share; they outlive the         *)
(* processes, and no program ever removes one.                             *)
(*                                                                         *)
(* Every caller ignores the value these functions return, so what a call   *)
(* does to the queues and to the caller's buffer is all there is to model. *)
(***************************************************************************)
EXTENDS StackDefs

CONSTANTS
  QBytes,       \* msg_qbytes, the kernel's bound on the bytes a queue holds
  CreateCanFail \* whether the kernel may refuse to create a queue (MSGMNI)

ASSUME QueueAssumption == QBytes \in Nat /\ CreateCanFail \in BOOLEAN

VARIABLES
  ids,      \* the keys that have a queue
  queues,   \* key -> the messages of its queue, oldest first
  cbytes    \* key -> the bytes those messages occupy

qvars == <<ids, queues, cbytes>>

-----------------------------------------------------------------------------
(* buflen of message_queue_write: the text, its NUL and three 4-byte longs. *)
MsgSize(m) == Strlen[m.text] + 1 + 12

(* buflen of message_queue_read, and what struct msgbuff has room for. *)
ReadLimit  == 128 + 1 + 12
StructSize == 128 + 12

(* msgsnd succeeds: the queue exists, the first long (the kernel's mtype) is
   positive, and the message fits; IPC_NOWAIT fails otherwise. *)
MsgsndOk(key, m) ==
  /\ key \in ids
  /\ m.session >= 1
  /\ cbytes[key] + MsgSize(m) <= QBytes

(* msgrcv returns with a message: one is there and it fits the buffer. *)
MsgrcvOk(key) ==
  /\ key \in ids
  /\ queues[key] # << >>
  /\ MsgSize(Head(queues[key])) <= ReadLimit

(* message_queue_read returns -1 at once: no queue, or E2BIG (the message
   then stays).  With an empty queue it neither fails nor returns: it blocks. *)
ReadFails(key) ==
  \/ key \notin ids
  \/ queues[key] # << >> /\ MsgSize(Head(queues[key])) > ReadLimit

-----------------------------------------------------------------------------
message_queue_init(key) ==
  /\ \E created \in {{}, {key}} :
        /\ created = {} => CreateCanFail
        /\ ids' = ids \cup created
  /\ UNCHANGED <<queues, cbytes>>

message_queue_write(key, m) ==
  \/ /\ MsgsndOk(key, m)
     /\ queues' = [queues EXCEPT ![key] = Append(@, m)]
     /\ cbytes' = [cbytes EXCEPT ![key] = @ + MsgSize(m)]
     /\ UNCHANGED ids
  \/ /\ ~MsgsndOk(key, m)
     /\ UNCHANGED qvars

message_queue_read(key) ==
  \/ /\ MsgrcvOk(key)
     /\ queues' = [queues EXCEPT ![key] = Tail(@)]
     /\ cbytes' = [cbytes EXCEPT ![key] = @ - MsgSize(Head(queues[key]))]
     /\ UNCHANGED ids
  \/ /\ ReadFails(key)
     /\ UNCHANGED qvars

(* The caller's buffer after the read: a failed read leaves it as it was. *)
ReadInto(key, buf) == IF MsgrcvOk(key) THEN Head(queues[key]) ELSE buf

(* The queues hold messages, never more bytes of them than msg_qbytes. *)
QueueTypeOK ==
  /\ ids \in SUBSET Keys
  /\ queues \in [Keys -> Seq(MsgBuff)]
  /\ cbytes \in [Keys -> Int]
  /\ \A k \in Keys : cbytes[k] <= QBytes
=============================================================================
