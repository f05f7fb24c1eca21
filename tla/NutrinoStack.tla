---------------------------- MODULE NutrinoStack ----------------------------
(***************************************************************************)
(* The running stack: one core process, one device wrapper and the         *)
(* applications, which meet only in the message queues.  Processes start   *)
(* in any order, are interleaved at system calls, and may die and be       *)
(* started again while the queues live on.                                 *)
(***************************************************************************)
EXTENDS CoreFsm, Application, DeviceWrapper

CONSTANTS
  InitialIds,   \* queues left by an earlier run: none after a reboot, else all
  MaxRestarts   \* bound: process deaths in a behaviour

ASSUME StackAssumption ==
  /\ InitialIds \in {{}, Keys}
  /\ MaxRestarts \in Nat
  /\ NoOrigin \notin Requests

(* Auxiliary: what has happened so far.  No guard of a process reads it. *)
VARIABLES
  sent,      \* requests whose write to QUEUE_CORE succeeded
  acked,     \* <<request, text>> of every message written to QUEUE_APPLICATION
  dropped,   \* origins of the messages a failed write lost
  seen,      \* requests the device wrapper has read
  blind,     \* whether the device wrapper ever went on from a failed read
  restarts   \* how many processes have died

auxVars == <<sent, acked, dropped, seen, blind, restarts>>
vars == <<qvars, coreVars, appVars, devVars, auxVars>>

-----------------------------------------------------------------------------
Init ==
  /\ ids = InitialIds
  /\ queues = [k \in Keys |-> << >>]
  /\ cbytes = [k \in Keys |-> 0]
  /\ CoreInit
  /\ AppInit
  /\ DevInit
  /\ sent = {} /\ acked = {} /\ dropped = {} /\ seen = {}
  /\ blind = FALSE
  /\ restarts = 0

(* Record what becomes of the message m that is written to key. *)
NoteWrite(key, m) ==
  /\ acked' = IF key = QUEUE_APPLICATION /\ MsgsndOk(key, m)
              THEN acked \cup {<<m.origin, m.text>>} ELSE acked
  /\ dropped' = IF MsgsndOk(key, m) THEN dropped ELSE dropped \cup {m.origin}

Core ==
  /\ \/ CoreQueueInit /\ UNCHANGED <<acked, dropped>>
     \/ GetMessageStateEvent /\ UNCHANGED <<acked, dropped>>
     \/ HandlerWrite /\ NoteWrite(Head(pend).key, Head(pend).msg)
     \/ CoreStop /\ UNCHANGED <<acked, dropped>>
  /\ UNCHANGED <<appVars, devVars, sent, seen, blind, restarts>>

(* The user's choices. *)
User(a) ==
  /\ \/ glow_led(a)
     \/ glow_led_with_fsm_ack(a)
     \/ glow_led_with_board_ack(a)
  /\ NoteWrite(QUEUE_CORE, buf'[a])
  /\ sent' = IF MsgsndOk(QUEUE_CORE, buf'[a]) THEN sent \cup {call'[a]} ELSE sent
  /\ UNCHANGED <<coreVars, devVars, seen, blind, restarts>>

CallReturns(a) ==
  /\ ReadAck(a)
  /\ UNCHANGED <<coreVars, devVars, auxVars>>

Device ==
  /\ \/ /\ DeviceRead
        /\ blind' = (blind \/ ReadFails(QUEUE_DEVICE))
        /\ seen' = IF MsgrcvOk(QUEUE_DEVICE)
                   THEN seen \cup {Head(queues[QUEUE_DEVICE]).origin} ELSE seen
        /\ UNCHANGED <<acked, dropped>>
     \/ /\ DeviceWrite
        /\ NoteWrite(QUEUE_CORE, dmsg)
        /\ UNCHANGED <<seen, blind>>
  /\ UNCHANGED <<coreVars, appVars, sent, restarts>>

Restart ==
  /\ restarts < MaxRestarts
  /\ restarts' = restarts + 1
  /\ \/ CoreRestart /\ UNCHANGED <<appVars, devVars>>
     \/ DeviceRestart /\ UNCHANGED <<coreVars, appVars>>
     \/ \E a \in Apps : AppRestart(a) /\ UNCHANGED <<coreVars, devVars>>
  /\ UNCHANGED <<sent, acked, dropped, seen, blind>>

Next ==
  \/ Core
  \/ Device
  \/ \E a \in Apps : User(a) \/ CallReturns(a)
  \/ Restart

Spec == Init /\ [][Next]_vars

(* The kernel schedules every process that can run and wakes a reader when a
   message arrives; nothing makes the user act or a process die. *)
Fairness ==
  /\ WF_vars(Core)
  /\ WF_vars(Device)
  /\ \A a \in Apps : WF_vars(CallReturns(a))

FairSpec == Spec /\ Fairness

-----------------------------------------------------------------------------
AuxTypeOK ==
  /\ sent \in SUBSET Requests
  /\ acked \in SUBSET (Origins \X Texts)
  /\ dropped \in SUBSET Origins
  /\ seen \in SUBSET Origins
  /\ blind \in BOOLEAN
  /\ restarts \in Nat

(* Type correctness.  A queue never holds more bytes than msg_qbytes, and the
   core has writes pending exactly while a handler runs. *)
TypeOK == QueueTypeOK /\ CoreTypeOK /\ AppTypeOK /\ DevTypeOK /\ AuxTypeOK
-----------------------------------------------------------------------------
(* What a message of queue k must look like for its reader to act on it. *)
Understood(k, m) ==
  /\ m.session >= 1 /\ MsgSize(m) <= StructSize
  /\ k = QUEUE_APPLICATION => m.state = ST_SEND_ACK /\ m.event = EV_SEND_TO_APP
  /\ k = QUEUE_DEVICE => m.state = ST_SEND_TO_DEVICE /\ m.event = EV_SEND_TO_DEVICE
  /\ k = QUEUE_CORE /\ m.origin # NoOrigin =>
       m.type = MSG_TYPE_GLOW_LED /\ HasTransition(m.state, m.event)

(* Every message in a queue is one its reader acts on: an application finds
   only acknowledgements, the device only orders, and the core never drops a
   message of a request for want of a table row (main skips such a message
   without a word).  No message is larger than the struct it is read into,
   although message_queue_read allows one byte more. *)
ChannelContract ==
  \A k \in Keys : \A i \in 1..Len(queues[k]) : Understood(k, queues[k][i])

(* The core's loop ends only on a message with state ST_TERM, and no program
   sends one: it can only come from the uninitialised buffer of a device
   wrapper that was started before the core had created QUEUE_DEVICE. *)
CoreStopsOnlyAfterBlindRead ==
  cpc = "stopped" \/ state = ST_TERM => blind

(* Nothing is acknowledged that was not asked for and sent, and an
   acknowledgement Send_ack makes for a request that goes to the device is
   made only after the device has read that request. *)
AckCausality ==
  \A x \in acked :
     x[1] # NoOrigin =>
       /\ x[1] \in sent
       /\ x[2] = "app_ack" /\ x[1].event # EV_SEND_TO_CORE_NO_ACK => x[1] \in seen

(* No acknowledgement of a request is ever written twice, whatever reads fail
   and whichever processes die: no message is handled again. *)
AckAtMostOnce ==
  [][LET q == queues'[QUEUE_APPLICATION] IN
     Len(q) > Len(queues[QUEUE_APPLICATION]) =>
       \/ q[Len(q)].origin = NoOrigin
       \/ <<q[Len(q)].origin, q[Len(q)].text>> \notin acked]_vars
=============================================================================
