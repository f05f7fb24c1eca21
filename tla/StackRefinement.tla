-------------------------- MODULE StackRefinement --------------------------
(***************************************************************************)
(* The stack implements AckService.  The acknowledgements it owes are not  *)
(* a variable of any program: they are implied by the messages that are    *)
(* in the queues, in the core's hands and in the device wrapper's.         *)
(***************************************************************************)
EXTENDS NutrinoStack

(* What a message in QUEUE_CORE will cause: all its acknowledgements if it is
   a request, that of Send_ack if it is on its way back. *)
AcksFromCore(m) ==
  {<<m.origin, "app_ack">>}
  \cup IF m.event = EV_SEND_TO_CORE THEN {<<m.origin, m.text>>} ELSE {}

(* What a message about to be written to k will cause. *)
AcksFromWrite(w) ==
  {<<w.msg.origin, IF w.key = QUEUE_APPLICATION THEN w.msg.text ELSE "app_ack">>}

Messages(k) == {queues[k][i] : i \in 1..Len(queues[k])}

OwedByCore == UNION {AcksFromCore(m) : m \in Messages(QUEUE_CORE)}
OwedByDevice == {<<m.origin, "app_ack">> : m \in Messages(QUEUE_DEVICE)}
OwedByHandler == UNION {AcksFromWrite(pend[i]) : i \in 1..Len(pend)}
OwedByWrapper == IF dpc = "write" THEN {<<dmsg.origin, "app_ack">>} ELSE {}

OwedAcks ==
  {x \in OwedByCore \cup OwedByDevice \cup OwedByHandler \cup OwedByWrapper :
     x[1] # NoOrigin}

Service == INSTANCE AckService WITH
  asked     <- sent,
  owed      <- OwedAcks,
  delivered <- {x \in acked : x[1] # NoOrigin},
  faulty    <- restarts > 0 \/ dropped \ {NoOrigin} # {}

(* The stack implements the service: an accepted request is owed its
   acknowledgements at once, the core and the device wrapper pass the duty on
   without duplicating it, whatever is read, retried or restarted, and it is
   given up only when message_queue_write fails or a process dies. *)
ImplementsAckService == Service!Spec
=============================================================================
