----------------------------- MODULE AckService -----------------------------
(***************************************************************************)
(* What the stack promises its applications, without queues, processes or  *)
(* states of messages.  A request is owed a fixed set of acknowledgements  *)
(* from the moment it is accepted.  Each is delivered to the applications' *)
(* queue at most once, and is lost only if there has been a fault.         *)
(***************************************************************************)
EXTENDS StackDefs

VARIABLES
  asked,      \* the requests that were accepted
  owed,       \* <<request, text>>: acknowledgements still to come
  delivered,  \* <<request, text>>: acknowledgements made
  faulty      \* whether a write has failed or a process has died

ackVars == <<asked, owed, delivered, faulty>>

(* Every request is acknowledged by Send_ack, one for the core's own
   acknowledgement by Init_led as well, which leaves the request's text. *)
AcksFor(o) ==
  {<<o, "app_ack">>}
  \cup IF o.event = EV_SEND_TO_CORE THEN {<<o, "ack_request">>} ELSE {}

Init == asked = {} /\ owed = {} /\ delivered = {} /\ faulty = FALSE

(* A request nobody made before is accepted. *)
Ask ==
  \E o \in asked' \ asked :
     /\ asked' = asked \cup {o}
     /\ owed' = owed \cup AcksFor(o)
     /\ UNCHANGED <<delivered, faulty>>

Deliver ==
  \E x \in owed :
     /\ owed' = owed \ {x}
     /\ delivered' = delivered \cup {x}
     /\ UNCHANGED <<asked, faulty>>

(* A fault may cost any acknowledgements still to come, none included. *)
Fault ==
  /\ faulty'
  /\ owed' \in SUBSET owed
  /\ UNCHANGED <<asked, delivered>>

Next == Ask \/ Deliver \/ Fault

Spec == Init /\ [][Next]_ackVars
=============================================================================
