--------------------------- MODULE StackAccounting ---------------------------
(***************************************************************************)
(* How many acknowledgements the stack owes and to whom, whether every     *)
(* call returns, and whether the board answers for it.                     *)
(***************************************************************************)
EXTENDS StackRefinement, FiniteSets

In(k, o) == {i \in 1..Len(queues[k]) : queues[k][i].origin = o}

(* Acknowledgements of o that messages now under way will still cause: one
   each, and two for a request that the core acknowledges and passes on. *)
Owed(o) ==
  Cardinality(In(QUEUE_CORE, o))
  + Cardinality({i \in In(QUEUE_CORE, o) :
                   queues[QUEUE_CORE][i].event = EV_SEND_TO_CORE})
  + Cardinality(In(QUEUE_DEVICE, o))
  + Cardinality({i \in 1..Len(pend) : pend[i].msg.origin = o})
  + (IF dpc = "write" /\ dmsg.origin = o THEN 1 ELSE 0)

(* What the code writes to QUEUE_APPLICATION for one request. *)
AcksOf(o) == IF o.event = EV_SEND_TO_CORE THEN 2 ELSE 1

(* Unless a write for it failed or a process died, a request that was sent
   has had all its acknowledgements or they are still under way: one for a
   plain request and for one to the board, two for one acknowledged by the
   core.  The surplus stays in QUEUE_APPLICATION for later calls to find. *)
AckConservation ==
  restarts = 0 =>
    \A o \in sent \ dropped :
       Cardinality({x \in acked : x[1] = o}) + Owed(o) = AcksOf(o)

Waiters == {a \in Apps : apc[a] = "wait"}

(* While no message is lost and no process dies, there are at least as many
   acknowledgements waiting or under way as applications blocked in a read,
   even though they take each other's. *)
WaitersCovered ==
  restarts = 0 /\ dropped \subseteq {NoOrigin} =>
    Cardinality(Waiters) <= Len(queues[QUEUE_APPLICATION]) + Cardinality(OwedAcks)

-----------------------------------------------------------------------------
(* Every acknowledged call returns. *)
EveryCallReturns == \A a \in Apps : apc[a] = "wait" ~> apc[a] = "menu"

(* The device wrapper catches up: time and again it has read every request
   with an acknowledgement that was sent to the core. *)
DeviceCatchesUp ==
  []<>({o \in sent : o.event # EV_SEND_TO_CORE_NO_ACK} \subseteq seen)

(* "Glow LED with an Ack From Board": the call has returned, so the board has
   read its request. *)
BoardAckIsFromBoard ==
  \A a \in Apps :
    apc[a] = "menu" /\ call[a] # NoOrigin /\ call[a].event = EV_SEND_TO_CORE_DEV_ACK
      => call[a] \in seen
=============================================================================
