--------------------------- MODULE UtilityHandler ---------------------------
(***************************************************************************)
(* utility_handler/: an FSM process with headers and a queue manager of    *)
(* its own.  Its struct msgbuff has msg_state and msg_event behind the     *)
(* text, and its queue manager sends only as many bytes as the text has,   *)
(* from msg_type on: the state and the event of a message never leave the  *)
(* sender, and the receiver's are whatever its stack held.                 *)
(*                                                                         *)
(* It shares two keys with the stack.  Key 10201, where it reads, is the   *)
(* core's QUEUE_DEVICE, which the device wrapper reads as well; key 10204, *)
(* where it writes, is the core's own queue.  Those processes appear here  *)
(* by what they do to the two queues.                                      *)
(***************************************************************************)
EXTENDS Integers, SequencesExt

CONSTANTS
  Residue,      \* type, state and event an uninitialised local msg may have
  FirstLong,    \* values the first long of main's msg may have
  OutCapacity,  \* how many of its messages QUEUE_WRITE_TO_APPLICATION holds
  MaxOrders,    \* bound: messages the core sends to the device wrapper
  MaxSends      \* bound: messages sent to the utility handler

ASSUME UtilityAssumption ==
  /\ Residue \subseteq [type : Int, state : Int, event : Int] /\ Residue # {}
  /\ FirstLong \subseteq Int /\ FirstLong # {}
  /\ OutCapacity \in Nat /\ MaxOrders \in Nat /\ MaxSends \in Nat

QUEUE_READ_FROM_DEVICE     == 10201
QUEUE_WRITE_TO_APPLICATION == 10204

ST_ANY  == -1
ST_INIT == 0
ST_TERM == 2
ST_AUTH == 3
ST_READ == 4
ST_END  == 5
EV_READ_FROM_DEVICE == 5000

VARIABLES
  ids,       \* the keys that have a queue; the core creates them
  inq,       \* the messages of QUEUE_READ_FROM_DEVICE
  out,       \* how many messages of this process the core has still to read
  upc,       \* "read", "write" (inside a handler) or "stopped"
  state,     \* global
  event,     \* global
  fn,        \* the handler that runs
  session,   \* first long of main's msg, which is never a message's
  nsent,     \* auxiliary: messages sent to this process
  norders,   \* auxiliary: orders the core has sent to the device wrapper
  delivered  \* auxiliary: the orders the device wrapper has read

uvars == <<ids, inq, out, upc, state, event, fn, session,
           nsent, norders, delivered>>

(* A queued message: its first long, its type, whether its text is long
   enough for the whole of msg_type to be sent; auxiliary, the number of an
   order to the device.  Its state and its event are never sent. *)
Message == [session : {1, 34567}, type : Int, whole : BOOLEAN, n : Nat]

-----------------------------------------------------------------------------
trans == << [st |-> ST_INIT, fn |-> "GotKey"],   [st |-> ST_AUTH, fn |-> "Auth"],
            [st |-> ST_READ, fn |-> "ReadData"], [st |-> ST_END,  fn |-> "EndComm"],
            [st |-> ST_ANY,  fn |-> "FsmError"] >>

(* The handlers for a state and an event: none or one. *)
Matching(st, ev) ==
  {trans[i].fn : i \in {j \in DOMAIN trans :
                          trans[j].st = st /\ ev = EV_READ_FROM_DEVICE}}

(* Mutant: EndComm returns the terminal state. *)
Returns_Term(f, st) == IF f = "EndComm" THEN ST_TERM ELSE 0

(* What a handler returns.  The state it gives its copy of the message is
   not what main goes on with. *)
Returns(f, st) == IF f = "EndComm" THEN st ELSE 0

(* Mutants: messages of any type are read, as in the stack's queue manager;
   only the oldest message is looked at. *)
FirstForUs_AnyType(i) == i = 1
FirstForUs_HeadOnly(i) == i = 1 /\ inq[i].session = 1

(* msgrcv with message type 1 takes the oldest message whose first long is 1. *)
FirstForUs(i) == inq[i].session = 1 /\ \A j \in 1..i - 1 : inq[j].session # 1

-----------------------------------------------------------------------------
(* main assigns only state; event is a zeroed global, msg is uninitialised. *)
Init ==
  /\ ids = {} /\ inq = << >> /\ out = 0
  /\ upc = "read" /\ state = ST_INIT /\ event = 0 /\ fn = "none"
  /\ session \in FirstLong
  /\ nsent = 0 /\ norders = 0 /\ delivered = << >>

(* The types a message may be read with: at least the low byte is sent. *)
Arrives(m) == IF m.whole THEN {m.type} ELSE {m.type, m.type + 256}

(* Mutant: a handler is called whether or not a row matches. *)
Lookup_AlwaysCalls(msg) ==
  /\ state' = msg.state /\ event' = msg.event
  /\ upc' = "write"
  /\ fn' \in IF Matching(state', event') = {} THEN {"none"} ELSE Matching(state', event')
  /\ session' \in FirstLong

(* GetMessageStateEvent after its message_queue_read, with the local msg as it
   then is, and the search of the table in main.  The function ends without a
   return statement: main's msg is anything afterwards. *)
Lookup(msg) ==
  /\ session' \in FirstLong
  /\ state' = IF msg.type = 1 THEN msg.state ELSE state
  /\ event' = IF msg.type = 1 THEN msg.event ELSE event
  /\ IF Matching(state', event') = {}
     THEN upc' = "read" /\ fn' = "none"
     ELSE upc' = "write" /\ fn' \in Matching(state', event')

GetMessageStateEvent ==
  /\ upc = "read" /\ state # ST_TERM
  /\ \/ \E i \in 1..Len(inq) :
           /\ FirstForUs(i)
           /\ \E u \in Residue, t \in Arrives(inq[i]) : Lookup([u EXCEPT !.type = t])
           /\ inq' = RemoveAt(inq, i)
     \/ /\ QUEUE_READ_FROM_DEVICE \notin ids
        /\ \E u \in Residue : Lookup(u)
        /\ UNCHANGED inq
  /\ UNCHANGED <<ids, out, nsent, norders, delivered>>

(* Every handler writes main's msg, with a state and an event that are not
   sent; the write fails if its first long is no message type. *)
HandlerWrite ==
  /\ upc = "write"
  /\ out' = IF QUEUE_WRITE_TO_APPLICATION \in ids /\ session >= 1 /\ out < OutCapacity
            THEN out + 1 ELSE out
  /\ state' = Returns(fn, state)
  /\ upc' = "read" /\ fn' = "none"
  /\ UNCHANGED <<ids, inq, event, session, nsent, norders, delivered>>

Stop ==
  /\ upc = "read" /\ state = ST_TERM
  /\ upc' = "stopped"
  /\ UNCHANGED <<ids, inq, out, state, event, fn, session,
                 nsent, norders, delivered>>

Utility == GetMessageStateEvent \/ HandlerWrite \/ Stop

-----------------------------------------------------------------------------
(* The other processes.  The core creates the queues, and each creation may be
   refused; it sends orders to the device and reads what comes to its own
   queue. *)
CoreCreates ==
  /\ \E k \in {QUEUE_WRITE_TO_APPLICATION, QUEUE_READ_FROM_DEVICE} \ ids :
        ids' = ids \cup {k}
  /\ UNCHANGED <<inq, out, upc, state, event, fn, session,
                 nsent, norders, delivered>>

Enqueue(m) ==
  /\ QUEUE_READ_FROM_DEVICE \in ids
  /\ inq' = Append(inq, m)
  /\ UNCHANGED <<ids, out, upc, state, event, fn, session, delivered>>

CoreOrders ==
  /\ norders < MaxOrders
  /\ norders' = norders + 1
  /\ Enqueue([session |-> 34567, type |-> 0, whole |-> TRUE, n |-> norders + 1])
  /\ UNCHANGED nsent

(* A program that has something for the utility handler, as callback.c does:
   first long 1. *)
SendsToUtility ==
  /\ nsent < MaxSends
  /\ nsent' = nsent + 1
  /\ \E t \in {1, 2}, w \in BOOLEAN :
        Enqueue([session |-> 1, type |-> t, whole |-> w, n |-> 0])
  /\ UNCHANGED norders

CoreReads ==
  /\ out > 0
  /\ out' = out - 1
  /\ UNCHANGED <<ids, inq, upc, state, event, fn, session,
                 nsent, norders, delivered>>

(* The device wrapper reads the oldest message, whoever it is for. *)
DeviceReads ==
  /\ inq # << >>
  /\ inq' = Tail(inq)
  /\ delivered' = IF Head(inq).n > 0 THEN Append(delivered, Head(inq).n) ELSE delivered
  /\ UNCHANGED <<ids, out, upc, state, event, fn, session, nsent, norders>>

Next == \/ GetMessageStateEvent \/ HandlerWrite \/ Stop
        \/ CoreCreates \/ CoreOrders \/ CoreReads
        \/ SendsToUtility \/ DeviceReads

Spec == Init /\ [][Next]_uvars

(* The kernel runs the utility handler whenever it can run. *)
FairSpec == Spec /\ WF_uvars(Utility)

-----------------------------------------------------------------------------
(* Type correctness; a handler runs exactly while main is inside one. *)
UtilityTypeOK ==
  /\ ids \subseteq {QUEUE_READ_FROM_DEVICE, QUEUE_WRITE_TO_APPLICATION}
  /\ inq \in Seq(Message)
  /\ out \in 0..OutCapacity
  /\ upc \in {"read", "write", "stopped"}
  /\ state \in Int /\ event \in Int /\ session \in Int
  /\ fn # "none" <=> upc = "write"
  /\ nsent \in Nat /\ norders \in Nat /\ delivered \in Seq(Nat)

(* Sharing key 10201 does the stack no harm: the utility handler asks for
   messages of type 1, so the device wrapper gets every order of the core, and
   in the order they were sent: it has had the first of them, and the others
   are in the queue, oldest first. *)
OrdersReachDeviceInOrder ==
  /\ \A i \in 1..Len(delivered) : delivered[i] = i
  /\ {inq[i].n : i \in 1..Len(inq)} \ {0} = Len(delivered) + 1..norders
  /\ \A i, j \in 1..Len(inq) : i < j /\ inq[i].n # 0 /\ inq[j].n # 0 => inq[i].n < inq[j].n

(* No handler ends the loop, EndComm and FsmError included, although both put
   ST_TERM in their message: only GetMessageStateEvent can bring it about. *)
OnlyAReadEndsTheLoop ==
  [][state # ST_TERM /\ state' = ST_TERM => upc = "read"]_uvars

(* A message for the utility handler does not stay behind the core's orders:
   it is read, if the process has not stopped, though the device be idle. *)
MessagesForUsAreRead ==
  []<>(upc = "stopped" \/ \A i \in 1..Len(inq) : inq[i].session # 1)
=============================================================================
