# A verification of the Nutrino stack

TLA+ models of the message-passing stack in `core/` and `application/`, of the process
in `utility_handler/`, of the bytes they exchange, and of the lower half of the NFC HAL
in `opennfc/`: its link to the controller, and its timers, deferred calls and threads.
TLC configurations check them on small instances; TLAPS proves the safety of the stack,
of the utility handler and of the HAL's event loop, the two refinements, and most of the
safety of the link, for every instance. Paths below are relative to the repository root.

## The system

The repository's own code is small, about a thousand lines of C. The rest
(`curl/`, `json-c-0.9/`, `libnfc/`, `miniweb/`, `opennfc/`) is vendored and no
program of the stack calls it. Of the vendored code the lower layers of the Open NFC
HAL are modelled, because they are the concurrent, failure-prone part of an NFC
stack; `HAL` below stands for
`opennfc/hardware/libhardware/modules/nfcc/nfc_hal_microread`.

| Component | Source | State | Operations |
|---|---|---|---|
| core FSM | `core/src/core_fsm.c` | globals `state`, `event`, `msg`; the table `trans` | `main`: create three queues, then read `QUEUE_CORE`, look (state, event) up, run `Init_led` or `Send_ack` |
| queue manager | `core/src/queue_manager.c` (a copy in `application/`) | the kernel's System V queues | `message_queue_init`, `_write` (`IPC_NOWAIT`), `_read` (blocking, any type) |
| application | `application/application_handler.c`, `my_NFC_UserSpace_App.c` | a `struct msgbuff` per call | the menu and `glow_led`, `glow_led_with_fsm_ack`, `glow_led_with_board_ack` |
| device wrapper | `application/callback_tester.c` | one `struct msgbuff`, never initialised | read `QUEUE_DEVICE`, answer on `QUEUE_CORE`, for ever |
| utility handler | `utility_handler/` | globals `state`, `event`; its own table and message layout | `main`: read key 10201 (messages of type 1), look (state, event) up, run one of five handlers, which all write to key 10204 |
| HAL link layer | `HAL/sources/nfc_hal_shdlc.c`, `nfc_hal_shdlc_frame.c`, `nfc_hal_hci_frame.c` | connection status, frame identifiers, a window of one frame, a read buffer, five timers, lists of messages waiting and sent | connect (RST, UA), write, read, acknowledge, resend, reset |
| HAL event loop | `HAL/sources/nfc_hal_dfc.c`, `nfc_hal_multi_timer.c`, `HAL/porting/porting_hal.c`, parts of `nfc_hal_binding.c` | a circular array of deferred calls, nine timers on one platform timer, a wake-up socket, a critical section | post, pump, flush; set, cancel, poll; the driver thread's `select` loop |
| legacy FSM, legacy queue manager, callback stub | `core/src/utility_handler.c`, `queue_manager/`, `core/src/callback/` | | in no Makefile; not modelled |

The processes of the stack share nothing but the queues `QUEUE_DEVICE`, `QUEUE_APPLICATION`
and `QUEUE_CORE`. The queues are created by the core alone, are bounded in
bytes, outlive every process and are never removed. A request travels

    glow_led                 app -> core -> core -> app
    glow_led_with_fsm_ack    app -> core -> app, and core -> device -> core -> app
    glow_led_with_board_ack  app -> core -> device -> core -> app

so a request acknowledged by the core causes two acknowledgements, a plain one
causes one, and the applications, which read whatever is oldest in the one
`QUEUE_APPLICATION`, find each other's and earlier ones.

The HAL runs in two threads. The driver thread waits in `select` for the
controller, for a byte on its control socket or for the platform timer, and then
runs `static_PNALBindingPoll`: timers, port, deferred calls. Threads of the upper
layer call the binding, which takes the same critical section. Nothing in the HAL
calls back directly: a layer posts a deferred call, and the pump makes it later,
when the state it was posted in may be gone.

What is hard in the HAL: frames are lost, and a timer that expires while the answer
is being processed is a retry of something already done; a frame that cannot go out
now must be tried again by one of four timers or callbacks; the controller may
restart under a session; a received frame lies in a buffer that is reused; a timer
expires and is cancelled at once; the clock wraps around; the array of calls grows
while it is wrapped around; and the driver thread touches the platform timer
outside the critical section.

What is hard in the stack: every return value of the queue manager is ignored, so a
full or missing queue is discovered by nobody; a failed read leaves the previous
message, or an uninitialised one, to be acted on; two of the core's writes
belong to one request and anything can happen between them; processes start in
any order and may die holding a message; several applications compete for
acknowledgements that carry no identity; and a blocking read has no timeout.
`PROJECT.json` lists these hazards with the lines where they bite.

What makes each part correct:

* queue manager: a queue never exceeds its byte limit, and no queued message is
  larger than the struct it will be read into;
* core FSM: every message of a request has a table row, no message is handled
  twice, the loop does not end;
* device wrapper: it answers what it has read, once;
* application: an acknowledged call returns, and what it reports is true;
* the stack: acknowledgements follow their causes, none is duplicated, none is
  lost without a fault;
* utility handler: it acts on what was sent to it, leaves alone what was sent to
  the device wrapper over the same key, and does not stop on its own;
* HAL link layer: frames arrive once and in order, what is reported written was
  received, and everything is sent in the end;
* HAL event loop: timers fire when they are due, never early and never after they
  were cancelled, and no deferred call is forgotten, repeated or reordered.

## The modules

| Module | Models |
|---|---|
| `StackDefs` | the two headers: keys, states, events, `struct msgbuff` |
| `QueueManager` | `queue_manager.c` over the kernel's queues: `ids`, `queues`, `cbytes` |
| `CoreFsm` | `core_fsm.c`: `cpc`, `state`, `event`, `msg`, `pend` |
| `Application` | the three calls and the menu: `apc`, `buf` per instance |
| `DeviceWrapper` | `callback_tester.c`: `dpc`, `dmsg` |
| `NutrinoStack` | the processes composed, start-up, restarts, the core properties |
| `AckService` | abstract specification: what the stack promises |
| `StackRefinement` | the refinement mapping from `NutrinoStack` to `AckService` |
| `StackAccounting` | counting, liveness, and whether the board answers |
| `StackProofs` | proofs: types, what a message may be in each place, acknowledgements owed once, the refinement, and the counting |
| `UtilityHandler` | `utility_handler/`: `upc`, `state`, `event`, `fn`, `session` and the two queues it uses |
| `UtilityProofs` | proofs about `UtilityHandler` |
| `MsgLayout` | the bytes of a message under both headers: `buf`, `q`, and `long`, the size of a long |
| `MsgLayoutProofs` | proofs about `MsgLayout` |
| `Shdlc` | `nfc_hal_shdlc.c` and the frame layer: each function as an operator on the instance |
| `HciFrame` | `nfc_hal_hci_frame.c`, the user of `Shdlc` |
| `NfcLink` | both under the event loop, with the port, the two lines and the controller: `host`, `hci`, `toCtrl`, `toHost`, `ctrl` |
| `LinkProperties` | what the link is checked for |
| `LinkProofs` | proofs about the link: what waits in an instance is waited for |
| `LinkQueueProofs` | proofs about the link: what the layers tell each other through the queue |
| `LinkSyncProofs` | proofs about the link: what its two ends have sent and received |
| `DeferredCalls` | `nfc_hal_dfc.c` |
| `MultiTimer` | `nfc_hal_multi_timer.c` on the platform timer |
| `HalEvents` | the driver thread and a thread of the upper layer over both: `h`, `now`, `lock`, `driver`, `user` |
| `CallQueue` | abstract specification: what the deferred calls promise |
| `EventProperties` | what the event loop is checked for, and the refinement mapping to `CallQueue` |
| `DeferredCallsProofs` | lemmas about the circular array and the poll of the timers |
| `EventProofs` | proofs about the event loop, and its refinement of `CallQueue` |
| `MCStack`, `MCUtility`, `MCLayout`, `MCLink`, `MCEvents` | values of the constants for TLC |

**Grain.** One step per system call. Between two calls a process touches only
its own memory, so nothing else can tell. A handler of the core is the sequence
`pend` of the writes it makes, computed when the message is dispatched
(`GetMessageStateEvent`, which also stands for the table lookup in `main`), and
`HandlerWrite` performs them one at a time; the last one stores the handler's
return value in `state`. A call of an application is its write (`glow_led`, ...)
and, for the acknowledged ones, its read (`ReadAck`).

**The kernel** is external. `MsgsndOk` is what the code needs of `msgsnd` with
`IPC_NOWAIT`: the queue exists, the first long (which the kernel takes for the
message type) is positive and the bytes fit in `msg_qbytes`. `MsgrcvOk` and
`ReadFails` are `msgrcv` with type 0: the oldest message, or failure if there is
no queue, or blocking if it is empty. An interrupted `msgrcv` is left out: no
program installs a signal handler, and Linux restarts the call after a stop.

**Data.** A text is a member of `Texts`; only its length matters, because it is
the size of the message on the queue. States and events keep their numbers,
because two events have the same one. In these modules the layout is the 32-bit one,
for which the binary kept in the repository was built: there the `12` in the queue
manager is the size of the three longs after the first; `MsgLayout` has the other.
Uninitialised memory is the
constant `Garbage`: any well-formed contents that no application asked for.

**Auxiliary state.** Messages carry no identity (`session` is always 34567), so
the model adds an `origin`, the request a message descends from, and history
variables `sent`, `acked`, `dropped`, `seen`, `blind`, `restarts`, `call`,
`nreq`. Only the two bounds (`nreq < MaxRequests`, `restarts < MaxRestarts`)
are read by a guard.

**Restarts.** A process may die at any step and be started again; its memory is
lost and the queues stay. Menu time (`sleep(15)`) is any delay.

**The utility handler** is a model of its own: its message has state and event
behind the text, which its queue manager does not send, so they and the type of
a one-byte message come from the constant `Residue`, the contents an
uninitialised local may have. `GetMessageStateEvent` has no return statement:
the message `main` passes on is anything, and all that matters of it is whether
its first long (`FirstLong`) is a message type. The core and the device wrapper,
which share its keys, appear by what they do to the queues (`CoreCreates`,
`CoreOrders`, `CoreReads`, `DeviceReads`); the program that sends to it
(`SendsToUtility`) follows `core/src/callback/callback.c`, a stub that does not
compile today.

**The layout.** `MsgLayout` follows the bytes. A buffer is a function from offsets to
bytes; a write puts `buflen` of them on a queue and a read lays them over the
reader's buffer, whose other bytes stay. The size of a long is chosen in `Init`, and
`MAXSIZE` and the `12` are the real ones. A text of the stack is a run of one
character of its own, with its real length. The core's handlers are one step here:
their interleavings are `CoreFsm`'s. The utility handler writes to key 10204, which is
the core's queue, with its own header and `buflen`, a type and a text that nobody
initialised. `told` is a history variable: state and event of the last message of the
stack the core has read.

**The link.** A function of the source is an operator that takes the instance and
returns it; `NfcLink` has one action for each callback the pump can make and for each
call from outside. The frame layer has one write buffer. A frame is taken by the port at
once or later (`Settle`, `PollWrite`), and one written over another that was partly sent
may reach the controller garbled (`OnTheWire`). `PSHDLCFrameRead`, and every set or
cancel of a timer, polls the port or the timers inside a callback, so `PollRead` and
`TimerExpires` may come between any two calls; `PollWrite` and `Connect` only come
outside the pump. Otherwise a callback is one step, also where `PNALMultiTimerSet`
leaves the critical section for the entropy callback in the middle of it
(`nfc_hal_multi_timer.c:65`): a write of another thread (`UserWrites`) comes before or
after it. By reading the code, with a window of one, such a write is refused, held back
or the same as one before or after; no model shows it. Time is not modelled: an armed
timer may expire in any state, but T2 and T3, which guard an answer, only when none is
under way, unless they are in `Early`. The controller and the lines are external: a peer
with a window of one that answers what it gets, acknowledges by itself or with a frame
of its own, repeats what is not acknowledged, and may be busy (RNR), restart or be
reset. A payload is what the code looks at: whether it ends a message, and for received
ones whether it is chained or an event.

**The event loop.** Milliseconds are counted modulo `Mod`, the source's 2^32. The
platform timer's two variables are assigned one at a time, because the driver thread
reads and writes them without the critical section; each step of that thread reads one
of them. Of the reads of `nTimerValue` the one that asks whether a timer is set is a
step (`Look`), and the two that compute the timeout of the `select` (`porting_hal.c:488`
and `:490`) are one: what changes the value between them also sends a byte that ends the
`select`. The clock is read by `PNALMultiTimerSet` (`nfc_hal_multi_timer.c:89`), by the
poll it calls (`:136`) and by `CNALTimerSet` (`porting_hal.c:165`), which adds to it
what was left when the poll read it. The first two reads are one step, and a millisecond
between them is a timeout smaller by one; the third is a step of its own for the upper
layer's thread (`UserAssigns`) and any delay of up to `MaxLag` milliseconds for the
driver thread (`Lags`), and so is the time before the `select` begins. The pump leaves
the critical section for the callbacks of the upper layer, and so does
`PNALMultiTimerSet` for its entropy callback; there the other thread may come in. Calls
are posted by timers, by the port (`Enter`), by a deferred call that is being made
(`CallPosts`) and by the other calls of the binding (`UserPosts`). Memory for a larger
array may be missing. History variables say when each timer is due (`due`, from its
being set until its callback is posted or it is cancelled, whatever `nAbsoluteTimeout`
says) and how long it has (`left`), which ones must stay silent (`silent`), and why the
platform timer's value is lost (`lost`).

**Dead code.** `GotKey`, `FsmError`, `Auth`, `ReadData` and `EndComm` of
`core_fsm.c` are in no row of `trans`; the `message_type` test in `main` always
succeeds (a zero global against `MSG_TYPE_GLOW_LED`, which is 0); the error
branches of the menu cannot be reached since all calls return 0.

## What is checked

`CHECK_DEADLOCK FALSE` is set where the system may stop: once nobody asks for
anything more every process of the stack waits in `msgrcv`, the utility handler's
loop may end, and the link is quiet when all is sent. The event loop has deadlock
checked.

| Run | Instance | Properties |
|---|---|---|
| `cold_start` | 1 application, 2 requests, 1 restart, no queue at first, creation may fail, 140-byte queues, four kinds of garbage | `TypeOK`, `ChannelContract`, `CoreStopsOnlyAfterBlindRead`, `AckCausality`, `AckAtMostOnce`, `AckConservation`, `ImplementsAckService` |
| `live` | 2 applications with 2 requests each that share a queue, queues that never fill, fairness | `AckConservation`, `WaitersCovered`, `EveryCallReturns`, `DeviceCatchesUp` |
| `utility` | 2 orders of the core, 2 messages for the utility handler, room for 1 of its own, 13 kinds of residue, fairness | `UtilityTypeOK`, `OrdersReachDeviceInOrder`, `OnlyAReadEndsTheLoop`, `MessagesForUsAreRead` |
| `layout` | longs of 4 and 8 bytes, 2 requests, 2 foreign messages of 2 types and 3 texts | `FieldsArrive`, `TextArrives`, `ForeignOnlyRepeats` |
| `link` | 1 message of 2 frames, 1 frame of the controller, 2 faults out of loss, restart, reset and busy, T2 early | `LinkTypeOK`, `FramesInOrder`, `AckedFramesWereTaken`, `ResendScheduled`, `NoLostWakeUp`, `AckHasContext`, `CompletedUnlessRestarted` |
| `link_live` | 1 message of 2 frames, 2 frames of the controller, 1 loss, fairness | `EveryMessageCompletes`, `EveryFrameReceived`, `StreamDataIntact` |
| `events` | 2 timers, a clock of 8 milliseconds, timeouts of 1 and 2, delays of up to 2, an array of 3 slots, memory never fails | `NeverEarly`, `NoTimerForgotten` |
| `deferred_calls` | 2 timers, a clock of 6 milliseconds, timeouts of 1, an array of 2 slots that grows by 1, memory may fail | `EventsTypeOK`, `NoCallForgotten`, `CancelledStaysSilent`, `ImplementsCallQueue` |
| `board_ack`, `link_busy`, `link_restart`, `timer_race` | as small as the counterexample allows | one claim each, violated |

* `ChannelContract`: an application finds only acknowledgements, the device wrapper only
  orders, and the core no message of a request without a row; none is larger than the
  struct although `message_queue_read` allows a byte more.
* `CoreStopsOnlyAfterBlindRead`: "Infinite while loop" (`core_fsm.c:137`) is true except
  for one way out: a device wrapper started before the core has created `QUEUE_DEVICE`
  sends its uninitialised buffer, with state 2 in it.
* `AckCausality`, `AckAtMostOnce`: an acknowledgement is made only for a request that
  was sent, by `Send_ack` only after the device has read it (plain requests excepted),
  and never twice, through failed reads and restarts.
* `ImplementsAckService`: the stack refines a service in which each accepted request is
  owed a fixed set of acknowledgements, each delivered at most once and given up only
  after a fault (a failed write or a death).
* `AckConservation`: without restarts, a request none of whose writes failed has exactly
  one acknowledgement, or two if acknowledged by the core, made or under way.
  `cold_start` has the full queues for it, `live` the callers that compete.
  `WaitersCovered`: there are always as many waiting or under way as there are blocked
  callers, although callers take each other's.
* `EveryCallReturns`, `DeviceCatchesUp`: liveness, when no write fails.
* `OrdersReachDeviceInOrder`: on key 10201 the utility handler asks for messages of type
  1 and the core's orders have another, so the device wrapper still gets all of them, in
  order. The reverse does not hold: the device wrapper may take a message meant for the
  utility handler.
* `OnlyAReadEndsTheLoop`: a handler that puts `ST_TERM` in its message changes only its
  copy; the loop ends only on what a read has left in the buffer. It says nothing of
  what that is: a read that failed, or residue, may well end the loop.
* `MessagesForUsAreRead`: a message for the utility handler never stays behind orders an
  idle device wrapper does not read.

* `FieldsArrive`, `TextArrives`: a program built with 8-byte longs sends 12 bytes too
  few, but every text of the stack is long enough for type, state and event to arrive;
  the text loses its last 12 bytes, the zero byte among them.
* `ForeignOnlyRepeats`: whatever the utility handler's bytes are laid over, one message
  after the other, the core does nothing but what its last message of the stack asked
  for. What a foreign message may do is repeat that step; a text with the right bytes
  can also end the core's loop, and nothing is claimed about that.
* `FramesInOrder`, `AckedFramesWereTaken`: within a session each side has a prefix of
  what the other sent, and nothing is taken for acknowledged that was not received,
  though only three bits tell a repeated frame from the next and T2 may expire at any
  moment.
* `ResendScheduled`, `NoLostWakeUp`: safety forms of progress. A frame that waits has a
  timer or a completion that will try it again; a message held back by the HCI layer has
  a call coming that lets it go on. `LinkTypeOK` has the order of the identifiers the
  code asserts, `AckHasContext` the assertion of the write machine.
* `CompletedUnlessRestarted`: a message is reported written only when its last frame was
  received, unless the controller restarted by itself.
* `EveryMessageCompletes`, `EveryFrameReceived`: with one frame lost anywhere, in the
  handshake too, everything arrives. `StreamDataIntact`: the deferred call that passes a
  frame on still finds it in `aRxPacket`.
* `NeverEarly`: a callback is posted only when its time has passed, whatever the
  wrap-around makes of the numbers compared. `CancelledStaysSilent`: not after a cancel,
  even if it was in the queue.
* `NoTimerForgotten`: while the driver thread sleeps, its `select` ends before any timer
  is due that was set and is still to be posted, or at most `2 * MaxLag` milliseconds
  late: once for the time between the two reads of the clock in `CNALTimerSet`, once for
  the time between reading it and starting the `select`. It has five exceptions, each of
  which TLC needs: the value of the platform timer is lost in the race of the two
  threads (`timer_race`); it is 0, "no timer", because the clock and the timeout in
  `CNALTimerSet` add up to 0; the timer itself is due at 0, the value that says it is
  not set; a timer is due at 0xFFFFFFFF, the value that stands for none, so that the
  platform timer is cancelled; and a timer expired just before the wrap-around that the
  driver thread looks at just after it, because it compares the two numbers as they are;
  its `select` then lasts 49 days. Nothing is said of a timer whose call `PNALDFCPost`
  lost for want of memory: it is not waited for any more.
* `NoCallForgotten`: only a post into an empty queue kicks the driver thread, and that
  is enough. `ImplementsCallQueue`: the circular array that grows and is flushed refines
  a queue in which calls are made one at a time, in order, at most once.

**Bounds.** 140 bytes hold two requests but not three, so queues are met empty,
partly full and full, and a write can be refused by a full queue that drains
later. Two requests make one call find the acknowledgement of another. One
restart at any point covers each process dying once in every state; the theorems
have no bound on it. In `live`, 1000 bytes is more than four requests can
occupy. In `utility`, two messages of each kind give every order of theirs in the
shared queue, and the residue holds each state of the table, the terminal one
and one that is in no row. In `layout`, the texts lie around the lengths at which
bytes reach the state and the event, and hold the bytes of the core's own numbers; two
foreign messages are laid over the same buffer, and one of them between two requests
meets every state of it. In
`link`, two frames of one message fill the window and make the second wait; two
faults give a loss of a repeated frame, or a loss and a restart; each kind but the
loss strikes once, because two restarts in one handshake can match a UA of the first
with the second. In `events`, a clock of 8 wraps around within a few steps, `MaxLate`
2 lets it wrap between a due time and the poll, `MaxLag` 2 lets it reach 0 between two
reads, and a timer set at 6 or 7 can be due at 0 or at 7, the number for none; the array is
left large enough. In `deferred_calls`, where the clock matters less, one call queued by
others beside those of two timers and the entropy fills the array while it is wrapped
around, with and without memory to grow. The passing runs have between
21 thousand and 3.4 million states.

**Fairness.** In `live`: weak fairness of the core, of the device
wrapper and of each application's read. The kernel schedules a process that can
run and wakes a reader when a message arrives; once a process is enabled only
its own step disables it, except that another application may take the message
a reader was woken for, and then the reader waits for the next one. Nothing is
assumed of the user or of restarts. In `utility`: weak fairness of the utility
handler, for the same reason, and nothing of the other processes; that the
device wrapper may take its message first only helps what is claimed. In `link_live`
and `link_busy`: the pump goes on while its queue is not empty, the port is polled
time and again outside it (strong fairness of `PollWrite`, which the pump disables in
between), an armed timer expires, and the controller receives and sends. No timer is
early there: were T2 always to expire just before the acknowledgement is processed,
the window would have gone back each time and the acknowledgement been ignored as
out of range, for ever. `events` and `deferred_calls` have no fairness: their progress is
stated as safety.

**Violated claims.**

* `board_ack`: "Ack From Board" (the menu): the call can return on a surplus
  acknowledgement before the board has read the request.
* `link_busy`: "frame are sent until they are acknowledged" (`nfc_hal_shdlc.h:261`):
  after an RNR the resend timer runs out once and is not set again. If the RR that
  ends the busy spell is lost the host waits for ever.
* `link_restart`: "called when the message is written" (`nfc_hal_hci_frame.h:297`): when
  the controller restarts, the link forgets its window but the HCI layer keeps the
  message in its list of sent ones, and the acknowledgement of the next message
  completes it.
* `timer_race`: "0 if no timer is pending" (`porting_hal.c:53`): the driver thread marks
  the timer expired between the two assignments of `CNALTimerSet` in another thread.
  Then the value is 0, the flag is false and the multi-timer believes the timer set:
  the next `select` has no timeout, and no later poll sets it.

Other texts the modelling found untrue, which no run is spent on because one look at the
code shows it: a timer whose callback is called "if the timer expires"
(`nfc_hal_multi_timer.h:87`) never calls it when the time plus the timeout, 32 bits, is
0 (`nfc_hal_multi_timer.c:89`), because the poll takes it for one that is not set
(`:154`; the exception `due[t] = 0` of `NoTimerForgotten`); the plain request ("Glow LED
without an Ack") never reaches the device and is acknowledged; "recieved ack from fsm"
may be an older acknowledgement; "Message Sent to Core_FSM with success" is printed when
the queue was full; the utility handler looks up a state and an event that were not
sent, and its read is no "blocker" before the core has created the queue.

## What is proved

For every value of the constants that the modules' named assumptions allow. For the
stack that is every set of applications, queue size, number of requests and restarts
and contents of uninitialised memory (garbage descends from no request; the queues
left by an earlier run are none or all three). For the utility handler every residue
and number of messages. For the event loop every number of timers, every initial size
and growth of the array, every even width of the clock, every set of timeouts below
half of it, every delay of the poll below half of it, and every time up to that delay
between reading the clock and using it (`EventsAssumption`; beyond half the clock the code
itself cannot tell the past from the future). For the link
every list of messages, list of frames of the controller, read buffer, number and kind
of faults, and every set of timers that may be early; the last four theorems assume
`"T3" \notin Early`, for a reason given with them.

| Theorem | Statement |
|---|---|
| `TypeCorrect` | `Spec => []TypeOK` |
| `FlowCorrect` | `Spec => []FlowInv` |
| `ChannelContractHolds` | `Spec => []ChannelContract` |
| `CoreStopsOnlyAfterBlindReadHolds` | `Spec => []CoreStopsOnlyAfterBlindRead` |
| `AckCausalityHolds` | `Spec => []AckCausality` |
| `AckInvHolds` | `Spec => []AckInv` |
| `AckAtMostOnceHolds` | `Spec => AckAtMostOnce` |
| `ImplementsAckServiceHolds` | `Spec => ImplementsAckService` |
| `ConservedHolds` | `Spec => []Conserved` |
| `AckConservationHolds` | `Spec => []AckConservation` |
| `WaitersCoveredHolds` | `Spec => []WaitersCovered` |
| `UtilityTypeCorrect` | `Spec => []UtilityTypeOK` |
| `OnlyAReadEndsTheLoopHolds` | `Spec => OnlyAReadEndsTheLoop` |
| `OrdersReachDeviceInOrderHolds` | `Spec => []OrdersReachDeviceInOrder` |
| `EventInvHolds`, `TimerInvHolds` | `Spec => []EventInv`, `Spec => []TimerInv` |
| `EventsTypeCorrect` | `Spec => []EventsTypeOK` |
| `CancelledStaysSilentHolds` | `Spec => []CancelledStaysSilent` |
| `NoCallForgottenHolds` | `Spec => []NoCallForgotten` |
| `NeverEarlyHolds` | `Spec => NeverEarly` |
| `NoTimerForgottenHolds` | `Spec => []NoTimerForgotten` |
| `ImplementsCallQueueHolds` | `Spec => ImplementsCallQueue` |
| `LayoutInvHolds` | `Spec => []LayoutInv` |
| `FieldsArriveHolds` | `Spec => []FieldsArrive` |
| `TextArrivesHolds` | `Spec => []TextArrives` |
| `ForeignOnlyRepeatsHolds` | `Spec => []ForeignOnlyRepeats` |
| `LinkInvHolds` | `Spec => []LinkInv` |
| `LinkTypeCorrect` | `Spec => []LinkTypeOK` |
| `ResendScheduledHolds` | `Spec => []ResendScheduled` |
| `QueueInvHolds` | `Spec => []QueueInv` |
| `StreamDataIntactHolds` | `Spec => []StreamDataIntact` |
| `NoLostWakeUpHolds` | `Spec => []NoLostWakeUp` |
| `AckHasContextHolds` | `Spec => []AckHasContext` |
| `SyncInvHolds` | `Spec => []SyncInv` |
| `FramesInOrderHolds` | `Spec => [](faults["restart"] = 0 => FramesInOrder)` |
| `AckedFramesWereTakenHolds` | `Spec => [](faults["restart"] = 0 => AckedFramesWereTaken)` |
| `CompletedUnlessRestartedHolds` | `Spec => []CompletedUnlessRestarted` |

Each inductive invariant was checked with TLC on the run's instance before it was
proved.

**Messages of the stack.** `TypeOK` is inductive by itself. The other invariants are
not: whether a message in
`QUEUE_CORE` has a table row depends on what the device wrapper held in `dmsg`,
that on what was in `QUEUE_DEVICE`, that on what the core had in `pend`, and that
on the `msg` it was computed from. `FlowInv` states what holds of a message in
each of those places: it is addressed correctly; if nobody asked for it the
device wrapper has gone on from a failed read; if somebody did, the request was
sent, and a message on its way back from the device has been seen by it. `sent`,
`seen` and `blind` only grow, so this stays true of messages that do not move
(`SoundGrows`), and one lemma per place says it is handed on: `HeadSound` and
`QueueReadFlow` for reads, `InitLedSound`, `SendAckSound` and `DispatchSound` for
the table, `QueueWriteFlow` for writes. `DispatchSound` also covers a read that
failed.

**Acknowledgements.** That none is made twice, and the refinement of `AckService`, rest
on `AckInv`: an acknowledgement a request is still owed is carried by one message only
(in `QUEUE_CORE`, in `QUEUE_DEVICE`, in a pending write of the core or in the device
wrapper's buffer), and no message carries one already made. The delicate case is a read
that fails and leaves the previous message to be handled again: `NoStaleBuffer` says
that a process with a message of a request in its buffer got it from a queue that
exists, so that its next read waits and does not fail. A step then moves an owed
acknowledgement from one place to another (a stutter of the service), delivers it, or
loses it, which happens only with a failed write or a death. `Conserved` adds that
without faults nothing is lost, and `WaitersCovered` follows from a count of the callers
against it.

**The utility handler.** `OrdersReachDeviceInOrder` is not inductive alone: `OrderInv`
adds that those delivered are no more than those sent, and that no order has the type
the utility handler asks for. The utility handler removes messages from the middle of
the queue; `Removed` says what that does to the positions of the others.

**The layout.** `LayoutInv` says of each queued message that its bytes say what was meant
(`Says`: the three fields, and the text as far as it has arrived), and of the core's buffer
what a foreign message can leave of it (`Remembers`). The type of a foreign message is
what nobody initialised, but behind it no byte is zero. So once one has reached the third
byte of the state field (`w + 2` for longs of `w` bytes) the number there is none of the
core's, no row matches, and only a message of the stack, which writes the whole field,
mends it. A shorter one leaves state, event and text as they were, and the core repeats
the step. The texts of the stack are at least 51 characters long when they are sent to the
core, and after being cut short by 12 bytes twice, on the way to the device and back, still
reach behind the event (`FieldsArrive`). The queue manager's arithmetic on offsets
(`SetFieldIs`, `WireIs`, `LaidIs`) is proved for both sizes of a long.

**The event loop.** `DeferredCallsProofs` says what `Grown`, `Popped`, a post and a
flush do to the calls held, by position, for an array that wraps around; and what a poll
does, whose loop over the timers is a recursive function. Induction over it is done with
a set in place of a predicate (`NaturalsByInduction`, from the well-foundedness of the
naturals; `LoopInduction`). `EventInv` has the types, who is in the critical section,
that a cancelled timer and one whose cancel is under way have no time set, that calls
held have a kick in the socket or the driver thread on its way to the pump (`Kicked`),
that the times set are those the timers are due at, so that none is reset without being
posted or cancelled, and only one due at 0 looks as if it were not set (`Agree`), and
that what `left` says agrees with the clock modulo its width (`OnTime`). From `OnTime`
follows that `Expired` is never true early (`ExpiredIsDue`) and that `Left` orders
timers as they are due (`LeftOrders`), although behind the wrap-around the code counts a
millisecond short. `TimerInv` is about the platform timer: `nLastTimerValue` is the time
of the earliest timer (`Earliest`); the time a poll has read is at most `MaxLag` old
when it is used (`Reading`); `nTimerValue` is `nLastTimerValue` or up to `MaxLag` later
(`Lagged`), unless it was lost or its expiry is being handled (`Platform`); and the
`select` ends at `nTimerValue`, or up to `MaxLag` later, unless a byte that ends it is
in the socket or about to be sent (`Timeout`). The exceptions in `NoTimerForgotten` are
where this argument stops: the timer due at 0 in `Agree`, the earliest time that is the
number for none and the two ways to lose the value in `Platform`, and in `Timeout` the
clock that has wrapped around the value.

**The link.** `LinkProofs` has one lemma for each function of `Shdlc` and `HciFrame`, in
the order in which they call each other, and one for each action. Most of them state
that an instance is left `Settled`: its fields have their values (`Instance`), nothing
is to be sent before the connection is up and T3 is over then (`Phases`), a frame being
written has its completion in the queue or in the frame layer, an RR keeps I frames back
only as long as T6 is coming, a window that is sent has T2 coming (`Awaited`), and a
control frame or an I frame not sent yet has something that will run the transmission
(`CtrlTried`, `IFrameTried`). Inside a handler the last two do not hold; `Sound` is what
does, and `TransmitSettled` says that `static_PSHDLCWriteTransmit` makes a sound
instance settled, whatever it decides. That is the argument for calling it at the end of
every handler. `IFrameTried` is claimed only while the controller has never been busy
(`Mode`), so the invariant also says that until then no RNR is on the line or in the
queue. A flush of the deferred calls is a fold over the queue, and `FlushKeeps` says by
induction which calls it leaves.

**The calls between the layers.** A callback is queued in one state and made in another,
so what `LinkProperties` says of two layers needs the order of the calls between them.
`QueueInv` says which calls are never queued before which (`NeverBefore`, `InOrder`):
there is at most one `Acknowledged` and one `StreamData`, and no frame is read before
the data of the last one has been passed on. Under it `Reads` ties the read that is
under way and the one place of the read buffer to their calls, `Starts` says what a
reset and a connection that is not up yet leave, and `Told` that the HCI layer knows
that it is connected, or a call will tell it. With these, a queued `StreamData` points
at what `rx` holds (`StreamDataIntact`). `Woken` is `NoLostWakeUp` with the fact that it
needs of the frame layer: a frame in the window has set `writeFull`, so its
acknowledgement will post `BufferFree`. It excepts restarts, and so `Unbroken` carries
through the line and the queue that a controller that has not restarted sends no RST.
`Contexts` counts the sent messages: one for an `Acknowledged` in the queue and one more
for the last frame of a message in the window; that it holds after restarts too is what
`AckHasContext` says. Lemmas whose names begin with `Kin` or end in `Effect` say what a
function posts and changes; those that end in `Queue` say that a callback or an action
keeps the invariant.

**The two ends of the link.** `SyncInv` relates the host to the controller and to every
frame between them, as long as the controller has not restarted by itself. Within a
session (`LiveOn`) it counts with full width what the controller counts in three bits
(`Expects`, `Sends`, `Owed`). Neither end is more than one frame ahead of the other
(`Abreast`), and what one has received is what the other sent (`Same`). Then every
number on a line is one of two, `k` or `k + 1`, and an older one is never behind a newer
one (`Steady`, used for both directions by `Outgoing` and `Incoming`): that is why three
bits, and a range test modulo 8, are enough, however often a frame is sent again. The
frame a side has written but not yet passed on counts as one on the line (`Out`, `In`),
and so the argument covers a resend prepared between the arrival of an acknowledgement
and the call that processes it. Before a session (`Shaken`) at most one RST or UA is
under way, and none while an RST is about to be sent again (`Shaking`, `Calling`);
behind a UA come only the first frames of the new session. `Completes` is about the HCI
layer: its list of sent messages is the one that `Acknowledged` is about to complete, if
that is queued, and the one whose last frame is in the window, so
`PHCIFrameWriteMachine` completes the right one.

The theorems need two things that the properties do not say. T3 (50 ms,
`nfc_hal_shdlc.c:27`) must not expire while RST or the answer to it is under way:
otherwise the HAL sends a second RST, which it forgets when the first is answered, and
which resets the controller in the middle of the session. With `Early` = `{"T2", "T3"}`
TLC finds `FramesInOrder` violated; the run `link` makes the same assumption. And the
controller must not have restarted by itself (`CompletedUnlessRestarted` says so in its
statement). After one restart TLC finds `FramesInOrder` and `AckedFramesWereTaken` true;
after two in one handshake a UA of the first can be taken for the answer to the second,
so that a theorem would have to count them.

**Only model-checked.** Liveness (`EveryCallReturns`, `DeviceCatchesUp`,
`MessagesForUsAreRead`, `EveryMessageCompletes`, `EveryFrameReceived`), which is out of
the prover's reach. Of the link, `FramesInOrder` and `AckedFramesWereTaken` after a
restart of the controller.

## Plan

Done: the stack, its abstract specification, the utility handler, the layout, the
HAL's link layer and event loop, and the proofs of all of them. What could follow, in
this order:

1. *The link after a restart*: `FramesInOrder` and `AckedFramesWereTaken` proved for one
   restart of the controller by itself, with an invariant for each phase of the handshake.
2. *Wider link*: windows of 2 to 4 frames, which the code allows and the
   configuration does not use, with T1; the wrap of the 32-bit identifiers.

## Not modelled

* The vendored libraries `curl`, `json-c`, `libnfc`, `miniweb`, and of Open NFC all
  above the HCI frame layer: services, protocol stack, generated stubs, JNI. They are
  about a third of a million lines in which these models are a small part; none is called
  by the stack.
* The legacy programs that are in no Makefile, among them the callback stub.
* Other programs of the machine that might use the same queue keys; everything
  printed.
* Of the link: windows other than 1 (so T1 is never set), the wrap of the 32-bit
  identifiers, I-frames without payload, byte stuffing, statistics, a reset
  from inside a deferred call, reads into a caller's buffer, a write of another thread in the
  middle of a callback.
* Of the event loop: the end of the driver thread, interrupted `select`, failures of
  `clock_gettime`, the reads of the com port (they appear as calls posted in `Enter`).

## Running

    tlc -workers 2 -config MCColdStart.cfg MCStack
    tlc -workers 2 -config MCUtility.cfg MCUtility
    tlc -workers 2 -config MCLayout.cfg MCLayout
    tlc -workers 2 -config MCLink.cfg MCLink
    tlc -workers 2 -config MCEvents.cfg MCEvents
    tlc -workers 2 -config MCEventsCalls.cfg MCEvents
    tlapm StackProofs.tla
    tlapm UtilityProofs.tla
    tlapm MsgLayoutProofs.tla
    tlapm DeferredCallsProofs.tla
    tlapm EventProofs.tla
    tlapm LinkProofs.tla
    tlapm LinkQueueProofs.tla
    tlapm LinkSyncProofs.tla
