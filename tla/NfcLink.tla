------------------------------ MODULE NfcLink ------------------------------
(***************************************************************************)
(* The link between the Open NFC HAL and the NFC controller: the event     *)
(* loop of the HAL (static_PNALBindingPoll) running Shdlc and HciFrame, a  *)
(* com port that takes a frame at once or later, two lines that may lose   *)
(* frames, and a controller at the other end.                              *)
(*                                                                         *)
(* One action per callback of the deferred-call queue and per API call.    *)
(* Time is not modelled: an armed timer may expire in any state, the       *)
(* resend timers T2 and T3 as Early says.                                  *)
(***************************************************************************)
EXTENDS HciFrame, SequencesExt

CONSTANTS
    PeerKinds,      \* the frames the controller sends: "chained", "event" or "other"
    Faults,         \* the faults that may strike, each once, a loss more often
    MaxFaults,      \* how many may, in all
    Early           \* the timers that may expire while an answer is under way

(* A frame is lost; the controller restarts by itself; the host resets it; *)
(* the controller is busy and refuses frames.                              *)
FaultKinds == {"loss", "restart", "reset", "busy"}

ASSUME LinkAssumption == /\ PeerKinds \in Seq({"chained", "event", "other"})
                         /\ Faults \subseteq FaultKinds
                         /\ MaxFaults \in Nat
                         /\ Early \subseteq Timers

VARIABLES
    host,           \* tSHDLCInstance, with frame instance, timers and deferred calls
    hci,            \* tHCIFrameInstance
    pumping,        \* PNALDFCPump has run a call and the queue is not empty
    asked,          \* how many messages PHCIFrameWrite was called with
    toCtrl,         \* frames the com port has taken
    toHost,         \* frames of the controller the host has not read
    ctrl,           \* the controller
    taken,          \* history: messages whose last frame the controller has taken
    faults          \* how often each kind of fault has struck

vars == <<host, hci, pumping, asked, toCtrl, toHost, ctrl, taken, faults>>

(* state "boot": powered, waits for RST; "rst": has sent RST; "up".        *)
(* vr, vs: next identifier to receive and to send; out: the frame vs is    *)
(* not acknowledged; hold: the host has sent RNR; busy: it refuses         *)
(* frames; next: frame to send.                                            *)
(* got and log are history: frames taken and frames sent since RST.        *)
Boot ==
    [state |-> "boot", vr |-> 0, vs |-> 0, out |-> FALSE, hold |-> FALSE, busy |-> FALSE,
     next |-> 1, got |-> <<>>, log |-> <<>>]

Reset(state) ==
    [Boot EXCEPT !.state = state, !.next = ctrl.next]

Strikes(k) ==
    /\ k \in Faults
    /\ k # "loss" => faults[k] = 0
    /\ faults["loss"] + faults["restart"] + faults["reset"] + faults["busy"] < MaxFaults
    /\ faults' = [faults EXCEPT ![k] = @ + 1]

Init ==
    /\ host = [Created EXCEPT !.status = "RESET_PENDING"]
    /\ hci = HciCreated
    /\ pumping = FALSE
    /\ asked = 0
    /\ toCtrl = <<>> /\ toHost = <<>>
    /\ ctrl = Boot
    /\ taken = {}
    /\ faults = [k \in FaultKinds |-> 0]

(***************************************************************************)
(* The host.                                                               *)
(***************************************************************************)
OnTheWire(tx) == IF tx.bad THEN {tx.f, BAD} ELSE {tx.f}

(* The instance s after a step, and whether the port has taken the frame   *)
(* the step has written.                                                   *)
Settle(s) ==
    \/ /\ host' = NotTaken(s)
       /\ UNCHANGED toCtrl
    \/ /\ s.tx # NoTx /\ s.tx.new
       /\ Len(toCtrl) < LineCap
       /\ \E f \in OnTheWire(s.tx) : toCtrl' = Append(toCtrl, f)
       /\ host' = Taken(s)

(* The call at the head of the deferred-call queue, and the instance once  *)
(* PNALDFCPump has removed it.                                             *)
AtHead(fn) == host.dfc # <<>> /\ Head(host.dfc).fn = fn
Pumped == [host EXCEPT !.dfc = Tail(@)]

Runs(fn, s) ==
    /\ AtHead(fn)
    /\ Settle(s)
    /\ pumping' = (host'.dfc # <<>>)
    /\ UNCHANGED <<hci, asked, toHost, ctrl, faults, taken>>

RunsHci(fn, p) ==
    /\ AtHead(fn)
    /\ Settle(p.s)
    /\ hci' = p.u
    /\ pumping' = (host'.dfc # <<>>)
    /\ UNCHANGED <<asked, toHost, ctrl, faults, taken>>

FrameReadDone ==
    /\ AtHead("FrameRead")
    /\ LET s == GenericReadCompleted(Pumped, Head(host.dfc).f)
       IN  \/ /\ host' = NotTaken(s)
              /\ UNCHANGED toCtrl
           \/ /\ s.tx # NoTx
              /\ Len(toCtrl) < LineCap
              /\ \E f \in OnTheWire(s.tx) : toCtrl' = Append(toCtrl, f)
              /\ host' = TakenOnRead(s)
    /\ pumping' = (host'.dfc # <<>>)
    /\ UNCHANGED <<hci, asked, toHost, ctrl, faults, taken>>

ConnectWritten == Runs("ConnectWritten", ConnectWriteFrameCompleted(Pumped))
FrameWritten == Runs("FrameWritten", WriteFrameCompleted(Pumped))
ResendTimer == Runs("T2", WriteTimerCompleted(Pumped))
ResetTimer == Runs("T3", ConnectTimerCompleted(Pumped))
PiggyBackTimer == Runs("T4", WriteTransmit(Pumped, TRUE))
RRTimer == Runs("T6", RRFrameAlreadySentTimer(Pumped))
ResetIndication == Runs("ResetIndication", Pumped)
StreamData == Runs("StreamData", Pumped)
ConnectDone == RunsHci("ConnectDone", [s |-> Pumped, u |-> [hci EXCEPT !.connected = TRUE]])
Acknowledged == RunsHci("Acknowledged", WriteAcknowledged(Pumped, hci, TRUE))
BufferFree == RunsHci("BufferFree", WriteAcknowledged(Pumped, hci, FALSE))
DataIsReady == RunsHci("DataReady", DataReady(Pumped, hci))

(* PSHDLCFramePoll: the rest of a frame goes out and its completion runs   *)
(* at once, before the deferred calls.                                     *)
PollWrite ==
    /\ ~pumping
    /\ host.tx # NoTx
    /\ Len(toCtrl) < LineCap
    /\ \E f \in OnTheWire(host.tx) :
          LET s == IF host.tx.cb = "FrameWritten"
                   THEN WriteFrameCompleted(Taken(host))
                   ELSE ConnectWriteFrameCompleted(Taken(host))
          IN  \/ /\ host' = NotTaken(s)
                 /\ toCtrl' = Append(toCtrl, f)
              \/ /\ s.tx # NoTx
                 /\ Len(toCtrl) + 1 < LineCap
                 /\ host' = Taken(s)
                 /\ toCtrl' = toCtrl \o <<f, s.tx.f>>
    /\ UNCHANGED <<hci, pumping, asked, toHost, ctrl, faults, taken>>

(* The read loops of the frame layer: a frame with a wrong LRC is dropped. *)
PollRead ==
    /\ host.reading
    /\ toHost # <<>>
    /\ host' = [host EXCEPT !.dfc = Append(@, [fn |-> "FrameRead", f |-> Head(toHost)]),
                            !.reading = FALSE]
    /\ toHost' = Tail(toHost)
    /\ UNCHANGED <<hci, pumping, asked, toCtrl, ctrl, faults, taken>>

(* The frame a timer guards, or an answer to it, is under way. *)
UnderWay(asks, answers) ==
    \/ host.tx # NoTx
    \/ \E i \in DOMAIN toCtrl : toCtrl[i].t \in asks
    \/ \E i \in DOMAIN toHost : toHost[i].t \in answers
    \/ \E i \in DOMAIN host.dfc : host.dfc[i].fn = "FrameRead" /\ host.dfc[i].f.t \in answers

InTime(t) == /\ t = "T2" => ~UnderWay({"I"}, {"I", "RR", "RNR", "REJ"})
             /\ t = "T3" => ~UnderWay({"RST"}, {"UA"})

(* PNALMultiTimerPoll *)
TimerExpires(t) ==
    /\ t \in host.armed
    /\ t \in Early \/ InTime(t)
    /\ host' = Post([host EXCEPT !.armed = @ \ {t}], t)
    /\ UNCHANGED <<hci, pumping, asked, toCtrl, toHost, ctrl, faults, taken>>

(* PHCIFrameWrite, called by the services.  A callback is one step, and a  *)
(* write of another thread comes between two of them.  In the code it may  *)
(* also come while PNALMultiTimerSet, inside a callback, has left the      *)
(* critical section for the entropy callback.                              *)
UserWrites ==
    /\ hci.connected
    /\ asked < Len(Frags)
    /\ asked' = asked + 1
    /\ LET p == PHCIFrameWrite(host, hci, asked + 1)
       IN  Settle(p.s) /\ hci' = p.u
    /\ UNCHANGED <<pumping, toHost, ctrl, faults, taken>>

(* static_PNALBindingConnect, between two polls: the HAL is reset and then *)
(* the controller, which loses what is on the lines.                       *)
UserResets ==
    /\ ~pumping
    /\ \A i \in DOMAIN host.dfc : host.dfc[i].fn = "FrameWritten"
    /\ host.status # "RESET_PENDING"
    /\ Strikes("reset")
    /\ LET p == PHCIFramePreReset(host, hci)
       IN  host' = p.s /\ hci' = p.u
    /\ toCtrl' = <<>> /\ toHost' = <<>>
    /\ ctrl' = Reset("boot")
    /\ UNCHANGED <<pumping, asked, taken>>

(* static_PNALBindingPoll, when the controller has come out of its reset. *)
Connect ==
    /\ ~pumping
    /\ host.status = "RESET_PENDING"
    /\ Settle(PSHDLCConnect(host))
    /\ UNCHANGED <<hci, pumping, asked, toHost, ctrl, faults, taken>>

(* What PNALDFCPump may find at the head of the queue. *)
Calls ==
    \/ FrameReadDone \/ ConnectWritten \/ FrameWritten
    \/ ResendTimer \/ ResetTimer \/ PiggyBackTimer \/ RRTimer
    \/ ResetIndication \/ StreamData \/ ConnectDone
    \/ Acknowledged \/ BufferFree \/ DataIsReady

Host == Calls \/ PollWrite \/ PollRead \/ Connect

(***************************************************************************)
(* The controller (external): an SHDLC peer with a window of one frame.    *)
(***************************************************************************)
Says(f) == Len(toHost) < LineCap /\ toHost' = Append(toHost, f)
Silent == UNCHANGED toHost

Acks(c, nr) ==
    IF c.out /\ nr = (c.vs + 1) % 8 THEN [c EXCEPT !.out = FALSE, !.vs = nr] ELSE c

NewFrame(c) == IFrame(c.vs, c.vr, [n |-> c.next, kind |-> PeerKinds[c.next]])
CanSend(c) == c.state = "up" /\ ~c.out /\ ~c.hold /\ c.next <= Len(PeerKinds)
SentFrame(c) == [c EXCEPT !.out = TRUE, !.next = @ + 1, !.log = Append(@, c.next)]

(* It answers with RR, or with a frame of its own that says the same. *)
Answers(c, t) ==
    \/ Says(Ctrl(t, c.vr)) /\ ctrl' = c
    \/ t = "RR" /\ CanSend(c) /\ Says(NewFrame(c)) /\ ctrl' = SentFrame(c)

CtrlTakesIFrame(c, f) ==
    \/ f.ns # c.vr /\ Answers(c, "REJ")
    \/ f.ns = c.vr /\ c.busy /\ Answers(c, "RNR")
    \/ f.ns = c.vr /\ ~c.busy /\ Answers([c EXCEPT !.vr = (@ + 1) % 8, !.got = Append(@, f.pay)], "RR")

CtrlTakes(f) ==
    \/ f.t = "RST" /\ Says(UA) /\ ctrl' = Reset("up")
    \/ f.t = "UA" /\ Silent /\ ctrl' = IF ctrl.state = "rst" THEN Reset("up") ELSE ctrl
    \/ f.t = "I" /\ ctrl.state = "up" /\ CtrlTakesIFrame(Acks(ctrl, f.nr), f)
    \/ /\ f.t \in {"RR", "REJ", "RNR"} /\ ctrl.state = "up" /\ Silent
       /\ ctrl' = [Acks(ctrl, f.nr) EXCEPT !.hold = f.t = "RNR"]
    \/ f.t \notin {"RST", "UA"} /\ (f.t = "BAD" \/ ctrl.state # "up") /\ Silent /\ UNCHANGED ctrl

CtrlReceives ==
    /\ toCtrl # <<>>
    /\ CtrlTakes(Head(toCtrl))
    /\ toCtrl' = Tail(toCtrl)
    /\ taken' = taken \cup {p.m : p \in {q \in Range(ctrl'.got) : q.last}}
    /\ UNCHANGED <<host, hci, pumping, asked, faults>>

CtrlSends ==
    /\ CanSend(ctrl) /\ Says(NewFrame(ctrl)) /\ ctrl' = SentFrame(ctrl)
    /\ UNCHANGED <<host, hci, pumping, asked, toCtrl, faults, taken>>

CtrlResends ==
    /\ ctrl.state = "up" /\ ctrl.out /\ ~ctrl.hold
    /\ LET n == ctrl.next - 1
       IN  Says(IFrame(ctrl.vs, ctrl.vr, [n |-> n, kind |-> PeerKinds[n]]))
    /\ UNCHANGED <<host, hci, pumping, asked, toCtrl, ctrl, faults, taken>>

CtrlBusy ==
    /\ ctrl.state = "up" /\ ~ctrl.busy
    /\ Strikes("busy")
    /\ ctrl' = [ctrl EXCEPT !.busy = TRUE]
    /\ UNCHANGED <<host, hci, pumping, asked, toCtrl, toHost, taken>>

CtrlFree ==
    /\ ctrl.busy /\ Says(Ctrl("RR", ctrl.vr))
    /\ ctrl' = [ctrl EXCEPT !.busy = FALSE]
    /\ UNCHANGED <<host, hci, pumping, asked, toCtrl, faults, taken>>

(* The controller restarts, with or without a window in its RST. *)
CtrlRestarts ==
    /\ Strikes("restart")
    /\ \E w \in {1, DEFAULT_WINDOW_SIZE} : Says(RST(w))
    /\ ctrl' = Reset("rst")
    /\ UNCHANGED <<host, hci, pumping, asked, toCtrl, taken>>

(* It repeats its RST when nothing of the exchange is under way. *)
CtrlRepeatsRST ==
    /\ ctrl.state = "rst"
    /\ toHost = <<>> /\ toCtrl = <<>> /\ host.dfc = <<>> /\ host.tx = NoTx /\ host.ctrl # "UA"
    /\ Says(RST(1))
    /\ UNCHANGED <<host, hci, pumping, asked, toCtrl, ctrl, faults, taken>>

Loses ==
    /\ Strikes("loss")
    /\ \/ toCtrl # <<>> /\ toCtrl' = Tail(toCtrl) /\ UNCHANGED toHost
       \/ toHost # <<>> /\ toHost' = Tail(toHost) /\ UNCHANGED toCtrl
    /\ UNCHANGED <<host, hci, pumping, asked, ctrl, taken>>

Controller == CtrlReceives \/ CtrlSends \/ CtrlResends \/ CtrlBusy \/ CtrlFree
                 \/ CtrlRestarts \/ CtrlRepeatsRST

Next == Host \/ (\E t \in Timers : TimerExpires(t)) \/ UserWrites \/ UserResets
           \/ Controller \/ Loses

Spec == Init /\ [][Next]_vars

(* The event loop goes on: it runs the calls in its queue, polls the port  *)
(* and the timers.  The first two conjuncts are WF_vars(Calls) and         *)
(* SF_vars(PollWrite) with what enables these actions written out.  The    *)
(* controller takes what it is sent and sends what it has to.              *)
Fairness ==
    /\ <>[](host.dfc # <<>>) => []<><<Calls>>_vars
    /\ []<>(~pumping /\ host.tx # NoTx /\ Len(toCtrl) < LineCap) => []<><<PollWrite>>_vars
    /\ WF_vars(Connect) /\ WF_vars(PollRead)
    /\ \A t \in Timers \ {"T1"} : WF_vars(TimerExpires(t))
    /\ SF_vars(CtrlReceives) /\ WF_vars(CtrlSends \/ CtrlResends \/ CtrlFree)

FairSpec == Spec /\ Fairness
=============================================================================
