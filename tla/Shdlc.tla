------------------------------- MODULE Shdlc -------------------------------
(***************************************************************************)
(* The SHDLC link layer of the Open NFC HAL: nfc_hal_shdlc.c, and of       *)
(* nfc_hal_shdlc_frame.c what it needs, the frame being written and the    *)
(* read that is under way.                                                 *)
(*                                                                         *)
(* The HAL is one event loop.  A function of the source is an operator     *)
(* that takes the instance s (tSHDLCInstance with its frame instance, its  *)
(* timers and its deferred calls) and returns the instance it leaves.      *)
(* NfcLink turns the callbacks and the API calls into actions.             *)
(***************************************************************************)
EXTENDS Naturals, Sequences, FiniteSets

CONSTANTS
    ReadCap,        \* full-sized frames that fit in aReadBuffer
    FreeThreshold,  \* P_SHDLC_READ_BUFFER_FREE_TRESHOLD, in frames
    LineCap         \* frames the com port takes before it makes the host wait

ASSUME ShdlcAssumption == /\ ReadCap \in Nat \ {0}
                          /\ FreeThreshold \in 1..ReadCap
                          /\ LineCap \in Nat \ {0}

(***************************************************************************)
(* Frames.  nr is the "next to receive" of I, RR, RNR and REJ frames, ns   *)
(* the identifier of an I frame; both have three bits.  BAD is a frame     *)
(* whose LRC is wrong.                                                     *)
(***************************************************************************)
RST(w) == [t |-> "RST", win |-> w]
UA == [t |-> "UA"]
Ctrl(t, nr) == [t |-> t, nr |-> nr]
IFrame(ns, nr, pay) == [t |-> "I", ns |-> ns, nr |-> nr, pay |-> pay]
BAD == [t |-> "BAD"]

DEFAULT_WINDOW_SIZE == 4
P_SHDLC_MAX_WINDOW_SIZE == 1
FirstId == 32                  \* 0x20, the first frame of a connection
ThreeBits(id) == id % 8

NoTx == [t |-> "NONE"]
Timers == {"T1", "T2", "T3", "T4", "T6"}
FrameCalls == {"FrameRead", "FrameWritten", "ConnectWritten"}   \* P_DFC_TYPE_SHDLC_FRAME

(* What static_PSHDLCConnectState sets; log and rlog are history: the      *)
(* payloads PSHDLCWrite took and those received since.                     *)
ConnectState(s, w) ==
    [s EXCEPT !.window = w, !.readNext = FirstId, !.readLastAck = FirstId - 1,
              !.lastAck = FirstId - 1, !.nextToSend = FirstId, !.nextWindow = FirstId,
              !.ready = TRUE, !.log = <<>>, !.rlog = <<>>]

(* static_PSHDLCCreate, with the frame instance idle. *)
Created ==
    [status |-> "INIT", connNext |-> "NONE", connCb |-> FALSE,
     window |-> P_SHDLC_MAX_WINDOW_SIZE, readNext |-> FirstId, readLastAck |-> FirstId - 1,
     lastAck |-> FirstId - 1, nextToSend |-> FirstId, nextWindow |-> FirstId,
     ready |-> TRUE, ctrl |-> "NONE", pending |-> FALSE, writeFull |-> FALSE,
     readFull |-> FALSE, rrSent |-> FALSE, piggy |-> FALSE,
     slots |-> [i \in 0..P_SHDLC_MAX_WINDOW_SIZE - 1 |-> NoTx], buf |-> <<>>,
     armed |-> {}, dfc |-> <<>>, tx |-> NoTx, reading |-> FALSE,
     log |-> <<>>, rlog |-> <<>>]

(***************************************************************************)
(* Deferred calls, timers, and the frame layer.                            *)
(***************************************************************************)
Post(s, fn) == [s EXCEPT !.dfc = Append(@, [fn |-> fn])]

(* PNALDFCFlush: one call after the other is kept, or not. *)
Kept(q, c, fns) == IF c.fn \in fns THEN q ELSE Append(q, c)

Flush(s, fns) ==
    LET kept[i \in 0..Len(s.dfc)] ==
            IF i = 0 THEN <<>> ELSE Kept(kept[i - 1], s.dfc[i], fns)
    IN  [s EXCEPT !.dfc = kept[Len(s.dfc)]]

TimerSet(s, t) == [s EXCEPT !.armed = @ \cup {t}]

TimerCancel(s, t) == Flush([s EXCEPT !.armed = @ \ {t}], {t})

(* PSHDLCFrameWrite.  The frame goes into the one frame buffer, over what  *)
(* is there (bad: the port may already have taken the first bytes of that).*)
(* The completion is posted here; NotTaken withdraws it when the com port  *)
(* has not taken the whole frame at once.                                  *)
FrameWrite(s, f, cb) ==
    [Post(s, cb) EXCEPT !.tx = [t |-> "TX", f |-> f, cb |-> cb, bad |-> s.tx # NoTx, new |-> TRUE]]

NotTaken(s) ==
    IF s.tx # NoTx /\ s.tx.new THEN [Flush(s, {s.tx.cb}) EXCEPT !.tx.new = FALSE] ELSE s

Taken(s) == [s EXCEPT !.tx = NoTx]

(* PSHDLCFrameRead tries once more to write what the port has not taken. *)
TakenOnRead(s) == IF s.tx.new THEN Taken(s) ELSE Taken(Post(s, s.tx.cb))

FramePreReset(s) ==
    [Flush(s, FrameCalls) EXCEPT !.tx = NoTx, !.reading = FALSE]

FrameRead(s) == [s EXCEPT !.reading = TRUE]

(***************************************************************************)
(* Connection.                                                             *)
(***************************************************************************)
ConnectSendFrame(s, frame) ==
    IF s.status \in {"SEND_RESET_PENDING", "SEND_UA_PENDING"}
    THEN [s EXCEPT !.connNext = frame]
    ELSE IF frame = "RST"
    THEN FrameWrite(TimerSet([s EXCEPT !.status = "SEND_RESET_PENDING"], "T3"),
                    RST(s.window), "ConnectWritten")
    ELSE FrameWrite([s EXCEPT !.status = "SEND_UA_PENDING"], UA, "ConnectWritten")

ConnectCompleted(s) ==
    LET c == TimerCancel([s EXCEPT !.status = "UA_SENT", !.connCb = FALSE], "T3")
    IN  IF s.connCb THEN Post(c, "ConnectDone") ELSE c

(* static_PSHDLCConnectCheckRSTFrame *)
RSTAccepted(f) == f.t = "RST" /\ f.win \in 1..P_SHDLC_MAX_WINDOW_SIZE

ConnectReadCompleted(s, f) ==
    IF f.t = "UA" THEN ConnectCompleted(s)
    ELSE IF RSTAccepted(f) THEN ConnectSendFrame(ConnectState(s, f.win), "UA")
    ELSE s

ConnectWriteFrameCompleted(s) ==
    LET sent == [s EXCEPT !.status = IF @ = "SEND_RESET_PENDING" THEN "RESET_SENT" ELSE "UA_SENT"]
    IN  IF s.status = "UA_SENT" THEN s
        ELSE IF s.connNext # "NONE"
        THEN ConnectSendFrame([sent EXCEPT !.connNext = "NONE"], s.connNext)
        ELSE IF sent.status = "UA_SENT" THEN ConnectCompleted(sent) ELSE sent

ConnectTimerCompleted(s) ==
    ConnectSendFrame([FrameRead(FramePreReset(s)) EXCEPT !.status = "INIT"], "RST")

PSHDLCPreReset(s) ==
    LET stopped == Flush(FramePreReset(s), {"T1", "T2", "T3", "T4"})
    IN  [Created EXCEPT !.status = "RESET_PENDING", !.dfc = stopped.dfc,
                        !.armed = s.armed \cap {"T6"}]

PSHDLCConnect(s) ==
    ConnectSendFrame(FrameRead([s EXCEPT !.status = "INIT", !.connCb = TRUE]), "RST")

(***************************************************************************)
(* Transmission: static_PSHDLCWriteTransmit.                               *)
(***************************************************************************)
ReadAcknowledgeSent(s) == TimerCancel([s EXCEPT !.readLastAck = s.readNext - 1], "T1")

Sent(s, f) ==
    TimerCancel([FrameWrite(s, f, "FrameWritten") EXCEPT !.pending = TRUE, !.ctrl = "NONE"], "T4")

SendCtrl(s) ==
    LET rr == TimerSet([s EXCEPT !.rrSent = TRUE], "T6")
    IN  IF s.ctrl = "UA" THEN Sent(rr, UA)
        ELSE Sent(ReadAcknowledgeSent(rr), Ctrl(s.ctrl, ThreeBits(s.readNext)))

(* Mutant: the resend timer is not set. *)
SendIFrame_NoTimer(s) ==
    LET slot == s.slots[s.nextWindow % s.window]
    IN  Sent([ReadAcknowledgeSent(s) EXCEPT !.nextWindow = @ + 1],
             IFrame(slot.ns, ThreeBits(s.readNext), slot.pay))

SendIFrame(s) ==
    LET slot == s.slots[s.nextWindow % s.window]
    IN  Sent([ReadAcknowledgeSent(TimerSet(s, "T2")) EXCEPT !.nextWindow = @ + 1],
             IFrame(slot.ns, ThreeBits(s.readNext), slot.pay))

WriteTransmit(s, force) ==
    LET some   == s.nextWindow # s.nextToSend /\ s.ready
        iframe == some /\ s.ctrl \in {"NONE", "RR"}
    IN  IF \/ s.pending
           \/ ~some /\ s.ctrl = "NONE"
           \/ iframe /\ s.rrSent
        THEN s
        ELSE IF iframe THEN SendIFrame(s)
        ELSE IF force THEN SendCtrl(s)
        ELSE TimerSet(s, "T4")

WriteFrameCompleted(s) == WriteTransmit([s EXCEPT !.pending = FALSE], FALSE)

(* Mutant: the window goes back whether a frame waits or not. *)
WriteTimerCompleted_NoCheck(s) == WriteTransmit([s EXCEPT !.nextWindow = @ - 1], TRUE)

WriteTimerCompleted(s) ==
    IF s.nextWindow > s.lastAck + 1
    THEN WriteTransmit([s EXCEPT !.nextWindow = @ - 1], TRUE)
    ELSE s

RRFrameAlreadySentTimer(s) == WriteTransmit([s EXCEPT !.rrSent = FALSE], TRUE)

(* PSHDLCWrite; ok is its result. *)
PSHDLCWrite(s, pay) ==
    IF s.nextToSend - s.lastAck - 1 >= s.window
    THEN [ok |-> FALSE, s |-> [s EXCEPT !.writeFull = TRUE]]
    ELSE [ok |-> TRUE,
          s  |-> WriteTransmit(
                   [s EXCEPT !.slots[s.nextToSend % s.window] =
                                 [t |-> "SLOT", ns |-> ThreeBits(s.nextToSend), pay |-> pay],
                             !.nextToSend = @ + 1,
                             !.log = Append(@, pay)], FALSE)]

(***************************************************************************)
(* Acknowledgements: static_PSHDLCWriteReceptionCtrlFrame.                 *)
(***************************************************************************)
Rebuild32BitIdentifier(s, nr) ==
    LET base == s.lastAck - ThreeBits(s.lastAck)
    IN  IF nr > ThreeBits(s.lastAck) THEN base + nr ELSE base + 8 + nr

(* Mutant: the write handler hears of every frame as of a message. *)
Acknowledge_EachFrame(s, nr) ==
    LET calls == [i \in 1..nr - 1 - s.lastAck |-> [fn |-> "Acknowledged"]]
        acked == [s EXCEPT !.dfc = @ \o calls, !.lastAck = nr - 1, !.nextWindow = nr]
    IN  IF nr # s.nextToSend THEN WriteTransmit(acked, FALSE)
        ELSE [TimerCancel(acked, "T2") EXCEPT !.writeFull = FALSE]

(* Mutant: nobody is told that the window is free again. *)
Acknowledge_Silent(s, nr) ==
    LET ends  == {i \in s.lastAck + 1..nr - 1 : s.slots[i % s.window].pay.last}
        calls == [i \in 1..Cardinality(ends) |-> [fn |-> "Acknowledged"]]
        acked == [s EXCEPT !.dfc = @ \o calls, !.lastAck = nr - 1, !.nextWindow = nr]
    IN  IF nr # s.nextToSend THEN WriteTransmit(acked, FALSE)
        ELSE [TimerCancel(acked, "T2") EXCEPT !.writeFull = FALSE]

(* Frames up to nr are acknowledged: one call of the write handler for     *)
(* each that ends a message, or one that says the buffer is free.          *)
Acknowledge(s, nr) ==
    LET ends  == {i \in s.lastAck + 1..nr - 1 : s.slots[i % s.window].pay.last}
        calls == [i \in 1..Cardinality(ends) |-> [fn |-> "Acknowledged"]]
        acked == [s EXCEPT !.dfc = @ \o calls, !.lastAck = nr - 1, !.nextWindow = nr]
        idle  == [TimerCancel(acked, "T2") EXCEPT !.writeFull = FALSE]
    IN  IF nr # s.nextToSend THEN WriteTransmit(acked, FALSE)
        ELSE IF s.writeFull /\ ends = {} THEN Post(idle, "BufferFree")
        ELSE idle

(* Mutant: the one frame that is missing is counted as acknowledged. *)
WriteReceptionCtrlFrame_Forgives(s, f) ==
    LET seen == [s EXCEPT !.ready = f.t # "RNR"]
        nr   == Rebuild32BitIdentifier(s, f.nr)
    IN  IF f.t \notin {"RR", "RNR", "REJ"} THEN [ok |-> TRUE, s |-> s]
        ELSE IF ~(s.lastAck < nr /\ nr <= s.nextWindow) THEN [ok |-> FALSE, s |-> seen]
        ELSE [ok |-> TRUE, s |-> Acknowledge(seen, s.nextWindow)]

WriteReceptionCtrlFrame(s, f) ==
    LET known == f.t \in {"RR", "RNR", "REJ"}
        seen  == [s EXCEPT !.ready = f.t # "RNR"]
        nr    == Rebuild32BitIdentifier(s, f.nr)
        lost  == s.nextWindow - nr
    IN  IF ~known THEN [ok |-> TRUE, s |-> s]
        ELSE IF ~(s.lastAck < nr /\ nr <= s.nextWindow) THEN [ok |-> FALSE, s |-> seen]
        ELSE IF lost = 1 THEN [ok |-> TRUE, s |-> [seen EXCEPT !.lastAck = nr - 1]]
        ELSE [ok |-> TRUE, s |-> Acknowledge(seen, nr)]

(***************************************************************************)
(* Reception.                                                              *)
(***************************************************************************)
(* Whether the payload asks for an immediate RR: a chained HCI fragment,   *)
(* or an event that is not the end of the chain being received.            *)
ForcesAck(s, pay) == pay.kind = "chained" \/ (pay.kind = "event" /\ ~s.piggy)

(* The I frame that is expected and fits in the read buffer. *)
ReadAccepted(s, pay) ==
    LET nonAck == s.readNext - s.readLastAck
        owed   == IF nonAck >= s.window THEN [s EXCEPT !.ctrl = "RR"]
                  ELSE IF nonAck = 1 THEN TimerSet(s, "T1") ELSE s
        rr     == IF s.rrSent THEN TimerCancel([owed EXCEPT !.rrSent = FALSE], "T6") ELSE owed
        stored == [rr EXCEPT !.readNext = @ + 1, !.piggy = pay.kind = "chained",
                             !.buf = Append(@, pay), !.rlog = Append(@, pay)]
        told   == IF s.buf = <<>> THEN Post(stored, "DataReady") ELSE stored
    IN  WriteTransmit(told, ForcesAck(s, pay))

(* Mutant: the identifier of the frame is not compared. *)
ReadIFrame_AnyId(s, f) ==
    LET r == WriteReceptionCtrlFrame(s, Ctrl("RR", f.nr))
    IN  IF r.ok /\ Len(r.s.buf) < ReadCap THEN ReadAccepted(r.s, f.pay) ELSE r.s

ReadIFrame(s, f) ==
    LET r == WriteReceptionCtrlFrame(s, Ctrl("RR", f.nr))
    IN  IF ~r.ok THEN r.s
        ELSE IF f.ns # ThreeBits(r.s.readNext)
        THEN WriteTransmit([r.s EXCEPT !.ctrl = "REJ"], TRUE)
        ELSE IF Len(r.s.buf) >= ReadCap
        THEN WriteTransmit([r.s EXCEPT !.ctrl = "RNR", !.readFull = TRUE], FALSE)
        ELSE ReadAccepted(r.s, f.pay)

ReadReadCompleted(s, f) ==
    IF f.t = "I" THEN ReadIFrame(s, f)
    ELSE IF RSTAccepted(f)
    THEN WriteTransmit([Post(ConnectState(s, f.win), "ResetIndication") EXCEPT !.ctrl = "UA"], FALSE)
    ELSE WriteReceptionCtrlFrame(s, f).s

(* Mutant: no read is started after a control frame. *)
GenericReadCompleted_NoRead(s, f) ==
    IF s.status # "UA_SENT" THEN FrameRead(ConnectReadCompleted(s, f))
    ELSE IF f.t = "RR" THEN ReadReadCompleted(s, f)
    ELSE FrameRead(ReadReadCompleted(s, f))

GenericReadCompleted(s, f) ==
    FrameRead(IF s.status = "UA_SENT" THEN ReadReadCompleted(s, f)
                                      ELSE ConnectReadCompleted(s, f))

(* One PSHDLCRead of a buffer that is not empty. *)
PSHDLCRead(s) ==
    LET read == [s EXCEPT !.buf = Tail(@)]
    IN  IF s.readFull /\ ReadCap - Len(read.buf) >= FreeThreshold
        THEN WriteTransmit([read EXCEPT !.readFull = FALSE, !.ctrl = "RR"], TRUE)
        ELSE read
=============================================================================
