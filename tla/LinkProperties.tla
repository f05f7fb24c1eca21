--------------------------- MODULE LinkProperties ---------------------------
(* What the link promises its users, and the code its reader. *)
EXTENDS NfcLink

Queued(fn) == \E i \in DOMAIN host.dfc : host.dfc[i].fn = fn
Pending(t) == t \in host.armed \/ Queued(t)

Up == host.status = "UA_SENT"
InSession == Up /\ ctrl.state = "up"
Unacked == host.nextToSend > host.lastAck + 1

(* Type invariant, with the order of the identifiers that the assertions   *)
(* of PSHDLCWrite, static_PSHDLCWriteTransmit and                          *)
(* static_PSHDLCWriteRebuild32BitIdentifier state.  T1 is never set with a *)
(* window of one: each frame is acknowledged by itself.                    *)
LinkTypeOK ==
    /\ host.status \in {"INIT", "SEND_RESET_PENDING", "RESET_SENT", "SEND_UA_PENDING",
                        "UA_SENT", "RESET_PENDING"}
    /\ host.connNext \in {"NONE", "RST", "UA"}
    /\ host.ctrl \in {"NONE", "RR", "RNR", "REJ", "UA"}
    /\ host.armed \subseteq Timers \ {"T1"}
    /\ host.window \in 1..P_SHDLC_MAX_WINDOW_SIZE
    /\ host.lastAck < host.nextWindow
    /\ host.nextWindow <= host.nextToSend
    /\ host.nextToSend <= host.lastAck + 1 + host.window
    /\ host.readLastAck < host.readNext
    /\ host.tx # NoTx => ~host.tx.new

(* Within a session each side has received a prefix of what the other has  *)
(* sent, in order and without repetition, whatever is lost or sent again.  *)
FramesInOrder ==
    InSession =>
        /\ IsPrefix(ctrl.got, host.log)
        /\ IsPrefix([i \in DOMAIN host.rlog |-> host.rlog[i].n], ctrl.log)

(* What the host takes for acknowledged the controller has received: no    *)
(* late, repeated or rejecting frame is mistaken for an acknowledgement.   *)
AckedFramesWereTaken ==
    InSession => host.lastAck + 1 - FirstId <= Len(ctrl.got)

(* A frame that waits to be sent or acknowledged has something that will   *)
(* bring static_PSHDLCWriteTransmit back to it: the resend timer, the end  *)
(* of the frame being written, the timer after an RR or the piggy-back     *)
(* timer.  RNR is the exception: see link_busy.                            *)
ResendScheduled ==
    /\ host.pending => host.tx # NoTx \/ Queued("FrameWritten")
    /\ host.rrSent => Pending("T6")
    /\ Up /\ host.ctrl # "NONE" => Pending("T4") \/ host.pending \/ host.rrSent
    /\ Up /\ Unacked /\ faults["busy"] = 0 =>
          Pending("T2") \/ host.pending \/ host.rrSent \/ host.ctrl # "NONE"

(* No wake-up is lost between the layers: a message the HCI layer holds    *)
(* back has a frame in the window or a call of its write handler queued,   *)
(* and a frame in the read buffer a call of its read handler.  A restart   *)
(* of the controller empties the window without a call of the handler.     *)
NoLostWakeUp ==
    /\ Up /\ hci.connected /\ hci.waiting # <<>> /\ faults["restart"] = 0 =>
          Unacked \/ Queued("Acknowledged") \/ Queued("BufferFree")
    /\ host.buf # <<>> /\ hci.connected => Queued("DataReady")

(* The call that passes a received frame on finds that frame in aRxPacket: *)
(* the read buffer never holds a second one, and a queued call runs before *)
(* the next frame is copied over its data.                                 *)
StreamDataIntact ==
    /\ Len(host.buf) <= 1 /\ ~host.readFull
    /\ \A i \in DOMAIN host.dfc : host.dfc[i].fn = "StreamData" => host.dfc[i].pay = hci.rx

(* The assertion of static_PHCIFrameWriteMachine: when a message is        *)
(* acknowledged, "at least one write context should be waiting".           *)
AckHasContext ==
    AtHead("Acknowledged") /\ hci.connected => hci.sent # <<>>

(* The completion of PHCIFrameWrite is called only for a message whose     *)
(* last frame the controller has taken.  Violated after a restart of the   *)
(* controller: the acknowledgement of a later message completes it.        *)
CompletedWasTaken == Range(hci.done) \subseteq taken

(* The same as long as the controller does not restart by itself. *)
CompletedUnlessRestarted == faults["restart"] = 0 => CompletedWasTaken

(* Every message given to PHCIFrameWrite is completed, as "frame are sent  *)
(* until they are acknowledged" says.                                      *)
EveryMessageCompletes == \A m \in Messages : (asked >= m) ~> (m \in Range(hci.done))

(* Every frame the controller sends, or has yet to send, once the HCI      *)
(* layer is connected is received.                                         *)
EveryFrameReceived ==
    \A n \in 1..Len(PeerKinds) :
        (hci.connected /\ (ctrl.next <= n \/ n \in Range(ctrl.log)))
            ~> (\E i \in DOMAIN host.rlog : host.rlog[i].n = n)
=============================================================================
