------------------------------ MODULE HciFrame ------------------------------
(***************************************************************************)
(* The HCI frame layer of the Open NFC HAL, nfc_hal_hci_frame.c, as the    *)
(* user of Shdlc.  It cuts messages into SHDLC frames, completes a message *)
(* when its last frame is acknowledged, and passes received frames on by   *)
(* deferred calls that point into its one buffer aRxPacket.                *)
(*                                                                         *)
(* An operator takes and returns p = [s, u]: the SHDLC instance and the    *)
(* HCI frame instance.                                                     *)
(***************************************************************************)
EXTENDS Shdlc

CONSTANT
    Frags           \* Frags[m] is the number of frames message m needs

ASSUME FragsAssumption == Frags \in Seq(Nat \ {0})

Messages == 1..Len(Frags)

(* done is history: the messages completed, in order. *)
HciCreated ==
    [connected |-> FALSE, waiting |-> <<>>, sent |-> <<>>, rx |-> NoTx, done |-> <<>>]

(* Mutant: a message is complete when its last frame is handed over. *)
WriteFragment_DoneWhenWritten(p) ==
    LET w    == Head(p.u.waiting)
        last == w.frag = Frags[w.m]
        r    == PSHDLCWrite(p.s, [m |-> w.m, frag |-> w.frag, last |-> last])
        u    == IF last THEN [p.u EXCEPT !.waiting = Tail(@), !.done = Append(@, w.m)]
                        ELSE [p.u EXCEPT !.waiting[1].frag = @ + 1]
    IN  IF p.stop \/ p.u.waiting = <<>> THEN p
        ELSE [s |-> r.s, u |-> IF r.ok THEN u ELSE p.u, stop |-> ~r.ok]

(* One turn of the loops of static_PHCIFrameWriteMachine: stop says that   *)
(* PSHDLCWrite has refused a frame.                                        *)
WriteFragment(p) ==
    LET w    == Head(p.u.waiting)
        last == w.frag = Frags[w.m]
        r    == PSHDLCWrite(p.s, [m |-> w.m, frag |-> w.frag, last |-> last])
        u    == IF last THEN [p.u EXCEPT !.waiting = Tail(@), !.sent = Append(@, w.m)]
                        ELSE [p.u EXCEPT !.waiting[1].frag = @ + 1]
    IN  IF p.stop \/ p.u.waiting = <<>> THEN p
        ELSE [s |-> r.s, u |-> IF r.ok THEN u ELSE p.u, stop |-> ~r.ok]

(* At most window frames are taken and then one is refused. *)
WriteMachine(s, u) ==
    LET turn[n \in 0..P_SHDLC_MAX_WINDOW_SIZE + 1] ==
            IF n = 0 THEN [s |-> s, u |-> u, stop |-> FALSE] ELSE WriteFragment(turn[n - 1])
    IN  [s |-> turn[P_SHDLC_MAX_WINDOW_SIZE + 1].s, u |-> turn[P_SHDLC_MAX_WINDOW_SIZE + 1].u]

PHCIFrameWrite(s, u, m) ==
    WriteMachine(s, [u EXCEPT !.waiting = Append(@, [m |-> m, frag |-> 1])])

(* static_PHCIFrameSHDLCWriteAcknowledged; whole says that the reception   *)
(* counter is not zero, so the oldest sent message is complete.            *)
WriteAcknowledged(s, u, whole) ==
    IF ~u.connected THEN [s |-> s, u |-> u]
    ELSE IF whole /\ u.sent # <<>>
    THEN WriteMachine(s, [u EXCEPT !.sent = Tail(@), !.done = Append(@, Head(u.sent))])
    ELSE WriteMachine(s, u)

(* static_PHCIFrameReadMachine: each frame read goes to aRxPacket, and a   *)
(* call that reads it there later is posted.                               *)
ReadFrame(p) ==
    LET r == PSHDLCRead(p.s)
    IN  IF p.s.buf = <<>> THEN p
        ELSE [s |-> [r EXCEPT !.dfc = Append(@, [fn |-> "StreamData", pay |-> Head(p.s.buf)])],
              u |-> [p.u EXCEPT !.rx = Head(p.s.buf)]]

ReadMachine(s, u) ==
    LET turn[n \in 0..ReadCap] == IF n = 0 THEN [s |-> s, u |-> u] ELSE ReadFrame(turn[n - 1])
    IN  turn[ReadCap]

(* Mutant: nothing is read while a message waits to be written. *)
DataReady_HalfDuplex(s, u) ==
    IF u.connected /\ u.waiting = <<>> THEN ReadMachine(s, u) ELSE [s |-> s, u |-> u]

DataReady(s, u) == IF u.connected THEN ReadMachine(s, u) ELSE [s |-> s, u |-> u]

PHCIFramePreReset(s, u) ==
    [s |-> PSHDLCPreReset(Flush(s, {"StreamData"})),
     u |-> [u EXCEPT !.connected = FALSE, !.waiting = <<>>, !.sent = <<>>]]
=============================================================================
