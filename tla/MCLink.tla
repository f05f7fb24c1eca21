------------------------------- MODULE MCLink -------------------------------
(* Instances of NfcLink and its properties for TLC. *)
EXTENDS LinkProperties

TwoFragments == <<2>>
OnePeerFrame == <<"event">>
TwoShort == <<1, 1>>
OneFrame == <<1>>
NoFrames == <<>>
TwoFrames == <<"chained", "event">>
=============================================================================
