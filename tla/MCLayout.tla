------------------------------ MODULE MCLayout ------------------------------
(* An instance of MsgLayout for TLC. *)
EXTENDS MsgLayout

(* Texts around the lengths at which the bytes behind the type reach the
   state and the event, of the bytes the core's own states are made of. *)
MCTexts ==
  {<<14, 48, 14, 48>>, <<13, 48, 13, 48, 13>>, <<14, 48, 7, 7, 13, 48, 7, 7, 13>>}
=============================================================================
