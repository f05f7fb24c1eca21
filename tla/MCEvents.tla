------------------------------ MODULE MCEvents ------------------------------
(* Instances of HalEvents and its properties for TLC. *)
EXTENDS EventProperties
=============================================================================
