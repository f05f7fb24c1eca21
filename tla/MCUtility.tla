------------------------------ MODULE MCUtility ------------------------------
(* Values of the constants for the model-checking runs of the utility handler. *)
EXTENDS UtilityHandler

(* Every state the table names and the terminal one, with the event of the
   table; a state and an event nothing tests for; with the type main looks for
   and with another. *)
MCResidue ==
  [type : {1, 77}, state : {ST_ANY, ST_INIT, ST_TERM, ST_AUTH, ST_READ, ST_END},
   event : {EV_READ_FROM_DEVICE}]
  \cup [type : {1}, state : {77}, event : {77}]

(* The first long of main's msg: no message type, or one. *)
MCFirstLong == {0, 1}
=============================================================================
