------------------------------- MODULE MCStack -------------------------------
(* Values of the constants for the model-checking runs of the stack. *)
EXTENDS StackAccounting, StackRefinement

(* Uninitialised buffers: one whose first long is no valid message type, so
   that every write of it fails, and some that can be written, with a state
   no table row has, with the core's terminal state, and with a state the
   core takes for a device's answer. *)
MCGarbage ==
  {[session |-> g[1], type |-> 7, state |-> g[2], event |-> g[3],
    text |-> "empty", origin |-> NoOrigin] :
     g \in {<<0, 0, 0>>, <<1, 0, 0>>, <<1, ST_TERM, 0>>,
            <<1, ST_SEND_TO_DEVICE, EV_SEND_TO_DEVICE>>}}

(* The first of them alone: a wrapper that starts early does no harm. *)
MCUnsendable == {g \in MCGarbage : g.session = 0}
=============================================================================
