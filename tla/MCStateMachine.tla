--------------------------- MODULE MCStateMachine ---------------------------
(***************************************************************************)
(* The state machine as its own tests use it: two states, two events, and  *)
(* loops and senders that nothing coordinates.                             *)
(***************************************************************************)
EXTENDS StateMachine

MCTransitions == {[from |-> "idle", event |-> "go", to |-> "running"],
                  [from |-> "running", event |-> "stop", to |-> "idle"]}
=============================================================================
