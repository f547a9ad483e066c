--------------------------- MODULE ExecutionStates ---------------------------
(***************************************************************************)
(* The states of a workflow execution and the transitions the engine's     *)
(* ExecutionStateMachine accepts (app/engine/state_machine.py).            *)
(***************************************************************************)

States == {"pending", "running", "completed", "failed", "cancelled", "timed_out"}

\* VALID_TRANSITIONS, as a relation.
ValidTransitions ==
  {<<"pending", "running">>, <<"pending", "cancelled">>,
   <<"running", "completed">>, <<"running", "failed">>,
   <<"running", "cancelled">>, <<"running", "timed_out">>,
   <<"failed", "pending">>, <<"timed_out", "pending">>}

CanTransition(from, to) == <<from, to>> \in ValidTransitions

\* The states VALID_TRANSITIONS gives no successor.
Terminal == {s \in States : \A t \in States : ~CanTransition(s, t)}
=============================================================================
