--------------------------- MODULE ExecutionStatus ---------------------------
(***************************************************************************)
(* What the engine promises about the status of an execution, whatever     *)
(* processes write it: a status comes from a decision that was a legal     *)
(* transition of the status the writer read, each writer holds at most one *)
(* decision and commits it at most once.  Between decision and commit the  *)
(* status may move on; that much, and no more, can be overwritten.         *)
(***************************************************************************)
EXTENDS ExecutionStates

CONSTANTS Executions, Writers

VARIABLES
  status,     \* status[e], "absent" until the execution is created
  decided     \* decided[p]: {}, or the one <<execution, status>> p will write

vars == <<status, decided>>

Init ==
  /\ status = [e \in Executions |-> "absent"]
  /\ decided = [p \in Writers |-> {}]

Put(e, s) == status' = [status EXCEPT ![e] = s]

Create(e) ==
  /\ status[e] = "absent"
  /\ Put(e, "pending")
  /\ UNCHANGED decided

Decide(p, e, s) ==
  /\ decided[p] = {}
  /\ CanTransition(status[e], s)
  /\ decided' = [decided EXCEPT ![p] = {<<e, s>>}]
  /\ UNCHANGED status

Commit(p, e, s) ==
  /\ decided[p] = {<<e, s>>}
  /\ Put(e, s)
  /\ decided' = [decided EXCEPT ![p] = {}]

\* A crash or a rollback between decision and commit.
Abandon(p) ==
  /\ decided' = [decided EXCEPT ![p] = {}]
  /\ UNCHANGED status

Next ==
  \/ \E e \in Executions : Create(e)
  \/ \E p \in Writers, e \in Executions, s \in States : Decide(p, e, s) \/ Commit(p, e, s)
  \/ \E p \in Writers : Abandon(p)

Spec == Init /\ [][Next]_vars
=============================================================================
