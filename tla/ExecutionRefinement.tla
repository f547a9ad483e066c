------------------------- MODULE ExecutionRefinement -------------------------
(***************************************************************************)
(* The requests and workers of ExecutionLifecycle as the writers of        *)
(* ExecutionStatus: a writer's decision is what the status it has read     *)
(* will make it commit.                                                    *)
(***************************************************************************)
EXTENDS ExecutionLifecycle

ASSUME WritersAssumption == Requests \cap Workers = {}

\* Between the read of cancel_execution or retry_execution and their commit.
RequestDecision(r) ==
  IF at[r] # "commit" THEN {}
  ELSE IF op[r] = "cancel" /\ CanTransition(seen[r], "cancelled")
       THEN {<<target[r], "cancelled">>}
  ELSE IF op[r] = "retry" /\ seen[r] # "pending" THEN {<<target[r], "pending">>}
  ELSE {}

\* Between the checks of lines 59 and 340 of executor.py and the commits.
WorkerDecision(w) ==
  IF pc[w] = "start" THEN {<<Running(w), "running">>}
  ELSE IF pc[w] = "complete" /\ CanTransition(view[w], "completed")
       THEN {<<Running(w), "completed">>}
  ELSE {}

Decision == [p \in Requests \cup Workers |->
               IF p \in Requests THEN RequestDecision(p) ELSE WorkerDecision(p)]

Status == INSTANCE ExecutionStatus
            WITH Writers <- Requests \cup Workers, status <- row, decided <- Decision

\* The lifecycle keeps ExecutionStatus's promise: however requests, messages,
\* workers and crashes interleave, whoever writes a status read one it may
\* follow, and writes once (execution_service.py:71 and :85 with
\* executor.py:59, :340 and :369, and the commits after them).
StatusPromise == Status!Spec
=============================================================================
