--------------------------- MODULE WorkflowExecutor ---------------------------
(***************************************************************************)
(* One run of WorkflowExecutor.execute_workflow (app/engine/executor.py)   *)
(* over a concrete graph: the loop fans every ready task out as a          *)
(* coroutine, the coroutines interleave at their awaits under a semaphore, *)
(* retry failed attempts and skip the branch a condition did not choose,   *)
(* while an API request may cancel the execution.                          *)
(*                                                                         *)
(* The loop uses three names that do not resolve in the source: "lock" of  *)
(* line 138, "glock" of line 196 and the DAG method                        *)
(* tasks_with_all_predecessors_skipped of line 139.  Here the first two    *)
(* are the run's glock and the method is AllPredecessorsSkipped;           *)
(* ExecutionLifecycle (LoopResolves = FALSE) has the run as written.       *)
(***************************************************************************)
EXTENDS Dag

CONSTANTS Tasks,
          Definitions,    \* workflow definitions the run may be given
          MaxConcurrent,  \* MAX_CONCURRENT_TASKS
          NoTask          \* an absent on_true or on_false

\* A definition has a graph, the branches of its condition tasks and a number
\* of attempts per task, which the code raises to 1 if it is less.
ASSUME ExecutorAssumption ==
  /\ IsFiniteSet(Tasks)
  /\ MaxConcurrent \in Nat \ {0}
  /\ NoTask \notin Tasks
  /\ \A d \in Definitions :
       /\ d.nodes \subseteq Tasks
       /\ IsValid(d)
       /\ d.onTrue \in [d.nodes -> Tasks \cup {NoTask}]
       /\ d.onFalse \in [d.nodes -> Tasks \cup {NoTask}]
       /\ d.attempts \in [d.nodes -> Nat \ {0}]

VARIABLES
  def,       \* the definition being run
  status,    \* the committed status of the execution
  seen,      \* execution.status in the run's session, as last refreshed
  loop,      \* where the loop is
  outcome,   \* how execute_workflow was left
  completed, skipped, failed,   \* the run's local variables
  pc,        \* pc[t]: where the coroutine of t is in the current wave
  task,      \* task[t]: status of t's row; "flushed" is inserted, not committed
  attempt,   \* te.attempt
  wave,      \* waves started
  ran, late  \* history: handler starts per task, and the tasks whose handler
             \* first started after the cancellation was committed

tasks == <<pc, task, attempt, ran, late>>
sets == <<completed, skipped, failed>>
vars == <<def, status, seen, loop, outcome, sets, tasks, wave>>

TypeOK ==
  /\ def \in Definitions
  /\ status \in {"running", "completed", "failed", "cancelled"}
  /\ seen \in {"running", "completed", "failed", "cancelled"}
  /\ loop \in {"head", "wave", "exit", "done"}
  /\ outcome \in {"none", "completed", "failed", "cancelled", "raised"}
  /\ completed \subseteq def.nodes
  /\ skipped \subseteq def.nodes
  /\ failed \in BOOLEAN
  /\ pc \in [Tasks -> {"idle", "waiting", "try", "handler", "settle", "sleep", "branch", "out"}]
  /\ task \in [Tasks -> {"none", "flushed", "pending", "running", "completed",
                         "failed", "skipped", "cancelled"}]
  /\ attempt \in [Tasks -> Nat]
  /\ wave \in Nat
  /\ ran \in [Tasks -> Nat]
  /\ late \subseteq Tasks

\* The transition to running is committed and the execution has no task rows.
Init ==
  /\ def \in Definitions
  /\ status = "running"
  /\ seen = "running"
  /\ loop = "head"
  /\ outcome = "none"
  /\ completed = {}
  /\ skipped = {}
  /\ failed = FALSE
  /\ pc = [t \in Tasks |-> "idle"]
  /\ task = [t \in Tasks |-> "none"]
  /\ attempt = [t \in Tasks |-> 1]
  /\ wave = 0
  /\ ran = [t \in Tasks |-> 0]
  /\ late = {}

\* The coroutines share one session: a commit also persists what the others
\* flushed.
CommitRows(changed, s) ==
  task' = [t \in Tasks |-> IF t \in changed THEN s
                           ELSE IF task[t] = "flushed" THEN "pending" ELSE task[t]]

Leave(how) ==
  /\ loop' = "done"
  /\ outcome' = how

\* refresh_execution reads the committed row into the run's session, where
\* every coroutine of the run sees it; is_cancelled asks after a refresh.
RefreshedVariant == seen
Refreshed == status

IsCancelled == Refreshed = "cancelled"

-----------------------------------------------------------------------------
(* The loop *)

AllAccountedVariant == Cardinality(completed) >= Cardinality(def.nodes)
AllAccountedEarlyVariant ==
  Cardinality(completed) + Cardinality(skipped) + 1 >= Cardinality(def.nodes)

\* The negation of the loop's condition: it counts, and compares no sets.
AllAccounted == Cardinality(completed) + Cardinality(skipped) >= Cardinality(def.nodes)

AllPredecessorsSkipped ==
  {t \in def.nodes \ (completed \cup skipped) :
     /\ Predecessors(def, t) # {}
     /\ Predecessors(def, t) \subseteq skipped}

HeadCancelled ==
  /\ loop = "head"
  /\ ~AllAccounted
  /\ IsCancelled
  /\ seen' = Refreshed
  /\ Leave("cancelled")
  /\ UNCHANGED <<def, status, sets, tasks, wave>>

\* Nothing else of the run is active at the head of the loop, so its commits
\* are one step.  With no task ready it sleeps and comes back.
FanOut ==
  LET skips == AllPredecessorsSkipped
      ready == ReadyTasks(def, completed, skipped \cup skips)
  IN /\ skipped' = skipped \cup skips
     /\ IF skips = {} THEN UNCHANGED task ELSE CommitRows(skips, "skipped")
     /\ pc' = [t \in Tasks |-> IF t \in ready THEN "waiting" ELSE pc[t]]
     /\ IF ready = {} THEN UNCHANGED <<loop, wave>> ELSE loop' = "wave" /\ wave' = wave + 1
     /\ UNCHANGED <<def, status, outcome, completed, failed, attempt, ran, late>>

FailExecution ==
  /\ status' = "failed"
  /\ Leave("failed")
  /\ UNCHANGED <<def, sets, tasks, wave>>

Head ==
  /\ loop = "head"
  /\ ~AllAccounted
  /\ ~IsCancelled
  /\ seen' = Refreshed
  /\ IF failed THEN FailExecution ELSE FanOut

\* asyncio.gather returns when every coroutine of the wave has.
WaveOverVariant == \E t \in Tasks : pc[t] = "out"
WaveOver == \A t \in Tasks : pc[t] \in {"idle", "out"}

WaveEnds ==
  /\ loop = "wave"
  /\ WaveOver
  /\ pc' = [t \in Tasks |-> IF pc[t] = "out" THEN "idle" ELSE pc[t]]
  /\ loop' = IF failed THEN "exit" ELSE "head"
  /\ UNCHANGED <<def, status, seen, outcome, sets, task, attempt, wave, ran, late>>

LoopLeft == loop = "exit" \/ (loop = "head" /\ AllAccounted)

\* After the loop the row is refreshed once more.
ExitCancelled ==
  /\ LoopLeft
  /\ IsCancelled
  /\ seen' = Refreshed
  /\ Leave("cancelled")
  /\ UNCHANGED <<def, status, sets, tasks, wave>>

ExitFailed ==
  /\ LoopLeft
  /\ ~IsCancelled
  /\ failed
  /\ seen' = Refreshed
  /\ Leave("failed")
  /\ UNCHANGED <<def, status, sets, tasks, wave>>

Complete ==
  /\ LoopLeft
  /\ ~IsCancelled
  /\ ~failed
  /\ seen' = "completed"
  /\ status' = "completed"
  /\ Leave("completed")
  /\ UNCHANGED <<def, sets, tasks, wave>>

\* The database, the broadcast or get_task_class raises: the run is over.
RunRaises ==
  /\ loop # "done"
  /\ Leave("raised")
  /\ UNCHANGED <<def, status, seen, sets, tasks, wave>>

-----------------------------------------------------------------------------
(* run_node: the coroutine of one task *)

Inside == {t \in Tasks : pc[t] \in {"try", "handler", "settle", "sleep", "branch"}}

HasSlot == Cardinality(Inside) < MaxConcurrent

Go(t, from, to) ==
  /\ loop = "wave"
  /\ pc[t] = from
  /\ pc' = [pc EXCEPT ![t] = to]

EnterCancelled(t) ==
  /\ HasSlot
  /\ IsCancelled
  /\ Go(t, "waiting", "out")
  /\ seen' = Refreshed
  /\ UNCHANGED <<def, status, loop, outcome, sets, task, attempt, wave, ran, late>>

\* A task no longer wanted returns; another gets its row, created if need be.
Enter(t) ==
  /\ HasSlot
  /\ ~IsCancelled
  /\ seen' = Refreshed
  /\ IF t \in completed \cup skipped
       THEN Go(t, "waiting", "out") /\ UNCHANGED task
       ELSE /\ Go(t, "waiting", "try")
            /\ task' = [task EXCEPT ![t] = IF @ = "none" THEN "flushed" ELSE @]
  /\ UNCHANGED <<def, status, loop, outcome, sets, attempt, wave, ran, late>>

Limit(t) == def.attempts[t]

\* _execute_task_with_retries gives up: the run as a whole is marked failed.
GiveUp(t) ==
  /\ Go(t, "try", "out")
  /\ seen = "cancelled" \/ attempt[t] > Limit(t)
  /\ failed' = TRUE
  /\ UNCHANGED <<def, status, seen, loop, outcome, completed, skipped, task, attempt, wave, ran, late>>

StartHandler(t) ==
  /\ Go(t, "try", "handler")
  /\ seen # "cancelled" /\ attempt[t] <= Limit(t)
  /\ CommitRows({t}, "running")
  /\ ran' = [ran EXCEPT ![t] = @ + 1]
  /\ late' = IF status = "cancelled" /\ ran[t] = 0 THEN late \cup {t} ELSE late
  /\ UNCHANGED <<def, status, seen, loop, outcome, sets, attempt, wave>>

HandlerSucceeds(t) ==
  /\ Go(t, "handler", "settle")
  /\ CommitRows({t}, "completed")
  /\ UNCHANGED <<def, status, seen, loop, outcome, sets, attempt, wave, ran, late>>

ExhaustedEarlyVariant(t) == attempt[t] + 1 >= Limit(t)
Exhausted(t) == attempt[t] >= Limit(t)

\* The handler reports failure or runs into its timeout.
HandlerFails(t) ==
  /\ Go(t, "handler", IF Exhausted(t) THEN "out" ELSE "sleep")
  /\ CommitRows({t}, "failed")
  /\ failed' = (failed \/ Exhausted(t))
  /\ UNCHANGED <<def, status, seen, loop, outcome, completed, skipped, attempt, wave, ran, late>>

NextAttempt(t) == attempt[t] + 1

\* The delay between attempts has passed.
Retry(t) ==
  /\ Go(t, "sleep", "try")
  /\ attempt' = [attempt EXCEPT ![t] = NextAttempt(t)]
  /\ CommitRows({t}, "pending")
  /\ UNCHANGED <<def, status, seen, loop, outcome, sets, wave, ran, late>>

IsCondition(t) == def.onTrue[t] # NoTask /\ def.onFalse[t] # NoTask

Settle(t) ==
  /\ Go(t, "settle", IF IsCondition(t) THEN "branch" ELSE "out")
  /\ completed' = completed \cup {t}
  /\ UNCHANGED <<def, status, seen, loop, outcome, skipped, failed, task, attempt, wave, ran, late>>

NotChosen(t, result) == IF result THEN def.onFalse[t] ELSE def.onTrue[t]

\* A name that is no task of the definition is passed over.
SkippedBy(t, result) == {NotChosen(t, result)} \cap def.nodes

\* _apply_condition_branch_skips
Branch(t) ==
  /\ Go(t, "branch", "out")
  /\ \E result \in BOOLEAN :
       LET skips == SkippedBy(t, result) IN
       /\ skipped' = skipped \cup skips
       /\ IF skips = {} THEN UNCHANGED task ELSE CommitRows(skips, "skipped")
  /\ UNCHANGED <<def, status, seen, loop, outcome, completed, failed, attempt, wave, ran, late>>

-----------------------------------------------------------------------------

\* cancel_execution, from another process: it sees only committed rows.
Cancel ==
  /\ status = "running"
  /\ status' = "cancelled"
  /\ task' = [t \in Tasks |-> IF task[t] \in {"pending", "running"} THEN "cancelled" ELSE task[t]]
  /\ UNCHANGED <<def, seen, loop, outcome, sets, pc, attempt, wave, ran, late>>

Loop == HeadCancelled \/ Head \/ WaveEnds \/ ExitCancelled \/ ExitFailed \/ Complete

RunNode(t) ==
  \/ EnterCancelled(t) \/ Enter(t) \/ GiveUp(t) \/ StartHandler(t)
  \/ HandlerSucceeds(t) \/ HandlerFails(t) \/ Retry(t) \/ Settle(t) \/ Branch(t)

Next ==
  \/ Loop
  \/ \E t \in Tasks : RunNode(t)
  \/ Cancel
  \/ RunRaises

Spec == Init /\ [][Next]_vars

\* The event loop runs whatever can run; a handler ends, if only by its timeout.
FairSpec == Spec /\ WF_vars(Loop) /\ \A t \in Tasks : WF_vars(RunNode(t))

-----------------------------------------------------------------------------
(* Properties *)

\* The branches of a definition name tasks that depend on the condition, as
\* the workflows of the README and of scripts/sample_workflows.py do.
BranchesAhead ==
  \A t \in def.nodes : IsCondition(t) =>
    \A b \in {def.onTrue[t], def.onFalse[t]} \cap def.nodes : <<t, b>> \in def.edges

\* A task is run only when every task it depends on has completed, in the
\* run's own sets and in the committed rows.
PredecessorsFirst ==
  BranchesAhead =>
    \A t \in Inside : \A p \in Predecessors(def, t) : p \in completed /\ task[p] = "completed"

\* A branch that was not chosen never starts, whatever runs in the same wave.
SkippedNeverRuns ==
  BranchesAhead => \A t \in skipped : ran[t] = 0 /\ t \notin completed

\* An execution is recorded completed only when each of its tasks completed or
\* was skipped, although the loop compares sizes only.
CompletedMeansAll ==
  BranchesAhead /\ outcome = "completed" =>
    \A t \in def.nodes : task[t] \in {"completed", "skipped"}

\* A handler is started at most as often as max_attempts says.
AttemptsBounded == \A t \in def.nodes : ran[t] <= Limit(t)

\* A run that is not cancelled ends failed only on a task that used up its
\* attempts.
FailureIsExhaustion ==
  BranchesAhead /\ outcome = "failed" => \E t \in def.nodes : ran[t] = Limit(t) /\ task[t] = "failed"

\* MAX_CONCURRENT_TASKS also bounds how many tasks still start after the
\* cancellation is committed.
CancelIsPrompt == Cardinality(late) <= MaxConcurrent

\* README: topological generations expose parallel waves.  While nothing is
\* skipped the wave being run is the generation get_execution_order returns.
WavesAreGenerations ==
  loop = "wave" /\ skipped = {} =>
    {t \in Tasks : pc[t] # "idle"} = Generation(def, wave)

\* No row is left "running" by a run that returned.
NoRowLeftRunning ==
  loop = "done" /\ outcome # "raised" => \A t \in Tasks : task[t] # "running"

\* A join with a skipped and a completed predecessor: never ready, never skipped.
Blocked(t) ==
  /\ t \notin completed \cup skipped
  /\ Predecessors(def, t) \subseteq completed \cup skipped
  /\ Predecessors(def, t) \cap skipped # {}
  /\ ~(Predecessors(def, t) \subseteq skipped)

\* A run ends, or waits for ever on a join that only one branch reaches.
RunEnds == <>(loop = "done" \/ \E t \in def.nodes : Blocked(t))

=============================================================================
