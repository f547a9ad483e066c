-------------------------- MODULE ExecutionLifecycle --------------------------
(***************************************************************************)
(* The life of workflow executions across the processes that touch them:   *)
(* the API requests that trigger, cancel and retry an execution, the       *)
(* broker that carries its id to a worker, and the Celery workers that run *)
(* WorkflowExecutor.execute_workflow.  A process reads the status row into *)
(* its session and writes it in a later transaction, so other processes    *)
(* commit in between.  The tasks of a run are abstracted to the outcome of *)
(* one pass through the executor's loop (a wave).                          *)
(***************************************************************************)
EXTENDS ExecutionStates

CONSTANTS Executions,    \* the uuids executions may get
          Requests,      \* API requests; a request that dispatches is also its message
          Workers,       \* Celery worker processes
          LoopResolves,  \* whether the names used by the executor's loop resolve
          Crashes,       \* whether processes may die or raise at any point
          NoExecution, NoRequest

\* LoopResolves is FALSE for the code as it stands: executor.py:138 enters an
\* undefined name, "lock".  TRUE is the loop with that name (and the DAG method
\* of line 139) defined, which shows what the surrounding protocol guarantees.
ASSUME ConstantsAssumption ==
  /\ LoopResolves \in BOOLEAN
  /\ Crashes \in BOOLEAN
  /\ NoExecution \notin Executions
  /\ NoRequest \notin Requests

VARIABLES
  row,      \* row[e]: the committed status of e, "absent" before its INSERT commits
  queue,    \* the messages (requests) the broker holds
  op, at, target, seen,     \* per request: operation, next step, execution, status read
  pc, job, view, done, failed,
            \* per worker: next step, message, execution.status in its session,
            \* whether every task is accounted for, the flag "failed" of the run
  worked,   \* worked[e]: some run of e has executed tasks
  fate      \* history: how messages and runs of e were lost

requestVars == <<op, at, target, seen>>
workerVars == <<pc, job, view, done, failed>>
vars == <<row, queue, op, at, target, seen, pc, job, view, done, failed, worked, fate>>

Fates == {"dropped", "crashed", "raised", "failed"}

TypeOK ==
  /\ row \in [Executions -> States \cup {"absent"}]
  /\ queue \in SUBSET Requests
  /\ op \in [Requests -> {"none", "trigger", "cancel", "retry"}]
  /\ at \in [Requests -> {"idle", "commit", "send", "done"}]
  /\ target \in [Requests -> Executions \cup {NoExecution}]
  /\ seen \in [Requests -> States \cup {"absent"}]
  /\ pc \in [Workers -> {"idle", "load", "start", "head", "wave", "exit", "complete"}]
  /\ job \in [Workers -> Requests \cup {NoRequest}]
  /\ view \in [Workers -> States \cup {"absent"}]
  /\ done \in [Workers -> BOOLEAN]
  /\ failed \in [Workers -> BOOLEAN]
  /\ worked \in [Executions -> BOOLEAN]
  /\ fate \in [Executions -> SUBSET Fates]

Init ==
  /\ row = [e \in Executions |-> "absent"]
  /\ queue = {}
  /\ op = [r \in Requests |-> "none"]
  /\ at = [r \in Requests |-> "idle"]
  /\ target = [r \in Requests |-> NoExecution]
  /\ seen = [r \in Requests |-> "absent"]
  /\ pc = [w \in Workers |-> "idle"]
  /\ job = [w \in Workers |-> NoRequest]
  /\ view = [w \in Workers |-> "absent"]
  /\ done = [w \in Workers |-> FALSE]
  /\ failed = [w \in Workers |-> FALSE]
  /\ worked = [e \in Executions |-> FALSE]
  /\ fate = [e \in Executions |-> {}]

\* The definitions named ...Variant are plausible slips in the code they stand
\* next to; no action uses them.  README lists the property each one breaks.

\* An UPDATE of the status column; a status is an ExecutionState's value.
Write(e, status) == row' = [row EXCEPT ![e] = status]

\* celery_app.send_task, and the broker's delivery: acknowledged on receipt.
DispatchVariant(r) == UNCHANGED queue
Dispatch(r) == queue' = queue \cup {r}

DeliverVariant(r) == UNCHANGED queue
Deliver(r) == queue' = queue \ {r}

Lose(e, how) == fate' = [fate EXCEPT ![e] = @ \cup {how}]

-----------------------------------------------------------------------------
(* API requests *)

Fresh(e) == \A r \in Requests : ~(op[r] = "trigger" /\ target[r] = e)

\* The request r starts operation o on e, its first step leaving it at step s.
Begin(r, o, e, s) ==
  /\ op[r] = "none"
  /\ op' = [op EXCEPT ![r] = o]
  /\ target' = [target EXCEPT ![r] = e]
  /\ at' = [at EXCEPT ![r] = s]

Advance(r, o, from, to) ==
  /\ op[r] = o
  /\ at[r] = from
  /\ at' = [at EXCEPT ![r] = to]
  /\ UNCHANGED <<op, target, seen>>

\* trigger_workflow inserts the row, flushes, and sends the task; the row is
\* not committed yet.
TriggerSend(r, e) ==
  /\ Fresh(e)
  /\ Begin(r, "trigger", e, "commit")
  /\ Dispatch(r)
  /\ UNCHANGED <<row, seen, workerVars, worked, fate>>

\* get_db (or the scheduled-trigger task) commits after the handler returned.
TriggerCommit(r) ==
  /\ Advance(r, "trigger", "commit", "done")
  /\ Write(target[r], "pending")
  /\ UNCHANGED <<queue, workerVars, worked, fate>>

\* cancel_execution reads the row; its second SELECT finds the object in the
\* session's identity map and keeps the status first read.
CancelRead(r, e) ==
  /\ row[e] # "absent"
  /\ Begin(r, "cancel", e, "commit")
  /\ seen' = [seen EXCEPT ![r] = row[e]]
  /\ UNCHANGED <<row, queue, workerVars, worked, fate>>

CancelCommit(r) ==
  /\ Advance(r, "cancel", "commit", "done")
  /\ IF CanTransition(seen[r], "cancelled")
       THEN Write(target[r], "cancelled") ELSE UNCHANGED row
  /\ UNCHANGED <<queue, workerVars, worked, fate>>

RetryRefusesVariant == {"completed", "cancelled"}
RetryRefuses == {"completed", "cancelled", "running"}

RetryRead(r, e) ==
  /\ row[e] \notin RetryRefuses \cup {"absent"}
  /\ Begin(r, "retry", e, "commit")
  /\ seen' = [seen EXCEPT ![r] = row[e]]
  /\ UNCHANGED <<row, queue, workerVars, worked, fate>>

\* The ORM emits UPDATE only for a status that changed since it was read.
RetryCommit(r) ==
  /\ Advance(r, "retry", "commit", "send")
  /\ IF seen[r] = "pending" THEN UNCHANGED row ELSE Write(target[r], "pending")
  /\ UNCHANGED <<queue, workerVars, worked, fate>>

RetrySend(r) ==
  /\ Advance(r, "retry", "send", "done")
  /\ Dispatch(r)
  /\ UNCHANGED <<row, workerVars, worked, fate>>

\* The request dies or raises: its transaction is rolled back.
RequestAbort(r) ==
  /\ Crashes
  /\ at[r] \in {"commit", "send"}
  /\ at' = [at EXCEPT ![r] = "done"]
  /\ IF at[r] = "send" THEN Lose(target[r], "crashed") ELSE UNCHANGED fate
  /\ UNCHANGED <<row, queue, op, target, seen, workerVars, worked>>

-----------------------------------------------------------------------------
(* Workers *)

Running(w) == target[job[w]]    \* the execution the worker's message names

\* is_cancelled refreshes the row before it answers.
IsCancelledVariant(w) == FALSE
IsCancelled(w) == row[Running(w)] = "cancelled"

\* execute_workflow returns or raises; the message was acknowledged on receipt.
Release(w) ==
  /\ pc' = [pc EXCEPT ![w] = "idle"]
  /\ job' = [job EXCEPT ![w] = NoRequest]
  /\ view' = [view EXCEPT ![w] = "absent"]
  /\ done' = [done EXCEPT ![w] = FALSE]
  /\ failed' = [failed EXCEPT ![w] = FALSE]

Go(w, from, to) ==
  /\ pc[w] = from
  /\ pc' = [pc EXCEPT ![w] = to]

Receive(w, r) ==
  /\ r \in queue
  /\ Go(w, "idle", "load")
  /\ Deliver(r)
  /\ job' = [job EXCEPT ![w] = r]
  /\ UNCHANGED <<row, requestVars, view, done, failed, worked, fate>>

\* The row is not committed (or was rolled back): the task returns and the
\* message is gone.
LoadNothing(w) ==
  /\ pc[w] = "load"
  /\ row[Running(w)] = "absent"
  /\ Release(w)
  /\ Lose(Running(w), "dropped")
  /\ UNCHANGED <<row, queue, requestVars, worked>>

AfterLoadVariant(status) == "start"
AfterLoad(status) == IF CanTransition(status, "running") THEN "start" ELSE "head"

\* The row and the task rows are read.  The rows may already account for every
\* task, if an earlier run executed some.
Load(w) ==
  LET status == row[Running(w)] IN
  /\ pc[w] = "load"
  /\ status # "absent"
  /\ Go(w, "load", AfterLoad(status))
  /\ view' = [view EXCEPT ![w] = status]
  /\ \E d \in IF worked[Running(w)] THEN BOOLEAN ELSE {FALSE} :
       done' = [done EXCEPT ![w] = d]
  /\ UNCHANGED <<row, queue, requestVars, job, failed, worked, fate>>

\* The transition was checked against the status read; the UPDATE is not.
Start(w) ==
  /\ Go(w, "start", "head")
  /\ Write(Running(w), "running")
  /\ view' = [view EXCEPT ![w] = "running"]
  /\ UNCHANGED <<queue, requestVars, job, done, failed, worked, fate>>

\* The head of the loop refreshes the row and stops on cancellation.
HeadCancelled(w) ==
  /\ pc[w] = "head"
  /\ ~done[w]
  /\ IsCancelled(w)
  /\ Release(w)
  /\ UNCHANGED <<row, queue, requestVars, worked, fate>>

FailExecution(w) ==
  /\ IF CanTransition(row[Running(w)], "failed")
       THEN Write(Running(w), "failed") ELSE UNCHANGED row
  /\ Release(w)
  /\ UNCHANGED fate

RaiseAtLockWaitVariant(w) == UNCHANGED <<row, workerVars, fate>>
RaiseAtLockRecordVariant(w) ==
  /\ Release(w)
  /\ Lose(Running(w), "raised")
  /\ Write(Running(w), "failed")

\* "async with lock" raises NameError, which nothing catches.
RaiseAtLock(w) ==
  /\ Release(w)
  /\ Lose(Running(w), "raised")
  /\ UNCHANGED row

EnterWave(w) ==
  /\ Go(w, "head", "wave")
  /\ view' = [view EXCEPT ![w] = row[Running(w)]]
  /\ UNCHANGED <<row, job, done, failed, fate>>

Head(w) ==
  /\ pc[w] = "head"
  /\ ~done[w]
  /\ ~IsCancelled(w)
  /\ IF failed[w] THEN FailExecution(w)
     ELSE IF LoopResolves THEN EnterWave(w) ELSE RaiseAtLock(w)
  /\ UNCHANGED <<queue, requestVars, worked>>

Wave(w) ==
  /\ pc[w] = "wave"
  /\ worked' = [worked EXCEPT ![Running(w)] = TRUE]
  /\ UNCHANGED <<row, queue, requestVars>>

\* The ready tasks end (or none is ready and the loop sleeps): more to do, or not.
WaveEnds(w) ==
  /\ Wave(w)
  /\ Go(w, "wave", "head")
  /\ \E d \in BOOLEAN : done' = [done EXCEPT ![w] = d]
  /\ UNCHANGED <<job, view, failed, fate>>

AfterFailureVariant == "head"
AfterFailure == "exit"       \* "if failed: break", after the loop

\* A task exhausted its attempts.
WaveFails(w) ==
  /\ Wave(w)
  /\ Go(w, "wave", AfterFailure)
  /\ failed' = [failed EXCEPT ![w] = TRUE]
  /\ UNCHANGED <<job, view, done, fate>>

\* A handler, the session or the broadcast raises out of asyncio.gather.
WaveRaises(w) ==
  /\ Wave(w)
  /\ Release(w)
  /\ Lose(Running(w), "raised")

LoopLeft(w) == pc[w] = "exit" \/ (pc[w] = "head" /\ done[w])

\* After the loop the row is refreshed once more.
ExitCancelled(w) ==
  /\ LoopLeft(w)
  /\ IsCancelled(w)
  /\ Release(w)
  /\ UNCHANGED <<row, queue, requestVars, worked, fate>>

ExitFailed(w) ==
  /\ LoopLeft(w)
  /\ ~IsCancelled(w)
  /\ failed[w]
  /\ Release(w)
  /\ Lose(Running(w), "failed")
  /\ UNCHANGED <<row, queue, requestVars, worked>>

ExitFinished(w) ==
  /\ LoopLeft(w)
  /\ ~IsCancelled(w)
  /\ ~failed[w]
  /\ pc' = [pc EXCEPT ![w] = "complete"]
  /\ view' = [view EXCEPT ![w] = row[Running(w)]]
  /\ UNCHANGED <<row, queue, requestVars, job, done, failed, worked, fate>>

\* _complete_execution checks the refreshed status and commits "completed".
Complete(w) ==
  /\ pc[w] = "complete"
  /\ CanTransition(view[w], "completed")
  /\ Write(Running(w), "completed")
  /\ Release(w)
  /\ UNCHANGED <<queue, requestVars, worked, fate>>

CompleteRaises(w) ==
  /\ pc[w] = "complete"
  /\ ~CanTransition(view[w], "completed")
  /\ Release(w)
  /\ Lose(Running(w), "raised")
  /\ UNCHANGED <<row, queue, requestVars, worked>>

\* The worker dies, or Redis or the database fails under it.
WorkerCrash(w) ==
  /\ Crashes
  /\ pc[w] # "idle"
  /\ Release(w)
  /\ Lose(Running(w), "crashed")
  /\ UNCHANGED <<row, queue, requestVars, worked>>

-----------------------------------------------------------------------------

RequestNext(r) ==
  \/ \E e \in Executions : TriggerSend(r, e) \/ CancelRead(r, e) \/ RetryRead(r, e)
  \/ TriggerCommit(r) \/ CancelCommit(r) \/ RetryCommit(r) \/ RetrySend(r)
  \/ RequestAbort(r)

\* The steps of execute_workflow_task: what a live worker does on its own.
WorkerStep(w) ==
  \/ LoadNothing(w) \/ Load(w) \/ Start(w)
  \/ HeadCancelled(w) \/ Head(w)
  \/ WaveEnds(w) \/ WaveFails(w) \/ WaveRaises(w)
  \/ ExitCancelled(w) \/ ExitFailed(w) \/ ExitFinished(w)
  \/ Complete(w) \/ CompleteRaises(w)

ReceiveAny(w) == \E r \in Requests : Receive(w, r)

WorkerNext(w) == ReceiveAny(w) \/ WorkerStep(w) \/ WorkerCrash(w)

Next ==
  \/ \E r \in Requests : RequestNext(r)
  \/ \E w \in Workers : WorkerNext(w)

Spec == Init /\ [][Next]_vars

\* A live worker keeps running its task and takes work when it is free.
FairSpec == Spec /\ \A w \in Workers : WF_vars(WorkerStep(w)) /\ WF_vars(ReceiveAny(w))

-----------------------------------------------------------------------------
(* Properties *)

Holds(w, e) == pc[w] # "idle" /\ Running(w) = e

\* A message for e waits, a worker holds one, or an accepted retry is about to send.
Carried(e) ==
  \/ \E r \in queue : target[r] = e
  \/ \E w \in Workers : Holds(w, e)
  \/ \E r \in Requests : op[r] = "retry" /\ at[r] = "send" /\ target[r] = e

\* A writer that read e's status earlier and will still write over it.
StaleWriter(e) ==
  \/ \E w \in Workers :
       /\ Holds(w, e)
       /\ pc[w] = "start" \/ (pc[w] = "complete" /\ CanTransition(view[w], "completed"))
  \/ \E r \in Requests :
       /\ at[r] = "commit" /\ target[r] = e
       /\ \/ op[r] = "cancel" /\ CanTransition(seen[r], "cancelled")
          \/ op[r] = "retry" /\ seen[r] # "pending"

Settled(e) == row[e] \in Terminal /\ ~StaleWriter(e)

\* Two workers run the same execution at once only after a retry request was
\* accepted for it: one trigger sends one message, the broker delivers it once
\* (execution_service.py retry_execution accepts an execution still pending).
NoTwoRunnersWithoutRetry ==
  \A e \in Executions : \A v, w \in Workers :
    v # w /\ Holds(v, e) /\ Holds(w, e)
      => \E r \in Requests : op[r] = "retry" /\ target[r] = e

\* An execution left pending or running with nothing that will move it on got
\* there in one of the known ways: while pending, its message was received
\* before the row was committed or a process died; while running, the run
\* raised, left the loop on a failed task, or its worker died.
OrphanHasCause ==
  \A e \in Executions : ~Carried(e) =>
    /\ row[e] = "pending" => fate[e] \cap {"dropped", "crashed"} # {}
    /\ row[e] = "running" => fate[e] \cap {"raised", "failed", "crashed"} # {}

\* While the loop's names do not resolve, an execution leaves "running" only
\* by being cancelled: no run ever completes, fails or times out.
OnlyCancellationEnds ==
  ~LoopResolves => \A e \in Executions : row[e] \in {"absent", "pending", "running", "cancelled"}

\* No execution is ever recorded failed or timed_out: the loop is left by its
\* own "break" before the branch that calls _fail_execution can be reached.
FailureNeverRecorded == \A e \in Executions : row[e] \notin {"failed", "timed_out"}

\* A completed or cancelled execution that no process still holds an older
\* reading of keeps that status whatever requests and messages follow.
SettledStays ==
  [][\A e \in Executions : Settled(e) => Settled(e)' /\ row'[e] = row[e]]_vars

\* The writes over a newer status that the read-then-commit pattern can make:
\* a start or a cancel or a completion committed over a terminal status.
StaleOverwrites ==
  {<<"cancelled", "running">>, <<"completed", "running">>,
   <<"completed", "cancelled">>, <<"cancelled", "completed">>}

\* Every change of a committed status is a transition of the state machine or
\* one of those four, which the README's state diagram does not have: it draws
\* completed and cancelled as final.  Nothing else reaches the row, and no
\* status goes back to pending.
OnlyKnownOverwrites ==
  [][\A e \in Executions : row'[e] # row[e] =>
       \/ <<row[e], row'[e]>> = <<"absent", "pending">>
       \/ <<row[e], row'[e]>> \in (ValidTransitions \ {<<"failed", "pending">>,
                                                      <<"timed_out", "pending">>})
                                 \cup StaleOverwrites]_vars

\* Once an execution is settled as cancelled, every worker running it stops.
CancelStopsRun ==
  \A e \in Executions :
    (Settled(e) /\ row[e] = "cancelled") ~> (\A w \in Workers : ~Holds(w, e))

\* Every message sent is taken by a worker.
MessagesTaken == \A r \in Requests : (r \in queue) ~> (r \notin queue)

\* README: the API persists an execution and dispatches it.  So only a crash
\* could leave a persisted execution pending with nothing to run it.
PersistedIsDispatched ==
  \A e \in Executions :
    row[e] = "pending" /\ ~Carried(e) => "crashed" \in fate[e]

=============================================================================
