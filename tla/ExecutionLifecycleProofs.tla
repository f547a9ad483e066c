---------------------- MODULE ExecutionLifecycleProofs ----------------------
(***************************************************************************)
(* Proofs about ExecutionLifecycle for every set of executions, requests   *)
(* and workers, with and without crashes, and for both readings of the     *)
(* executor's loop.                                                        *)
(***************************************************************************)
EXTENDS ExecutionRefinement, TLAPS

\* Every state of the specification gives each variable a value of its type.
LEMMA TypeInit == Init => TypeOK
BY ConstantsAssumption DEF Init, TypeOK, States

\* A request's message has been handed to the broker.
Sent(r) == op[r] = "trigger" \/ (op[r] = "retry" /\ at[r] = "done")

\* A request that began names an execution and has its first step behind it.
RequestsWired ==
  \A r \in Requests :
    /\ op[r] = "none" <=> at[r] = "idle"
    /\ op[r] # "none" => target[r] \in Executions
    /\ at[r] = "send" => op[r] = "retry"
    /\ r \in queue => Sent(r)

\* A message is in the queue or with one worker, never in two places.
WorkersWired ==
  \A w \in Workers :
    /\ pc[w] = "idle" <=> job[w] = NoRequest
    /\ job[w] # NoRequest => job[w] \notin queue /\ Sent(job[w])
    /\ \A v \in Workers : job[v] = job[w] => v = w \/ job[w] = NoRequest

Wired == RequestsWired /\ WorkersWired

LEMMA RunningIsExecution ==
  ASSUME TypeOK, Wired, NEW w \in Workers, pc[w] # "idle"
  PROVE  job[w] \in Requests /\ Sent(job[w]) /\ Running(w) \in Executions
BY DEF TypeOK, Wired, RequestsWired, WorkersWired, Running, Sent

LEMMA RequestTypeStep ==
  ASSUME TypeOK, NEW r \in Requests, RequestNext(r)
  PROVE  TypeOK'
<1> USE DEF TypeOK, requestVars, workerVars
<1>1. ASSUME NEW e \in Executions, TriggerSend(r, e) PROVE TypeOK'
  BY <1>1 DEF TriggerSend, Begin, Dispatch
<1>2. ASSUME NEW e \in Executions, CancelRead(r, e) PROVE TypeOK'
  BY <1>2 DEF CancelRead, Begin
<1>3. ASSUME NEW e \in Executions, RetryRead(r, e) PROVE TypeOK'
  BY <1>3 DEF RetryRead, RetryRefuses, Begin
<1>4. CASE TriggerCommit(r)
  BY <1>4 DEF TriggerCommit, Advance, Write, States
<1>5. CASE CancelCommit(r)
  BY <1>5 DEF CancelCommit, Advance, Write, States
<1>6. CASE RetryCommit(r)
  BY <1>6 DEF RetryCommit, Advance, Write, States
<1>7. CASE RetrySend(r)
  BY <1>7 DEF RetrySend, Advance, Dispatch
<1>8. CASE RequestAbort(r)
  BY <1>8 DEF RequestAbort, Lose, Fates
<1> QED BY <1>1, <1>2, <1>3, <1>4, <1>5, <1>6, <1>7, <1>8 DEF RequestNext

\* What the head of the loop does, by case.
LEMMA HeadCases ==
  ASSUME NEW w \in Workers, Head(w)
  PROVE  /\ pc[w] = "head" /\ ~done[w] /\ ~IsCancelled(w)
         /\ UNCHANGED <<queue, requestVars, worked>>
         /\ \/ failed[w] /\ FailExecution(w)
            \/ LoopResolves /\ EnterWave(w)
            \/ ~LoopResolves /\ RaiseAtLock(w)
BY Zenon DEF Head

LEMMA WorkerTypeStep ==
  ASSUME TypeOK, Wired, NEW w \in Workers, WorkerNext(w)
  PROVE  TypeOK'
<1>0. pc[w] # "idle" => Running(w) \in Executions
  BY RunningIsExecution
<1> USE DEF TypeOK, requestVars, workerVars
<1>1. ASSUME NEW r \in Requests, Receive(w, r) PROVE TypeOK'
  BY <1>1 DEF Receive, Go, Deliver
<1>2. CASE LoadNothing(w)
  BY <1>2 DEF LoadNothing, Release, Lose, Fates
<1>3. CASE Load(w)
  <2>1. pc' \in [Workers -> {"idle", "load", "start", "head", "wave", "exit", "complete"}]
    BY <1>3 DEF Load, Go, AfterLoad
  <2>2. view' \in [Workers -> States \cup {"absent"}]
    BY <1>0, <1>3 DEF Load
  <2>3. done' \in [Workers -> BOOLEAN]
    <3>1. PICK d \in BOOLEAN : done' = [done EXCEPT ![w] = d]
      BY <1>3 DEF Load
    <3> QED BY <3>1
  <2> QED BY <1>3, <2>1, <2>2, <2>3 DEF Load
<1>4. CASE Start(w)
  BY <1>4 DEF Start, Go, Write, States
<1>5. CASE HeadCancelled(w)
  BY <1>5 DEF HeadCancelled, Release
<1>6. CASE Head(w)
  <2>1. CASE FailExecution(w)
    <3>1. /\ row' \in [Executions -> States \cup {"absent"}]
          /\ UNCHANGED <<queue, requestVars, worked, fate>>
      BY <1>6, <2>1, HeadCases DEF FailExecution, Write, States
    <3> QED BY <3>1, <2>1 DEF FailExecution, Release
  <2>2. CASE EnterWave(w)
    <3>1. UNCHANGED <<row, queue, requestVars, worked, job, done, failed, fate>>
      BY <1>6, <2>2, HeadCases DEF EnterWave
    <3> QED BY <1>0, <2>2, <3>1 DEF EnterWave, Go
  <2>3. CASE RaiseAtLock(w)
    <3>1. fate' \in [Executions -> SUBSET Fates]
      BY <2>3 DEF RaiseAtLock, Lose, Fates
    <3>2. UNCHANGED <<row, queue, requestVars, worked>>
      BY <1>6, <2>3, HeadCases DEF RaiseAtLock
    <3> QED BY <3>1, <3>2, <2>3 DEF RaiseAtLock, Release
  <2> QED BY <1>6, <2>1, <2>2, <2>3, HeadCases
<1>7. CASE WaveEnds(w)
  BY <1>7 DEF WaveEnds, Wave, Go
<1>8. CASE WaveFails(w)
  BY <1>8 DEF WaveFails, Wave, Go, AfterFailure
<1>9. CASE WaveRaises(w)
  BY <1>9 DEF WaveRaises, Wave, Release, Lose, Fates
<1>10. CASE ExitCancelled(w)
  BY <1>10 DEF ExitCancelled, Release
<1>11. CASE ExitFailed(w)
  BY <1>11 DEF ExitFailed, Release, Lose, Fates
<1>12. CASE ExitFinished(w)
  BY <1>0, <1>12 DEF ExitFinished, LoopLeft
<1>13. CASE Complete(w)
  BY <1>13 DEF Complete, Release, Write, States
<1>14. CASE CompleteRaises(w)
  BY <1>14 DEF CompleteRaises, Release, Lose, Fates
<1>15. CASE WorkerCrash(w)
  BY <1>15 DEF WorkerCrash, Release, Lose, Fates
<1> QED BY <1>1, <1>2, <1>3, <1>4, <1>5, <1>6, <1>7, <1>8, <1>9, <1>10, <1>11,
           <1>12, <1>13, <1>14, <1>15 DEF WorkerNext, WorkerStep, ReceiveAny

LEMMA WiredInit == Init => Wired
BY ConstantsAssumption DEF Init, Wired, RequestsWired, WorkersWired, Sent

LEMMA RequestWiredStep ==
  ASSUME TypeOK, Wired, NEW r \in Requests, RequestNext(r)
  PROVE  Wired'
<1> USE ConstantsAssumption DEF TypeOK, Wired, RequestsWired, WorkersWired, Sent, requestVars, workerVars
<1>1. ASSUME NEW e \in Executions, TriggerSend(r, e) PROVE Wired'
  BY <1>1 DEF TriggerSend, Begin, Dispatch
<1>2. ASSUME NEW e \in Executions, CancelRead(r, e) PROVE Wired'
  BY <1>2 DEF CancelRead, Begin
<1>3. ASSUME NEW e \in Executions, RetryRead(r, e) PROVE Wired'
  BY <1>3 DEF RetryRead, RetryRefuses, Begin
<1>4. CASE TriggerCommit(r)
  BY <1>4 DEF TriggerCommit, Advance
<1>5. CASE CancelCommit(r)
  BY <1>5 DEF CancelCommit, Advance
<1>6. CASE RetryCommit(r)
  BY <1>6 DEF RetryCommit, Advance
<1>7. CASE RetrySend(r)
  BY <1>7 DEF RetrySend, Advance, Dispatch
<1>8. CASE RequestAbort(r)
  BY <1>8 DEF RequestAbort
<1> QED BY <1>1, <1>2, <1>3, <1>4, <1>5, <1>6, <1>7, <1>8 DEF RequestNext

\* Every way a worker lets go of its message keeps the wiring.
LEMMA ReleaseWired ==
  ASSUME TypeOK, Wired, NEW w \in Workers, pc[w] # "idle", Release(w),
         UNCHANGED <<queue, op, at, target>>
  PROVE  Wired'
BY ConstantsAssumption DEF TypeOK, Wired, RequestsWired, WorkersWired, Sent, Release

\* So does every step that keeps the message.
LEMMA KeepWired ==
  ASSUME TypeOK, Wired, NEW w \in Workers, pc[w] # "idle",
         NEW s \in {"start", "head", "wave", "exit", "complete"}, pc' = [pc EXCEPT ![w] = s],
         UNCHANGED <<queue, op, at, target, job>>
  PROVE  Wired'
BY DEF TypeOK, Wired, RequestsWired, WorkersWired, Sent

LEMMA WorkerWiredStep ==
  ASSUME TypeOK, Wired, NEW w \in Workers, WorkerNext(w)
  PROVE  Wired'
<1> USE DEF requestVars, workerVars
<1>1. ASSUME NEW r \in Requests, Receive(w, r) PROVE Wired'
  BY <1>1, ConstantsAssumption
     DEF Receive, Go, Deliver, TypeOK, Wired, RequestsWired, WorkersWired, Sent
<1>2. CASE LoadNothing(w)
  BY <1>2, ReleaseWired DEF LoadNothing
<1>3. CASE Load(w)
  BY <1>3, KeepWired DEF Load, Go, AfterLoad
<1>4. CASE Start(w)
  BY <1>4, KeepWired DEF Start, Go
<1>5. CASE HeadCancelled(w)
  BY <1>5, ReleaseWired DEF HeadCancelled
<1>6. CASE Head(w)
  <2>1. CASE FailExecution(w)
    BY <1>6, <2>1, HeadCases, ReleaseWired DEF FailExecution
  <2>2. CASE EnterWave(w)
    BY <1>6, <2>2, HeadCases, KeepWired DEF EnterWave, Go
  <2>3. CASE RaiseAtLock(w)
    BY <1>6, <2>3, HeadCases, ReleaseWired DEF RaiseAtLock
  <2> QED BY <1>6, <2>1, <2>2, <2>3, HeadCases
<1>7. CASE WaveEnds(w)
  BY <1>7, KeepWired DEF WaveEnds, Wave, Go
<1>8. CASE WaveFails(w)
  BY <1>8, KeepWired DEF WaveFails, Wave, Go, AfterFailure
<1>9. CASE WaveRaises(w)
  BY <1>9, ReleaseWired DEF WaveRaises, Wave
<1>10. CASE ExitCancelled(w)
  BY <1>10, ReleaseWired DEF ExitCancelled, LoopLeft
<1>11. CASE ExitFailed(w)
  BY <1>11, ReleaseWired DEF ExitFailed, LoopLeft
<1>12. CASE ExitFinished(w)
  BY <1>12, KeepWired DEF ExitFinished, LoopLeft
<1>13. CASE Complete(w)
  BY <1>13, ReleaseWired DEF Complete
<1>14. CASE CompleteRaises(w)
  BY <1>14, ReleaseWired DEF CompleteRaises
<1>15. CASE WorkerCrash(w)
  BY <1>15, ReleaseWired DEF WorkerCrash
<1> QED BY <1>1, <1>2, <1>3, <1>4, <1>5, <1>6, <1>7, <1>8, <1>9, <1>10, <1>11,
           <1>12, <1>13, <1>14, <1>15 DEF WorkerNext, WorkerStep, ReceiveAny

\* Every reachable state is well typed, and every message is in one place.
THEOREM TypeAndWiring == Spec => [](TypeOK /\ Wired)
<1>1. Init => TypeOK /\ Wired
  BY TypeInit, WiredInit
<1>2. TypeOK /\ Wired /\ [Next]_vars => (TypeOK /\ Wired)'
  <2> SUFFICES ASSUME TypeOK, Wired, [Next]_vars PROVE (TypeOK /\ Wired)'
    OBVIOUS
  <2>1. ASSUME NEW r \in Requests, RequestNext(r) PROVE (TypeOK /\ Wired)'
    BY <2>1, RequestTypeStep, RequestWiredStep
  <2>2. ASSUME NEW w \in Workers, WorkerNext(w) PROVE (TypeOK /\ Wired)'
    BY <2>2, WorkerTypeStep, WorkerWiredStep
  <2>3. CASE UNCHANGED vars
    BY <2>3 DEF vars, TypeOK, Wired, RequestsWired, WorkersWired, Sent
  <2> QED BY <2>1, <2>2, <2>3 DEF Next
<1> QED BY <1>1, <1>2, PTL DEF Spec

-----------------------------------------------------------------------------
(* The rows and who may write them *)

\* An execution exists from its trigger's commit on; one trigger makes it.
RowsOwned ==
  /\ \A r \in Requests : op[r] = "trigger" /\ at[r] = "commit" => row[target[r]] = "absent"
  /\ \A q, r \in Requests :
       op[q] = "trigger" /\ op[r] = "trigger" /\ target[q] = target[r] => q = r
  /\ \A e \in Executions :
       row[e] # "absent" => \E r \in Requests : op[r] = "trigger" /\ target[r] = e
  /\ \A r \in Requests : op[r] \in {"cancel", "retry"} => row[target[r]] # "absent"
  /\ \A w \in Workers : pc[w] \notin {"idle", "load"} => row[Running(w)] # "absent"

\* No failure is recorded, so every retry accepted read "pending", and a run
\* whose flag is set is past the loop.
NoFailure ==
  /\ FailureNeverRecorded
  /\ \A r \in Requests : op[r] = "retry" => seen[r] = "pending"
  /\ \A w \in Workers : failed[w] => pc[w] = "exit"

\* A run past its start has left "pending" behind, and nothing restores it.
StartedIsNotPending ==
  \A w \in Workers : pc[w] \in {"head", "wave", "exit", "complete"} => row[Running(w)] # "pending"

\* A message sent before its row's commit is still carried, or known lost.
UncommittedHasCause ==
  \A r \in Requests :
    op[r] = "trigger" /\ at[r] = "commit" =>
      Carried(target[r]) \/ fate[target[r]] \cap {"dropped", "crashed"} # {}

\* As written, no worker gets past the head of the loop.
NoWave ==
  ~LoopResolves =>
    /\ \A w \in Workers : pc[w] \in {"idle", "load", "start", "head"} /\ ~done[w]
    /\ \A e \in Executions : ~worked[e]

RowInv == RowsOwned /\ NoFailure /\ StartedIsNotPending
CauseInv == OrphanHasCause /\ UncommittedHasCause
AsWrittenInv == OnlyCancellationEnds /\ NoWave

LEMMA RowInit == Init => RowInv
BY ConstantsAssumption DEF Init, RowInv, RowsOwned, NoFailure, FailureNeverRecorded, StartedIsNotPending

LEMMA RequestRowStep ==
  ASSUME TypeOK, Wired, RowInv, NEW r \in Requests, RequestNext(r)
  PROVE  RowInv'
<1>0. \A w \in Workers : pc[w] # "idle" => job[w] \in Requests /\ op[job[w]] # "none" /\ Running(w) \in Executions
  BY RunningIsExecution DEF Sent
<1>a. \A q \in Requests : (op[q] = "none" <=> at[q] = "idle") /\ (op[q] # "none" => target[q] \in Executions)
  BY DEF Wired, RequestsWired
<1> USE DEF TypeOK, requestVars, workerVars, RowInv, RowsOwned, NoFailure, FailureNeverRecorded, StartedIsNotPending, Running
<1>1. ASSUME NEW e \in Executions, TriggerSend(r, e) PROVE RowInv'
  BY <1>0, <1>a, <1>1 DEF TriggerSend, Fresh, Begin, Dispatch
<1>2. ASSUME NEW e \in Executions, CancelRead(r, e) PROVE RowInv'
  BY <1>0, <1>a, <1>2 DEF CancelRead, Begin
<1>3. ASSUME NEW e \in Executions, RetryRead(r, e) PROVE RowInv'
  BY <1>0, <1>a, <1>3 DEF RetryRead, Begin, RetryRefuses, States
<1>4. CASE TriggerCommit(r)
  BY <1>0, <1>a, <1>4 DEF TriggerCommit, Advance, Write
<1>5. CASE CancelCommit(r)
  BY <1>0, <1>a, <1>5 DEF CancelCommit, Advance, Write
<1>6. CASE RetryCommit(r)
  BY <1>0, <1>a, <1>6 DEF RetryCommit, Advance, Write
<1>7. CASE RetrySend(r)
  BY <1>0, <1>a, <1>7 DEF RetrySend, Advance
<1>8. CASE RequestAbort(r)
  BY <1>0, <1>a, <1>8 DEF RequestAbort
<1> QED BY <1>1, <1>2, <1>3, <1>4, <1>5, <1>6, <1>7, <1>8 DEF RequestNext

LEMMA WorkerRowStep ==
  ASSUME TypeOK, Wired, RowInv, NEW w \in Workers, WorkerNext(w)
  PROVE  RowInv'
<1>0. \A v \in Workers : pc[v] # "idle" => job[v] \in Requests /\ op[job[v]] # "none" /\ Running(v) \in Executions
  BY RunningIsExecution DEF Sent
<1>a. \A q \in Requests : (op[q] = "none" <=> at[q] = "idle") /\ (op[q] # "none" => target[q] \in Executions)
  BY DEF Wired, RequestsWired
<1> USE DEF TypeOK, requestVars, workerVars, RowInv, RowsOwned, NoFailure, FailureNeverRecorded, StartedIsNotPending, Running
<1>1. ASSUME NEW r \in Requests, Receive(w, r) PROVE RowInv'
  BY <1>0, <1>a, <1>1 DEF Receive, Go
<1>2. CASE LoadNothing(w)
  BY <1>0, <1>a, <1>2 DEF LoadNothing, Release
<1>3. CASE Load(w)
  BY <1>0, <1>a, <1>3 DEF Load, Go, AfterLoad, CanTransition, ValidTransitions
<1>4. CASE Start(w)
  BY <1>0, <1>a, <1>4 DEF Start, Go, Write
<1>5. CASE HeadCancelled(w)
  BY <1>0, <1>a, <1>5 DEF HeadCancelled, Release
<1>6. CASE Head(w)
  <2>0. pc[w] = "head" /\ UNCHANGED <<queue, requestVars, worked>>
    BY <1>6, HeadCases
  <2>1. CASE failed[w] /\ FailExecution(w)
    BY <2>0, <2>1
  <2>2. CASE EnterWave(w)
    BY <1>0, <1>a, <2>0, <2>2 DEF EnterWave, Go
  <2>3. CASE RaiseAtLock(w)
    BY <1>0, <1>a, <2>0, <2>3 DEF RaiseAtLock, Release
  <2> QED BY <1>6, <2>1, <2>2, <2>3, HeadCases
<1>7. CASE WaveEnds(w)
  BY <1>0, <1>a, <1>7 DEF WaveEnds, Wave, Go
<1>8. CASE WaveFails(w)
  BY <1>0, <1>a, <1>8 DEF WaveFails, Wave, Go, AfterFailure
<1>9. CASE WaveRaises(w)
  BY <1>0, <1>a, <1>9 DEF WaveRaises, Wave, Release
<1>10. CASE ExitCancelled(w)
  BY <1>0, <1>a, <1>10 DEF ExitCancelled, Release
<1>11. CASE ExitFailed(w)
  BY <1>0, <1>a, <1>11 DEF ExitFailed, Release
<1>12. CASE ExitFinished(w)
  BY <1>0, <1>a, <1>12 DEF ExitFinished, LoopLeft
<1>13. CASE Complete(w)
  BY <1>0, <1>a, <1>13 DEF Complete, Release, Write
<1>14. CASE CompleteRaises(w)
  BY <1>0, <1>a, <1>14 DEF CompleteRaises, Release
<1>15. CASE WorkerCrash(w)
  BY <1>0, <1>a, <1>15 DEF WorkerCrash, Release
<1> QED BY <1>1, <1>2, <1>3, <1>4, <1>5, <1>6, <1>7, <1>8, <1>9, <1>10, <1>11, <1>12, <1>13, <1>14, <1>15 DEF WorkerNext, WorkerStep, ReceiveAny

LEMMA AsWrittenInit == Init => AsWrittenInv
BY DEF Init, AsWrittenInv, OnlyCancellationEnds, NoWave

LEMMA RequestAsWrittenStep ==
  ASSUME TypeOK, Wired, RowInv, AsWrittenInv, NEW r \in Requests, RequestNext(r)
  PROVE  AsWrittenInv'
<1>1. UNCHANGED <<pc, done, worked>>
  BY DEF RequestNext, TriggerSend, CancelRead, RetryRead, TriggerCommit, CancelCommit,
         RetryCommit, RetrySend, RequestAbort, workerVars
<1>2. \/ UNCHANGED row
      \/ \E e \in Executions : Write(e, "pending") \/ Write(e, "cancelled")
  <2>1. \A q \in Requests : op[q] # "none" => target[q] \in Executions
    BY DEF Wired, RequestsWired
  <2> QED BY <2>1 DEF RequestNext, TriggerSend, CancelRead, RetryRead, TriggerCommit,
         CancelCommit, RetryCommit, RetrySend, RequestAbort, Advance
<1> QED BY <1>1, <1>2 DEF AsWrittenInv, OnlyCancellationEnds, NoWave, Write, TypeOK

LEMMA WorkerAsWrittenStep ==
  ASSUME TypeOK, Wired, RowInv, AsWrittenInv, NEW w \in Workers, WorkerNext(w)
  PROVE  AsWrittenInv'
<1> SUFFICES ASSUME ~LoopResolves PROVE AsWrittenInv'
  BY DEF AsWrittenInv, OnlyCancellationEnds, NoWave
<1>0. pc[w] # "idle" => Running(w) \in Executions
  BY RunningIsExecution
<1> USE DEF TypeOK, AsWrittenInv, OnlyCancellationEnds, NoWave
<1>1. ASSUME NEW r \in Requests, Receive(w, r) PROVE AsWrittenInv'
  BY <1>0, <1>1 DEF Receive, Go, Deliver
<1>2. CASE LoadNothing(w)
  BY <1>0, <1>2 DEF LoadNothing, Release, Lose, Fates
<1>3. CASE Load(w)
  <2>1. ~worked[Running(w)]
    BY <1>0, <1>3 DEF Load
  <2>2. done' = [done EXCEPT ![w] = FALSE]
    BY <1>3, <2>1 DEF Load
  <2> QED BY <1>3, <2>2 DEF Load, Go, AfterLoad
<1>4. CASE Start(w)
  BY <1>0, <1>4 DEF Start, Go, Write
<1>5. CASE HeadCancelled(w)
  BY <1>0, <1>5 DEF HeadCancelled, IsCancelled, Release
<1>6. CASE Head(w)
  <2>0. pc[w] = "head" /\ UNCHANGED worked
    BY <1>6, HeadCases
  <2>1. CASE failed[w] /\ FailExecution(w)
    BY <2>0, <2>1 DEF RowInv, NoFailure
  <2>2. CASE RaiseAtLock(w)
    BY <2>0, <2>2 DEF RaiseAtLock, Release
  <2> QED BY <1>6, <2>1, <2>2, HeadCases
<1>7. CASE WaveEnds(w)
  BY <1>7 DEF WaveEnds, Wave, Go
<1>8. CASE WaveFails(w)
  BY <1>8 DEF WaveFails, Wave, Go
<1>9. CASE WaveRaises(w)
  BY <1>9 DEF WaveRaises, Wave, Go
<1>10. CASE ExitCancelled(w)
  BY <1>10 DEF ExitCancelled, LoopLeft
<1>11. CASE ExitFailed(w)
  BY <1>11 DEF ExitFailed, LoopLeft
<1>12. CASE ExitFinished(w)
  BY <1>12 DEF ExitFinished, LoopLeft
<1>13. CASE Complete(w)
  BY <1>13 DEF Complete
<1>14. CASE CompleteRaises(w)
  BY <1>14 DEF CompleteRaises
<1>15. CASE WorkerCrash(w)
  BY <1>0, <1>15 DEF WorkerCrash, Release, Lose, Fates
<1> QED BY <1>1, <1>2, <1>3, <1>4, <1>5, <1>6, <1>7, <1>8, <1>9, <1>10, <1>11, <1>12, <1>13, <1>14, <1>15 DEF WorkerNext, WorkerStep, ReceiveAny

LEMMA CauseInit == Init => CauseInv
BY DEF Init, CauseInv, OrphanHasCause, UncommittedHasCause

LEMMA LoseFacts ==
  ASSUME TypeOK, NEW e \in Executions, NEW how \in Fates, Lose(e, how)
  PROVE  /\ \A d \in Executions : fate[d] \subseteq fate'[d]
         /\ how \in fate'[e]
BY DEF TypeOK, Lose

\* A worker lets go of an execution: enough that this one's loss is recorded.
LEMMA ReleaseCause ==
  ASSUME TypeOK, Wired, RowInv, CauseInv, NEW w \in Workers, pc[w] # "idle", Release(w),
         UNCHANGED <<queue, op, at, target>>,
         \A d \in Executions : fate[d] \subseteq fate'[d],
         \A d \in Executions : d # Running(w) => row'[d] = row[d],
         row'[Running(w)] \in {"absent", "pending"} =>
           fate'[Running(w)] \cap {"dropped", "crashed"} # {},
         row'[Running(w)] = "running" =>
           fate'[Running(w)] \cap {"raised", "failed", "crashed"} # {},
         row[Running(w)] = "absent" => row'[Running(w)] = "absent"
  PROVE  CauseInv'
<1>1. \A e \in Executions : Carried(e) /\ e # Running(w) => Carried(e)'
  BY RunningIsExecution DEF Carried, Holds, Running, Release, TypeOK
<1>2. OrphanHasCause'
  BY <1>1, RunningIsExecution DEF CauseInv, OrphanHasCause
<1>3. UncommittedHasCause'
  <2> SUFFICES ASSUME NEW r \in Requests, op[r] = "trigger", at[r] = "commit", ~Carried(target[r])'
               PROVE  fate'[target[r]] \cap {"dropped", "crashed"} # {}
    BY DEF UncommittedHasCause
  <2>1. target[r] \in Executions /\ row[target[r]] = "absent"
    BY DEF Wired, RequestsWired, RowInv, RowsOwned
  <2>2. CASE target[r] = Running(w)
    BY <2>1, <2>2
  <2>3. CASE target[r] # Running(w)
    BY <1>1, <2>1, <2>3 DEF CauseInv, UncommittedHasCause
  <2> QED BY <2>2, <2>3
<1> QED BY <1>2, <1>3 DEF CauseInv

\* A worker that keeps its message keeps its execution carried.
LEMMA KeepCause ==
  ASSUME TypeOK, Wired, CauseInv, NEW w \in Workers, pc[w] # "idle",
         NEW s \in {"head", "wave", "exit", "complete", "start"}, pc' = [pc EXCEPT ![w] = s],
         UNCHANGED <<queue, op, at, target, job, fate>>,
         \A d \in Executions : d # Running(w) => row'[d] = row[d]
  PROVE  CauseInv'
<1>1. \A v \in Workers : pc[v] # "idle" => pc'[v] # "idle"
  BY DEF TypeOK
<1>2. \A e \in Executions : Carried(e) => Carried(e)'
  BY <1>1 DEF Carried, Holds, Running
<1>3. \A e \in Executions : e = Running(w) => Carried(e)'
  <2>1. Running(w)' = Running(w) /\ pc'[w] # "idle"
    BY DEF Running, TypeOK
  <2> QED BY <2>1 DEF Carried, Holds
<1>4. OrphanHasCause'
  BY <1>2, <1>3 DEF CauseInv, OrphanHasCause
<1>5. UncommittedHasCause'
  BY <1>2 DEF CauseInv, UncommittedHasCause, Wired, RequestsWired
<1> QED BY <1>4, <1>5 DEF CauseInv

LEMMA RequestCauseStep ==
  ASSUME TypeOK, Wired, RowInv, CauseInv, NEW r \in Requests, RequestNext(r)
  PROVE  CauseInv'
<1>0. \A v \in Workers : pc[v] # "idle" => job[v] \in Requests /\ op[job[v]] # "none" /\ Running(v) \in Executions
  BY RunningIsExecution DEF Sent
<1>a. \A q \in Requests : (op[q] = "none" <=> at[q] = "idle") /\ (op[q] # "none" => target[q] \in Executions)
                       /\ (q \in queue => op[q] # "none")
  BY DEF Wired, RequestsWired, Sent
<1> USE DEF TypeOK, requestVars, workerVars, CauseInv, OrphanHasCause, UncommittedHasCause, Carried, Holds, Running
<1>1. ASSUME NEW e \in Executions, TriggerSend(r, e) PROVE CauseInv'
  BY <1>0, <1>a, <1>1 DEF TriggerSend, Fresh, Begin, Dispatch, RowInv, RowsOwned, NoFailure, CanTransition, ValidTransitions
<1>2. ASSUME NEW e \in Executions, CancelRead(r, e) PROVE CauseInv'
  BY <1>0, <1>a, <1>2 DEF CancelRead, Begin, RowInv, RowsOwned, NoFailure, CanTransition, ValidTransitions
<1>3. ASSUME NEW e \in Executions, RetryRead(r, e) PROVE CauseInv'
  BY <1>0, <1>a, <1>3 DEF RetryRead, Begin, RowInv, RowsOwned, NoFailure, CanTransition, ValidTransitions
<1>4. CASE TriggerCommit(r)
  <2>1. \A e \in Executions : Carried(e) => Carried(e)'
    BY <1>a, <1>4 DEF TriggerCommit, Advance
  <2>2. \A e \in Executions : row'[e] # row[e] => e = target[r] /\ row'[e] = "pending"
    BY <1>4 DEF TriggerCommit, Write
  <2>3. /\ UNCHANGED <<op, target, fate>> /\ op[r] = "trigger" /\ at[r] = "commit"
        /\ \A q \in Requests : at'[q] = "commit" => at[q] = "commit"
    BY <1>4 DEF TriggerCommit, Advance
  <2> QED BY <1>a, <2>1, <2>2, <2>3
<1>5. CASE CancelCommit(r)
  <2>1. \A e \in Executions : Carried(e) => Carried(e)'
    BY <1>a, <1>5 DEF CancelCommit, Advance
  <2>2. \A e \in Executions : row'[e] # row[e] => row'[e] = "cancelled"
    BY <1>5 DEF CancelCommit, Write
  <2>3. UNCHANGED <<op, target, fate>> /\ \A q \in Requests : at'[q] = "commit" => at[q] = "commit"
    BY <1>5 DEF CancelCommit, Advance
  <2> QED BY <1>a, <2>1, <2>2, <2>3
<1>6. CASE RetryCommit(r)
  BY <1>0, <1>a, <1>6 DEF RetryCommit, Advance, Write, RowInv, RowsOwned, NoFailure, CanTransition, ValidTransitions
<1>7. CASE RetrySend(r)
  <2>1. /\ UNCHANGED <<op, target, fate, row, pc, job>> /\ op[r] = "retry" /\ at[r] = "send"
        /\ \A q \in Requests : q # r => at'[q] = at[q]
        /\ at'[r] = "done" /\ queue' = queue \cup {r}
    BY <1>7 DEF RetrySend, Advance, Dispatch
  <2>2. \A e \in Executions : Carried(e) => Carried(e)'
    BY <1>a, <2>1
  <2>3. OrphanHasCause'
    BY <2>1, <2>2
  <2>4. \A q \in Requests : op'[q] = "trigger" /\ at'[q] = "commit" => at[q] = "commit"
    BY <2>1
  <2> QED BY <1>a, <2>1, <2>2, <2>3, <2>4
<1>8. CASE RequestAbort(r)
  <2>0. target[r] \in Executions /\ UNCHANGED <<row, queue, op, target, pc, job>>
    BY <1>a, <1>8 DEF RequestAbort
  <2>1. \A e \in Executions : Carried(e) => Carried(e)' \/ (at[r] = "send" /\ e = target[r])
    BY <1>a, <1>8 DEF RequestAbort
  <2>2. \A e \in Executions : fate[e] \subseteq fate'[e]
    BY <1>8, <2>0 DEF RequestAbort, Lose, Fates
  <2>3. at[r] = "send" => "crashed" \in fate'[target[r]]
    BY <1>8, <2>0 DEF RequestAbort, Lose, Fates
  <2>4. OrphanHasCause'
    BY <2>0, <2>1, <2>2, <2>3
  <2>5. \A q \in Requests : at'[q] = "commit" => at[q] = "commit"
    BY <1>8 DEF RequestAbort
  <2>6. UncommittedHasCause'
    BY <1>a, <2>0, <2>1, <2>2, <2>3, <2>5
  <2> QED BY <2>4, <2>6
<1> QED BY <1>1, <1>2, <1>3, <1>4, <1>5, <1>6, <1>7, <1>8 DEF RequestNext

LEMMA WorkerCauseStep ==
  ASSUME TypeOK, Wired, RowInv, CauseInv, NEW w \in Workers, WorkerNext(w)
  PROVE  CauseInv'
<1>0. \A v \in Workers : pc[v] # "idle" => job[v] \in Requests /\ op[job[v]] # "none" /\ Running(v) \in Executions
  BY RunningIsExecution DEF Sent
<1>a. \A q \in Requests : (op[q] = "none" <=> at[q] = "idle") /\ (op[q] # "none" => target[q] \in Executions)
                       /\ (q \in queue => op[q] # "none")
  BY DEF Wired, RequestsWired, Sent
<1>1. ASSUME NEW r \in Requests, Receive(w, r) PROVE CauseInv'
  BY <1>0, <1>a, <1>1 DEF Receive, Go, Deliver, RowInv, RowsOwned, NoFailure, StartedIsNotPending,
       TypeOK, requestVars, workerVars, CauseInv, OrphanHasCause, UncommittedHasCause, Carried, Holds, Running
<1>2. CASE LoadNothing(w)
  <2>1. Release(w) /\ Lose(Running(w), "dropped") /\ UNCHANGED <<row, queue, op, at, target>> /\ pc[w] # "idle"
    BY <1>2 DEF LoadNothing, requestVars
  <2>2. row[Running(w)] = "absent"
    BY <1>2 DEF LoadNothing
  <2> QED BY <1>0, <2>1, <2>2, LoseFacts, ReleaseCause DEF Fates
<1>3. CASE Load(w)
  <2>1. pc[w] = "load" /\ pc' = [pc EXCEPT ![w] = AfterLoad(row[Running(w)])]
        /\ UNCHANGED <<row, queue, op, at, target, job, fate>>
    BY <1>3 DEF Load, Go, requestVars
  <2>2. AfterLoad(row[Running(w)]) \in {"start", "head"}
    BY DEF AfterLoad
  <2> QED BY <2>1, <2>2, KeepCause
<1>4. CASE Start(w)
  <2>1. pc[w] = "start" /\ pc' = [pc EXCEPT ![w] = "head"]
        /\ UNCHANGED <<queue, op, at, target, job, fate>>
    BY <1>4 DEF Start, Go, requestVars
  <2>2. \A d \in Executions : d # Running(w) => row'[d] = row[d]
    BY <1>4 DEF Start, Write, TypeOK
  <2> QED BY <2>1, <2>2, KeepCause
<1>5. CASE HeadCancelled(w)
  <2>1. Release(w) /\ UNCHANGED <<row, queue, op, at, target, fate>> /\ row[Running(w)] = "cancelled"
        /\ pc[w] # "idle"
    BY <1>5 DEF HeadCancelled, IsCancelled, requestVars
  <2> QED BY <2>1, ReleaseCause
<1>6. CASE Head(w)
  <2>0. pc[w] = "head" /\ UNCHANGED <<queue, requestVars, worked>>
    BY <1>6, HeadCases
  <2>1. CASE failed[w] /\ FailExecution(w)
    BY <2>0, <2>1 DEF RowInv, NoFailure
  <2>2. CASE EnterWave(w)
    <3>1. pc' = [pc EXCEPT ![w] = "wave"] /\ UNCHANGED <<row, queue, op, at, target, job, fate>>
      BY <2>0, <2>2 DEF EnterWave, Go, requestVars
    <3> QED BY <2>0, <3>1, KeepCause
  <2>3. CASE RaiseAtLock(w)
    <3>1. Release(w) /\ Lose(Running(w), "raised") /\ UNCHANGED <<row, queue, op, at, target>> /\ pc[w] # "idle"
      BY <2>0, <2>3 DEF RaiseAtLock, requestVars
    <3>2. row[Running(w)] \notin {"absent", "pending"}
      BY <2>0, <2>3 DEF RaiseAtLock, RowInv, RowsOwned, StartedIsNotPending
    <3> QED BY <1>0, <3>1, <3>2, LoseFacts, ReleaseCause DEF Fates
  <2> QED BY <1>6, <2>1, <2>2, <2>3, HeadCases
<1>7. CASE WaveEnds(w)
  <2>1. pc[w] = "wave" /\ pc' = [pc EXCEPT ![w] = "head"]
        /\ UNCHANGED <<row, queue, op, at, target, job, fate>>
    BY <1>7 DEF WaveEnds, Wave, Go, requestVars
  <2> QED BY <2>1, KeepCause
<1>8. CASE WaveFails(w)
  <2>1. pc[w] = "wave" /\ pc' = [pc EXCEPT ![w] = "exit"]
        /\ UNCHANGED <<row, queue, op, at, target, job, fate>>
    BY <1>8 DEF WaveFails, Wave, Go, AfterFailure, requestVars
  <2> QED BY <2>1, KeepCause
<1>9. CASE WaveRaises(w)
  <2>1. Release(w) /\ Lose(Running(w), "raised") /\ UNCHANGED <<row, queue, op, at, target>> /\ pc[w] # "idle"
    BY <1>9 DEF WaveRaises, Wave, requestVars
  <2>2. row[Running(w)] \notin {"absent", "pending"}
    BY <1>9 DEF WaveRaises, Wave, RowInv, RowsOwned, StartedIsNotPending
  <2> QED BY <1>0, <2>1, <2>2, LoseFacts, ReleaseCause DEF Fates
<1>10. CASE ExitCancelled(w)
  <2>1. Release(w) /\ UNCHANGED <<row, queue, op, at, target, fate>> /\ row[Running(w)] = "cancelled"
        /\ pc[w] # "idle"
    BY <1>10 DEF ExitCancelled, LoopLeft, IsCancelled, requestVars
  <2> QED BY <2>1, ReleaseCause
<1>11. CASE ExitFailed(w)
  <2>1. Release(w) /\ Lose(Running(w), "failed") /\ UNCHANGED <<row, queue, op, at, target>> /\ pc[w] # "idle"
    BY <1>11 DEF ExitFailed, LoopLeft, requestVars
  <2>2. row[Running(w)] \notin {"absent", "pending"}
    BY <1>11 DEF ExitFailed, LoopLeft, RowInv, RowsOwned, StartedIsNotPending
  <2> QED BY <1>0, <2>1, <2>2, LoseFacts, ReleaseCause DEF Fates
<1>12. CASE ExitFinished(w)
  <2>1. pc[w] # "idle" /\ pc' = [pc EXCEPT ![w] = "complete"]
        /\ UNCHANGED <<row, queue, op, at, target, job, fate>>
    BY <1>12 DEF ExitFinished, LoopLeft, requestVars
  <2> QED BY <2>1, KeepCause
<1>13. CASE Complete(w)
  <2>1. Release(w) /\ UNCHANGED <<queue, op, at, target, fate>> /\ pc[w] # "idle"
    BY <1>13 DEF Complete, requestVars
  <2>2. row[Running(w)] # "absent" /\ row' = [row EXCEPT ![Running(w)] = "completed"]
    BY <1>13 DEF Complete, Write, RowInv, RowsOwned
  <2>3. row'[Running(w)] = "completed" /\ \A d \in Executions : d # Running(w) => row'[d] = row[d]
    BY <1>0, <2>1, <2>2 DEF TypeOK
  <2> QED BY <2>1, <2>2, <2>3, ReleaseCause
<1>14. CASE CompleteRaises(w)
  <2>1. Release(w) /\ Lose(Running(w), "raised") /\ UNCHANGED <<row, queue, op, at, target>> /\ pc[w] # "idle"
    BY <1>14 DEF CompleteRaises, requestVars
  <2>2. row[Running(w)] \notin {"absent", "pending"}
    BY <1>14 DEF CompleteRaises, RowInv, RowsOwned, StartedIsNotPending
  <2> QED BY <1>0, <2>1, <2>2, LoseFacts, ReleaseCause DEF Fates
<1>15. CASE WorkerCrash(w)
  <2>1. Release(w) /\ Lose(Running(w), "crashed") /\ UNCHANGED <<row, queue, op, at, target>> /\ pc[w] # "idle"
    BY <1>15 DEF WorkerCrash, requestVars
  <2> QED BY <1>0, <2>1, LoseFacts, ReleaseCause DEF Fates
<1> QED BY <1>1, <1>2, <1>3, <1>4, <1>5, <1>6, <1>7, <1>8, <1>9, <1>10, <1>11, <1>12, <1>13, <1>14, <1>15 DEF WorkerNext, WorkerStep, ReceiveAny

-----------------------------------------------------------------------------
(* The invariant and what follows from it *)

Inv == TypeOK /\ Wired /\ RowInv /\ CauseInv /\ AsWrittenInv

LEMMA InvInit == Init => Inv
BY TypeInit, WiredInit, RowInit, CauseInit, AsWrittenInit DEF Inv

LEMMA InvStep == Inv /\ [Next]_vars => Inv'
<1> SUFFICES ASSUME Inv, [Next]_vars PROVE Inv'
  OBVIOUS
<1>1. ASSUME NEW r \in Requests, RequestNext(r) PROVE Inv'
  BY <1>1, RequestTypeStep, RequestWiredStep, RequestRowStep, RequestCauseStep, RequestAsWrittenStep DEF Inv
<1>2. ASSUME NEW w \in Workers, WorkerNext(w) PROVE Inv'
  BY <1>2, WorkerTypeStep, WorkerWiredStep, WorkerRowStep, WorkerCauseStep, WorkerAsWrittenStep DEF Inv
<1>3. CASE UNCHANGED vars
  <2> USE <1>3 DEF vars, Inv
  <2>1. TypeOK' /\ Wired'
    BY DEF TypeOK, Wired, RequestsWired, WorkersWired, Sent
  <2>2. RowInv'
    BY DEF RowInv, RowsOwned, NoFailure, FailureNeverRecorded, StartedIsNotPending, Running
  <2>3. CauseInv'
    BY DEF CauseInv, OrphanHasCause, UncommittedHasCause, Carried, Holds, Running
  <2>4. AsWrittenInv'
    BY DEF AsWrittenInv, OnlyCancellationEnds, NoWave
  <2> QED BY <2>1, <2>2, <2>3, <2>4
<1> QED BY <1>1, <1>2, <1>3 DEF Next

THEOREM Invariant == Spec => []Inv
BY InvInit, InvStep, PTL DEF Spec

\* Every variable keeps its type in every reachable state.
THEOREM TypeCorrect == Spec => []TypeOK
<1>1. Inv => TypeOK
  BY DEF Inv
<1> QED BY <1>1, Invariant, PTL

\* Two workers are on one execution only after an accepted retry of it.
THEOREM OneRunner == Spec => []NoTwoRunnersWithoutRetry
<1>1. Inv => NoTwoRunnersWithoutRetry
  <2> SUFFICES ASSUME Inv, NEW e \in Executions, NEW v \in Workers, NEW w \in Workers,
                      v # w, Holds(v, e), Holds(w, e)
               PROVE  \E r \in Requests : op[r] = "retry" /\ target[r] = e
    BY DEF NoTwoRunnersWithoutRetry
  <2>1. /\ job[v] \in Requests /\ Sent(job[v]) /\ target[job[v]] = e
        /\ job[w] \in Requests /\ Sent(job[w]) /\ target[job[w]] = e
    BY RunningIsExecution DEF Inv, Holds, Running
  <2>2. job[v] # job[w]
    BY <2>1, ConstantsAssumption DEF Inv, Wired, WorkersWired
  <2>3. ~(op[job[v]] = "trigger" /\ op[job[w]] = "trigger")
    BY <2>1, <2>2 DEF Inv, RowInv, RowsOwned
  <2> QED BY <2>1, <2>3 DEF Sent
<1> QED BY <1>1, Invariant, PTL

\* An execution nobody carries any more was lost in one of the known ways.
THEOREM OrphansExplained == Spec => []OrphanHasCause
<1>1. Inv => OrphanHasCause
  BY DEF Inv, CauseInv
<1> QED BY <1>1, Invariant, PTL

\* No reachable state records a failed or timed-out execution.
THEOREM NeverFailed == Spec => []FailureNeverRecorded
<1>1. Inv => FailureNeverRecorded
  BY DEF Inv, RowInv, NoFailure
<1> QED BY <1>1, Invariant, PTL

\* As written, the only way out of running is a cancellation.
THEOREM OnlyCancelled == Spec => []OnlyCancellationEnds
<1>1. Inv => OnlyCancellationEnds
  BY DEF Inv, AsWrittenInv
<1> QED BY <1>1, Invariant, PTL

-----------------------------------------------------------------------------
(* Which steps write a status, and over what *)

RowChange(e) ==
  \/ row[e] = "absent" /\ row'[e] = "pending"
  \/ /\ row[e] # "absent" /\ row'[e] = "running"
     /\ \E w \in Workers : Holds(w, e) /\ pc[w] = "start"
  \/ /\ row[e] \notin {"absent", "pending"} /\ row'[e] = "completed"
     /\ \E w \in Workers :
          Holds(w, e) /\ pc[w] = "complete" /\ CanTransition(view[w], "completed")
  \/ /\ row[e] # "absent" /\ row'[e] = "cancelled"
     /\ \E r \in Requests : /\ op[r] = "cancel" /\ at[r] = "commit" /\ target[r] = e
                           /\ CanTransition(seen[r], "cancelled")

LEMMA RequestRowChange ==
  ASSUME Inv, NEW r \in Requests, RequestNext(r), NEW e \in Executions, row'[e] # row[e]
  PROVE  RowChange(e)
<1>0. op[r] # "none" => target[r] \in Executions
  BY DEF Inv, Wired, RequestsWired
<1>1. ~UNCHANGED row
  OBVIOUS
<1>2. CASE TriggerCommit(r)
  <2>1. target[r] = e /\ row[e] = "absent" /\ row'[e] = "pending"
    BY <1>2 DEF TriggerCommit, Advance, Write, Inv, TypeOK, RowInv, RowsOwned
  <2> QED BY <2>1 DEF RowChange
<1>3. CASE CancelCommit(r)
  <2>1. /\ op[r] = "cancel" /\ at[r] = "commit" /\ CanTransition(seen[r], "cancelled")
        /\ row' = [row EXCEPT ![target[r]] = "cancelled"]
    BY <1>1, <1>3 DEF CancelCommit, Advance, Write
  <2>2. target[r] = e /\ row[e] # "absent" /\ row'[e] = "cancelled"
    BY <2>1 DEF Inv, TypeOK, RowInv, RowsOwned
  <2> QED BY <2>1, <2>2 DEF RowChange
<1>4. CASE RetryCommit(r)
  BY <1>1, <1>4 DEF RetryCommit, Advance, Inv, RowInv, NoFailure
<1> QED BY <1>1, <1>2, <1>3, <1>4
        DEF RequestNext, TriggerSend, CancelRead, RetryRead, RetrySend, RequestAbort

LEMMA WorkerRowChange ==
  ASSUME Inv, NEW w \in Workers, WorkerNext(w), NEW e \in Executions, row'[e] # row[e]
  PROVE  RowChange(e)
<1>0. pc[w] # "idle" => Running(w) \in Executions
  BY RunningIsExecution DEF Inv
<1>1. ~UNCHANGED row
  OBVIOUS
<1>2. CASE Start(w)
  <2>1. pc[w] = "start" /\ Running(w) = e /\ row'[e] = "running" /\ row[e] # "absent"
    BY <1>0, <1>2 DEF Start, Go, Write, Inv, TypeOK, RowInv, RowsOwned
  <2> QED BY <2>1 DEF RowChange, Holds
<1>3. CASE Complete(w)
  <2>1. pc[w] = "complete" /\ CanTransition(view[w], "completed")
    BY <1>3 DEF Complete
  <2>2. Running(w) = e /\ row'[e] = "completed" /\ row[e] \notin {"absent", "pending"}
    BY <1>0, <1>3 DEF Complete, Write, Inv, TypeOK, RowInv, RowsOwned, StartedIsNotPending
  <2> QED BY <2>1, <2>2 DEF RowChange, Holds
<1>4. CASE Head(w)
  <2>1. ~failed[w]
    BY <1>4, HeadCases DEF Inv, RowInv, NoFailure
  <2> QED BY <1>1, <1>4, <2>1, HeadCases DEF EnterWave, RaiseAtLock
<1> QED BY <1>1, <1>2, <1>3, <1>4
        DEF WorkerNext, WorkerStep, ReceiveAny, Receive, LoadNothing, Load, HeadCancelled,
            WaveEnds, WaveFails, WaveRaises, Wave, ExitCancelled, ExitFailed, ExitFinished,
            CompleteRaises, WorkerCrash

LEMMA RowChanges ==
  ASSUME Inv, [Next]_vars, NEW e \in Executions, row'[e] # row[e]
  PROVE  RowChange(e)
BY RequestRowChange, WorkerRowChange DEF Next, vars

\* Every change of a status is a legal transition or one of four overwrites.
THEOREM KnownOverwrites == Spec => OnlyKnownOverwrites
<1>1. Inv /\ [Next]_vars =>
        [\A e \in Executions : row'[e] # row[e] =>
           \/ <<row[e], row'[e]>> = <<"absent", "pending">>
           \/ <<row[e], row'[e]>> \in (ValidTransitions \ {<<"failed", "pending">>,
                                                          <<"timed_out", "pending">>})
                                     \cup StaleOverwrites]_vars
  <2> SUFFICES ASSUME Inv, [Next]_vars, NEW e \in Executions, row'[e] # row[e]
               PROVE  \/ <<row[e], row'[e]>> = <<"absent", "pending">>
                      \/ <<row[e], row'[e]>> \in (ValidTransitions \ {<<"failed", "pending">>,
                                                                     <<"timed_out", "pending">>})
                                                \cup StaleOverwrites
    OBVIOUS
  <2>1. row[e] \in {"absent", "pending", "running", "completed", "cancelled"}
    BY DEF Inv, TypeOK, States, RowInv, NoFailure, FailureNeverRecorded
  <2>2. RowChange(e)
    BY RowChanges
  <2>3. \/ row[e] = "absent" /\ row'[e] = "pending"
        \/ row[e] # "absent" /\ row'[e] \in {"running", "cancelled"}
        \/ row[e] \notin {"absent", "pending"} /\ row'[e] = "completed"
    BY <2>2 DEF RowChange
  <2> QED BY <2>1, <2>3 DEF ValidTransitions, StaleOverwrites
<1> QED BY <1>1, Invariant, PTL DEF Spec, OnlyKnownOverwrites

LEMMA TerminalStates == Terminal = {"completed", "cancelled"}
BY DEF Terminal, States, CanTransition, ValidTransitions

LEMMA RequestStaleWriter ==
  ASSUME Inv, NEW r \in Requests, RequestNext(r), NEW e \in Executions,
         row[e] \in {"completed", "cancelled"}, ~StaleWriter(e)
  PROVE  ~StaleWriter(e)'
<1>0. \A v \in Workers : pc[v] # "idle" => job[v] \in Requests /\ op[job[v]] # "none" /\ Running(v) \in Executions
  BY RunningIsExecution DEF Inv, Sent
<1>a. \A q \in Requests : (op[q] = "none" <=> at[q] = "idle") /\ (op[q] # "none" => target[q] \in Executions)
  BY DEF Inv, Wired, RequestsWired
<1>b. TypeOK
  BY DEF Inv
<1>c. ~CanTransition(row[e], "cancelled")
  BY DEF CanTransition, ValidTransitions
<1> USE DEF StaleWriter, Holds, Running, TypeOK, requestVars, workerVars
<1>1. ASSUME NEW d \in Executions, TriggerSend(r, d) PROVE ~StaleWriter(e)'
  BY <1>0, <1>a, <1>b, <1>c, <1>1 DEF TriggerSend, Fresh, Begin, Dispatch
<1>2. ASSUME NEW d \in Executions, CancelRead(r, d) PROVE ~StaleWriter(e)'
  BY <1>0, <1>a, <1>b, <1>c, <1>2 DEF CancelRead, Begin
<1>3. ASSUME NEW d \in Executions, RetryRead(r, d) PROVE ~StaleWriter(e)'
  BY <1>0, <1>a, <1>b, <1>c, <1>3 DEF RetryRead, RetryRefuses, Begin
<1>4. CASE TriggerCommit(r)
  BY <1>0, <1>a, <1>b, <1>c, <1>4 DEF TriggerCommit, Advance, Write
<1>5. CASE CancelCommit(r)
  BY <1>0, <1>a, <1>b, <1>c, <1>5 DEF CancelCommit, Advance, Write
<1>6. CASE RetryCommit(r)
  BY <1>0, <1>a, <1>b, <1>c, <1>6 DEF RetryCommit, Advance, Write
<1>7. CASE RetrySend(r)
  BY <1>0, <1>a, <1>b, <1>c, <1>7 DEF RetrySend, Advance, Dispatch
<1>8. CASE RequestAbort(r)
  BY <1>0, <1>a, <1>b, <1>c, <1>8 DEF RequestAbort
<1> QED BY <1>1, <1>2, <1>3, <1>4, <1>5, <1>6, <1>7, <1>8 DEF RequestNext

LEMMA WorkerStaleWriter ==
  ASSUME Inv, NEW w \in Workers, WorkerNext(w), NEW e \in Executions,
         row[e] \in {"completed", "cancelled"}, ~StaleWriter(e)
  PROVE  ~StaleWriter(e)'
<1>0. \A v \in Workers : pc[v] # "idle" => job[v] \in Requests /\ op[job[v]] # "none" /\ Running(v) \in Executions
  BY RunningIsExecution DEF Inv, Sent
<1>a. \A q \in Requests : (op[q] = "none" <=> at[q] = "idle") /\ (op[q] # "none" => target[q] \in Executions)
  BY DEF Inv, Wired, RequestsWired
<1>b. TypeOK
  BY DEF Inv
<1>c. ~CanTransition(row[e], "running") /\ ~CanTransition(row[e], "completed")
  BY DEF CanTransition, ValidTransitions
<1> USE DEF StaleWriter, Holds, Running, TypeOK, requestVars, workerVars
<1>1. ASSUME NEW r \in Requests, Receive(w, r) PROVE ~StaleWriter(e)'
  BY <1>0, <1>a, <1>b, <1>c, <1>1 DEF Receive, Go, Deliver
<1>2. CASE LoadNothing(w)
  BY <1>0, <1>a, <1>b, <1>c, <1>2 DEF LoadNothing, Release
<1>3. CASE Load(w)
  BY <1>0, <1>a, <1>b, <1>c, <1>3 DEF Load, Go, AfterLoad
<1>4. CASE Start(w)
  BY <1>0, <1>a, <1>b, <1>c, <1>4 DEF Start, Go, Write
<1>5. CASE HeadCancelled(w)
  BY <1>0, <1>a, <1>b, <1>c, <1>5 DEF HeadCancelled, Release
<1>6. CASE Head(w)
  <2>0. pc[w] = "head" /\ UNCHANGED <<queue, requestVars, worked>>
    BY <1>6, HeadCases
  <2>1. CASE failed[w] /\ FailExecution(w)
    BY <2>0, <2>1 DEF Inv, RowInv, NoFailure
  <2>2. CASE EnterWave(w)
    BY <1>0, <1>a, <1>b, <2>0, <2>2 DEF EnterWave, Go
  <2>3. CASE RaiseAtLock(w)
    BY <1>0, <1>a, <1>b, <2>0, <2>3 DEF RaiseAtLock, Release
  <2> QED BY <1>6, <2>1, <2>2, <2>3, HeadCases
<1>7. CASE WaveEnds(w)
  BY <1>0, <1>a, <1>b, <1>c, <1>7 DEF WaveEnds, Wave, Go
<1>8. CASE WaveFails(w)
  BY <1>0, <1>a, <1>b, <1>c, <1>8 DEF WaveFails, Wave, Go, AfterFailure
<1>9. CASE WaveRaises(w)
  BY <1>0, <1>a, <1>b, <1>c, <1>9 DEF WaveRaises, Wave, Release
<1>10. CASE ExitCancelled(w)
  BY <1>0, <1>a, <1>b, <1>c, <1>10 DEF ExitCancelled, Release
<1>11. CASE ExitFailed(w)
  BY <1>0, <1>a, <1>b, <1>c, <1>11 DEF ExitFailed, LoopLeft, Release
<1>12. CASE ExitFinished(w)
  BY <1>0, <1>a, <1>b, <1>c, <1>12 DEF ExitFinished, LoopLeft
<1>13. CASE Complete(w)
  BY <1>0, <1>a, <1>b, <1>c, <1>13 DEF Complete, Release, Write
<1>14. CASE CompleteRaises(w)
  BY <1>0, <1>a, <1>b, <1>c, <1>14 DEF CompleteRaises, Release
<1>15. CASE WorkerCrash(w)
  BY <1>0, <1>a, <1>b, <1>c, <1>15 DEF WorkerCrash, Release
<1> QED BY <1>1, <1>2, <1>3, <1>4, <1>5, <1>6, <1>7, <1>8, <1>9, <1>10, <1>11, <1>12, <1>13, <1>14, <1>15 DEF WorkerNext, WorkerStep, ReceiveAny

\* A settled execution stays settled, with its status, whatever happens next.
THEOREM SettledForGood == Spec => SettledStays
<1>1. Inv /\ [Next]_vars =>
        [\A e \in Executions : Settled(e) => Settled(e)' /\ row'[e] = row[e]]_vars
  <2> SUFFICES ASSUME Inv, Next, NEW e \in Executions, Settled(e)
               PROVE  Settled(e)' /\ row'[e] = row[e]
    BY DEF vars
  <2>1. row[e] \in {"completed", "cancelled"} /\ ~StaleWriter(e)
    BY TerminalStates DEF Settled
  <2>2. row'[e] = row[e]
    <3> SUFFICES ASSUME row'[e] # row[e] PROVE FALSE
      OBVIOUS
    <3>1. RowChange(e)
      BY RowChanges
    <3> QED BY <2>1, <3>1 DEF RowChange, StaleWriter
  <2>3. ~StaleWriter(e)'
    BY <2>1, RequestStaleWriter, WorkerStaleWriter DEF Next
  <2> QED BY <2>1, <2>2, <2>3, TerminalStates DEF Settled, Terminal
<1> QED BY <1>1, Invariant, PTL DEF Spec, SettledStays

-----------------------------------------------------------------------------
(* The lifecycle implements ExecutionStatus: one lemma says what each step  *)
(* does to the decisions, and each step then is one of the promise's or     *)
(* leaves its variables alone.                                              *)

\* The steps of a process leave the decisions of all others alone.
LEMMA RequestFrame ==
  ASSUME Inv, NEW r \in Requests, RequestNext(r)
  PROVE  /\ \A q \in Requests : q # r => RequestDecision(q)' = RequestDecision(q)
         /\ \A w \in Workers : WorkerDecision(w)' = WorkerDecision(w)
<1>1. UNCHANGED workerVars
  BY DEF RequestNext, TriggerSend, CancelRead, RetryRead, TriggerCommit, CancelCommit,
         RetryCommit, RetrySend, RequestAbort
<1>2. \A q \in Requests : q # r => /\ at'[q] = at[q] /\ op'[q] = op[q]
                                   /\ seen'[q] = seen[q] /\ target'[q] = target[q]
  BY DEF Inv, TypeOK, RequestNext, TriggerSend, CancelRead, RetryRead, TriggerCommit,
         CancelCommit, RetryCommit, RetrySend, RequestAbort, Begin, Advance
<1>3. op[r] # "none" => target' = target
  BY DEF RequestNext, TriggerSend, CancelRead, RetryRead, TriggerCommit,
         CancelCommit, RetryCommit, RetrySend, RequestAbort, Begin, Advance
<1>4. \A w \in Workers : pc[w] # "idle" => target'[job[w]] = target[job[w]]
  BY <1>2, <1>3, RunningIsExecution DEF Inv, Sent
<1> QED BY <1>1, <1>2, <1>4 DEF RequestDecision, WorkerDecision, Running, workerVars

LEMMA WorkerFrame ==
  ASSUME Inv, NEW w \in Workers, WorkerNext(w)
  PROVE  /\ \A q \in Requests : RequestDecision(q)' = RequestDecision(q)
         /\ \A v \in Workers : v # w => WorkerDecision(v)' = WorkerDecision(v)
<1>1. CASE Head(w)
  <2>1. UNCHANGED requestVars
    BY <1>1, HeadCases
  <2>2. \A v \in Workers : v # w => /\ pc'[v] = pc[v] /\ job'[v] = job[v]
                                    /\ view'[v] = view[v]
    BY <1>1, HeadCases DEF Inv, TypeOK, FailExecution, EnterWave, RaiseAtLock, Release, Go
  <2> QED BY <2>1, <2>2 DEF RequestDecision, WorkerDecision, Running, requestVars
<1>2. CASE ~Head(w)
  <2>1. UNCHANGED requestVars
    BY <1>2 DEF WorkerNext, WorkerStep, ReceiveAny, Receive, LoadNothing, Load, Start,
           HeadCancelled, Wave, WaveEnds, WaveFails, WaveRaises, ExitCancelled,
           ExitFailed, ExitFinished, Complete, CompleteRaises, WorkerCrash
  <2>2. \A v \in Workers : v # w => /\ pc'[v] = pc[v] /\ job'[v] = job[v]
                                    /\ view'[v] = view[v]
    <3> USE DEF Inv, TypeOK, Release, Go
    <3>a. CASE ReceiveAny(w)
      BY <3>a DEF ReceiveAny, Receive
    <3>0. CASE Load(w)
      BY <3>0 DEF Load
    <3>1. CASE LoadNothing(w) \/ Start(w) \/ HeadCancelled(w)
      BY <3>1 DEF LoadNothing, Start, HeadCancelled
    <3>2. CASE WaveEnds(w) \/ WaveFails(w) \/ WaveRaises(w)
      BY <3>2 DEF WaveEnds, WaveFails, WaveRaises
    <3>3. CASE ExitCancelled(w) \/ ExitFailed(w) \/ ExitFinished(w)
      BY <3>3 DEF ExitCancelled, ExitFailed, ExitFinished
    <3>4. CASE Complete(w) \/ CompleteRaises(w) \/ WorkerCrash(w)
      BY <3>4 DEF Complete, CompleteRaises, WorkerCrash
    <3> QED BY <1>2, <3>a, <3>0, <3>1, <3>2, <3>3, <3>4 DEF WorkerNext, WorkerStep
  <2> QED BY <2>1, <2>2 DEF RequestDecision, WorkerDecision, Running, requestVars
<1> QED BY <1>1, <1>2

\* What a step does to the decisions, given what it does to its own process's.
LEMMA RequestDecides ==
  ASSUME Inv, NEW r \in Requests, RequestNext(r)
  PROVE  Decision' = [Decision EXCEPT ![r] = RequestDecision(r)']
BY RequestFrame, WritersAssumption DEF Decision

LEMMA WorkerDecides ==
  ASSUME Inv, NEW w \in Workers, WorkerNext(w)
  PROVE  Decision' = [Decision EXCEPT ![w] = WorkerDecision(w)']
BY WorkerFrame, WritersAssumption DEF Decision

LEMMA DecisionOf ==
  /\ \A r \in Requests : Decision[r] = RequestDecision(r)
  /\ \A w \in Workers : Decision[w] = WorkerDecision(w)
BY WritersAssumption DEF Decision

LEMMA Keeps ==
  ASSUME NEW p \in Requests \cup Workers, NEW D, Decision' = [Decision EXCEPT ![p] = D],
         Decision[p] = D, row' = row
  PROVE  UNCHANGED Status!vars
BY DEF Decision, Status!vars

-----------------------------------------------------------------------------
(* Every step is one of the promise's *)

LEMMA RequestRefines ==
  ASSUME Inv, NEW r \in Requests, RequestNext(r)
  PROVE  [Status!Next]_(Status!vars)
<1>0. Decision[r] = RequestDecision(r) /\ r \in Requests \cup Workers
  BY DecisionOf
<1>a. Decision' = [Decision EXCEPT ![r] = RequestDecision(r)']
  BY RequestDecides
<1>b. (op[r] = "none" <=> at[r] = "idle") /\ (op[r] # "none" => target[r] \in Executions)
  BY DEF Inv, Wired, RequestsWired
<1>t. /\ r \in DOMAIN op /\ r \in DOMAIN at /\ r \in DOMAIN seen /\ r \in DOMAIN target
      /\ seen[r] \in States \cup {"absent"}
  BY DEF Inv, TypeOK
<1>n. op[r] = "retry" => seen[r] = "pending"
  BY DEF Inv, RowInv, NoFailure
<1>1. ASSUME NEW e \in Executions, TriggerSend(r, e) PROVE [Status!Next]_(Status!vars)
  <2>1. row' = row /\ RequestDecision(r) = {} /\ RequestDecision(r)' = {}
    BY <1>1, <1>b, <1>t DEF TriggerSend, Begin, RequestDecision
  <2> QED BY <2>1, <1>0, <1>a, Keeps
<1>2. ASSUME NEW e \in Executions, CancelRead(r, e) PROVE [Status!Next]_(Status!vars)
  <2>1. row' = row /\ RequestDecision(r) = {}
    BY <1>2, <1>b DEF CancelRead, Begin, RequestDecision
  <2>2. RequestDecision(r)' = IF CanTransition(row[e], "cancelled")
                                THEN {<<e, "cancelled">>} ELSE {}
    BY <1>2, <1>t DEF CancelRead, Begin, RequestDecision
  <2>3. CASE CanTransition(row[e], "cancelled")
    <3>1. Status!Decide(r, e, "cancelled")
      BY <2>1, <2>2, <2>3, <1>0, <1>a DEF Status!Decide, Status!CanTransition,
         Status!ValidTransitions, CanTransition, ValidTransitions
    <3> QED BY <3>1, <1>0 DEF Status!Next, Status!States
  <2>4. CASE ~CanTransition(row[e], "cancelled")
    BY <2>1, <2>2, <2>4, <1>0, <1>a, Keeps
  <2> QED BY <2>3, <2>4
<1>3. ASSUME NEW e \in Executions, RetryRead(r, e) PROVE [Status!Next]_(Status!vars)
  <2>0. op'[r] = "retry"
    BY <1>3, <1>t DEF RetryRead, Begin
  <2>n. seen'[r] = "pending"
    BY <1>3, <2>0, RequestRowStep DEF Inv, RowInv, NoFailure
  <2>1. row' = row /\ RequestDecision(r) = {} /\ RequestDecision(r)' = {}
    BY <1>3, <1>b, <1>t, <2>0, <2>n DEF RetryRead, Begin, RequestDecision
  <2> QED BY <2>1, <1>0, <1>a, Keeps
<1>4. CASE TriggerCommit(r)
  <2>1. /\ op[r] = "trigger" /\ op' = op /\ row[target[r]] = "absent"
        /\ row' = [row EXCEPT ![target[r]] = "pending"] /\ target[r] \in Executions
    BY <1>4, <1>b DEF TriggerCommit, Advance, Write, Inv, RowInv, RowsOwned
  <2>2. RequestDecision(r) = {} /\ RequestDecision(r)' = {}
    BY <2>1 DEF RequestDecision
  <2>3. Decision' = Decision
    BY <2>2, <1>0, <1>a DEF Decision
  <2>4. Status!Create(target[r])
    BY <2>1, <2>3 DEF Status!Create, Status!Put
  <2> QED BY <2>1, <2>4 DEF Status!Next
<1>5. CASE CancelCommit(r)
  <2>1. /\ op[r] = "cancel" /\ at[r] = "commit" /\ at'[r] = "done"
        /\ target[r] \in Executions
    BY <1>5, <1>b, <1>t DEF CancelCommit, Advance
  <2>2. RequestDecision(r)' = {}
    BY <2>1 DEF RequestDecision
  <2>3. CASE CanTransition(seen[r], "cancelled")
    <3>1. RequestDecision(r) = {<<target[r], "cancelled">>}
      BY <2>1, <2>3 DEF RequestDecision
    <3>2. Status!Commit(r, target[r], "cancelled")
      BY <1>5, <2>2, <2>3, <3>1, <1>0, <1>a DEF CancelCommit, Write, Status!Commit, Status!Put
    <3> QED BY <2>1, <3>2, <1>0 DEF Status!Next, Status!States
  <2>4. CASE ~CanTransition(seen[r], "cancelled")
    <3>1. RequestDecision(r) = {} /\ row' = row
      BY <1>5, <2>1, <2>4 DEF RequestDecision, CancelCommit
    <3> QED BY <2>2, <3>1, <1>0, <1>a, Keeps
  <2> QED BY <2>3, <2>4
<1>6. CASE RetryCommit(r)
  <2>1. op[r] = "retry" /\ op' = op /\ seen' = seen /\ seen[r] = "pending" /\ row' = row
    BY <1>6, <1>n DEF RetryCommit, Advance
  <2>2. RequestDecision(r) = {} /\ RequestDecision(r)' = {}
    BY <2>1 DEF RequestDecision
  <2> QED BY <2>1, <2>2, <1>0, <1>a, Keeps
<1>7. CASE RetrySend(r)
  <2>1. row' = row /\ RequestDecision(r) = {} /\ RequestDecision(r)' = {}
    BY <1>7, <1>t DEF RetrySend, Advance, RequestDecision
  <2> QED BY <2>1, <1>0, <1>a, Keeps
<1>8. CASE RequestAbort(r)
  <2>1. row' = row /\ RequestDecision(r)' = {}
    BY <1>8, <1>t DEF RequestAbort, RequestDecision
  <2>2. Status!Abandon(r)
    BY <2>1, <1>a DEF Status!Abandon
  <2> QED BY <2>2, <1>0 DEF Status!Next
<1> QED BY <1>1, <1>2, <1>3, <1>4, <1>5, <1>6, <1>7, <1>8 DEF RequestNext

LEMMA WorkerRefines ==
  ASSUME Inv, NEW w \in Workers, WorkerNext(w)
  PROVE  [Status!Next]_(Status!vars)
<1>0. Decision[w] = WorkerDecision(w) /\ w \in Requests \cup Workers
  BY DecisionOf
<1>a. Decision' = [Decision EXCEPT ![w] = WorkerDecision(w)']
  BY WorkerDecides
<1>b. pc[w] # "idle" => Running(w) \in Executions
  BY RunningIsExecution DEF Inv
<1>t. w \in DOMAIN pc /\ w \in DOMAIN view /\ w \in DOMAIN job
  BY DEF Inv, TypeOK
<1>r. ASSUME Release(w) PROVE WorkerDecision(w)' = {}
  BY <1>r, <1>t DEF Release, WorkerDecision
<1>g. ASSUME Release(w), row' = row PROVE [Status!Next]_(Status!vars)
  <2>1. Status!Abandon(w)
    BY <1>g, <1>r, <1>a DEF Status!Abandon
  <2> QED BY <2>1, <1>0 DEF Status!Next
<1>k. ASSUME WorkerDecision(w) = {}, WorkerDecision(w)' = {}, row' = row
      PROVE  [Status!Next]_(Status!vars)
  BY <1>k, <1>0, <1>a, Keeps
<1>1. ASSUME NEW r \in Requests, Receive(w, r) PROVE [Status!Next]_(Status!vars)
  <2>1. WorkerDecision(w) = {} /\ WorkerDecision(w)' = {} /\ row' = row
    BY <1>1, <1>t DEF Receive, Go, WorkerDecision
  <2> QED BY <2>1, <1>k
<1>2. CASE Load(w)
  <2>1. /\ pc[w] = "load" /\ row' = row /\ job' = job /\ target' = target
        /\ pc'[w] = AfterLoad(row[Running(w)])
    BY <1>2, <1>t DEF Load, Go, requestVars
  <2>2. WorkerDecision(w) = {}
    BY <2>1 DEF WorkerDecision
  <2>3. CASE CanTransition(row[Running(w)], "running")
    <3>1. WorkerDecision(w)' = {<<Running(w), "running">>}
      BY <2>1, <2>3 DEF WorkerDecision, AfterLoad, Running
    <3>2. Status!Decide(w, Running(w), "running")
      BY <2>1, <2>2, <2>3, <3>1, <1>0, <1>a DEF Status!Decide, Status!CanTransition,
         Status!ValidTransitions, CanTransition, ValidTransitions
    <3> QED BY <2>1, <3>2, <1>0, <1>b DEF Status!Next, Status!States
  <2>4. CASE ~CanTransition(row[Running(w)], "running")
    <3>1. WorkerDecision(w)' = {}
      BY <2>1, <2>4 DEF WorkerDecision, AfterLoad
    <3> QED BY <2>1, <2>2, <3>1, <1>k
  <2> QED BY <2>3, <2>4
<1>3. CASE Start(w)
  <2>1. /\ pc[w] = "start" /\ pc'[w] = "head"
        /\ row' = [row EXCEPT ![Running(w)] = "running"]
    BY <1>3, <1>t DEF Start, Go, Write
  <2>2. WorkerDecision(w) = {<<Running(w), "running">>} /\ WorkerDecision(w)' = {}
    BY <2>1 DEF WorkerDecision
  <2>3. Status!Commit(w, Running(w), "running")
    BY <2>1, <2>2, <1>0, <1>a DEF Status!Commit, Status!Put
  <2> QED BY <2>1, <2>3, <1>0, <1>b DEF Status!Next, Status!States
<1>4. CASE Head(w)
  <2>0. pc[w] = "head" /\ WorkerDecision(w) = {} /\ ~failed[w]
    BY <1>4, HeadCases DEF WorkerDecision, Inv, RowInv, NoFailure
  <2>1. CASE EnterWave(w)
    <3>1. WorkerDecision(w)' = {} /\ row' = row
      BY <2>1, <1>t DEF EnterWave, Go, WorkerDecision
    <3> QED BY <2>0, <3>1, <1>k
  <2>2. CASE RaiseAtLock(w)
    BY <2>2, <1>g DEF RaiseAtLock
  <2> QED BY <1>4, <2>0, <2>1, <2>2, HeadCases
<1>5. CASE WaveEnds(w) \/ WaveFails(w)
  <2>1. pc[w] = "wave" /\ pc'[w] \in {"head", "exit"} /\ row' = row
    BY <1>5, <1>t DEF WaveEnds, WaveFails, Wave, Go, AfterFailure
  <2>2. WorkerDecision(w) = {} /\ WorkerDecision(w)' = {}
    BY <2>1 DEF WorkerDecision
  <2> QED BY <2>1, <2>2, <1>k
<1>6. CASE ExitFinished(w)
  <2>1. /\ pc[w] \in {"exit", "head"} /\ pc'[w] = "complete" /\ view'[w] = row[Running(w)]
        /\ row' = row /\ job' = job /\ target' = target
    BY <1>6, <1>t DEF ExitFinished, LoopLeft, requestVars
  <2>2. WorkerDecision(w) = {}
    BY <2>1 DEF WorkerDecision
  <2>3. CASE CanTransition(row[Running(w)], "completed")
    <3>1. WorkerDecision(w)' = {<<Running(w), "completed">>}
      BY <2>1, <2>3 DEF WorkerDecision, Running
    <3>2. Status!Decide(w, Running(w), "completed")
      BY <2>1, <2>2, <2>3, <3>1, <1>0, <1>a DEF Status!Decide, Status!CanTransition,
         Status!ValidTransitions, CanTransition, ValidTransitions
    <3> QED BY <2>1, <3>2, <1>0, <1>b DEF Status!Next, Status!States
  <2>4. CASE ~CanTransition(row[Running(w)], "completed")
    <3>1. WorkerDecision(w)' = {}
      BY <2>1, <2>4 DEF WorkerDecision
    <3> QED BY <2>1, <2>2, <3>1, <1>k
  <2> QED BY <2>3, <2>4
<1>7. CASE Complete(w)
  <2>1. /\ pc[w] = "complete" /\ CanTransition(view[w], "completed") /\ Release(w)
        /\ row' = [row EXCEPT ![Running(w)] = "completed"]
    BY <1>7 DEF Complete, Write
  <2>2. WorkerDecision(w) = {<<Running(w), "completed">>} /\ WorkerDecision(w)' = {}
    BY <2>1, <1>r DEF WorkerDecision
  <2>3. Status!Commit(w, Running(w), "completed")
    BY <2>1, <2>2, <1>0, <1>a DEF Status!Commit, Status!Put
  <2> QED BY <2>1, <2>3, <1>0, <1>b DEF Status!Next, Status!States
<1>8. CASE WaveRaises(w)
  BY <1>8, <1>g DEF WaveRaises, Wave
<1>9. CASE \/ LoadNothing(w) \/ HeadCancelled(w) \/ ExitCancelled(w) \/ ExitFailed(w)
           \/ CompleteRaises(w) \/ WorkerCrash(w)
  BY <1>9, <1>g DEF LoadNothing, HeadCancelled, ExitCancelled, ExitFailed,
     CompleteRaises, WorkerCrash
<1> QED BY <1>1, <1>2, <1>3, <1>4, <1>5, <1>6, <1>7, <1>8, <1>9
        DEF WorkerNext, WorkerStep, ReceiveAny

\* The lifecycle implements the promise: every status it commits comes from
\* one decision, taken once, that was legal for the status then read.
THEOREM KeepsPromise == Spec => StatusPromise
<1>1. Init => Status!Init
  BY WritersAssumption
     DEF Init, Status!Init, Decision, RequestDecision, WorkerDecision
<1>2. Inv /\ [Next]_vars => [Status!Next]_(Status!vars)
  <2> SUFFICES ASSUME Inv, [Next]_vars PROVE [Status!Next]_(Status!vars)
    OBVIOUS
  <2>1. CASE UNCHANGED vars
    BY <2>1 DEF vars, Status!vars, Decision, RequestDecision, WorkerDecision, Running
  <2> QED BY <2>1, RequestRefines, WorkerRefines DEF Next
<1> QED BY <1>1, <1>2, Invariant, PTL DEF Spec, StatusPromise, Status!Spec

=============================================================================
