------------------------- MODULE WorkflowExecutorProofs -------------------------
(***************************************************************************)
(* Theorems about one run of the executor, for every set of definitions,   *)
(* every graph and every bound on concurrency.                             *)
(***************************************************************************)
EXTENDS WorkflowExecutor, FiniteSetTheorems, TLAPS

LEMMA DefinitionFacts ==
  ASSUME NEW d \in Definitions
  PROVE  /\ d.nodes \subseteq Tasks
         /\ d.onTrue \in [d.nodes -> Tasks \cup {NoTask}]
         /\ d.onFalse \in [d.nodes -> Tasks \cup {NoTask}]
         /\ d.attempts \in [d.nodes -> Nat \ {0}]
BY ExecutorAssumption

-----------------------------------------------------------------------------
(* Typing, and which coroutines exist *)

\* A coroutine exists for a task of the definition, and only while a wave runs
\* or after the run raised.
Coroutines ==
  \A t \in Tasks : pc[t] # "idle" => t \in def.nodes /\ loop \in {"wave", "done"}

LEMMA TypeInit == Init => TypeOK /\ Coroutines
<1> SUFFICES ASSUME Init PROVE TypeOK /\ Coroutines
  OBVIOUS
<1>1. completed \subseteq def.nodes /\ skipped \subseteq def.nodes /\ late \subseteq Tasks
  BY DEF Init
<1>2. /\ pc \in [Tasks -> {"idle", "waiting", "try", "handler", "settle", "sleep", "branch", "out"}]
      /\ task \in [Tasks -> {"none", "flushed", "pending", "running", "completed",
                              "failed", "skipped", "cancelled"}]
  BY DEF Init
<1>3. attempt \in [Tasks -> Nat] /\ ran \in [Tasks -> Nat] /\ wave \in Nat
  BY DEF Init
<1>4. Coroutines
  BY DEF Init, Coroutines
<1> QED BY <1>1, <1>2, <1>3, <1>4 DEF Init, TypeOK

LEMMA CommitType ==
  ASSUME TypeOK, NEW S, NEW s \in {"pending", "running", "completed", "failed", "skipped"}, CommitRows(S, s)
  PROVE  task' \in [Tasks -> {"none", "flushed", "pending", "running", "completed",
                               "failed", "skipped", "cancelled"}]
BY DEF TypeOK, CommitRows

LEMMA TypeStep == TypeOK /\ Coroutines /\ [Next]_vars => TypeOK' /\ Coroutines'
<1> SUFFICES ASSUME TypeOK, Coroutines, [Next]_vars PROVE TypeOK' /\ Coroutines'
  OBVIOUS
<1> USE DEF sets, tasks
<1>1. CASE HeadCancelled
  BY <1>1 DEF HeadCancelled, Refreshed, WaveOver, LoopLeft, Leave, TypeOK, Coroutines
<1>2. CASE Head
  <2>1. CASE failed /\ FailExecution
    BY <1>2, <2>1 DEF Head, Refreshed, FailExecution, Leave, TypeOK, Coroutines
  <2>2. CASE FanOut
    <3>1. AllPredecessorsSkipped \subseteq def.nodes
          /\ ReadyTasks(def, completed, skipped \cup AllPredecessorsSkipped) \subseteq def.nodes
      BY DEF AllPredecessorsSkipped, ReadyTasks
    <3>2. task' \in [Tasks -> {"none", "flushed", "pending", "running", "completed",
                              "failed", "skipped", "cancelled"}]
      BY <2>2, CommitType DEF FanOut, TypeOK
    <3>3. PICK ready \in SUBSET def.nodes :
            pc' = [t \in Tasks |-> IF t \in ready THEN "waiting" ELSE pc[t]]
            /\ IF ready = {} THEN UNCHANGED <<loop, wave>> ELSE loop' = "wave" /\ wave' = wave + 1
      BY <2>2, <3>1 DEF FanOut
    <3>4. skipped' \subseteq def.nodes /\ UNCHANGED <<def, status, outcome, completed, failed, attempt, ran, late>>
      BY <2>2, <3>1 DEF FanOut, TypeOK
    <3>5. pc' \in [Tasks -> {"idle", "waiting", "try", "handler", "settle", "sleep", "branch", "out"}]
      BY <3>3 DEF TypeOK
    <3>6. seen' = status /\ loop' \in {"head", "wave"} /\ wave' \in Nat
      BY <1>2, <3>3 DEF Head, Refreshed, TypeOK
    <3>7. Coroutines'
      BY <1>2, <3>3, <3>4, DefinitionFacts DEF Head, Coroutines, TypeOK
    <3> QED BY <3>2, <3>4, <3>5, <3>6, <3>7 DEF TypeOK
  <2> QED BY <1>2, <2>1, <2>2 DEF Head
<1>3. CASE WaveEnds
  BY <1>3 DEF WaveEnds, Refreshed, WaveOver, LoopLeft, Leave, TypeOK, Coroutines
<1>4. CASE ExitCancelled
  BY <1>4 DEF ExitCancelled, Refreshed, WaveOver, LoopLeft, Leave, TypeOK, Coroutines
<1>5. CASE ExitFailed
  BY <1>5 DEF ExitFailed, Refreshed, WaveOver, LoopLeft, Leave, TypeOK, Coroutines
<1>6. CASE Complete
  BY <1>6 DEF Complete, Refreshed, WaveOver, LoopLeft, Leave, TypeOK, Coroutines
<1>7. ASSUME NEW t \in Tasks, RunNode(t) PROVE TypeOK' /\ Coroutines'
  <2>1. CASE EnterCancelled(t)
    BY <2>1 DEF EnterCancelled, Refreshed, Go, TypeOK, Coroutines
  <2>2. CASE Enter(t)
    BY <2>2 DEF Enter, Refreshed, Go, TypeOK, Coroutines
  <2>3. CASE GiveUp(t)
    BY <2>3 DEF GiveUp, Refreshed, Go, TypeOK, Coroutines
  <2>4. CASE StartHandler(t)
    <3>1. CommitRows({t}, "running")
      BY <2>4 DEF StartHandler
    <3> QED BY <2>4, <3>1, CommitType DEF StartHandler, NextAttempt, Exhausted, Go, TypeOK, Coroutines
  <2>5. CASE HandlerSucceeds(t)
    <3>1. CommitRows({t}, "completed")
      BY <2>5 DEF HandlerSucceeds
    <3> QED BY <2>5, <3>1, CommitType DEF HandlerSucceeds, NextAttempt, Exhausted, Go, TypeOK, Coroutines
  <2>6. CASE HandlerFails(t)
    <3>1. CommitRows({t}, "failed")
      BY <2>6 DEF HandlerFails
    <3> QED BY <2>6, <3>1, CommitType DEF HandlerFails, NextAttempt, Exhausted, Go, TypeOK, Coroutines
  <2>7. CASE Retry(t)
    <3>1. CommitRows({t}, "pending")
      BY <2>7 DEF Retry
    <3> QED BY <2>7, <3>1, CommitType DEF Retry, NextAttempt, Exhausted, Go, TypeOK, Coroutines
  <2>8. CASE Settle(t)
    BY <2>8 DEF Settle, Refreshed, Go, TypeOK, Coroutines
  <2>9. CASE Branch(t)
    <3>1. PICK result \in BOOLEAN :
            /\ skipped' = skipped \cup SkippedBy(t, result)
            /\ IF SkippedBy(t, result) = {} THEN UNCHANGED task
               ELSE CommitRows(SkippedBy(t, result), "skipped")
      BY <2>9 DEF Branch
    <3>2. task' \in [Tasks -> {"none", "flushed", "pending", "running", "completed",
                              "failed", "skipped", "cancelled"}]
      BY <3>1, CommitType DEF TypeOK
    <3> QED BY <2>9, <3>1, <3>2 DEF Branch, SkippedBy, Go, TypeOK, Coroutines
  <2> QED BY <1>7, <2>1, <2>2, <2>3, <2>4, <2>5, <2>6, <2>7, <2>8, <2>9 DEF RunNode
<1>8. CASE Cancel
  BY <1>8 DEF Cancel, TypeOK, Coroutines
<1>9. CASE RunRaises
  BY <1>9 DEF RunRaises, Leave, TypeOK, Coroutines
<1>10. CASE UNCHANGED vars
  BY <1>10 DEF vars, TypeOK, Coroutines
<1> QED BY <1>1, <1>2, <1>3, <1>4, <1>5, <1>6, <1>7, <1>8, <1>9, <1>10 DEF Next, Loop

\* The executor's variables keep their types, for all constants.
THEOREM TypeCorrect == Spec => []TypeOK
<1>1. Spec => [](TypeOK /\ Coroutines)
  BY TypeInit, TypeStep, PTL DEF Spec
<1> QED BY <1>1, PTL

-----------------------------------------------------------------------------
(* What a step of a coroutine, and a wave's start, can change *)

LEMMA NodeFrame ==
  ASSUME TypeOK, Coroutines, NEW t \in Tasks, RunNode(t)
  PROVE  /\ UNCHANGED <<def, outcome, loop, status>>
         /\ t \in def.nodes
         /\ pc[t] # "idle" /\ pc'[t] # "idle"
         /\ \A u \in Tasks : u # t => pc'[u] = pc[u] /\ ran'[u] = ran[u]
         /\ completed \subseteq completed' /\ completed' \subseteq completed \cup {t}
         /\ pc[t] # "settle" => completed' = completed
         /\ pc[t] # "branch" => skipped' = skipped
<1>1. UNCHANGED <<def, outcome, loop, status>>
  BY DEF RunNode, EnterCancelled, Enter, GiveUp, StartHandler, HandlerSucceeds, HandlerFails, Retry,
         Settle, Branch, sets
<1>2. pc[t] # "idle" /\ \E s \in {"try", "handler", "settle", "sleep", "branch", "out"} : pc' = [pc EXCEPT ![t] = s]
  BY DEF RunNode, EnterCancelled, Enter, GiveUp, StartHandler, HandlerSucceeds, HandlerFails, Retry,
         Settle, Branch, Go
<1>3. \A u \in Tasks : u # t => ran'[u] = ran[u]
  BY DEF RunNode, EnterCancelled, Enter, GiveUp, StartHandler, HandlerSucceeds, HandlerFails, Retry,
         Settle, Branch, TypeOK
<1>4. completed' = completed \/ (pc[t] = "settle" /\ completed' = completed \cup {t})
  BY DEF RunNode, EnterCancelled, Enter, GiveUp, StartHandler, HandlerSucceeds, HandlerFails, Retry,
         Settle, Branch, Go, sets
<1>5. pc[t] # "branch" => skipped' = skipped
  BY DEF RunNode, EnterCancelled, Enter, GiveUp, StartHandler, HandlerSucceeds, HandlerFails, Retry,
         Settle, Branch, Go, sets
<1>6. t \in def.nodes /\ \A u \in Tasks : u # t => pc'[u] = pc[u]
  BY <1>2 DEF Coroutines, TypeOK
<1>7. pc'[t] # "idle"
  BY <1>2 DEF TypeOK
<1> QED BY <1>1, <1>2, <1>3, <1>4, <1>5, <1>6, <1>7

LEMMA FanFrame ==
  ASSUME TypeOK, Coroutines, loop = "head", FanOut
  PROVE  /\ UNCHANGED <<def, outcome, completed, ran, attempt, failed>>
         /\ loop' \in {"head", "wave"}
         /\ \A t \in Tasks : pc[t] = "idle"
         /\ skipped' = skipped \cup AllPredecessorsSkipped
         /\ \A t \in Tasks : pc'[t] \in {"idle", "waiting"}
         /\ \A t \in Tasks : pc'[t] = "waiting" =>
              t \in def.nodes /\ t \notin completed \cup skipped' /\ Predecessors(def, t) \subseteq completed
         /\ IF AllPredecessorsSkipped = {} THEN task' = task ELSE CommitRows(AllPredecessorsSkipped, "skipped")
<1> DEFINE ready == ReadyTasks(def, completed, skipped \cup AllPredecessorsSkipped)
<1>1. pc' = [t \in Tasks |-> IF t \in ready THEN "waiting" ELSE pc[t]]
  BY DEF FanOut
<1>2. \A t \in Tasks : pc[t] = "idle"
  BY DEF Coroutines
<1>3. \A t \in ready : /\ t \in def.nodes /\ t \notin completed \cup skipped \cup AllPredecessorsSkipped
                       /\ Predecessors(def, t) \subseteq completed
  BY DEF ReadyTasks
<1>4. loop' \in {"head", "wave"} /\ UNCHANGED <<def, outcome, completed, ran, attempt, failed>>
  BY DEF FanOut
<1>5. skipped' = skipped \cup AllPredecessorsSkipped
      /\ IF AllPredecessorsSkipped = {} THEN task' = task ELSE CommitRows(AllPredecessorsSkipped, "skipped")
  BY DEF FanOut
<1> QED BY <1>1, <1>2, <1>3, <1>4, <1>5

\* Every step is a coroutine's, the start of a wave, its end, or leaves the
\* run's sets and coroutines alone.
LEMMA Steps ==
  ASSUME [Next]_vars
  PROVE  \/ \E t \in Tasks : RunNode(t)
         \/ loop = "head" /\ ~failed /\ ~IsCancelled /\ FanOut
         \/ WaveEnds
         \/ UNCHANGED <<def, completed, skipped, failed, pc, attempt, ran>>
BY DEF Next, Loop, vars, sets, tasks, HeadCancelled, Head, FailExecution, ExitCancelled, ExitFailed,
       Complete, RunRaises, Cancel

-----------------------------------------------------------------------------
(* Order: a task that started has completed predecessors *)

Started(t) == t \in completed \/ pc[t] # "idle" \/ ran[t] > 0

Order ==
  \A t \in def.nodes : Started(t) => \A p \in Predecessors(def, t) : p \in completed /\ pc[p] = "idle"

\* A coroutine that has not reached its end is not in the completed set.
Unfinished ==
  \A t \in Tasks : pc[t] \in {"waiting", "try", "handler", "sleep", "settle"} => t \notin completed

LEMMA OrderInit == Init => Order /\ Unfinished
<1> SUFFICES ASSUME Init PROVE Order /\ Unfinished
  OBVIOUS
<1>1. def.nodes \subseteq Tasks
  BY DefinitionFacts DEF Init
<1>2. completed = {} /\ \A t \in Tasks : pc[t] = "idle" /\ ran[t] = 0
  BY DEF Init
<1>3. \A t \in Tasks : ~Started(t)
  BY <1>2 DEF Started
<1> QED BY <1>1, <1>2, <1>3 DEF Order, Unfinished

LEMMA OrderStep ==
  ASSUME TypeOK, Coroutines, Order, Unfinished, [Next]_vars
  PROVE  Order' /\ Unfinished'
<1>0. def.nodes \subseteq Tasks /\ \A t \in Tasks : Predecessors(def, t) \subseteq def.nodes
  BY DefinitionFacts DEF TypeOK, Predecessors
<1>1. ASSUME NEW t \in Tasks, RunNode(t) PROVE Order' /\ Unfinished'
  <2>1. def' = def /\ \A u \in Tasks : Started(u)' => Started(u)
    BY <1>1, NodeFrame DEF Started
  <2>2. \A p \in Tasks : p \in completed /\ pc[p] = "idle" => p \in completed' /\ pc'[p] = "idle"
    BY <1>1, NodeFrame
  <2>3. Order'
    BY <1>0, <2>1, <2>2 DEF Order, Predecessors
  <2>4. Unfinished'
    <3>1. CASE Settle(t)
      BY <1>1, <3>1, NodeFrame DEF Settle, Go, Unfinished, TypeOK
    <3>2. CASE ~Settle(t)
      <4>1. completed' = completed
        BY <1>1, <3>2 DEF RunNode, EnterCancelled, Enter, GiveUp, StartHandler, HandlerSucceeds,
             HandlerFails, Retry, Branch, sets
      <4>2. pc'[t] \in {"waiting", "try", "handler", "sleep", "settle"} =>
              pc[t] \in {"waiting", "try", "handler", "sleep", "settle"}
        BY <1>1, <3>2 DEF RunNode, EnterCancelled, Enter, GiveUp, StartHandler, HandlerSucceeds,
             HandlerFails, Retry, Branch, Go, TypeOK
      <4> QED BY <1>1, <4>1, <4>2, NodeFrame DEF Unfinished
    <3> QED BY <3>1, <3>2
  <2> QED BY <2>3, <2>4
<1>2. CASE loop = "head" /\ FanOut
  <2>1. Unfinished'
    BY <1>2, FanFrame DEF Unfinished
  <2>2. Order'
    <3> SUFFICES ASSUME NEW t \in def.nodes, Started(t)', NEW p \in Predecessors(def, t)
                 PROVE  p \in completed' /\ pc'[p] = "idle"
      BY <1>2, FanFrame DEF Order, Predecessors
    <3>1. p \in Tasks /\ t \in Tasks /\ completed' = completed /\ ran' = ran
      BY <1>0, <1>2, FanFrame
    <3>2. p \in completed
      BY <1>2, <3>1, FanFrame DEF Order, Started
    <3> QED BY <1>2, <3>1, <3>2, FanFrame
  <2> QED BY <2>1, <2>2
<1>3. CASE WaveEnds
  <2>1. UNCHANGED <<def, completed, ran>> /\ \A t \in Tasks : pc'[t] = IF pc[t] = "out" THEN "idle" ELSE pc[t]
    BY <1>3 DEF WaveEnds, sets
  <2> QED BY <1>0, <2>1 DEF Order, Unfinished, Started, Predecessors
<1>4. CASE UNCHANGED <<def, completed, skipped, failed, pc, attempt, ran>>
  BY <1>4 DEF Order, Unfinished, Started, Predecessors
<1> QED BY <1>1, <1>2, <1>3, <1>4, Steps

-----------------------------------------------------------------------------
(* What is skipped was never started *)

Disjoint == BranchesAhead => \A t \in skipped : ~Started(t)

Conditions == \A t \in Tasks : pc[t] = "branch" => IsCondition(t)

SkipInv == TypeOK /\ Coroutines /\ Order /\ Unfinished /\ Conditions /\ Disjoint

LEMMA SkipInit == Init => SkipInv
<1> SUFFICES ASSUME Init PROVE Disjoint /\ Conditions
  BY TypeInit, OrderInit DEF SkipInv
<1> QED BY DEF Init, Disjoint, Conditions

LEMMA ConditionsStep ==
  ASSUME TypeOK, Coroutines, Conditions, [Next]_vars
  PROVE  Conditions'
<1>1. ASSUME NEW t \in Tasks, RunNode(t) PROVE Conditions'
  <2>1. def' = def /\ \A u \in Tasks : IsCondition(u)' <=> IsCondition(u)
    BY <1>1, NodeFrame DEF IsCondition
  <2>2. pc'[t] = "branch" => IsCondition(t)
    BY <1>1 DEF RunNode, EnterCancelled, Enter, GiveUp, StartHandler, HandlerSucceeds, HandlerFails,
       Retry, Settle, Branch, Go, TypeOK
  <2> QED BY <1>1, <2>1, <2>2, NodeFrame DEF Conditions
<1>2. CASE loop = "head" /\ FanOut
  BY <1>2, FanFrame DEF Conditions
<1>3. CASE WaveEnds
  BY <1>3 DEF WaveEnds, Conditions, IsCondition
<1>4. CASE UNCHANGED <<def, completed, skipped, failed, pc, attempt, ran>>
  BY <1>4 DEF Conditions, IsCondition
<1> QED BY <1>1, <1>2, <1>3, <1>4, Steps

\* A branch that is skipped depends on the condition, whose coroutine still
\* runs: by Order it has not started.
LEMMA BranchSkips ==
  ASSUME SkipInv, BranchesAhead, NEW t \in Tasks, RunNode(t), NEW u \in skipped' \ skipped
  PROVE  u \in Tasks /\ u # t /\ ~Started(u)
<1>1. t \in def.nodes /\ pc[t] # "idle" /\ Branch(t)
  BY NodeFrame DEF SkipInv, RunNode, EnterCancelled, Enter, GiveUp, StartHandler, HandlerSucceeds,
     HandlerFails, Retry, Settle, sets
<1>2. PICK result \in BOOLEAN : skipped' = skipped \cup SkippedBy(t, result)
  BY <1>1 DEF Branch
<1>3. u \in {def.onTrue[t], def.onFalse[t]} \cap def.nodes
  BY <1>2 DEF SkippedBy, NotChosen
<1>4. IsCondition(t)
  BY <1>1 DEF SkipInv, Conditions, Branch, Go
<1>5. t \in Predecessors(def, u)
  BY <1>1, <1>3, <1>4 DEF BranchesAhead, Predecessors
<1>6. ~Started(u)
  BY <1>1, <1>3, <1>5 DEF SkipInv, Order
<1> QED BY <1>1, <1>3, <1>6, DefinitionFacts DEF SkipInv, TypeOK, Started

\* A task is skipped by the loop for its skipped predecessors: none of them
\* completed, so by Order it has not started.
LEMMA LoopSkips ==
  ASSUME SkipInv, BranchesAhead, NEW u \in AllPredecessorsSkipped
  PROVE  ~Started(u)
<1>1. PICK p \in Predecessors(def, u) : p \in skipped
  BY DEF AllPredecessorsSkipped
<1>2. p \notin completed
  BY <1>1 DEF SkipInv, Disjoint, Started
<1> QED BY <1>1, <1>2 DEF SkipInv, Order, AllPredecessorsSkipped

LEMMA SkipStep == SkipInv /\ [Next]_vars => SkipInv'
<1> SUFFICES ASSUME SkipInv, [Next]_vars, BranchesAhead' PROVE \A t \in skipped' : ~Started(t)'
  BY TypeStep, OrderStep, ConditionsStep DEF SkipInv, Disjoint
<1>0. TypeOK /\ Coroutines /\ Order /\ Disjoint /\ skipped \subseteq Tasks
  BY DefinitionFacts DEF SkipInv, TypeOK
<1>1. ASSUME NEW t \in Tasks, RunNode(t) PROVE \A u \in skipped' : ~Started(u)'
  <2>1. BranchesAhead /\ \A u \in Tasks : Started(u)' => Started(u)
    BY <1>0, <1>1, NodeFrame DEF Started, BranchesAhead, IsCondition
  <2>2. \A u \in skipped' : u \in Tasks /\ ~Started(u)
    BY <1>0, <1>1, <2>1, BranchSkips DEF Disjoint
  <2> QED BY <2>1, <2>2
<1>2. CASE loop = "head" /\ FanOut
  <2>1. BranchesAhead
    BY <1>0, <1>2, FanFrame DEF BranchesAhead, IsCondition
  <2>2. skipped' = skipped \cup AllPredecessorsSkipped /\ skipped' \subseteq Tasks
    BY <1>0, <1>2, FanFrame, DefinitionFacts DEF AllPredecessorsSkipped, TypeOK
  <2>3. \A u \in skipped' : ~Started(u)
    BY <1>0, <2>1, <2>2, LoopSkips DEF Disjoint
  <2>4. \A u \in skipped' : pc'[u] = "idle" /\ completed' = completed /\ ran' = ran
    BY <1>0, <1>2, <2>2, FanFrame
  <2> QED BY <2>3, <2>4 DEF Started
<1>3. CASE WaveEnds
  BY <1>0, <1>3 DEF WaveEnds, sets, Started, Disjoint, BranchesAhead, IsCondition
<1>4. CASE UNCHANGED <<def, completed, skipped, failed, pc, attempt, ran>>
  BY <1>0, <1>4 DEF Started, Disjoint, BranchesAhead, IsCondition
<1> QED BY <1>1, <1>2, <1>3, <1>4, Steps

\* A branch that was not chosen never starts, for every definition whose
\* branches lie ahead of their condition.
THEOREM SkippedStaysIdle == Spec => []SkippedNeverRuns
<1>1. SkipInv => SkippedNeverRuns
  BY DefinitionFacts DEF SkipInv, Disjoint, Started, SkippedNeverRuns, TypeOK
<1>2. Spec => []SkipInv
  BY SkipInit, SkipStep, PTL DEF Spec
<1> QED BY <1>1, <1>2, PTL

-----------------------------------------------------------------------------
(* The rows agree with the run's sets *)

LEMMA CommitFrame ==
  ASSUME TypeOK, NEW S \in SUBSET Tasks, NEW s, CommitRows(S, s)
  PROVE  \A u \in Tasks : task'[u] = IF u \in S THEN s
                                     ELSE IF task[u] = "flushed" THEN "pending" ELSE task[u]
BY DEF CommitRows

\* The rows a step of t's coroutine can change.
LEMMA NodeRows ==
  ASSUME TypeOK, Coroutines, NEW t \in Tasks, RunNode(t)
  PROVE  \A u \in Tasks :
           \/ task'[u] = task[u]
           \/ task[u] = "flushed" /\ task'[u] = "pending"
           \/ task[u] = "none" /\ task'[u] = "flushed"
           \/ u = t /\ pc[t] = "try" /\ pc'[t] = "handler" /\ task'[u] = "running"
           \/ u = t /\ pc[t] = "handler" /\ pc'[t] = "settle" /\ task'[u] = "completed"
           \/ u = t /\ pc[t] = "handler" /\ pc'[t] \in {"out", "sleep"} /\ task'[u] = "failed"
           \/ u = t /\ pc[t] = "sleep" /\ pc'[t] = "try" /\ task'[u] = "pending"
           \/ u \in skipped' /\ Branch(t) /\ task'[u] = "skipped"
<1>1. CASE EnterCancelled(t) \/ GiveUp(t) \/ Settle(t)
  BY <1>1 DEF EnterCancelled, GiveUp, Settle
<1>2. CASE Enter(t)
  BY <1>2 DEF Enter, TypeOK
<1>3. CASE StartHandler(t)
  <2>1. CommitRows({t}, "running") /\ {t} \in SUBSET Tasks
    BY <1>3 DEF StartHandler
  <2>2. pc[t] = "try" /\ pc'[t] = "handler"
    BY <1>3 DEF StartHandler, Go, TypeOK
  <2> QED BY <2>1, <2>2, CommitFrame
<1>4. CASE HandlerSucceeds(t)
  <2>1. CommitRows({t}, "completed") /\ {t} \in SUBSET Tasks
    BY <1>4 DEF HandlerSucceeds
  <2>2. pc[t] = "handler" /\ pc'[t] = "settle"
    BY <1>4 DEF HandlerSucceeds, Go, TypeOK
  <2> QED BY <2>1, <2>2, CommitFrame
<1>5. CASE HandlerFails(t)
  <2>1. CommitRows({t}, "failed") /\ {t} \in SUBSET Tasks
    BY <1>5 DEF HandlerFails
  <2>2. pc[t] = "handler" /\ pc'[t] \in {"out", "sleep"}
    BY <1>5 DEF HandlerFails, Go, TypeOK
  <2> QED BY <2>1, <2>2, CommitFrame
<1>6. CASE Retry(t)
  <2>1. CommitRows({t}, "pending") /\ {t} \in SUBSET Tasks
    BY <1>6 DEF Retry
  <2>2. pc[t] = "sleep" /\ pc'[t] = "try"
    BY <1>6 DEF Retry, Go, TypeOK
  <2> QED BY <2>1, <2>2, CommitFrame
<1>7. CASE Branch(t)
  <2>1. PICK result \in BOOLEAN :
          /\ skipped' = skipped \cup SkippedBy(t, result)
          /\ IF SkippedBy(t, result) = {} THEN UNCHANGED task
             ELSE CommitRows(SkippedBy(t, result), "skipped")
    BY <1>7 DEF Branch
  <2>2. SkippedBy(t, result) \in SUBSET Tasks
    BY DefinitionFacts DEF SkippedBy, TypeOK
  <2> QED BY <1>7, <2>1, <2>2, CommitFrame
<1> QED BY <1>1, <1>2, <1>3, <1>4, <1>5, <1>6, <1>7 DEF RunNode

\* The rows the loop can change at its head.
LEMMA FanRows ==
  ASSUME TypeOK, Coroutines, loop = "head", FanOut
  PROVE  \A u \in Tasks :
           \/ task'[u] = task[u] /\ (u \in skipped' => u \in skipped)
           \/ task[u] = "flushed" /\ task'[u] = "pending" /\ (u \in skipped' => u \in skipped)
           \/ u \in skipped' /\ u \notin completed /\ task'[u] = "skipped"
<1>1. AllPredecessorsSkipped \in SUBSET Tasks
  BY DefinitionFacts DEF AllPredecessorsSkipped, TypeOK
<1>2. \A u \in AllPredecessorsSkipped : u \notin completed
  BY DEF AllPredecessorsSkipped
<1> QED BY <1>1, <1>2, FanFrame, CommitFrame

\* Every other step leaves the rows alone or cancels the active ones.
LEMMA OtherRows ==
  ASSUME TypeOK, [Next]_vars
  PROVE  \/ \E t \in Tasks : RunNode(t)
         \/ loop = "head" /\ ~failed /\ ~IsCancelled /\ FanOut
         \/ /\ \/ WaveEnds
               \/ UNCHANGED <<def, completed, skipped, failed, pc, attempt, ran>>
            /\ \A u \in Tasks :
                 \/ task'[u] = task[u]
                 \/ task[u] \in {"pending", "running"} /\ task'[u] = "cancelled"
<1>1. CASE Cancel
  BY <1>1, Steps DEF Cancel, tasks, sets
<1>2. CASE Loop \/ RunRaises \/ UNCHANGED vars
  BY <1>2, Steps DEF Loop, vars, sets, tasks, HeadCancelled, Head, WaveEnds, FailExecution, ExitCancelled,
     ExitFailed, Complete, RunRaises
<1> QED BY <1>1, <1>2 DEF Next

Rows ==
  BranchesAhead =>
    \A t \in Tasks : /\ t \in completed \/ pc[t] = "settle" => task[t] = "completed"
                     /\ t \in skipped => task[t] = "skipped"

LEMMA RowsStep ==
  ASSUME SkipInv, Rows, [Next]_vars
  PROVE  Rows'
<1> SUFFICES ASSUME BranchesAhead', NEW u \in Tasks
             PROVE  /\ u \in completed' \/ pc'[u] = "settle" => task'[u] = "completed"
                    /\ u \in skipped' => task'[u] = "skipped"
  BY DEF Rows
<1>0. TypeOK /\ Coroutines /\ Disjoint /\ Unfinished
  BY DEF SkipInv
<1>1. ASSUME NEW t \in Tasks, RunNode(t)
      PROVE  /\ u \in completed' \/ pc'[u] = "settle" => task'[u] = "completed"
             /\ u \in skipped' => task'[u] = "skipped"
  <2>1. BranchesAhead
    BY <1>0, <1>1, NodeFrame DEF BranchesAhead, IsCondition
  <2>2. u \in skipped' \ skipped => task'[u] = "skipped" /\ u # t /\ ~Started(u)
    <3>1. ASSUME u \in skipped' \ skipped PROVE task'[u] = "skipped" /\ u # t /\ ~Started(u)
      <4>1. u # t /\ ~Started(u)
        BY <1>1, <2>1, <3>1, BranchSkips
      <4>2. PICK result \in BOOLEAN :
              /\ skipped' = skipped \cup SkippedBy(t, result)
              /\ IF SkippedBy(t, result) = {} THEN UNCHANGED task
                 ELSE CommitRows(SkippedBy(t, result), "skipped")
        BY <1>1, <3>1 DEF RunNode, EnterCancelled, Enter, GiveUp, StartHandler, HandlerSucceeds,
           HandlerFails, Retry, Settle, Branch, sets
      <4>3. SkippedBy(t, result) \in SUBSET Tasks /\ u \in SkippedBy(t, result)
        BY <1>0, <3>1, <4>2, DefinitionFacts DEF SkippedBy, TypeOK
      <4> QED BY <1>0, <4>1, <4>2, <4>3, CommitFrame
    <3> QED BY <3>1
  <2>3. u \in skipped => u # t /\ task[u] = "skipped"
    BY <1>0, <1>1, <2>1, NodeFrame DEF Rows, Disjoint, Started
  <2>4. u \in completed \/ pc[u] = "settle" => task[u] = "completed" /\ u \notin skipped
    BY <1>0, <2>1 DEF Rows, Disjoint, Started
  <2>5. u \in completed' => u \in completed \/ (u = t /\ pc[t] = "settle")
    BY <1>0, <1>1, NodeFrame
  <2>6. pc'[u] = "settle" => pc[u] = "settle" \/ (u = t /\ HandlerSucceeds(t))
    BY <1>0, <1>1, NodeFrame DEF RunNode, EnterCancelled, Enter, GiveUp, StartHandler, HandlerFails,
       Retry, Settle, Branch, Go, TypeOK
  <2>7. u = t /\ HandlerSucceeds(t) => task'[u] = "completed"
    BY <1>0, CommitFrame DEF HandlerSucceeds
  <2>8. u = t /\ pc[t] \in {"try", "handler", "sleep"} => u \notin completed
    BY <1>0 DEF Unfinished
  <2>9. u \in completed \/ pc[u] = "settle" => u \notin skipped'
    BY <2>2, <2>4 DEF Started
  <2>10. (u \in completed \/ pc[u] = "settle" => task'[u] = task[u])
         /\ (u \in skipped => task'[u] = "skipped")
    BY <1>0, <1>1, <2>3, <2>4, <2>8, <2>9, NodeRows
  <2> QED BY <2>2, <2>4, <2>5, <2>6, <2>7, <2>10
<1>2. CASE loop = "head" /\ FanOut
  <2>1. BranchesAhead
    BY <1>0, <1>2, FanFrame DEF BranchesAhead, IsCondition
  <2>2. pc'[u] # "settle" /\ completed' = completed
    BY <1>0, <1>2, FanFrame
  <2>3. u \in completed => u \notin skipped
    BY <1>0, <2>1 DEF Disjoint, Started
  <2> QED BY <1>0, <1>2, <2>1, <2>2, <2>3, FanRows DEF Rows
<1>3. ASSUME WaveEnds \/ UNCHANGED <<def, completed, skipped, failed, pc, attempt, ran>>,
             \A v \in Tasks : \/ task'[v] = task[v]
                              \/ task[v] \in {"pending", "running"} /\ task'[v] = "cancelled"
      PROVE  /\ u \in completed' \/ pc'[u] = "settle" => task'[u] = "completed"
             /\ u \in skipped' => task'[u] = "skipped"
  <2>1. /\ BranchesAhead
        /\ completed' = completed /\ skipped' = skipped
        /\ pc'[u] = "settle" => pc[u] = "settle"
    BY <1>3 DEF WaveEnds, sets, BranchesAhead, IsCondition
  <2> QED BY <1>3, <2>1 DEF Rows
<1> QED BY <1>0, <1>1, <1>2, <1>3, OtherRows

RowsInv == SkipInv /\ Rows

LEMMA RowsCorrect == Spec => []RowsInv
<1>1. Init => RowsInv
  BY SkipInit DEF Init, RowsInv, Rows
<1>2. RowsInv /\ [Next]_vars => RowsInv'
  BY SkipStep, RowsStep DEF RowsInv
<1> QED BY <1>1, <1>2, PTL DEF Spec

\* A task runs only when everything it depends on has completed, in the run's
\* sets and in the database.
THEOREM RunsAfterPredecessors == Spec => []PredecessorsFirst
<1>1. RowsInv => PredecessorsFirst
  <2> SUFFICES ASSUME RowsInv, BranchesAhead, NEW t \in Inside, NEW p \in Predecessors(def, t)
               PROVE  p \in completed /\ task[p] = "completed"
    BY DEF PredecessorsFirst
  <2>1. t \in Tasks /\ pc[t] # "idle"
    BY DEF Inside
  <2>2. t \in def.nodes /\ p \in completed
    BY <2>1 DEF RowsInv, SkipInv, Coroutines, Order, Started
  <2>3. p \in Tasks
    BY DefinitionFacts DEF Predecessors, RowsInv, SkipInv, TypeOK
  <2> QED BY <2>2, <2>3 DEF RowsInv, Rows
<1> QED BY <1>1, RowsCorrect, PTL

-----------------------------------------------------------------------------
(* How a run ends *)

Ended ==
  /\ outcome = "completed" => loop = "done" /\ AllAccounted
  /\ loop = "exit" => failed
  /\ loop # "done" => outcome = "none"

LEMMA EndedStep ==
  ASSUME TypeOK, Coroutines, Ended, [Next]_vars
  PROVE  Ended'
<1>1. ASSUME NEW t \in Tasks, RunNode(t) PROVE Ended'
  <2>1. loop = "wave" /\ loop' = "wave" /\ outcome' = outcome
    BY <1>1 DEF RunNode, EnterCancelled, Enter, GiveUp, StartHandler, HandlerSucceeds, HandlerFails,
       Retry, Settle, Branch, Go
  <2> QED BY <2>1 DEF Ended
<1>2. CASE HeadCancelled \/ ExitCancelled \/ ExitFailed \/ RunRaises
  BY <1>2 DEF HeadCancelled, ExitCancelled, ExitFailed, RunRaises, Leave, Ended
<1>3. CASE Head
  BY <1>3 DEF Head, FailExecution, FanOut, Leave, Ended
<1>4. CASE WaveEnds
  BY <1>4 DEF WaveEnds, sets, Ended
<1>5. CASE Complete
  BY <1>5 DEF Complete, LoopLeft, Leave, sets, Ended, AllAccounted
<1>6. CASE Cancel \/ UNCHANGED vars
  BY <1>6 DEF Cancel, vars, sets, Ended, AllAccounted
<1> QED BY <1>1, <1>2, <1>3, <1>4, <1>5, <1>6 DEF Next, Loop

\* The completed and the skipped are disjoint, so if their sizes add up to the
\* size of the graph they are all of it.
LEMMA Accounted ==
  ASSUME SkipInv, BranchesAhead, AllAccounted
  PROVE  completed \cup skipped = def.nodes
<1>1. IsFiniteSet(def.nodes) /\ completed \subseteq def.nodes /\ skipped \subseteq def.nodes
  BY ExecutorAssumption, DefinitionFacts, FS_Subset DEF SkipInv, TypeOK
<1>2. IsFiniteSet(completed) /\ IsFiniteSet(skipped)
  BY <1>1, FS_Subset
<1>3. completed \cap skipped = {}
  BY DEF SkipInv, Disjoint, Started
<1>4. Cardinality(completed \cup skipped) = Cardinality(completed) + Cardinality(skipped)
  <2>1. Cardinality(completed \cup skipped)
          = Cardinality(completed) + Cardinality(skipped) - Cardinality(completed \cap skipped)
    BY <1>2, FS_Union
  <2>2. Cardinality(completed \cap skipped) = 0
    BY <1>3, FS_EmptySet
  <2> QED BY <1>2, <2>1, <2>2, FS_CardinalityType
<1>5. completed \cup skipped \subseteq def.nodes
  BY <1>1
<1>6. Cardinality(completed \cup skipped) <= Cardinality(def.nodes)
  BY <1>1, <1>5, FS_Subset
<1>7. Cardinality(completed \cup skipped) = Cardinality(def.nodes)
  <2>1. Cardinality(completed \cup skipped) \in Nat /\ Cardinality(def.nodes) \in Nat
    BY <1>1, <1>5, FS_Subset, FS_CardinalityType
  <2> QED BY <1>4, <1>6, <2>1 DEF AllAccounted
<1> QED BY <1>1, <1>5, <1>7, FS_Subset

\* An execution recorded completed has every row completed or skipped.
THEOREM CompletionIsComplete == Spec => []CompletedMeansAll
<1>1. RowsInv /\ Ended => CompletedMeansAll
  <2> SUFFICES ASSUME RowsInv, Ended, BranchesAhead, outcome = "completed", NEW t \in def.nodes
               PROVE  task[t] \in {"completed", "skipped"}
    BY DEF CompletedMeansAll
  <2>1. t \in completed \cup skipped
    BY Accounted DEF RowsInv, Ended
  <2> QED BY <2>1, DefinitionFacts DEF RowsInv, SkipInv, TypeOK, Rows
<1>2. Init => Ended
  BY DEF Init, Ended
<1>3. RowsInv /\ Ended /\ [Next]_vars => Ended'
  BY EndedStep DEF RowsInv, SkipInv
<1>4. Spec => []Ended
  BY <1>2, <1>3, RowsCorrect, PTL DEF Spec
<1> QED BY <1>1, <1>4, RowsCorrect, PTL

-----------------------------------------------------------------------------
(* Attempts *)

\* The counter of a coroutine agrees with the handlers it started; a task that
\* is left without completing either never started or failed the run.
Counters(t) ==
  /\ ran[t] <= Limit(t)
  /\ pc[t] = "waiting" => ran[t] = 0 /\ attempt[t] = 1
  /\ pc[t] = "try" => ran[t] + 1 = attempt[t] /\ attempt[t] <= Limit(t)
  /\ pc[t] = "handler" => ran[t] = attempt[t] /\ ran[t] > 0
  /\ pc[t] = "branch" => t \in completed
  /\ pc[t] = "sleep" => ran[t] = attempt[t] /\ attempt[t] < Limit(t) /\ ran[t] > 0
  /\ pc[t] \in {"idle", "out"} /\ t \notin completed => failed \/ (ran[t] = 0 /\ attempt[t] = 1)

Attempts == \A t \in def.nodes : Counters(t)

LEMMA AttemptsInit == Init => Attempts
<1> SUFFICES ASSUME Init, NEW t \in def.nodes PROVE Counters(t)
  BY DEF Attempts
<1>1. t \in Tasks /\ Limit(t) \in Nat \ {0}
  BY DefinitionFacts DEF Init, Limit
<1>2. pc[t] = "idle" /\ ran[t] = 0 /\ attempt[t] = 1
  BY <1>1 DEF Init
<1> QED BY <1>1, <1>2 DEF Counters

LEMMA AttemptsStep ==
  ASSUME TypeOK, Coroutines, Unfinished, Attempts, [Next]_vars
  PROVE  Attempts'
<1>0. def.nodes \subseteq Tasks /\ \A t \in def.nodes : Limit(t) \in Nat \ {0}
  BY DefinitionFacts DEF TypeOK, Limit
<1>1. ASSUME NEW t \in Tasks, RunNode(t) PROVE Attempts'
  <2>0. /\ t \in def.nodes /\ def' = def /\ Counters(t)
        /\ \A u \in def.nodes : Limit(u)' = Limit(u)
        /\ ran[t] \in Nat /\ attempt[t] \in Nat /\ Limit(t) \in Nat \ {0}
    BY <1>0, <1>1, NodeFrame DEF Limit, Attempts, TypeOK
  <2>1. \A u \in Tasks : u # t => attempt'[u] = attempt[u]
    BY <1>1 DEF RunNode, EnterCancelled, Enter, GiveUp, StartHandler, HandlerSucceeds, HandlerFails,
       Retry, Settle, Branch, TypeOK
  <2>2. failed => failed'
    BY <1>1 DEF RunNode, EnterCancelled, Enter, GiveUp, StartHandler, HandlerSucceeds, HandlerFails,
       Retry, Settle, Branch, sets
  <2>3. ASSUME NEW u \in def.nodes, u # t PROVE Counters(u)'
    BY <1>0, <1>1, <2>0, <2>1, <2>2, <2>3, NodeFrame DEF Attempts, Counters
  <2>4. Counters(t)'
    <3>1. CASE EnterCancelled(t)
      <4>1. pc[t] = "waiting" /\ pc'[t] = "out" /\ UNCHANGED <<attempt, ran>>
        BY <3>1 DEF EnterCancelled, Go, TypeOK
      <4> QED BY <2>0, <4>1 DEF Counters
    <3>2. CASE Enter(t)
      <4>1. pc[t] = "waiting" /\ pc'[t] \in {"try", "out"} /\ UNCHANGED <<attempt, ran>>
        BY <3>2 DEF Enter, Go, TypeOK
      <4> QED BY <2>0, <4>1 DEF Counters
    <3>3. CASE GiveUp(t)
      <4>1. pc[t] = "try" /\ pc'[t] = "out" /\ failed' /\ UNCHANGED <<attempt, ran>>
        BY <3>3 DEF GiveUp, Go, TypeOK
      <4> QED BY <2>0, <4>1 DEF Counters
    <3>4. CASE StartHandler(t)
      <4>1. pc[t] = "try" /\ pc'[t] = "handler" /\ UNCHANGED attempt /\ ran'[t] = ran[t] + 1
        BY <3>4 DEF StartHandler, Go, TypeOK
      <4> QED BY <2>0, <4>1 DEF Counters
    <3>5. CASE HandlerSucceeds(t)
      <4>1. pc[t] = "handler" /\ pc'[t] = "settle" /\ UNCHANGED <<attempt, ran>>
        BY <3>5 DEF HandlerSucceeds, Go, TypeOK
      <4> QED BY <2>0, <4>1 DEF Counters
    <3>6. CASE HandlerFails(t) /\ Exhausted(t)
      <4>1. pc[t] = "handler" /\ pc'[t] = "out" /\ failed' /\ UNCHANGED <<attempt, ran>>
        BY <3>6 DEF HandlerFails, Go, TypeOK
      <4> QED BY <2>0, <4>1 DEF Counters
    <3>7. CASE HandlerFails(t) /\ ~Exhausted(t)
      <4>1. pc[t] = "handler" /\ pc'[t] = "sleep" /\ UNCHANGED <<attempt, ran>>
        BY <3>7 DEF HandlerFails, Go, TypeOK
      <4> QED BY <2>0, <3>7, <4>1 DEF Counters, Exhausted
    <3>8. CASE Retry(t)
      <4>1. pc[t] = "sleep" /\ pc'[t] = "try" /\ UNCHANGED ran /\ attempt'[t] = attempt[t] + 1
        BY <3>8 DEF Retry, NextAttempt, Go, TypeOK
      <4> QED BY <2>0, <4>1 DEF Counters
    <3>9. CASE Settle(t)
      <4>1. pc[t] = "settle" /\ pc'[t] \in {"branch", "out"} /\ t \in completed' /\ UNCHANGED <<attempt, ran>>
        BY <3>9 DEF Settle, Go, TypeOK
      <4> QED BY <2>0, <4>1 DEF Counters
    <3>10. CASE Branch(t)
      <4>1. pc[t] = "branch" /\ pc'[t] = "out" /\ UNCHANGED <<attempt, ran, completed>>
        BY <3>10 DEF Branch, Go, TypeOK
      <4> QED BY <2>0, <4>1 DEF Counters
    <3> QED BY <1>1, <3>1, <3>2, <3>3, <3>4, <3>5, <3>6, <3>7, <3>8, <3>9, <3>10 DEF RunNode
  <2> QED BY <2>0, <2>3, <2>4 DEF Attempts
<1>2. CASE loop = "head" /\ ~failed /\ FanOut
  BY <1>0, <1>2, FanFrame DEF Attempts, Counters, Limit
<1>3. CASE WaveEnds
  BY <1>0, <1>3 DEF WaveEnds, sets, Attempts, Counters, Limit, TypeOK
<1>4. CASE UNCHANGED <<def, completed, skipped, failed, pc, attempt, ran>>
  BY <1>4 DEF Attempts, Counters, Limit
<1> QED BY <1>1, <1>2, <1>3, <1>4, Steps

AttemptsInv == RowsInv /\ Attempts

LEMMA AttemptsCorrect == Spec => []AttemptsInv
<1>1. Init => Attempts
  BY AttemptsInit
<1>2. RowsInv /\ Attempts /\ [Next]_vars => Attempts'
  BY AttemptsStep DEF RowsInv, SkipInv
<1>3. Spec => []Attempts
  BY <1>1, <1>2, RowsCorrect, PTL DEF Spec
<1> QED BY <1>3, RowsCorrect, PTL DEF AttemptsInv

\* A handler starts at most as often as max_attempts allows.
THEOREM AttemptsStayBounded == Spec => []AttemptsBounded
<1>1. AttemptsInv => AttemptsBounded
  BY DEF AttemptsInv, Attempts, Counters, AttemptsBounded
<1> QED BY <1>1, AttemptsCorrect, PTL

-----------------------------------------------------------------------------
(* Failure *)

UsedUp(t) == pc[t] \in {"idle", "out"} /\ ran[t] = Limit(t) /\ task[t] = "failed"

\* While a cancellation is not committed the run has failed only on a task
\* that used up its attempts, and a run that ended so stays so.
Failure ==
  /\ seen = "cancelled" => status = "cancelled"
  /\ failed => status = "cancelled" \/ \E t \in def.nodes : UsedUp(t)
  /\ outcome = "failed" => loop = "done" /\ \E t \in def.nodes : UsedUp(t)

LEMMA UsedUpStays ==
  ASSUME AttemptsInv, BranchesAhead, [Next]_vars, failed \/ loop # "head",
         NEW u \in def.nodes, UsedUp(u)
  PROVE  u \in def'.nodes /\ UsedUp(u)'
<1>0. TypeOK /\ Coroutines /\ u \in Tasks /\ Limit(u) \in Nat \ {0}
  BY DefinitionFacts DEF AttemptsInv, RowsInv, SkipInv, TypeOK, Limit
<1>1. ASSUME NEW t \in Tasks, RunNode(t) PROVE u \in def'.nodes /\ UsedUp(u)'
  <2>1. def' = def /\ Limit(u)' = Limit(u)
    BY <1>0, <1>1, NodeFrame DEF Limit
  <2>2. pc[t] \notin {"idle", "out"}
    BY <1>1 DEF RunNode, EnterCancelled, Enter, GiveUp, StartHandler, HandlerSucceeds, HandlerFails,
       Retry, Settle, Branch, Go
  <2>3. u # t /\ pc'[u] = pc[u] /\ ran'[u] = ran[u]
    BY <1>0, <1>1, <2>2, NodeFrame DEF UsedUp
  <2>4. Started(u)
    BY <1>0 DEF UsedUp, Started
  <2>5. u \notin skipped
    BY <2>4 DEF AttemptsInv, RowsInv, SkipInv, Disjoint
  <2>6. u \notin skipped'
    BY <1>1, <2>4, <2>5, BranchSkips DEF AttemptsInv, RowsInv
  <2>7. task'[u] = task[u]
    BY <1>0, <1>1, <2>3, <2>6, NodeRows DEF UsedUp
  <2> QED BY <2>1, <2>3, <2>7 DEF UsedUp
<1>2. CASE /\ \/ WaveEnds
              \/ UNCHANGED <<def, completed, skipped, failed, pc, attempt, ran>>
           /\ \A v \in Tasks :
                \/ task'[v] = task[v]
                \/ task[v] \in {"pending", "running"} /\ task'[v] = "cancelled"
  <2>1. def' = def /\ ran' = ran /\ pc'[u] \in {"idle", "out"}
    BY <1>0, <1>2 DEF WaveEnds, UsedUp, TypeOK
  <2> QED BY <1>0, <1>2, <2>1 DEF UsedUp, Limit
<1> QED BY <1>0, <1>1, <1>2, OtherRows

LEMMA FailureStep ==
  ASSUME AttemptsInv, Ended, BranchesAhead, Failure, [Next]_vars
  PROVE  Failure'
<1>0. TypeOK /\ Coroutines
  BY DEF AttemptsInv, RowsInv, SkipInv
<1>1. failed \/ loop # "head" =>
        ((\E t \in def.nodes : UsedUp(t)) => \E t \in def'.nodes : UsedUp(t)')
  BY UsedUpStays
<1>2. ASSUME NEW t \in Tasks, RunNode(t) PROVE Failure'
  <2>1. /\ def' = def /\ status' = status /\ outcome' = outcome /\ loop' = loop
        /\ loop = "wave" /\ t \in def.nodes
    BY <1>0, <1>2, NodeFrame DEF RunNode, EnterCancelled, Enter, GiveUp, StartHandler, HandlerSucceeds,
       HandlerFails, Retry, Settle, Branch, Go
  <2>2. seen' = seen \/ seen' = status
    BY <1>2 DEF RunNode, EnterCancelled, Enter, GiveUp, StartHandler, HandlerSucceeds,
       HandlerFails, Retry, Settle, Branch, Refreshed
  <2>3. \E u \in def.nodes : UsedUp(u) => \E v \in def'.nodes : UsedUp(v)'
    BY <1>1, <2>1
  <2>4. CASE failed' = failed
    BY <1>1, <2>1, <2>2, <2>4 DEF Failure
  <2>5. CASE GiveUp(t)
    <3>1. seen = "cancelled" \/ attempt[t] > Limit(t)
      BY <2>5 DEF GiveUp
    <3>2. pc[t] = "try" /\ Counters(t)
      BY <2>1, <2>5 DEF GiveUp, Go, AttemptsInv, Attempts
    <3>3. Limit(t) \in Nat /\ attempt[t] \in Nat
      BY <1>0, <2>1, DefinitionFacts DEF Limit, TypeOK
    <3>4. seen = "cancelled"
      BY <3>1, <3>2, <3>3 DEF Counters
    <3> QED BY <1>1, <2>1, <2>2, <3>4 DEF Failure
  <2>6. CASE HandlerFails(t) /\ Exhausted(t)
    <3>1. pc[t] = "handler" /\ pc'[t] = "out" /\ ran'[t] = ran[t]
      BY <1>0, <2>6 DEF HandlerFails, Go, TypeOK
    <3>2. CommitRows({t}, "failed") /\ {t} \in SUBSET Tasks
      BY <2>6 DEF HandlerFails
    <3>3. task'[t] = "failed"
      BY <1>0, <3>2, CommitFrame
    <3>4. Counters(t) /\ Limit(t)' = Limit(t) /\ Limit(t) \in Nat /\ ran[t] \in Nat /\ attempt[t] \in Nat
      BY <1>0, <2>1, DefinitionFacts DEF Limit, TypeOK, AttemptsInv, Attempts
    <3>5. ran[t] = Limit(t)
      BY <2>6, <3>1, <3>4 DEF Counters, Exhausted
    <3>6. UsedUp(t)'
      BY <3>1, <3>3, <3>4, <3>5 DEF UsedUp
    <3> QED BY <1>1, <2>1, <2>2, <3>6 DEF Failure
  <2>7. HandlerFails(t) /\ ~Exhausted(t) => failed' = failed
    BY <1>0 DEF HandlerFails, TypeOK
  <2> QED BY <1>2, <2>4, <2>5, <2>6, <2>7 DEF RunNode, EnterCancelled, Enter, StartHandler, HandlerSucceeds,
          Retry, Settle, Branch, sets
<1>3. CASE HeadCancelled \/ ExitCancelled
  BY <1>3 DEF HeadCancelled, ExitCancelled, IsCancelled, Refreshed, Leave, sets, Failure
<1>4. CASE Head /\ failed
  <2>1. /\ UNCHANGED <<failed, def>> /\ outcome' = "failed" /\ loop' = "done"
        /\ seen' = status /\ status # "cancelled"
    BY <1>4 DEF Head, FailExecution, IsCancelled, Refreshed, Leave, sets
  <2> QED BY <1>1, <1>4, <2>1 DEF Failure
<1>5. CASE Head /\ ~failed
  BY <1>5 DEF Head, FanOut, IsCancelled, Refreshed, Failure, Ended
<1>6. CASE WaveEnds
  BY <1>1, <1>6 DEF WaveEnds, sets, Failure
<1>7. CASE ExitFailed
  BY <1>1, <1>7 DEF ExitFailed, LoopLeft, IsCancelled, Refreshed, Leave, sets, Failure
<1>8. CASE Complete
  BY <1>8 DEF Complete, IsCancelled, Refreshed, Leave, sets, Failure
<1>9. CASE RunRaises
  BY <1>1, <1>9 DEF RunRaises, Leave, sets, Failure
<1>10. CASE Cancel
  BY <1>1, <1>10 DEF Cancel, sets, Failure
<1>11. CASE UNCHANGED vars
  BY <1>1, <1>11 DEF vars, sets, Failure
<1> QED BY <1>2, <1>3, <1>4, <1>5, <1>6, <1>7, <1>8, <1>9, <1>10, <1>11 DEF Next, Loop

LEMMA DefinitionStays ==
  ASSUME TypeOK, Coroutines, [Next]_vars
  PROVE  def' = def
BY Steps, NodeFrame, FanFrame DEF WaveEnds

\* A run that was not cancelled ends failed only on a task that used up its
\* attempts, for every definition whose branches lie ahead of their condition.
THEOREM FailureMeansExhaustion == Spec => []FailureIsExhaustion
<1> DEFINE Inv == BranchesAhead => Failure
<1>1. Init => Inv
  BY DEF Init, Failure
<1>2. AttemptsInv /\ Ended /\ Inv /\ [Next]_vars => Inv'
  <2> SUFFICES ASSUME AttemptsInv, Ended, Inv, [Next]_vars, BranchesAhead' PROVE Failure'
    OBVIOUS
  <2>1. def' = def
    BY DefinitionStays DEF AttemptsInv, RowsInv, SkipInv
  <2>2. BranchesAhead
    BY <2>1 DEF BranchesAhead, IsCondition
  <2> QED BY <2>2, FailureStep
<1>3. Inv => FailureIsExhaustion
  BY DEF Failure, UsedUp, FailureIsExhaustion
<1>4. Spec => []Ended
  <2>1. Init => Ended
    BY DEF Init, Ended
  <2>2. AttemptsInv /\ Ended /\ [Next]_vars => Ended'
    BY EndedStep DEF AttemptsInv, RowsInv, SkipInv
  <2> QED BY <2>1, <2>2, AttemptsCorrect, PTL DEF Spec
<1> QED BY <1>1, <1>2, <1>3, <1>4, AttemptsCorrect, PTL DEF Spec

-----------------------------------------------------------------------------
(* Cancellation *)

\* The tasks that may still be the first to start after a cancellation.
Undecided == {t \in Tasks : pc[t] = "try" /\ ran[t] = 0}

Prompt ==
  /\ Cardinality(Inside) <= MaxConcurrent
  /\ status # "cancelled" => late = {}
  /\ status = "cancelled" => Cardinality(late \cup Undecided) <= MaxConcurrent

LEMMA Smaller ==
  ASSUME NEW S \in SUBSET Tasks, NEW T \in SUBSET S, Cardinality(S) <= MaxConcurrent
  PROVE  Cardinality(T) <= MaxConcurrent
<1>1. IsFiniteSet(S) /\ IsFiniteSet(T)
  BY ExecutorAssumption, FS_Subset
<1>2. Cardinality(T) <= Cardinality(S) /\ Cardinality(T) \in Nat /\ Cardinality(S) \in Nat
  BY <1>1, FS_Subset, FS_CardinalityType
<1> QED BY <1>2, ExecutorAssumption

\* Entering takes a slot; nothing else makes more coroutines hold one.
LEMMA InsideStep ==
  ASSUME TypeOK, Coroutines, Cardinality(Inside) <= MaxConcurrent, [Next]_vars
  PROVE  Cardinality(Inside') <= MaxConcurrent
<1>0. Inside \in SUBSET Tasks /\ IsFiniteSet(Inside)
  BY ExecutorAssumption, FS_Subset DEF Inside
<1>1. ASSUME NEW t \in Tasks, Enter(t) PROVE Cardinality(Inside') <= MaxConcurrent
  <2>1. Inside' \in SUBSET (Inside \cup {t}) /\ t \notin Inside
    BY <1>1 DEF Inside, Enter, Go, TypeOK
  <2>2. IsFiniteSet(Inside \cup {t}) /\ Cardinality(Inside \cup {t}) = Cardinality(Inside) + 1
    BY <1>0, <2>1, FS_AddElement
  <2>3. Cardinality(Inside) < MaxConcurrent
    BY <1>1 DEF Enter, HasSlot
  <2>4. Cardinality(Inside \cup {t}) <= MaxConcurrent
    BY <1>0, <2>2, <2>3, FS_CardinalityType, ExecutorAssumption
  <2> QED BY <1>0, <2>1, <2>4, Smaller
<1>2. ASSUME NEW t \in Tasks, RunNode(t), ~Enter(t) PROVE Inside' \in SUBSET Inside
  <2>1. pc[t] \in {"try", "handler", "settle", "sleep", "branch"} \/ pc'[t] = "out"
    BY <1>2 DEF RunNode, EnterCancelled, GiveUp, StartHandler, HandlerSucceeds, HandlerFails,
       Retry, Settle, Branch, Go, TypeOK
  <2> QED BY <1>2, <2>1, NodeFrame DEF Inside
<1>3. loop = "head" /\ FanOut => Inside' \in SUBSET Inside
  BY FanFrame DEF Inside
<1>4. WaveEnds => Inside' \in SUBSET Inside
  BY DEF WaveEnds, Inside
<1>5. UNCHANGED <<def, completed, skipped, failed, pc, attempt, ran>> => Inside' \in SUBSET Inside
  BY DEF Inside
<1> QED BY <1>0, <1>1, <1>2, <1>3, <1>4, <1>5, Steps, Smaller

\* Once the cancellation is committed nobody enters: a late start only moves a
\* task from the undecided to the late ones.
LEMMA LateStep ==
  ASSUME AttemptsInv, [Next]_vars, status = "cancelled"
  PROVE  status' = "cancelled" /\ late' \cup Undecided' \in SUBSET (late \cup Undecided)
<1>0. TypeOK /\ Coroutines
  BY DEF AttemptsInv, RowsInv, SkipInv
<1>1. ASSUME NEW t \in Tasks, RunNode(t)
      PROVE  status' = "cancelled" /\ late' \cup Undecided' \in SUBSET (late \cup Undecided)
  <2>1. t \in def.nodes /\ status' = status /\ Counters(t)
    BY <1>0, <1>1, NodeFrame DEF AttemptsInv, Attempts
  <2>2. late' \in SUBSET (late \cup Undecided)
    BY <1>0, <1>1 DEF RunNode, EnterCancelled, Enter, GiveUp, StartHandler, HandlerSucceeds, HandlerFails,
       Retry, Settle, Branch, Go, Undecided
  <2>3. ~(pc'[t] = "try" /\ ran'[t] = 0)
    <3>1. pc'[t] = "try" => Retry(t)
      BY <1>0, <1>1 DEF RunNode, EnterCancelled, Enter, GiveUp, StartHandler, HandlerSucceeds, HandlerFails,
         Settle, Branch, Go, TypeOK, IsCancelled, Refreshed
    <3>2. Retry(t) => ran'[t] > 0
      BY <2>1 DEF Retry, Go, Counters
    <3> QED BY <3>1, <3>2
  <2>4. Undecided' \in SUBSET Undecided
    BY <1>0, <1>1, <2>3, NodeFrame DEF Undecided
  <2> QED BY <2>1, <2>2, <2>4
<1>2. CASE Loop
  <2>1. late' = late /\ status' = "cancelled"
    BY <1>2 DEF Loop, HeadCancelled, Head, FailExecution, FanOut, WaveEnds, ExitCancelled, ExitFailed,
       Complete, IsCancelled, Refreshed, tasks
  <2>2. Undecided' \in SUBSET Undecided
    BY <1>2 DEF Loop, HeadCancelled, Head, WaveEnds, ExitCancelled, ExitFailed,
       Complete, IsCancelled, Refreshed, tasks, Undecided
  <2> QED BY <2>1, <2>2
<1>3. CASE Cancel \/ RunRaises \/ UNCHANGED vars
  BY <1>3 DEF Cancel, RunRaises, vars, tasks, Undecided
<1> QED BY <1>1, <1>2, <1>3 DEF Next

LEMMA PromptStep ==
  ASSUME AttemptsInv, Prompt, [Next]_vars
  PROVE  Prompt'
<1>0. TypeOK /\ Coroutines
  BY DEF AttemptsInv, RowsInv, SkipInv
<1>1. Cardinality(Inside') <= MaxConcurrent
  BY <1>0, InsideStep DEF Prompt
<1>2. CASE status = "cancelled"
  <2>1. late \cup Undecided \in SUBSET Tasks
    BY <1>0 DEF TypeOK, Undecided
  <2> QED BY <1>1, <1>2, <2>1, LateStep, Smaller DEF Prompt
<1>3. CASE status # "cancelled"
  <2>1. late' = {}
    BY <1>0, <1>3 DEF Prompt, Next, Loop, HeadCancelled, Head, FailExecution, FanOut, WaveEnds, ExitCancelled,
       ExitFailed, Complete, RunRaises, Cancel, vars, tasks, RunNode, EnterCancelled, Enter, GiveUp,
       StartHandler, HandlerSucceeds, HandlerFails, Retry, Settle, Branch
  <2>2. ASSUME status' = "cancelled" PROVE Undecided' \in SUBSET Inside
    <3>1. Cancel
      BY <1>0, <1>3, <2>2, NodeFrame DEF Next, Loop, HeadCancelled, Head, FailExecution, FanOut, WaveEnds,
         ExitCancelled, ExitFailed, Complete, RunRaises, vars, TypeOK
    <3> QED BY <3>1 DEF Cancel, Undecided, Inside
  <2>3. Inside \in SUBSET Tasks
    BY DEF Inside
  <2>4. ASSUME status' = "cancelled" PROVE Cardinality(late' \cup Undecided') <= MaxConcurrent
    <3>1. late' \cup Undecided' \in SUBSET Inside
      BY <2>1, <2>2, <2>4
    <3> QED BY <2>3, <3>1, Smaller DEF Prompt
  <2> QED BY <1>1, <2>1, <2>4 DEF Prompt
<1> QED BY <1>2, <1>3

\* MAX_CONCURRENT_TASKS bounds the tasks that start after the cancellation.
THEOREM CancellationIsPrompt == Spec => []CancelIsPrompt
<1>1. Init => Prompt
  <2> SUFFICES ASSUME Init PROVE Prompt
    OBVIOUS
  <2>1. Inside = {}
    BY DEF Init, Inside
  <2> QED BY <2>1, FS_EmptySet, ExecutorAssumption DEF Init, Prompt
<1>2. AttemptsInv /\ Prompt /\ [Next]_vars => Prompt'
  BY PromptStep
<1>3. AttemptsInv /\ Prompt => CancelIsPrompt
  <2> SUFFICES ASSUME AttemptsInv, Prompt PROVE Cardinality(late) <= MaxConcurrent
    BY DEF CancelIsPrompt
  <2>1. CASE status = "cancelled"
    <3>1. late \cup Undecided \in SUBSET Tasks /\ late \in SUBSET (late \cup Undecided)
      BY DEF AttemptsInv, RowsInv, SkipInv, TypeOK, Undecided
    <3> QED BY <2>1, <3>1, Smaller DEF Prompt
  <2>2. CASE status # "cancelled"
    BY <2>2, FS_EmptySet, ExecutorAssumption DEF Prompt
  <2> QED BY <2>1, <2>2
<1> QED BY <1>1, <1>2, <1>3, AttemptsCorrect, PTL DEF Spec

-----------------------------------------------------------------------------
(* No row is left running *)

Running ==
  /\ \A t \in Tasks : task[t] = "running" => pc[t] = "handler"
  /\ loop = "done" /\ outcome # "raised" => \A t \in Tasks : pc[t] = "idle"

LEMMA RunningStep ==
  ASSUME TypeOK, Coroutines, Running, [Next]_vars
  PROVE  Running'
<1>1. ASSUME NEW t \in Tasks, RunNode(t) PROVE Running'
  <2>1. loop' = "wave" /\ pc[t] # "idle"
    BY <1>1 DEF RunNode, EnterCancelled, Enter, GiveUp, StartHandler, HandlerSucceeds, HandlerFails,
       Retry, Settle, Branch, Go
  <2>2. ASSUME NEW u \in Tasks, task'[u] = "running" PROVE pc'[u] = "handler"
    <3>1. task[u] = "running" => pc[u] = "handler"
      BY DEF Running
    <3>2. CASE u # t
      BY <1>1, <2>2, <3>1, <3>2, NodeRows, NodeFrame
    <3>3. CASE u = t /\ pc[t] = "handler"
      <4>1. task'[t] # "running"
        BY <1>1, <3>3, CommitFrame DEF RunNode, EnterCancelled, Enter, GiveUp, StartHandler, HandlerSucceeds,
           HandlerFails, Retry, Settle, Branch, Go
      <4> QED BY <2>2, <3>3, <4>1
    <3>4. CASE u = t /\ pc[t] # "handler"
      BY <1>1, <2>2, <3>1, <3>4, NodeRows
    <3> QED BY <3>2, <3>3, <3>4
  <2> QED BY <2>1, <2>2 DEF Running
<1>2. CASE loop = "head" /\ FanOut
  BY <1>2, FanRows, FanFrame DEF Running
<1>3. CASE Cancel
  BY <1>3 DEF Cancel, Running
<1>4. CASE WaveEnds
  BY <1>4 DEF WaveEnds, Running, TypeOK
<1>5. CASE HeadCancelled \/ (Head /\ failed) \/ ExitCancelled \/ ExitFailed \/ Complete
  <2>1. UNCHANGED <<pc, task>> /\ \A t \in Tasks : pc[t] = "idle"
    BY <1>5 DEF HeadCancelled, Head, FailExecution, ExitCancelled, ExitFailed, Complete, LoopLeft, tasks, Coroutines
  <2> QED BY <2>1 DEF Running
<1>6. CASE RunRaises \/ UNCHANGED vars
  BY <1>6 DEF RunRaises, vars, tasks, Leave, Running
<1> QED BY <1>1, <1>2, <1>3, <1>4, <1>5, <1>6 DEF Next, Loop, Head

\* No row stays running when the run has returned.
THEOREM NothingLeftRunning == Spec => []NoRowLeftRunning
<1>1. Init => Running
  BY DEF Init, Running
<1>2. AttemptsInv /\ Running /\ [Next]_vars => Running'
  BY RunningStep DEF AttemptsInv, RowsInv, SkipInv
<1>3. Running => NoRowLeftRunning
  BY DEF Running, NoRowLeftRunning
<1> QED BY <1>1, <1>2, <1>3, AttemptsCorrect, PTL DEF Spec

-----------------------------------------------------------------------------
(* Induction over numbers, with a set in place of a predicate *)

Less == {p \in Nat \X Nat : p[1] < p[2]}

LEMMA LessIsWellFounded == IsWellFoundedOn(Less, Nat)
BY NatLessThanWellFounded DEF OpToRel, Less

LEMMA SetInduction ==
  ASSUME NEW S \in SUBSET Nat, 0 \in S, \A n \in S : n + 1 \in S
  PROVE  S = Nat
<1> DEFINE T == Nat \ S
<1> SUFFICES ASSUME T # {} PROVE FALSE
  OBVIOUS
<1>1. PICK m \in T : \A n \in T : <<n, m>> \notin Less
  <2>1. T \subseteq Nat
    OBVIOUS
  <2> HIDE DEF T
  <2> QED BY <2>1, LessIsWellFounded, WFMin
<1>2. m # 0 /\ m - 1 \in Nat /\ <<m - 1, m>> \in Less
  BY <1>1 DEF Less
<1>3. m - 1 \in S
  BY <1>1, <1>2
<1>4. (m - 1) + 1 \in S
  BY <1>3
<1> QED BY <1>1, <1>4

\* A function defined along the numbers exists.
Follows(f, base, N, step) == f[0] = base /\ \A i \in 1 .. N : f[i] = step[i][f[i - 1]]

LEMMA Recursion ==
  ASSUME NEW V, NEW base \in V, NEW N \in Nat, NEW step \in [1 .. N -> [V -> V]]
  PROVE  \E f \in [0 .. N -> V] : Follows(f, base, N, step)
<1> DEFINE Def(n, f) == f[0] = base /\ \A i \in 1 .. n : f[i] = step[i][f[i - 1]]
           S == {n \in Nat : n <= N => \E f \in [0 .. n -> V] : Def(n, f)}
<1>1. 0 \in S
  <2>1. [i \in 0 .. 0 |-> base] \in [0 .. 0 -> V] /\ Def(0, [i \in 0 .. 0 |-> base])
    OBVIOUS
  <2> QED BY <2>1
<1>2. ASSUME NEW n \in S PROVE n + 1 \in S
  <2> SUFFICES ASSUME n + 1 <= N PROVE \E f \in [0 .. n + 1 -> V] : Def(n + 1, f)
    BY <1>2
  <2>1. PICK f \in [0 .. n -> V] : Def(n, f)
    BY <1>2
  <2> DEFINE g == [i \in 0 .. n + 1 |-> IF i = n + 1 THEN step[i][f[n]] ELSE f[i]]
  <2>2. f[n] \in V /\ step[n + 1][f[n]] \in V
    BY <1>2
  <2>3. g \in [0 .. n + 1 -> V]
    BY <2>2
  <2>4. Def(n + 1, g)
    <3>1. g[0] = base
      BY <1>2, <2>1
    <3>2. ASSUME NEW i \in 1 .. n + 1 PROVE g[i] = step[i][g[i - 1]]
      <4>1. CASE i = n + 1
        BY <1>2, <4>1
      <4>2. CASE i # n + 1
        <5>1. i \in 1 .. n /\ i - 1 \in 0 .. n /\ i - 1 # n + 1
          BY <1>2, <4>2
        <5> QED BY <5>1, <4>2, <2>1
      <4> QED BY <4>1, <4>2
    <3> QED BY <3>1, <3>2
  <2> QED BY <2>3, <2>4
<1>3. N \in S
  <2> HIDE DEF S
  <2>1. S \in SUBSET Nat
    BY DEF S
  <2> QED BY <1>1, <1>2, <2>1, SetInduction
<1>4. PICK f \in [0 .. N -> V] : Def(N, f)
  BY <1>3
<1> QED BY <1>4 DEF Follows

-----------------------------------------------------------------------------
(* The generations of a graph *)

Sources(dag) ==
  [k \in 1 .. Cardinality(dag.nodes) |->
     [S \in SUBSET dag.nodes |-> {t \in dag.nodes : Predecessors(dag, t) \subseteq S}]]

LEMMA GenerationFacts ==
  ASSUME NEW d \in Definitions
  PROVE  LET upTo == UpToGeneration(d) IN
         /\ IsFiniteSet(d.nodes) /\ Cardinality(d.nodes) \in Nat
         /\ upTo[0] = {}
         /\ \A k \in 0 .. Cardinality(d.nodes) : upTo[k] \subseteq d.nodes
         /\ \A k \in 1 .. Cardinality(d.nodes) :
              /\ upTo[k] = {t \in d.nodes : Predecessors(d, t) \subseteq upTo[k - 1]}
              /\ upTo[k - 1] \subseteq upTo[k]
<1> DEFINE N == Cardinality(d.nodes)
           V == SUBSET d.nodes
           K == Sources(d)
           upTo == UpToGeneration(d)
<1>1. IsFiniteSet(d.nodes) /\ N \in Nat
  BY ExecutorAssumption, FS_Subset, FS_CardinalityType
<1>2. upTo = [k \in 0 .. N |->
                IF k = 0 THEN {} ELSE {t \in d.nodes : Predecessors(d, t) \subseteq upTo[k - 1]}]
  <2>1. PICK f \in [0 .. N -> V] : f[0] = {} /\ \A k \in 1 .. N : f[k] = K[k][f[k - 1]]
    <3> DEFINE base == {}
    <3>1. base \in V /\ K \in [1 .. N -> [V -> V]]
      BY DEF Sources
    <3> HIDE DEF N, V, K, base
    <3>2. \E f \in [0 .. N -> V] : Follows(f, base, N, K)
      BY <1>1, <3>1, Recursion
    <3> QED BY <3>2 DEF base, Follows
  <2>2. ASSUME NEW k \in 1 .. N
        PROVE  f[k] = {t \in d.nodes : Predecessors(d, t) \subseteq f[k - 1]}
    <3>1. k - 1 \in 0 .. N /\ f[k - 1] \in V
      BY <1>1
    <3> QED BY <2>1, <3>1 DEF Sources
  <2>3. f = [k \in 0 .. N |->
               IF k = 0 THEN {} ELSE {t \in d.nodes : Predecessors(d, t) \subseteq f[k - 1]}]
    <3>1. \A k \in 0 .. N : k # 0 => k \in 1 .. N
      BY <1>1
    <3> HIDE DEF N, V, K
    <3> QED BY <2>1, <2>2, <3>1
  <2> HIDE DEF N
  <2> QED BY <2>3 DEF UpToGeneration, N
<1> HIDE DEF upTo
<1>3. upTo[0] = {}
  BY <1>1, <1>2
<1>4. ASSUME NEW k \in 1 .. N
      PROVE  k \in 0 .. N /\ k - 1 \in 0 .. N
             /\ upTo[k] = {t \in d.nodes : Predecessors(d, t) \subseteq upTo[k - 1]}
  <2>1. k \in 0 .. N /\ k - 1 \in 0 .. N /\ k # 0
    BY <1>1
  <2> HIDE DEF N
  <2> QED BY <1>2, <2>1
<1>5. \A k \in 0 .. N : upTo[k] \subseteq d.nodes
  BY <1>3, <1>4
<1> DEFINE P == {n \in Nat : n + 1 <= N => upTo[n] \subseteq upTo[n + 1]}
<1>6. 0 \in P
  BY <1>3
<1>7. ASSUME NEW n \in P PROVE n + 1 \in P
  <2> SUFFICES ASSUME (n + 1) + 1 <= N PROVE upTo[n + 1] \subseteq upTo[(n + 1) + 1]
    OBVIOUS
  <2>1. n + 1 \in 1 .. N /\ (n + 1) + 1 \in 1 .. N /\ (n + 1) - 1 = n /\ ((n + 1) + 1) - 1 = n + 1
    BY <1>1
  <2>2. upTo[n] \subseteq upTo[n + 1]
    BY <1>1, <2>1
  <2>3. /\ upTo[n + 1] = {t \in d.nodes : Predecessors(d, t) \subseteq upTo[n]}
        /\ upTo[(n + 1) + 1] = {t \in d.nodes : Predecessors(d, t) \subseteq upTo[n + 1]}
    BY <1>4, <2>1
  <2> QED BY <2>2, <2>3
<1>8. P = Nat
  <2> HIDE DEF P
  <2>1. P \in SUBSET Nat
    BY DEF P
  <2> QED BY <1>6, <1>7, <2>1, SetInduction
<1>9. ASSUME NEW k \in 1 .. N PROVE upTo[k - 1] \subseteq upTo[k]
  <2>1. k - 1 \in Nat /\ (k - 1) + 1 = k /\ k <= N
    BY <1>1
  <2> QED BY <1>8, <2>1
<1> QED BY <1>1, <1>3, <1>4, <1>5, <1>9 DEF upTo

-----------------------------------------------------------------------------
(* Waves: while nothing is skipped the waves are the generations *)

\* Between two waves of a run that goes on, all that earlier generations hold
\* has completed; the wave that runs is the next one.
Waves ==
  skipped = {} =>
    LET upTo == UpToGeneration(def) IN
    /\ loop \in {"head", "wave"} =>
         wave \in 0 .. Cardinality(def.nodes) /\ wave <= Cardinality(upTo[wave])
    /\ loop = "head" /\ ~failed /\ status # "cancelled" => completed = upTo[wave]
    /\ loop = "wave" =>
         /\ wave # 0
         /\ upTo[wave - 1] \subseteq completed /\ completed \subseteq upTo[wave]
         /\ {t \in Tasks : pc[t] # "idle"} = upTo[wave] \ upTo[wave - 1]
         /\ ~failed /\ status # "cancelled" =>
              \A t \in Tasks : pc[t] \in {"branch", "out"} => t \in completed

LEMMA WavesInit == Init => Waves
<1> SUFFICES ASSUME Init PROVE Waves
  OBVIOUS
<1>1. UpToGeneration(def)[0] = {} /\ Cardinality(def.nodes) \in Nat /\ Cardinality({}) = 0
  BY GenerationFacts, FS_EmptySet DEF Init
<1> QED BY <1>1 DEF Init, Waves

\* What is ready when all of a generation and of those before has completed is
\* the next generation.
LEMMA NextGeneration ==
  ASSUME TypeOK, NEW k \in 0 .. Cardinality(def.nodes), k <= Cardinality(UpToGeneration(def)[k]),
         NEW ready, ready = ReadyTasks(def, UpToGeneration(def)[k], {}), ready # {}
  PROVE  /\ k + 1 \in 1 .. Cardinality(def.nodes)
         /\ ready = UpToGeneration(def)[k + 1] \ UpToGeneration(def)[k]
         /\ UpToGeneration(def)[k] \subseteq UpToGeneration(def)[k + 1]
         /\ k + 1 <= Cardinality(UpToGeneration(def)[k + 1])
<1> DEFINE upTo == UpToGeneration(def)
           N == Cardinality(def.nodes)
<1>1. /\ IsFiniteSet(def.nodes) /\ N \in Nat
      /\ \A i \in 0 .. N : upTo[i] \subseteq def.nodes
      /\ \A i \in 1 .. N : /\ upTo[i] = {t \in def.nodes : Predecessors(def, t) \subseteq upTo[i - 1]}
                          /\ upTo[i - 1] \subseteq upTo[i]
  BY GenerationFacts DEF TypeOK
<1>2. ready = {t \in def.nodes \ upTo[k] : Predecessors(def, t) \subseteq upTo[k]}
  BY DEF ReadyTasks
<1> HIDE DEF upTo
<1>3. \A i \in 0 .. N : IsFiniteSet(upTo[i]) /\ Cardinality(upTo[i]) \in Nat
  BY <1>1, FS_Subset, FS_CardinalityType
<1>4. k \in Nat /\ k < N
  <2>1. PICK t \in def.nodes : t \notin upTo[k]
    BY <1>2
  <2>2. upTo[k] # def.nodes /\ upTo[k] \subseteq def.nodes
    BY <1>1, <2>1
  <2>3. Cardinality(upTo[k]) <= N /\ Cardinality(upTo[k]) # N
    BY <1>1, <2>2, FS_Subset
  <2> QED BY <1>1, <1>3, <2>3 DEF upTo
<1>5. k + 1 \in 1 .. N /\ k + 1 \in 0 .. N /\ (k + 1) - 1 = k
  BY <1>1, <1>4
<1>6. upTo[k + 1] = {t \in def.nodes : Predecessors(def, t) \subseteq upTo[k]} /\ upTo[k] \subseteq upTo[k + 1]
  BY <1>1, <1>5
<1>7. ready = upTo[k + 1] \ upTo[k]
  BY <1>2, <1>6
<1>8. upTo[k] # upTo[k + 1]
  BY <1>7
<1>9. Cardinality(upTo[k]) < Cardinality(upTo[k + 1])
  <2>1. Cardinality(upTo[k]) <= Cardinality(upTo[k + 1]) /\ Cardinality(upTo[k]) # Cardinality(upTo[k + 1])
    BY <1>3, <1>5, <1>6, <1>8, FS_Subset
  <2>2. Cardinality(upTo[k]) \in Nat /\ Cardinality(upTo[k + 1]) \in Nat
    BY <1>3, <1>5
  <2> QED BY <2>1, <2>2
<1>10. k <= Cardinality(upTo[k])
  BY DEF upTo
<1>11. k + 1 <= Cardinality(upTo[k + 1])
  BY <1>3, <1>4, <1>5, <1>9, <1>10
<1> QED BY <1>5, <1>6, <1>7, <1>11 DEF upTo

LEMMA WavesStep ==
  ASSUME TypeOK, Coroutines, Unfinished, Waves, [Next]_vars
  PROVE  Waves'
<1> USE DEF sets, tasks
<1> SUFFICES ASSUME skipped' = {} PROVE Waves'
  BY DEF Waves
<1>1. ASSUME NEW t \in Tasks, RunNode(t) PROVE Waves'
  <2>1. /\ UNCHANGED <<def, loop, status, wave>> /\ loop = "wave"
        /\ skipped \subseteq skipped' /\ pc[t] # "idle"
    BY <1>1 DEF RunNode, EnterCancelled, Enter, GiveUp, StartHandler, HandlerSucceeds, HandlerFails,
       Retry, Settle, Branch, Go
  <2>2. skipped = {}
    BY <2>1
  <2>3. {u \in Tasks : pc'[u] # "idle"} = {u \in Tasks : pc[u] # "idle"}
    BY <1>1, NodeFrame
  <2>4. completed \subseteq completed' /\ completed' \subseteq completed \cup {t}
    BY <1>1, NodeFrame
  <2>5. t \in UpToGeneration(def)[wave]
    BY <2>1, <2>2 DEF Waves
  <2>6. ASSUME ~failed', status # "cancelled"
        PROVE  ~failed /\ (pc'[t] \in {"branch", "out"} => t \in completed')
    BY <1>1, <2>1, <2>2, <2>6 DEF RunNode, EnterCancelled, Enter, GiveUp, StartHandler, HandlerSucceeds,
       HandlerFails, Retry, Settle, Branch, Go, IsCancelled, Refreshed, Unfinished, TypeOK, Waves
  <2>7. \A u \in Tasks : u # t => pc'[u] = pc[u]
    BY <1>1, NodeFrame
  <2>8. wave \in 0 .. Cardinality(def.nodes) /\ wave <= Cardinality(UpToGeneration(def)[wave]) /\ wave # 0
        /\ UpToGeneration(def)[wave - 1] \subseteq completed /\ completed \subseteq UpToGeneration(def)[wave]
        /\ {u \in Tasks : pc[u] # "idle"} = UpToGeneration(def)[wave] \ UpToGeneration(def)[wave - 1]
        /\ ~failed /\ status # "cancelled" => \A u \in Tasks : pc[u] \in {"branch", "out"} => u \in completed
    BY <2>1, <2>2 DEF Waves
  <2> DEFINE upTo == UpToGeneration(def)
             N == Cardinality(def.nodes)
  <2>9. UpToGeneration(def)' = upTo /\ Cardinality(def.nodes)' = N
    BY <2>1
  <2> HIDE DEF upTo, N
  <2> QED BY <2>1, <2>3, <2>4, <2>5, <2>6, <2>7, <2>8, <2>9 DEF Waves, upTo, N
<1>2. CASE Head /\ FanOut
  <2>1. /\ UNCHANGED <<def, status, completed, failed>> /\ loop = "head" /\ ~failed /\ status # "cancelled"
        /\ skipped = {} /\ AllPredecessorsSkipped = {}
    <3>1. loop = "head" /\ ~IsCancelled /\ UNCHANGED <<def, status, completed, failed>>
      BY <1>2 DEF Head, FanOut
    <3>2. ~failed
      BY <1>2 DEF Head, FanOut, FailExecution, Leave
    <3>3. skipped' = skipped \cup AllPredecessorsSkipped
      BY <1>2 DEF FanOut
    <3> QED BY <3>1, <3>2, <3>3 DEF IsCancelled, Refreshed
  <2> DEFINE upTo == UpToGeneration(def)
             N == Cardinality(def.nodes)
             ready == ReadyTasks(def, completed, {})
  <2>2. completed = upTo[wave] /\ wave \in 0 .. N /\ wave <= Cardinality(upTo[wave])
    BY <2>1 DEF Waves
  <2>3. /\ pc' = [t \in Tasks |-> IF t \in ready THEN "waiting" ELSE pc[t]]
        /\ IF ready = {} THEN UNCHANGED <<loop, wave>> ELSE loop' = "wave" /\ wave' = wave + 1
    <3>1. skipped \cup AllPredecessorsSkipped = {}
      BY <2>1
    <3> QED BY <1>2, <3>1 DEF FanOut
  <2>4. \A t \in Tasks : pc[t] = "idle"
    BY <2>1 DEF Coroutines
  <2>5. UpToGeneration(def)' = upTo /\ Cardinality(def.nodes)' = N
    BY <2>1
  <2>6. CASE ready = {}
    <3> HIDE DEF upTo, N, ready
    <3>1. loop' = "head" /\ wave' = wave
      BY <2>1, <2>3, <2>6
    <3> QED BY <2>1, <2>2, <2>5, <3>1 DEF Waves
  <2>7. CASE ready # {}
    <3>1. ready \subseteq Tasks
      BY DefinitionFacts DEF ReadyTasks, TypeOK
    <3>2. /\ wave + 1 \in 1 .. N
          /\ ready = upTo[wave + 1] \ upTo[wave]
          /\ upTo[wave] \subseteq upTo[wave + 1]
          /\ wave + 1 <= Cardinality(upTo[wave + 1])
      BY <2>2, <2>7, NextGeneration
    <3>3. {t \in Tasks : pc'[t] # "idle"} = ready
      <4> HIDE DEF ready
      <4> QED BY <2>3, <2>4, <3>1
    <3>4. wave' \in 0 .. N /\ wave' # 0 /\ wave' - 1 = wave /\ wave' = wave + 1 /\ loop' = "wave"
      BY <2>2, <2>3, <2>7, <3>2 DEF TypeOK
    <3>5. \A t \in Tasks : pc'[t] \notin {"branch", "out"}
      BY <2>3, <2>4
    <3> HIDE DEF upTo, N, ready
    <3> QED BY <2>1, <2>2, <2>5, <3>2, <3>3, <3>4, <3>5 DEF Waves
  <2> QED BY <2>6, <2>7
<1>3. CASE WaveEnds
  <2>1. /\ UNCHANGED <<def, status, completed, skipped, failed, wave>> /\ loop = "wave"
        /\ loop' = IF failed THEN "exit" ELSE "head"
        /\ \A t \in Tasks : pc[t] \in {"idle", "out"}
    BY <1>3 DEF WaveEnds, WaveOver
  <2> DEFINE upTo == UpToGeneration(def)
             N == Cardinality(def.nodes)
  <2>2. /\ wave \in 0 .. N /\ wave <= Cardinality(upTo[wave])
        /\ upTo[wave - 1] \subseteq completed /\ completed \subseteq upTo[wave]
        /\ {t \in Tasks : pc[t] # "idle"} = upTo[wave] \ upTo[wave - 1]
        /\ ~failed /\ status # "cancelled" =>
             \A t \in Tasks : pc[t] \in {"branch", "out"} => t \in completed
    BY <2>1 DEF Waves
  <2>3. UpToGeneration(def)' = upTo /\ Cardinality(def.nodes)' = N
    BY <2>1
  <2> HIDE DEF upTo, N
  <2>4. ~failed /\ status # "cancelled" => completed = upTo[wave]
    BY <2>1, <2>2
  <2> QED BY <2>1, <2>2, <2>3, <2>4 DEF Waves
<1>4. CASE loop' = "done" \/ UNCHANGED <<def, loop, failed, status, skipped, completed, pc, wave>>
  BY <1>4 DEF Waves
<1>5. CASE Cancel
  <2>1. UNCHANGED <<def, loop, failed, skipped, completed, pc, wave>> /\ status' = "cancelled"
    BY <1>5 DEF Cancel
  <2> QED BY <2>1 DEF Waves
<1>6. HeadCancelled \/ (Head /\ ~FanOut) \/ ExitCancelled \/ ExitFailed \/ Complete \/ RunRaises
        => loop' = "done"
  BY DEF HeadCancelled, Head, FailExecution, ExitCancelled, ExitFailed, Complete, RunRaises, Leave
<1>7. UNCHANGED vars => UNCHANGED <<def, loop, failed, status, skipped, completed, pc, wave>>
  BY DEF vars
<1> QED BY <1>1, <1>2, <1>3, <1>4, <1>5, <1>6, <1>7 DEF Next, Loop

\* While nothing is skipped, the wave the loop runs is the generation
\* get_execution_order returns, however the coroutines of earlier waves
\* interleaved, failed or were retried.
THEOREM WavesFollowGenerations == Spec => []WavesAreGenerations
<1>1. SkipInv /\ Waves /\ [Next]_vars => Waves'
  BY WavesStep DEF SkipInv
<1>2. Waves => WavesAreGenerations
  BY DEF Waves, WavesAreGenerations, Generation
<1> QED BY <1>1, <1>2, SkipInit, SkipStep, WavesInit, PTL DEF Spec
=============================================================================
