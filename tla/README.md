# A verification development for python-backend-projects

The repository holds two Python services that share nothing but their style: the
**workflow orchestration engine** (`src/workflow-orchestration-engine`, WOE below) and the
**anomaly detection platform** (`src/anomaly-detection-platform`, ADP below). Both are FastAPI
applications with an async SQLAlchemy session per request, Celery workers and Redis. What is
hard in both is the same: a value is read in one transaction (or one Redis command) and acted
on in a later one, while another process commits in between. The modules here model those steps
one by one, TLC checks them on small instances, and TLAPS proves the safety part for all
instances.

1. [The system](#1-the-system) — parts, state, operations, hard behaviours
2. [The modules](#2-the-modules) — how state and actions correspond to the code
3. [The runs](#3-the-runs) — what each shows, its bounds, fairness
4. [What the code does against its documents](#4-what-the-code-does-against-its-documents)
5. [The proofs](#5-the-proofs)
6. [Assumptions and what is left out](#6-assumptions-and-what-is-left-out)
7. [Plan](#7-plan)

## 1. The system

### Workflow orchestration engine

| part | state | operations | what is hard | what makes it correct |
|---|---|---|---|---|
| Execution lifecycle (`services/workflow_service.py`, `services/execution_service.py`, `workers/workflow_worker.py`, `engine/executor.py`, `engine/state_machine.py`) | the status column of `workflow_executions`; messages in the broker; each session's copy of the row | trigger, cancel, retry; a worker receives, loads, starts, loops, completes or fails | the message is sent before the row is committed; statuses are checked on a stale copy; the message is acknowledged on receipt; a retry can add a second runner | one runner per execution; terminal statuses stay; nothing is stuck without a cause; cancellation stops every run |
| Task execution inside a run (`engine/executor.py`) | the sets `completed`, `skipped`, the flag `failed`, a semaphore, `task_executions` rows, one session shared by all coroutines | fan out ready tasks, run a node, retry an attempt, choose a branch, skip, fail, cancel | coroutines of a wave interleave at every `await`, and one's commit persists what another flushed | no task before its predecessors; a skipped task never runs; attempts bounded; completed means every task accounted for |
| DAG (`engine/dag.py`) | none | validate, ready tasks, generations | joins behind a skipped branch | waves are the topological generations |
| Scheduler (`engine/scheduler.py`, `services/schedule_service.py`, `workers/schedule_worker.py`, `cache/redis_client.py`) | `workflow_schedules` rows, `schedule_lock:<id>` keys with a 120 s TTL | create, update, toggle, delete; a checker lists, locks, refreshes, triggers, commits, releases | two checkers, a lock that expires or is released by another, a crash between send and commit, edits in between | a slot triggers once; runs are counted; a due schedule is served |
| Retry delays (`engine/retry.py`) | none | fixed, linear, exponential with jitter | jitter after the cap | delays within bounds |
| Handlers (`tasks/*.py`) | none | http, python, delay, condition, transform | external I/O, expression evaluation | outcome reported |
| WebSocket fan-out (`api/routes/websocket.py`, `main.py`) | one set of connections per API process; a Redis subscription with one listening task | connect, disconnect, listen, broadcast | clients come, go and fail at every await of a broadcast; events pass through Redis | every connected client gets each event once, in order |
| CRUD, dashboards, schemas, migrations | definitions and read models | single-row edits, paged lists | a count and a page are two statements while rows come and go | a client that pages to the end is given every row that was there all along, once |

They interact so: an API request or a checker inserts an execution and sends its id through the
broker; a worker loads the row, runs the DAG wave by wave and writes task rows and the outcome; an
API request may cancel or retry at any moment; every change is also published to Redis for the
WebSocket listeners.

### Anomaly detection platform

| part | state | operations | what is hard | what makes it correct |
|---|---|---|---|---|
| Metric ingestion (`services/metric_service.py`, `api/routes/metrics.py`, `kafka_client/consumer.py`) | `metric_sources`, `metric_data_points` | ingest one, ingest a batch, consume | one transaction per request with Redis written in the middle; two first points of a source, batches that wait for each other's inserts | a stored point is in the window and scored; only a source's first points can fail for its name |
| Sliding window and cooldown keys (`cache/redis_client.py`) | a sorted set per source and metric; `cd:` and `rulecd:` keys with TTL | zadd, zcard, zremrangebyrank; exists, setex | three commands are not one; check then arm is not one | bounded window with the newest points; one record per cooldown |
| Detection, rules, notifications (`services/detection_engine.py`, `services/notification_service.py`) | `anomaly_records`, `alert_notifications` | run_detection | all of the above, by concurrent callers | one record and one notification per cooldown |
| Batch detection worker (`workers/detection_task.py`) | – | re-runs detection once per recent row | it scores the newest point each time | cooldowns throttle it |
| Anomaly records and cleanup (`services/anomaly_service.py`, `workers/cleanup_task.py`) | status, acknowledged_at, resolved_at | acknowledge, resolve, false positive, delete old ones | writes that look at nothing; a job that deletes meanwhile | only what was resolved long ago, without a break, is deleted; an answer is true |
| Detectors (`detectors/*.py`) | isolation forest's model | z-score, MAD, EWMA, seasonal, isolation forest | histories without spread, shifts that stay, severity bands | z-score, MAD and EWMA absorb a lasting shift; sign and origin do not matter (origin but for the seasonal one) |
| Alert WebSocket (`api/routes/websocket.py`) | a list of connections with source filters | connect, disconnect, broadcast | the list grows and is rebound while several broadcasts iterate it | every connected client gets each alert once; no live client is removed |
| Dashboards, schemas, configuration, migrations | read models | paged list, statistics, overview | several statements make one answer | counts of one answer agree unless the table changed under it |

Ingestion stores a point and puts it into the window, then runs detection in the same request and
transaction; detection reads the window and the cooldown keys, stores records, arms keys and sends
notifications. As checked in, the package cannot be imported: `app/detectors/__init__.py:4` imports
a module `iqr` that is not in the repository and `app/models/anomaly.py:82` calls a method its class does not
have. The models say what the code does once those two lines are out of the way.

## 2. The modules

    Dag <- WorkflowExecutor <- MCWorkflowExecutor, WorkflowExecutorProofs
    ExecutionStates <- ExecutionStatus                          (abstract)
    ExecutionStates <- ExecutionLifecycle
                       ExecutionLifecycle <- ExecutionRefinement (INSTANCE ExecutionStatus)
                                             ExecutionRefinement <- MCExecutionLifecycle
                                             ExecutionRefinement <- ExecutionLifecycleProofs
    Scheduler       <- MCScheduler,       SchedulerProofs
    MetricDetection <- MCMetricDetection, MetricDetectionProofs
    MetricSources   <- MCMetricSources,   MetricSourcesProofs
    WebsocketFanout <- MCWebsocketFanout, WebsocketFanoutProofs
    Listing         <- MCListing,         ListingProofs
    AnomalyRecords  <- MCAnomalyRecords,  AnomalyProofs
    Detectors       <- MCDetectors,       AnomalyProofs

Definitions keep the source's names where they can. An action is the code between two awaits that
another actor can observe; consecutive steps nobody can see between are one action. History
variables are at the end of each VARIABLES list; no guard reads them, but for `added`, which keeps
MetricDetection's points distinct.

**ExecutionStates** is `VALID_TRANSITIONS` of `state_machine.py`.

**ExecutionLifecycle** has one variable per place a status lives: `row` (committed), `seen` (a
request's session) and `view` (a worker's session). A request is `idle`, then at `commit` or `send`,
then `done`; `trigger` sends before it commits, `retry` commits before it sends. A request that
dispatches is its own message: `queue` holds the requests whose message waits, a worker's `job` is
the message it took. `pc` walks `execute_workflow`: `load` (line 45), `start` (61), `head` (118),
`wave` (138–159), `exit` (163), `complete` (339). `Holds`, `Carried`, `StaleWriter` and `Settled` are
property vocabulary. `LoopResolves` chooses between the loop as written (`RaiseAtLock`) and the loop
whose undefined names are defined.

**ExecutionStatus** is what the lifecycle promises, without requests, messages or workers: a register
per execution and a set of writers. A writer *decides* on a transition that is legal from the status
at that moment, later *commits* it, whatever the status is by then, or *abandons* it.
**ExecutionRefinement** is the mapping: `status` is `row`, and a request's or worker's decision is
what the status it has read will make it commit.

**WorkflowExecutor** is the loop over a concrete graph. `pc[t]` is the coroutine of `t` in the wave:
`waiting` for the semaphore, `try` at the head of the retry loop, `handler` inside the task's
`execute`, `settle` after its success, `sleep` between attempts, `branch` before a condition's
skips, `out` when it has returned. `task[t]` is its row; `flushed` is a row that is inserted but not
committed and becomes `pending` with the next commit of any coroutine (`CommitRows`). `seen` is the
status in the shared session, changed by whichever coroutine refreshes. Three names of the loop do
not resolve: `lock` (line 138), `glock` in a method where it is not in scope (196) and the DAG method
`tasks_with_all_predecessors_skipped` (139); line 116 also passes six arguments to a method that
takes five. This module gives them the evident meaning; the external definition
`AllPredecessorsSkipped` is what the missing method's name says. ExecutionLifecycle, with
`LoopResolves = FALSE`, has the run as it really goes.

**Dag** is `dag.py`: predecessors, roots, validation, ready tasks, generations. `UpToGeneration` is a
recursive function, so the module can be used in proofs.

**Scheduler** counts time in cron slots. `life`, `active`, `cron`, `next` and `runs` are the row;
`seen` is the row as a checker refreshed it under the lock; `now` is taken once per pass. `Send` and
`Commit` are lines 66 and 69–70, `Release` the `finally` that deletes the key whoever set it.
`Expire` is the TTL; `Stalls` says whether a checker may outlive it. `RefreshGone` and `CommitGone`
are the exceptions a deleted row causes, which end the whole pass.

**MetricDetection** is one metric of one existing source. A caller is a request (one point or a
batch) or a run of the batch worker: `left` rounds, each `add`, `count`, `trim` (ingestion only),
`read`, then per detector that fires `check`, `record`, `arm`, `rules`, `armRule`, `notify`, and at
last `commit`. `open` counts the anomaly rows in a caller's transaction, `kept` the committed ones,
per detector since its cooldown last ran out. Points are numbered by timestamp and arrive in any
order. Which detectors fire, and which rules fit, is open.

**MetricSources** is where MetricDetection's existing source comes from. A request is `lookup`
(`get_or_create_source`'s SELECT), `insert` (its flush), `store` (the rest of `ingest_metric`), per
name of its batch, then `commit`; POST /sources starts at `insert`. `owner` is the committed row,
`mine` what a transaction has inserted. The unique name is in the guards of `Insert`: it waits for
another transaction's row (`BlockedBy`), and `InsertTaken` fails the request when that row is there
to stay. `DeadlockVictim` is the database ending a circle of such waits. `Fail` rolls back, the
window's keys stay.

**WebsocketFanout** has both `ConnectionManager`s, `manager` says which. A client's `route` is its
handler's place, `up` its socket. A broadcast holds the list it iterates and its place in it; for
"alerts" that list is the manager's own until a `disconnect` rebinds `_connections`, so `Register`
appends to both and a removal touches only one. For "executions" it is a copy, of a set, in any
order. Each send is an await: `Deliver` or `SendFails` ends it and starts the next, and after the
last the dead are removed in the same step (`Finish`). `Take` is the one listener of the Redis
channel, which awaits each broadcast; `Alert` is any of several detections. When the connection to
Redis fails the listener's task is over and nothing starts it again (`ListenerEnds`).

**AnomalyRecords** has the rows, one session per request and the weekly job. `Load` is the SELECT of
`get_anomaly`, whose status the session keeps (`loaded`); `Commit` writes the attributes that differ
from what was loaded, so a request that finds its status already there writes none (`MovesStatus`).
Times are ages in ticks, `Tick` makes everything older, and the job compares with the cutoff it took
when it started (`lag` ticks ago). A record that was re-opened keeps its `resolved_at`, as in the code.

**Listing** is the read side of both services: the three paged lists (anomalies, executions,
workflows) run a count and an OFFSET page, the two reports (`get_stats`, the overview) several counts,
one statement each, between which rows are stored, enter or leave the filter, or are deleted.
`IsPage` is what ORDER BY with OFFSET and LIMIT may return when times tie: any order among equals.

**Detectors** is the arithmetic: four of the detectors as functions of a history and a current value.
A z-value is kept as a ratio, squared where the code takes a square root, so comparisons are exact
where the code has floats; the tolerance 1e-12 becomes "the spread is zero". The variable is one
sliding window that grows by one value per step; what the code does with a verdict is
MetricDetection's. `numpy.convolve(mode="same")` pads with zeros, and so does `MovingSum`: the trend
of a metric sags at both ends in proportion to its distance from zero. With the default threshold and
period a perfectly level series is then reported at some history lengths (35, 45, 47, 54, 57, 59, 63,
66, 69, 72 and from 75 to 99), and shifting the origin changes the verdict. No document promises
otherwise, so no property claims it.

### Variants

Definitions whose name ends in `Variant` stand beside the definition they alter; nothing uses them.
Each is a slip the code could have had, and substituting it breaks the property named here, which
is how each property is known to depend on the code.

| definition | slip | property it breaks |
|---|---|---|
| `Deliver` | a message is not acknowledged on receipt | `NoTwoRunnersWithoutRetry` |
| `Dispatch` | the task is never sent | `OrphanHasCause` |
| `RaiseAtLock` (Record) | the exception is recorded as failed | `OnlyCancellationEnds` |
| `RaiseAtLock` (Wait) | the coroutine waits for a lock nobody frees | `MessagesTaken` |
| `AfterFailure` | no `break` after a failed wave | `FailureNeverRecorded` |
| `AfterLoad` | running is written without asking the state machine | `SettledStays`, `StatusPromise` |
| `RetryRefuses` | a running execution may be retried | `OnlyKnownOverwrites` |
| `IsCancelled` | the poll never answers yes | `CancelStopsRun` |
| `Counted` | the run is not counted | `RunsCounted` |
| `CanLock` | SET without NX | `OneChecker` |
| `Following` | the next run is not advanced | `EachSlotOnce` |
| `Expires` | the key has no TTL | `DueIsServed` |
| `ReadyTasks` | ready when one predecessor completed | `PredecessorsFirst`, `WavesAreGenerations` |
| `WaveOver` | the wave ends with its first task | `SkippedNeverRuns`, `NoRowLeftRunning` |
| `AllAccounted` (Early / –) | off by one / skipped not counted | `CompletedMeansAll` / `RunEnds` |
| `Exhausted` (executor) | gives up one attempt early | `FailureIsExhaustion` |
| `Refreshed` | the status is not refreshed | `CancelIsPrompt` |
| `Excess` | trims one too few / one too many | `WindowBounded` / `RecentUnlessOverlapped` |
| `Scored` | the oldest value is scored | `InOrderIsScored` |
| `IsCooling` | the cooldown is not asked for | `OncePerCooldown` |
| `ArmsAtCheck` | the key is set by the check, before there is a row | `SilenceHasCause` |
| `Finds` (Own / Committed) | looks only among its own / only among committed rows | `OnlyFirstPointsLose` / `RequestsEnd` |
| `StoreAs` | the window's key is named after a new row's id | `PointsHaveWindows` |
| `Exhausted` (fan-out) | the loop stops at the first failed send | `OnceEach`, `FeedDelivers` |
| `Free` | a task per message in place of an awaited broadcast | `EventsInOrder` |
| `MovesStatus` | the status is written only when the record was new | `AnswerIsTrue` |
| `Expired` (AnyStatus / Never) | the job looks only at resolved_at / at an age nothing reaches | `DeletedLongResolved` / `ResolvedLeaves` |
| `Offset` | pages counted from one in the offset | `NothingMissed` |
| `IsPage` | no ORDER BY | `NothingTwice` |
| `Deletable` | rows of today are deleted too | `ReportsAgree` |
| `StandardError` | the deviation divided by the error of the mean | `LevelIsAbsorbed` |
| `EwmaFromZero` | the average starts at zero | `SameInSignAndOrigin` |

## 3. The runs

| run | expects | instance | properties |
|---|---|---|---|
| `lifecycle_as_written` | pass, 51 583 states | 2 executions, 3 requests, 2 workers, crashes, loop as written | `NoTwoRunnersWithoutRetry`, `OrphanHasCause`, `OnlyCancellationEnds`, `MessagesTaken` |
| `lifecycle_resolved` | pass, 41 929 | 1 execution, 3 requests, 2 workers, crashes, names resolved | `FailureNeverRecorded`, `SettledStays`, `OnlyKnownOverwrites`, `CancelStopsRun`, `StatusPromise` |
| `lifecycle_dispatch` | violation | 1 execution, no crash | `PersistedIsDispatched` |
| `executor_waves` | pass, 23 455 | all graphs of 3 tasks up to naming with a retry, 5 graphs with a condition, 2 slots | `PredecessorsFirst`, `SkippedNeverRuns`, `CompletedMeansAll`, `FailureIsExhaustion`, `CancelIsPrompt`, `WavesAreGenerations`, `NoRowLeftRunning`, `RunEnds` |
| `scheduler_locked` | pass, 146 498 | 1 schedule, 2 checkers, 2 cron expressions, 3 slots, 1 crash, no stall | `OneChecker`, `EachSlotOnce`, `RunsCounted`, `DueIsServed` |
| `scheduler_stalled` | violation | same without crash, with a stall | `EachSlotOnce` |
| `detection` | pass, 3.4 million | 2 callers, 3 points, window of 1, 1 detector, 1 rule, batches of 2 | `WindowBounded`, `RecentUnlessOverlapped`, `InOrderIsScored`, `OncePerCooldown`, `SilenceHasCause` |
| `sources` | pass, 274 038 | 3 requests of one or two points or POST /sources, 2 names | `OnlyFirstPointsLose`, `PointsHaveWindows`, `RequestsEnd` |
| `anomalies` | pass, 399 369 | 1 record, 3 requests, archive period of 2 ticks, a job that may span 1 | `DeletedLongResolved`, `AnswerIsTrue`, `ResolvedLeaves` |
| `detectors` | pass, 9 841 | windows of up to 8 values out of {0, 1, 5}, threshold 2 (3.5 for MAD), span 2, period 3 | `LevelIsAbsorbed`, `SameInSignAndOrigin` |
| `listing` | pass, 2.4 million | 4 rows, 2 of them critical, pages of 2, 3 days | `NothingMissed`, `NothingTwice`, `ReportsAgree` |
| `fanout` | pass, 76 569 | both managers, 2 clients (one filters every second message), 2 broadcasting tasks, 3 messages | `OnceEach`, `EventsInOrder`, `FeedDelivers` |

Each module states its type invariant, `TypeOK` (`WindowTypeOK` in Detectors, whose `Init`, `Next` and
`Spec` are `Window...` likewise, so that AnomalyProofs can extend it beside AnomalyRecords). It is proved
for every module but ExecutionStatus, whose variables the refinement maps.

What they show, and why the instances are large enough:

- **Lifecycle.** A stale overwrite needs one reader that waits and one that commits: two workers and
  a request, or two requests and a worker. Three requests give a trigger, a cancel and a retry (or
  two triggers and a retry with two executions, so that messages of different executions queue behind
  each other). As written, every run that gets past its load either finds the execution cancelled
  or raises at line 138, so cancellation is the only end; with the names resolved
  `OnlyKnownOverwrites` lists all the writes the read-then-commit pattern lets through: *start* over a
  cancelled or completed row, *cancel* over a completed one, *complete* over a cancelled one. A
  terminal status nobody holds an older reading of stays. A failed wave leaves the loop by its
  `break` before `_fail_execution` can be reached, so no failure is ever recorded, and since retry is
  meant for failed executions it only ever accepts pending ones. `StatusPromise` is the refinement: every
  one of those writes was legal for the status its writer had read, and each decision is written at
  most once, whatever crashes or is delivered late.
- **Executor.** Three tasks have every shape that matters for order: chain, fork, join, independent;
  one task with two attempts beside tasks with one gives a retry while siblings run, fail or are
  cancelled; two slots for three tasks make a coroutine wait for the semaphore. Four-task graphs
  add a choice with a task behind a branch, and a join behind both. `BranchesAhead` is the
  precondition that a condition's branches depend on it, as in the README's example and
  `scripts/sample_workflows.py`; without it (the graph whose branch names a task beside the
  condition) a task may be completed and skipped, and be counted twice. `CancelIsPrompt`, `RunEnds` and `NoRowLeftRunning`
  hold without it. `RunEnds` says plainly what the loop does with a join that one
  branch reaches and the other does not: never ready, never skipped, the loop sleeps for ever.
- **Scheduler.** Two cron expressions of different period make an edit move the next slot both
  ways; three slots let a schedule fall due, be served and fall due again. One crash is enough to
  strand a key and to separate a send from its commit. `EachSlotOnce` and `RunsCounted` exempt a
  schedule one of whose checkers died exactly there (`cut`); the lifecycle's model of a trigger starts
  where `Send` ends. When a checker outlives the TTL exclusion is gone and a slot is sent twice.
- **Detection.** Two writers whose trims overlap can empty a window of one, so that a detection finds
  nothing to read; a third point, late or new, then shows what is scored. The
  window exceeds its size by at most the writers inside plus those that died inside, and overlapping
  writers trim the same excess twice: k of them that count before any trims remove k members each,
  down to an empty window. In order and without overlap, the point ingested is the point scored. Two
  callers with two rounds each cover request against request, request against batch worker, and a
  batch against its own cooldown. `OncePerCooldown` needs two callers in the gap between check and SETEX
  and one that comes later. `contenders` remembers who was in the gap when the key was first set: each of them
  leaves one row in that cooldown at most, also when it sets the key again or starts another round, and
  nobody else leaves any. Detectors have a key each and are taken one after the other, so one
  of them meets every interleaving of its own key; the loop over several is in the module and not in
  this instance. The key is set in Redis before the row's transaction commits: `SilenceHasCause` says that a
  detector is silenced without a row only by a rollback, never by the order of the two.
- **Sources.** Two names are the least that deadlock (two batches in opposite order), three requests
  the least where one waits for two in a row, or finds the source made by whoever won. A request
  that fails for a name began before the name was committed; the next one finds it. A window keyed
  by the id of a row that was rolled back stays in Redis, and no committed point depends on it
  (`PointsHaveWindows`).
- **Anomaly records.** Records share nothing but the job, so one is enough; three requests let one be
  overtaken by a second while a third re-opens. An archive period of 2 with a job that spans 1 puts
  the cutoff, the age of `resolved_at` and the time since the record was last resolved on either side
  of each other. A record re-opened by a late acknowledge keeps its `resolved_at` and is still safe:
  the job asks for the status too, and the next resolve renews the time. A request that nobody
  overtook leaves the status it answers, although the session writes only what differs.
- **Listing.** Four rows in pages of two make a third, empty page, a page that shifts when a row is
  stored before it or deleted from it, and a pair of equal times across a page boundary.
  `NothingMissed` and `NothingTwice` say which of these hide or repeat a row: a row that stops
  matching on an earlier page hides the next one, a row that comes to match repeats one, and rows of
  one time do either, because the ORDER BY has nothing to tell them apart by. `run_detection` stores
  all anomalies of one request at one time.
- **Detectors.** Eight values give MAD both parities, EWMA and the seasonal model with period 2 (two
  full cycles) several steps past their minimum history. `LevelIsAbsorbed` bounds how long z-score,
  MAD and EWMA report a metric that moved to a new level and stays there: until its value has a share of
  about 1/(1+threshold²) of the history (half of it for MAD, the last `Span` values for EWMA). The seasonal
  detector is excluded: the zero padding of its trend lets it report even a series that never changes, at
  some lengths of the window for ever. `SameInSignAndOrigin` holds for all four under a change of sign, and
  for three under a shift. It compares severities, so it covers the scores too. It does not speak of the
  scale: the code takes a spread below 1e-12 for none (`zscore.py:18`, `mad.py:28`, `ewma.py:43`), whatever
  the unit of the metric, and the model has "the spread is zero" in its place. The other side of that guard
  follows from the definitions: from a level that never moved, z-score, MAD and EWMA see no jump, however
  large. For MAD the history need not even be level: its measure is zero as soon as more than half of the
  history is one value, which a test denies (section 4).
- **Fan-out.** A broadcast with a client that leaves, one that arrives and a second broadcast that
  removes the same dead client: two clients, two tasks. A third message shows order. As each client
  registers once and a removal never touches a list in use, what "alerts" does with its own list is
  safe, and the copy and the lock of "executions" only decide whether a newcomer hears the message
  under way.

Bounds: `MaxSlot` (clock), `MaxCrashes` (checker crashes), `MaxPoint` and `MaxBatch` (points),
`MaxEvents` (messages), `MaxLag` and the age `Archive + MaxLag + 1` past which nothing compares a
time (records), `Size` and `Today` (listing), `WindowSize`, `Span` and `Period` (detectors), and the
finite sets of executions, requests, workers, checkers, callers, clients, rows and tasks. Attempts are
bounded by the definition. In the lifecycle and in `sources` a request is used once; an idle caller
of MetricDetection or AnomalyRecords may be used again.

Deadlock is checked where the system never stops (scheduler, detection, anomalies, listing,
detectors: a caller can always begin or fail, a clock at its bound still lets checkers run). The
lifecycle stops when all requests are used up, `sources` likewise, a run of the executor when it has
returned, and the fan-out when all clients have gone and all messages are sent, so those runs do not
check it. Symmetry is used for the interchangeable sets in `detection` and `lifecycle_dispatch`, which
check invariants only.

**Fairness.** `ExecutionLifecycle!FairSpec`: a live worker process goes on with its task and takes a
message when it is free — Celery's prefork loop. Nothing is assumed of requests (a client may never
come) or crashes. `WorkflowExecutor!FairSpec`: the event loop resumes every coroutine that can run,
and a handler ends because `asyncio.wait_for` bounds it. Nothing is assumed of cancellation or of
exceptions. `Scheduler!FairSpec`: beat keeps calling `check_schedules` (`beat_schedule`), a live
checker goes on, and a key that may expire does. `MetricDetection` promises nothing that needs it.
`MetricSources!FairSpec`: a request that can go on does, a lock that is free is granted and the
database looks for deadlocks; requests need not come, and nothing has to fail otherwise.
`WebsocketFanout!FairSpec`: a send ends, at the latest by the server's ping timeout, and the event
loop resumes broadcasts and the listener. Clients and Redis owe nothing.
`AnomalyRecords!FairSpec`: beat starts the cleanup job again and again (`celery_app.py`), and a job
that is started again and again gets to its DELETE once (strong fairness: not every job fails).

## 4. What the code does against its documents

| run | document | code |
|---|---|---|
| `lifecycle_dispatch` | README 180: the API persists an execution and dispatches it | `workflow_service.py:107` sends before `database.py:34` commits; a fast worker finds no row, returns, and the execution stays pending |
| `scheduler_stalled` | README 110: a lock per row avoids duplicate triggers | the key expires after 120 s whatever its holder does, and the trigger is sent before the commit |

Other places where code and document part. Where a property is named, a passing run checks what does hold:

- README 84 has running lead to completed, failed, cancelled or timed_out. `executor.py:138` enters an
  undefined name, the exception is recorded nowhere, and `OnlyCancellationEnds` says what is left.
- README 96–97 call completed and cancelled final. `executor.py:61` writes running on a status read at
  line 45, and `cancel_execution` decides on a status the identity map keeps; `OnlyKnownOverwrites`
  lists the four writes that reach past a final status, `StatusPromise` says why they are all.
- ADP README 148 has keys throttle duplicate records. `detection_engine.py:54` asks and line 70 sets,
  with a flush between: duplicates happen. `OncePerCooldown` says which: at most one for each
  caller that had asked and not yet set the key when it was set, and none for those that ask later.
- ADP `tests/test_detectors.py:32-36` (`test_mad_detects_outlier`) scores 40.0 after
  `[10.0] * 20 + [10.1, 9.9, 10.05]` and asserts `r.is_anomaly is True`. More than half of that history is
  10.0, so its MAD is 0, the guard of `mad.py:28-29` takes z for 0, and 40.0 is no anomaly: the assertion
  fails. In Detectors it is the zero denominator of `Mad`, for which `Measure` answers 0; no run is spent on
  it, as it is a single evaluation. The test never reports it, since its file imports the missing `iqr` and
  cannot be collected as checked in.
- ADP README 147 calls `run_batch_detection` periodic; the beat schedule has the two cleanup jobs only.

## 5. The proofs

The theorems hold for every value of the constants that meets the named assumption
(`ConstantsAssumption`, `WritersAssumption`, `ScheduleAssumption`, `ExecutorAssumption`,
`DetectionAssumption`, `SourcesAssumption`, `RecordsAssumption`, `FanoutAssumption`,
`ListingAssumption`, `DetectorsAssumption`), with or without fairness, since they are about `Spec`
(`WindowSpec` in Detectors). The assumptions only say what kind of value a constant is, that requests
and workers are different things, that cron slots advance, that a definition passed `dag.py`'s
validation with at least one attempt per task, that the detectors, rules, points and batches are finite
and the window has room, that tables are finite and pages not empty, and that values are integers and
thresholds positive. They are evaluated by TLC in every run.

**ExecutionLifecycleProofs.** `Invariant` is the inductive invariant `Inv`: `TypeOK`; `Wired` (a
message is a request that has been sent and is either queued or held by exactly one worker; a busy
worker holds one); `RowInv` (one trigger per execution, a row exists from its trigger's commit on; no
failure is recorded, hence every accepted retry read pending; a run past its start has left pending
behind); `CauseInv` (an uncarried execution has a recorded cause, also before its row is
committed); `AsWrittenInv` (no worker gets past the head of the loop). None is inductive alone: that a
worker past `load` has an existing row needs `Wired`, that a pending orphan was dropped needs that
nothing returns to pending, which needs that nothing ever fails. From it follow `TypeCorrect`,
`OneRunner`, `OrphansExplained`, `NeverFailed`, `OnlyCancelled`, and, with a lemma on which step may
change a row and from what, the action properties `KnownOverwrites` and `SettledForGood`.

The same module proves the refinement. `KeepsPromise`: the lifecycle implements ExecutionStatus. Every
step of a request or worker maps to Create, Decide, Commit, Abandon or a stutter, one lemma for requests
(`RequestRefines`) and one for workers (`WorkerRefines`), each by the action taken; the frame lemmas say
that a step changes the decision of its own process only. It needs the lifecycle's `Inv`: that a request
under way has an existing target, that a trigger's row is absent until its commit, that a worker past
its load runs an existing execution, and that every retry read pending (no failure is recorded), so that
a retry's commit writes the status that is there.

**SchedulerProofs.** `TypeAndLock` proves typing together with exclusion: a checker between acquire
and release has its schedule's key as long as nobody outlives the TTL, so the blind release frees only
its own. Under it `SlotsAdvance` (the row's next slot is later than the last one sent, except while
its sender is about to commit) gives `SlotsOnce`, and `RunsTracked` gives `RunsAreCounted`.

**WorkflowExecutorProofs.** The invariant grows in stages, each proved with the earlier ones:
`Coroutines` (a coroutine exists only for a task of the definition in a running wave), `Order` and
`Unfinished` (what has started has completed, finished predecessors), `Disjoint` (what is skipped
never started: a chosen task's predecessor is the condition, still in its wave), `Rows` (the sets agree
with the committed rows), `Counters` (the attempt number agrees with the handler starts),
`UsedUp`/`Failure` (the flag has an exhausted task behind it unless cancelled), `Prompt` (those that
started late or may still are at most the slots), `Running`. `CompletionIsComplete` uses that two
disjoint subsets of a finite set whose sizes add up to its size cover it.

`Waves` gives `WavesFollowGenerations`: while nothing is skipped, a run that goes on has completed
exactly the first generations between two waves, and the wave that runs is the next one.
`GenerationFacts` says what the recursion of `get_execution_order` computes for a graph whose definition
passed validation.

`AttemptsStayBounded` is proved and in no run: the attempts are the variable the loop counts with.

**MetricDetectionProofs.** `Handling` (who handles a detector or rule has one) makes typing inductive.
Four parts give `OncePerCooldown`. `RowsUnderCooldown`: what a caller has stored since the cooldown
began is under the key, but for the row it is about to arm, and it is one row. `RowsContended`: whoever
has a row under the key, or is still between its check and its SETEX, was there when the key was set, as
nobody passes the check since. `ToldUnderCooldown` and `ToldContended` say the same of notifications. `ArmingHasRow` gives
`SilenceHasCause`. For the window, `Trimmable` says that a caller about to trim counted more members
than the window may hold: its trim removes at least the oldest member (`TrimRemoves`), so the excess is
covered by writers still inside or dead. `KeepsLatest` says that without overlap there is one writer,
which trims the very window it counted; such a trim keeps the newest member (`TrimKeepsNewest`) and
whatever has fewer than `WindowSize` later ones (`TrimKeepsRecent`), which gives `InOrderIsScored` and
`RecentUnlessOverlapped`. Least and greatest members of sets of naturals exist by well-founded
induction from the library.

**MetricSourcesProofs.** `RowsHaveMakers`: an uncommitted row belongs to one transaction, and the maker
of a committed one is done. `LookedUp`: a request about to insert for an ingestion does not know the name,
one about to store finds it. `HandledHaveWindows`: the names a batch is through with have their window
under the id they will be committed with. At the commit nothing is left to do, which gives
`WindowsFollowSources`; a request that meets a taken name at its insert did not know it when it began,
which gives `FirstPointsCompete`.

**WebsocketFanoutProofs.** `Connected`: the list has distinct clients, and every registered one whose
socket is open is in it; a removal never takes anybody whose socket works. `Iterating`: a broadcast goes
over distinct clients, and over what the list is *now* when it was not copied. `Numbered`: inbox and
broadcasts split the published messages in order, and no two broadcasts are about the same one.
`Passing` is the core: every client the message was meant for is in the list under iteration, those
before the position have it if they want it and are still there, those from the position on do not. A
removal makes a new list, so it disturbs no iteration; a newcomer appended to a list that is shared
comes after the position. With `Received` it gives `BroadcastsReachOnce`. `Listening` says that
execution events are broadcast one at a time over a copy, and that a connected client has the last one
or is still to be passed; it gives `EventsStayInOrder`. `WithoutFacts` states what the filter that
removes the dead returns: the same clients but those, each still once.

**ListingProofs.** A page is any set that some order of the ties allows, so the invariant speaks of how
many rows are newer than a row, which no order of ties changes. `PageFacts`: an untied row is on the
page between whose offset and the next one that number lies. `Ahead` (a steady row not given yet has at
least an offset of newer rows) and `Behind` (a row given already has fewer) are inductive as long as no
row has left, or come, and give `PagesMissNothing` and `PagesRepeatNothing`. `Adding`: a count already
taken is still right unless a row moved, and those of today only grow; it gives `ReportsAgreeAlways`.

**AnomalyProofs** has two parts. *Records.* `ResolvedIsTimed`: a resolved record has a `resolved_at` no
older than its last resolution by more than one tick, and the job deletes only what is strictly past the
archive period, which gives `DeletionWaits`. `LoadedHolds` (what a request loaded is what the row says
until somebody overtakes it) gives `AnswersAreTrue`.

*Detectors.* The theorems hold for histories of any length, so the work is in lemmas about sums, ranks and
recurrences; the invariant is the typing of the window.

- `LevelsAreAbsorbed`, z-score: with e = h - c, the square of the mean's distance from c is bounded by
  Cauchy-Schwarz over the values that differ from c (`Cauchy`), so with k copies of c the square of z is
  at most (n - k)(n - 1) / (n k), which an anomaly has above Sigma². MAD: if more than half of the
  history is c, it is the median, whatever the rest is, and the deviation is zero. EWMA: while a value
  repeats, the residuals shrink by (Span - 1)/(Span + 1) from each to the next (`ResidualShrinks`), and
  such a sequence of Span terms spreads too much for its last term to stand out by even one standard
  deviation (`GeometricSpread`, from the closed form of its sums in `GeometricSums`).
- `SignAndOriginDoNotMatter`: `Restates` relates a history and the same history with sign or origin changed; for
  each detector one lemma says that its measure is the same. `RankedRestated` shows that turning the
  sign turns the ranks round and so keeps the median; `SquaredZMap` that the spread ignores the origin
  and both signs; `EwmaRestated` that the average is restated in its own scale; `SeasonalNegated` covers
  the sign for the seasonal model. Its lack of a shift lemma is the code's (zero padding).

**Induction over data.** The library's induction theorems take a predicate as an operator, which no
installed prover can instantiate. The proofs use a set instead: `SetInduction` says that a set of
naturals that contains 0 and with n also n + 1 contains them all (from `NatLessThanWellFounded`, which
has no parameter), `SubsetInduction` the same for the subsets of a finite set, and `Recursion` that a
recursive function exists. With them sums (`SumsFacts`, `TotalCombine`), powers (`UnitFacts`), the
moving average (`EwmaFacts`), list filters and generations are proved for every input.

Only model-checked: liveness (`MessagesTaken`, `CancelStopsRun`, `DueIsServed`, `RunEnds`,
`RequestsEnd`, `ResolvedLeaves`, `FeedDelivers`), which the prover does not handle with fairness. Every
safety property of a passing run is a theorem.

## 6. Assumptions and what is left out

- The broker delivers each message at most once (Celery's default early acknowledgement) and loses
  none it holds. The database isolates at READ COMMITTED; an UPDATE writes the changed columns only;
  a second SELECT in a session returns the object first read unless it is refreshed.
- A database or Redis error inside a worker, run or caller has the effect of that process dying
  there (`WorkerCrash`, `RunRaises`, `Fail`): the transaction is rolled back, Redis keeps what it was
  told. In a checker the `finally` still releases the lock; that is `Crash` followed by `Expire`.
- The scheduler's API handlers read and write a row with no other await between, so they are one
  step. Cron arithmetic is the constant `NextSlot`.
- In ExecutionLifecycle the tasks of a run are one abstract wave; in WorkflowExecutor there is one run
  of a fresh execution, with one row per task. A second run of the same execution, started by a
  retry while the first is under way, is in the former but not at task level.
- `cancel_execution` in WorkflowExecutor is one committed step; its stale decision is in
  ExecutionLifecycle. Rows created or reset after it stay `pending` in a cancelled execution, as in
  the code.
- MetricDetection takes distinct timestamps, an existing source and metric, and rules that do not
  change between the query and their check. `run_batch_detection` is in no beat schedule; it is
  modelled as something that may be called at any time. The batch worker's limit of 500 rows and
  its 15 minutes are "all rows".
- In MetricSources the database isolates at READ COMMITTED, a point's detection is one step (it is
  MetricDetection's), and a row of a source is never deleted: no code does.
- In WebsocketFanout the list a broadcast iterates is a value, with the rule of when it is still
  `_connections` itself. What a socket accepted before it closed counts as delivered or not, either
  way. The executor's `ws_manager` is never given to it, so it only publishes.
- The Kafka consumer is not modelled: as checked in, `select` and `MetricSource` are not imported in
  `consumer.py`, every message ends in a swallowed NameError, and nothing but the offset changes.
- In AnomalyRecords a session writes the attributes that changed; a request lasts at most one tick and a
  job at most `MaxLag`, which only bounds how far a stamp may lag behind its commit.
- In Listing every statement sees what is committed when it runs, readers share nothing but the table,
  and a row's filter is one flag: a row is "match" or "other".
- In Detectors values are integers and the arithmetic is exact. What rounding does at the threshold is
  not covered.

Not modelled:

- task handlers (`tasks/*.py`): external I/O and expression evaluation, a nondeterministic choice in
  WorkflowExecutor;
- retry delays (`engine/retry.py`): a pure function of the attempt and a random factor that no other
  state depends on; the model lets a delay be any. (The jitter is applied after the cap, so a delay
  may exceed `max_delay` by half);
- the isolation forest: a seeded scikit-learn model; `iqr.py`: imported, but not in the repository;
- `cleanup_old_metrics`: it deletes points by age, and nothing refers to a point;
- the Kafka consumer, as said above, and the value cache and counters of `cache/redis_client.py`,
  which no other part relies on;
- rows of notifications, and the routes that create, edit and delete rules: an edit is the choice of
  which rules fit (`Arm`);
- single-row CRUD, the timeline, the single-query reports, schemas, configuration, migrations,
  HTTP and response formats.

## 7. Plan

Done, in this order: ExecutionLifecycle; Scheduler; Dag and WorkflowExecutor; MetricDetection;
MetricSources; WebsocketFanout; ExecutionStatus with its refinement; AnomalyRecords; Listing;
Detectors; the proofs of every safety property the runs check. What is left, in order of importance:

1. Two runs of one execution at task level, and a rerun that starts from the task rows of an earlier
   one (lines 69–80 of the executor); then the executor's loop shown to implement the lifecycle's wave
   abstraction.
2. Notifications with their rows, and rules edited while a detection runs.
