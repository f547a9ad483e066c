--------------------------- MODULE AnomalyRecords ---------------------------
(***************************************************************************)
(* Anomaly records of the anomaly-detection platform: the requests that    *)
(* move a record's status, and the weekly job that deletes records         *)
(* resolved long ago.  Times are kept as ages: how many ticks ago          *)
(* something happened, up to the age past which nothing compares it.       *)
(* acknowledged_by is left out: it is set with the status and never read.  *)
(***************************************************************************)
EXTENDS Integers

CONSTANTS
  Records, Requests,
  Archive,         \* RESOLVED_ANOMALY_ARCHIVE_DAYS, in ticks
  MaxLag           \* ticks a running cleanup job may span

ASSUME RecordsAssumption ==
  Records # {} /\ Archive \in Nat \ {0} /\ MaxLag \in Nat

VARIABLES
  status, resolvedAt,          \* the rows
  op, target, loaded, stamp,   \* per request: what it asks, of which record,
                               \* the status it loaded, the age of its "now"
  job, lag,                    \* the cleanup job runs; the age of its "now"
  entered, overtaken           \* history: age of the row's last change to
                               \* "resolved"; the row was written to since the
                               \* request loaded it

rows == <<status, resolvedAt>>
requests == <<op, target, loaded, stamp>>
vars == <<rows, requests, job, lag, entered, overtaken>>

MaxAge == Archive + MaxLag + 1
Never == -1                 \* resolved_at is null
Ages == 0 .. MaxAge
Older(a) == IF a \in 0 .. MaxAge - 1 THEN a + 1 ELSE a

Kinds == {"acknowledge", "resolve", "false_positive"}
Written(k) == CASE k = "acknowledge" -> "acknowledged"
                [] k = "resolve" -> "resolved"
                [] OTHER -> "false_positive"
Statuses == {"absent", "new", "acknowledged", "resolved", "false_positive", "deleted"}
Live(r) == status[r] \notin {"absent", "deleted"}
AnyRecord == CHOOSE r \in Records : TRUE

TypeOK ==
  /\ status \in [Records -> Statuses]
  /\ resolvedAt \in [Records -> Ages \cup {Never}]
  /\ op \in [Requests -> Kinds \cup {"none"}]
  /\ target \in [Requests -> Records]
  /\ loaded \in [Requests -> Statuses]
  /\ stamp \in [Requests -> {0, 1}]
  /\ job \in BOOLEAN /\ lag \in 0 .. MaxLag
  /\ entered \in [Records -> Ages]
  /\ overtaken \in [Requests -> BOOLEAN]

Init ==
  /\ status = [r \in Records |-> "absent"]
  /\ resolvedAt = [r \in Records |-> Never]
  /\ op = [q \in Requests |-> "none"]
  /\ target = [q \in Requests |-> AnyRecord]
  /\ loaded = [q \in Requests |-> "absent"]
  /\ stamp = [q \in Requests |-> 0]
  /\ job = FALSE /\ lag = 0
  /\ entered = [r \in Records |-> 0]
  /\ overtaken = [q \in Requests |-> FALSE]

-----------------------------------------------------------------------------

\* run_detection commits a new record.
Detect(r) ==
  /\ status[r] = "absent"
  /\ status' = [status EXCEPT ![r] = "new"]
  /\ UNCHANGED <<resolvedAt, requests, job, lag, entered, overtaken>>

\* The handler loads the row, whatever its status; an unknown id is answered 404
\* and changes nothing.
Load(q, k, r) ==
  /\ op[q] = "none"
  /\ Live(r)
  /\ op' = [op EXCEPT ![q] = k]
  /\ target' = [target EXCEPT ![q] = r]
  /\ loaded' = [loaded EXCEPT ![q] = status[r]]
  /\ overtaken' = [overtaken EXCEPT ![q] = FALSE]
  /\ UNCHANGED <<rows, stamp, job, lag, entered>>

Leave(q) ==
  /\ op' = [op EXCEPT ![q] = "none"]
  /\ target' = [target EXCEPT ![q] = AnyRecord]
  /\ loaded' = [loaded EXCEPT ![q] = "absent"]
  /\ stamp' = [stamp EXCEPT ![q] = 0]

\* The session writes the attributes that differ from what it loaded:
\* resolved_at is a new time, the status may be the one it had.
MovesStatusFromNewVariant(q) == loaded[q] = "new"
MovesStatus(q) == Written(op[q]) # loaded[q]

SetsResolvedAt(q) == op[q] = "resolve"

Commit(q) ==
  LET r == target[q]
      writes == MovesStatus(q) \/ SetsResolvedAt(q) IN
  /\ op[q] # "none"
  /\ Live(r) \/ ~writes
  /\ status' = IF MovesStatus(q) THEN [status EXCEPT ![r] = Written(op[q])] ELSE status
  /\ resolvedAt' = IF SetsResolvedAt(q) THEN [resolvedAt EXCEPT ![r] = stamp[q]] ELSE resolvedAt
  /\ entered' = IF status'[r] = "resolved" /\ status[r] = "resolved"
                  THEN entered ELSE [entered EXCEPT ![r] = 0]
  /\ overtaken' = [p \in Requests |-> p # q /\ (overtaken[p] \/ (writes /\ op[p] # "none" /\ target[p] = r))]
  /\ Leave(q)
  /\ UNCHANGED <<job, lag>>

\* The row is gone, which fails the UPDATE, or the request dies: rolled back.
Abort(q) ==
  /\ op[q] # "none"
  /\ overtaken' = [overtaken EXCEPT ![q] = FALSE]
  /\ Leave(q)
  /\ UNCHANGED <<rows, job, lag, entered>>

-----------------------------------------------------------------------------
(* The cleanup job: it takes its cutoff, connects, and deletes in one       *)
(* statement.                                                              *)

JobStarts ==
  /\ ~job
  /\ job' = TRUE
  /\ UNCHANGED <<rows, requests, lag, entered, overtaken>>

ExpiredAnyStatusVariant(r) == Live(r) /\ resolvedAt[r] > Archive + lag
ExpiredNeverVariant(r) == status[r] = "resolved" /\ resolvedAt[r] > MaxAge
Expired(r) == status[r] = "resolved" /\ resolvedAt[r] # Never /\ resolvedAt[r] > Archive + lag

JobDeletes ==
  /\ job
  /\ job' = FALSE /\ lag' = 0
  /\ status' = [r \in Records |-> IF Expired(r) THEN "deleted" ELSE status[r]]
  /\ resolvedAt' = [r \in Records |-> IF Expired(r) THEN Never ELSE resolvedAt[r]]
  /\ entered' = [r \in Records |-> IF Expired(r) THEN 0 ELSE entered[r]]
  /\ overtaken' = [q \in Requests |-> overtaken[q] \/ (op[q] # "none" /\ Expired(target[q]))]
  /\ UNCHANGED requests

\* The job raises or its worker dies; the next one starts afresh.
JobFails ==
  /\ job
  /\ job' = FALSE /\ lag' = 0
  /\ UNCHANGED <<rows, requests, entered, overtaken>>

-----------------------------------------------------------------------------

\* A tick passes; no request outlives a second one, no job its MaxLag-th.
Tick ==
  /\ \A q \in Requests : stamp[q] = 0
  /\ job => lag < MaxLag
  /\ resolvedAt' = [r \in Records |-> Older(resolvedAt[r])]
  /\ entered' = [r \in Records |-> IF status[r] = "resolved" THEN Older(entered[r]) ELSE 0]
  /\ stamp' = [q \in Requests |-> IF op[q] = "none" THEN 0 ELSE 1]
  /\ lag' = IF job THEN lag + 1 ELSE 0
  /\ UNCHANGED <<status, op, target, loaded, job, overtaken>>

Next ==
  \/ \E r \in Records : Detect(r)
  \/ \E q \in Requests :
       \/ \E k \in Kinds, r \in Records : Load(q, k, r)
       \/ Commit(q) \/ Abort(q)
  \/ JobStarts \/ JobDeletes \/ JobFails
  \/ Tick

Spec == Init /\ [][Next]_vars

\* Beat starts the job week after week, and not all of them fail.
FairSpec == Spec /\ WF_vars(JobStarts) /\ SF_vars(JobDeletes)

-----------------------------------------------------------------------------
(* Properties *)

\* A record is deleted only after it has been "resolved" without a break for the
\* archive period: re-opening keeps the old resolved_at, but neither an open
\* record nor one resolved anew goes for it, whatever the requests in flight.
DeletedLongResolved ==
  [][\A r \in Records :
       status[r] # "deleted" /\ status'[r] = "deleted" =>
         status[r] = "resolved" /\ entered[r] >= Archive]_vars

\* A resolved record has a resolved_at, and not one from before it was last
\* resolved by more than a request lasts.
ResolvedIsTimed ==
  \A r \in Records :
    status[r] = "resolved" => resolvedAt[r] # Never /\ resolvedAt[r] <= entered[r] + 1

\* What a request answers is what the record then says, unless another request
\* or the job wrote to the record between its read and its commit.
AnswerIsTrue ==
  [][\A q \in Requests :
       Commit(q) /\ ~overtaken[q] => status'[target[q]] = Written(op[q])]_vars

\* A record resolved longer ago than the archive period is deleted, unless
\* someone re-opens it or resolves it again.
Overdue(r) == status[r] = "resolved" /\ resolvedAt[r] = MaxAge
ResolvedLeaves == \A r \in Records : Overdue(r) ~> ~Overdue(r)

=============================================================================
