----------------------------- MODULE MetricSources -----------------------------
(***************************************************************************)
(* How metric sources come into being (app/services/metric_service.py): an *)
(* ingestion request looks each source up by name and inserts it when it   *)
(* finds none, POST /sources inserts at once, and every request is one     *)
(* transaction.  The name is unique: an INSERT waits for a transaction     *)
(* that has inserted the name and not ended, and fails once the name is    *)
(* committed.  MetricDetection has what an ingestion does once the source  *)
(* is there.                                                               *)
(***************************************************************************)
EXTENDS Naturals, Sequences, SequencesExt

CONSTANTS Requests, Names,
          MaxBatch,    \* bound on the points of one request
          Nobody

ASSUME SourcesAssumption ==
  /\ MaxBatch \in Nat \ {0}
  /\ Nobody \notin Requests

VARIABLES
  owner,      \* owner[n]: the request whose row for n is committed
  pc, kind, todo,
              \* per request: next step, operation, names still to handle
  mine,       \* per request: the names it has inserted and not committed
  keys,       \* the sliding windows in Redis: request that made the source, name
  points,     \* committed points: request, name
  wanted, known, cause
              \* history, per request: its names, those that had a committed
              \* source when it began, and why it failed

work == <<pc, kind, todo, mine>>
history == <<wanted, known, cause>>
vars == <<owner, work, keys, points, history>>

Batches == UNION {[1 .. n -> Names] : n \in 1 .. MaxBatch}

TypeOK ==
  /\ owner \in [Names -> Requests \cup {Nobody}]
  /\ pc \in [Requests -> {"new", "lookup", "insert", "store", "commit", "done", "failed"}]
  /\ kind \in [Requests -> {"none", "ingest", "create"}]
  /\ todo \in [Requests -> Batches \cup {<<>>}]
  /\ mine \in [Requests -> SUBSET Names]
  /\ keys \subseteq Requests \X Names
  /\ points \subseteq Requests \X Names
  /\ wanted \in [Requests -> SUBSET Names]
  /\ known \in [Requests -> SUBSET Names]
  /\ cause \in [Requests -> {"none", "taken", "deadlock", "error"}]
  /\ \A r \in Requests : pc[r] \in {"lookup", "insert", "store"} => todo[r] # <<>>

Init ==
  /\ owner = [n \in Names |-> Nobody]
  /\ pc = [r \in Requests |-> "new"]
  /\ kind = [r \in Requests |-> "none"]
  /\ todo = [r \in Requests |-> <<>>]
  /\ mine = [r \in Requests |-> {}]
  /\ keys = {}
  /\ points = {}
  /\ wanted = [r \in Requests |-> {}]
  /\ known = [r \in Requests |-> {}]
  /\ cause = [r \in Requests |-> "none"]

Committed == {n \in Names : owner[n] # Nobody}

Name(r) == Head(todo[r])

Go(r, from, to) ==
  /\ pc[r] = from
  /\ pc' = [pc EXCEPT ![r] = to]

Begin(r, k, batch, first) ==
  /\ Go(r, "new", first)
  /\ kind' = [kind EXCEPT ![r] = k]
  /\ todo' = [todo EXCEPT ![r] = batch]
  /\ wanted' = [wanted EXCEPT ![r] = ToSet(batch)]
  /\ known' = [known EXCEPT ![r] = Committed]
  /\ UNCHANGED <<owner, mine, keys, points, cause>>

BeginIngest(r) == \E batch \in Batches : Begin(r, "ingest", batch, "lookup")

BeginCreate(r) == \E n \in Names : Begin(r, "create", <<n>>, "insert")

\* The SELECT of get_or_create_source sees committed rows and the request's own.
FindsCommittedVariant(r) == owner[Name(r)] # Nobody
FindsOwnVariant(r) == Name(r) \in mine[r]
Finds(r) == owner[Name(r)] # Nobody \/ Name(r) \in mine[r]

Lookup(r) ==
  /\ Go(r, "lookup", IF Finds(r) THEN "store" ELSE "insert")
  /\ UNCHANGED <<owner, kind, todo, mine, keys, points, history>>

\* The transaction r waits for, if any.
BlockedBy(r, q) == pc[r] = "insert" /\ Name(r) \in mine[q]

Insert(r) ==
  /\ Go(r, "insert", IF kind[r] = "create" THEN "commit" ELSE "store")
  /\ owner[Name(r)] = Nobody
  /\ \A q \in Requests : ~BlockedBy(r, q)
  /\ mine' = [mine EXCEPT ![r] = @ \cup {Name(r)}]
  /\ UNCHANGED <<owner, kind, todo, keys, points, history>>

\* ingest_metric from its flush of the point on, in the session that may hold
\* the source uncommitted; the window's key has the source's id.
AfterPoint(r) == IF Len(todo[r]) = 1 THEN "commit" ELSE "lookup"

StoreAsVariant(r) == r
StoreAs(r) == IF Name(r) \in mine[r] THEN r ELSE owner[Name(r)]

Store(r) ==
  /\ Go(r, "store", AfterPoint(r))
  /\ todo' = [todo EXCEPT ![r] = Tail(@)]
  /\ keys' = keys \cup {<<StoreAs(r), Name(r)>>}
  /\ UNCHANGED <<owner, kind, mine, points, history>>

Commit(r) ==
  /\ Go(r, "commit", "done")
  /\ owner' = [n \in Names |-> IF n \in mine[r] THEN r ELSE owner[n]]
  /\ points' = IF kind[r] = "ingest" THEN points \cup ({r} \X wanted[r]) ELSE points
  /\ mine' = [mine EXCEPT ![r] = {}]
  /\ UNCHANGED <<kind, todo, keys, history>>

\* get_db, and the handler of POST /sources, roll back; Redis keeps its keys.
Rollback(r) == mine' = [mine EXCEPT ![r] = {}]

Fail(r, why) ==
  /\ pc' = [pc EXCEPT ![r] = "failed"]
  /\ Rollback(r)
  /\ cause' = [cause EXCEPT ![r] = why]
  /\ UNCHANGED <<owner, kind, todo, keys, points, wanted, known>>

\* The INSERT violates the unique name.
InsertTaken(r) ==
  /\ pc[r] = "insert"
  /\ owner[Name(r)] # Nobody
  /\ Fail(r, "taken")

\* The database breaks a circle of transactions that wait for one another.
InCircle(r) ==
  \E S \in SUBSET Requests :
    r \in S /\ \A s \in S : \E q \in S \ {s} : BlockedBy(s, q)

DeadlockVictim(r) ==
  /\ InCircle(r)
  /\ Fail(r, "deadlock")

\* Anything else raises: the database, Redis, Kafka or the process.
Raise(r) ==
  /\ pc[r] \in {"lookup", "insert", "store", "commit"}
  /\ Fail(r, "error")

-----------------------------------------------------------------------------

\* What the database and the event loop do for a request that has begun.
Step(r) ==
  \/ Lookup(r) \/ Insert(r) \/ Store(r) \/ Commit(r)
  \/ InsertTaken(r) \/ DeadlockVictim(r)

Next == \E r \in Requests : BeginIngest(r) \/ BeginCreate(r) \/ Step(r) \/ Raise(r)

Spec == Init /\ [][Next]_vars

\* A request that can go on does, and the database looks for circles.
FairSpec == Spec /\ \A r \in Requests : WF_vars(Step(r))

-----------------------------------------------------------------------------
(* Properties *)

\* get_or_create_source creates what it does not find, so two first points of
\* a source compete.  Once a source is committed no ingestion that begins
\* later fails for its name: only a request with an unknown name loses, and
\* then the source is there for whoever comes next.
OnlyFirstPointsLose ==
  \A r \in Requests : kind[r] = "ingest" /\ cause[r] = "taken" =>
    \E n \in wanted[r] \ known[r] : owner[n] \notin {Nobody, r}

\* A point is committed only with its source, whichever request created that,
\* and detection finds it under the id of the row that was committed.
PointsHaveWindows ==
  \A p \in points : owner[p[2]] # Nobody /\ <<owner[p[2]], p[2]>> \in keys

\* A request that began ends, whatever it has to wait for.
RequestsEnd == \A r \in Requests : (pc[r] # "new") ~> (pc[r] \in {"done", "failed"})

=============================================================================
