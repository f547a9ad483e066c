------------------------------ MODULE Listing ------------------------------
(***************************************************************************)
(* The read side of both services: a client that pages through a list      *)
(* (anomalies, executions, workflows), and a report put together from      *)
(* several counts, while rows are stored, filtered and deleted between     *)
(* the statements.  Every statement sees what is committed when it runs.   *)
(***************************************************************************)
EXTENDS Integers, FiniteSets

CONSTANTS
  Rows,
  Critical,     \* the rows of severity "critical"
  Size,         \* page size
  Today         \* created_at: 0 .. Today, the last one is the current day's

ASSUME ListingAssumption ==
  /\ IsFiniteSet(Rows) /\ Critical \subseteq Rows
  /\ Size \in Nat \ {0} /\ Today \in Nat

VARIABLES
  place, created,          \* the table: where a row is, its created_at
  page, counted, seen,     \* the client: page it asks for, total it was
                           \* told, how often it was given each row
  report, shown,           \* the report being made and its counts
  steady, came, left,      \* history, since the client began: rows matching all
                           \* along, whether any came to match or stopped to
  moved                    \* history: a row was stored or deleted under the report

table == <<place, created>>
client == <<page, counted, seen>>
listed == <<steady, came, left>>
reporting == <<report, shown, moved>>
vars == <<table, client, listed, reporting>>

Pending == -1     \* not counted yet
Done == -1        \* the client got a page that was not full

TypeOK ==
  /\ place \in [Rows -> {"absent", "match", "other", "deleted"}]
  /\ created \in [Rows -> 0 .. Today]
  /\ page \in Nat \cup {Done}
  /\ counted \in Nat \cup {Pending}
  /\ seen \in [Rows -> Nat]
  /\ report \in {"none", "stats", "overview"}
  /\ shown \in [1 .. 3 -> Nat \cup {Pending}]
  /\ steady \subseteq Rows /\ came \in BOOLEAN /\ left \in BOOLEAN
  /\ moved \in BOOLEAN

NothingShown == [n \in 1 .. 3 |-> Pending]

Init ==
  /\ place = [r \in Rows |-> "absent"] /\ created = [r \in Rows |-> 0]
  /\ page = 0 /\ counted = Pending /\ seen = [r \in Rows |-> 0]
  /\ report = "none" /\ shown = NothingShown
  /\ steady = {} /\ came = FALSE /\ left = FALSE /\ moved = FALSE

-----------------------------------------------------------------------------
(* The table *)

Matching == {r \in Rows : place[r] = "match"}
Stored == {r \in Rows : place[r] \in {"match", "other"}}

\* A transaction stores a row under the time it began, perhaps after later ones.
Store(r) ==
  /\ place[r] = "absent"
  /\ \E p \in {"match", "other"}, t \in 0 .. Today :
       /\ place' = [place EXCEPT ![r] = p]
       /\ created' = [created EXCEPT ![r] = t]
       /\ came' = (came \/ (page # 0 /\ p = "match"))
  /\ moved' = (report # "none")
  /\ UNCHANGED <<client, steady, left, report, shown>>

\* A change of its status or is_active moves a row into or out of a filter.
Enter(r) ==
  /\ place[r] = "other"
  /\ place' = [place EXCEPT ![r] = "match"]
  /\ came' = (page # 0)
  /\ UNCHANGED <<created, client, steady, left, reporting>>

Exit(r) ==
  /\ place[r] = "match"
  /\ place' = [place EXCEPT ![r] = "other"]
  /\ steady' = steady \ {r}
  /\ left' = (page # 0)
  /\ UNCHANGED <<created, client, came, reporting>>

\* The cleanup job deletes rows of long ago, never of today.
DeleteTodayVariant(r) == place[r] \in {"match", "other"}
Deletable(r) == place[r] \in {"match", "other"} /\ created[r] # Today

Delete(r) ==
  /\ Deletable(r)
  /\ place' = [place EXCEPT ![r] = "deleted"]
  /\ steady' = steady \ {r}
  /\ left' = (left \/ (page # 0 /\ place[r] = "match"))
  /\ moved' = (report # "none")
  /\ UNCHANGED <<created, client, came, report, shown>>

-----------------------------------------------------------------------------
(* The client: for each page a count, then the rows, newest first *)

Least(a, b) == IF a < b THEN a ELSE b
OffsetFromOneVariant(p) == p * Size
Offset(p) == (p - 1) * Size

\* What ORDER BY created_at DESC OFFSET LIMIT may return: rows stored at the
\* same time come in any order.
IsPageVariant(p, items) ==
  Cardinality(items) = Least(Size, Cardinality(Matching) - Least(Offset(p), Cardinality(Matching)))
IsPage(p, items) ==
  \E before \in SUBSET Matching :
    LET after == Matching \ (before \cup items) IN
    /\ Cardinality(before) = Least(Offset(p), Cardinality(Matching))
    /\ items \subseteq Matching \ before
    /\ Cardinality(items) = Least(Size, Cardinality(Matching) - Cardinality(before))
    /\ \A b \in before, i \in items : created[b] >= created[i]
    /\ \A i \in before \cup items, a \in after : created[i] >= created[a]

\* Readers share nothing but the table: one at a time shows each of them all
\* it can meet.
FirstPage ==
  /\ page = 0 /\ report = "none"
  /\ page' = 1
  /\ steady' = Matching
  /\ UNCHANGED <<table, counted, seen, came, left, reporting>>

Count ==
  /\ page > 0 /\ counted = Pending
  /\ counted' = Cardinality(Matching)
  /\ UNCHANGED <<table, page, seen, listed, reporting>>

\* The client goes on until a page is not full.
Fetch ==
  /\ counted # Pending
  /\ \E items \in SUBSET Matching :
       /\ IsPage(page, items)
       /\ seen' = [r \in Rows |-> IF r \in items THEN seen[r] + 1 ELSE seen[r]]
       /\ page' = IF Cardinality(items) = Size THEN page + 1 ELSE Done
  /\ counted' = Pending
  /\ UNCHANGED <<table, listed, reporting>>

LeavesList ==
  /\ page = Done
  /\ page' = 0 /\ seen' = [r \in Rows |-> 0]
  /\ steady' = {} /\ came' = FALSE /\ left' = FALSE
  /\ UNCHANGED <<table, counted, reporting>>

-----------------------------------------------------------------------------
(* A report: a total, then two breakdowns, one statement each *)

\* get_stats counts every record, dashboard_overview those of today.
Counted == {r \in Stored : report = "overview" => created[r] = Today}

ReportStarts ==
  /\ page = 0 /\ report = "none"
  /\ report' \in {"stats", "overview"}
  /\ UNCHANGED <<table, client, listed, shown, moved>>

\* Second the critical ones (overview) or the sum by severity (stats), third
\* the sum by detector (stats also by status).
Part(n) == IF n = 2 /\ report = "overview" THEN Counted \cap Critical ELSE Counted

Statement(n) ==
  /\ report # "none" /\ shown[n] = Pending
  /\ \A m \in 1 .. n - 1 : shown[m] # Pending
  /\ shown' = [shown EXCEPT ![n] = Cardinality(Part(n))]
  /\ UNCHANGED <<table, client, listed, report, moved>>

ReportEnds ==
  /\ report # "none" /\ shown[3] # Pending
  /\ report' = "none" /\ shown' = NothingShown /\ moved' = FALSE
  /\ UNCHANGED <<table, client, listed>>

-----------------------------------------------------------------------------

Next ==
  \/ \E r \in Rows : Store(r) \/ Enter(r) \/ Exit(r) \/ Delete(r)
  \/ FirstPage \/ Count \/ Fetch \/ LeavesList
  \/ ReportStarts \/ ReportEnds \/ \E n \in 1 .. 3 : Statement(n)

Spec == Init /\ [][Next]_vars

-----------------------------------------------------------------------------
(* Properties *)

Tied(r) == \E q \in Rows \ {r} : place[q] # "absent" /\ created[q] = created[r]

\* A client that got to the end was given every row that matched all along,
\* unless another row stopped matching meanwhile, or the row shares its time
\* with another: run_detection stores all its anomalies at one time.
NothingMissed ==
  page = Done /\ ~left => \A r \in steady : seen[r] > 0 \/ Tied(r)

\* A client is given a row a second time only if another one came to match
\* meanwhile, or it shares its time.
NothingTwice == ~came => \A r \in Rows : seen[r] <= 1 \/ Tied(r)

\* The counts of a report agree unless a row was stored or deleted between
\* its statements, and today's later counts are not below its total: nothing
\* deletes a row of today.
ReportsAgree ==
  shown[3] # Pending =>
    /\ ~moved => shown[1] = shown[3] /\ (report = "stats" => shown[2] = shown[1])
    /\ report = "overview" => shown[1] <= shown[3] /\ shown[2] <= shown[3]

=============================================================================
