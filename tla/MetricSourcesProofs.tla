------------------------- MODULE MetricSourcesProofs -------------------------
(***************************************************************************)
(* Proofs about MetricSources for any requests, names and batch sizes.     *)
(***************************************************************************)
EXTENDS MetricSources, SequenceTheorems, TLAPS

\* A row not yet committed belongs to one transaction, and none that has ended;
\* a committed one to a transaction that is done.
RowsHaveMakers ==
  /\ \A r \in Requests, n \in Names : n \in mine[r] => owner[n] = Nobody
  /\ \A r, q \in Requests, n \in Names : n \in mine[r] /\ n \in mine[q] => r = q
  /\ \A n \in Names : owner[n] # Nobody => pc[owner[n]] = "done"

\* What a request knows of a name when it gets to it.
LookedUp ==
  \A r \in Requests :
    /\ known[r] \subseteq Committed
    /\ cause[r] # "none" => pc[r] = "failed"
    /\ pc[r] # "new" => ToSet(todo[r]) \subseteq wanted[r]
    /\ pc[r] = "insert" /\ kind[r] = "ingest" => Name(r) \notin known[r]
    /\ pc[r] = "store" => Finds(r)

\* The points of a request whose names are dealt with are in the windows of
\* the rows they will be committed with.
HandledHaveWindows ==
  \A r \in Requests :
    kind[r] = "ingest" /\ pc[r] \in {"lookup", "insert", "store", "commit"} =>
      /\ pc[r] = "commit" => todo[r] = <<>>
      /\ \A n \in wanted[r] \ ToSet(todo[r]) :
           \/ n \in mine[r] /\ <<r, n>> \in keys
           \/ owner[n] # Nobody /\ <<owner[n], n>> \in keys

IInv == TypeOK /\ RowsHaveMakers /\ LookedUp /\ HandledHaveWindows
          /\ PointsHaveWindows /\ OnlyFirstPointsLose

LEMMA BatchFacts ==
  ASSUME NEW b \in Batches
  PROVE  /\ b \in Seq(Names) /\ b # <<>> /\ Len(b) \in 1 .. MaxBatch
         /\ ToSet(b) \subseteq Names
<1>1. PICK n \in 1 .. MaxBatch : b \in [1 .. n -> Names]
  BY DEF Batches
<1>2. n \in Nat /\ n > 0 /\ MaxBatch \in Nat
  BY SourcesAssumption
<1>3. b \in Seq(Names) /\ Len(b) = n /\ DOMAIN b = 1 .. n
  BY <1>1, <1>2
<1> QED BY <1>1, <1>2, <1>3 DEF ToSet

LEMMA HeadTailFacts ==
  ASSUME NEW b \in Batches
  PROVE  /\ Head(b) \in Names /\ Head(b) \in ToSet(b)
         /\ Tail(b) \in Batches \cup {<<>>}
         /\ Len(b) = 1 <=> Tail(b) = <<>>
         /\ ToSet(b) = {Head(b)} \cup ToSet(Tail(b))
<1>1. b \in Seq(Names) /\ b # <<>> /\ Len(b) \in 1 .. MaxBatch
  BY BatchFacts
<1>2. MaxBatch \in Nat
  BY SourcesAssumption
<1>3. /\ Tail(b) \in Seq(Names) /\ Len(Tail(b)) = Len(b) - 1
      /\ Head(b) = b[1] /\ \A i \in 1 .. Len(b) - 1 : Tail(b)[i] = b[i + 1]
  BY <1>1, <1>2, HeadTailProperties
<1>4. Head(b) \in Names /\ Head(b) \in ToSet(b)
  BY <1>1, <1>3 DEF ToSet
<1>5. Len(b) = 1 <=> Tail(b) = <<>>
  <2>1. Len(Tail(b)) = 0 <=> Tail(b) = <<>>
    BY <1>3, EmptySeq
  <2> QED BY <1>1, <1>2, <1>3, <2>1
<1>6. Tail(b) \in Batches \cup {<<>>}
  <2>1. CASE Len(b) = 1
    BY <2>1, <1>5
  <2>2. CASE Len(b) # 1
    <3>1. Len(b) - 1 \in 1 .. MaxBatch
      <4> DEFINE n == Len(b)
      <4>1. n \in Int /\ 1 <= n /\ n <= MaxBatch /\ n # 1
        BY <2>2, <1>1, <1>2
      <4> HIDE DEF n
      <4>2. n - 1 \in Int /\ 1 <= n - 1 /\ n - 1 <= MaxBatch
        BY <4>1, <1>2
      <4> QED BY <4>2 DEF n
    <3>2. Tail(b) \in [1 .. Len(b) - 1 -> Names]
      <4>1. Tail(b) \in [1 .. Len(Tail(b)) -> Names]
        BY <1>3, LenProperties
      <4> QED BY <4>1, <1>3
    <3> QED BY <3>1, <3>2 DEF Batches
  <2> QED BY <2>1, <2>2
<1>7. ToSet(b) = {Head(b)} \cup ToSet(Tail(b))
  <2>1. ToSet(b) = {b[i] : i \in 1 .. Len(b)}
    BY <1>1 DEF ToSet
  <2>2. ToSet(Tail(b)) = {b[i + 1] : i \in 1 .. Len(b) - 1}
    <3>1. DOMAIN Tail(b) = 1 .. Len(b) - 1
      BY <1>1, <1>2, <1>3
    <3> QED BY <3>1, <1>3 DEF ToSet
  <2>3. \A i \in 1 .. Len(b) :
          i = 1 \/ (i - 1 \in 1 .. Len(b) - 1 /\ (i - 1) + 1 = i)
    BY <1>1, <1>2
  <2>4. ASSUME NEW i \in 1 .. Len(b) PROVE b[i] \in {Head(b)} \cup ToSet(Tail(b))
    BY <2>2, <2>3, <1>3
  <2>5. ASSUME NEW i \in 1 .. Len(b) - 1 PROVE i + 1 \in 1 .. Len(b)
    BY <1>1, <1>2
  <2> QED BY <2>1, <2>2, <2>4, <2>5, <1>3, <1>4
<1> QED BY <1>4, <1>5, <1>6, <1>7

LEMMA EmptyFacts == ToSet(<<>>) = {}
BY DEF ToSet

\* The name a request is at.
LEMMA NameFacts ==
  ASSUME TypeOK, NEW r \in Requests, pc[r] \in {"lookup", "insert", "store"}
  PROVE  /\ todo[r] \in Batches /\ todo[r] # <<>>
         /\ Name(r) \in Names /\ Name(r) \in ToSet(todo[r])
<1>1. todo[r] \in Batches /\ todo[r] # <<>>
  BY DEF TypeOK
<1> QED BY <1>1, HeadTailFacts DEF Name

-----------------------------------------------------------------------------

LEMMA InitInv == Init => IInv
<1> SUFFICES ASSUME Init PROVE IInv
  OBVIOUS
<1>1. TypeOK
  BY DEF Init, TypeOK
<1>2. RowsHaveMakers /\ LookedUp
  BY DEF Init, RowsHaveMakers, LookedUp, Committed
<1>3. HandledHaveWindows /\ PointsHaveWindows /\ OnlyFirstPointsLose
  BY DEF Init, HandledHaveWindows, PointsHaveWindows, OnlyFirstPointsLose
<1> QED BY <1>1, <1>2, <1>3 DEF IInv


LEMMA BeginStep ==
  ASSUME IInv, NEW r \in Requests, NEW k \in {"ingest", "create"}, NEW batch \in Batches,
         NEW first \in {"lookup", "insert"}, k = "ingest" => first = "lookup",
         Begin(r, k, batch, first)
  PROVE  IInv'
<1>1. ToSet(batch) \subseteq Names /\ batch # <<>> /\ Committed \subseteq Names
  BY BatchFacts DEF Committed
<1>2. /\ pc[r] = "new" /\ pc' = [pc EXCEPT ![r] = first]
      /\ kind' = [kind EXCEPT ![r] = k] /\ todo' = [todo EXCEPT ![r] = batch]
      /\ wanted' = [wanted EXCEPT ![r] = ToSet(batch)]
      /\ known' = [known EXCEPT ![r] = Committed]
      /\ UNCHANGED <<owner, mine, keys, points, cause>>
  BY DEF Begin, Go
<1>3. TypeOK'
  BY <1>1, <1>2 DEF IInv, TypeOK
<1>4. RowsHaveMakers'
  BY <1>2 DEF IInv, TypeOK, RowsHaveMakers
<1>5. LookedUp'
  BY <1>1, <1>2 DEF IInv, TypeOK, LookedUp, Committed, Finds, Name
<1>6. HandledHaveWindows'
  BY <1>2 DEF IInv, TypeOK, HandledHaveWindows
<1>7. PointsHaveWindows'
  BY <1>2 DEF IInv, PointsHaveWindows
<1>8. OnlyFirstPointsLose'
  <2>1. cause[r] = "none"
    BY <1>2 DEF IInv, TypeOK, LookedUp
  <2> QED BY <1>2, <2>1 DEF IInv, TypeOK, OnlyFirstPointsLose
<1> QED BY <1>3, <1>4, <1>5, <1>6, <1>7, <1>8 DEF IInv

LEMMA LookupStep == ASSUME IInv, NEW r \in Requests, Lookup(r) PROVE IInv'
<1>1. /\ pc[r] = "lookup"
      /\ pc' = [pc EXCEPT ![r] = IF Finds(r) THEN "store" ELSE "insert"]
      /\ UNCHANGED <<owner, kind, todo, mine, keys, points, wanted, known, cause>>
  BY DEF Lookup, Go, history
<1>2. TypeOK'
  BY <1>1 DEF IInv, TypeOK
<1>3. RowsHaveMakers'
  BY <1>1 DEF IInv, TypeOK, RowsHaveMakers
<1>4. LookedUp'
  <2>1. \A q \in Requests : Name(q)' = Name(q) /\ Finds(q)' = Finds(q)
    BY <1>1 DEF Name, Finds
  <2>2. ~Finds(r) => Name(r) \notin Committed
    BY DEF Finds, Committed
  <2> QED BY <1>1, <2>1, <2>2 DEF IInv, TypeOK, LookedUp, Committed
<1>5. HandledHaveWindows'
  BY <1>1 DEF IInv, TypeOK, HandledHaveWindows
<1>6. PointsHaveWindows' /\ OnlyFirstPointsLose'
  BY <1>1 DEF IInv, PointsHaveWindows, OnlyFirstPointsLose
<1> QED BY <1>2, <1>3, <1>4, <1>5, <1>6 DEF IInv

LEMMA InsertStep == ASSUME IInv, NEW r \in Requests, Insert(r) PROVE IInv'
<1>1. /\ pc[r] = "insert"
      /\ pc' = [pc EXCEPT ![r] = IF kind[r] = "create" THEN "commit" ELSE "store"]
      /\ owner[Name(r)] = Nobody
      /\ mine' = [mine EXCEPT ![r] = @ \cup {Name(r)}]
      /\ UNCHANGED <<owner, kind, todo, keys, points, wanted, known, cause>>
  BY DEF Insert, Go, history
<1>2. \A q \in Requests : Name(r) \notin mine[q]
  BY <1>1 DEF Insert, BlockedBy
<1>3. Name(r) \in Names
  BY <1>1, NameFacts DEF IInv
<1>4. TypeOK'
  BY <1>1, <1>3 DEF IInv, TypeOK
<1>5. RowsHaveMakers'
  BY <1>1, <1>2 DEF IInv, TypeOK, RowsHaveMakers
<1>6. LookedUp'
  <2>1. \A q \in Requests : Name(q)' = Name(q)
    BY <1>1 DEF Name
  <2>2. Finds(r)' /\ \A q \in Requests : Finds(q) => Finds(q)'
    BY <1>1, <2>1 DEF IInv, TypeOK, Finds
  <2> QED BY <1>1, <2>1, <2>2 DEF IInv, TypeOK, LookedUp, Committed
<1>7. HandledHaveWindows'
  BY <1>1 DEF IInv, TypeOK, HandledHaveWindows
<1>8. PointsHaveWindows' /\ OnlyFirstPointsLose'
  BY <1>1 DEF IInv, PointsHaveWindows, OnlyFirstPointsLose
<1> QED BY <1>4, <1>5, <1>6, <1>7, <1>8 DEF IInv

LEMMA StoreStep == ASSUME IInv, NEW r \in Requests, Store(r) PROVE IInv'
<1> DEFINE n == Name(r)
<1>1. /\ pc[r] = "store" /\ pc' = [pc EXCEPT ![r] = AfterPoint(r)]
      /\ todo' = [todo EXCEPT ![r] = Tail(@)]
      /\ keys' = keys \cup {<<StoreAs(r), n>>}
      /\ UNCHANGED <<owner, kind, mine, points, wanted, known, cause>>
  BY DEF Store, Go, history
<1>2. todo[r] \in Batches /\ n \in Names
  BY <1>1, NameFacts DEF IInv
<1>3. /\ Tail(todo[r]) \in Batches \cup {<<>>}
      /\ AfterPoint(r) \in {"lookup", "commit"}
      /\ AfterPoint(r) = "commit" <=> Tail(todo[r]) = <<>>
      /\ ToSet(todo[r]) = {n} \cup ToSet(Tail(todo[r]))
  BY <1>2, HeadTailFacts DEF AfterPoint, Name
<1>4. \/ n \in mine[r] /\ StoreAs(r) = r
      \/ owner[n] # Nobody /\ StoreAs(r) = owner[n]
  BY <1>1 DEF IInv, LookedUp, StoreAs, Finds
<1>5. StoreAs(r) \in Requests
  BY <1>2, <1>4 DEF IInv, TypeOK
<1> HIDE DEF n
<1>6. TypeOK'
  BY <1>1, <1>2, <1>3, <1>5 DEF IInv, TypeOK
<1>7. RowsHaveMakers'
  BY <1>1 DEF IInv, TypeOK, RowsHaveMakers
<1>8. LookedUp'
  <2>1. \A q \in Requests \ {r} : Name(q)' = Name(q) /\ Finds(q)' = Finds(q)
    BY <1>1 DEF IInv, TypeOK, Name, Finds
  <2>2. pc'[r] \in {"lookup", "commit"} /\ \A q \in Requests \ {r} : pc'[q] = pc[q]
    BY <1>1, <1>3 DEF IInv, TypeOK
  <2>3. todo'[r] = Tail(todo[r]) /\ \A q \in Requests \ {r} : todo'[q] = todo[q]
    BY <1>1 DEF IInv, TypeOK
  <2> QED BY <1>1, <1>3, <2>1, <2>2, <2>3 DEF IInv, LookedUp, Committed
<1>9. HandledHaveWindows'
  <2>1. keys \subseteq keys' /\ <<StoreAs(r), n>> \in keys'
    BY <1>1
  <2>2. ASSUME NEW q \in Requests \ {r} PROVE pc'[q] = pc[q] /\ todo'[q] = todo[q]
    BY <1>1 DEF IInv, TypeOK
  <2>3. /\ pc'[r] = AfterPoint(r) /\ todo'[r] = Tail(todo[r])
    BY <1>1 DEF IInv, TypeOK
  <2>4. ASSUME kind[r] = "ingest", NEW m \in wanted[r] \ ToSet(todo'[r])
        PROVE  \/ m \in mine[r] /\ <<r, m>> \in keys'
               \/ owner[m] # Nobody /\ <<owner[m], m>> \in keys'
    <3>1. CASE m = n
      BY <3>1, <1>4, <2>1
    <3>2. CASE m # n
      BY <3>2, <2>4, <2>1, <2>3, <1>1, <1>3 DEF IInv, HandledHaveWindows
    <3> QED BY <3>1, <3>2
  <2>5. kind' = kind /\ wanted' = wanted /\ mine' = mine /\ owner' = owner
    BY <1>1
  <2>6. pc'[r] = "commit" => todo'[r] = <<>>
    BY <1>3, <2>3
  <2>7. kind[r] = "ingest" => \A m \in wanted[r] \ ToSet(todo'[r]) :
           \/ m \in mine[r] /\ <<r, m>> \in keys'
           \/ owner[m] # Nobody /\ <<owner[m], m>> \in keys'
    BY <2>4
  <2>8. ASSUME NEW q \in Requests \ {r}, kind[q] = "ingest",
               pc[q] \in {"lookup", "insert", "store", "commit"}
        PROVE  /\ pc[q] = "commit" => todo[q] = <<>>
               /\ \A m \in wanted[q] \ ToSet(todo[q]) :
                    \/ m \in mine[q] /\ <<q, m>> \in keys'
                    \/ owner[m] # Nobody /\ <<owner[m], m>> \in keys'
    BY <2>1, <2>8 DEF IInv, HandledHaveWindows
  <2> QED BY <2>2, <2>5, <2>6, <2>7, <2>8 DEF HandledHaveWindows
<1>10. PointsHaveWindows' /\ OnlyFirstPointsLose'
  BY <1>1 DEF IInv, PointsHaveWindows, OnlyFirstPointsLose
<1> QED BY <1>6, <1>7, <1>8, <1>9, <1>10 DEF IInv

LEMMA CommitStep == ASSUME IInv, NEW r \in Requests, Commit(r) PROVE IInv'
<1>1. /\ pc[r] = "commit" /\ pc' = [pc EXCEPT ![r] = "done"]
      /\ owner' = [n \in Names |-> IF n \in mine[r] THEN r ELSE owner[n]]
      /\ points' = IF kind[r] = "ingest" THEN points \cup ({r} \X wanted[r]) ELSE points
      /\ mine' = [mine EXCEPT ![r] = {}]
      /\ UNCHANGED <<kind, todo, keys, wanted, known, cause>>
  BY DEF Commit, Go, history
<1>2. r # Nobody
  BY SourcesAssumption
<1>3. TypeOK'
  BY <1>1 DEF IInv, TypeOK
<1>4. \A n \in Names : owner[n] # Nobody => owner'[n] = owner[n]
  BY <1>1 DEF IInv, RowsHaveMakers
<1>5. RowsHaveMakers'
  BY <1>1 DEF IInv, TypeOK, RowsHaveMakers
<1>6. LookedUp'
  <2>1. \A q \in Requests : Name(q)' = Name(q)
    BY <1>1 DEF Name
  <2>2. ASSUME NEW q \in Requests \ {r}, Finds(q), pc[q] = "store" PROVE Finds(q)'
    BY <1>1, <1>4, <2>1, <2>2, NameFacts DEF IInv, TypeOK, Finds
  <2>3. Committed \subseteq Committed'
    BY <1>4 DEF Committed
  <2> QED BY <1>1, <2>1, <2>2, <2>3 DEF IInv, TypeOK, LookedUp
<1>7. HandledHaveWindows'
  <2>1. \A q \in Requests \ {r} : mine'[q] = mine[q] /\ pc'[q] = pc[q]
    BY <1>1 DEF IInv, TypeOK
  <2>2. pc'[r] = "done"
    BY <1>1 DEF IInv, TypeOK
  <2>3. \A q \in Requests : wanted[q] \subseteq Names
    BY DEF IInv, TypeOK
  <2>4. ASSUME NEW q \in Requests \ {r}, NEW n \in wanted[q] \ ToSet(todo[q]), kind[q] = "ingest",
               pc[q] \in {"lookup", "insert", "store", "commit"}
        PROVE  \/ n \in mine'[q] /\ <<q, n>> \in keys'
               \/ owner'[n] # Nobody /\ <<owner'[n], n>> \in keys'
    <3>1. \/ n \in mine[q] /\ <<q, n>> \in keys
          \/ owner[n] # Nobody /\ <<owner[n], n>> \in keys
      BY <2>4 DEF IInv, HandledHaveWindows
    <3> QED BY <1>1, <1>4, <2>1, <2>3, <3>1
  <2>5. \A q \in Requests : pc[q] = "commit" /\ kind[q] = "ingest" => todo[q] = <<>>
    BY DEF IInv, HandledHaveWindows
  <2> QED BY <1>1, <2>1, <2>2, <2>4, <2>5 DEF HandledHaveWindows
<1>8. PointsHaveWindows'
  <2>1. ASSUME NEW p \in points
        PROVE  owner'[p[2]] # Nobody /\ <<owner'[p[2]], p[2]>> \in keys
    <3>1. p[2] \in Names
      BY DEF IInv, TypeOK
    <3> QED BY <3>1, <1>4 DEF IInv, PointsHaveWindows
  <2>2. ASSUME kind[r] = "ingest", NEW n \in wanted[r]
        PROVE  owner'[n] # Nobody /\ <<owner'[n], n>> \in keys
    <3>1. n \in Names /\ n \notin ToSet(todo[r])
      BY <1>1, <2>2, EmptyFacts DEF IInv, TypeOK, HandledHaveWindows
    <3>2. \/ n \in mine[r] /\ <<r, n>> \in keys
          \/ owner[n] # Nobody /\ <<owner[n], n>> \in keys
      BY <1>1, <2>2, <3>1 DEF IInv, HandledHaveWindows
    <3> QED BY <1>1, <1>2, <1>4, <3>1, <3>2
  <2> QED BY <1>1, <2>1, <2>2 DEF PointsHaveWindows
<1>9. OnlyFirstPointsLose'
  <2>1. \A q \in Requests : wanted[q] \subseteq Names
    BY DEF IInv, TypeOK
  <2> QED BY <1>1, <1>4, <2>1 DEF IInv, OnlyFirstPointsLose
<1> QED BY <1>3, <1>5, <1>6, <1>7, <1>8, <1>9 DEF IInv

\* A failure; for a taken name, one the request did not know.
LEMMA FailStep ==
  ASSUME IInv, NEW r \in Requests, NEW why \in {"taken", "deadlock", "error"},
         pc[r] \in {"lookup", "insert", "store", "commit"},
         why = "taken" => pc[r] = "insert" /\ owner[Name(r)] # Nobody,
         Fail(r, why)
  PROVE  IInv'
<1>1. /\ pc' = [pc EXCEPT ![r] = "failed"]
      /\ mine' = [mine EXCEPT ![r] = {}]
      /\ cause' = [cause EXCEPT ![r] = why]
      /\ UNCHANGED <<owner, kind, todo, keys, points, wanted, known>>
  BY DEF Fail, Rollback
<1>2. TypeOK'
  BY <1>1 DEF IInv, TypeOK
<1>3. RowsHaveMakers'
  BY <1>1 DEF IInv, TypeOK, RowsHaveMakers
<1>4. /\ pc'[r] = "failed"
      /\ \A q \in Requests \ {r} : /\ pc'[q] = pc[q] /\ mine'[q] = mine[q]
                                   /\ cause'[q] = cause[q]
  BY <1>1 DEF IInv, TypeOK
<1>5. LookedUp'
  <2>1. \A q \in Requests : Name(q)' = Name(q)
    BY <1>1 DEF Name
  <2>2. \A q \in Requests \ {r} : Finds(q)' = Finds(q)
    BY <1>1, <1>4, <2>1 DEF Finds
  <2> QED BY <1>1, <1>4, <2>1, <2>2 DEF IInv, LookedUp, Committed
<1>6. HandledHaveWindows'
  BY <1>1, <1>4 DEF IInv, HandledHaveWindows
<1>7. PointsHaveWindows'
  BY <1>1 DEF IInv, PointsHaveWindows
<1>8. OnlyFirstPointsLose'
  <2>1. ASSUME kind[r] = "ingest", why = "taken"
        PROVE  \E n \in wanted[r] \ known[r] : owner[n] \notin {Nobody, r}
    <3>1. Name(r) \in wanted[r] \ known[r] /\ Name(r) \in Names
      BY <2>1, NameFacts DEF IInv, LookedUp
    <3>2. owner[Name(r)] # r
      BY <2>1, <3>1 DEF IInv, RowsHaveMakers
    <3> QED BY <2>1, <3>1, <3>2
  <2> QED BY <1>1, <1>4, <2>1 DEF IInv, TypeOK, OnlyFirstPointsLose
<1> QED BY <1>2, <1>3, <1>5, <1>6, <1>7, <1>8 DEF IInv

LEMMA NextInv == IInv /\ [Next]_vars => IInv'
<1> SUFFICES ASSUME IInv, [Next]_vars PROVE IInv'
  OBVIOUS
<1>1. ASSUME NEW r \in Requests, BeginIngest(r) PROVE IInv'
  BY <1>1, BeginStep DEF BeginIngest
<1>2. ASSUME NEW r \in Requests, BeginCreate(r) PROVE IInv'
  <2>1. \A n \in Names : <<n>> \in Batches
    <3>1. 1 \in 1 .. MaxBatch
      BY SourcesAssumption
    <3> QED BY <3>1 DEF Batches
  <2> QED BY <1>2, <2>1, BeginStep DEF BeginCreate
<1>3. ASSUME NEW r \in Requests, InsertTaken(r) PROVE IInv'
  BY <1>3, FailStep DEF InsertTaken
<1>4. ASSUME NEW r \in Requests, DeadlockVictim(r) PROVE IInv'
  BY <1>4, FailStep DEF DeadlockVictim, InCircle, BlockedBy
<1>5. ASSUME NEW r \in Requests, Raise(r) PROVE IInv'
  BY <1>5, FailStep DEF Raise
<1>6. CASE UNCHANGED vars
  <2>1. UNCHANGED <<owner, pc, kind, todo, mine, keys, points, wanted, known, cause>>
    BY <1>6 DEF vars, work, history
  <2>2. TypeOK' /\ RowsHaveMakers' /\ HandledHaveWindows'
    BY <2>1 DEF IInv, TypeOK, RowsHaveMakers, HandledHaveWindows
  <2>3. LookedUp'
    BY <2>1 DEF IInv, LookedUp, Committed, Finds, Name
  <2>4. PointsHaveWindows' /\ OnlyFirstPointsLose'
    BY <2>1 DEF IInv, PointsHaveWindows, OnlyFirstPointsLose
  <2> QED BY <2>2, <2>3, <2>4 DEF IInv
<1> QED BY <1>1, <1>2, <1>3, <1>4, <1>5, <1>6, LookupStep, InsertStep, StoreStep, CommitStep
        DEF Next, Step

LEMMA InvHolds == Spec => []IInv
BY InitInv, NextInv, PTL DEF Spec

-----------------------------------------------------------------------------

\* Every reachable state is well typed.
THEOREM TypeCorrect == Spec => []TypeOK
BY InvHolds, PTL DEF IInv

\* An ingestion fails for a taken name only with a name that had no committed
\* source when it began (metric_service.py:27-51).
THEOREM FirstPointsCompete == Spec => []OnlyFirstPointsLose
BY InvHolds, PTL DEF IInv

\* Every committed point lies in the window of the row its source was
\* committed with (metric_service.py:53-97).
THEOREM WindowsFollowSources == Spec => []PointsHaveWindows
BY InvHolds, PTL DEF IInv

=============================================================================
