---------------------------- MODULE AnomalyProofs ----------------------------
(***************************************************************************)
(* Proofs about what the platform calls an anomaly.                        *)
(*                                                                         *)
(* The first part is about AnomalyRecords, for any records and requests,   *)
(* archive period and length of a cleanup job.  The second is about        *)
(* Detectors, for any window size, span, period and threshold and any      *)
(* integer values: what the scores make of a value the history has         *)
(* already seen, and of the same series with its sign or origin changed.   *)
(***************************************************************************)
EXTENDS Detectors, AnomalyRecords, SequenceTheorems, FiniteSetTheorems, TLAPS

-----------------------------------------------------------------------------
(* The records and their cleanup *)

\* A request that nobody overtook still sees the row's status.
LoadedHolds ==
  \A q \in Requests : op[q] # "none" =>
    /\ loaded[q] \notin {"absent", "deleted"}
    /\ ~overtaken[q] => status[target[q]] = loaded[q]

IInv == TypeOK /\ ResolvedIsTimed /\ LoadedHolds

LEMMA AgeFacts ==
  /\ MaxAge \in Nat /\ MaxAge > 1
  /\ \A a \in Ages \cup {Never} : Older(a) \in Ages \cup {Never} /\ (a # Never => Older(a) \in Ages)
  /\ \A a, b \in Ages : a <= b + 1 => Older(a) <= Older(b) + 1
BY RecordsAssumption DEF MaxAge, Ages, Never, Older

LEMMA InitInv == Init => IInv
<1>1. AnyRecord \in Records
  BY RecordsAssumption DEF AnyRecord
<1>2. 0 \in Ages
  BY AgeFacts DEF Ages
<1>3. 0 \in 0 .. MaxLag
  BY RecordsAssumption
<1>4. ASSUME Init PROVE TypeOK
  <2>1. /\ status \in [Records -> Statuses] /\ resolvedAt \in [Records -> Ages \cup {Never}]
        /\ entered \in [Records -> Ages]
    BY <1>4, <1>2 DEF Init, Statuses
  <2>2. /\ op \in [Requests -> Kinds \cup {"none"}] /\ target \in [Requests -> Records]
        /\ loaded \in [Requests -> Statuses]
    BY <1>4, <1>1 DEF Init, Statuses
  <2>3. stamp \in [Requests -> {0, 1}] /\ overtaken \in [Requests -> BOOLEAN]
    BY <1>4 DEF Init
  <2>4. job \in BOOLEAN /\ lag \in 0 .. MaxLag
    BY <1>4, <1>3 DEF Init
  <2> QED BY <2>1, <2>2, <2>3, <2>4 DEF TypeOK
<1>5. Init => ResolvedIsTimed /\ LoadedHolds
  BY DEF Init, ResolvedIsTimed, LoadedHolds
<1> QED BY <1>4, <1>5 DEF IInv

LEMMA WrittenFacts ==
  \A k \in Kinds : /\ Written(k) \in Statuses \ {"absent", "deleted"}
                   /\ Written(k) = "resolved" <=> k = "resolve"
BY DEF Kinds, Written, Statuses

LEMMA TypeStep == ASSUME TypeOK, [Next]_vars PROVE TypeOK'
<1>0. AnyRecord \in Records /\ 0 \in Ages /\ 1 \in Ages /\ 0 \in 0 .. MaxLag
  BY AgeFacts, RecordsAssumption DEF AnyRecord, Ages
<1> USE DEF TypeOK, requests, rows
<1>1. ASSUME NEW r \in Records, Detect(r) PROVE TypeOK'
  BY <1>1 DEF Detect, Statuses
<1>2. ASSUME NEW q \in Requests, NEW k \in Kinds, NEW r \in Records, Load(q, k, r)
      PROVE  TypeOK'
  BY <1>2 DEF Load
<1>3. ASSUME NEW q \in Requests, Commit(q) PROVE TypeOK'
  <2>1. status' \in [Records -> Statuses]
    BY <1>3, WrittenFacts DEF Commit
  <2>2. resolvedAt' \in [Records -> Ages \cup {Never}]
    BY <1>3, <1>0 DEF Commit
  <2>3. entered' \in [Records -> Ages]
    BY <1>3, <1>0 DEF Commit
  <2>4. overtaken' \in [Requests -> BOOLEAN]
    BY <1>3 DEF Commit
  <2> QED BY <1>3, <1>0, <2>1, <2>2, <2>3, <2>4 DEF Commit, Leave, Statuses
<1>4. ASSUME NEW q \in Requests, Abort(q) PROVE TypeOK'
  BY <1>4, <1>0 DEF Abort, Leave, Statuses
<1>5. CASE JobStarts
  BY <1>5 DEF JobStarts
<1>6. CASE JobDeletes
  BY <1>6, <1>0 DEF JobDeletes, Statuses
<1>7. CASE JobFails
  BY <1>7, <1>0 DEF JobFails
<1>8. CASE Tick
  <2>1. lag' \in 0 .. MaxLag
    BY <1>8, RecordsAssumption DEF Tick
  <2>2. resolvedAt' \in [Records -> Ages \cup {Never}] /\ entered' \in [Records -> Ages]
    BY <1>8, <1>0, AgeFacts DEF Tick, Never, Ages
  <2> QED BY <1>8, <2>1, <2>2 DEF Tick
<1>9. CASE UNCHANGED vars
  BY <1>9 DEF vars
<1> QED BY <1>1, <1>2, <1>3, <1>4, <1>5, <1>6, <1>7, <1>8, <1>9 DEF Next

LEMMA TimedStep == ASSUME TypeOK, ResolvedIsTimed, [Next]_vars PROVE ResolvedIsTimed'
<1> USE DEF ResolvedIsTimed, requests, rows
<1>1. ASSUME NEW r \in Records, Detect(r) PROVE ResolvedIsTimed'
  BY <1>1 DEF Detect, TypeOK
<1>2. ASSUME NEW q \in Requests, NEW k \in Kinds, NEW r \in Records, Load(q, k, r)
      PROVE  ResolvedIsTimed'
  BY <1>2 DEF Load
<1>3. ASSUME NEW q \in Requests, Commit(q), NEW r \in Records, status'[r] = "resolved"
      PROVE  resolvedAt'[r] # Never /\ resolvedAt'[r] <= entered'[r] + 1
  <2>0. op[q] \in Kinds /\ stamp[q] \in {0, 1}
    BY <1>3 DEF Commit, TypeOK
  <2>1. entered'[r] \in Int /\ entered'[r] >= 0
    BY <1>3, AgeFacts DEF Commit, TypeOK, Ages
  <2>2. CASE SetsResolvedAt(q) /\ target[q] = r
    BY <1>3, <2>0, <2>1, <2>2 DEF Commit, TypeOK, Never
  <2>3. CASE ~(SetsResolvedAt(q) /\ target[q] = r)
    <3>1. resolvedAt'[r] = resolvedAt[r]
      BY <1>3, <2>3 DEF Commit, TypeOK
    <3>2. status[r] = "resolved"
      BY <1>3, <2>0, <2>3, WrittenFacts DEF Commit, TypeOK, SetsResolvedAt
    <3>3. entered'[r] = entered[r]
      BY <1>3, <3>2 DEF Commit, TypeOK
    <3> QED BY <3>1, <3>2, <3>3
  <2> QED BY <2>2, <2>3
<1>4. ASSUME NEW q \in Requests, Abort(q) PROVE ResolvedIsTimed'
  BY <1>4 DEF Abort
<1>5. CASE JobStarts \/ JobFails
  BY <1>5 DEF JobStarts, JobFails
<1>6. CASE JobDeletes
  BY <1>6 DEF JobDeletes
<1>7. ASSUME Tick, NEW r \in Records, status'[r] = "resolved"
      PROVE  resolvedAt'[r] # Never /\ resolvedAt'[r] <= entered'[r] + 1
  <2>1. /\ resolvedAt[r] \in Ages /\ entered[r] \in Ages
        /\ resolvedAt[r] <= entered[r] + 1
    BY <1>7 DEF Tick, TypeOK
  <2>2. resolvedAt'[r] = Older(resolvedAt[r]) /\ entered'[r] = Older(entered[r])
    BY <1>7 DEF Tick, TypeOK
  <2> QED BY <2>1, <2>2, AgeFacts DEF Ages, Never
<1>8. CASE UNCHANGED vars
  BY <1>8 DEF vars
<1> QED BY <1>1, <1>2, <1>3, <1>4, <1>5, <1>6, <1>7, <1>8 DEF Next

LEMMA LoadedStep == ASSUME TypeOK, LoadedHolds, [Next]_vars PROVE LoadedHolds'
<1> USE DEF LoadedHolds, requests, rows, TypeOK
<1>1. ASSUME NEW r \in Records, Detect(r) PROVE LoadedHolds'
  BY <1>1 DEF Detect
<1>2. ASSUME NEW q \in Requests, NEW k \in Kinds, NEW r \in Records, Load(q, k, r)
      PROVE  LoadedHolds'
  BY <1>2 DEF Load, Live
<1>3. ASSUME NEW q \in Requests, Commit(q), NEW p \in Requests, op'[p] # "none"
      PROVE  /\ loaded'[p] \notin {"absent", "deleted"}
             /\ ~overtaken'[p] => status'[target'[p]] = loaded'[p]
  <2>1. /\ p # q /\ op'[p] = op[p] /\ op[p] # "none" /\ loaded'[p] = loaded[p]
        /\ target'[p] = target[p]
    BY <1>3 DEF Commit, Leave
  <2>2. ASSUME ~overtaken'[p] PROVE status'[target[p]] = status[target[p]] /\ ~overtaken[p]
    BY <1>3, <2>1, <2>2 DEF Commit
  <2> QED BY <2>1, <2>2
<1>4. ASSUME NEW q \in Requests, Abort(q) PROVE LoadedHolds'
  BY <1>4 DEF Abort, Leave
<1>5. CASE JobStarts \/ JobFails
  BY <1>5 DEF JobStarts, JobFails
<1>6. CASE JobDeletes
  BY <1>6 DEF JobDeletes
<1>7. CASE Tick
  BY <1>7 DEF Tick
<1>8. CASE UNCHANGED vars
  BY <1>8 DEF vars
<1> QED BY <1>1, <1>2, <1>3, <1>4, <1>5, <1>6, <1>7, <1>8 DEF Next

LEMMA Invariant == Spec => []IInv
<1>1. IInv /\ [Next]_vars => IInv'
  BY TypeStep, TimedStep, LoadedStep DEF IInv
<1> QED BY <1>1, InitInv, PTL DEF Spec

-----------------------------------------------------------------------------

\* Every variable keeps its type in every reachable state.
THEOREM TypeCorrect == Spec => []TypeOK
<1>1. IInv => TypeOK
  BY DEF IInv
<1> QED BY <1>1, Invariant, PTL

\* A resolved record has a resolved_at, at most a request older than its status.
THEOREM ResolvedHasTime == Spec => []ResolvedIsTimed
<1>1. IInv => ResolvedIsTimed
  BY DEF IInv
<1> QED BY <1>1, Invariant, PTL

\* Only records that have been resolved for the archive period are deleted.
THEOREM DeletionWaits == Spec => DeletedLongResolved
<1>1. IInv /\ [Next]_vars =>
        [\A r \in Records :
           status[r] # "deleted" /\ status'[r] = "deleted" =>
             status[r] = "resolved" /\ entered[r] >= Archive]_vars
  <2> SUFFICES ASSUME IInv, Next, NEW r \in Records, status[r] # "deleted",
                      status'[r] = "deleted"
               PROVE  status[r] = "resolved" /\ entered[r] >= Archive
    BY DEF vars
  <2> USE DEF IInv, TypeOK, requests, rows
  <2>1. CASE JobDeletes
    <3>1. status[r] = "resolved" /\ resolvedAt[r] # Never /\ resolvedAt[r] > Archive + lag
      BY <2>1 DEF JobDeletes, Expired
    <3>2. resolvedAt[r] <= entered[r] + 1
      BY <3>1 DEF ResolvedIsTimed
    <3> QED BY <3>1, <3>2, RecordsAssumption, AgeFacts DEF Ages
  <2>2. ASSUME NEW q \in Requests, Commit(q) PROVE FALSE
    <3>1. Written(op[q]) # "deleted"
      BY <2>2, WrittenFacts DEF Commit
    <3> QED BY <2>2, <3>1 DEF Commit
  <2>3. ASSUME NEW q \in Requests, Abort(q) PROVE FALSE
    BY <2>3 DEF Abort
  <2> QED BY <2>1, <2>2, <2>3 DEF Next, Detect, Load, JobStarts, JobFails, Tick
<1> QED BY <1>1, Invariant, PTL DEF Spec, DeletedLongResolved

\* A request that nobody overtook leaves the record as it answers.
THEOREM AnswersAreTrue == Spec => AnswerIsTrue
<1>1. IInv /\ [Next]_vars =>
        [\A q \in Requests :
           Commit(q) /\ ~overtaken[q] => status'[target[q]] = Written(op[q])]_vars
  <2> SUFFICES ASSUME IInv, NEW q \in Requests, Commit(q), ~overtaken[q]
               PROVE  status'[target[q]] = Written(op[q])
    BY DEF vars
  <2>1. target[q] \in Records /\ status[target[q]] = loaded[q]
    BY DEF IInv, TypeOK, LoadedHolds, Commit
  <2>2. CASE MovesStatus(q)
    BY <2>1, <2>2 DEF IInv, TypeOK, Commit
  <2>3. CASE ~MovesStatus(q)
    BY <2>1, <2>3 DEF Commit, MovesStatus
  <2> QED BY <2>2, <2>3
<1> QED BY <1>1, Invariant, PTL DEF Spec, AnswerIsTrue

-----------------------------------------------------------------------------
(* Induction over numbers, with a set in place of a predicate *)

Less == {p \in Nat \X Nat : p[1] < p[2]}

LEMMA LessIsWellFounded == IsWellFoundedOn(Less, Nat)
BY NatLessThanWellFounded DEF OpToRel, Less

LEMMA SetInduction ==
  ASSUME NEW S \in SUBSET Nat, 0 \in S, \A n \in S : n + 1 \in S
  PROVE  S = Nat
<1> DEFINE T == Nat \ S
<1> SUFFICES ASSUME T # {} PROVE FALSE
  OBVIOUS
<1>1. PICK m \in T : \A n \in T : <<n, m>> \notin Less
  <2>1. T \subseteq Nat
    OBVIOUS
  <2> HIDE DEF T
  <2> QED BY <2>1, LessIsWellFounded, WFMin
<1>2. m # 0 /\ m - 1 \in Nat /\ <<m - 1, m>> \in Less
  BY <1>1 DEF Less
<1>3. m - 1 \in S
  BY <1>1, <1>2
<1>4. (m - 1) + 1 \in S
  BY <1>3
<1> QED BY <1>1, <1>4

\* A function defined along the numbers exists.
Follows(f, base, N, step) == f[0] = base /\ \A i \in 1 .. N : f[i] = step[i][f[i - 1]]

LEMMA Recursion ==
  ASSUME NEW V, NEW base \in V, NEW N \in Nat, NEW step \in [1 .. N -> [V -> V]]
  PROVE  \E f \in [0 .. N -> V] : Follows(f, base, N, step)
<1> DEFINE Def(n, f) == f[0] = base /\ \A i \in 1 .. n : f[i] = step[i][f[i - 1]]
           S == {n \in Nat : n <= N => \E f \in [0 .. n -> V] : Def(n, f)}
<1>1. 0 \in S
  <2>1. [i \in 0 .. 0 |-> base] \in [0 .. 0 -> V] /\ Def(0, [i \in 0 .. 0 |-> base])
    OBVIOUS
  <2> QED BY <2>1
<1>2. ASSUME NEW n \in S PROVE n + 1 \in S
  <2> SUFFICES ASSUME n + 1 <= N PROVE \E f \in [0 .. n + 1 -> V] : Def(n + 1, f)
    BY <1>2
  <2>1. PICK f \in [0 .. n -> V] : Def(n, f)
    BY <1>2
  <2> DEFINE g == [i \in 0 .. n + 1 |-> IF i = n + 1 THEN step[i][f[n]] ELSE f[i]]
  <2>2. f[n] \in V /\ step[n + 1][f[n]] \in V
    BY <1>2
  <2>3. g \in [0 .. n + 1 -> V]
    BY <2>2
  <2>4. Def(n + 1, g)
    <3>1. g[0] = base
      BY <1>2, <2>1
    <3>2. ASSUME NEW i \in 1 .. n + 1 PROVE g[i] = step[i][g[i - 1]]
      <4>1. CASE i = n + 1
        BY <1>2, <4>1
      <4>2. CASE i # n + 1
        <5>1. i \in 1 .. n /\ i - 1 \in 0 .. n /\ i - 1 # n + 1
          BY <1>2, <4>2
        <5> QED BY <5>1, <4>2, <2>1
      <4> QED BY <4>1, <4>2
    <3> QED BY <3>1, <3>2
  <2> QED BY <2>3, <2>4
<1>3. N \in S
  <2> HIDE DEF S
  <2>1. S \in SUBSET Nat
    BY DEF S
  <2> QED BY <1>1, <1>2, <2>1, SetInduction
<1>4. PICK f \in [0 .. N -> V] : Def(N, f)
  BY <1>3
<1> QED BY <1>4 DEF Follows

-----------------------------------------------------------------------------
(* Sums *)

\* A predicate on the subsets of a finite set that holds of the empty one and
\* is kept by adding an element holds of them all.
LEMMA SubsetInduction ==
  ASSUME NEW D, IsFiniteSet(D), NEW P \in SUBSET SUBSET D, {} \in P,
         \A S \in P : \A x \in D \ S : S \cup {x} \in P
  PROVE  \A S \in SUBSET D : S \in P
<1> DEFINE Q == {n \in Nat : \A S \in SUBSET D : Cardinality(S) = n => S \in P}
<1>1. \A S \in SUBSET D : IsFiniteSet(S) /\ Cardinality(S) \in Nat
  BY FS_Subset, FS_CardinalityType
<1>2. 0 \in Q
  BY <1>1, FS_EmptySet
<1>3. ASSUME NEW n \in Q PROVE n + 1 \in Q
  <2> SUFFICES ASSUME NEW S \in SUBSET D, Cardinality(S) = n + 1 PROVE S \in P
    OBVIOUS
  <2>1. S # {}
    <3>1. n \in Nat /\ Cardinality({}) = 0
      BY <1>3, FS_EmptySet
    <3>2. Cardinality({}) # n + 1
      BY <3>1
    <3> HIDE DEF Q
    <3> QED BY <3>2
  <2>2. PICK x \in S : TRUE
    BY <2>1
  <2>3. Cardinality(S \ {x}) = n
    <3>1. IsFiniteSet(S) /\ x \in S
      BY <1>1, <2>2
    <3>2. Cardinality(S \ {x}) = Cardinality(S) - 1
      BY ONLY <3>1, FS_RemoveElement
    <3>3. n \in Nat
      OBVIOUS
    <3> HIDE DEF Q
    <3> QED BY <3>2, <3>3
  <2>4. S \ {x} \in P
    BY <2>3
  <2>5. x \in D \ (S \ {x}) /\ (S \ {x}) \cup {x} = S
    BY <2>2
  <2> QED BY <2>4, <2>5
<1>4. Q = Nat
  <2> HIDE DEF Q
  <2>1. Q \in SUBSET Nat
    BY DEF Q
  <2> QED BY <1>2, <1>3, <2>1, SetInduction
<1> QED BY <1>1, <1>4

\* The function MapThenSumSet is defined by.
Sums(f, S) ==
  CHOOSE sums : sums = [s \in SUBSET S |->
    IF s = {} THEN 0
    ELSE LET x == CHOOSE x \in s : TRUE IN f[x] + sums[s \ {x}]]

Chosen(s) == CHOOSE x \in s : TRUE

LEMMA TotalIsSums == ASSUME NEW f, NEW S PROVE Total(f, S) = Sums(f, S)[S]
BY DEF Total, Sums, MapThenSumSet, MapThenFoldSet

Integral(f, S) == \A i \in S : f[i] \in Int

LEMMA SumsFacts ==
  ASSUME NEW f, NEW S, IsFiniteSet(S), Integral(f, S)
  PROVE  /\ \A s \in SUBSET S : Sums(f, S)[s] \in Int
         /\ Sums(f, S)[{}] = 0
         /\ \A s \in SUBSET S : s # {} => Sums(f, S)[s] = f[Chosen(s)] + Sums(f, S)[s \ {Chosen(s)}]
<1> DEFINE Upto(n) == {s \in SUBSET S : Cardinality(s) <= n}
           Good(g, n) == \A s \in Upto(n) :
             g[s] = IF s = {} THEN 0 ELSE f[Chosen(s)] + g[s \ {Chosen(s)}]
           Q == {n \in Nat : \E g \in [Upto(n) -> Int] : Good(g, n)}
<1>1. \A s \in SUBSET S : /\ IsFiniteSet(s) /\ Cardinality(s) \in Nat
                          /\ s # {} => /\ Chosen(s) \in s /\ s \ {Chosen(s)} \in SUBSET S
                                       /\ Cardinality(s \ {Chosen(s)}) = Cardinality(s) - 1
                                       /\ f[Chosen(s)] \in Int
  BY FS_Subset, FS_CardinalityType, FS_RemoveElement DEF Chosen, Integral
<1>2. \A s \in SUBSET S : Cardinality(s) = 0 <=> s = {}
  BY <1>1, FS_EmptySet
<1>3. 0 \in Q
  <2> DEFINE g == [s \in Upto(0) |-> 0]
  <2>1. ASSUME NEW s \in Upto(0) PROVE s = {}
    <3>1. s \in SUBSET S /\ Cardinality(s) <= 0 /\ Cardinality(s) \in Nat
      BY <1>1
    <3>2. Cardinality(s) = 0
      BY <3>1
    <3> QED BY <1>2, <3>1, <3>2
  <2>2. g \in [Upto(0) -> Int] /\ \A s \in Upto(0) : g[s] = 0
    <3> HIDE DEF Upto
    <3> QED OBVIOUS
  <2>3. Good(g, 0)
    BY <2>1, <2>2
  <2> HIDE DEF Good, Upto, g
  <2> QED BY <2>2, <2>3
<1>4. ASSUME NEW n \in Q PROVE n + 1 \in Q
  <2>1. PICK g \in [Upto(n) -> Int] : Good(g, n)
    BY <1>4
  <2> DEFINE h == [s \in Upto(n + 1) |->
                     IF s \in Upto(n) THEN g[s] ELSE f[Chosen(s)] + g[s \ {Chosen(s)}]]
  <2>2. ASSUME NEW s \in Upto(n + 1), s # {}
        PROVE  s \ {Chosen(s)} \in Upto(n) /\ s \ {Chosen(s)} \in Upto(n + 1) /\ f[Chosen(s)] \in Int
    BY <1>1, <2>2
  <2>3. \A s \in Upto(n + 1) : s = {} => s \in Upto(n)
    BY <1>1, <1>2
  <2>4. h \in [Upto(n + 1) -> Int]
    BY <2>1, <2>2, <2>3
  <2>5. ASSUME NEW s \in Upto(n + 1)
        PROVE  h[s] = IF s = {} THEN 0 ELSE f[Chosen(s)] + h[s \ {Chosen(s)}]
    <3>1. CASE s = {}
      BY <2>1, <2>3, <3>1
    <3>2. CASE s # {}
      <4>1. h[s \ {Chosen(s)}] = g[s \ {Chosen(s)}]
        BY <2>2, <3>2
      <4>2. h[s] = f[Chosen(s)] + g[s \ {Chosen(s)}]
        BY <2>1, <3>2
      <4> QED BY <3>2, <4>1, <4>2
    <3> QED BY <3>1, <3>2
  <2> HIDE DEF h
  <2>6. Good(h, n + 1)
    BY <2>5
  <2> HIDE DEF Good, Upto
  <2>7. n + 1 \in Nat
    BY <1>4
  <2> QED BY <2>4, <2>6, <2>7
<1>5. Q = Nat
  <2> HIDE DEF Q
  <2>1. Q \in SUBSET Nat
    BY DEF Q
  <2> QED BY <1>3, <1>4, <2>1, SetInduction
<1>6. Cardinality(S) \in Nat /\ Upto(Cardinality(S)) = SUBSET S
  BY <1>1, FS_Subset
<1>7. PICK g \in [SUBSET S -> Int] : \A s \in SUBSET S :
         g[s] = IF s = {} THEN 0 ELSE f[Chosen(s)] + g[s \ {Chosen(s)}]
  <2> DEFINE N == Cardinality(S)
  <2>1. N \in Q
    BY <1>5, <1>6
  <2>2. PICK g \in [Upto(N) -> Int] : Good(g, N)
    BY <2>1
  <2>3. Upto(N) = SUBSET S
    BY <1>6
  <2>4. \A s \in SUBSET S : g[s] = IF s = {} THEN 0 ELSE f[Chosen(s)] + g[s \ {Chosen(s)}]
    <3> HIDE DEF Upto
    <3> QED BY <2>2, <2>3
  <2> HIDE DEF Upto
  <2> QED BY <2>2, <2>3, <2>4
<1>8. g = [s \in SUBSET S |->
            IF s = {} THEN 0
            ELSE LET x == CHOOSE x \in s : TRUE IN f[x] + g[s \ {x}]]
  BY <1>7 DEF Chosen
<1>9. Sums(f, S) = [s \in SUBSET S |->
            IF s = {} THEN 0
            ELSE LET x == CHOOSE x \in s : TRUE IN f[x] + Sums(f, S)[s \ {x}]]
  BY <1>8 DEF Sums
<1> DEFINE T == Sums(f, S)
<1> HIDE DEF T
<1>10. T[{}] = 0 /\ \A s \in SUBSET S : s # {} => T[s] = f[Chosen(s)] + T[s \ {Chosen(s)}]
  BY <1>9 DEF T, Chosen
<1> DEFINE P == {s \in SUBSET S : T[s] = g[s]}
           R == {n \in Nat : \A s \in SUBSET S : Cardinality(s) = n => T[s] = g[s]}
<1>11. 0 \in R
  BY <1>2, <1>7, <1>10
<1>12. ASSUME NEW n \in R PROVE n + 1 \in R
  <2> SUFFICES ASSUME NEW s \in SUBSET S, Cardinality(s) = n + 1 PROVE T[s] = g[s]
    OBVIOUS
  <2>1. s # {} /\ s \ {Chosen(s)} \in SUBSET S /\ Cardinality(s \ {Chosen(s)}) = n
    BY <1>1, <1>2
  <2>2. T[s \ {Chosen(s)}] = g[s \ {Chosen(s)}]
    BY <2>1
  <2> QED BY <1>7, <1>10, <2>1, <2>2
<1>13. R = Nat
  <2> HIDE DEF R
  <2>1. R \in SUBSET Nat
    BY DEF R
  <2> QED BY <1>11, <1>12, <2>1, SetInduction
<1>14. \A s \in SUBSET S : T[s] \in Int
  BY <1>1, <1>7, <1>13
<1> QED BY <1>10, <1>14 DEF T

LEMMA SumsStep ==
  ASSUME NEW f, NEW S, IsFiniteSet(S), Integral(f, S)
  PROVE  \A s \in SUBSET S : s # {} => Sums(f, S)[s] = f[Chosen(s)] + Sums(f, S)[s \ {Chosen(s)}]
BY SumsFacts

\* The recursion over S gives for a part of S what that part's own gives.
LEMMA SumsAgree ==
  ASSUME NEW f, NEW S, IsFiniteSet(S), Integral(f, S), NEW T \in SUBSET S
  PROVE  Sums(f, S)[T] = Total(f, T)
<1> DEFINE A == Sums(f, S)
           B == Sums(f, T)
           R == {n \in Nat : \A s \in SUBSET T : Cardinality(s) = n => A[s] = B[s]}
<1>1. IsFiniteSet(T) /\ Integral(f, T)
  BY FS_Subset DEF Integral
<1>2. \A s \in SUBSET T : /\ IsFiniteSet(s) /\ Cardinality(s) \in Nat
                          /\ Cardinality(s) = 0 <=> s = {}
                          /\ s # {} => /\ s \ {Chosen(s)} \in SUBSET T
                                       /\ Cardinality(s \ {Chosen(s)}) = Cardinality(s) - 1
  BY <1>1, FS_Subset, FS_CardinalityType, FS_EmptySet, FS_RemoveElement DEF Chosen
<1>3. /\ A[{}] = 0 /\ B[{}] = 0
      /\ \A s \in SUBSET T : s # {} => /\ A[s] = f[Chosen(s)] + A[s \ {Chosen(s)}]
                                       /\ B[s] = f[Chosen(s)] + B[s \ {Chosen(s)}]
  <2>1. /\ A[{}] = 0
        /\ \A s \in SUBSET T : s # {} => A[s] = f[Chosen(s)] + A[s \ {Chosen(s)}]
    <3>1. \A s \in SUBSET S : s # {} => A[s] = f[Chosen(s)] + A[s \ {Chosen(s)}]
      BY SumsStep
    <3>2. A[{}] = 0
      BY SumsFacts
    <3> HIDE DEF A
    <3> QED BY <3>1, <3>2
  <2>2. /\ B[{}] = 0
        /\ \A s \in SUBSET T : s # {} => B[s] = f[Chosen(s)] + B[s \ {Chosen(s)}]
    <3>1. \A s \in SUBSET T : s # {} => B[s] = f[Chosen(s)] + B[s \ {Chosen(s)}]
      BY <1>1, SumsStep
    <3>2. B[{}] = 0
      BY <1>1, SumsFacts
    <3> HIDE DEF B
    <3> QED BY <3>1, <3>2
  <2> HIDE DEF A, B
  <2> QED BY <2>1, <2>2
<1> HIDE DEF A, B
<1>4. 0 \in R
  BY <1>2, <1>3
<1>5. ASSUME NEW n \in R PROVE n + 1 \in R
  <2> SUFFICES ASSUME NEW s \in SUBSET T, Cardinality(s) = n + 1 PROVE A[s] = B[s]
    OBVIOUS
  <2>1. s # {} /\ s \ {Chosen(s)} \in SUBSET T /\ Cardinality(s \ {Chosen(s)}) = n
    BY <1>2
  <2>2. A[s \ {Chosen(s)}] = B[s \ {Chosen(s)}]
    BY <2>1
  <2> QED BY <1>3, <2>1, <2>2
<1>6. R = Nat
  <2> HIDE DEF R
  <2>1. R \in SUBSET Nat
    BY DEF R
  <2> QED BY <1>4, <1>5, <2>1, SetInduction
<1>7. A[T] = B[T]
  BY <1>2, <1>6
<1> QED BY <1>7, TotalIsSums DEF A, B

LEMMA TotalType ==
  ASSUME NEW f, NEW S, IsFiniteSet(S), Integral(f, S)
  PROVE  Total(f, S) \in Int /\ Total(f, {}) = 0
<1>1. Total(f, S) = Sums(f, S)[S] /\ Sums(f, S)[{}] = Total(f, {})
  BY TotalIsSums, SumsAgree
<1> QED BY <1>1, SumsFacts

\* The order in which a sum is taken does not matter.
LEMMA TotalRemove ==
  ASSUME NEW f, NEW D, IsFiniteSet(D), Integral(f, D)
  PROVE  \A S \in SUBSET D : \A x \in S : Total(f, S) = f[x] + Total(f, S \ {x})
<1> DEFINE R == {n \in Nat : \A S \in SUBSET D : Cardinality(S) = n =>
                   \A x \in S : Total(f, S) = f[x] + Total(f, S \ {x})}
<1>1. \A s \in SUBSET D : /\ IsFiniteSet(s) /\ Cardinality(s) \in Nat /\ Integral(f, s)
                          /\ Total(f, s) \in Int
                          /\ \A x \in s : Cardinality(s \ {x}) = Cardinality(s) - 1
  BY FS_Subset, FS_CardinalityType, FS_RemoveElement, TotalType DEF Integral
<1>2. ASSUME NEW s \in SUBSET D, s # {}
      PROVE  Chosen(s) \in s /\ Total(f, s) = f[Chosen(s)] + Total(f, s \ {Chosen(s)})
  <2>1. Chosen(s) \in s
    BY <1>2 DEF Chosen
  <2>2. Total(f, s) = Sums(f, D)[s] /\ Total(f, s \ {Chosen(s)}) = Sums(f, D)[s \ {Chosen(s)}]
    BY SumsAgree
  <2>3. Sums(f, D)[s] = f[Chosen(s)] + Sums(f, D)[s \ {Chosen(s)}]
    BY <1>2, SumsFacts
  <2> QED BY <2>1, <2>2, <2>3
<1>3. 0 \in R
  <2>1. \A S \in SUBSET D : Cardinality(S) = 0 => S = {}
    BY <1>1, FS_EmptySet
  <2> QED BY <2>1
<1>4. ASSUME NEW n \in R PROVE n + 1 \in R
  <2> SUFFICES ASSUME NEW S \in SUBSET D, Cardinality(S) = n + 1, NEW x \in S
               PROVE  Total(f, S) = f[x] + Total(f, S \ {x})
    OBVIOUS
  <2> DEFINE c == Chosen(S)
  <2>1. c \in S /\ Total(f, S) = f[c] + Total(f, S \ {c})
    BY <1>2
  <2> HIDE DEF c
  <2>2. CASE x # c
    <3>1. S \ {c} \in SUBSET D /\ S \ {x} \in SUBSET D /\ x \in S \ {c} /\ c \in S \ {x}
      BY <2>1, <2>2
    <3>2. Cardinality(S \ {c}) = n /\ Cardinality(S \ {x}) = n
      <4>1. n \in Nat
        BY <1>4
      <4>2. Cardinality(S \ {c}) = Cardinality(S) - 1 /\ Cardinality(S \ {x}) = Cardinality(S) - 1
        BY <1>1, <2>1
      <4> HIDE DEF R
      <4> QED BY <4>1, <4>2
    <3>3. Total(f, S \ {c}) = f[x] + Total(f, (S \ {c}) \ {x})
      BY <3>1, <3>2
    <3>4. Total(f, S \ {x}) = f[c] + Total(f, (S \ {x}) \ {c})
      BY <3>1, <3>2
    <3>5. (S \ {c}) \ {x} = (S \ {x}) \ {c}
      OBVIOUS
    <3>6. f[x] \in Int /\ f[c] \in Int /\ Total(f, (S \ {x}) \ {c}) \in Int
      BY <1>1, <2>1 DEF Integral
    <3> DEFINE rest == Total(f, (S \ {x}) \ {c})
               withoutC == Total(f, S \ {c})
               withoutX == Total(f, S \ {x})
               fx == f[x]
               fc == f[c]
    <3>7. Total(f, S) = fc + withoutC /\ withoutC = fx + rest /\ withoutX = fc + rest
      BY <2>1, <3>3, <3>4, <3>5
    <3>8. fx \in Int /\ fc \in Int /\ rest \in Int
      BY <3>6
    <3> HIDE DEF R, rest, withoutC, withoutX, fx, fc
    <3>9. Total(f, S) = fx + withoutX
      BY <3>7, <3>8
    <3> QED BY <3>9 DEF fx, withoutX
  <2>3. CASE x = c
    BY <2>1, <2>3
  <2> QED BY <2>2, <2>3
<1>5. R = Nat
  <2> HIDE DEF R
  <2>1. R \in SUBSET Nat
    BY DEF R
  <2> QED BY <1>3, <1>4, <2>1, SetInduction
<1> QED BY <1>1, <1>5

\* A sum grows by the value of an element that is added.
LEMMA TotalAdd ==
  ASSUME NEW f, NEW D, IsFiniteSet(D), Integral(f, D), NEW S \in SUBSET D, NEW x \in D \ S
  PROVE  /\ Total(f, S \cup {x}) = Total(f, S) + f[x]
         /\ Total(f, S) \in Int /\ f[x] \in Int
<1>1. (S \cup {x}) \ {x} = S /\ S \cup {x} \in SUBSET D /\ x \in S \cup {x}
  OBVIOUS
<1>2. Total(f, S \cup {x}) = f[x] + Total(f, S)
  <2>1. Total(f, S \cup {x}) = f[x] + Total(f, (S \cup {x}) \ {x})
    BY <1>1, TotalRemove
  <2> QED BY <1>1, <2>1
<1>3. Total(f, S) \in Int /\ f[x] \in Int
  <2>1. IsFiniteSet(S) /\ Integral(f, S)
    BY FS_Subset DEF Integral
  <2> QED BY <2>1, TotalType DEF Integral
<1> QED BY <1>2, <1>3

Combines(k, S, a, f, b, g, c) ==
  /\ Integral(f, S) /\ Integral(g, S) /\ a \in Int /\ b \in Int /\ c \in Int
  /\ \A i \in S : k[i] = a * f[i] + b * g[i] + c

\* A sum of a linear combination is the combination of the sums.
LEMMA TotalCombine ==
  ASSUME NEW D, IsFiniteSet(D), NEW f, NEW g, NEW k, NEW a, NEW b, NEW c,
         Combines(k, D, a, f, b, g, c)
  PROVE  /\ Total(k, D) = a * Total(f, D) + b * Total(g, D) + c * Cardinality(D)
         /\ Total(f, D) \in Int /\ Total(g, D) \in Int /\ Total(k, D) \in Int
         /\ Cardinality(D) \in Nat
<1>0. /\ Integral(f, D) /\ Integral(g, D) /\ a \in Int /\ b \in Int /\ c \in Int
      /\ \A i \in D : k[i] = a * f[i] + b * g[i] + c
  BY DEF Combines
<1> DEFINE P == {S \in SUBSET D :
                   Total(k, S) = a * Total(f, S) + b * Total(g, S) + c * Cardinality(S)}
<1>1. Integral(k, D)
  BY <1>0 DEF Integral
<1>2. \A S \in SUBSET D : /\ IsFiniteSet(S) /\ Cardinality(S) \in Nat
                          /\ Total(f, S) \in Int /\ Total(g, S) \in Int /\ Total(k, S) \in Int
  <2> SUFFICES ASSUME NEW S \in SUBSET D
               PROVE  /\ IsFiniteSet(S) /\ Cardinality(S) \in Nat
                      /\ Total(f, S) \in Int /\ Total(g, S) \in Int /\ Total(k, S) \in Int
    OBVIOUS
  <2>1. IsFiniteSet(S) /\ Cardinality(S) \in Nat
    BY FS_Subset, FS_CardinalityType
  <2>2. Integral(f, S) /\ Integral(g, S) /\ Integral(k, S)
    BY <1>0, <1>1 DEF Integral
  <2> QED BY <2>1, <2>2, TotalType
<1>3. {} \in P
  <2>1. Total(f, {}) = 0 /\ Total(g, {}) = 0 /\ Total(k, {}) = 0 /\ Cardinality({}) = 0
    BY <1>0, <1>1, TotalType, FS_EmptySet
  <2>2. 0 = a * 0 + b * 0 + c * 0
    BY <1>0
  <2> QED BY <2>1, <2>2
<1>4. ASSUME NEW S \in P, NEW x \in D \ S PROVE S \cup {x} \in P
  <2> DEFINE F == Total(f, S)  G == Total(g, S)  K == Total(k, S)  m == Cardinality(S)
             fx == f[x]  gx == g[x]  kx == k[x]
  <2>1. /\ Total(f, S \cup {x}) = F + fx /\ Total(g, S \cup {x}) = G + gx
        /\ Total(k, S \cup {x}) = K + kx
        /\ F \in Int /\ G \in Int /\ K \in Int /\ fx \in Int /\ gx \in Int
    <3>1. S \in SUBSET D
      OBVIOUS
    <3>2. Total(f, S \cup {x}) = F + fx /\ F \in Int /\ fx \in Int
      BY <1>0, <3>1, TotalAdd
    <3>3. Total(g, S \cup {x}) = G + gx /\ G \in Int /\ gx \in Int
      <4>1. Integral(g, D) /\ IsFiniteSet(D) /\ x \in D \ S
        BY <1>0
      <4> HIDE DEF P, F, fx, K, kx
      <4> QED BY ONLY <3>1, <4>1, TotalAdd
    <3>4. Total(k, S \cup {x}) = K + kx /\ K \in Int
      BY <1>1, <3>1, TotalAdd
    <3> HIDE DEF F, G, K, fx, gx, kx
    <3> QED BY <3>2, <3>3, <3>4
  <2>2. Cardinality(S \cup {x}) = m + 1 /\ m \in Nat
    BY <1>2, FS_AddElement
  <2>3. K = a * F + b * G + c * m /\ kx = a * fx + b * gx + c
    BY <1>0
  <2> HIDE DEF F, G, K, m, fx, gx, kx
  <2>4. K + kx = a * (F + fx) + b * (G + gx) + c * (m + 1)
    BY <1>0, <2>1, <2>2, <2>3
  <2> QED BY <2>1, <2>2, <2>4
<1>5. \A S \in SUBSET D : S \in P
  <2> HIDE DEF P
  <2>1. P \in SUBSET SUBSET D
    BY DEF P
  <2> QED BY <1>3, <1>4, <2>1, SubsetInduction
<1> QED BY <1>2, <1>5

Scales(g, S, a, f, c) ==
  /\ Integral(f, S) /\ a \in Int /\ c \in Int
  /\ \A i \in S : g[i] = a * f[i] + c

LEMMA TotalLinear ==
  ASSUME NEW S, IsFiniteSet(S), NEW f, NEW g, NEW a, NEW c, Scales(g, S, a, f, c)
  PROVE  /\ Total(g, S) = a * Total(f, S) + c * Cardinality(S)
         /\ Total(f, S) \in Int /\ Total(g, S) \in Int /\ Cardinality(S) \in Nat
<1> DEFINE zero == 0
<1>0. a \in Int /\ c \in Int
  BY DEF Scales
<1>1. Combines(g, S, a, f, zero, f, c)
  BY DEF Integral, Combines, Scales
<1>2. /\ Total(g, S) = a * Total(f, S) + 0 * Total(f, S) + c * Cardinality(S)
      /\ Total(f, S) \in Int /\ Total(g, S) \in Int /\ Cardinality(S) \in Nat
  <2> HIDE DEF zero
  <2>1. /\ Total(g, S) = a * Total(f, S) + zero * Total(f, S) + c * Cardinality(S)
        /\ Total(f, S) \in Int /\ Total(g, S) \in Int /\ Cardinality(S) \in Nat
    BY <1>1, TotalCombine
  <2> QED BY <2>1 DEF zero
<1> DEFINE F == Total(f, S)  m == Cardinality(S)
<1> HIDE DEF F, m
<1>3. F \in Int /\ m \in Nat => a * F + 0 * F + c * m = a * F + c * m
  BY <1>0
<1> QED BY <1>2, <1>3 DEF F, m

-----------------------------------------------------------------------------
(* The measure of deviation *)

Squares(r, S) == [i \in S |-> r[i] * r[i]]

LEMMA SquaresFacts ==
  ASSUME NEW r, NEW S, IsFiniteSet(S), Integral(r, S)
  PROVE  /\ Integral(Squares(r, S), S)
         /\ Total(Squares(r, S), S) \in Int /\ Total(r, S) \in Int
         /\ Cardinality(S) \in Nat
<1>1. Integral(Squares(r, S), S)
  BY DEF Integral, Squares
<1> QED BY <1>1, TotalType, FS_CardinalityType

Spread(r, S) == Cardinality(S) * Total(Squares(r, S), S) - Total(r, S) * Total(r, S)

\* SquaredZ is the square of the deviation over the spread.
LEMMA SquaredZIs ==
  ASSUME NEW r, NEW S, NEW d
  PROVE  SquaredZ(r, S, d) = Measure(d * d * Cardinality(S) * (Cardinality(S) - 1), Spread(r, S))
BY DEF SquaredZ, Spread, Squares

\* Neither the sign nor the origin of a sample changes the spread, and a
\* deviation counts by its square.
LEMMA SpreadMap ==
  ASSUME NEW S, IsFiniteSet(S), NEW r, NEW q, NEW a, NEW b,
         Scales(q, S, a, r, b), a \in {1, -1}
  PROVE  Spread(q, S) = Spread(r, S)
<1> DEFINE m == Cardinality(S)  T == Total(r, S)  Q == Total(Squares(r, S), S)
           T2 == Total(q, S)  Q2 == Total(Squares(q, S), S)
<1>0. Integral(r, S) /\ b \in Int /\ \A i \in S : q[i] = a * r[i] + b
  BY DEF Scales
<1>1. m \in Nat /\ T \in Int /\ Q \in Int /\ Integral(Squares(r, S), S)
  BY <1>0, SquaresFacts
<1>2. a \in Int /\ a * a = 1
  OBVIOUS
<1>3. T2 = a * T + b * m
  BY TotalLinear
<1>4. Q2 = 1 * Q + (2 * a * b) * T + (b * b) * m
  <2>1. \A i \in S : Squares(q, S)[i] = 1 * Squares(r, S)[i] + (2 * a * b) * r[i] + b * b
    <3> SUFFICES ASSUME NEW i \in S
                 PROVE  Squares(q, S)[i] = 1 * Squares(r, S)[i] + (2 * a * b) * r[i] + b * b
      OBVIOUS
    <3> DEFINE x == r[i]
    <3>1. x \in Int /\ Squares(q, S)[i] = (a * x + b) * (a * x + b) /\ Squares(r, S)[i] = x * x
      BY <1>0 DEF Integral, Squares
    <3> HIDE DEF x
    <3>2. (a * x + b) * (a * x + b) = (a * a) * (x * x) + (2 * a * b) * x + b * b
      BY <1>0, <1>2, <3>1
    <3>3. (a * x + b) * (a * x + b) = 1 * (x * x) + (2 * a * b) * x + b * b
      BY <1>2, <3>2
    <3> QED BY <3>1, <3>3 DEF x
  <2>2. S \in SUBSET S /\ 2 * a * b \in Int /\ b * b \in Int /\ 1 \in Int
    BY <1>0, <1>2
  <2> DEFINE one == 1  ab == 2 * a * b  bb == b * b  sr == Squares(r, S)  sq == Squares(q, S)
  <2>4. Combines(sq, S, one, sr, ab, r, bb)
    BY <1>0, <1>1, <2>1, <2>2 DEF Combines
  <2> HIDE DEF one, ab, bb, sr, sq
  <2>3. Total(sq, S) = one * Total(sr, S) + ab * Total(r, S) + bb * Cardinality(S)
    BY <2>4, TotalCombine
  <2> QED BY <2>3 DEF one, ab, bb, sr, sq
<1> HIDE DEF m, T, Q, T2, Q2
<1>5. m * Q2 - T2 * T2 = m * Q - T * T
  <2>1. T2 * T2 = (a * a) * (T * T) + (2 * a * b) * T * m + b * b * m * m
    BY <1>0, <1>1, <1>2, <1>3
  <2>2. T2 * T2 = T * T + (2 * a * b) * T * m + b * b * m * m
    BY <1>0, <1>1, <1>2, <2>1
  <2>3. m * Q2 = m * Q + (2 * a * b) * T * m + b * b * m * m
    BY <1>0, <1>1, <1>2, <1>4
  <2>4. Q2 \in Int /\ T2 \in Int
    BY <1>0, <1>1, <1>2, <1>3, <1>4
  <2> QED BY <1>0, <1>1, <1>2, <2>2, <2>3, <2>4
<1> QED BY <1>5 DEF Spread, m, T, Q, T2, Q2

LEMMA SquaredZMap ==
  ASSUME NEW S, IsFiniteSet(S), NEW r, NEW q, NEW a, NEW b,
         Scales(q, S, a, r, b), a \in {1, -1},
         NEW d \in Int, NEW e \in Int, e = a * d
  PROVE  SquaredZ(q, S, e) = SquaredZ(r, S, d)
<1>1. e * e = d * d
  <2>1. CASE a = 1
    BY <2>1
  <2>2. CASE a = -1
    <3>1. e = -d
      BY <2>2
    <3> QED BY <3>1
  <2> QED BY <2>1, <2>2
<1>2. Spread(q, S) = Spread(r, S)
  BY SpreadMap
<1> QED BY <1>1, <1>2, SquaredZIs

Moved(e, S) == {i \in S : e[i] # 0}

\* The square of a sum is at most the sum of the squares, once for every
\* element that is not zero.
LEMMA Cauchy ==
  ASSUME NEW e, NEW D, IsFiniteSet(D), Integral(e, D)
  PROVE  /\ Total(e, D) * Total(e, D) <= Cardinality(Moved(e, D)) * Total(Squares(e, D), D)
         /\ Total(Squares(e, D), D) >= 0
<1> DEFINE sq == Squares(e, D)
           P == {S \in SUBSET D :
                   /\ Total(e, S) * Total(e, S) <= Cardinality(Moved(e, S)) * Total(sq, S)
                   /\ Total(sq, S) >= 0}
<1>1. Integral(sq, D) /\ \A i \in D : sq[i] = e[i] * e[i]
  BY DEF Integral, Squares
<1> HIDE DEF sq
<1>2. {} \in P
  <2>1. Total(e, {}) = 0 /\ Total(sq, {}) = 0 /\ Moved(e, {}) = {} /\ Cardinality({}) = 0
    BY <1>1, TotalType, FS_EmptySet DEF Moved
  <2> QED BY <2>1
<1>3. ASSUME NEW S \in P, NEW x \in D \ S PROVE S \cup {x} \in P
  <2> DEFINE T == Total(e, S)  Q == Total(sq, S)  p == Cardinality(Moved(e, S))  y == e[x]
  <2>1. S \in SUBSET D /\ T * T <= p * Q /\ Q >= 0
    OBVIOUS
  <2> HIDE DEF P
  <2>2. Total(e, S \cup {x}) = T + y /\ T \in Int /\ y \in Int
    BY <2>1, TotalAdd
  <2>3. Total(sq, S \cup {x}) = Q + y * y /\ Q \in Int
    BY <1>1, <2>1, TotalAdd
  <2>4. IsFiniteSet(Moved(e, S)) /\ p \in Nat /\ x \notin Moved(e, S)
    <3>1. Moved(e, S) \in SUBSET D
      BY <2>1 DEF Moved
    <3> QED BY <3>1, FS_Subset, FS_CardinalityType DEF Moved
  <2>5. /\ (T + y) * (T + y) <= Cardinality(Moved(e, S \cup {x})) * (Q + y * y)
        /\ Q + y * y >= 0
    <3>1. CASE y = 0
      <4>1. Moved(e, S \cup {x}) = Moved(e, S)
        BY <3>1 DEF Moved
      <4> HIDE DEF T, Q, p, y
      <4>2. (T + y) * (T + y) = T * T /\ Q + y * y = Q
        BY <2>2, <2>3, <3>1
      <4> QED BY <2>1, <4>1, <4>2 DEF p
    <3>2. CASE y # 0
      <4>1. Moved(e, S \cup {x}) = Moved(e, S) \cup {x}
        BY <3>2 DEF Moved
      <4>2. Cardinality(Moved(e, S \cup {x})) = p + 1
        BY <2>4, <4>1, FS_AddElement
      <4> HIDE DEF T, Q, p, y
      <4>3. 2 * T * y <= Q + p * (y * y)
        <5>1. CASE p = 0
          <6>1. p * Q = 0
            BY <2>3, <5>1
          <6>2. T = 0
            BY <2>1, <2>2, <6>1
          <6> QED BY <2>1, <2>2, <2>3, <5>1, <6>2
        <5>2. CASE p # 0
          <6> DEFINE G == Q + p * (y * y) - 2 * T * y
          <6>1. G \in Int
            BY <2>2, <2>3, <2>4
          <6>2. p * G = p * Q - T * T + (T - p * y) * (T - p * y)
            BY <2>2, <2>3, <2>4
          <6>3. (T - p * y) * (T - p * y) >= 0 /\ (T - p * y) * (T - p * y) \in Int
            BY <2>2, <2>4
          <6>4. p * G >= 0
            <7> HIDE DEF G
            <7>1. p * Q \in Int /\ T * T \in Int
              BY <2>2, <2>3, <2>4
            <7> QED BY <2>1, <6>2, <6>3, <7>1
          <6>5. G >= 0
            <7> HIDE DEF G
            <7> QED BY <2>4, <5>2, <6>1, <6>4
          <6> QED BY <2>2, <2>3, <2>4, <6>5
        <5> QED BY <5>1, <5>2
      <4>4. y * y >= 0 /\ y * y \in Int
        BY <2>2
      <4>5. (T + y) * (T + y) <= (p + 1) * (Q + y * y)
        <5>1. (T + y) * (T + y) = T * T + 2 * T * y + y * y
          BY <2>2
        <5>2. (p + 1) * (Q + y * y) = p * Q + Q + p * (y * y) + y * y
          BY <2>2, <2>3, <2>4
        <5>3. T * T \in Int /\ p * Q \in Int /\ 2 * T * y \in Int /\ p * (y * y) \in Int
          BY <2>2, <2>3, <2>4
        <5> QED BY <2>1, <2>3, <4>3, <4>4, <5>1, <5>2, <5>3
      <4> QED BY <2>1, <2>3, <4>2, <4>4, <4>5
    <3> QED BY <3>1, <3>2
  <2> HIDE DEF T, Q, p, y
  <2> QED BY <2>1, <2>2, <2>3, <2>5 DEF P
<1>4. D \in P
  <2> HIDE DEF P
  <2>1. P \in SUBSET SUBSET D
    BY DEF P
  <2> QED BY <1>2, <1>3, <2>1, SubsetInduction
<1> QED BY <1>4 DEF sq

-----------------------------------------------------------------------------
(* zscore *)

Copy(h, c) == {i \in DOMAIN h : h[i] = c}

\* A history of integers is a sample over its positions.
LEMMA HistoryFacts ==
  ASSUME NEW h \in Seq(Int)
  PROVE  /\ Len(h) \in Nat /\ DOMAIN h = 1 .. Len(h) /\ IsFiniteSet(1 .. Len(h))
         /\ Cardinality(1 .. Len(h)) = Len(h) /\ Integral(h, 1 .. Len(h))
         /\ Total(h, 1 .. Len(h)) \in Int
<1>1. Len(h) \in Nat /\ DOMAIN h = 1 .. Len(h) /\ Integral(h, 1 .. Len(h))
  BY DEF Integral
<1>2. IsFiniteSet(1 .. Len(h)) /\ Cardinality(1 .. Len(h)) = Len(h)
  <2> DEFINE n == Len(h)
  <2>1. n \in Int /\ n >= 0
    BY <1>1
  <2> HIDE DEF n
  <2>2. IsFiniteSet(1 .. n) /\ Cardinality(1 .. n) = IF 1 > n THEN 0 ELSE n - 1 + 1
    BY ONLY <2>1, FS_Interval, 1 \in Int
  <2>3. Cardinality(1 .. n) = n
    BY <2>1, <2>2
  <2> QED BY <2>2, <2>3 DEF n
<1> QED BY <1>1, <1>2, TotalType

\* The level c of a history is no anomaly to zscore once it has its share.
LEMMA ZScoreAbsorbs ==
  ASSUME NEW h \in Seq(Int), NEW c \in Int, IsAnomaly("zscore", h, c)
  PROVE  LET n == Len(h)  k == Cardinality(Copy(h, c))
         IN  k * n * Sigma * Sigma < (n - k) * (n - 1)
<1> DEFINE n == Len(h)  k == Cardinality(Copy(h, c))  S == 1 .. n
           e == [i \in S |-> h[i] - c]
           scaled == [i \in S |-> n * h[i]]
           d == n * c - Total(h, S)
           T == Total(e, S)  Q == Total(Squares(e, S), S)  sigma == Sigma * Sigma
<1>1. n \in Nat /\ S = DOMAIN h /\ IsFiniteSet(S) /\ Cardinality(S) = n /\ Integral(h, S)
  BY HistoryFacts
<1>2. /\ n >= 2
      /\ ZScore(h, c) = SquaredZ(scaled, S, d)
      /\ ZScore(h, c).num > Sigma * Sigma * ZScore(h, c).den
  <2>1. ZScore(h, c).num > Sigma * Sigma * ZScore(h, c).den
    BY DEF IsAnomaly, Z
  <2>2. n >= 2
    <3> SUFFICES ASSUME n < 2 PROVE FALSE
      BY <1>1
    <3>1. ZScore(h, c) = Quiet
      BY DEF ZScore
    <3>2. Quiet.num = 0 /\ Quiet.den = 1
      BY DEF Quiet, Measure
    <3>3. 0 > Sigma * Sigma * 1
      BY <2>1, <3>1, <3>2
    <3> DEFINE q == Sigma * Sigma
    <3>4. q >= 0 /\ q \in Int
      BY DetectorsAssumption
    <3> HIDE DEF q
    <3>5. ~(0 > q * 1)
      BY <3>4
    <3> QED BY <3>3, <3>5 DEF q
  <2> QED BY <1>1, <2>1, <2>2 DEF ZScore
<1>3. sigma \in Nat /\ sigma >= 1
  BY DetectorsAssumption
<1>4. Integral(e, S) /\ Integral(scaled, S)
  BY <1>1 DEF Integral
<1>5. d = -T /\ T \in Int /\ Total(h, S) \in Int
  <2> HIDE DEF n, S
  <2> DEFINE one == 1  minus == -c
  <2>1. Scales(e, S, one, h, minus)
    BY <1>1 DEF Integral, Scales
  <2> HIDE DEF e, one, minus
  <2>2. T = one * Total(h, S) + minus * Cardinality(S) /\ T \in Int /\ Total(h, S) \in Int
    BY <1>1, <2>1, TotalLinear
  <2>3. n * c = c * n
    BY <1>1
  <2> HIDE DEF T
  <2> DEFINE H == Total(h, S)
  <2> HIDE DEF H
  <2>4. T = one * H + minus * n /\ H \in Int
    BY <1>1, <2>2 DEF H
  <2>5. n * c - H = -T
    BY <1>1, <2>4 DEF one, minus
  <2> QED BY <2>2, <2>5 DEF H
<1>6. Spread(scaled, S) = n * n * (n * Q - T * T) /\ Q \in Int
  <2> DEFINE ne == [i \in S |-> n * e[i]]  shift == n * c  one == 1
  <2>1. Integral(ne, S) /\ shift \in Int /\ one \in Int /\ one \in {1, -1}
    BY <1>1, <1>4 DEF Integral
  <2>2. \A i \in S : scaled[i] = one * ne[i] + shift
    <3> SUFFICES ASSUME NEW i \in S PROVE scaled[i] = one * ne[i] + shift
      OBVIOUS
    <3>1. h[i] \in Int /\ n \in Int
      BY <1>1 DEF Integral
    <3>2. n * h[i] = 1 * (n * (h[i] - c)) + n * c
      BY <3>1
    <3> QED BY <3>2
  <2>3. Spread(scaled, S) = Spread(ne, S)
    <3> HIDE DEF ne, scaled, shift, S, one
    <3> QED BY <1>1, <2>1, <2>2, SpreadMap DEF Scales
  <2>4. Integral(Squares(e, S), S) /\ Q \in Int
    BY <1>1, <1>4, SquaresFacts
  <2> DEFINE zero == 0  nn == n * n  see == Squares(e, S)  sne == Squares(ne, S)
  <2>5. Total(ne, S) = n * T + zero * n
    <3>1. Scales(ne, S, n, e, zero)
      BY <1>1, <1>4 DEF Integral, Scales
    <3> HIDE DEF ne, e, zero, n, S
    <3>2. Total(ne, S) = n * Total(e, S) + zero * Cardinality(S)
      BY <1>1, <3>1, TotalLinear
    <3> QED BY <1>1, <3>2
  <2>6. Total(sne, S) = nn * Q + zero * n
    <3>1. \A i \in S : sne[i] = nn * see[i] + zero
      <4> SUFFICES ASSUME NEW i \in S PROVE sne[i] = nn * see[i] + zero
        OBVIOUS
      <4> DEFINE x == e[i]
      <4>1. x \in Int /\ n \in Int /\ sne[i] = (n * x) * (n * x) /\ see[i] = x * x
        BY <1>1, <1>4 DEF Integral, Squares
      <4> HIDE DEF x, n, S, e, see, sne
      <4>2. (n * x) * (n * x) = n * n * (x * x) + 0
        BY <4>1
      <4> QED BY <4>1, <4>2
    <3>3. nn \in Int /\ zero \in Int /\ Integral(see, S)
      BY <1>1, <2>4
    <3> HIDE DEF ne, e, zero, n, S, see, sne, nn
    <3>4. Scales(sne, S, nn, see, zero)
      BY <3>1, <3>3 DEF Scales
    <3>2. Total(sne, S) = nn * Total(see, S) + zero * Cardinality(S)
      BY <1>1, <3>4, TotalLinear
    <3> QED BY <1>1, <3>2 DEF see
  <2>7. Spread(ne, S) = n * (nn * Q + zero * n) - (n * T + zero * n) * (n * T + zero * n)
    <3> HIDE DEF ne, S, n, T, Q, zero, nn
    <3> QED BY <1>1, <2>5, <2>6 DEF Spread
  <2> HIDE DEF n, S, T, Q, e, ne, scaled
  <2>8. n * (n * n * Q + 0 * n) - (n * T + 0 * n) * (n * T + 0 * n) = n * n * (n * Q - T * T)
    BY <1>1, <1>5, <2>4
  <2> QED BY <2>3, <2>4, <2>7, <2>8
<1>7. /\ d * d * n * (n - 1) > sigma * Spread(scaled, S)
      /\ Spread(scaled, S) \in Int
  <2> DEFINE V == Spread(scaled, S)  num == d * d * n * (n - 1)
  <2>1. ZScore(h, c) = Measure(num, V)
    BY <1>1, <1>2, SquaredZIs
  <2>2. V \in Int
    <3> HIDE DEF n, S, T, Q, scaled
    <3> QED BY <1>1, <1>5, <1>6
  <2>3. Measure(num, V).num > sigma * Measure(num, V).den
    BY <1>2, <2>1
  <2> HIDE DEF V, num
  <2>4. V # 0
    <3> SUFFICES ASSUME V = 0 PROVE FALSE
      OBVIOUS
    <3>1. Measure(num, V).num = 0 /\ Measure(num, V).den = 1
      BY DEF Measure
    <3> HIDE DEF sigma
    <3> QED BY <1>3, <2>3, <3>1
  <2>5. Measure(num, V).num = num /\ Measure(num, V).den = V
    BY <2>4 DEF Measure
  <2> QED BY <2>2, <2>3, <2>5 DEF num, V
<1>8. T * T <= (n - k) * Q /\ Q >= 0 /\ k \in 0 .. n
  <2>1. Copy(h, c) \in SUBSET S
    BY <1>1 DEF Copy
  <2>2. Moved(e, S) = S \ Copy(h, c)
    BY <1>1 DEF Moved, Copy, Integral
  <2>3. IsFiniteSet(Copy(h, c)) /\ k \in Nat /\ k <= n
    BY <1>1, <2>1, FS_Subset, FS_CardinalityType
  <2>4. Cardinality(Moved(e, S)) = n - k
    <3>1. S \cap Copy(h, c) = Copy(h, c)
      BY <2>1
    <3> HIDE DEF S
    <3> QED BY <1>1, <2>2, <3>1, FS_Difference
  <2>5. T * T <= Cardinality(Moved(e, S)) * Q /\ Q >= 0
    BY <1>1, <1>4, Cauchy
  <2> HIDE DEF n, k, T, Q
  <2> QED BY <1>1, <2>3, <2>4, <2>5
<1> HIDE DEF n, k, S, e, scaled, d, T, Q, sigma
<1> DEFINE A == T * T  w == n - k  R == sigma * n
<1>9. A \in Int /\ A >= 0 /\ w \in Nat /\ k \in Nat /\ n = w + k /\ A <= w * Q /\ R \in Nat
  BY <1>1, <1>3, <1>5, <1>8
<1>10. (n - 1) * A > R * (n * Q - A)
  <2>1. d * d = A
    BY <1>5
  <2>2. A * n * (n - 1) > sigma * (n * n * (n * Q - A))
    BY <1>6, <1>7, <2>1
  <2> HIDE DEF A
  <2> DEFINE X == (n - 1) * A  Y == R * (n * Q - A)
  <2>3. X \in Int /\ Y \in Int
    BY <1>1, <1>3, <1>6, <1>9
  <2>4. A * n * (n - 1) = n * X /\ sigma * (n * n * (n * Q - A)) = n * Y
    BY <1>1, <1>3, <1>6, <1>9
  <2> HIDE DEF X, Y
  <2>5. n * X > n * Y
    BY <2>2, <2>4
  <2>6. X > Y
    BY <1>1, <1>2, <2>3, <2>5 DEF n
  <2> QED BY <2>6 DEF X, Y
<1>11. A > 0
  <2> SUFFICES ASSUME A = 0 PROVE FALSE
    BY <1>9
  <2> HIDE DEF A, R
  <2>1. R * (n * Q - A) < 0
    BY <1>1, <1>10
  <2>2. n * Q - A >= 0 /\ n * Q - A \in Int
    BY <1>1, <1>6, <1>8
  <2> QED BY <1>9, <2>1, <2>2
<1>12. w > 0
  <2> SUFFICES ASSUME w = 0 PROVE FALSE
    BY <1>9
  <2>1. w * Q = 0
    BY <1>6
  <2> HIDE DEF A
  <2> QED BY <1>9, <1>11, <2>1
<1> HIDE DEF A, w, R
<1>13. w * ((n - 1) * A) > w * (R * (n * Q - A))
  <2> DEFINE X == (n - 1) * A  Y == R * (n * Q - A)
  <2>1. X \in Int /\ Y \in Int /\ X > Y
    BY <1>1, <1>6, <1>9, <1>10
  <2> HIDE DEF X, Y
  <2>2. w * X > w * Y
    BY <1>9, <1>12, <2>1
  <2> QED BY <2>2 DEF X, Y
<1>14. w * (R * (n * Q - A)) >= R * k * A
  <2>1. w * (R * (n * Q - A)) = R * n * (w * Q) - R * w * A
    BY <1>1, <1>6, <1>9
  <2> DEFINE M == R * n  B == w * Q
  <2>2. M \in Nat /\ B \in Int
    BY <1>1, <1>6, <1>9
  <2>3. R * n * A - R * w * A = R * k * A
    BY <1>9
  <2>4. R * n * (w * Q) >= R * n * A
    <3>1. A <= B
      BY <1>9
    <3> HIDE DEF M, B
    <3>2. M * B >= M * A
      BY <1>9, <2>2, <3>1
    <3> QED BY <3>2 DEF M, B
  <2>5. R * n * (w * Q) \in Int /\ R * n * A \in Int /\ R * w * A \in Int /\ R * k * A \in Int
    BY <1>1, <1>6, <1>9
  <2> QED BY <2>1, <2>3, <2>4, <2>5
<1>15. R * k < w * (n - 1)
  <2> DEFINE X == w * (n - 1)  Y == R * k
  <2>1. X \in Int /\ Y \in Int /\ w * ((n - 1) * A) = X * A
    BY <1>1, <1>9
  <2>2. w * (R * (n * Q - A)) \in Int
    BY <1>1, <1>6, <1>9
  <2>3. Y * A \in Int /\ X * A \in Int /\ Y * A = R * k * A
    BY <1>9, <2>1
  <2>4. X * A > Y * A
    <3> HIDE DEF X, Y
    <3> QED BY <1>13, <1>14, <2>1, <2>2, <2>3
  <2> HIDE DEF X, Y
  <2>5. X > Y
    BY <1>9, <1>11, <2>1, <2>4
  <2> QED BY <2>5 DEF X, Y
<1>16. k * n * Sigma * Sigma < (n - k) * (n - 1)
  <2>1. k * n * Sigma * Sigma = R * k
    BY <1>1, <1>9, DetectorsAssumption DEF R, sigma
  <2> QED BY <1>15, <2>1 DEF w
<1> QED BY <1>16 DEF n, k

-----------------------------------------------------------------------------
(* Turning a history round, or moving it *)

\* g is the history h restated: its sign turned (a = -1) or its origin
\* moved (by b).
Restates(g, h, a, b) ==
  /\ g \in Seq(Int) /\ h \in Seq(Int) /\ Len(g) = Len(h) /\ a \in {1, -1} /\ b \in Int
  /\ \A i \in 1 .. Len(h) : g[i] = a * h[i] + b

\* A z-score is the same for the restated history.
LEMMA ZScoreRestated ==
  ASSUME NEW g, NEW h, NEW a, NEW b, Restates(g, h, a, b), NEW c \in Int
  PROVE  ZScore(g, a * c + b) = ZScore(h, c)
<1> DEFINE n == Len(h)  S == 1 .. n  T == Total(h, S)
           sg == [i \in S |-> n * g[i]]  sh == [i \in S |-> n * h[i]]
           dg == n * (a * c + b) - Total(g, S)  dh == n * c - T
           nb == n * b
<1>1. /\ g \in Seq(Int) /\ h \in Seq(Int) /\ Len(g) = n /\ a \in {1, -1} /\ a \in Int /\ b \in Int
      /\ \A i \in S : g[i] = a * h[i] + b
  BY DEF Restates
<1>2. n \in Nat /\ IsFiniteSet(S) /\ Cardinality(S) = n /\ Integral(h, S) /\ T \in Int
  BY <1>1, HistoryFacts
<1>3. Total(g, S) = a * T + b * n
  <2>1. Scales(g, S, a, h, b)
    BY <1>1, <1>2 DEF Scales
  <2> HIDE DEF S, n
  <2> QED BY <1>2, <2>1, TotalLinear
<1>4. Scales(sg, S, a, sh, nb)
  <2>1. \A i \in S : sg[i] = a * sh[i] + nb
    <3> SUFFICES ASSUME NEW i \in S PROVE sg[i] = a * sh[i] + nb
      OBVIOUS
    <3> DEFINE x == h[i]
    <3>1. x \in Int /\ g[i] = a * x + b /\ sg[i] = n * g[i] /\ sh[i] = n * x
      BY <1>1, <1>2 DEF Integral
    <3> HIDE DEF x, sg, sh, n, S
    <3>2. n * (a * x + b) = a * (n * x) + n * b
      BY <1>1, <1>2, <3>1
    <3> QED BY <3>1, <3>2
  <2>2. nb \in Int /\ Integral(sh, S)
    BY <1>1, <1>2 DEF Integral
  <2> HIDE DEF sg, sh, nb, n, S
  <2> QED BY <1>1, <2>1, <2>2 DEF Scales
<1>5. dg = a * dh /\ dg \in Int /\ dh \in Int
  <2> HIDE DEF n, S, T
  <2> QED BY <1>1, <1>2, <1>3
<1>6. SquaredZ(sg, S, dg) = SquaredZ(sh, S, dh)
  <2> HIDE DEF sg, sh, nb, n, S, dg, dh
  <2> QED BY <1>1, <1>2, <1>4, <1>5, SquaredZMap
<1> QED BY <1>1, <1>6 DEF ZScore

-----------------------------------------------------------------------------
(* Ranks and medians *)

\* A finite set of integers that is not empty has a least and a greatest one.
LEMMA Extremes ==
  ASSUME NEW D \in SUBSET Int, IsFiniteSet(D), D # {}
  PROVE  (\E x \in D : \A y \in D : x <= y) /\ (\E x \in D : \A y \in D : y <= x)
<1> DEFINE P == {S \in SUBSET D : S # {} => /\ \E x \in S : \A y \in S : x <= y
                                            /\ \E x \in S : \A y \in S : y <= x}
<1>1. {} \in P
  OBVIOUS
<1>2. ASSUME NEW S \in P, NEW z \in D \ S PROVE S \cup {z} \in P
  <2>1. CASE S = {}
    BY <2>1
  <2>2. CASE S # {}
    <3>1. PICK lo \in S, hi \in S : \A y \in S : lo <= y /\ y <= hi
      BY <2>2
    <3>2. lo \in Int /\ hi \in Int /\ z \in Int /\ \A y \in S : y \in Int
      BY <3>1
    <3>3. \E x \in S \cup {z} : \A y \in S \cup {z} : x <= y
      <4>1. CASE lo <= z
        BY <3>1, <4>1
      <4>2. CASE ~(lo <= z)
        <5>1. \A y \in S : z <= y
          BY <3>1, <3>2, <4>2
        <5> QED BY <3>2, <5>1
      <4> QED BY <4>1, <4>2
    <3>4. \E x \in S \cup {z} : \A y \in S \cup {z} : y <= x
      <4>1. CASE z <= hi
        BY <3>1, <4>1
      <4>2. CASE ~(z <= hi)
        <5>1. \A y \in S : y <= z
          BY <3>1, <3>2, <4>2
        <5> QED BY <3>2, <5>1
      <4> QED BY <4>1, <4>2
    <3> QED BY <3>3, <3>4
  <2> QED BY <2>1, <2>2
<1>3. D \in P
  <2> HIDE DEF P
  <2>1. P \in SUBSET SUBSET D
    BY DEF P
  <2> QED BY <1>1, <1>2, <2>1, SubsetInduction
<1> QED BY <1>3

\* v has rank k in s: fewer than k members are below it, k at least not above.
Below(s, v) == {i \in DOMAIN s : s[i] < v}
AtMost(s, v) == {i \in DOMAIN s : s[i] <= v}
Ranks(s, k, v) == v \in ToSet(s) /\ Cardinality(Below(s, v)) < k /\ Cardinality(AtMost(s, v)) >= k

LEMMA RankSets ==
  ASSUME NEW s \in Seq(Int), NEW v
  PROVE  /\ Below(s, v) \in SUBSET (1 .. Len(s)) /\ AtMost(s, v) \in SUBSET (1 .. Len(s))
         /\ IsFiniteSet(Below(s, v)) /\ IsFiniteSet(AtMost(s, v))
         /\ Cardinality(Below(s, v)) \in 0 .. Len(s) /\ Cardinality(AtMost(s, v)) \in 0 .. Len(s)
<1>1. Below(s, v) \in SUBSET (1 .. Len(s)) /\ AtMost(s, v) \in SUBSET (1 .. Len(s))
  BY HistoryFacts DEF Below, AtMost
<1> HIDE DEF Below, AtMost
<1>2. IsFiniteSet(Below(s, v)) /\ IsFiniteSet(AtMost(s, v))
  BY <1>1, HistoryFacts, FS_Subset
<1>3. /\ Cardinality(Below(s, v)) \in Nat /\ Cardinality(AtMost(s, v)) \in Nat
      /\ Cardinality(Below(s, v)) <= Len(s) /\ Cardinality(AtMost(s, v)) <= Len(s)
  BY <1>1, <1>2, HistoryFacts, FS_Subset, FS_CardinalityType
<1>4. Len(s) \in Nat
  BY HistoryFacts
<1> QED BY <1>1, <1>2, <1>3, <1>4

\* Of each rank there is one value, so CHOOSE has no choice.
LEMMA RankOne ==
  ASSUME NEW s \in Seq(Int), NEW k \in 1 .. Len(s), NEW v, NEW w, Ranks(s, k, v), Ranks(s, k, w)
  PROVE  v = w
<1>1. ToSet(s) \subseteq Int
  BY HistoryFacts DEF ToSet, Integral
<1>2. v \in Int /\ w \in Int /\ k \in Int
  BY <1>1 DEF Ranks
<1>3. ASSUME NEW x \in Int, NEW y \in Int, Ranks(s, k, x), Ranks(s, k, y), x < y PROVE FALSE
  <2>1. AtMost(s, x) \subseteq Below(s, y)
    BY <1>3, HistoryFacts DEF AtMost, Below, Integral
  <2>2. Cardinality(AtMost(s, x)) <= Cardinality(Below(s, y))
    BY <2>1, RankSets, FS_Subset
  <2>3. Cardinality(AtMost(s, x)) \in Int /\ Cardinality(Below(s, y)) \in Int
    BY RankSets
  <2>4. k <= Cardinality(AtMost(s, x)) /\ Cardinality(Below(s, y)) < k
    BY <1>3 DEF Ranks
  <2> QED BY <1>2, <2>2, <2>3, <2>4
<1> QED BY <1>2, <1>3

LEMMA ImageIsFinite ==
  ASSUME NEW s, NEW S, IsFiniteSet(S)
  PROVE  IsFiniteSet({s[i] : i \in S})
<1> DEFINE T == {s[i] : i \in S}  f == [i \in S |-> s[i]]
<1>1. f \in Surjection(S, T)
  BY DEF Surjection
<1> HIDE DEF f, T
<1>2. IsFiniteSet(T)
  BY <1>1, FS_Surjection
<1> QED BY <1>2 DEF T

LEMMA RankExists ==
  ASSUME NEW s \in Seq(Int), NEW k \in 1 .. Len(s)
  PROVE  \E v \in ToSet(s) : Ranks(s, k, v)
<1> DEFINE U == {v \in ToSet(s) : Cardinality(AtMost(s, v)) >= k}
<1>1. /\ ToSet(s) \in SUBSET Int /\ IsFiniteSet(ToSet(s)) /\ Len(s) \in Nat
      /\ k \in Int /\ k >= 1 /\ Len(s) >= 1
  <2>1. ToSet(s) = {s[i] : i \in 1 .. Len(s)} /\ IsFiniteSet(1 .. Len(s))
    BY HistoryFacts DEF ToSet
  <2>2. IsFiniteSet({s[i] : i \in 1 .. Len(s)})
    BY <2>1, ImageIsFinite
  <2> QED BY <2>1, <2>2, HistoryFacts DEF Integral
<1>2. U \in SUBSET Int /\ IsFiniteSet(U)
  BY <1>1, FS_Subset
<1>3. U # {}
  <2>1. s[1] \in ToSet(s)
    BY <1>1, HistoryFacts DEF ToSet
  <2>2. PICK top \in ToSet(s) : \A y \in ToSet(s) : y <= top
    BY <1>1, <2>1, Extremes
  <2>3. AtMost(s, top) = 1 .. Len(s)
    BY <2>2, HistoryFacts DEF AtMost, ToSet
  <2>4. Cardinality(AtMost(s, top)) >= k
    BY <1>1, <2>3, HistoryFacts
  <2> QED BY <2>4
<1> HIDE DEF U
<1>4. PICK v \in U : \A y \in U : v <= y
  BY <1>2, <1>3, Extremes
<1>5. v \in ToSet(s) /\ Cardinality(AtMost(s, v)) >= k /\ v \in Int
  BY <1>2, <1>4 DEF U
<1>6. Cardinality(Below(s, v)) < k
  <2> SUFFICES ASSUME ~(Cardinality(Below(s, v)) < k) PROVE FALSE
    OBVIOUS
  <2> DEFINE L == {s[i] : i \in Below(s, v)}
  <2>1. Cardinality(Below(s, v)) >= k /\ Cardinality(Below(s, v)) \in Int
    BY <1>1, RankSets
  <2>2. Below(s, v) # {}
    <3> DEFINE m == Cardinality({})  b == Below(s, v)
    <3>1. m = 0
      BY FS_EmptySet
    <3>2. Cardinality(b) # 0
      BY <1>1, <2>1
    <3> HIDE DEF b
    <3>3. b # {}
      BY <3>1, <3>2
    <3> QED BY <3>3 DEF b
  <2>3. L # {} /\ L \in SUBSET Int
    BY <2>2, HistoryFacts DEF Below, Integral
  <2>4. IsFiniteSet(L)
    BY RankSets, ImageIsFinite
  <2> HIDE DEF L
  <2>5. PICK u \in L : \A y \in L : y <= u
    BY <2>3, <2>4, Extremes
  <2>6. u \in ToSet(s) /\ u < v /\ u \in Int
    BY <2>3, <2>5, HistoryFacts DEF L, Below, ToSet
  <2>7. AtMost(s, u) = Below(s, v)
    <3>1. \A i \in Below(s, v) : s[i] <= u
      BY <2>5 DEF L
    <3>2. \A i \in DOMAIN s : s[i] \in Int
      BY HistoryFacts DEF Integral
    <3> QED BY <1>5, <2>6, <3>1, <3>2 DEF AtMost, Below
  <2>8. u \in U
    BY <2>1, <2>6, <2>7 DEF U
  <2> QED BY <1>4, <1>5, <2>6, <2>8
<1> QED BY <1>5, <1>6 DEF Ranks

LEMMA RankedFacts ==
  ASSUME NEW s \in Seq(Int), NEW k \in 1 .. Len(s)
  PROVE  Ranks(s, k, Ranked(s, k)) /\ Ranked(s, k) \in Int
<1>1. Ranked(s, k) = CHOOSE v \in ToSet(s) : Ranks(s, k, v)
  BY DEF Ranked, Ranks, Below, AtMost
<1>2. Ranks(s, k, Ranked(s, k))
  BY <1>1, RankExists
<1>3. ToSet(s) \subseteq Int
  BY HistoryFacts DEF ToSet, Integral
<1> QED BY <1>2, <1>3 DEF Ranks

LEMMA RankedIs ==
  ASSUME NEW s \in Seq(Int), NEW k \in 1 .. Len(s), NEW v, Ranks(s, k, v)
  PROVE  Ranked(s, k) = v
BY RankedFacts, RankOne

LEMMA CountOutside ==
  ASSUME NEW S, IsFiniteSet(S), NEW T \in SUBSET S
  PROVE  IsFiniteSet(S \ T) /\ Cardinality(S \ T) = Cardinality(S) - Cardinality(T)
<1>1. S \cap T = T
  OBVIOUS
<1> QED BY <1>1, FS_Difference

\* Turning the sign turns the order round; moving the origin keeps it.
LEMMA RankedRestated ==
  ASSUME NEW g, NEW h, NEW a, NEW b, Restates(g, h, a, b), NEW k \in 1 .. Len(h)
  PROVE  /\ a = 1 => Ranked(g, k) = Ranked(h, k) + b
         /\ a = -1 => Ranked(g, k) = b - Ranked(h, Len(h) + 1 - k)
<1>1. /\ g \in Seq(Int) /\ h \in Seq(Int) /\ Len(g) = Len(h) /\ b \in Int /\ Len(h) \in Nat
      /\ \A i \in 1 .. Len(h) : g[i] = a * h[i] + b /\ h[i] \in Int
      /\ DOMAIN g = 1 .. Len(h) /\ DOMAIN h = 1 .. Len(h)
  BY HistoryFacts DEF Restates, Integral
<1>2. ASSUME a = 1 PROVE Ranked(g, k) = Ranked(h, k) + b
  <2> DEFINE v == Ranked(h, k)
  <2>1. Ranks(h, k, v) /\ v \in Int
    BY <1>1, RankedFacts
  <2> HIDE DEF v
  <2>2. \A i \in 1 .. Len(h) : g[i] = h[i] + b
    BY <1>1, <1>2
  <2>3. Below(g, v + b) = Below(h, v) /\ AtMost(g, v + b) = AtMost(h, v)
    <3>1. /\ DOMAIN g = 1 .. Len(h) /\ DOMAIN h = 1 .. Len(h)
          /\ \A i \in 1 .. Len(h) : (g[i] < v + b <=> h[i] < v) /\ (g[i] <= v + b <=> h[i] <= v)
      BY <1>1, <2>1, <2>2
    <3> QED BY ONLY <3>1 DEF Below, AtMost
  <2>4. v + b \in ToSet(g)
    BY <1>1, <2>1, <2>2 DEF Ranks, ToSet
  <2>5. Ranks(g, k, v + b)
    BY <2>1, <2>3, <2>4 DEF Ranks
  <2> QED BY <1>1, <2>5, RankedIs DEF v
<1>3. ASSUME a = -1 PROVE Ranked(g, k) = b - Ranked(h, Len(h) + 1 - k)
  <2> DEFINE n == Len(h)  j == n + 1 - k  v == Ranked(h, j)  S == 1 .. n
  <2>1. j \in 1 .. n
    BY <1>1
  <2>2. Ranks(h, j, v) /\ v \in Int
    BY <1>1, <2>1, RankedFacts
  <2> HIDE DEF v, j
  <2>3. \A i \in S : g[i] = b - h[i]
    BY <1>1, <1>3
  <2>4. Below(g, b - v) = S \ AtMost(h, v) /\ AtMost(g, b - v) = S \ Below(h, v)
    <3>1. /\ DOMAIN g = S /\ DOMAIN h = S
          /\ \A i \in S : (g[i] < b - v <=> ~(h[i] <= v)) /\ (g[i] <= b - v <=> ~(h[i] < v))
      BY <1>1, <2>2, <2>3
    <3> HIDE DEF S
    <3> QED BY ONLY <3>1 DEF Below, AtMost
  <2>5. b - v \in ToSet(g)
    BY <1>1, <2>2, <2>3 DEF Ranks, ToSet
  <2>6. IsFiniteSet(S) /\ Cardinality(S) = n
    BY <1>1, HistoryFacts
  <2>7. /\ AtMost(h, v) \in SUBSET S /\ Below(h, v) \in SUBSET S
        /\ Cardinality(AtMost(h, v)) \in Int /\ Cardinality(Below(h, v)) \in Int
    BY <1>1, RankSets
  <2> HIDE DEF S
  <2>8. /\ Cardinality(S \ AtMost(h, v)) = n - Cardinality(AtMost(h, v))
        /\ Cardinality(S \ Below(h, v)) = n - Cardinality(Below(h, v))
    <3>1. Cardinality(S \ AtMost(h, v)) = Cardinality(S) - Cardinality(AtMost(h, v))
      BY <2>6, <2>7, CountOutside
    <3>2. Cardinality(S \ Below(h, v)) = Cardinality(S) - Cardinality(Below(h, v))
      BY <2>6, <2>7, CountOutside
    <3> QED BY <2>6, <3>1, <3>2
  <2> DEFINE lo == Cardinality(Below(h, v))  hi == Cardinality(AtMost(h, v))
  <2>9. lo \in Int /\ hi \in Int /\ lo < j /\ hi >= j
    BY <2>2, <2>7 DEF Ranks
  <2> HIDE DEF lo, hi
  <2>10. n - hi < k /\ n - lo >= k
    BY <1>1, <2>9 DEF j
  <2>11. Ranks(g, k, b - v)
    BY <2>4, <2>5, <2>8, <2>10 DEF Ranks, lo, hi
  <2> QED BY <1>1, <2>11, RankedIs DEF v, j
<1> QED BY <1>2, <1>3

-----------------------------------------------------------------------------
(* Medians, and what the mad detector makes of a repeated value *)

LEMMA MedianType ==
  ASSUME NEW s \in Seq(Int), Len(s) >= 1
  PROVE  /\ (Len(s) + 1) \div 2 \in 1 .. Len(s) /\ Len(s) \div 2 + 1 \in 1 .. Len(s)
         /\ Len(s) + 1 - (Len(s) + 1) \div 2 = Len(s) \div 2 + 1
         /\ TwiceMedian(s) \in Int
<1>1. Len(s) \in Nat
  BY HistoryFacts
<1>2. /\ (Len(s) + 1) \div 2 \in 1 .. Len(s) /\ Len(s) \div 2 + 1 \in 1 .. Len(s)
      /\ Len(s) + 1 - (Len(s) + 1) \div 2 = Len(s) \div 2 + 1
  BY <1>1
<1>3. Ranked(s, (Len(s) + 1) \div 2) \in Int /\ Ranked(s, Len(s) \div 2 + 1) \in Int
  BY <1>2, RankedFacts
<1> QED BY <1>2, <1>3 DEF TwiceMedian

\* The median is restated with the values.
LEMMA MedianRestated ==
  ASSUME NEW g, NEW h, NEW a, NEW b, Restates(g, h, a, b), Len(h) >= 1
  PROVE  TwiceMedian(g) = a * TwiceMedian(h) + 2 * b
<1> DEFINE n == Len(h)  p == (n + 1) \div 2  q == n \div 2 + 1
<1>1. Len(g) = n /\ h \in Seq(Int) /\ n \in Nat /\ b \in Int /\ a \in {1, -1}
  BY HistoryFacts DEF Restates
<1>2. p \in 1 .. n /\ q \in 1 .. n /\ n + 1 - p = q /\ n + 1 - q = p
  BY <1>1, MedianType
<1>3. TwiceMedian(g) = Ranked(g, p) + Ranked(g, q) /\ TwiceMedian(h) = Ranked(h, p) + Ranked(h, q)
  BY <1>1 DEF TwiceMedian
<1> HIDE DEF p, q, n
<1>4. Ranked(h, p) \in Int /\ Ranked(h, q) \in Int
  BY <1>1, <1>2, RankedFacts DEF n
<1>5. CASE a = 1
  <2>1. Ranked(g, p) = Ranked(h, p) + b /\ Ranked(g, q) = Ranked(h, q) + b
    BY <1>2, <1>5, RankedRestated DEF n
  <2> QED BY <1>1, <1>3, <1>4, <1>5, <2>1
<1>6. CASE a = -1
  <2>1. Ranked(g, p) = b - Ranked(h, q) /\ Ranked(g, q) = b - Ranked(h, p)
    BY <1>2, <1>6, RankedRestated DEF n
  <2> QED BY <1>1, <1>3, <1>4, <1>6, <2>1
<1> QED BY <1>1, <1>5, <1>6

\* Distances from the median, and so the verdict of mad, stay.
LEMMA MadRestated ==
  ASSUME NEW g, NEW h, NEW a, NEW b, Restates(g, h, a, b), NEW c \in Int
  PROVE  Mad(g, a * c + b) = Mad(h, c)
<1> DEFINE t == TwiceMedian(h)
           ag == [i \in DOMAIN g |-> Abs(2 * g[i] - TwiceMedian(g))]
           ah == [i \in DOMAIN h |-> Abs(2 * h[i] - t)]
<1>1. /\ g \in Seq(Int) /\ h \in Seq(Int) /\ Len(g) = Len(h) /\ b \in Int /\ Len(h) \in Nat
      /\ \A i \in 1 .. Len(h) : g[i] = a * h[i] + b /\ h[i] \in Int
      /\ DOMAIN g = 1 .. Len(h) /\ DOMAIN h = 1 .. Len(h) /\ a \in {1, -1}
  BY HistoryFacts DEF Restates, Integral
<1>2. CASE Len(h) < 3
  BY <1>1, <1>2 DEF Mad
<1>3. CASE Len(h) >= 3
  <2>1. TwiceMedian(g) = a * t + 2 * b /\ t \in Int
    <3>1. Len(h) >= 1
      BY <1>1, <1>3
    <3>2. t \in Int
      BY <1>1, <3>1, MedianType
    <3>3. TwiceMedian(g) = a * t + 2 * b
      BY <3>1, MedianRestated
    <3> QED BY <3>2, <3>3
  <2> HIDE DEF t
  <2>2. ag = ah
    <3>1. ASSUME NEW i \in 1 .. Len(h) PROVE Abs(2 * g[i] - TwiceMedian(g)) = Abs(2 * h[i] - t)
      <4> DEFINE x == h[i]
      <4>1. x \in Int /\ g[i] = a * x + b
        BY <1>1
      <4> HIDE DEF x
      <4>2. Abs(2 * (a * x + b) - (a * t + 2 * b)) = Abs(2 * x - t)
        <5>1. CASE a = 1
          BY <1>1, <2>1, <4>1, <5>1
        <5>2. CASE a = -1
          BY <1>1, <2>1, <4>1, <5>2 DEF Abs
        <5> QED BY <1>1, <5>1, <5>2
      <4> QED BY <2>1, <4>1, <4>2 DEF x
    <3> QED BY <1>1, <3>1
  <2>3. Abs(4 * (a * c + b) - 2 * TwiceMedian(g)) = Abs(4 * c - 2 * t)
    <3>1. CASE a = 1
      BY <1>1, <2>1, <3>1
    <3>2. CASE a = -1
      BY <1>1, <2>1, <3>2 DEF Abs
    <3> QED BY <1>1, <3>1, <3>2
  <2>4. /\ Mad(g, a * c + b) = Measure(6745 * Abs(4 * (a * c + b) - 2 * TwiceMedian(g)), 10000 * TwiceMedian(ag))
        /\ Mad(h, c) = Measure(6745 * Abs(4 * c - 2 * t), 10000 * TwiceMedian(ah))
    BY <1>1, <1>3 DEF Mad, t
  <2> QED BY <2>2, <2>3, <2>4
<1> QED BY <1>1, <1>2, <1>3

\* A level that holds more than half of a history is its median, so no
\* distance from it is an anomaly to mad.
LEMMA MadAbsorbs ==
  ASSUME NEW h \in Seq(Int), NEW c \in Int, IsAnomaly("mad", h, c)
  PROVE  2 * Cardinality(Copy(h, c)) <= Len(h)
<1> DEFINE n == Len(h)  k == Cardinality(Copy(h, c))  S == 1 .. n
           away == [i \in DOMAIN h |-> Abs(2 * h[i] - TwiceMedian(h))]
           num == 6745 * Abs(4 * c - 2 * TwiceMedian(h))  den == 10000 * TwiceMedian(away)
<1>1. n \in Nat /\ S = DOMAIN h /\ IsFiniteSet(S) /\ Cardinality(S) = n /\ \A i \in S : h[i] \in Int
  BY HistoryFacts DEF Integral
<1>2. Copy(h, c) \in SUBSET S /\ IsFiniteSet(Copy(h, c)) /\ k \in Nat
  <2>1. Copy(h, c) \in SUBSET S
    BY <1>1 DEF Copy
  <2> QED BY <1>1, <2>1, FS_Subset, FS_CardinalityType
<1> SUFFICES ASSUME 2 * k > n PROVE FALSE
  BY <1>1, <1>2
<1>3. 2 * Mad(h, c).num > MadHalves * Mad(h, c).den
  BY DEF IsAnomaly, Z
<1>4. n >= 3
  <2> SUFFICES ASSUME n < 3 PROVE FALSE
    BY <1>1
  <2>1. Mad(h, c) = Quiet /\ Quiet.num = 0 /\ Quiet.den = 1
    BY DEF Mad, Quiet, Measure
  <2> QED BY <1>3, <2>1, DetectorsAssumption
<1>5. ASSUME NEW j \in 1 .. n, n - k < j, j <= k PROVE Ranked(h, j) = c
  <2>1. Below(h, c) \in SUBSET (S \ Copy(h, c))
    BY <1>1 DEF Below, Copy
  <2> HIDE DEF S
  <2>3. IsFiniteSet(S \ Copy(h, c)) /\ Cardinality(S \ Copy(h, c)) = n - k
    BY <1>1, <1>2, CountOutside
  <2>4. Cardinality(Below(h, c)) <= n - k
    BY <2>1, <2>3, FS_Subset
  <2>5. Copy(h, c) \in SUBSET AtMost(h, c)
    BY DEF AtMost, Copy
  <2>6. k <= Cardinality(AtMost(h, c))
    BY <2>5, RankSets, FS_Subset
  <2>7. Cardinality(Below(h, c)) \in Int /\ Cardinality(AtMost(h, c)) \in Int
    BY RankSets
  <2>8. Copy(h, c) # {}
    <3> SUFFICES ASSUME Copy(h, c) = {} PROVE FALSE
      OBVIOUS
    <3>1. k = 0
      BY FS_EmptySet
    <3> HIDE DEF k, n
    <3> QED BY <1>1, <1>5, <3>1
  <2>9. c \in ToSet(h)
    BY <2>8 DEF Copy, ToSet
  <2> DEFINE lo == Cardinality(Below(h, c))  hi == Cardinality(AtMost(h, c))
  <2> HIDE DEF n, k, lo, hi
  <2>10. lo < j /\ hi >= j
    BY <1>1, <1>2, <1>5, <2>4, <2>6, <2>7 DEF lo, hi
  <2>11. Ranks(h, j, c)
    BY <2>9, <2>10 DEF Ranks, lo, hi
  <2> QED BY <2>11, RankedIs DEF n
<1>6. TwiceMedian(h) = 2 * c
  <2> DEFINE p == (n + 1) \div 2  q == n \div 2 + 1
  <2>1. p \in 1 .. n /\ q \in 1 .. n /\ n - k < p /\ p <= k /\ n - k < q /\ q <= k
    <3> HIDE DEF k, n
    <3> QED BY <1>1, <1>2, <1>4
  <2> HIDE DEF p, q
  <2>2. Ranked(h, p) = c /\ Ranked(h, q) = c
    BY <1>5, <2>1
  <2>3. TwiceMedian(h) = Ranked(h, p) + Ranked(h, q)
    BY DEF TwiceMedian, p, q
  <2> QED BY <2>2, <2>3
<1>7. num = 0
  BY <1>6 DEF Abs
<1>8. den \in Int /\ den >= 0
  <2>1. away \in Seq(Int) /\ Len(away) = n /\ \A i \in 1 .. n : away[i] >= 0
    <3>1. \A i \in 1 .. n : h[i] \in Int /\ 2 * h[i] - TwiceMedian(h) \in Int
      BY <1>1, <1>6
    <3>2. \A i \in 1 .. n : away[i] \in Int /\ away[i] >= 0
      BY <1>1, <3>1 DEF Abs
    <3>3. away = [i \in 1 .. n |-> away[i]]
      BY <1>1
    <3> HIDE DEF away, n
    <3>4. away \in [1 .. n -> Int]
      BY <3>2, <3>3
    <3> QED BY <1>1, <3>2, <3>4
  <2> HIDE DEF away, n
  <2>2. TwiceMedian(away) = Ranked(away, (n + 1) \div 2) + Ranked(away, n \div 2 + 1)
    BY <2>1 DEF TwiceMedian
  <2>3. (n + 1) \div 2 \in 1 .. n /\ n \div 2 + 1 \in 1 .. n
    BY <1>1, <1>4
  <2>4. ASSUME NEW j \in 1 .. n PROVE Ranked(away, j) \in Int /\ Ranked(away, j) >= 0
    <3>1. Ranked(away, j) \in ToSet(away) /\ Ranked(away, j) \in Int
      BY <2>1, RankedFacts DEF Ranks
    <3>2. \A v \in ToSet(away) : v >= 0
      BY <2>1, HistoryFacts DEF ToSet
    <3> QED BY <3>1, <3>2
  <2> QED BY <2>2, <2>3, <2>4
<1>9. Mad(h, c) = Measure(num, den)
  BY <1>1, <1>4 DEF Mad
<1> HIDE DEF num, den
<1>10. Measure(num, den).num = 0 /\ Measure(num, den).den \in Int /\ Measure(num, den).den >= 0
  BY <1>7, <1>8 DEF Measure
<1> DEFINE z == Measure(num, den)
<1> HIDE DEF z
<1>11. 2 * z.num > MadHalves * z.den
  BY <1>3, <1>9 DEF z
<1>12. z.num = 0 /\ z.den \in Int /\ z.den >= 0
  BY <1>10 DEF z
<1> DEFINE zd == z.den
<1> HIDE DEF zd
<1>13. 0 > MadHalves * zd /\ zd \in Int /\ zd >= 0
  BY <1>11, <1>12 DEF zd
<1> QED BY <1>13, DetectorsAssumption

-----------------------------------------------------------------------------
(* Ewma *)

\* The powers of Span + 1 that clear the denominators.
LEMMA UnitFacts ==
  /\ Unit[0] = 1
  /\ \A k \in 1 .. WindowSize : Unit[k] = (Span + 1) * Unit[k - 1]
  /\ \A k \in 0 .. WindowSize : Unit[k] \in Nat \ {0}
<1> DEFINE N == WindowSize  V == Nat \ {0}  one == 1
           step == [i \in 1 .. N |-> [v \in V |-> (Span + 1) * v]]
<1>1. N \in Nat /\ \A v \in V : (Span + 1) * v \in V
  BY DetectorsAssumption
<1>2. one \in V /\ step \in [1 .. N -> [V -> V]]
  BY <1>1
<1>3. PICK f \in [0 .. N -> V] : Follows(f, one, N, step)
  <2> HIDE DEF N, V, one, step
  <2> QED BY <1>1, <1>2, Recursion
<1>4. \A k \in 1 .. N : f[k] = (Span + 1) * f[k - 1]
  <2> SUFFICES ASSUME NEW k \in 1 .. N PROVE f[k] = (Span + 1) * f[k - 1]
    OBVIOUS
  <2>1. k - 1 \in 0 .. N /\ f[k - 1] \in V
    BY <1>1
  <2> HIDE DEF V
  <2> QED BY <1>3, <2>1 DEF Follows
<1>5. f = [k \in 0 .. N |-> IF k = 0 THEN 1 ELSE (Span + 1) * f[k - 1]]
  <2>1. \A k \in 0 .. N : k # 0 => k \in 1 .. N
    BY <1>1
  <2> HIDE DEF N, V, step
  <2> QED BY <1>3, <1>4, <2>1 DEF Follows
<1> DEFINE U == Unit
<1>6. U = [k \in 0 .. N |-> IF k = 0 THEN 1 ELSE (Span + 1) * U[k - 1]]
  BY <1>5 DEF Unit
<1> HIDE DEF U
<1>7. U[0] = 1
  BY <1>1, <1>6
<1>8. ASSUME NEW k \in 1 .. N PROVE U[k] = (Span + 1) * U[k - 1] /\ k - 1 \in 0 .. N
  <2>1. k \in 0 .. N /\ k - 1 \in 0 .. N /\ k # 0
    BY <1>1
  <2> HIDE DEF N
  <2> QED BY <1>6, <2>1
<1> DEFINE R == {k \in Nat : k <= N => U[k] \in V}
<1>9. 0 \in R
  BY <1>7
<1>10. ASSUME NEW k \in R PROVE k + 1 \in R
  <2> SUFFICES ASSUME k + 1 <= N PROVE U[k + 1] \in V
    OBVIOUS
  <2>1. k + 1 \in 1 .. N /\ (k + 1) - 1 = k
    BY <1>1
  <2>2. U[k] \in V
    BY <1>1, <2>1
  <2>3. U[k + 1] = (Span + 1) * U[k]
    <3> HIDE DEF R
    <3> QED BY <1>8, <2>1
  <2> HIDE DEF V
  <2> QED BY <1>1, <2>2, <2>3
<1>11. R = Nat
  <2> HIDE DEF R
  <2>1. R \in SUBSET Nat
    BY DEF R
  <2> QED BY <1>9, <1>10, <2>1, SetInduction
<1>12. \A k \in 0 .. N : U[k] \in V
  <2> SUFFICES ASSUME NEW k \in 0 .. N PROVE U[k] \in V
    OBVIOUS
  <2>1. k \in Nat /\ k <= N
    BY <1>1
  <2>2. k \in R
    BY <1>11, <2>1
  <2> HIDE DEF U, V, N
  <2> QED BY <2>1, <2>2
<1> QED BY <1>7, <1>8, <1>12 DEF U

LEMMA UnitProduct ==
  ASSUME NEW m \in Nat, m <= WindowSize
  PROVE  \A i \in 0 .. m : Unit[i] * Unit[m - i] = Unit[m]
<1> DEFINE R == {i \in Nat : i <= m => Unit[i] * Unit[m - i] = Unit[m]}
<1>0. WindowSize \in Nat /\ Span \in Nat
  BY DetectorsAssumption
<1>1. 0 \in R
  <2>1. Unit[0] = 1 /\ Unit[m] \in Nat /\ m - 0 = m
    BY <1>0, UnitFacts
  <2> QED BY <2>1
<1>2. ASSUME NEW i \in R PROVE i + 1 \in R
  <2> SUFFICES ASSUME i + 1 <= m PROVE Unit[i + 1] * Unit[m - (i + 1)] = Unit[m]
    OBVIOUS
  <2>1. /\ i \in Nat /\ i + 1 \in 1 .. WindowSize /\ m - i \in 1 .. WindowSize
        /\ (i + 1) - 1 = i /\ (m - i) - 1 = m - (i + 1) /\ i \in 0 .. WindowSize
        /\ m - (i + 1) \in 0 .. WindowSize
    BY <1>0
  <2>2. Unit[i] * Unit[m - i] = Unit[m]
    BY <2>1
  <2> HIDE DEF R
  <2> DEFINE x == Unit[i]  y == Unit[m - (i + 1)]
  <2>3. Unit[i + 1] = (Span + 1) * x /\ Unit[m - i] = (Span + 1) * y /\ x \in Int /\ y \in Int
    BY <2>1, UnitFacts
  <2> HIDE DEF x, y
  <2>4. ((Span + 1) * x) * y = x * ((Span + 1) * y)
    BY <1>0, <2>3
  <2> QED BY <2>2, <2>3, <2>4 DEF x, y
<1>3. R = Nat
  <2> HIDE DEF R
  <2>1. R \in SUBSET Nat
    BY DEF R
  <2> QED BY <1>1, <1>2, <2>1, SetInduction
<1> QED BY <1>3

\* The averages follow their recursion, and are integers.
LEMMA EwmaFacts ==
  ASSUME NEW h \in Seq(Int), Len(h) <= WindowSize
  PROVE  /\ \A i \in 1 .. Len(h) : Ewma(h)[i] \in Int
         /\ Len(h) >= 1 => Ewma(h)[1] = h[1]
         /\ \A i \in 2 .. Len(h) :
              Ewma(h)[i] = 2 * h[i] * Unit[i - 2] + (Span - 1) * Ewma(h)[i - 1]
<1> DEFINE n == Len(h)  zero == 0
           rule(i, v) == IF i = 1 THEN h[1] ELSE 2 * h[i] * Unit[i - 2] + (Span - 1) * v
           step == [i \in 1 .. n |-> [v \in Int |-> rule(i, v)]]
<1>1. n \in Nat /\ (\A i \in 1 .. n : h[i] \in Int) /\ Span \in Nat /\ WindowSize \in Nat
  BY HistoryFacts, DetectorsAssumption DEF Integral
<1>2. \A i \in 2 .. n : i - 2 \in 0 .. WindowSize /\ Unit[i - 2] \in Int
  BY <1>1, UnitFacts
<1>3. zero \in Int /\ step \in [1 .. n -> [Int -> Int]]
  <2>1. ASSUME NEW i \in 1 .. n, NEW v \in Int
        PROVE  rule(i, v) \in Int
    <3>1. CASE i = 1
      BY <1>1, <3>1
    <3>2. CASE i # 1
      <4>1. i \in 2 .. n
        BY <1>1, <3>2
      <4>2. Unit[i - 2] \in Int /\ h[i] \in Int
        BY <1>1, <1>2, <4>1
      <4> QED BY <1>1, <3>2, <4>2
    <3> QED BY <3>1, <3>2
  <2> HIDE DEF rule
  <2> QED BY <2>1
<1>4. PICK f \in [0 .. n -> Int] : Follows(f, zero, n, step)
  <2> HIDE DEF n, zero, step
  <2> QED BY <1>1, <1>3, Recursion
<1> DEFINE g == [i \in 1 .. n |-> f[i]]
<1>5. \A i \in 1 .. n : /\ f[i] \in Int /\ f[i - 1] \in Int
                        /\ f[i] = IF i = 1 THEN h[1]
                                  ELSE 2 * h[i] * Unit[i - 2] + (Span - 1) * f[i - 1]
  <2> SUFFICES ASSUME NEW i \in 1 .. n
               PROVE  /\ f[i] \in Int /\ f[i - 1] \in Int
                      /\ f[i] = IF i = 1 THEN h[1]
                                ELSE 2 * h[i] * Unit[i - 2] + (Span - 1) * f[i - 1]
    OBVIOUS
  <2>1. f[i] \in Int /\ f[i - 1] \in Int
    <3>1. i \in 0 .. n /\ i - 1 \in 0 .. n
      BY <1>1
    <3> HIDE DEF n, step
    <3> QED BY <3>1
  <2>2. f[i] = step[i][f[i - 1]]
    BY <1>4 DEF Follows
  <2> QED BY <2>1, <2>2
<1>6. g = [i \in 1 .. n |-> IF i = 1 THEN h[1]
                            ELSE 2 * h[i] * Unit[i - 2] + (Span - 1) * g[i - 1]]
  <2>1. \A i \in 1 .. n : i # 1 => i - 1 \in 1 .. n
    BY <1>1
  <2> HIDE DEF n
  <2> QED BY <1>5, <2>1
<1> DEFINE e == Ewma(h)
<1>7. e = [i \in 1 .. n |-> IF i = 1 THEN h[1]
                            ELSE 2 * h[i] * Unit[i - 2] + (Span - 1) * e[i - 1]]
  BY <1>6 DEF Ewma
<1> HIDE DEF e, g
<1>8. n >= 1 => e[1] = h[1]
  BY <1>1, <1>7
<1>9. \A i \in 2 .. n : e[i] = 2 * h[i] * Unit[i - 2] + (Span - 1) * e[i - 1]
  <2>1. \A i \in 2 .. n : i \in 1 .. n /\ i # 1
    BY <1>1
  <2> HIDE DEF n
  <2> QED BY <1>7, <2>1
<1> DEFINE R == {k \in Nat : 1 <= k /\ k <= n => e[k] \in Int}
<1>10. 0 \in R
  OBVIOUS
<1>11. ASSUME NEW k \in R PROVE k + 1 \in R
  <2> SUFFICES ASSUME 1 <= k + 1, k + 1 <= n PROVE e[k + 1] \in Int
    OBVIOUS
  <2>1. CASE k = 0
    BY <1>1, <1>8, <2>1
  <2>2. CASE k # 0
    <3>1. k \in Nat /\ k + 1 \in 2 .. n /\ (k + 1) - 1 = k /\ e[k] \in Int
      BY <1>1, <2>2
    <3>2. e[k + 1] = 2 * h[k + 1] * Unit[(k + 1) - 2] + (Span - 1) * e[k]
      <4> HIDE DEF R
      <4> QED BY <1>9, <3>1
    <3>3. h[k + 1] \in Int /\ Unit[(k + 1) - 2] \in Int
      BY <1>1, <1>2, <3>1
    <3>4. Span - 1 \in Int /\ e[k] \in Int
      BY <1>1, <3>1
    <3>5. 2 * h[k + 1] * Unit[(k + 1) - 2] \in Int /\ (Span - 1) * e[k] \in Int
      <4>1. \A x, y \in Int : 2 * x * y \in Int /\ x * y \in Int
        OBVIOUS
      <4> HIDE DEF R, n
      <4> QED BY ONLY <3>3, <3>4, <4>1
    <3> QED BY ONLY <3>2, <3>5
  <2> QED BY <2>1, <2>2
<1>12. R = Nat
  <2> HIDE DEF R
  <2>1. R \in SUBSET Nat
    BY DEF R
  <2> QED BY <1>10, <1>11, <2>1, SetInduction
<1>13. \A i \in 1 .. n : e[i] \in Int
  BY <1>1, <1>12
<1> QED BY <1>8, <1>9, <1>13 DEF e

\* The average is restated with the values, in its own scale.
LEMMA EwmaRestated ==
  ASSUME NEW g, NEW h, NEW a, NEW b, Restates(g, h, a, b), Len(h) <= WindowSize
  PROVE  \A i \in 1 .. Len(h) : Ewma(g)[i] = a * Ewma(h)[i] + b * Unit[i - 1]
<1> DEFINE n == Len(h)  eg == Ewma(g)  eh == Ewma(h)
           R == {k \in Nat : 1 <= k /\ k <= n => eg[k] = a * eh[k] + b * Unit[k - 1]}
<1>1. /\ g \in Seq(Int) /\ h \in Seq(Int) /\ Len(g) = n /\ a \in Int /\ b \in Int
      /\ \A i \in 1 .. n : g[i] = a * h[i] + b /\ h[i] \in Int
      /\ n \in Nat /\ Span \in Nat /\ WindowSize \in Nat /\ n <= WindowSize
  BY HistoryFacts, DetectorsAssumption DEF Restates, Integral
<1>2. /\ \A i \in 1 .. n : eg[i] \in Int /\ eh[i] \in Int
      /\ n >= 1 => eg[1] = g[1] /\ eh[1] = h[1]
      /\ \A i \in 2 .. n : /\ eg[i] = 2 * g[i] * Unit[i - 2] + (Span - 1) * eg[i - 1]
                           /\ eh[i] = 2 * h[i] * Unit[i - 2] + (Span - 1) * eh[i - 1]
  <2>1. /\ \A i \in 1 .. n : eh[i] \in Int
        /\ n >= 1 => eh[1] = h[1]
        /\ \A i \in 2 .. n : eh[i] = 2 * h[i] * Unit[i - 2] + (Span - 1) * eh[i - 1]
    BY <1>1, EwmaFacts
  <2>2. /\ \A i \in 1 .. n : eg[i] \in Int
        /\ n >= 1 => eg[1] = g[1]
        /\ \A i \in 2 .. n : eg[i] = 2 * g[i] * Unit[i - 2] + (Span - 1) * eg[i - 1]
    <3> HIDE DEF n
    <3> QED BY <1>1, EwmaFacts
  <2> HIDE DEF n, eg, eh
  <2> QED BY <2>1, <2>2
<1> HIDE DEF eg, eh
<1>3. 0 \in R
  OBVIOUS
<1>4. ASSUME NEW k \in R PROVE k + 1 \in R
  <2> SUFFICES ASSUME k + 1 <= n PROVE eg[k + 1] = a * eh[k + 1] + b * Unit[(k + 1) - 1]
    OBVIOUS
  <2>0. k \in Nat
    OBVIOUS
  <2>1. CASE k = 0
    <3>1. 1 \in 1 .. n /\ eg[1] = a * h[1] + b /\ eh[1] = h[1] /\ h[1] \in Int
      BY <1>1, <1>2, <2>1
    <3>2. Unit[(k + 1) - 1] = 1
      BY <2>1, UnitFacts
    <3> QED BY <1>1, <2>1, <3>1, <3>2
  <2>2. CASE k # 0
    <3>1. /\ k \in 1 .. n /\ k + 1 \in 2 .. n /\ k + 1 \in 1 .. n /\ (k + 1) - 1 = k /\ (k + 1) - 2 = k - 1
          /\ k \in 1 .. WindowSize /\ k - 1 \in 0 .. WindowSize
      BY <1>1, <2>0, <2>2
    <3>2. eg[k] = a * eh[k] + b * Unit[k - 1]
      BY <3>1
    <3> HIDE DEF R
    <3> DEFINE x == h[k + 1]  y == eh[k]  u == Unit[k - 1]
    <3>3. x \in Int /\ y \in Int /\ u \in Int /\ Unit[k] = (Span + 1) * u /\ g[k + 1] = a * x + b
      <4>1. x \in Int /\ g[k + 1] = a * x + b
        BY <1>1, <3>1
      <4>2. y \in Int
        BY <1>2, <3>1
      <4>3. u \in Int /\ Unit[k] = (Span + 1) * u
        BY <3>1, UnitFacts
      <4> QED BY <4>1, <4>2, <4>3
    <3>4. eg[k + 1] = 2 * (a * x + b) * u + (Span - 1) * (a * y + b * u)
      BY <1>2, <3>1, <3>2, <3>3
    <3>5. eh[k + 1] = 2 * x * u + (Span - 1) * y
      BY <1>2, <3>1
    <3> HIDE DEF x, y, u
    <3>6. 2 * (a * x + b) * u + (Span - 1) * (a * y + b * u)
            = a * (2 * x * u + (Span - 1) * y) + b * ((Span + 1) * u)
      BY <1>1, <3>3
    <3> QED BY <3>1, <3>3, <3>4, <3>5, <3>6
  <2> QED BY <2>1, <2>2
<1>5. R = Nat
  <2> HIDE DEF R
  <2>1. R \in SUBSET Nat
    BY DEF R
  <2> QED BY <1>3, <1>4, <2>1, SetInduction
<1>6. ASSUME NEW i \in 1 .. n PROVE eg[i] = a * eh[i] + b * Unit[i - 1]
  <2>1. i \in Nat /\ 1 <= i /\ i <= n
    BY <1>1
  <2>2. i \in R
    <3> HIDE DEF R
    <3> QED BY <1>5, <2>1
  <2> QED BY <2>1, <2>2
<1> QED BY <1>6 DEF eg, eh

-----------------------------------------------------------------------------
(* While a value repeats, the residuals of the average shrink *)

\* A sample whose values shrink by (m - 1) / (m + 1) from each to the next:
\* what the residuals of the average do while a value repeats.
Geometric(r, m, lo) ==
  /\ m \in Nat /\ m >= 2 /\ lo \in Int /\ Integral(r, lo .. lo + m - 1)
  /\ \A i \in lo + 1 .. lo + m - 1 : (m + 1) * r[i] = (m - 1) * r[i - 1]

\* Sum and sum of squares in terms of the first and the last value.
LEMMA GeometricSums ==
  ASSUME NEW r, NEW m, NEW lo, Geometric(r, m, lo)
  PROVE  LET S == lo .. lo + m - 1  f == r[lo]  l == r[lo + m - 1] IN
         /\ 2 * Total(r, S) = (m + 1) * f - (m - 1) * l
         /\ 4 * m * Total(Squares(r, S), S) = (m + 1) * (m + 1) * (f * f) - (m - 1) * (m - 1) * (l * l)
<1> DEFINE S == lo .. lo + m - 1  f == r[lo]  sq == Squares(r, S)
           R == {j \in Nat : j <= m - 1 =>
                   /\ 2 * Total(r, lo .. lo + j) = (m + 1) * f - (m - 1) * r[lo + j]
                   /\ 4 * m * Total(sq, lo .. lo + j)
                        = (m + 1) * (m + 1) * (f * f) - (m - 1) * (m - 1) * (r[lo + j] * r[lo + j])}
<1>1. /\ m \in Nat /\ m >= 2 /\ lo \in Int /\ Integral(r, S)
      /\ \A i \in lo + 1 .. lo + m - 1 : (m + 1) * r[i] = (m - 1) * r[i - 1]
  BY DEF Geometric
<1>2. IsFiniteSet(S) /\ Integral(sq, S) /\ \A i \in S : sq[i] = r[i] * r[i] /\ r[i] \in Int
  <2>1. IsFiniteSet(S)
    BY <1>1, FS_Interval
  <2> QED BY <1>1, <2>1, SquaresFacts DEF Integral, Squares
<1> HIDE DEF sq
<1>3. ASSUME NEW j \in Nat, j + 1 <= m - 1
      PROVE  /\ Total(r, lo .. lo + (j + 1)) = Total(r, lo .. lo + j) + r[lo + (j + 1)]
             /\ Total(sq, lo .. lo + (j + 1)) = Total(sq, lo .. lo + j) + sq[lo + (j + 1)]
             /\ Total(r, lo .. lo + j) \in Int /\ Total(sq, lo .. lo + j) \in Int
  <2> DEFINE U == lo .. lo + j  x == lo + (j + 1)
  <2>1. U \in SUBSET S /\ x \in S \ U /\ lo .. x = U \cup {x}
    BY <1>1, <1>3
  <2> HIDE DEF S, U, x
  <2>2. Total(r, U \cup {x}) = Total(r, U) + r[x] /\ Total(r, U) \in Int
    BY <1>1, <1>2, <2>1, TotalAdd
  <2>3. Total(sq, U \cup {x}) = Total(sq, U) + sq[x] /\ Total(sq, U) \in Int
    BY <1>2, <2>1, TotalAdd
  <2> QED BY <2>1, <2>2, <2>3 DEF U, x
<1>4. 0 \in R
  <2>1. lo .. lo + 0 = {lo} /\ lo \in S /\ lo + 0 = lo /\ {} \in SUBSET S /\ lo \in S \ {} /\ {} \cup {lo} = {lo}
    BY <1>1
  <2>2. f \in Int /\ sq[lo] = f * f
    BY <1>2, <2>1
  <2> HIDE DEF S, f
  <2>3. Total(r, {} \cup {lo}) = Total(r, {}) + r[lo] /\ Total(r, {}) = 0
    BY <1>1, <1>2, <2>1, TotalAdd, TotalType
  <2>4. Total(sq, {} \cup {lo}) = Total(sq, {}) + sq[lo] /\ Total(sq, {}) = 0
    BY <1>2, <2>1, TotalAdd, TotalType
  <2>5. Total(r, {lo}) = f /\ Total(sq, {lo}) = f * f
    BY <2>1, <2>2, <2>3, <2>4 DEF f
  <2>6. 2 * f = (m + 1) * f - (m - 1) * f
    BY <1>1, <2>2
  <2>7. 4 * m * (f * f) = (m + 1) * (m + 1) * (f * f) - (m - 1) * (m - 1) * (f * f)
    BY <1>1, <2>2
  <2>8. r[lo + 0] = f
    BY <2>1 DEF f
  <2> QED BY <2>1, <2>5, <2>6, <2>7, <2>8
<1>5. ASSUME NEW j \in R PROVE j + 1 \in R
  <2> DEFINE T == Total(r, lo .. lo + j)  Q == Total(sq, lo .. lo + j)
             x == r[lo + j]  y == r[lo + (j + 1)]
  <2> SUFFICES ASSUME j + 1 <= m - 1
               PROVE  /\ 2 * Total(r, lo .. lo + (j + 1)) = (m + 1) * f - (m - 1) * y
                      /\ 4 * m * Total(sq, lo .. lo + (j + 1))
                           = (m + 1) * (m + 1) * (f * f) - (m - 1) * (m - 1) * (y * y)
    OBVIOUS
  <2>1. j \in Nat /\ j <= m - 1
    BY <1>1
  <2>2. /\ 2 * T = (m + 1) * f - (m - 1) * x
        /\ 4 * m * Q = (m + 1) * (m + 1) * (f * f) - (m - 1) * (m - 1) * (x * x)
    BY <2>1
  <2> HIDE DEF R
  <2>3. lo + j \in S /\ lo + (j + 1) \in S /\ lo + (j + 1) \in lo + 1 .. lo + m - 1
        /\ lo + (j + 1) - 1 = lo + j /\ lo \in S
    BY <1>1, <2>1
  <2>4. x \in Int /\ y \in Int /\ f \in Int /\ sq[lo + (j + 1)] = y * y
    BY <1>2, <2>3
  <2>5. (m + 1) * y = (m - 1) * x
    <3> DEFINE i == lo + (j + 1)
    <3>1. i \in lo + 1 .. lo + m - 1 /\ i - 1 = lo + j
      <4> HIDE DEF S, T, Q, x, y, f
      <4> QED BY <1>1, <2>1
    <3> HIDE DEF i
    <3>2. (m + 1) * r[i] = (m - 1) * r[i - 1]
      BY <1>1, <3>1
    <3> QED BY <3>1, <3>2 DEF i
  <2>6. /\ Total(r, lo .. lo + (j + 1)) = T + y
        /\ Total(sq, lo .. lo + (j + 1)) = Q + y * y /\ T \in Int /\ Q \in Int
    BY <1>3, <2>1, <2>4
  <2> HIDE DEF T, Q, x, y, f, S
  <2>7. 2 * (T + y) = (m + 1) * f - (m - 1) * y
    BY <1>1, <2>2, <2>4, <2>5, <2>6
  <2>8. 4 * m * (Q + y * y) = (m + 1) * (m + 1) * (f * f) - (m - 1) * (m - 1) * (y * y)
    <3>1. (m - 1) * (m - 1) * (x * x) = (m + 1) * (m + 1) * (y * y)
      <4>1. ((m - 1) * x) * ((m - 1) * x) = ((m + 1) * y) * ((m + 1) * y)
        BY <2>5
      <4>2. ((m - 1) * x) * ((m - 1) * x) = (m - 1) * (m - 1) * (x * x)
        BY <1>1, <2>4
      <4>3. ((m + 1) * y) * ((m + 1) * y) = (m + 1) * (m + 1) * (y * y)
        BY <1>1, <2>4
      <4> QED BY <4>1, <4>2, <4>3
    <3>2. 4 * m * (Q + y * y) = (m + 1) * (m + 1) * (f * f) - (m + 1) * (m + 1) * (y * y) + 4 * m * (y * y)
      BY <1>1, <2>2, <2>4, <2>6, <3>1
    <3> QED BY <1>1, <2>4, <3>2
  <2> QED BY <2>6, <2>7, <2>8
<1>6. R = Nat
  <2> HIDE DEF R
  <2>1. R \in SUBSET Nat
    BY DEF R
  <2> QED BY <1>4, <1>5, <2>1, SetInduction
<1>7. m - 1 \in R /\ lo + (m - 1) = lo + m - 1
  <2>1. m - 1 \in Nat /\ lo + (m - 1) = lo + m - 1
    BY <1>1
  <2> HIDE DEF R
  <2> QED BY <1>6, <2>1
<1> QED BY <1>1, <1>7 DEF sq

\* Looking back from the last value, the others grow at least linearly.
LEMMA GeometricGrowth ==
  ASSUME NEW r, NEW m, NEW lo, Geometric(r, m, lo)
  PROVE  r[lo] * r[lo + m - 1] >= 3 * (r[lo + m - 1] * r[lo + m - 1])
<1> DEFINE hi == lo + m - 1  l == r[hi]
           R == {p \in Nat : p <= m - 1 => (m - 1) * (r[hi - p] * l) >= (m - 1 + 2 * p) * (l * l)}
<1>1. /\ m \in Nat /\ m >= 2 /\ lo \in Int /\ \A i \in lo .. hi : r[i] \in Int
      /\ \A i \in lo + 1 .. hi : (m + 1) * r[i] = (m - 1) * r[i - 1]
  BY DEF Geometric, Integral
<1>2. hi \in Int /\ hi \in lo .. hi /\ l \in Int
  BY <1>1
<1>3. 0 \in R
  <2>1. hi - 0 = hi
    BY <1>2
  <2>2. (m - 1) * (l * l) \in Int /\ (m - 1 + 2 * 0) * (l * l) = (m - 1) * (l * l)
    BY <1>1, <1>2
  <2> HIDE DEF hi
  <2> QED BY <2>1, <2>2
<1>4. ASSUME NEW p \in R PROVE p + 1 \in R
  <2> DEFINE x == r[hi - p]  y == r[hi - (p + 1)]
  <2> SUFFICES ASSUME p + 1 <= m - 1
               PROVE  (m - 1) * (y * l) >= (m - 1 + 2 * (p + 1)) * (l * l)
    OBVIOUS
  <2>1. p \in Nat /\ p <= m - 1
    BY <1>1
  <2>2. (m - 1) * (x * l) >= (m - 1 + 2 * p) * (l * l)
    BY <2>1
  <2> HIDE DEF R
  <2>3. /\ hi - p \in lo + 1 .. hi /\ hi - p \in lo .. hi /\ hi - (p + 1) \in lo .. hi
        /\ hi - p - 1 = hi - (p + 1)
    BY <1>1, <2>1
  <2> HIDE DEF hi
  <2>4. x \in Int /\ y \in Int /\ (m + 1) * x = (m - 1) * y
    BY <1>1, <2>3
  <2> HIDE DEF x, y, l
  <2> DEFINE a == m - 1  b == m + 1  ll == l * l  xl == x * l  yl == y * l
  <2>5. /\ a \in Int /\ b \in Int /\ a >= 1 /\ b = a + 2 /\ ll \in Int /\ ll >= 0
        /\ xl \in Int /\ yl \in Int
    BY <1>1, <1>2, <2>4
  <2>6. b * xl = a * yl
    <3>1. (b * x) * l = (a * y) * l
      BY <2>4
    <3> HIDE DEF a, b
    <3>2. (b * x) * l = b * xl /\ (a * y) * l = a * yl
      BY <1>2, <2>4, <2>5
    <3> QED BY <3>1, <3>2
  <2>7. a * xl >= (a + 2 * p) * ll
    BY <2>2
  <2> HIDE DEF a, b, ll, xl, yl
  <2>8. b * (a * xl) >= b * ((a + 2 * p) * ll)
    <3> DEFINE u == a * xl  v == (a + 2 * p) * ll
    <3>1. u \in Int /\ v \in Int
      BY <2>1, <2>5
    <3> HIDE DEF u, v
    <3>2. u >= v => b * u >= b * v
      BY <2>5, <3>1
    <3> QED BY <2>7, <3>2 DEF u, v
  <2>9. b * (a * xl) = a * (a * yl)
    <3>1. b * (a * xl) = a * (b * xl)
      BY <2>5
    <3> QED BY <2>6, <3>1
  <2>10. b * ((a + 2 * p) * ll) = a * ((a + 2 * (p + 1)) * ll) + 4 * p * ll
    BY <2>1, <2>5
  <2>11. p * ll \in Nat
    BY <2>1, <2>5
  <2> DEFINE u == a * yl  v == (a + 2 * (p + 1)) * ll
  <2>12. u \in Int /\ v \in Int
    BY <2>1, <2>5
  <2>13. a * u >= a * v
    <3>1. 4 * p * ll = 4 * (p * ll)
      BY <2>1, <2>5
    <3>2. a * u \in Int /\ a * v \in Int
      BY <2>5, <2>12
    <3> HIDE DEF u, v
    <3>3. a * u >= a * v + 4 * (p * ll)
      BY <2>8, <2>9, <2>10, <3>1 DEF u, v
    <3> QED BY <2>11, <3>2, <3>3
  <2> HIDE DEF u, v
  <2>14. u >= v
    BY <2>5, <2>12, <2>13
  <2> QED BY <2>14 DEF u, v, a, ll, yl
<1>5. R = Nat
  <2> HIDE DEF R
  <2>1. R \in SUBSET Nat
    BY DEF R
  <2> QED BY <1>3, <1>4, <2>1, SetInduction
<1>6. m - 1 \in R /\ hi - (m - 1) = lo
  <2>1. m - 1 \in Nat /\ hi - (m - 1) = lo
    BY <1>1
  <2> HIDE DEF R
  <2> QED BY <1>5, <2>1
<1>7. (m - 1) * (r[lo] * l) >= (m - 1 + 2 * (m - 1)) * (l * l)
  BY <1>1, <1>6
<1> DEFINE a == m - 1  fl == r[lo] * l  ll == l * l
<1>8. a \in Int /\ a >= 1 /\ fl \in Int /\ ll \in Int
  <2>1. lo \in lo .. hi
    BY <1>1
  <2>2. r[lo] \in Int
    BY <1>1, <2>1
  <2> QED BY <1>1, <1>2, <2>2
<1>9. a * fl >= (a + 2 * a) * ll
  BY <1>7
<1> HIDE DEF a, fl, ll
<1>10. (a + 2 * a) * ll = a * (3 * ll)
  BY <1>8
<1>11. fl >= 3 * ll
  BY <1>8, <1>9, <1>10
<1> QED BY <1>11 DEF fl, ll

\* Such a sample spreads too much for its last value to stand out.
LEMMA GeometricSpread ==
  ASSUME NEW r, NEW m, NEW lo, Geometric(r, m, lo)
  PROVE  LET l == r[lo + m - 1]  V == Spread(r, lo .. lo + m - 1)
         IN  V \in Int /\ V >= m * (m - 1) * (l * l)
<1> DEFINE S == lo .. lo + m - 1  f == r[lo]  l == r[lo + m - 1]  V == Spread(r, S)
           T == Total(r, S)  Q == Total(Squares(r, S), S)
<1>1. m \in Nat /\ m >= 2 /\ lo \in Int /\ Integral(r, S) /\ lo \in S /\ lo + m - 1 \in S
  BY DEF Geometric
<1>2. f \in Int /\ l \in Int
  BY <1>1 DEF Integral
<1>3. IsFiniteSet(S) /\ Cardinality(S) = m
  BY <1>1, FS_Interval
<1>4. Q \in Int /\ T \in Int
  BY <1>1, <1>3, SquaresFacts
<1>5. V = m * Q - T * T
  BY <1>3 DEF Spread
<1>6. /\ 2 * T = (m + 1) * f - (m - 1) * l
      /\ 4 * m * Q = (m + 1) * (m + 1) * (f * f) - (m - 1) * (m - 1) * (l * l)
  BY GeometricSums
<1>7. f * l >= 3 * (l * l)
  BY GeometricGrowth
<1> HIDE DEF S, f, l, T, Q, V
<1>8. 4 * V = 2 * (m - 1) * ((m + 1) * (f * l) - (m - 1) * (l * l))
  <2> DEFINE X == (m + 1) * f  Y == (m - 1) * l
  <2>1. X \in Int /\ Y \in Int /\ 2 * T = X - Y
    BY <1>1, <1>2, <1>6
  <2>2. 4 * m * Q = X * X - Y * Y
    BY <1>1, <1>2, <1>6
  <2>3. 4 * V = 4 * m * Q - (2 * T) * (2 * T)
    BY <1>1, <1>4, <1>5
  <2>4. X * Y = (m + 1) * (m - 1) * (f * l) /\ Y * Y = (m - 1) * (m - 1) * (l * l)
    BY <1>1, <1>2
  <2> HIDE DEF X, Y
  <2>5. 4 * V = (X * X - Y * Y) - (X - Y) * (X - Y)
    BY <2>1, <2>2, <2>3
  <2>6. 4 * V = 2 * (X * Y) - 2 * (Y * Y)
    BY <2>1, <2>5
  <2> DEFINE fl == f * l  ll == l * l
  <2>7. fl \in Int /\ ll \in Int
    BY <1>2
  <2>8. 4 * V = 2 * ((m + 1) * (m - 1) * fl) - 2 * ((m - 1) * (m - 1) * ll)
    BY <2>4, <2>6
  <2> HIDE DEF fl, ll
  <2>9. 4 * V = 2 * (m - 1) * ((m + 1) * fl - (m - 1) * ll)
    BY <1>1, <2>7, <2>8
  <2> QED BY <2>9 DEF fl, ll
<1>9. V \in Int
  BY <1>1, <1>4, <1>5
<1> DEFINE fl == f * l  ll == l * l
<1>10. fl \in Int /\ ll \in Int /\ ll >= 0 /\ fl >= 3 * ll
  BY <1>2, <1>7
<1> HIDE DEF fl, ll
<1> DEFINE W == (m + 1) * fl - (m - 1) * ll
<1>11. W \in Int /\ W >= 2 * m * ll
  <2>1. (m + 1) * fl >= (m + 1) * (3 * ll)
    BY <1>1, <1>10
  <2>2. (m + 1) * (3 * ll) - (m - 1) * ll = 2 * m * ll + 4 * ll
    BY <1>1, <1>10
  <2>3. (m + 1) * fl \in Int /\ (m + 1) * (3 * ll) \in Int /\ (m - 1) * ll \in Int /\ 2 * m * ll \in Int
    BY <1>1, <1>10
  <2> QED BY <1>10, <2>1, <2>2, <2>3
<1>12. 4 * V = 2 * (m - 1) * W
  BY <1>8 DEF fl, ll
<1> HIDE DEF W
<1>13. 2 * (m - 1) * W >= 2 * (m - 1) * (2 * m * ll)
  <2> DEFINE a == 2 * (m - 1)  v == 2 * m * ll
  <2>1. a \in Nat /\ v \in Int
    BY <1>1, <1>10
  <2>2. W >= v
    BY <1>11
  <2> HIDE DEF a, v
  <2>3. a * W >= a * v
    BY <1>11, <2>1, <2>2
  <2> QED BY <2>3 DEF a, v
<1>14. 2 * (m - 1) * (2 * m * ll) = 4 * (m * (m - 1) * ll)
  BY <1>1, <1>10
<1>15. m * (m - 1) * ll \in Int
  BY <1>1, <1>10
<1>16. V >= m * (m - 1) * ll
  <2> DEFINE v == m * (m - 1) * ll
  <2> HIDE DEF v
  <2>1. 4 * V >= 4 * v /\ v \in Int
    BY <1>12, <1>13, <1>14, <1>15 DEF v
  <2> QED BY <1>9, <2>1 DEF v
<1> QED BY <1>9, <1>16 DEF V, l, S, ll

-----------------------------------------------------------------------------
(* The verdict of the ewma detector *)

Expected(h) == [i \in 1 .. Len(h) |-> Ewma(h)[i] * Unit[Len(h) - i]]
Residual(h) == [i \in 1 .. Len(h) |-> h[i] * Unit[Len(h) - 1] - Expected(h)[i]]
LastSpan(h) == Len(h) - Span + 1 .. Len(h)

\* The definition with its parts named.
LEMMA EwmaDriftIs ==
  ASSUME NEW h, NEW c
  PROVE  EwmaDrift(h, c) = IF Len(h) < Span THEN Quiet
                           ELSE SquaredZ(Residual(h), LastSpan(h),
                                         c * Unit[Len(h) - 1] - Expected(h)[Len(h)])
BY DEF EwmaDrift, Expected, Residual, LastSpan

\* All of them are integers.
LEMMA ResidualFacts ==
  ASSUME NEW h \in Seq(Int), Len(h) <= WindowSize, Len(h) >= Span
  PROVE  /\ LastSpan(h) \in SUBSET (1 .. Len(h)) /\ IsFiniteSet(LastSpan(h))
         /\ Unit[Len(h) - 1] \in Int
         /\ \A i \in 1 .. Len(h) : /\ Expected(h)[i] \in Int /\ Residual(h)[i] \in Int
                                   /\ Residual(h)[i] = h[i] * Unit[Len(h) - 1] - Expected(h)[i]
<1> DEFINE n == Len(h)
<1>1. /\ n \in Nat /\ n <= WindowSize /\ n >= Span /\ Span \in Nat /\ Span >= 2 /\ WindowSize \in Nat
      /\ \A i \in 1 .. n : h[i] \in Int
  BY HistoryFacts, DetectorsAssumption DEF Integral
<1>2. LastSpan(h) \in SUBSET (1 .. n) /\ IsFiniteSet(LastSpan(h))
  <2>1. LastSpan(h) \in SUBSET (1 .. n)
    BY <1>1 DEF LastSpan
  <2> QED BY <1>1, <2>1, FS_Interval DEF LastSpan
<1>3. n - 1 \in 0 .. WindowSize /\ Unit[n - 1] \in Int
  <2> HIDE DEF n
  <2>1. n - 1 \in 0 .. WindowSize
    BY <1>1
  <2> QED BY <2>1, UnitFacts
<1>4. ASSUME NEW i \in 1 .. n
      PROVE  /\ Expected(h)[i] \in Int /\ Residual(h)[i] \in Int
             /\ Residual(h)[i] = h[i] * Unit[n - 1] - Expected(h)[i]
  <2>1. n - i \in 0 .. WindowSize
    BY <1>1
  <2>2. Unit[n - i] \in Int /\ Ewma(h)[i] \in Int
    BY <2>1, UnitFacts, EwmaFacts
  <2>3. Expected(h)[i] = Ewma(h)[i] * Unit[n - i]
    BY DEF Expected
  <2>4. Residual(h)[i] = h[i] * Unit[n - 1] - Expected(h)[i]
    BY DEF Residual
  <2> DEFINE x == h[i]  u == Unit[n - 1]  e == Ewma(h)[i]  w == Unit[n - i]  p == Expected(h)[i]
  <2>5. x \in Int /\ u \in Int /\ e \in Int /\ w \in Int /\ p = e * w
    BY <1>1, <1>3, <2>2, <2>3
  <2> HIDE DEF x, u, e, w, p
  <2>6. p \in Int /\ x * u - p \in Int
    BY <2>5
  <2> QED BY <2>4, <2>6 DEF x, u, p
<1> QED BY <1>2, <1>3, <1>4

\* Residuals and deviation are restated alike, so ewma's verdict stays.
LEMMA EwmaDriftRestated ==
  ASSUME NEW g, NEW h, NEW a, NEW b, Restates(g, h, a, b), Len(h) <= WindowSize, NEW c \in Int
  PROVE  EwmaDrift(g, a * c + b) = EwmaDrift(h, c)
<1> DEFINE n == Len(h)  S == LastSpan(h)  u == Unit[n - 1]
<1>1. /\ g \in Seq(Int) /\ h \in Seq(Int) /\ Len(g) = n /\ a \in Int /\ b \in Int /\ a \in {1, -1}
      /\ \A i \in 1 .. n : g[i] = a * h[i] + b /\ h[i] \in Int
      /\ n \in Nat /\ Span \in Nat /\ Span >= 2 /\ WindowSize \in Nat /\ n <= WindowSize
  BY HistoryFacts, DetectorsAssumption DEF Restates, Integral
<1>2. LastSpan(g) = S
  BY <1>1 DEF LastSpan
<1>3. CASE n < Span
  BY <1>1, <1>3, EwmaDriftIs
<1>4. CASE n >= Span
  <2>1. /\ S \in SUBSET (1 .. n) /\ IsFiniteSet(S) /\ u \in Int
        /\ \A i \in 1 .. n : /\ Expected(h)[i] \in Int /\ Residual(h)[i] \in Int
                             /\ Residual(h)[i] = h[i] * u - Expected(h)[i]
    BY <1>1, <1>4, ResidualFacts
  <2>2. \A i \in 1 .. n : Residual(g)[i] = g[i] * u - Expected(g)[i]
    BY <1>1 DEF Residual
  <2>3. ASSUME NEW i \in 1 .. n PROVE Expected(g)[i] = a * Expected(h)[i] + b * u
    <3>1. Expected(g)[i] = Ewma(g)[i] * Unit[n - i] /\ Expected(h)[i] = Ewma(h)[i] * Unit[n - i]
      BY <1>1 DEF Expected
    <3>2. Ewma(g)[i] = a * Ewma(h)[i] + b * Unit[i - 1]
      BY <1>1, EwmaRestated
    <3>3. Unit[i - 1] * Unit[n - i] = u
      <4> DEFINE m == n - 1  j == i - 1
      <4>1. m \in Nat /\ m <= WindowSize /\ j \in 0 .. m /\ m - j = n - i
        BY <1>1
      <4> HIDE DEF m, j
      <4>2. Unit[j] * Unit[m - j] = Unit[m]
        BY <4>1, UnitProduct
      <4> QED BY <4>1, <4>2 DEF m, j
    <3>4. i - 1 \in 0 .. WindowSize /\ n - i \in 0 .. WindowSize
      BY <1>1
    <3> DEFINE e == Ewma(h)[i]  v == Unit[i - 1]  w == Unit[n - i]
    <3>5. e \in Int /\ v \in Int /\ w \in Int
      <4>1. e \in Int
        BY <1>1, EwmaFacts
      <4>2. v \in Int /\ w \in Int
        BY <3>4, UnitFacts
      <4> QED BY <4>1, <4>2
    <3> HIDE DEF e, v, w, u
    <3>6. (a * e + b * v) * w = a * (e * w) + b * (v * w)
      BY <1>1, <3>5
    <3> QED BY <3>1, <3>2, <3>3, <3>6 DEF e, v, w
  <2> DEFINE rg == Residual(g)  rh == Residual(h)  zero == 0
  <2>4. \A i \in 1 .. n : rg[i] = a * rh[i] + zero
    <3> SUFFICES ASSUME NEW i \in 1 .. n PROVE rg[i] = a * rh[i] + zero
      OBVIOUS
    <3> DEFINE x == h[i]  e == Expected(h)[i]
    <3>1. x \in Int /\ e \in Int /\ rh[i] = x * u - e /\ rg[i] = (a * x + b) * u - (a * e + b * u)
      BY <1>1, <2>1, <2>2, <2>3
    <3> HIDE DEF x, e, rg, rh, u
    <3>2. (a * x + b) * u - (a * e + b * u) = a * (x * u - e) + 0
      BY <1>1, <2>1, <3>1
    <3> QED BY <3>1, <3>2
  <2>5. Scales(rg, S, a, rh, zero)
    <3>1. Integral(rh, S) /\ zero \in Int
      BY <2>1 DEF Integral
    <3> HIDE DEF rg, rh, zero, S, n
    <3> QED BY <1>1, <2>1, <2>4, <3>1 DEF Scales
  <2> DEFINE dg == (a * c + b) * u - Expected(g)[n]  dh == c * u - Expected(h)[n]
  <2>6. dg = a * dh /\ dg \in Int /\ dh \in Int
    <3>1. n \in 1 .. n
      BY <1>1, <1>4
    <3> DEFINE e == Expected(h)[n]
    <3>2. e \in Int /\ Expected(g)[n] = a * e + b * u
      BY <2>1, <2>3, <3>1
    <3> HIDE DEF u
    <3>3. dg = (a * c + b) * u - (a * e + b * u) /\ dh = c * u - e
      BY <3>2
    <3>4. u \in Int
      BY <2>1
    <3> HIDE DEF e, dg, dh
    <3>5. (a * c + b) * u - (a * e + b * u) = a * (c * u - e)
      BY <1>1, <3>2, <3>4
    <3>6. c * u - e \in Int /\ a * (c * u - e) \in Int
      BY <1>1, <3>2, <3>4
    <3> QED BY <3>3, <3>5, <3>6
  <2>7. SquaredZ(rg, S, dg) = SquaredZ(rh, S, dh)
    <3> HIDE DEF rg, rh, zero, S, n, dg, dh
    <3> QED BY <1>1, <2>1, <2>5, <2>6, SquaredZMap
  <2>8. ~(n < Span)
    BY <1>1, <1>4
  <2>9. EwmaDrift(g, a * c + b) = SquaredZ(rg, S, dg)
    <3> HIDE DEF n
    <3> QED BY <1>1, <1>2, <2>8, EwmaDriftIs
  <2>10. EwmaDrift(h, c) = SquaredZ(rh, S, dh)
    BY <2>8, EwmaDriftIs
  <2> QED BY <2>7, <2>9, <2>10
<1> QED BY <1>1, <1>3, <1>4

\* While a value repeats, the residual of the average shrinks by a constant.
LEMMA ResidualShrinks ==
  ASSUME NEW h \in Seq(Int), Len(h) <= WindowSize, Len(h) >= Span, NEW i \in 2 .. Len(h), h[i - 1] = h[i]
  PROVE  (Span + 1) * Residual(h)[i] = (Span - 1) * Residual(h)[i - 1]
<1> DEFINE n == Len(h)  u == Unit[n - 1]  s == Span
           x == h[i]  e == Ewma(h)[i - 1]  p == Expected(h)[i]  q == Expected(h)[i - 1]
           v == Unit[i - 2]  w == Unit[n - i]
<1>1. /\ n \in Nat /\ s \in Nat /\ s >= 2 /\ WindowSize \in Nat /\ n <= WindowSize
      /\ i \in 1 .. n /\ i - 1 \in 1 .. n /\ x \in Int
  BY HistoryFacts, DetectorsAssumption DEF Integral
<1>2. /\ u \in Int /\ p \in Int /\ q \in Int /\ Residual(h)[i] = x * u - p
      /\ Residual(h)[i - 1] = x * u - q
  BY <1>1, ResidualFacts
<1>3. e \in Int /\ Ewma(h)[i] = 2 * x * v + (s - 1) * e
  BY <1>1, EwmaFacts
<1>4. v \in Int /\ w \in Int /\ Unit[n - (i - 1)] = (s + 1) * w
  <2> DEFINE k == n - (i - 1)
  <2>1. i - 2 \in 0 .. WindowSize /\ n - i \in 0 .. WindowSize /\ k \in 1 .. WindowSize /\ k - 1 = n - i
    BY <1>1
  <2> HIDE DEF k
  <2> QED BY <2>1, UnitFacts DEF k
<1>5. v * ((s + 1) * w) = u
  <2> DEFINE m == n - 1  j == i - 2
  <2>1. m \in Nat /\ m <= WindowSize /\ j \in 0 .. m /\ m - j = n - (i - 1)
    BY <1>1
  <2> HIDE DEF m, j
  <2>2. Unit[j] * Unit[m - j] = Unit[m]
    BY <2>1, UnitProduct
  <2> QED BY <1>4, <2>1, <2>2 DEF m, j
<1>6. p = (2 * x * v + (s - 1) * e) * w /\ q = e * ((s + 1) * w)
  BY <1>1, <1>3, <1>4 DEF Expected
<1> HIDE DEF n, u, s, x, e, p, q, v, w
<1>7. (s + 1) * p = 2 * x * u + (s - 1) * q
  <2>1. (s + 1) * ((2 * x * v + (s - 1) * e) * w)
          = 2 * x * (v * ((s + 1) * w)) + (s - 1) * (e * ((s + 1) * w))
    BY <1>1, <1>3, <1>4
  <2> QED BY <1>5, <1>6, <2>1
<1>8. (s + 1) * (x * u - p) = (s - 1) * (x * u - q)
  <2>1. (s + 1) * (x * u - p) = (s + 1) * (x * u) - (s + 1) * p
    BY <1>1, <1>2
  <2> QED BY <1>1, <1>2, <1>7, <2>1
<1> QED BY <1>2, <1>8 DEF s

\* A level that filled the last Span values is no anomaly to ewma.
LEMMA EwmaAbsorbs ==
  ASSUME NEW h \in Seq(Int), Len(h) <= WindowSize, NEW c \in Int, IsAnomaly("ewma", h, c)
  PROVE  \E i \in Len(h) - Span + 1 .. Len(h) : h[i] # c
<1> SUFFICES ASSUME \A i \in Len(h) - Span + 1 .. Len(h) : h[i] = c PROVE FALSE
  OBVIOUS
<1> DEFINE n == Len(h)  m == Span  lo == n - m + 1  S == lo .. lo + m - 1  r == Residual(h)
           l == r[lo + m - 1]  d == c * Unit[n - 1] - Expected(h)[n]
           V == Spread(r, S)  num == d * d * m * (m - 1)  sigma == Sigma * Sigma
<1>1. n \in Nat /\ m \in Nat /\ m >= 2 /\ n <= WindowSize /\ WindowSize \in Nat
  BY HistoryFacts, DetectorsAssumption
<1>2. sigma \in Nat /\ sigma >= 1
  BY DetectorsAssumption
<1>3. EwmaDrift(h, c).num > sigma * EwmaDrift(h, c).den
  BY DEF IsAnomaly, Z
<1>4. n >= m
  <2> SUFFICES ASSUME n < m PROVE FALSE
    BY <1>1
  <2>1. EwmaDrift(h, c) = Quiet
    BY EwmaDriftIs
  <2>2. Quiet.num = 0 /\ Quiet.den = 1
    BY DEF Quiet, Measure
  <2> HIDE DEF sigma
  <2> QED BY <1>2, <1>3, <2>1, <2>2
<1>5. lo + m - 1 = n /\ S = LastSpan(h) /\ lo \in 1 .. n /\ n \in S
  BY <1>1, <1>4 DEF LastSpan
<1>6. Geometric(r, m, lo)
  <2>1. Integral(r, lo .. lo + m - 1)
    BY <1>1, <1>4, <1>5, ResidualFacts DEF Integral
  <2>2. ASSUME NEW i \in lo + 1 .. lo + m - 1 PROVE (m + 1) * r[i] = (m - 1) * r[i - 1]
    <3>1. i \in 2 .. n /\ i \in lo .. n /\ i - 1 \in lo .. n
      BY <1>1, <1>4, <1>5
    <3>2. h[i] = c /\ h[i - 1] = c
      BY <3>1
    <3> HIDE DEF r, lo
    <3> QED BY <1>4, <3>1, <3>2, ResidualShrinks DEF r
  <2> HIDE DEF r
  <2> QED BY <1>1, <2>1, <2>2 DEF Geometric
<1>7. V \in Int /\ V >= m * (m - 1) * (l * l)
  BY <1>6, GeometricSpread
<1>8. d = l /\ l \in Int
  <2>1. h[n] = c /\ n \in 1 .. n
    BY <1>1, <1>4, <1>5
  <2>2. r[n] = h[n] * Unit[n - 1] - Expected(h)[n] /\ r[n] \in Int
    BY <1>1, <1>4, <2>1, ResidualFacts
  <2> QED BY <1>5, <2>1, <2>2
<1>9. EwmaDrift(h, c) = Measure(num, V)
  <2>1. EwmaDrift(h, c) = SquaredZ(r, LastSpan(h), d)
    BY <1>1, <1>4, EwmaDriftIs
  <2>2. Cardinality(S) = m
    <3>1. lo \in Int /\ lo + m - 1 \in Int /\ ~(lo > lo + m - 1) /\ (lo + m - 1) - lo + 1 = m
      BY <1>1, <1>4
    <3> HIDE DEF lo, m
    <3> QED BY <3>1, FS_Interval
  <2> QED BY <1>5, <2>1, <2>2, SquaredZIs
<1> HIDE DEF n, m, lo, S, r, l, d, V, sigma
<1>10. num \in Int /\ V >= num
  <2>1. l * l * m * (m - 1) = m * (m - 1) * (l * l) /\ l * l * m * (m - 1) \in Int
    BY <1>1, <1>8
  <2> QED BY <1>7, <1>8, <2>1
<1>11. num >= 0
  <2> DEFINE ll == l * l  a == m * (m - 1)
  <2>1. ll \in Nat /\ a \in Nat
    BY <1>1, <1>8
  <2>2. num = ll * a
    BY <1>1, <1>8
  <2> HIDE DEF ll, a, num
  <2> QED BY <2>1, <2>2
<1> HIDE DEF num
<1>12. CASE V = 0
  <2>1. Measure(num, V).num = 0 /\ Measure(num, V).den = 1
    BY <1>12 DEF Measure
  <2> QED BY <1>2, <1>3, <1>9, <2>1
<1>13. CASE V # 0
  <2>1. Measure(num, V).num = num /\ Measure(num, V).den = V
    BY <1>13 DEF Measure
  <2>2. num > sigma * V
    BY <1>3, <1>9, <2>1
  <2>3. V >= 0
    BY <1>7, <1>10, <1>11
  <2>4. sigma * V >= V
    BY <1>2, <1>7, <2>3
  <2>5. sigma * V \in Int
    BY <1>2, <1>7
  <2> QED BY <1>7, <1>10, <2>2, <2>4, <2>5
<1> QED BY <1>12, <1>13

-----------------------------------------------------------------------------
(* The seasonal detector turned round *)

SeasonPeriod(n) == Min({Period, Max({2, n \div 3})})
SeasonWidth(n) ==
  LET half == SeasonPeriod(n) \div 2 IN Max({3, IF half % 2 = 1 THEN half ELSE half + 1})
SeasonClasses(n) == (n \div SeasonPeriod(n)) * (n \div SeasonPeriod(n) + 1)

Moving(h, i) == MovingSum(h, i, SeasonWidth(Len(h)))
Detrended(h) == [i \in 1 .. Len(h) |-> SeasonWidth(Len(h)) * h[i] - Moving(h, i)]
SeasonMean(h) ==
  [i \in 1 .. Len(h) |->
     LET same == Phase(h, i, SeasonPeriod(Len(h)))
     IN  (SeasonClasses(Len(h)) \div Cardinality(same)) * Total(Detrended(h), same)]
SeasonResidual(h) ==
  [i \in 1 .. Len(h) |-> SeasonClasses(Len(h)) * Detrended(h)[i] - SeasonMean(h)[i]]
SeasonDeviation(h, c) ==
  LET n == Len(h) IN
  SeasonClasses(n) * SeasonWidth(n) * c - (SeasonClasses(n) * Moving(h, n) + SeasonMean(h)[n])

\* The definition with its parts named.
LEMMA SeasonalIs ==
  ASSUME NEW h, NEW c
  PROVE  Seasonal(h, c) = IF Len(h) < 2 * SeasonPeriod(Len(h)) THEN Quiet
                          ELSE SquaredZ(SeasonResidual(h), 1 .. Len(h), SeasonDeviation(h, c))
BY DEF Seasonal, SeasonPeriod, SeasonWidth, SeasonClasses, Moving, Detrended, SeasonMean,
       SeasonResidual, SeasonDeviation

LEMMA PairExtremes ==
  ASSUME NEW a \in Int, NEW b \in Int
  PROVE  /\ Max({a, b}) = IF a >= b THEN a ELSE b
         /\ Min({a, b}) = IF a <= b THEN a ELSE b
<1>1. Max({a, b}) = IF a >= b THEN a ELSE b
  <2> DEFINE m == IF a >= b THEN a ELSE b
  <2>1. m \in {a, b} /\ \A y \in {a, b} : m >= y
    OBVIOUS
  <2>2. \A x \in {a, b} : (\A y \in {a, b} : x >= y) => x = m
    OBVIOUS
  <2> HIDE DEF m
  <2>3. Max({a, b}) = m
    BY <2>1, <2>2 DEF Max
  <2> QED BY <2>3 DEF m
<1>2. Min({a, b}) = IF a <= b THEN a ELSE b
  <2> DEFINE m == IF a <= b THEN a ELSE b
  <2>1. m \in {a, b} /\ \A y \in {a, b} : m <= y
    OBVIOUS
  <2>2. \A x \in {a, b} : (\A y \in {a, b} : x <= y) => x = m
    OBVIOUS
  <2> HIDE DEF m
  <2>3. Min({a, b}) = m
    BY <2>1, <2>2 DEF Min
  <2> QED BY <2>3 DEF m
<1> QED BY <1>1, <1>2

LEMMA SeasonFacts ==
  ASSUME NEW n \in Nat
  PROVE  /\ SeasonPeriod(n) \in Nat /\ SeasonPeriod(n) >= 2
         /\ SeasonWidth(n) \in Int /\ SeasonClasses(n) \in Int
<1>1. n \div 3 \in Int /\ Period \in Nat /\ Period >= 2
  BY DetectorsAssumption
<1>2. Max({2, n \div 3}) \in Int /\ Max({2, n \div 3}) >= 2
  <2> DEFINE t == n \div 3
  <2> HIDE DEF t
  <2>1. t \in Int
    BY <1>1 DEF t
  <2>2. Max({2, t}) = IF 2 >= t THEN 2 ELSE t
    BY <2>1, PairExtremes
  <2> QED BY <2>1, <2>2 DEF t
<1>3. SeasonPeriod(n) \in Nat /\ SeasonPeriod(n) >= 2
  <2> DEFINE t == Max({2, n \div 3})
  <2> HIDE DEF t
  <2>1. Min({Period, t}) = IF Period <= t THEN Period ELSE t
    <3>1. t \in Int /\ Period \in Int
      BY <1>1, <1>2 DEF t
    <3> QED BY <3>1, PairExtremes
  <2> QED BY <1>1, <1>2, <2>1 DEF SeasonPeriod, t
<1> DEFINE p == SeasonPeriod(n)
<1> HIDE DEF p
<1>4. SeasonWidth(n) \in Int
  <2> DEFINE half == p \div 2  odd == IF half % 2 = 1 THEN half ELSE half + 1
  <2>1. half \in Int
    BY <1>3 DEF p
  <2> HIDE DEF half
  <2>2. odd \in Int
    BY <2>1
  <2>3. SeasonWidth(n) = Max({3, odd})
    BY DEF SeasonWidth, half, p
  <2> HIDE DEF odd
  <2>4. Max({3, odd}) = IF 3 >= odd THEN 3 ELSE odd
    BY <2>2, PairExtremes
  <2> QED BY <2>2, <2>3, <2>4
<1>5. SeasonClasses(n) \in Int
  <2> DEFINE q == n \div p
  <2>1. q \in Int
    BY <1>3 DEF p
  <2>2. SeasonClasses(n) = q * (q + 1)
    BY DEF SeasonClasses, p
  <2> HIDE DEF q
  <2> QED BY <2>1, <2>2
<1> QED BY <1>3, <1>4, <1>5

LEMMA TotalNegated ==
  ASSUME NEW S, IsFiniteSet(S), NEW f, NEW g, Integral(f, S), \A i \in S : g[i] = -f[i]
  PROVE  Total(g, S) = -Total(f, S) /\ Total(f, S) \in Int
<1> DEFINE a == -1  zero == 0
<1>1. Scales(g, S, a, f, zero)
  BY DEF Scales, Integral
<1> HIDE DEF a, zero
<1>2. Total(g, S) = a * Total(f, S) + zero * Cardinality(S) /\ Total(f, S) \in Int /\ Cardinality(S) \in Nat
  BY <1>1, TotalLinear
<1> QED BY <1>2 DEF a, zero

\* Trend, season and residuals of the negated series are the negated ones.
LEMMA SeasonalNegated ==
  ASSUME NEW g, NEW h, Restates(g, h, -1, 0), NEW c \in Int
  PROVE  Seasonal(g, -c) = Seasonal(h, c)
<1> DEFINE n == Len(h)  S == 1 .. n  p == SeasonPeriod(n)  w == SeasonWidth(n)  k == SeasonClasses(n)
<1>1. /\ g \in Seq(Int) /\ h \in Seq(Int) /\ Len(g) = n /\ DOMAIN g = S /\ DOMAIN h = S
      /\ \A i \in S : g[i] = -h[i] /\ h[i] \in Int
      /\ n \in Nat /\ IsFiniteSet(S)
  BY HistoryFacts DEF Restates, Integral
<1>2. p \in Nat /\ p >= 2 /\ w \in Int /\ k \in Int
  BY <1>1, SeasonFacts
<1>3. CASE n < 2 * p
  BY <1>1, <1>3, SeasonalIs
<1>4. CASE ~(n < 2 * p)
  <2>1. ASSUME NEW i \in S PROVE Moving(g, i) = -Moving(h, i) /\ Moving(h, i) \in Int
    <3> DEFINE near == {j \in S : Abs(j - i) <= w \div 2}
    <3>1. Moving(g, i) = Total(g, near) /\ Moving(h, i) = Total(h, near)
      BY <1>1 DEF Moving, MovingSum
    <3>2. near \in SUBSET S /\ IsFiniteSet(near)
      <4>1. near \in SUBSET S
        OBVIOUS
      <4> HIDE DEF near, S
      <4> QED BY <1>1, <4>1, FS_Subset
    <3>3. Integral(h, near) /\ \A j \in near : g[j] = -h[j]
      BY <1>1, <3>2 DEF Integral
    <3> HIDE DEF near
    <3> QED BY <3>1, <3>2, <3>3, TotalNegated
  <2>2. ASSUME NEW i \in S
        PROVE  /\ Detrended(g)[i] = -Detrended(h)[i] /\ Detrended(h)[i] \in Int
    <3>1. Detrended(g)[i] = w * g[i] - Moving(g, i) /\ Detrended(h)[i] = w * h[i] - Moving(h, i)
      BY <1>1 DEF Detrended
    <3> DEFINE x == h[i]  m == Moving(h, i)
    <3>2. x \in Int /\ m \in Int /\ g[i] = -x /\ Moving(g, i) = -m
      BY <1>1, <2>1
    <3> HIDE DEF x, m, w
    <3>3. w * (-x) - (-m) = -(w * x - m) /\ w * x - m \in Int
      BY <1>2, <3>2
    <3> QED BY <3>1, <3>2, <3>3 DEF x, m
  <2>3. ASSUME NEW i \in S
        PROVE  SeasonMean(g)[i] = -SeasonMean(h)[i] /\ SeasonMean(h)[i] \in Int
    <3> DEFINE same == {j \in S : (j - i) % p = 0}  share == k \div Cardinality(same)
               t == Total(Detrended(h), same)
    <3>1. Phase(g, i, p) = same /\ Phase(h, i, p) = same
      BY <1>1 DEF Phase
    <3>2. i \in same
      <4>1. i - i = 0 /\ 0 % p = 0
        BY <1>1, <1>2
      <4> HIDE DEF p, S
      <4> QED BY <4>1
    <3>3. same \in SUBSET S
      OBVIOUS
    <3> HIDE DEF same, S
    <3>4. IsFiniteSet(same) /\ Cardinality(same) \in Nat
      BY <1>1, <3>3, FS_Subset, FS_CardinalityType
    <3>5. Cardinality(same) >= 1
      <4>1. Cardinality(same) # 0
        BY <3>2, <3>4, FS_EmptySet
      <4> QED BY <3>4, <4>1
    <3>6. share \in Int
      <4> DEFINE q == Cardinality(same)
      <4> HIDE DEF q, k
      <4>1. k \div q \in Int
        BY <1>2, <3>4, <3>5 DEF q
      <4> QED BY <4>1 DEF q
    <3>7. Total(Detrended(g), same) = -t /\ t \in Int
      <4>1. Integral(Detrended(h), same) /\ \A j \in same : Detrended(g)[j] = -Detrended(h)[j]
        BY <2>2, <3>3 DEF Integral
      <4> QED BY <3>4, <4>1, TotalNegated
    <3>8. /\ SeasonMean(g)[i] = share * Total(Detrended(g), same)
          /\ SeasonMean(h)[i] = share * t
      BY <1>1, <3>1 DEF SeasonMean, S
    <3> HIDE DEF share, t
    <3>9. share * (-t) = -(share * t) /\ share * t \in Int
      BY <3>6, <3>7
    <3> QED BY <3>7, <3>8, <3>9
  <2> DEFINE rg == SeasonResidual(g)  rh == SeasonResidual(h)  a == -1  zero == 0
             dg == SeasonDeviation(g, -c)  dh == SeasonDeviation(h, c)
  <2>4. Scales(rg, S, a, rh, zero)
    <3>1. ASSUME NEW i \in S PROVE rg[i] = a * rh[i] + zero /\ rh[i] \in Int
      <4> DEFINE x == Detrended(h)[i]  m == SeasonMean(h)[i]
      <4>1. rh[i] = k * x - m /\ rg[i] = k * (-x) - (-m)
        BY <1>1, <2>2, <2>3 DEF SeasonResidual
      <4>2. x \in Int /\ m \in Int
        BY <2>2, <2>3
      <4> HIDE DEF x, m, rg, rh, k
      <4>3. k * (-x) - (-m) = -1 * (k * x - m) + 0 /\ k * x - m \in Int
        BY <1>2, <4>2
      <4> QED BY <4>1, <4>3
    <3> HIDE DEF rg, rh, S
    <3> QED BY <3>1 DEF Scales, Integral
  <2>5. dg = a * dh /\ dg \in Int /\ dh \in Int
    <3>1. n \in S
      BY <1>1, <1>2, <1>4
    <3> DEFINE x == Moving(h, n)  m == SeasonMean(h)[n]
    <3>2. x \in Int /\ m \in Int /\ Moving(g, n) = -x /\ SeasonMean(g)[n] = -m
      BY <2>1, <2>3, <3>1
    <3>3. dh = k * w * c - (k * x + m) /\ dg = k * w * (-c) - (k * (-x) + (-m))
      BY <1>1, <3>2 DEF SeasonDeviation
    <3> HIDE DEF x, m, k, w, dg, dh
    <3>4. /\ k * w * (-c) - (k * (-x) + (-m)) = -1 * (k * w * c - (k * x + m))
          /\ k * w * c - (k * x + m) \in Int /\ -1 * (k * w * c - (k * x + m)) \in Int
      BY <1>2, <3>2
    <3> QED BY <3>3, <3>4
  <2>6. SquaredZ(rg, S, dg) = SquaredZ(rh, S, dh)
    <3>1. a \in {1, -1}
      OBVIOUS
    <3> HIDE DEF a, zero, rg, rh, S, dg, dh
    <3> QED BY <1>1, <2>4, <2>5, <3>1, SquaredZMap
  <2>7. Seasonal(g, -c) = SquaredZ(rg, S, dg) /\ Seasonal(h, c) = SquaredZ(rh, S, dh)
    <3> HIDE DEF rg, rh, dg, dh
    <3> QED BY <1>1, <1>4, SeasonalIs DEF rg, rh, dg, dh
  <2> QED BY <2>6, <2>7
<1> QED BY <1>3, <1>4

-----------------------------------------------------------------------------
(* The windows *)

\* A window (redis_client.py:48-57) never has more than WindowSize values, all
\* of them reported ones.
THEOREM WindowsTypeCorrect == WindowSpec => []WindowTypeOK
<1>1. WindowInit => WindowTypeOK
  BY DetectorsAssumption DEF WindowInit, WindowTypeOK
<1>2. WindowTypeOK /\ [WindowNext]_window => WindowTypeOK'
  <2> SUFFICES ASSUME WindowTypeOK, [WindowNext]_window PROVE WindowTypeOK'
    OBVIOUS
  <2>1. CASE WindowNext
    <3>1. PICK v \in Values : Ingest(v)
      BY <2>1 DEF WindowNext
    <3> DEFINE w == Append(window, v)
    <3>2. /\ w \in Seq(Values) /\ Len(w) = Len(window) + 1 /\ Len(window) \in Nat
          /\ Len(window) <= WindowSize /\ WindowSize \in Nat
      BY DetectorsAssumption DEF WindowTypeOK
    <3>3. window' = IF Len(w) > WindowSize THEN Tail(w) ELSE w
      BY <3>1 DEF Ingest
    <3> HIDE DEF w
    <3>4. w # <<>>
      BY <3>2
    <3>5. Tail(w) \in Seq(Values) /\ Len(Tail(w)) = Len(w) - 1
      BY <3>2, <3>4
    <3> QED BY <3>2, <3>3, <3>5 DEF WindowTypeOK
  <2>2. CASE UNCHANGED window
    BY <2>2 DEF WindowTypeOK
  <2> QED BY <2>1, <2>2
<1> QED BY <1>1, <1>2, PTL DEF WindowSpec

\* All but the last value of a window are a history.
LEMMA FrontFacts ==
  ASSUME NEW w \in Seq(Int), Len(w) >= 1
  PROVE  /\ Front(w) \in Seq(Int) /\ Len(Front(w)) = Len(w) - 1
         /\ \A i \in 1 .. Len(w) - 1 : Front(w)[i] = w[i]
<1> DEFINE n == Len(w) - 1  f == SubSeq(w, 1, n)
<1>1. n \in Int /\ n >= 0 /\ \A i \in 1 .. n : w[i] \in Int
  <2>1. Len(w) \in Nat /\ \A i \in 1 .. Len(w) : w[i] \in Int
    BY HistoryFacts DEF Integral
  <2> QED BY <2>1
<1> HIDE DEF n
<1>2. /\ f \in Seq(Int) /\ Len(f) = (IF 1 <= n THEN n - 1 + 1 ELSE 0)
      /\ \A i \in 1 .. n - 1 + 1 : f[i] = w[1 + i - 1]
  BY <1>1, SubSeqProperties
<1> HIDE DEF f
<1>3. Len(f) = n
  BY <1>1, <1>2
<1>4. \A i \in 1 .. n : f[i] = w[i]
  <2> SUFFICES ASSUME NEW i \in 1 .. n PROVE f[i] = w[i]
    OBVIOUS
  <2>1. i \in 1 .. n - 1 + 1 /\ 1 + i - 1 = i
    BY <1>1
  <2> QED BY <1>2, <2>1
<1> QED BY <1>2, <1>3, <1>4 DEF f, n, Front

LEMMA ScoredFacts ==
  ASSUME WindowTypeOK, Scored
  PROVE  /\ window \in Seq(Int) /\ Len(window) \in Nat /\ Len(window) >= 1 /\ Len(window) <= WindowSize
         /\ History \in Seq(Int) /\ Len(History) = Len(window) - 1 /\ Current \in Int
         /\ \A i \in 1 .. Len(History) : History[i] = window[i]
         /\ Current = window[Len(window)]
<1>1. window \in Seq(Int) /\ Len(window) \in Nat /\ Len(window) <= WindowSize /\ window # <<>>
  <2>1. window \in Seq(Values) /\ Len(window) <= WindowSize /\ window # <<>> /\ Values \subseteq Int
    BY DetectorsAssumption DEF WindowTypeOK, Scored
  <2> QED BY <2>1, SeqMonotonic, LenProperties
<1>2. Len(window) >= 1
  BY <1>1
<1>3. Current = window[Len(window)] /\ Current \in Int
  BY <1>1, <1>2 DEF Current, Last
<1>4. /\ History \in Seq(Int) /\ Len(History) = Len(window) - 1
      /\ \A i \in 1 .. Len(History) : History[i] = window[i]
  BY <1>1, <1>2, FrontFacts DEF History
<1> QED BY <1>1, <1>2, <1>3, <1>4

\* What a window shows is what the lemmas about histories say.
LEMMA Absorbed == WindowTypeOK => LevelIsAbsorbed
<1> SUFFICES ASSUME WindowTypeOK, Scored
             PROVE  LET n == Len(History)  k == Copies IN
                    /\ IsAnomaly("zscore", History, Current)
                         => k * n * Sigma * Sigma < (n - k) * (n - 1)
                    /\ IsAnomaly("mad", History, Current) => 2 * k <= n
                    /\ IsAnomaly("ewma", History, Current)
                         => \E i \in n - Span + 1 .. n : History[i] # Current
  BY DEF LevelIsAbsorbed
<1> DEFINE h == History  c == Current
<1>1. h \in Seq(Int) /\ c \in Int /\ Len(h) <= WindowSize
  BY ScoredFacts, DetectorsAssumption
<1>2. Copies = Cardinality(Copy(h, c))
  BY DEF Copies, Copy
<1> HIDE DEF h, c
<1>3. IsAnomaly("zscore", h, c)
        => Copies * Len(h) * Sigma * Sigma < (Len(h) - Copies) * (Len(h) - 1)
  BY <1>1, <1>2, ZScoreAbsorbs
<1>4. IsAnomaly("mad", h, c) => 2 * Copies <= Len(h)
  BY <1>1, <1>2, MadAbsorbs
<1>5. IsAnomaly("ewma", h, c) => \E i \in Len(h) - Span + 1 .. Len(h) : h[i] # c
  BY <1>1, EwmaAbsorbs
<1> QED BY <1>3, <1>4, <1>5 DEF h, c

\* What a detector makes of a window it makes of the restated one too.
LEMMA SameZ ==
  ASSUME WindowTypeOK, Scored, NEW a \in {1, -1}, NEW b \in Int,
         NEW w, w = [i \in DOMAIN window |-> a * window[i] + b], NEW d \in Detectors,
         d = "seasonal" => a = -1 /\ b = 0
  PROVE  Severity(d, Front(w), Last(w)) = Severity(d, History, Current)
<1> DEFINE h == History  c == Current  g == Front(w)  e == Last(w)
<1>1. /\ window \in Seq(Int) /\ Len(window) \in Nat /\ Len(window) >= 1 /\ Len(window) <= WindowSize
      /\ h \in Seq(Int) /\ Len(h) = Len(window) - 1 /\ c \in Int
      /\ \A i \in 1 .. Len(h) : h[i] = window[i]
      /\ c = window[Len(window)] /\ WindowSize \in Nat
  BY ScoredFacts, DetectorsAssumption
<1> HIDE DEF h, c
<1>2. w \in Seq(Int) /\ Len(w) = Len(window) /\ \A i \in 1 .. Len(window) : w[i] = a * window[i] + b
  <2>1. \A i \in 1 .. Len(window) : window[i] \in Int /\ a * window[i] + b \in Int
    BY <1>1
  <2> DEFINE f == [i \in 1 .. Len(window) |-> a * window[i] + b]
  <2>2. f \in [1 .. Len(window) -> Int]
    BY <2>1
  <2>3. w = f
    BY <1>1
  <2>4. f \in Seq(Int) /\ Len(f) = Len(window)
    <3> DEFINE n == Len(window)
    <3>1. DOMAIN f = 1 .. n /\ n \in Nat /\ f \in [1 .. n -> Int]
      BY <1>1, <2>2
    <3> HIDE DEF f, n
    <3>2. f \in Seq(Int)
      BY <3>1, SeqDef
    <3>3. Len(f) = n
      BY <3>1, <3>2
    <3> QED BY <3>2, <3>3 DEF n
  <2> QED BY <2>3, <2>4
<1>3. e = a * c + b
  BY <1>1, <1>2 DEF Last
<1>4. Restates(g, h, a, b) /\ Len(h) <= WindowSize
  <2>1. Len(w) >= 1
    BY <1>1, <1>2
  <2>2. g \in Seq(Int) /\ Len(g) = Len(w) - 1 /\ \A i \in 1 .. Len(g) : g[i] = w[i]
    BY <1>2, <2>1, FrontFacts
  <2>3. \A i \in 1 .. Len(h) : i \in 1 .. Len(window) /\ i \in 1 .. Len(g)
    <3> HIDE DEF g
    <3> QED BY <1>1, <1>2, <2>2
  <2> HIDE DEF g
  <2>4. \A i \in 1 .. Len(h) : g[i] = a * h[i] + b
    BY <1>1, <1>2, <2>2, <2>3
  <2> QED BY <1>1, <1>2, <2>2, <2>4 DEF Restates
<1> HIDE DEF g, e
<1>5. Z(d, g, e) = Z(d, h, c)
  <2>1. CASE d = "zscore"
    BY <1>1, <1>3, <1>4, <2>1, ZScoreRestated DEF Z
  <2>2. CASE d = "mad"
    BY <1>1, <1>3, <1>4, <2>2, MadRestated DEF Z
  <2>3. CASE d = "ewma"
    BY <1>1, <1>3, <1>4, <2>3, EwmaDriftRestated DEF Z
  <2>4. CASE d = "seasonal"
    <3>1. e = -c /\ Restates(g, h, -1, 0)
      BY <1>1, <1>3, <1>4, <2>4
    <3>2. Seasonal(g, -c) = Seasonal(h, c)
      BY <1>1, <3>1, SeasonalNegated
    <3> QED BY <2>4, <3>1, <3>2 DEF Z
  <2> QED BY <2>1, <2>2, <2>3, <2>4 DEF Detectors
<1>6. Severity(d, g, e) = Severity(d, h, c)
  BY <1>5 DEF Severity, Scores, IsAnomaly
<1> QED BY <1>6 DEF g, e, h, c

\* The two changes are a = -1, b = 0 and a = 1, b = 1.
LEMMA Restated == WindowTypeOK => SameInSignAndOrigin
<1> SUFFICES ASSUME WindowTypeOK, Scored PROVE SameInSignAndOrigin
  BY DEF SameInSignAndOrigin
<1> DEFINE turned == [i \in DOMAIN window |-> -window[i]]
           moved == [i \in DOMAIN window |-> window[i] + 1]
           Same(d, w) == Severity(d, Front(w), Last(w)) = Severity(d, History, Current)
<1>0. \A i \in DOMAIN window : window[i] \in Int
  BY ScoredFacts
<1>1. \A d \in Detectors : Same(d, turned)
  <2> DEFINE a == -1  b == 0
  <2>1. turned = [i \in DOMAIN window |-> a * window[i] + b]
    BY <1>0
  <2>2. a \in {1, -1} /\ b \in Int /\ a = -1 /\ b = 0
    OBVIOUS
  <2> HIDE DEF a, b, turned
  <2> QED BY <2>1, <2>2, SameZ
<1>2. \A d \in Detectors \ {"seasonal"} : Same(d, moved)
  <2> DEFINE a == 1  b == 1
  <2>1. moved = [i \in DOMAIN window |-> a * window[i] + b]
    BY <1>0
  <2>2. a \in {1, -1} /\ b \in Int
    OBVIOUS
  <2> HIDE DEF a, b, moved
  <2> QED BY <2>1, <2>2, SameZ
<1> QED BY <1>1, <1>2 DEF SameInSignAndOrigin

\* Once a value has its share of the history - about 1 / (1 + Sigma^2) for
\* zscore.py:17, half for mad.py:29-33, the last Span values for ewma.py:36-43 -
\* it is not an anomaly, whatever the rest of the window is.
THEOREM LevelsAreAbsorbed == WindowSpec => []LevelIsAbsorbed
BY WindowsTypeCorrect, Absorbed, PTL

\* A metric that is reported with the other sign, or (but for seasonal.py:31)
\* from another origin, has the severities of base.py:27-34 it had before.
THEOREM SignAndOriginDoNotMatter == WindowSpec => []SameInSignAndOrigin
BY WindowsTypeCorrect, Restated, PTL
=============================================================================
