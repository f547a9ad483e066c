---------------------------- MODULE ListingProofs ----------------------------
(***************************************************************************)
(* Theorems about the paged lists and the reports, for any finite table,   *)
(* page size and number of days.                                           *)
(***************************************************************************)
EXTENDS Listing, FiniteSetTheorems, TLAPS

-----------------------------------------------------------------------------
(* The inductive invariant *)

\* What comes before row r in the order of the list, whatever the order of ties.
Newer(r) == {q \in Matching : created[q] > created[r]}

Asking == page \in Nat \ {0}

\* A client starts afresh, and asks for a page it counted the rows for.
Walking ==
  /\ page = 0 => ~left /\ ~came /\ \A r \in Rows : seen[r] = 0
  /\ counted # Pending => Asking
  /\ \A r \in Rows : seen[r] > 0 => place[r] # "absent"
  /\ steady \subseteq Matching

\* A row still to be given lies at or behind the next page.
Ahead ==
  /\ Asking /\ ~left => \A r \in steady :
       seen[r] > 0 \/ Tied(r) \/ Cardinality(Newer(r)) >= Offset(page)
  /\ NothingMissed

\* A row given already lies before the next page.
Behind ==
  /\ Asking /\ ~came => \A r \in Matching :
       seen[r] = 0 \/ Tied(r) \/ Cardinality(Newer(r)) < Offset(page)
  /\ NothingTwice

\* What a report has counted is still so unless a row moved, and today's rows
\* only grow in number.
Adding ==
  /\ report = "none" => ~moved /\ shown = NothingShown
  /\ shown[3] # Pending => shown[2] # Pending
  /\ shown[2] # Pending => shown[1] # Pending
  /\ ~moved => \A n \in 1 .. 3 : shown[n] # Pending => shown[n] = Cardinality(Part(n))
  /\ report = "overview" =>
       LET now == IF shown[3] = Pending THEN Cardinality(Counted) ELSE shown[3]
       IN  shown[1] <= now /\ shown[2] <= now

Inv == TypeOK /\ Walking /\ Ahead /\ Behind /\ Adding

-----------------------------------------------------------------------------
(* Facts about pages *)

LEMMA FiniteTable ==
  ASSUME NEW S, S \subseteq Rows
  PROVE  IsFiniteSet(S) /\ Cardinality(S) \in Nat
BY ListingAssumption, FS_Subset, FS_CardinalityType

LEMMA Monotone ==
  ASSUME NEW S, NEW T, S \subseteq T, T \subseteq Rows
  PROVE  Cardinality(S) <= Cardinality(T)
BY FiniteTable, FS_Subset

LEMMA DisjointUnion ==
  ASSUME NEW S, NEW T, S \subseteq Rows, T \subseteq Rows, S \cap T = {}
  PROVE  Cardinality(S \cup T) = Cardinality(S) + Cardinality(T)
<1>1. IsFiniteSet(S) /\ IsFiniteSet(T) /\ Cardinality(S) \in Nat /\ Cardinality(T) \in Nat
  BY FiniteTable
<1>2. Cardinality(S \cap T) = 0
  BY FS_EmptySet
<1>3. Cardinality(S \cup T) = Cardinality(S) + Cardinality(T) - Cardinality(S \cap T)
  BY <1>1, FS_Union
<1> QED BY <1>1, <1>2, <1>3

LEMMA OffsetFacts ==
  ASSUME NEW p \in Nat \ {0}
  PROVE  Offset(p) \in Nat /\ Offset(p + 1) = Offset(p) + Size /\ Size \in Nat \ {0}
<1>1. p - 1 \in Nat /\ Size \in Nat /\ Size \in Nat \ {0}
  BY ListingAssumption
<1>2. (p - 1) * Size \in Nat
  BY <1>1
<1>3. (p + 1 - 1) * Size = (p - 1) * Size + Size
  BY <1>1
<1> QED BY <1>1, <1>2, <1>3 DEF Offset

\* Where an untied row lies decides whether a page has it.
LEMMA PageFacts ==
  ASSUME TypeOK, NEW p \in Nat \ {0}, NEW items \in SUBSET Matching, IsPage(p, items),
         NEW r \in Matching, ~Tied(r)
  PROVE  /\ Cardinality(Newer(r)) >= Offset(p) /\ r \notin items =>
              Cardinality(items) = Size /\ Cardinality(Newer(r)) >= Offset(p + 1)
         /\ r \in items => /\ Cardinality(Newer(r)) >= Offset(p)
                           /\ Cardinality(Newer(r)) < Offset(p + 1)
<1> DEFINE o == Offset(p)
           m == Cardinality(Matching)
           n == Cardinality(Newer(r))
<1>1. PICK before \in SUBSET Matching :
        LET after == Matching \ (before \cup items) IN
        /\ Cardinality(before) = Least(o, m)
        /\ items \subseteq Matching \ before
        /\ Cardinality(items) = Least(Size, m - Cardinality(before))
        /\ \A b \in before, i \in items : created[b] >= created[i]
        /\ \A i \in before \cup items, a \in after : created[i] >= created[a]
  BY DEF IsPage
<1> DEFINE after == Matching \ (before \cup items)
           k == Cardinality(items)
           l == Cardinality(before)
<1>2. Matching \subseteq Rows /\ Newer(r) \subseteq Matching /\ r \in Rows /\ r \notin Newer(r)
  <2>1. Matching \subseteq Rows /\ r \in Rows
    BY DEF Matching
  <2>2. created[r] \in Int
    BY <2>1, ListingAssumption DEF TypeOK
  <2> QED BY <2>1, <2>2 DEF Newer
<1>3. o \in Nat /\ Offset(p + 1) = o + Size /\ Size \in Nat /\ m \in Nat /\ n \in Nat /\ k \in Nat /\ l \in Nat
  BY <1>2, OffsetFacts, FiniteTable
<1>4. l + k = Cardinality(before \cup items) /\ l + k <= m
  <2>1. Cardinality(before \cup items) = l + k
    BY <1>1, <1>2, DisjointUnion
  <2> QED BY <1>2, <2>1, Monotone
<1>5. \A q \in Matching : q # r => created[q] > created[r] \/ created[q] < created[r]
  <2>1. \A q \in Matching : q \in Rows /\ place[q] # "absent" /\ created[q] \in Int
    BY ListingAssumption DEF Matching, TypeOK
  <2> QED BY <1>2, <2>1 DEF Tied
<1>6. \A q \in Matching : created[q] \in Int
  BY ListingAssumption DEF Matching, TypeOK
<1>7. n + 1 = Cardinality(Newer(r) \cup {r})
  <2>1. Cardinality({r}) = 1
    BY FS_Singleton
  <2> QED BY <1>2, <2>1, DisjointUnion
<1>8. n < m
  <2>1. Newer(r) \cup {r} \subseteq Matching
    BY <1>2
  <2>2. n + 1 <= m
    BY <1>2, <1>7, <2>1, Monotone
  <2> QED BY <1>3, <2>2
<1>9. ASSUME n >= o, r \notin items PROVE k = Size /\ n >= Offset(p + 1)
  <2>1. l = o
    BY <1>1, <1>3, <1>8, <1>9 DEF Least
  <2>2. r \notin before
    <3> SUFFICES ASSUME r \in before PROVE FALSE
      OBVIOUS
    <3>1. Newer(r) \cup {r} \subseteq before
      BY <1>1, <1>5, <1>6 DEF Newer
    <3>2. n + 1 <= l
      BY <1>2, <1>7, <3>1, Monotone
    <3> QED BY <1>3, <1>9, <2>1, <3>2
  <2>3. before \cup items \subseteq Newer(r)
    BY <1>1, <1>5, <1>6, <1>9, <2>2 DEF Newer
  <2>4. l + k <= n
    BY <1>2, <1>4, <2>3, Monotone
  <2>5. k = Size
    BY <1>1, <1>3, <1>8, <2>4 DEF Least
  <2> QED BY <1>3, <2>1, <2>4, <2>5
<1>10. ASSUME r \in items PROVE n >= o /\ n < Offset(p + 1)
  <2>1. before \subseteq Newer(r)
    BY <1>1, <1>5, <1>6, <1>10 DEF Newer
  <2>2. l <= n
    BY <1>2, <2>1, Monotone
  <2>3. l = o
    BY <1>1, <1>3, <1>8, <2>2 DEF Least
  <2>4. Newer(r) \cup {r} \subseteq before \cup items
    BY <1>1, <1>6, <1>10 DEF Newer
  <2>5. n + 1 <= l + k
    BY <1>2, <1>4, <1>7, <2>4, Monotone
  <2>6. k <= Size
    BY <1>1, <1>3 DEF Least
  <2> QED BY <1>3, <2>2, <2>3, <2>5, <2>6
<1> QED BY <1>9, <1>10

-----------------------------------------------------------------------------
(* Typing and the walk *)

LEMMA InitInv == Init => Inv
<1> SUFFICES ASSUME Init PROVE Inv
  OBVIOUS
<1>1. TypeOK
  <2>1. 0 \in 0 .. Today /\ shown \in [1 .. 3 -> Nat \cup {Pending}]
    BY ListingAssumption DEF Init, NothingShown
  <2>2. place \in [Rows -> {"absent", "match", "other", "deleted"}]
    BY DEF Init
  <2>3. created \in [Rows -> 0 .. Today] /\ seen \in [Rows -> Nat]
    BY <2>1 DEF Init
  <2> QED BY <2>1, <2>2, <2>3 DEF Init, TypeOK
<1>2. Walking /\ Ahead /\ Behind
  BY DEF Init, Walking, Ahead, Behind, NothingMissed, NothingTwice, Asking, Pending, Done, Matching
<1>3. Adding
  <2>1. \A n \in 1 .. 3 : shown[n] = Pending
    BY DEF Init, NothingShown
  <2> QED BY <2>1 DEF Init, Adding
<1> QED BY <1>1, <1>2, <1>3 DEF Inv

LEMMA TypeStep == TypeOK /\ [Next]_vars => TypeOK'
<1> SUFFICES ASSUME TypeOK, [Next]_vars PROVE TypeOK'
  OBVIOUS
<1> USE ListingAssumption DEF TypeOK, table, client, listed, reporting
<1>1. ASSUME NEW r \in Rows, Store(r) PROVE TypeOK'
  BY <1>1 DEF Store
<1>2. ASSUME NEW r \in Rows, Enter(r) \/ Exit(r) \/ Delete(r) PROVE TypeOK'
  BY <1>2 DEF Enter, Exit, Delete
<1>3. CASE FirstPage
  BY <1>3 DEF FirstPage, Matching
<1>4. CASE Count
  <2>1. Cardinality(Matching) \in Nat
    BY FiniteTable DEF Matching
  <2> QED BY <1>4, <2>1 DEF Count
<1>5. CASE Fetch
  <2>1. PICK items \in SUBSET Matching :
          /\ seen' = [r \in Rows |-> IF r \in items THEN seen[r] + 1 ELSE seen[r]]
          /\ page' = IF Cardinality(items) = Size THEN page + 1 ELSE Done
    BY <1>5 DEF Fetch
  <2>2. page' \in Nat \cup {Done} /\ seen' \in [Rows -> Nat]
    BY <2>1 DEF Done
  <2> QED BY <1>5, <2>2 DEF Fetch
<1>6. CASE LeavesList
  BY <1>6 DEF LeavesList
<1>7. CASE ReportStarts \/ ReportEnds
  BY <1>7 DEF ReportStarts, ReportEnds, NothingShown
<1>8. ASSUME NEW n \in 1 .. 3, Statement(n) PROVE TypeOK'
  <2>1. Cardinality(Part(n)) \in Nat
    BY FiniteTable DEF Part, Counted, Stored
  <2> QED BY <1>8, <2>1 DEF Statement
<1>9. CASE UNCHANGED vars
  BY <1>9 DEF vars
<1> QED BY <1>1, <1>2, <1>3, <1>4, <1>5, <1>6, <1>7, <1>8, <1>9 DEF Next

LEMMA WalkingStep == TypeOK /\ Walking /\ [Next]_vars => Walking'
<1> SUFFICES ASSUME TypeOK, Walking, [Next]_vars PROVE Walking'
  OBVIOUS
<1> USE DEF TypeOK, Walking, Asking, Matching, table, client, listed, reporting
<1>1. ASSUME NEW r \in Rows, Store(r) PROVE Walking'
  BY <1>1 DEF Store
<1>2. ASSUME NEW r \in Rows, Enter(r) \/ Exit(r) \/ Delete(r) PROVE Walking'
  BY <1>2 DEF Enter, Exit, Delete
<1>3. CASE FirstPage \/ Count
  BY <1>3 DEF FirstPage, Count
<1>4. CASE Fetch
  <2>1. PICK items \in SUBSET Matching :
          /\ seen' = [r \in Rows |-> IF r \in items THEN seen[r] + 1 ELSE seen[r]]
          /\ page' = IF Cardinality(items) = Size THEN page + 1 ELSE Done
    BY <1>4 DEF Fetch
  <2>2. Asking /\ page' # 0 /\ counted' = Pending /\ place' = place /\ steady' = steady
    BY <1>4, <2>1 DEF Fetch, Done
  <2> QED BY <2>1, <2>2
<1>5. CASE LeavesList
  BY <1>5 DEF LeavesList, Done
<1>6. CASE ReportStarts \/ ReportEnds \/ (\E n \in 1 .. 3 : Statement(n)) \/ UNCHANGED vars
  BY <1>6 DEF ReportStarts, ReportEnds, Statement, vars
<1> QED BY <1>1, <1>2, <1>3, <1>4, <1>5, <1>6 DEF Next

-----------------------------------------------------------------------------
(* The list between two pages *)

\* A row that is stored keeps its time, so a tie stays one.
LEMMA TiesStay ==
  ASSUME TypeOK, [Next]_vars
  PROVE  /\ \A q \in Rows : place[q] # "absent" => place'[q] # "absent" /\ created'[q] = created[q]
         /\ \A r \in Rows : place[r] # "absent" /\ Tied(r) => Tied(r)'
<1> USE DEF TypeOK, table, client, listed, reporting
<1>1. ASSUME NEW q \in Rows, place[q] # "absent"
      PROVE  place'[q] # "absent" /\ created'[q] = created[q]
  <2>1. ASSUME NEW r \in Rows, Store(r) \/ Enter(r) \/ Exit(r) \/ Delete(r)
        PROVE  place'[q] # "absent" /\ created'[q] = created[q]
    BY <1>1, <2>1 DEF Store, Enter, Exit, Delete
  <2>2. CASE UNCHANGED table
    BY <1>1, <2>2
  <2> QED BY <2>1, <2>2 DEF Next, vars, FirstPage, Count, Fetch, LeavesList, ReportStarts,
                            ReportEnds, Statement
<1>2. ASSUME NEW r \in Rows, place[r] # "absent", Tied(r) PROVE Tied(r)'
  BY <1>1, <1>2 DEF Tied
<1> QED BY <1>1, <1>2

\* The table changes while a client is between two pages.
TableStep == \E r \in Rows : Store(r) \/ Enter(r) \/ Exit(r) \/ Delete(r)

\* Unless a row came to match, none is put before another; unless one stopped
\* to match, none before another goes.
LEMMA OrderMoves ==
  ASSUME TypeOK, TableStep, page # 0
  PROVE  /\ UNCHANGED client /\ steady' \subseteq steady
         /\ ~left' => ~left /\ \A r \in Matching : Newer(r) \subseteq Newer(r)'
         /\ ~came' => ~came /\ Matching' \subseteq Matching
                    /\ \A r \in Matching' : Newer(r)' \subseteq Newer(r)
<1> USE DEF TypeOK, client, reporting, Newer, Matching
<1>1. ASSUME NEW q \in Rows, Store(q)
      PROVE  /\ UNCHANGED client /\ steady' \subseteq steady
             /\ ~left' => ~left /\ \A r \in Matching : Newer(r) \subseteq Newer(r)'
             /\ ~came' => ~came /\ Matching' \subseteq Matching
                        /\ \A r \in Matching' : Newer(r)' \subseteq Newer(r)
  BY <1>1 DEF Store
<1>2. ASSUME NEW q \in Rows, Enter(q) \/ Exit(q) \/ Delete(q)
      PROVE  /\ UNCHANGED client /\ steady' \subseteq steady
             /\ ~left' => ~left /\ \A r \in Matching : Newer(r) \subseteq Newer(r)'
             /\ ~came' => ~came /\ Matching' \subseteq Matching
                        /\ \A r \in Matching' : Newer(r)' \subseteq Newer(r)
  BY <1>2 DEF Enter, Exit, Delete
<1> QED BY <1>1, <1>2 DEF TableStep

LEMMA NewerFacts ==
  ASSUME NEW r PROVE Newer(r) \subseteq Rows /\ Cardinality(Newer(r)) \in Nat
<1>1. Newer(r) \subseteq Rows
  BY DEF Newer, Matching
<1> QED BY <1>1, FiniteTable

\* A fetch in full, and what the client does with it.
LEMMA FetchFacts ==
  ASSUME TypeOK, Walking, Fetch
  PROVE  /\ Asking /\ UNCHANGED <<table, listed, reporting>>
         /\ \E items \in SUBSET Matching :
              /\ IsPage(page, items)
              /\ \A r \in Rows : seen'[r] = IF r \in items THEN seen[r] + 1 ELSE seen[r]
              /\ page' = IF Cardinality(items) = Size THEN page + 1 ELSE Done
         /\ \A r \in Rows : Newer(r)' = Newer(r) /\ (Tied(r)' <=> Tied(r))
<1>1. Asking /\ UNCHANGED <<table, listed, reporting>>
  BY DEF Fetch, Walking
<1>2. PICK items \in SUBSET Matching :
        /\ IsPage(page, items)
        /\ seen' = [r \in Rows |-> IF r \in items THEN seen[r] + 1 ELSE seen[r]]
        /\ page' = IF Cardinality(items) = Size THEN page + 1 ELSE Done
  BY DEF Fetch
<1>3. \A r \in Rows : seen'[r] = IF r \in items THEN seen[r] + 1 ELSE seen[r]
  BY <1>2
<1> QED BY <1>1, <1>2, <1>3 DEF Newer, Matching, Tied, table

LEMMA AheadStep == TypeOK /\ Walking /\ Ahead /\ [Next]_vars => Ahead'
<1> SUFFICES ASSUME TypeOK, Walking, Ahead, [Next]_vars PROVE Ahead'
  OBVIOUS
<1> USE DEF table, client, listed, reporting
<1>1. CASE TableStep
  <2>1. CASE page = 0
    <3>1. page' = 0
      BY <1>1, <2>1 DEF TableStep, Store, Enter, Exit, Delete
    <3> QED BY <3>1 DEF Ahead, NothingMissed, Asking, Done
  <2>2. CASE page # 0
    <3> SUFFICES ASSUME ~left', NEW r \in steady'
                 PROVE  /\ Asking => \/ seen[r] > 0 \/ Tied(r)'
                                     \/ Cardinality(Newer(r)') >= Offset(page)
                        /\ page = Done => seen[r] > 0 \/ Tied(r)'
      BY <1>1, <2>2, OrderMoves DEF Ahead, NothingMissed, Asking, Offset
    <3>1. r \in steady /\ r \in Matching /\ r \in Rows /\ place[r] # "absent" /\ ~left
      BY <1>1, <2>2, OrderMoves DEF Walking, Matching
    <3>2. Tied(r) => Tied(r)'
      BY <3>1, TiesStay
    <3>3. Cardinality(Newer(r)) <= Cardinality(Newer(r)')
      <4>1. Newer(r) \subseteq Newer(r)' /\ Newer(r)' \subseteq Rows
        BY <1>1, <2>2, <3>1, OrderMoves DEF Newer, Matching
      <4> QED BY <4>1, Monotone
    <3>4. /\ Asking => seen[r] > 0 \/ Tied(r) \/ Cardinality(Newer(r)) >= Offset(page)
          /\ page = Done => seen[r] > 0 \/ Tied(r)
      BY <3>1 DEF Ahead, NothingMissed
    <3>5. Asking => Offset(page) \in Nat
      BY OffsetFacts DEF Asking
    <3>6. Cardinality(Newer(r)) \in Nat /\ Cardinality(Newer(r)') \in Nat
      <4>1. Newer(r) \subseteq Rows /\ Newer(r)' \subseteq Rows
        BY DEF Newer, Matching
      <4> QED BY <4>1, FiniteTable
    <3> QED BY <3>2, <3>3, <3>4, <3>5, <3>6
  <2> QED BY <2>1, <2>2
<1>2. CASE FirstPage
  <2>1. page' = 1
    BY <1>2 DEF FirstPage
  <2>2. Offset(1) = 0
    BY ListingAssumption DEF Offset
  <2>3. \A r : Cardinality(Newer(r))' \in Nat
    <3>1. \A r : Newer(r)' \subseteq Rows
      BY DEF Newer, Matching
    <3> QED BY <3>1, FiniteTable
  <2>4. \A r : Cardinality(Newer(r))' >= Offset(page)'
    BY <2>1, <2>2, <2>3 DEF Offset
  <2> QED BY <2>1, <2>4 DEF Ahead, NothingMissed, Done
<1>3. CASE Fetch
  <2>1. PICK items \in SUBSET Matching :
          /\ IsPage(page, items)
          /\ \A r \in Rows : seen'[r] = IF r \in items THEN seen[r] + 1 ELSE seen[r]
          /\ page' = IF Cardinality(items) = Size THEN page + 1 ELSE Done
    BY <1>3, FetchFacts
  <2>2. /\ Asking /\ UNCHANGED <<table, listed, reporting>>
        /\ \A r \in Rows : Newer(r)' = Newer(r) /\ (Tied(r)' <=> Tied(r))
    BY <1>3, FetchFacts
  <2>3. ASSUME ~left, NEW r \in steady, ~(seen'[r] > 0), ~Tied(r)
        PROVE  page' = page + 1 /\ Cardinality(Newer(r)) >= Offset(page + 1)
    <3>1. r \in Matching /\ r \in Rows /\ seen[r] \in Nat /\ page \in Nat \ {0}
      BY <2>2 DEF Walking, Matching, TypeOK, Asking
    <3>2. r \notin items /\ ~(seen[r] > 0)
      BY <2>1, <2>3, <3>1
    <3>3. Cardinality(Newer(r)) >= Offset(page)
      BY <2>2, <2>3, <3>2 DEF Ahead
    <3>4. Cardinality(items) = Size /\ Cardinality(Newer(r)) >= Offset(page + 1)
      BY <2>1, <2>3, <3>1, <3>2, <3>3, PageFacts
    <3> QED BY <2>1, <3>4
  <2>4. page + 1 # Done
    BY <2>2 DEF Asking, Done
  <2>5. \A r \in steady : r \in Rows
    BY DEF TypeOK
  <2> QED BY <2>2, <2>3, <2>4, <2>5 DEF Ahead, NothingMissed, Offset
<1>4. CASE LeavesList
  BY <1>4 DEF LeavesList, Ahead, NothingMissed
<1>5. CASE UNCHANGED <<table, page, seen, listed>>
  BY <1>5 DEF Ahead, NothingMissed, Tied, Newer, Matching, Asking, Offset
<1>6. Count \/ ReportStarts \/ ReportEnds \/ (\E n \in 1 .. 3 : Statement(n)) \/ UNCHANGED vars
        => UNCHANGED <<table, page, seen, listed>>
  BY DEF Count, ReportStarts, ReportEnds, Statement, vars
<1> QED BY <1>1, <1>2, <1>3, <1>4, <1>5, <1>6 DEF Next, TableStep

LEMMA BehindStep == TypeOK /\ Walking /\ Behind /\ [Next]_vars => Behind'
<1> SUFFICES ASSUME TypeOK, Walking, Behind, [Next]_vars PROVE Behind'
  OBVIOUS
<1> USE DEF table, client, listed, reporting
<1>1. CASE TableStep
  <2>1. CASE page = 0
    <3>1. page' = 0 /\ seen' = seen
      BY <1>1, <2>1 DEF TableStep, Store, Enter, Exit, Delete
    <3> QED BY <2>1, <3>1 DEF Behind, NothingTwice, Asking, Walking
  <2>2. CASE page # 0
    <3> SUFFICES ASSUME ~came'
                 PROVE  /\ Asking => \A r \in Matching' :
                             \/ seen[r] = 0 \/ Tied(r)'
                             \/ Cardinality(Newer(r)') < Offset(page)
                        /\ \A r \in Rows : seen[r] <= 1 \/ Tied(r)'
      BY <1>1, <2>2, OrderMoves DEF Behind, NothingTwice, Asking, Offset
    <3>1. ~came
      BY <1>1, <2>2, OrderMoves
    <3>2. ASSUME NEW r \in Rows PROVE seen[r] <= 1 \/ Tied(r)'
      <4>1. seen[r] \in Nat /\ (seen[r] <= 1 \/ Tied(r)) /\ (seen[r] > 0 => place[r] # "absent")
        BY <3>1 DEF Behind, NothingTwice, TypeOK, Walking
      <4> QED BY <4>1, TiesStay
    <3>3. ASSUME Asking, NEW r \in Matching'
          PROVE  seen[r] = 0 \/ Tied(r)' \/ Cardinality(Newer(r)') < Offset(page)
      <4>1. r \in Matching /\ r \in Rows /\ place[r] # "absent"
        BY <1>1, <2>2, <3>3, OrderMoves DEF Matching
      <4>2. Tied(r) => Tied(r)'
        BY <4>1, TiesStay
      <4>3. Newer(r)' \subseteq Newer(r) /\ Newer(r) \subseteq Rows /\ Newer(r)' \subseteq Rows
        BY <1>1, <2>2, <3>3, OrderMoves DEF Newer, Matching
      <4>4. /\ Cardinality(Newer(r)') <= Cardinality(Newer(r))
            /\ Cardinality(Newer(r)') \in Nat /\ Cardinality(Newer(r)) \in Nat
        BY <4>3, Monotone, FiniteTable
      <4>5. Offset(page) \in Nat
        BY <3>3, OffsetFacts DEF Asking
      <4>6. seen[r] = 0 \/ Tied(r) \/ Cardinality(Newer(r)) < Offset(page)
        BY <3>1, <3>3, <4>1 DEF Behind
      <4> QED BY <4>2, <4>4, <4>5, <4>6
    <3> QED BY <3>2, <3>3
  <2> QED BY <2>1, <2>2
<1>2. CASE FirstPage
  BY <1>2 DEF FirstPage, Behind, NothingTwice, Walking, Matching
<1>3. CASE Fetch
  <2>1. PICK items \in SUBSET Matching :
          /\ IsPage(page, items)
          /\ \A r \in Rows : seen'[r] = IF r \in items THEN seen[r] + 1 ELSE seen[r]
          /\ page' = IF Cardinality(items) = Size THEN page + 1 ELSE Done
    BY <1>3, FetchFacts
  <2>2. /\ Asking /\ UNCHANGED <<table, listed, reporting>>
        /\ \A r \in Rows : Newer(r)' = Newer(r) /\ (Tied(r)' <=> Tied(r))
    BY <1>3, FetchFacts
  <2>3. /\ page \in Nat \ {0} /\ Offset(page) \in Nat /\ Offset(page + 1) \in Nat
        /\ Offset(page) <= Offset(page + 1)
    BY <2>2, OffsetFacts DEF Asking
  <2>4. ASSUME ~came, NEW r \in Matching, ~Tied(r), seen'[r] # 0
        PROVE  Cardinality(Newer(r)) < Offset(page + 1)
    <3>1. r \in Rows /\ seen[r] \in Nat /\ Cardinality(Newer(r)) \in Nat
      BY NewerFacts DEF Matching, TypeOK
    <3>2. CASE r \in items
      BY <2>1, <2>3, <2>4, <3>2, PageFacts
    <3>3. CASE r \notin items
      <4>1. Cardinality(Newer(r)) < Offset(page)
        BY <2>1, <2>2, <2>4, <3>1, <3>3 DEF Behind
      <4> QED BY <2>3, <3>1, <4>1
    <3> QED BY <3>2, <3>3
  <2>5. ASSUME ~came, NEW r \in Rows, ~Tied(r) PROVE seen'[r] <= 1
    <3>1. seen[r] \in Nat /\ seen[r] <= 1 /\ Cardinality(Newer(r)) \in Nat
      BY <2>5, NewerFacts DEF Behind, NothingTwice, TypeOK
    <3>2. CASE r \in items
      <4>1. Cardinality(Newer(r)) >= Offset(page) /\ r \in Matching
        BY <2>1, <2>3, <2>5, <3>2, PageFacts
      <4>2. seen[r] = 0
        BY <2>2, <2>3, <2>5, <3>1, <4>1 DEF Behind
      <4> QED BY <2>1, <3>2, <4>2
    <3>3. CASE r \notin items
      BY <2>1, <3>1, <3>3
    <3> QED BY <3>2, <3>3
  <2>6. Asking' => page' = page + 1
    BY <2>1 DEF Asking, Done
  <2>7. Matching' = Matching
    BY <2>2 DEF Matching
  <2>8. \A r \in Matching : r \in Rows
    BY DEF Matching
  <2> QED BY <2>2, <2>4, <2>5, <2>6, <2>7, <2>8 DEF Behind, NothingTwice, Offset
<1>4. CASE LeavesList
  BY <1>4 DEF LeavesList, Behind, NothingTwice, Asking
<1>5. CASE UNCHANGED <<table, page, seen, listed>>
  BY <1>5 DEF Behind, NothingTwice, Tied, Newer, Matching, Asking, Offset
<1>6. Count \/ ReportStarts \/ ReportEnds \/ (\E n \in 1 .. 3 : Statement(n)) \/ UNCHANGED vars
        => UNCHANGED <<table, page, seen, listed>>
  BY DEF Count, ReportStarts, ReportEnds, Statement, vars
<1> QED BY <1>1, <1>2, <1>3, <1>4, <1>5, <1>6 DEF Next, TableStep

-----------------------------------------------------------------------------
(* Reports *)

LEMMA AddingStep == TypeOK /\ Adding /\ [Next]_vars => Adding'
<1> SUFFICES ASSUME TypeOK, Adding, [Next]_vars PROVE Adding'
  OBVIOUS
<1> USE DEF table, client, listed, reporting
<1>1. /\ \A n \in 1 .. 3 : shown[n] \in Nat \/ shown[n] = Pending
      /\ Cardinality(Counted) \in Nat /\ Cardinality(Counted)' \in Nat
      /\ Counted \subseteq Rows /\ Counted' \subseteq Rows
  <2>1. Counted \subseteq Rows /\ Counted' \subseteq Rows
    BY DEF Counted, Stored
  <2> QED BY <2>1, FiniteTable DEF TypeOK
<1>2. ASSUME NEW r \in Rows, Store(r) \/ Delete(r) PROVE Adding'
  <2>1. UNCHANGED <<report, shown>> /\ moved' = (report # "none")
    BY <1>2 DEF Store, Delete
  <2>2. report = "overview" => Counted \subseteq Counted'
    BY <1>2, <2>1 DEF Store, Delete, Deletable, Counted, Stored, TypeOK
  <2>3. report = "overview" => Cardinality(Counted) <= Cardinality(Counted')
    BY <1>1, <2>2, Monotone
  <2>4. report = "none" => \A n \in 1 .. 3 : shown[n] = Pending
    BY DEF Adding, NothingShown
  <2>5. report = "overview" =>
          LET now == IF shown[3] = Pending THEN Cardinality(Counted') ELSE shown[3]
          IN  shown[1] <= now /\ shown[2] <= now
    <3> SUFFICES ASSUME report = "overview"
                 PROVE  LET now == IF shown[3] = Pending THEN Cardinality(Counted') ELSE shown[3]
                        IN  shown[1] <= now /\ shown[2] <= now
      OBVIOUS
    <3>1. CASE shown[3] = Pending
      <4>1. shown[1] <= Cardinality(Counted) /\ shown[2] <= Cardinality(Counted)
        BY <3>1 DEF Adding
      <4> QED BY <1>1, <2>3, <3>1, <4>1 DEF Pending
    <3>2. CASE shown[3] # Pending
      BY <3>2 DEF Adding
    <3> QED BY <3>1, <3>2
  <2>6. ~moved' => \A n \in 1 .. 3 : shown[n] = Pending
    BY <2>1, <2>4
  <2> QED BY <2>1, <2>5, <2>6 DEF Adding
<1>3. ASSUME NEW r \in Rows, Enter(r) \/ Exit(r) PROVE Adding'
  <2>1. UNCHANGED <<report, shown, moved>> /\ Stored' = Stored /\ created' = created
    BY <1>3 DEF Enter, Exit, Stored, TypeOK
  <2> QED BY <2>1 DEF Adding, Part, Counted
<1>4. CASE ReportStarts
  <2>1. \A n \in 1 .. 3 : shown'[n] = Pending
    BY <1>4 DEF ReportStarts, Adding, NothingShown
  <2> QED BY <1>1, <1>4, <2>1 DEF ReportStarts, Adding, Pending
<1>5. ASSUME NEW n \in 1 .. 3, Statement(n) PROVE Adding'
  <2>1. /\ UNCHANGED <<table, report, moved>> /\ report # "none" /\ shown[n] = Pending
        /\ \A m \in 1 .. n - 1 : shown[m] # Pending
        /\ shown' = [shown EXCEPT ![n] = Cardinality(Part(n))]
    BY <1>5 DEF Statement
  <2>2. Counted' = Counted /\ \A m \in 1 .. 3 : Part(m)' = Part(m)
    BY <2>1 DEF Part, Counted, Stored
  <2>3. Part(n) \subseteq Counted
    BY DEF Part
  <2>4. Cardinality(Part(n)) <= Cardinality(Counted) /\ Cardinality(Part(n)) \in Nat
    BY <1>1, <2>3, Monotone, FiniteTable
  <2>5. \A m \in 1 .. 3 : shown'[m] = IF m = n THEN Cardinality(Part(n)) ELSE shown[m]
    BY <2>1 DEF TypeOK
  <2>6. ~moved' => \A m \in 1 .. 3 : shown'[m] # Pending => shown'[m] = Cardinality(Part(m)')
    BY <2>1, <2>2, <2>5 DEF Adding
  <2>7. n = 3 => Part(n) = Counted
    BY DEF Part
  <2>8. n = 3 => shown[1] # Pending /\ shown[2] # Pending
    BY <2>1
  <2>9. n = 2 => shown[1] # Pending
    BY <2>1
  <2>10. n # 3 => shown[3] = Pending
    BY <2>1 DEF Adding
  <2>11. n = 1 => shown[2] = Pending
    BY <2>1 DEF Adding
  <2>12. n = 1 \/ n = 2 \/ n = 3
    OBVIOUS
  <2>13. report = "overview" =>
           LET now == IF shown'[3] = Pending THEN Cardinality(Counted') ELSE shown'[3]
           IN  shown'[1] <= now /\ shown'[2] <= now
    <3> SUFFICES ASSUME report = "overview"
                 PROVE  LET now == IF shown'[3] = Pending THEN Cardinality(Counted') ELSE shown'[3]
                        IN  shown'[1] <= now /\ shown'[2] <= now
      OBVIOUS
    <3>1. shown[3] = Pending /\ shown[1] <= Cardinality(Counted) /\ shown[2] <= Cardinality(Counted)
      BY <2>1, <2>10, <2>12 DEF Adding
    <3>2. shown'[1] <= Cardinality(Counted) /\ shown'[2] <= Cardinality(Counted)
      BY <1>1, <2>4, <2>5, <3>1
    <3>3. shown'[3] # Pending => shown'[3] = Cardinality(Counted)
      BY <2>5, <2>7, <3>1
    <3> QED BY <2>2, <3>2, <3>3
  <2>14. /\ shown'[3] # Pending => shown'[2] # Pending
         /\ shown'[2] # Pending => shown'[1] # Pending
    BY <2>4, <2>5, <2>8, <2>9, <2>10, <2>11, <2>12 DEF Adding, Pending
  <2> QED BY <2>1, <2>6, <2>13, <2>14 DEF Adding
<1>6. CASE ReportEnds
  <2>1. \A n \in 1 .. 3 : shown'[n] = Pending
    BY <1>6 DEF ReportEnds, NothingShown
  <2> QED BY <1>6, <2>1 DEF ReportEnds, Adding
<1>7. CASE UNCHANGED <<table, reporting>>
  BY <1>7 DEF Adding, Part, Counted, Stored
<1>8. FirstPage \/ Count \/ Fetch \/ LeavesList \/ UNCHANGED vars => UNCHANGED <<table, reporting>>
  BY DEF FirstPage, Count, Fetch, LeavesList, vars
<1> QED BY <1>2, <1>3, <1>4, <1>5, <1>6, <1>7, <1>8 DEF Next

-----------------------------------------------------------------------------
(* The theorems *)

LEMMA InvCorrect == Spec => []Inv
<1>1. Inv /\ [Next]_vars => Inv'
  BY TypeStep, WalkingStep, AheadStep, BehindStep, AddingStep DEF Inv
<1> QED BY <1>1, InitInv, PTL DEF Spec

\* Type correctness, of which it matters that the page asked for is a page, and
\* that what a report shows are counts.
THEOREM TypeCorrect == Spec => []TypeOK
<1>1. Inv => TypeOK
  BY DEF Inv
<1> QED BY <1>1, InvCorrect, PTL

\* A client that pages to the end with OFFSET and LIMIT was given every untied
\* row that matched all along, if no row stopped matching meanwhile.
THEOREM PagesMissNothing == Spec => []NothingMissed
<1>1. Inv => NothingMissed
  BY DEF Inv, Ahead
<1> QED BY <1>1, InvCorrect, PTL

\* It is given no untied row twice, if no row came to match meanwhile.
THEOREM PagesRepeatNothing == Spec => []NothingTwice
<1>1. Inv => NothingTwice
  BY DEF Inv, Behind
<1> QED BY <1>1, InvCorrect, PTL

\* The counts of get_stats and of the overview agree as far as rows stored or
\* deleted between their statements allow.
THEOREM ReportsAgreeAlways == Spec => []ReportsAgree
<1>1. ASSUME Inv PROVE ReportsAgree
  <2> SUFFICES ASSUME shown[3] # Pending PROVE ReportsAgree
    BY DEF ReportsAgree
  <2>1. shown[1] # Pending /\ shown[2] # Pending /\ report # "none"
    BY <1>1 DEF Inv, Adding, NothingShown
  <2>2. ~moved => \A n \in {1, 2, 3} : shown[n] = Cardinality(Part(n))
    BY <1>1, <2>1 DEF Inv, Adding
  <2>3. Part(1) = Counted /\ Part(3) = Counted /\ (report = "stats" => Part(2) = Counted)
    BY DEF Part
  <2>4. report = "overview" => shown[1] <= shown[3] /\ shown[2] <= shown[3]
    BY <1>1 DEF Inv, Adding
  <2> QED BY <2>2, <2>3, <2>4 DEF ReportsAgree
<1> QED BY <1>1, InvCorrect, PTL
=============================================================================
