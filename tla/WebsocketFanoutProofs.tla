------------------------ MODULE WebsocketFanoutProofs ------------------------
(***************************************************************************)
(* Theorems about the two ConnectionManagers, for any clients, tasks,      *)
(* filters and number of messages: a broadcast reaches everybody it should *)
(* exactly once, and execution events arrive in order.                     *)
(***************************************************************************)
EXTENDS WebsocketFanout, SequenceTheorems, FiniteSetTheorems, TLAPS

-----------------------------------------------------------------------------
(* The inductive invariant *)

Registered(c) == route[c] \in {"receiving", "done"}

Occurs(x, s) == \E i \in DOMAIN s : s[i] = x

Distinct(s) == \A i, j \in DOMAIN s : s[i] = s[j] => i = j

\* A client is nowhere before connect registered it, and nobody whose socket
\* is open leaves the list.
Connected ==
  /\ Distinct(connections)
  /\ \A i \in DOMAIN connections : Registered(connections[i])
  /\ \A c \in Clients : Registered(c) /\ up[c] => Occurs(c, connections)
  /\ \A c \in Clients : ~Registered(c) => got[c] = <<>>
  /\ \A e \in Events : \A c \in audience[e] : Registered(c)

\* A broadcast goes over distinct clients; if it goes over the list itself,
\* over what the list is now; and those it gave up are gone.
Iterating ==
  \A b \in Tasks :
    /\ Distinct(list[b])
    /\ \A i \in DOMAIN list[b] : Registered(list[b][i])
    /\ live[b] => list[b] = connections
    /\ ~Idle(b) => at[b] \in DOMAIN list[b] /\ Wants(Client(b), msg[b])
    /\ \A c \in dead[b] : ~up[c] /\ Registered(c)

\* The messages whose broadcast began, or will never begin.
Taken == published - Len(inbox)

\* Messages are numbered in the order they are published, and no two
\* broadcasts are about the same one.
Numbered ==
  /\ Len(inbox) <= published
  /\ \A i \in DOMAIN inbox : inbox[i] = Taken + i
  /\ ~listening \/ manager = "alerts" => inbox = <<>>
  /\ \A b \in Tasks : msg[b] <= Taken
  /\ \A a, b \in Tasks : msg[a] = msg[b] /\ ~Idle(a) => a = b
  /\ \A e \in Events : e > Taken => audience[e] = {} /\ \A c \in Clients : ~Occurs(e, got[c])

\* A client is sent a message when the iteration passes it, and not before.
Passing ==
  \A b \in Tasks : ~Idle(b) =>
    /\ \A c \in audience[msg[b]] : Occurs(c, list[b])
    /\ \A i \in DOMAIN list[b] :
         /\ i >= at[b] => ~Occurs(msg[b], got[list[b][i]])
         /\ i < at[b] /\ Wants(list[b][i], msg[b]) /\ up[list[b][i]]
              => Occurs(msg[b], got[list[b][i]])

Received ==
  /\ \A c \in Clients :
       /\ Distinct(got[c])
       /\ \A e \in Events : Occurs(e, got[c]) => Wants(c, e)
  /\ \A e \in Events : (\A b \in Tasks : msg[b] # e) =>
       \A c \in audience[e] : Wants(c, e) /\ up[c] => Occurs(e, got[c])

\* Of the execution events one is broadcast at a time, over a copy of the list,
\* and who is connected has the last one, or is about to be sent it.
Listening ==
  manager = "executions" =>
    /\ \A b \in Tasks : ~live[b]
    /\ \A b \in Tasks : ~Idle(b) =>
         listening /\ msg[b] = Taken /\ \A a \in Tasks : ~Idle(a) => a = b
    /\ \A c \in Clients : up[c] /\ listening /\ got[c] # <<>> =>
         \/ got[c][Len(got[c])] = Taken
         \/ /\ got[c][Len(got[c])] = Taken - 1
            /\ \E b \in Tasks : /\ ~Idle(b)
                                /\ \E i \in DOMAIN list[b] : i >= at[b] /\ list[b][i] = c

Inv == TypeOK /\ Connected /\ Iterating /\ Numbered /\ Passing /\ Received /\ Listening /\ EventsInOrder

-----------------------------------------------------------------------------
(* Induction over numbers, with a set in place of a predicate *)

Less == {p \in Nat \X Nat : p[1] < p[2]}

LEMMA LessIsWellFounded == IsWellFoundedOn(Less, Nat)
BY NatLessThanWellFounded DEF OpToRel, Less

LEMMA MinOfSet ==
  ASSUME NEW S \in SUBSET Nat, S # {}
  PROVE  Min(S) \in S /\ \A n \in S : Min(S) <= n
<1>1. PICK m \in S : \A n \in S : <<n, m>> \notin Less
  BY LessIsWellFounded, WFMin
<1>2. ASSUME NEW n \in S PROVE m <= n
  <2>1. m \in Nat /\ n \in Nat /\ <<n, m>> \in Nat \X Nat
    OBVIOUS
  <2>2. ~(n < m)
    BY <1>1, <2>1 DEF Less
  <2> QED BY <2>1, <2>2
<1> QED BY <1>1, <1>2 DEF Min

LEMMA SetInduction ==
  ASSUME NEW S \in SUBSET Nat, 0 \in S, \A n \in S : n + 1 \in S
  PROVE  S = Nat
<1> DEFINE T == Nat \ S
<1> SUFFICES ASSUME T # {} PROVE FALSE
  OBVIOUS
<1>1. Min(T) \in T /\ \A n \in T : Min(T) <= n
  BY MinOfSet
<1>2. Min(T) - 1 \in Nat /\ Min(T) - 1 \notin T
  BY <1>1
<1> QED BY <1>1, <1>2

\* A function defined along the numbers exists.
Follows(f, base, N, step) == f[0] = base /\ \A i \in 1 .. N : f[i] = step[i][f[i - 1]]

LEMMA Recursion ==
  ASSUME NEW V, NEW base \in V, NEW N \in Nat, NEW step \in [1 .. N -> [V -> V]]
  PROVE  \E f \in [0 .. N -> V] : Follows(f, base, N, step)
<1> DEFINE Def(n, f) == f[0] = base /\ \A i \in 1 .. n : f[i] = step[i][f[i - 1]]
           S == {n \in Nat : n <= N => \E f \in [0 .. n -> V] : Def(n, f)}
<1>1. 0 \in S
  <2>1. [i \in 0 .. 0 |-> base] \in [0 .. 0 -> V] /\ Def(0, [i \in 0 .. 0 |-> base])
    OBVIOUS
  <2> QED BY <2>1
<1>2. ASSUME NEW n \in S PROVE n + 1 \in S
  <2> SUFFICES ASSUME n + 1 <= N PROVE \E f \in [0 .. n + 1 -> V] : Def(n + 1, f)
    BY <1>2
  <2>1. PICK f \in [0 .. n -> V] : Def(n, f)
    BY <1>2
  <2> DEFINE g == [i \in 0 .. n + 1 |-> IF i = n + 1 THEN step[i][f[n]] ELSE f[i]]
  <2>2. f[n] \in V /\ step[n + 1][f[n]] \in V
    BY <1>2
  <2>3. g \in [0 .. n + 1 -> V]
    BY <2>2
  <2>4. Def(n + 1, g)
    <3>1. g[0] = base
      BY <1>2, <2>1
    <3>2. ASSUME NEW i \in 1 .. n + 1 PROVE g[i] = step[i][g[i - 1]]
      <4>1. CASE i = n + 1
        BY <1>2, <4>1
      <4>2. CASE i # n + 1
        <5>1. i \in 1 .. n /\ i - 1 \in 0 .. n /\ i - 1 # n + 1
          BY <1>2, <4>2
        <5> QED BY <5>1, <4>2, <2>1
      <4> QED BY <4>1, <4>2
    <3> QED BY <3>1, <3>2
  <2> QED BY <2>3, <2>4
<1>3. N \in S
  <2> HIDE DEF S
  <2>1. S \in SUBSET Nat
    BY DEF S
  <2> QED BY <1>1, <1>2, <2>1, SetInduction
<1>4. PICK f \in [0 .. N -> V] : Def(N, f)
  BY <1>3
<1> QED BY <1>4 DEF Follows

-----------------------------------------------------------------------------
(* Lists of clients *)

LEMMA AppendFacts ==
  ASSUME NEW V, NEW s \in Seq(V), NEW x \in V
  PROVE  /\ Append(s, x) \in Seq(V)
         /\ Len(Append(s, x)) = Len(s) + 1
         /\ \A i \in 1 .. Len(s) : Append(s, x)[i] = s[i]
         /\ Append(s, x)[Len(s) + 1] = x
         /\ \A y : Occurs(y, Append(s, x)) <=> Occurs(y, s) \/ y = x
         /\ Distinct(s) /\ ~Occurs(x, s) => Distinct(Append(s, x))
<1> DEFINE t == Append(s, x)  N == Len(s)
<1>1. N \in Nat /\ DOMAIN s = 1 .. N
  OBVIOUS
<1>2. /\ t \in Seq(V) /\ Len(t) = N + 1 /\ DOMAIN t = 1 .. N + 1
      /\ \A i \in 1 .. N : t[i] = s[i]
      /\ t[N + 1] = x
  OBVIOUS
<1> HIDE DEF t, N
<1>3. \A i \in 1 .. N + 1 : i \in 1 .. N \/ i = N + 1
  BY <1>1
<1>4. ASSUME NEW y PROVE Occurs(y, t) <=> Occurs(y, s) \/ y = x
  <2>1. CASE Occurs(y, s)
    <3>1. PICK i \in 1 .. N : s[i] = y
      BY <1>1, <2>1 DEF Occurs
    <3>2. i \in 1 .. N + 1 /\ t[i] = y
      BY <1>1, <1>2, <3>1
    <3> QED BY <1>2, <2>1, <3>2 DEF Occurs
  <2>2. CASE y = x
    <3>1. N + 1 \in 1 .. N + 1
      BY <1>1
    <3> QED BY <1>2, <2>2, <3>1 DEF Occurs
  <2>3. ASSUME Occurs(y, t) PROVE Occurs(y, s) \/ y = x
    BY <1>1, <1>2, <1>3, <2>3 DEF Occurs
  <2> QED BY <2>1, <2>2, <2>3
<1>5. ASSUME Distinct(s), ~Occurs(x, s) PROVE Distinct(t)
  BY <1>1, <1>2, <1>3, <1>5 DEF Distinct, Occurs
<1> QED BY <1>2, <1>4, <1>5 DEF t, N

Kept(s, S, N) ==
  [n \in 1 .. N |-> [t \in Seq(Clients) |-> IF s[n] \in S THEN t ELSE Append(t, s[n])]]

\* What disconnect leaves: the same clients but those in S, each still once.
LEMMA WithoutFacts ==
  ASSUME NEW s \in Seq(Clients), Distinct(s), NEW S
  PROVE  /\ Without(s, S) \in Seq(Clients)
         /\ Distinct(Without(s, S))
         /\ \A c : Occurs(c, Without(s, S)) <=> Occurs(c, s) /\ c \notin S
<1> DEFINE N == Len(s)
           kept == CHOOSE f : f = [i \in 0 .. N |->
                     IF i = 0 THEN <<>>
                     ELSE IF s[i] \in S THEN f[i - 1] ELSE Append(f[i - 1], s[i])]
           Part(n, t) == \A c : Occurs(c, t) <=> c \notin S /\ \E i \in 1 .. n : s[i] = c
           Good(n) == kept[n] \in Seq(Clients) /\ Distinct(kept[n]) /\ Part(n, kept[n])
           P == {n \in Nat : n <= N => Good(n)}
<1>1. N \in Nat /\ s \in [1 .. N -> Clients] /\ DOMAIN s = 1 .. N
  OBVIOUS
<1>2. kept = [i \in 0 .. N |->
                IF i = 0 THEN <<>>
                ELSE IF s[i] \in S THEN kept[i - 1] ELSE Append(kept[i - 1], s[i])]
  <2>1. Kept(s, S, N) \in [1 .. N -> [Seq(Clients) -> Seq(Clients)]]
    BY <1>1 DEF Kept
  <2>2. <<>> \in Seq(Clients)
    OBVIOUS
  <2> DEFINE V == Seq(Clients)  K == Kept(s, S, N)
  <2>3. PICK f \in [0 .. N -> V] : f[0] = <<>> /\ \A i \in 1 .. N : f[i] = K[i][f[i - 1]]
    <3> DEFINE base == <<>>
    <3>1. base \in V /\ K \in [1 .. N -> [V -> V]]
      BY <2>1
    <3> HIDE DEF N, V, K, base
    <3>2. \E f \in [0 .. N -> V] : Follows(f, base, N, K)
      BY <1>1, <3>1, Recursion
    <3> QED BY <3>2 DEF base, Follows
  <2>4. ASSUME NEW i \in 1 .. N
        PROVE  f[i] = IF s[i] \in S THEN f[i - 1] ELSE Append(f[i - 1], s[i])
    <3> HIDE DEF V, N
    <3>1. i - 1 \in 0 .. N /\ f[i - 1] \in V
      BY <1>1
    <3> QED BY <2>3, <3>1 DEF Kept, V
  <2>5. f = [i \in 0 .. N |->
               IF i = 0 THEN <<>>
               ELSE IF s[i] \in S THEN f[i - 1] ELSE Append(f[i - 1], s[i])]
    <3>1. \A i \in 0 .. N : i # 0 => i \in 1 .. N
      BY <1>1
    <3> HIDE DEF N, V, K
    <3> QED BY <2>3, <2>4, <3>1
  <2> HIDE DEF N
  <2> QED BY <2>5
<1> HIDE DEF kept
<1>3. 0 \in P
  BY <1>1, <1>2 DEF Distinct, Occurs
<1>4. ASSUME NEW n \in P PROVE n + 1 \in P
  <2> SUFFICES ASSUME n + 1 <= N PROVE Good(n + 1)
    BY <1>4
  <2>1. n \in Nat /\ n \in 0 .. N /\ n + 1 \in 0 .. N /\ n + 1 # 0 /\ (n + 1) - 1 = n
    BY <1>1
  <2>2. Good(n)
    <3>1. n <= N
      BY <1>1, <2>1
    <3> HIDE DEF Good, N
    <3> QED BY <1>4, <3>1
  <2>3. kept[n + 1] = IF s[n + 1] \in S THEN kept[n] ELSE Append(kept[n], s[n + 1])
    <3> HIDE DEF N, P, Part
    <3> QED BY <1>2, <2>1
  <2>4. s[n + 1] \in Clients /\ \A i \in 1 .. n : s[i] # s[n + 1]
    BY <1>1, <2>1 DEF Distinct
  <2>5. \A c : (\E i \in 1 .. n + 1 : s[i] = c) <=> (\E i \in 1 .. n : s[i] = c) \/ c = s[n + 1]
    <3>1. \A i \in 1 .. n + 1 : i \in 1 .. n \/ i = n + 1
      BY <2>1
    <3>2. n + 1 \in 1 .. n + 1 /\ \A i \in 1 .. n : i \in 1 .. n + 1
      BY <2>1
    <3> HIDE DEF N, P, Part
    <3> QED BY <3>1, <3>2
  <2>6. CASE s[n + 1] \in S
    <3> HIDE DEF N, P
    <3> QED BY <2>2, <2>3, <2>5, <2>6
  <2>7. CASE s[n + 1] \notin S
    <3>1. ~Occurs(s[n + 1], kept[n])
      BY <2>2, <2>4
    <3>2. Append(kept[n], s[n + 1]) \in Seq(Clients) /\ Distinct(Append(kept[n], s[n + 1]))
      BY <2>2, <2>4, <3>1, AppendFacts
    <3>3. \A c : Occurs(c, Append(kept[n], s[n + 1])) <=> Occurs(c, kept[n]) \/ c = s[n + 1]
      BY <2>2, <2>4, AppendFacts
    <3> HIDE DEF N, P
    <3> QED BY <2>2, <2>3, <2>5, <2>7, <3>2, <3>3
  <2> QED BY <2>6, <2>7
<1>5. N \in P
  <2> HIDE DEF P
  <2>1. P \in SUBSET Nat
    BY DEF P
  <2> QED BY <1>1, <1>3, <1>4, <2>1, SetInduction
<1>6. Without(s, S) = kept[N]
  BY DEF Without, kept
<1>7. Good(N)
  <2>1. N <= N
    BY <1>1
  <2> HIDE DEF N, Good
  <2> QED BY <1>5, <2>1
<1>8. \A c : (\E i \in 1 .. N : s[i] = c) <=> Occurs(c, s)
  BY <1>1 DEF Occurs
<1> QED BY <1>6, <1>7, <1>8

\* list(self._connections), and the copy of the dictionary's items.
LEMMA CopyFacts ==
  ASSUME NEW s \in Seq(Clients), NEW t \in SetToSeqs(ToSet(s))
  PROVE  t \in Seq(Clients) /\ Distinct(t) /\ \A c : Occurs(c, t) <=> Occurs(c, s)
<1> DEFINE N == Len(s)  S == ToSet(s)  D == 1 .. Cardinality(S)
<1>1. N \in Nat /\ s \in [1 .. N -> Clients] /\ DOMAIN s = 1 .. N
  OBVIOUS
<1>2. S = {s[i] : i \in 1 .. N}
  BY <1>1 DEF ToSet
<1>3. s \in Surjection(1 .. N, S)
  BY <1>1, <1>2 DEF Surjection
<1>4. IsFiniteSet(S) /\ Cardinality(S) \in Nat
  <2>1. IsFiniteSet(1 .. N)
    BY <1>1, FS_Interval
  <2> HIDE DEF S, N
  <2>2. IsFiniteSet(S)
    BY <1>3, <2>1, FS_Surjection
  <2> QED BY <2>2, FS_CardinalityType
<1>5. t \in [D -> S] /\ \A i, j \in D : i # j => t[i] # t[j]
  BY DEF SetToSeqs
<1>6. S \subseteq Clients
  BY <1>1, <1>2
<1>7. t \in Seq(Clients) /\ DOMAIN t = D
  <2> HIDE DEF S
  <2> QED BY <1>4, <1>5, <1>6
<1>8. t \in Surjection(D, S)
  <2> HIDE DEF S
  <2>1. IsFiniteSet(D) /\ Cardinality(D) = Cardinality(S)
    BY <1>4, FS_Interval
  <2>2. t \in Injection(D, S)
    BY <1>5 DEF Injection, IsInjective
  <2> HIDE DEF D
  <2> QED BY <1>4, <2>1, <2>2, FS_Injection
<1>9. ASSUME NEW c PROVE Occurs(c, t) <=> Occurs(c, s)
  <2>1. Occurs(c, t) <=> c \in S
    <3> HIDE DEF S, D
    <3> QED BY <1>5, <1>7, <1>8 DEF Occurs, Surjection
  <2>2. Occurs(c, s) <=> c \in S
    BY <1>1, <1>2 DEF Occurs
  <2> QED BY <2>1, <2>2
<1>10. Distinct(t)
  <2> HIDE DEF S, D
  <2> QED BY <1>5, <1>7 DEF Distinct
<1> QED BY <1>7, <1>9, <1>10

LEMMA LaterFacts ==
  ASSUME NEW s \in Seq(Clients), NEW i \in Nat, NEW e, Later(s, i, e) # {}
  PROVE  /\ Min(Later(s, i, e)) \in 1 .. Len(s)
         /\ Min(Later(s, i, e)) > i
         /\ Wants(s[Min(Later(s, i, e))], e)
         /\ \A j \in DOMAIN s : j > i /\ Wants(s[j], e) => Min(Later(s, i, e)) <= j
<1>1. Later(s, i, e) \in SUBSET Nat
  BY DEF Later
<1>2. /\ Min(Later(s, i, e)) \in Later(s, i, e)
      /\ \A j \in Later(s, i, e) : Min(Later(s, i, e)) <= j
  BY <1>1, MinOfSet
<1> QED BY <1>2 DEF Later

-----------------------------------------------------------------------------
(* Typing *)

LEMMA TypeInit == Init => TypeOK
BY FanoutAssumption DEF Init, TypeOK

\* What the steps of a broadcast do to the lists of one that is under way.
LEMMA BeginType ==
  ASSUME TypeOK, NEW b \in Tasks, NEW e \in Events, NEW s \in Seq(Clients),
         NEW shared \in BOOLEAN, Begin(b, e, s, shared)
  PROVE  /\ msg' \in [Tasks -> Events \cup {0}]
         /\ list' \in [Tasks -> Seq(Clients)]
         /\ live' \in [Tasks -> BOOLEAN]
         /\ dead' = dead
         /\ at' \in [Tasks -> Nat] /\ \A a \in Tasks : at'[a] <= Len(list'[a])
         /\ audience' \in [Events -> SUBSET Clients]
<1>1. ToSet(connections) \subseteq Clients
  BY DEF ToSet, TypeOK
<1>2. CASE Later(s, 0, e) = {}
  BY <1>1, <1>2 DEF Begin, TypeOK, broadcasts
<1>3. CASE Later(s, 0, e) # {}
  <2>1. Min(Later(s, 0, e)) \in 1 .. Len(s)
    BY <1>3, LaterFacts
  <2>2. Min(Later(s, 0, e)) \in Nat /\ Min(Later(s, 0, e)) <= Len(s)
    BY <2>1
  <2> QED BY <1>1, <1>3, <2>2 DEF Begin, TypeOK
<1> QED BY <1>2, <1>3

LEMMA SentType ==
  ASSUME TypeOK, Distinct(connections), NEW b \in Tasks, NEW failed \in SUBSET Clients,
         Sent(b, failed)
  PROVE  /\ connections' \in Seq(Clients)
         /\ msg' \in [Tasks -> Events \cup {0}]
         /\ list' \in [Tasks -> Seq(Clients)]
         /\ live' \in [Tasks -> BOOLEAN]
         /\ dead' \in [Tasks -> SUBSET Clients]
         /\ at' \in [Tasks -> Nat] /\ \A a \in Tasks : at'[a] <= Len(list'[a])
<1>1. CASE Exhausted(b, failed)
  <2>1. Finish(b, failed)
    BY <1>1 DEF Sent
  <2>2. connections' \in Seq(Clients)
    BY <2>1, WithoutFacts DEF Finish, TypeOK
  <2>3. list' \in [Tasks -> Seq(Clients)]
    BY <2>1 DEF Finish, TypeOK
  <2>4. msg' \in [Tasks -> Events \cup {0}]
    BY <2>1 DEF Finish, TypeOK
  <2>5. live' \in [Tasks -> BOOLEAN]
    BY <2>1 DEF Finish, TypeOK
  <2>6. dead' \in [Tasks -> SUBSET Clients]
    BY <2>1 DEF Finish, TypeOK
  <2>7. at' \in [Tasks -> Nat]
    BY <2>1 DEF Finish, TypeOK
  <2>8. ASSUME NEW a \in Tasks PROVE at'[a] <= Len(list'[a])
    <3>1. Len(<<>>) = 0 /\ 0 <= 0
      OBVIOUS
    <3> QED BY <2>1, <3>1 DEF Finish, TypeOK
  <2> QED BY <2>2, <2>3, <2>4, <2>5, <2>6, <2>7, <2>8
<1>2. CASE ~Exhausted(b, failed)
  <2>1. list[b] \in Seq(Clients) /\ at[b] \in Nat
    BY DEF TypeOK
  <2>2. NextAt(b) \in 1 .. Len(list[b])
    BY <1>2, <2>1, LaterFacts DEF Exhausted, NextAt
  <2>3. NextAt(b) \in Nat /\ NextAt(b) <= Len(list[b])
    BY <2>1, <2>2
  <2> QED BY <1>2, <2>3 DEF Sent, Continue, TypeOK
<1> QED BY <1>1, <1>2

LEMMA ClientFacts ==
  ASSUME TypeOK, Iterating, NEW b \in Tasks, ~Idle(b)
  PROVE  /\ Client(b) \in Clients /\ Registered(Client(b)) /\ Wants(Client(b), msg[b])
         /\ msg[b] \in Events /\ msg[b] \in Nat
         /\ at[b] \in DOMAIN list[b] /\ at[b] \in Nat /\ list[b] \in Seq(Clients)
BY FanoutAssumption DEF TypeOK, Iterating, Client, Idle, Events

LEMMA ActionTypes ==
  ASSUME TypeOK, NEW b \in Tasks
  PROVE  /\ Alert(b) => published + 1 \in Events
         /\ Take(b) => Head(inbox) \in Events /\ inbox[1] = Head(inbox) /\ 1 \in DOMAIN inbox
         /\ Publish => published + 1 \in Events
<1>1. published < MaxEvents => published + 1 \in Events
  BY FanoutAssumption DEF TypeOK, Events
<1>2. ASSUME Take(b)
      PROVE  Head(inbox) \in Events /\ inbox[1] = Head(inbox) /\ 1 \in DOMAIN inbox
  <2>1. inbox \in Seq(Events) /\ inbox # <<>>
    BY <1>2 DEF Take, TypeOK
  <2>2. Len(inbox) \in Nat \ {0} /\ Head(inbox) \in Events
    BY <2>1, EmptySeq, HeadTailProperties
  <2> QED BY <2>1, <2>2
<1> QED BY <1>1, <1>2 DEF Alert, Publish

LEMMA TypeStep == TypeOK /\ Connected /\ Iterating /\ [Next]_vars => TypeOK'
<1> SUFFICES ASSUME TypeOK, Connected, Iterating, [Next]_vars PROVE TypeOK'
  OBVIOUS
<1> USE DEF clients, broadcasts, feed, history
<1>1. ASSUME NEW c \in Clients, Accept(c) PROVE TypeOK'
  BY <1>1 DEF Accept, Go, TypeOK
<1>2. ASSUME NEW c \in Clients, Register(c) PROVE TypeOK'
  <2>1. Append(connections, c) \in Seq(Clients)
    BY DEF TypeOK
  <2>2. \A b \in Tasks : /\ Append(list[b], c) \in Seq(Clients)
                         /\ Len(Append(list[b], c)) = Len(list[b]) + 1
                         /\ Len(list[b]) \in Nat
    BY DEF TypeOK
  <2>3. list' \in [Tasks -> Seq(Clients)] /\ \A b \in Tasks : at[b] <= Len(list'[b])
    BY <1>2, <2>2 DEF Register, TypeOK
  <2> QED BY <1>2, <2>1, <2>3 DEF Register, Go, TypeOK
<1>3. ASSUME NEW c \in Clients, Close(c) PROVE TypeOK'
  BY <1>3 DEF Close, TypeOK
<1>4. ASSUME NEW c \in Clients, Notice(c) PROVE TypeOK'
  <2>1. connections' \in Seq(Clients)
    BY <1>4, WithoutFacts DEF Notice, TypeOK, Connected
  <2> QED BY <1>4, <2>1 DEF Notice, Go, TypeOK
<1>5. ASSUME NEW c \in Clients, HandlerRaises(c) PROVE TypeOK'
  BY <1>5 DEF HandlerRaises, Go, TypeOK
<1>6. ASSUME NEW b \in Tasks, Alert(b) PROVE TypeOK'
  <2>1. published + 1 \in Events
    BY <1>6, ActionTypes
  <2>3. published' \in 0 .. MaxEvents
    BY <1>6, FanoutAssumption DEF Alert, TypeOK
  <2>2. Begin(b, published + 1, connections, TRUE) /\ connections \in Seq(Clients)
    BY <1>6 DEF Alert, TypeOK
  <2> QED BY <1>6, <2>1, <2>2, <2>3, BeginType DEF Alert, TypeOK
<1>7. ASSUME NEW b \in Tasks, Take(b) PROVE TypeOK'
  <2>1. PICK s \in SetToSeqs(ToSet(connections)) : Begin(b, Head(inbox), s, FALSE)
    BY <1>7 DEF Take
  <2>2. s \in Seq(Clients)
    BY CopyFacts DEF TypeOK
  <2>3. Head(inbox) \in Events /\ Tail(inbox) \in Seq(Events)
    BY <1>7, HeadTailProperties DEF Take, TypeOK
  <2> QED BY <1>7, <2>1, <2>2, <2>3, BeginType DEF Take, TypeOK
<1>8. ASSUME NEW b \in Tasks, Deliver(b) PROVE TypeOK'
  <2>1. Sent(b, dead[b]) /\ dead[b] \in SUBSET Clients
    BY <1>8 DEF Deliver, TypeOK
  <2>2. got' \in [Clients -> Seq(Events)]
    <3>1. Append(got[Client(b)], msg[b]) \in Seq(Events)
      BY <1>8, ClientFacts DEF Deliver, TypeOK
    <3> QED BY <1>8, <3>1 DEF Deliver, TypeOK
  <2> QED BY <2>1, <2>2, SentType DEF Sent, TypeOK, Connected
<1>9. ASSUME NEW b \in Tasks, SendFails(b) PROVE TypeOK'
  <2>1. Sent(b, dead[b] \cup {Client(b)}) /\ dead[b] \cup {Client(b)} \in SUBSET Clients
    BY <1>9, ClientFacts DEF SendFails, TypeOK
  <2> QED BY <1>9, <2>1, SentType DEF SendFails, Sent, TypeOK, Connected
<1>10. CASE Publish
  <2>1. Append(inbox, published + 1) \in Seq(Events)
    <3>1. published + 1 \in Events
      BY <1>10, FanoutAssumption DEF Publish, TypeOK, Events
    <3> QED BY <3>1 DEF TypeOK
  <2>2. published' \in 0 .. MaxEvents
    BY <1>10, FanoutAssumption DEF Publish, TypeOK
  <2>3. inbox' \in Seq(Events)
    BY <1>10, <2>1 DEF Publish, TypeOK
  <2>4. UNCHANGED <<manager, clients, connections, broadcasts, listening, history>>
    BY <1>10 DEF Publish
  <2>5. at' \in [Tasks -> Nat] /\ \A b \in Tasks : at'[b] <= Len(list'[b])
    BY <2>4 DEF TypeOK
  <2> QED BY <2>2, <2>3, <2>4, <2>5 DEF TypeOK
<1>11. CASE ListenerEnds
  <2>1. inbox' \in Seq(Events) /\ listening' \in BOOLEAN
    <3>1. inbox' = <<>> /\ listening' = FALSE
      BY <1>11 DEF ListenerEnds
    <3>2. <<>> \in Seq(Events)
      BY EmptySeq
    <3> QED BY <3>1, <3>2
  <2>2. UNCHANGED <<manager, clients, connections, broadcasts, published, history>>
    BY <1>11 DEF ListenerEnds
  <2>3. at' \in [Tasks -> Nat] /\ \A b \in Tasks : at'[b] <= Len(list'[b])
    BY <2>2 DEF TypeOK
  <2> QED BY <2>1, <2>2, <2>3 DEF TypeOK
<1>12. CASE UNCHANGED vars
  BY <1>12 DEF vars, TypeOK
<1> QED BY <1>1, <1>2, <1>3, <1>4, <1>5, <1>6, <1>7, <1>8, <1>9, <1>10, <1>11, <1>12
     DEF Next, Handle, Broadcast

-----------------------------------------------------------------------------
(* What a step of a broadcast does, client by client *)

LEMMA BeginEffect ==
  ASSUME TypeOK, NEW b \in Tasks, NEW e \in Events, NEW s \in Seq(Clients),
         NEW shared \in BOOLEAN, Begin(b, e, s, shared)
  PROVE  /\ audience' = [audience EXCEPT ![e] = ToSet(connections)]
         /\ \A a \in Tasks : a # b =>
              /\ msg'[a] = msg[a] /\ list'[a] = list[a] /\ at'[a] = at[a]
              /\ live'[a] = live[a]
         /\ dead' = dead
         /\ \/ /\ \A j \in DOMAIN s : ~Wants(s[j], e)
               /\ UNCHANGED broadcasts
            \/ /\ msg'[b] = e /\ list'[b] = s /\ live'[b] = shared
               /\ at'[b] \in DOMAIN s /\ Wants(s[at'[b]], e)
               /\ \A j \in DOMAIN s : j < at'[b] => ~Wants(s[j], e)
<1>1. audience' = [audience EXCEPT ![e] = ToSet(connections)] /\ Len(s) \in Nat /\ DOMAIN s = 1 .. Len(s)
  BY DEF Begin
<1>2. CASE Later(s, 0, e) = {}
  <2>1. UNCHANGED broadcasts
    BY <1>2 DEF Begin
  <2>2. \A j \in DOMAIN s : ~Wants(s[j], e)
    BY <1>1, <1>2 DEF Later
  <2> QED BY <1>1, <2>1, <2>2 DEF broadcasts
<1>3. CASE Later(s, 0, e) # {}
  <2> DEFINE m == Min(Later(s, 0, e))
  <2>1. m \in 1 .. Len(s) /\ Wants(s[m], e)
    BY <1>3, LaterFacts
  <2>2. \A j \in DOMAIN s : j > 0 /\ Wants(s[j], e) => m <= j
    BY <1>3, LaterFacts
  <2>3. \A j \in DOMAIN s : j < m => ~Wants(s[j], e)
    BY <1>1, <2>1, <2>2
  <2>4. /\ msg' = [msg EXCEPT ![b] = e] /\ list' = [list EXCEPT ![b] = s]
        /\ at' = [at EXCEPT ![b] = m] /\ live' = [live EXCEPT ![b] = shared] /\ dead' = dead
    BY <1>3 DEF Begin
  <2> HIDE DEF m
  <2> QED BY <1>1, <2>1, <2>3, <2>4 DEF TypeOK
<1> QED BY <1>2, <1>3

LEMMA SentEffect ==
  ASSUME TypeOK, Connected, NEW b \in Tasks, NEW failed \in SUBSET Clients, Sent(b, failed)
  PROVE  /\ UNCHANGED <<manager, clients, feed, audience>>
         /\ \A a \in Tasks : a # b =>
              /\ msg'[a] = msg[a] /\ list'[a] = list[a] /\ at'[a] = at[a] /\ dead'[a] = dead[a]
         /\ Distinct(connections') /\ \A c : Occurs(c, connections') => Occurs(c, connections)
         /\ \A c : Occurs(c, connections) /\ c \notin failed => Occurs(c, connections')
         /\ \A a \in Tasks : live'[a] => live[a] /\ connections' = connections
         /\ \/ /\ msg'[b] = 0 /\ list'[b] = <<>> /\ ~live'[b] /\ dead'[b] = {}
               /\ \A j \in DOMAIN list[b] : j > at[b] => ~Wants(list[b][j], msg[b])
            \/ /\ msg'[b] = msg[b] /\ list'[b] = list[b] /\ dead'[b] = failed
               /\ at'[b] \in DOMAIN list[b] /\ at'[b] > at[b] /\ Wants(list[b][at'[b]], msg[b])
               /\ \A j \in DOMAIN list[b] : j > at[b] /\ j < at'[b] => ~Wants(list[b][j], msg[b])
<1>1. /\ list[b] \in Seq(Clients) /\ at[b] \in Nat /\ Len(list[b]) \in Nat
      /\ DOMAIN list[b] = 1 .. Len(list[b])
  BY DEF TypeOK
<1>2. CASE Exhausted(b, failed)
  <2>1. Finish(b, failed)
    BY <1>2 DEF Sent
  <2>2. \A j \in DOMAIN list[b] : j > at[b] => ~Wants(list[b][j], msg[b])
    BY <1>2 DEF Exhausted, Later
  <2>3. CASE failed = {}
    <3>1. connections' = connections /\ live' = [live EXCEPT ![b] = FALSE]
      BY <2>1, <2>3 DEF Finish
    <3> QED BY <2>1, <2>2, <2>3, <3>1 DEF Finish, TypeOK, Connected, Sent
  <2>4. CASE failed # {}
    <3>1. connections' = Without(connections, failed) /\ live' = [a \in Tasks |-> FALSE]
      BY <2>1, <2>4 DEF Finish
    <3>2. /\ Distinct(connections')
          /\ \A c : Occurs(c, connections') <=> Occurs(c, connections) /\ c \notin failed
      BY <3>1, WithoutFacts DEF TypeOK, Connected
    <3> QED BY <2>1, <2>2, <3>1, <3>2 DEF Finish, TypeOK, Sent
  <2> QED BY <2>3, <2>4
<1>3. CASE ~Exhausted(b, failed)
  <2>1. Continue(b, failed)
    BY <1>3 DEF Sent
  <2>2. /\ NextAt(b) \in 1 .. Len(list[b]) /\ NextAt(b) > at[b]
        /\ Wants(list[b][NextAt(b)], msg[b])
    BY <1>1, <1>3, LaterFacts DEF Exhausted, NextAt
  <2>3. \A j \in DOMAIN list[b] : j > at[b] /\ Wants(list[b][j], msg[b]) => NextAt(b) <= j
    BY <1>1, <1>3, LaterFacts DEF Exhausted, NextAt
  <2>4. \A j \in DOMAIN list[b] : j > at[b] /\ j < NextAt(b) => ~Wants(list[b][j], msg[b])
    BY <1>1, <2>2, <2>3
  <2>5. at' = [at EXCEPT ![b] = NextAt(b)] /\ dead' = [dead EXCEPT ![b] = failed]
        /\ UNCHANGED <<connections, msg, list, live>>
    BY <2>1 DEF Continue
  <2>6. at'[b] = NextAt(b) /\ dead'[b] = failed
        /\ \A a \in Tasks : a # b => at'[a] = at[a] /\ dead'[a] = dead[a]
    BY <2>5 DEF TypeOK
  <2> QED BY <1>1, <2>2, <2>4, <2>5, <2>6 DEF Sent, Connected
<1> QED BY <1>2, <1>3

\* The clients of a step that sends: those it gives up are gone.
LEMMA GivenUp ==
  ASSUME TypeOK, Iterating, NEW b \in Tasks, Broadcast(b)
  PROVE  \E failed \in SUBSET Clients :
           Sent(b, failed) /\ ~Idle(b) /\ \A c \in failed : ~up[c] /\ Registered(c)
<1>1. CASE Deliver(b)
  BY <1>1 DEF Deliver, Iterating, TypeOK
<1>2. CASE SendFails(b)
  <2>1. dead[b] \cup {Client(b)} \in SUBSET Clients
    BY <1>2, ClientFacts DEF SendFails, TypeOK
  <2>2. \A c \in dead[b] \cup {Client(b)} : ~up[c] /\ Registered(c)
    BY <1>2, ClientFacts DEF SendFails, Iterating
  <2> QED BY <1>2, <2>1, <2>2 DEF SendFails
<1> QED BY <1>1, <1>2 DEF Broadcast

\* What it hands over: the message, to the client it is at, if its socket is open.
LEMMA HandedOver ==
  ASSUME TypeOK, Iterating, NEW b \in Tasks, Broadcast(b)
  PROVE  \/ got' = got /\ ~up[Client(b)]
         \/ /\ up[Client(b)]
            /\ got' = [got EXCEPT ![Client(b)] = Append(got[Client(b)], msg[b])]
BY DEF Broadcast, Deliver, SendFails

-----------------------------------------------------------------------------
(* The lists *)

LEMMA ListsInit == Init => Connected /\ Iterating
BY DEF Init, Connected, Iterating, Distinct, Occurs, Registered, Idle

LEMMA ConnectedStep ==
  TypeOK /\ Connected /\ Iterating /\ [Next]_vars => Connected'
<1> SUFFICES ASSUME TypeOK, Connected, Iterating, [Next]_vars PROVE Connected'
  OBVIOUS
<1> USE DEF clients, broadcasts, feed, history
<1>1. ASSUME NEW c \in Clients, Accept(c) PROVE Connected'
  <2>1. \A d \in Clients : Registered(d)' <=> Registered(d)
    BY <1>1 DEF Accept, Go, Registered, TypeOK
  <2>2. ~Registered(c) /\ \A d \in Clients : d # c => up'[d] = up[d]
    BY <1>1 DEF Accept, Go, Registered, TypeOK
  <2>3. UNCHANGED <<connections, got, audience>>
    BY <1>1 DEF Accept
  <2>4. \A i \in DOMAIN connections : connections[i] \in Clients
    BY DEF TypeOK
  <2>5. \A e \in Events : audience[e] \subseteq Clients
    BY DEF TypeOK
  <2> QED BY <2>1, <2>2, <2>3, <2>4, <2>5 DEF Connected
<1>2. ASSUME NEW c \in Clients, Register(c) PROVE Connected'
  <2>1. \A d \in Clients : Registered(d)' <=> Registered(d) \/ d = c
    BY <1>2 DEF Register, Go, Registered, TypeOK
  <2>2. ~Registered(c)
    BY <1>2 DEF Register, Go, Registered, TypeOK
  <2>3. UNCHANGED <<up, got, audience>> /\ connections' = Append(connections, c)
    BY <1>2 DEF Register
  <2>4. connections \in Seq(Clients) /\ ~Occurs(c, connections)
    BY <2>2 DEF TypeOK, Connected, Occurs
  <2>5. Distinct(connections')
    BY <2>3, <2>4, AppendFacts DEF Connected
  <2>6. \A d : Occurs(d, connections') <=> Occurs(d, connections) \/ d = c
    BY <2>3, <2>4, AppendFacts
  <2>7. \A d : Occurs(d, connections) => d \in Clients /\ Registered(d)
    BY <2>4 DEF Connected, Occurs
  <2>8. \A i \in DOMAIN connections' : route'[connections'[i]] \in {"receiving", "done"}
    <3>1. \A d : Occurs(d, connections') => route'[d] \in {"receiving", "done"}
      BY <2>1, <2>6, <2>7 DEF Registered
    <3> QED BY <3>1 DEF Occurs
  <2>9. \A e \in Events : audience[e] \subseteq Clients
    BY DEF TypeOK
  <2> QED BY <2>1, <2>3, <2>5, <2>6, <2>8, <2>9 DEF Connected, Registered
<1>3. ASSUME NEW c \in Clients, Close(c) PROVE Connected'
  BY <1>3 DEF Close, Connected, Registered, TypeOK
<1>4. ASSUME NEW c \in Clients, Notice(c) PROVE Connected'
  <2>1. \A d \in Clients : Registered(d)' <=> Registered(d)
    BY <1>4 DEF Notice, Go, Registered, TypeOK
  <2>2. UNCHANGED <<up, got, audience>> /\ ~up[c] /\ connections' = Without(connections, {c})
    BY <1>4 DEF Notice
  <2>3. /\ Distinct(connections')
        /\ \A d : Occurs(d, connections') <=> Occurs(d, connections) /\ d # c
    BY <2>2, WithoutFacts DEF TypeOK, Connected
  <2>4. \A d : Occurs(d, connections) => d \in Clients /\ Registered(d)
    BY DEF Connected, Occurs, TypeOK
  <2>5. \A i \in DOMAIN connections' : route'[connections'[i]] \in {"receiving", "done"}
    <3>1. \A d : Occurs(d, connections') => route'[d] \in {"receiving", "done"}
      BY <2>1, <2>3, <2>4 DEF Registered
    <3> QED BY <3>1 DEF Occurs
  <2>6. \A e \in Events : audience[e] \subseteq Clients
    BY DEF TypeOK
  <2> QED BY <2>1, <2>2, <2>3, <2>5, <2>6 DEF Connected, Registered
<1>5. ASSUME NEW c \in Clients, HandlerRaises(c) PROVE Connected'
  <2>1. \A d \in Clients : Registered(d)' <=> Registered(d)
    BY <1>5 DEF HandlerRaises, Go, Registered, TypeOK
  <2>2. UNCHANGED <<connections, got, audience>> /\ \A d \in Clients : up'[d] => up[d]
    BY <1>5 DEF HandlerRaises, TypeOK
  <2>3. \A i \in DOMAIN connections : connections[i] \in Clients
    BY DEF TypeOK
  <2>4. \A e \in Events : audience[e] \subseteq Clients
    BY DEF TypeOK
  <2> QED BY <2>1, <2>2, <2>3, <2>4 DEF Connected
<1>6. ASSUME UNCHANGED <<clients, connections, got>>,
             NEW e \in Events, audience' = [audience EXCEPT ![e] = ToSet(connections)]
      PROVE  Connected'
  <2>1. \A c \in ToSet(connections) : Registered(c)
    BY DEF Connected, ToSet
  <2>2. \A f \in Events : \A c \in audience'[f] : Registered(c)
    BY <1>6, <2>1 DEF Connected, TypeOK
  <2> QED BY <1>6, <2>2 DEF Connected, Registered
<1>7. ASSUME NEW b \in Tasks, Alert(b) PROVE Connected'
  BY <1>6, <1>7, ActionTypes DEF Alert, Begin
<1>8. ASSUME NEW b \in Tasks, Take(b) PROVE Connected'
  BY <1>6, <1>8, ActionTypes DEF Take, Begin
<1>9. ASSUME NEW b \in Tasks, Broadcast(b) PROVE Connected'
  <2>1. PICK failed \in SUBSET Clients :
          Sent(b, failed) /\ ~Idle(b) /\ \A c \in failed : ~up[c] /\ Registered(c)
    BY <1>9, GivenUp
  <2>2. /\ UNCHANGED <<clients, audience>> /\ Distinct(connections')
        /\ \A c : Occurs(c, connections') => Occurs(c, connections)
        /\ \A c : Occurs(c, connections) /\ c \notin failed => Occurs(c, connections')
    BY <2>1, SentEffect
  <2>3. Registered(Client(b)) /\ Client(b) \in Clients
    BY <2>1, ClientFacts
  <2>4. \A c \in Clients : ~Registered(c) => got'[c] = <<>>
    BY <1>9, <2>3, HandedOver DEF Connected, TypeOK
  <2>5. \A i \in DOMAIN connections' : Registered(connections'[i])
    <3>1. \A d : Occurs(d, connections) => Registered(d)
      BY DEF Connected, Occurs
    <3> QED BY <2>2, <3>1 DEF Occurs
  <2>6. \A c \in Clients : Registered(c) /\ up[c] => Occurs(c, connections')
    BY <2>1, <2>2 DEF Connected
  <2> QED BY <2>2, <2>4, <2>5, <2>6 DEF Connected, Registered
<1>10. CASE Publish
  BY <1>10 DEF Publish, Connected, Registered
<1>11. CASE ListenerEnds
  BY <1>11 DEF ListenerEnds, Connected, Registered
<1>12. CASE UNCHANGED vars
  BY <1>12 DEF vars, Connected, Registered
<1> QED BY <1>1, <1>2, <1>3, <1>4, <1>5, <1>7, <1>8, <1>9, <1>10, <1>11, <1>12 DEF Next, Handle

LEMMA ManagerStays == [Next]_vars => manager' = manager
BY DEF Next, Handle, Broadcast, Accept, Register, Close, Notice, HandlerRaises, Alert, Take,
       Deliver, SendFails, Sent, Publish, ListenerEnds, vars

LEMMA IteratingStep ==
  TypeOK /\ Connected /\ Iterating /\ [Next]_vars => Iterating'
<1> SUFFICES ASSUME TypeOK, Connected, Iterating, [Next]_vars PROVE Iterating'
  OBVIOUS
<1> USE DEF clients, broadcasts, feed, history
<1> DEFINE Fine(a) ==
      /\ Distinct(list'[a])
      /\ \A i \in DOMAIN list'[a] : route'[list'[a][i]] \in {"receiving", "done"}
      /\ live'[a] => list'[a] = connections'
      /\ msg'[a] # 0 => at'[a] \in DOMAIN list'[a] /\ Wants(list'[a][at'[a]], msg'[a])
      /\ \A c \in dead'[a] : ~up'[c] /\ route'[c] \in {"receiving", "done"}
<1>1. SUFFICES ASSUME NEW a \in Tasks PROVE Fine(a)
  BY ManagerStays DEF Iterating, Registered, Idle, Client, Wants
<1>2. /\ list[a] \in Seq(Clients) /\ at[a] \in Nat /\ Len(list[a]) \in Nat
      /\ DOMAIN list[a] = 1 .. Len(list[a]) /\ dead[a] \subseteq Clients
      /\ \A i \in DOMAIN list[a] : list[a][i] \in Clients
  BY DEF TypeOK
<1>3. ASSUME NEW c \in Clients, Accept(c) PROVE Fine(a)
  <2>1. ~Registered(c) /\ \A d \in Clients : d # c => up'[d] = up[d] /\ route'[d] = route[d]
    BY <1>3 DEF Accept, Go, Registered, TypeOK
  <2>2. UNCHANGED <<manager, connections, broadcasts>>
    BY <1>3 DEF Accept
  <2> QED BY <1>2, <2>1, <2>2 DEF Iterating, Registered, Idle, Client, Wants
<1>4. ASSUME NEW c \in Clients, Register(c) PROVE Fine(a)
  <2>1. /\ \A d \in Clients : d # c => route'[d] = route[d]
        /\ route'[c] = "receiving" /\ ~Registered(c)
    BY <1>4 DEF Register, Go, Registered, TypeOK
  <2>2. UNCHANGED <<manager, up, msg, at, live, dead>> /\ connections' = Append(connections, c)
    BY <1>4 DEF Register
  <2>3. list'[a] = IF live[a] THEN Append(list[a], c) ELSE list[a]
    BY <1>4 DEF Register
  <2>4. ~Occurs(c, list[a])
    BY <2>1 DEF Iterating, Occurs
  <2>5. CASE live[a]
    <3>1. /\ Len(Append(list[a], c)) = Len(list[a]) + 1
          /\ \A i \in 1 .. Len(list[a]) : Append(list[a], c)[i] = list[a][i]
          /\ Append(list[a], c)[Len(list[a]) + 1] = c
          /\ Append(list[a], c) \in Seq(Clients)
      BY <1>2, AppendFacts
    <3>2. Distinct(list'[a])
      BY <1>2, <2>3, <2>4, <2>5, AppendFacts DEF Iterating
    <3>3. DOMAIN list'[a] = 1 .. Len(list[a]) + 1
      BY <2>3, <2>5, <3>1
    <3>4. \A i \in DOMAIN list'[a] : i \in DOMAIN list[a] \/ i = Len(list[a]) + 1
      BY <1>2, <3>3
    <3>5. \A i \in DOMAIN list'[a] : route'[list'[a][i]] \in {"receiving", "done"}
      BY <1>2, <2>1, <2>3, <2>5, <3>1, <3>4 DEF Iterating, Registered
    <3>6. msg[a] # 0 => /\ at[a] \in DOMAIN list'[a] /\ list'[a][at[a]] = list[a][at[a]]
                        /\ Wants(list[a][at[a]], msg[a])
      BY <1>2, <2>3, <2>5, <3>1, <3>3 DEF Iterating, Idle, Client
    <3>7. list'[a] = connections'
      BY <2>2, <2>3, <2>5 DEF Iterating
    <3> QED BY <1>2, <2>1, <2>2, <3>2, <3>5, <3>6, <3>7 DEF Iterating, Registered, Wants
  <2>6. CASE ~live[a]
    <3>1. list'[a] = list[a] /\ ~live'[a]
      BY <2>2, <2>3, <2>6
    <3>2. \A i \in DOMAIN list[a] : route'[list[a][i]] \in {"receiving", "done"}
      BY <1>2, <2>1 DEF Iterating, Registered
    <3>3. \A d \in dead'[a] : ~up'[d] /\ route'[d] \in {"receiving", "done"}
      BY <1>2, <2>1, <2>2 DEF Iterating, Registered
    <3> QED BY <2>2, <3>1, <3>2, <3>3 DEF Iterating, Idle, Client
  <2> QED BY <2>5, <2>6
<1>5. ASSUME NEW c \in Clients, Close(c) PROVE Fine(a)
  <2>1. \A d \in Clients : up'[d] => up[d]
    BY <1>5 DEF Close, TypeOK
  <2>2. UNCHANGED <<manager, route, connections, broadcasts>>
    BY <1>5 DEF Close
  <2>3. \A d \in dead'[a] : ~up'[d] /\ route'[d] \in {"receiving", "done"}
    BY <1>2, <2>1, <2>2 DEF Iterating, Registered
  <2> QED BY <2>2, <2>3 DEF Iterating, Registered, Idle, Client
<1>6. ASSUME NEW c \in Clients, Notice(c) PROVE Fine(a)
  BY <1>2, <1>6 DEF Notice, Go, Iterating, Registered, Idle, Client, Wants, TypeOK
<1>7. ASSUME NEW c \in Clients, HandlerRaises(c) PROVE Fine(a)
  BY <1>2, <1>7 DEF HandlerRaises, Go, Iterating, Registered, Idle, Client, Wants, TypeOK
<1>8. ASSUME UNCHANGED <<manager, clients, connections>>, NEW b \in Tasks, NEW e \in Events,
             NEW s \in Seq(Clients), NEW shared \in BOOLEAN, Begin(b, e, s, shared),
             Distinct(s), \A i \in DOMAIN s : Registered(s[i]), shared => s = connections
      PROVE  Fine(a)
  <2>1. CASE a = b
    BY <1>8, <2>1, BeginEffect DEF Iterating, Registered, Idle, Client, Wants
  <2>2. CASE a # b
    BY <1>8, <2>2, BeginEffect DEF Iterating, Registered, Idle, Client, Wants
  <2> QED BY <2>1, <2>2
<1>9. ASSUME NEW b \in Tasks, Alert(b) PROVE Fine(a)
  <2>1. published + 1 \in Events /\ connections \in Seq(Clients)
    BY <1>9, ActionTypes DEF TypeOK
  <2> QED BY <1>8, <1>9, <2>1 DEF Alert, Connected
<1>10. ASSUME NEW b \in Tasks, Take(b) PROVE Fine(a)
  <2>1. PICK s \in SetToSeqs(ToSet(connections)) : Begin(b, Head(inbox), s, FALSE)
    BY <1>10 DEF Take
  <2>2. s \in Seq(Clients) /\ Distinct(s) /\ \A c : Occurs(c, s) <=> Occurs(c, connections)
    BY CopyFacts DEF TypeOK
  <2>3. \A i \in DOMAIN s : Registered(s[i])
    BY <2>2 DEF Connected, Occurs
  <2>4. Head(inbox) \in Events
    BY <1>10, ActionTypes
  <2> QED BY <1>8, <1>10, <2>1, <2>2, <2>3, <2>4 DEF Take
<1>11. ASSUME NEW b \in Tasks, Broadcast(b) PROVE Fine(a)
  <2>1. PICK failed \in SUBSET Clients :
          Sent(b, failed) /\ ~Idle(b) /\ \A c \in failed : ~up[c] /\ Registered(c)
    BY <1>11, GivenUp
  <2>2. UNCHANGED <<manager, clients>> /\ \A d \in Tasks : live'[d] => live[d] /\ connections' = connections
    BY <2>1, SentEffect
  <2>3. CASE a = b
    <3>1. CASE msg'[b] = 0 /\ list'[b] = <<>> /\ ~live'[b] /\ dead'[b] = {}
      BY <2>3, <3>1 DEF Distinct
    <3>2. CASE /\ msg'[b] = msg[b] /\ list'[b] = list[b] /\ dead'[b] = failed
               /\ at'[b] \in DOMAIN list[b] /\ Wants(list[b][at'[b]], msg[b])
      BY <2>1, <2>2, <2>3, <3>2 DEF Iterating, Registered, Wants
    <3> QED BY <2>1, <3>1, <3>2, SentEffect
  <2>4. CASE a # b
    <3>1. msg'[a] = msg[a] /\ list'[a] = list[a] /\ at'[a] = at[a] /\ dead'[a] = dead[a]
      BY <2>1, <2>4, SentEffect
    <3> QED BY <2>2, <3>1 DEF Iterating, Registered, Idle, Client, Wants
  <2> QED BY <2>3, <2>4
<1>12. CASE Publish
  BY <1>12 DEF Publish, Iterating, Registered, Idle, Client, Wants
<1>13. CASE ListenerEnds
  BY <1>13 DEF ListenerEnds, Iterating, Registered, Idle, Client, Wants
<1>14. CASE UNCHANGED vars
  BY <1>14 DEF vars, Iterating, Registered, Idle, Client, Wants
<1> HIDE DEF Fine
<1> QED BY <1>3, <1>4, <1>5, <1>6, <1>7, <1>9, <1>10, <1>11, <1>12, <1>13, <1>14 DEF Next, Handle

-----------------------------------------------------------------------------
(* The messages *)

LEMMA MessagesInit == Init => Numbered /\ Passing /\ Received
<1> SUFFICES ASSUME Init PROVE Numbered /\ Passing /\ Received
  OBVIOUS
<1>1. /\ Len(<<>>) = 0 /\ DOMAIN <<>> = {} /\ 0 - 0 = 0 /\ 0 <= 0
  OBVIOUS
<1>2. Numbered
  BY <1>1 DEF Init, Numbered, Taken, Occurs, Idle
<1>3. Passing
  BY DEF Init, Passing, Idle
<1>4. Received
  BY <1>1 DEF Init, Received, Distinct, Occurs
<1> QED BY <1>2, <1>3, <1>4

\* The message a broadcast begins with was not broadcast before.
Fresh(e) == /\ audience[e] = {}
            /\ \A c \in Clients : ~Occurs(e, got[c])
            /\ \A a \in Tasks : msg[a] # e

LEMMA FreshFacts ==
  ASSUME TypeOK, Numbered, NEW e \in Events, e > Taken
  PROVE  Fresh(e)
BY DEF TypeOK, Numbered, Fresh, Taken, Events

LEMMA TakenFacts ==
  ASSUME TypeOK, Numbered
  PROVE  Taken \in Nat /\ published \in Nat /\ Len(inbox) \in Nat /\ published = Taken + Len(inbox)
BY FanoutAssumption DEF TypeOK, Numbered, Taken

\* Where a message comes from: Alert and Take give it the next number.
LEMMA NextNumber ==
  ASSUME TypeOK, Numbered, NEW b \in Tasks, Alert(b) \/ Take(b)
  PROVE  \E s \in Seq(Clients), shared \in BOOLEAN :
           /\ Begin(b, Taken + 1, s, shared) /\ Idle(b)
           /\ Taken + 1 \in Events
           /\ \A c : Occurs(c, s) <=> Occurs(c, connections)
           /\ Taken' = Taken + 1
           /\ UNCHANGED <<manager, clients, connections, listening, got>>
<1>1. ASSUME Alert(b)
      PROVE  /\ Begin(b, Taken + 1, connections, TRUE) /\ Taken + 1 \in Events
             /\ Taken' = Taken + 1
             /\ UNCHANGED <<manager, clients, connections, listening, got>>
  <2>1. inbox = <<>> /\ Taken = published
    BY <1>1, TakenFacts DEF Alert, Numbered, Taken
  <2>2. /\ Begin(b, published + 1, connections, TRUE)
        /\ UNCHANGED <<manager, clients, connections, listening, got>>
        /\ inbox' = inbox /\ published' = published + 1
    BY <1>1 DEF Alert
  <2>3. Taken' = Taken + 1
    BY <2>1, <2>2, TakenFacts DEF Taken
  <2> QED BY <1>1, <2>1, <2>2, <2>3, ActionTypes
<1>2. ASSUME Take(b)
      PROVE  /\ Head(inbox) = Taken + 1 /\ Taken + 1 \in Events
             /\ Taken' = Taken + 1
             /\ UNCHANGED <<manager, clients, connections, listening, got>>
  <2>1. inbox # <<>> /\ inbox' = Tail(inbox) /\ inbox \in Seq(Events)
    BY <1>2 DEF Take, TypeOK
  <2>2. Len(Tail(inbox)) = Len(inbox) - 1
    BY <2>1, HeadTailProperties
  <2>3. Head(inbox) = Taken + 1 /\ Head(inbox) \in Events
    BY <1>2, ActionTypes DEF Numbered
  <2>4. UNCHANGED <<manager, clients, connections, published, listening, got>>
    BY <1>2 DEF Take
  <2> QED BY <2>1, <2>2, <2>3, <2>4, TakenFacts DEF Taken
<1>3. CASE Alert(b)
  BY <1>1, <1>3 DEF Alert, Begin, TypeOK
<1>4. CASE Take(b)
  <2>1. PICK s \in SetToSeqs(ToSet(connections)) : Begin(b, Head(inbox), s, FALSE)
    BY <1>4 DEF Take
  <2>2. s \in Seq(Clients) /\ \A c : Occurs(c, s) <=> Occurs(c, connections)
    BY CopyFacts DEF TypeOK
  <2>3. Idle(b)
    BY <2>1 DEF Begin
  <2> QED BY <1>2, <1>4, <2>1, <2>2, <2>3
<1> QED BY <1>3, <1>4

\* What the clients and their handlers do to the broadcasts: a newcomer may be
\* put at the end of a list that is gone over.
LEMMA ClientSteps ==
  ASSUME TypeOK, Connected, Iterating, NEW c \in Clients, Handle(c)
  PROVE  /\ UNCHANGED <<manager, msg, at, dead, feed, history>>
         /\ \A d \in Clients : Registered(d) /\ up'[d] => up[d]
         /\ \A d \in Clients : Registered(d) => Registered(d)'
         /\ \A b \in Tasks :
              /\ live'[b] => live[b]
              /\ \A i \in DOMAIN list[b] : i \in DOMAIN list'[b] /\ list'[b][i] = list[b][i]
              /\ \A i \in DOMAIN list'[b] : i \notin DOMAIN list[b] =>
                   i > Len(list[b]) /\ list'[b][i] \in Clients /\ got[list'[b][i]] = <<>>
<1> USE DEF clients, broadcasts, feed, history
<1>1. CASE Register(c)
  <2>1. got[c] = <<>>
    BY <1>1 DEF Register, Go, Registered, Connected
  <2>2. ASSUME NEW b \in Tasks
        PROVE  /\ \A i \in DOMAIN list[b] : i \in DOMAIN list'[b] /\ list'[b][i] = list[b][i]
               /\ \A i \in DOMAIN list'[b] : i \notin DOMAIN list[b] =>
                    i > Len(list[b]) /\ list'[b][i] = c
    <3>1. /\ list[b] \in Seq(Clients) /\ Len(list[b]) \in Nat /\ DOMAIN list[b] = 1 .. Len(list[b])
      BY DEF TypeOK
    <3>2. /\ Len(Append(list[b], c)) = Len(list[b]) + 1
          /\ \A i \in 1 .. Len(list[b]) : Append(list[b], c)[i] = list[b][i]
          /\ Append(list[b], c)[Len(list[b]) + 1] = c
          /\ Append(list[b], c) \in Seq(Clients)
      BY <3>1, AppendFacts
    <3>3. DOMAIN Append(list[b], c) = 1 .. Len(list[b]) + 1
      BY <3>2
    <3>4. list'[b] = IF live[b] THEN Append(list[b], c) ELSE list[b]
      BY <1>1 DEF Register
    <3>5. \A i \in 1 .. Len(list[b]) + 1 : i \notin 1 .. Len(list[b]) =>
            i = Len(list[b]) + 1 /\ i > Len(list[b])
      BY <3>1
    <3>6. \A i \in 1 .. Len(list[b]) : i \in 1 .. Len(list[b]) + 1
      BY <3>1
    <3> QED BY <3>1, <3>2, <3>3, <3>4, <3>5, <3>6
  <2>3. UNCHANGED <<manager, up, msg, at, live, dead, feed, history>>
        /\ \A d \in Clients : Registered(d) => Registered(d)'
    BY <1>1 DEF Register, Go, Registered, TypeOK
  <2> QED BY <2>1, <2>2, <2>3
<1>2. CASE Accept(c)
  BY <1>2 DEF Accept, Go, Registered, TypeOK
<1>3. CASE Close(c)
  BY <1>3 DEF Close, Registered, TypeOK
<1>4. CASE Notice(c)
  BY <1>4 DEF Notice, Go, Registered, TypeOK
<1>5. CASE HandlerRaises(c)
  BY <1>5 DEF HandlerRaises, Go, Registered, TypeOK
<1> QED BY <1>1, <1>2, <1>3, <1>4, <1>5 DEF Handle

LEMMA NumberedStep ==
  TypeOK /\ Connected /\ Iterating /\ Numbered /\ [Next]_vars => Numbered'
<1> SUFFICES ASSUME TypeOK, Connected, Iterating, Numbered, [Next]_vars PROVE Numbered'
  OBVIOUS
<1> USE DEF clients, broadcasts, feed, history
<1>1. ASSUME NEW c \in Clients, Handle(c) PROVE Numbered'
  BY <1>1, ClientSteps DEF Numbered, Taken, Occurs, Idle
<1>2. ASSUME NEW b \in Tasks, Alert(b) \/ Take(b) PROVE Numbered'
  <2>1. PICK s \in Seq(Clients), shared \in BOOLEAN :
          /\ Begin(b, Taken + 1, s, shared) /\ Idle(b) /\ Taken + 1 \in Events
          /\ Taken' = Taken + 1
          /\ UNCHANGED <<manager, clients, connections, listening, got>>
    BY <1>2, NextNumber
  <2>2. /\ Len(inbox') <= published'
        /\ \A i \in DOMAIN inbox' : inbox'[i] = Taken' + i
        /\ ~listening' \/ manager' = "alerts" => inbox' = <<>>
    <3>1. CASE Alert(b)
      <4>1. inbox = <<>> /\ inbox' = inbox /\ published' = published + 1
        BY <3>1 DEF Alert, Numbered
      <4>2. Len(<<>>) = 0 /\ DOMAIN <<>> = {}
        OBVIOUS
      <4> QED BY <4>1, <4>2, TakenFacts
    <3>2. CASE Take(b)
      <4>1. inbox # <<>> /\ inbox' = Tail(inbox) /\ inbox \in Seq(Events) /\ published' = published
        BY <3>2 DEF Take, TypeOK
      <4>2. /\ Tail(inbox) \in Seq(Events) /\ Len(Tail(inbox)) = Len(inbox) - 1
            /\ \A i \in 1 .. Len(Tail(inbox)) : Tail(inbox)[i] = inbox[i + 1]
        BY <4>1, HeadTailProperties
      <4>3. DOMAIN inbox' = 1 .. Len(inbox) - 1 /\ DOMAIN inbox = 1 .. Len(inbox)
        BY <4>1, <4>2
      <4>4. ASSUME NEW i \in DOMAIN inbox' PROVE inbox'[i] = Taken' + i
        <5>1. i + 1 \in DOMAIN inbox /\ i \in Nat
          BY <4>3, TakenFacts
        <5>2. inbox'[i] = inbox[i + 1] /\ inbox[i + 1] = Taken + (i + 1)
          BY <4>1, <4>2, <4>3, <5>1 DEF Numbered
        <5> QED BY <2>1, <5>1, <5>2, TakenFacts
      <4> QED BY <2>1, <3>2, <4>1, <4>2, <4>4, TakenFacts DEF Take
    <3> QED BY <1>2, <3>1, <3>2
  <2>3. Fresh(Taken + 1)
    BY <2>1, FreshFacts, TakenFacts
  <2>4. \A a \in Tasks : msg'[a] = msg[a] \/ (a = b /\ msg'[a] = Taken + 1)
    BY <2>1, BeginEffect
  <2>5. \A a \in Tasks : msg'[a] <= Taken'
    <3>1. \A a \in Tasks : msg[a] \in Nat /\ msg[a] <= Taken
      BY DEF Numbered, TypeOK, Events
    <3> QED BY <2>1, <2>4, <3>1, TakenFacts
  <2>6. \A a, d \in Tasks : msg'[a] = msg'[d] /\ msg'[a] # 0 => a = d
    BY <2>3, <2>4 DEF Fresh, Numbered, Idle
  <2>7. \A e \in Events : e > Taken' => audience'[e] = {} /\ \A c \in Clients : ~Occurs(e, got'[c])
    <3>1. ASSUME NEW e \in Events, e > Taken'
          PROVE  e > Taken /\ e # Taken + 1
      BY <2>1, <3>1, TakenFacts DEF Events
    <3>2. \A e \in Events : e # Taken + 1 => audience'[e] = audience[e]
      BY <2>1, BeginEffect DEF TypeOK
    <3> QED BY <2>1, <3>1, <3>2 DEF Numbered
  <2> QED BY <2>2, <2>5, <2>6, <2>7 DEF Numbered, Idle, Occurs
<1>3. ASSUME NEW b \in Tasks, Broadcast(b) PROVE Numbered'
  <2>1. PICK failed \in SUBSET Clients :
          Sent(b, failed) /\ ~Idle(b) /\ \A c \in failed : ~up[c] /\ Registered(c)
    BY <1>3, GivenUp
  <2>2. UNCHANGED <<manager, feed, audience>>
        /\ \A a \in Tasks : msg'[a] = msg[a] \/ (a = b /\ msg'[a] = 0)
    BY <2>1, SentEffect
  <2>3. ASSUME NEW e \in Events, e > Taken, NEW c \in Clients PROVE ~Occurs(e, got'[c])
    <3>1. e # msg[b] /\ Client(b) \in Clients /\ msg[b] \in Events
      BY <2>1, <2>3, ClientFacts, TakenFacts DEF Numbered, Events
    <3>2. ~Occurs(e, got[c])
      BY <2>3 DEF Numbered
    <3>3. got[c] \in Seq(Events) /\ (got'[c] = got[c] \/ got'[c] = Append(got[c], msg[b]))
      <4>1. CASE c = Client(b)
        BY <1>3, <3>1, <4>1, HandedOver DEF TypeOK
      <4>2. CASE c # Client(b)
        BY <1>3, <3>1, <4>2, HandedOver DEF TypeOK
      <4> QED BY <4>1, <4>2
    <3>4. CASE got'[c] = Append(got[c], msg[b])
      <4>1. Occurs(e, got'[c]) <=> Occurs(e, got[c]) \/ e = msg[b]
        BY <3>1, <3>3, <3>4, AppendFacts
      <4> QED BY <3>1, <3>2, <4>1
    <3> QED BY <3>2, <3>3, <3>4
  <2>4. 0 <= Taken
    BY TakenFacts
  <2> QED BY <2>2, <2>3, <2>4 DEF Numbered, Taken, Idle
<1>4. CASE Publish
  <2>1. UNCHANGED <<manager, msg, listening, got, audience>> /\ published' = published + 1
    BY <1>4 DEF Publish
  <2>2. CASE listening
    <3>1. inbox' = Append(inbox, published + 1) /\ inbox \in Seq(Events) /\ published + 1 \in Events
          /\ manager # "alerts"
      BY <1>4, <2>2, FanoutAssumption DEF Publish, TypeOK, Events
    <3>2. /\ Len(inbox') = Len(inbox) + 1 /\ inbox' \in Seq(Events)
          /\ \A i \in 1 .. Len(inbox) : inbox'[i] = inbox[i]
          /\ inbox'[Len(inbox) + 1] = published + 1
      BY <3>1, AppendFacts
    <3>3. DOMAIN inbox' = 1 .. Len(inbox) + 1 /\ DOMAIN inbox = 1 .. Len(inbox)
      BY <3>1, <3>2
    <3>4. Taken' = Taken /\ Len(inbox') <= published'
      BY <2>1, <3>2, TakenFacts DEF Taken
    <3>5. ASSUME NEW i \in DOMAIN inbox' PROVE inbox'[i] = Taken' + i
      <4>1. CASE i \in DOMAIN inbox
        BY <3>2, <3>3, <3>4, <4>1 DEF Numbered
      <4>2. CASE i \notin DOMAIN inbox
        <5>1. i = Len(inbox) + 1
          BY <3>3, <4>2, TakenFacts
        <5> QED BY <3>2, <3>4, <5>1, TakenFacts
      <4> QED BY <4>1, <4>2
    <3> QED BY <2>1, <2>2, <3>1, <3>4, <3>5 DEF Numbered, Occurs, Idle
  <2>3. CASE ~listening
    <3>1. inbox = <<>> /\ inbox' = <<>> /\ Len(<<>>) = 0 /\ DOMAIN <<>> = {}
      BY <1>4, <2>3 DEF Publish, Numbered
    <3>2. Taken' = Taken + 1 /\ Len(inbox') <= published'
      BY <2>1, <3>1, TakenFacts DEF Taken
    <3>3. \A a \in Tasks : msg[a] <= Taken'
      <4>1. \A a \in Tasks : msg[a] \in Nat /\ msg[a] <= Taken
        BY DEF Numbered, TypeOK, Events
      <4> QED BY <3>2, <4>1, TakenFacts
    <3>4. \A e \in Events : e > Taken' => e > Taken
      BY <3>2, TakenFacts DEF Events
    <3> QED BY <2>1, <3>1, <3>2, <3>3, <3>4 DEF Numbered, Occurs, Idle
  <2> QED BY <2>2, <2>3
<1>5. CASE ListenerEnds
  <2>1. UNCHANGED <<manager, msg, published, got, audience>> /\ inbox' = <<>>
    BY <1>5 DEF ListenerEnds
  <2>2. Len(<<>>) = 0 /\ DOMAIN <<>> = {}
    OBVIOUS
  <2>3. Taken' = published /\ Taken' >= Taken /\ Len(inbox') <= published'
    BY <2>1, <2>2, TakenFacts DEF Taken
  <2>4. \A a \in Tasks : msg[a] <= Taken'
    <3>1. \A a \in Tasks : msg[a] \in Nat /\ msg[a] <= Taken
      BY DEF Numbered, TypeOK, Events
    <3> QED BY <2>1, <2>3, <3>1, TakenFacts
  <2>5. \A e \in Events : e > Taken' => e > Taken
    BY <2>3, TakenFacts DEF Events
  <2> QED BY <2>1, <2>2, <2>3, <2>4, <2>5 DEF Numbered, Occurs, Idle
<1>6. CASE UNCHANGED vars
  BY <1>6 DEF vars, Numbered, Taken, Occurs, Idle
<1> QED BY <1>1, <1>2, <1>3, <1>4, <1>5, <1>6 DEF Next

\* How much got grows in a step of a broadcast.
LEMMA Growth ==
  ASSUME TypeOK, Iterating, NEW b \in Tasks, Broadcast(b), ~Idle(b), NEW c \in Clients
  PROVE  /\ got[c] \in Seq(Events) /\ msg[b] \in Events
         /\ c # Client(b) => got'[c] = got[c]
         /\ c = Client(b) /\ up[c] => got'[c] = Append(got[c], msg[b])
         /\ c = Client(b) /\ ~up[c] => got'[c] = got[c]
         /\ \A e : Occurs(e, got'[c]) <=>
                    Occurs(e, got[c]) \/ (c = Client(b) /\ up[c] /\ e = msg[b])
<1>1. got[c] \in Seq(Events) /\ msg[b] \in Events /\ Client(b) \in Clients
  BY ClientFacts DEF TypeOK
<1>2. CASE c # Client(b)
  BY <1>1, <1>2, HandedOver DEF TypeOK
<1>3. CASE c = Client(b)
  <2>1. CASE up[c]
    <3>1. got'[c] = Append(got[c], msg[b])
      BY <1>1, <1>3, <2>1, HandedOver DEF TypeOK
    <3>2. \A e : Occurs(e, got'[c]) <=> Occurs(e, got[c]) \/ e = msg[b]
      BY <1>1, <3>1, AppendFacts
    <3> QED BY <1>1, <1>3, <2>1, <3>1, <3>2
  <2>2. CASE ~up[c]
    BY <1>1, <1>3, <2>2, HandedOver
  <2> QED BY <2>1, <2>2
<1> QED BY <1>2, <1>3

LEMMA PassingStep ==
  TypeOK /\ Connected /\ Iterating /\ Numbered /\ Passing /\ [Next]_vars => Passing'
<1> SUFFICES ASSUME TypeOK, Connected, Iterating, Numbered, Passing, [Next]_vars PROVE Passing'
  OBVIOUS
<1> USE DEF clients, broadcasts, feed, history
<1> DEFINE Fine(a) ==
      msg'[a] # 0 =>
        /\ \A c \in audience'[msg'[a]] : Occurs(c, list'[a])
        /\ \A i \in DOMAIN list'[a] :
             /\ i >= at'[a] => ~Occurs(msg'[a], got'[list'[a][i]])
             /\ i < at'[a] /\ Wants(list'[a][i], msg'[a]) /\ up'[list'[a][i]]
                  => Occurs(msg'[a], got'[list'[a][i]])
<1>1. SUFFICES ASSUME NEW a \in Tasks PROVE Fine(a)
  BY ManagerStays DEF Passing, Occurs, Idle, Wants
<1>2. /\ list[a] \in Seq(Clients) /\ at[a] \in Nat /\ at[a] <= Len(list[a]) /\ Len(list[a]) \in Nat
      /\ DOMAIN list[a] = 1 .. Len(list[a])
      /\ \A i \in DOMAIN list[a] : list[a][i] \in Clients /\ Registered(list[a][i])
  BY DEF TypeOK, Iterating
<1>3. ASSUME NEW c \in Clients, Handle(c) PROVE Fine(a)
  <2>1. UNCHANGED <<manager, msg, at, got, audience>>
    BY <1>3, ClientSteps
  <2>2. /\ \A d \in Clients : Registered(d) /\ up'[d] => up[d]
        /\ \A i \in DOMAIN list[a] : i \in DOMAIN list'[a] /\ list'[a][i] = list[a][i]
        /\ \A i \in DOMAIN list'[a] : i \notin DOMAIN list[a] =>
             i > Len(list[a]) /\ list'[a][i] \in Clients /\ got[list'[a][i]] = <<>>
    BY <1>3, ClientSteps
  <2> SUFFICES ASSUME msg[a] # 0 PROVE Fine(a)
    BY <2>1
  <2>3. \A c2 \in audience[msg[a]] : Occurs(c2, list'[a])
    BY <2>2 DEF Passing, Occurs, Idle
  <2>4. ASSUME NEW i \in DOMAIN list'[a]
        PROVE  /\ i >= at[a] => ~Occurs(msg[a], got[list'[a][i]])
               /\ i < at[a] /\ Wants(list'[a][i], msg[a]) /\ up'[list'[a][i]]
                    => Occurs(msg[a], got[list'[a][i]])
    <3>1. CASE i \in DOMAIN list[a]
      BY <1>2, <2>2, <3>1 DEF Passing, Idle
    <3>2. CASE i \notin DOMAIN list[a]
      <4>1. got[list'[a][i]] = <<>> /\ i > Len(list[a])
        BY <2>2, <3>2
      <4>2. ~Occurs(msg[a], <<>>)
        BY DEF Occurs
      <4>3. i \in Nat
        <5>1. list'[a] \in Seq(Clients)
          BY TypeStep DEF TypeOK
        <5> QED BY <5>1
      <4>4. ~(i < at[a])
        BY <1>2, <4>1, <4>3
      <4> QED BY <4>1, <4>2, <4>4
    <3> QED BY <3>1, <3>2
  <2> QED BY <2>1, <2>3, <2>4
<1>4. ASSUME NEW b \in Tasks, Alert(b) \/ Take(b) PROVE Fine(a)
  <2>1. PICK s \in Seq(Clients), shared \in BOOLEAN :
          /\ Begin(b, Taken + 1, s, shared) /\ Idle(b) /\ Taken + 1 \in Events
          /\ \A c : Occurs(c, s) <=> Occurs(c, connections)
          /\ UNCHANGED <<manager, clients, connections, listening, got>>
    BY <1>4, NextNumber
  <2>2. Fresh(Taken + 1)
    BY <2>1, FreshFacts, TakenFacts
  <2>3. audience' = [audience EXCEPT ![Taken + 1] = ToSet(connections)]
    BY <2>1, BeginEffect
  <2>4. CASE a = b
    <3>1. CASE UNCHANGED broadcasts
      BY <2>1, <2>4, <3>1 DEF Idle
    <3>2. CASE /\ msg'[b] = Taken + 1 /\ list'[b] = s
               /\ \A j \in DOMAIN s : j < at'[b] => ~Wants(s[j], Taken + 1)
      <4>1. \A c \in ToSet(connections) : Occurs(c, s)
        BY <2>1 DEF ToSet, Occurs
      <4>2. audience'[Taken + 1] = ToSet(connections)
        BY <2>1, <2>3 DEF TypeOK
      <4>3. \A i \in DOMAIN s : ~Occurs(Taken + 1, got[s[i]])
        BY <2>2 DEF Fresh
      <4> QED BY <2>1, <2>4, <3>2, <4>1, <4>2, <4>3
    <3> QED BY <2>1, <3>1, <3>2, BeginEffect
  <2>5. CASE a # b
    <3>1. msg'[a] = msg[a] /\ list'[a] = list[a] /\ at'[a] = at[a]
      BY <2>1, <2>5, BeginEffect
    <3>2. msg[a] # Taken + 1
      BY <2>2 DEF Fresh
    <3>3. msg[a] # 0 => audience'[msg[a]] = audience[msg[a]]
      BY <2>3, <3>2 DEF TypeOK
    <3> QED BY <2>1, <3>1, <3>3 DEF Passing, Idle
  <2> QED BY <2>4, <2>5
<1>5. ASSUME NEW b \in Tasks, Broadcast(b) PROVE Fine(a)
  <2>1. PICK failed \in SUBSET Clients :
          Sent(b, failed) /\ ~Idle(b) /\ \A c \in failed : ~up[c] /\ Registered(c)
    BY <1>5, GivenUp
  <2>2. UNCHANGED <<manager, clients, feed, audience>>
    BY <2>1, SentEffect
  <2>3. CASE a = b
    <3>1. CASE msg'[b] = 0
      BY <2>3, <3>1
    <3>2. CASE /\ msg'[b] = msg[b] /\ list'[b] = list[b]
               /\ at'[b] \in DOMAIN list[b] /\ at'[b] > at[b]
               /\ \A j \in DOMAIN list[b] : j > at[b] /\ j < at'[b] => ~Wants(list[b][j], msg[b])
      <4>1. \A c \in audience[msg[b]] : Occurs(c, list[b])
        BY <2>1 DEF Passing
      <4>2. ASSUME NEW i \in DOMAIN list[b]
            PROVE  /\ i >= at'[b] => ~Occurs(msg[b], got'[list[b][i]])
                   /\ i < at'[b] /\ Wants(list[b][i], msg[b]) /\ up[list[b][i]]
                        => Occurs(msg[b], got'[list[b][i]])
        <5>1. i \in Nat /\ at'[b] \in Nat /\ at[b] \in DOMAIN list[b] /\ list[b][i] \in Clients
          BY <1>2, <2>1, <2>3, <3>2 DEF Iterating
        <5>2. list[b][i] = Client(b) <=> i = at[b]
          BY <5>1 DEF Iterating, Distinct, Client
        <5>3. Occurs(msg[b], got'[list[b][i]]) <=>
                Occurs(msg[b], got[list[b][i]]) \/ (i = at[b] /\ up[list[b][i]])
          BY <1>5, <2>1, <5>1, <5>2, Growth
        <5>4. ASSUME i >= at'[b] PROVE ~Occurs(msg[b], got'[list[b][i]])
          <6>1. i >= at[b] /\ i # at[b]
            BY <1>2, <2>3, <3>2, <5>1, <5>4
          <6> QED BY <2>1, <5>3, <6>1 DEF Passing
        <5>5. ASSUME i < at'[b], Wants(list[b][i], msg[b]), up[list[b][i]]
              PROVE  Occurs(msg[b], got'[list[b][i]])
          <6>1. i < at[b] \/ i = at[b]
            BY <1>2, <2>3, <3>2, <5>1, <5>5
          <6> QED BY <2>1, <5>3, <5>5, <6>1 DEF Passing
        <5> QED BY <5>4, <5>5
      <4> QED BY <2>2, <2>3, <3>2, <4>1, <4>2
    <3> QED BY <2>1, <3>1, <3>2, SentEffect
  <2>4. CASE a # b
    <3>1. msg'[a] = msg[a] /\ list'[a] = list[a] /\ at'[a] = at[a]
      BY <2>1, <2>4, SentEffect
    <3>2. msg[a] # 0 => msg[a] # msg[b]
      BY <2>4 DEF Numbered, Idle
    <3>3. ASSUME msg[a] # 0, NEW i \in DOMAIN list[a]
          PROVE  Occurs(msg[a], got'[list[a][i]]) <=> Occurs(msg[a], got[list[a][i]])
      <4> DEFINE c == list[a][i]
      <4>1. c \in Clients /\ msg[a] # msg[b]
        BY <1>2, <3>2, <3>3
      <4> HIDE DEF c
      <4>2. \A e : Occurs(e, got'[c]) <=>
                    Occurs(e, got[c]) \/ (c = Client(b) /\ up[c] /\ e = msg[b])
        BY <1>5, <2>1, <4>1, Growth
      <4>3. Occurs(msg[a], got'[c]) <=> Occurs(msg[a], got[c])
        BY <4>1, <4>2
      <4> QED BY <4>3 DEF c
    <3> QED BY <2>2, <3>1, <3>3 DEF Passing, Idle
  <2> QED BY <2>3, <2>4
<1>6. CASE Publish
  BY <1>6 DEF Publish, Passing, Idle
<1>7. CASE ListenerEnds
  BY <1>7 DEF ListenerEnds, Passing, Idle
<1>8. CASE UNCHANGED vars
  BY <1>8 DEF vars, Passing, Idle
<1> HIDE DEF Fine
<1> QED BY <1>3, <1>4, <1>5, <1>6, <1>7, <1>8 DEF Next

LEMMA ReceivedStep ==
  TypeOK /\ Connected /\ Iterating /\ Numbered /\ Passing /\ Received /\ [Next]_vars => Received'
<1> SUFFICES ASSUME TypeOK, Connected, Iterating, Numbered, Passing, Received, [Next]_vars
             PROVE  Received'
  OBVIOUS
<1> USE DEF clients, broadcasts, feed, history
<1>1. manager' = manager /\ \A c \in Clients, e \in Events : Wants(c, e)' <=> Wants(c, e)
  BY ManagerStays DEF Wants
<1>2. \A e \in Events : audience[e] \subseteq Clients /\ \A c \in audience[e] : Registered(c)
  BY DEF TypeOK, Connected
<1>3. ASSUME NEW c \in Clients, Handle(c) PROVE Received'
  <2>1. UNCHANGED <<manager, msg, got, audience>>
        /\ \A d \in Clients : Registered(d) /\ up'[d] => up[d]
    BY <1>3, ClientSteps
  <2> QED BY <1>2, <2>1 DEF Received, Distinct, Occurs, Wants
<1>4. ASSUME NEW b \in Tasks, Alert(b) \/ Take(b) PROVE Received'
  <2>1. PICK s \in Seq(Clients), shared \in BOOLEAN :
          /\ Begin(b, Taken + 1, s, shared) /\ Idle(b) /\ Taken + 1 \in Events
          /\ \A c : Occurs(c, s) <=> Occurs(c, connections)
          /\ UNCHANGED <<manager, clients, connections, listening, got>>
    BY <1>4, NextNumber
  <2>2. audience' = [audience EXCEPT ![Taken + 1] = ToSet(connections)]
    BY <2>1, BeginEffect
  <2>3. ASSUME NEW e \in Events, \A a \in Tasks : msg'[a] # e, NEW c \in audience'[e],
               Wants(c, e), up[c]
        PROVE  Occurs(e, got[c])
    <3>1. CASE e = Taken + 1
      <4>1. \A j \in DOMAIN s : ~Wants(s[j], e)
        BY <2>1, <2>3, <3>1, BeginEffect
      <4>2. Occurs(c, s)
        BY <2>1, <2>2, <2>3, <3>1 DEF TypeOK, ToSet, Occurs
      <4> QED BY <2>3, <4>1, <4>2 DEF Occurs
    <3>2. CASE e # Taken + 1
      <4>1. \A a \in Tasks : a # b => msg'[a] = msg[a]
        BY <2>1, BeginEffect
      <4>2. msg[b] = 0 /\ e # 0
        BY <2>1 DEF Idle, Events
      <4>3. \A a \in Tasks : msg[a] # e
        BY <2>3, <4>1, <4>2
      <4>4. c \in audience[e]
        BY <2>2, <2>3, <3>2 DEF TypeOK
      <4> QED BY <2>3, <4>3, <4>4 DEF Received
    <3> QED BY <3>1, <3>2
  <2> QED BY <1>1, <2>1, <2>3 DEF Received, Distinct, Occurs, Wants
<1>5. ASSUME NEW b \in Tasks, Broadcast(b) PROVE Received'
  <2>1. PICK failed \in SUBSET Clients :
          Sent(b, failed) /\ ~Idle(b) /\ \A c \in failed : ~up[c] /\ Registered(c)
    BY <1>5, GivenUp
  <2>2. UNCHANGED <<manager, clients, audience>>
    BY <2>1, SentEffect
  <2>3. /\ Client(b) \in Clients /\ Wants(Client(b), msg[b]) /\ msg[b] \in Events
        /\ at[b] \in DOMAIN list[b] /\ at[b] \in Nat /\ list[b] \in Seq(Clients)
    BY <2>1, ClientFacts
  <2>4. ~Occurs(msg[b], got[Client(b)])
    BY <2>1, <2>3 DEF Passing, Client
  <2>5. ASSUME NEW c \in Clients PROVE Distinct(got'[c])
    <3>1. CASE c = Client(b) /\ up[c]
      <4>1. /\ got'[c] = Append(got[c], msg[b]) /\ got[c] \in Seq(Events) /\ msg[b] \in Events
            /\ Distinct(got[c]) /\ ~Occurs(msg[b], got[c])
        BY <1>5, <2>1, <2>4, <3>1, Growth DEF Received
      <4> QED BY <4>1, AppendFacts
    <3>2. CASE ~(c = Client(b) /\ up[c])
      BY <1>5, <2>1, <3>2, Growth DEF Received
    <3> QED BY <3>1, <3>2
  <2>6. ASSUME NEW c \in Clients, NEW e \in Events, Occurs(e, got'[c]) PROVE Wants(c, e)
    <3>1. Occurs(e, got[c]) \/ (c = Client(b) /\ e = msg[b])
      BY <1>5, <2>1, <2>6, Growth
    <3> QED BY <2>3, <3>1 DEF Received
  <2>7. ASSUME NEW e \in Events, \A a \in Tasks : msg'[a] # e, NEW c \in audience[e],
               Wants(c, e), up[c]
        PROVE  Occurs(e, got'[c])
    <3>1. c \in Clients
      BY <1>2
    <3>2. CASE e = msg[b]
      <4>1. PICK i \in DOMAIN list[b] : list[b][i] = c
        BY <2>1, <2>7, <3>2 DEF Passing, Occurs
      <4>2. \A j \in DOMAIN list[b] : j > at[b] => ~Wants(list[b][j], msg[b])
        BY <2>1, <2>7, <3>2, SentEffect
      <4>3. i \in Nat
        BY <2>3
      <4>4. i < at[b] \/ i = at[b]
        BY <2>3, <2>7, <3>2, <4>1, <4>2, <4>3
      <4>5. CASE i = at[b]
        BY <1>5, <2>1, <2>7, <3>1, <3>2, <4>1, <4>5, Growth DEF Client
      <4>6. CASE i < at[b]
        BY <1>5, <2>1, <2>7, <3>1, <3>2, <4>1, <4>6, Growth DEF Passing
      <4> QED BY <4>4, <4>5, <4>6
    <3>3. CASE e # msg[b]
      <4>1. \A a \in Tasks : a # b => msg'[a] = msg[a]
        BY <2>1, SentEffect
      <4>2. \A a \in Tasks : msg[a] # e
        BY <2>7, <3>3, <4>1
      <4> QED BY <1>5, <2>1, <2>7, <3>1, <4>2, Growth DEF Received
    <3> QED BY <3>2, <3>3
  <2>8. \A c \in Clients, e \in Events : Occurs(e, got[c])' <=> Occurs(e, got'[c])
    BY DEF Occurs
  <2> QED BY <1>1, <1>2, <2>2, <2>5, <2>6, <2>7 DEF Received, Distinct, Occurs, Wants
<1>6. CASE Publish
  BY <1>6 DEF Publish, Received, Distinct, Occurs, Wants
<1>7. CASE ListenerEnds
  BY <1>7 DEF ListenerEnds, Received, Distinct, Occurs, Wants
<1>8. CASE UNCHANGED vars
  BY <1>8 DEF vars, Received, Distinct, Occurs, Wants
<1> QED BY <1>3, <1>4, <1>5, <1>6, <1>7, <1>8 DEF Next

-----------------------------------------------------------------------------
(* The order of execution events *)

LEMMA OrderInit == Init => Listening /\ EventsInOrder
<1> SUFFICES ASSUME Init PROVE Listening /\ EventsInOrder
  OBVIOUS
<1>1. Len(<<>>) = 0 /\ 1 .. 0 - 1 = {}
  OBVIOUS
<1> QED BY <1>1 DEF Init, Listening, EventsInOrder, Idle

LEMMA ListeningStep ==
  TypeOK /\ Connected /\ Iterating /\ Numbered /\ Passing /\ Listening /\ [Next]_vars => Listening'
<1> SUFFICES ASSUME TypeOK, Connected, Iterating, Numbered, Passing, Listening, [Next]_vars,
                    manager = "executions"
             PROVE  Listening'
  BY ManagerStays DEF Listening
<1> USE DEF clients, broadcasts, feed, history
<1> DEFINE LastOf(c) == got[c][Len(got[c])]
           Ahead(c, b) == /\ msg[b] # 0
                          /\ \E i \in DOMAIN list[b] : i >= at[b] /\ list[b][i] = c
<1>1. \A c \in Clients : got[c] # <<>> => Registered(c)
  BY DEF Connected
<1>2. ASSUME NEW c \in Clients, Handle(c) PROVE Listening'
  <2>1. UNCHANGED <<manager, msg, at, feed, got>>
        /\ \A d \in Clients : Registered(d) /\ up'[d] => up[d]
    BY <1>2, ClientSteps
  <2>2. \A b \in Tasks :
          /\ live'[b] => live[b]
          /\ \A i \in DOMAIN list[b] : i \in DOMAIN list'[b] /\ list'[b][i] = list[b][i]
    BY <1>2, ClientSteps
  <2> QED BY <1>1, <2>1, <2>2 DEF Listening, Idle, Taken
<1>3. ASSUME NEW b \in Tasks, Take(b) PROVE Listening'
  <2>1. PICK s \in SetToSeqs(ToSet(connections)) : Begin(b, Head(inbox), s, FALSE)
    BY <1>3 DEF Take
  <2>2. s \in Seq(Clients) /\ \A c : Occurs(c, s) <=> Occurs(c, connections)
    BY CopyFacts DEF TypeOK
  <2>3. /\ Taken' = Taken + 1 /\ Head(inbox) = Taken + 1 /\ Taken + 1 \in Events
        /\ UNCHANGED <<manager, clients, connections, listening, got>> /\ listening
    <3>1. inbox # <<>> /\ inbox' = Tail(inbox) /\ inbox \in Seq(Events)
      BY <1>3 DEF Take, TypeOK
    <3>2. Len(Tail(inbox)) = Len(inbox) - 1
      BY <3>1, HeadTailProperties
    <3>3. Head(inbox) = Taken + 1 /\ Head(inbox) \in Events
      BY <1>3, ActionTypes DEF Numbered
    <3> QED BY <1>3, <3>1, <3>2, <3>3, TakenFacts DEF Take, Taken
  <2>4. \A a \in Tasks : msg[a] = 0
    BY <1>3 DEF Take, Free, Idle
  <2> DEFINE next == Taken + 1
             shared == FALSE
  <2>a. next \in Events /\ Begin(b, next, s, shared) /\ shared \in BOOLEAN /\ ~shared
    BY <2>1, <2>3
  <2> HIDE DEF next, shared
  <2>b. /\ \A a \in Tasks : a # b => msg'[a] = msg[a] /\ live'[a] = live[a]
        /\ \/ /\ \A j \in DOMAIN s : ~Wants(s[j], next)
              /\ UNCHANGED broadcasts
           \/ /\ msg'[b] = next /\ list'[b] = s /\ ~live'[b]
              /\ at'[b] \in DOMAIN s /\ Wants(s[at'[b]], next)
              /\ \A j \in DOMAIN s : j < at'[b] => ~Wants(s[j], next)
    BY <2>2, <2>a, BeginEffect
  <2> USE DEF next
  <2>5. \A a \in Tasks : a # b => msg'[a] = 0 /\ live'[a] = live[a]
    BY <2>4, <2>b
  <2>6. msg'[b] # 0 => msg'[b] = Taken + 1
    BY <2>4, <2>b
  <2>7. \A a \in Tasks : ~live'[a]
    BY <2>5, <2>b DEF Listening
  <2>8. ASSUME NEW c \in Clients, up[c], got[c] # <<>>
        PROVE  /\ LastOf(c) = Taken' - 1
               /\ msg'[b] # 0 /\ \E i \in DOMAIN list'[b] : i >= at'[b] /\ list'[b][i] = c
    <3>1. PICK i \in DOMAIN s : s[i] = c
      BY <1>1, <2>2, <2>8 DEF Connected, Occurs
    <3>2. Wants(c, Taken + 1)
      BY DEF Wants
    <3>3. /\ msg'[b] = Taken + 1 /\ list'[b] = s /\ at'[b] \in DOMAIN s
          /\ \A j \in DOMAIN s : j < at'[b] => ~Wants(s[j], Taken + 1)
      BY <2>b, <3>1, <3>2
    <3>4. i >= at'[b]
      <4>1. i \in Nat /\ at'[b] \in Nat
        BY <2>2, <3>3
      <4> QED BY <3>1, <3>2, <3>3, <4>1
    <3>5. LastOf(c) = Taken
      BY <2>3, <2>4, <2>8 DEF Listening, Idle
    <3> QED BY <2>3, <3>1, <3>3, <3>4, <3>5, TakenFacts DEF Events
  <2> QED BY <2>3, <2>5, <2>6, <2>7, <2>8 DEF Listening, Idle
<1>4. ASSUME NEW b \in Tasks, Broadcast(b) PROVE Listening'
  <2>1. PICK failed \in SUBSET Clients :
          Sent(b, failed) /\ ~Idle(b) /\ \A c \in failed : ~up[c] /\ Registered(c)
    BY <1>4, GivenUp
  <2>2. UNCHANGED <<manager, clients, feed>> /\ \A a \in Tasks : live'[a] => live[a]
    BY <2>1, SentEffect
  <2>3. Taken' = Taken /\ listening /\ msg[b] = Taken /\ \A a \in Tasks : a # b => msg[a] = 0
    BY <2>1, <2>2 DEF Listening, Taken, Idle
  <2>4. \A a \in Tasks : (a # b => msg'[a] = 0) /\ (msg'[a] # 0 => a = b /\ msg'[a] = Taken)
    <3>1. \A a \in Tasks : a # b => msg'[a] = msg[a]
      BY <2>1, SentEffect
    <3>2. msg'[b] = 0 \/ msg'[b] = msg[b]
      BY <2>1, SentEffect
    <3> QED BY <2>3, <3>1, <3>2
  <2>5. ASSUME NEW c \in Clients, up[c], got'[c] # <<>>
        PROVE  \/ got'[c][Len(got'[c])] = Taken
               \/ /\ got'[c][Len(got'[c])] = Taken - 1
                  /\ msg'[b] # 0 /\ \E i \in DOMAIN list'[b] : i >= at'[b] /\ list'[b][i] = c
    <3>1. CASE c = Client(b)
      <4>1. got'[c] = Append(got[c], msg[b]) /\ got[c] \in Seq(Events) /\ msg[b] \in Events
        BY <1>4, <2>1, <2>5, <3>1, Growth
      <4> QED BY <2>3, <4>1, AppendFacts
    <3>2. CASE c # Client(b)
      <4>1. got'[c] = got[c]
        BY <1>4, <2>1, <3>2, Growth
      <4>2. CASE LastOf(c) = Taken
        BY <4>1, <4>2
      <4>3. CASE /\ LastOf(c) = Taken - 1
                 /\ \E i \in DOMAIN list[b] : i >= at[b] /\ list[b][i] = c
        <5>1. PICK i \in DOMAIN list[b] : i >= at[b] /\ list[b][i] = c
          BY <4>3
        <5>2. i \in Nat /\ at[b] \in Nat /\ i # at[b] /\ Wants(c, msg[b]) /\ list[b] \in Seq(Clients)
          BY <2>1, <3>2, <5>1, ClientFacts DEF Client, Wants
        <5>3. i > at[b]
          BY <5>1, <5>2
        <5>4. /\ msg'[b] = msg[b] /\ list'[b] = list[b] /\ at'[b] \in DOMAIN list[b]
              /\ \A j \in DOMAIN list[b] : j > at[b] /\ j < at'[b] => ~Wants(list[b][j], msg[b])
          BY <2>1, <5>1, <5>2, <5>3, SentEffect
        <5>5. i >= at'[b]
          <6>1. at'[b] \in Nat
            BY <5>2, <5>4
          <6> QED BY <5>1, <5>2, <5>3, <5>4, <6>1
        <5> QED BY <2>1, <4>1, <4>3, <5>1, <5>4, <5>5 DEF Idle
      <4>4. got[c] # <<>>
        BY <2>5, <4>1
      <4>5. \A a \in Tasks : ~Idle(a) => a = b
        BY <2>3 DEF Idle
      <4> QED BY <2>3, <2>5, <4>2, <4>3, <4>4, <4>5 DEF Listening
    <3> QED BY <3>1, <3>2
  <2> QED BY <2>2, <2>3, <2>4, <2>5 DEF Listening, Idle
<1>5. CASE Publish
  <2>1. UNCHANGED <<manager, clients, broadcasts, listening, got>> /\ published' = published + 1
    BY <1>5 DEF Publish
  <2>2. CASE listening
    <3>1. inbox' = Append(inbox, published + 1) /\ inbox \in Seq(Events) /\ published + 1 \in Events
      BY <1>5, <2>2, FanoutAssumption DEF Publish, TypeOK, Events
    <3>2. Len(inbox') = Len(inbox) + 1
      BY <3>1, AppendFacts
    <3>3. Taken' = Taken
      BY <2>1, <3>2, TakenFacts DEF Taken
    <3> QED BY <2>1, <3>3 DEF Listening, Idle
  <2>3. CASE ~listening
    BY <2>1, <2>3 DEF Listening, Idle
  <2> QED BY <2>2, <2>3
<1>6. CASE ListenerEnds
  BY <1>6 DEF ListenerEnds, Listening, Idle
<1>7. CASE UNCHANGED vars
  BY <1>7 DEF vars, Listening, Idle, Taken
<1>8. \A b \in Tasks : ~Alert(b)
  BY DEF Alert
<1> QED BY <1>2, <1>3, <1>4, <1>5, <1>6, <1>7, <1>8 DEF Next

LEMMA OrderStep ==
  TypeOK /\ Connected /\ Iterating /\ Numbered /\ Passing /\ Listening /\ EventsInOrder /\ [Next]_vars
    => EventsInOrder'
<1> SUFFICES ASSUME TypeOK, Connected, Iterating, Numbered, Passing, Listening, EventsInOrder,
                    [Next]_vars, manager = "executions"
             PROVE  EventsInOrder'
  BY ManagerStays DEF EventsInOrder
<1> USE DEF clients, broadcasts, feed, history
<1>1. CASE got' = got
  BY <1>1 DEF EventsInOrder
<1>2. ASSUME NEW b \in Tasks, Broadcast(b) PROVE EventsInOrder'
  <2>1. ~Idle(b)
    BY <1>2, GivenUp
  <2> DEFINE Run(s) == \A i \in 1 .. Len(s) - 1 : s[i + 1] = s[i] + 1
  <2>2. ASSUME NEW c \in Clients PROVE Run(got'[c])
    <3>1. CASE ~(c = Client(b) /\ up[c])
      BY <1>2, <2>1, <3>1, Growth DEF EventsInOrder
    <3>2. CASE c = Client(b) /\ up[c]
      <4>1. /\ got'[c] = Append(got[c], msg[b]) /\ got[c] \in Seq(Events) /\ msg[b] \in Events
        BY <1>2, <2>1, <3>2, Growth
      <4>2. Run(got[c])
        BY DEF EventsInOrder
      <4>3. listening /\ msg[b] = Taken
        BY <2>1 DEF Listening
      <4>4. ~Occurs(msg[b], got[c])
        <5>1. at[b] \in DOMAIN list[b] /\ at[b] \in Nat /\ list[b][at[b]] = c
          BY <2>1, <3>2, ClientFacts DEF Client
        <5> QED BY <2>1, <5>1 DEF Passing
      <4>5. CASE got[c] = <<>>
        <5>1. Len(got'[c]) = 1
          BY <4>1, <4>5
        <5> QED BY <5>1
      <4>6. CASE got[c] # <<>>
        <5> DEFINE s == got[c]
                   n == Len(s)
        <5>1. n \in 1 .. n /\ n \in Nat /\ DOMAIN s = 1 .. n
          BY <4>1, <4>6
        <5>2. s[n] # msg[b]
          BY <4>4, <5>1 DEF Occurs
        <5>3. s[n] = Taken - 1
          BY <3>2, <4>3, <4>6, <5>2 DEF Listening
        <5>4. /\ Len(got'[c]) = n + 1 /\ got'[c][n + 1] = msg[b]
              /\ \A i \in 1 .. n : got'[c][i] = s[i]
          BY <4>1, AppendFacts
        <5>5. msg[b] = s[n] + 1
          <6>1. Taken \in Nat
            BY <4>1, <4>3 DEF Events
          <6> QED BY <4>3, <5>3, <6>1
        <5>6. ASSUME NEW i \in 1 .. Len(got'[c]) - 1 PROVE got'[c][i + 1] = got'[c][i] + 1
          <6>1. CASE i = n
            BY <5>1, <5>4, <5>5, <6>1
          <6>2. CASE i # n
            <7>1. i \in 1 .. n - 1 /\ i \in 1 .. n /\ i + 1 \in 1 .. n
              BY <5>1, <5>4, <5>6, <6>2
            <7>2. s[i + 1] = s[i] + 1
              BY <4>2, <7>1
            <7> QED BY <5>4, <7>1, <7>2
          <6> QED BY <6>1, <6>2
        <5> QED BY <5>6
      <4> QED BY <4>5, <4>6
    <3> QED BY <3>1, <3>2
  <2> QED BY <2>2 DEF EventsInOrder
<1>3. ASSUME NEW c \in Clients, Handle(c) PROVE got' = got
  BY <1>3, ClientSteps
<1>4. ASSUME NEW b \in Tasks, Alert(b) \/ Take(b) PROVE got' = got
  BY <1>4 DEF Alert, Take
<1>5. Publish \/ ListenerEnds \/ UNCHANGED vars => got' = got
  BY DEF Publish, ListenerEnds, vars
<1> QED BY <1>1, <1>2, <1>3, <1>4, <1>5 DEF Next

-----------------------------------------------------------------------------
(* The theorems *)

LEMMA InvCorrect == Spec => []Inv
<1>1. Init => Inv
  BY TypeInit, ListsInit, MessagesInit, OrderInit DEF Inv
<1>2. Inv /\ [Next]_vars => Inv'
  <2> SUFFICES ASSUME Inv, [Next]_vars PROVE Inv'
    OBVIOUS
  <2>1. TypeOK' /\ Connected' /\ Iterating'
    BY TypeStep, ConnectedStep, IteratingStep DEF Inv
  <2>2. Numbered' /\ Passing' /\ Received'
    BY NumberedStep, PassingStep, ReceivedStep DEF Inv
  <2>3. Listening' /\ EventsInOrder'
    BY ListeningStep, OrderStep DEF Inv
  <2> QED BY <2>1, <2>2, <2>3 DEF Inv
<1> QED BY <1>1, <1>2, PTL DEF Spec

\* Type correctness: the lists hold clients, an iteration stays within the list
\* it goes over, and the messages are within the bound.
THEOREM TypeCorrect == Spec => []TypeOK
<1>1. Inv => TypeOK
  BY DEF Inv
<1> QED BY <1>1, InvCorrect, PTL

\* Every client connected when a broadcast begins, that wants the message and
\* stays, is sent it exactly once, whatever connect, disconnect and the other
\* broadcasts do at the awaits of the loop; nobody is sent a message twice.
THEOREM BroadcastsReachOnce == Spec => []OnceEach
<1>1. ASSUME Inv PROVE OnceEach
  <2> SUFFICES ASSUME NEW c \in Clients, NEW e \in Events
               PROVE  /\ Times(c, e) <= (IF Wants(c, e) THEN 1 ELSE 0)
                      /\ c \in audience[e] /\ Over(e) /\ Wants(c, e) /\ up[c] => Times(c, e) = 1
    BY DEF OnceEach
  <2> DEFINE At == {i \in DOMAIN got[c] : got[c][i] = e}
  <2>1. Distinct(got[c]) /\ (Occurs(e, got[c]) => Wants(c, e))
    BY <1>1 DEF Inv, Received
  <2>2. CASE Occurs(e, got[c])
    <3>1. PICK i \in DOMAIN got[c] : got[c][i] = e
      BY <2>2 DEF Occurs
    <3>2. At = {i}
      BY <2>1, <3>1 DEF Distinct
    <3>3. Times(c, e) = 1
      BY <3>2, FS_Singleton DEF Times
    <3> QED BY <2>1, <2>2, <3>3
  <2>3. CASE ~Occurs(e, got[c])
    <3>1. At = {}
      BY <2>3 DEF Occurs
    <3>2. Times(c, e) = 0
      BY <3>1, FS_EmptySet DEF Times
    <3>3. ~(c \in audience[e] /\ Over(e) /\ Wants(c, e) /\ up[c])
      BY <1>1, <2>3 DEF Inv, Received, Over
    <3> QED BY <3>2, <3>3
  <2> QED BY <2>2, <2>3
<1> QED BY <1>1, InvCorrect, PTL

\* What a client receives of the execution events is a run of consecutive
\* messages: the listener awaits a broadcast before it takes the next one.
THEOREM EventsStayInOrder == Spec => []EventsInOrder
<1>1. Inv => EventsInOrder
  BY DEF Inv
<1> QED BY <1>1, InvCorrect, PTL
=============================================================================
