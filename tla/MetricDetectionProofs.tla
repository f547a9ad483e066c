------------------------ MODULE MetricDetectionProofs ------------------------
(***************************************************************************)
(* Proofs about MetricDetection: typing, the two cooldowns, and which      *)
(* point a caller scores, for any callers, points, detectors and rules.    *)
(***************************************************************************)
EXTENDS MetricDetection, FiniteSetTheorems, WellFoundedInduction, TLAPS

\* The least of a set of naturals, which names the detector or rule at hand.
LEMMA FirstMember ==
  ASSUME NEW S \in SUBSET Nat, S # {} PROVE First(S) \in S /\ \A y \in S : First(S) <= y
<1> DEFINE Less == {ss \in Nat \X Nat : ss[1] < ss[2]}
<1>1. OpToRel(<, Nat) = Less
  BY Zenon DEF OpToRel
<1>2. IsWellFoundedOn(Less, Nat)
  BY <1>1, NatLessThanWellFounded, Zenon
<1> HIDE DEF Less
<1>3. PICK x \in S : \A y \in S : ~(<<y, x>> \in Less)
  BY <1>2, WFMin
<1>4. ASSUME NEW y \in S PROVE x <= y
  <2>1. <<y, x>> \notin {ss \in Nat \X Nat : ss[1] < ss[2]}
    BY <1>3 DEF Less
  <2>2. ~(y < x)
    BY <2>1
  <2> QED BY <2>2
<1> QED BY <1>4 DEF First

\* The newest of a set of points, which is what gets scored.
LEMMA NewestMember ==
  ASSUME NEW S \in SUBSET Points, S # {} PROVE Newest(S) \in S /\ \A y \in S : y <= Newest(S)
<1> DEFINE Turned == {MaxPoint - p : p \in S}
<1>0. MaxPoint \in Nat /\ \A p \in S : p \in Nat /\ p <= MaxPoint
  BY DetectionAssumption DEF Points
<1>1. Turned \in SUBSET Nat /\ Turned # {}
  BY <1>0
<1>2. First(Turned) \in Turned /\ \A y \in Turned : First(Turned) <= y
  BY <1>1, FirstMember
<1>3. PICK x \in S : First(Turned) = MaxPoint - x
  BY <1>2
<1>4. ASSUME NEW y \in S PROVE y <= x
  <2>1. MaxPoint - x <= MaxPoint - y
    BY <1>2, <1>3
  <2> QED BY <1>0, <2>1
<1> QED BY <1>4 DEF Newest

LEMMA FiniteSubset ==
  ASSUME NEW S \in SUBSET Points PROVE IsFiniteSet(S) /\ Cardinality(S) \in Nat
<1>1. IsFiniteSet(Points)
  BY FS_Interval, DetectionAssumption DEF Points
<1> QED BY <1>1, FS_Subset, FS_CardinalityType

\* Where a caller handles a detector or a rule, there is one.
Handling ==
  \A c \in Callers :
    /\ pc[c] \in {"record", "arm", "rules", "armRule", "notify"} => hits[c] # {}
    /\ pc[c] = "armRule" => todo[c] # {}
    /\ pc[c] \notin {"idle", "commit"} => left[c] # 0

LEMMA TypeInit == Init => TypeOK /\ Handling
<1> SUFFICES ASSUME Init PROVE TypeOK /\ Handling
  OBVIOUS
<1> USE DEF Init
<1>1. /\ window \subseteq Points /\ rows \subseteq Points /\ cooldown \subseteq Detectors
      /\ ruleCooldown \subseteq Rules /\ added \subseteq Points /\ overlapped \in BOOLEAN
      /\ abandoned \in Nat /\ lost \subseteq Detectors
  OBVIOUS
<1>2. /\ pc \in [Callers -> {"idle", "add", "count", "trim", "read", "check", "record", "arm",
                             "rules", "armRule", "notify", "commit"}]
      /\ ingests \in [Callers -> BOOLEAN] /\ left \in [Callers -> Nat]
      /\ point \in [Callers -> Points \cup {Nothing}] /\ fresh \in [Callers -> SUBSET Points]
  OBVIOUS
<1>3. /\ counted \in [Callers -> Nat] /\ current \in [Callers -> Points \cup {Nothing}]
      /\ hits \in [Callers -> SUBSET Detectors] /\ todo \in [Callers -> SUBSET Rules]
      /\ matched \in [Callers -> SUBSET Rules]
  OBVIOUS
<1>4. /\ open \in [Callers -> [Detectors -> Nat]] /\ kept \in [Callers -> [Detectors -> Nat]]
      /\ told \in [Callers -> [Rules -> Nat]]
  OBVIOUS
<1>5. contenders \in [Detectors -> SUBSET Callers] /\ ruleContenders \in [Rules -> SUBSET Callers]
  OBVIOUS
<1> QED BY <1>1, <1>2, <1>3, <1>4, <1>5 DEF TypeOK, Handling

LEMMA AtHand ==
  ASSUME TypeOK, Handling, NEW c \in Callers
  PROVE  /\ hits[c] # {} => Detector(c) \in hits[c] /\ Detector(c) \in Detectors
         /\ todo[c] # {} => Rule(c) \in todo[c] /\ Rule(c) \in Rules
<1>1. hits[c] \in SUBSET Nat /\ hits[c] \subseteq Detectors
  BY DetectionAssumption DEF TypeOK
<1>2. todo[c] \in SUBSET Nat /\ todo[c] \subseteq Rules
  BY DetectionAssumption DEF TypeOK
<1>3. hits[c] # {} => Detector(c) \in hits[c]
  BY <1>1, FirstMember DEF Detector
<1>4. todo[c] # {} => Rule(c) \in todo[c]
  BY <1>2, FirstMember DEF Rule
<1> QED BY <1>1, <1>2, <1>3, <1>4

LEMMA TypeStep ==
  ASSUME TypeOK, Handling, [Next]_vars
  PROVE  TypeOK' /\ Handling'
<1>0. \A c \in Callers :
        /\ hits[c] # {} => Detector(c) \in hits[c] /\ Detector(c) \in Detectors
        /\ todo[c] # {} => Rule(c) \in todo[c] /\ Rule(c) \in Rules
  BY AtHand
<1>f. \A S \in SUBSET Points : IsFiniteSet(S) /\ Cardinality(S) \in Nat
  BY FiniteSubset
<1> USE DEF TypeOK, Handling, redis, round, request, anomalies, history
<1>1. ASSUME NEW c \in Callers, NEW n \in 1 .. MaxBatch, BeginIngest(c, n)
      PROVE  TypeOK' /\ Handling'
  BY <1>1, DetectionAssumption DEF BeginIngest, Go
<1>2. ASSUME NEW c \in Callers, BeginBatch(c) PROVE TypeOK' /\ Handling'
  <2>1. Cardinality(rows) \in Nat /\ Cardinality(rows) # 0
    BY <1>2, <1>f, FS_EmptySet DEF BeginBatch
  <2> QED BY <1>2, <2>1 DEF BeginBatch, Go
<1>3. ASSUME NEW c \in Callers, NEW p \in Points, ZAdd(c, p) PROVE TypeOK' /\ Handling'
  BY <1>3 DEF ZAdd, Go
<1>4. ASSUME NEW c \in Callers, ZCard(c) PROVE TypeOK' /\ Handling'
  <2>1. Cardinality(window) \in Nat
    BY <1>f
  <2> QED BY <1>4, <2>1 DEF ZCard, Go
<1>5. ASSUME NEW c \in Callers, Trim(c) PROVE TypeOK' /\ Handling'
  BY <1>5 DEF Trim, Go
<1>e. ASSUME NEW c \in Callers, EndRound(c, "read") \/ EndRound(c, "check"),
             UNCHANGED <<redis, rows, counted, hits, todo, matched, ingests, fresh, anomalies,
                         history>>
      PROVE  TypeOK' /\ Handling'
  <2>a. pc[c] \in {"read", "check"}
    BY <1>e DEF EndRound, Go
  <2>1. left[c] \in Nat /\ left[c] # 0 /\ left[c] - 1 \in Nat
    <3>1. left[c] \in Nat
      OBVIOUS
    <3>2. left[c] # 0
      BY <2>a
    <3> QED BY <3>1, <3>2
  <2>2. left' \in [Callers -> Nat]
    <3>1. left' = [left EXCEPT ![c] = left[c] - 1]
      BY <1>e DEF EndRound
    <3> QED BY <2>1, <3>1
  <2>3. /\ pc' \in [Callers -> {"idle", "add", "count", "trim", "read", "check", "record", "arm",
                                "rules", "armRule", "notify", "commit"}]
        /\ pc'[c] \in {"commit", "add", "read"} /\ (pc'[c] # "commit" => left[c] # 1)
    <3>1. pc' = [pc EXCEPT ![c] = IF left[c] = 1 THEN "commit" ELSE IF ingests[c] THEN "add" ELSE "read"]
      BY <1>e DEF EndRound, Go, LastRound
    <3> DEFINE next == IF left[c] = 1 THEN "commit" ELSE IF ingests[c] THEN "add" ELSE "read"
    <3>2. next \in {"commit", "add", "read"} /\ (next # "commit" => left[c] # 1)
      OBVIOUS
    <3>3. pc \in [Callers -> {"idle", "add", "count", "trim", "read", "check", "record", "arm",
                              "rules", "armRule", "notify", "commit"}]
      OBVIOUS
    <3> HIDE DEF next, TypeOK, Handling
    <3>4. pc' = [pc EXCEPT ![c] = next]
      BY <3>1 DEF next
    <3> QED BY <3>2, <3>3, <3>4
  <2>4. point' \in [Callers -> Points \cup {Nothing}] /\ current' \in [Callers -> Points \cup {Nothing}]
    BY <1>e DEF EndRound
  <2>5. pc'[c] # "commit" => left'[c] # 0
    <3>1. left'[c] = left[c] - 1
      BY <1>e DEF EndRound
    <3> QED BY <2>1, <2>3, <3>1
  <2>6. \A b \in Callers : b # c => pc'[b] = pc[b] /\ left'[b] = left[b]
    BY <1>e DEF EndRound, Go
  <2>7. Handling'
    BY <1>e, <2>3, <2>5, <2>6
  <2> QED BY <1>e, <2>2, <2>3, <2>4, <2>7
<1>6. ASSUME NEW c \in Callers, ReadEmpty(c) \/ EndDetection(c) PROVE TypeOK' /\ Handling'
  BY <1>6, <1>e DEF ReadEmpty, EndDetection
<1>7. ASSUME NEW c \in Callers, Read(c) PROVE TypeOK' /\ Handling'
  <2>1. Newest(window) \in Points
    BY <1>7, NewestMember DEF Read
  <2> QED BY <1>7, <2>1 DEF Read, Go, Scored
<1>8. ASSUME NEW c \in Callers, SkipDetector(c) PROVE TypeOK' /\ Handling'
  BY <1>0, <1>8 DEF SkipDetector, Go
<1>9. ASSUME NEW c \in Callers, CheckCooldown(c) PROVE TypeOK' /\ Handling'
  BY <1>0, <1>9 DEF CheckCooldown, Go
<1>10. ASSUME NEW c \in Callers, Record(c) PROVE TypeOK' /\ Handling'
  <2>1. Detector(c) \in Detectors
    <3>1. pc[c] = "record"
      BY <1>10 DEF Record, Go
    <3>2. hits[c] # {}
      BY <3>1
    <3> HIDE DEF TypeOK, Handling
    <3> QED BY <3>2, AtHand, Zenon
  <2>2. open' \in [Callers -> [Detectors -> Nat]]
    <3>1. open' = [open EXCEPT ![c] = [open[c] EXCEPT ![Detector(c)] = open[c][Detector(c)] + 1]]
      BY <1>10 DEF Record
    <3>2. [open[c] EXCEPT ![Detector(c)] = open[c][Detector(c)] + 1] \in [Detectors -> Nat]
      BY <2>1
    <3> HIDE DEF TypeOK
    <3>3. open \in [Callers -> [Detectors -> Nat]]
      BY DEF TypeOK
    <3> QED BY <3>1, <3>2, <3>3
  <2>3. /\ pc' \in [Callers -> {"idle", "add", "count", "trim", "read", "check", "record", "arm",
                                "rules", "armRule", "notify", "commit"}]
        /\ Handling'
    BY <1>10 DEF Record, Go
  <2> QED BY <1>10, <2>2, <2>3 DEF Record
<1>11. ASSUME NEW c \in Callers, Arm(c) PROVE TypeOK' /\ Handling'
  <2>1. cooldown' \subseteq Detectors
    <3>1. pc[c] = "arm" /\ cooldown' = cooldown \cup {Detector(c)}
      BY <1>11 DEF Arm, Go
    <3>2. hits[c] # {}
      BY <3>1
    <3>3. Detector(c) \in Detectors
      BY <3>2, AtHand
    <3> QED BY <3>1, <3>3
  <2>2. todo' \in [Callers -> SUBSET Rules]
    BY <1>11 DEF Arm
  <2>3. /\ pc' \in [Callers -> {"idle", "add", "count", "trim", "read", "check", "record", "arm",
                                "rules", "armRule", "notify", "commit"}]
        /\ Handling'
    BY <1>11 DEF Arm, Go
  <2>4. contenders' \in [Detectors -> SUBSET Callers]
    <3>1. Storing(Detector(c)) \subseteq Callers
      BY DEF Storing
    <3> QED BY <1>11, <3>1 DEF Arm
  <2> QED BY <1>11, <2>1, <2>2, <2>3, <2>4 DEF Arm
<1>12. ASSUME NEW c \in Callers, SkipRule(c) PROVE TypeOK' /\ Handling'
  BY <1>0, <1>12 DEF SkipRule, Go
<1>13. ASSUME NEW c \in Callers, CheckRule(c) PROVE TypeOK' /\ Handling'
  BY <1>0, <1>13 DEF CheckRule, Go
<1>14. ASSUME NEW c \in Callers, ArmRule(c) PROVE TypeOK' /\ Handling'
  <2>1. Rule(c) \in Rules
    <3>1. pc[c] = "armRule"
      BY <1>14 DEF ArmRule, Go
    <3>2. todo[c] # {}
      BY <3>1
    <3> HIDE DEF TypeOK, Handling
    <3> QED BY <3>2, AtHand, Zenon
  <2>2. told' \in [Callers -> [Rules -> Nat]]
    <3>1. told' = [told EXCEPT ![c] = [told[c] EXCEPT ![Rule(c)] = told[c][Rule(c)] + 1]]
      BY <1>14 DEF ArmRule
    <3>2. [told[c] EXCEPT ![Rule(c)] = told[c][Rule(c)] + 1] \in [Rules -> Nat]
      BY <2>1
    <3> HIDE DEF TypeOK
    <3>3. told \in [Callers -> [Rules -> Nat]]
      BY DEF TypeOK
    <3> QED BY <3>1, <3>2, <3>3
  <2>3. ruleCooldown' \subseteq Rules /\ matched' \in [Callers -> SUBSET Rules]
    BY <1>14, <2>1 DEF ArmRule
  <2>4. todo' \in [Callers -> SUBSET Rules]
    BY <1>14 DEF ArmRule
  <2>5. /\ pc' \in [Callers -> {"idle", "add", "count", "trim", "read", "check", "record", "arm",
                                "rules", "armRule", "notify", "commit"}]
        /\ Handling'
    BY <1>14 DEF ArmRule, Go
  <2>6. ruleContenders' \in [Rules -> SUBSET Callers]
    <3>1. Telling(Rule(c)) \subseteq Callers
      BY DEF Telling
    <3> QED BY <1>14, <3>1 DEF ArmRule
  <2> QED BY <1>14, <2>2, <2>3, <2>4, <2>5, <2>6 DEF ArmRule
<1>15. ASSUME NEW c \in Callers, EndRules(c) PROVE TypeOK' /\ Handling'
  BY <1>0, <1>15 DEF EndRules, Go
<1>16. ASSUME NEW c \in Callers, Notify(c) PROVE TypeOK' /\ Handling'
  BY <1>0, <1>16 DEF Notify, Go
<1>17. ASSUME NEW c \in Callers, Commit(c) PROVE TypeOK' /\ Handling'
  BY <1>0, <1>17 DEF Commit, Go
<1>18. ASSUME NEW c \in Callers, Fail(c) PROVE TypeOK' /\ Handling'
  BY <1>0, <1>18 DEF Fail, Go
<1>19. ASSUME NEW d \in Detectors, CooldownEnds(d) PROVE TypeOK' /\ Handling'
  BY <1>19 DEF CooldownEnds
<1>20. ASSUME NEW r \in Rules, RuleCooldownEnds(r) PROVE TypeOK' /\ Handling'
  BY <1>20 DEF RuleCooldownEnds
<1>21. CASE UNCHANGED vars
  BY <1>21 DEF vars
<1> QED BY <1>1, <1>2, <1>3, <1>4, <1>5, <1>6, <1>7, <1>8, <1>9, <1>10, <1>11, <1>12, <1>13, <1>14, <1>15, <1>16, <1>17, <1>18, <1>19, <1>20, <1>21 DEF Next, Ingest, Detect

\* The model is typed whatever the callers do.
THEOREM TypeCorrect == Spec => []TypeOK
<1>1. TypeOK /\ Handling /\ [Next]_vars => TypeOK' /\ Handling'
  BY TypeStep
<1> QED BY <1>1, TypeInit, PTL DEF Spec

-----------------------------------------------------------------------------
(* The cooldown of a detector *)

\* What a caller has stored of a detector is under its cooldown, but for the
\* row it is about to arm the cooldown for; when it goes to store a row, it has
\* none.
RowsUnderCooldown ==
  \A c \in Callers, d \in Detectors :
    /\ kept[c][d] # 0 => d \in cooldown
    /\ open[c][d] # 0 => d \in cooldown \/ (pc[c] = "arm" /\ d = Detector(c))
    /\ pc[c] = "record" /\ d = Detector(c) => open[c][d] = 0 /\ kept[c][d] = 0
    /\ open[c][d] + kept[c][d] <= 1

\* A step that touches neither rows nor cooldowns, and sends a caller to store a
\* row only when the detector is not cooling down.
LEMMA RowsKept ==
  ASSUME TypeOK, RowsUnderCooldown, UNCHANGED <<cooldown, open, kept>>,
         \A c \in Callers :
           \/ pc'[c] = pc[c] /\ hits'[c] = hits[c]
           \/ pc[c] \notin {"record", "arm"} /\ pc'[c] \notin {"record", "arm"}
           \/ /\ pc[c] = "check" /\ pc'[c] = "record" /\ hits'[c] = hits[c]
              /\ Detector(c) \notin cooldown
  PROVE  RowsUnderCooldown'
<1> SUFFICES ASSUME NEW c \in Callers, NEW d \in Detectors
             PROVE  /\ kept[c][d] # 0 => d \in cooldown
                    /\ open[c][d] # 0 => d \in cooldown \/ (pc'[c] = "arm" /\ d = First(hits'[c]))
                    /\ pc'[c] = "record" /\ d = First(hits'[c]) => open[c][d] = 0 /\ kept[c][d] = 0
                    /\ open[c][d] + kept[c][d] <= 1
  BY DEF RowsUnderCooldown, Detector
<1>1. /\ kept[c][d] # 0 => d \in cooldown
      /\ open[c][d] # 0 => d \in cooldown \/ (pc[c] = "arm" /\ d = First(hits[c]))
      /\ pc[c] = "record" /\ d = First(hits[c]) => open[c][d] = 0 /\ kept[c][d] = 0
      /\ open[c][d] + kept[c][d] <= 1
  BY DEF RowsUnderCooldown, Detector
<1>2. \/ pc'[c] = pc[c] /\ hits'[c] = hits[c]
      \/ pc[c] \notin {"record", "arm"} /\ pc'[c] \notin {"record", "arm"}
      \/ /\ pc[c] = "check" /\ pc'[c] = "record" /\ hits'[c] = hits[c]
         /\ First(hits[c]) \notin cooldown
  BY DEF Detector
<1> QED BY <1>1, <1>2

LEMMA RowsStep ==
  ASSUME TypeOK, Handling, RowsUnderCooldown, [Next]_vars
  PROVE  RowsUnderCooldown'
<1>t. /\ open \in [Callers -> [Detectors -> Nat]] /\ kept \in [Callers -> [Detectors -> Nat]]
      /\ hits \in [Callers -> SUBSET Detectors]
      /\ pc \in [Callers -> {"idle", "add", "count", "trim", "read", "check", "record", "arm",
                             "rules", "armRule", "notify", "commit"}]
  BY DEF TypeOK
<1> DEFINE Kept == /\ UNCHANGED <<cooldown, open, kept>>
                   /\ \A c \in Callers :
                        \/ pc'[c] = pc[c] /\ hits'[c] = hits[c]
                        \/ pc[c] \notin {"record", "arm"} /\ pc'[c] \notin {"record", "arm"}
                        \/ /\ pc[c] = "check" /\ pc'[c] = "record" /\ hits'[c] = hits[c]
                           /\ Detector(c) \notin cooldown
<1>k. Kept => RowsUnderCooldown'
  BY RowsKept
<1>1. ASSUME NEW c \in Callers, NEW n \in 1 .. MaxBatch, BeginIngest(c, n) PROVE Kept
  BY <1>t, <1>1 DEF BeginIngest, Go, redis, round, anomalies
<1>2. ASSUME NEW c \in Callers, BeginBatch(c) PROVE Kept
  BY <1>t, <1>2 DEF BeginBatch, Go, redis, round, anomalies
<1>3. ASSUME NEW c \in Callers, NEW p \in Points, ZAdd(c, p) PROVE Kept
  BY <1>t, <1>3 DEF ZAdd, Go, anomalies
<1>4. ASSUME NEW c \in Callers, ZCard(c) PROVE Kept
  BY <1>t, <1>4 DEF ZCard, Go, redis, anomalies
<1>5. ASSUME NEW c \in Callers, Trim(c) PROVE Kept
  BY <1>t, <1>5 DEF Trim, Go, anomalies
<1>6. ASSUME NEW c \in Callers, ReadEmpty(c) PROVE Kept
  BY <1>t, <1>6 DEF ReadEmpty, EndRound, Go, redis, anomalies
<1>7. ASSUME NEW c \in Callers, Read(c) PROVE Kept
  BY <1>t, <1>7 DEF Read, Go, redis, anomalies
<1>8. ASSUME NEW c \in Callers, EndDetection(c) PROVE Kept
  BY <1>t, <1>8 DEF EndDetection, EndRound, Go, redis, anomalies
<1>9. ASSUME NEW c \in Callers, SkipDetector(c) PROVE Kept
  BY <1>t, <1>9 DEF SkipDetector, Go, redis, anomalies
<1>10. ASSUME NEW c \in Callers, CheckCooldown(c) PROVE Kept
  BY <1>t, <1>10 DEF CheckCooldown, IsCooling, Go, redis, round, anomalies
<1>11. ASSUME NEW c \in Callers, SkipRule(c) PROVE Kept
  BY <1>t, <1>11 DEF SkipRule, Go, redis, anomalies
<1>12. ASSUME NEW c \in Callers, CheckRule(c) PROVE Kept
  BY <1>t, <1>12 DEF CheckRule, Go, redis, round, anomalies
<1>13. ASSUME NEW c \in Callers, ArmRule(c) PROVE Kept
  BY <1>t, <1>13 DEF ArmRule, Go
<1>14. ASSUME NEW c \in Callers, EndRules(c) PROVE Kept
  BY <1>t, <1>14 DEF EndRules, Go, redis, round, anomalies
<1>15. ASSUME NEW c \in Callers, Notify(c) PROVE Kept
  BY <1>t, <1>15 DEF Notify, Go, redis, anomalies
<1>16. ASSUME NEW r \in Rules, RuleCooldownEnds(r) PROVE Kept
  BY <1>t, <1>16 DEF RuleCooldownEnds, round
<1>17. CASE UNCHANGED vars
  BY <1>17, <1>k DEF vars, redis, round, anomalies
<1> HIDE DEF Kept
<1>18. ASSUME NEW c \in Callers, Record(c) PROVE RowsUnderCooldown'
  <2>1. /\ pc[c] = "record" /\ pc' = [pc EXCEPT ![c] = "arm"]
        /\ open' = [open EXCEPT ![c] = [open[c] EXCEPT ![Detector(c)] = open[c][Detector(c)] + 1]]
        /\ UNCHANGED <<cooldown, hits, kept>>
    BY <1>18 DEF Record, Go, redis, round
  <2>2. hits[c] # {}
    BY <2>1 DEF Handling
  <2>3. Detector(c) \in Detectors
    BY <2>2, AtHand
  <2>4. open[c][Detector(c)] = 0 /\ kept[c][Detector(c)] = 0
    BY <2>1, <2>3 DEF RowsUnderCooldown
  <2>5. \A b \in Callers, d \in Detectors :
          IF b = c /\ d = Detector(c) THEN open'[b][d] = 1 ELSE open'[b][d] = open[b][d]
    BY <1>t, <2>1, <2>3, <2>4
  <2>6. \A b \in Callers : b # c => pc'[b] = pc[b]
    BY <1>t, <2>1
  <2>7. pc'[c] = "arm"
    BY <1>t, <2>1
  <2> SUFFICES ASSUME NEW b \in Callers, NEW d \in Detectors
               PROVE  /\ kept[b][d] # 0 => d \in cooldown
                      /\ open'[b][d] # 0 => d \in cooldown \/ (pc'[b] = "arm" /\ d = First(hits[b]))
                      /\ pc'[b] = "record" /\ d = First(hits[b]) => open'[b][d] = 0 /\ kept[b][d] = 0
                      /\ open'[b][d] + kept[b][d] <= 1
    BY <2>1 DEF RowsUnderCooldown, Detector
  <2>8. /\ kept[b][d] # 0 => d \in cooldown
        /\ open[b][d] # 0 => d \in cooldown \/ (pc[b] = "arm" /\ d = First(hits[b]))
        /\ pc[b] = "record" /\ d = First(hits[b]) => open[b][d] = 0 /\ kept[b][d] = 0
        /\ open[b][d] + kept[b][d] <= 1
    BY DEF RowsUnderCooldown, Detector
  <2>9. CASE b = c /\ d = First(hits[c])
    BY <2>4, <2>5, <2>7, <2>8, <2>9 DEF Detector
  <2>10. CASE ~(b = c /\ d = First(hits[c]))
    <3>1. open'[b][d] = open[b][d]
      BY <2>5, <2>10 DEF Detector
    <3> QED BY <2>1, <2>6, <2>7, <2>8, <3>1
  <2> QED BY <2>9, <2>10
<1>19. ASSUME NEW c \in Callers, Arm(c) PROVE RowsUnderCooldown'
  <2>1. /\ pc[c] = "arm" /\ pc' = [pc EXCEPT ![c] = "rules"]
        /\ cooldown' = cooldown \cup {Detector(c)}
        /\ UNCHANGED <<open, kept, hits>>
    BY <1>19 DEF Arm, Go, anomalies
  <2>2. pc'[c] = "rules" /\ \A b \in Callers : b # c => pc'[b] = pc[b]
    BY <1>t, <2>1
  <2> SUFFICES ASSUME NEW b \in Callers, NEW d \in Detectors
               PROVE  /\ kept[b][d] # 0 => d \in cooldown'
                      /\ open[b][d] # 0 => d \in cooldown' \/ (pc'[b] = "arm" /\ d = First(hits[b]))
                      /\ pc'[b] = "record" /\ d = First(hits[b]) => open[b][d] = 0 /\ kept[b][d] = 0
                      /\ open[b][d] + kept[b][d] <= 1
    BY <2>1 DEF RowsUnderCooldown, Detector
  <2>3. /\ kept[b][d] # 0 => d \in cooldown
        /\ open[b][d] # 0 => d \in cooldown \/ (pc[b] = "arm" /\ d = First(hits[b]))
        /\ pc[b] = "record" /\ d = First(hits[b]) => open[b][d] = 0 /\ kept[b][d] = 0
        /\ open[b][d] + kept[b][d] <= 1
    BY DEF RowsUnderCooldown, Detector
  <2> QED BY <2>1, <2>2, <2>3 DEF Detector
<1>20. ASSUME NEW c \in Callers, Commit(c) PROVE RowsUnderCooldown'
  <2>1. /\ pc[c] = "commit" /\ pc' = [pc EXCEPT ![c] = "idle"]
        /\ kept' = [kept EXCEPT ![c] = [d \in Detectors |-> kept[c][d] + open[c][d]]]
        /\ open' = [open EXCEPT ![c] = [d \in Detectors |-> 0]]
        /\ UNCHANGED <<cooldown, hits>>
    BY <1>20 DEF Commit, Go, redis, round
  <2>2. pc'[c] = "idle" /\ \A b \in Callers : b # c => pc'[b] = pc[b]
    BY <1>t, <2>1
  <2>3. \A b \in Callers, d \in Detectors :
          IF b = c THEN open'[b][d] = 0 /\ kept'[b][d] = kept[b][d] + open[b][d]
                   ELSE open'[b][d] = open[b][d] /\ kept'[b][d] = kept[b][d]
    BY <1>t, <2>1
  <2> SUFFICES ASSUME NEW b \in Callers, NEW d \in Detectors
               PROVE  /\ kept'[b][d] # 0 => d \in cooldown
                      /\ open'[b][d] # 0 => d \in cooldown \/ (pc'[b] = "arm" /\ d = First(hits[b]))
                      /\ pc'[b] = "record" /\ d = First(hits[b]) => open'[b][d] = 0 /\ kept'[b][d] = 0
                      /\ open'[b][d] + kept'[b][d] <= 1
    BY <2>1 DEF RowsUnderCooldown, Detector
  <2>4. /\ kept[b][d] # 0 => d \in cooldown
        /\ open[b][d] # 0 => d \in cooldown \/ (pc[b] = "arm" /\ d = First(hits[b]))
        /\ pc[b] = "record" /\ d = First(hits[b]) => open[b][d] = 0 /\ kept[b][d] = 0
        /\ open[b][d] + kept[b][d] <= 1
    BY DEF RowsUnderCooldown, Detector
  <2>5. open[b][d] \in Nat /\ kept[b][d] \in Nat
    BY <1>t
  <2>6. CASE b = c
    BY <2>1, <2>2, <2>3, <2>4, <2>5, <2>6
  <2>7. CASE b # c
    BY <2>2, <2>3, <2>4, <2>7
  <2> QED BY <2>6, <2>7
<1>21. ASSUME NEW c \in Callers, Fail(c) PROVE RowsUnderCooldown'
  <2>1. /\ pc' = [pc EXCEPT ![c] = "idle"] /\ hits' = [hits EXCEPT ![c] = {}]
        /\ open' = [open EXCEPT ![c] = [d \in Detectors |-> 0]]
        /\ UNCHANGED <<cooldown, kept>>
    BY <1>21 DEF Fail, redis
  <2>2. pc'[c] = "idle" /\ \A b \in Callers : b # c => pc'[b] = pc[b] /\ hits'[b] = hits[b]
    BY <1>t, <2>1
  <2>3. \A b \in Callers, d \in Detectors :
          IF b = c THEN open'[b][d] = 0 ELSE open'[b][d] = open[b][d]
    BY <1>t, <2>1
  <2> SUFFICES ASSUME NEW b \in Callers, NEW d \in Detectors
               PROVE  /\ kept[b][d] # 0 => d \in cooldown
                      /\ open'[b][d] # 0 => d \in cooldown \/ (pc'[b] = "arm" /\ d = First(hits'[b]))
                      /\ pc'[b] = "record" /\ d = First(hits'[b]) => open'[b][d] = 0 /\ kept[b][d] = 0
                      /\ open'[b][d] + kept[b][d] <= 1
    BY <2>1 DEF RowsUnderCooldown, Detector
  <2>4. /\ kept[b][d] # 0 => d \in cooldown
        /\ open[b][d] # 0 => d \in cooldown \/ (pc[b] = "arm" /\ d = First(hits[b]))
        /\ pc[b] = "record" /\ d = First(hits[b]) => open[b][d] = 0 /\ kept[b][d] = 0
        /\ open[b][d] + kept[b][d] <= 1
    BY DEF RowsUnderCooldown, Detector
  <2>5. open[b][d] \in Nat /\ kept[b][d] \in Nat
    BY <1>t
  <2>6. CASE b = c
    BY <2>2, <2>3, <2>4, <2>5, <2>6
  <2>7. CASE b # c
    BY <2>2, <2>3, <2>4, <2>7
  <2> QED BY <2>6, <2>7
<1>22. ASSUME NEW e \in Detectors, CooldownEnds(e) PROVE RowsUnderCooldown'
  <2>1. /\ cooldown' = cooldown \ {e}
        /\ open' = [c \in Callers |-> IF Arming(c, e) THEN open[c] ELSE [open[c] EXCEPT ![e] = 0]]
        /\ kept' = [c \in Callers |-> [kept[c] EXCEPT ![e] = 0]]
        /\ UNCHANGED <<pc, hits>>
    BY <1>22 DEF CooldownEnds, round
  <2>2. \A b \in Callers, d \in Detectors :
          IF d = e THEN /\ kept'[b][d] = 0
                        /\ open'[b][d] = IF Arming(b, d) THEN open[b][d] ELSE 0
                   ELSE open'[b][d] = open[b][d] /\ kept'[b][d] = kept[b][d]
    BY <1>t, <2>1
  <2> SUFFICES ASSUME NEW b \in Callers, NEW d \in Detectors
               PROVE  /\ kept'[b][d] # 0 => d \in cooldown'
                      /\ open'[b][d] # 0 => d \in cooldown' \/ (pc[b] = "arm" /\ d = First(hits[b]))
                      /\ pc[b] = "record" /\ d = First(hits[b]) => open'[b][d] = 0 /\ kept'[b][d] = 0
                      /\ open'[b][d] + kept'[b][d] <= 1
    BY <2>1 DEF RowsUnderCooldown, Detector
  <2>3. /\ kept[b][d] # 0 => d \in cooldown
        /\ open[b][d] # 0 => d \in cooldown \/ (pc[b] = "arm" /\ d = First(hits[b]))
        /\ pc[b] = "record" /\ d = First(hits[b]) => open[b][d] = 0 /\ kept[b][d] = 0
        /\ open[b][d] + kept[b][d] <= 1
    BY DEF RowsUnderCooldown, Detector
  <2>4. CASE d = e
    <3>1. open[b][d] \in Nat /\ kept[b][d] \in Nat
      BY <1>t
    <3> QED BY <2>2, <2>3, <2>4, <3>1 DEF Arming, Detector
  <2>5. CASE d # e
    BY <2>1, <2>2, <2>3, <2>5
  <2> QED BY <2>4, <2>5
<1> QED BY <1>k, <1>1, <1>2, <1>3, <1>4, <1>5, <1>6, <1>7, <1>8, <1>9, <1>10, <1>11, <1>12, <1>13, <1>14, <1>15, <1>16, <1>17, <1>18, <1>19, <1>20, <1>21, <1>22 DEF Next, Ingest, Detect

\* Who stored a row of a detector that is cooling down, or is between its check
\* and its SETEX, was so when the key was set: nobody passes the check since.
RowsContended ==
  \A c \in Callers, d \in cooldown :
    \/ open[c][d] # 0 \/ kept[c][d] # 0 \/ c \in Storing(d)
    => c \in contenders[d]

LEMMA RowsContendedStep ==
  ASSUME TypeOK, Handling, RowsUnderCooldown, RowsContended, [Next]_vars
  PROVE  RowsContended'
<1>t. /\ open \in [Callers -> [Detectors -> Nat]] /\ kept \in [Callers -> [Detectors -> Nat]]
      /\ contenders \in [Detectors -> SUBSET Callers]
      /\ hits \in [Callers -> SUBSET Detectors] /\ cooldown \subseteq Detectors
      /\ pc \in [Callers -> {"idle", "add", "count", "trim", "read", "check", "record", "arm",
                             "rules", "armRule", "notify", "commit"}]
  BY DEF TypeOK
<1>r. \A c \in Callers, d \in cooldown :
        \/ open[c][d] # 0 \/ kept[c][d] # 0
        \/ pc[c] \in {"record", "arm"} /\ First(hits[c]) = d
        => c \in contenders[d]
  BY DEF RowsContended, Storing, Detector
<1>g. ASSUME \A c \in Callers, d \in cooldown' :
               \/ open'[c][d] # 0 \/ kept'[c][d] # 0
               \/ pc'[c] \in {"record", "arm"} /\ First(hits'[c]) = d
               => c \in contenders'[d]
      PROVE  RowsContended'
  BY <1>g DEF RowsContended, Storing, Detector
<1> DEFINE Kept == /\ UNCHANGED <<cooldown, open, kept, contenders>>
                   /\ \A c \in Callers :
                        \/ pc'[c] = pc[c] /\ hits'[c] = hits[c]
                        \/ pc'[c] \notin {"record", "arm"}
                        \/ /\ pc'[c] = "record" /\ hits'[c] = hits[c]
                           /\ First(hits[c]) \notin cooldown
<1>k. Kept => RowsContended'
  BY <1>r, <1>g
<1>1. ASSUME NEW c \in Callers, NEW n \in 1 .. MaxBatch, BeginIngest(c, n) PROVE Kept
  BY <1>t, <1>1 DEF BeginIngest, Go, redis, round, anomalies, history
<1>2. ASSUME NEW c \in Callers, BeginBatch(c) PROVE Kept
  BY <1>t, <1>2 DEF BeginBatch, Go, redis, round, anomalies, history
<1>3. ASSUME NEW c \in Callers, NEW p \in Points, ZAdd(c, p) PROVE Kept
  BY <1>t, <1>3 DEF ZAdd, Go, anomalies
<1>4. ASSUME NEW c \in Callers, ZCard(c) PROVE Kept
  BY <1>t, <1>4 DEF ZCard, Go, redis, anomalies, history
<1>5. ASSUME NEW c \in Callers, Trim(c) PROVE Kept
  BY <1>t, <1>5 DEF Trim, Go, anomalies, history
<1>6. ASSUME NEW c \in Callers, ReadEmpty(c) PROVE Kept
  BY <1>t, <1>6 DEF ReadEmpty, EndRound, Go, redis, anomalies, history
<1>7. ASSUME NEW c \in Callers, Read(c) PROVE Kept
  BY <1>t, <1>7 DEF Read, Go, redis, anomalies, history
<1>8. ASSUME NEW c \in Callers, EndDetection(c) PROVE Kept
  BY <1>t, <1>8 DEF EndDetection, EndRound, Go, redis, anomalies, history
<1>9. ASSUME NEW c \in Callers, SkipDetector(c) PROVE Kept
  BY <1>t, <1>9 DEF SkipDetector, Go, redis, anomalies, history
<1>10. ASSUME NEW c \in Callers, CheckCooldown(c) PROVE Kept
  BY <1>t, <1>10 DEF CheckCooldown, IsCooling, Detector, Go, redis, round, anomalies, history
<1>11. ASSUME NEW c \in Callers, SkipRule(c) PROVE Kept
  BY <1>t, <1>11 DEF SkipRule, Go, redis, anomalies, history
<1>12. ASSUME NEW c \in Callers, CheckRule(c) PROVE Kept
  BY <1>t, <1>12 DEF CheckRule, Go, redis, round, anomalies, history
<1>13. ASSUME NEW c \in Callers, ArmRule(c) PROVE Kept
  BY <1>t, <1>13 DEF ArmRule, Go
<1>14. ASSUME NEW c \in Callers, EndRules(c) PROVE Kept
  BY <1>t, <1>14 DEF EndRules, Go, redis, round, anomalies, history
<1>15. ASSUME NEW c \in Callers, Notify(c) PROVE Kept
  BY <1>t, <1>15 DEF Notify, Go, redis, anomalies, history
<1>16. ASSUME NEW r \in Rules, RuleCooldownEnds(r) PROVE Kept
  BY <1>t, <1>16 DEF RuleCooldownEnds, round
<1>17. CASE UNCHANGED vars
  BY <1>17, <1>k DEF vars, redis, round, anomalies, history
<1> HIDE DEF Kept
<1>18. ASSUME NEW c \in Callers, Record(c) PROVE RowsContended'
  <2>1. /\ pc[c] = "record" /\ pc' = [pc EXCEPT ![c] = "arm"]
        /\ open' = [open EXCEPT ![c] = [open[c] EXCEPT ![Detector(c)] = open[c][Detector(c)] + 1]]
        /\ UNCHANGED <<cooldown, hits, kept, contenders>>
    BY <1>18 DEF Record, Go, redis, round, history
  <2>2. pc'[c] = "arm" /\ \A b \in Callers : b # c => pc'[b] = pc[b]
    BY <1>t, <2>1
  <2>3. \A b \in Callers, d \in Detectors :
          ~(b = c /\ d = First(hits[c])) => open'[b][d] = open[b][d]
    BY <1>t, <2>1 DEF Detector
  <2> QED BY <1>t, <1>r, <1>g, <2>1, <2>2, <2>3
<1>19. ASSUME NEW c \in Callers, Arm(c) PROVE RowsContended'
  <2>1. /\ pc[c] = "arm" /\ pc' = [pc EXCEPT ![c] = "rules"]
        /\ cooldown' = cooldown \cup {First(hits[c])}
        /\ contenders' = [contenders EXCEPT ![First(hits[c])] =
                            IF First(hits[c]) \in cooldown THEN contenders[First(hits[c])]
                                                          ELSE Storing(First(hits[c]))]
        /\ UNCHANGED <<open, kept, hits>>
    BY <1>19 DEF Arm, Go, Detector, anomalies
  <2>2. pc'[c] = "rules" /\ \A b \in Callers : b # c => pc'[b] = pc[b]
    BY <1>t, <2>1
  <2> SUFFICES ASSUME NEW b \in Callers, NEW d \in cooldown',
                      \/ open[b][d] # 0 \/ kept[b][d] # 0
                      \/ pc[b] \in {"record", "arm"} /\ First(hits[b]) = d
               PROVE  b \in contenders'[d]
    BY <1>g, <2>1, <2>2
  <2>3. CASE d \in cooldown
    <3>1. contenders'[d] = contenders[d]
      BY <1>t, <2>1, <2>3
    <3> QED BY <1>r, <2>3, <3>1
  <2>4. CASE d \notin cooldown
    <3>1. d = First(hits[c]) /\ d \in Detectors
      <4>1. hits[c] # {} /\ d = Detector(c)
        BY <2>1, <2>4 DEF Handling, Detector
      <4> QED BY <4>1, AtHand DEF Detector
    <3>2. contenders'[d] = Storing(d)
      BY <1>t, <2>1, <2>4, <3>1
    <3>3. pc[b] \in {"record", "arm"} /\ First(hits[b]) = d
      BY <2>4, <3>1 DEF RowsUnderCooldown, Detector
    <3> QED BY <3>2, <3>3 DEF Storing, Detector
  <2> QED BY <2>3, <2>4
<1>20. ASSUME NEW c \in Callers, Commit(c) PROVE RowsContended'
  <2>1. /\ pc' = [pc EXCEPT ![c] = "idle"]
        /\ kept' = [kept EXCEPT ![c] = [d \in Detectors |-> kept[c][d] + open[c][d]]]
        /\ open' = [open EXCEPT ![c] = [d \in Detectors |-> 0]]
        /\ UNCHANGED <<cooldown, hits, contenders>>
    BY <1>20 DEF Commit, Go, redis, round, history
  <2>2. pc'[c] = "idle" /\ \A b \in Callers : b # c => pc'[b] = pc[b]
    BY <1>t, <2>1
  <2>3. \A b \in Callers, d \in Detectors :
          IF b = c THEN open'[b][d] = 0 /\ kept'[b][d] = kept[b][d] + open[b][d]
                   ELSE open'[b][d] = open[b][d] /\ kept'[b][d] = kept[b][d]
    BY <1>t, <2>1
  <2>4. \A d \in Detectors : kept'[c][d] # 0 => open[c][d] # 0 \/ kept[c][d] # 0
    BY <1>t, <2>3
  <2> QED BY <1>t, <1>r, <1>g, <2>1, <2>2, <2>3, <2>4
<1>21. ASSUME NEW c \in Callers, Fail(c) PROVE RowsContended'
  <2>1. /\ pc' = [pc EXCEPT ![c] = "idle"] /\ hits' = [hits EXCEPT ![c] = {}]
        /\ open' = [open EXCEPT ![c] = [d \in Detectors |-> 0]]
        /\ UNCHANGED <<cooldown, kept, contenders>>
    BY <1>21 DEF Fail, redis
  <2>2. pc'[c] = "idle" /\ \A b \in Callers : b # c => pc'[b] = pc[b] /\ hits'[b] = hits[b]
    BY <1>t, <2>1
  <2>3. \A b \in Callers, d \in Detectors :
          IF b = c THEN open'[b][d] = 0 ELSE open'[b][d] = open[b][d]
    BY <1>t, <2>1
  <2> QED BY <1>t, <1>r, <1>g, <2>1, <2>2, <2>3
<1>22. ASSUME NEW e \in Detectors, CooldownEnds(e) PROVE RowsContended'
  <2>1. /\ cooldown' = cooldown \ {e}
        /\ open' = [c \in Callers |-> IF Arming(c, e) THEN open[c] ELSE [open[c] EXCEPT ![e] = 0]]
        /\ kept' = [c \in Callers |-> [kept[c] EXCEPT ![e] = 0]]
        /\ contenders' = [contenders EXCEPT ![e] = {}]
        /\ UNCHANGED <<pc, hits>>
    BY <1>22 DEF CooldownEnds, round
  <2>2. \A b \in Callers, d \in Detectors \ {e} :
          /\ open'[b][d] = open[b][d] /\ kept'[b][d] = kept[b][d]
          /\ contenders'[d] = contenders[d]
    BY <1>t, <2>1
  <2> QED BY <1>t, <1>r, <1>g, <2>1, <2>2
<1> QED BY <1>k, <1>1, <1>2, <1>3, <1>4, <1>5, <1>6, <1>7, <1>8, <1>9, <1>10, <1>11, <1>12, <1>13, <1>14, <1>15, <1>16, <1>17, <1>18, <1>19, <1>20, <1>21, <1>22 DEF Next, Ingest, Detect

-----------------------------------------------------------------------------
(* The cooldown of a rule *)

\* A rule a caller notified for is cooling down; one it goes to arm, it has not
\* notified for.
ToldUnderCooldown ==
  \A c \in Callers, r \in Rules :
    /\ told[c][r] # 0 => r \in ruleCooldown
    /\ pc[c] = "armRule" /\ r = Rule(c) => told[c][r] = 0
    /\ told[c][r] <= 1

\* A step that touches neither notifications nor the rules' cooldowns, and sends
\* a caller to notify only for a rule that is not cooling down.
LEMMA ToldKept ==
  ASSUME TypeOK, ToldUnderCooldown, UNCHANGED <<ruleCooldown, told>>,
         \A c \in Callers :
           \/ pc'[c] = pc[c] /\ todo'[c] = todo[c]
           \/ pc'[c] # "armRule"
           \/ pc[c] = "rules" /\ todo'[c] = todo[c] /\ Rule(c) \notin ruleCooldown
  PROVE  ToldUnderCooldown'
<1> SUFFICES ASSUME NEW c \in Callers, NEW r \in Rules
             PROVE  /\ told[c][r] # 0 => r \in ruleCooldown
                    /\ pc'[c] = "armRule" /\ r = First(todo'[c]) => told[c][r] = 0
                    /\ told[c][r] <= 1
  BY DEF ToldUnderCooldown, Rule
<1>1. /\ told[c][r] # 0 => r \in ruleCooldown
      /\ pc[c] = "armRule" /\ r = First(todo[c]) => told[c][r] = 0
      /\ told[c][r] <= 1
  BY DEF ToldUnderCooldown, Rule
<1>2. \/ pc'[c] = pc[c] /\ todo'[c] = todo[c]
      \/ pc'[c] # "armRule"
      \/ pc[c] = "rules" /\ todo'[c] = todo[c] /\ First(todo[c]) \notin ruleCooldown
  BY DEF Rule
<1> QED BY <1>1, <1>2

LEMMA ToldStep ==
  ASSUME TypeOK, Handling, ToldUnderCooldown, [Next]_vars
  PROVE  ToldUnderCooldown'
<1>t. /\ told \in [Callers -> [Rules -> Nat]] /\ todo \in [Callers -> SUBSET Rules]
      /\ pc \in [Callers -> {"idle", "add", "count", "trim", "read", "check", "record", "arm",
                             "rules", "armRule", "notify", "commit"}]
  BY DEF TypeOK
<1> DEFINE Kept == /\ UNCHANGED <<ruleCooldown, told>>
                   /\ \A c \in Callers :
                        \/ pc'[c] = pc[c] /\ todo'[c] = todo[c]
                        \/ pc'[c] # "armRule"
                        \/ /\ pc[c] = "rules" /\ todo'[c] = todo[c]
                           /\ Rule(c) \notin ruleCooldown
<1>k. Kept => ToldUnderCooldown'
  BY ToldKept
<1>1. ASSUME NEW c \in Callers, NEW n \in 1 .. MaxBatch, BeginIngest(c, n) PROVE Kept
  BY <1>t, <1>1 DEF BeginIngest, Go, redis, round, anomalies
<1>2. ASSUME NEW c \in Callers, BeginBatch(c) PROVE Kept
  BY <1>t, <1>2 DEF BeginBatch, Go, redis, round, anomalies
<1>3. ASSUME NEW c \in Callers, NEW p \in Points, ZAdd(c, p) PROVE Kept
  BY <1>t, <1>3 DEF ZAdd, Go, anomalies
<1>4. ASSUME NEW c \in Callers, ZCard(c) PROVE Kept
  BY <1>t, <1>4 DEF ZCard, Go, redis, anomalies
<1>5. ASSUME NEW c \in Callers, Trim(c) PROVE Kept
  BY <1>t, <1>5 DEF Trim, Go, anomalies
<1>6. ASSUME NEW c \in Callers, ReadEmpty(c) PROVE Kept
  BY <1>t, <1>6 DEF ReadEmpty, Go, EndRound, redis, anomalies
<1>7. ASSUME NEW c \in Callers, Read(c) PROVE Kept
  BY <1>t, <1>7 DEF Read, Go, redis, anomalies
<1>8. ASSUME NEW c \in Callers, EndDetection(c) PROVE Kept
  BY <1>t, <1>8 DEF EndDetection, Go, EndRound, redis, anomalies
<1>9. ASSUME NEW c \in Callers, SkipDetector(c) PROVE Kept
  BY <1>t, <1>9 DEF SkipDetector, Go, redis, anomalies
<1>10. ASSUME NEW c \in Callers, CheckCooldown(c) PROVE Kept
  BY <1>t, <1>10 DEF CheckCooldown, Go, redis, round, anomalies
<1>11. ASSUME NEW c \in Callers, Record(c) PROVE Kept
  BY <1>t, <1>11 DEF Record, Go, redis, round
<1>12. ASSUME NEW c \in Callers, Arm(c) PROVE Kept
  BY <1>t, <1>12 DEF Arm, Go, anomalies
<1>13. ASSUME NEW c \in Callers, SkipRule(c) PROVE Kept
  BY <1>t, <1>13 DEF SkipRule, Go, redis, anomalies
<1>14. ASSUME NEW c \in Callers, CheckRule(c) PROVE Kept
  BY <1>t, <1>14 DEF CheckRule, Go, IsRuleCooling, redis, round, anomalies
<1>15. ASSUME NEW c \in Callers, EndRules(c) PROVE Kept
  BY <1>t, <1>15 DEF EndRules, Go, redis, round, anomalies
<1>16. ASSUME NEW c \in Callers, Notify(c) PROVE Kept
  BY <1>t, <1>16 DEF Notify, Go, redis, anomalies
<1>17. ASSUME NEW c \in Callers, Commit(c) PROVE Kept
  BY <1>t, <1>17 DEF Commit, Go, redis, round
<1>18. ASSUME NEW c \in Callers, Fail(c) PROVE Kept
  BY <1>t, <1>18 DEF Fail, redis
<1>19. ASSUME NEW d \in Detectors, CooldownEnds(d) PROVE Kept
  BY <1>t, <1>19 DEF CooldownEnds, round
<1>20. CASE UNCHANGED vars
  BY <1>20, <1>k DEF vars, redis, round, anomalies
<1> HIDE DEF Kept
<1>21. ASSUME NEW c \in Callers, ArmRule(c) PROVE ToldUnderCooldown'
  <2>1. /\ pc[c] = "armRule" /\ pc' = [pc EXCEPT ![c] = "rules"]
        /\ ruleCooldown' = ruleCooldown \cup {Rule(c)}
        /\ todo' = [todo EXCEPT ![c] = todo[c] \ {Rule(c)}]
        /\ told' = [told EXCEPT ![c] = [told[c] EXCEPT ![Rule(c)] = told[c][Rule(c)] + 1]]
    BY <1>21 DEF ArmRule, Go
  <2>2. todo[c] # {}
    BY <2>1 DEF Handling
  <2>3. Rule(c) \in Rules
    BY <2>2, AtHand
  <2>4. told[c][Rule(c)] = 0
    BY <2>1, <2>3 DEF ToldUnderCooldown
  <2>5. \A b \in Callers, r \in Rules :
          IF b = c /\ r = Rule(c) THEN told'[b][r] = 1 ELSE told'[b][r] = told[b][r]
    BY <1>t, <2>1, <2>3, <2>4
  <2>6. pc'[c] = "rules" /\ \A b \in Callers : b # c => pc'[b] = pc[b] /\ todo'[b] = todo[b]
    BY <1>t, <2>1
  <2> SUFFICES ASSUME NEW b \in Callers, NEW r \in Rules
               PROVE  /\ told'[b][r] # 0 => r \in ruleCooldown'
                      /\ pc'[b] = "armRule" /\ r = First(todo'[b]) => told'[b][r] = 0
                      /\ told'[b][r] <= 1
    BY DEF ToldUnderCooldown, Rule
  <2>7. /\ told[b][r] # 0 => r \in ruleCooldown
        /\ pc[b] = "armRule" /\ r = First(todo[b]) => told[b][r] = 0
        /\ told[b][r] <= 1
    BY DEF ToldUnderCooldown, Rule
  <2>8. CASE b = c /\ r = Rule(c)
    BY <2>1, <2>5, <2>6, <2>8
  <2>9. CASE ~(b = c /\ r = Rule(c))
    <3>1. told'[b][r] = told[b][r]
      BY <2>5, <2>9
    <3> QED BY <2>1, <2>6, <2>7, <3>1
  <2> QED BY <2>8, <2>9
<1>22. ASSUME NEW e \in Rules, RuleCooldownEnds(e) PROVE ToldUnderCooldown'
  <2>1. /\ ruleCooldown' = ruleCooldown \ {e}
        /\ told' = [c \in Callers |-> [told[c] EXCEPT ![e] = 0]]
        /\ UNCHANGED <<pc, todo>>
    BY <1>22 DEF RuleCooldownEnds, round
  <2>2. \A b \in Callers, r \in Rules :
          IF r = e THEN told'[b][r] = 0 ELSE told'[b][r] = told[b][r]
    BY <1>t, <2>1
  <2> SUFFICES ASSUME NEW b \in Callers, NEW r \in Rules
               PROVE  /\ told'[b][r] # 0 => r \in ruleCooldown'
                      /\ pc[b] = "armRule" /\ r = First(todo[b]) => told'[b][r] = 0
                      /\ told'[b][r] <= 1
    BY <2>1 DEF ToldUnderCooldown, Rule
  <2>3. /\ told[b][r] # 0 => r \in ruleCooldown
        /\ pc[b] = "armRule" /\ r = First(todo[b]) => told[b][r] = 0
        /\ told[b][r] <= 1
    BY DEF ToldUnderCooldown, Rule
  <2>4. CASE r = e
    BY <2>2, <2>4
  <2>5. CASE r # e
    BY <2>1, <2>2, <2>3, <2>5
  <2> QED BY <2>4, <2>5
<1> QED BY <1>k, <1>1, <1>2, <1>3, <1>4, <1>5, <1>6, <1>7, <1>8, <1>9, <1>10, <1>11, <1>12, <1>13, <1>14, <1>15, <1>16, <1>17, <1>18, <1>19, <1>20, <1>21, <1>22 DEF Next, Ingest, Detect

\* Who notified for a rule that is cooling down, or is between its check and its
\* SETEX, was so when the key was set.
ToldContended ==
  \A c \in Callers, r \in ruleCooldown :
    told[c][r] # 0 \/ c \in Telling(r) => c \in ruleContenders[r]

LEMMA ToldContendedStep ==
  ASSUME TypeOK, Handling, ToldUnderCooldown, ToldContended, [Next]_vars
  PROVE  ToldContended'
<1>t. /\ told \in [Callers -> [Rules -> Nat]] /\ todo \in [Callers -> SUBSET Rules]
      /\ ruleContenders \in [Rules -> SUBSET Callers] /\ ruleCooldown \subseteq Rules
      /\ pc \in [Callers -> {"idle", "add", "count", "trim", "read", "check", "record", "arm",
                             "rules", "armRule", "notify", "commit"}]
  BY DEF TypeOK
<1>r. \A c \in Callers, r \in ruleCooldown :
        told[c][r] # 0 \/ (pc[c] = "armRule" /\ First(todo[c]) = r) => c \in ruleContenders[r]
  BY DEF ToldContended, Telling, Rule
<1>g. ASSUME \A c \in Callers, r \in ruleCooldown' :
               told'[c][r] # 0 \/ (pc'[c] = "armRule" /\ First(todo'[c]) = r)
               => c \in ruleContenders'[r]
      PROVE  ToldContended'
  BY <1>g DEF ToldContended, Telling, Rule
<1> DEFINE Kept == /\ UNCHANGED <<ruleCooldown, told, ruleContenders>>
                   /\ \A c \in Callers :
                        \/ pc'[c] = pc[c] /\ todo'[c] = todo[c]
                        \/ pc'[c] # "armRule"
                        \/ todo'[c] = todo[c] /\ First(todo[c]) \notin ruleCooldown
<1>k. Kept => ToldContended'
  BY <1>r, <1>g
<1>1. ASSUME NEW c \in Callers, NEW n \in 1 .. MaxBatch, BeginIngest(c, n) PROVE Kept
  BY <1>t, <1>1 DEF BeginIngest, Go, redis, round, anomalies, history
<1>2. ASSUME NEW c \in Callers, BeginBatch(c) PROVE Kept
  BY <1>t, <1>2 DEF BeginBatch, Go, redis, round, anomalies, history
<1>3. ASSUME NEW c \in Callers, NEW p \in Points, ZAdd(c, p) PROVE Kept
  BY <1>t, <1>3 DEF ZAdd, Go, anomalies
<1>4. ASSUME NEW c \in Callers, ZCard(c) PROVE Kept
  BY <1>t, <1>4 DEF ZCard, Go, redis, anomalies, history
<1>5. ASSUME NEW c \in Callers, Trim(c) PROVE Kept
  BY <1>t, <1>5 DEF Trim, Go, anomalies, history
<1>6. ASSUME NEW c \in Callers, ReadEmpty(c) PROVE Kept
  BY <1>t, <1>6 DEF ReadEmpty, EndRound, Go, redis, anomalies, history
<1>7. ASSUME NEW c \in Callers, Read(c) PROVE Kept
  BY <1>t, <1>7 DEF Read, Go, redis, anomalies, history
<1>8. ASSUME NEW c \in Callers, EndDetection(c) PROVE Kept
  BY <1>t, <1>8 DEF EndDetection, EndRound, Go, redis, anomalies, history
<1>9. ASSUME NEW c \in Callers, SkipDetector(c) PROVE Kept
  BY <1>t, <1>9 DEF SkipDetector, Go, redis, anomalies, history
<1>10. ASSUME NEW c \in Callers, CheckCooldown(c) PROVE Kept
  BY <1>t, <1>10 DEF CheckCooldown, Go, redis, round, anomalies, history
<1>11. ASSUME NEW c \in Callers, Record(c) PROVE Kept
  BY <1>t, <1>11 DEF Record, Go, redis, round, history
<1>12. ASSUME NEW c \in Callers, Arm(c) PROVE Kept
  BY <1>t, <1>12 DEF Arm, Go, anomalies
<1>13. ASSUME NEW c \in Callers, SkipRule(c) PROVE Kept
  BY <1>t, <1>13 DEF SkipRule, Go, redis, anomalies, history
<1>14. ASSUME NEW c \in Callers, CheckRule(c) PROVE Kept
  BY <1>t, <1>14 DEF CheckRule, Go, IsRuleCooling, Rule, redis, round, anomalies, history
<1>15. ASSUME NEW c \in Callers, EndRules(c) PROVE Kept
  BY <1>t, <1>15 DEF EndRules, Go, redis, round, anomalies, history
<1>16. ASSUME NEW c \in Callers, Notify(c) PROVE Kept
  BY <1>t, <1>16 DEF Notify, Go, redis, anomalies, history
<1>17. ASSUME NEW c \in Callers, Commit(c) PROVE Kept
  BY <1>t, <1>17 DEF Commit, Go, redis, round, history
<1>18. ASSUME NEW c \in Callers, Fail(c) PROVE Kept
  BY <1>t, <1>18 DEF Fail, redis
<1>19. ASSUME NEW d \in Detectors, CooldownEnds(d) PROVE Kept
  BY <1>t, <1>19 DEF CooldownEnds, round
<1>20. CASE UNCHANGED vars
  BY <1>20, <1>k DEF vars, redis, round, anomalies, history
<1> HIDE DEF Kept
<1>21. ASSUME NEW c \in Callers, ArmRule(c) PROVE ToldContended'
  <2>1. /\ pc[c] = "armRule" /\ pc' = [pc EXCEPT ![c] = "rules"]
        /\ ruleCooldown' = ruleCooldown \cup {First(todo[c])}
        /\ todo' = [todo EXCEPT ![c] = todo[c] \ {Rule(c)}]
        /\ told' = [told EXCEPT ![c] = [told[c] EXCEPT ![Rule(c)] = told[c][Rule(c)] + 1]]
        /\ ruleContenders' = [ruleContenders EXCEPT ![First(todo[c])] =
                                IF First(todo[c]) \in ruleCooldown
                                THEN ruleContenders[First(todo[c])] ELSE Telling(First(todo[c]))]
    BY <1>21 DEF ArmRule, Go, Rule
  <2>2. First(todo[c]) \in Rules
    <3>1. todo[c] # {}
      BY <2>1 DEF Handling
    <3> QED BY <3>1, AtHand DEF Rule
  <2>3. \A b \in Callers, r \in Rules :
          ~(b = c /\ r = First(todo[c])) => told'[b][r] = told[b][r]
    BY <1>t, <2>1 DEF Rule
  <2>4. pc'[c] = "rules" /\ \A b \in Callers : b # c => pc'[b] = pc[b] /\ todo'[b] = todo[b]
    BY <1>t, <2>1
  <2> SUFFICES ASSUME NEW b \in Callers, NEW r \in ruleCooldown',
                      told[b][r] # 0 \/ (pc[b] = "armRule" /\ First(todo[b]) = r)
               PROVE  b \in ruleContenders'[r]
    BY <1>t, <1>g, <2>1, <2>2, <2>3, <2>4
  <2>5. CASE r \in ruleCooldown
    <3>1. ruleContenders'[r] = ruleContenders[r]
      BY <1>t, <2>1, <2>5
    <3> QED BY <1>r, <2>5, <3>1
  <2>6. CASE r \notin ruleCooldown
    <3>1. r = First(todo[c])
      BY <2>1, <2>6
    <3>2. ruleContenders'[r] = Telling(r)
      BY <1>t, <2>1, <2>2, <2>6, <3>1
    <3>3. pc[b] = "armRule" /\ First(todo[b]) = r
      BY <2>2, <2>6, <3>1 DEF ToldUnderCooldown
    <3> QED BY <3>2, <3>3 DEF Telling, Rule
  <2> QED BY <2>5, <2>6
<1>22. ASSUME NEW e \in Rules, RuleCooldownEnds(e) PROVE ToldContended'
  <2>1. /\ ruleCooldown' = ruleCooldown \ {e}
        /\ told' = [c \in Callers |-> [told[c] EXCEPT ![e] = 0]]
        /\ ruleContenders' = [ruleContenders EXCEPT ![e] = {}]
        /\ UNCHANGED <<pc, todo>>
    BY <1>22 DEF RuleCooldownEnds, round
  <2>2. \A b \in Callers, r \in Rules \ {e} :
          told'[b][r] = told[b][r] /\ ruleContenders'[r] = ruleContenders[r]
    BY <1>t, <2>1
  <2> QED BY <1>t, <1>r, <1>g, <2>1, <2>2
<1> QED BY <1>k, <1>1, <1>2, <1>3, <1>4, <1>5, <1>6, <1>7, <1>8, <1>9, <1>10, <1>11, <1>12, <1>13, <1>14, <1>15, <1>16, <1>17, <1>18, <1>19, <1>20, <1>21, <1>22 DEF Next, Ingest, Detect

\* Cooldowns throttle rows and notifications: within one cooldown each caller
\* stores one row and notifies once at most, over all its rounds, and no caller
\* does either but those that were between their check and their SETEX when the
\* key was set, for any callers, detectors, rules and points, whatever fails and
\* however cooldowns run out.
THEOREM CooldownsThrottle == Spec => []OncePerCooldown
<1> DEFINE Inv == /\ TypeOK /\ Handling
                  /\ RowsUnderCooldown /\ RowsContended
                  /\ ToldUnderCooldown /\ ToldContended
<1>1. Init => Inv
  <2>1. Init => RowsUnderCooldown /\ RowsContended /\ ToldUnderCooldown /\ ToldContended
    BY DEF Init, RowsUnderCooldown, RowsContended, ToldUnderCooldown, ToldContended
  <2> QED BY <2>1, TypeInit
<1>2. Inv => OncePerCooldown
  <2> SUFFICES ASSUME Inv PROVE OncePerCooldown
    OBVIOUS
  <2>1. ASSUME NEW c \in Callers, NEW d \in Detectors
        PROVE  /\ open[c][d] + kept[c][d] <= 1
               /\ open[c][d] + kept[c][d] # 0 =>
                    IF d \in cooldown THEN c \in contenders[d] ELSE Arming(c, d)
    <3>1. open[c][d] \in Nat /\ kept[c][d] \in Nat
      BY DEF TypeOK
    <3>2. open[c][d] + kept[c][d] # 0 => open[c][d] # 0 \/ kept[c][d] # 0
      BY <3>1
    <3>3. d \in cooldown /\ (open[c][d] # 0 \/ kept[c][d] # 0) => c \in contenders[d]
      BY DEF RowsContended
    <3>4. d \notin cooldown /\ (open[c][d] # 0 \/ kept[c][d] # 0) => Arming(c, d)
      BY DEF RowsUnderCooldown, Arming
    <3> QED BY <3>2, <3>3, <3>4 DEF RowsUnderCooldown
  <2>2. ASSUME NEW c \in Callers, NEW r \in Rules
        PROVE  /\ told[c][r] <= 1
               /\ told[c][r] # 0 => r \in ruleCooldown /\ c \in ruleContenders[r]
    BY DEF ToldUnderCooldown, ToldContended
  <2> QED BY <2>1, <2>2 DEF OncePerCooldown
<1>3. Inv /\ [Next]_vars => Inv'
  BY TypeStep, RowsStep, RowsContendedStep, ToldStep, ToldContendedStep
<1> HIDE DEF Inv
<1> QED BY <1>1, <1>2, <1>3, PTL DEF Spec

-----------------------------------------------------------------------------
(* Rows behind the cooldowns *)

\* The key is set for a row that has been flushed.
ArmingHasRow == \A c \in Callers : pc[c] = "arm" => open[c][Detector(c)] # 0

LEMMA SilenceStep ==
  ASSUME TypeOK, Handling, ArmingHasRow, SilenceHasCause, [Next]_vars
  PROVE  ArmingHasRow' /\ SilenceHasCause'
<1>t. /\ open \in [Callers -> [Detectors -> Nat]] /\ kept \in [Callers -> [Detectors -> Nat]]
      /\ hits \in [Callers -> SUBSET Detectors]
      /\ cooldown \subseteq Detectors
      /\ pc \in [Callers -> {"idle", "add", "count", "trim", "read", "check", "record", "arm",
                             "rules", "armRule", "notify", "commit"}]
  BY DEF TypeOK
<1>d. \A c \in Callers : pc[c] \in {"record", "arm"} => Detector(c) \in Detectors
  BY AtHand DEF Handling
<1> DEFINE Kept == /\ UNCHANGED <<cooldown, open, kept, lost>>
                   /\ \A c \in Callers :
                        pc'[c] = "arm" => pc[c] = "arm" /\ hits'[c] = hits[c]
<1>k. Kept => ArmingHasRow' /\ SilenceHasCause'
  BY DEF ArmingHasRow, SilenceHasCause, Detector
<1>1. ASSUME NEW c \in Callers, NEW n \in 1 .. MaxBatch, BeginIngest(c, n) PROVE Kept
  BY <1>t, <1>1 DEF BeginIngest, Go, redis, round, anomalies, history
<1>2. ASSUME NEW c \in Callers, BeginBatch(c) PROVE Kept
  BY <1>t, <1>2 DEF BeginBatch, Go, redis, round, anomalies, history
<1>3. ASSUME NEW c \in Callers, NEW p \in Points, ZAdd(c, p) PROVE Kept
  BY <1>t, <1>3 DEF ZAdd, Go, anomalies
<1>4. ASSUME NEW c \in Callers, ZCard(c) PROVE Kept
  BY <1>t, <1>4 DEF ZCard, Go, redis, anomalies, history
<1>5. ASSUME NEW c \in Callers, Trim(c) PROVE Kept
  BY <1>t, <1>5 DEF Trim, Go, anomalies, history
<1>6. ASSUME NEW c \in Callers, ReadEmpty(c) PROVE Kept
  BY <1>t, <1>6 DEF ReadEmpty, EndRound, Go, redis, anomalies, history
<1>7. ASSUME NEW c \in Callers, Read(c) PROVE Kept
  BY <1>t, <1>7 DEF Read, Go, redis, anomalies, history
<1>8. ASSUME NEW c \in Callers, EndDetection(c) PROVE Kept
  BY <1>t, <1>8 DEF EndDetection, EndRound, Go, redis, anomalies, history
<1>9. ASSUME NEW c \in Callers, SkipDetector(c) PROVE Kept
  BY <1>t, <1>9 DEF SkipDetector, Go, redis, anomalies, history
<1>10. ASSUME NEW c \in Callers, CheckCooldown(c) PROVE Kept
  BY <1>t, <1>10 DEF CheckCooldown, Go, redis, round, anomalies, history
<1>11. ASSUME NEW c \in Callers, SkipRule(c) PROVE Kept
  BY <1>t, <1>11 DEF SkipRule, Go, redis, anomalies, history
<1>12. ASSUME NEW c \in Callers, CheckRule(c) PROVE Kept
  BY <1>t, <1>12 DEF CheckRule, Go, redis, round, anomalies, history
<1>13. ASSUME NEW c \in Callers, ArmRule(c) PROVE Kept
  BY <1>t, <1>13 DEF ArmRule, Go, history
<1>14. ASSUME NEW c \in Callers, EndRules(c) PROVE Kept
  BY <1>t, <1>14 DEF EndRules, Go, redis, round, anomalies, history
<1>15. ASSUME NEW c \in Callers, Notify(c) PROVE Kept
  BY <1>t, <1>15 DEF Notify, Go, redis, anomalies, history
<1>16. ASSUME NEW r \in Rules, RuleCooldownEnds(r) PROVE Kept
  BY <1>t, <1>16 DEF RuleCooldownEnds, round, history
<1>17. CASE UNCHANGED vars
  BY <1>17, <1>k DEF vars, redis, round, anomalies, history
<1> HIDE DEF Kept
<1>18. ASSUME NEW c \in Callers, Record(c) PROVE ArmingHasRow' /\ SilenceHasCause'
  <2>1. /\ pc[c] = "record" /\ pc' = [pc EXCEPT ![c] = "arm"]
        /\ open' = [open EXCEPT ![c] = [open[c] EXCEPT ![Detector(c)] = open[c][Detector(c)] + 1]]
        /\ UNCHANGED <<cooldown, hits, kept, lost>>
    BY <1>18 DEF Record, Go, redis, round, history
  <2>2. Detector(c) \in Detectors
    BY <1>d, <2>1
  <2>3. \A b \in Callers, d \in Detectors :
          IF b = c /\ d = Detector(c) THEN open'[b][d] = open[b][d] + 1 ELSE open'[b][d] = open[b][d]
    BY <1>t, <2>1, <2>2
  <2>4. \A b \in Callers, d \in Detectors : open[b][d] \in Nat /\ kept[b][d] \in Nat
    BY <1>t
  <2>5. \A b \in Callers : b # c => pc'[b] = pc[b]
    BY <1>t, <2>1
  <2>6. ArmingHasRow'
    <3> SUFFICES ASSUME NEW b \in Callers, pc'[b] = "arm" PROVE open'[b][Detector(b)] # 0
      BY <2>1 DEF ArmingHasRow, Detector
    <3>1. CASE b = c
      BY <3>1, <2>2, <2>3, <2>4
    <3>2. CASE b # c
      BY <3>2, <1>d, <2>3, <2>5 DEF ArmingHasRow
    <3> QED BY <3>1, <3>2
  <2>7. SilenceHasCause'
    <3> SUFFICES ASSUME NEW d \in cooldown, d \notin lost
                 PROVE  \E b \in Callers : open'[b][d] + kept[b][d] # 0
      BY <2>1 DEF SilenceHasCause
    <3>1. PICK b \in Callers : open[b][d] + kept[b][d] # 0
      BY DEF SilenceHasCause
    <3>2. open'[b][d] = open[b][d] \/ open'[b][d] = open[b][d] + 1
      BY <1>t, <2>3
    <3>3. open[b][d] \in Nat /\ kept[b][d] \in Nat
      BY <1>t, <2>4
    <3>4. open'[b][d] + kept[b][d] # 0
      BY <3>1, <3>2, <3>3
    <3> QED BY <3>4
  <2> QED BY <2>6, <2>7
<1>19. ASSUME NEW c \in Callers, Arm(c) PROVE ArmingHasRow' /\ SilenceHasCause'
  <2>1. /\ pc[c] = "arm" /\ pc' = [pc EXCEPT ![c] = "rules"]
        /\ cooldown' = cooldown \cup {Detector(c)}
        /\ UNCHANGED <<open, kept, hits, lost>>
    BY <1>19 DEF Arm, Go, anomalies, history
  <2>2. pc'[c] = "rules" /\ \A b \in Callers : b # c => pc'[b] = pc[b]
    BY <1>t, <2>1
  <2>3. open[c][Detector(c)] + kept[c][Detector(c)] # 0
    <3>1. open[c][Detector(c)] \in Nat /\ kept[c][Detector(c)] \in Nat
      BY <1>t, <1>d, <2>1
    <3>2. open[c][Detector(c)] # 0
      BY <2>1 DEF ArmingHasRow
    <3> QED BY <3>1, <3>2
  <2>4. ArmingHasRow'
    BY <2>1, <2>2 DEF ArmingHasRow, Detector
  <2>5. SilenceHasCause'
    BY <2>1, <2>3 DEF SilenceHasCause
  <2> QED BY <2>4, <2>5
<1>20. ASSUME NEW c \in Callers, Commit(c) PROVE ArmingHasRow' /\ SilenceHasCause'
  <2>1. /\ pc[c] = "commit" /\ pc' = [pc EXCEPT ![c] = "idle"]
        /\ kept' = [kept EXCEPT ![c] = [d \in Detectors |-> kept[c][d] + open[c][d]]]
        /\ open' = [open EXCEPT ![c] = [d \in Detectors |-> 0]]
        /\ UNCHANGED <<cooldown, hits, lost>>
    BY <1>20 DEF Commit, Go, redis, round, history
  <2>2. pc'[c] = "idle" /\ \A b \in Callers : b # c => pc'[b] = pc[b] /\ open'[b] = open[b]
    BY <1>t, <2>1
  <2>3. \A b \in Callers, d \in Detectors :
          open'[b][d] + kept'[b][d] = open[b][d] + kept[b][d]
    <3> SUFFICES ASSUME NEW b \in Callers, NEW d \in Detectors
                 PROVE  open'[b][d] + kept'[b][d] = open[b][d] + kept[b][d]
      OBVIOUS
    <3>1. IF b = c THEN open'[b][d] = 0 /\ kept'[b][d] = kept[b][d] + open[b][d]
                   ELSE open'[b][d] = open[b][d] /\ kept'[b][d] = kept[b][d]
      BY <1>t, <2>1
    <3>2. open[b][d] \in Nat /\ kept[b][d] \in Nat
      BY <1>t
    <3> QED BY <3>1, <3>2
  <2>4. ArmingHasRow'
    BY <2>1, <2>2 DEF ArmingHasRow, Detector
  <2>5. SilenceHasCause'
    BY <1>t, <2>1, <2>3 DEF SilenceHasCause
  <2> QED BY <2>4, <2>5
<1>21. ASSUME NEW c \in Callers, Fail(c) PROVE ArmingHasRow' /\ SilenceHasCause'
  <2>1. /\ pc' = [pc EXCEPT ![c] = "idle"] /\ hits' = [hits EXCEPT ![c] = {}]
        /\ open' = [open EXCEPT ![c] = [d \in Detectors |-> 0]]
        /\ lost' = lost \cup {d \in cooldown : open[c][d] # 0}
        /\ UNCHANGED <<cooldown, kept>>
    BY <1>21 DEF Fail, redis
  <2>2. /\ pc'[c] = "idle"
        /\ \A b \in Callers : b # c => pc'[b] = pc[b] /\ hits'[b] = hits[b] /\ open'[b] = open[b]
    BY <1>t, <2>1
  <2>3. ArmingHasRow'
    BY <2>2 DEF ArmingHasRow, Detector
  <2>4. SilenceHasCause'
    <3> SUFFICES ASSUME NEW d \in cooldown, d \notin lost, open[c][d] = 0
                 PROVE  \E b \in Callers : open'[b][d] + kept[b][d] # 0
      BY <2>1 DEF SilenceHasCause
    <3>1. PICK b \in Callers : open[b][d] + kept[b][d] # 0
      BY DEF SilenceHasCause
    <3>2. open'[b][d] = open[b][d]
      BY <1>t, <2>1, <2>2
    <3> QED BY <3>1, <3>2
  <2> QED BY <2>3, <2>4
<1>22. ASSUME NEW e \in Detectors, CooldownEnds(e) PROVE ArmingHasRow' /\ SilenceHasCause'
  <2>1. /\ cooldown' = cooldown \ {e} /\ lost' = lost \ {e}
        /\ open' = [c \in Callers |-> IF Arming(c, e) THEN open[c] ELSE [open[c] EXCEPT ![e] = 0]]
        /\ kept' = [c \in Callers |-> [kept[c] EXCEPT ![e] = 0]]
        /\ UNCHANGED <<pc, hits>>
    BY <1>22 DEF CooldownEnds, round
  <2>2. \A b \in Callers, d \in Detectors :
          d # e => open'[b][d] = open[b][d] /\ kept'[b][d] = kept[b][d]
    BY <1>t, <2>1
  <2>3. ArmingHasRow'
    <3> SUFFICES ASSUME NEW b \in Callers, pc[b] = "arm" PROVE open'[b][Detector(b)] # 0
      BY <2>1 DEF ArmingHasRow, Detector
    <3>1. Detector(b) \in Detectors /\ open[b][Detector(b)] # 0
      BY <1>d DEF ArmingHasRow
    <3>2. CASE Detector(b) = e
      BY <3>1, <3>2, <2>1 DEF Arming
    <3>3. CASE Detector(b) # e
      BY <3>1, <3>3, <2>2
    <3> QED BY <3>2, <3>3
  <2>4. SilenceHasCause'
    <3> SUFFICES ASSUME NEW d \in cooldown, d # e, d \notin lost
                 PROVE  \E b \in Callers : open'[b][d] + kept'[b][d] # 0
      BY <2>1 DEF SilenceHasCause
    <3>1. PICK b \in Callers : open[b][d] + kept[b][d] # 0
      BY DEF SilenceHasCause
    <3>2. open'[b][d] = open[b][d] /\ kept'[b][d] = kept[b][d]
      BY <1>t, <2>2
    <3> QED BY <3>1, <3>2
  <2> QED BY <2>3, <2>4
<1> QED BY <1>k, <1>1, <1>2, <1>3, <1>4, <1>5, <1>6, <1>7, <1>8, <1>9, <1>10, <1>11, <1>12, <1>13, <1>14, <1>15, <1>16, <1>17, <1>18, <1>19, <1>20, <1>21, <1>22 DEF Next, Ingest, Detect

\* A cooldown without a row follows a rollback (detection_engine.py:68-70 and
\* the commit of the caller), for any callers, detectors and points.
THEOREM SilenceExplained == Spec => []SilenceHasCause
<1>1. Init => ArmingHasRow /\ SilenceHasCause
  BY DEF Init, ArmingHasRow, SilenceHasCause
<1>2. TypeOK /\ Handling /\ ArmingHasRow /\ SilenceHasCause /\ [Next]_vars
        => TypeOK' /\ Handling' /\ ArmingHasRow' /\ SilenceHasCause'
  BY TypeStep, SilenceStep
<1> QED BY <1>1, <1>2, TypeInit, PTL DEF Spec

-----------------------------------------------------------------------------
(* The bound of the window *)

\* A trim removes at least one member, the oldest.
LEMMA TrimRemoves ==
  ASSUME NEW S \in SUBSET Points, NEW n \in Nat, n > WindowSize
  PROVE  \/ S = {}
         \/ Cardinality({p \in S : Rank(S, p) >= Excess(n)}) <= Cardinality(S) - 1
<1> SUFFICES ASSUME S # {}
             PROVE  Cardinality({p \in S : Rank(S, p) >= Excess(n)}) <= Cardinality(S) - 1
  OBVIOUS
<1>1. S \in SUBSET Nat
  BY DetectionAssumption DEF Points
<1>2. First(S) \in S /\ \A y \in S : First(S) <= y
  BY <1>1, FirstMember
<1>3. {q \in S : q < First(S)} = {}
  <2>1. First(S) \in Nat
    BY <1>1, <1>2
  <2>2. ASSUME NEW q \in S PROVE ~(q < First(S))
    <3>1. q \in Nat /\ First(S) <= q
      BY <1>1, <1>2
    <3> QED BY <2>1, <3>1
  <2> QED BY <2>2
<1>4. Rank(S, First(S)) = 0
  BY <1>3, FS_EmptySet DEF Rank
<1>5. ~(0 >= Excess(n))
  BY DetectionAssumption DEF Excess
<1>6. {p \in S : Rank(S, p) >= Excess(n)} \subseteq S \ {First(S)}
  <2>1. ASSUME NEW p \in S, Rank(S, p) >= Excess(n) PROVE p # First(S)
    BY <1>4, <1>5, <2>1
  <2> QED BY <2>1
<1>7. IsFiniteSet(S) /\ Cardinality(S) \in Nat
  BY FiniteSubset
<1>8. IsFiniteSet(S \ {First(S)}) /\ Cardinality(S \ {First(S)}) = Cardinality(S) - 1
  BY <1>2, <1>7, FS_RemoveElement
<1> QED BY <1>6, <1>8, FS_Subset

\* A caller about to trim counted more members than the window may hold.
Trimmable ==
  /\ IsFiniteSet(Writing)
  /\ WindowBounded
  /\ \A c \in Callers : pc[c] = "trim" => counted[c] > WindowSize

LEMMA BoundStep ==
  ASSUME TypeOK, Trimmable, [Next]_vars
  PROVE  Trimmable'
<1>t. /\ window \subseteq Points /\ abandoned \in Nat /\ counted \in [Callers -> Nat]
      /\ pc \in [Callers -> {"idle", "add", "count", "trim", "read", "check", "record", "arm",
                             "rules", "armRule", "notify", "commit"}]
      /\ WindowSize \in Nat
  BY DetectionAssumption DEF TypeOK
<1>c. IsFiniteSet(window) /\ Cardinality(window) \in Nat /\ IsFiniteSet(Writing) /\ Cardinality(Writing) \in Nat
  BY <1>t, FiniteSubset, FS_CardinalityType DEF Trimmable
<1>b. Cardinality(window) <= WindowSize + Cardinality(Writing) + abandoned
  BY DEF Trimmable, WindowBounded
<1>r. \A c \in Writing : /\ IsFiniteSet(Writing \ {c})
                         /\ Cardinality(Writing \ {c}) = Cardinality(Writing) - 1
  BY <1>c, FS_RemoveElement
<1> DEFINE Kept == /\ UNCHANGED <<window, abandoned>>
                   /\ Writing' = Writing
                   /\ \A c \in Callers : pc'[c] = "trim" => pc[c] = "trim" /\ counted'[c] = counted[c]
<1>k. Kept => Trimmable'
  BY DEF Trimmable, WindowBounded
<1>1. ASSUME NEW c \in Callers, NEW n \in 1 .. MaxBatch, BeginIngest(c, n) PROVE Kept
  BY <1>t, <1>1 DEF BeginIngest, Go, Writing, redis, round, history
<1>2. ASSUME NEW c \in Callers, BeginBatch(c) PROVE Kept
  BY <1>t, <1>2 DEF BeginBatch, Go, Writing, redis, round, history
<1>3. ASSUME NEW c \in Callers, ReadEmpty(c) PROVE Kept
  BY <1>t, <1>3 DEF ReadEmpty, Go, Writing, EndRound, redis, history
<1>4. ASSUME NEW c \in Callers, Read(c) PROVE Kept
  BY <1>t, <1>4 DEF Read, Go, Writing, redis, history
<1>5. ASSUME NEW c \in Callers, EndDetection(c) PROVE Kept
  BY <1>t, <1>5 DEF EndDetection, Go, Writing, EndRound, redis, history
<1>6. ASSUME NEW c \in Callers, SkipDetector(c) PROVE Kept
  BY <1>t, <1>6 DEF SkipDetector, Go, Writing, redis, history
<1>7. ASSUME NEW c \in Callers, CheckCooldown(c) PROVE Kept
  BY <1>t, <1>7 DEF CheckCooldown, Go, Writing, redis, round, history
<1>8. ASSUME NEW c \in Callers, Record(c) PROVE Kept
  BY <1>t, <1>8 DEF Record, Go, Writing, redis, round, history
<1>9. ASSUME NEW c \in Callers, Arm(c) PROVE Kept
  BY <1>t, <1>9 DEF Arm, Go, Writing, history
<1>10. ASSUME NEW c \in Callers, SkipRule(c) PROVE Kept
  BY <1>t, <1>10 DEF SkipRule, Go, Writing, redis, history
<1>11. ASSUME NEW c \in Callers, CheckRule(c) PROVE Kept
  BY <1>t, <1>11 DEF CheckRule, Go, Writing, redis, round, history
<1>12. ASSUME NEW c \in Callers, ArmRule(c) PROVE Kept
  BY <1>t, <1>12 DEF ArmRule, Go, Writing, history
<1>13. ASSUME NEW c \in Callers, EndRules(c) PROVE Kept
  BY <1>t, <1>13 DEF EndRules, Go, Writing, redis, round, history
<1>14. ASSUME NEW c \in Callers, Notify(c) PROVE Kept
  BY <1>t, <1>14 DEF Notify, Go, Writing, redis, history
<1>15. ASSUME NEW c \in Callers, Commit(c) PROVE Kept
  BY <1>t, <1>15 DEF Commit, Go, Writing, redis, round, history
<1>16. ASSUME NEW d \in Detectors, CooldownEnds(d) PROVE Kept
  BY <1>16 DEF CooldownEnds, Writing, round, history
<1>17. ASSUME NEW r \in Rules, RuleCooldownEnds(r) PROVE Kept
  BY <1>17 DEF RuleCooldownEnds, Writing, round, history
<1>18. CASE UNCHANGED vars
  BY <1>18, <1>k DEF vars, Writing, redis, round, history
<1> HIDE DEF Kept
<1>19. ASSUME NEW c \in Callers, NEW p \in Points, ZAdd(c, p) PROVE Trimmable'
  <2>1. /\ pc[c] = "add" /\ pc' = [pc EXCEPT ![c] = "count"]
        /\ window' = window \cup {p}
        /\ UNCHANGED <<counted, abandoned>>
    BY <1>19 DEF ZAdd, Go
  <2>2. Writing' = Writing \cup {c} /\ c \notin Writing
    BY <1>t, <2>1 DEF Writing
  <2>3. IsFiniteSet(Writing') /\ Cardinality(Writing') = Cardinality(Writing) + 1
    BY <1>c, <2>2, FS_AddElement
  <2>4. Cardinality(window') <= Cardinality(window) + 1
    <3>1. Cardinality(window \cup {p}) =
            IF p \in window THEN Cardinality(window) ELSE Cardinality(window) + 1
      BY <1>c, FS_AddElement
    <3> QED BY <1>c, <2>1, <3>1
  <2>5. \A b \in Callers : pc'[b] = "trim" => pc[b] = "trim" /\ counted'[b] = counted[b]
    BY <1>t, <2>1
  <2>6. IsFiniteSet(window')
    BY <1>c, <2>1, FS_AddElement
  <2>7. Cardinality(window') \in Nat
    BY <2>6, FS_CardinalityType
  <2>8. WindowBounded'
    BY <1>t, <1>c, <1>b, <2>1, <2>3, <2>4, <2>7 DEF WindowBounded
  <2> QED BY <2>3, <2>5, <2>8 DEF Trimmable
<1>20. ASSUME NEW c \in Callers, ZCard(c) PROVE Trimmable'
  <2>1. pc[c] = "count" /\ UNCHANGED <<window, abandoned>>
    BY <1>20 DEF ZCard, Go, redis, history
  <2>2. CASE Cardinality(window) > WindowSize
    <3>1. pc' = [pc EXCEPT ![c] = "trim"] /\ counted' = [counted EXCEPT ![c] = Cardinality(window)]
      BY <1>20, <2>2 DEF ZCard, Go
    <3>2. Writing' = Writing
      BY <1>t, <2>1, <3>1 DEF Writing
    <3>3. \A b \in Callers : pc'[b] = "trim" => counted'[b] > WindowSize
      BY <1>t, <2>2, <3>1 DEF Trimmable
    <3>4. WindowBounded'
      BY <1>b, <2>1, <3>2 DEF WindowBounded
    <3> QED BY <1>c, <3>2, <3>3, <3>4 DEF Trimmable
  <2>3. CASE ~(Cardinality(window) > WindowSize)
    <3>1. pc' = [pc EXCEPT ![c] = "read"] /\ counted' = [counted EXCEPT ![c] = 0]
      BY <1>20, <2>3 DEF ZCard, Go
    <3>2. Writing' = Writing \ {c} /\ c \in Writing
      BY <1>t, <2>1, <3>1 DEF Writing
    <3>3. \A b \in Callers : pc'[b] = "trim" => pc[b] = "trim" /\ counted'[b] = counted[b]
      BY <1>t, <3>1
    <3>4. IsFiniteSet(Writing') /\ Cardinality(Writing') \in Nat
      BY <1>r, <3>2, FS_CardinalityType
    <3>5. WindowBounded'
      BY <1>t, <1>c, <2>1, <2>3, <3>4 DEF WindowBounded
    <3> QED BY <3>3, <3>4, <3>5 DEF Trimmable
  <2> QED BY <2>2, <2>3
<1>21. ASSUME NEW c \in Callers, Trim(c) PROVE Trimmable'
  <2>1. /\ pc[c] = "trim" /\ pc' = [pc EXCEPT ![c] = "read"]
        /\ window' = {p \in window : Rank(window, p) >= Excess(counted[c])}
        /\ counted' = [counted EXCEPT ![c] = 0] /\ UNCHANGED abandoned
    BY <1>21 DEF Trim, Go, history
  <2>2. Writing' = Writing \ {c} /\ c \in Writing
    BY <1>t, <2>1 DEF Writing
  <2>3. IsFiniteSet(Writing') /\ Cardinality(Writing') = Cardinality(Writing) - 1 /\ Cardinality(Writing') \in Nat
    BY <1>r, <2>2, FS_CardinalityType
  <2>4. counted[c] \in Nat /\ counted[c] > WindowSize
    BY <1>t, <2>1 DEF Trimmable
  <2>5. window' = {} \/ Cardinality(window') <= Cardinality(window) - 1
    BY <1>t, <2>1, <2>4, TrimRemoves
  <2>6. IsFiniteSet(window') /\ Cardinality(window') \in Nat
    BY <1>c, <2>1, FS_Subset, FS_CardinalityType
  <2>7. WindowBounded'
    <3>1. CASE window' = {}
      <4>1. Cardinality(window') = 0
        BY <3>1, FS_EmptySet
      <4> QED BY <1>t, <2>1, <2>3, <4>1 DEF WindowBounded
    <3>2. CASE Cardinality(window') <= Cardinality(window) - 1
      BY <1>t, <1>c, <1>b, <2>1, <2>3, <2>6, <3>2 DEF WindowBounded
    <3> QED BY <2>5, <3>1, <3>2
  <2>8. \A b \in Callers : pc'[b] = "trim" => pc[b] = "trim" /\ counted'[b] = counted[b]
    BY <1>t, <2>1
  <2> QED BY <2>3, <2>7, <2>8 DEF Trimmable
<1>22. ASSUME NEW c \in Callers, Fail(c) PROVE Trimmable'
  <2>1. /\ pc' = [pc EXCEPT ![c] = "idle"] /\ UNCHANGED window
        /\ counted' = [counted EXCEPT ![c] = 0]
        /\ abandoned' = IF pc[c] \in {"count", "trim"} THEN abandoned + 1 ELSE abandoned
    BY <1>22 DEF Fail, redis
  <2>2. \A b \in Callers : pc'[b] = "trim" => pc[b] = "trim" /\ counted'[b] = counted[b]
    BY <1>t, <2>1
  <2>3. CASE c \in Writing
    <3>1. Writing' = Writing \ {c} /\ abandoned' = abandoned + 1
      BY <1>t, <2>1, <2>3 DEF Writing
    <3>2. IsFiniteSet(Writing') /\ Cardinality(Writing') = Cardinality(Writing) - 1
      BY <1>r, <2>3, <3>1
    <3>3. WindowBounded'
      BY <1>t, <1>c, <1>b, <2>1, <3>1, <3>2 DEF WindowBounded
    <3> QED BY <2>2, <3>2, <3>3 DEF Trimmable
  <2>4. CASE c \notin Writing
    <3>1. Writing' = Writing /\ abandoned' = abandoned
      BY <1>t, <2>1, <2>4 DEF Writing
    <3>2. WindowBounded'
      BY <1>b, <2>1, <3>1 DEF WindowBounded
    <3> QED BY <1>c, <2>2, <3>1, <3>2 DEF Trimmable
  <2> QED BY <2>3, <2>4
<1> QED BY <1>k, <1>1, <1>2, <1>3, <1>4, <1>5, <1>6, <1>7, <1>8, <1>9, <1>10, <1>11, <1>12, <1>13, <1>14, <1>15, <1>16, <1>17, <1>18, <1>19, <1>20, <1>21, <1>22 DEF Next, Ingest, Detect

\* The sorted set has bounded cardinality, for any callers and window size: a
\* window exceeds its size by no more than the callers between their ZADD and
\* their trim, and those that died there.
THEOREM WindowStaysBounded == Spec => []WindowBounded
<1>1. Init => Trimmable
  <2> SUFFICES ASSUME Init PROVE Trimmable
    OBVIOUS
  <2>1. Writing = {} /\ window = {} /\ abandoned = 0 /\ \A c \in Callers : pc[c] = "idle"
    BY DEF Init, Writing
  <2>2. WindowSize \in Nat
    BY DetectionAssumption
  <2> QED BY <2>1, <2>2, FS_EmptySet DEF Trimmable, WindowBounded
<1>2. Trimmable => WindowBounded
  BY DEF Trimmable
<1>3. TypeOK /\ Handling /\ Trimmable /\ [Next]_vars => TypeOK' /\ Handling' /\ Trimmable'
  BY TypeStep, BoundStep
<1> QED BY <1>1, <1>2, <1>3, TypeInit, PTL DEF Spec

-----------------------------------------------------------------------------
(* The point that is scored *)

Latest(c) == \A q \in added : q <= point[c]

Handled == {"check", "record", "arm", "rules", "armRule", "notify"}

\* While writers have not overlapped there is at most one, which trims what it
\* counted, and a point later than all others stays in the window until it is
\* scored.
KeepsLatest ==
  /\ window \subseteq added
  /\ ~overlapped => \A b, c \in Writing : b = c
  /\ \A c \in Callers : ~overlapped /\ pc[c] = "trim" => counted[c] = Cardinality(window)
  /\ \A c \in Callers :
       ingests[c] /\ pc[c] \in {"count", "trim", "read"} /\ ~overlapped /\ Latest(c)
         => point[c] \in window
  /\ \A c \in Callers :
       ingests[c] /\ pc[c] \in Handled /\ ~overlapped /\ Latest(c) => current[c] = point[c]

\* A trim by a writer that counted the whole window keeps the newest member.
LEMMA TrimKeepsNewest ==
  ASSUME NEW S \in SUBSET Points, NEW p \in S, \A q \in S : q <= p
  PROVE  Rank(S, p) >= Excess(Cardinality(S))
<1>1. \A q \in S : q \in Nat
  BY DetectionAssumption DEF Points
<1>2. {q \in S : q < p} = S \ {p}
  <2>1. ASSUME NEW q \in S PROVE q < p <=> q # p
    <3>1. q \in Nat /\ p \in Nat /\ q <= p
      BY <1>1
    <3> QED BY <3>1
  <2> QED BY <2>1
<1>3. IsFiniteSet(S) /\ Cardinality(S) \in Nat
  BY FiniteSubset
<1>4. Rank(S, p) = Cardinality(S) - 1
  BY <1>2, <1>3, FS_RemoveElement DEF Rank
<1> QED BY <1>3, <1>4, DetectionAssumption DEF Excess

\* A step that leaves the window and what was added alone, starts no writer,
\* and takes a caller no nearer to scoring.
LEMMA LatestKept ==
  ASSUME TypeOK, KeepsLatest, UNCHANGED <<window, added, overlapped>>,
         \A c \in Callers :
           /\ pc'[c] \in {"count", "trim"} => pc'[c] = pc[c] /\ counted'[c] = counted[c]
           /\ ingests'[c] /\ pc'[c] \in {"count", "trim", "read"}
                => ingests[c] /\ pc[c] \in {"count", "trim", "read"} /\ point'[c] = point[c]
           /\ ingests'[c] /\ pc'[c] \in Handled
                => ingests[c] /\ pc[c] \in Handled /\ point'[c] = point[c] /\ current'[c] = current[c]
  PROVE  KeepsLatest'
<1>1. (window \subseteq added)'
  BY DEF KeepsLatest
<1>2. (~overlapped => \A b, c \in Writing : b = c)'
  <2>1. Writing' \subseteq Writing
    BY DEF Writing
  <2> QED BY <2>1 DEF KeepsLatest
<1>3. (\A c \in Callers : ~overlapped /\ pc[c] = "trim" => counted[c] = Cardinality(window))'
  BY DEF KeepsLatest
<1>4. (\A c \in Callers :
         ingests[c] /\ pc[c] \in {"count", "trim", "read"} /\ ~overlapped /\ Latest(c)
           => point[c] \in window)'
  BY DEF KeepsLatest, Latest
<1>5. (\A c \in Callers :
         ingests[c] /\ pc[c] \in Handled /\ ~overlapped /\ Latest(c) => current[c] = point[c])'
  BY DEF KeepsLatest, Latest
<1> QED BY <1>1, <1>2, <1>3, <1>4, <1>5 DEF KeepsLatest

LEMMA LatestStep ==
  ASSUME TypeOK, KeepsLatest, [Next]_vars
  PROVE  KeepsLatest'
<1>t. /\ window \subseteq Points /\ added \subseteq Points /\ overlapped \in BOOLEAN
      /\ counted \in [Callers -> Nat] /\ ingests \in [Callers -> BOOLEAN]
      /\ point \in [Callers -> Points \cup {Nothing}]
      /\ current \in [Callers -> Points \cup {Nothing}]
      /\ pc \in [Callers -> {"idle", "add", "count", "trim", "read", "check", "record", "arm",
                             "rules", "armRule", "notify", "commit"}]
  BY DEF TypeOK
<1> DEFINE Kept == /\ UNCHANGED <<window, added, overlapped>>
                   /\ \A c \in Callers :
                        /\ pc'[c] \in {"count", "trim"} => pc'[c] = pc[c] /\ counted'[c] = counted[c]
                        /\ ingests'[c] /\ pc'[c] \in {"count", "trim", "read"}
                             => /\ ingests[c] /\ pc[c] \in {"count", "trim", "read"}
                                /\ point'[c] = point[c]
                        /\ ingests'[c] /\ pc'[c] \in Handled
                             => /\ ingests[c] /\ pc[c] \in Handled
                                /\ point'[c] = point[c] /\ current'[c] = current[c]
<1>k. Kept => KeepsLatest'
  BY LatestKept
<1>1. ASSUME NEW c \in Callers, NEW n \in 1 .. MaxBatch, BeginIngest(c, n) PROVE Kept
  BY <1>t, <1>1 DEF BeginIngest, Go, Handled, redis, round, history
<1>2. ASSUME NEW c \in Callers, BeginBatch(c) PROVE Kept
  BY <1>t, <1>2 DEF BeginBatch, Go, Handled, redis, round, history
<1>3. ASSUME NEW c \in Callers, ReadEmpty(c) PROVE Kept
  BY <1>t, <1>3 DEF ReadEmpty, Go, Handled, EndRound, LastRound, redis, history
<1>4. ASSUME NEW c \in Callers, EndDetection(c) PROVE Kept
  BY <1>t, <1>4 DEF EndDetection, Go, Handled, EndRound, LastRound, redis, history
<1>5. ASSUME NEW c \in Callers, SkipDetector(c) PROVE Kept
  BY <1>t, <1>5 DEF SkipDetector, Go, Handled, redis, request, history
<1>6. ASSUME NEW c \in Callers, CheckCooldown(c) PROVE Kept
  BY <1>t, <1>6 DEF CheckCooldown, Go, Handled, redis, round, request, history
<1>7. ASSUME NEW c \in Callers, Record(c) PROVE Kept
  BY <1>t, <1>7 DEF Record, Go, Handled, redis, round, request, history
<1>8. ASSUME NEW c \in Callers, Arm(c) PROVE Kept
  BY <1>t, <1>8 DEF Arm, Go, Handled, request, history
<1>9. ASSUME NEW c \in Callers, SkipRule(c) PROVE Kept
  BY <1>t, <1>9 DEF SkipRule, Go, Handled, redis, request, history
<1>10. ASSUME NEW c \in Callers, CheckRule(c) PROVE Kept
  BY <1>t, <1>10 DEF CheckRule, Go, Handled, redis, round, request, history
<1>11. ASSUME NEW c \in Callers, ArmRule(c) PROVE Kept
  BY <1>t, <1>11 DEF ArmRule, Go, Handled, request, history
<1>12. ASSUME NEW c \in Callers, EndRules(c) PROVE Kept
  BY <1>t, <1>12 DEF EndRules, Go, Handled, redis, round, request, history
<1>13. ASSUME NEW c \in Callers, Notify(c) PROVE Kept
  BY <1>t, <1>13 DEF Notify, Go, Handled, redis, request, history
<1>14. ASSUME NEW c \in Callers, Commit(c) PROVE Kept
  BY <1>t, <1>14 DEF Commit, Go, Handled, redis, round, history
<1>15. ASSUME NEW c \in Callers, Fail(c) PROVE Kept
  BY <1>t, <1>15 DEF Fail, Go, Handled, redis
<1>16. ASSUME NEW d \in Detectors, CooldownEnds(d) PROVE Kept
  BY <1>16 DEF CooldownEnds, round, request, history
<1>17. ASSUME NEW r \in Rules, RuleCooldownEnds(r) PROVE Kept
  BY <1>17 DEF RuleCooldownEnds, round, request, history
<1>18. CASE UNCHANGED vars
  BY <1>18, <1>k DEF vars, redis, round, request, history
<1> HIDE DEF Kept
<1>19. ASSUME NEW c \in Callers, NEW p \in Points, ZAdd(c, p) PROVE KeepsLatest'
  <2>1. /\ pc[c] = "add" /\ pc' = [pc EXCEPT ![c] = "count"]
        /\ window' = window \cup {p} /\ point' = [point EXCEPT ![c] = p]
        /\ added' = added \cup {p} /\ overlapped' = (overlapped \/ Writing # {})
        /\ UNCHANGED <<counted, current, ingests>>
    BY <1>19 DEF ZAdd, Go
  <2>2. /\ pc'[c] = "count" /\ point'[c] = p
        /\ \A b \in Callers : b # c => pc'[b] = pc[b] /\ point'[b] = point[b]
    BY <1>t, <2>1
  <2>3. ~overlapped' => ~overlapped /\ Writing = {} /\ Writing' = {c}
    BY <1>t, <2>1, <2>2 DEF Writing
  <2>4. (window \subseteq added)'
    BY <2>1 DEF KeepsLatest
  <2>5. (~overlapped => \A a, b \in Writing : a = b)'
    BY <2>3
  <2>6. (\A b \in Callers : ~overlapped /\ pc[b] = "trim" => counted[b] = Cardinality(window))'
    BY <2>2, <2>3 DEF Writing
  <2>7. (\A b \in Callers :
           ingests[b] /\ pc[b] \in {"count", "trim", "read"} /\ ~overlapped /\ Latest(b)
             => point[b] \in window)'
    <3> SUFFICES ASSUME NEW b \in Callers, ingests[b], pc'[b] \in {"count", "trim", "read"},
                        ~overlapped', Latest(b)'
                 PROVE  point'[b] \in window'
      BY <2>1
    <3>1. CASE b = c
      BY <2>1, <2>2, <3>1
    <3>2. CASE b # c
      <4>1. Latest(b)
        BY <2>1, <2>2, <3>2 DEF Latest
      <4> QED BY <2>1, <2>2, <2>3, <3>2, <4>1 DEF KeepsLatest
    <3> QED BY <3>1, <3>2
  <2>8. (\A b \in Callers :
           ingests[b] /\ pc[b] \in Handled /\ ~overlapped /\ Latest(b) => current[b] = point[b])'
    <3> SUFFICES ASSUME NEW b \in Callers, ingests[b], pc'[b] \in Handled, ~overlapped', Latest(b)'
                 PROVE  current[b] = point'[b]
      BY <2>1
    <3>1. b # c
      BY <2>2 DEF Handled
    <3>2. Latest(b)
      BY <2>1, <2>2, <3>1 DEF Latest
    <3> QED BY <2>2, <2>3, <3>1, <3>2 DEF KeepsLatest
  <2> QED BY <2>4, <2>5, <2>6, <2>7, <2>8 DEF KeepsLatest
<1>20. ASSUME NEW c \in Callers, ZCard(c) PROVE KeepsLatest'
  <2>1. /\ pc[c] = "count" /\ UNCHANGED <<window, added, overlapped, point, current, ingests>>
        /\ pc' = [pc EXCEPT ![c] = IF Cardinality(window) > WindowSize THEN "trim" ELSE "read"]
        /\ counted' = [counted EXCEPT ![c] =
                         IF Cardinality(window) > WindowSize THEN Cardinality(window) ELSE 0]
    BY <1>20 DEF ZCard, Go, redis, history, request
  <2>2. /\ pc'[c] \in {"trim", "read"}
        /\ pc'[c] = "trim" => counted'[c] = Cardinality(window)
        /\ \A b \in Callers : b # c => pc'[b] = pc[b] /\ counted'[b] = counted[b]
    BY <1>t, <2>1
  <2>3. (window \subseteq added)'
    BY <2>1 DEF KeepsLatest
  <2>4. (~overlapped => \A a, b \in Writing : a = b)'
    <3>1. Writing' \subseteq Writing
      BY <2>1, <2>2 DEF Writing
    <3> QED BY <2>1, <3>1 DEF KeepsLatest
  <2>5. (\A b \in Callers : ~overlapped /\ pc[b] = "trim" => counted[b] = Cardinality(window))'
    BY <2>1, <2>2 DEF KeepsLatest
  <2>6. (\A b \in Callers :
           ingests[b] /\ pc[b] \in {"count", "trim", "read"} /\ ~overlapped /\ Latest(b)
             => point[b] \in window)'
    BY <2>1, <2>2 DEF KeepsLatest, Latest
  <2>7. (\A b \in Callers :
           ingests[b] /\ pc[b] \in Handled /\ ~overlapped /\ Latest(b) => current[b] = point[b])'
    BY <2>1, <2>2 DEF KeepsLatest, Latest, Handled
  <2> QED BY <2>3, <2>4, <2>5, <2>6, <2>7 DEF KeepsLatest
<1>21. ASSUME NEW c \in Callers, Trim(c) PROVE KeepsLatest'
  <2>1. /\ pc[c] = "trim" /\ pc' = [pc EXCEPT ![c] = "read"]
        /\ window' = {p \in window : Rank(window, p) >= Excess(counted[c])}
        /\ counted' = [counted EXCEPT ![c] = 0]
        /\ UNCHANGED <<added, overlapped, point, current, ingests>>
    BY <1>21 DEF Trim, Go, history, request
  <2>2. /\ pc'[c] = "read" /\ c \in Writing
        /\ \A b \in Callers : b # c => pc'[b] = pc[b] /\ counted'[b] = counted[b]
    BY <1>t, <2>1 DEF Writing
  <2>3. ~overlapped => Writing' = {}
    BY <2>1, <2>2 DEF KeepsLatest, Writing
  <2>4. (window \subseteq added)'
    BY <2>1 DEF KeepsLatest
  <2>5. (~overlapped => \A a, b \in Writing : a = b)'
    BY <2>1, <2>3
  <2>6. (\A b \in Callers : ~overlapped /\ pc[b] = "trim" => counted[b] = Cardinality(window))'
    BY <2>1, <2>3 DEF Writing
  <2>7. (\A b \in Callers :
           ingests[b] /\ pc[b] \in {"count", "trim", "read"} /\ ~overlapped /\ Latest(b)
             => point[b] \in window)'
    <3> SUFFICES ASSUME NEW b \in Callers, ingests[b], pc'[b] \in {"count", "trim", "read"},
                        ~overlapped, Latest(b)'
                 PROVE  point[b] \in window'
      BY <2>1
    <3>1. Latest(b) /\ pc[b] \in {"count", "trim", "read"}
      BY <2>1, <2>2 DEF Latest
    <3>2. point[b] \in window /\ \A q \in window : q <= point[b]
      BY <3>1 DEF KeepsLatest, Latest
    <3>3. Rank(window, point[b]) >= Excess(Cardinality(window))
      BY <1>t, <3>2, TrimKeepsNewest
    <3>4. counted[c] = Cardinality(window)
      BY <2>1 DEF KeepsLatest
    <3> QED BY <2>1, <3>2, <3>3, <3>4
  <2>8. (\A b \in Callers :
           ingests[b] /\ pc[b] \in Handled /\ ~overlapped /\ Latest(b) => current[b] = point[b])'
    BY <2>1, <2>2 DEF KeepsLatest, Latest, Handled
  <2> QED BY <2>4, <2>5, <2>6, <2>7, <2>8 DEF KeepsLatest
<1>22. ASSUME NEW c \in Callers, Read(c) PROVE KeepsLatest'
  <2>1. /\ pc[c] = "read" /\ pc' = [pc EXCEPT ![c] = "check"] /\ window # {}
        /\ current' = [current EXCEPT ![c] = Newest(window)]
        /\ UNCHANGED <<window, added, overlapped, point, counted, ingests>>
    BY <1>22 DEF Read, Go, Scored, redis, history, request
  <2>2. /\ pc'[c] = "check" /\ current'[c] = Newest(window)
        /\ \A b \in Callers : b # c => pc'[b] = pc[b] /\ current'[b] = current[b]
    BY <1>t, <2>1
  <2>3. (window \subseteq added)'
    BY <2>1 DEF KeepsLatest
  <2>4. (~overlapped => \A a, b \in Writing : a = b)'
    <3>1. Writing' \subseteq Writing
      BY <2>1, <2>2 DEF Writing
    <3> QED BY <2>1, <3>1 DEF KeepsLatest
  <2>5. (\A b \in Callers : ~overlapped /\ pc[b] = "trim" => counted[b] = Cardinality(window))'
    BY <2>1, <2>2 DEF KeepsLatest
  <2>6. (\A b \in Callers :
           ingests[b] /\ pc[b] \in {"count", "trim", "read"} /\ ~overlapped /\ Latest(b)
             => point[b] \in window)'
    BY <2>1, <2>2 DEF KeepsLatest, Latest
  <2>7. (\A b \in Callers :
           ingests[b] /\ pc[b] \in Handled /\ ~overlapped /\ Latest(b) => current[b] = point[b])'
    <3> SUFFICES ASSUME NEW b \in Callers, ingests[b], pc'[b] \in Handled, ~overlapped, Latest(b)
                 PROVE  current'[b] = point[b]
      BY <2>1 DEF Latest
    <3>1. CASE b = c
      <4>1. point[c] \in window /\ \A q \in window : q <= point[c]
        BY <2>1, <3>1 DEF KeepsLatest, Latest
      <4>2. Newest(window) \in window /\ point[c] <= Newest(window)
        BY <1>t, <4>1, NewestMember
      <4>3. Newest(window) <= point[c]
        BY <4>1, <4>2
      <4>4. \A q \in window : q \in Nat
        BY <1>t, DetectionAssumption DEF Points
      <4>5. Newest(window) \in Nat /\ point[c] \in Nat
        BY <4>1, <4>2, <4>4
      <4>6. Newest(window) = point[c]
        BY <4>2, <4>3, <4>5
      <4> QED BY <2>2, <3>1, <4>6
    <3>2. CASE b # c
      BY <2>2, <3>2 DEF KeepsLatest
    <3> QED BY <3>1, <3>2
  <2> QED BY <2>3, <2>4, <2>5, <2>6, <2>7 DEF KeepsLatest
<1> QED BY <1>k, <1>1, <1>2, <1>3, <1>4, <1>5, <1>6, <1>7, <1>8, <1>9, <1>10, <1>11, <1>12, <1>13, <1>14, <1>15, <1>16, <1>17, <1>18, <1>19, <1>20, <1>21, <1>22 DEF Next, Ingest, Detect

LEMMA LatestInit == Init => KeepsLatest
<1> SUFFICES ASSUME Init PROVE KeepsLatest
  OBVIOUS
<1>1. window = {} /\ \A c \in Callers : pc[c] = "idle"
  BY DEF Init
<1> QED BY <1>1 DEF KeepsLatest, Writing, Handled

\* Each point is scored: a caller scores the point it ingested unless a point
\* with a later timestamp was added or two writers overlapped, for any callers,
\* points and window size.
THEOREM LatestIsScored == Spec => []InOrderIsScored
<1>1. KeepsLatest => InOrderIsScored
  BY DEF KeepsLatest, InOrderIsScored, Latest, Handled
<1>2. TypeOK /\ Handling /\ KeepsLatest /\ [Next]_vars => TypeOK' /\ Handling' /\ KeepsLatest'
  BY TypeStep, LatestStep
<1> QED BY <1>1, <1>2, TypeInit, LatestInit, PTL DEF Spec

-----------------------------------------------------------------------------
(* The recent points *)

\* A trim that counted the whole window keeps what has fewer than WindowSize
\* later members.
LEMMA TrimKeepsRecent ==
  ASSUME NEW S \in SUBSET Points, NEW p \in S, Cardinality({q \in S : q > p}) < WindowSize
  PROVE  Rank(S, p) >= Excess(Cardinality(S))
<1> DEFINE Below == {q \in S : q < p}
           Above == {q \in S : q > p}
<1>1. \A q \in S : q \in Nat
  BY DetectionAssumption DEF Points
<1>2. IsFiniteSet(S) /\ Cardinality(S) \in Nat /\ IsFiniteSet(Below) /\ IsFiniteSet(Above)
      /\ Cardinality(Below) \in Nat /\ Cardinality(Above) \in Nat
  BY FiniteSubset
<1>3. S \ {p} = Below \cup Above /\ Below \cap Above = {}
  <2>1. ASSUME NEW q \in S PROVE q # p <=> q < p \/ q > p
    <3>1. q \in Nat /\ p \in Nat
      BY <1>1
    <3> QED BY <3>1
  <2>2. ASSUME NEW q \in S PROVE ~(q < p /\ q > p)
    <3>1. q \in Nat /\ p \in Nat
      BY <1>1
    <3> QED BY <3>1
  <2> QED BY <2>1, <2>2
<1>4. Cardinality(S \ {p}) = Cardinality(S) - 1
  BY <1>2, FS_RemoveElement
<1>5. Cardinality(Below \cup Above) = Cardinality(Below) + Cardinality(Above)
  <2>1. Cardinality(Below \cup Above) =
          Cardinality(Below) + Cardinality(Above) - Cardinality(Below \cap Above)
    BY <1>2, FS_Union
  <2>2. Cardinality(Below \cap Above) = 0
    BY <1>3, FS_EmptySet
  <2> QED BY <1>2, <2>1, <2>2
<1>6. Rank(S, p) = Cardinality(Below)
  BY DEF Rank
<1> HIDE DEF Below
<1>7. Cardinality(Above) < WindowSize
  OBVIOUS
<1> HIDE DEF Above
<1>8. Cardinality(Below) + Cardinality(Above) = Cardinality(S) - 1
  BY <1>3, <1>4, <1>5
<1>9. WindowSize \in Nat
  BY DetectionAssumption
<1>10. Cardinality(Below) >= Cardinality(S) - WindowSize
  BY <1>2, <1>7, <1>8, <1>9
<1> QED BY <1>6, <1>10 DEF Excess

LEMMA RecentStep ==
  ASSUME TypeOK, KeepsLatest, RecentUnlessOverlapped, [Next]_vars
  PROVE  RecentUnlessOverlapped'
<1>t. /\ window \subseteq Points /\ added \subseteq Points /\ window \subseteq added
  BY DEF TypeOK, KeepsLatest
<1> DEFINE Kept == UNCHANGED <<window, added, overlapped>>
<1>k. Kept => RecentUnlessOverlapped'
  BY DEF RecentUnlessOverlapped
<1>1. ASSUME NEW c \in Callers, NEW n \in 1 .. MaxBatch, BeginIngest(c, n) PROVE Kept
  BY <1>1 DEF BeginIngest, redis, history
<1>2. ASSUME NEW c \in Callers, BeginBatch(c) PROVE Kept
  BY <1>2 DEF BeginBatch, redis, history
<1>3. ASSUME NEW c \in Callers, ZCard(c) PROVE Kept
  BY <1>3 DEF ZCard, redis, history
<1>4. ASSUME NEW c \in Callers, ReadEmpty(c) PROVE Kept
  BY <1>4 DEF ReadEmpty, redis, history
<1>5. ASSUME NEW c \in Callers, Read(c) PROVE Kept
  BY <1>5 DEF Read, redis, history
<1>6. ASSUME NEW c \in Callers, EndDetection(c) PROVE Kept
  BY <1>6 DEF EndDetection, redis, history
<1>7. ASSUME NEW c \in Callers, SkipDetector(c) PROVE Kept
  BY <1>7 DEF SkipDetector, redis, history
<1>8. ASSUME NEW c \in Callers, CheckCooldown(c) PROVE Kept
  BY <1>8 DEF CheckCooldown, redis, history
<1>9. ASSUME NEW c \in Callers, Record(c) PROVE Kept
  BY <1>9 DEF Record, redis, history
<1>10. ASSUME NEW c \in Callers, Arm(c) PROVE Kept
  BY <1>10 DEF Arm, history
<1>11. ASSUME NEW c \in Callers, SkipRule(c) PROVE Kept
  BY <1>11 DEF SkipRule, redis, history
<1>12. ASSUME NEW c \in Callers, CheckRule(c) PROVE Kept
  BY <1>12 DEF CheckRule, redis, history
<1>13. ASSUME NEW c \in Callers, ArmRule(c) PROVE Kept
  BY <1>13 DEF ArmRule, history
<1>14. ASSUME NEW c \in Callers, EndRules(c) PROVE Kept
  BY <1>14 DEF EndRules, redis, history
<1>15. ASSUME NEW c \in Callers, Notify(c) PROVE Kept
  BY <1>15 DEF Notify, redis, history
<1>16. ASSUME NEW c \in Callers, Commit(c) PROVE Kept
  BY <1>16 DEF Commit, redis, history
<1>17. ASSUME NEW c \in Callers, Fail(c) PROVE Kept
  BY <1>17 DEF Fail, redis
<1>18. ASSUME NEW d \in Detectors, CooldownEnds(d) PROVE Kept
  BY <1>18 DEF CooldownEnds, history
<1>19. ASSUME NEW r \in Rules, RuleCooldownEnds(r) PROVE Kept
  BY <1>19 DEF RuleCooldownEnds, history
<1>20. CASE UNCHANGED vars
  BY <1>20, <1>k DEF vars, redis, history
<1> HIDE DEF Kept
<1>21. ASSUME NEW c \in Callers, NEW p \in Points, ZAdd(c, p) PROVE RecentUnlessOverlapped'
  <2>1. /\ window' = window \cup {p} /\ added' = added \cup {p}
        /\ overlapped' = (overlapped \/ Writing # {})
    BY <1>21 DEF ZAdd
  <2> SUFFICES ASSUME ~overlapped', NEW r \in added',
                      Cardinality({q \in added' : q > r}) < WindowSize
               PROVE  r \in window'
    BY DEF RecentUnlessOverlapped
  <2>2. CASE r = p
    BY <2>1, <2>2
  <2>3. CASE r # p
    <3>1. {q \in added' : q > r} \in SUBSET Points /\ {q \in added : q > r} \subseteq {q \in added' : q > r}
      BY <1>t, <2>1
    <3>2. Cardinality({q \in added : q > r}) <= Cardinality({q \in added' : q > r})
      BY <3>1, FiniteSubset, FS_Subset
    <3>3. /\ Cardinality({q \in added : q > r}) \in Nat
          /\ Cardinality({q \in added' : q > r}) \in Nat /\ WindowSize \in Nat
      BY <1>t, <3>1, FiniteSubset, DetectionAssumption
    <3>4. Cardinality({q \in added : q > r}) < WindowSize
      BY <3>2, <3>3
    <3> QED BY <2>1, <2>3, <3>4 DEF RecentUnlessOverlapped
  <2> QED BY <2>2, <2>3
<1>22. ASSUME NEW c \in Callers, Trim(c) PROVE RecentUnlessOverlapped'
  <2>1. /\ pc[c] = "trim" /\ UNCHANGED <<added, overlapped>>
        /\ window' = {p \in window : Rank(window, p) >= Excess(counted[c])}
    BY <1>22 DEF Trim, Go, history
  <2> SUFFICES ASSUME ~overlapped, NEW r \in added, Cardinality({q \in added : q > r}) < WindowSize
               PROVE  r \in window'
    BY <2>1 DEF RecentUnlessOverlapped
  <2>2. r \in window
    BY DEF RecentUnlessOverlapped
  <2>3. counted[c] = Cardinality(window)
    BY <2>1 DEF KeepsLatest
  <2>4. Cardinality({q \in window : q > r}) < WindowSize
    <3>1. {q \in added : q > r} \in SUBSET Points /\ {q \in window : q > r} \subseteq {q \in added : q > r}
      BY <1>t
    <3>2. Cardinality({q \in window : q > r}) <= Cardinality({q \in added : q > r})
      BY <3>1, FiniteSubset, FS_Subset
    <3>3. /\ Cardinality({q \in window : q > r}) \in Nat
          /\ Cardinality({q \in added : q > r}) \in Nat /\ WindowSize \in Nat
      BY <1>t, <3>1, FiniteSubset, DetectionAssumption
    <3> QED BY <3>2, <3>3
  <2>5. Rank(window, r) >= Excess(Cardinality(window))
    BY <1>t, <2>2, <2>4, TrimKeepsRecent
  <2> QED BY <2>1, <2>2, <2>3, <2>5
<1> QED BY <1>k, <1>1, <1>2, <1>3, <1>4, <1>5, <1>6, <1>7, <1>8, <1>9, <1>10, <1>11, <1>12, <1>13, <1>14, <1>15, <1>16, <1>17, <1>18, <1>19, <1>20, <1>21, <1>22 DEF Next, Ingest, Detect

\* The sorted set gives the recent values: without overlapping writers the
\* newest WindowSize points ever added are in the window, for any callers,
\* points and window size.
THEOREM RecentPointsStay == Spec => []RecentUnlessOverlapped
<1>1. Init => RecentUnlessOverlapped
  BY DEF Init, RecentUnlessOverlapped
<1>2. TypeOK /\ Handling /\ KeepsLatest /\ RecentUnlessOverlapped /\ [Next]_vars
        => TypeOK' /\ Handling' /\ KeepsLatest' /\ RecentUnlessOverlapped'
  BY TypeStep, LatestStep, RecentStep
<1> QED BY <1>1, <1>2, TypeInit, LatestInit, PTL DEF Spec

=============================================================================
