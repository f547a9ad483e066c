---------------------------- MODULE MetricDetection ----------------------------
(***************************************************************************)
(* Ingestion and detection for one metric of one existing source: API      *)
(* requests (one point or a batch) and the batch worker put points into    *)
(* the sorted set that Redis keeps as the sliding window, score the newest *)
(* member of it, and record anomalies under cooldown keys.  Every await is *)
(* a point where another caller may step in, and every caller is one       *)
(* database transaction, while its Redis commands take effect at once.     *)
(*                                                                         *)
(* The detectors are numerical; which of them report an anomaly is a       *)
(* nondeterministic choice here.                                           *)
(***************************************************************************)
EXTENDS Naturals, FiniteSets

CONSTANTS Callers,
          MaxPoint,     \* points are 1 .. MaxPoint, in the order of their timestamps
          MaxBatch,     \* bound on the points of one request
          WindowSize,   \* DETECTION_WINDOW_SIZE
          Detectors,    \* 1 .. n, in the order of the registry
          Rules,        \* 1 .. n, alert rules in the order they are read
          RuleFor,      \* the detector a rule is about
          Nothing

Points == 1 .. MaxPoint

ASSUME DetectionAssumption ==
  /\ MaxPoint \in Nat /\ MaxBatch \in Nat \ {0} /\ WindowSize \in Nat \ {0}
  /\ Detectors \subseteq Nat /\ IsFiniteSet(Detectors)
  /\ Rules \subseteq Nat /\ IsFiniteSet(Rules)
  /\ RuleFor \in [Rules -> Detectors]
  /\ Nothing \notin Points

VARIABLES
  window,     \* the sorted set sw:<source>:<metric>
  rows,       \* committed metric_data_points
  cooldown,   \* the detectors whose cd: key is set
  ruleCooldown,   \* the rules whose rulecd: key is set
  pc, ingests, left, point, fresh,
              \* per caller: next step, whether it ingests (or only detects),
              \* rounds left, the point of the round, points not yet committed
  counted, current, hits, todo, matched,
              \* per caller: ZCARD's answer, the value scored, detectors still to
              \* handle, rules still to check and rules to notify
  open, kept, \* anomaly rows of caller and detector since the detector's cooldown
              \* last ran out: in the caller's open transaction, and committed
  told,       \* notifications a caller decided on since the rule's cooldown ran out
  added, overlapped, abandoned, lost,
              \* history: points ever added to the window, whether one was added
              \* while another caller was between ZADD and its trim, how many
              \* callers died there, and the detectors whose cooldown outlives a
              \* row that was rolled back
  contenders, ruleContenders
              \* history: for a cooldown that runs, of a detector or a rule, the
              \* callers that had found no key and not set it when it was first set

redis == <<window, cooldown, ruleCooldown>>
round == <<point, counted, current, hits, todo, matched>>
request == <<ingests, left, fresh>>
anomalies == <<open, kept, told>>
history == <<added, overlapped, abandoned, lost, contenders, ruleContenders>>
vars == <<redis, rows, pc, round, request, anomalies, history>>

TypeOK ==
  /\ window \subseteq Points
  /\ rows \subseteq Points
  /\ cooldown \subseteq Detectors
  /\ ruleCooldown \subseteq Rules
  /\ pc \in [Callers -> {"idle", "add", "count", "trim", "read", "check", "record", "arm",
                         "rules", "armRule", "notify", "commit"}]
  /\ ingests \in [Callers -> BOOLEAN]
  /\ left \in [Callers -> Nat]
  /\ point \in [Callers -> Points \cup {Nothing}]
  /\ fresh \in [Callers -> SUBSET Points]
  /\ counted \in [Callers -> Nat]
  /\ current \in [Callers -> Points \cup {Nothing}]
  /\ hits \in [Callers -> SUBSET Detectors]
  /\ todo \in [Callers -> SUBSET Rules]
  /\ matched \in [Callers -> SUBSET Rules]
  /\ open \in [Callers -> [Detectors -> Nat]]
  /\ kept \in [Callers -> [Detectors -> Nat]]
  /\ told \in [Callers -> [Rules -> Nat]]
  /\ added \subseteq Points
  /\ overlapped \in BOOLEAN
  /\ abandoned \in Nat
  /\ lost \subseteq Detectors
  /\ contenders \in [Detectors -> SUBSET Callers]
  /\ ruleContenders \in [Rules -> SUBSET Callers]

Init ==
  /\ window = {} /\ rows = {} /\ cooldown = {} /\ ruleCooldown = {}
  /\ pc = [c \in Callers |-> "idle"]
  /\ ingests = [c \in Callers |-> FALSE]
  /\ left = [c \in Callers |-> 0]
  /\ point = [c \in Callers |-> Nothing]
  /\ fresh = [c \in Callers |-> {}]
  /\ counted = [c \in Callers |-> 0]
  /\ current = [c \in Callers |-> Nothing]
  /\ hits = [c \in Callers |-> {}]
  /\ todo = [c \in Callers |-> {}]
  /\ matched = [c \in Callers |-> {}]
  /\ open = [c \in Callers |-> [d \in Detectors |-> 0]]
  /\ kept = [c \in Callers |-> [d \in Detectors |-> 0]]
  /\ told = [c \in Callers |-> [r \in Rules |-> 0]]
  /\ added = {} /\ overlapped = FALSE /\ abandoned = 0 /\ lost = {}
  /\ contenders = [d \in Detectors |-> {}]
  /\ ruleContenders = [r \in Rules |-> {}]

First(S) == CHOOSE x \in S : \A y \in S : x <= y
Newest(S) == CHOOSE x \in S : \A y \in S : y <= x

\* A member's rank in the sorted set, from the oldest.
Rank(S, p) == Cardinality({q \in S : q < p})

Go(c, from, to) ==
  /\ pc[c] = from
  /\ pc' = [pc EXCEPT ![c] = to]

-----------------------------------------------------------------------------
(* Requests *)

\* POST /ingest and /ingest/batch; get_or_create_source finds the source.
BeginIngest(c, n) ==
  /\ Go(c, "idle", "add")
  /\ ingests' = [ingests EXCEPT ![c] = TRUE]
  /\ left' = [left EXCEPT ![c] = n]
  /\ UNCHANGED <<redis, rows, round, fresh, anomalies, history>>

\* run_batch_detection detects once for each recent row, whichever point it is.
BeginBatch(c) ==
  /\ rows # {}
  /\ Go(c, "idle", "read")
  /\ ingests' = [ingests EXCEPT ![c] = FALSE]
  /\ left' = [left EXCEPT ![c] = Cardinality(rows)]
  /\ UNCHANGED <<redis, rows, round, fresh, anomalies, history>>

LastRound(c) == left[c] = 1

\* run_detection returns, its locals are gone: the next point, or the commit.
EndRound(c, from) ==
  /\ left' = [left EXCEPT ![c] = @ - 1]
  /\ Go(c, from, IF LastRound(c) THEN "commit" ELSE IF ingests[c] THEN "add" ELSE "read")
  /\ point' = [point EXCEPT ![c] = Nothing]
  /\ current' = [current EXCEPT ![c] = Nothing]

Commit(c) ==
  /\ Go(c, "commit", "idle")
  /\ rows' = rows \cup fresh[c]
  /\ fresh' = [fresh EXCEPT ![c] = {}]
  /\ kept' = [kept EXCEPT ![c] = [d \in Detectors |-> @[d] + open[c][d]]]
  /\ open' = [open EXCEPT ![c] = [d \in Detectors |-> 0]]
  /\ ingests' = [ingests EXCEPT ![c] = FALSE]
  /\ UNCHANGED <<redis, left, round, told, history>>

\* The database, Redis or the publication of the metric raises, or the caller
\* dies: the transaction is rolled back, what Redis was told stays.
Fail(c) ==
  /\ pc[c] # "idle"
  /\ pc' = [pc EXCEPT ![c] = "idle"]
  /\ ingests' = [ingests EXCEPT ![c] = FALSE]
  /\ left' = [left EXCEPT ![c] = 0]
  /\ fresh' = [fresh EXCEPT ![c] = {}]
  /\ point' = [point EXCEPT ![c] = Nothing]
  /\ counted' = [counted EXCEPT ![c] = 0]
  /\ current' = [current EXCEPT ![c] = Nothing]
  /\ hits' = [hits EXCEPT ![c] = {}]
  /\ todo' = [todo EXCEPT ![c] = {}]
  /\ matched' = [matched EXCEPT ![c] = {}]
  /\ open' = [open EXCEPT ![c] = [d \in Detectors |-> 0]]
  /\ abandoned' = IF pc[c] \in {"count", "trim"} THEN abandoned + 1 ELSE abandoned
  /\ lost' = lost \cup {d \in cooldown : open[c][d] # 0}
  /\ UNCHANGED <<redis, rows, kept, told, added, overlapped, contenders, ruleContenders>>

-----------------------------------------------------------------------------
(* add_to_sliding_window: three commands *)

Writing == {c \in Callers : pc[c] \in {"count", "trim"}}

\* The point is flushed, then added under its timestamp, which may be older
\* than those in the window.
ZAdd(c, p) ==
  /\ p \notin added
  /\ Go(c, "add", "count")
  /\ window' = window \cup {p}
  /\ point' = [point EXCEPT ![c] = p]
  /\ fresh' = [fresh EXCEPT ![c] = @ \cup {p}]
  /\ added' = added \cup {p}
  /\ overlapped' = (overlapped \/ Writing # {})
  /\ UNCHANGED <<rows, cooldown, ruleCooldown, counted, current, hits, todo,
                 matched, ingests, left, anomalies, abandoned, lost, contenders,
                 ruleContenders>>

ZCard(c) ==
  /\ Go(c, "count", IF Cardinality(window) > WindowSize THEN "trim" ELSE "read")
  /\ counted' = [counted EXCEPT ![c] =
                   IF Cardinality(window) > WindowSize THEN Cardinality(window) ELSE 0]
  /\ UNCHANGED <<redis, rows, point, current, hits, todo, matched, request,
                 anomalies, history>>

ExcessVariant(n) == n - WindowSize - 1
ExcessBothVariant(n) == n - WindowSize + 1

\* The length of the rank range 0 .. n - window_size - 1.
Excess(n) == n - WindowSize

Trim(c) ==
  /\ Go(c, "trim", "read")
  /\ window' = {p \in window : Rank(window, p) >= Excess(counted[c])}
  /\ counted' = [counted EXCEPT ![c] = 0]
  /\ UNCHANGED <<rows, cooldown, ruleCooldown, point, current, hits, todo, matched,
                 request, anomalies, history>>

-----------------------------------------------------------------------------
(* run_detection *)

ReadEmpty(c) ==
  /\ window = {}
  /\ EndRound(c, "read")
  /\ UNCHANGED <<redis, rows, counted, hits, todo, matched, ingests, fresh, anomalies,
                 history>>

ScoredVariant(S) == First(S)

\* window[-1]
Scored(S) == Newest(S)

\* The window is read and the detectors answer.
Read(c) ==
  /\ window # {}
  /\ Go(c, "read", "check")
  /\ current' = [current EXCEPT ![c] = Scored(window)]
  /\ \E D \in SUBSET Detectors : hits' = [hits EXCEPT ![c] = D]
  /\ UNCHANGED <<redis, rows, point, counted, todo, matched, request, anomalies, history>>

Detector(c) == First(hits[c])

\* check_cooldown
IsCoolingVariant(d) == FALSE
IsCooling(d) == d \in cooldown

SkipDetector(c) ==
  /\ hits[c] # {}
  /\ IsCooling(Detector(c))
  /\ Go(c, "check", "check")
  /\ hits' = [hits EXCEPT ![c] = @ \ {Detector(c)}]
  /\ UNCHANGED <<redis, rows, point, counted, current, todo, matched, request,
                 anomalies, history>>

ArmsAtCheckVariant(c) ==
  /\ hits[c] # {}
  /\ ~IsCooling(Detector(c))
  /\ Go(c, "check", "record")
  /\ cooldown' = cooldown \cup {Detector(c)}
  /\ UNCHANGED <<window, ruleCooldown, rows, round, request, anomalies, history>>

CheckCooldown(c) ==
  /\ hits[c] # {}
  /\ ~IsCooling(Detector(c))
  /\ Go(c, "check", "record")
  /\ UNCHANGED <<redis, rows, round, request, anomalies, history>>

EndDetection(c) ==
  /\ hits[c] = {}
  /\ EndRound(c, "check")
  /\ UNCHANGED <<redis, rows, counted, hits, todo, matched, ingests, fresh, anomalies,
                 history>>

\* The row is flushed into the caller's transaction.
Record(c) ==
  /\ Go(c, "record", "arm")
  /\ open' = [open EXCEPT ![c][Detector(c)] = @ + 1]
  /\ UNCHANGED <<redis, rows, round, request, kept, told, history>>

\* The callers between their check of a detector's key and their SETEX of it.
Storing(d) == {c \in Callers : pc[c] \in {"record", "arm"} /\ Detector(c) = d}

\* SETEX, then the event and the broadcast, whose errors are logged.  Which of
\* the detector's rules were enabled when the rules were read, and fit the
\* source, metric and severity, is left open.
Arm(c) ==
  /\ Go(c, "arm", "rules")
  /\ cooldown' = cooldown \cup {Detector(c)}
  /\ \E fit \in SUBSET {r \in Rules : RuleFor[r] = Detector(c)} :
       todo' = [todo EXCEPT ![c] = fit]
  /\ contenders' = [contenders EXCEPT ![Detector(c)] =
                      IF Detector(c) \in cooldown THEN @ ELSE Storing(Detector(c))]
  /\ UNCHANGED <<window, rows, ruleCooldown, point, counted, current, hits,
                 matched, request, anomalies, added, overlapped, abandoned, lost,
                 ruleContenders>>

Rule(c) == First(todo[c])

Telling(r) == {c \in Callers : pc[c] = "armRule" /\ Rule(c) = r}

IsRuleCooling(r) == r \in ruleCooldown

SkipRule(c) ==
  /\ todo[c] # {}
  /\ IsRuleCooling(Rule(c))
  /\ Go(c, "rules", "rules")
  /\ todo' = [todo EXCEPT ![c] = @ \ {Rule(c)}]
  /\ UNCHANGED <<redis, rows, point, counted, current, hits, matched, request,
                 anomalies, history>>

CheckRule(c) ==
  /\ todo[c] # {}
  /\ ~IsRuleCooling(Rule(c))
  /\ Go(c, "rules", "armRule")
  /\ UNCHANGED <<redis, rows, round, request, anomalies, history>>

ArmRule(c) ==
  /\ Go(c, "armRule", "rules")
  /\ ruleCooldown' = ruleCooldown \cup {Rule(c)}
  /\ matched' = [matched EXCEPT ![c] = @ \cup {Rule(c)}]
  /\ todo' = [todo EXCEPT ![c] = @ \ {Rule(c)}]
  /\ told' = [told EXCEPT ![c][Rule(c)] = @ + 1]
  /\ ruleContenders' = [ruleContenders EXCEPT ![Rule(c)] =
                          IF Rule(c) \in ruleCooldown THEN @ ELSE Telling(Rule(c))]
  /\ UNCHANGED <<window, rows, cooldown, point, counted, current, hits, request,
                 open, kept, added, overlapped, abandoned, lost, contenders>>

EndRules(c) ==
  /\ todo[c] = {}
  /\ Go(c, "rules", "notify")
  /\ UNCHANGED <<redis, rows, round, request, anomalies, history>>

\* send_notification for every channel of the matched rules; whatever becomes
\* of the call to the webhook, it goes on.
Notify(c) ==
  /\ Go(c, "notify", "check")
  /\ matched' = [matched EXCEPT ![c] = {}]
  /\ hits' = [hits EXCEPT ![c] = @ \ {Detector(c)}]
  /\ UNCHANGED <<redis, rows, point, counted, current, todo, request, anomalies,
                 history>>

-----------------------------------------------------------------------------
(* Time *)

Arming(c, d) == pc[c] = "arm" /\ d = Detector(c)

\* ANOMALY_COOLDOWN_SECONDS pass; a caller may take longer than that.  A row
\* whose caller has yet to set the key counts for the next cooldown.
CooldownEnds(d) ==
  /\ d \in cooldown
  /\ cooldown' = cooldown \ {d}
  /\ open' = [c \in Callers |-> IF Arming(c, d) THEN open[c] ELSE [open[c] EXCEPT ![d] = 0]]
  /\ kept' = [c \in Callers |-> [kept[c] EXCEPT ![d] = 0]]
  /\ lost' = lost \ {d}
  /\ contenders' = [contenders EXCEPT ![d] = {}]
  /\ UNCHANGED <<window, ruleCooldown, rows, pc, round, request, told, added, overlapped,
                 abandoned, ruleContenders>>

RuleCooldownEnds(r) ==
  /\ r \in ruleCooldown
  /\ ruleCooldown' = ruleCooldown \ {r}
  /\ told' = [c \in Callers |-> [told[c] EXCEPT ![r] = 0]]
  /\ ruleContenders' = [ruleContenders EXCEPT ![r] = {}]
  /\ UNCHANGED <<window, cooldown, rows, pc, round, request, open, kept, added,
                 overlapped, abandoned, lost, contenders>>

-----------------------------------------------------------------------------

Ingest(c) ==
  \/ \E p \in Points : ZAdd(c, p)
  \/ ZCard(c) \/ Trim(c)

Detect(c) ==
  \/ ReadEmpty(c) \/ Read(c) \/ EndDetection(c)
  \/ SkipDetector(c) \/ CheckCooldown(c) \/ Record(c) \/ Arm(c)
  \/ SkipRule(c) \/ CheckRule(c) \/ ArmRule(c) \/ EndRules(c) \/ Notify(c)

Next ==
  \/ \E c \in Callers :
       \/ \E n \in 1 .. MaxBatch : BeginIngest(c, n)
       \/ BeginBatch(c)
       \/ Ingest(c) \/ Detect(c)
       \/ Commit(c) \/ Fail(c)
  \/ \E d \in Detectors : CooldownEnds(d)
  \/ \E r \in Rules : RuleCooldownEnds(r)

Spec == Init /\ [][Next]_vars

-----------------------------------------------------------------------------
(* Properties *)

\* README: the sorted sets have bounded cardinality.  The window exceeds its
\* size by no more than the callers between their ZADD and their trim, and
\* those that died there.
WindowBounded == Cardinality(window) <= WindowSize + Cardinality(Writing) + abandoned

\* README: the sorted sets give the recent values.  The newest WindowSize
\* points ever added are there, unless two callers were between ZADD and trim
\* at once: then both trim the same excess.
RecentUnlessOverlapped ==
  ~overlapped =>
    \A p \in added : Cardinality({q \in added : q > p}) < WindowSize => p \in window

\* README: each point is scored.  A caller scores the point it ingested unless
\* a point with a later timestamp was there first or two writers overlapped.
InOrderIsScored ==
  \A c \in Callers :
    /\ ingests[c]
    /\ pc[c] \in {"check", "record", "arm", "rules", "armRule", "notify"}
    /\ ~overlapped
    /\ \A q \in added : q <= point[c]
    => current[c] = point[c]

\* README: keys throttle duplicate rows and notification storms.  The rows of a
\* detector within one cooldown of it, over all rounds of all callers, are at
\* most one for each caller that had found no key and not set it when the key
\* was set: a caller alone in that gap leaves one row, and whoever checks later
\* none.  A row without a key is about to be followed by one.  The same holds
\* for the notifications of a rule.
OncePerCooldown ==
  \A c \in Callers :
    /\ \A d \in Detectors :
         /\ open[c][d] + kept[c][d] <= 1
         /\ open[c][d] + kept[c][d] # 0 =>
              IF d \in cooldown THEN c \in contenders[d] ELSE Arming(c, d)
    /\ \A r \in Rules :
         /\ told[c][r] <= 1
         /\ told[c][r] # 0 => r \in ruleCooldown /\ c \in ruleContenders[r]

\* The key is set after the row is flushed and before it is committed, so a
\* cooldown may keep a detector quiet for an anomaly nobody can look up, but
\* only when the transaction that held a row of it was rolled back: otherwise
\* there is a row for it, committed or in an open transaction.
SilenceHasCause ==
  \A d \in cooldown : d \in lost \/ \E c \in Callers : open[c][d] + kept[c][d] # 0

=============================================================================
