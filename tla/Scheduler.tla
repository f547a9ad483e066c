------------------------------- MODULE Scheduler -------------------------------
(***************************************************************************)
(* Cron schedules (app/engine/scheduler.py): checkers, each one run of the *)
(* Celery task check_schedules, walk over the active schedules under a     *)
(* Redis lock per schedule, send a trigger for every due one and then      *)
(* commit its next run, while the API creates, edits and deletes schedules *)
(* and workflows.  Time is counted in cron slots.                          *)
(***************************************************************************)
EXTENDS Naturals

CONSTANTS Schedules, Checkers,
          Crons,         \* cron expressions
          NextSlot,      \* NextSlot[cron][t]: croniter's first slot after t
          MaxSlot,       \* bound on the clock
          MaxCrashes,    \* bound on checker crashes
          Stalls,        \* whether a checker may outlive its lock's TTL
          NoSchedule

ASSUME ScheduleAssumption ==
  /\ MaxSlot \in Nat /\ MaxCrashes \in Nat /\ Stalls \in BOOLEAN
  /\ NextSlot \in [Crons -> [0 .. MaxSlot -> Nat]]
  /\ \A c \in Crons, t \in 0 .. MaxSlot : NextSlot[c][t] > t
  /\ Crons # {} /\ NoSchedule \notin Schedules

VARIABLES
  clock,
  life, active, cron, next, runs,   \* workflow_schedules: one row per schedule
  workflow,     \* is_active of the schedule's workflow
  lock,         \* lock[s]: the key schedule_lock:s is set
  pc, todo, cur, now, seen,
                \* per checker: next step, schedules left, schedule at hand, its
                \* "now", and the row as its session last refreshed it
  crashes,
  sends, lastSlot, cut   \* history: triggers sent, slot of the last one, and
                         \* whether a checker died between a send and its commit

rowVars == <<life, active, cron, next, runs, workflow>>
checkerVars == <<pc, todo, cur, now, seen>>
history == <<sends, lastSlot, cut>>
vars == <<clock, rowVars, lock, checkerVars, crashes, history>>

\* What a checker keeps of a schedule's row.
Rows == [cron : Crons, next : Nat, runs : Nat]

TypeOK ==
  /\ clock \in 0 .. MaxSlot
  /\ life \in [Schedules -> {"new", "live", "deleted"}]
  /\ active \in [Schedules -> BOOLEAN]
  /\ cron \in [Schedules -> Crons]
  /\ next \in [Schedules -> Nat]
  /\ runs \in [Schedules -> Nat]
  /\ workflow \in [Schedules -> BOOLEAN]
  /\ lock \in [Schedules -> BOOLEAN]
  /\ pc \in [Checkers -> {"idle", "pick", "refresh", "due", "sent", "release"}]
  /\ todo \in [Checkers -> SUBSET Schedules]
  /\ cur \in [Checkers -> Schedules \cup {NoSchedule}]
  /\ now \in [Checkers -> 0 .. MaxSlot]
  /\ seen \in [Checkers -> Rows]
  /\ crashes \in Nat
  /\ sends \in [Schedules -> Nat]
  /\ lastSlot \in [Schedules -> Nat]
  /\ cut \in [Schedules -> BOOLEAN]

AnyCron == CHOOSE c \in Crons : TRUE
NoRow == [cron |-> AnyCron, next |-> 0, runs |-> 0]

Init ==
  /\ clock = 0
  /\ life = [s \in Schedules |-> "new"]
  /\ active = [s \in Schedules |-> FALSE]
  /\ cron = [s \in Schedules |-> AnyCron]
  /\ next = [s \in Schedules |-> 0]
  /\ runs = [s \in Schedules |-> 0]
  /\ workflow = [s \in Schedules |-> TRUE]
  /\ lock = [s \in Schedules |-> FALSE]
  /\ pc = [k \in Checkers |-> "idle"]
  /\ todo = [k \in Checkers |-> {}]
  /\ cur = [k \in Checkers |-> NoSchedule]
  /\ now = [k \in Checkers |-> 0]
  /\ seen = [k \in Checkers |-> NoRow]
  /\ crashes = 0
  /\ sends = [s \in Schedules |-> 0]
  /\ lastSlot = [s \in Schedules |-> 0]
  /\ cut = [s \in Schedules |-> FALSE]

-----------------------------------------------------------------------------
(* The API.  The handlers change a row between one SELECT and one UPDATE    *)
(* with no other await, and only the columns they set.                      *)

CreateSchedule(s, c, a) ==
  /\ life[s] = "new"
  /\ life' = [life EXCEPT ![s] = "live"]
  /\ active' = [active EXCEPT ![s] = a]
  /\ cron' = [cron EXCEPT ![s] = c]
  /\ next' = [next EXCEPT ![s] = NextSlot[c][clock]]
  /\ UNCHANGED <<clock, runs, workflow, lock, checkerVars, crashes, history>>

\* update_schedule with a cron expression.
UpdateCron(s, c) ==
  /\ life[s] = "live"
  /\ cron' = [cron EXCEPT ![s] = c]
  /\ next' = [next EXCEPT ![s] = NextSlot[c][clock]]
  /\ UNCHANGED <<clock, life, active, runs, workflow, lock, checkerVars, crashes, history>>

\* update_schedule with is_active, and toggle_schedule, which writes the
\* negation of what it read a moment ago.
SetActive(s, a) ==
  /\ life[s] = "live"
  /\ active' = [active EXCEPT ![s] = a]
  /\ UNCHANGED <<clock, life, cron, next, runs, workflow, lock, checkerVars, crashes, history>>

DeleteSchedule(s) ==
  /\ life[s] = "live"
  /\ life' = [life EXCEPT ![s] = "deleted"]
  /\ UNCHANGED <<clock, active, cron, next, runs, workflow, lock, checkerVars, crashes, history>>

\* update_workflow with is_active, and delete_workflow.
SetWorkflow(s, a) ==
  /\ workflow' = [workflow EXCEPT ![s] = a]
  /\ UNCHANGED <<clock, life, active, cron, next, runs, lock, checkerVars, crashes, history>>

-----------------------------------------------------------------------------
(* A checker: one call of check_and_trigger *)

Go(k, from, to) ==
  /\ pc[k] = from
  /\ pc' = [pc EXCEPT ![k] = to]

Forget(k) ==
  /\ cur' = [cur EXCEPT ![k] = NoSchedule]
  /\ seen' = [seen EXCEPT ![k] = NoRow]

\* The active schedules are listed and "now" is taken, once for the whole pass.
Begin(k) ==
  /\ Go(k, "idle", "pick")
  /\ todo' = [todo EXCEPT ![k] = {s \in Schedules : life[s] = "live" /\ active[s]}]
  /\ now' = [now EXCEPT ![k] = clock]
  /\ UNCHANGED <<clock, rowVars, lock, cur, seen, crashes, history>>

\* SET NX: the key is set only if it is not there.
CanLockVariant(s) == TRUE
CanLock(s) == ~lock[s]

Acquire(k, s) ==
  /\ s \in todo[k]
  /\ CanLock(s)
  /\ Go(k, "pick", "refresh")
  /\ lock' = [lock EXCEPT ![s] = TRUE]
  /\ todo' = [todo EXCEPT ![k] = @ \ {s}]
  /\ cur' = [cur EXCEPT ![k] = s]
  /\ UNCHANGED <<clock, rowVars, now, seen, crashes, history>>

SkipLocked(k, s) ==
  /\ pc[k] = "pick"
  /\ s \in todo[k]
  /\ ~CanLock(s)
  /\ todo' = [todo EXCEPT ![k] = @ \ {s}]
  /\ UNCHANGED <<clock, rowVars, lock, pc, cur, now, seen, crashes, history>>

Finish(k) ==
  /\ todo[k] = {}
  /\ Go(k, "pick", "idle")
  /\ now' = [now EXCEPT ![k] = 0]
  /\ UNCHANGED <<clock, rowVars, lock, todo, cur, seen, crashes, history>>

\* session.refresh under the lock; the row may be gone, which raises out of the
\* loop, or not due (a row without next_run_at is never created).
RefreshGone(k) ==
  /\ Go(k, "refresh", "release")
  /\ life[cur[k]] # "live"
  /\ todo' = [todo EXCEPT ![k] = {}]
  /\ UNCHANGED <<clock, rowVars, lock, cur, now, seen, crashes, history>>

IsDue(k) == next[cur[k]] <= now[k]

Refresh(k) ==
  LET s == cur[k] IN
  /\ Go(k, "refresh", IF active[s] /\ IsDue(k) THEN "due" ELSE "release")
  /\ life[s] = "live"
  /\ seen' = [seen EXCEPT ![k] = [cron |-> cron[s], next |-> next[s], runs |-> runs[s]]]
  /\ UNCHANGED <<clock, rowVars, lock, todo, cur, now, crashes, history>>

SkipInactive(k) ==
  /\ Go(k, "due", "release")
  /\ ~workflow[cur[k]]
  /\ UNCHANGED <<clock, rowVars, lock, todo, cur, now, seen, crashes, history>>

\* The trigger is sent before anything is written.
Send(k) ==
  LET s == cur[k] IN
  /\ Go(k, "due", "sent")
  /\ workflow[s]
  /\ sends' = [sends EXCEPT ![s] = @ + 1]
  /\ lastSlot' = [lastSlot EXCEPT ![s] = seen[k].next]
  /\ UNCHANGED <<clock, rowVars, lock, todo, cur, now, seen, crashes, cut>>

FollowingVariant(k) == seen[k].next
Following(k) == NextSlot[seen[k].cron][now[k]]

CountedVariant(k) == seen[k].runs
Counted(k) == seen[k].runs + 1

Commit(k) ==
  LET s == cur[k] IN
  /\ Go(k, "sent", "release")
  /\ life[s] = "live"
  /\ next' = [next EXCEPT ![s] = Following(k)]
  /\ runs' = [runs EXCEPT ![s] = Counted(k)]
  /\ UNCHANGED <<clock, life, active, cron, workflow, lock, todo, cur, now, seen, crashes, history>>

\* The row was deleted meanwhile: the UPDATE matches nothing and raises.
CommitGone(k) ==
  /\ Go(k, "sent", "release")
  /\ life[cur[k]] # "live"
  /\ todo' = [todo EXCEPT ![k] = {}]
  /\ UNCHANGED <<clock, rowVars, lock, cur, now, seen, crashes, history>>

\* "finally": the key is deleted, whoever set it.
Release(k) ==
  /\ Go(k, "release", "pick")
  /\ lock' = [lock EXCEPT ![cur[k]] = FALSE]
  /\ Forget(k)
  /\ UNCHANGED <<clock, rowVars, todo, now, crashes, history>>

Critical(k) == pc[k] \in {"refresh", "due", "sent", "release"}

\* The checker dies without running "finally"; the key stays until its TTL.
Crash(k) ==
  /\ crashes < MaxCrashes
  /\ Critical(k)
  /\ crashes' = crashes + 1
  /\ pc' = [pc EXCEPT ![k] = "idle"]
  /\ todo' = [todo EXCEPT ![k] = {}]
  /\ now' = [now EXCEPT ![k] = 0]
  /\ Forget(k)
  /\ cut' = [cut EXCEPT ![cur[k]] = @ \/ pc[k] = "sent"]
  /\ UNCHANGED <<clock, rowVars, lock, sends, lastSlot>>

\* The 120 seconds of the TTL pass.
ExpiresVariant(s) == FALSE
Expires(s) == Stalls \/ \A k \in Checkers : ~(Critical(k) /\ cur[k] = s)

Expire(s) ==
  /\ lock[s]
  /\ Expires(s)
  /\ lock' = [lock EXCEPT ![s] = FALSE]
  /\ UNCHANGED <<clock, rowVars, checkerVars, crashes, history>>

Tick ==
  /\ clock < MaxSlot
  /\ clock' = clock + 1
  /\ UNCHANGED <<rowVars, lock, checkerVars, crashes, history>>

-----------------------------------------------------------------------------

Api(s) ==
  \/ \E c \in Crons, a \in BOOLEAN : CreateSchedule(s, c, a)
  \/ \E c \in Crons : UpdateCron(s, c)
  \/ \E a \in BOOLEAN : SetActive(s, a)
  \/ DeleteSchedule(s)
  \/ \E a \in BOOLEAN : SetWorkflow(s, a)

Check(k) ==
  \/ \E s \in Schedules : Acquire(k, s) \/ SkipLocked(k, s)
  \/ Finish(k) \/ RefreshGone(k) \/ Refresh(k) \/ SkipInactive(k) \/ Send(k)
  \/ Commit(k) \/ CommitGone(k) \/ Release(k)

Next ==
  \/ \E s \in Schedules : Api(s) \/ Expire(s)
  \/ \E k \in Checkers : Begin(k) \/ Check(k) \/ Crash(k)
  \/ Tick

Spec == Init /\ [][Next]_vars

\* Beat keeps calling check_schedules, a live checker goes on, keys expire.
FairSpec ==
  /\ Spec
  /\ \A k \in Checkers : WF_vars(Begin(k)) /\ WF_vars(Check(k))
  /\ \A s \in Schedules : WF_vars(Expire(s))

-----------------------------------------------------------------------------
(* Properties *)

\* While no checker outlives the TTL, two checkers are never between acquire
\* and release of the same schedule, although release deletes the key blindly.
OneChecker ==
  ~Stalls => \A j, k \in Checkers :
    Critical(j) /\ Critical(k) /\ cur[j] = cur[k] => j = k

\* README: the lock avoids duplicate triggers.  A checker about to send a
\* trigger does so for a later slot than any sent before, unless a checker
\* died between sending and committing.
EachSlotOnce ==
  \A k \in Checkers :
    pc[k] = "due" /\ ~cut[cur[k]] => seen[k].next > lastSlot[cur[k]]

\* total_runs counts the triggers sent, up to the one being committed.
RunsCounted ==
  \A s \in Schedules :
    ~cut[s] /\ life[s] = "live" =>
      \/ runs[s] = sends[s]
      \/ runs[s] + 1 = sends[s] /\ \E k \in Checkers : pc[k] = "sent" /\ cur[k] = s

Due(s) == life[s] = "live" /\ active[s] /\ workflow[s] /\ next[s] <= clock

\* A due schedule does not stay due: it is triggered, or switched off or
\* deleted, even when checkers die holding its lock.
DueIsServed == \A s \in Schedules : Due(s) ~> ~Due(s)

=============================================================================
