--------------------------- MODULE SchedulerProofs ---------------------------
(***************************************************************************)
(* Proofs about Scheduler for every set of schedules, checkers and cron    *)
(* expressions.                                                            *)
(***************************************************************************)
EXTENDS Scheduler, TLAPS

\* A checker between acquire and release has a schedule, and, while no checker
\* outlives the TTL, that schedule's key to itself.
Locked ==
  /\ \A k \in Checkers : Critical(k) => cur[k] \in Schedules
  /\ ~Stalls => \A k \in Checkers : Critical(k) => lock[cur[k]]
  /\ OneChecker

\* Slots: a checker's "now" is past, a slot sent is not later than the clock,
\* and the row's next slot is later than the last one sent.
SlotsAdvance ==
  /\ \A k \in Checkers : now[k] <= clock
  /\ \A s \in Schedules :
       /\ lastSlot[s] <= clock
       /\ life[s] = "new" => lastSlot[s] = 0 /\ \A k \in Checkers : s \notin todo[k]
       /\ life[s] # "new" /\ ~cut[s] /\ (\A k \in Checkers : ~(pc[k] = "sent" /\ cur[k] = s))
            => next[s] > lastSlot[s] \/ life[s] = "deleted"
  /\ \A k \in Checkers :
       /\ Critical(k) => life[cur[k]] # "new"
       /\ pc[k] \in {"due", "sent"} => seen[k].next <= now[k]
       /\ pc[k] = "due" /\ ~cut[cur[k]] => seen[k].next > lastSlot[cur[k]]
       /\ pc[k] = "sent" => lastSlot[cur[k]] = seen[k].next

\* Counts: what a checker read of total_runs is still the row's value, and the
\* only trigger not counted yet is the one being committed.
RunsTracked ==
  /\ RunsCounted
  /\ \A s \in Schedules : life[s] = "new" => runs[s] = 0 /\ sends[s] = 0
  /\ \A k \in Checkers :
       pc[k] \in {"due", "sent"} /\ ~cut[cur[k]] /\ life[cur[k]] = "live" =>
         /\ seen[k].runs = runs[cur[k]]
         /\ pc[k] = "due" => runs[cur[k]] = sends[cur[k]]
         /\ pc[k] = "sent" => runs[cur[k]] + 1 = sends[cur[k]]

LEMMA NoRowType == NoRow \in Rows /\ AnyCron \in Crons
BY ScheduleAssumption DEF NoRow, AnyCron, Rows

LEMMA TypeInit == Init => TypeOK /\ Locked
<1> SUFFICES ASSUME Init PROVE TypeOK /\ Locked
  OBVIOUS
<1>1. TypeOK
  BY ScheduleAssumption, NoRowType DEF Init, TypeOK
<1>2. Locked
  BY DEF Init, Locked, Critical, OneChecker
<1> QED BY <1>1, <1>2

LEMMA TypeStep ==
  ASSUME TypeOK, Locked, [Next]_vars
  PROVE  TypeOK'
<1>0. /\ MaxSlot \in Nat /\ NoSchedule \notin Schedules
      /\ \A c \in Crons, t \in 0 .. MaxSlot : NextSlot[c][t] \in Nat /\ NextSlot[c][t] > t
      /\ \A j, k \in Checkers : ~Stalls /\ Critical(j) /\ Critical(k) /\ cur[j] = cur[k] => j = k
      /\ \A k \in Checkers : Critical(k) => cur[k] \in Schedules
  BY ScheduleAssumption DEF Locked, OneChecker
<1> USE DEF TypeOK, Critical, rowVars, checkerVars, history
<1>1. ASSUME NEW s \in Schedules, NEW c \in Crons, NEW a \in BOOLEAN, CreateSchedule(s, c, a) PROVE TypeOK'
  BY <1>1, <1>0, NoRowType DEF CreateSchedule
<1>2. ASSUME NEW s \in Schedules, NEW c \in Crons, UpdateCron(s, c) PROVE TypeOK'
  BY <1>2, <1>0, NoRowType DEF UpdateCron
<1>3. ASSUME NEW s \in Schedules, NEW a \in BOOLEAN, SetActive(s, a) PROVE TypeOK'
  BY <1>3, <1>0, NoRowType DEF SetActive
<1>4. ASSUME NEW s \in Schedules, DeleteSchedule(s) PROVE TypeOK'
  BY <1>4, <1>0, NoRowType DEF DeleteSchedule
<1>5. ASSUME NEW s \in Schedules, NEW a \in BOOLEAN, SetWorkflow(s, a) PROVE TypeOK'
  BY <1>5, <1>0, NoRowType DEF SetWorkflow
<1>6. ASSUME NEW s \in Schedules, Expire(s) PROVE TypeOK'
  BY <1>6, <1>0, NoRowType DEF Expire, Expires
<1>7. ASSUME NEW k \in Checkers, Begin(k) PROVE TypeOK'
  BY <1>7, <1>0, NoRowType DEF Begin, Go
<1>8. ASSUME NEW k \in Checkers, NEW s \in Schedules, Acquire(k, s) PROVE TypeOK'
  BY <1>8, <1>0, NoRowType DEF Acquire, CanLock, Go
<1>9. ASSUME NEW k \in Checkers, NEW s \in Schedules, SkipLocked(k, s) PROVE TypeOK'
  BY <1>9, <1>0, NoRowType DEF SkipLocked
<1>10. ASSUME NEW k \in Checkers, Finish(k) PROVE TypeOK'
  BY <1>10, <1>0, NoRowType DEF Finish, Go
<1>11. ASSUME NEW k \in Checkers, RefreshGone(k) PROVE TypeOK'
  BY <1>11, <1>0, NoRowType DEF RefreshGone, Go
<1>12. ASSUME NEW k \in Checkers, Refresh(k) PROVE TypeOK'
  BY <1>12, <1>0, NoRowType DEF Refresh, Go, IsDue, Rows
<1>13. ASSUME NEW k \in Checkers, SkipInactive(k) PROVE TypeOK'
  BY <1>13, <1>0, NoRowType DEF SkipInactive, Go
<1>14. ASSUME NEW k \in Checkers, Send(k) PROVE TypeOK'
  BY <1>14, <1>0 DEF Send, Go, Rows
<1>15. ASSUME NEW k \in Checkers, Commit(k) PROVE TypeOK'
  BY <1>15, <1>0, NoRowType DEF Commit, Go, Following, Counted, Rows
<1>16. ASSUME NEW k \in Checkers, CommitGone(k) PROVE TypeOK'
  BY <1>16, <1>0, NoRowType DEF CommitGone, Go
<1>17. ASSUME NEW k \in Checkers, Release(k) PROVE TypeOK'
  BY <1>17, <1>0, NoRowType DEF Release, Go, Forget
<1>18. ASSUME NEW k \in Checkers, Crash(k) PROVE TypeOK'
  BY <1>18, <1>0, NoRowType DEF Crash, Forget
<1>19. CASE Tick
  BY <1>19, <1>0, NoRowType DEF Tick
<1>20. CASE UNCHANGED vars
  BY <1>20, <1>0, NoRowType DEF vars
<1> QED
  BY <1>1, <1>2, <1>3, <1>4, <1>5, <1>6, <1>7, <1>8, <1>9, <1>10, <1>11, <1>12, <1>13, <1>14, <1>15, <1>16, <1>17, <1>18, <1>19, <1>20 DEF Next, Api, Check

LEMMA LockedStep ==
  ASSUME TypeOK, Locked, [Next]_vars
  PROVE  Locked'
<1> USE DEF TypeOK, Locked, OneChecker, Critical, rowVars, checkerVars, history
<1>1. ASSUME NEW s \in Schedules, NEW c \in Crons, NEW a \in BOOLEAN, CreateSchedule(s, c, a) PROVE Locked'
  BY <1>1, ScheduleAssumption DEF CreateSchedule
<1>2. ASSUME NEW s \in Schedules, NEW c \in Crons, UpdateCron(s, c) PROVE Locked'
  BY <1>2, ScheduleAssumption DEF UpdateCron
<1>3. ASSUME NEW s \in Schedules, NEW a \in BOOLEAN, SetActive(s, a) PROVE Locked'
  BY <1>3, ScheduleAssumption DEF SetActive
<1>4. ASSUME NEW s \in Schedules, DeleteSchedule(s) PROVE Locked'
  BY <1>4, ScheduleAssumption DEF DeleteSchedule
<1>5. ASSUME NEW s \in Schedules, NEW a \in BOOLEAN, SetWorkflow(s, a) PROVE Locked'
  BY <1>5, ScheduleAssumption DEF SetWorkflow
<1>6. ASSUME NEW s \in Schedules, Expire(s) PROVE Locked'
  BY <1>6, ScheduleAssumption DEF Expire, Expires
<1>7. ASSUME NEW k \in Checkers, Begin(k) PROVE Locked'
  BY <1>7, ScheduleAssumption DEF Begin, Go
<1>8. ASSUME NEW k \in Checkers, NEW s \in Schedules, Acquire(k, s) PROVE Locked'
  <2>1. ~lock[s] /\ lock' = [lock EXCEPT ![s] = TRUE] /\ cur' = [cur EXCEPT ![k] = s]
    BY <1>8 DEF Acquire, CanLock
  <2>2. \A j \in Checkers : j # k => pc'[j] = pc[j] /\ cur'[j] = cur[j]
    BY <1>8, <2>1 DEF Acquire, Go
  <2>3. ~Stalls => \A j \in Checkers : j # k /\ Critical(j) => cur[j] # s
    BY <2>1
  <2>4. \A j \in Checkers : Critical(j)' => cur'[j] \in Schedules /\ (j = k => cur'[j] = s)
    BY <2>1, <2>2
  <2>5. ~Stalls => \A j \in Checkers : Critical(j)' => lock'[cur'[j]]
    BY <2>1, <2>2, <2>4
  <2>6. OneChecker'
    BY <2>2, <2>3, <2>4
  <2> QED BY <2>4, <2>5, <2>6
<1>9. ASSUME NEW k \in Checkers, NEW s \in Schedules, SkipLocked(k, s) PROVE Locked'
  BY <1>9, ScheduleAssumption DEF SkipLocked
<1>10. ASSUME NEW k \in Checkers, Finish(k) PROVE Locked'
  BY <1>10, ScheduleAssumption DEF Finish, Go
<1>11. ASSUME NEW k \in Checkers, RefreshGone(k) PROVE Locked'
  <2>1. pc[k] = "refresh" /\ UNCHANGED <<lock, cur>>
    BY <1>11 DEF RefreshGone, Go
  <2>2. \A j \in Checkers : j # k => pc'[j] = pc[j]
    BY <1>11 DEF RefreshGone, Go
  <2> QED BY <2>1, <2>2
<1>12. ASSUME NEW k \in Checkers, Refresh(k) PROVE Locked'
  <2>1. pc[k] = "refresh" /\ UNCHANGED <<lock, cur>>
    BY <1>12 DEF Refresh, Go
  <2>2. \A j \in Checkers : j # k => pc'[j] = pc[j]
    BY <1>12 DEF Refresh, Go
  <2> QED BY <2>1, <2>2
<1>13. ASSUME NEW k \in Checkers, SkipInactive(k) PROVE Locked'
  <2>1. pc[k] = "due" /\ UNCHANGED <<lock, cur>>
    BY <1>13 DEF SkipInactive, Go
  <2>2. \A j \in Checkers : j # k => pc'[j] = pc[j]
    BY <1>13 DEF SkipInactive, Go
  <2> QED BY <2>1, <2>2
<1>14. ASSUME NEW k \in Checkers, Send(k) PROVE Locked'
  BY <1>14, ScheduleAssumption DEF Send, Go
<1>15. ASSUME NEW k \in Checkers, Commit(k) PROVE Locked'
  <2>1. pc[k] = "sent" /\ UNCHANGED <<lock, cur>>
    BY <1>15 DEF Commit, Go
  <2>2. \A j \in Checkers : j # k => pc'[j] = pc[j]
    BY <1>15 DEF Commit, Go
  <2> QED BY <2>1, <2>2
<1>16. ASSUME NEW k \in Checkers, CommitGone(k) PROVE Locked'
  <2>1. pc[k] = "sent" /\ UNCHANGED <<lock, cur>>
    BY <1>16 DEF CommitGone, Go
  <2>2. \A j \in Checkers : j # k => pc'[j] = pc[j]
    BY <1>16 DEF CommitGone, Go
  <2> QED BY <2>1, <2>2
<1>17. ASSUME NEW k \in Checkers, Release(k) PROVE Locked'
  BY <1>17, ScheduleAssumption DEF Release, Go, Forget
<1>18. ASSUME NEW k \in Checkers, Crash(k) PROVE Locked'
  BY <1>18, ScheduleAssumption DEF Crash, Forget
<1>19. CASE Tick
  BY <1>19, ScheduleAssumption DEF Tick
<1>20. CASE UNCHANGED vars
  BY <1>20, ScheduleAssumption DEF vars
<1> QED
  BY <1>1, <1>2, <1>3, <1>4, <1>5, <1>6, <1>7, <1>8, <1>9, <1>10, <1>11, <1>12, <1>13, <1>14, <1>15, <1>16, <1>17, <1>18, <1>19, <1>20 DEF Next, Api, Check

LEMMA SlotsInit == Init => SlotsAdvance
BY ScheduleAssumption DEF Init, SlotsAdvance, Critical

LEMMA SlotsStep ==
  ASSUME ~Stalls, TypeOK, Locked, SlotsAdvance, [Next]_vars
  PROVE  SlotsAdvance'
<1>0. /\ MaxSlot \in Nat /\ NoSchedule \notin Schedules
      /\ \A c \in Crons, t \in 0 .. MaxSlot : NextSlot[c][t] \in Nat /\ NextSlot[c][t] > t
      /\ \A j, k \in Checkers : ~Stalls /\ Critical(j) /\ Critical(k) /\ cur[j] = cur[k] => j = k
      /\ \A k \in Checkers : Critical(k) => cur[k] \in Schedules
  BY ScheduleAssumption DEF Locked, OneChecker
<1> USE DEF TypeOK, SlotsAdvance, Critical, rowVars, checkerVars, history
<1>1. ASSUME NEW s \in Schedules, NEW c \in Crons, NEW a \in BOOLEAN, CreateSchedule(s, c, a) PROVE SlotsAdvance'
  BY <1>1, <1>0 DEF CreateSchedule
<1>2. ASSUME NEW s \in Schedules, NEW c \in Crons, UpdateCron(s, c) PROVE SlotsAdvance'
  BY <1>2, <1>0 DEF UpdateCron
<1>3. ASSUME NEW s \in Schedules, NEW a \in BOOLEAN, SetActive(s, a) PROVE SlotsAdvance'
  BY <1>3, <1>0 DEF SetActive
<1>4. ASSUME NEW s \in Schedules, DeleteSchedule(s) PROVE SlotsAdvance'
  BY <1>4, <1>0 DEF DeleteSchedule
<1>5. ASSUME NEW s \in Schedules, NEW a \in BOOLEAN, SetWorkflow(s, a) PROVE SlotsAdvance'
  BY <1>5, <1>0 DEF SetWorkflow
<1>6. ASSUME NEW s \in Schedules, Expire(s) PROVE SlotsAdvance'
  BY <1>6, <1>0 DEF Expire, Expires
<1>7. ASSUME NEW k \in Checkers, Begin(k) PROVE SlotsAdvance'
  BY <1>7, <1>0 DEF Begin, Go
<1>8. ASSUME NEW k \in Checkers, NEW s \in Schedules, Acquire(k, s) PROVE SlotsAdvance'
  BY <1>8, <1>0 DEF Acquire, CanLock, Go
<1>9. ASSUME NEW k \in Checkers, NEW s \in Schedules, SkipLocked(k, s) PROVE SlotsAdvance'
  BY <1>9, <1>0 DEF SkipLocked
<1>10. ASSUME NEW k \in Checkers, Finish(k) PROVE SlotsAdvance'
  BY <1>10, <1>0 DEF Finish, Go
<1>11. ASSUME NEW k \in Checkers, RefreshGone(k) PROVE SlotsAdvance'
  BY <1>11, <1>0 DEF RefreshGone, Go
<1>12. ASSUME NEW k \in Checkers, Refresh(k) PROVE SlotsAdvance'
  BY <1>12, <1>0 DEF Refresh, Go, IsDue, Rows
<1>13. ASSUME NEW k \in Checkers, SkipInactive(k) PROVE SlotsAdvance'
  BY <1>13, <1>0 DEF SkipInactive, Go
<1>14. ASSUME NEW k \in Checkers, Send(k) PROVE SlotsAdvance'
  <2>1. /\ pc[k] = "due" /\ cur[k] \in Schedules /\ seen[k].next \in Nat
        /\ pc' = [pc EXCEPT ![k] = "sent"]
        /\ lastSlot' = [lastSlot EXCEPT ![cur[k]] = seen[k].next]
        /\ UNCHANGED <<clock, life, next, todo, cur, now, seen, cut>>
    BY <1>14, <1>0 DEF Send, Go, Rows
  <2>2. \A j \in Checkers : j # k /\ Critical(j) => cur[j] # cur[k]
    BY <1>0, <2>1
  <2> QED BY <1>0, <2>1, <2>2
<1>15. ASSUME NEW k \in Checkers, Commit(k) PROVE SlotsAdvance'
  BY <1>15, <1>0 DEF Commit, Go, Following, Counted, Rows
<1>16. ASSUME NEW k \in Checkers, CommitGone(k) PROVE SlotsAdvance'
  BY <1>16, <1>0 DEF CommitGone, Go
<1>17. ASSUME NEW k \in Checkers, Release(k) PROVE SlotsAdvance'
  BY <1>17, <1>0 DEF Release, Go, Forget
<1>18. ASSUME NEW k \in Checkers, Crash(k) PROVE SlotsAdvance'
  <2>1. /\ Critical(k) /\ cur[k] \in Schedules
        /\ pc' = [pc EXCEPT ![k] = "idle"] /\ cur' = [cur EXCEPT ![k] = NoSchedule]
        /\ now' = [now EXCEPT ![k] = 0] /\ todo' = [todo EXCEPT ![k] = {}]
        /\ \A j \in Checkers : j # k => seen'[j] = seen[j]
        /\ UNCHANGED <<clock, life, next, runs, lastSlot, sends>>
    BY <1>18, <1>0 DEF Crash, Forget
  <2>2. \A s \in Schedules : s # cur[k] => cut'[s] = cut[s]
    BY <1>18, <2>1 DEF Crash
  <2>3. cut'[cur[k]] <=> (cut[cur[k]] \/ pc[k] = "sent")
    <3>1. cut \in [Schedules -> BOOLEAN] /\ cut' = [cut EXCEPT ![cur[k]] = @ \/ pc[k] = "sent"]
      BY <1>0, <1>18 DEF Crash, TypeOK
    <3> QED BY <2>1, <3>1
  <2>4. \A j \in Checkers : j # k /\ Critical(j) => cur[j] # cur[k]
    BY <1>0, <2>1, SMTT(20)
  <2>5. /\ \A j \in Checkers : j # k => pc'[j] = pc[j] /\ cur'[j] = cur[j] /\ todo'[j] = todo[j]
                                     /\ now'[j] = now[j]
        /\ ~Critical(k)' /\ todo'[k] = {} /\ now'[k] = 0
    BY <2>1
  <2>6. /\ \A j \in Checkers : now'[j] <= clock'
        /\ \A s \in Schedules : lastSlot'[s] <= clock'
        /\ \A s \in Schedules :
             life'[s] = "new" => lastSlot'[s] = 0 /\ \A j \in Checkers : s \notin todo'[j]
    BY <2>1, <2>5
  <2>7. \A s \in Schedules :
          life'[s] # "new" /\ ~cut'[s] /\ (\A j \in Checkers : ~(pc'[j] = "sent" /\ cur'[j] = s))
            => next'[s] > lastSlot'[s] \/ life'[s] = "deleted"
    BY <2>1, <2>2, <2>3, <2>5
  <2>8. \A j \in Checkers :
          /\ Critical(j)' => life'[cur'[j]] # "new"
          /\ pc'[j] \in {"due", "sent"} => seen'[j].next <= now'[j]
          /\ pc'[j] = "due" /\ ~cut'[cur'[j]] => seen'[j].next > lastSlot'[cur'[j]]
          /\ pc'[j] = "sent" => lastSlot'[cur'[j]] = seen'[j].next
    BY <1>0, <2>1, <2>2, <2>3, <2>5
  <2> QED BY <2>6, <2>7, <2>8
<1>19. CASE Tick
  BY <1>19, <1>0 DEF Tick
<1>20. CASE UNCHANGED vars
  BY <1>20, <1>0 DEF vars
<1> QED
  BY <1>1, <1>2, <1>3, <1>4, <1>5, <1>6, <1>7, <1>8, <1>9, <1>10, <1>11, <1>12, <1>13, <1>14, <1>15, <1>16, <1>17, <1>18, <1>19, <1>20, SMTT(20) DEF Next, Api, Check

LEMMA RunsInit == Init => RunsTracked
BY DEF Init, RunsTracked, RunsCounted

LEMMA RunsStep ==
  ASSUME ~Stalls, TypeOK, Locked, SlotsAdvance, RunsTracked, [Next]_vars
  PROVE  RunsTracked'
<1>0. /\ MaxSlot \in Nat /\ NoSchedule \notin Schedules
      /\ \A c \in Crons, t \in 0 .. MaxSlot : NextSlot[c][t] \in Nat /\ NextSlot[c][t] > t
      /\ \A j, k \in Checkers : ~Stalls /\ Critical(j) /\ Critical(k) /\ cur[j] = cur[k] => j = k
      /\ \A k \in Checkers : Critical(k) => cur[k] \in Schedules /\ life[cur[k]] # "new"
  BY ScheduleAssumption DEF Locked, OneChecker, SlotsAdvance
<1> USE DEF TypeOK, RunsTracked, RunsCounted, Critical, rowVars, checkerVars, history
<1>1. ASSUME NEW s \in Schedules, NEW c \in Crons, NEW a \in BOOLEAN, CreateSchedule(s, c, a) PROVE RunsTracked'
  BY <1>1, <1>0 DEF CreateSchedule
<1>2. ASSUME NEW s \in Schedules, NEW c \in Crons, UpdateCron(s, c) PROVE RunsTracked'
  BY <1>2, <1>0 DEF UpdateCron
<1>3. ASSUME NEW s \in Schedules, NEW a \in BOOLEAN, SetActive(s, a) PROVE RunsTracked'
  BY <1>3, <1>0 DEF SetActive
<1>4. ASSUME NEW s \in Schedules, DeleteSchedule(s) PROVE RunsTracked'
  BY <1>4, <1>0 DEF DeleteSchedule
<1>5. ASSUME NEW s \in Schedules, NEW a \in BOOLEAN, SetWorkflow(s, a) PROVE RunsTracked'
  BY <1>5, <1>0 DEF SetWorkflow
<1>6. ASSUME NEW s \in Schedules, Expire(s) PROVE RunsTracked'
  BY <1>6, <1>0 DEF Expire, Expires
<1>7. ASSUME NEW k \in Checkers, Begin(k) PROVE RunsTracked'
  BY <1>7, <1>0 DEF Begin, Go
<1>8. ASSUME NEW k \in Checkers, NEW s \in Schedules, Acquire(k, s) PROVE RunsTracked'
  BY <1>8, <1>0 DEF Acquire, CanLock, Go
<1>9. ASSUME NEW k \in Checkers, NEW s \in Schedules, SkipLocked(k, s) PROVE RunsTracked'
  BY <1>9, <1>0 DEF SkipLocked
<1>10. ASSUME NEW k \in Checkers, Finish(k) PROVE RunsTracked'
  BY <1>10, <1>0 DEF Finish, Go
<1>11. ASSUME NEW k \in Checkers, RefreshGone(k) PROVE RunsTracked'
  BY <1>11, <1>0 DEF RefreshGone, Go
<1>12. ASSUME NEW k \in Checkers, Refresh(k) PROVE RunsTracked'
  BY <1>12, <1>0 DEF Refresh, Go, IsDue, Rows
<1>13. ASSUME NEW k \in Checkers, SkipInactive(k) PROVE RunsTracked'
  BY <1>13, <1>0 DEF SkipInactive, Go
<1>14. ASSUME NEW k \in Checkers, Send(k) PROVE RunsTracked'
  <2>1. /\ pc[k] = "due" /\ cur[k] \in Schedules /\ life[cur[k]] # "new"
        /\ pc' = [pc EXCEPT ![k] = "sent"]
        /\ sends' = [sends EXCEPT ![cur[k]] = @ + 1]
        /\ UNCHANGED <<life, cur, seen, runs, cut>>
    BY <1>14, <1>0 DEF Send, Go
  <2>2. \A j \in Checkers : j # k /\ Critical(j) => cur[j] # cur[k]
    BY <1>0, <2>1
  <2> QED BY <1>0, <2>1, <2>2
<1>15. ASSUME NEW k \in Checkers, Commit(k) PROVE RunsTracked'
  <2>1. /\ pc[k] = "sent" /\ cur[k] \in Schedules /\ life[cur[k]] = "live"
        /\ pc' = [pc EXCEPT ![k] = "release"]
        /\ runs' = [runs EXCEPT ![cur[k]] = seen[k].runs + 1]
        /\ UNCHANGED <<life, cur, seen, sends, cut>>
    BY <1>15, <1>0 DEF Commit, Go, Counted
  <2>2. \A j \in Checkers : j # k /\ Critical(j) => cur[j] # cur[k]
    BY <1>0, <2>1
  <2>3. ~cut[cur[k]] => runs'[cur[k]] = sends[cur[k]]
    BY <2>1, <2>2
  <2> QED BY <1>0, <2>1, <2>2, <2>3
<1>16. ASSUME NEW k \in Checkers, CommitGone(k) PROVE RunsTracked'
  BY <1>16, <1>0 DEF CommitGone, Go
<1>17. ASSUME NEW k \in Checkers, Release(k) PROVE RunsTracked'
  BY <1>17, <1>0 DEF Release, Go, Forget
<1>18. ASSUME NEW k \in Checkers, Crash(k) PROVE RunsTracked'
  <2>1. /\ Critical(k) /\ cur[k] \in Schedules
        /\ pc' = [pc EXCEPT ![k] = "idle"] /\ cur' = [cur EXCEPT ![k] = NoSchedule]
        /\ now' = [now EXCEPT ![k] = 0] /\ todo' = [todo EXCEPT ![k] = {}]
        /\ \A j \in Checkers : j # k => seen'[j] = seen[j]
        /\ UNCHANGED <<clock, life, next, runs, lastSlot, sends>>
    BY <1>18, <1>0 DEF Crash, Forget
  <2>2. \A s \in Schedules : s # cur[k] => cut'[s] = cut[s]
    BY <1>18, <2>1 DEF Crash
  <2>3. cut'[cur[k]] <=> (cut[cur[k]] \/ pc[k] = "sent")
    <3>1. cut \in [Schedules -> BOOLEAN] /\ cut' = [cut EXCEPT ![cur[k]] = @ \/ pc[k] = "sent"]
      BY <1>0, <1>18 DEF Crash, TypeOK
    <3> QED BY <2>1, <3>1
  <2>4. \A j \in Checkers : j # k /\ Critical(j) => cur[j] # cur[k]
    BY <1>0, <2>1, SMTT(20)
  <2>5. \A j \in Checkers :
          /\ j # k => pc'[j] = pc[j] /\ cur'[j] = cur[j]
          /\ pc'[j] \in {"due", "sent"} => j # k /\ Critical(j)
    BY <2>1
  <2>6. RunsCounted'
    BY <1>0, <2>1, <2>2, <2>3, <2>5
  <2>7. \A j \in Checkers :
          pc'[j] \in {"due", "sent"} /\ ~cut'[cur'[j]] /\ life'[cur'[j]] = "live" =>
            /\ seen'[j].runs = runs'[cur'[j]]
            /\ pc'[j] = "due" => runs'[cur'[j]] = sends'[cur'[j]]
            /\ pc'[j] = "sent" => runs'[cur'[j]] + 1 = sends'[cur'[j]]
    BY <1>0, <2>1, <2>2, <2>4, <2>5
  <2> QED BY <2>1, <2>6, <2>7
<1>19. CASE Tick
  BY <1>19, <1>0 DEF Tick
<1>20. CASE UNCHANGED vars
  BY <1>20, <1>0 DEF vars
<1> QED
  BY <1>1, <1>2, <1>3, <1>4, <1>5, <1>6, <1>7, <1>8, <1>9, <1>10, <1>11, <1>12, <1>13, <1>14, <1>15, <1>16, <1>17, <1>18, <1>19, <1>20 DEF Next, Api, Check

\* Every variable keeps its type, and the lock excludes: with no checker
\* outliving the TTL two checkers never work on one schedule.
THEOREM TypeAndLock == Spec => [](TypeOK /\ Locked)
BY TypeInit, TypeStep, LockedStep, PTL DEF Spec

THEOREM LockExcludes == Spec => []OneChecker
<1>1. Locked => OneChecker
  BY DEF Locked
<1> QED BY <1>1, TypeAndLock, PTL

\* No slot is sent twice when checkers stay within the TTL, but for a checker
\* dying between its send and its commit.
THEOREM SlotsOnce == ASSUME ~Stalls PROVE Spec => []EachSlotOnce
<1>1. TypeOK /\ Locked /\ SlotsAdvance /\ [Next]_vars => SlotsAdvance'
  BY SlotsStep
<1>2. SlotsAdvance => EachSlotOnce
  BY DEF SlotsAdvance, EachSlotOnce
<1> QED BY <1>1, <1>2, SlotsInit, TypeAndLock, PTL DEF Spec

\* Under the same assumption total_runs counts the triggers sent.
THEOREM RunsAreCounted == ASSUME ~Stalls PROVE Spec => []RunsCounted
<1>1. TypeOK /\ Locked /\ SlotsAdvance /\ [Next]_vars => SlotsAdvance'
  BY SlotsStep
<1>2. TypeOK /\ Locked /\ SlotsAdvance /\ RunsTracked /\ [Next]_vars => RunsTracked'
  BY RunsStep
<1>3. RunsTracked => RunsCounted
  BY DEF RunsTracked
<1> QED BY <1>1, <1>2, <1>3, SlotsInit, RunsInit, TypeAndLock, PTL DEF Spec
=============================================================================
