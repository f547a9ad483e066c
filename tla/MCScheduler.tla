----------------------------- MODULE MCScheduler -----------------------------
(***************************************************************************)
(* Scheduler with two cron expressions: every slot, and every other slot.  *)
(***************************************************************************)
EXTENDS Scheduler

MCCrons == {1, 2}
MCNextSlot == [c \in Crons |-> [t \in 0 .. MaxSlot |-> c * ((t \div c) + 1)]]
=============================================================================
