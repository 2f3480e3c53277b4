----------------------------- MODULE MCTrackedJob ------------------------------
(***************************************************************************)
(* Instances of TrackedJob for TLC.  One job has all of the interleavings  *)
(* of one row: jobs share only slots and sweeps.                           *)
(***************************************************************************)
EXTENDS TrackedJob, TLC

\* Everything that lets two actors work on one row at a time.
OverlapFaults ==
    {"creator_crash", "ambiguous_dispatch", "worker_lost", "redelivery",
     "task_error", "fetch_error", "db_down", "sweep_abort"}

\* Failures that leave at most one actor at a time on a row.
CalmFaults ==
    {"creator_crash", "hard_kill", "task_error", "fetch_error", "sweep_abort"}

\* Failures that may recur for ever.
RecurringFaults ==
    {"worker_lost", "hard_kill", "task_error", "fetch_error", "late_error",
     "db_down", "slow_run", "redelivery"}

\* Workers are killed during the work, again and again.
OnlyLostWorkers == {"worker_lost"}

OnlyTaskErrors == {"task_error"}

SlotSymmetry == Permutations(Slots)

================================================================================
