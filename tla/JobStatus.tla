------------------------------- MODULE JobStatus -------------------------------
(***************************************************************************)
(* The lifecycle states of a tracked row (IngestBatch, Level3Mosaic), as   *)
(* src/src/db/enums.py declares them.  ABSENT is not a database value: it  *)
(* stands for a row that has not been inserted yet.                        *)
(***************************************************************************)

Status == {"PENDING", "IN_PROCESS", "COMPLETE", "FAILED"}

\* The statuses begin_tracked_job treats as already resolved.
Terminal == {"COMPLETE", "FAILED"}

RowStatus == Status \cup {"ABSENT"}

================================================================================
