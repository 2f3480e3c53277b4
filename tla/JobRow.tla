--------------------------------- MODULE JobRow --------------------------------
(***************************************************************************)
(* What a reader of a tracked row may rely on whatever fails: crashes,     *)
(* redeliveries, overlapping runs, concurrent sweeps.  It is far less than *)
(* JobContract: a row once inserted does not vanish and never goes back to *)
(* PENDING, but any of the other statuses may replace any other, COMPLETE  *)
(* and FAILED included; only, COMPLETE is written to an ingest when what   *)
(* it read has been stored, and what is stored stays.                      *)
(***************************************************************************)
EXTENDS JobStatus

CONSTANTS
    Jobs,     \* tracked rows
    Ingests   \* those that are IngestBatch rows

VARIABLES
    status,   \* the status column
    stored    \* ingests whose images and calibrations are in the database

\* The row is inserted.
Create(j) ==
    /\ status[j] = "ABSENT"
    /\ status' = [status EXCEPT ![j] = "PENDING"]
    /\ UNCHANGED stored

\* The rows of an ingest are committed, in a transaction of their own.
Store(j) ==
    /\ status[j] # "ABSENT"
    /\ stored' = stored \cup {j}
    /\ UNCHANGED status

\* One commit gives every row of js the status `new': one row in a run, any
\* number of rows in a sweep.
Rewrite(js, new) ==
    /\ \A j \in js : status[j] # "ABSENT"
    /\ new = "COMPLETE" => js \cap Ingests \subseteq stored
    /\ status' = [j \in Jobs |-> IF j \in js THEN new ELSE status[j]]
    /\ UNCHANGED stored

Init ==
    /\ status = [j \in Jobs |-> "ABSENT"]
    /\ stored = {}

Next ==
    \/ \E j \in Jobs : Create(j)
    \/ \E j \in Ingests : Store(j)
    \/ \E js \in SUBSET Jobs, new \in Status \ {"PENDING"} : Rewrite(js, new)

Spec == Init /\ [][Next]_<<status, stored>>

================================================================================
