------------------------------ MODULE JobContract ------------------------------
(***************************************************************************)
(* What a client that polls a job (GET /ingest/{id}, /mosaics/{id}, the    *)
(* demo coordinator of cli.py) is entitled to assume about its status: a   *)
(* row appears PENDING, may become IN_PROCESS, and resolves once, to       *)
(* COMPLETE or FAILED; COMPLETE is reached from IN_PROCESS only, and what  *)
(* has been resolved is never touched again.                               *)
(***************************************************************************)
EXTENDS JobStatus

CONSTANT Jobs

VARIABLE status

Move(j, from, to) ==
    /\ status[j] \in from
    /\ status' = [status EXCEPT ![j] = to]

Create(j) == Move(j, {"ABSENT"}, "PENDING")

Start(j) == Move(j, {"PENDING"}, "IN_PROCESS")

Complete(j) == Move(j, {"IN_PROCESS"}, "COMPLETE")

\* The watchdog gives up several jobs in one commit.
Fail(js) ==
    /\ \A j \in js : status[j] \in {"PENDING", "IN_PROCESS"}
    /\ status' = [j \in Jobs |-> IF j \in js THEN "FAILED" ELSE status[j]]

Init == status = [j \in Jobs |-> "ABSENT"]

Next ==
    \/ \E j \in Jobs : Create(j) \/ Start(j) \/ Complete(j)
    \/ \E js \in SUBSET Jobs : Fail(js)

Spec == Init /\ [][Next]_status

================================================================================
