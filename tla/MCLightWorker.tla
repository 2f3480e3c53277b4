----------------------------- MODULE MCLightWorker -----------------------------
(***************************************************************************)
(* An instance of LightWorker for TLC: two children, and two runs of       *)
(* seed-db, which are interchangeable.                                     *)
(***************************************************************************)
EXTENDS LightWorker, TLC

CONSTANTS c1, c2, s1, s2

Alike == Permutations({c1, c2}) \cup Permutations({s1, s2})

================================================================================
