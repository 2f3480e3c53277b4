----------------------------- MODULE MCBulkUpsert ------------------------------
(***************************************************************************)
(* Instances of BulkUpsert for TLC: two images, listed in both orders, one *)
(* of them listed twice (a base name under two directories).               *)
(***************************************************************************)
EXTENDS BulkUpsert, TLC

CONSTANTS f1, f2

McListings == {<<f1>>, <<f1, f2>>, <<f2, f1>>, <<f1, f2, f1>>}

RunSymmetry == Permutations(Batches) \cup Permutations(Projects)

================================================================================
