------------------------------- MODULE MCCatalog -------------------------------
(***************************************************************************)
(* Instances of Catalog for TLC: images f1 and f2 of one band and two      *)
(* nights, one tile shape that covers both and one that covers f2 only, an *)
(* epoch interval with the first night only; prefixes list f2, later both. *)
(***************************************************************************)
EXTENDS Catalog, TLC

CONSTANTS f1, f2, b1, b2, wide, narrow

McMjdOf == (f1 :> 1) @@ (f2 :> 2)
McBandOf == (f1 :> b1) @@ (f2 :> b1)
McCovers == (wide :> {f1, f2}) @@ (narrow :> {f2})
McPrefixes == {{f2}, {f1, f2}}
McIntervals == {[lo |-> 1, hi |-> 1]}

RowSymmetry ==
    Permutations(Clients) \cup Permutations(Projects) \cup Permutations(TileIds)

================================================================================
