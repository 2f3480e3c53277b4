------------------------------- MODULE MCDemoRun -------------------------------
(***************************************************************************)
(* An instance of DemoRun for TLC: two runs of one name, three files of    *)
(* which one is in the band, and two overlapping tiles, each of which may  *)
(* have the most calibrations, with or without any of the band.            *)
(***************************************************************************)
EXTENDS DemoRun, TLC

CONSTANTS f1, f2, f3, t1, t2

TwoTiles == (t1 :> {f2, f3}) @@ (t2 :> {f1, f3})

================================================================================
