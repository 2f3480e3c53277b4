------------------------------ MODULE MCSkyAndTime ------------------------------
(***************************************************************************)
(* An instance of SkyAndTime for TLC: every small input.                   *)
(***************************************************************************)
EXTENDS SkyAndTime

CONSTANTS
    MaxCell,   \* bound: footprints are subsets of 0..MaxCell
    MaxTime,   \* bound: times are half days of 0..MaxTime
    MaxTimes,  \* bound: different times of one tile and band
    Length     \* length of an axis

McCells == 0..MaxCell

McObservations ==
    UNION {[S -> 1..2] : S \in UNION {kSubset(n, 0..MaxTime) : n \in 1..MaxTimes}}

McThresholds == 2..4

McAxes ==
    {g \in [length : {Length}, threshold : {1},
            side : 1..7, step : 1..12, overlap : {0, 1, 2, 5}, wraps : BOOLEAN] :
        g.side <= g.step /\ g.step <= 2 * g.side}

================================================================================
