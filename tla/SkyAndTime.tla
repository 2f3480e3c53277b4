------------------------------- MODULE SkyAndTime -------------------------------
(***************************************************************************)
(* The pure algorithms of tile_service, epoch_service and spatial_types,   *)
(* each called once with an input.                                         *)
(***************************************************************************)
EXTENDS HealpixRanges, EpochClusters, SkyGrid

CONSTANTS
    Cells,         \* the cells a footprint may have
    Observations,  \* what may have been observed of a tile and band
    Thresholds,    \* find_peaks refuses a distance of less than a bin
    Axes           \* the axes that may be tiled

\* A map from times to numbers of calibrations.
IsObservation(obs) ==
    /\ obs \in [DOMAIN obs -> Nat \ {0}]
    /\ DOMAIN obs \subseteq Int /\ DOMAIN obs # {} /\ IsFiniteSet(DOMAIN obs)

\* A tile is no longer than the axis; its step may be, near a pole.
IsAxis(g) ==
    /\ {g.length, g.threshold, g.side, g.overlap} \subseteq Nat
    /\ g.step \in Nat \ {0}
    /\ g.wraps \in BOOLEAN
    /\ Span(g) >= 0

ASSUME SkyAssumption ==
    /\ Cells \subseteq Nat /\ IsFiniteSet(Cells)
    /\ \A obs \in Observations : IsObservation(obs)
    /\ \A thresh \in Thresholds : thresh \in Nat /\ thresh >= 2
    /\ \A g \in Axes : IsAxis(g)

VARIABLES
    algorithm,  \* the one that is looked at
    input       \* what it is called with, as a set of at most one

MOCs == {NoMOC} \cup {MOC(cells) : cells \in SUBSET Cells}

Inputs(a) ==
    CASE a = "ranges" -> MOCs \X MOCs
      [] a = "epochs" -> Observations \X Thresholds
      [] a = "grid" -> Axes

Init ==
    /\ algorithm \in {"ranges", "epochs", "grid"}
    /\ input = {}

Call ==
    /\ input = {}
    /\ \E i \in Inputs(algorithm) : input' = {i}
    /\ UNCHANGED algorithm

Spec == Init /\ [][Call]_<<algorithm, input>>

\* What the algorithm was called with, if it was the one.
Given(a) == IF algorithm = a THEN input ELSE {}

\* Along an axis the tiles leave no gap, and what they miss is the seam at its
\* end: the threshold and one side of a tile, which Span takes off, less half
\* the overlap of the last tile and, where the axis comes round, of the first.
\* One tile wider than the range is not cut.  (tile_service.py, line 41, has the
\* grid cover the region it is given, wherever that is.)
GridMissesOnlyTheSeam ==
    \A g \in Given("grid") :
        LET scale == 2 * Gaps(g)
        IN  \A y \in 0..Turn(g) :
                Covered(g, y) <=>
                    \/ 2 * y <= scale * (2 * Max({Span(g), g.step}) + g.overlap)
                    \/ g.wraps /\ 2 * y >= scale * (2 * g.length - g.overlap)

\* KMeans is never asked for no cluster, or for more than there are different
\* times, whatever the histogram looks like; and it has an answer.
ClustersAreFeasible ==
    \A i \in Given("epochs") :
        LET k == NumClusters(i[1], i[2])
        IN  /\ k \in 1..Cardinality(DOMAIN i[1])
            /\ Clusterings(i[1], k) # {}

\* Neighbours are further apart than a threshold and a day.  First and last are
\* not both at midnight: then the last lies in the last bin, which is no peak.
Separated(obs, thresh) ==
    /\ \A t, u \in DOMAIN obs : t < u => u - t >= thresh + 2
    /\ Cardinality(DOMAIN obs) > 1 => First(obs) % 2 = 1 \/ Last(obs) % 2 = 1

\* Visits that are well separated get an epoch each, and each epoch links the
\* calibrations of its own visit and no others, whatever their numbers.
SeparatedVisitsGetOwnEpochs ==
    \A i \in Given("epochs") :
        Separated(i[1], i[2]) =>
            \A C \in Clusterings(i[1], NumClusters(i[1], i[2])) :
                /\ Cardinality(C) = Cardinality(DOMAIN i[1])
                /\ \A S \in C : Linked(i[1], i[2], S) = S

\* A footprint comes back from the database as it was last assigned: NULL as
\* NULL, the footprint of no cell as such, the others cell for cell, whatever the
\* row held before and whether or not the session found a change to write.
FootprintsSurvive ==
    \A i \in Given("ranges") : ReadFootprint(Flush(i[1], i[2])) = i[2]

\* The range operators of the database say of stored footprints, and of points,
\* what the sky says: that they share a cell.  Touching is not overlapping.
OverlapIsSharedCell ==
    \A i \in Given("ranges") :
        ~i[1].none /\ ~i[2].none =>
            LET a == i[1].cells
                b == i[2].cells
            IN  /\ Overlap(Depth29Ranges(a), Depth29Ranges(b)) <=> a \cap b # {}
                /\ \A c \in Cells :
                      Contains(Depth29Ranges(a), PointRange(c)) <=> c \in a

================================================================================
