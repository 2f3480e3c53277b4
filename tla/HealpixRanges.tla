----------------------------- MODULE HealpixRanges -----------------------------
(***************************************************************************)
(* Footprints as the database holds them: a multirange of half-open ranges *)
(* of depth-29 cells.  A MOC is the set of its cells; what mocpy gives as  *)
(* its ranges are the maximal runs of consecutive cells.                   *)
(***************************************************************************)
EXTENDS Integers

\* No footprint at all, as opposed to one of no cell.
NoMOC == [none |-> TRUE]
MOC(cells) == [none |-> FALSE, cells |-> cells]

CellsOf(range) == {c \in range.lo..range.hi : c < range.hi}

\* MOC.to_depth29_ranges
Depth29Ranges(cells) ==
    {r \in [lo : cells, hi : {c + 1 : c \in cells}] :
        /\ r.lo < r.hi
        /\ CellsOf(r) \subseteq cells
        /\ r.lo - 1 \notin cells /\ r.hi \notin cells}

\* The value bound to the column: NULL, or a multirange.
BindFootprint(moc) ==
    IF moc.none THEN NoMOC ELSE [none |-> FALSE, ranges |-> Depth29Ranges(moc.cells)]

\* An empty multirange is false, like a value that is not there.
ReadFalsyAsNull(value) ==
    IF value.none \/ value.ranges = {} THEN NoMOC
    ELSE MOC(UNION {CellsOf(r) : r \in value.ranges})

\* The MOC read back: of the union of its ranges, of none if there are none.
ReadFootprint(value) ==
    IF value.none THEN NoMOC ELSE MOC(UNION {CellsOf(r) : r \in value.ranges})

\* compare_values: the same ranges, or no footprint both times.
SameFootprint(x, y) ==
    IF x.none \/ y.none THEN x.none /\ y.none
    ELSE Depth29Ranges(x.cells) = Depth29Ranges(y.cells)

\* The column after `new' was assigned to a row that was loaded with `old': the
\* session leaves out an UPDATE of what compares as the same.
Flush(old, new) == BindFootprint(IF SameFootprint(old, new) THEN old ELSE new)

\* A point is the range of its one cell.
PointRange(cell) == [lo |-> cell, hi |-> cell + 1]

\* Ranges that merely touch taken to meet.
MeetOrTouch(r, s) == r.lo <= s.hi /\ s.lo <= r.hi

Meet(r, s) == r.lo < s.hi /\ s.lo < r.hi

\* footprint && footprint
Overlap(R, S) == \E r \in R, s \in S : Meet(r, s)

\* footprint @> healpix_index, of normalised multiranges
Contains(R, p) == \E r \in R : r.lo <= p.lo /\ p.hi <= r.hi

================================================================================
