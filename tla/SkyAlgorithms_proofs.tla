-------------------------- MODULE SkyAlgorithms_proofs --------------------------
(***************************************************************************)
(* What the pure algorithms guarantee on every input, where MCSkyAndTime   *)
(* looks at the small ones: footprints, the grid, the peaks of the         *)
(* observation times, visits that are well separated, and that there is    *)
(* always a clustering.                                                    *)
(***************************************************************************)
EXTENDS SkyAndTime, FiniteLemmas

\* An algorithm is called with one of its inputs.
InputInv ==
    /\ algorithm \in {"ranges", "epochs", "grid"}
    /\ \A i \in input : i \in Inputs(algorithm)

LEMMA InputsInvariant == Spec => []InputInv
  <1>1. Init => InputInv
    BY DEF Init, InputInv
  <1>2. InputInv /\ [Call]_<<algorithm, input>> => InputInv'
    BY DEF InputInv, Call, Inputs
  <1> QED BY <1>1, <1>2, PTL DEF Spec

--------------------------------------------------------------------------------
(* Footprints *)

\* The range operator of the database decides whether two footprints share a
\* cell, for any sets of ranges of which none is empty.
LEMMA OverlapIsSharing ==
    ASSUME NEW R, NEW S,
           \A r \in R \cup S : r.lo \in Int /\ r.hi \in Int /\ r.lo < r.hi
    PROVE  Overlap(R, S) <=>
               (UNION {CellsOf(r) : r \in R}) \cap (UNION {CellsOf(s) : s \in S}) # {}
  <1>1. ASSUME NEW r \in R, NEW s \in S, Meet(r, s)
        PROVE  \E c : c \in CellsOf(r) /\ c \in CellsOf(s)
    <2> DEFINE c == IF r.lo < s.lo THEN s.lo ELSE r.lo
    <2>1. c \in CellsOf(r) /\ c \in CellsOf(s)
      BY <1>1 DEF Meet, CellsOf
    <2> QED BY <2>1
  <1>2. ASSUME NEW r \in R, NEW s \in S, NEW c, c \in CellsOf(r), c \in CellsOf(s)
        PROVE  Meet(r, s)
    BY <1>2 DEF Meet, CellsOf
  <1> QED BY <1>1, <1>2 DEF Overlap

\* The ranges of a footprint are not empty, and the cells of one are its own.
LEMMA RangesAreRuns ==
    ASSUME NEW cells \in SUBSET Nat, NEW r \in Depth29Ranges(cells)
    PROVE  r.lo \in Int /\ r.hi \in Int /\ r.lo < r.hi /\ CellsOf(r) \subseteq cells
  <1>1. r.lo \in cells /\ r.hi \in {c + 1 : c \in cells}
    BY DEF Depth29Ranges
  <1>2. PICK c \in cells : r.hi = c + 1
    BY <1>1
  <1>3. r.lo \in Nat /\ c \in Nat
    BY <1>1
  <1>4. r.lo \in Int /\ r.hi \in Int
    BY <1>2, <1>3
  <1> QED BY <1>4 DEF Depth29Ranges

\* Every cell of a footprint is in one of its ranges: the run from the first to the
\* last cell that is joined to it.
LEMMA RangesMakeUp ==
    ASSUME NEW cells \in SUBSET Nat, IsFiniteSet(cells)
    PROVE  UNION {CellsOf(r) : r \in Depth29Ranges(cells)} = cells
  <1>1. ASSUME NEW c \in cells
        PROVE  \E r \in Depth29Ranges(cells) : c \in CellsOf(r)
    <2> DEFINE Down == {x \in cells : x <= c /\ x..c \subseteq cells}
               Up == {x \in cells : c <= x /\ c..x \subseteq cells}
    <2>1. c \in Down /\ c \in Up
      OBVIOUS
    <2>2. Down \in SUBSET cells /\ Up \in SUBSET cells
      OBVIOUS
    <2>3. IsFiniteSet(Down) /\ IsFiniteSet(Up)
      BY <2>2, FS_Subset
    <2>4. Down \in SUBSET Int /\ Up \in SUBSET Int
      <3> HIDE DEF Down, Up
      <3>1. cells \in SUBSET Int
        OBVIOUS
      <3> QED BY <2>2, <3>1
    <2>5. PICK first \in Down : \A x \in Down : first <= x
      <3> HIDE DEF Down
      <3> QED BY <2>1, <2>3, <2>4, LeastExists
    <2>6. PICK last \in Up : \A x \in Up : x <= last
      <3> HIDE DEF Up
      <3> QED BY <2>1, <2>3, <2>4, GreatestExists
    <2> DEFINE r == [lo |-> first, hi |-> last + 1]
    <2>7. first \in Nat /\ last \in Nat /\ first <= c /\ c <= last /\ c \in Nat
      BY <2>5, <2>6
    <2>8. first - 1 \notin cells
      <3>1. SUFFICES ASSUME first - 1 \in cells PROVE FALSE
        OBVIOUS
      <3>2. (first - 1)..c \subseteq cells
        <4>1. \A x \in (first - 1)..c : x = first - 1 \/ x \in first..c
          BY <2>7
        <4> QED BY <2>5, <3>1, <4>1
      <3>3. first - 1 \in Down
        BY <2>7, <3>1, <3>2
      <3> QED BY <2>5, <2>7, <3>3
    <2>9. last + 1 \notin cells
      <3>1. SUFFICES ASSUME last + 1 \in cells PROVE FALSE
        OBVIOUS
      <3>2. c..(last + 1) \subseteq cells
        <4>1. \A x \in c..(last + 1) : x = last + 1 \/ x \in c..last
          BY <2>7
        <4> QED BY <2>6, <3>1, <4>1
      <3>3. last + 1 \in Up
        BY <2>7, <3>1, <3>2
      <3> QED BY <2>6, <2>7, <3>3
    <2>10. CellsOf(r) \subseteq cells
      <3>1. \A x \in CellsOf(r) : x \in first..c \/ x \in c..last
        BY <2>7 DEF CellsOf
      <3> QED BY <2>5, <2>6, <3>1
    <2>11. r \in [lo : cells, hi : {x + 1 : x \in cells}]
      BY <2>5, <2>6
    <2>12. r \in Depth29Ranges(cells) /\ c \in CellsOf(r)
      BY <2>7, <2>8, <2>9, <2>10, <2>11 DEF Depth29Ranges, CellsOf
    <2> QED BY <2>12
  <1>2. ASSUME NEW r \in Depth29Ranges(cells) PROVE CellsOf(r) \subseteq cells
    BY RangesAreRuns
  <1> QED BY <1>1, <1>2

\* What may be a footprint: no footprint, or one of finitely many cells.
IsFootprint(moc) == moc = NoMOC \/ \E cells \in SUBSET Cells : moc = MOC(cells)

LEMMA FiniteCells ==
    ASSUME NEW cells \in SUBSET Cells
    PROVE  cells \in SUBSET Nat /\ IsFiniteSet(cells)
  BY SkyAssumption, FS_Subset DEF SkyAssumption

\* What is bound is read back, cell for cell.
LEMMA ReadIsBound ==
    ASSUME NEW moc, IsFootprint(moc)
    PROVE  ReadFootprint(BindFootprint(moc)) = moc
  <1>1. CASE moc = NoMOC
    BY <1>1 DEF NoMOC, BindFootprint, ReadFootprint
  <1>2. ASSUME NEW cells \in SUBSET Cells, moc = MOC(cells)
        PROVE  ReadFootprint(BindFootprint(moc)) = moc
    <2>1. UNION {CellsOf(r) : r \in Depth29Ranges(cells)} = cells
      BY FiniteCells, RangesMakeUp
    <2> QED BY <1>2, <2>1 DEF MOC, BindFootprint, ReadFootprint
  <1> QED BY <1>1, <1>2 DEF IsFootprint

\* What compares as the same is the same, so that no change of it is left out.
LEMMA SameIsEqual ==
    ASSUME NEW x, NEW y, IsFootprint(x), IsFootprint(y), SameFootprint(x, y)
    PROVE  x = y
  <1>1. CASE x.none \/ y.none
    <2>1. x.none /\ y.none
      BY <1>1 DEF SameFootprint
    <2>2. \A z : IsFootprint(z) /\ z.none => z = NoMOC
      BY DEF IsFootprint, MOC
    <2> QED BY <2>1, <2>2
  <1>2. CASE ~x.none /\ ~y.none
    <2>1. PICK a \in SUBSET Cells : x = MOC(a)
      BY <1>2 DEF IsFootprint, NoMOC
    <2>2. PICK b \in SUBSET Cells : y = MOC(b)
      BY <1>2 DEF IsFootprint, NoMOC
    <2>3. Depth29Ranges(a) = Depth29Ranges(b)
      BY <1>2, <2>1, <2>2 DEF SameFootprint, MOC
    <2>4. /\ UNION {CellsOf(r) : r \in Depth29Ranges(a)} = a
          /\ UNION {CellsOf(r) : r \in Depth29Ranges(b)} = b
      BY FiniteCells, RangesMakeUp
    <2> QED BY <2>1, <2>2, <2>3, <2>4
  <1> QED BY <1>1, <1>2

\* A pair of footprints is what the range algorithms are called with.
LEMMA RangeInputs ==
    ASSUME InputInv, NEW i \in Given("ranges")
    PROVE  IsFootprint(i[1]) /\ IsFootprint(i[2])
  <1>1. i \in MOCs \X MOCs
    BY DEF InputInv, Given, Inputs
  <1>2. \A moc \in MOCs : IsFootprint(moc)
    BY DEF MOCs, IsFootprint
  <1> QED BY <1>1, <1>2

\* No footprint is changed by storing it, and no change of one is missed
\* (process_bind_param, process_result_value, compare_values).
THEOREM FootprintsComeBack == Spec => []FootprintsSurvive
  <1>1. ASSUME InputInv, NEW i \in Given("ranges")
        PROVE  ReadFootprint(Flush(i[1], i[2])) = i[2]
    BY <1>1, RangeInputs, SameIsEqual, ReadIsBound DEF Flush
  <1>2. InputInv => FootprintsSurvive
    BY <1>1 DEF FootprintsSurvive
  <1> QED BY <1>2, InputsInvariant, PTL

\* The query for overlapping footprints, and the one for what covers a point, find
\* what shares a cell and what has the cell (the operators && and @>).
THEOREM OverlapFindsSharedCells == Spec => []OverlapIsSharedCell
  <1>1. ASSUME NEW a \in SUBSET Cells, NEW b \in SUBSET Cells
        PROVE  Overlap(Depth29Ranges(a), Depth29Ranges(b)) <=> a \cap b # {}
    <2>1. \A r \in Depth29Ranges(a) \cup Depth29Ranges(b) :
             r.lo \in Int /\ r.hi \in Int /\ r.lo < r.hi
      BY FiniteCells, RangesAreRuns
    <2>2. /\ UNION {CellsOf(r) : r \in Depth29Ranges(a)} = a
          /\ UNION {CellsOf(r) : r \in Depth29Ranges(b)} = b
      BY FiniteCells, RangesMakeUp
    <2>3. Overlap(Depth29Ranges(a), Depth29Ranges(b))
            <=> (UNION {CellsOf(r) : r \in Depth29Ranges(a)})
                  \cap (UNION {CellsOf(s) : s \in Depth29Ranges(b)}) # {}
      BY <2>1, OverlapIsSharing
    <2> QED BY <2>2, <2>3
  <1>2. ASSUME NEW a \in SUBSET Cells, NEW c \in Cells
        PROVE  Contains(Depth29Ranges(a), PointRange(c)) <=> c \in a
    <2>1. c \in Nat
      BY SkyAssumption DEF SkyAssumption
    <2>2. \A r \in Depth29Ranges(a) :
             (r.lo <= PointRange(c).lo /\ PointRange(c).hi <= r.hi) <=> c \in CellsOf(r)
      BY <2>1, FiniteCells, RangesAreRuns DEF PointRange, CellsOf
    <2>3. UNION {CellsOf(r) : r \in Depth29Ranges(a)} = a
      BY FiniteCells, RangesMakeUp
    <2> QED BY <2>2, <2>3 DEF Contains
  <1>3. ASSUME InputInv, NEW i \in Given("ranges"), ~i[1].none, ~i[2].none
        PROVE  \E a, b \in SUBSET Cells : i[1] = MOC(a) /\ i[2] = MOC(b)
    BY <1>3, RangeInputs DEF IsFootprint, NoMOC
  <1>4. ASSUME InputInv, NEW i \in Given("ranges"), ~i[1].none, ~i[2].none
        PROVE  /\ Overlap(Depth29Ranges(i[1].cells), Depth29Ranges(i[2].cells))
                    <=> i[1].cells \cap i[2].cells # {}
               /\ \A c \in Cells :
                     Contains(Depth29Ranges(i[1].cells), PointRange(c)) <=> c \in i[1].cells
    <2>1. PICK a, b \in SUBSET Cells : i[1] = MOC(a) /\ i[2] = MOC(b)
      BY <1>3, <1>4
    <2>2. i[1].cells = a /\ i[2].cells = b
      BY <2>1 DEF MOC
    <2> QED BY <1>1, <1>2, <2>2
  <1>5. InputInv => OverlapIsSharedCell
    BY <1>4 DEF OverlapIsSharedCell
  <1> QED BY <1>5, InputsInvariant, PTL

--------------------------------------------------------------------------------
(* The grid along an axis *)

\* Division as the grid uses it.
LEMMA Division ==
    ASSUME NEW a \in Int, NEW b \in Nat \ {0}
    PROVE  /\ a \div b \in Int /\ a % b \in Int
           /\ a = b * (a \div b) + (a % b)
           /\ 0 <= a % b /\ a % b < b
  OBVIOUS

\* A positive factor cancels.
LEMMA Cancel ==
    ASSUME NEW a \in Int, NEW b \in Int, NEW w \in Nat \ {0}, w * a <= w * b
    PROVE  a <= b
  OBVIOUS

\* How often a length fits into one that is no shorter.
LEMMA FitsOnce ==
    ASSUME NEW a \in Int, NEW b \in Nat \ {0}, b <= a
    PROVE  a \div b \in Nat /\ a \div b >= 1
  <1> DEFINE q == a \div b
  <1>1. q \in Int /\ a = b * q + (a % b) /\ a % b \in Int /\ a % b < b
    BY Division
  <1> HIDE DEF q
  <1>2. b * q > 0
    BY <1>1
  <1>3. ASSUME q <= 0 PROVE FALSE
    <2>1. b * q <= b * 0
      BY <1>1, <1>3
    <2>2. b * 0 = 0 /\ b * q \in Int
      BY <1>1
    <2> QED BY <1>2, <2>1, <2>2
  <1>4. q >= 1
    BY <1>1, <1>3
  <1> QED BY <1>1, <1>4 DEF q

\* The whole part of a time over a weight, in whole days of two halves.
LEMMA FloorBelow ==
    ASSUME NEW a \in Int, NEW w \in Nat \ {0}, NEW t \in Int, a <= w * t
    PROVE  a \div (2 * w) \in Int /\ 2 * (a \div (2 * w)) <= t
  <1> DEFINE d == 2 * w
             q == a \div d
  <1>1. d \in Nat \ {0} /\ d = 2 * w
    OBVIOUS
  <1>2. q = a \div (2 * w)
    OBVIOUS
  <1> HIDE DEF d
  <1>3. q \in Int /\ a % d \in Int /\ a = d * q + (a % d) /\ 0 <= a % d
    BY <1>1, Division
  <1> HIDE DEF q
  <1>4. d * q <= a
    BY <1>1, <1>3
  <1>5. w * (2 * q) <= w * t
    BY <1>1, <1>3, <1>4
  <1> QED BY <1>2, <1>3, <1>5, Cancel

\* A grid whose range has room for a tile.
IsGrid(g) ==
    /\ g.length \in Nat /\ g.threshold \in Nat /\ g.side \in Nat /\ g.overlap \in Nat
    /\ g.step \in Nat \ {0}
    /\ g.step <= Span(g)

\* How the whole steps and the rest make up the range.
LEMMA StepsAndRest ==
    ASSUME NEW g, IsGrid(g)
    PROVE  /\ Span(g) \in Int /\ WholeSteps(g) \in Nat /\ WholeSteps(g) >= 1
           /\ Gaps(g) = WholeSteps(g)
           /\ Span(g) % g.step \in Nat /\ Span(g) % g.step < g.step
           /\ Span(g) = Gaps(g) * g.step + (Span(g) % g.step)
  <1>1. Span(g) \in Int /\ g.step \in Nat \ {0}
    BY DEF IsGrid, Span
  <1>2. WholeSteps(g) \in Nat /\ WholeSteps(g) >= 1
    BY <1>1, FitsOnce DEF IsGrid, WholeSteps
  <1>3. /\ Span(g) = g.step * WholeSteps(g) + (Span(g) % g.step)
        /\ Span(g) % g.step \in Int /\ 0 <= Span(g) % g.step /\ Span(g) % g.step < g.step
    BY <1>1, Division DEF WholeSteps
  <1>4. Gaps(g) = WholeSteps(g)
    BY <1>2 DEF Gaps
  <1> QED BY <1>1, <1>2, <1>3, <1>4

\* Each tile begins before the one before it ends: the grid has no gap.
LEMMA GridHasNoGap ==
    ASSUME NEW g, IsGrid(g), NEW i \in Nat
    PROVE  Left(g, i + 1) <= Right(g, i)
  <1> DEFINE n == Gaps(g)
             r == Span(g) % g.step
             p == n * g.step - (g.step - r)
  <1>1. n \in Nat /\ r \in Nat /\ r < g.step /\ g.step \in Nat /\ g.overlap \in Nat /\ n >= 1
    BY StepsAndRest DEF IsGrid
  <1>2. Pitch(g) = p
    BY DEF Pitch
  <1>3. n * g.step \in Nat /\ n * g.overlap \in Nat
    BY <1>1
  <1>4. p \in Int /\ p <= n * g.step
    BY <1>1, <1>3
  <1>5. Left(g, i + 1) = 2 * (i + 1) * p - n * g.overlap
    BY <1>2 DEF Left
  <1>6. Right(g, i) = 2 * i * p + n * (2 * g.step + g.overlap)
    BY <1>2 DEF Right
  <1> HIDE DEF p, n
  <1>7. 2 * (i + 1) * p = 2 * i * p + 2 * p /\ i * p \in Int
    BY <1>4
  <1>8. n * (2 * g.step + g.overlap) = 2 * (n * g.step) + n * g.overlap
    BY <1>1
  <1> QED BY <1>1, <1>3, <1>4, <1>5, <1>6, <1>7, <1>8

\* n pitches and a tile make n ranges and their overlap.
LEMMA PitchesAndTile ==
    ASSUME NEW n \in Int, NEW s \in Int, NEW r \in Int, NEW o \in Int, NEW p \in Int,
           p = n * s - (s - r)
    PROVE  2 * n * p + n * (2 * s + o) = n * (2 * (n * s + r) + o)
  <1>1. n * s \in Int
    OBVIOUS
  <1>2. 2 * p + (2 * s + o) = 2 * (n * s + r) + o
    BY <1>1
  <1>3. 2 * n * p + n * (2 * s + o) = n * (2 * p + (2 * s + o))
    OBVIOUS
  <1> QED BY <1>2, <1>3

\* The last tile ends where the range does, with half of its overlap beyond: what
\* is missed of the axis is the threshold and one side.
LEMMA GridEndsWithTheRange ==
    ASSUME NEW g, IsGrid(g)
    PROVE  Right(g, Tiles(g) - 1) = Gaps(g) * (2 * Span(g) + g.overlap)
  <1> DEFINE n == Gaps(g)
             r == Span(g) % g.step
             p == Pitch(g)
  <1>1. /\ n \in Int /\ r \in Int /\ g.step \in Int /\ g.overlap \in Int
        /\ Tiles(g) - 1 = n /\ Span(g) = n * g.step + r
    BY StepsAndRest DEF IsGrid, Tiles
  <1>2. p = n * g.step - (g.step - r)
    BY DEF Pitch
  <1>3. Right(g, Tiles(g) - 1) = 2 * n * p + n * (2 * g.step + g.overlap)
    BY <1>1 DEF Right
  <1> HIDE DEF n, r, p
  <1>4. n * g.step \in Int
    BY <1>1
  <1>5. p \in Int
    BY <1>1, <1>2, <1>4
  <1>6. 2 * n * p + n * (2 * g.step + g.overlap) = n * (2 * (n * g.step + r) + g.overlap)
    BY <1>1, <1>2, <1>5, PitchesAndTile
  <1> QED BY <1>1, <1>3, <1>6 DEF n

\* Where a place is between the beginnings of the tiles.
LEMMA PlaceAmongTiles ==
    ASSUME NEW n \in Nat, NEW p \in Nat, NEW x \in Nat
    PROVE  \E i \in 0..n : 2 * i * p <= x /\ (i = n \/ x < 2 * (i + 1) * p)
  <1> DEFINE Begun == {i \in 0..n : 2 * i * p <= x}
  <1>1. 0 \in Begun
    OBVIOUS
  <1>2. Begun \in SUBSET (0..n) /\ Begun \in SUBSET Int
    OBVIOUS
  <1>3. IsFiniteSet(0..n)
    <2>1. 0 \in Int /\ n \in Int
      OBVIOUS
    <2> QED BY <2>1, FS_Interval
  <1>4. IsFiniteSet(Begun)
    <2> HIDE DEF Begun
    <2> QED BY <1>2, <1>3, FS_Subset
  <1>5. PICK i \in Begun : \A j \in Begun : j <= i
    <2> HIDE DEF Begun
    <2> QED BY <1>1, <1>2, <1>4, GreatestExists
  <1>6. i \in 0..n /\ 2 * i * p <= x
    BY <1>5
  <1>7. ASSUME i # n PROVE x < 2 * (i + 1) * p
    <2>1. i + 1 \in 0..n /\ ~(i + 1 <= i)
      BY <1>6, <1>7
    <2>2. i + 1 \notin Begun
      BY <1>5, <2>1
    <2>3. ~(2 * (i + 1) * p <= x)
      BY <2>1, <2>2
    <2>4. 2 * (i + 1) * p \in Int
      BY <1>6
    <2> QED BY <2>3, <2>4
  <1> QED BY <1>6, <1>7

\* The greater of two.
LEMMA GreaterOfTwo ==
    ASSUME NEW a \in Int, NEW b \in Int, b <= a
    PROVE  Max({a, b}) = a /\ Max({b, a}) = a
  <1>1. {a, b} = {b, a}
    OBVIOUS
  <1>2. Max({a, b}) \in {a, b} /\ \A y \in {a, b} : Max({a, b}) >= y
    BY DEF Max
  <1> QED BY <1>1, <1>2

\* With room for a tile, the tiles cover from the beginning to the end of the last.
LEMMA TilesReachTheLast ==
    ASSUME NEW g, IsGrid(g), NEW y \in Nat
    PROVE  OnTile(g, y) <=> y <= Gaps(g) * (2 * Span(g) + g.overlap)
  <1> DEFINE n == Gaps(g)
             s == g.step
             r == Span(g) % g.step
             p == Pitch(g)
             o == g.overlap
  <1>1. /\ n \in Nat /\ n >= 1 /\ s \in Nat /\ r \in Nat /\ o \in Nat
        /\ Tiles(g) - 1 = n
    BY StepsAndRest DEF IsGrid, Tiles
  <1>2. p = n * s - (s - r)
    BY DEF Pitch
  <1>3. /\ \A i : Left(g, i) = 2 * i * p - n * o
        /\ \A i : Right(g, i) = 2 * i * p + n * (2 * s + o)
    BY DEF Left, Right
  <1>4. Right(g, n) = n * (2 * Span(g) + o)
    BY <1>1, GridEndsWithTheRange
  <1>5. \A i \in Nat : Left(g, i + 1) <= Right(g, i)
    BY GridHasNoGap
  <1>6. OnTile(g, y) <=> \E i \in 0..n : Left(g, i) <= y /\ y <= Right(g, i)
    BY <1>1 DEF OnTile
  <1> HIDE DEF n, s, r, p, o
  <1>7. n * s \in Int /\ s <= n * s
    <2>1. (n - 1) * s >= 0
      BY <1>1
    <2>2. (n - 1) * s = n * s - s /\ n * s \in Int
      BY <1>1
    <2> QED BY <1>1, <2>1, <2>2
  <1>8. p \in Nat
    BY <1>1, <1>2, <1>7
  <1>9. n * o \in Nat /\ n * (2 * s + o) \in Nat
    BY <1>1
  <1>10. ASSUME y <= Right(g, n)
         PROVE  \E i \in 0..n : Left(g, i) <= y /\ y <= Right(g, i)
    <2>1. y + n * o \in Nat
      BY <1>9
    <2>2. PICK i \in 0..n : /\ 2 * i * p <= y + n * o
                            /\ i = n \/ y + n * o < 2 * (i + 1) * p
      BY <1>1, <1>8, <2>1, PlaceAmongTiles
    <2>3. 2 * i * p \in Int /\ 2 * (i + 1) * p \in Int /\ i \in Nat
      BY <1>8, <2>2
    <2>4. Left(g, i) <= y
      BY <1>3, <1>9, <2>2, <2>3
    <2>5. CASE i = n
      BY <1>10, <2>2, <2>4, <2>5
    <2>6. CASE i # n
      <3>1. y < Left(g, i + 1)
        BY <1>3, <1>9, <2>2, <2>3, <2>6
      <3>2. Left(g, i + 1) \in Int /\ Right(g, i) \in Int
        BY <1>3, <1>9, <2>3
      <3>3. y <= Right(g, i)
        BY <1>5, <2>3, <3>1, <3>2
      <3> QED BY <2>2, <2>4, <3>3
    <2> QED BY <2>5, <2>6
  <1>11. ASSUME NEW i \in 0..n, y <= Right(g, i)
         PROVE  y <= Right(g, n)
    <2>1. (n - i) * p >= 0
      BY <1>1, <1>8
    <2>2. (n - i) * p = n * p - i * p /\ n * p \in Int /\ i * p \in Int
      BY <1>1, <1>8
    <2>3. 2 * i * p = 2 * (i * p) /\ 2 * n * p = 2 * (n * p)
      BY <1>1, <1>8
    <2>4. 2 * i * p <= 2 * n * p /\ 2 * i * p \in Int /\ 2 * n * p \in Int
      BY <2>1, <2>2, <2>3
    <2> QED BY <1>3, <1>9, <1>11, <2>4
  <1>12. OnTile(g, y) <=> y <= n * (2 * Span(g) + o)
    BY <1>4, <1>6, <1>10, <1>11
  <1> QED BY <1>12 DEF n, o

\* A tile wider than the range stands alone at the beginning of it.
LEMMA WideTileStandsAlone ==
    ASSUME NEW g, IsAxis(g), Span(g) < g.step, NEW y \in Nat
    PROVE  Gaps(g) = 1 /\ (OnTile(g, y) <=> y <= 2 * g.step + g.overlap)
  <1>1. g.step \in Nat \ {0} /\ g.overlap \in Nat /\ Span(g) \in Nat
    BY DEF IsAxis, Span
  <1>2. WholeSteps(g) = 0 /\ Span(g) % g.step = Span(g)
    BY <1>1 DEF WholeSteps
  <1>3. Gaps(g) = 1 /\ Tiles(g) - 1 = 0
    BY <1>2 DEF Gaps, Tiles
  <1>4. Pitch(g) = Span(g)
    BY <1>1, <1>2, <1>3 DEF Pitch
  <1>5. Left(g, 0) = -g.overlap /\ Right(g, 0) = 2 * g.step + g.overlap
    BY <1>1, <1>3, <1>4 DEF Left, Right
  <1>6. OnTile(g, y) <=> Left(g, 0) <= y /\ y <= Right(g, 0)
    BY <1>3 DEF OnTile
  <1> QED BY <1>1, <1>3, <1>5, <1>6

\* Beyond the beginning of the axis only the first tile reaches, with half of its
\* overlap.
LEMMA FirstTileReachesBack ==
    ASSUME NEW g, IsAxis(g), NEW z \in Int, z <= 0
    PROVE  OnTile(g, z) <=> z >= -(Gaps(g) * g.overlap)
  <1> DEFINE n == Gaps(g)
             p == Pitch(g)
             o == g.overlap
             s == g.step
  <1>1. /\ n \in Nat /\ o \in Nat /\ s \in Nat /\ n * o \in Nat
        /\ p \in Nat \/ Tiles(g) = 1
        /\ p \in Int /\ Tiles(g) \in Nat /\ Tiles(g) >= 1
    <2>1. Span(g) \in Nat /\ s \in Nat \ {0} /\ o \in Nat
      BY DEF IsAxis, Span
    <2>2. CASE s <= Span(g)
      <3>1. IsGrid(g)
        BY <2>2 DEF IsAxis, IsGrid
      <3>2. /\ n \in Nat /\ n >= 1 /\ WholeSteps(g) \in Nat
            /\ Span(g) % s \in Nat
        BY <3>1, StepsAndRest
      <3>3. n * s >= s /\ n * s \in Nat
        <4>1. (n - 1) * s >= 0 /\ (n - 1) * s = n * s - s /\ n * s \in Nat
          BY <2>1, <3>2
        <4> QED BY <2>1, <4>1
      <3>4. p \in Nat
        BY <2>1, <3>2, <3>3 DEF Pitch
      <3>5. n * o \in Nat
        BY <2>1, <3>2
      <3> QED BY <2>1, <3>2, <3>4, <3>5 DEF Tiles
    <2>3. CASE Span(g) < s
      <3>1. WholeSteps(g) = 0 /\ Span(g) % s = Span(g)
        BY <2>1, <2>3 DEF WholeSteps
      <3>2. n = 1 /\ Tiles(g) = 1
        BY <3>1 DEF Gaps, Tiles
      <3> QED BY <2>1, <3>1, <3>2 DEF Pitch
    <2> QED BY <2>1, <2>2, <2>3
  <1>2. /\ \A i : Left(g, i) = 2 * i * p - n * o
        /\ \A i : Right(g, i) = 2 * i * p + n * (2 * s + o)
    BY DEF Left, Right
  <1>3. OnTile(g, z) <=> \E i \in 0..(Tiles(g) - 1) : Left(g, i) <= z /\ z <= Right(g, i)
    BY DEF OnTile
  <1> HIDE DEF n, p, o, s
  <1>4. n * (2 * s + o) \in Nat
    BY <1>1
  <1>5. Left(g, 0) = -(n * o) /\ 0 <= Right(g, 0)
    BY <1>1, <1>2, <1>4
  <1>6. ASSUME NEW i \in 0..(Tiles(g) - 1) PROVE Left(g, i) >= -(n * o)
    <2>1. 2 * i * p \in Nat
      BY <1>1
    <2> QED BY <1>1, <1>2, <2>1
  <1>7. ASSUME z >= -(n * o) PROVE OnTile(g, z)
    <2>1. Left(g, 0) <= z /\ z <= Right(g, 0)
      <3>1. Right(g, 0) \in Int
        BY <1>1, <1>2, <1>4
      <3> QED BY <1>5, <1>7, <3>1
    <2>2. 0 \in 0..(Tiles(g) - 1)
      BY <1>1
    <2> QED BY <1>3, <2>1, <2>2
  <1>8. ASSUME OnTile(g, z) PROVE z >= -(n * o)
    <2>1. PICK i \in 0..(Tiles(g) - 1) : Left(g, i) <= z
      BY <1>3, <1>8
    <2>2. Left(g, i) \in Int
      BY <1>1, <1>2
    <2> QED BY <1>1, <1>6, <2>1, <2>2
  <1> QED BY <1>7, <1>8 DEF n, o

\* The tiles as they lie on the line, with no turn.
LEMMA TilesOnTheLine ==
    ASSUME NEW g, IsAxis(g), NEW y \in Nat
    PROVE  /\ Gaps(g) \in Nat
           /\ OnTile(g, y) <=>
                  2 * y <= (2 * Gaps(g)) * (2 * Max({Span(g), g.step}) + g.overlap)
  <1>1. Span(g) \in Int /\ g.step \in Int /\ g.overlap \in Int
    BY DEF IsAxis, Span
  <1>2. CASE g.step <= Span(g)
    <2>1. IsGrid(g)
      BY <1>2 DEF IsAxis, IsGrid
    <2>2. Max({Span(g), g.step}) = Span(g)
      BY <1>1, <1>2, GreaterOfTwo
    <2>3. Gaps(g) \in Nat
      BY <2>1, StepsAndRest
    <2>4. /\ (2 * Gaps(g)) * (2 * Span(g) + g.overlap)
                = 2 * (Gaps(g) * (2 * Span(g) + g.overlap))
          /\ Gaps(g) * (2 * Span(g) + g.overlap) \in Int
      BY <1>1, <2>3
    <2>5. OnTile(g, y) <=> y <= Gaps(g) * (2 * Span(g) + g.overlap)
      BY <2>1, TilesReachTheLast
    <2> QED BY <2>2, <2>3, <2>4, <2>5
  <1>3. CASE Span(g) < g.step
    <2>1. Max({Span(g), g.step}) = g.step
      BY <1>1, <1>3, GreaterOfTwo
    <2>2. Gaps(g) = 1 /\ (OnTile(g, y) <=> y <= 2 * g.step + g.overlap)
      BY <1>3, WideTileStandsAlone
    <2> QED BY <1>1, <2>1, <2>2
  <1> QED BY <1>1, <1>2, <1>3

\* Along every axis the tiles leave no gap, and miss the seam at its end only
\* (generate_tile_tessellation), also where the axis comes round.
THEOREM GridCoversTheRest == Spec => []GridMissesOnlyTheSeam
  <1>1. ASSUME NEW g, IsAxis(g), NEW y \in 0..Turn(g)
        PROVE  Covered(g, y) <=>
                   \/ 2 * y <= (2 * Gaps(g)) * (2 * Max({Span(g), g.step}) + g.overlap)
                   \/ g.wraps /\ 2 * y >= (2 * Gaps(g)) * (2 * g.length - g.overlap)
    <2> DEFINE bound == (2 * Gaps(g)) * (2 * Max({Span(g), g.step}) + g.overlap)
    <2>1. y \in Nat /\ Gaps(g) \in Nat /\ g.length \in Nat /\ g.overlap \in Nat
      <3>1. y \in Nat
        OBVIOUS
      <3> QED BY <1>1, <3>1, TilesOnTheLine DEF IsAxis
    <2>2. Turn(g) \in Nat /\ Gaps(g) * g.overlap \in Nat /\ y <= Turn(g)
      BY <2>1 DEF Turn
    <2>3. bound \in Int
      <3>1. Span(g) \in Int /\ g.step \in Int
        BY <1>1 DEF IsAxis, Span
      <3>2. Max({Span(g), g.step}) \in Int
        BY <3>1, GreaterOfTwo
      <3> QED BY <2>1, <3>2
    <2>4. OnTile(g, y) <=> 2 * y <= bound
      BY <1>1, <2>1, TilesOnTheLine
    <2>5. OnTile(g, y + Turn(g)) => OnTile(g, y)
      <3>1. y + Turn(g) \in Nat
        BY <2>1, <2>2
      <3>2. OnTile(g, y + Turn(g)) <=> 2 * (y + Turn(g)) <= bound
        BY <1>1, <3>1, TilesOnTheLine
      <3> HIDE DEF bound
      <3> QED BY <2>1, <2>2, <2>3, <2>4, <3>2
    <2>6. OnTile(g, y - Turn(g)) <=> 2 * y >= (2 * Gaps(g)) * (2 * g.length - g.overlap)
      <3>1. y - Turn(g) \in Int /\ y - Turn(g) <= 0
        BY <2>1, <2>2
      <3>2. OnTile(g, y - Turn(g)) <=> y - Turn(g) >= -(Gaps(g) * g.overlap)
        BY <1>1, <3>1, FirstTileReachesBack
      <3>3. /\ (2 * Gaps(g)) * (2 * g.length - g.overlap)
                  = 2 * Turn(g) - 2 * (Gaps(g) * g.overlap)
        BY <2>1 DEF Turn
      <3> QED BY <2>1, <2>2, <3>2, <3>3
    <2> QED BY <2>4, <2>5, <2>6 DEF Covered
  <1>2. ASSUME InputInv, NEW g \in Given("grid") PROVE IsAxis(g)
    BY <1>2, SkyAssumption DEF SkyAssumption, InputInv, Given, Inputs
  <1>3. InputInv => GridMissesOnlyTheSeam
    BY <1>1, <1>2 DEF GridMissesOnlyTheSeam
  <1> QED BY <1>3, InputsInvariant, PTL

--------------------------------------------------------------------------------
(* Epochs *)

\* A time that is no further than the threshold from the centre of its cluster,
\* the mean of the times in S, is within the interval of its epoch: rounding to
\* whole days only widens it.
THEOREM NearTimesAreLinked ==
    ASSUME NEW obs, NEW S, NEW t \in DOMAIN obs, NEW thresh \in Nat,
           t \in Int, Sum(obs, S) \in Int, Weight(obs, S) \in Nat \ {0},
           t * Weight(obs, S) - Sum(obs, S) <= thresh * Weight(obs, S),
           Sum(obs, S) - t * Weight(obs, S) <= thresh * Weight(obs, S)
    PROVE  t \in Linked(obs, thresh, S)
  <1> DEFINE w == Weight(obs, S)
             lo == Sum(obs, S) - thresh * w
             hi == Sum(obs, S) + thresh * w
  <1>1. /\ w \in Nat \ {0} /\ lo \in Int /\ -hi \in Int
        /\ lo <= w * t /\ -hi <= w * (-t)
    OBVIOUS
  <1>2. Start(obs, thresh, S) = lo \div (2 * w)
    BY DEF Start
  <1>3. End(obs, thresh, S) = -((-hi) \div (2 * w))
    BY DEF End, CeilDiv
  <1> HIDE DEF w, lo, hi
  <1>4. 2 * Start(obs, thresh, S) <= t
    BY <1>1, <1>2, FloorBelow
  <1>5. t <= 2 * End(obs, thresh, S)
    <2>1. -t \in Int
      OBVIOUS
    <2>2. (-hi) \div (2 * w) \in Int /\ 2 * ((-hi) \div (2 * w)) <= -t
      BY <1>1, <2>1, FloorBelow
    <2> QED BY <1>3, <2>2
  <1> QED BY <1>4, <1>5 DEF Linked

--------------------------------------------------------------------------------
(* The histogram of the observation times, and its peaks *)

\* An observation and a threshold are what the clustering is called with.
LEMMA EpochInputs ==
    ASSUME InputInv, NEW i \in Given("epochs")
    PROVE  IsObservation(i[1]) /\ i[2] \in Nat /\ i[2] >= 2
  <1>1. i \in Observations \X Thresholds
    BY DEF InputInv, Given, Inputs
  <1> QED BY <1>1, SkyAssumption DEF SkyAssumption

LEMMA FirstAndLast ==
    ASSUME NEW obs, IsObservation(obs)
    PROVE  /\ First(obs) \in DOMAIN obs /\ Last(obs) \in DOMAIN obs
           /\ First(obs) \in Int /\ Last(obs) \in Int
           /\ \A t \in DOMAIN obs : t \in Int /\ First(obs) <= t /\ t <= Last(obs)
  <1>1. DOMAIN obs \in SUBSET Int /\ IsFiniteSet(DOMAIN obs) /\ DOMAIN obs # {}
    BY DEF IsObservation
  <1>2. First(obs) \in DOMAIN obs /\ \A t \in DOMAIN obs : First(obs) <= t
    BY <1>1, LeastExists DEF First, Min
  <1>3. Last(obs) \in DOMAIN obs /\ \A t \in DOMAIN obs : t <= Last(obs)
    <2>1. \E m \in DOMAIN obs : \A t \in DOMAIN obs : t <= m
      BY <1>1, GreatestExists
    <2>2. \A m, t \in DOMAIN obs : t <= m <=> m >= t
      BY <1>1
    <2>3. \E m \in DOMAIN obs : \A t \in DOMAIN obs : m >= t
      BY <2>1, <2>2
    <2>4. Last(obs) \in DOMAIN obs /\ \A t \in DOMAIN obs : Last(obs) >= t
      BY <2>3 DEF Last, Max
    <2> QED BY <2>2, <2>4
  <1> QED BY <1>1, <1>2, <1>3

\* A bin is half as many half days wide, or a little less.
LEMMA BinsOfTheRange ==
    ASSUME NEW obs, IsObservation(obs)
    PROVE  /\ Bins(obs) \in Nat
           /\ 2 * Bins(obs) >= Last(obs) - First(obs) + 4
           /\ First(obs) % 2 = 1 \/ Last(obs) % 2 = 1
                => 2 * Bins(obs) > Last(obs) - First(obs) + 4
  BY FirstAndLast DEF Bins, CeilDiv

\* What the bin of a time is, without the division, and that the histogram has it.
LEMMA BinOfTime ==
    ASSUME NEW obs, IsObservation(obs), NEW t \in DOMAIN obs
    PROVE  /\ Bin(obs, t) \in Nat /\ Bin(obs, t) < Bins(obs)
           /\ (Last(obs) - First(obs) + 4) * Bin(obs, t) <= (t - First(obs) + 2) * Bins(obs)
           /\ (t - First(obs) + 2) * Bins(obs)
                    < (Last(obs) - First(obs) + 4) * (Bin(obs, t) + 1)
  <1> DEFINE w == Last(obs) - First(obs) + 4
             u == t - First(obs) + 2
             n == Bins(obs)
             b == Bin(obs, t)
  <1>1. w \in Nat \ {0} /\ u \in Nat /\ u < w /\ n \in Nat /\ n > 0
    BY FirstAndLast, BinsOfTheRange
  <1>2. b = (u * n) \div w
    BY DEF Bin
  <1> HIDE DEF w, u, n, b
  <1>3. u * n \in Nat
    BY <1>1
  <1>4. b \in Int /\ u * n = w * b + ((u * n) % w) /\ (u * n) % w \in Int
        /\ 0 <= (u * n) % w /\ (u * n) % w < w
    BY <1>1, <1>2, <1>3, Division
  <1>5. w * (b + 1) = w * b + w /\ w * b \in Int
    BY <1>1, <1>4
  <1>6. w * b <= u * n /\ u * n < w * (b + 1)
    BY <1>1, <1>3, <1>4, <1>5
  <1>7. b >= 0
    <2>1. SUFFICES ASSUME b + 1 <= 0 PROVE FALSE
      BY <1>4
    <2>2. w * (b + 1) <= w * 0
      BY <1>1, <1>4, <2>1
    <2>3. w * 0 = 0 /\ w * (b + 1) \in Int
      BY <1>1, <1>4
    <2> QED BY <1>3, <1>6, <2>2, <2>3
  <1>8. b < n
    <2>1. SUFFICES ASSUME n <= b PROVE FALSE
      BY <1>1, <1>4
    <2>2. w * n <= w * b
      BY <1>1, <1>4, <2>1
    <2>3. (w - u) * n > 0 /\ (w - u) * n = w * n - u * n /\ w * n \in Int
      BY <1>1
    <2> QED BY <1>3, <1>5, <1>6, <2>2, <2>3
  <1> QED BY <1>4, <1>6, <1>7, <1>8 DEF w, u, n, b

\* A bin is as high as there are calibrations in it: not at all, or by some time.
LEMMA HeightOfBin ==
    ASSUME NEW obs, IsObservation(obs), NEW b
    PROVE  /\ Height(obs, b) \in Nat
           /\ Height(obs, b) > 0 <=> \E t \in DOMAIN obs : Bin(obs, t) = b
  <1> DEFINE T == {t \in DOMAIN obs : Bin(obs, t) = b}
  <1>1. IsFiniteSet(T)
    <2>1. T \in SUBSET DOMAIN obs
      OBVIOUS
    <2> HIDE DEF T
    <2> QED BY <2>1, FS_Subset DEF IsObservation
  <1>2. \A t \in T : obs[t] \in Nat /\ obs[t] > 0
    BY DEF IsObservation
  <1>3. Height(obs, b) = SumFunctionOnSet(obs, T)
    BY DEF Height
  <1>4. T # {} <=> \E t \in DOMAIN obs : Bin(obs, t) = b
    OBVIOUS
  <1> HIDE DEF T
  <1>5. Height(obs, b) \in Nat
    BY <1>1, <1>2, <1>3, SumIsNat
  <1>6. CASE T = {}
    BY <1>3, <1>4, <1>6, SumOfNone
  <1>7. CASE T # {}
    <2>1. PICK t \in T : TRUE
      BY <1>7
    <2>2. SumFunctionOnSet(obs, T) \in Nat \ {0}
      BY <1>1, <1>2, <2>1, SumIsPositive
    <2> QED BY <1>3, <1>4, <1>7, <2>2
  <1> QED BY <1>5, <1>6, <1>7

\* A level stretch from bin i to bin j with a lower bin on either side.
IsStretch(obs, i, j) ==
    /\ i \in 1..(Bins(obs) - 2) /\ j \in 1..(Bins(obs) - 2) /\ i <= j
    /\ \A b \in i..j : Height(obs, b) = Height(obs, i)
    /\ Height(obs, i - 1) < Height(obs, i)
    /\ Height(obs, j + 1) < Height(obs, j)

LEMMA PeaksAreStretches ==
    ASSUME NEW obs, IsObservation(obs), NEW p
    PROVE  p \in Peaks(obs) <=> \E i, j \in Int : IsStretch(obs, i, j) /\ p = (i + j) \div 2
  <1> DEFINE top == Bins(obs) - 1
             H == [b \in 0..top |-> Height(obs, b)]
             Level(i, j) == \A b \in i..j : H[b] = H[i]
             Q == {q \in (1..(top - 1)) \X (1..(top - 1)) :
                      /\ q[1] <= q[2] /\ Level(q[1], q[2])
                      /\ H[q[1] - 1] < H[q[1]] /\ H[q[2] + 1] < H[q[2]]}
  <1>1. Peaks(obs) = {(q[1] + q[2]) \div 2 : q \in Q}
    BY DEF Peaks
  <1>2. Bins(obs) \in Nat
    BY BinsOfTheRange
  <1>3. ASSUME NEW i \in 1..(top - 1), NEW j \in 1..(top - 1)
        PROVE  <<i, j>> \in Q <=> IsStretch(obs, i, j)
    <2>1. i \in 0..top /\ j \in 0..top /\ i - 1 \in 0..top /\ j + 1 \in 0..top
      BY <1>2
    <2>2. \A b \in i..j : b \in 0..top
      BY <1>2
    <2>3. Bins(obs) - 2 = top - 1
      BY <1>2
    <2> QED BY <2>1, <2>2, <2>3 DEF IsStretch
  <1>4. ASSUME NEW i, NEW j, IsStretch(obs, i, j)
        PROVE  i \in 1..(top - 1) /\ j \in 1..(top - 1)
    BY <1>2, <1>4 DEF IsStretch
  <1>5. Q \subseteq (1..(top - 1)) \X (1..(top - 1))
    OBVIOUS
  <1> HIDE DEF Q
  <1>6. ASSUME NEW i \in Int, NEW j \in Int, IsStretch(obs, i, j), p = (i + j) \div 2
        PROVE  p \in Peaks(obs)
    <2>1. <<i, j>> \in Q
      BY <1>3, <1>4, <1>6
    <2> QED BY <1>1, <1>6, <2>1
  <1>7. ASSUME p \in Peaks(obs)
        PROVE  \E i, j \in Int : IsStretch(obs, i, j) /\ p = (i + j) \div 2
    <2>1. PICK q \in Q : p = (q[1] + q[2]) \div 2
      BY <1>1, <1>7
    <2>2. q = <<q[1], q[2]>> /\ q[1] \in 1..(top - 1) /\ q[2] \in 1..(top - 1)
      BY <1>5
    <2>3. IsStretch(obs, q[1], q[2])
      BY <1>3, <2>2
    <2> QED BY <2>1, <2>2, <2>3
  <1> QED BY <1>6, <1>7

\* A stretch is known by where it begins, and a time was observed there.
LEMMA StretchesDiffer ==
    ASSUME NEW obs, IsObservation(obs), NEW i \in Int, NEW j \in Int, NEW k \in Int,
           IsStretch(obs, i, j), IsStretch(obs, i, k)
    PROVE  j = k
  <1>1. ASSUME NEW m \in Int, NEW n \in Int, IsStretch(obs, i, m), IsStretch(obs, i, n)
        PROVE  ~(m < n)
    <2>1. SUFFICES ASSUME m < n PROVE FALSE
      OBVIOUS
    <2>2. m \in i..n /\ m + 1 \in i..n /\ m \in i..m
      BY <1>1, <2>1 DEF IsStretch
    <2>3. Height(obs, m + 1) = Height(obs, i) /\ Height(obs, m) = Height(obs, i)
      BY <1>1, <2>2 DEF IsStretch
    <2>4. Height(obs, m + 1) < Height(obs, m) /\ Height(obs, m) \in Nat
      BY <1>1, HeightOfBin DEF IsStretch
    <2> QED BY <2>3, <2>4
  <1> QED BY <1>1

LEMMA StretchHasTime ==
    ASSUME NEW obs, IsObservation(obs), NEW i, NEW j, IsStretch(obs, i, j)
    PROVE  \E t \in DOMAIN obs : Bin(obs, t) = i
  <1>1. Height(obs, i - 1) \in Nat /\ Height(obs, i) \in Nat
    BY HeightOfBin
  <1>2. Height(obs, i) > 0
    BY <1>1 DEF IsStretch
  <1> QED BY <1>2, HeightOfBin

\* There are no more peaks than different times.
LEMMA PeaksAreFew ==
    ASSUME NEW obs, IsObservation(obs)
    PROVE  IsFiniteSet(Peaks(obs)) /\ Cardinality(Peaks(obs)) <= Cardinality(DOMAIN obs)
  <1> DEFINE At(p, t) == \E i, j \in Int : /\ IsStretch(obs, i, j) /\ p = (i + j) \div 2
                                          /\ Bin(obs, t) = i
             from == [p \in Peaks(obs) |-> CHOOSE t \in DOMAIN obs : At(p, t)]
  <1>1. ASSUME NEW p \in Peaks(obs)
        PROVE  from[p] \in DOMAIN obs /\ At(p, from[p])
    <2>1. PICK i, j \in Int : IsStretch(obs, i, j) /\ p = (i + j) \div 2
      BY PeaksAreStretches
    <2>2. PICK t \in DOMAIN obs : Bin(obs, t) = i
      BY <2>1, StretchHasTime
    <2>3. At(p, t)
      BY <2>1, <2>2
    <2> HIDE DEF At
    <2> QED BY <2>3
  <1>2. ASSUME NEW p, NEW q, NEW t, At(p, t), At(q, t) PROVE p = q
    <2>1. PICK i, j \in Int : IsStretch(obs, i, j) /\ p = (i + j) \div 2 /\ Bin(obs, t) = i
      BY <1>2
    <2>2. PICK k, l \in Int : IsStretch(obs, k, l) /\ q = (k + l) \div 2 /\ Bin(obs, t) = k
      BY <1>2
    <2>3. j = l
      BY <2>1, <2>2, StretchesDiffer
    <2> QED BY <2>1, <2>2, <2>3
  <1>3. DOMAIN from = Peaks(obs)
    OBVIOUS
  <1> HIDE DEF At
  <1>4. from \in [Peaks(obs) -> DOMAIN obs]
    BY <1>1
  <1> HIDE DEF from
  <1>5. from \in Injection(Peaks(obs), DOMAIN obs)
    BY <1>1, <1>2, <1>3, <1>4 DEF Injection, IsInjective
  <1> QED BY <1>5, FS_Injection DEF IsObservation

\* The order in which find_peaks looks at the peaks, and which it holds too near.
Before(obs, p, q) ==
    \/ Height(obs, p) > Height(obs, q)
    \/ Height(obs, p) = Height(obs, q) /\ p > q
Near(thresh, p, q) == p - q < CeilDiv(thresh, 2) /\ q - p < CeilDiv(thresh, 2)

IsKept(obs, thresh, P, K) ==
    /\ K \in SUBSET P
    /\ \A p \in P : p \in K <=> ~\E q \in K : Before(obs, q, p) /\ Near(thresh, p, q)

\* Of some peaks one is looked at last.
LEMMA LastPeakExists ==
    ASSUME NEW obs, IsObservation(obs), NEW P \in SUBSET Int, IsFiniteSet(P), P # {}
    PROVE  \E z \in P : \A p \in P : p # z => Before(obs, p, z) /\ ~Before(obs, z, p)
  <1> DEFINE F == {T \in SUBSET P :
                     T # {} => \E z \in T : \A p \in T : p # z => Before(obs, p, z)}
  <1>1. {} \in F
    OBVIOUS
  <1>2. \A p \in P : p \in Int /\ Height(obs, p) \in Int
    <2>1. \A b : Height(obs, b) \in Nat
      BY HeightOfBin
    <2> QED BY <2>1
  <1>3. ASSUME NEW T \in F, NEW x \in P, x \notin T
        PROVE  T \cup {x} \in F
    <2>1. CASE T = {}
      BY <2>1
    <2>2. CASE T # {}
      <3>1. PICK z \in T : \A p \in T : p # z => Before(obs, p, z)
        BY <2>2
      <3>2. CASE Before(obs, x, z)
        BY <3>1, <3>2
      <3>3. CASE ~Before(obs, x, z)
        <4>1. x # z /\ z \in P /\ T \subseteq P
          BY <1>3, <3>1
        <4>2. Before(obs, z, x)
          BY <1>2, <3>3, <4>1 DEF Before
        <4>3. \A p \in T : Before(obs, p, x)
          <5>1. ASSUME NEW p \in T, p # z PROVE Before(obs, p, x)
            <6>1. Before(obs, p, z) /\ p \in P
              BY <3>1, <4>1, <5>1
            <6> QED BY <1>2, <4>1, <4>2, <6>1 DEF Before
          <5> QED BY <4>2, <5>1
        <4> QED BY <4>3
      <3> QED BY <3>2, <3>3
    <2> QED BY <2>1, <2>2
  <1>4. F \in SUBSET SUBSET P
    OBVIOUS
  <1> HIDE DEF F
  <1>5. P \in F
    BY <1>1, <1>3, <1>4, SetInduction
  <1>6. PICK z \in P : \A p \in P : p # z => Before(obs, p, z)
    BY <1>5 DEF F
  <1>7. \A p \in P : Before(obs, p, z) => ~Before(obs, z, p)
    BY <1>2 DEF Before
  <1> QED BY <1>6, <1>7

\* Of any peaks some are kept: with what is kept of the others, the last is kept or
\* dropped, and no other depends on it.
LEMMA SomeAreKept ==
    ASSUME NEW obs, IsObservation(obs), NEW thresh, NEW P, P \subseteq Int, IsFiniteSet(P)
    PROVE  \E K : IsKept(obs, thresh, P, K)
  <1> DEFINE Out == {T \in SUBSET P : ~\E K : IsKept(obs, thresh, T, K)}
  <1>1. SUFFICES ASSUME Out # {} PROVE FALSE
    OBVIOUS
  <1>2. PICK T \in Out : \A U \in Out : U \subseteq T => U = T
    <2>1. Out \in SUBSET SUBSET P
      OBVIOUS
    <2>2. IsFiniteSet(P)
      OBVIOUS
    <2> HIDE DEF Out
    <2> QED BY ONLY <1>1, <2>1, <2>2, MinimalSetExists
  <1>3. T \in SUBSET Int /\ IsFiniteSet(T)
    BY <1>2, FS_Subset
  <1>4. T # {}
    <2>1. IsKept(obs, thresh, {}, {})
      BY DEF IsKept
    <2> QED BY <1>2, <2>1
  <1>5. PICK z \in T : \A p \in T : p # z => Before(obs, p, z) /\ ~Before(obs, z, p)
    BY <1>3, <1>4, LastPeakExists
  <1>6. PICK K : IsKept(obs, thresh, T \ {z}, K)
    <2>1. T \ {z} \in SUBSET P /\ T \ {z} \subseteq T /\ T \ {z} # T
      BY <1>2, <1>5
    <2>2. T \ {z} \notin Out
      <3> HIDE DEF Out
      <3> QED BY <1>2, <2>1
    <2> QED BY <2>1, <2>2
  <1>7. CASE \E q \in K : Near(thresh, z, q)
    <2>1. IsKept(obs, thresh, T, K)
      BY <1>5, <1>6, <1>7 DEF IsKept
    <2> QED BY <1>2, <2>1
  <1>8. CASE ~\E q \in K : Near(thresh, z, q)
    <2>1. IsKept(obs, thresh, T, K \cup {z})
      <3>1. ~Before(obs, z, z)
        <4>1. z \in Int /\ Height(obs, z) \in Int
          BY <1>3, <1>5, HeightOfBin
        <4> QED BY <4>1 DEF Before
      <3> QED BY <1>5, <1>6, <1>8, <3>1 DEF IsKept
    <2> QED BY <1>2, <2>1
  <1> QED BY <1>7, <1>8

LEMMA PeaksAreBins ==
    ASSUME NEW obs, IsObservation(obs)
    PROVE  Peaks(obs) \in SUBSET Int
  <1>1. ASSUME NEW p \in Peaks(obs) PROVE p \in Int
    <2>1. PICK i, j \in Int : p = (i + j) \div 2
      BY PeaksAreStretches
    <2> QED BY <2>1
  <1> QED BY <1>1

LEMMA KeptAreKept ==
    ASSUME NEW obs, IsObservation(obs), NEW thresh
    PROVE  IsKept(obs, thresh, Peaks(obs), Kept(obs, thresh))
  <1> DEFINE P == Peaks(obs)
             Good(K) == \A p \in P :
                           p \in K <=> ~\E q \in K : Before(obs, q, p) /\ Near(thresh, p, q)
  <1>1. \E K : IsKept(obs, thresh, P, K)
    BY PeaksAreBins, PeaksAreFew, SomeAreKept
  <1>2. \E K \in SUBSET P : Good(K)
    BY <1>1 DEF IsKept
  <1>3. Kept(obs, thresh) = CHOOSE K \in SUBSET P : Good(K)
    BY DEF Kept, Before, Near
  <1>4. Kept(obs, thresh) \in SUBSET P /\ Good(Kept(obs, thresh))
    <2> HIDE DEF P, Good
    <2> QED BY <1>2, <1>3
  <1> QED BY <1>4 DEF IsKept

\* The number of clusters is one that KMeans accepts.
LEMMA ClustersAreInRange ==
    ASSUME NEW obs, IsObservation(obs), NEW thresh
    PROVE  /\ NumClusters(obs, thresh) \in 1..Cardinality(DOMAIN obs)
           /\ Cardinality(Kept(obs, thresh)) >= 1
                => NumClusters(obs, thresh) = Cardinality(Kept(obs, thresh))
  <1> DEFINE n == Cardinality(DOMAIN obs)
             k == Cardinality(Kept(obs, thresh))
  <1>1. n \in Nat /\ n >= 1
    BY FS_CardinalityType, FS_EmptySet DEF IsObservation
  <1>2. Kept(obs, thresh) \in SUBSET Peaks(obs)
    BY KeptAreKept DEF IsKept
  <1>3. k \in Nat /\ k <= Cardinality(Peaks(obs)) /\ Cardinality(Peaks(obs)) \in Nat
    BY <1>2, PeaksAreFew, FS_Subset, FS_CardinalityType
  <1>4. k <= n
    BY <1>1, <1>3, PeaksAreFew
  <1>5. NumClusters(obs, thresh) = Max({k, 1})
    BY DEF NumClusters
  <1> HIDE DEF n, k
  <1>6. CASE k >= 1
    <2>1. Max({k, 1}) = k
      BY <1>3, <1>6, GreaterOfTwo
    <2> QED BY <1>1, <1>3, <1>4, <1>5, <1>6, <2>1 DEF n, k
  <1>7. CASE ~(k >= 1)
    <2>1. Max({k, 1}) = 1
      BY <1>3, <1>7, GreaterOfTwo
    <2> QED BY <1>1, <1>5, <1>7, <2>1 DEF n, k
  <1> QED BY <1>6, <1>7

--------------------------------------------------------------------------------
(* Visits that are well separated *)

\* Times that are 2 * d half days apart are d bins apart.
LEMMA BinsApart ==
    ASSUME NEW obs, IsObservation(obs), NEW t \in DOMAIN obs, NEW u \in DOMAIN obs,
           NEW d \in Nat, u - t >= 2 * d
    PROVE  Bin(obs, u) - Bin(obs, t) >= d
  <1> DEFINE w == Last(obs) - First(obs) + 4
             n == Bins(obs)
             x == t - First(obs) + 2
             y == u - First(obs) + 2
             b == Bin(obs, t)
             c == Bin(obs, u)
  <1>1. /\ w \in Nat \ {0} /\ n \in Nat /\ x \in Int /\ y \in Int /\ y - x >= 2 * d
        /\ 2 * n >= w
    BY FirstAndLast, BinsOfTheRange
  <1>2. b \in Int /\ c \in Int /\ w * b <= x * n /\ y * n < w * (c + 1)
    BY BinOfTime
  <1> HIDE DEF w, n, x, y, b, c
  <1>3. w * b \in Int /\ w * (c + 1) \in Int /\ x * n \in Int /\ y * n \in Int /\ w * d \in Int
    BY <1>1, <1>2
  <1>4. y * n - x * n >= w * d
    <2>1. (y - x - 2 * d) * n >= 0
      BY <1>1
    <2>2. (y - x - 2 * d) * n = y * n - x * n - d * (2 * n)
      BY <1>1
    <2>3. d * (2 * n - w) >= 0 /\ d * (2 * n - w) = d * (2 * n) - w * d
      BY <1>1
    <2>4. d * (2 * n) \in Int
      BY <1>1
    <2> QED BY <1>3, <2>1, <2>2, <2>3, <2>4
  <1>5. w * (b + d) < w * (c + 1)
    <2>1. w * (b + d) = w * b + w * d
      BY <1>1, <1>2
    <2> QED BY <1>2, <1>3, <1>4, <2>1
  <1>6. ~(c + 1 <= b + d)
    <2>1. SUFFICES ASSUME c + 1 <= b + d PROVE FALSE
      OBVIOUS
    <2>2. w * (c + 1) <= w * (b + d)
      BY <1>1, <1>2, <2>1
    <2>3. w * (b + d) \in Int
      BY <1>1, <1>2
    <2> QED BY <1>3, <1>5, <2>2, <2>3
  <1>7. c - b >= d
    BY <1>2, <1>6
  <1> QED BY <1>7 DEF b, c

\* Unless first and last are both at midnight, no time is in a bin at the edge.
LEMMA TimesAreInside ==
    ASSUME NEW obs, IsObservation(obs), NEW t \in DOMAIN obs,
           First(obs) % 2 = 1 \/ Last(obs) % 2 = 1
    PROVE  Bin(obs, t) \in 1..(Bins(obs) - 2)
  <1> DEFINE w == Last(obs) - First(obs) + 4
             n == Bins(obs)
             x == t - First(obs) + 2
             b == Bin(obs, t)
  <1>1. /\ w \in Nat \ {0} /\ n \in Nat /\ x \in Int /\ 2 <= x /\ x <= w - 2
        /\ 2 * n > w
    BY FirstAndLast, BinsOfTheRange
  <1>2. b \in Nat /\ w * b <= x * n /\ x * n < w * (b + 1)
    BY BinOfTime
  <1> HIDE DEF w, n, x, b
  <1>3. x * n \in Int /\ w * b \in Int /\ w * n \in Int
    BY <1>1, <1>2
  <1>4. b # 0
    <2>1. SUFFICES ASSUME b = 0 PROVE FALSE
      OBVIOUS
    <2>2. x * n < w
      BY <1>1, <1>2, <2>1
    <2>3. (x - 2) * n >= 0 /\ (x - 2) * n = x * n - 2 * n
      BY <1>1
    <2> QED BY <1>1, <1>3, <2>2, <2>3
  <1>5. b <= n - 2
    <2>1. SUFFICES ASSUME n - 1 <= b PROVE FALSE
      BY <1>1, <1>2
    <2>2. w * (n - 1) <= w * b /\ w * (n - 1) = w * n - w
      BY <1>1, <1>2, <2>1
    <2>3. (w - 2 - x) * n >= 0 /\ (w - 2 - x) * n = w * n - 2 * n - x * n
      BY <1>1
    <2> QED BY <1>1, <1>2, <1>3, <2>2, <2>3
  <1>6. b \in 1..(n - 2)
    BY <1>1, <1>2, <1>4, <1>5
  <1> QED BY <1>6 DEF b, n

\* The bins of two visits have an empty one between them, and are no nearer than
\* the distance below which one of them is dropped.
LEMMA SeparatedBins ==
    ASSUME NEW obs, IsObservation(obs), NEW thresh \in Nat, thresh >= 2,
           Separated(obs, thresh),
           NEW t \in DOMAIN obs, NEW u \in DOMAIN obs, t # u
    PROVE  LET b == Bin(obs, t)
               c == Bin(obs, u)
           IN  /\ b - c >= 2 \/ c - b >= 2
               /\ b - c >= CeilDiv(thresh, 2) \/ c - b >= CeilDiv(thresh, 2)
  <1>1. CeilDiv(thresh, 2) \in Nat /\ 2 * CeilDiv(thresh, 2) <= thresh + 2
    BY DEF CeilDiv
  <1>2. ASSUME NEW x \in DOMAIN obs, NEW y \in DOMAIN obs, x < y
        PROVE  /\ Bin(obs, y) - Bin(obs, x) >= 2
               /\ Bin(obs, y) - Bin(obs, x) >= CeilDiv(thresh, 2)
    <2>1. x \in Int /\ y \in Int /\ y - x >= thresh + 2
      BY <1>2, FirstAndLast DEF Separated
    <2>2. y - x >= 2 * 2 /\ y - x >= 2 * CeilDiv(thresh, 2)
      BY <1>1, <2>1
    <2>3. Bin(obs, y) - Bin(obs, x) >= 2
      BY <2>2, BinsApart
    <2>4. Bin(obs, y) - Bin(obs, x) >= CeilDiv(thresh, 2)
      BY <1>1, <2>2, BinsApart
    <2> QED BY <2>3, <2>4
  <1>3. t < u \/ u < t
    BY FirstAndLast
  <1> QED BY <1>2, <1>3

\* Each visit makes a peak of its own, and there are no others.
LEMMA PeakOfEachVisit ==
    ASSUME NEW obs, IsObservation(obs), NEW thresh \in Nat, thresh >= 2,
           Separated(obs, thresh), First(obs) % 2 = 1 \/ Last(obs) % 2 = 1
    PROVE  Peaks(obs) = {Bin(obs, t) : t \in DOMAIN obs}
  <1>1. \A t \in DOMAIN obs : Bin(obs, t) \in Nat /\ Bin(obs, t) \in 1..(Bins(obs) - 2)
    BY BinOfTime, TimesAreInside
  <1>2. \A t, u \in DOMAIN obs : Bin(obs, u) # Bin(obs, t) + 1
    BY <1>1, SeparatedBins
  <1>3. \A b : Height(obs, b) \in Nat
    BY HeightOfBin
  <1>4. \A b : Height(obs, b) > 0 <=> \E t \in DOMAIN obs : Bin(obs, t) = b
    BY HeightOfBin
  <1>5. ASSUME NEW p \in Peaks(obs)
        PROVE  \E t \in DOMAIN obs : p = Bin(obs, t)
    <2>1. PICK i, j \in Int : IsStretch(obs, i, j) /\ p = (i + j) \div 2
      BY PeaksAreStretches
    <2>2. PICK t \in DOMAIN obs : Bin(obs, t) = i
      BY <2>1, StretchHasTime
    <2>3. i = j
      <3>1. SUFFICES ASSUME i < j PROVE FALSE
        BY <2>1 DEF IsStretch
      <3>2. i + 1 \in i..j
        BY <2>1, <3>1
      <3>3. Height(obs, i + 1) = Height(obs, i)
        BY <2>1, <3>2 DEF IsStretch
      <3>4. Height(obs, i + 1) > 0
        BY <1>4, <2>2, <3>3
      <3>5. PICK u \in DOMAIN obs : Bin(obs, u) = i + 1
        BY <1>4, <3>4
      <3> QED BY <1>2, <2>2, <3>5
    <2>4. p = i
      BY <2>1, <2>3
    <2> QED BY <2>2, <2>4
  <1>6. ASSUME NEW t \in DOMAIN obs
        PROVE  Bin(obs, t) \in Peaks(obs)
    <2> DEFINE b == Bin(obs, t)
    <2>1. b \in Int /\ b \in 1..(Bins(obs) - 2) /\ b..b = {b} /\ b = (b + b) \div 2
      BY <1>1
    <2>2. Height(obs, b) > 0
      BY <1>4
    <2>3. ~(Height(obs, b - 1) > 0) /\ ~(Height(obs, b + 1) > 0)
      <3>1. \A u \in DOMAIN obs : Bin(obs, u) # b - 1 /\ Bin(obs, u) # b + 1
        <4>1. \A u \in DOMAIN obs : Bin(obs, u) \in Int /\ b # Bin(obs, u) + 1
          BY <1>1, <1>2
        <4> HIDE DEF b
        <4> QED BY <1>2, <2>1, <4>1 DEF b
      <3> QED BY <1>4, <3>1
    <2> HIDE DEF b
    <2>4. Height(obs, b - 1) < Height(obs, b) /\ Height(obs, b + 1) < Height(obs, b)
      BY <1>3, <2>2, <2>3
    <2>5. IsStretch(obs, b, b)
      BY <2>1, <2>4 DEF IsStretch
    <2>6. b \in Peaks(obs)
      BY <2>1, <2>5, PeaksAreStretches
    <2> QED BY <2>6 DEF b
  <1> QED BY <1>5, <1>6

\* No peak is dropped, so there are as many clusters as visits.
LEMMA ClusterOfEachVisit ==
    ASSUME NEW obs, IsObservation(obs), NEW thresh \in Nat, thresh >= 2,
           Separated(obs, thresh)
    PROVE  NumClusters(obs, thresh) = Cardinality(DOMAIN obs)
  <1> DEFINE n == Cardinality(DOMAIN obs)
  <1>1. n \in Nat /\ n >= 1
    BY FS_CardinalityType, FS_EmptySet DEF IsObservation
  <1>2. CASE n = 1
    <2>1. NumClusters(obs, thresh) \in 1..1
      BY <1>2, ClustersAreInRange
    <2> QED BY <1>2, <2>1
  <1>3. CASE n > 1
    <2>1. Peaks(obs) = {Bin(obs, t) : t \in DOMAIN obs}
      BY <1>3, PeakOfEachVisit DEF Separated
    <2>2. \A t, u \in DOMAIN obs : t # u => Bin(obs, t) # Bin(obs, u)
      BY BinOfTime, SeparatedBins
    <2>3. ASSUME NEW p \in Peaks(obs), NEW q \in Peaks(obs)
          PROVE  ~(Before(obs, q, p) /\ Near(thresh, p, q))
      <3>1. PICK t \in DOMAIN obs : p = Bin(obs, t)
        BY <2>1
      <3>2. PICK u \in DOMAIN obs : q = Bin(obs, u)
        BY <2>1
      <3>3. p \in Int /\ q \in Int /\ CeilDiv(thresh, 2) \in Int
        BY <3>1, <3>2, BinOfTime DEF CeilDiv
      <3>4. CASE t # u
        <4>1. p - q >= CeilDiv(thresh, 2) \/ q - p >= CeilDiv(thresh, 2)
          BY <3>1, <3>2, <3>4, SeparatedBins
        <4> QED BY <3>3, <4>1 DEF Near
      <3>5. CASE t = u
        <4>1. Height(obs, p) \in Nat
          BY HeightOfBin
        <4> QED BY <3>1, <3>2, <3>3, <3>5, <4>1 DEF Before
      <3> QED BY <3>4, <3>5
    <2>4. Kept(obs, thresh) = Peaks(obs)
      <3>1. IsKept(obs, thresh, Peaks(obs), Kept(obs, thresh))
        BY KeptAreKept
      <3> QED BY <2>3, <3>1 DEF IsKept
    <2>5. Cardinality(Peaks(obs)) = n
      <3> DEFINE bin == [t \in DOMAIN obs |-> Bin(obs, t)]
      <3>1. bin \in Bijection(DOMAIN obs, Peaks(obs))
        BY <2>1, <2>2 DEF Bijection, Injection, Surjection, IsInjective
      <3> HIDE DEF bin
      <3>2. ExistsBijection(DOMAIN obs, Peaks(obs))
        BY <3>1 DEF ExistsBijection
      <3> QED BY <3>2, FS_Bijection DEF IsObservation
    <2>6. Cardinality(Kept(obs, thresh)) >= 1
      BY <1>1, <2>4, <2>5
    <2> QED BY <2>4, <2>5, <2>6, ClustersAreInRange
  <1> QED BY <1>1, <1>2, <1>3

\* As many clusters as times are clusters of one time each.
LEMMA ClustersOfOne ==
    ASSUME NEW D, IsFiniteSet(D), NEW C \in kSubset(Cardinality(D), (SUBSET D) \ {{}}),
           UNION C = D, \A R, S \in C : R # S => R \cap S = {},
           NEW S \in C
    PROVE  \E t \in D : S = {t}
  <1> DEFINE of == [t \in D |-> CHOOSE R \in C : t \in R]
  <1>1. C \in SUBSET ((SUBSET D) \ {{}}) /\ Cardinality(C) = Cardinality(D)
    BY DEF kSubset
  <1>2. \A t \in D : of[t] \in C /\ t \in of[t]
    OBVIOUS
  <1>3. of \in [D -> C] /\ DOMAIN of = D
    BY <1>2
  <1> HIDE DEF of
  <1>4. \A R \in C : \A t \in R : t \in D /\ of[t] = R
    BY <1>1, <1>2
  <1>5. \A R \in C : \E t \in D : of[t] = R
    BY <1>1, <1>4
  <1>6. of \in Surjection(D, C)
    BY <1>3, <1>5 DEF Surjection
  <1>7. of \in Injection(D, C)
    BY <1>1, <1>6, FS_Surjection
  <1>8. \A t, u \in D : of[t] = of[u] => t = u
    BY <1>3, <1>7 DEF Injection, IsInjective
  <1>9. PICK t \in S : TRUE
    BY <1>1
  <1>10. \A u \in S : u = t
    BY <1>4, <1>8
  <1> QED BY <1>4, <1>9, <1>10

\* A factor of both cancels in the whole days of two halves.
LEMMA WholeDays ==
    ASSUME NEW a \in Int, NEW w \in Nat \ {0}
    PROVE  /\ (w * a) \div (2 * w) \in Int
           /\ 2 * ((w * a) \div (2 * w)) <= a
           /\ a <= 2 * ((w * a) \div (2 * w)) + 1
  <1> DEFINE d == 2 * w
             q == (w * a) \div d
  <1>1. d \in Nat \ {0} /\ w * a \in Int
    OBVIOUS
  <1>2. q \in Int /\ w * a = d * q + ((w * a) % d) /\ (w * a) % d \in Int
        /\ 0 <= (w * a) % d /\ (w * a) % d < d
    BY <1>1, Division
  <1>3. (w * a) \div (2 * w) = q
    OBVIOUS
  <1> HIDE DEF q
  <1>4. d * q = w * (2 * q) /\ w * (2 * q) \in Int /\ w * (2 * q + 2) = w * (2 * q) + d
    BY <1>2
  <1>5. w * (2 * q) <= w * a /\ w * a < w * (2 * q + 2)
    BY <1>1, <1>2, <1>4
  <1>6. 2 * q <= a
    BY <1>2, <1>5, Cancel
  <1>7. ~(2 * q + 2 <= a)
    <2>1. SUFFICES ASSUME 2 * q + 2 <= a PROVE FALSE
      OBVIOUS
    <2>2. w * (2 * q + 2) <= w * a
      BY <1>2, <2>1
    <2>3. w * (2 * q + 2) \in Int
      BY <1>2
    <2> QED BY <1>1, <1>5, <2>2, <2>3
  <1> QED BY <1>2, <1>3, <1>6, <1>7

\* The epoch of a single visit reaches to no other that is well separated.
LEMMA LinksItsOwn ==
    ASSUME NEW obs, IsObservation(obs), NEW thresh \in Nat, Separated(obs, thresh),
           NEW t \in DOMAIN obs
    PROVE  Linked(obs, thresh, {t}) = {t}
  <1> DEFINE w == obs[t]
             a == t - thresh
             b == -(t + thresh)
             q == (w * a) \div (2 * w)
             r == (w * b) \div (2 * w)
  <1>1. w \in Nat \ {0} /\ t \in Int
    BY DEF IsObservation
  <1>2. Weight(obs, {t}) = w
    BY <1>1, SumOfOne DEF Weight
  <1>3. Sum(obs, {t}) = t * w
    <2> DEFINE f == [u \in DOMAIN obs |-> u * obs[u]]
    <2>1. f[t] = t * w /\ f[t] \in Int
      BY <1>1
    <2>2. Sum(obs, {t}) = SumFunctionOnSet(f, {t})
      BY DEF Sum
    <2> HIDE DEF f
    <2> QED BY <2>1, <2>2, SumOfOne
  <1>4. Start(obs, thresh, {t}) = q
    <2>1. t * w - thresh * w = w * a
      BY <1>1
    <2> QED BY <1>2, <1>3, <2>1 DEF Start
  <1>5. End(obs, thresh, {t}) = -r
    <2>1. -(t * w + thresh * w) = w * b
      BY <1>1
    <2> QED BY <1>2, <1>3, <2>1 DEF End, CeilDiv
  <1>6. a \in Int /\ b \in Int
    BY <1>1
  <1> HIDE DEF w, q, r
  <1>7. /\ q \in Int /\ 2 * q <= a /\ a <= 2 * q + 1
        /\ r \in Int /\ 2 * r <= b /\ b <= 2 * r + 1
    <2> HIDE DEF a, b
    <2> QED BY <1>1, <1>6, WholeDays DEF q, r
  <1>8. \A u \in DOMAIN obs : 2 * q <= u /\ u <= 2 * (-r) <=> u = t
    <2>1. ASSUME NEW u \in DOMAIN obs, u # t
          PROVE  u \in Int /\ (u - t >= thresh + 2 \/ t - u >= thresh + 2)
      <3>1. u \in Int /\ (u < t \/ t < u)
        BY <1>1, <2>1, FirstAndLast
      <3> QED BY <3>1 DEF Separated
    <2>2. ASSUME NEW u \in DOMAIN obs, u # t
          PROVE  ~(2 * q <= u /\ u <= 2 * (-r))
      BY <1>1, <1>7, <2>1, <2>2
    <2>3. 2 * q <= t /\ t <= 2 * (-r)
      BY <1>1, <1>7
    <2> QED BY <2>2, <2>3
  <1> QED BY <1>4, <1>5, <1>8 DEF Linked

\* Visits that are well separated get an epoch each, which links the calibrations of
\* its own visit and no others (_cluster_mjds, and the range of times in
\* _associate_epochs_with_calibrations_in_range).
THEOREM VisitsGetTheirEpochs == Spec => []SeparatedVisitsGetOwnEpochs
  <1>1. ASSUME NEW obs, IsObservation(obs), NEW thresh \in Nat, thresh >= 2,
               Separated(obs, thresh),
               NEW C \in Clusterings(obs, NumClusters(obs, thresh))
        PROVE  /\ Cardinality(C) = Cardinality(DOMAIN obs)
               /\ \A S \in C : Linked(obs, thresh, S) = S
    <2>1. NumClusters(obs, thresh) = Cardinality(DOMAIN obs)
      BY <1>1, ClusterOfEachVisit
    <2>2. /\ C \in kSubset(Cardinality(DOMAIN obs), (SUBSET DOMAIN obs) \ {{}})
          /\ UNION C = DOMAIN obs
          /\ \A R, S \in C : R # S => R \cap S = {}
      BY <2>1 DEF Clusterings
    <2>3. ASSUME NEW S \in C PROVE Linked(obs, thresh, S) = S
      <3>1. IsFiniteSet(DOMAIN obs)
        BY <1>1 DEF IsObservation
      <3>2. PICK t \in DOMAIN obs : S = {t}
        BY <2>2, <3>1, ClustersOfOne
      <3> QED BY <1>1, <3>2, LinksItsOwn
    <2> QED BY <2>2, <2>3 DEF kSubset
  <1>2. InputInv => SeparatedVisitsGetOwnEpochs
    BY <1>1, EpochInputs DEF SeparatedVisitsGetOwnEpochs
  <1> QED BY <1>2, InputsInvariant, PTL

--------------------------------------------------------------------------------
(* KMeans has an answer.  Of the partitions of the times into k clusters the best  *)
(* is one: the one in which the squares of the sums, over the weights, add up to   *)
(* the most.  Moving a time to a centre that is nearer to it would improve on it.  *)
(* All weights divide Q, so that what is added up are whole numbers.               *)

IsPartition(D, k, C) ==
    /\ C \in kSubset(k, (SUBSET D) \ {{}})
    /\ UNION C = D
    /\ \A R, S \in C : R # S => R \cap S = {}

\* Times can be parted into any number of clusters: some alone, and the others.
LEMMA PartitionExists ==
    ASSUME NEW D, IsFiniteSet(D), NEW k \in 1..Cardinality(D)
    PROVE  \E C : IsPartition(D, k, C)
  <1>1. Cardinality(D) \in Nat
    BY FS_CardinalityType
  <1>2. PICK T \in SUBSET D : Cardinality(T) = k - 1
    <2>1. k - 1 \in 0..Cardinality(D)
      BY <1>1
    <2> QED BY <2>1, SubsetOfSize
  <1>3. IsFiniteSet(T) /\ D \ T # {}
    <2>1. T # D
      BY <1>1, <1>2
    <2> QED BY <1>2, <2>1, FS_Subset
  <1> DEFINE Ones == {{t} : t \in T}
             C == Ones \cup {D \ T}
  <1>4. IsFiniteSet(Ones) /\ Cardinality(Ones) = k - 1
    <2> DEFINE one == [t \in T |-> {t}]
    <2>1. one \in Bijection(T, Ones)
      BY DEF Bijection, Injection, Surjection, IsInjective
    <2> HIDE DEF one, Ones
    <2>2. ExistsBijection(T, Ones)
      BY <2>1 DEF ExistsBijection
    <2> QED BY <1>2, <1>3, <2>2, FS_Bijection
  <1>5. D \ T \notin Ones
    OBVIOUS
  <1>6. Cardinality(C) = k
    <2>1. Cardinality(C) = (k - 1) + 1
      <3> HIDE DEF Ones
      <3> QED BY <1>4, <1>5, FS_AddElement
    <2>2. k \in Int
      BY <1>1
    <2> HIDE DEF C
    <2> QED BY <2>1, <2>2
  <1>7. C \in SUBSET ((SUBSET D) \ {{}}) /\ UNION C = D
    BY <1>3
  <1>8. \A R, S \in C : R # S => R \cap S = {}
    OBVIOUS
  <1> HIDE DEF C
  <1>9. IsPartition(D, k, C)
    BY <1>6, <1>7, <1>8 DEF IsPartition, kSubset
  <1> QED BY <1>9

\* There are finitely many.
LEMMA PartitionsAreFew ==
    ASSUME NEW D, IsFiniteSet(D), NEW k
    PROVE  IsFiniteSet({C \in SUBSET SUBSET D : IsPartition(D, k, C)})
  <1> DEFINE P == {C \in SUBSET SUBSET D : IsPartition(D, k, C)}
  <1>1. IsFiniteSet(SUBSET SUBSET D)
    BY FS_SUBSET
  <1>2. P \in SUBSET SUBSET SUBSET D
    OBVIOUS
  <1> HIDE DEF P
  <1>3. IsFiniteSet(P)
    BY <1>1, <1>2, FS_Subset
  <1> QED BY <1>3 DEF P

\* M is C with t moved from R to S, as a partition and in a sum over the clusters.
IsMove(D, k, f, C, R, S, t, M) ==
    /\ IsPartition(D, k, M)
    /\ SumFunctionOnSet(f, M) - SumFunctionOnSet(f, C)
            = f[R \ {t}] + f[S \cup {t}] - f[R] - f[S]

\* A time moved from a cluster of several to another leaves a partition, and takes
\* two terms out of a sum over the clusters for two others.
LEMMA MovingATime ==
    ASSUME NEW D, IsFiniteSet(D), NEW k \in Nat, NEW C, IsPartition(D, k, C),
           NEW R \in C, NEW S \in C, R # S, NEW t \in R, R # {t},
           NEW f, \A B \in (SUBSET D) \ {{}} : f[B] \in Int
    PROVE  \E M : IsMove(D, k, f, C, R, S, t, M)
  <1> DEFINE Rest == (C \ {R}) \ {S}
             less == R \ {t}
             more == S \cup {t}
             M == (Rest \cup {less}) \cup {more}
             Total(B) == SumFunctionOnSet(f, B)
  <1>1. /\ C \in SUBSET ((SUBSET D) \ {{}}) /\ Cardinality(C) = k /\ UNION C = D
        /\ \A A, B \in C : A # B => A \cap B = {}
    BY DEF IsPartition, kSubset
  <1>2. IsFiniteSet(C)
    BY <1>1, FS_SUBSET, FS_Subset
  <1>3. less # {} /\ less \in SUBSET D /\ more \in SUBSET D /\ more # {} /\ less # more
    BY <1>1
  <1>4. less \notin C
    <2>1. less # R /\ less \cap R # {}
      BY <1>3
    <2> QED BY <1>1, <2>1
  <1>5. more \notin C
    <2>1. t \notin S
      BY <1>1
    <2>2. more # S /\ more \cap S # {}
      BY <1>1, <2>1
    <2> QED BY <1>1, <2>2
  <1>6. /\ IsFiniteSet(C \ {R}) /\ Cardinality(C \ {R}) = k - 1
        /\ S \in C \ {R}
    BY <1>1, <1>2, FS_RemoveElement
  <1>7. IsFiniteSet(Rest) /\ Cardinality(Rest) = k - 2
    <2>1. IsFiniteSet(Rest) /\ Cardinality(Rest) = (k - 1) - 1
      <3> DEFINE Others == C \ {R}
      <3>1. IsFiniteSet(Others) /\ Cardinality(Others) = k - 1 /\ S \in Others
        BY <1>6
      <3> HIDE DEF Others
      <3>2. Cardinality(Others \ {S}) = Cardinality(Others) - 1 /\ IsFiniteSet(Others \ {S})
        BY <3>1, FS_RemoveElement
      <3> QED BY <3>1, <3>2 DEF Others
    <2> QED BY <2>1
  <1>8. less \notin Rest /\ more \notin Rest \cup {less}
    BY <1>3, <1>4, <1>5
  <1>9. IsFiniteSet(Rest \cup {less}) /\ Cardinality(Rest \cup {less}) = k - 1
    <2>1. IsFiniteSet(Rest \cup {less}) /\ Cardinality(Rest \cup {less}) = (k - 2) + 1
      <3> HIDE DEF Rest, less
      <3> QED BY <1>7, <1>8, FS_AddElement
    <2> QED BY <2>1
  <1>10. Cardinality(M) = k
    <2>1. Cardinality(M) = (k - 1) + 1
      <3> HIDE DEF Rest, less, more
      <3> QED BY <1>8, <1>9, FS_AddElement
    <2> QED BY <2>1
  <1>11. M \in SUBSET ((SUBSET D) \ {{}}) /\ UNION M = D
    <2>1. M \in SUBSET ((SUBSET D) \ {{}})
      BY <1>1, <1>3
    <2>2. less \cup more = R \cup S
      OBVIOUS
    <2>3. C = Rest \cup {R, S} /\ M = Rest \cup {less, more}
      OBVIOUS
    <2>4. UNION M = UNION C
      <3> HIDE DEF Rest, less, more, M
      <3> QED BY <2>2, <2>3
    <2> QED BY <1>1, <2>1, <2>4
  <1>12. \A A, B \in M : A # B => A \cap B = {}
    <2>1. less \cap more = {}
      BY <1>1
    <2>2. \A A \in Rest : A \in C /\ A \cap R = {} /\ A \cap S = {}
      BY <1>1
    <2>3. \A A \in Rest : A \cap less = {} /\ A \cap more = {}
      BY <2>2
    <2> HIDE DEF less, more
    <2> QED BY <1>1, <2>1, <2>2, <2>3
  <1>13. IsPartition(D, k, M)
    BY <1>10, <1>11, <1>12 DEF IsPartition, kSubset
  <1>14. /\ \A B \in C : f[B] \in Int
         /\ f[R] \in Int /\ f[S] \in Int /\ f[less] \in Int /\ f[more] \in Int
    BY <1>1, <1>3
  <1>15. Total(C) = f[R] + Total(C \ {R})
    BY <1>2, <1>14, SumTakesOut
  <1>16. Total(C \ {R}) = f[S] + Total(Rest)
    BY <1>6, <1>14, SumTakesOut
  <1>17. \A B \in Rest : f[B] \in Int
    BY <1>14
  <1>18. Total(Rest \cup {less}) = Total(Rest) + f[less]
    <2> HIDE DEF Rest, less
    <2> QED BY <1>7, <1>8, <1>14, <1>17, SumPutsIn
  <1>19. Total(M) = Total(Rest \cup {less}) + f[more]
    <2> HIDE DEF Rest, less, more
    <2> QED BY <1>8, <1>9, <1>14, <1>17, SumPutsIn
  <1>20. Total(Rest) \in Int
    <2> HIDE DEF Rest
    <2> QED BY <1>7, <1>17, SumIsInt
  <1>21. Total(M) - Total(C) = f[less] + f[more] - f[R] - f[S]
    <2> HIDE DEF Rest, less, more, M, Total
    <2> QED BY <1>14, <1>15, <1>16, <1>18, <1>19, <1>20
  <1> QED BY <1>13, <1>21 DEF IsMove

\* The weight and the sum of a cluster, and of one with a time less or more.
LEMMA ClusterOfTimes ==
    ASSUME NEW obs, IsObservation(obs), NEW S \in SUBSET DOMAIN obs
    PROVE  /\ Weight(obs, S) \in Nat /\ Sum(obs, S) \in Int
           /\ S # {} => Weight(obs, S) > 0
           /\ \A t \in S : /\ Weight(obs, S \ {t}) = Weight(obs, S) - obs[t]
                           /\ Sum(obs, S \ {t}) = Sum(obs, S) - t * obs[t]
  <1> DEFINE f == [t \in DOMAIN obs |-> t * obs[t]]
  <1>1. IsFiniteSet(S)
    BY FS_Subset DEF IsObservation
  <1>2. \A t \in S : t \in Int /\ obs[t] \in Nat /\ obs[t] > 0
    BY DEF IsObservation
  <1>3. \A t \in S : f[t] = t * obs[t] /\ f[t] \in Int /\ obs[t] \in Int
    BY <1>2
  <1>4. \A T : Sum(obs, T) = SumFunctionOnSet(f, T)
    BY DEF Sum
  <1> HIDE DEF f
  <1>5. Weight(obs, S) \in Nat /\ Sum(obs, S) \in Int
    BY <1>1, <1>2, <1>3, <1>4, SumIsNat, SumIsInt DEF Weight
  <1>6. ASSUME S # {} PROVE Weight(obs, S) > 0
    <2>1. PICK t \in S : TRUE
      BY <1>6
    <2>2. Weight(obs, S) \in Nat \ {0}
      BY <1>1, <1>2, <2>1, SumIsPositive DEF Weight
    <2> QED BY <2>2
  <1>7. ASSUME NEW t \in S
        PROVE  /\ Weight(obs, S \ {t}) = Weight(obs, S) - obs[t]
               /\ Sum(obs, S \ {t}) = Sum(obs, S) - t * obs[t]
    <2>1. IsFiniteSet(S \ {t}) /\ \A u \in S \ {t} : f[u] \in Int /\ obs[u] \in Int
      BY <1>1, <1>3, FS_RemoveElement
    <2>2. Weight(obs, S) = obs[t] + Weight(obs, S \ {t})
      BY <1>1, <1>3, SumTakesOut DEF Weight
    <2>3. Sum(obs, S) = f[t] + Sum(obs, S \ {t})
      BY <1>1, <1>3, <1>4, SumTakesOut
    <2>4. Weight(obs, S \ {t}) \in Int /\ Sum(obs, S \ {t}) \in Int
      BY <1>4, <2>1, SumIsInt DEF Weight
    <2> QED BY <1>3, <2>2, <2>3, <2>4
  <1> QED BY <1>5, <1>6, <1>7

\* The square of a sum over its weight, by the offset u of a time from the centre.
LEMMA SquareByOffset ==
    ASSUME NEW t \in Int, NEW u \in Int, NEW A \in Int, NEW m \in Int
    PROVE  (t * A - u) * (t * A - u) * m
              = (t * t * A) * (A * m) - (2 * t * u) * (A * m) + u * u * m
  <1>1. (t * A - u) * (t * A - u) = t * t * A * A - 2 * t * u * A + u * u
    OBVIOUS
  <1> DEFINE a == t * t * A * A
             b == 2 * t * u * A
             c == u * u
  <1>2. a \in Int /\ b \in Int /\ c \in Int
    OBVIOUS
  <1>3. (a - b + c) * m = a * m - b * m + c * m
    <2> HIDE DEF a, b, c
    <2> QED BY <1>2
  <1>4. a * m = (t * t * A) * (A * m) /\ b * m = (2 * t * u) * (A * m)
    OBVIOUS
  <1> QED BY <1>1, <1>3, <1>4

\* A positive factor cancels from an inequality that is strict.
LEMMA CancelStrict ==
    ASSUME NEW a \in Int, NEW b \in Int, NEW w \in Nat \ {0}, w * a < w * b
    PROVE  a < b
  <1>1. SUFFICES ASSUME b <= a PROVE FALSE
    OBVIOUS
  <1>2. w * b <= w * a
    BY <1>1
  <1>3. w * a \in Int /\ w * b \in Int
    OBVIOUS
  <1> QED BY <1>2, <1>3

LEMMA TimesStrict ==
    ASSUME NEW a \in Int, NEW b \in Int, NEW w \in Nat \ {0}, a < b
    PROVE  w * a < w * b
  <1>1. w * (b - a) > 0
    OBVIOUS
  <1>2. w * (b - a) = w * b - w * a /\ w * a \in Int /\ w * b \in Int
    OBVIOUS
  <1> QED BY <1>1, <1>2

\* A time is taken from a cluster of weight A, whose centre it is U / A away from,
\* to one of weight B that is V / B away, and nearer.  What the first cluster is better
\* for outweighs what the second is worse for: m and n are Q over its weight.
LEMMA NearerIsBetter ==
    ASSUME NEW A \in Nat \ {0}, NEW B \in Nat \ {0}, NEW w \in Nat \ {0}, w < A,
           NEW Q \in Nat \ {0},
           NEW mA \in Nat, NEW nA \in Nat, Q = A * mA, Q = (A - w) * nA,
           NEW mB \in Nat, NEW nB \in Nat, Q = B * mB, Q = (B + w) * nB,
           NEW U \in Nat, NEW V \in Nat, V * A < U * B
    PROVE  (V * V) * (mB - nB) < (U * U) * (nA - mA)
  <1> DEFINE x == B * (U * U)
             y == A * (V * V)
  <1>1. /\ x \in Nat /\ y \in Nat /\ A * B \in Nat \ {0} /\ U * B \in Nat /\ V * A \in Nat
        /\ U * U \in Nat /\ V * V \in Nat
    OBVIOUS
  <1>2. mA <= nA /\ nB <= mB
    <2>1. w * nA \in Nat /\ w * nB \in Nat /\ A * nA \in Int /\ B * nB \in Int
      OBVIOUS
    <2>2. A * nA = Q + w * nA /\ B * nB = Q - w * nB
      <3>1. (A - w) * nA = A * nA - w * nA /\ (B + w) * nB = B * nB + w * nB
        OBVIOUS
      <3> QED BY <2>1, <3>1
    <2>3. A * mA <= A * nA /\ B * nB <= B * mB
      BY <2>1, <2>2
    <2> QED BY <2>3, Cancel
  <1>3. y * mB < x * mA
    <2>1. (V * A) * (V * A) < (U * B) * (U * B)
      <3> DEFINE p == V * A
                 q == U * B
      <3>1. p \in Nat /\ q \in Nat /\ p < q
        OBVIOUS
      <3> HIDE DEF p, q
      <3>2. p * p <= p * q /\ p * q < q * q
        <4>1. p * (q - p) >= 0 /\ p * (q - p) = p * q - p * p
          BY <3>1
        <4>2. (q - p) * q > 0 /\ (q - p) * q = q * q - p * q
          BY <3>1
        <4>3. p * q \in Int /\ p * p \in Int /\ q * q \in Int
          BY <3>1
        <4> QED BY <4>1, <4>2, <4>3
      <3>3. p * q \in Int /\ p * p \in Int /\ q * q \in Int
        BY <3>1
      <3>4. p * p < q * q
        BY <3>2, <3>3
      <3> QED BY <3>4 DEF p, q
    <2>2. Q * ((V * A) * (V * A)) < Q * ((U * B) * (U * B))
      <3>1. (V * A) * (V * A) \in Int /\ (U * B) * (U * B) \in Int
        OBVIOUS
      <3> QED BY <2>1, <3>1, TimesStrict
    <2>3. Q * ((V * A) * (V * A)) = (A * B) * (y * mB)
      <3>1. (B * mB) * ((V * A) * (V * A)) = (A * B) * (y * mB)
        OBVIOUS
      <3> QED BY <3>1
    <2>4. Q * ((U * B) * (U * B)) = (A * B) * (x * mA)
      <3>1. (A * mA) * ((U * B) * (U * B)) = (A * B) * (x * mA)
        OBVIOUS
      <3> QED BY <3>1
    <2>5. y * mB \in Int /\ x * mA \in Int
      BY <1>1
    <2> HIDE DEF x, y
    <2>6. (A * B) * (y * mB) < (A * B) * (x * mA)
      BY <2>2, <2>3, <2>4
    <2> QED BY <1>1, <2>5, <2>6, CancelStrict
  <1>4. y * nB < x * nA
    <2> HIDE DEF x, y
    <2>1. y * nB <= y * mB /\ x * mA <= x * nA
      BY <1>1, <1>2
    <2>2. y * nB \in Int /\ y * mB \in Int /\ x * mA \in Int /\ x * nA \in Int
      BY <1>1
    <2> QED BY <1>3, <2>1, <2>2
  <1>5. w * nA = A * (nA - mA) /\ w * nB = B * (mB - nB)
    <2>1. (A - w) * nA = A * nA - w * nA /\ (B + w) * nB = B * nB + w * nB
      OBVIOUS
    <2>2. A * (nA - mA) = A * nA - A * mA /\ B * (mB - nB) = B * mB - B * nB
      OBVIOUS
    <2>3. A * nA \in Int /\ w * nA \in Int /\ B * nB \in Int /\ w * nB \in Int
          /\ A * mA \in Int /\ B * mB \in Int
      OBVIOUS
    <2> QED BY <2>1, <2>2, <2>3
  <1>6. (A * B) * ((V * V) * (mB - nB)) < (A * B) * ((U * U) * (nA - mA))
    <2>1. w * (y * nB) < w * (x * nA)
      <3>1. y * nB \in Int /\ x * nA \in Int
        <4> HIDE DEF x, y
        <4> QED BY <1>1
      <3> HIDE DEF x, y
      <3> QED BY <1>4, <3>1, TimesStrict
    <2>2. w * (y * nB) = y * (w * nB) /\ w * (x * nA) = x * (w * nA)
      <3> HIDE DEF x, y
      <3> QED BY <1>1
    <2>3. y * (B * (mB - nB)) = (A * B) * ((V * V) * (mB - nB))
      OBVIOUS
    <2>4. x * (A * (nA - mA)) = (A * B) * ((U * U) * (nA - mA))
      OBVIOUS
    <2> HIDE DEF x, y
    <2> QED BY <1>5, <2>1, <2>2, <2>3, <2>4
  <1>7. (V * V) * (mB - nB) \in Int /\ (U * U) * (nA - mA) \in Int
    OBVIOUS
  <1> HIDE DEF x, y
  <1> QED BY <1>1, <1>6, <1>7, CancelStrict

\* What is added up over the clusters: share is what Q is over their weights.
Gains(obs, share) ==
    [B \in (SUBSET DOMAIN obs) \ {{}} |-> Sum(obs, B) * Sum(obs, B) * share[B]]

IsShare(obs, Q, share) ==
    /\ Q \in Nat \ {0}
    /\ \A B \in (SUBSET DOMAIN obs) \ {{}} : share[B] \in Nat /\ Q = Weight(obs, B) * share[B]

LEMMA ShareExists ==
    ASSUME NEW obs, IsObservation(obs)
    PROVE  \E Q, share : IsShare(obs, Q, share)
  <1> DEFINE Blocks == (SUBSET DOMAIN obs) \ {{}}
             weight == [B \in Blocks |-> Weight(obs, B)]
             W == {weight[B] : B \in Blocks}
  <1>1. IsFiniteSet(Blocks)
    <2>1. IsFiniteSet(SUBSET DOMAIN obs) /\ Blocks \in SUBSET SUBSET DOMAIN obs
      BY FS_SUBSET DEF IsObservation
    <2> HIDE DEF Blocks
    <2> QED BY <2>1, FS_Subset
  <1>2. \A B \in Blocks : Weight(obs, B) \in Nat \ {0}
    BY ClusterOfTimes
  <1>3. W \subseteq Nat \ {0} /\ \A B \in Blocks : weight[B] = Weight(obs, B) /\ weight[B] \in W
    <2> HIDE DEF Blocks
    <2> QED BY <1>2
  <1>4. DOMAIN weight = Blocks
    OBVIOUS
  <1> HIDE DEF Blocks, weight
  <1>5. IsFiniteSet(W)
    BY <1>1, <1>4, ImageIsFinite
  <1> HIDE DEF W
  <1>6. PICK Q \in Nat \ {0} : \A x \in W : \E m \in Nat : Q = x * m
    BY <1>3, <1>5, CommonMultipleExists
  <1> DEFINE share == [B \in Blocks |-> CHOOSE m \in Nat : Q = Weight(obs, B) * m]
  <1>7. \A B \in Blocks : \E m \in Nat : Q = Weight(obs, B) * m
    BY <1>3, <1>6
  <1>8. \A B \in Blocks : share[B] \in Nat /\ Q = Weight(obs, B) * share[B]
    BY <1>7
  <1> HIDE DEF share
  <1>9. IsShare(obs, Q, share)
    BY <1>6, <1>8 DEF IsShare, Blocks
  <1> QED BY <1>9

\* Moving a time to a nearer centre gains.
LEMMA MovingGains ==
    ASSUME NEW obs, IsObservation(obs), NEW Q, NEW share, IsShare(obs, Q, share),
           NEW R \in (SUBSET DOMAIN obs) \ {{}}, NEW S \in (SUBSET DOMAIN obs) \ {{}},
           R \cap S = {}, NEW t \in R, R # {t}, ~Nearer(obs, t, R, S)
    PROVE  LET f == Gains(obs, share)
           IN  f[R \ {t}] + f[S \cup {t}] - f[R] - f[S] > 0
  <1> DEFINE less == R \ {t}
             more == S \cup {t}
             w == obs[t]
             A == Weight(obs, R)
             B == Weight(obs, S)
             a == Sum(obs, R)
             b == Sum(obs, S)
             u == t * A - a
             v == t * B - b
             U == IF t * A >= a THEN t * A - a ELSE a - t * A
             V == IF t * B >= b THEN t * B - b ELSE b - t * B
             f == Gains(obs, share)
  <1>1. /\ less \in (SUBSET DOMAIN obs) \ {{}} /\ more \in (SUBSET DOMAIN obs) \ {{}}
        /\ t \in more /\ more \ {t} = S
    OBVIOUS
  <1>2. t \in Int /\ w \in Nat \ {0}
    BY DEF IsObservation
  <1>3. A \in Nat \ {0} /\ B \in Nat \ {0} /\ a \in Int /\ b \in Int
    BY ClusterOfTimes
  <1>4. Weight(obs, less) = A - w /\ Sum(obs, less) = a - t * w
    BY ClusterOfTimes
  <1>5. Weight(obs, less) > 0
    <2> HIDE DEF less
    <2> QED BY <1>1, ClusterOfTimes
  <1>6. Weight(obs, more) = B + w /\ Sum(obs, more) = b + t * w
    <2>1. /\ Weight(obs, more) \in Nat /\ Sum(obs, more) \in Int
          /\ Weight(obs, more \ {t}) = Weight(obs, more) - w
          /\ Sum(obs, more \ {t}) = Sum(obs, more) - t * w
      <3> HIDE DEF more
      <3> QED BY <1>1, ClusterOfTimes
    <2>2. t * w \in Int
      BY <1>2
    <2> HIDE DEF w, more
    <2> QED BY <1>1, <1>2, <2>1, <2>2
  <1> DEFINE mA == share[R]
             nA == share[less]
             mB == share[S]
             nB == share[more]
  <1>7. /\ Q \in Nat \ {0} /\ mA \in Nat /\ nA \in Nat /\ mB \in Nat /\ nB \in Nat
        /\ Q = A * mA /\ Q = (A - w) * nA /\ Q = B * mB /\ Q = (B + w) * nB
    <2> HIDE DEF less, more
    <2> QED BY <1>1, <1>4, <1>6 DEF IsShare
  <1>8. V * A < U * B
    <2>1. ~(U * B <= V * A)
      BY DEF Nearer
    <2>2. U \in Int /\ V \in Int
      <3>1. t * A \in Int /\ t * B \in Int
        <4> HIDE DEF A, B
        <4> QED BY <1>2, <1>3
      <3> HIDE DEF A, B, a, b
      <3> QED BY <1>3, <3>1
    <2>3. U * B \in Int /\ V * A \in Int
      <3> HIDE DEF U, V, A, B
      <3> QED BY <1>3, <2>2
    <2> HIDE DEF U, V, A, B
    <2> QED BY <2>1, <2>3
  <1>9. /\ f[R] = a * a * mA /\ f[less] = (a - t * w) * (a - t * w) * nA
        /\ f[S] = b * b * mB /\ f[more] = (b + t * w) * (b + t * w) * nB
    <2> HIDE DEF less, more
    <2> QED BY <1>1, <1>4, <1>6 DEF Gains
  <1>10. w < A
    <2> HIDE DEF less, w, A
    <2> QED BY <1>2, <1>3, <1>4, <1>5
  <1> HIDE DEF less, more, w, A, B, a, b, mA, nA, mB, nB, f
  <1>11. /\ u \in Int /\ v \in Int /\ U \in Nat /\ V \in Nat
         /\ U * U = u * u /\ V * V = v * v
    <2>1. t * A \in Int /\ t * B \in Int
      BY <1>2, <1>3
    <2>2. u \in Int /\ v \in Int
      BY <1>3, <2>1
    <2>3. (U = u \/ U = -u) /\ (V = v \/ V = -v) /\ U \in Nat /\ V \in Nat
      BY <1>3, <2>1
    <2> HIDE DEF u, v, U, V
    <2>4. (-u) * (-u) = u * u /\ (-v) * (-v) = v * v
      BY <2>2
    <2> QED BY <2>2, <2>3, <2>4
  <1>12. a = t * A - u /\ b = t * B - v
         /\ a - t * w = t * (A - w) - u /\ b + t * w = t * (B + w) - v
    <2>1. t * A \in Int /\ t * B \in Int /\ t * w \in Int
      BY <1>2, <1>3
    <2>2. t * (A - w) = t * A - t * w /\ t * (B + w) = t * B + t * w
      BY <1>2, <1>3
    <2> QED BY <1>3, <2>1, <2>2
  <1> HIDE DEF u, v, U, V
  <1>13. /\ f[R] = (t * t * A) * Q - (2 * t * u) * Q + u * u * mA
         /\ f[S] = (t * t * B) * Q - (2 * t * v) * Q + v * v * mB
    <2>1. (t * A - u) * (t * A - u) * mA = (t * t * A) * (A * mA) - (2 * t * u) * (A * mA) + u * u * mA
      BY <1>2, <1>3, <1>7, <1>11, SquareByOffset
    <2>2. (t * B - v) * (t * B - v) * mB = (t * t * B) * (B * mB) - (2 * t * v) * (B * mB) + v * v * mB
      BY <1>2, <1>3, <1>7, <1>11, SquareByOffset
    <2> QED BY <1>7, <1>9, <1>12, <2>1, <2>2
  <1>14. /\ f[less] = (t * t * (A - w)) * Q - (2 * t * u) * Q + u * u * nA
         /\ f[more] = (t * t * (B + w)) * Q - (2 * t * v) * Q + v * v * nB
    <2> DEFINE A2 == A - w
               B2 == B + w
    <2>1. A2 \in Int /\ B2 \in Int
      BY <1>2, <1>3
    <2>2. /\ Q = A2 * nA /\ Q = B2 * nB
          /\ f[less] = (t * A2 - u) * (t * A2 - u) * nA
          /\ f[more] = (t * B2 - v) * (t * B2 - v) * nB
      BY <1>7, <1>9, <1>12
    <2> HIDE DEF A2, B2
    <2>3. (t * A2 - u) * (t * A2 - u) * nA = (t * t * A2) * (A2 * nA) - (2 * t * u) * (A2 * nA) + u * u * nA
      BY <1>2, <1>7, <1>11, <2>1, SquareByOffset
    <2>4. (t * B2 - v) * (t * B2 - v) * nB = (t * t * B2) * (B2 * nB) - (2 * t * v) * (B2 * nB) + v * v * nB
      BY <1>2, <1>7, <1>11, <2>1, SquareByOffset
    <2>5. /\ f[less] = (t * t * A2) * Q - (2 * t * u) * Q + u * u * nA
          /\ f[more] = (t * t * B2) * Q - (2 * t * v) * Q + v * v * nB
      BY <2>2, <2>3, <2>4
    <2> QED BY <2>5 DEF A2, B2
  <1>15. (V * V) * (mB - nB) < (U * U) * (nA - mA)
    BY <1>2, <1>3, <1>7, <1>8, <1>10, <1>11, NearerIsBetter
  <1>16. f[less] + f[more] - f[R] - f[S] = (U * U) * (nA - mA) - (V * V) * (mB - nB)
    <2> DEFINE x == (t * t) * Q
               p == (2 * t * u) * Q
               q == (2 * t * v) * Q
               c == u * u
               d == v * v
    <2>1. x \in Int /\ p \in Int /\ q \in Int /\ c \in Int /\ d \in Int
      BY <1>2, <1>7, <1>11
    <2>2. /\ (t * t * A) * Q = x * A /\ (t * t * B) * Q = x * B
          /\ (t * t * (A - w)) * Q = x * (A - w) /\ (t * t * (B + w)) * Q = x * (B + w)
      <3> DEFINE s == t * t
                 y == A - w
                 z == B + w
      <3>1. s \in Int /\ y \in Int /\ z \in Int
        BY <1>2, <1>3
      <3> HIDE DEF s, y, z
      <3>2. /\ (s * A) * Q = (s * Q) * A /\ (s * B) * Q = (s * Q) * B
            /\ (s * y) * Q = (s * Q) * y /\ (s * z) * Q = (s * Q) * z
        BY <1>3, <1>7, <3>1
      <3> QED BY <3>2 DEF s, y, z
    <2>3. /\ f[R] = x * A - p + c * mA /\ f[S] = x * B - q + d * mB
          /\ f[less] = x * (A - w) - p + c * nA /\ f[more] = x * (B + w) - q + d * nB
      BY <1>13, <1>14, <2>2
    <2> HIDE DEF x, p, q, c, d
    <2>4. /\ x * (A - w) = x * A - x * w /\ x * (B + w) = x * B + x * w
          /\ c * (nA - mA) = c * nA - c * mA /\ d * (mB - nB) = d * mB - d * nB
      BY <1>2, <1>3, <1>7, <2>1
    <2>5. /\ x * A \in Int /\ x * B \in Int /\ x * w \in Int
          /\ c * mA \in Int /\ c * nA \in Int /\ d * mB \in Int /\ d * nB \in Int
      BY <1>2, <1>3, <1>7, <2>1
    <2>6. f[less] + f[more] - f[R] - f[S] = c * (nA - mA) - d * (mB - nB)
      BY <2>1, <2>3, <2>4, <2>5
    <2> QED BY <1>11, <2>6 DEF c, d
  <1>17. (U * U) * (nA - mA) \in Int /\ (V * V) * (mB - nB) \in Int
    BY <1>7, <1>11
  <1>18. f[less] + f[more] - f[R] - f[S] > 0
    BY <1>15, <1>16, <1>17
  <1> QED BY <1>18 DEF less, more, f

\* The best partition is one in which KMeans stops.
LEMMA ClusteringExists ==
    ASSUME NEW obs, IsObservation(obs), NEW k \in 1..Cardinality(DOMAIN obs)
    PROVE  Clusterings(obs, k) # {}
  <1> DEFINE D == DOMAIN obs
             P == {C \in SUBSET SUBSET D : IsPartition(D, k, C)}
  <1>1. IsFiniteSet(D) /\ k \in Nat
    BY FS_CardinalityType DEF IsObservation
  <1>2. PICK Q, share : IsShare(obs, Q, share)
    BY ShareExists
  <1> DEFINE f == Gains(obs, share)
             total == [C \in P |-> SumFunctionOnSet(f, C)]
             T == {total[C] : C \in P}
  <1>3. \A B \in (SUBSET D) \ {{}} : f[B] \in Int
    <2>1. ASSUME NEW B \in (SUBSET D) \ {{}} PROVE f[B] \in Int
      <3>1. Sum(obs, B) \in Int /\ share[B] \in Nat
        BY <1>2, ClusterOfTimes DEF IsShare
      <3>2. Sum(obs, B) * Sum(obs, B) * share[B] \in Int
        BY <3>1
      <3> QED BY <3>2 DEF Gains
    <2> QED BY <2>1
  <1>4. \A C : IsPartition(D, k, C) <=> C \in P
    BY DEF IsPartition, kSubset
  <1>5. IsFiniteSet(P) /\ P # {}
    <2>1. IsFiniteSet(P)
      BY <1>1, PartitionsAreFew
    <2>2. \E C : IsPartition(D, k, C)
      BY <1>1, PartitionExists
    <2> HIDE DEF P
    <2> QED BY <1>4, <2>1, <2>2
  <1>6. ASSUME NEW C \in P PROVE SumFunctionOnSet(f, C) \in Int
    <2>1. C \in SUBSET ((SUBSET D) \ {{}})
      BY <1>6 DEF IsPartition, kSubset
    <2>2. IsFiniteSet(C)
      BY <1>1, <2>1, FS_SUBSET, FS_Subset
    <2>3. \A B \in C : f[B] \in Int
      BY <1>3, <2>1
    <2> HIDE DEF f
    <2> QED BY <2>2, <2>3, SumIsInt
  <1> HIDE DEF P, f
  <1>7. PICK C \in P : \A M \in P : SumFunctionOnSet(f, M) <= SumFunctionOnSet(f, C)
    <2>1. DOMAIN total = P /\ \A C \in P : total[C] = SumFunctionOnSet(f, C)
      OBVIOUS
    <2> HIDE DEF total
    <2>2. IsFiniteSet(T)
      BY <1>5, <2>1, ImageIsFinite
    <2>3. T # {} /\ T \in SUBSET Int /\ \A M \in P : SumFunctionOnSet(f, M) \in T
      BY <1>5, <1>6, <2>1
    <2>4. PICK m \in T : \A x \in T : x <= m
      <3> HIDE DEF T
      <3> QED BY <2>2, <2>3, GreatestExists
    <2>5. PICK C \in P : m = SumFunctionOnSet(f, C)
      BY <2>1, <2>4
    <2> HIDE DEF T
    <2> QED BY <2>3, <2>4, <2>5
  <1>8. IsPartition(D, k, C)
    BY <1>4
  <1>9. C \in SUBSET ((SUBSET D) \ {{}}) /\ \A A, B \in C : A # B => A \cap B = {}
    BY <1>8 DEF IsPartition, kSubset
  <1>10. ASSUME NEW R \in C, NEW S \in C, NEW t \in R
         PROVE  Nearer(obs, t, R, S)
    <2>1. /\ R \in (SUBSET D) \ {{}} /\ S \in (SUBSET D) \ {{}}
          /\ Weight(obs, R) \in Nat \ {0} /\ Weight(obs, S) \in Nat \ {0}
          /\ Sum(obs, R) \in Int /\ Sum(obs, S) \in Int
          /\ t \in Int /\ obs[t] \in Nat \ {0}
      <3>1. R \in (SUBSET D) \ {{}} /\ S \in (SUBSET D) \ {{}} /\ t \in D
        BY <1>9
      <3> QED BY <3>1, ClusterOfTimes DEF IsObservation
    <2>2. CASE R = S
      BY <2>1, <2>2 DEF Nearer
    <2>3. CASE R = {t}
      <3>1. Weight(obs, R) = obs[t]
        BY <2>1, <2>3, SumOfOne DEF Weight
      <3>2. Sum(obs, R) = t * obs[t]
        <4> DEFINE g == [u \in DOMAIN obs |-> u * obs[u]]
        <4>1. g[t] = t * obs[t] /\ t * obs[t] \in Int
          BY <2>1
        <4>2. Sum(obs, R) = SumFunctionOnSet(g, R)
          BY DEF Sum
        <4> HIDE DEF g
        <4> QED BY <2>3, <4>1, <4>2, SumOfOne
      <3> DEFINE x == t * Weight(obs, S)
                 off == IF x >= Sum(obs, S) THEN x - Sum(obs, S) ELSE Sum(obs, S) - x
      <3>3. x \in Int
        BY <2>1
      <3>4. off \in Nat
        <4> HIDE DEF x
        <4> QED BY <2>1, <3>3
      <3>5. t * obs[t] \in Int
        BY <2>1
      <3>6. 0 * Weight(obs, S) = 0 /\ off * Weight(obs, R) \in Nat
        <4> HIDE DEF off
        <4> QED BY <2>1, <3>4
      <3>7. 0 * Weight(obs, S) <= off * Weight(obs, R)
        <4> HIDE DEF off
        <4> QED BY <3>6
      <3> QED BY <3>1, <3>2, <3>5, <3>7 DEF Nearer
    <2>4. CASE R # S /\ R # {t}
      <3>1. SUFFICES ASSUME ~Nearer(obs, t, R, S) PROVE FALSE
        OBVIOUS
      <3>2. f[R \ {t}] + f[S \cup {t}] - f[R] - f[S] > 0
        <4>1. R \cap S = {}
          BY <1>9, <2>4
        <4> QED BY <1>2, <2>1, <2>4, <3>1, <4>1, MovingGains DEF f
      <3>3. PICK M : /\ IsPartition(D, k, M)
                    /\ SumFunctionOnSet(f, M) - SumFunctionOnSet(f, C)
                          = f[R \ {t}] + f[S \cup {t}] - f[R] - f[S]
        <4>1. \E M : IsMove(D, k, f, C, R, S, t, M)
          <5> HIDE DEF D
          <5> QED BY <1>1, <1>3, <1>8, <2>4, MovingATime
        <4> QED BY <4>1 DEF IsMove
      <3>4. M \in P
        BY <1>4, <3>3
      <3>5. SumFunctionOnSet(f, M) \in Int /\ SumFunctionOnSet(f, C) \in Int
        BY <1>6, <3>4
      <3>6. SumFunctionOnSet(f, M) <= SumFunctionOnSet(f, C)
        BY <1>7, <3>4
      <3> QED BY <3>2, <3>3, <3>5, <3>6
    <2> QED BY <2>2, <2>3, <2>4
  <1>11. C \in Clusterings(obs, k)
    BY <1>8, <1>10 DEF IsPartition, Clusterings
  <1> QED BY <1>11

\* KMeans is never asked for no cluster, or for more than there are different times,
\* and for what it is asked it has an answer (_cluster_mjds).
THEOREM ClusteringIsPossible == Spec => []ClustersAreFeasible
  <1>1. ASSUME NEW obs, IsObservation(obs), NEW thresh
        PROVE  /\ NumClusters(obs, thresh) \in 1..Cardinality(DOMAIN obs)
               /\ Clusterings(obs, NumClusters(obs, thresh)) # {}
    BY <1>1, ClustersAreInRange, ClusteringExists
  <1>2. InputInv => ClustersAreFeasible
    BY <1>1, EpochInputs DEF ClustersAreFeasible
  <1> QED BY <1>2, InputsInvariant, PTL

================================================================================
