-------------------------------- MODULE SkyGrid --------------------------------
(***************************************************************************)
(* One axis of generate_tile_tessellation: how many tiles it lays along a  *)
(* declination, or along the right ascension of one declination, and what  *)
(* each of them covers.  Lengths are whole multiples of a small angle; the *)
(* pitch of the grid is a fraction, so positions are kept times its        *)
(* denominator.                                                            *)
(*                                                                         *)
(*   length     of the axis, 180 or 360 degrees                            *)
(*   threshold  taken off it so that the last tile is not the first again  *)
(*   side       of a tile without its overlap, on the sphere               *)
(*   step       that side along the axis: wider than side, in right        *)
(*              ascension, by the cosine of the declination                *)
(*   overlap    along the axis, half of it on either side of a tile        *)
(*   wraps      the end of the axis is its beginning: right ascension does *)
(***************************************************************************)
EXTENDS Integers

\* The last tile ends here: the side is taken off as well as the threshold.
Span(g) == g.length - g.threshold - g.side

\* math.modf(range / step), and the number of tiles: one more than whole steps,
\* or only as many.
WholeSteps(g) == Span(g) \div g.step
TilesOfWholeSteps(g) == IF WholeSteps(g) = 0 THEN 1 ELSE WholeSteps(g)
Tiles(g) == WholeSteps(g) + 1

\* What the surplus of the last step is spread over.
Gaps(g) == IF WholeSteps(g) = 0 THEN 1 ELSE WholeSteps(g)

\* Gaps times the distance from a tile to the next: step - (step - rest) / Gaps.
Pitch(g) == (Gaps(g) * g.step) - (g.step - (Span(g) % g.step))

\* 2 * Gaps times the ends of tile i, with its overlap.
Left(g, i) == 2 * i * Pitch(g) - Gaps(g) * g.overlap
Right(g, i) == 2 * i * Pitch(g) + Gaps(g) * (2 * g.step + g.overlap)

\* y is 2 * Gaps times a place on the axis, drawn out as a line.
OnTile(g, y) == \E i \in 0..(Tiles(g) - 1) : Left(g, i) <= y /\ y <= Right(g, i)

\* All of the axis, in the measure of y.
Turn(g) == 2 * Gaps(g) * g.length

\* The corners of a tile are coordinates on the sky: a tile that is pushed over
\* an end of the right ascension comes out at the other.
Covered(g, y) ==
    \/ OnTile(g, y)
    \/ g.wraps /\ (OnTile(g, y - Turn(g)) \/ OnTile(g, y + Turn(g)))

================================================================================
