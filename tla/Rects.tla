------------------------------- MODULE Rects --------------------------------
(***************************************************************************)
(* The rectangles of metrics.c: both corners belong to a rectangle, and a  *)
(* rectangle whose second corner lies before the first one is empty.       *)
(***************************************************************************)
EXTENDS Integers, SequencesExt

Point == [x : Int, y : Int]
Rect  == [a : Point, b : Point]

max(i, j) == IF i > j THEN i ELSE j
min(i, j) == IF i < j THEN i ELSE j

RectAssign(ax, ay, bx, by) == [a |-> [x |-> ax, y |-> ay], b |-> [x |-> bx, y |-> by]]

PointInRect(p, r) == p.x >= r.a.x /\ p.y >= r.a.y /\ p.x <= r.b.x /\ p.y <= r.b.y

\* The rectangle nothing is in that the widgets assign.
Nowhere == RectAssign(0, 0, -1, -1)

\* The test _AddRectInList makes.
NonEmpty(r) == r.a.x <= r.b.x /\ r.a.y <= r.b.y

RectMove(r, p) == RectAssign(r.a.x + p.x, r.a.y + p.y, r.b.x + p.x, r.b.y + p.y)

RectOverlay(r, d) == ~(r.a.x > d.b.x \/ r.a.y > d.b.y \/ r.b.x < d.a.x \/ r.b.y < d.a.y)

RectIntersept(r, d) ==
  RectAssign(min(r.b.x, max(r.a.x, d.a.x)), min(r.b.y, max(r.a.y, d.a.y)),
             max(r.a.x, min(r.b.x, d.b.x)), max(r.a.y, min(r.b.y, d.b.y)))
-----------------------------------------------------------------------------
(***************************************************************************)
(* What is left of aa when bb is taken away: up to four rectangles, in the *)
(* order the macros add them.  HPref keeps whole rows above and below bb,  *)
(* VPref whole columns beside it.                                          *)
(***************************************************************************)
When(c, r) == IF c THEN <<r>> ELSE << >>

AddBminusAHPref(aa, bb) ==
  When(aa.a.x < bb.a.x, RectAssign(aa.a.x, max(aa.a.y, bb.a.y), bb.a.x - 1, min(bb.b.y, aa.b.y))) \o
  When(aa.a.y < bb.a.y, RectAssign(aa.a.x, aa.a.y, aa.b.x, bb.a.y - 1)) \o
  When(aa.b.x > bb.b.x, RectAssign(bb.b.x + 1, max(aa.a.y, bb.a.y), aa.b.x, min(bb.b.y, aa.b.y))) \o
  When(aa.b.y > bb.b.y, RectAssign(aa.a.x, bb.b.y + 1, aa.b.x, aa.b.y))

AddBminusAVPref(aa, bb) ==
  When(aa.a.x < bb.a.x, RectAssign(aa.a.x, aa.a.y, bb.a.x - 1, aa.b.y)) \o
  When(aa.a.y < bb.a.y, RectAssign(max(aa.a.x, bb.a.x), aa.a.y, min(aa.b.x, bb.b.x), bb.a.y - 1)) \o
  When(aa.b.x > bb.b.x, RectAssign(bb.b.x + 1, aa.a.y, aa.b.x, aa.b.y)) \o
  When(aa.b.y > bb.b.y, RectAssign(max(aa.a.x, bb.a.x), bb.b.y + 1, min(aa.b.x, bb.b.x), aa.b.y))
=============================================================================
