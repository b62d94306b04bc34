------------------------------ MODULE Rectangles -------------------------------
(***************************************************************************)
(* RectangleD and IGeometry of layout-base: what it takes to separate two  *)
(* boxes that overlap, and where the line between the centres of two boxes *)
(* that do not leaves each of them.  Coordinates are integers, y grows     *)
(* downwards, and sizes are positive; what the code divides is a fraction, *)
(* <<numerator, denominator>> with a positive denominator.                 *)
(***************************************************************************)
EXTENDS Integers

Boxed == [x : Int, y : Int, w : Nat \ {0}, h : Nat \ {0}]

Right(r)  == r.x + r.w
Bottom(r) == r.y + r.h

\* The extent of a box along one axis.
XSpan(r) == [lo |-> r.x, hi |-> Right(r)]
YSpan(r) == [lo |-> r.y, hi |-> Bottom(r)]

Meet(s, t) == t.lo <= s.hi /\ s.lo <= t.hi
Shift(s, d) == [lo |-> s.lo + d, hi |-> s.hi + d]

\* Boxes that only touch intersect.
Intersects(a, b) == Meet(XSpan(a), XSpan(b)) /\ Meet(YSpan(a), YSpan(b))

Smaller(i, j) == IF i <= j THEN i ELSE j
Larger(i, j)  == IF i <= j THEN j ELSE i
Size(i)       == IF i < 0 THEN -i ELSE i

\* Twice the way from the centre of s to the centre of t.
Between(s, t) == (t.lo + t.hi) - (s.lo + s.hi)

(***************************************************************************)
(* calcSeparationAmount, of two boxes that intersect.                      *)
(***************************************************************************)
\* Mutant: a span inside the other is not moved out of it.
OverlapPart(s, t) == Smaller(s.hi, t.hi) - Larger(s.lo, t.lo)

Overlap(s, t) ==
  Smaller(s.hi, t.hi) - Larger(s.lo, t.lo)
    + (IF s.lo <= t.lo /\ t.hi <= s.hi THEN Smaller(t.lo - s.lo, s.hi - t.hi)
       ELSE IF t.lo <= s.lo /\ s.hi <= t.hi THEN Smaller(s.lo - t.lo, t.hi - s.hi)
       ELSE 0)

Away(s, t) == IF Between(s, t) > 0 THEN 1 ELSE -1

\* Whether the boxes go apart along x first: overlapAmount[0] < moveByX.
\* The slope of the line of the centres is 1 when they coincide.
Rise(a, b) == Size(Between(YSpan(a), YSpan(b)))
Run(a, b)  == Size(Between(XSpan(a), XSpan(b)))
GoesByX(a, b) ==
  LET ox == Overlap(XSpan(a), XSpan(b))
      oy == Overlap(YSpan(a), YSpan(b))
  IN IF Rise(a, b) = 0 /\ Run(a, b) = 0 THEN ox < oy ELSE ox * Rise(a, b) < oy * Run(a, b)

\* Twice overlapAmount: how far b is to move seen from a.  One of the two
\* ways is the whole overlap, the other follows the slope.
Pushed(s, t, buffer) == Away(s, t) * (Overlap(s, t) + 2 * buffer)
Along(s, t, num, den, buffer) == <<Away(s, t) * (num + 2 * buffer * den), den>>

Separation(a, b, buffer) ==
  LET X == <<XSpan(a), XSpan(b)>>
      Y == <<YSpan(a), YSpan(b)>>
      same == Rise(a, b) = 0 /\ Run(a, b) = 0
      rise == IF same THEN 1 ELSE Rise(a, b)
      run  == IF same THEN 1 ELSE Run(a, b)
  IN IF GoesByX(a, b)
     THEN [x |-> <<Pushed(X[1], X[2], buffer), 1>>,
           y |-> Along(Y[1], Y[2], Overlap(X[1], X[2]) * rise, run, buffer)]
     ELSE [x |-> Along(X[1], X[2], Overlap(Y[1], Y[2]) * run, rise, buffer),
           y |-> <<Pushed(Y[1], Y[2], buffer), 1>>]

(***************************************************************************)
(* getIntersection2: twice the point at which the line from the centre of r*)
(* to that of q leaves r.  1 to 4 are north, east, south and west.         *)
(***************************************************************************)
Fraction(n, d) == IF d < 0 THEN <<-n, -d>> ELSE <<n, d>>

\* Whether h / w, or its opposite, is above dy / dx.
SlopeAbove(sign, r, dx, dy) ==
  IF dx > 0 THEN sign * r.h * dx > dy * r.w ELSE sign * r.h * dx < dy * r.w

CardinalDirection(above, line) == IF above THEN line ELSE 1 + (line % 4)

\* Mutant: the two downward quarters are swapped.
SideSwapped(r, dx, dy) ==
  CASE dx < 0 /\ dy < 0 -> CardinalDirection(SlopeAbove(1, r, dx, dy), 4)
    [] dx < 0 /\ dy > 0 -> CardinalDirection(SlopeAbove(1, r, dx, dy), 2)
    [] dx > 0 /\ dy < 0 -> CardinalDirection(SlopeAbove(-1, r, dx, dy), 1)
    [] OTHER            -> CardinalDirection(SlopeAbove(-1, r, dx, dy), 3)

Side(r, dx, dy) ==
  CASE dx < 0 /\ dy < 0 -> CardinalDirection(SlopeAbove(1, r, dx, dy), 4)
    [] dx < 0 /\ dy > 0 -> CardinalDirection(SlopeAbove(-1, r, dx, dy), 3)
    [] dx > 0 /\ dy < 0 -> CardinalDirection(SlopeAbove(-1, r, dx, dy), 1)
    [] OTHER            -> CardinalDirection(SlopeAbove(1, r, dx, dy), 2)

Corner(r, dx, dy) == Size(r.h * dx) = Size(r.w * dy)

\* The clip on one side of r, whose centre is half of (cx, cy).
ClipOn(r, side, dx, dy, cx, cy) ==
  CASE side = 1 -> [x |-> Fraction(cx * dy - r.h * dx, dy), y |-> <<2 * r.y, 1>>]
    [] side = 2 -> [x |-> <<2 * Right(r), 1>>, y |-> Fraction(cy * dx + r.w * dy, dx)]
    [] side = 3 -> [x |-> Fraction(cx * dy + r.h * dx, dy), y |-> <<2 * Bottom(r), 1>>]
    [] side = 4 -> [x |-> <<2 * r.x, 1>>, y |-> Fraction(cy * dx - r.w * dy, dx)]

Clip(r, q) ==
  LET dx == Between(XSpan(r), XSpan(q))
      dy == Between(YSpan(r), YSpan(q))
      cx == r.x + Right(r)
      cy == r.y + Bottom(r)
      edgeX == <<2 * (IF dx < 0 THEN r.x ELSE Right(r)), 1>>
      edgeY == <<2 * (IF dy < 0 THEN r.y ELSE Bottom(r)), 1>>
  IN IF dx = 0 THEN [x |-> <<cx, 1>>, y |-> edgeY]
     ELSE IF dy = 0 THEN [x |-> edgeX, y |-> <<cy, 1>>]
     ELSE IF Corner(r, dx, dy) THEN [x |-> edgeX, y |-> edgeY]
     ELSE ClipOn(r, Side(r, dx, dy), dx, dy, cx, cy)

\* Twice a clip point is on the border of twice the box.
OnBorder(p, r) ==
  /\ 2 * r.x * p.x[2] <= p.x[1] /\ p.x[1] <= 2 * Right(r) * p.x[2]
  /\ 2 * r.y * p.y[2] <= p.y[1] /\ p.y[1] <= 2 * Bottom(r) * p.y[2]
  /\ \/ p.x \in {<<2 * r.x, 1>>, <<2 * Right(r), 1>>}
     \/ p.y \in {<<2 * r.y, 1>>, <<2 * Bottom(r), 1>>}

\* The way from fraction p to fraction q, and its sign.
Way(p, q) == Fraction(q[1] * p[2] - p[1] * q[2], p[2] * q[2])
Square(i) == i * i
Sign(i)   == IF i > 0 THEN 1 ELSE IF i < 0 THEN -1 ELSE 0

\* Where a pushes b: apart when they intersect, else from clip to clip.
Repulsion(a, b, buffer) ==
  IF Intersects(a, b)
  THEN [x |-> Sign(Separation(a, b, buffer).x[1]), y |-> Sign(Separation(a, b, buffer).y[1])]
  ELSE [x |-> Sign(Way(Clip(a, b).x, Clip(b, a).x)[1]), y |-> Sign(Way(Clip(a, b).y, Clip(b, a).y)[1])]

\* Whether the connection of two boxes, clip to clip, is n long: its spring
\* is then at rest.
Long(a, b, n) ==
  LET dx == Way(Clip(a, b).x, Clip(b, a).x)
      dy == Way(Clip(a, b).y, Clip(b, a).y)
  IN Square(dx[1] * dy[2]) + Square(dy[1] * dx[2]) = Square(2 * n * dx[2] * dy[2])
================================================================================
