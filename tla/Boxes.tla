--------------------------------- MODULE Boxes ---------------------------------
(***************************************************************************)
(* The layout's boxes: two of the map's root graph and what is in them.    *)
(* Nothing in the first has a connection: it is a server, or a dummy that  *)
(* stands for several servers, whose members are tiled into rows and which *)
(* moves as one box.  The other is a server with two services that are     *)
(* connected, one of which was pruned and grows back beside the other.     *)
(* Cose says when each step is taken; here is where the boxes are.         *)
(*                                                                         *)
(* Forces have a direction and no size: a tick moves the two boxes apart   *)
(* or together, each by its part of one of Moves, as the forces on them    *)
(* point.  What is halved is even.                                         *)
(***************************************************************************)
EXTENDS Rectangles, FiniteSets, SequencesExt

CONSTANTS MemberLists, \* the sizes of the loose members, largest area first
          Labels,      \* the labels a tiled server may have: [w, h, hor, ver]
          Spots,       \* where a box may start
          Moves,       \* how far the two may move in a tick: [tiled, server]
          Ticks,       \* how many ticks there may be before the leaf grows
          Centres,     \* where the middle of the map may have been
          ServiceSize, LeafSize, ServerLabel,
          EdgeLength,  \* DEFAULT_EDGE_LENGTH
          Padding,     \* of a server
          TilePadding, \* between tiled services
          GraphMargin, \* DEFAULT_GRAPH_MARGIN
          Null

Sizes  == [w : Nat \ {0}, h : Nat \ {0}]
Points == Int \X Int

ASSUME BoxesAssumption ==
  /\ {EdgeLength, GraphMargin, TilePadding} \subseteq Nat \ {0} /\ EdgeLength % 2 = 0
  /\ {Padding, Ticks} \subseteq Nat
  /\ {ServiceSize, LeafSize} \subseteq Sizes
  /\ (ServiceSize.w - LeafSize.w) % 2 = 0 /\ (ServiceSize.h - LeafSize.h) % 2 = 0

\* A box that is tiled has members.
ASSUME TilingAssumption ==
  /\ MemberLists \subseteq Seq(Sizes) /\ <<>> \notin MemberLists
  /\ Labels \cup {ServerLabel} \subseteq
       [w : Nat, h : Nat, hor : {"none", "left", "center", "right"},
        ver : {"none", "top", "center", "bottom"}]
  /\ Spots \cup Centres \subseteq Points /\ Moves \subseteq [tiled : Points, server : Points]
  /\ Null \notin Labels \cup Boxed

VARIABLES members,  \* of the tiled box
          org,      \* how they are tiled
          label,    \* of the tiled server; Null of a dummy
          rect,     \* where the boxes are
          cells,    \* their cells in the grid
          space,    \* the root graph's bounds
          region,   \* the side the leaf grows on, and the counts of all sides
          tiles,    \* where the members end up
          centre,   \* where the middle of the map is to be
          ticks, phase

vars == <<members, org, label, rect, cells, space, region, tiles, centre, ticks, phase>>

Box == {"tiled", "server", "service", "leaf"}
Inner == {"service", "leaf"}
Present == IF rect["leaf"] = Null THEN {"tiled", "server", "service"} ELSE Box
Owner(k) == IF k \in Inner THEN "server" ELSE "root"

\* The sums of the first numbers of a sequence, from that of none on.
Sums(f) == LET s[n \in 0..Len(f)] == IF n = 0 THEN 0 ELSE s[n - 1] + f[n] IN s

(***************************************************************************)
(* Tiling.  An organization has the rows, each a sequence of members by    *)
(* number, their widths and heights, and its own width and height.  What   *)
(* is added to a row counts padding when it is not the row's first, and a  *)
(* row's height when it is not the first row.                              *)
(***************************************************************************)
MinWidth == 2 * Padding
NoRows == [rows |-> <<>>, rowWidth |-> <<>>, rowHeight |-> <<>>, width |-> 0, height |-> MinWidth]

\* The first of the rows of least, or of greatest, width.
ShortestRow(o) ==
  CHOOSE i \in DOMAIN o.rows : /\ o.rowWidth[i] = Min(ToSet(o.rowWidth))
                               /\ \A j \in 1..(i - 1) : o.rowWidth[j] # o.rowWidth[i]
LongestRow(o) ==
  CHOOSE i \in DOMAIN o.rows : /\ o.rowWidth[i] = Max(ToSet(o.rowWidth))
                               /\ \A j \in 1..(i - 1) : o.rowWidth[j] # o.rowWidth[i]

\* Whether a member goes into the shortest row: when it fits there, or when
\* the box then is closer to a square than with a row of its own.  A ratio
\* is <<height, width>>, and Squarer compares two of them.
Longer(p)  == <<Larger(p[1], p[2]), Smaller(p[1], p[2])>>
Squarer(p, q) == Longer(p)[1] * Longer(q)[2] < Longer(q)[1] * Longer(p)[2]

CanAddHorizontal(o, size) ==
  LET sri  == ShortestRow(o)
      with == o.rowWidth[sri] + TilePadding + size.w
      more == IF o.rowHeight[sri] < size.h /\ sri > 1
              THEN size.h + TilePadding - o.rowHeight[sri] ELSE 0
      stay == <<o.height + more, o.width>>
      new  == <<o.height + size.h + TilePadding, Larger(o.width, size.w)>>
  IN with <= o.width \/ Squarer(stay, new)

\* Mutant: the padding between two members of a row is forgotten.
InsertTight(o, i, size, k) ==
  LET new == k > Len(o.rows)
      w == IF new THEN MinWidth + size.w ELSE o.rowWidth[k] + size.w
      h == IF k > 1 THEN size.h + TilePadding ELSE size.h
      was == IF new THEN 0 ELSE o.rowHeight[k]
  IN [rows |-> IF new THEN Append(o.rows, <<i>>) ELSE [o.rows EXCEPT ![k] = Append(@, i)],
      rowWidth |-> IF new THEN Append(o.rowWidth, w) ELSE [o.rowWidth EXCEPT ![k] = w],
      rowHeight |-> IF new THEN Append(o.rowHeight, h) ELSE [o.rowHeight EXCEPT ![k] = Larger(@, h)],
      width |-> Larger(o.width, w), height |-> o.height + Larger(h - was, 0)]

InsertNodeToRow(o, i, size, k) ==
  LET new == k > Len(o.rows)
      w == IF new THEN MinWidth + size.w ELSE o.rowWidth[k] + TilePadding + size.w
      h == IF k > 1 THEN size.h + TilePadding ELSE size.h
      was == IF new THEN 0 ELSE o.rowHeight[k]
  IN [rows |-> IF new THEN Append(o.rows, <<i>>) ELSE [o.rows EXCEPT ![k] = Append(@, i)],
      rowWidth |-> IF new THEN Append(o.rowWidth, w) ELSE [o.rowWidth EXCEPT ![k] = w],
      rowHeight |-> IF new THEN Append(o.rowHeight, h) ELSE [o.rowHeight EXCEPT ![k] = Larger(@, h)],
      width |-> Larger(o.width, w), height |-> o.height + Larger(h - was, 0)]

\* shiftToLastRow, which is to move the last member of the longest row to the
\* last row where that makes the box smaller, compares the room there with the
\* width of a node, which it reads from a field that LNode does not have: a
\* comparison with undefined is false, and the organization stays as it is.
WidthField == Null
MoreThan(room, width) == width # Null /\ room > width + TilePadding

\* The rows once the last member of the longest goes to the last.
Shifted(o) ==
  [o.rows EXCEPT ![LongestRow(o)] = Front(@), ![Len(o.rows)] = Append(@, Last(o.rows[LongestRow(o)]))]

ShiftToLastRow(o) ==
  IF LongestRow(o) # Len(o.rows) /\ MoreThan(o.width - Last(o.rowWidth), WidthField)
  THEN [o EXCEPT !.rows = Shifted(o)] ELSE o

\* adjustLocations: row after row from the corner of the server's box.  A
\* label on the left, or a centred one that is wider, keeps its margin.
MarginLeft(o, l) ==
  CASE l.hor = "left" -> l.w
    [] l.hor = "center" /\ l.w > o.width -> (l.w - o.width) \div 2
    [] OTHER -> 0
MarginTop(o, l) ==
  CASE l.ver = "top" -> l.h
    [] l.ver = "center" /\ l.h > o.height -> (l.h - o.height) \div 2
    [] OTHER -> 0

\* Mutant: the corner is that of the box as it was sized.
TilesCornerAsSized(o, l, r) ==
  [x |-> Padding - (o.width \div 2), y |-> Padding - (o.height \div 2)]

TilesCorner(o, l, r) ==
  [x |-> r.x + Padding + MarginLeft(o, l), y |-> r.y + Padding + MarginTop(o, l)]

DummyCorner(r) == [x |-> r.x + Padding, y |-> r.y + Padding]

\* Mutant: a row is as high as its last member.
RowHeightLast(o, sizes, k) == sizes[Last(o.rows[k])].h

RowHeight(o, sizes, k) == Max({sizes[i].h : i \in ToSet(o.rows[k])})

\* What the members of row k, and the rows, take of the way along them.
Widths(o, sizes, k) == [j \in DOMAIN o.rows[k] |-> sizes[o.rows[k][j]].w + TilePadding]
Heights(o, sizes)   == [k \in DOMAIN o.rows |-> RowHeight(o, sizes, k) + TilePadding]

Located(o, sizes, corner) ==
  [i \in DOMAIN sizes |->
     LET k == CHOOSE k \in DOMAIN o.rows : Contains(o.rows[k], i)
         j == CHOOSE j \in DOMAIN o.rows[k] : o.rows[k][j] = i
     IN [x |-> corner.x + Sums(Widths(o, sizes, k))[j - 1],
         y |-> corner.y + Sums(Heights(o, sizes))[k - 1], w |-> sizes[i].w, h |-> sizes[i].h]]

(***************************************************************************)
(* The box of a server with a label, from the box (x, y, w, h) of what is  *)
(* in it with the padding: as LNode.updateBounds and tileCompoundMembers   *)
(* have it.                                                                *)
(***************************************************************************)
Labelled(r, l) ==
  LET wide == IF l.hor \in {"left", "right"} THEN r.w + l.w
              ELSE IF l.hor = "center" THEN Larger(l.w, r.w) ELSE r.w
      high == IF l.ver \in {"top", "bottom"} THEN r.h + l.h
              ELSE IF l.ver = "center" THEN Larger(l.h, r.h) ELSE r.h
  IN [x |-> IF l.hor = "left" THEN r.x - l.w
            ELSE IF l.hor = "center" THEN r.x - ((wide - r.w) \div 2) ELSE r.x,
      y |-> IF l.ver = "top" THEN r.y - l.h
            ELSE IF l.ver = "center" THEN r.y - ((high - r.h) \div 2) ELSE r.y,
      w |-> wide, h |-> high]

\* Mutant: bounds without the margin.
BoundsTight(rs, margin) ==
  LET left == Min({r.x : r \in rs})  right  == Max({Right(r) : r \in rs})
      top  == Min({r.y : r \in rs})  bottom == Max({Bottom(r) : r \in rs})
  IN [x |-> left, y |-> top, w |-> right - left, h |-> bottom - top]

\* LGraph.updateBounds.
Bounds(rs, margin) ==
  LET left == Min({r.x : r \in rs})  right  == Max({Right(r) : r \in rs})
      top  == Min({r.y : r \in rs})  bottom == Max({Bottom(r) : r \in rs})
  IN [x |-> left - margin, y |-> top - margin,
      w |-> right - left + 2 * margin, h |-> bottom - top + 2 * margin]

\* The server with the boxes in it, then the root graph.
Wrapped(rc) ==
  [rc EXCEPT !["server"] =
     Labelled(Bounds({rc[k] : k \in {j \in Inner : rc[j] # Null}}, Padding), ServerLabel)]
Space(rc) == Bounds({rc["tiled"], rc["server"]}, GraphMargin)

(***************************************************************************)
(* The grid.  A cell is as wide as the range in which boxes repel.         *)
(***************************************************************************)
RepulsionRange == 2 * EdgeLength
Ceil(n) == -((-n) \div RepulsionRange)
GridSize(s) == [x |-> Ceil(s.w), y |-> Ceil(s.h)]

CellsOf(r, s) ==
  [startX |-> (r.x - s.x) \div RepulsionRange, finishX |-> (Right(r) - s.x) \div RepulsionRange,
   startY |-> (r.y - s.y) \div RepulsionRange, finishY |-> (Bottom(r) - s.y) \div RepulsionRange]

InCell(c, i, j) == i \in c.startX..c.finishX /\ j \in c.startY..c.finishY

Gridded(rc, s) == [k \in Box |-> IF rc[k] = Null THEN Null ELSE CellsOf(rc[k], s)]

Gap(s, t) == Larger(s.lo, t.lo) - Smaller(s.hi, t.hi)
InRange(a, b) == Gap(XSpan(a), XSpan(b)) <= RepulsionRange /\ Gap(YSpan(a), YSpan(b)) <= RepulsionRange

\* Mutant: only the cells of the box itself are searched.
SearchedOwn(c, d) ==
  \E i \in c.startX..c.finishX, j \in c.startY..c.finishY : InCell(d, i, j)

\* The cells around those of c are searched.
Searched(c, d) ==
  \E i \in (c.startX - 1)..(c.finishX + 1), j \in (c.startY - 1)..(c.finishY + 1) : InCell(d, i, j)

\* The boxes of its graph a box repels, found in the grid.
Found(k) ==
  {j \in Present \ {k} : /\ Owner(j) = Owner(k) /\ Searched(cells[k], cells[j])
                         /\ InRange(rect[k], rect[j])}

(***************************************************************************)
(* findPlaceforPrunedNode: the sides are 0 up, 1 right, 2 down, 3 left.  A *)
(* side at the edge of the grid counts nothing.                            *)
(***************************************************************************)
\* How many boxes the cells of the columns I and rows J hold together.
InGrid(cs, I, J) ==
  Cardinality({p \in Box \X (I \X J) : cs[p[1]] # Null /\ InCell(cs[p[1]], p[2][1], p[2][2])})

\* Boxes in the cells along a side of the service and in its own cells there,
\* the service itself not counted.
Counts(cs, s) ==
  LET c == cs["service"]
      X == c.startX..c.finishX
      Y == c.startY..c.finishY
      row(at, edge) == InGrid(cs, X, {at, edge}) - Cardinality(X)
      col(at, edge) == InGrid(cs, {at, edge}, Y) - Cardinality(Y)
  IN [side \in 0..3 |->
       CASE side = 0 /\ c.startY > 0 -> row(c.startY - 1, c.startY)
         [] side = 1 /\ c.finishX < GridSize(s).x - 1 -> col(c.finishX + 1, c.finishX)
         [] side = 2 /\ c.finishY < GridSize(s).y - 1 -> row(c.finishY + 1, c.finishY)
         [] side = 3 /\ c.startX > 0 -> col(c.startX - 1, c.startX)
         [] OTHER -> 0]

Emptiest(n) == {i \in 0..3 : n[i] = Min({n[j] : j \in 0..3})}

\* Mutant: of three empty sides, the leaf goes opposite the middle one.
ChoiceAcross(n) ==
  LET least == Emptiest(n)
      free  == n[Min(least)] = 0
  IN CASE free /\ Cardinality(least) = 3 -> 0..3 \ least
       [] free /\ Cardinality(least) \in {2, 4} -> least
       [] OTHER -> {Min(least)}

\* Mutant: the side across is not brought back into 0..3.
ChoiceBeyond(n) ==
  LET least == Emptiest(n)
      free  == n[Min(least)] = 0
  IN CASE free /\ Cardinality(least) = 3 -> {i + 2 : i \in 0..3 \ least}
       [] free /\ Cardinality(least) \in {2, 4} -> least
       [] OTHER -> {Min(least)}

\* The middle one of three empty sides, any of two or four, else the first.
Choice(n) ==
  LET least == Emptiest(n)
      free  == n[Min(least)] = 0
      across(i) == (i + 2) % 4
  IN CASE free /\ Cardinality(least) = 3 -> {across(i) : i \in 0..3 \ least}
       [] free /\ Cardinality(least) \in {2, 4} -> least
       [] OTHER -> {Min(least)}

\* Mutant: the height of the other box is not counted.
BesideMiddle(r, size, side) ==
  LET midX == r.x + ((r.w - size.w) \div 2)
      midY == r.y + ((r.h - size.h) \div 2)
      box(x, y) == [x |-> x, y |-> y, w |-> size.w, h |-> size.h]
  IN CASE side = 0 -> box(midX, r.y - EdgeLength)
       [] side = 1 -> box(Right(r) + EdgeLength, midY)
       [] side = 2 -> box(midX, Bottom(r) + EdgeLength)
       [] OTHER    -> box(r.x - EdgeLength - size.w, midY)

Beside(r, size, side) ==
  LET midX == r.x + ((r.w - size.w) \div 2)
      midY == r.y + ((r.h - size.h) \div 2)
      box(x, y) == [x |-> x, y |-> y, w |-> size.w, h |-> size.h]
  IN CASE side = 0 -> box(midX, r.y - EdgeLength - size.h)
       [] side = 1 -> box(Right(r) + EdgeLength, midY)
       [] side = 2 -> box(midX, Bottom(r) + EdgeLength)
       [] OTHER    -> box(r.x - EdgeLength - size.w, midY)

(***************************************************************************)
(* The steps.                                                              *)
(***************************************************************************)
At(p, size) == [x |-> p[1], y |-> p[2], w |-> size.w, h |-> size.h]
MovedBy(r, p) == [r EXCEPT !.x = @ + p[1], !.y = @ + p[2]]

\* Mutant: the corner of the boxes goes to where their middle was.
RelocationOfCorner(rs) == <<centre[1] - Bounds(rs, 0).x, centre[2] - Bounds(rs, 0).y>>

\* The way from the middle of the boxes to the centre; an odd way is rounded.
Relocation(rs) ==
  LET b == Bounds(rs, 0)
  IN <<(2 * centre[1] - b.x - Right(b)) \div 2, (2 * centre[2] - b.y - Bottom(b)) \div 2>>

\* A dummy stands for two members at least.
Init ==
  /\ members \in MemberLists /\ label \in Labels \cup (IF Len(members) > 1 THEN {Null} ELSE {})
  /\ org = NoRows
  /\ rect = [k \in Box |-> Null]
  /\ cells = [k \in Box |-> Null] /\ space = Null /\ region = Null
  /\ tiles = <<>> /\ centre \in Centres /\ ticks = 0 /\ phase = "tile"

\* The places the rows have taken, as <<row, place in the row>>.
Places(o) == UNION {{k} \X DOMAIN o.rows[k] : k \in DOMAIN o.rows}
Inserted == Cardinality(Places(org))

\* tileNodes: one member after the other.
InsertMember ==
  /\ phase = "tile" /\ Inserted < Len(members)
  /\ LET i   == Inserted + 1
         row == IF org.rows = <<>> THEN 1
                ELSE IF CanAddHorizontal(org, members[i]) THEN ShortestRow(org)
                ELSE Len(org.rows) + 1
     IN org' = ShiftToLastRow(InsertNodeToRow(org, i, members[i], row))
  /\ UNCHANGED <<members, label, rect, cells, space, region, tiles, centre, ticks, phase>>

\* The tiled box is around the middle of its members, the origin here; the
\* service is where the spectral layout has put it.
Sized(r) ==
  /\ phase = "tile" /\ Inserted = Len(members) /\ phase' = "tick"
  /\ \E p \in Spots :
        rect' = Wrapped([rect EXCEPT !["tiled"] = r, !["service"] = At(p, ServiceSize)])
  /\ UNCHANGED <<members, org, label, cells, space, region, tiles, centre, ticks>>

\* tileNodes tiles the members twice, favouring the width and the height; the
\* map asks for no other order than by area, so both come out the same.
Tiled == [x |-> -(org.width \div 2), y |-> -(org.height \div 2), w |-> org.width, h |-> org.height]

TileCompoundMembers == label # Null /\ Sized(Labelled(Tiled, label))

ClearZeroDegreeMembers == label = Null /\ Sized(Tiled)

\* A tick that updates the grid: first the bounds, then the grid.
UpdateGrid ==
  /\ phase = "tick" /\ ticks < Ticks /\ ticks' = ticks + 1 /\ phase' = "move"
  /\ rect' = Wrapped(rect)
  /\ space' = Space(rect')
  /\ cells' = Gridded(rect', space')
  /\ UNCHANGED <<members, org, label, region, tiles, centre>>

\* What the forces may do to the way from the tiled box to the server:
\* repulsion pushes them apart, and gravity pulls those that are far from
\* the middle of the graph, which two that intersect never are.  What one of
\* the two is given, the other is given the other way.
Pulls(way) == IF Intersects(rect["tiled"], rect["server"]) THEN {0} ELSE {0, -Sign(way)}
Allowed(p) ==
  LET push == IF "server" \in Found("tiled")
              THEN Repulsion(rect["tiled"], rect["server"], EdgeLength \div 2) ELSE [x |-> 0, y |-> 0]
      way(span(_)) == Between(span(rect["tiled"]), span(rect["server"]))
  IN /\ {Sign(p.server[1]), -Sign(p.tiled[1])} \subseteq {push.x} \cup Pulls(way(XSpan))
     /\ {Sign(p.server[2]), -Sign(p.tiled[2])} \subseteq {push.y} \cup Pulls(way(YSpan))

\* The tiled box has no graph of its own any more, and moves itself.  The
\* server passes its displacement on to the service and does not move itself:
\* its box follows with the next bounds.
Displaced(rc, p) ==
  [rc EXCEPT !["tiled"] = MovedBy(@, p.tiled), !["service"] = MovedBy(@, p.server)]

MoveNodes ==
  /\ phase = "move" /\ phase' = "tick"
  /\ \E p \in {q \in Moves : Allowed(q)} : rect' = Displaced(rect, p)
  /\ UNCHANGED <<members, org, label, cells, space, region, tiles, centre, ticks>>

\* The leaf goes back beside the service, between two updates of the grid.
GrowTree ==
  /\ phase = "tick" /\ ticks = Ticks /\ phase' = "grown"
  /\ LET rc == Wrapped(rect)
         n  == Counts(Gridded(rc, Space(rc)), Space(rc))
     IN \E side \in Choice(n) :
          /\ region' = [side |-> side, counts |-> n]
          /\ rect' = Wrapped([rc EXCEPT !["leaf"] = Beside(rc["service"], LeafSize, side)])
  /\ space' = Space(rect')
  /\ cells' = Gridded(rect', space')
  /\ UNCHANGED <<members, org, label, tiles, centre, ticks>>

Repopulated(corner) ==
  /\ phase = "grown" /\ phase' = "placed"
  /\ tiles' = Located(org, members, corner)
  /\ UNCHANGED <<members, org, label, rect, cells, space, region, centre, ticks>>

RepopulateCompounds == label # Null /\ Repopulated(TilesCorner(org, label, rect["tiled"]))

RepopulateZeroDegreeMembers == label = Null /\ Repopulated(DummyCorner(rect["tiled"]))

\* relocateComponent: the boxes of the map's elements, of which a dummy is
\* none, move so that the middle of the map is where it was before.
Elements == IF label = Null THEN Box \ {"tiled"} ELSE Box

RelocateComponent ==
  /\ phase = "placed" /\ phase' = "done"
  /\ LET d == Relocation({rect[k] : k \in Elements} \cup ToSet(tiles))
     IN /\ rect' = [k \in Box |-> IF k \in Elements THEN MovedBy(rect[k], d) ELSE rect[k]]
        /\ tiles' = [i \in DOMAIN tiles |-> MovedBy(tiles[i], d)]
  /\ UNCHANGED <<members, org, label, cells, space, region, centre, ticks>>

Done == phase = "done" /\ UNCHANGED vars

Next ==
  \/ InsertMember \/ TileCompoundMembers \/ ClearZeroDegreeMembers
  \/ UpdateGrid \/ MoveNodes \/ GrowTree
  \/ RepopulateCompounds \/ RepopulateZeroDegreeMembers
  \/ RelocateComponent \/ Done

Spec == Init /\ [][Next]_vars

(***************************************************************************)
(* Properties.                                                             *)
(***************************************************************************)
GridFresh == phase \in {"move", "grown"}
Pairs == {p \in Present \X Present : p[1] # p[2] /\ Owner(p[1]) = Owner(p[2])}

\* The state has its shape: a member is in one row, every box has a place and a
\* size, the leaf's side is one of the four.
TypeOK ==
  /\ members \in MemberLists /\ label \in Labels \cup {Null} /\ ticks \in 0..Ticks
  /\ centre \in Centres /\ phase \in {"tile", "tick", "move", "grown", "placed", "done"}
  /\ Inserted = Cardinality(UNION {ToSet(org.rows[k]) : k \in DOMAIN org.rows})
  /\ DOMAIN rect = Box /\ DOMAIN cells = Box
  /\ phase # "tile" => \A k \in Present : rect[k] \in Boxed
  /\ region = Null \/ region.side \in 0..3

\* Every box of the map falls into cells the grid has: addNodeToGrid indexes
\* the grid without a check, and throws where there is no cell.
GridInBounds ==
  GridFresh => \A k \in Present :
    /\ 0 <= cells[k].startX /\ cells[k].finishX < GridSize(space).x
    /\ 0 <= cells[k].startY /\ cells[k].finishY < GridSize(space).y

\* No two boxes of a graph that are in each other's range are missed when the
\* cells around one of them are searched.
NearAreFound ==
  GridFresh => \A p \in Pairs :
    InRange(rect[p[1]], rect[p[2]]) => Searched(cells[p[1]], cells[p[2]])

\* The grid takes every box and gives back every one that is near another.
GridSound == GridInBounds /\ NearAreFound

\* Two boxes that overlap and go apart by the amounts calcSeparationAmount
\* gives no longer overlap.
SeparationClears ==
  \A p \in Pairs :
    LET q == rect[p[1]]  r == rect[p[2]]
        sep == Separation(q, r, EdgeLength \div 2)
    IN phase # "tile" /\ Intersects(q, r) =>
         IF GoesByX(q, r) THEN ~Meet(XSpan(q), Shift(XSpan(r), sep.x[1]))
         ELSE ~Meet(YSpan(q), Shift(YSpan(r), sep.y[1]))

\* The line between two boxes that do not meet leaves each on its border.
ClipsOnBorder ==
  phase # "tile" => \A p \in Pairs :
    LET q == rect[p[1]]  r == rect[p[2]]
    IN ~Intersects(q, r) => OnBorder(Clip(q, r), q)

\* A leaf grows back on a side than which none is emptier.
EmptiestSide ==
  region # Null => \A i \in 0..3 : region.counts[region.side] <= region.counts[i]

\* A leaf grows back clear of the service it is connected to, with the spring
\* of their connection at rest.
GrownAtRest ==
  phase \in {"grown", "placed", "done"} =>
    /\ ~Intersects(rect["service"], rect["leaf"])
    /\ Long(rect["service"], rect["leaf"], EdgeLength)

\* A leaf grows back where there is room, at its spring's length.
LeafInPlace == EmptiestSide /\ GrownAtRest

\* The members of the tiled box end up in it, clear of its padding and of its
\* label, wherever the ticks moved the box after it was sized around them.
LabelFree(r, l) ==
  IF l = Null THEN r
  ELSE [x |-> r.x + (IF l.hor = "left" THEN l.w ELSE 0), y |-> r.y + (IF l.ver = "top" THEN l.h ELSE 0),
        w |-> r.w - (IF l.hor \in {"left", "right"} THEN l.w ELSE 0),
        h |-> r.h - (IF l.ver \in {"top", "bottom"} THEN l.h ELSE 0)]
TilesFit ==
  LET r == LabelFree(rect["tiled"], label)
  IN phase = "placed" => \A i \in DOMAIN tiles :
       /\ r.x + Padding <= tiles[i].x /\ Right(tiles[i]) <= Right(r) - Padding
       /\ r.y + Padding <= tiles[i].y /\ Bottom(tiles[i]) <= Bottom(r) - Padding

\* No two members of the tiled box meet.
TilesApart ==
  \A i, j \in DOMAIN tiles : i # j => ~Intersects(tiles[i], tiles[j])

\* Packed members fit the room that was made for them.
TilesInPlace == TilesFit /\ TilesApart

\* The middle of the laid-out map is where the middle of the map was, to half
\* a unit: a new layout does not walk off the screen.
CentreKept ==
  phase = "done" =>
    LET b == Bounds({rect[k] : k \in Elements} \cup ToSet(tiles), 0)
    IN /\ b.x + Right(b) - 2 * centre[1] \in {-1, 0}
       /\ b.y + Bottom(b) - 2 * centre[2] \in {-1, 0}
================================================================================
