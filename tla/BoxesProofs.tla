------------------------------- MODULE BoxesProofs -------------------------------
(***************************************************************************)
(* What the runs of Boxes find of a few lists of members, labels and moves,*)
(* for all of them.  The invariant says how wide and how high the rows of  *)
(* the members are by what is in them, which tileNodes never adds up: it   *)
(* keeps sums as it inserts.  From it come the room that repopulation      *)
(* finds, the grid that has a cell for each box, the side the leaf is on,  *)
(* and the bounds that relocation brings back to where they were.          *)
(*                                                                         *)
(* Sums are a recursive function, and what they are of a sequence with one *)
(* more number is proved by the first number at which it would fail.       *)
(***************************************************************************)
EXTENDS Boxes, FiniteSetTheorems, SequenceTheorems, WellFoundedInduction, TLAPS

(***************************************************************************)
(* The invariant.                                                          *)
(***************************************************************************)
\* The members and the places of some rows.
Members(R)  == UNION {ToSet(R[j]) : j \in DOMAIN R}
PlacesIn(R) == UNION {{j} \X DOMAIN R[j] : j \in DOMAIN R}

\* An organization of the first members: each has one place, and a box with a
\* row has a size.
Organized(o) ==
  /\ o.rows \in Seq(Seq(Nat)) /\ o.rowWidth \in Seq(Nat) /\ o.rowHeight \in Seq(Nat)
  /\ Len(o.rowWidth) = Len(o.rows) /\ Len(o.rowHeight) = Len(o.rows)
  /\ o.width \in Nat /\ o.height \in Nat
  /\ o.rows # <<>> => o.width > 0 /\ o.height > 0
  /\ IsFiniteSet(PlacesIn(o.rows)) /\ Members(o.rows) = 1..Cardinality(PlacesIn(o.rows))

\* The sizes an organization has been given are those its rows take.
Fits(o, sizes, k) ==
  /\ Len(o.rows[k]) > 0
  /\ o.rowWidth[k] + TilePadding = MinWidth + Sums(Widths(o, sizes, k))[Len(o.rows[k])]
  /\ o.rowWidth[k] <= o.width
  /\ o.rowHeight[k] = RowHeight(o, sizes, k) + (IF k > 1 THEN TilePadding ELSE 0)
Measured(o, sizes) ==
  /\ \A k \in DOMAIN o.rows : Fits(o, sizes, k)
  /\ o.rows = <<>> => o.height = MinWidth
  /\ o.rows # <<>> => o.height + TilePadding = MinWidth + Sums(Heights(o, sizes))[Len(o.rows)]

Grown == phase \in {"grown", "placed", "done"}
Placed == {"tiled", "server", "service"}

TypesOK ==
  /\ members \in MemberLists /\ label \in Labels \cup {Null} /\ ticks \in 0..Ticks
  /\ centre \in Centres /\ phase \in {"tile", "tick", "move", "grown", "placed", "done"}
  /\ rect \in [Box -> Boxed \cup {Null}] /\ DOMAIN cells = Box
  /\ phase = "tile" => \A k \in Box : rect[k] = Null
  /\ phase # "tile" => /\ \A k \in Placed : rect[k] \in Boxed
                       /\ rect["service"].w = ServiceSize.w
                       /\ rect["service"].h = ServiceSize.h

\* The first members are tiled, and then all of them; the box they are tiled
\* in keeps its size, wherever the ticks move it.
AsSized == IF label = Null THEN Tiled ELSE Labelled(Tiled, label)
TilingOK ==
  /\ Organized(org) /\ Measured(org, members) /\ Inserted \in 0..Len(members)
  /\ phase # "tile" => Inserted = Len(members)
  /\ phase \in {"tick", "move", "grown", "placed"} =>
       rect["tiled"].w = AsSized.w /\ rect["tiled"].h = AsSized.h

\* The grid, where one is kept, is that of the boxes as they are, and what is
\* in the server is inside its box.
Inside(a, b) == b.x <= a.x /\ Right(a) <= Right(b) /\ b.y <= a.y /\ Bottom(a) <= Bottom(b)
GridOK ==
  GridFresh => /\ space = Space(rect) /\ cells = Gridded(rect, space)
               /\ \A k \in Inner : rect[k] # Null => Inside(rect[k], rect["server"])

\* The leaf is missing, or where it grew beside the service.
LeafOK ==
  /\ ~Grown => rect["leaf"] = Null /\ region = Null
  /\ Grown => /\ region.side \in 0..3 /\ \A i \in 0..3 : region.counts[region.side] <= region.counts[i]
              /\ rect["leaf"] \in Boxed
              /\ rect["leaf"] = Beside(rect["service"], LeafSize, region.side)

\* Each member ends up in a box of its own, all apart.
TilesOK ==
  /\ phase \notin {"placed", "done"} => tiles = <<>>
  /\ phase \in {"placed", "done"} => DOMAIN tiles = DOMAIN members /\ \A i \in DOMAIN tiles : tiles[i] \in Boxed
  /\ TilesInPlace

IInv == TypesOK /\ TilingOK /\ GridOK /\ LeafOK /\ TilesOK /\ CentreKept

(***************************************************************************)
(* Numbers, finite sets and sequences.                                     *)
(***************************************************************************)
Less == {p \in Nat \X Nat : p[1] < p[2]}

LEMMA LessIsWellFounded == IsWellFoundedOn(Less, Nat)
<1>1. Less = OpToRel(<, Nat)
  BY DEF Less, OpToRel
<1>2. QED
  BY <1>1, NatLessThanWellFounded

\* A set of natural numbers has a least one: what takes the place of induction,
\* of which the first number that fails is enough.
LEMMA LeastNatural ==
  ASSUME NEW S, S \subseteq Nat, S # {}
  PROVE  \E m \in S : \A n \in S : m <= n
<1>1. PICK m \in S : \A n \in S : ~(<<n, m>> \in Less)
  BY LessIsWellFounded, WFMin
<1>2. \A n \in S : ~(n < m)
  <2>1. TAKE n \in S
  <2>2. n \in Nat /\ m \in Nat
    OBVIOUS
  <2>3. n < m => <<n, m>> \in Less
    BY <2>2 DEF Less
  <2>4. QED
    BY <1>1, <2>3
<1>3. QED
  BY <1>2

\* A finite set of integers has a first and a last one.
Precedes(up, i, j) == IF up THEN i <= j ELSE j <= i
HasFirst(S, up) == \E m \in S : \A k \in S : Precedes(up, m, k)

LEMMA FirstOfInts ==
  ASSUME NEW S, S \subseteq Int, S # {}, IsFiniteSet(S), NEW up \in BOOLEAN
  PROVE  HasFirst(S, up)
<1> DEFINE Lacks(n) == \E T : /\ T \subseteq Int /\ T # {} /\ IsFiniteSet(T)
                              /\ Cardinality(T) = n /\ ~HasFirst(T, up)
           Bad == {n \in Nat : Lacks(n)}
<1>1. SUFFICES ASSUME ~HasFirst(S, up) PROVE FALSE
  OBVIOUS
<1>2. Cardinality(S) \in Bad
  <2>1. Cardinality(S) \in Nat
    BY FS_CardinalityType
  <2>2. QED
    BY <1>1, <2>1
<1>3. Bad \subseteq Nat
  OBVIOUS
<1> HIDE DEF Bad
<1>4. PICK n \in Bad : \A k \in Bad : n <= k
  BY <1>2, <1>3, LeastNatural
<1>5. PICK T : /\ T \subseteq Int /\ T # {} /\ IsFiniteSet(T)
               /\ Cardinality(T) = n /\ ~HasFirst(T, up)
  BY <1>4 DEF Bad
<1>6. PICK x : x \in T
  BY <1>5
<1>7. /\ IsFiniteSet(T \ {x}) /\ Cardinality(T \ {x}) = n - 1
      /\ Cardinality(T \ {x}) \in Nat
  <2>1. IsFiniteSet(T \ {x}) /\ Cardinality(T \ {x}) = Cardinality(T) - 1
    BY <1>5, <1>6, FS_RemoveElement
  <2>2. Cardinality(T \ {x}) \in Nat
    BY <2>1, FS_CardinalityType
  <2>3. QED
    BY <1>5, <2>1, <2>2
<1>8. n - 1 \in Nat /\ n - 1 \notin Bad
  BY <1>3, <1>4, <1>7
<1>9. T \ {x} = {} \/ HasFirst(T \ {x}, up)
  BY <1>5, <1>7, <1>8 DEF Bad
<1>10. QED
  BY <1>5, <1>6, <1>9 DEF HasFirst, Precedes

\* So the least and the greatest of a finite set are what CHOOSE finds.
LEMMA MinAndMax ==
  ASSUME NEW S, S \subseteq Int, S # {}, IsFiniteSet(S)
  PROVE  /\ Min(S) \in S /\ \A k \in S : Min(S) <= k
         /\ Max(S) \in S /\ \A k \in S : k <= Max(S)
<1>1. \E m \in S : \A k \in S : m <= k
  BY FirstOfInts DEF HasFirst, Precedes
<1>2. \E m \in S : \A k \in S : m >= k
  BY FirstOfInts DEF HasFirst, Precedes
<1>3. QED
  BY <1>1, <1>2 DEF Min, Max

LEMMA FiniteRange ==
  ASSUME NEW s, NEW n \in Nat, DOMAIN s = 1..n
  PROVE  IsFiniteSet(ToSet(s))
<1> DEFINE f == [i \in 1..n |-> s[i]]
<1>1. f \in Surjection(1..n, ToSet(s))
  BY DEF Surjection, ToSet
<1>2. IsFiniteSet(1..n)
  BY FS_Interval
<1> HIDE DEF f
<1>3. QED
  BY <1>1, <1>2, FS_Surjection

LEMMA InSet ==
  ASSUME NEW s, NEW x \in ToSet(s)
  PROVE  \E j \in DOMAIN s : s[j] = x
BY DEF ToSet

LEMMA Sequence ==
  ASSUME NEW S, NEW s \in Seq(S)
  PROVE  /\ Len(s) \in Nat /\ DOMAIN s = 1..Len(s) /\ \A j \in DOMAIN s : s[j] \in S
         /\ s # <<>> => Len(s) > 0
BY LenProperties, EmptySeq

\* What Append and EXCEPT do to a sequence.
LEMMA Appended ==
  ASSUME NEW S, NEW s \in Seq(S), NEW e \in S
  PROVE  /\ Append(s, e) \in Seq(S) /\ Len(Append(s, e)) = Len(s) + 1
         /\ DOMAIN Append(s, e) = DOMAIN s \cup {Len(s) + 1} /\ Len(s) + 1 \notin DOMAIN s
         /\ Append(s, e)[Len(s) + 1] = e /\ \A j \in DOMAIN s : Append(s, e)[j] = s[j]
         /\ ToSet(Append(s, e)) = ToSet(s) \cup {e}
<1> DEFINE t == Append(s, e)
           n == Len(s) + 1
<1>1. t = Append(s, e) /\ n = Len(s) + 1
  OBVIOUS
<1>2. Len(s) \in Nat /\ DOMAIN s = 1..Len(s)
  BY Sequence
<1> HIDE DEF t
<1>3. t \in Seq(S) /\ Len(t) = n /\ t[n] = e /\ \A j \in 1..Len(s) : t[j] = s[j]
  BY <1>1, AppendProperties
<1>4. DOMAIN t = DOMAIN s \cup {n} /\ n \notin DOMAIN s
  <2>1. DOMAIN t = 1..n
    BY <1>3, LenProperties
  <2>2. QED
    BY <1>2, <2>1
<1>5. ToSet(t) = ToSet(s) \cup {e}
  BY <1>2, <1>3, <1>4 DEF ToSet
<1> HIDE DEF n
<1>6. QED
  BY <1>1, <1>2, <1>3, <1>4, <1>5

LEMMA Replaced ==
  ASSUME NEW S, NEW s \in Seq(S), NEW i \in DOMAIN s, NEW e \in S,
         NEW t, t = [s EXCEPT ![i] = e]
  PROVE  /\ t \in Seq(S) /\ Len(t) = Len(s) /\ DOMAIN t = DOMAIN s
         /\ t[i] = e /\ \A j \in DOMAIN s \ {i} : t[j] = s[j]
<1>1. DOMAIN s = 1..Len(s)
  BY Sequence
<1>2. t \in Seq(S) /\ Len(t) = Len(s)
  BY <1>1, ExceptSeq
<1>3. QED
  BY <1>1, <1>2

(***************************************************************************)
(* Tiling: a member that is inserted has a place of its own, after those of*)
(* the members before it.                                                  *)
(***************************************************************************)
\* The shortest row is one of the rows.
LEMMA ShortestIsRow ==
  ASSUME NEW o, Organized(o), o.rows # <<>>
  PROVE  ShortestRow(o) \in DOMAIN o.rows
<1> DEFINE D == DOMAIN o.rows
           T == {i \in D : o.rowWidth[i] = Min(ToSet(o.rowWidth))}
<1>1. /\ D = 1..Len(o.rows) /\ DOMAIN o.rowWidth = D /\ Len(o.rows) \in Nat \ {0}
      /\ \A i \in D : o.rowWidth[i] \in Nat
  <2> DEFINE R == o.rows
             W == o.rowWidth
  <2>1. R \in Seq(Seq(Nat)) /\ W \in Seq(Nat) /\ Len(W) = Len(R) /\ R # <<>>
    BY DEF Organized
  <2> HIDE DEF R, W
  <2>2. Len(R) \in Nat \ {0} /\ DOMAIN R = 1..Len(R) /\ DOMAIN W = 1..Len(W)
        /\ \A j \in DOMAIN W : W[j] \in Nat
    BY <2>1, Sequence
  <2>3. QED
    BY <2>1, <2>2 DEF R, W
<1>2. ToSet(o.rowWidth) \subseteq Int /\ ToSet(o.rowWidth) # {} /\ IsFiniteSet(ToSet(o.rowWidth))
  <2>1. IsFiniteSet(ToSet(o.rowWidth))
    BY <1>1, FiniteRange
  <2>2. \A x \in ToSet(o.rowWidth) : x \in Int
    BY <1>1, InSet
  <2>3. 1 \in DOMAIN o.rowWidth
    BY <1>1
  <2>4. o.rowWidth[1] \in ToSet(o.rowWidth)
    BY <2>3 DEF ToSet
  <2>5. QED
    BY <2>1, <2>2, <2>4
<1>3. T # {}
  <2>1. Min(ToSet(o.rowWidth)) \in ToSet(o.rowWidth)
    BY <1>2, MinAndMax
  <2>2. PICK i \in DOMAIN o.rowWidth : o.rowWidth[i] = Min(ToSet(o.rowWidth))
    BY <2>1, InSet
  <2>3. QED
    BY <1>1, <2>2
<1>4. PICK i \in T : \A j \in T : i <= j
  <2>1. T \subseteq Nat
    BY <1>1
  <2> HIDE DEF T
  <2>2. QED
    BY <1>3, <2>1, LeastNatural
<1>5. \A j \in 1..(i - 1) : o.rowWidth[j] # o.rowWidth[i]
  BY <1>1, <1>4
<1>6. QED
  BY <1>4, <1>5 DEF ShortestRow

\* The rows, and their sizes, with one more member, or with another size, in
\* row k; and the place the member gets.
NewRows(R, k, i)  == IF k > Len(R) THEN Append(R, <<i>>) ELSE [R EXCEPT ![k] = Append(@, i)]
NewSizes(W, k, w) == IF k > Len(W) THEN Append(W, w) ELSE [W EXCEPT ![k] = w]
NextPlace(R, k)   == IF k > Len(R) THEN 1 ELSE Len(R[k]) + 1

\* Whether the rows r are the rows R and i in the new place m of row k.
Extends(r, R, k, m, i) ==
  /\ r \in Seq(Seq(Nat)) /\ Len(r) = Larger(Len(R), k) /\ DOMAIN r = DOMAIN R \cup {k}
  /\ \A j \in DOMAIN R \ {k} : r[j] = R[j]
  /\ \A n : n \in DOMAIN r[k] <=> n = m \/ (k \in DOMAIN R /\ n \in DOMAIN R[k])
  /\ k \in DOMAIN R => m \notin DOMAIN R[k]
  /\ \A x : x \in ToSet(r[k]) <=> x = i \/ (k \in DOMAIN R /\ x \in ToSet(R[k]))

LEMMA InMembers ==
  ASSUME NEW R, NEW x
  PROVE  x \in Members(R) <=> \E j \in DOMAIN R : x \in ToSet(R[j])
BY DEF Members

LEMMA InPlaces ==
  ASSUME NEW R, NEW x
  PROVE  x \in PlacesIn(R) <=> \E j \in DOMAIN R : x \in {j} \X DOMAIN R[j]
BY DEF PlacesIn

\* With one more place, the rows have one more member.
LEMMA OneMoreMember ==
  ASSUME NEW R, NEW r, NEW k, NEW m, NEW i, Extends(r, R, k, m, i)
  PROVE  Members(r) = Members(R) \cup {i}
<1>1. /\ DOMAIN r = DOMAIN R \cup {k} /\ \A j \in DOMAIN R \ {k} : r[j] = R[j]
      /\ \A x : x \in ToSet(r[k]) <=> x = i \/ (k \in DOMAIN R /\ x \in ToSet(R[k]))
  BY DEF Extends
<1>2. ASSUME NEW x PROVE (\E j \in DOMAIN r : x \in ToSet(r[j])) <=>
                         (x = i \/ \E j \in DOMAIN R : x \in ToSet(R[j]))
  <2>1. ASSUME NEW j \in DOMAIN r, x \in ToSet(r[j])
        PROVE  x = i \/ \E l \in DOMAIN R : x \in ToSet(R[l])
    <3>1. CASE j = k
      BY <1>1, <2>1, <3>1
    <3>2. CASE j # k
      <4>1. j \in DOMAIN R /\ r[j] = R[j]
        BY <1>1, <3>2
      <4>2. QED
        BY <2>1, <4>1
    <3>3. QED
      BY <3>1, <3>2
  <2>2. x = i => x \in ToSet(r[k]) /\ k \in DOMAIN r
    BY <1>1
  <2>3. ASSUME NEW j \in DOMAIN R, x \in ToSet(R[j])
        PROVE  j \in DOMAIN r /\ x \in ToSet(r[j])
    <3>1. CASE j = k
      BY <1>1, <2>3, <3>1
    <3>2. CASE j # k
      <4>1. r[j] = R[j]
        BY <1>1, <3>2
      <4>2. QED
        BY <1>1, <2>3, <4>1
    <3>3. QED
      BY <3>1, <3>2
  <2>4. QED
    BY <2>1, <2>2, <2>3
<1>3. \A x : x \in Members(r) <=> x \in Members(R) \/ x = i
  BY <1>2, InMembers
<1>4. QED
  BY <1>3

LEMMA OneMorePlace ==
  ASSUME NEW R, NEW r, NEW k, NEW m, NEW i, Extends(r, R, k, m, i)
  PROVE  PlacesIn(r) = PlacesIn(R) \cup {<<k, m>>} /\ <<k, m>> \notin PlacesIn(R)
<1>1. /\ DOMAIN r = DOMAIN R \cup {k} /\ \A j \in DOMAIN R \ {k} : r[j] = R[j]
      /\ \A n : n \in DOMAIN r[k] <=> n = m \/ (k \in DOMAIN R /\ n \in DOMAIN R[k])
      /\ k \in DOMAIN R => m \notin DOMAIN R[k]
  BY DEF Extends
<1>2. ASSUME NEW x PROVE (\E j \in DOMAIN r : x \in {j} \X DOMAIN r[j]) <=>
                         (x = <<k, m>> \/ \E j \in DOMAIN R : x \in {j} \X DOMAIN R[j])
  <2>1. ASSUME NEW j \in DOMAIN r, x \in {j} \X DOMAIN r[j]
        PROVE  x = <<k, m>> \/ \E l \in DOMAIN R : x \in {l} \X DOMAIN R[l]
    <3>1. PICK n : n \in DOMAIN r[j] /\ x = <<j, n>>
      BY <2>1
    <3>2. CASE j = k
      BY <1>1, <3>1, <3>2
    <3>3. CASE j # k
      <4>1. j \in DOMAIN R /\ r[j] = R[j]
        BY <1>1, <3>3
      <4>2. QED
        BY <2>1, <4>1
    <3>4. QED
      BY <3>2, <3>3
  <2>2. <<k, m>> \in {k} \X DOMAIN r[k] /\ k \in DOMAIN r
    BY <1>1
  <2>3. ASSUME NEW j \in DOMAIN R, x \in {j} \X DOMAIN R[j]
        PROVE  j \in DOMAIN r /\ x \in {j} \X DOMAIN r[j]
    <3>1. PICK n : n \in DOMAIN R[j] /\ x = <<j, n>>
      BY <2>3
    <3>2. CASE j = k
      BY <1>1, <3>1, <3>2
    <3>3. CASE j # k
      <4>1. r[j] = R[j]
        BY <1>1, <3>3
      <4>2. QED
        BY <1>1, <2>3, <4>1
    <3>4. QED
      BY <3>2, <3>3
  <2>4. QED
    BY <2>1, <2>2, <2>3
<1>3. <<k, m>> \notin PlacesIn(R)
  BY <1>1, InPlaces
<1>4. \A x : x \in PlacesIn(r) <=> x \in PlacesIn(R) \/ x = <<k, m>>
  BY <1>2, InPlaces
<1>5. PlacesIn(r) = PlacesIn(R) \cup {<<k, m>>}
  BY <1>4
<1>6. QED
  BY <1>3, <1>5

LEMMA LargerOf ==
  ASSUME NEW i \in Int, NEW j \in Int
  PROVE  /\ i <= j => Larger(i, j) = j /\ Smaller(i, j) = i
         /\ ~(j > i) => Larger(i, j) = i /\ Smaller(i, j) = j
         /\ Larger(i, j) \in Int /\ Smaller(i, j) \in Int
BY DEF Larger, Smaller

\* insertNodeToRow puts the member behind the others of its row.
LEMMA InsertPlaces ==
  ASSUME NEW R, R \in Seq(Seq(Nat)), NEW i, i \in Nat, NEW k, k \in 1..(Len(R) + 1)
  PROVE  Extends(NewRows(R, k, i), R, k, NextPlace(R, k), i)
<1> DEFINE r == NewRows(R, k, i)
           m == NextPlace(R, k)
<1>1. /\ r = IF k > Len(R) THEN Append(R, <<i>>) ELSE [R EXCEPT ![k] = Append(@, i)]
      /\ m = IF k > Len(R) THEN 1 ELSE Len(R[k]) + 1
  BY DEF NewRows, NextPlace
<1> HIDE DEF r, m
<1>2. Len(R) \in Nat /\ DOMAIN R = 1..Len(R) /\ \A j \in DOMAIN R : R[j] \in Seq(Nat)
  BY Sequence
<1>3. CASE k > Len(R)
  <2> SUFFICES Extends(r, R, k, m, i)
    BY DEF r, m
  <2> DEFINE one == <<i>>
  <2>1. k = Len(R) + 1
    BY <1>2, <1>3
  <2>2. r = Append(R, one) /\ m = 1
    BY <1>1, <1>3
  <2>3. Larger(Len(R), k) = k
    BY <1>2, <2>1, LargerOf
  <2>4. one \in Seq(Nat) /\ DOMAIN one = {1}
    OBVIOUS
  <2>5. ToSet(one) = {i}
    BY DEF ToSet
  <2> HIDE DEF one
  <2>6. /\ r \in Seq(Seq(Nat)) /\ Len(r) = k /\ DOMAIN r = DOMAIN R \cup {k} /\ k \notin DOMAIN R
        /\ r[k] = one /\ \A j \in DOMAIN R : r[j] = R[j]
    BY <2>1, <2>2, <2>4, Appended
  <2>7. DOMAIN r[k] = {m} /\ ToSet(r[k]) = {i}
    BY <2>2, <2>4, <2>5, <2>6
  <2>8. QED
    BY <2>3, <2>6, <2>7 DEF Extends
<1>4. CASE ~(k > Len(R))
  <2> SUFFICES Extends(r, R, k, m, i)
    BY DEF r, m
  <2> DEFINE row == R[k]
             next == Append(row, i)
  <2>1. k \in DOMAIN R
    BY <1>2, <1>4
  <2>2. row \in Seq(Nat)
    BY <1>2, <2>1
  <2>3. m = Len(row) + 1
    BY <1>1, <1>4
  <2>4. Larger(Len(R), k) = Len(R)
    BY <1>2, <1>4, LargerOf
  <2>5. r = [R EXCEPT ![k] = next]
    BY <1>1, <1>4
  <2>6. R[k] = row
    OBVIOUS
  <2> HIDE DEF row
  <2>7. next = Append(row, i)
    OBVIOUS
  <2> HIDE DEF next
  <2>8. /\ next \in Seq(Nat) /\ DOMAIN next = DOMAIN row \cup {m} /\ m \notin DOMAIN row
        /\ ToSet(next) = ToSet(row) \cup {i}
    <3> DEFINE N == Nat
               e == i
    <3>1. row \in Seq(N) /\ e \in N /\ next = Append(row, e)
      BY <2>7, <2>2
    <3> HIDE DEF N, e
    <3>2. /\ next \in Seq(N) /\ DOMAIN next = DOMAIN row \cup {m} /\ m \notin DOMAIN row
          /\ ToSet(next) = ToSet(row) \cup {e}
      BY ONLY <2>3, <3>1, Appended
    <3>3. QED
      BY <3>2 DEF N, e
  <2>9. /\ r \in Seq(Seq(Nat)) /\ Len(r) = Len(R) /\ DOMAIN r = DOMAIN R
        /\ r[k] = next /\ \A j \in DOMAIN R \ {k} : r[j] = R[j]
    BY ONLY <2>1, <2>5, <2>8, Replaced, R \in Seq(Seq(Nat))
  <2>10. DOMAIN r = DOMAIN R \cup {k}
    BY <2>1, <2>9
  <2>11. QED
    BY ONLY <2>1, <2>4, <2>6, <2>8, <2>9, <2>10 DEF Extends
<1>5. QED
  BY <1>3, <1>4

\* A row's size is replaced, or is that of a row of its own.
LEMMA InsertSizes ==
  ASSUME NEW W, W \in Seq(Nat), NEW k, k \in 1..(Len(W) + 1), NEW w, w \in Nat
  PROVE  NewSizes(W, k, w) \in Seq(Nat) /\ Len(NewSizes(W, k, w)) = Larger(Len(W), k)
<1> DEFINE N == Nat
           e == w
           v == NewSizes(W, k, w)
<1>1. Len(W) \in Nat /\ DOMAIN W = 1..Len(W)
  BY Sequence
<1>2. v = IF k > Len(W) THEN Append(W, e) ELSE [W EXCEPT ![k] = e]
  BY DEF NewSizes
<1>3. W \in Seq(N) /\ e \in N
  OBVIOUS
<1> HIDE DEF N, e, v
<1>4. CASE k > Len(W)
  <2>1. k = Len(W) + 1 /\ v = Append(W, e) /\ Larger(Len(W), k) = k
    BY <1>1, <1>2, <1>4, LargerOf
  <2>2. v \in Seq(N) /\ Len(v) = Len(W) + 1
    BY ONLY <1>3, <2>1, Appended
  <2>3. QED
    BY <2>1, <2>2 DEF N, v
<1>5. CASE ~(k > Len(W))
  <2>1. k \in DOMAIN W /\ v = [W EXCEPT ![k] = e] /\ Larger(Len(W), k) = Len(W)
    BY <1>1, <1>2, <1>5, LargerOf
  <2>2. v \in Seq(N) /\ Len(v) = Len(W)
    BY ONLY <1>3, <2>1, Replaced
  <2>3. QED
    BY <2>1, <2>2 DEF N, v
<1>6. QED
  BY <1>4, <1>5

LEMMA PaddingTypes ==
  /\ Padding \in Nat /\ TilePadding \in Nat /\ GraphMargin \in Nat \ {0}
  /\ EdgeLength \in Nat \ {0} /\ EdgeLength % 2 = 0
BY BoxesAssumption

LEMMA OneMore ==
  ASSUME NEW S, IsFiniteSet(S), NEW x, x \notin S
  PROVE  IsFiniteSet(S \cup {x}) /\ Cardinality(S \cup {x}) = Cardinality(S) + 1
BY FS_AddElement

\* The members of the rows are the numbers up to the last that was inserted.
LEMMA InsertRows ==
  ASSUME NEW R, R \in Seq(Seq(Nat)), IsFiniteSet(PlacesIn(R)), NEW i, i \in Nat,
         Members(R) = 1..Cardinality(PlacesIn(R)), i = Cardinality(PlacesIn(R)) + 1,
         NEW k, k \in 1..(Len(R) + 1)
  PROVE  LET r == NewRows(R, k, i)
         IN /\ r \in Seq(Seq(Nat)) /\ Len(r) = Larger(Len(R), k)
            /\ IsFiniteSet(PlacesIn(r)) /\ Cardinality(PlacesIn(r)) = i /\ Members(r) = 1..i
<1> DEFINE m == NextPlace(R, k)
           r == NewRows(R, k, i)
<1>1. Extends(r, R, k, m, i)
  BY InsertPlaces
<1> HIDE DEF m, r
<1>2. Members(r) = Members(R) \cup {i}
  BY ONLY <1>1, OneMoreMember
<1>3. PlacesIn(r) = PlacesIn(R) \cup {<<k, m>>} /\ <<k, m>> \notin PlacesIn(R)
  BY ONLY <1>1, OneMorePlace
<1>4. Cardinality(PlacesIn(R)) \in Nat
  BY FS_CardinalityType
<1>5. IsFiniteSet(PlacesIn(r)) /\ Cardinality(PlacesIn(r)) = i
  <2> DEFINE P == PlacesIn(R)
             x == <<k, m>>
  <2>1. IsFiniteSet(P) /\ x \notin P /\ PlacesIn(r) = P \cup {x} /\ i = Cardinality(P) + 1
    BY <1>3
  <2> HIDE DEF P, x
  <2>2. QED
    BY ONLY <2>1, OneMore
<1>6. Members(r) = 1..i
  BY <1>2, <1>4
<1>7. QED
  BY <1>1, <1>5, <1>6 DEF r, Extends

LEMMA BoxSizes ==
  ASSUME NEW width \in Nat, NEW height \in Nat, NEW w \in Nat \ {0}, NEW h \in Nat \ {0},
         NEW was \in Nat, was = 0 \/ height > 0
  PROVE  /\ Larger(width, w) \in Nat \ {0}
         /\ height + Larger(h - was, 0) \in Nat \ {0}
BY DEF Larger

\* A member that goes into a row there is, or into the next, leaves the rows
\* organized.
LEMMA InsertKeeps ==
  ASSUME NEW o, Organized(o), NEW i, i = Cardinality(PlacesIn(o.rows)) + 1,
         NEW size \in Sizes, NEW k \in 1..(Len(o.rows) + 1)
  PROVE  /\ Organized(InsertNodeToRow(o, i, size, k))
         /\ Cardinality(PlacesIn(InsertNodeToRow(o, i, size, k).rows)) = i
<1> DEFINE new == k > Len(o.rows)
           R == o.rows
           W == o.rowWidth
           H == o.rowHeight
           w == IF new THEN MinWidth + size.w ELSE o.rowWidth[k] + TilePadding + size.w
           h == IF k > 1 THEN size.h + TilePadding ELSE size.h
           was == IF new THEN 0 ELSE o.rowHeight[k]
           hh == IF new THEN h ELSE Larger(o.rowHeight[k], h)
           n == InsertNodeToRow(o, i, size, k)
           r == n.rows
           v == n.rowWidth
           u == n.rowHeight
           width == o.width
           height == o.height
           c == W[k]
           d == H[k]
           a == size.w
           b == size.h
<1>1. /\ R \in Seq(Seq(Nat)) /\ W \in Seq(Nat) /\ H \in Seq(Nat)
      /\ Len(W) = Len(R) /\ Len(H) = Len(R)
      /\ width \in Nat /\ height \in Nat /\ (R # <<>> => height > 0)
      /\ IsFiniteSet(PlacesIn(R)) /\ Members(R) = 1..Cardinality(PlacesIn(R))
  BY DEF Organized
<1>2. /\ r = NewRows(R, k, i) /\ v = NewSizes(W, k, w)
      /\ n.width = Larger(width, w) /\ n.height = height + Larger(h - was, 0)
  BY <1>1 DEF InsertNodeToRow, NewRows, NewSizes
<1>3. u = NewSizes(H, k, hh)
  BY <1>1 DEF InsertNodeToRow, NewSizes
<1>4. /\ w = IF new THEN MinWidth + a ELSE c + TilePadding + a
      /\ h = IF k > 1 THEN b + TilePadding ELSE b
      /\ was = IF new THEN 0 ELSE d
      /\ hh = IF new THEN h ELSE Larger(d, h)
      /\ k \in 1..(Len(R) + 1) /\ i = Cardinality(PlacesIn(R)) + 1
      /\ c = W[k] /\ d = H[k]
  OBVIOUS
<1>5. a \in Nat \ {0} /\ b \in Nat \ {0}
  BY DEF Sizes
<1>6. new \in BOOLEAN /\ (new <=> k > Len(R))
  OBVIOUS
<1> HIDE DEF new, R, W, H, w, h, was, hh, n, r, v, u, width, height, c, d, a, b
<1>7. DOMAIN W = 1..Len(R) /\ \A j \in DOMAIN W : W[j] \in Nat
  BY <1>1, Sequence
<1>8. DOMAIN H = 1..Len(R) /\ \A j \in DOMAIN H : H[j] \in Nat
  BY <1>1, Sequence
<1>9. Len(R) \in Nat
  BY <1>1, Sequence
<1>10. ~new => c \in Nat /\ d \in Nat /\ R # <<>>
  <2>1. ~new => k \in 1..Len(R)
    BY <1>4, <1>6, <1>9
  <2>2. R = <<>> => Len(R) = 0
    BY EmptySeq
  <2>3. QED
    BY <1>4, <1>7, <1>8, <1>9, <2>1, <2>2
<1>11. w \in Nat \ {0} /\ h \in Nat \ {0} /\ was \in Nat /\ hh \in Nat /\ (new => was = 0)
  <2>1. MinWidth \in Nat /\ TilePadding \in Nat
    BY PaddingTypes DEF MinWidth
  <2>2. h \in Nat \ {0}
    BY <1>4, <1>5, <2>1
  <2>3. CASE new
    BY ONLY <1>4, <1>5, <2>1, <2>2, <2>3
  <2>4. CASE ~new
    <3>1. c \in Nat /\ d \in Nat /\ w = c + TilePadding + a /\ was = d /\ hh = Larger(d, h)
      BY <1>4, <1>10, <2>4
    <3>2. QED
      BY ONLY <1>5, <2>1, <2>2, <2>4, <3>1 DEF Larger
  <2>5. QED
    BY <2>3, <2>4
<1>12. n.width \in Nat \ {0} /\ n.height \in Nat \ {0}
  <2>1. was = 0 \/ height > 0
    BY <1>1, <1>10, <1>11
  <2>2. Larger(width, w) \in Nat \ {0} /\ height + Larger(h - was, 0) \in Nat \ {0}
    BY ONLY <1>1, <1>11, <2>1, BoxSizes
  <2>3. QED
    BY <1>2, <2>2
<1>13. v \in Seq(Nat) /\ Len(v) = Larger(Len(R), k)
  <2>1. W \in Seq(Nat) /\ k \in 1..(Len(W) + 1) /\ w \in Nat
    BY <1>1, <1>4, <1>11
  <2>2. NewSizes(W, k, w) \in Seq(Nat) /\ Len(NewSizes(W, k, w)) = Larger(Len(W), k)
    BY ONLY <2>1, InsertSizes
  <2>3. QED
    BY ONLY <1>1, <1>2, <2>2
<1>14. u \in Seq(Nat) /\ Len(u) = Larger(Len(R), k)
  <2>1. H \in Seq(Nat) /\ k \in 1..(Len(H) + 1) /\ hh \in Nat
    BY <1>1, <1>4, <1>11
  <2>2. NewSizes(H, k, hh) \in Seq(Nat) /\ Len(NewSizes(H, k, hh)) = Larger(Len(H), k)
    BY ONLY <2>1, InsertSizes
  <2>3. QED
    BY ONLY <1>1, <1>3, <2>2
<1>15. /\ r \in Seq(Seq(Nat)) /\ Len(r) = Larger(Len(R), k)
       /\ IsFiniteSet(PlacesIn(r)) /\ Cardinality(PlacesIn(r)) = i /\ Members(r) = 1..i
  <2> DEFINE P == PlacesIn(R)
  <2>1. IsFiniteSet(P) /\ i = Cardinality(P) + 1
    BY <1>1, <1>4
  <2>2. Cardinality(P) \in Nat
    <3> HIDE DEF P
    <3> QED
      BY ONLY <2>1, FS_CardinalityType
  <2>3. i \in Nat
    BY ONLY <2>1, <2>2
  <2>4. R \in Seq(Seq(Nat)) /\ Members(R) = 1..Cardinality(PlacesIn(R)) /\ k \in 1..(Len(R) + 1)
    BY <1>1, <1>4
  <2>5. QED
    BY ONLY <2>1, <2>3, <2>4, <1>2, InsertRows
<1>16. Organized(n)
  BY ONLY <1>12, <1>13, <1>14, <1>15 DEF Organized, r, v, u
<1>17. QED
  BY <1>15, <1>16 DEF n, r

(***************************************************************************)
(* Sums of the first numbers of a sequence.                                *)
(***************************************************************************)
Adds(s, f, n) ==
  s \in [0..n -> Int] /\ s[0] = 0 /\ \A i \in 1..n : s[i] = s[i - 1] + f[i]

LEMMA AddsOn ==
  ASSUME NEW f, NEW n, n \in Nat, f[n + 1] \in Int, NEW s, Adds(s, f, n)
  PROVE  \E t : Adds(t, f, n + 1)
<1> DEFINE t == [i \in 0..(n + 1) |-> IF i = n + 1 THEN s[n] + f[n + 1] ELSE s[i]]
<1>1. s \in [0..n -> Int] /\ s[0] = 0 /\ \A i \in 1..n : s[i] = s[i - 1] + f[i]
  BY DEF Adds
<1>2. t \in [0..(n + 1) -> Int] /\ t[0] = 0 /\ t[n + 1] = s[n] + f[n + 1]
      /\ \A i \in 0..n : t[i] = s[i]
  BY <1>1
<1> HIDE DEF t
<1>3. ASSUME NEW i \in 1..(n + 1) PROVE t[i] = t[i - 1] + f[i]
  <2>1. CASE i = n + 1
    <3>1. i - 1 = n /\ n \in 0..n
      BY <2>1
    <3>2. t[n] = s[n]
      BY <1>2, <3>1
    <3>3. QED
      BY <1>2, <2>1, <3>1, <3>2
  <2>2. CASE i # n + 1
    <3>1. i \in 1..n /\ i \in 0..n /\ i - 1 \in 0..n
      BY <2>2
    <3>2. t[i] = s[i] /\ t[i - 1] = s[i - 1] /\ s[i] = s[i - 1] + f[i]
      BY <1>1, <1>2, <3>1
    <3>3. QED
      BY <3>2
  <2>3. QED
    BY <2>1, <2>2
<1>4. Adds(t, f, n + 1)
  BY <1>2, <1>3 DEF Adds
<1>5. QED
  BY <1>4

\* The sums of a sequence exist: of two functions that add up, one goes one
\* number further.
LEMMA SumsExist ==
  ASSUME NEW f, NEW N, N \in Nat, \A i \in 1..N : f[i] \in Int
  PROVE  \E s : Adds(s, f, N)
<1> DEFINE Bad == {n \in 0..N : ~\E s : Adds(s, f, n)}
<1>1. SUFFICES ASSUME N \in Bad PROVE FALSE
  OBVIOUS
<1>2. Bad \subseteq Nat /\ Bad # {}
  BY <1>1
<1>3. \A n \in 0..N : n \notin Bad => \E s : Adds(s, f, n)
  OBVIOUS
<1>4. \A n \in Bad : n \in 0..N /\ ~\E s : Adds(s, f, n)
  OBVIOUS
<1> HIDE DEF Bad
<1>5. PICK n \in Bad : \A k \in Bad : n <= k
  BY <1>2, LeastNatural
<1>6. n # 0
  <2> DEFINE s == [i \in 0..0 |-> 0]
  <2>1. s \in [0..0 -> Int] /\ s[0] = 0 /\ \A i \in 1..0 : FALSE
    OBVIOUS
  <2>2. Adds(s, f, 0)
    BY <2>1 DEF Adds
  <2>3. QED
    BY <1>4, <1>5, <2>2
<1> DEFINE m == n - 1
<1>7. m \in Nat /\ m \in 0..N /\ m \notin Bad /\ m + 1 = n /\ m + 1 \in 1..N
  BY <1>2, <1>4, <1>5, <1>6
<1> HIDE DEF m
<1>8. PICK s : Adds(s, f, m)
  BY <1>3, <1>7
<1>9. \E t : Adds(t, f, m + 1)
  BY <1>7, <1>8, AddsOn
<1>10. QED
  BY <1>4, <1>5, <1>7, <1>9

LEMMA SumsAdd ==
  ASSUME NEW f, f \in Seq(Int)
  PROVE  Adds(Sums(f), f, Len(f))
<1> DEFINE N == Len(f)
           IsSum(s) == s = [n \in 0..N |-> IF n = 0 THEN 0 ELSE s[n - 1] + f[n]]
<1>1. N \in Nat /\ \A i \in 1..N : f[i] \in Int
  BY Sequence
<1>2. PICK s : Adds(s, f, N)
  BY <1>1, SumsExist
<1>3. IsSum(s)
  BY <1>1, <1>2 DEF Adds
<1>4. Sums(f) = CHOOSE t : IsSum(t)
  BY DEF Sums
<1>5. IsSum(Sums(f))
  BY <1>3, <1>4
<1> DEFINE t == Sums(f)
<1>6. t = [n \in 0..N |-> IF n = 0 THEN 0 ELSE t[n - 1] + f[n]]
  BY <1>5
<1> HIDE DEF t, N, IsSum
<1>7. t[0] = 0 /\ \A i \in 1..N : t[i] = t[i - 1] + f[i]
  BY <1>1, <1>6
<1>8. \A i \in 0..N : t[i] \in Int
  <2> DEFINE Bad == {i \in 0..N : t[i] \notin Int}
  <2>1. SUFFICES ASSUME Bad # {} PROVE FALSE
    OBVIOUS
  <2>2. Bad \subseteq Nat /\ \A i \in 0..N : i \in Bad <=> t[i] \notin Int
    BY <1>1
  <2>3. \A i \in Bad : i \in 0..N
    OBVIOUS
  <2> HIDE DEF Bad
  <2>4. PICK n \in Bad : \A k \in Bad : n <= k
    BY <2>1, <2>2, LeastNatural
  <2>5. n # 0
    BY <1>1, <1>7, <2>2, <2>3, <2>4
  <2>6. n \in 1..N /\ n - 1 \in 0..N /\ n - 1 \notin Bad
    BY <1>1, <2>2, <2>3, <2>4, <2>5
  <2>7. t[n - 1] \in Int /\ f[n] \in Int /\ t[n] = t[n - 1] + f[n]
    BY <1>1, <1>7, <2>2, <2>6
  <2>8. t[n] \in Int
    BY ONLY <2>7
  <2>9. QED
    BY <2>2, <2>3, <2>4, <2>8
<1>9. t \in [0..N -> Int]
  BY <1>6, <1>8
<1>10. QED
  BY <1>7, <1>9 DEF Adds, t, N

\* So Sums, a recursive function, is what adds up.
LEMMA SumsOf ==
  ASSUME NEW f, f \in Seq(Int)
  PROVE  /\ Len(f) \in Nat /\ \A i \in 1..Len(f) : f[i] \in Int
         /\ \A i \in 0..Len(f) : Sums(f)[i] \in Int
         /\ Sums(f)[0] = 0 /\ \A i \in 1..Len(f) : Sums(f)[i] = Sums(f)[i - 1] + f[i]
<1>1. Len(f) \in Nat /\ \A i \in 1..Len(f) : f[i] \in Int
  BY Sequence
<1>2. Adds(Sums(f), f, Len(f))
  BY SumsAdd
<1>3. QED
  BY <1>1, <1>2 DEF Adds

\* If two sequences agree but for d more at place k, their sums agree up to
\* there, and differ by d from there on.
More(k, d, i) == IF k = i THEN d ELSE 0
SumMore(k, d, i) == IF 1 <= k /\ k <= i THEN d ELSE 0

Differ(f, g, n, k, d)     == \A i \in 1..n : g[i] = f[i] + More(k, d, i)
SumsDifferBy(f, g, n, k, d) == \A i \in 0..n : Sums(g)[i] = Sums(f)[i] + SumMore(k, d, i)

LEMMA SumsDiffer ==
  ASSUME NEW f, f \in Seq(Int), NEW g, g \in Seq(Int), NEW n, n \in Nat, n <= Len(f), n <= Len(g),
         NEW k, k \in Int, NEW d, d \in Int, Differ(f, g, n, k, d)
  PROVE  SumsDifferBy(f, g, n, k, d)
<1> DEFINE S == Sums(f)
           T == Sums(g)
<1>1. \A i \in 0..n : S[i] \in Int /\ T[i] \in Int
  BY SumsOf
<1>2. S[0] = 0 /\ T[0] = 0 /\ \A i \in 1..n : S[i] = S[i - 1] + f[i] /\ T[i] = T[i - 1] + g[i]
  BY SumsOf
<1>3. \A i \in 1..n : f[i] \in Int
  BY SumsOf
<1> HIDE DEF S, T
<1> DEFINE Bad == {i \in 0..n : T[i] # S[i] + SumMore(k, d, i)}
<1>4. SUFFICES ASSUME Bad # {} PROVE FALSE
  BY DEF S, T, SumsDifferBy
<1>5. Bad \subseteq Nat /\ \A i \in 0..n : i \in Bad <=> T[i] # S[i] + SumMore(k, d, i)
  OBVIOUS
<1>6. \A i \in Bad : i \in 0..n
  OBVIOUS
<1> HIDE DEF Bad
<1>7. PICK i \in Bad : \A j \in Bad : i <= j
  BY <1>4, <1>5, LeastNatural
<1>8. 0 \notin Bad
  BY <1>2, <1>5 DEF SumMore
<1>9. i \in 1..n /\ i - 1 \in 0..n /\ i - 1 \notin Bad
  <2>1. i \in 0..n /\ i # 0
    BY <1>6, <1>7, <1>8
  <2>2. i \in 1..n /\ i - 1 \in 0..n /\ ~(i <= i - 1)
    BY <2>1
  <2> QED
    BY ONLY <2>2, <1>7
<1>10. T[i - 1] = S[i - 1] + SumMore(k, d, i - 1)
  BY <1>5, <1>9
<1>11. T[i] = T[i - 1] + g[i] /\ S[i] = S[i - 1] + f[i] /\ g[i] = f[i] + More(k, d, i)
  BY <1>2, <1>9 DEF Differ
<1>12. SumMore(k, d, i) = SumMore(k, d, i - 1) + More(k, d, i)
       /\ SumMore(k, d, i - 1) \in Int /\ More(k, d, i) \in Int
  BY <1>9 DEF SumMore, More
<1>13. S[i - 1] \in Int /\ f[i] \in Int
  BY <1>1, <1>3, <1>9
<1>14. T[i] = S[i] + SumMore(k, d, i)
  BY ONLY <1>10, <1>11, <1>12, <1>13
<1>15. QED
  BY <1>5, <1>6, <1>7, <1>14

Agree(f, g, n)     == \A i \in 1..n : g[i] = f[i]
SumsAgreeTo(f, g, n) == \A i \in 0..n : Sums(g)[i] = Sums(f)[i]

LEMMA SumsAgree ==
  ASSUME NEW f, f \in Seq(Int), NEW g, g \in Seq(Int), NEW n, n \in Nat, n <= Len(f), n <= Len(g),
         Agree(f, g, n)
  PROVE  SumsAgreeTo(f, g, n)
<1> DEFINE z == 0
<1>1. z \in Int /\ z = 0
  OBVIOUS
<1>2. \A i : More(z, z, i) = 0 /\ SumMore(z, z, i) = 0
  BY DEF More, SumMore
<1> HIDE DEF z
<1>3. Differ(f, g, n, z, z)
  <2>1. \A i \in 1..n : f[i] \in Int
    BY SumsOf
  <2>2. QED
    BY <1>2, <2>1 DEF Differ, Agree
<1>4. SumsDifferBy(f, g, n, z, z)
  BY ONLY <1>1, <1>3, SumsDiffer, f \in Seq(Int), g \in Seq(Int), n \in Nat, n <= Len(f), n <= Len(g)
<1>5. \A i \in 0..n : Sums(f)[i] \in Int
  BY SumsOf
<1>6. QED
  BY ONLY <1>2, <1>4, <1>5 DEF SumsDifferBy, SumsAgreeTo

\* Sums of what is not negative rise.
LEMMA SumsRise ==
  ASSUME NEW f, f \in Seq(Int), \A i \in 1..Len(f) : f[i] >= 0,
         NEW a, NEW b, a \in 0..Len(f), b \in 0..Len(f), a <= b
  PROVE  Sums(f)[a] <= Sums(f)[b]
<1> DEFINE S == Sums(f)
           n == Len(f)
<1>1. n \in Nat /\ \A i \in 0..n : S[i] \in Int
  BY SumsOf
<1>2. \A i \in 1..n : S[i] = S[i - 1] + f[i] /\ f[i] \in Int /\ f[i] >= 0
  BY SumsOf
<1>3. a \in 0..n /\ b \in 0..n
  OBVIOUS
<1> HIDE DEF S, n
<1> DEFINE Bad == {i \in 0..n : a <= i /\ S[i] < S[a]}
<1>4. Bad \subseteq Nat /\ \A i \in 0..n : i \in Bad <=> a <= i /\ S[i] < S[a]
  BY <1>1
<1>5. \A i \in Bad : i \in 0..n
  OBVIOUS
<1> HIDE DEF Bad
<1>6. SUFFICES ASSUME Bad # {} PROVE FALSE
  <2>1. Bad = {} => S[a] <= S[b]
    BY <1>1, <1>3, <1>4
  <2>2. QED
    BY <2>1 DEF S, n
<1>7. PICK i \in Bad : \A j \in Bad : i <= j
  BY <1>6, <1>4, LeastNatural
<1>8. a <= i /\ S[i] < S[a] /\ i \in 0..n
  BY <1>4, <1>5, <1>7
<1>9. i # a
  BY <1>1, <1>3, <1>8
<1>10. i \in 1..n /\ i - 1 \in 0..n /\ a <= i - 1 /\ i - 1 \notin Bad
  BY <1>1, <1>3, <1>7, <1>8, <1>9
<1>11. ~(S[i - 1] < S[a]) /\ S[i] = S[i - 1] + f[i] /\ f[i] \in Int /\ f[i] >= 0 /\ S[i - 1] \in Int /\ S[a] \in Int
  BY <1>1, <1>2, <1>3, <1>4, <1>10
<1>12. QED
  BY ONLY <1>8, <1>11

(***************************************************************************)
(* Tiling: what the sizes of an organization are made of.                  *)
(***************************************************************************)
LEMMA NewRow ==
  ASSUME NEW R, R \in Seq(Seq(Nat)), NEW i, i \in Nat, NEW k, k \in 1..(Len(R) + 1)
  PROVE  /\ k > Len(R) => NewRows(R, k, i)[k] = <<i>>
         /\ ~(k > Len(R)) => NewRows(R, k, i)[k] = Append(R[k], i)
<1>1. Len(R) \in Nat /\ DOMAIN R = 1..Len(R)
  BY Sequence
<1> DEFINE r == NewRows(R, k, i)
<1>2. r = IF k > Len(R) THEN Append(R, <<i>>) ELSE [R EXCEPT ![k] = Append(@, i)]
  BY DEF NewRows
<1> HIDE DEF r
<1>3. CASE k > Len(R)
  <2> DEFINE one == <<i>>
  <2>1. r = Append(R, one) /\ k = Len(R) + 1 /\ one \in Seq(Nat)
    BY <1>1, <1>2, <1>3
  <2> HIDE DEF one
  <2>2. r[k] = one
    BY <2>1, Appended
  <2>3. QED
    BY <1>3, <2>2 DEF r, one
<1>4. CASE ~(k > Len(R))
  <2> DEFINE e == Append(R[k], i)
  <2>1. k \in DOMAIN R /\ r = [R EXCEPT ![k] = e]
    BY <1>1, <1>2, <1>4
  <2> HIDE DEF e
  <2>2. r[k] = e
    BY <2>1
  <2>3. QED
    BY <1>4, <2>2 DEF r, e
<1>5. QED
  BY <1>3, <1>4

\* The size of the row k that has been given a size, and those of the others.
LEMMA NewSizesAt ==
  ASSUME NEW N, NEW W, W \in Seq(N), NEW k, k \in 1..(Len(W) + 1), NEW w, w \in N
  PROVE  NewSizes(W, k, w)[k] = w /\ \A j \in DOMAIN W : j # k => NewSizes(W, k, w)[j] = W[j]
<1>1. Len(W) \in Nat /\ DOMAIN W = 1..Len(W)
  BY Sequence
<1> DEFINE v == NewSizes(W, k, w)
<1>2. v = IF k > Len(W) THEN Append(W, w) ELSE [W EXCEPT ![k] = w]
  BY DEF NewSizes
<1> HIDE DEF v
<1>3. CASE k > Len(W)
  <2>1. v = Append(W, w) /\ k = Len(W) + 1
    BY <1>1, <1>2, <1>3
  <2>2. v[k] = w /\ \A j \in DOMAIN W : v[j] = W[j]
    BY <2>1, Appended
  <2>3. QED
    BY <2>2 DEF v
<1>4. CASE ~(k > Len(W))
  <2>1. k \in DOMAIN W /\ v = [W EXCEPT ![k] = w]
    BY <1>1, <1>2, <1>4
  <2>2. v[k] = w /\ \A j \in DOMAIN W : j # k => v[j] = W[j]
    BY ONLY <2>1
  <2>3. QED
    BY <2>2 DEF v
<1>5. QED
  BY <1>3, <1>4

\* A function from the first numbers is a sequence.
LEMMA FamilyIsSeq ==
  ASSUME NEW n, n \in Nat, NEW f, f \in [1..n -> Int]
  PROVE  f \in Seq(Int) /\ Len(f) = n
<1>1. f \in Seq(Int)
  BY SeqDef
<1>2. QED
  BY <1>1, LenProperties

\* The numbers in a row are those of members.
LEMMA RowOf ==
  ASSUME NEW o, Organized(o), NEW sizes, sizes \in Seq(Sizes), Members(o.rows) \subseteq DOMAIN sizes,
         NEW k, k \in DOMAIN o.rows
  PROVE  /\ o.rows[k] \in Seq(Nat) /\ Len(o.rows[k]) \in Nat /\ DOMAIN o.rows[k] = 1..Len(o.rows[k])
         /\ \A j \in DOMAIN o.rows[k] : /\ o.rows[k][j] \in DOMAIN sizes
                                        /\ sizes[o.rows[k][j]].w \in Nat \ {0}
                                        /\ sizes[o.rows[k][j]].h \in Nat \ {0}
<1> DEFINE R == o.rows
           s == R[k]
<1>1. R \in Seq(Seq(Nat)) /\ k \in DOMAIN R /\ Members(R) \subseteq DOMAIN sizes
  BY DEF Organized
<1> HIDE DEF R
<1>2. s \in Seq(Nat)
  BY <1>1, Sequence
<1>3. \A x \in ToSet(s) : x \in DOMAIN sizes
  BY <1>1, InMembers
<1> HIDE DEF s
<1>4. Len(s) \in Nat /\ DOMAIN s = 1..Len(s)
  BY <1>2, Sequence
<1>5. \A j \in DOMAIN s : s[j] \in DOMAIN sizes
  BY <1>3 DEF ToSet
<1>6. \A x \in DOMAIN sizes : sizes[x].w \in Nat \ {0} /\ sizes[x].h \in Nat \ {0}
  <2>1. \A x \in DOMAIN sizes : sizes[x] \in Sizes
    BY Sequence
  <2>2. QED
    BY <2>1 DEF Sizes
<1>7. QED
  BY <1>2, <1>4, <1>5, <1>6 DEF s, R

LEMMA WidthsOf ==
  ASSUME NEW o, Organized(o), NEW sizes, sizes \in Seq(Sizes), Members(o.rows) \subseteq DOMAIN sizes,
         NEW k, k \in DOMAIN o.rows
  PROVE  /\ Widths(o, sizes, k) \in Seq(Int) /\ Len(Widths(o, sizes, k)) = Len(o.rows[k])
         /\ \A j \in 1..Len(o.rows[k]) :
              /\ Widths(o, sizes, k)[j] = sizes[o.rows[k][j]].w + TilePadding
              /\ Widths(o, sizes, k)[j] >= 0
<1> DEFINE s == o.rows[k]
           f == Widths(o, sizes, k)
<1>1. Len(s) \in Nat /\ DOMAIN s = 1..Len(s) /\ \A j \in DOMAIN s : sizes[s[j]].w \in Nat \ {0}
  BY RowOf
<1>2. f = [j \in DOMAIN s |-> sizes[s[j]].w + TilePadding]
  BY DEF Widths
<1> HIDE DEF s, f
<1>3. TilePadding \in Nat
  BY PaddingTypes
<1>4. f \in [1..Len(s) -> Int] /\ \A j \in 1..Len(s) : f[j] = sizes[s[j]].w + TilePadding /\ f[j] >= 0
  BY <1>1, <1>2, <1>3
<1>5. f \in Seq(Int) /\ Len(f) = Len(s)
  BY <1>1, <1>4, FamilyIsSeq
<1>6. QED
  BY <1>4, <1>5 DEF s, f

\* The greatest of a set with one more number.
LEMMA MaxMore ==
  ASSUME NEW S, S \subseteq Int, IsFiniteSet(S), NEW x, x \in Int
  PROVE  Max(S \cup {x}) = (IF S = {} THEN x ELSE Larger(Max(S), x))
<1> DEFINE T == S \cup {x}
<1>1. T \subseteq Int /\ T # {} /\ IsFiniteSet(T)
  BY FS_AddElement
<1>2. Max(T) \in T /\ \A k \in T : k <= Max(T)
  BY <1>1, MinAndMax
<1>3. CASE S = {}
  BY <1>2, <1>3
<1>4. CASE S # {}
  <2>1. Max(S) \in S /\ \A k \in S : k <= Max(S)
    BY <1>4, MinAndMax
  <2> DEFINE m == Max(S)
             n == Max(T)
  <2>2. /\ m \in S /\ n \in T /\ m \in Int /\ n \in Int
        /\ m <= n /\ x <= n /\ (n = x \/ n <= m)
    BY <1>2, <2>1
  <2> HIDE DEF m, n
  <2>3. n = Larger(m, x)
    BY ONLY <2>2, x \in Int DEF Larger
  <2>4. QED
    BY <1>4, <2>3 DEF m, n
<1>5. QED
  BY <1>3, <1>4

\* The heights of the members of a row.
HeightsIn(s, sizes) == {sizes[i].h : i \in ToSet(s)}

\* What a function makes of a finite set.
LEMMA FiniteImage ==
  ASSUME NEW D, IsFiniteSet(D), NEW f, DOMAIN f = D, NEW S, \A y : y \in S <=> \E x \in D : y = f[x]
  PROVE  IsFiniteSet(S)
<1> DEFINE g == [x \in D |-> f[x]]
<1>1. g \in Surjection(D, S)
  BY DEF Surjection
<1> HIDE DEF g
<1>2. QED
  BY <1>1, FS_Surjection

\* The heights in a row are some finite numbers.
LEMMA HeightsInRow ==
  ASSUME NEW o, Organized(o), NEW sizes, sizes \in Seq(Sizes), Members(o.rows) \subseteq DOMAIN sizes,
         NEW k, k \in DOMAIN o.rows
  PROVE  /\ HeightsIn(o.rows[k], sizes) \subseteq Int /\ IsFiniteSet(HeightsIn(o.rows[k], sizes))
         /\ \A j \in DOMAIN o.rows[k] : sizes[o.rows[k][j]].h \in HeightsIn(o.rows[k], sizes)
         /\ \A x \in HeightsIn(o.rows[k], sizes) : x > 0
         /\ RowHeight(o, sizes, k) = Max(HeightsIn(o.rows[k], sizes))
<1> DEFINE s == o.rows[k]
           S == HeightsIn(s, sizes)
<1>1. Len(s) \in Nat /\ DOMAIN s = 1..Len(s) /\ \A j \in DOMAIN s : sizes[s[j]].h \in Nat \ {0}
  BY RowOf
<1>2. RowHeight(o, sizes, k) = Max(S)
  BY DEF RowHeight, HeightsIn
<1> HIDE DEF s
<1>3. IsFiniteSet(ToSet(s))
  BY <1>1, FiniteRange
<1>4. IsFiniteSet(S)
  <2> DEFINE D == ToSet(s)
             f == [i \in D |-> sizes[i].h]
  <2>1. DOMAIN f = D /\ \A y : y \in S <=> \E x \in D : y = f[x]
    BY DEF HeightsIn
  <2> HIDE DEF f, S, D
  <2>2. IsFiniteSet(D)
    BY <1>3 DEF D
  <2>3. QED
    BY ONLY <2>1, <2>2, FiniteImage
<1>5. \A x \in S : \E j \in DOMAIN s : x = sizes[s[j]].h
  BY DEF HeightsIn, ToSet
<1>6. \A j \in DOMAIN s : sizes[s[j]].h \in S
  BY DEF HeightsIn, ToSet
<1> HIDE DEF S
<1>7. S \subseteq Int /\ \A x \in S : x > 0
  BY <1>1, <1>5
<1>8. QED
  BY <1>2, <1>4, <1>6, <1>7 DEF S, s

LEMMA RowHeightOf ==
  ASSUME NEW o, Organized(o), NEW sizes, sizes \in Seq(Sizes), Members(o.rows) \subseteq DOMAIN sizes,
         NEW k, k \in DOMAIN o.rows, Len(o.rows[k]) > 0
  PROVE  /\ RowHeight(o, sizes, k) \in Int /\ RowHeight(o, sizes, k) > 0
         /\ \A j \in DOMAIN o.rows[k] : sizes[o.rows[k][j]].h <= RowHeight(o, sizes, k)
<1> DEFINE s == o.rows[k]
           S == HeightsIn(s, sizes)
<1>1. /\ S \subseteq Int /\ IsFiniteSet(S) /\ \A j \in DOMAIN s : sizes[s[j]].h \in S
      /\ \A x \in S : x > 0
      /\ RowHeight(o, sizes, k) = Max(S)
  BY HeightsInRow
<1>2. 1 \in DOMAIN s
  BY RowOf
<1> HIDE DEF S, s
<1>3. Max(S) \in S /\ \A x \in S : x <= Max(S)
  BY <1>1, <1>2, MinAndMax
<1>4. QED
  BY <1>1, <1>3 DEF s

\* The heights of the rows, which adjustLocations goes down by.
LEMMA HeightsOf ==
  ASSUME NEW o, Organized(o), NEW sizes, sizes \in Seq(Sizes), Members(o.rows) \subseteq DOMAIN sizes,
         \A k \in DOMAIN o.rows : Len(o.rows[k]) > 0
  PROVE  /\ Heights(o, sizes) \in Seq(Int) /\ Len(Heights(o, sizes)) = Len(o.rows)
         /\ Len(o.rows) \in Nat /\ DOMAIN o.rows = 1..Len(o.rows)
         /\ \A k \in 1..Len(o.rows) : /\ Heights(o, sizes)[k] = RowHeight(o, sizes, k) + TilePadding
                                      /\ Heights(o, sizes)[k] >= 0
<1> DEFINE R == o.rows
           f == Heights(o, sizes)
           h == [k \in DOMAIN R |-> RowHeight(o, sizes, k)]
<1>1. \A k \in DOMAIN R : h[k] = RowHeight(o, sizes, k) /\ h[k] \in Int /\ h[k] > 0
  BY RowHeightOf
<1>2. f = [k \in DOMAIN R |-> h[k] + TilePadding] /\ R \in Seq(Seq(Nat))
  BY DEF Heights, Organized
<1> HIDE DEF R, f, h
<1>3. TilePadding \in Nat
  BY PaddingTypes
<1>4. Len(R) \in Nat /\ DOMAIN R = 1..Len(R)
  BY <1>2, Sequence
<1>5. f \in [1..Len(R) -> Int] /\ \A k \in 1..Len(R) : f[k] = h[k] + TilePadding /\ f[k] >= 0
  <2>1. \A k \in DOMAIN R : f[k] = h[k] + TilePadding
    BY ONLY <1>2
  <2>2. \A k \in DOMAIN R : f[k] \in Int /\ f[k] >= 0
    <3>1. TAKE k \in DOMAIN R
    <3>2. h[k] \in Int /\ h[k] > 0 /\ f[k] = h[k] + TilePadding
      BY <1>1, <2>1
    <3>3. QED
      BY ONLY <1>3, <3>2
  <2>3. f = [k \in DOMAIN R |-> f[k]]
    BY ONLY <1>2
  <2>4. QED
    BY ONLY <1>4, <2>1, <2>2, <2>3
<1>6. f \in Seq(Int) /\ Len(f) = Len(R)
  BY <1>4, <1>5, FamilyIsSeq
<1>7. \A k \in 1..Len(R) : f[k] = RowHeight(o, sizes, k) + TilePadding /\ f[k] >= 0
  BY <1>1, <1>4, <1>5
<1>8. QED
  BY <1>4, <1>6, <1>7 DEF R, f

LEMMA HeightsOfOne ==
  ASSUME NEW sizes, NEW i, NEW s, s = <<i>>
  PROVE  HeightsIn(s, sizes) = {sizes[i].h}
<1>1. ToSet(s) = {i}
  BY DEF ToSet
<1>2. QED
  BY <1>1 DEF HeightsIn

\* The heights in a row with one more member.
LEMMA HeightsOfMore ==
  ASSUME NEW sizes, NEW i, i \in Nat, NEW s, s \in Seq(Nat)
  PROVE  HeightsIn(Append(s, i), sizes) = HeightsIn(s, sizes) \cup {sizes[i].h}
<1> DEFINE N == Nat
           e == i
           t == Append(s, e)
<1>1. s \in Seq(N) /\ e \in N
  OBVIOUS
<1> HIDE DEF N, e
<1>2. ToSet(t) = ToSet(s) \cup {e}
  BY ONLY <1>1, Appended
<1> HIDE DEF t
<1>3. HeightsIn(t, sizes) = HeightsIn(s, sizes) \cup {sizes[e].h}
  BY ONLY <1>2 DEF HeightsIn
<1>4. QED
  BY <1>3 DEF t, e

\* What insertNodeToRow does to a row there is and with a new one.
RowPad(k) == IF k > 1 THEN TilePadding ELSE 0
(***************************************************************************)
(* Tiling: the sizes are those of the rows, with one more member in a row  *)
(* there is, or in a new one.                                              *)
(***************************************************************************)
Inserts(n, o, k, i, a, b) ==
  /\ DOMAIN n.rows = DOMAIN o.rows \cup {k}
  /\ \A j \in DOMAIN o.rows : j # k => /\ n.rows[j] = o.rows[j] /\ n.rowWidth[j] = o.rowWidth[j]
                                       /\ n.rowHeight[j] = o.rowHeight[j]
  /\ k \in DOMAIN o.rows =>
       /\ n.rows[k] = Append(o.rows[k], i) /\ n.rowWidth[k] = o.rowWidth[k] + TilePadding + a
       /\ n.rowHeight[k] = Larger(o.rowHeight[k], b + RowPad(k))
       /\ n.height = o.height + Larger((b + RowPad(k)) - o.rowHeight[k], 0)
  /\ k \notin DOMAIN o.rows =>
       /\ k = Len(o.rows) + 1 /\ n.rows[k] = <<i>> /\ n.rowWidth[k] = MinWidth + a
       /\ n.rowHeight[k] = b + RowPad(k) /\ n.height = o.height + b + RowPad(k)
  /\ n.width = Larger(o.width, n.rowWidth[k])

\* insertNodeToRow, field by field.
LEMMA InsertIs ==
  ASSUME NEW o, Organized(o), NEW i, i \in Nat, NEW size \in Sizes, NEW k \in 1..(Len(o.rows) + 1)
  PROVE  Inserts(InsertNodeToRow(o, i, size, k), o, k, i, size.w, size.h)
<1> DEFINE new == k > Len(o.rows)
           R == o.rows
           W == o.rowWidth
           H == o.rowHeight
           w == IF new THEN MinWidth + size.w ELSE o.rowWidth[k] + TilePadding + size.w
           h == IF k > 1 THEN size.h + TilePadding ELSE size.h
           was == IF new THEN 0 ELSE o.rowHeight[k]
           hh == IF new THEN h ELSE Larger(o.rowHeight[k], h)
           n == InsertNodeToRow(o, i, size, k)
           r == n.rows
           v == n.rowWidth
           u == n.rowHeight
           width == o.width
           height == o.height
           c == W[k]
           d == H[k]
           a == size.w
           b == size.h
<1>1. i \in Nat
  OBVIOUS
<1>2. /\ R \in Seq(Seq(Nat)) /\ W \in Seq(Nat) /\ H \in Seq(Nat)
      /\ Len(W) = Len(R) /\ Len(H) = Len(R)
      /\ width \in Nat /\ height \in Nat
  BY DEF Organized
<1>3. /\ r = NewRows(R, k, i) /\ v = NewSizes(W, k, w)
      /\ n.width = Larger(width, w) /\ n.height = height + Larger(h - was, 0)
  BY <1>2 DEF InsertNodeToRow, NewRows, NewSizes
<1>4. u = NewSizes(H, k, hh)
  BY <1>2 DEF InsertNodeToRow, NewSizes
<1>5. /\ w = IF new THEN MinWidth + a ELSE c + TilePadding + a
      /\ h = IF k > 1 THEN b + TilePadding ELSE b
      /\ was = IF new THEN 0 ELSE d
      /\ hh = IF new THEN h ELSE Larger(d, h)
      /\ k \in 1..(Len(R) + 1)
      /\ c = W[k] /\ d = H[k]
  OBVIOUS
<1>6. a \in Nat \ {0} /\ b \in Nat \ {0}
  BY DEF Sizes
<1>7. new \in BOOLEAN /\ (new <=> k > Len(R))
  OBVIOUS
<1> HIDE DEF new, R, W, H, w, h, was, hh, n, r, v, u, width, height, c, d, a, b
<1>8. DOMAIN W = 1..Len(R) /\ \A j \in DOMAIN W : W[j] \in Nat
  BY <1>2, Sequence
<1>9. DOMAIN H = 1..Len(R) /\ \A j \in DOMAIN H : H[j] \in Nat
  BY <1>2, Sequence
<1>10. Len(R) \in Nat /\ DOMAIN R = 1..Len(R)
  BY <1>2, Sequence
<1>11. (new <=> k \notin DOMAIN R) /\ (new => k = Len(R) + 1)
  BY <1>5, <1>7, <1>10
<1>12. MinWidth \in Nat /\ TilePadding \in Nat
  BY PaddingTypes DEF MinWidth
<1>13. h = b + RowPad(k) /\ h \in Nat \ {0}
  BY <1>5, <1>6, <1>12 DEF RowPad
<1>14. ~new => c \in Nat /\ d \in Nat
  BY <1>5, <1>8, <1>9, <1>10, <1>11
<1>15. w \in Nat /\ hh \in Nat
  <2>1. CASE new
    BY <1>5, <1>6, <1>12, <1>13, <2>1
  <2>2. CASE ~new
    <3>1. w = c + TilePadding + a /\ hh = Larger(d, h)
      BY <1>5, <2>2
    <3>2. QED
      BY <1>6, <1>12, <1>13, <1>14, <2>2, <3>1 DEF Larger
  <2>3. QED
    BY <2>1, <2>2
<1>16. v[k] = w /\ \A j \in DOMAIN R : j # k => v[j] = W[j]
  <2>1. W \in Seq(Nat) /\ k \in 1..(Len(W) + 1) /\ w \in Nat
    BY <1>2, <1>5, <1>15
  <2> DEFINE N == Nat
  <2>2. W \in Seq(N) /\ w \in N
    BY <2>1
  <2>3. k \in 1..(Len(W) + 1)
    BY <2>1
  <2> HIDE DEF N
  <2>4. NewSizes(W, k, w)[k] = w /\ \A j \in DOMAIN W : j # k => NewSizes(W, k, w)[j] = W[j]
    BY ONLY <2>3, <2>2, NewSizesAt
  <2>5. QED
    BY ONLY <1>3, <1>8, <1>10, <2>4
<1>17. u[k] = hh /\ \A j \in DOMAIN R : j # k => u[j] = H[j]
  <2>1. H \in Seq(Nat) /\ k \in 1..(Len(H) + 1) /\ hh \in Nat
    BY <1>2, <1>5, <1>15
  <2> DEFINE N == Nat
  <2>2. H \in Seq(N) /\ hh \in N
    BY <2>1
  <2>3. k \in 1..(Len(H) + 1)
    BY <2>1
  <2> HIDE DEF N
  <2>4. NewSizes(H, k, hh)[k] = hh /\ \A j \in DOMAIN H : j # k => NewSizes(H, k, hh)[j] = H[j]
    BY ONLY <2>3, <2>2, NewSizesAt
  <2>5. QED
    BY ONLY <1>4, <1>9, <1>10, <2>4
<1>18. DOMAIN r = DOMAIN R \cup {k} /\ \A j \in DOMAIN R : j # k => r[j] = R[j]
  <2>1. Extends(r, R, k, NextPlace(R, k), i)
    BY ONLY <1>1, <1>2, <1>3, <1>5, InsertPlaces
  <2>2. QED
    BY <2>1 DEF Extends
<1>19. (new => r[k] = <<i>>) /\ (~new => r[k] = Append(R[k], i))
  <2>1. /\ k > Len(R) => NewRows(R, k, i)[k] = <<i>>
        /\ ~(k > Len(R)) => NewRows(R, k, i)[k] = Append(R[k], i)
    BY ONLY <1>1, <1>2, <1>5, NewRow
  <2>2. QED
    BY <1>3, <1>7, <2>1
<1>20. k \in DOMAIN R => /\ r[k] = Append(R[k], i) /\ v[k] = W[k] + TilePadding + a
                         /\ u[k] = Larger(H[k], b + RowPad(k))
                         /\ n.height = height + Larger((b + RowPad(k)) - H[k], 0)
  <2>1. SUFFICES ASSUME ~new
                 PROVE  /\ r[k] = Append(R[k], i) /\ v[k] = W[k] + TilePadding + a
                        /\ u[k] = Larger(H[k], b + RowPad(k))
                        /\ n.height = height + Larger((b + RowPad(k)) - H[k], 0)
    BY <1>11
  <2>2. w = c + TilePadding + a /\ was = d /\ hh = Larger(d, h) /\ c = W[k] /\ d = H[k]
    BY <1>5, <2>1
  <2>3. n.height = height + Larger(h - was, 0)
    BY <1>3
  <2>4. r[k] = Append(R[k], i)
    BY <1>19, <2>1
  <2>5. v[k] = W[k] + TilePadding + a
    <3>1. v[k] = c + TilePadding + a
      BY <1>16, <2>2
    <3>2. QED
      BY ONLY <2>2, <3>1
  <2>6. u[k] = Larger(H[k], b + RowPad(k))
    BY ONLY <1>13, <1>17, <2>2
  <2>7. n.height = height + Larger((b + RowPad(k)) - H[k], 0)
    <3> DEFINE hx == b + RowPad(k)
    <3>1. h = hx /\ was = H[k]
      BY <1>13, <2>2
    <3>2. n.height = height + Larger(hx - H[k], 0)
      <4> HIDE DEF hx
      <4>1. QED
        BY ONLY <2>3, <3>1
    <3>3. QED
      BY <3>2
  <2>8. QED
    BY <2>4, <2>5, <2>6, <2>7
<1>21. k \notin DOMAIN R => /\ k = Len(R) + 1 /\ r[k] = <<i>> /\ v[k] = MinWidth + a
                            /\ u[k] = b + RowPad(k) /\ n.height = height + b + RowPad(k)
  <2>1. SUFFICES ASSUME new PROVE /\ k = Len(R) + 1 /\ r[k] = <<i>> /\ v[k] = MinWidth + a
                                  /\ u[k] = b + RowPad(k) /\ n.height = height + b + RowPad(k)
    BY <1>11
  <2>2. was = 0 /\ hh = h /\ w = MinWidth + a
    BY <1>5, <2>1
  <2>3. Larger(h - was, 0) = h
    BY <1>13, <2>2 DEF Larger
  <2>4. n.height = height + b + RowPad(k)
    <3>1. RowPad(k) \in Nat
      BY <1>12 DEF RowPad
    <3>2. QED
      BY ONLY <1>2, <1>3, <1>6, <1>13, <2>3, <3>1
  <2>5. QED
    BY <1>11, <1>13, <1>16, <1>17, <1>19, <2>1, <2>2, <2>4
<1>22. n.width = Larger(width, v[k])
  BY <1>3, <1>16
<1>23. Inserts(n, o, k, i, a, b)
  BY ONLY <1>16, <1>17, <1>18, <1>20, <1>21, <1>22 DEF Inserts, R, W, H, r, v, u, width, height
<1>24. QED
  BY <1>23 DEF n, a, b

LEMMA SameRow ==
  ASSUME NEW o, NEW n, NEW sizes, NEW j, n.rows[j] = o.rows[j]
  PROVE  Widths(n, sizes, j) = Widths(o, sizes, j) /\ RowHeight(n, sizes, j) = RowHeight(o, sizes, j)
BY DEF Widths, RowHeight

\* The rows a member does not go into keep their sizes.
LEMMA FitsStill ==
  ASSUME NEW o, NEW n, NEW sizes, NEW j, Fits(o, sizes, j), n.rows[j] = o.rows[j],
         n.rowWidth[j] = o.rowWidth[j], n.rowHeight[j] = o.rowHeight[j],
         o.rowWidth[j] \in Int, o.width \in Int, n.width \in Int, o.width <= n.width
  PROVE  Fits(n, sizes, j)
<1>1. Widths(n, sizes, j) = Widths(o, sizes, j) /\ RowHeight(n, sizes, j) = RowHeight(o, sizes, j)
  BY SameRow
<1>2. /\ Len(o.rows[j]) > 0
      /\ o.rowWidth[j] + TilePadding = MinWidth + Sums(Widths(o, sizes, j))[Len(o.rows[j])]
      /\ o.rowWidth[j] <= o.width
      /\ o.rowHeight[j] = RowHeight(o, sizes, j) + (IF j > 1 THEN TilePadding ELSE 0)
  BY DEF Fits
<1>3. n.rowWidth[j] <= n.width
  BY <1>2
<1>4. Len(n.rows[j]) > 0
  BY <1>2
<1>5. n.rowWidth[j] + TilePadding = MinWidth + Sums(Widths(n, sizes, j))[Len(n.rows[j])]
  BY <1>1, <1>2
<1>6. n.rowHeight[j] = RowHeight(n, sizes, j) + (IF j > 1 THEN TilePadding ELSE 0)
  BY <1>1, <1>2
<1>7. QED
  BY <1>3, <1>4, <1>5, <1>6 DEF Fits

\* What the lemmas on insertions are about: the member i of sizes goes into row
\* k of o, which makes n.
Insertion(o, n, sizes, k, i) ==
  /\ Organized(o) /\ Organized(n) /\ sizes \in Seq(Sizes)
  /\ Members(o.rows) \subseteq DOMAIN sizes /\ Members(n.rows) \subseteq DOMAIN sizes
  /\ i \in DOMAIN sizes /\ k \in 1..(Len(o.rows) + 1)
  /\ Inserts(n, o, k, i, sizes[i].w, sizes[i].h)
  /\ \A j \in DOMAIN o.rows : Fits(o, sizes, j)

\* What an insertion takes and makes is of the right kind.
LEMMA InsertionTypes ==
  ASSUME NEW o, NEW n, NEW sizes, NEW k, NEW i, Insertion(o, n, sizes, k, i)
  PROVE  /\ Len(o.rows) \in Nat /\ DOMAIN o.rows = 1..Len(o.rows)
         /\ \A j \in DOMAIN o.rows : o.rowWidth[j] \in Nat /\ o.rowHeight[j] \in Nat
         /\ o.width \in Nat /\ n.width \in Nat
         /\ sizes[i].w \in Nat \ {0} /\ sizes[i].h \in Nat \ {0} /\ i \in Nat
         /\ k \in DOMAIN n.rows /\ n.rowWidth[k] \in Nat /\ RowPad(k) \in Nat
<1>1. Organized(o) /\ Organized(n) /\ sizes \in Seq(Sizes) /\ i \in DOMAIN sizes
      /\ DOMAIN n.rows = DOMAIN o.rows \cup {k}
  BY DEF Insertion, Inserts
<1>2. ASSUME NEW q, Organized(q)
      PROVE  /\ Len(q.rows) \in Nat /\ DOMAIN q.rows = 1..Len(q.rows) /\ q.width \in Nat
             /\ \A j \in DOMAIN q.rows : q.rowWidth[j] \in Nat /\ q.rowHeight[j] \in Nat
  <2> DEFINE R == q.rows
             W == q.rowWidth
             H == q.rowHeight
  <2>1. R \in Seq(Seq(Nat)) /\ W \in Seq(Nat) /\ H \in Seq(Nat) /\ Len(W) = Len(R) /\ Len(H) = Len(R)
        /\ q.width \in Nat
    BY <1>2 DEF Organized
  <2> HIDE DEF R, W, H
  <2>2. Len(R) \in Nat /\ DOMAIN R = 1..Len(R)
    BY <2>1, Sequence
  <2>3. DOMAIN W = 1..Len(R) /\ \A j \in DOMAIN W : W[j] \in Nat
    BY <2>1, Sequence
  <2>4. DOMAIN H = 1..Len(R) /\ \A j \in DOMAIN H : H[j] \in Nat
    BY <2>1, Sequence
  <2>5. QED
    BY <2>1, <2>2, <2>3, <2>4 DEF R, W, H
<1>3. sizes[i].w \in Nat \ {0} /\ sizes[i].h \in Nat \ {0} /\ i \in Nat
  <2>1. DOMAIN sizes = 1..Len(sizes) /\ Len(sizes) \in Nat /\ sizes[i] \in Sizes
    BY <1>1, Sequence
  <2>2. QED
    BY <1>1, <2>1 DEF Sizes
<1>4. TilePadding \in Nat
  BY PaddingTypes
<1>5. QED
  BY <1>1, <1>2, <1>3, <1>4 DEF RowPad

\* A row of its own is as wide and as high as the member.
LEMMA FitsNew ==
  ASSUME NEW o, NEW n, NEW sizes, NEW k, NEW i, Insertion(o, n, sizes, k, i), k \notin DOMAIN o.rows
  PROVE  Fits(n, sizes, k) /\ RowHeight(n, sizes, k) = sizes[i].h
<1> DEFINE f == Widths(n, sizes, k)
           a == sizes[i].w
           b == sizes[i].h
           s == n.rows[k]
           W == n.rowWidth[k]
           H == n.rowHeight[k]
<1>1. s = <<i>> /\ W = MinWidth + a /\ H = b + RowPad(k) /\ n.width = Larger(o.width, W)
  BY DEF Insertion, Inserts
<1>2. /\ a \in Nat \ {0} /\ b \in Nat \ {0} /\ o.width \in Nat /\ n.width \in Nat /\ W \in Nat
      /\ k \in DOMAIN n.rows /\ i \in Nat
  BY InsertionTypes
<1>3. Organized(n) /\ sizes \in Seq(Sizes) /\ Members(n.rows) \subseteq DOMAIN sizes
  BY DEF Insertion
<1>4. Len(s) = 1 /\ s[1] = i
  BY <1>1, <1>2
<1>5. f \in Seq(Int) /\ Len(f) = 1 /\ f[1] = a + TilePadding
  <2>1. /\ f \in Seq(Int) /\ Len(f) = Len(n.rows[k])
        /\ \A j \in 1..Len(n.rows[k]) : f[j] = sizes[n.rows[k][j]].w + TilePadding
    BY <1>2, <1>3, WidthsOf
  <2>2. QED
    BY <1>4, <2>1
<1>6. RowHeight(n, sizes, k) = b
  <2>1. RowHeight(n, sizes, k) = Max(HeightsIn(s, sizes))
    BY <1>2, <1>3, HeightsInRow
  <2>2. HeightsIn(s, sizes) = {b}
    BY <1>1, HeightsOfOne
  <2>3. Max({} \cup {b}) = b
    BY <1>2, MaxMore, FS_EmptySet
  <2>4. QED
    BY <2>1, <2>2, <2>3
<1> HIDE DEF f, a, b, s, W, H
<1>7. Sums(f)[1] = a + TilePadding
  <2>1. Sums(f)[0] = 0 /\ Sums(f)[1] = Sums(f)[0] + f[1]
    BY <1>5, SumsOf
  <2>2. QED
    BY <1>2, <1>5, <2>1, PaddingTypes
<1>8. W + TilePadding = MinWidth + Sums(f)[Len(s)]
  <2>1. MinWidth \in Nat /\ TilePadding \in Nat
    BY PaddingTypes DEF MinWidth
  <2>2. QED
    BY <1>1, <1>2, <1>4, <1>7, <2>1
<1>9. W <= n.width
  BY <1>1, <1>2 DEF Larger
<1>10. H = RowHeight(n, sizes, k) + (IF k > 1 THEN TilePadding ELSE 0)
  BY <1>1, <1>6 DEF RowPad
<1>11. QED
  BY <1>4, <1>6, <1>8, <1>9, <1>10 DEF Fits, f, b, s, W, H

\* A row that gets a member grows by its width and the padding, and is as high
\* as the highest.
LEMMA FitsMore ==
  ASSUME NEW o, NEW n, NEW sizes, NEW k, NEW i, Insertion(o, n, sizes, k, i), k \in DOMAIN o.rows
  PROVE  /\ Fits(n, sizes, k) /\ RowHeight(o, sizes, k) \in Int
         /\ RowHeight(n, sizes, k) = Larger(RowHeight(o, sizes, k), sizes[i].h)
<1> DEFINE f == Widths(o, sizes, k)
           g == Widths(n, sizes, k)
           a == sizes[i].w
           b == sizes[i].h
           s == o.rows[k]
           t == n.rows[k]
           V == o.rowWidth[k]
           W == n.rowWidth[k]
           G == o.rowHeight[k]
           H == n.rowHeight[k]
           L == Len(s)
           RH == RowHeight(o, sizes, k)
           RN == RowHeight(n, sizes, k)
<1>1. /\ t = Append(s, i) /\ W = V + TilePadding + a
      /\ H = Larger(G, b + RowPad(k)) /\ n.width = Larger(o.width, W)
  BY DEF Insertion, Inserts
<1>2. /\ a \in Nat \ {0} /\ b \in Nat \ {0} /\ o.width \in Nat /\ n.width \in Nat /\ W \in Nat /\ V \in Nat
      /\ k \in DOMAIN n.rows /\ i \in Nat /\ RowPad(k) \in Nat
  BY InsertionTypes
<1>3. /\ Organized(n) /\ sizes \in Seq(Sizes) /\ Members(n.rows) \subseteq DOMAIN sizes
      /\ Organized(o) /\ Members(o.rows) \subseteq DOMAIN sizes
  BY DEF Insertion
<1>4. L > 0 /\ V + TilePadding = MinWidth + Sums(f)[L] /\ G = RH + RowPad(k)
  BY DEF Insertion, Fits, RowPad
<1>5. /\ s \in Seq(Nat) /\ L \in Nat /\ DOMAIN s = 1..L
      /\ \A j \in 1..Len(s) : s[j] \in Nat
  BY <1>3, RowOf
<1>6. /\ f \in Seq(Int) /\ Len(f) = L /\ \A j \in 1..L : f[j] = sizes[s[j]].w + TilePadding
  BY <1>3, WidthsOf
<1>7. /\ g \in Seq(Int) /\ Len(g) = Len(t) /\ \A j \in 1..Len(t) : g[j] = sizes[t[j]].w + TilePadding
  BY <1>2, <1>3, WidthsOf
<1>8. RN = Max(HeightsIn(t, sizes)) /\ RH = Max(HeightsIn(s, sizes)) /\ HeightsIn(s, sizes) \subseteq Int
      /\ IsFiniteSet(HeightsIn(s, sizes))
  BY <1>2, <1>3, HeightsInRow
<1>9. RH \in Int
  BY <1>3, <1>4, RowHeightOf
<1>10. HeightsIn(s, sizes) # {}
  <2>1. 1 \in DOMAIN s
    BY <1>4, <1>5
  <2>2. QED
    BY <1>3, <2>1, HeightsInRow
<1>11. MinWidth \in Nat /\ TilePadding \in Nat
  BY PaddingTypes DEF MinWidth
<1>12. HeightsIn(Append(s, i), sizes) = HeightsIn(s, sizes) \cup {b}
  BY <1>2, <1>5, HeightsOfMore
<1> HIDE DEF f, g, a, s, t, V, W, G, H, RH, RN
<1>13. Len(t) = L + 1 /\ t[L + 1] = i /\ \A j \in 1..L : t[j] = s[j]
  <2> DEFINE N == Nat
             e == i
  <2>1. s \in Seq(N) /\ e \in N /\ t = Append(s, e)
    BY <1>1, <1>2, <1>5
  <2> HIDE DEF N, e
  <2>2. /\ Len(Append(s, e)) = Len(s) + 1 /\ Append(s, e)[Len(s) + 1] = e
        /\ \A j \in DOMAIN s : Append(s, e)[j] = s[j]
    BY ONLY <2>1, Appended
  <2>3. QED
    BY <1>5, <2>1, <2>2 DEF e
<1>14. RN = Larger(RH, b)
  <2>1. HeightsIn(t, sizes) = HeightsIn(s, sizes) \cup {b}
    BY <1>1, <1>12
  <2> DEFINE S == HeightsIn(s, sizes)
             c == b
  <2>2. S \subseteq Int /\ IsFiniteSet(S) /\ c \in Int /\ S # {}
    BY <1>2, <1>8, <1>10
  <2> HIDE DEF S, c
  <2>3. Max(S \cup {c}) = Larger(Max(S), c)
    BY ONLY <2>2, MaxMore
  <2>4. QED
    BY <1>8, <2>1, <2>3 DEF S, c
<1> HIDE DEF b, L
<1>15. Sums(g)[L + 1] = Sums(f)[L] + (a + TilePadding) /\ Sums(f)[L] \in Int
  <2>1. \A j \in 1..L : g[j] = f[j]
    <3>1. TAKE j \in 1..L
    <3>2. j \in 1..Len(t)
      BY <1>5, <1>13
    <3>3. QED
      BY <1>6, <1>7, <1>13, <3>2
  <2>2. L <= Len(f) /\ L <= Len(g)
    BY <1>5, <1>6, <1>7, <1>13
  <2>3. Sums(f)[L] \in Int
    BY <1>5, <1>6, SumsOf
  <2>4. Sums(g)[L] = Sums(f)[L]
    <3>1. Agree(f, g, L)
      BY <2>1 DEF Agree
    <3>2. SumsAgreeTo(f, g, L)
      BY <1>5, <1>6, <1>7, <2>2, <3>1, SumsAgree
    <3>3. QED
      BY <1>5, <3>2 DEF SumsAgreeTo
  <2>5. g[L + 1] = a + TilePadding
    BY <1>5, <1>7, <1>13 DEF a
  <2>6. Sums(g)[L + 1] = Sums(g)[L] + g[L + 1]
    <3>1. L + 1 \in 1..Len(g) /\ (L + 1) - 1 = L
      BY <1>5, <1>7, <1>13
    <3>2. \A j \in 1..Len(g) : Sums(g)[j] = Sums(g)[j - 1] + g[j]
      BY <1>7, SumsOf
    <3>3. QED
      BY ONLY <3>1, <3>2
  <2>7. QED
    BY ONLY <2>3, <2>4, <2>5, <2>6
<1>16. W + TilePadding = MinWidth + Sums(g)[Len(t)]
  <2>1. Sums(g)[Len(t)] = Sums(f)[L] + (a + TilePadding)
    BY ONLY <1>13, <1>15
  <2> DEFINE S == Sums(f)[L]
  <2>2. S \in Int /\ V + TilePadding = MinWidth + S /\ Sums(g)[Len(t)] = S + (a + TilePadding)
    BY ONLY <1>4, <1>15, <2>1
  <2> HIDE DEF S
  <2>3. QED
    BY ONLY <1>1, <1>2, <1>11, <2>2
<1>17. H = RN + RowPad(k)
  <2> DEFINE p == RowPad(k)
  <2>1. H = Larger(G, b + p) /\ G = RH + p /\ RN = Larger(RH, b) /\ p \in Nat
    BY <1>1, <1>2, <1>4, <1>14
  <2> HIDE DEF p
  <2>2. H = RN + p
    BY ONLY <1>2, <1>9, <2>1 DEF Larger
  <2>3. QED
    BY <2>2 DEF p
<1>18. W <= n.width
  BY ONLY <1>1, <1>2 DEF Larger
<1>19. Len(t) > 0
  BY <1>4, <1>5, <1>13
<1>20. Fits(n, sizes, k)
  BY <1>16, <1>17, <1>18, <1>19 DEF Fits, RowPad, t, g, W, H, RN
<1>21. QED
  BY <1>9, <1>14, <1>20 DEF RH, RN, b

(***************************************************************************)
(* Tiling: the height of the box.                                          *)
(***************************************************************************)
\* The height of the box, from the heights of its rows.
HeightIs(o, sizes) ==
  /\ o.rows = <<>> => o.height = MinWidth
  /\ o.rows # <<>> => o.height + TilePadding = MinWidth + Sums(Heights(o, sizes))[Len(o.rows)]

\* The rows' heights are a sequence of numbers.
LEMMA HeightsFacts ==
  ASSUME NEW o, Organized(o), NEW sizes, sizes \in Seq(Sizes), Members(o.rows) \subseteq DOMAIN sizes,
         \A k \in DOMAIN o.rows : Fits(o, sizes, k)
  PROVE  /\ Heights(o, sizes) \in Seq(Int) /\ Len(Heights(o, sizes)) = Len(o.rows)
         /\ Len(o.rows) \in Nat /\ DOMAIN o.rows = 1..Len(o.rows)
         /\ \A k \in 1..Len(o.rows) :
              /\ Heights(o, sizes)[k] = RowHeight(o, sizes, k) + TilePadding
              /\ Heights(o, sizes)[k] >= 0 /\ RowHeight(o, sizes, k) \in Int
         /\ o.height \in Nat /\ (o.rows = <<>> <=> Len(o.rows) = 0)
<1>1. \A k \in DOMAIN o.rows : Len(o.rows[k]) > 0
  BY DEF Fits
<1>2. /\ Heights(o, sizes) \in Seq(Int) /\ Len(Heights(o, sizes)) = Len(o.rows)
      /\ Len(o.rows) \in Nat /\ DOMAIN o.rows = 1..Len(o.rows)
      /\ \A k \in 1..Len(o.rows) :
           /\ Heights(o, sizes)[k] = RowHeight(o, sizes, k) + TilePadding
           /\ Heights(o, sizes)[k] >= 0
  BY <1>1, HeightsOf
<1>3. \A k \in DOMAIN o.rows : RowHeight(o, sizes, k) \in Int
  BY <1>1, RowHeightOf
<1>4. o.height \in Nat /\ (o.rows = <<>> <=> Len(o.rows) = 0)
  <2>1. o.rows \in Seq(Seq(Nat)) /\ o.height \in Nat
    BY DEF Organized
  <2>2. QED
    BY <2>1, EmptySeq
<1>5. QED
  BY <1>2, <1>3, <1>4

\* A new row makes the box higher by its own height and the padding.
LEMMA HeightNew ==
  ASSUME NEW o, NEW n, NEW sizes, NEW k, NEW i, Insertion(o, n, sizes, k, i), k \notin DOMAIN o.rows,
         HeightIs(o, sizes), \A j \in DOMAIN n.rows : Fits(n, sizes, j)
  PROVE  HeightIs(n, sizes)
<1> DEFINE f == Heights(o, sizes)
           g == Heights(n, sizes)
           L == Len(o.rows)
           M == Len(n.rows)
           b == sizes[i].h
           p == RowPad(k)
           x == o.height
           y == n.height
<1>1. /\ f \in Seq(Int) /\ Len(f) = L /\ L \in Nat /\ DOMAIN o.rows = 1..L
      /\ \A j \in 1..L : f[j] = RowHeight(o, sizes, j) + TilePadding
      /\ x \in Nat /\ (o.rows = <<>> <=> L = 0)
  BY HeightsFacts DEF Insertion
<1>2. /\ g \in Seq(Int) /\ Len(g) = M /\ M \in Nat /\ DOMAIN n.rows = 1..M
      /\ \A j \in 1..M : g[j] = RowHeight(n, sizes, j) + TilePadding
      /\ y \in Nat /\ (n.rows = <<>> <=> M = 0)
  BY HeightsFacts DEF Insertion
<1>3. /\ DOMAIN n.rows = DOMAIN o.rows \cup {k} /\ k = L + 1 /\ y = x + b + p
      /\ \A j \in DOMAIN o.rows : j # k => n.rows[j] = o.rows[j]
  BY DEF Insertion, Inserts
<1>4. b \in Nat /\ p \in Nat
  BY InsertionTypes
<1>5. RowHeight(n, sizes, k) = b
  BY FitsNew
<1>6. \A j \in DOMAIN o.rows : RowHeight(n, sizes, j) = RowHeight(o, sizes, j)
  BY <1>3, SameRow
<1>7. MinWidth \in Nat /\ TilePadding \in Nat
  BY PaddingTypes DEF MinWidth
<1>8. /\ L = 0 => x = MinWidth
      /\ L # 0 => x + TilePadding = MinWidth + Sums(f)[L]
  BY <1>1 DEF HeightIs
<1>9. p = IF k > 1 THEN TilePadding ELSE 0
  BY DEF RowPad
<1>10. M = L + 1
  <2>1. 1..M = (1..L) \cup {L + 1} /\ L \in Nat /\ M \in Nat
    BY <1>1, <1>2, <1>3
  <2> HIDE DEF L, M
  <2>2. L + 1 \in 1..M
    BY ONLY <2>1
  <2>3. M \in 1..(L + 1)
    BY ONLY <2>1, <2>2
  <2>4. QED
    BY ONLY <2>1, <2>2, <2>3
<1> HIDE DEF f, g, L, M, b, p, x, y
<1>11. Sums(g)[L] = Sums(f)[L] /\ Sums(f)[L] \in Int /\ Sums(f)[0] = 0
  <2>1. Agree(f, g, L)
    <3>1. SUFFICES ASSUME NEW j, j \in 1..L PROVE g[j] = f[j]
      BY DEF Agree
    <3>2. j \in 1..M /\ j \in DOMAIN o.rows
      BY <1>1, <1>10, <3>1
    <3>3. QED
      BY <1>1, <1>2, <1>6, <3>1, <3>2
  <2>2. L <= Len(f) /\ L <= Len(g)
    BY <1>1, <1>2, <1>10
  <2>3. SumsAgreeTo(f, g, L)
    BY ONLY <1>1, <1>2, <2>1, <2>2, SumsAgree
  <2>4. \A j \in 0..L : Sums(f)[j] \in Int
    BY <1>1, SumsOf
  <2>5. Sums(f)[0] = 0
    BY <1>1, SumsOf
  <2>6. QED
    BY <1>1, <2>3, <2>4, <2>5 DEF SumsAgreeTo
<1>12. Sums(g)[M] = Sums(f)[L] + (b + TilePadding)
  <2>1. \A j \in 1..Len(g) : Sums(g)[j] = Sums(g)[j - 1] + g[j]
    BY <1>2, SumsOf
  <2>2. M \in 1..Len(g) /\ M - 1 = L /\ g[M] = b + TilePadding
    BY <1>1, <1>2, <1>3, <1>5, <1>10
  <2>3. QED
    BY ONLY <1>11, <2>1, <2>2
<1>13. y + TilePadding = MinWidth + Sums(g)[M]
  <2> DEFINE s == Sums(f)[L]
  <2>1. /\ s \in Int /\ (L = 0 => s = 0) /\ Sums(g)[M] = s + (b + TilePadding)
        /\ (L # 0 => x + TilePadding = MinWidth + s)
    BY <1>8, <1>11, <1>12
  <2> HIDE DEF s
  <2>2. x \in Nat /\ L \in Nat /\ k = L + 1 /\ y = x + b + p
    BY <1>1, <1>3
  <2>3. CASE L = 0
    <3>1. p = 0 /\ x = MinWidth /\ s = 0
      BY ONLY <1>8, <1>9, <2>1, <2>2, <2>3
    <3>2. QED
      BY ONLY <1>4, <1>7, <2>1, <2>2, <3>1
  <2>4. CASE L # 0
    <3>1. p = TilePadding /\ x + TilePadding = MinWidth + s
      BY ONLY <1>9, <2>1, <2>2, <2>4
    <3>2. QED
      BY ONLY <1>4, <1>7, <2>1, <2>2, <3>1
  <2>5. QED
    BY ONLY <2>3, <2>4
<1>14. n.rows # <<>>
  BY <1>1, <1>2, <1>10
<1>15. QED
  BY <1>13, <1>14 DEF HeightIs, g, M, y

\* A row that grows makes the box higher by as much.
LEMMA HeightMore ==
  ASSUME NEW o, NEW n, NEW sizes, NEW k, NEW i, Insertion(o, n, sizes, k, i), k \in DOMAIN o.rows,
         HeightIs(o, sizes), \A j \in DOMAIN n.rows : Fits(n, sizes, j)
  PROVE  HeightIs(n, sizes)
<1> DEFINE f == Heights(o, sizes)
           g == Heights(n, sizes)
           L == Len(o.rows)
           M == Len(n.rows)
           b == sizes[i].h
           p == RowPad(k)
           x == o.height
           y == n.height
           RH == RowHeight(o, sizes, k)
           RN == RowHeight(n, sizes, k)
           d == RN - RH
<1>1. /\ f \in Seq(Int) /\ Len(f) = L /\ L \in Nat /\ DOMAIN o.rows = 1..L
      /\ \A j \in 1..L : f[j] = RowHeight(o, sizes, j) + TilePadding /\ RowHeight(o, sizes, j) \in Int
      /\ x \in Nat /\ (o.rows = <<>> <=> L = 0)
  BY HeightsFacts DEF Insertion
<1>2. /\ g \in Seq(Int) /\ Len(g) = M /\ M \in Nat /\ DOMAIN n.rows = 1..M
      /\ \A j \in 1..M : g[j] = RowHeight(n, sizes, j) + TilePadding
      /\ y \in Nat /\ (n.rows = <<>> <=> M = 0)
  BY HeightsFacts DEF Insertion
<1>3. /\ DOMAIN n.rows = DOMAIN o.rows \cup {k}
      /\ y = x + Larger((b + p) - o.rowHeight[k], 0)
      /\ \A j \in DOMAIN o.rows : j # k => n.rows[j] = o.rows[j]
  BY DEF Insertion, Inserts
<1>4. b \in Nat /\ p \in Nat
  BY InsertionTypes
<1>5. RN = Larger(RH, b) /\ RH \in Int
  BY FitsMore
<1>6. \A j \in DOMAIN o.rows : j # k => RowHeight(n, sizes, j) = RowHeight(o, sizes, j)
  BY <1>3, SameRow
<1>7. MinWidth \in Nat /\ TilePadding \in Nat
  BY PaddingTypes DEF MinWidth
<1>8. L # 0 /\ x + TilePadding = MinWidth + Sums(f)[L]
  BY <1>1 DEF HeightIs
<1>9. o.rowHeight[k] = RH + p
  BY DEF Insertion, Fits, RowPad
<1>10. M = L /\ k \in 1..L
  <2>1. DOMAIN n.rows = DOMAIN o.rows
    BY <1>3
  <2>2. 1..M = 1..L
    BY <1>1, <1>2, <2>1
  <2>3. L \in 1..M
    BY <1>1, <1>8, <2>2
  <2>4. M \in 1..L
    BY <1>2, <2>2, <2>3
  <2>5. QED
    BY <1>1, <1>2, <2>3, <2>4
<1>11. d = RN - RH
  OBVIOUS
<1> HIDE DEF f, g, L, M, b, p, x, y, RN, RH, d
<1>12. d \in Int /\ RN = RH + d /\ y = x + d
  <2>1. RN \in Int /\ d \in Int /\ RN = RH + d
    BY <1>11, <1>4, <1>5 DEF Larger
  <2>2. Larger((b + p) - (RH + p), 0) = d
    BY <1>11, <1>4, <1>5 DEF Larger
  <2>3. QED
    BY <1>3, <1>9, <2>1, <2>2
<1>13. Differ(f, g, L, k, d)
  <2>1. SUFFICES ASSUME NEW j, j \in 1..L PROVE g[j] = f[j] + More(k, d, j)
    BY DEF Differ
  <2>2. f[j] = RowHeight(o, sizes, j) + TilePadding /\ RowHeight(o, sizes, j) \in Int
        /\ g[j] = RowHeight(n, sizes, j) + TilePadding
    BY <1>1, <1>2, <1>10, <2>1
  <2>3. CASE j = k
    <3>1. More(k, d, j) = d /\ RowHeight(n, sizes, j) = RowHeight(o, sizes, j) + d
      BY <1>12, <2>3 DEF More, RN, RH
    <3>2. QED
      BY <1>7, <1>12, <2>2, <3>1
  <2>4. CASE j # k
    <3>1. More(k, d, j) = 0 /\ RowHeight(n, sizes, j) = RowHeight(o, sizes, j)
      BY <1>1, <1>6, <2>1, <2>4 DEF More
    <3>2. QED
      BY <1>7, <2>2, <3>1
  <2>5. QED
    BY <2>3, <2>4
<1>14. SumsDifferBy(f, g, L, k, d)
  <2>1. L <= Len(f) /\ L <= Len(g) /\ k \in Int
    BY <1>1, <1>2, <1>10
  <2>2. QED
    BY ONLY <1>1, <1>2, <1>12, <1>13, <2>1, SumsDiffer
<1>15. Sums(g)[M] = Sums(f)[L] + d /\ Sums(f)[L] \in Int
  <2>1. Sums(g)[L] = Sums(f)[L] + SumMore(k, d, L)
    BY <1>1, <1>14 DEF SumsDifferBy
  <2>2. SumMore(k, d, L) = d
    BY <1>1, <1>10 DEF SumMore
  <2>3. \A j \in 0..L : Sums(f)[j] \in Int
    BY <1>1, SumsOf
  <2>4. QED
    BY <1>1, <1>10, <2>1, <2>2, <2>3
<1>16. y + TilePadding = MinWidth + Sums(g)[M]
  <2> DEFINE s == Sums(f)[L]
  <2>1. s \in Int /\ x + TilePadding = MinWidth + s /\ Sums(g)[M] = s + d
    BY <1>8, <1>15
  <2> HIDE DEF s
  <2>2. x \in Nat /\ d \in Int /\ y = x + d
    BY <1>1, <1>12
  <2>3. QED
    BY ONLY <1>7, <2>1, <2>2
<1>17. n.rows # <<>>
  BY <1>2, <1>8, <1>10
<1>18. QED
  BY <1>16, <1>17 DEF HeightIs, g, M, y

\* So the width and the height the code keeps as it inserts are those of the
\* rows there are in the end.
LEMMA InsertMeasures ==
  ASSUME NEW o, NEW n, NEW sizes, NEW k, NEW i, Insertion(o, n, sizes, k, i), Measured(o, sizes)
  PROVE  Measured(n, sizes)
<1>1. HeightIs(o, sizes)
  BY DEF Measured, HeightIs
<1>2. /\ DOMAIN n.rows = DOMAIN o.rows \cup {k}
      /\ \A j \in DOMAIN o.rows : j # k => /\ n.rows[j] = o.rows[j] /\ n.rowWidth[j] = o.rowWidth[j]
                                           /\ n.rowHeight[j] = o.rowHeight[j]
      /\ n.width = Larger(o.width, n.rowWidth[k])
      /\ \A j \in DOMAIN o.rows : Fits(o, sizes, j)
  BY DEF Insertion, Inserts
<1>3. /\ o.width \in Nat /\ n.width \in Nat /\ n.rowWidth[k] \in Nat
      /\ \A j \in DOMAIN o.rows : o.rowWidth[j] \in Nat
  BY InsertionTypes
<1>4. ASSUME NEW j \in DOMAIN n.rows PROVE Fits(n, sizes, j)
  <2>1. CASE j = k /\ k \in DOMAIN o.rows
    BY <2>1, FitsMore
  <2>2. CASE j = k /\ k \notin DOMAIN o.rows
    BY <2>2, FitsNew
  <2>3. CASE j # k
    <3>1. j \in DOMAIN o.rows
      BY <1>2, <2>3
    <3>2. o.width <= n.width
      BY <1>2, <1>3 DEF Larger
    <3>3. QED
      BY <1>2, <1>3, <2>3, <3>1, <3>2, FitsStill
  <2>4. QED
    BY <2>1, <2>2, <2>3
<1>5. HeightIs(n, sizes)
  <2>1. CASE k \in DOMAIN o.rows
    BY <1>1, <1>4, <2>1, HeightMore
  <2>2. CASE k \notin DOMAIN o.rows
    BY <1>1, <1>4, <2>2, HeightNew
  <2>3. QED
    BY <2>1, <2>2
<1>6. QED
  BY <1>4, <1>5 DEF Measured, HeightIs

(***************************************************************************)
(* Boxes that overlap, and what separates them.                            *)
(***************************************************************************)
Span  == {s \in [lo : Int, hi : Int] : s.lo < s.hi}

LEMMA SpansOfBox ==
  ASSUME NEW r \in Boxed
  PROVE  /\ XSpan(r) \in Span /\ YSpan(r) \in Span
         /\ XSpan(r).lo = r.x /\ XSpan(r).hi = r.x + r.w
         /\ YSpan(r).lo = r.y /\ YSpan(r).hi = r.y + r.h
BY DEF Boxed, Span, XSpan, YSpan, Right, Bottom

\* A span that is pushed by the whole overlap, to the side its centre is on,
\* and by the buffer on top, is clear of the other.  If one contains the other,
\* this takes the part of the overlap that their common extent leaves out.
LEMMA PushedClears ==
  ASSUME NEW s \in Span, NEW t \in Span, Meet(s, t), NEW buffer \in Nat \ {0}
  PROVE  ~Meet(s, Shift(t, Pushed(s, t, buffer)))
<1> DEFINE d == Pushed(s, t, buffer)
<1>1. /\ s.lo \in Int /\ s.hi \in Int /\ s.lo < s.hi
      /\ t.lo \in Int /\ t.hi \in Int /\ t.lo < t.hi
      /\ t.lo <= s.hi /\ s.lo <= t.hi
  BY DEF Span, Meet
<1>2. d \in Int /\ (t.lo + d > s.hi \/ t.hi + d < s.lo)
  BY <1>1 DEF Pushed, Away, Between, Overlap, Smaller, Larger
<1> HIDE DEF d
<1>3. Shift(t, d).lo = t.lo + d /\ Shift(t, d).hi = t.hi + d
  BY DEF Shift
<1> QED BY <1>1, <1>2, <1>3 DEF Meet, d

\* Two boxes that overlap and go apart by what calcSeparationAmount gives no
\* longer overlap, for every two boxes and every buffer: SeparationClears of
\* Boxes wherever its boxes may be.
THEOREM SeparationAlwaysClears ==
  ASSUME NEW a \in Boxed, NEW b \in Boxed, NEW buffer \in Nat \ {0}, Intersects(a, b)
  PROVE  LET sep == Separation(a, b, buffer)
         IN IF GoesByX(a, b) THEN ~Meet(XSpan(a), Shift(XSpan(b), sep.x[1]))
            ELSE ~Meet(YSpan(a), Shift(YSpan(b), sep.y[1]))
<1>1. /\ XSpan(a) \in Span /\ XSpan(b) \in Span /\ Meet(XSpan(a), XSpan(b))
      /\ YSpan(a) \in Span /\ YSpan(b) \in Span /\ Meet(YSpan(a), YSpan(b))
  BY SpansOfBox DEF Intersects
<1>2. CASE GoesByX(a, b)
  <2>1. Separation(a, b, buffer).x[1] = Pushed(XSpan(a), XSpan(b), buffer)
    BY <1>2 DEF Separation
  <2> QED BY <1>1, <1>2, <2>1, PushedClears
<1>3. CASE ~GoesByX(a, b)
  <2>1. Separation(a, b, buffer).y[1] = Pushed(YSpan(a), YSpan(b), buffer)
    BY <1>3 DEF Separation
  <2> QED BY <1>1, <1>3, <2>1, PushedClears
<1> QED BY <1>2, <1>3

\* So the boxes of a state come apart.
LEMMA SeparationHolds == TypeOK => SeparationClears
<1> SUFFICES ASSUME TypeOK, NEW p \in Pairs, phase # "tile", Intersects(rect[p[1]], rect[p[2]])
             PROVE  LET q == rect[p[1]]  r == rect[p[2]]
                        sep == Separation(q, r, EdgeLength \div 2)
                    IN IF GoesByX(q, r) THEN ~Meet(XSpan(q), Shift(XSpan(r), sep.x[1]))
                       ELSE ~Meet(YSpan(q), Shift(YSpan(r), sep.y[1]))
  BY DEF SeparationClears
<1>1. rect[p[1]] \in Boxed /\ rect[p[2]] \in Boxed
  BY DEF TypeOK, Pairs
<1>2. EdgeLength \div 2 \in Nat \ {0}
  <2>1. EdgeLength \in Nat \ {0} /\ EdgeLength % 2 = 0
    BY BoxesAssumption
  <2> QED BY <2>1
<1> QED BY <1>1, <1>2, SeparationAlwaysClears

--------------------------------------------------------------------------------
(***************************************************************************)
(* Clips.  The line between the centres is steeper than the diagonal of    *)
(* the box, and leaves it at the top or bottom, or it is not, and leaves   *)
(* it left or right; Side never mistakes one for the other.                *)
(***************************************************************************)
LEMMA SideIsOnTheWay ==
  ASSUME NEW r \in Boxed, NEW dx \in Int \ {0}, NEW dy \in Int \ {0}
  PROVE  \/ Side(r, dx, dy) = 1 /\ dy < 0 /\ r.h * Size(dx) <= r.w * Size(dy)
         \/ Side(r, dx, dy) = 3 /\ dy > 0 /\ r.h * Size(dx) <= r.w * Size(dy)
         \/ Side(r, dx, dy) = 2 /\ dx > 0 /\ r.w * Size(dy) <= r.h * Size(dx)
         \/ Side(r, dx, dy) = 4 /\ dx < 0 /\ r.w * Size(dy) <= r.h * Size(dx)
<1>1. r.h \in Nat \ {0} /\ r.w \in Nat \ {0}
  BY DEF Boxed
<1>2. CASE dx < 0 /\ dy < 0
  BY <1>1, <1>2 DEF Side, CardinalDirection, SlopeAbove, Size
<1>3. CASE dx < 0 /\ dy > 0
  BY <1>1, <1>3 DEF Side, CardinalDirection, SlopeAbove, Size
<1>4. CASE dx > 0 /\ dy < 0
  BY <1>1, <1>4 DEF Side, CardinalDirection, SlopeAbove, Size
<1>5. CASE dx > 0 /\ dy > 0
  BY <1>1, <1>5 DEF Side, CardinalDirection, SlopeAbove, Size
<1> QED BY <1>2, <1>3, <1>4, <1>5

\* A point c * d + e, over d > 0, of which e is no more than w * d either way, is
\* between (c - w) * d and (c + w) * d.
LEMMA Between2 ==
  ASSUME NEW x \in Int, NEW w \in Nat, NEW d \in Nat \ {0}, NEW e \in Int, Size(e) <= w * d
  PROVE  /\ 2 * x * d <= (2 * x + w) * d + e
         /\ (2 * x + w) * d + e <= 2 * (x + w) * d
<1>1. -(w * d) <= e /\ e <= w * d /\ w * d \in Int
  BY DEF Size
<1>2. /\ (2 * x + w) * d = 2 * x * d + w * d
      /\ 2 * (x + w) * d = 2 * x * d + w * d + w * d
      /\ 2 * x * d \in Int
  OBVIOUS
<1> QED BY <1>1, <1>2

LEMMA Opposite ==
  ASSUME NEW c \in Int, NEW i \in Int, NEW e \in Int
  PROVE  -(c * i - e) = c * (-i) + e
OBVIOUS

LEMMA UpDownClip ==
  ASSUME NEW r \in Boxed, NEW dx \in Int, NEW dy \in Int \ {0}, NEW side \in {1, 3}, NEW cy,
         r.h * Size(dx) <= r.w * Size(dy), side = 1 <=> dy < 0
  PROVE  OnBorder(ClipOn(r, side, dx, dy, 2 * r.x + r.w, cy), r)
<1> DEFINE c == 2 * r.x + r.w
           d == Size(dy)
           e == r.h * dx
           p == ClipOn(r, side, dx, dy, c, cy)
<1>1. r.x \in Int /\ r.y \in Int /\ r.w \in Nat \ {0} /\ r.h \in Nat \ {0}
  BY DEF Boxed
<1>2. d \in Nat \ {0} /\ e \in Int
  BY <1>1 DEF Size
<1>3. Size(e) <= r.w * d
  BY <1>1 DEF Size
<1>4. p.x = <<c * d + e, d>>
  <2>1. CASE side = 1
    <3>1. p.x = <<-(c * dy - r.h * dx), -dy>>
      BY <2>1 DEF ClipOn, Fraction
    <3>2. d = -dy
      BY <2>1 DEF Size
    <3>3. c \in Int /\ r.h * dx \in Int
      BY <1>1
    <3> HIDE DEF c
    <3>4. -(c * dy - r.h * dx) = c * (-dy) + r.h * dx
      BY <3>3, Opposite
    <3> QED BY <3>1, <3>2, <3>4
  <2>2. CASE side = 3
    <3>1. p.x = <<c * dy + r.h * dx, dy>> /\ d = dy
      BY <2>2 DEF ClipOn, Fraction, Size
    <3> QED BY <3>1
  <2> QED BY <2>1, <2>2
<1>5. p.y \in {<<2 * r.y, 1>>, <<2 * Bottom(r), 1>>}
  BY DEF ClipOn
<1>6. 2 * r.x * d <= c * d + e /\ c * d + e <= 2 * (r.x + r.w) * d
  <2> HIDE DEF d, e
  <2> QED BY <1>1, <1>2, <1>3, Between2
<1>7. p.x[1] = c * d + e /\ p.x[2] = d
  BY <1>4
<1> HIDE DEF p, c, d, e
<1>8. 2 * r.x * p.x[2] <= p.x[1] /\ p.x[1] <= 2 * Right(r) * p.x[2]
  BY <1>6, <1>7 DEF Right
<1>9. 2 * r.y * p.y[2] <= p.y[1] /\ p.y[1] <= 2 * Bottom(r) * p.y[2]
  BY <1>1, <1>5 DEF Bottom
<1> QED BY <1>5, <1>8, <1>9 DEF OnBorder, p, c

LEMMA LeftRightClip ==
  ASSUME NEW r \in Boxed, NEW dx \in Int \ {0}, NEW dy \in Int, NEW side \in {2, 4}, NEW cx,
         r.w * Size(dy) <= r.h * Size(dx), side = 4 <=> dx < 0
  PROVE  OnBorder(ClipOn(r, side, dx, dy, cx, 2 * r.y + r.h), r)
<1> DEFINE c == 2 * r.y + r.h
           d == Size(dx)
           e == r.w * dy
           p == ClipOn(r, side, dx, dy, cx, c)
<1>1. r.x \in Int /\ r.y \in Int /\ r.w \in Nat \ {0} /\ r.h \in Nat \ {0}
  BY DEF Boxed
<1>2. d \in Nat \ {0} /\ e \in Int
  BY <1>1 DEF Size
<1>3. Size(e) <= r.h * d
  BY <1>1 DEF Size
<1>4. p.y = <<c * d + e, d>>
  <2>1. CASE side = 4
    <3>1. p.y = <<-(c * dx - r.w * dy), -dx>>
      BY <2>1 DEF ClipOn, Fraction
    <3>2. d = -dx
      BY <2>1 DEF Size
    <3>3. c \in Int /\ r.w * dy \in Int
      BY <1>1
    <3> HIDE DEF c
    <3>4. -(c * dx - r.w * dy) = c * (-dx) + r.w * dy
      BY <3>3, Opposite
    <3> QED BY <3>1, <3>2, <3>4
  <2>2. CASE side = 2
    <3>1. p.y = <<c * dx + r.w * dy, dx>> /\ d = dx
      BY <2>2 DEF ClipOn, Fraction, Size
    <3> QED BY <3>1
  <2> QED BY <2>1, <2>2
<1>5. p.x \in {<<2 * r.x, 1>>, <<2 * Right(r), 1>>}
  BY DEF ClipOn
<1>6. 2 * r.y * d <= c * d + e /\ c * d + e <= 2 * (r.y + r.h) * d
  <2> HIDE DEF d, e
  <2> QED BY <1>1, <1>2, <1>3, Between2
<1>7. p.y[1] = c * d + e /\ p.y[2] = d
  BY <1>4
<1> HIDE DEF p, c, d, e
<1>8. 2 * r.y * p.y[2] <= p.y[1] /\ p.y[1] <= 2 * Bottom(r) * p.y[2]
  BY <1>6, <1>7 DEF Bottom
<1>9. 2 * r.x * p.x[2] <= p.x[1] /\ p.x[1] <= 2 * Right(r) * p.x[2]
  BY <1>1, <1>5 DEF Right
<1> QED BY <1>5, <1>8, <1>9 DEF OnBorder, p, c

\* The line from the centre of a box to that of any other leaves the box on its
\* border, whichever quarter it runs into and however steep it is: ClipsOnBorder
\* of Boxes for every two boxes.
THEOREM ClipIsOnBorder ==
  ASSUME NEW a \in Boxed, NEW b \in Boxed
  PROVE  OnBorder(Clip(a, b), a)
<1> DEFINE dx == Between(XSpan(a), XSpan(b))
           dy == Between(YSpan(a), YSpan(b))
           cx == a.x + Right(a)
           cy == a.y + Bottom(a)
           edgeX == <<2 * (IF dx < 0 THEN a.x ELSE Right(a)), 1>>
           edgeY == <<2 * (IF dy < 0 THEN a.y ELSE Bottom(a)), 1>>
<1>1. /\ a.x \in Int /\ a.y \in Int /\ a.w \in Nat \ {0} /\ a.h \in Nat \ {0}
      /\ b.x \in Int /\ b.y \in Int /\ b.w \in Nat \ {0} /\ b.h \in Nat \ {0}
  BY DEF Boxed
<1>2. dx \in Int /\ dy \in Int
  BY <1>1 DEF Between, XSpan, YSpan, Right, Bottom
<1>3. cx = 2 * a.x + a.w /\ cy = 2 * a.y + a.h
  BY <1>1 DEF Right, Bottom
<1>4. Clip(a, b) = IF dx = 0 THEN [x |-> <<cx, 1>>, y |-> edgeY]
                   ELSE IF dy = 0 THEN [x |-> edgeX, y |-> <<cy, 1>>]
                   ELSE IF Corner(a, dx, dy) THEN [x |-> edgeX, y |-> edgeY]
                   ELSE ClipOn(a, Side(a, dx, dy), dx, dy, cx, cy)
  BY DEF Clip
<1> HIDE DEF dx, dy
<1>5. /\ edgeX \in {<<2 * a.x, 1>>, <<2 * Right(a), 1>>}
      /\ 2 * a.x <= edgeX[1] /\ edgeX[1] <= 2 * Right(a) /\ edgeX[2] = 1
      /\ edgeY \in {<<2 * a.y, 1>>, <<2 * Bottom(a), 1>>}
      /\ 2 * a.y <= edgeY[1] /\ edgeY[1] <= 2 * Bottom(a) /\ edgeY[2] = 1
      /\ 2 * a.x <= cx /\ cx <= 2 * Right(a) /\ 2 * a.y <= cy /\ cy <= 2 * Bottom(a)
  BY <1>1 DEF Right, Bottom
<1>6. cx \in Int /\ cy \in Int /\ edgeX[1] \in Int /\ edgeY[1] \in Int
  BY <1>1 DEF Right, Bottom
<1> HIDE DEF cx, cy, edgeX, edgeY
<1>7. CASE dx = 0
  BY <1>1, <1>4, <1>5, <1>6, <1>7 DEF OnBorder, Right, Bottom
<1>8. CASE dx # 0 /\ dy = 0
  BY <1>1, <1>4, <1>5, <1>6, <1>8 DEF OnBorder, Right, Bottom
<1>9. CASE dx # 0 /\ dy # 0 /\ Corner(a, dx, dy)
  BY <1>1, <1>4, <1>5, <1>6, <1>9 DEF OnBorder, Right, Bottom
<1>10. CASE dx # 0 /\ dy # 0 /\ ~Corner(a, dx, dy)
  <2>1. dx \in Int \ {0} /\ dy \in Int \ {0}
    BY <1>2, <1>10
  <2>2. Clip(a, b) = ClipOn(a, Side(a, dx, dy), dx, dy, 2 * a.x + a.w, 2 * a.y + a.h)
    BY <1>3, <1>4, <1>10
  <2>3. CASE Side(a, dx, dy) \in {1, 3}
    BY <2>1, <2>2, <2>3, SideIsOnTheWay, UpDownClip
  <2>4. CASE Side(a, dx, dy) \in {2, 4}
    BY <2>1, <2>2, <2>4, SideIsOnTheWay, LeftRightClip
  <2> QED BY <2>1, <2>3, <2>4, SideIsOnTheWay
<1> QED BY <1>7, <1>8, <1>9, <1>10

\* So springs and repulsions start on the borders of the boxes.
LEMMA ClipsHold == TypeOK => ClipsOnBorder
<1> SUFFICES ASSUME TypeOK, NEW p \in Pairs, phase # "tile"
             PROVE  OnBorder(Clip(rect[p[1]], rect[p[2]]), rect[p[1]])
  BY DEF ClipsOnBorder
<1>1. rect[p[1]] \in Boxed /\ rect[p[2]] \in Boxed
  BY DEF TypeOK, Pairs
<1> QED BY <1>1, ClipIsOnBorder

--------------------------------------------------------------------------------
(***************************************************************************)
(* The grid, whose cells are as wide as boxes repel.                       *)
(***************************************************************************)
LEMMA Quotient ==
  ASSUME NEW n \in Int, NEW R \in Nat \ {0}
  PROVE  n \div R \in Int /\ R * (n \div R) <= n /\ n < R * (n \div R) + R
OBVIOUS

\* What is no more than a cell further on is in the next cell at most.
LEMMA NextCell ==
  ASSUME NEW n \in Int, NEW m \in Int, NEW R \in Nat \ {0}, n <= m + R
  PROVE  (n \div R) - 1 <= m \div R
<1> DEFINE i == n \div R
           j == m \div R
<1>1. R * i <= n /\ m < R * j + R /\ i \in Int /\ j \in Int
  BY Quotient
<1> HIDE DEF i, j
<1>2. R * (i - j) < 2 * R
  BY <1>1
<1>3. i - j < 2
  BY <1>1, <1>2
<1> QED BY <1>1, <1>3 DEF i, j

LEMMA Rounding ==
  ASSUME NEW n \in Int, NEW w \in Int, NEW R \in Nat \ {0}, 0 <= n, n < w
  PROVE  0 <= n \div R /\ n \div R < -((-w) \div R)
<1> DEFINE i == n \div R
           j == (-w) \div R
<1>1. R * i <= n /\ n < R * i + R /\ R * j <= -w /\ i \in Int /\ j \in Int
  BY Quotient
<1> HIDE DEF i, j
<1>2. R * (i + j) < 0 /\ 0 < R * (i + 1)
  BY <1>1
<1>3. i + j < 0 /\ 0 < i + 1
  BY <1>1, <1>2
<1> QED BY <1>1, <1>3 DEF i, j

LEMMA RangeType == RepulsionRange \in Nat \ {0}
<1>1. EdgeLength \in Nat \ {0}
  BY BoxesAssumption
<1> QED BY <1>1 DEF RepulsionRange

\* A box that lies in the bounds of the graph, and ends before they do, falls
\* into cells of the grid: the margin of the root graph is what GridInBounds
\* stands on.
THEOREM CellsAreInGrid ==
  ASSUME NEW r \in Boxed, NEW s \in Boxed,
         s.x <= r.x, Right(r) < Right(s), s.y <= r.y, Bottom(r) < Bottom(s)
  PROVE  /\ 0 <= CellsOf(r, s).startX /\ CellsOf(r, s).finishX < GridSize(s).x
         /\ 0 <= CellsOf(r, s).startY /\ CellsOf(r, s).finishY < GridSize(s).y
<1>1. /\ r.x \in Int /\ r.y \in Int /\ r.w \in Nat \ {0} /\ r.h \in Nat \ {0}
      /\ s.x \in Int /\ s.y \in Int /\ s.w \in Nat \ {0} /\ s.h \in Nat \ {0}
  BY DEF Boxed
<1>2. ASSUME NEW n \in Int, NEW w \in Int, 0 <= n, n < w
      PROVE  0 <= n \div RepulsionRange /\ n \div RepulsionRange < Ceil(w)
  BY <1>2, RangeType, Rounding DEF Ceil
<1>3. /\ 0 <= r.x - s.x /\ r.x - s.x < s.w /\ 0 <= Right(r) - s.x /\ Right(r) - s.x < s.w
      /\ 0 <= r.y - s.y /\ r.y - s.y < s.h /\ 0 <= Bottom(r) - s.y /\ Bottom(r) - s.y < s.h
      /\ {r.x - s.x, Right(r) - s.x, r.y - s.y, Bottom(r) - s.y, s.w, s.h} \subseteq Int
  BY <1>1 DEF Right, Bottom
<1> QED BY <1>2, <1>3 DEF CellsOf, GridSize

LEMMA NearCells ==
  ASSUME NEW s \in Span, NEW t \in Span, NEW o \in Int, NEW R \in Nat \ {0}, Gap(s, t) <= R
  PROVE  \E i \in (((s.lo - o) \div R) - 1)..(((s.hi - o) \div R) + 1) :
           i \in ((t.lo - o) \div R)..((t.hi - o) \div R)
<1> DEFINE sl == (s.lo - o) \div R
           sh == (s.hi - o) \div R
           tl == (t.lo - o) \div R
           th == (t.hi - o) \div R
<1>1. s.lo \in Int /\ s.hi \in Int /\ s.lo < s.hi /\ t.lo \in Int /\ t.hi \in Int /\ t.lo < t.hi
  BY DEF Span
<1>2. s.lo <= t.hi + R /\ t.lo <= s.hi + R
  BY <1>1 DEF Gap, Larger, Smaller
<1>3. {sl, sh, tl, th} \subseteq Int
  BY <1>1, Quotient
<1>4. sl - 1 <= th /\ tl - 1 <= sh
  <2>1. /\ s.lo - o \in Int /\ t.hi - o \in Int /\ s.lo - o <= (t.hi - o) + R
        /\ t.lo - o \in Int /\ s.hi - o \in Int /\ t.lo - o <= (s.hi - o) + R
    BY <1>1, <1>2
  <2> QED BY <2>1, NextCell
<1>5. sl <= sh /\ tl <= th
  <2>1. ASSUME NEW m \in Int, NEW n \in Int, m < n PROVE m \div R <= n \div R
    <3> DEFINE i == m \div R
               j == n \div R
    <3>1. R * i <= m /\ n < R * j + R /\ i \in Int /\ j \in Int
      BY Quotient
    <3> HIDE DEF i, j
    <3>2. R * (i - j) < R
      BY <2>1, <3>1
    <3>3. i - j < 1
      BY <3>1, <3>2
    <3> QED BY <3>1, <3>3 DEF i, j
  <2>2. /\ s.lo - o \in Int /\ s.hi - o \in Int /\ s.lo - o < s.hi - o
        /\ t.lo - o \in Int /\ t.hi - o \in Int /\ t.lo - o < t.hi - o
    BY <1>1
  <2> QED BY <2>1, <2>2
<1> HIDE DEF sl, sh, tl, th
<1>6. CASE tl <= sl - 1
  BY <1>3, <1>4, <1>5, <1>6 DEF sl, sh, tl, th
<1>7. CASE sl - 1 < tl
  BY <1>3, <1>4, <1>5, <1>7 DEF sl, sh, tl, th
<1> QED BY <1>3, <1>6, <1>7

\* Boxes in each other's range are found in the cells around one of them,
\* wherever the grid begins: NearAreFound in Boxes.
THEOREM NearAlwaysFound ==
  ASSUME NEW a \in Boxed, NEW b \in Boxed, NEW s \in Boxed, InRange(a, b)
  PROVE  Searched(CellsOf(a, s), CellsOf(b, s))
<1>1. /\ XSpan(a) \in Span /\ YSpan(a) \in Span /\ XSpan(b) \in Span /\ YSpan(b) \in Span
      /\ s.x \in Int /\ s.y \in Int
  BY SpansOfBox DEF Boxed
<1>2. \E i \in (CellsOf(a, s).startX - 1)..(CellsOf(a, s).finishX + 1) :
        i \in CellsOf(b, s).startX..CellsOf(b, s).finishX
  BY <1>1, RangeType, NearCells DEF InRange, CellsOf, XSpan
<1>3. \E j \in (CellsOf(a, s).startY - 1)..(CellsOf(a, s).finishY + 1) :
        j \in CellsOf(b, s).startY..CellsOf(b, s).finishY
  BY <1>1, RangeType, NearCells DEF InRange, CellsOf, YSpan
<1> QED BY <1>2, <1>3 DEF Searched, InCell

(***************************************************************************)
(* The bounds of some boxes, and a server with its label.                  *)
(***************************************************************************)
LEMMA Coordinates ==
  ASSUME NEW r, r \in Boxed
  PROVE  r.x \in Int /\ r.y \in Int /\ r.w \in Nat \ {0} /\ r.h \in Nat \ {0}
         /\ Right(r) = r.x + r.w /\ Bottom(r) = r.y + r.h /\ Right(r) \in Int /\ Bottom(r) \in Int
         /\ r.x < Right(r) /\ r.y < Bottom(r)
         /\ r = [x |-> r.x, y |-> r.y, w |-> r.w, h |-> r.h]
BY DEF Boxed, Right, Bottom

\* The bounds of some boxes: none goes beyond, and each side is one's.
Spans(b, rs) ==
  /\ b \in Boxed
  /\ \A r \in rs : Inside(r, b)
  /\ \E r \in rs : r.x = b.x
  /\ \E r \in rs : Right(r) = Right(b)
  /\ \E r \in rs : r.y = b.y
  /\ \E r \in rs : Bottom(r) = Bottom(b)

\* One of some boxes is the first on a side, and one the last.
LEMMA FiniteSide ==
  ASSUME NEW rs, IsFiniteSet(rs), rs # {}, NEW f, DOMAIN f = rs, \A r \in rs : f[r] \in Int,
         NEW S, \A y : y \in S <=> \E r \in rs : y = f[r]
  PROVE  /\ \E r \in rs : f[r] = Min(S)
         /\ \E r \in rs : f[r] = Max(S)
         /\ \A r \in rs : Min(S) <= f[r] /\ f[r] <= Max(S)
<1>1. IsFiniteSet(S)
  BY FiniteImage
<1>2. S \subseteq Int /\ S # {}
  OBVIOUS
<1>3. /\ Min(S) \in S /\ \A k \in S : Min(S) <= k
      /\ Max(S) \in S /\ \A k \in S : k <= Max(S)
  BY <1>1, <1>2, MinAndMax
<1>4. QED
  BY <1>3

\* LGraph.updateBounds without a margin.
LEMMA BoundsSpan ==
  ASSUME NEW rs, rs \subseteq Boxed, rs # {}, IsFiniteSet(rs)
  PROVE  Spans(Bounds(rs, 0), rs)
<1> DEFINE X == {r.x : r \in rs}
           R == {Right(r) : r \in rs}
           Y == {r.y : r \in rs}
           B == {Bottom(r) : r \in rs}
           b == Bounds(rs, 0)
<1>1. \A r \in rs : r.x \in Int /\ r.y \in Int /\ Right(r) \in Int /\ Bottom(r) \in Int
                    /\ r.x < Right(r) /\ r.y < Bottom(r)
  BY Coordinates
<1>2. b = [x |-> Min(X) - 0, y |-> Min(Y) - 0,
           w |-> Max(R) - Min(X) + 2 * 0, h |-> Max(B) - Min(Y) + 2 * 0]
  BY DEF Bounds
<1>3. /\ \E r \in rs : r.x = Min(X)
      /\ \A r \in rs : Min(X) <= r.x
  <2> DEFINE f == [r \in rs |-> r.x]
  <2>1. DOMAIN f = rs /\ (\A r \in rs : f[r] = r.x) /\ \A y : y \in X <=> \E r \in rs : y = f[r]
    OBVIOUS
  <2> HIDE DEF f, X
  <2>2. /\ \E r \in rs : f[r] = Min(X)
        /\ \A r \in rs : Min(X) <= f[r]
    BY <1>1, <2>1, FiniteSide
  <2>3. QED
    BY <2>1, <2>2
<1>4. /\ \E r \in rs : r.y = Min(Y)
      /\ \A r \in rs : Min(Y) <= r.y
  <2> DEFINE f == [r \in rs |-> r.y]
  <2>1. DOMAIN f = rs /\ (\A r \in rs : f[r] = r.y) /\ \A y : y \in Y <=> \E r \in rs : y = f[r]
    OBVIOUS
  <2> HIDE DEF f, Y
  <2>2. /\ \E r \in rs : f[r] = Min(Y)
        /\ \A r \in rs : Min(Y) <= f[r]
    BY <1>1, <2>1, FiniteSide
  <2>3. QED
    BY <2>1, <2>2
<1>5. /\ \E r \in rs : Right(r) = Max(R)
      /\ \A r \in rs : Right(r) <= Max(R)
  <2> DEFINE f == [r \in rs |-> Right(r)]
  <2>1. DOMAIN f = rs /\ (\A r \in rs : f[r] = Right(r)) /\ \A y : y \in R <=> \E r \in rs : y = f[r]
    OBVIOUS
  <2> HIDE DEF f, R
  <2>2. /\ \E r \in rs : f[r] = Max(R)
        /\ \A r \in rs : f[r] <= Max(R)
    BY <1>1, <2>1, FiniteSide
  <2>3. QED
    BY <2>1, <2>2
<1>6. /\ \E r \in rs : Bottom(r) = Max(B)
      /\ \A r \in rs : Bottom(r) <= Max(B)
  <2> DEFINE f == [r \in rs |-> Bottom(r)]
  <2>1. DOMAIN f = rs /\ (\A r \in rs : f[r] = Bottom(r)) /\ \A y : y \in B <=> \E r \in rs : y = f[r]
    OBVIOUS
  <2> HIDE DEF f, B
  <2>2. /\ \E r \in rs : f[r] = Max(B)
        /\ \A r \in rs : f[r] <= Max(B)
    BY <1>1, <2>1, FiniteSide
  <2>3. QED
    BY <2>1, <2>2
<1> HIDE DEF X, R, Y, B, b
<1>7. /\ Min(X) \in Int /\ Max(R) \in Int /\ Min(X) < Max(R)
      /\ Min(Y) \in Int /\ Max(B) \in Int /\ Min(Y) < Max(B)
  <2>1. PICK r : r \in rs
    OBVIOUS
  <2>2. Min(X) \in Int /\ Max(R) \in Int /\ Min(X) <= r.x /\ r.x < Right(r) /\ Right(r) <= Max(R)
    BY <1>1, <1>3, <1>5, <2>1
  <2>3. Min(Y) \in Int /\ Max(B) \in Int /\ Min(Y) <= r.y /\ r.y < Bottom(r) /\ Bottom(r) <= Max(B)
    BY <1>1, <1>4, <1>6, <2>1
  <2>4. r.x \in Int /\ Right(r) \in Int /\ r.y \in Int /\ Bottom(r) \in Int
    BY <1>1, <2>1
  <2>5. QED
    BY ONLY <2>2, <2>3, <2>4
<1>8. b \in Boxed /\ b.x = Min(X) /\ b.y = Min(Y) /\ Right(b) = Max(R) /\ Bottom(b) = Max(B)
  <2> DEFINE x == Min(X)
             y == Min(Y)
             p == Max(R)
             q == Max(B)
  <2>1. /\ b = [x |-> x - 0, y |-> y - 0, w |-> p - x + 2 * 0, h |-> q - y + 2 * 0]
        /\ x \in Int /\ y \in Int /\ p \in Int /\ q \in Int /\ x < p /\ y < q
    BY <1>2, <1>7
  <2> HIDE DEF x, y, p, q
  <2>2. b \in Boxed /\ b.x = x /\ b.y = y /\ Right(b) = p /\ Bottom(b) = q
    BY ONLY <2>1 DEF Boxed, Right, Bottom
  <2>3. QED
    BY <2>2 DEF x, y, p, q
<1>9. \A r \in rs : Inside(r, b)
  BY <1>3, <1>4, <1>5, <1>6, <1>8 DEF Inside
<1>10. QED
  BY <1>3, <1>4, <1>5, <1>6, <1>8, <1>9 DEF Spans, b

\* Bounds with a margin lie that much further out.
Within(r, b, m) == b.x + m <= r.x /\ Right(r) + m <= Right(b) /\ b.y + m <= r.y /\ Bottom(r) + m <= Bottom(b)

\* And with one.
LEMMA BoundsContain ==
  ASSUME NEW rs, rs \subseteq Boxed, rs # {}, IsFiniteSet(rs), NEW m, m \in Nat
  PROVE  Bounds(rs, m) \in Boxed /\ \A r \in rs : Within(r, Bounds(rs, m), m)
<1> DEFINE X == {r.x : r \in rs}
           R == {Right(r) : r \in rs}
           Y == {r.y : r \in rs}
           B == {Bottom(r) : r \in rs}
           b == Bounds(rs, 0)
           c == Bounds(rs, m)
           u == Min(X)
           v == Min(Y)
           p == Max(R)
           q == Max(B)
<1>1. b \in Boxed /\ \A r \in rs : Inside(r, b)
  BY BoundsSpan DEF Spans
<1>2. /\ b = [x |-> u - 0, y |-> v - 0, w |-> p - u + 2 * 0, h |-> q - v + 2 * 0]
      /\ c = [x |-> u - m, y |-> v - m, w |-> p - u + 2 * m, h |-> q - v + 2 * m]
  BY DEF Bounds
<1>3. /\ u \in Int /\ v \in Int /\ p \in Int /\ q \in Int
  <2> DEFINE f == [r \in rs |-> r.x]
             g == [r \in rs |-> r.y]
             s == [r \in rs |-> Right(r)]
             t == [r \in rs |-> Bottom(r)]
  <2>1. \A r \in rs : r.x \in Int /\ r.y \in Int /\ Right(r) \in Int /\ Bottom(r) \in Int
    BY Coordinates
  <2>2. DOMAIN f = rs /\ (\A r \in rs : f[r] \in Int) /\ \A y : y \in X <=> \E r \in rs : y = f[r]
    BY <2>1
  <2>3. DOMAIN g = rs /\ (\A r \in rs : g[r] \in Int) /\ \A y : y \in Y <=> \E r \in rs : y = g[r]
    BY <2>1
  <2>4. DOMAIN s = rs /\ (\A r \in rs : s[r] \in Int) /\ \A y : y \in R <=> \E r \in rs : y = s[r]
    BY <2>1
  <2>5. DOMAIN t = rs /\ (\A r \in rs : t[r] \in Int) /\ \A y : y \in B <=> \E r \in rs : y = t[r]
    BY <2>1
  <2> HIDE DEF f, g, s, t, X, Y, R, B
  <2>6. \E r \in rs : f[r] = Min(X)
    BY <2>2, FiniteSide
  <2>7. \E r \in rs : g[r] = Min(Y)
    BY <2>3, FiniteSide
  <2>8. \E r \in rs : s[r] = Max(R)
    BY <2>4, FiniteSide
  <2>9. \E r \in rs : t[r] = Max(B)
    BY <2>5, FiniteSide
  <2>10. QED
    BY <2>2, <2>3, <2>4, <2>5, <2>6, <2>7, <2>8, <2>9
<1> HIDE DEF X, R, Y, B, b, c, u, v, p, q
<1>4. b.x = u /\ b.y = v /\ b.w = p - u /\ b.h = q - v /\ p - u \in Nat \ {0} /\ q - v \in Nat \ {0}
  <2>1. b.x = u /\ b.y = v /\ b.w = p - u /\ b.h = q - v
    BY <1>2, <1>3
  <2>2. QED
    BY <1>1, <2>1, Coordinates
<1>5. c.x = u - m /\ c.y = v - m /\ c.w = p - u + 2 * m /\ c.h = q - v + 2 * m
  BY <1>2
<1>6. Right(b) = p /\ Bottom(b) = q /\ Right(c) = p + m /\ Bottom(c) = q + m
  BY ONLY <1>3, <1>4, <1>5, m \in Nat DEF Right, Bottom
<1>7. c \in Boxed
  BY ONLY <1>2, <1>3, <1>4, m \in Nat DEF Boxed
<1>8. ASSUME NEW r \in rs PROVE Within(r, c, m)
  <2>1. u <= r.x /\ Right(r) <= p /\ v <= r.y /\ Bottom(r) <= q
    BY <1>1, <1>4, <1>6 DEF Inside
  <2>2. r.x \in Int /\ Right(r) \in Int /\ r.y \in Int /\ Bottom(r) \in Int
    BY Coordinates
  <2>3. QED
    BY ONLY <1>3, <1>5, <1>6, <2>1, <2>2, m \in Nat DEF Within
<1>9. QED
  BY <1>7, <1>8 DEF c

LabelTypes == [w : Nat, h : Nat, hor : {"none", "left", "center", "right"},
               ver : {"none", "top", "center", "bottom"}]

LEMMA LabelOf ==
  ASSUME NEW l, l \in LabelTypes
  PROVE  /\ l.w \in Nat /\ l.h \in Nat /\ l.hor \in {"none", "left", "center", "right"}
         /\ l.ver \in {"none", "top", "center", "bottom"}
BY DEF LabelTypes

LEMMA ServerLabelType == ServerLabel \in LabelTypes /\ Labels \subseteq LabelTypes
BY TilingAssumption DEF LabelTypes

\* A label widens a side by some of its size, and moves the corner by no more.
Widened(x, w, from, to) == from <= x /\ x + w <= from + to /\ from \in Int /\ to \in Nat \ {0}

\* A centred label that is wider than the box widens it to both sides.
LEMMA HalfWay ==
  ASSUME NEW x \in Int, NEW w \in Nat \ {0}, NEW m \in Nat
  PROVE  Widened(x, w, x - ((Larger(m, w) - w) \div 2), Larger(m, w))
<1>1. CASE m <= w
  <2>1. Larger(m, w) = w /\ (w - w) \div 2 = 0
    BY <1>1 DEF Larger
  <2>2. QED
    BY <2>1 DEF Widened
<1>2. CASE ~(m <= w)
  <2> DEFINE d == (m - w) \div 2
  <2>1. Larger(m, w) = m
    BY <1>2 DEF Larger
  <2>2. d \in Int /\ 0 <= d /\ d <= m - w
    BY <1>2
  <2> HIDE DEF d
  <2>3. Widened(x, w, x - d, m)
    BY ONLY <1>2, <2>2, x \in Int, w \in Nat \ {0}, m \in Nat DEF Widened
  <2>4. QED
    BY <2>1, <2>3 DEF d
<1>3. QED
  BY <1>1, <1>2

\* A server's box with its label contains the box without.
LEMMA LabelledContains ==
  ASSUME NEW r, r \in Boxed, NEW l, l \in LabelTypes
  PROVE  Labelled(r, l) \in Boxed /\ Inside(r, Labelled(r, l))
<1> DEFINE wide == IF l.hor \in {"left", "right"} THEN r.w + l.w
                   ELSE IF l.hor = "center" THEN Larger(l.w, r.w) ELSE r.w
           high == IF l.ver \in {"top", "bottom"} THEN r.h + l.h
                   ELSE IF l.ver = "center" THEN Larger(l.h, r.h) ELSE r.h
           x == IF l.hor = "left" THEN r.x - l.w
                ELSE IF l.hor = "center" THEN r.x - ((wide - r.w) \div 2) ELSE r.x
           y == IF l.ver = "top" THEN r.y - l.h
                ELSE IF l.ver = "center" THEN r.y - ((high - r.h) \div 2) ELSE r.y
           b == Labelled(r, l)
<1>1. b = [x |-> x, y |-> y, w |-> wide, h |-> high]
  BY DEF Labelled
<1>2. /\ r.x \in Int /\ r.y \in Int /\ r.w \in Nat \ {0} /\ r.h \in Nat \ {0}
      /\ Right(r) = r.x + r.w /\ Bottom(r) = r.y + r.h
  BY Coordinates
<1>3. /\ l.w \in Nat /\ l.h \in Nat /\ l.hor \in {"none", "left", "center", "right"}
      /\ l.ver \in {"none", "top", "center", "bottom"}
  BY LabelOf
<1>4. Widened(r.x, r.w, x, wide)
  <2>1. CASE l.hor = "center"
    BY <1>2, <1>3, <2>1, HalfWay
  <2>2. CASE l.hor # "center"
    BY <1>2, <1>3, <2>2 DEF Widened
  <2>3. QED
    BY <2>1, <2>2
<1>5. Widened(r.y, r.h, y, high)
  <2>1. CASE l.ver = "center"
    BY <1>2, <1>3, <2>1, HalfWay
  <2>2. CASE l.ver # "center"
    BY <1>2, <1>3, <2>2 DEF Widened
  <2>3. QED
    BY <2>1, <2>2
<1> HIDE DEF wide, high, x, y, b
<1>6. b \in Boxed /\ Inside(r, b)
  BY ONLY <1>1, <1>2, <1>4, <1>5 DEF Boxed, Inside, Widened, Right, Bottom
<1>7. QED
  BY <1>6 DEF b

LEMMA NullIsNoBox == Null \notin Boxed
BY TilingAssumption

\* The bounds of a server: only its own box changes, and what is in it is
\* inside.
LEMMA WrappedHolds ==
  ASSUME NEW rc, rc \in [Box -> Boxed \cup {Null}], rc["service"] \in Boxed
  PROVE  /\ Wrapped(rc) \in [Box -> Boxed \cup {Null}]
         /\ \A k \in Box \ {"server"} : Wrapped(rc)[k] = rc[k]
         /\ Wrapped(rc)["server"] \in Boxed
         /\ \A k \in Inner : rc[k] # Null => Inside(rc[k], Wrapped(rc)["server"])
<1> DEFINE I == {j \in Inner : rc[j] # Null}
           rs == {rc[k] : k \in I}
           b == Bounds(rs, Padding)
           s == Labelled(b, ServerLabel)
           w == Wrapped(rc)
<1>1. w = [rc EXCEPT !["server"] = s] /\ "server" \in DOMAIN rc /\ Inner \subseteq Box
  BY DEF Wrapped, Box, Inner
<1>2. \A k \in I : rc[k] \in Boxed
  BY <1>1
<1>3. rs \subseteq Boxed /\ rs # {}
  <2>1. "service" \in I
    BY NullIsNoBox DEF Inner
  <2>2. QED
    BY <1>2, <2>1
<1>4. IsFiniteSet(rs)
  <2> DEFINE f == [k \in I |-> rc[k]]
  <2>1. DOMAIN f = I /\ \A y : y \in rs <=> \E k \in I : y = f[k]
    OBVIOUS
  <2>2. IsFiniteSet(I)
    <3>1. IsFiniteSet({"service"})
      BY FS_Singleton
    <3>2. IsFiniteSet({"service"} \cup {"leaf"})
      BY <3>1, FS_AddElement
    <3>3. I \subseteq {"service"} \cup {"leaf"}
      BY DEF Inner
    <3>4. QED
      BY <3>2, <3>3, FS_Subset
  <2> HIDE DEF f, rs, I
  <2>3. QED
    BY ONLY <2>1, <2>2, FiniteImage
<1>5. \A k \in Inner : rc[k] # Null => rc[k] \in rs
  OBVIOUS
<1> HIDE DEF rs, b, s, w, I
<1>6. b \in Boxed /\ \A r \in rs : Within(r, b, Padding)
  BY <1>3, <1>4, PaddingTypes, BoundsContain DEF b
<1>7. s \in Boxed /\ Inside(b, s)
  BY <1>6, ServerLabelType, LabelledContains DEF s
<1>8. ASSUME NEW r \in rs PROVE Inside(r, s)
  <2>1. Within(r, b, Padding) /\ r \in Boxed
    BY <1>3, <1>6
  <2>2. /\ r.x \in Int /\ r.y \in Int /\ Right(r) \in Int /\ Bottom(r) \in Int
        /\ b.x \in Int /\ b.y \in Int /\ Right(b) \in Int /\ Bottom(b) \in Int
        /\ s.x \in Int /\ s.y \in Int /\ Right(s) \in Int /\ Bottom(s) \in Int
    BY <1>6, <1>7, <2>1, Coordinates
  <2>3. Padding \in Nat
    BY PaddingTypes
  <2>4. QED
    BY ONLY <1>7, <2>1, <2>2, <2>3 DEF Within, Inside
<1>9. w["server"] = s /\ \A k \in Box \ {"server"} : w[k] = rc[k]
  BY <1>1
<1>10. w \in [Box -> Boxed \cup {Null}]
  BY <1>1, <1>7
<1>11. QED
  BY <1>5, <1>7, <1>8, <1>9, <1>10 DEF w

\* The bounds of the root graph leave its margin around both of its boxes.
LEMMA SpaceHolds ==
  ASSUME NEW rc, rc["tiled"] \in Boxed, rc["server"] \in Boxed
  PROVE  /\ Space(rc) \in Boxed
         /\ Within(rc["tiled"], Space(rc), GraphMargin) /\ Within(rc["server"], Space(rc), GraphMargin)
<1> DEFINE a == rc["tiled"]
           b == rc["server"]
           rs == {a, b}
<1>1. rs \subseteq Boxed /\ rs # {} /\ a \in rs /\ b \in rs
  OBVIOUS
<1>2. IsFiniteSet(rs)
  <2>1. IsFiniteSet({a})
    BY FS_Singleton
  <2>2. IsFiniteSet({a} \cup {b})
    BY <2>1, FS_AddElement
  <2>3. rs = {a} \cup {b}
    OBVIOUS
  <2>4. QED
    BY <2>2, <2>3
<1>3. Space(rc) = Bounds(rs, GraphMargin)
  BY DEF Space
<1>4. GraphMargin \in Nat
  BY PaddingTypes
<1> HIDE DEF rs, a, b
<1>5. Bounds(rs, GraphMargin) \in Boxed /\ \A r \in rs : Within(r, Bounds(rs, GraphMargin), GraphMargin)
  BY ONLY <1>1, <1>2, <1>4, BoundsContain
<1>6. QED
  BY <1>1, <1>3, <1>5 DEF a, b

\* The boxes of a state that is in a grid are in the bounds the grid is of.
LEMMA InSpace ==
  ASSUME NEW r, r \in Boxed, NEW s, s \in Boxed, NEW b, b \in Boxed, Inside(r, b), Within(b, s, GraphMargin)
  PROVE  s.x <= r.x /\ Right(r) < Right(s) /\ s.y <= r.y /\ Bottom(r) < Bottom(s)
<1>1. /\ r.x \in Int /\ r.y \in Int /\ Right(r) \in Int /\ Bottom(r) \in Int
      /\ b.x \in Int /\ b.y \in Int /\ Right(b) \in Int /\ Bottom(b) \in Int
      /\ s.x \in Int /\ s.y \in Int /\ Right(s) \in Int /\ Bottom(s) \in Int
  BY Coordinates
<1>2. GraphMargin \in Nat \ {0}
  BY PaddingTypes
<1>3. Inside(r, b) /\ Within(b, s, GraphMargin)
  OBVIOUS
<1>4. QED
  BY ONLY <1>1, <1>2, <1>3 DEF Inside, Within

LEMMA InsideItself ==
  ASSUME NEW r, r \in Boxed
  PROVE  Inside(r, r)
<1>1. r.x \in Int /\ r.y \in Int /\ Right(r) \in Int /\ Bottom(r) \in Int
  BY Coordinates
<1>2. QED
  BY ONLY <1>1 DEF Inside

LEMMA PresentBoxes ==
  ASSUME IInv, phase # "tile", NEW k, k \in Present
  PROVE  rect[k] \in Boxed /\ k \in Box
BY DEF IInv, TypesOK, Present, Placed, Box

\* A grid that is the boxes' takes them all, by the margin of the graph they are
\* in, and finds what is near, by the width of its cells.
LEMMA GridIsSound == IInv => GridSound
<1> SUFFICES ASSUME IInv, GridFresh PROVE GridInBounds /\ NearAreFound
  BY DEF GridSound, GridInBounds, NearAreFound
<1>1. phase # "tile" /\ space = Space(rect) /\ cells = Gridded(rect, space)
      /\ \A k \in Inner : rect[k] # Null => Inside(rect[k], rect["server"])
  BY DEF IInv, GridOK, GridFresh
<1>2. rect["tiled"] \in Boxed /\ rect["server"] \in Boxed
  BY <1>1 DEF IInv, TypesOK, Placed
<1>3. /\ space \in Boxed
      /\ Within(rect["tiled"], space, GraphMargin) /\ Within(rect["server"], space, GraphMargin)
  BY <1>1, <1>2, SpaceHolds
<1>4. ASSUME NEW k \in Present
      PROVE  /\ rect[k] \in Boxed /\ cells[k] = CellsOf(rect[k], space)
             /\ space.x <= rect[k].x /\ Right(rect[k]) < Right(space)
             /\ space.y <= rect[k].y /\ Bottom(rect[k]) < Bottom(space)
  <2>1. rect[k] \in Boxed /\ k \in Box
    BY <1>1, PresentBoxes
  <2>2. cells[k] = CellsOf(rect[k], space)
    BY <1>1, <2>1, NullIsNoBox DEF Gridded
  <2>3. \E b \in Boxed : Inside(rect[k], b) /\ Within(b, space, GraphMargin)
    <3>1. CASE k \in {"tiled", "server"}
      BY <1>2, <1>3, <2>1, <3>1, InsideItself
    <3>2. CASE k \in Inner
      <4>1. Inside(rect[k], rect["server"])
        BY <1>1, <2>1, <3>2, NullIsNoBox
      <4>2. QED
        BY <1>2, <1>3, <4>1
    <3>3. QED
      BY <2>1, <3>1, <3>2 DEF Box, Inner
  <2>4. QED
    BY <1>3, <2>1, <2>2, <2>3, InSpace
<1>5. GridInBounds
  BY <1>3, <1>4, CellsAreInGrid DEF GridInBounds
<1>6. NearAreFound
  <2>1. SUFFICES ASSUME NEW p \in Pairs, InRange(rect[p[1]], rect[p[2]])
                 PROVE  Searched(cells[p[1]], cells[p[2]])
    BY DEF NearAreFound
  <2>2. p[1] \in Present /\ p[2] \in Present
    BY DEF Pairs
  <2>3. QED
    BY <1>3, <1>4, <2>1, <2>2, NearAlwaysFound
<1>7. QED
  BY <1>5, <1>6

\* There are as many members in the rows as they have places.
LEMMA TypeHolds == IInv => TypeOK
<1> SUFFICES ASSUME IInv PROVE TypeOK
  OBVIOUS
<1>1. /\ members \in MemberLists /\ label \in Labels \cup {Null} /\ ticks \in 0..Ticks
      /\ centre \in Centres /\ phase \in {"tile", "tick", "move", "grown", "placed", "done"}
      /\ DOMAIN rect = Box /\ DOMAIN cells = Box
  BY DEF IInv, TypesOK
<1>2. Inserted = Cardinality(UNION {ToSet(org.rows[k]) : k \in DOMAIN org.rows})
  <2>1. Inserted = Cardinality(PlacesIn(org.rows))
    BY DEF Inserted, Places, PlacesIn
  <2>2. Members(org.rows) = 1..Inserted /\ IsFiniteSet(PlacesIn(org.rows))
    BY <2>1 DEF IInv, TilingOK, Organized
  <2>3. Inserted \in Nat
    BY <2>1, <2>2, FS_CardinalityType
  <2>4. Cardinality(1..Inserted) = Inserted
    BY <2>3, FS_Interval
  <2>5. QED
    BY <2>2, <2>4 DEF Members
<1>3. phase # "tile" => \A k \in Present : rect[k] \in Boxed
  BY PresentBoxes
<1>4. region = Null \/ region.side \in 0..3
  BY DEF IInv, LeafOK
<1>5. QED
  BY <1>1, <1>2, <1>3, <1>4 DEF TypeOK

(***************************************************************************)
(* The side the leaf grows on: it is one of four, and none is emptier.     *)
(***************************************************************************)
\* A cell's index, and the grid's size, are numbers.
LEMMA CellTypes ==
  ASSUME NEW r, r \in Boxed, NEW s, s \in Boxed
  PROVE  /\ CellsOf(r, s).startX \in Int /\ CellsOf(r, s).finishX \in Int
         /\ CellsOf(r, s).startY \in Int /\ CellsOf(r, s).finishY \in Int
<1>1. /\ r.x \in Int /\ r.y \in Int /\ Right(r) \in Int /\ Bottom(r) \in Int
      /\ s.x \in Int /\ s.y \in Int
  BY Coordinates
<1>2. RepulsionRange \in Nat \ {0}
  BY RangeType
<1>3. /\ (r.x - s.x) \div RepulsionRange \in Int /\ (Right(r) - s.x) \div RepulsionRange \in Int
      /\ (r.y - s.y) \div RepulsionRange \in Int /\ (Bottom(r) - s.y) \div RepulsionRange \in Int
  BY ONLY <1>1, <1>2
<1>4. QED
  BY <1>3 DEF CellsOf

LEMMA FiniteBox == IsFiniteSet(Box)
<1>1. IsFiniteSet({"tiled"})
  BY FS_Singleton
<1>2. IsFiniteSet({"tiled"} \cup {"server"})
  BY <1>1, FS_AddElement
<1>3. IsFiniteSet(({"tiled"} \cup {"server"}) \cup {"service"})
  BY <1>2, FS_AddElement
<1>4. IsFiniteSet((({"tiled"} \cup {"server"}) \cup {"service"}) \cup {"leaf"})
  BY <1>3, FS_AddElement
<1>5. Box = (({"tiled"} \cup {"server"}) \cup {"service"}) \cup {"leaf"}
  BY DEF Box
<1>6. QED
  BY <1>4, <1>5

LEMMA InGridType ==
  ASSUME NEW cs, NEW I, IsFiniteSet(I), NEW J, IsFiniteSet(J)
  PROVE  InGrid(cs, I, J) \in Int
<1>1. IsFiniteSet(I \X J)
  BY FS_Product
<1> DEFINE K == I \X J
<1>2. IsFiniteSet(Box \X K)
  <2>1. IsFiniteSet(K)
    BY <1>1
  <2> HIDE DEF K
  <2>2. QED
    BY <2>1, FiniteBox, FS_Product
<1> DEFINE S == {p \in Box \X K : cs[p[1]] # Null /\ InCell(cs[p[1]], p[2][1], p[2][2])}
<1>3. S \subseteq Box \X K
  OBVIOUS
<1>4. Cardinality(S) \in Nat
  <2> HIDE DEF S
  <2>1. QED
    BY <1>2, <1>3, FS_Subset, FS_CardinalityType
<1>5. InGrid(cs, I, J) = Cardinality(S)
  BY DEF InGrid
<1>6. QED
  BY <1>4, <1>5

LEMMA TwoPlaces ==
  ASSUME NEW a, NEW b
  PROVE  IsFiniteSet({a, b})
<1>1. IsFiniteSet({a})
  BY FS_Singleton
<1>2. IsFiniteSet({a} \cup {b})
  BY <1>1, FS_AddElement
<1>3. {a} \cup {b} = {a, b}
  OBVIOUS
<1>4. QED
  BY <1>2, <1>3

\* Counts are numbers, on all four sides.
LEMMA CountsType ==
  ASSUME NEW cs, NEW r, r \in Boxed, NEW s, s \in Boxed, cs["service"] = CellsOf(r, s)
  PROVE  Counts(cs, s) \in [0..3 -> Int]
<1> DEFINE c == cs["service"]
           X == c.startX..c.finishX
           Y == c.startY..c.finishY
           row(at, edge) == InGrid(cs, X, {at, edge}) - Cardinality(X)
           col(at, edge) == InGrid(cs, {at, edge}, Y) - Cardinality(Y)
           n == Counts(cs, s)
<1>1. n = [side \in 0..3 |->
             CASE side = 0 /\ c.startY > 0 -> row(c.startY - 1, c.startY)
               [] side = 1 /\ c.finishX < GridSize(s).x - 1 -> col(c.finishX + 1, c.finishX)
               [] side = 2 /\ c.finishY < GridSize(s).y - 1 -> row(c.finishY + 1, c.finishY)
               [] side = 3 /\ c.startX > 0 -> col(c.startX - 1, c.startX)
               [] OTHER -> 0]
  BY DEF Counts
<1>2. IsFiniteSet(X) /\ IsFiniteSet(Y)
  BY CellTypes, FS_Interval
<1>3. Cardinality(X) \in Int /\ Cardinality(Y) \in Int
  BY <1>2, FS_CardinalityType
<1>4. ASSUME NEW at, NEW edge
      PROVE  row(at, edge) \in Int /\ col(at, edge) \in Int
  <2>1. IsFiniteSet({at, edge})
    BY TwoPlaces
  <2>2. InGrid(cs, X, {at, edge}) \in Int /\ InGrid(cs, {at, edge}, Y) \in Int
    <3> HIDE DEF X, Y
    <3>1. QED
      BY <1>2, <2>1, InGridType
  <2>3. QED
    BY <1>3, <2>2
<1>5. /\ row(c.startY - 1, c.startY) \in Int /\ row(c.finishY + 1, c.finishY) \in Int
      /\ col(c.startX - 1, c.startX) \in Int /\ col(c.finishX + 1, c.finishX) \in Int
  BY <1>4
<1>6. ASSUME NEW side \in 0..3 PROVE n[side] \in Int
  <2> DEFINE u == row(c.startY - 1, c.startY)
             d == row(c.finishY + 1, c.finishY)
             l == col(c.startX - 1, c.startX)
             r0 == col(c.finishX + 1, c.finishX)
             A == c.startY > 0
             B == c.finishX < GridSize(s).x - 1
             C == c.finishY < GridSize(s).y - 1
             D == c.startX > 0
  <2>1. n[side] = CASE side = 0 /\ A -> u [] side = 1 /\ B -> r0 [] side = 2 /\ C -> d
                    [] side = 3 /\ D -> l [] OTHER -> 0
    BY <1>1
  <2>2. u \in Int /\ d \in Int /\ l \in Int /\ r0 \in Int
    BY <1>5
  <2>3. A \in BOOLEAN /\ B \in BOOLEAN /\ C \in BOOLEAN /\ D \in BOOLEAN
    OBVIOUS
  <2> HIDE DEF u, d, l, r0, A, B, C, D, n
  <2>4. CASE side = 0
    BY ONLY <2>1, <2>2, <2>3, <2>4
  <2>5. CASE side = 1
    BY ONLY <2>1, <2>2, <2>3, <2>5
  <2>6. CASE side = 2
    BY ONLY <2>1, <2>2, <2>3, <2>6
  <2>7. CASE side = 3
    BY ONLY <2>1, <2>2, <2>3, <2>7
  <2>8. QED
    BY ONLY <1>6, <2>4, <2>5, <2>6, <2>7
<1>7. n = [side \in 0..3 |-> n[side]]
  BY <1>1
<1> HIDE DEF n
<1>8. n \in [0..3 -> Int]
  BY <1>6, <1>7
<1>9. QED
  BY <1>8 DEF n

LEMMA FourSides == IsFiniteSet(0..3) /\ Cardinality(0..3) = 4
<1> DEFINE a == 0
           b == 3
<1>1. a \in Int /\ b \in Int /\ a <= b /\ (b - a) + 1 = 4
  OBVIOUS
<1> HIDE DEF a, b
<1>2. IsFiniteSet(a..b) /\ Cardinality(a..b) = 4
  <2>1. Cardinality(a..b) = IF a > b THEN 0 ELSE b - a + 1
    BY <1>1, FS_Interval
  <2>2. IsFiniteSet(a..b)
    BY <1>1, FS_Interval
  <2>3. QED
    BY <1>1, <2>1, <2>2
<1>3. QED
  BY <1>2 DEF a, b

\* The emptiest sides are the sides of the least count.
LEMMA EmptiestIs ==
  ASSUME NEW n, n \in [0..3 -> Int]
  PROVE  /\ Emptiest(n) \subseteq 0..3 /\ Emptiest(n) # {} /\ IsFiniteSet(Emptiest(n))
         /\ \A i \in Emptiest(n) : \A j \in 0..3 : n[i] <= n[j]
<1> DEFINE S == {n[j] : j \in 0..3}
<1>1. IsFiniteSet(0..3)
  BY FourSides
<1>2. IsFiniteSet(S)
  <2>1. DOMAIN n = 0..3 /\ \A y : y \in S <=> \E j \in 0..3 : y = n[j]
    OBVIOUS
  <2> HIDE DEF S
  <2>2. QED
    BY ONLY <1>1, <2>1, FiniteImage
<1>3. S \subseteq Int /\ n[0] \in S
  OBVIOUS
<1>4. Min(S) \in S /\ \A x \in S : Min(S) <= x
  <2> HIDE DEF S
  <2>1. QED
    BY <1>2, <1>3, MinAndMax
<1>5. Emptiest(n) = {i \in 0..3 : n[i] = Min(S)}
  BY DEF Emptiest
<1>6. IsFiniteSet(Emptiest(n))
  BY <1>1, <1>5, FS_Subset
<1>7. QED
  BY <1>4, <1>5, <1>6

\* Of three of the four sides, one is across from the side left out.
LEMMA ThreeOfFour ==
  ASSUME NEW T, T \subseteq 0..3, Cardinality(T) = 3, NEW i, i \in 0..3 \ T
  PROVE  (i + 2) % 4 \in T
<1> DEFINE j == (i + 2) % 4
<1>1. j \in 0..3 /\ j # i
  OBVIOUS
<1> HIDE DEF j
<1>2. SUFFICES ASSUME j \notin T PROVE FALSE
  BY DEF j
<1>3. IsFiniteSet(0..3) /\ Cardinality(0..3) = 4
  BY FourSides
<1>4. IsFiniteSet((0..3) \ {i}) /\ Cardinality((0..3) \ {i}) = 3
  BY <1>3, FS_RemoveElement
<1>5. IsFiniteSet(((0..3) \ {i}) \ {j}) /\ Cardinality(((0..3) \ {i}) \ {j}) = 2
  BY <1>1, <1>4, FS_RemoveElement
<1>6. T \subseteq ((0..3) \ {i}) \ {j}
  BY <1>2
<1>7. Cardinality(T) <= 2
  <2> DEFINE S == ((0..3) \ {i}) \ {j}
  <2>1. IsFiniteSet(S) /\ Cardinality(S) = 2 /\ T \subseteq S
    BY <1>5, <1>6
  <2> HIDE DEF S
  <2>2. Cardinality(T) <= Cardinality(S)
    BY ONLY <2>1, FS_Subset
  <2>3. QED
    BY <2>1, <2>2
<1>8. QED
  BY <1>7

\* Whichever side findPlaceforPrunedNode may choose, none is emptier.
LEMMA ChosenIsEmptiest ==
  ASSUME NEW n, n \in [0..3 -> Int], NEW side, side \in Choice(n)
  PROVE  side \in 0..3 /\ \A i \in 0..3 : n[side] <= n[i]
<1> DEFINE least == Emptiest(n)
           free  == n[Min(least)] = 0
           across(i) == (i + 2) % 4
<1>1. side \in (CASE free /\ Cardinality(least) = 3 -> {across(i) : i \in 0..3 \ least}
                  [] free /\ Cardinality(least) \in {2, 4} -> least
                  [] OTHER -> {Min(least)})
  BY DEF Choice
<1>2. /\ least \subseteq 0..3 /\ least # {} /\ IsFiniteSet(least)
      /\ \A i \in least : \A j \in 0..3 : n[i] <= n[j]
  BY EmptiestIs
<1>3. Min(least) \in least
  <2>1. least \subseteq Int
    BY <1>2
  <2> HIDE DEF least
  <2>2. QED
    BY <1>2, <2>1, MinAndMax
<1>4. Cardinality(least) = 3 => \A i \in 0..3 \ least : across(i) \in least
  <2> HIDE DEF least
  <2>1. QED
    BY <1>2, ThreeOfFour
<1> HIDE DEF least
<1>5. side \in least
  <2>1. CASE free /\ Cardinality(least) = 3
    <3>1. side \in {across(i) : i \in 0..3 \ least}
      BY <1>1, <2>1
    <3>2. QED
      BY <1>4, <2>1, <3>1
  <2>2. CASE free /\ Cardinality(least) # 3 /\ Cardinality(least) \in {2, 4}
    BY <1>1, <2>2
  <2>3. CASE ~(free /\ Cardinality(least) = 3) /\ ~(free /\ Cardinality(least) \in {2, 4})
    BY <1>1, <1>3, <2>3
  <2>4. QED
    BY <2>1, <2>2, <2>3
<1>6. QED
  BY <1>2, <1>5

(***************************************************************************)
(* The leaf beside the service.  It is in the middle of the side, so that  *)
(* the connection's clips are above each other, or beside, and its length is*)
(* the way between the two boxes.                                          *)
(***************************************************************************)
\* A box whose size differs from another's by what is halved.
Halves(r, size) ==
  /\ r \in Boxed /\ size \in Sizes /\ (r.w - size.w) % 2 = 0 /\ (r.h - size.h) % 2 = 0

\* Whether w wide at m has the middle of v wide at x.
Centred(m, w, x, v) == m \in Int /\ (m + (m + w)) - (x + (x + v)) = 0

LEMMA Halved ==
  ASSUME NEW x, x \in Int, NEW v, v \in Int, NEW w, w \in Int, (v - w) % 2 = 0
  PROVE  Centred(x + ((v - w) \div 2), w, x, v)
<1> DEFINE d == (v - w) \div 2
<1>1. d \in Int /\ 2 * d = v - w
  OBVIOUS
<1> HIDE DEF d
<1>2. x + d \in Int /\ ((x + d) + ((x + d) + w)) - (x + (x + v)) = 0
  BY ONLY <1>1, x \in Int, v \in Int, w \in Int
<1>3. QED
  BY <1>2 DEF d, Centred

\* What Beside makes: on its side, at the length of an edge, middle to middle.
Upright(r, q, side) ==
  /\ Between(XSpan(r), XSpan(q)) = 0
  /\ side = 0 => Bottom(q) = r.y - EdgeLength
  /\ side = 2 => q.y = Bottom(r) + EdgeLength
Level(r, q, side) ==
  /\ Between(YSpan(r), YSpan(q)) = 0
  /\ side = 1 => q.x = Right(r) + EdgeLength
  /\ side = 3 => Right(q) = r.x - EdgeLength

\* A leaf that is put beside a service is on its side, wherever that is.
LEMMA BesideIs ==
  ASSUME NEW r, NEW size, Halves(r, size), NEW side, side \in 0..3
  PROVE  LET q == Beside(r, size, side)
         IN /\ q \in Boxed
            /\ side \in {0, 2} => Upright(r, q, side)
            /\ side \in {1, 3} => Level(r, q, side)
<1> DEFINE w == size.w
           h == size.h
           midX == r.x + ((r.w - w) \div 2)
           midY == r.y + ((r.h - h) \div 2)
           q == Beside(r, size, side)
<1>1. /\ r.x \in Int /\ r.y \in Int /\ r.w \in Nat \ {0} /\ r.h \in Nat \ {0}
      /\ Right(r) = r.x + r.w /\ Bottom(r) = r.y + r.h
  BY Coordinates DEF Halves
<1>2. w \in Nat \ {0} /\ h \in Nat \ {0} /\ EdgeLength \in Nat \ {0}
  BY PaddingTypes DEF Halves, Sizes
<1>3. (r.w - w) % 2 = 0 /\ (r.h - h) % 2 = 0
  BY DEF Halves
<1>4. midX \in Int /\ (midX + (midX + w)) - (r.x + (r.x + r.w)) = 0
  <2> HIDE DEF w
  <2>1. Centred(midX, w, r.x, r.w)
    BY ONLY <1>3, <1>1, <1>2, Halved
  <2>2. QED
    BY ONLY <2>1 DEF Centred
<1>5. midY \in Int /\ (midY + (midY + h)) - (r.y + (r.y + r.h)) = 0
  <2> HIDE DEF h
  <2>1. Centred(midY, h, r.y, r.h)
    BY ONLY <1>3, <1>1, <1>2, Halved
  <2>2. QED
    BY ONLY <2>1 DEF Centred
<1>6. /\ side = 0 => q = [x |-> midX, y |-> r.y - EdgeLength - h, w |-> w, h |-> h]
      /\ side = 1 => q = [x |-> Right(r) + EdgeLength, y |-> midY, w |-> w, h |-> h]
      /\ side = 2 => q = [x |-> midX, y |-> Bottom(r) + EdgeLength, w |-> w, h |-> h]
      /\ side = 3 => q = [x |-> r.x - EdgeLength - w, y |-> midY, w |-> w, h |-> h]
  BY DEF Beside
<1> HIDE DEF w, h, midX, midY, q
<1>7. CASE side = 0
  <2>1. q \in Boxed
    BY <1>1, <1>2, <1>4, <1>6, <1>7 DEF Boxed
  <2>2. q.x = midX /\ q.y = r.y - EdgeLength - h /\ Right(q) = midX + w /\ Bottom(q) = r.y - EdgeLength
    BY <1>1, <1>2, <1>4, <1>6, <1>7 DEF Right, Bottom
  <2>3. Upright(r, q, side)
    BY <1>1, <1>4, <1>7, <2>2 DEF Upright, Between, XSpan
  <2>4. QED
    BY <1>7, <2>1, <2>3 DEF q
<1>8. CASE side = 1
  <2>1. q \in Boxed
    BY <1>1, <1>2, <1>5, <1>6, <1>8 DEF Boxed
  <2>2. q.x = Right(r) + EdgeLength /\ q.y = midY /\ Bottom(q) = midY + h
    BY <1>1, <1>2, <1>5, <1>6, <1>8 DEF Bottom
  <2>3. Level(r, q, side)
    BY <1>1, <1>5, <1>8, <2>2 DEF Level, Between, YSpan
  <2>4. QED
    BY <1>8, <2>1, <2>3 DEF q
<1>9. CASE side = 2
  <2>1. q \in Boxed
    BY <1>1, <1>2, <1>4, <1>6, <1>9 DEF Boxed
  <2>2. q.x = midX /\ q.y = Bottom(r) + EdgeLength /\ Right(q) = midX + w
    BY <1>1, <1>2, <1>4, <1>6, <1>9 DEF Right
  <2>3. Upright(r, q, side)
    BY <1>1, <1>4, <1>9, <2>2 DEF Upright, Between, XSpan
  <2>4. QED
    BY <1>9, <2>1, <2>3 DEF q
<1>10. CASE side = 3
  <2>1. q \in Boxed
    BY <1>1, <1>2, <1>5, <1>6, <1>10 DEF Boxed
  <2>2. q.x = r.x - EdgeLength - w /\ q.y = midY /\ Bottom(q) = midY + h /\ Right(q) = r.x - EdgeLength
    BY <1>1, <1>2, <1>5, <1>6, <1>10 DEF Right, Bottom
  <2>3. Level(r, q, side)
    BY <1>1, <1>5, <1>10, <2>2 DEF Level, Between, YSpan
  <2>4. QED
    BY <1>10, <2>1, <2>3 DEF q
<1>11. QED
  BY <1>7, <1>8, <1>9, <1>10

LEMMA SquareOfOpposite ==
  ASSUME NEW i \in Int
  PROVE  Square(-i) = Square(i)
BY DEF Square

\* Two boxes one above the other.
LEMMA UprightRests ==
  ASSUME NEW r, r \in Boxed, NEW q, q \in Boxed, NEW side, side \in {0, 2}, Upright(r, q, side)
  PROVE  ~Intersects(r, q) /\ Long(r, q, EdgeLength)
<1> DEFINE E == EdgeLength
           dy == Between(YSpan(r), YSpan(q))
           cx == r.x + Right(r)
           cq == q.x + Right(q)
<1>1. /\ r.x \in Int /\ r.y \in Int /\ Right(r) \in Int /\ Bottom(r) \in Int
      /\ q.x \in Int /\ q.y \in Int /\ Right(q) \in Int /\ Bottom(q) \in Int
      /\ r.y < Bottom(r) /\ q.y < Bottom(q)
  BY Coordinates
<1>2. E \in Nat \ {0}
  BY PaddingTypes
<1>3. /\ Between(XSpan(r), XSpan(q)) = 0 /\ Between(XSpan(q), XSpan(r)) = 0 /\ cx = cq
  <2>1. Between(XSpan(r), XSpan(q)) = (q.x + Right(q)) - (r.x + Right(r))
        /\ Between(XSpan(q), XSpan(r)) = (r.x + Right(r)) - (q.x + Right(q))
    BY DEF Between, XSpan
  <2>2. Between(XSpan(r), XSpan(q)) = 0
    BY DEF Upright
  <2>3. QED
    BY ONLY <1>1, <2>1, <2>2
<1>4. /\ dy = (q.y + Bottom(q)) - (r.y + Bottom(r))
      /\ Between(YSpan(q), YSpan(r)) = (r.y + Bottom(r)) - (q.y + Bottom(q))
  BY DEF Between, YSpan
<1>5. /\ Clip(r, q) = [x |-> <<cx, 1>>, y |-> <<2 * (IF dy < 0 THEN r.y ELSE Bottom(r)), 1>>]
      /\ Clip(q, r) = [x |-> <<cq, 1>>,
                       y |-> <<2 * (IF Between(YSpan(q), YSpan(r)) < 0 THEN q.y ELSE Bottom(q)), 1>>]
  BY <1>3 DEF Clip
<1>6. /\ side = 0 => Bottom(q) = r.y - E
      /\ side = 2 => q.y = Bottom(r) + E
  BY DEF Upright
<1> HIDE DEF E, dy, cx, cq
<1>7. ~Meet(YSpan(r), YSpan(q))
  BY <1>1, <1>2, <1>6 DEF Meet, YSpan
<1>8. \E a \in Int, b \in Int : /\ Clip(r, q).y = <<a, 1>> /\ Clip(q, r).y = <<b, 1>>
                                /\ b - a = 2 * E \/ b - a = -(2 * E)
  <2>1. CASE side = 0
    <3>1. dy < 0 /\ ~(Between(YSpan(q), YSpan(r)) < 0)
      BY ONLY <1>1, <1>2, <1>4, <1>6, <2>1
    <3>2. Clip(r, q).y = <<2 * r.y, 1>> /\ Clip(q, r).y = <<2 * Bottom(q), 1>>
      BY <1>5, <3>1
    <3>3. 2 * Bottom(q) - 2 * r.y = -(2 * E) /\ 2 * Bottom(q) \in Int /\ 2 * r.y \in Int
      BY <1>1, <1>2, <1>6, <2>1
    <3>4. QED
      BY <3>2, <3>3
  <2>2. CASE side = 2
    <3>1. ~(dy < 0) /\ Between(YSpan(q), YSpan(r)) < 0
      BY ONLY <1>1, <1>2, <1>4, <1>6, <2>2
    <3>2. Clip(r, q).y = <<2 * Bottom(r), 1>> /\ Clip(q, r).y = <<2 * q.y, 1>>
      BY <1>5, <3>1
    <3>3. 2 * q.y - 2 * Bottom(r) = 2 * E /\ 2 * q.y \in Int /\ 2 * Bottom(r) \in Int
      BY <1>1, <1>2, <1>6, <2>2
    <3>4. QED
      BY <3>2, <3>3
  <2>3. QED
    BY <2>1, <2>2
<1>9. PICK a \in Int, b \in Int : /\ Clip(r, q).y = <<a, 1>> /\ Clip(q, r).y = <<b, 1>>
                                  /\ b - a = 2 * E \/ b - a = -(2 * E)
  BY <1>8
<1>10. Way(Clip(r, q).y, Clip(q, r).y) = <<b - a, 1>>
  BY <1>9 DEF Way, Fraction
<1>11. Way(Clip(r, q).x, Clip(q, r).x) = <<0, 1>>
  <2>1. Clip(r, q).x = <<cx, 1>> /\ Clip(q, r).x = <<cx, 1>> /\ cx \in Int
    BY <1>1, <1>3, <1>5 DEF cx
  <2>2. QED
    BY <2>1 DEF Way, Fraction
<1>12. Long(r, q, E)
  <2> DEFINE dx == Way(Clip(r, q).x, Clip(q, r).x)
             ey == Way(Clip(r, q).y, Clip(q, r).y)
  <2>1. dx[1] = 0 /\ dx[2] = 1 /\ ey[1] = b - a /\ ey[2] = 1
    BY <1>10, <1>11
  <2>2. Long(r, q, E) <=> Square(dx[1] * ey[2]) + Square(ey[1] * dx[2]) = Square(2 * E * dx[2] * ey[2])
    BY DEF Long
  <2> HIDE DEF dx, ey
  <2>3. dx[1] * ey[2] = 0 /\ ey[1] * dx[2] = b - a /\ 2 * E * dx[2] * ey[2] = 2 * E
    BY <1>2, <2>1
  <2>4. Square(b - a) = Square(2 * E)
    BY <1>2, <1>9, SquareOfOpposite
  <2>5. Square(0) = 0 /\ Square(2 * E) \in Int
    BY <1>2 DEF Square
  <2>6. QED
    BY <2>2, <2>3, <2>4, <2>5
<1>13. QED
  BY <1>7, <1>12 DEF Intersects, E

\* And two side by side.
LEMMA LevelRests ==
  ASSUME NEW r, r \in Boxed, NEW q, q \in Boxed, NEW side, side \in {1, 3}, Level(r, q, side)
  PROVE  ~Intersects(r, q) /\ Long(r, q, EdgeLength)
<1> DEFINE E == EdgeLength
           dx == Between(XSpan(r), XSpan(q))
           cy == r.y + Bottom(r)
           cq == q.y + Bottom(q)
<1>1. /\ r.x \in Int /\ r.y \in Int /\ Right(r) \in Int /\ Bottom(r) \in Int
      /\ q.x \in Int /\ q.y \in Int /\ Right(q) \in Int /\ Bottom(q) \in Int
      /\ r.x < Right(r) /\ q.x < Right(q)
  BY Coordinates
<1>2. E \in Nat \ {0}
  BY PaddingTypes
<1>3. /\ Between(YSpan(r), YSpan(q)) = 0 /\ Between(YSpan(q), YSpan(r)) = 0 /\ cy = cq
  <2>1. Between(YSpan(r), YSpan(q)) = (q.y + Bottom(q)) - (r.y + Bottom(r))
        /\ Between(YSpan(q), YSpan(r)) = (r.y + Bottom(r)) - (q.y + Bottom(q))
    BY DEF Between, YSpan
  <2>2. Between(YSpan(r), YSpan(q)) = 0
    BY DEF Level
  <2>3. QED
    BY ONLY <1>1, <2>1, <2>2
<1>4. /\ dx = (q.x + Right(q)) - (r.x + Right(r))
      /\ Between(XSpan(q), XSpan(r)) = (r.x + Right(r)) - (q.x + Right(q))
  BY DEF Between, XSpan
<1>5. /\ side = 1 => q.x = Right(r) + E
      /\ side = 3 => Right(q) = r.x - E
  BY DEF Level
<1>6. ~Meet(XSpan(r), XSpan(q))
  BY <1>1, <1>2, <1>5 DEF Meet, XSpan
<1>7. dx # 0 /\ Between(XSpan(q), XSpan(r)) # 0
  <2>1. CASE side = 1
    BY <1>1, <1>2, <1>4, <1>5, <2>1
  <2>2. CASE side = 3
    BY <1>1, <1>2, <1>4, <1>5, <2>2
  <2>3. QED
    BY <2>1, <2>2
<1>8. /\ Clip(r, q) = [x |-> <<2 * (IF dx < 0 THEN r.x ELSE Right(r)), 1>>, y |-> <<cy, 1>>]
      /\ Clip(q, r) = [x |-> <<2 * (IF Between(XSpan(q), XSpan(r)) < 0 THEN q.x ELSE Right(q)), 1>>,
                       y |-> <<cq, 1>>]
  BY <1>7, <1>3 DEF Clip
<1> HIDE DEF E, dx, cy, cq
<1>9. \E a \in Int, b \in Int : /\ Clip(r, q).x = <<a, 1>> /\ Clip(q, r).x = <<b, 1>>
                                /\ b - a = 2 * E \/ b - a = -(2 * E)
  <2>1. CASE side = 3
    <3>1. dx < 0 /\ ~(Between(XSpan(q), XSpan(r)) < 0)
      BY ONLY <1>1, <1>2, <1>4, <1>5, <2>1
    <3>2. Clip(r, q).x = <<2 * r.x, 1>> /\ Clip(q, r).x = <<2 * Right(q), 1>>
      BY <1>8, <3>1
    <3>3. 2 * Right(q) - 2 * r.x = -(2 * E) /\ 2 * Right(q) \in Int /\ 2 * r.x \in Int
      BY <1>1, <1>2, <1>5, <2>1
    <3>4. QED
      BY <3>2, <3>3
  <2>2. CASE side = 1
    <3>1. ~(dx < 0) /\ Between(XSpan(q), XSpan(r)) < 0
      BY ONLY <1>1, <1>2, <1>4, <1>5, <2>2
    <3>2. Clip(r, q).x = <<2 * Right(r), 1>> /\ Clip(q, r).x = <<2 * q.x, 1>>
      BY <1>8, <3>1
    <3>3. 2 * q.x - 2 * Right(r) = 2 * E /\ 2 * q.x \in Int /\ 2 * Right(r) \in Int
      BY <1>1, <1>2, <1>5, <2>2
    <3>4. QED
      BY <3>2, <3>3
  <2>3. QED
    BY <2>1, <2>2
<1>10. PICK a \in Int, b \in Int : /\ Clip(r, q).x = <<a, 1>> /\ Clip(q, r).x = <<b, 1>>
                                   /\ b - a = 2 * E \/ b - a = -(2 * E)
  BY <1>9
<1>11. Way(Clip(r, q).x, Clip(q, r).x) = <<b - a, 1>>
  BY <1>10 DEF Way, Fraction
<1>12. Way(Clip(r, q).y, Clip(q, r).y) = <<0, 1>>
  <2>1. Clip(r, q).y = <<cy, 1>> /\ Clip(q, r).y = <<cy, 1>> /\ cy \in Int
    BY <1>1, <1>3, <1>8 DEF cy
  <2>2. QED
    BY <2>1 DEF Way, Fraction
<1>13. Long(r, q, E)
  <2> DEFINE ex == Way(Clip(r, q).x, Clip(q, r).x)
             ey == Way(Clip(r, q).y, Clip(q, r).y)
  <2>1. ex[1] = b - a /\ ex[2] = 1 /\ ey[1] = 0 /\ ey[2] = 1
    BY <1>11, <1>12
  <2>2. Long(r, q, E) <=> Square(ex[1] * ey[2]) + Square(ey[1] * ex[2]) = Square(2 * E * ex[2] * ey[2])
    BY DEF Long
  <2> HIDE DEF ex, ey
  <2>3. ex[1] * ey[2] = b - a /\ ey[1] * ex[2] = 0 /\ 2 * E * ex[2] * ey[2] = 2 * E
    BY <1>2, <2>1
  <2>4. Square(b - a) = Square(2 * E)
    BY <1>2, <1>10, SquareOfOpposite
  <2>5. Square(0) = 0 /\ Square(2 * E) \in Int
    BY <1>2 DEF Square
  <2>6. QED
    BY <2>2, <2>3, <2>4, <2>5
<1>14. QED
  BY <1>6, <1>13 DEF Intersects, E

\* A leaf as LeafOK has it is at rest.
LEMMA LeafRests == IInv => LeafInPlace
<1> SUFFICES ASSUME IInv PROVE LeafInPlace
  OBVIOUS
<1>1. EmptiestSide
  BY DEF IInv, LeafOK, EmptiestSide
<1>2. GrownAtRest
  <2>1. SUFFICES ASSUME Grown
                 PROVE  /\ ~Intersects(rect["service"], rect["leaf"])
                        /\ Long(rect["service"], rect["leaf"], EdgeLength)
    BY DEF GrownAtRest, Grown
  <2> DEFINE r == rect["service"]
             q == rect["leaf"]
             side == region.side
  <2>2. r \in Boxed /\ r.w = ServiceSize.w /\ r.h = ServiceSize.h
    BY <2>1 DEF IInv, TypesOK, Placed, Grown
  <2>3. side \in 0..3 /\ q = Beside(r, LeafSize, side) /\ q \in Boxed
    BY <2>1 DEF IInv, LeafOK
  <2>4. Halves(r, LeafSize)
    BY <2>2, BoxesAssumption DEF Halves
  <2> HIDE DEF r, q, side
  <2>5. /\ side \in {0, 2} => Upright(r, q, side)
        /\ side \in {1, 3} => Level(r, q, side)
    BY <2>3, <2>4, BesideIs
  <2>6. ~Intersects(r, q) /\ Long(r, q, EdgeLength)
    <3>1. CASE side \in {0, 2}
      BY <2>2, <2>3, <2>5, <3>1, UprightRests
    <3>2. CASE side \in {1, 3}
      BY <2>2, <2>3, <2>5, <3>2, LevelRests
    <3>3. QED
      BY <2>3, <3>1, <3>2
  <2>7. QED
    BY <2>6 DEF r, q
<1>3. QED
  BY <1>1, <1>2 DEF LeafInPlace

(***************************************************************************)
(* Boxes that move.                                                        *)
(***************************************************************************)
\* A box that moves keeps its size.
LEMMA Moved ==
  ASSUME NEW r, r \in Boxed, NEW d, d \in Points
  PROVE  /\ MovedBy(r, d) \in Boxed /\ d[1] \in Int /\ d[2] \in Int
         /\ MovedBy(r, d) = [x |-> r.x + d[1], y |-> r.y + d[2], w |-> r.w, h |-> r.h]
         /\ MovedBy(r, d).x = r.x + d[1] /\ MovedBy(r, d).y = r.y + d[2]
         /\ MovedBy(r, d).w = r.w /\ MovedBy(r, d).h = r.h
         /\ Right(MovedBy(r, d)) = Right(r) + d[1] /\ Bottom(MovedBy(r, d)) = Bottom(r) + d[2]
<1>1. /\ r.x \in Int /\ r.y \in Int /\ r.w \in Nat \ {0} /\ r.h \in Nat \ {0}
      /\ r = [x |-> r.x, y |-> r.y, w |-> r.w, h |-> r.h]
  BY Coordinates
<1>2. d[1] \in Int /\ d[2] \in Int
  BY DEF Points
<1>3. MovedBy(r, d) = [x |-> r.x + d[1], y |-> r.y + d[2], w |-> r.w, h |-> r.h]
  <2> DEFINE q == MovedBy(r, d)
             a == r.x + d[1]
             b == r.y + d[2]
  <2>1. q = [r EXCEPT !.x = a, !.y = b]
    BY DEF MovedBy
  <2>2. DOMAIN r = {"x", "y", "w", "h"}
    BY DEF Boxed
  <2> HIDE DEF q, a, b
  <2>3. DOMAIN q = {"x", "y", "w", "h"}
    BY ONLY <2>1, <2>2
  <2>4. q.x = a /\ q.y = b /\ q.w = r.w /\ q.h = r.h
    BY ONLY <2>1, <2>2
  <2>5. q = [i \in DOMAIN q |-> q[i]]
    BY ONLY <2>1
  <2>6. q = [x |-> a, y |-> b, w |-> r.w, h |-> r.h]
    BY ONLY <2>3, <2>4, <2>5
  <2>7. QED
    BY <2>6 DEF q, a, b
<1>4. MovedBy(r, d) \in Boxed
  BY <1>1, <1>2, <1>3 DEF Boxed
<1>5. /\ MovedBy(r, d).x = r.x + d[1] /\ MovedBy(r, d).y = r.y + d[2]
      /\ MovedBy(r, d).w = r.w /\ MovedBy(r, d).h = r.h
  BY <1>3
<1>6. Right(MovedBy(r, d)) = Right(r) + d[1] /\ Bottom(MovedBy(r, d)) = Bottom(r) + d[2]
  BY ONLY <1>1, <1>2, <1>5 DEF Right, Bottom
<1>7. QED
  BY <1>2, <1>3, <1>4, <1>5, <1>6

\* The place beside a box that has moved is the place that has moved.
LEMMA BesideMoves ==
  ASSUME NEW r, r \in Boxed, NEW d, d \in Points, NEW size, Halves(r, size), NEW side, side \in 0..3
  PROVE  Beside(MovedBy(r, d), size, side) = MovedBy(Beside(r, size, side), d)
<1> DEFINE s == MovedBy(r, d)
           q == Beside(r, size, side)
           a == d[1]
           b == d[2]
           i == (r.w - size.w) \div 2
           j == (r.h - size.h) \div 2
           E == EdgeLength
           w == size.w
           h == size.h
<1>1. /\ r.x \in Int /\ r.y \in Int /\ r.w \in Nat \ {0} /\ r.h \in Nat \ {0}
      /\ Right(r) = r.x + r.w /\ Bottom(r) = r.y + r.h
  BY Coordinates
<1>2. /\ s.x = r.x + a /\ s.y = r.y + b /\ s.w = r.w /\ s.h = r.h
      /\ Right(s) = Right(r) + a /\ Bottom(s) = Bottom(r) + b /\ a \in Int /\ b \in Int
  BY Moved
<1>3. q \in Boxed
  BY BesideIs
<1>4. MovedBy(q, d) = [x |-> q.x + a, y |-> q.y + b, w |-> q.w, h |-> q.h]
  BY <1>3, Moved
<1>5. /\ side = 0 => q = [x |-> r.x + i, y |-> r.y - E - h, w |-> w, h |-> h]
      /\ side = 1 => q = [x |-> Right(r) + E, y |-> r.y + j, w |-> w, h |-> h]
      /\ side = 2 => q = [x |-> r.x + i, y |-> Bottom(r) + E, w |-> w, h |-> h]
      /\ side = 3 => q = [x |-> r.x - E - w, y |-> r.y + j, w |-> w, h |-> h]
  BY DEF Beside
<1>6. LET t == Beside(s, size, side)
      IN /\ side = 0 => t = [x |-> s.x + i, y |-> s.y - E - h, w |-> w, h |-> h]
         /\ side = 1 => t = [x |-> Right(s) + E, y |-> s.y + j, w |-> w, h |-> h]
         /\ side = 2 => t = [x |-> s.x + i, y |-> Bottom(s) + E, w |-> w, h |-> h]
         /\ side = 3 => t = [x |-> s.x - E - w, y |-> s.y + j, w |-> w, h |-> h]
  BY <1>2 DEF Beside
<1>7. i \in Int /\ j \in Int /\ E \in Int /\ w \in Int /\ h \in Int
  <2>1. w \in Nat \ {0} /\ h \in Nat \ {0} /\ E \in Int
    BY PaddingTypes DEF Halves, Sizes
  <2>2. QED
    BY <1>1, <2>1
<1> DEFINE t == Beside(s, size, side)
<1> HIDE DEF s, q, a, b, i, j, E, w, h, t
<1>8. CASE side = 0
  <2>1. t = [x |-> s.x + i, y |-> s.y - E - h, w |-> w, h |-> h]
        /\ q = [x |-> r.x + i, y |-> r.y - E - h, w |-> w, h |-> h]
    BY <1>5, <1>6, <1>8 DEF t
  <2>2. s.x + i = (r.x + i) + a /\ s.y - E - h = (r.y - E - h) + b
    BY ONLY <1>1, <1>2, <1>7
  <2>3. t = MovedBy(q, d)
    BY ONLY <1>4, <2>1, <2>2
  <2>4. QED
    BY <2>3 DEF t, s, q
<1>9. CASE side = 1
  <2>1. t = [x |-> Right(s) + E, y |-> s.y + j, w |-> w, h |-> h]
        /\ q = [x |-> Right(r) + E, y |-> r.y + j, w |-> w, h |-> h]
    BY <1>5, <1>6, <1>9 DEF t
  <2>2. Right(s) + E = (Right(r) + E) + a /\ s.y + j = (r.y + j) + b
    BY ONLY <1>1, <1>2, <1>7
  <2>3. t = MovedBy(q, d)
    BY ONLY <1>4, <2>1, <2>2
  <2>4. QED
    BY <2>3 DEF t, s, q
<1>10. CASE side = 2
  <2>1. t = [x |-> s.x + i, y |-> Bottom(s) + E, w |-> w, h |-> h]
        /\ q = [x |-> r.x + i, y |-> Bottom(r) + E, w |-> w, h |-> h]
    BY <1>5, <1>6, <1>10 DEF t
  <2>2. s.x + i = (r.x + i) + a /\ Bottom(s) + E = (Bottom(r) + E) + b
    BY ONLY <1>1, <1>2, <1>7
  <2>3. t = MovedBy(q, d)
    BY ONLY <1>4, <2>1, <2>2
  <2>4. QED
    BY <2>3 DEF t, s, q
<1>11. CASE side = 3
  <2>1. t = [x |-> s.x - E - w, y |-> s.y + j, w |-> w, h |-> h]
        /\ q = [x |-> r.x - E - w, y |-> r.y + j, w |-> w, h |-> h]
    BY <1>5, <1>6, <1>11 DEF t
  <2>2. s.x - E - w = (r.x - E - w) + a /\ s.y + j = (r.y + j) + b
    BY ONLY <1>1, <1>2, <1>7
  <2>3. t = MovedBy(q, d)
    BY ONLY <1>4, <2>1, <2>2
  <2>4. QED
    BY <2>3 DEF t, s, q
<1>12. QED
  BY <1>8, <1>9, <1>10, <1>11

\* Whether the boxes qs are the boxes rs moved by d.
AllMoved(rs, qs, d) ==
  /\ \A r \in rs : MovedBy(r, d) \in qs
  /\ \A q \in qs : \E r \in rs : q = MovedBy(r, d)

\* The bounds of boxes that all move by the same way move by it.
LEMMA BoundsMove ==
  ASSUME NEW rs, rs \subseteq Boxed, NEW qs, NEW d, d \in Points, AllMoved(rs, qs, d),
         NEW b, Spans(b, rs), NEW c, Spans(c, qs)
  PROVE  /\ c.x = b.x + d[1] /\ Right(c) = Right(b) + d[1]
         /\ c.y = b.y + d[2] /\ Bottom(c) = Bottom(b) + d[2]
<1>1. \A r \in rs : /\ r.x \in Int /\ r.y \in Int /\ Right(r) \in Int /\ Bottom(r) \in Int
                    /\ MovedBy(r, d).x = r.x + d[1] /\ MovedBy(r, d).y = r.y + d[2]
                    /\ Right(MovedBy(r, d)) = Right(r) + d[1] /\ Bottom(MovedBy(r, d)) = Bottom(r) + d[2]
  BY Moved, Coordinates
<1>2. d[1] \in Int /\ d[2] \in Int
  BY DEF Points
<1>3. /\ b.x \in Int /\ b.y \in Int /\ Right(b) \in Int /\ Bottom(b) \in Int
      /\ c.x \in Int /\ c.y \in Int /\ Right(c) \in Int /\ Bottom(c) \in Int
  BY Coordinates DEF Spans
<1>4. \A r \in rs : /\ b.x <= r.x /\ Right(r) <= Right(b) /\ b.y <= r.y /\ Bottom(r) <= Bottom(b)
                    /\ MovedBy(r, d) \in qs
  BY DEF Spans, Inside, AllMoved
<1>5. \A q \in qs : /\ c.x <= q.x /\ Right(q) <= Right(c) /\ c.y <= q.y /\ Bottom(q) <= Bottom(c)
                    /\ \E r \in rs : q = MovedBy(r, d)
  BY DEF Spans, Inside, AllMoved
<1>6. c.x = b.x + d[1]
  <2>1. PICK r \in rs : r.x = b.x
    BY DEF Spans
  <2>2. PICK q \in qs : q.x = c.x
    BY DEF Spans
  <2>3. PICK s \in rs : q = MovedBy(s, d)
    BY <1>5
  <2>4. MovedBy(r, d).x = b.x + d[1] /\ c.x <= MovedBy(r, d).x
    BY <1>1, <1>4, <1>5, <2>1
  <2>5. c.x = s.x + d[1] /\ b.x <= s.x /\ s.x \in Int
    BY <1>1, <1>4, <2>2, <2>3
  <2>6. QED
    BY ONLY <1>2, <1>3, <2>4, <2>5
<1>7. Right(c) = Right(b) + d[1]
  <2>1. PICK r \in rs : Right(r) = Right(b)
    BY DEF Spans
  <2>2. PICK q \in qs : Right(q) = Right(c)
    BY DEF Spans
  <2>3. PICK s \in rs : q = MovedBy(s, d)
    BY <1>5
  <2>4. Right(MovedBy(r, d)) = Right(b) + d[1] /\ Right(MovedBy(r, d)) <= Right(c)
    BY <1>1, <1>4, <1>5, <2>1
  <2>5. Right(c) = Right(s) + d[1] /\ Right(s) <= Right(b) /\ Right(s) \in Int
    BY <1>1, <1>4, <2>2, <2>3
  <2>6. QED
    BY ONLY <1>2, <1>3, <2>4, <2>5
<1>8. c.y = b.y + d[2]
  <2>1. PICK r \in rs : r.y = b.y
    BY DEF Spans
  <2>2. PICK q \in qs : q.y = c.y
    BY DEF Spans
  <2>3. PICK s \in rs : q = MovedBy(s, d)
    BY <1>5
  <2>4. MovedBy(r, d).y = b.y + d[2] /\ c.y <= MovedBy(r, d).y
    BY <1>1, <1>4, <1>5, <2>1
  <2>5. c.y = s.y + d[2] /\ b.y <= s.y /\ s.y \in Int
    BY <1>1, <1>4, <2>2, <2>3
  <2>6. QED
    BY ONLY <1>2, <1>3, <2>4, <2>5
<1>9. Bottom(c) = Bottom(b) + d[2]
  <2>1. PICK r \in rs : Bottom(r) = Bottom(b)
    BY DEF Spans
  <2>2. PICK q \in qs : Bottom(q) = Bottom(c)
    BY DEF Spans
  <2>3. PICK s \in rs : q = MovedBy(s, d)
    BY <1>5
  <2>4. Bottom(MovedBy(r, d)) = Bottom(b) + d[2] /\ Bottom(MovedBy(r, d)) <= Bottom(c)
    BY <1>1, <1>4, <1>5, <2>1
  <2>5. Bottom(c) = Bottom(s) + d[2] /\ Bottom(s) <= Bottom(b) /\ Bottom(s) \in Int
    BY <1>1, <1>4, <2>2, <2>3
  <2>6. QED
    BY ONLY <1>2, <1>3, <2>4, <2>5
<1>10. QED
  BY <1>6, <1>7, <1>8, <1>9

(***************************************************************************)
(* Where the members are placed: each from the sum of what is before it in *)
(* its row, in the row from the sum of what is above.                      *)
(***************************************************************************)
\* All of the members of sizes are in the rows of o, which are measured.
Complete(o, sizes) ==
  /\ Organized(o) /\ Measured(o, sizes) /\ sizes \in Seq(Sizes)
  /\ o.rows # <<>> /\ Members(o.rows) = DOMAIN sizes

\* The member i is at place j of row k.
RowOfMember(o, i)   == CHOOSE k \in DOMAIN o.rows : Contains(o.rows[k], i)
PlaceOfMember(o, i) == CHOOSE j \in DOMAIN o.rows[RowOfMember(o, i)] : o.rows[RowOfMember(o, i)][j] = i

\* Every member is at one place of one row.
LEMMA MemberPlaced ==
  ASSUME NEW o, NEW sizes, Complete(o, sizes), NEW i, i \in DOMAIN sizes
  PROVE  /\ RowOfMember(o, i) \in DOMAIN o.rows
         /\ PlaceOfMember(o, i) \in DOMAIN o.rows[RowOfMember(o, i)]
         /\ o.rows[RowOfMember(o, i)][PlaceOfMember(o, i)] = i
<1> DEFINE R == o.rows
           k == RowOfMember(o, i)
<1>1. /\ i \in Members(R)
      /\ \A l \in DOMAIN R : DOMAIN R[l] = 1..Len(R[l])
  <2>1. i \in Members(R) /\ R \in Seq(Seq(Nat))
    BY DEF Complete, Organized
  <2> HIDE DEF R
  <2>2. \A l \in DOMAIN R : R[l] \in Seq(Nat)
    BY <2>1, Sequence
  <2>3. QED
    BY <2>1, <2>2, Sequence
<1>2. PICK l \in DOMAIN R : i \in ToSet(R[l])
  BY <1>1, InMembers
<1>3. PICK j \in DOMAIN R[l] : R[l][j] = i
  BY <1>2, InSet
<1>4. Contains(R[l], i)
  BY <1>1, <1>3 DEF Contains
<1>5. k \in DOMAIN R /\ Contains(R[k], i)
  BY <1>4 DEF RowOfMember
<1>6. \E m \in DOMAIN R[k] : R[k][m] = i
  BY <1>1, <1>5 DEF Contains
<1>7. QED
  BY <1>5, <1>6 DEF PlaceOfMember

\* The sizes of complete rows are sizes of members.
LEMMA CompleteFacts ==
  ASSUME NEW o, NEW sizes, Complete(o, sizes)
  PROVE  /\ Organized(o) /\ sizes \in Seq(Sizes) /\ Members(o.rows) \subseteq DOMAIN sizes
         /\ Len(o.rows) \in Nat /\ DOMAIN o.rows = 1..Len(o.rows)
         /\ \A k \in DOMAIN o.rows : Fits(o, sizes, k) /\ o.rowWidth[k] \in Nat
         /\ o.width \in Nat /\ o.height \in Nat
         /\ o.height + TilePadding = MinWidth + Sums(Heights(o, sizes))[Len(o.rows)]
<1>1. Organized(o) /\ sizes \in Seq(Sizes) /\ Members(o.rows) \subseteq DOMAIN sizes
  BY DEF Complete
<1>2. /\ \A k \in DOMAIN o.rows : Fits(o, sizes, k)
      /\ o.height + TilePadding = MinWidth + Sums(Heights(o, sizes))[Len(o.rows)]
  BY DEF Complete, Measured
<1>3. /\ Len(o.rows) \in Nat /\ DOMAIN o.rows = 1..Len(o.rows)
      /\ \A k \in DOMAIN o.rows : o.rowWidth[k] \in Nat
  <2> DEFINE R == o.rows
             W == o.rowWidth
  <2>1. R \in Seq(Seq(Nat)) /\ W \in Seq(Nat) /\ Len(W) = Len(R)
    BY <1>1 DEF Organized
  <2> HIDE DEF R, W
  <2>2. Len(R) \in Nat /\ DOMAIN R = 1..Len(R)
    BY <2>1, Sequence
  <2>3. DOMAIN W = 1..Len(R) /\ \A j \in DOMAIN W : W[j] \in Nat
    BY <2>1, Sequence
  <2>4. QED
    BY <2>2, <2>3 DEF R, W
<1>4. o.width \in Nat /\ o.height \in Nat
  BY <1>1 DEF Organized
<1>5. QED
  BY <1>1, <1>2, <1>3, <1>4

\* How far along its row a member is, and how far down its row.
Across(o, sizes, k, j) == Sums(Widths(o, sizes, k))[j]
Down(o, sizes, k)      == Sums(Heights(o, sizes))[k]

\* How far a member is from the left: at least the padding after the one before,
\* and no further than the width of its row.
LEMMA AcrossIs ==
  ASSUME NEW o, NEW sizes, Complete(o, sizes), NEW k, k \in DOMAIN o.rows, NEW j, j \in DOMAIN o.rows[k]
  PROVE  /\ Across(o, sizes, k, j - 1) \in Int /\ Across(o, sizes, k, j) \in Int
         /\ 0 <= Across(o, sizes, k, j - 1)
         /\ sizes[o.rows[k][j]].w \in Nat \ {0}
         /\ Across(o, sizes, k, j) = Across(o, sizes, k, j - 1) + (sizes[o.rows[k][j]].w + TilePadding)
         /\ Across(o, sizes, k, j) + MinWidth <= o.width + TilePadding
         /\ \A l \in DOMAIN o.rows[k] : j < l => Across(o, sizes, k, j) <= Across(o, sizes, k, l - 1)
<1> DEFINE f == Widths(o, sizes, k)
           s == o.rows[k]
           n == Len(s)
           S == Sums(f)
           w == sizes[s[j]].w
           W == o.rowWidth[k]
           width == o.width
<1>1. /\ Organized(o) /\ sizes \in Seq(Sizes) /\ Members(o.rows) \subseteq DOMAIN sizes
      /\ Fits(o, sizes, k) /\ W \in Nat /\ width \in Nat
  BY CompleteFacts
<1>2. n \in Nat /\ DOMAIN s = 1..n /\ w \in Nat \ {0}
  BY <1>1, RowOf
<1>3. f \in Seq(Int) /\ Len(f) = n /\ f[j] = w + TilePadding /\ \A l \in 1..n : f[l] >= 0
  BY <1>1, <1>2, WidthsOf
<1>4. W + TilePadding = MinWidth + S[n] /\ W <= width
  BY <1>1 DEF Fits
<1>5. MinWidth \in Nat /\ TilePadding \in Nat
  BY PaddingTypes DEF MinWidth
<1>6. j \in DOMAIN s
  OBVIOUS
<1>7. /\ \A l \in 0..n : S[l] \in Int
      /\ S[0] = 0 /\ \A l \in 1..n : S[l] = S[l - 1] + f[l]
  BY <1>3, SumsOf
<1>8. \A a \in 0..n : \A b \in 0..n : a <= b => S[a] <= S[b]
  BY <1>3, SumsRise
<1> HIDE DEF f, s, n, S, w, W, width
<1>9. j \in 1..n /\ j \in 0..n /\ j - 1 \in 0..n /\ 0 \in 0..n /\ n \in 0..n
  BY <1>6, <1>2
<1>10. /\ S[j - 1] \in Int /\ S[j] \in Int /\ S[n] \in Int /\ 0 <= S[j - 1] /\ S[j] <= S[n]
       /\ S[j] = S[j - 1] + (w + TilePadding)
  <2>1. S[j - 1] \in Int /\ S[j] \in Int /\ S[n] \in Int /\ S[j] = S[j - 1] + f[j]
    BY <1>7, <1>9
  <2>2. S[0] <= S[j - 1] /\ S[j] <= S[n]
    BY <1>2, <1>8, <1>9
  <2>3. QED
    BY <1>3, <1>7, <2>1, <2>2
<1>11. S[j] + MinWidth <= width + TilePadding
  <2>1. S[n] \in Int /\ S[j] \in Int /\ S[j] <= S[n] /\ W + TilePadding = MinWidth + S[n] /\ W <= width
        /\ W \in Nat /\ width \in Nat
    BY <1>1, <1>4, <1>10
  <2>2. QED
    BY ONLY <1>5, <2>1
<1>12. ASSUME NEW l \in DOMAIN s, j < l PROVE S[j] <= S[l - 1]
  <2>1. l - 1 \in 0..n /\ j <= l - 1
    BY <1>2, <1>9, <1>12
  <2>2. QED
    BY <1>8, <1>9, <2>1
<1>13. QED
  BY <1>2, <1>10, <1>11, <1>12 DEF Across, f, s, S, w, width

\* How far a row is from the top.
LEMMA DownIs ==
  ASSUME NEW o, NEW sizes, Complete(o, sizes), NEW k, k \in DOMAIN o.rows, NEW j, j \in DOMAIN o.rows[k]
  PROVE  /\ Down(o, sizes, k - 1) \in Int /\ Down(o, sizes, k) \in Int
         /\ 0 <= Down(o, sizes, k - 1)
         /\ sizes[o.rows[k][j]].h \in Nat \ {0}
         /\ Down(o, sizes, k - 1) + (sizes[o.rows[k][j]].h + TilePadding) <= Down(o, sizes, k)
         /\ Down(o, sizes, k) + MinWidth <= o.height + TilePadding
         /\ \A l \in DOMAIN o.rows : k < l => Down(o, sizes, k) <= Down(o, sizes, l - 1)
<1> DEFINE f == Heights(o, sizes)
           R == o.rows
           n == Len(R)
           S == Sums(f)
           h == sizes[R[k][j]].h
           RH == RowHeight(o, sizes, k)
           height == o.height
<1>1. /\ Organized(o) /\ sizes \in Seq(Sizes) /\ Members(o.rows) \subseteq DOMAIN sizes
      /\ \A l \in DOMAIN o.rows : Fits(o, sizes, l)
      /\ height \in Nat /\ height + TilePadding = MinWidth + S[n]
      /\ n \in Nat /\ DOMAIN R = 1..n
  BY CompleteFacts
<1>2. h \in Nat \ {0}
  BY <1>1, RowOf
<1>3. f \in Seq(Int) /\ Len(f) = n /\ f[k] = RH + TilePadding /\ \A l \in 1..n : f[l] >= 0
  BY <1>1, HeightsFacts
<1>4. RH \in Int /\ h <= RH
  <2>1. Len(R[k]) > 0
    BY <1>1 DEF Fits
  <2>2. QED
    BY <1>1, <2>1, RowHeightOf
<1>5. MinWidth \in Nat /\ TilePadding \in Nat
  BY PaddingTypes DEF MinWidth
<1>6. k \in DOMAIN R
  OBVIOUS
<1>7. /\ \A l \in 0..n : S[l] \in Int
      /\ S[0] = 0 /\ \A l \in 1..n : S[l] = S[l - 1] + f[l]
  BY <1>3, SumsOf
<1>8. \A a \in 0..n : \A b \in 0..n : a <= b => S[a] <= S[b]
  BY <1>3, SumsRise
<1> HIDE DEF f, R, n, S, h, RH, height
<1>9. k \in 1..n /\ k \in 0..n /\ k - 1 \in 0..n /\ 0 \in 0..n /\ n \in 0..n
  BY <1>6, <1>1
<1>10. /\ S[k - 1] \in Int /\ S[k] \in Int /\ S[n] \in Int /\ 0 <= S[k - 1] /\ S[k] <= S[n]
       /\ S[k] = S[k - 1] + (RH + TilePadding)
  <2>1. S[k - 1] \in Int /\ S[k] \in Int /\ S[n] \in Int /\ S[k] = S[k - 1] + f[k]
    BY <1>7, <1>9
  <2>2. S[0] <= S[k - 1] /\ S[k] <= S[n]
    BY <1>1, <1>8, <1>9
  <2>3. QED
    BY <1>3, <1>7, <2>1, <2>2
<1>11. S[k] + MinWidth <= height + TilePadding
  <2>1. S[n] \in Int /\ S[k] \in Int /\ S[k] <= S[n] /\ height + TilePadding = MinWidth + S[n]
        /\ height \in Nat
    BY <1>1, <1>10
  <2>2. QED
    BY ONLY <1>5, <2>1
<1>12. ASSUME NEW l \in DOMAIN R, k < l PROVE S[k] <= S[l - 1]
  <2>1. l - 1 \in 0..n /\ k <= l - 1
    BY <1>1, <1>9, <1>12
  <2>2. QED
    BY <1>8, <1>9, <2>1
<1>13. S[k - 1] + (h + TilePadding) <= S[k]
  BY ONLY <1>2, <1>4, <1>5, <1>10
<1>14. QED
  BY <1>2, <1>10, <1>11, <1>12, <1>13 DEF Down, f, R, S, h, height

CornerOK(c) == c.x \in Int /\ c.y \in Int

\* adjustLocations, by the row and the place of a member.
LEMMA LocatedIs ==
  ASSUME NEW o, NEW sizes, Complete(o, sizes), NEW c, CornerOK(c), NEW i, i \in DOMAIN sizes
  PROVE  LET t == Located(o, sizes, c)[i]
             k == RowOfMember(o, i)
             j == PlaceOfMember(o, i)
         IN /\ t \in Boxed /\ t.x = c.x + Across(o, sizes, k, j - 1) /\ t.y = c.y + Down(o, sizes, k - 1)
            /\ t.w = sizes[i].w /\ t.h = sizes[i].h
            /\ DOMAIN Located(o, sizes, c) = DOMAIN sizes
<1> DEFINE t == Located(o, sizes, c)[i]
           k == RowOfMember(o, i)
           j == PlaceOfMember(o, i)
           a == Across(o, sizes, k, j - 1)
           b == Down(o, sizes, k - 1)
           w == sizes[i].w
           h == sizes[i].h
<1>1. t = [x |-> c.x + a, y |-> c.y + b, w |-> w, h |-> h] /\ DOMAIN Located(o, sizes, c) = DOMAIN sizes
  BY DEF Located, RowOfMember, PlaceOfMember, Across, Down
<1>2. k \in DOMAIN o.rows /\ j \in DOMAIN o.rows[k] /\ o.rows[k][j] = i
  BY MemberPlaced
<1> HIDE DEF k, j
<1>3. a \in Int /\ w \in Nat \ {0}
  BY <1>2, AcrossIs
<1>4. b \in Int /\ h \in Nat \ {0}
  BY <1>2, DownIs
<1>5. c.x \in Int /\ c.y \in Int
  BY DEF CornerOK
<1> HIDE DEF a, b, w, h, t
<1>6. t \in Boxed
  BY ONLY <1>1, <1>3, <1>4, <1>5 DEF Boxed
<1>7. t.x = c.x + a /\ t.y = c.y + b /\ t.w = w /\ t.h = h
  BY ONLY <1>1
<1>8. QED
  BY <1>1, <1>6, <1>7 DEF t, k, j, a, b, w, h

\* Members end up within the size of the box, short of its padding.
LEMMA LocatedFits ==
  ASSUME NEW o, NEW sizes, Complete(o, sizes), NEW c, CornerOK(c), NEW i, i \in DOMAIN sizes
  PROVE  LET t == Located(o, sizes, c)[i]
         IN /\ c.x <= t.x /\ Right(t) + MinWidth <= c.x + o.width
            /\ c.y <= t.y /\ Bottom(t) + MinWidth <= c.y + o.height
<1> DEFINE t == Located(o, sizes, c)[i]
           k == RowOfMember(o, i)
           j == PlaceOfMember(o, i)
           a == Across(o, sizes, k, j - 1)
           aa == Across(o, sizes, k, j)
           b == Down(o, sizes, k - 1)
           bb == Down(o, sizes, k)
           w == sizes[i].w
           h == sizes[i].h
           width == o.width
           height == o.height
<1>1. t \in Boxed /\ t.x = c.x + a /\ t.y = c.y + b /\ t.w = w /\ t.h = h
  BY LocatedIs
<1>2. k \in DOMAIN o.rows /\ j \in DOMAIN o.rows[k] /\ o.rows[k][j] = i
  BY MemberPlaced
<1>3. width \in Nat /\ height \in Nat
  BY CompleteFacts
<1> HIDE DEF k, j
<1>4. /\ a \in Int /\ aa \in Int /\ 0 <= a /\ w \in Nat \ {0} /\ aa = a + (w + TilePadding)
      /\ aa + MinWidth <= width + TilePadding
  BY <1>2, AcrossIs
<1>5. /\ b \in Int /\ bb \in Int /\ 0 <= b /\ h \in Nat \ {0} /\ b + (h + TilePadding) <= bb
      /\ bb + MinWidth <= height + TilePadding
  BY <1>2, DownIs
<1>6. c.x \in Int /\ c.y \in Int
  BY DEF CornerOK
<1>7. MinWidth \in Nat /\ TilePadding \in Nat
  BY PaddingTypes DEF MinWidth
<1>8. Right(t) = t.x + t.w /\ Bottom(t) = t.y + t.h
  BY <1>1, Coordinates
<1> HIDE DEF a, aa, b, bb, w, h, t, width, height
<1>9. c.x <= t.x /\ Right(t) + MinWidth <= c.x + width
  BY ONLY <1>1, <1>3, <1>4, <1>6, <1>7, <1>8
<1>10. c.y <= t.y /\ Bottom(t) + MinWidth <= c.y + height
  BY ONLY <1>1, <1>3, <1>5, <1>6, <1>7, <1>8
<1>11. QED
  BY <1>9, <1>10 DEF t, width, height

\* Of two members in one row, and of two in two, the first ends before the next
\* begins: there is padding between them.
LEMMA LocatedApart ==
  ASSUME NEW o, NEW sizes, Complete(o, sizes), NEW c, CornerOK(c),
         NEW p, p \in DOMAIN sizes, NEW q, q \in DOMAIN sizes, p # q
  PROVE  ~Intersects(Located(o, sizes, c)[p], Located(o, sizes, c)[q])
<1> DEFINE T == Located(o, sizes, c)
           row == [i \in DOMAIN sizes |-> RowOfMember(o, i)]
           place == [i \in DOMAIN sizes |-> PlaceOfMember(o, i)]
<1>1. TilePadding \in Nat \ {0}
  BY BoxesAssumption
<1>2. \A i \in DOMAIN sizes : /\ row[i] \in DOMAIN o.rows /\ place[i] \in DOMAIN o.rows[row[i]]
                              /\ o.rows[row[i]][place[i]] = i
  BY MemberPlaced
<1>3. \A i \in DOMAIN sizes :
        /\ T[i] \in Boxed /\ T[i].x = c.x + Across(o, sizes, row[i], place[i] - 1)
        /\ T[i].y = c.y + Down(o, sizes, row[i] - 1)
        /\ T[i].w = sizes[i].w /\ T[i].h = sizes[i].h
  BY LocatedIs
<1>4. c.x \in Int /\ c.y \in Int
  BY DEF CornerOK
<1> HIDE DEF T, row, place
<1>5. ASSUME NEW a, a \in DOMAIN sizes, NEW b, b \in DOMAIN sizes, row[a] = row[b], place[a] < place[b]
      PROVE  Right(T[a]) < T[b].x
  <2> DEFINE k == row[a]
             u == Across(o, sizes, k, place[a] - 1)
             v == Across(o, sizes, k, place[a])
             x == Across(o, sizes, k, place[b] - 1)
             w == sizes[a].w
  <2>1. k \in DOMAIN o.rows /\ place[a] \in DOMAIN o.rows[k] /\ place[b] \in DOMAIN o.rows[k]
        /\ o.rows[k][place[a]] = a
    BY <1>2, <1>5
  <2>2. /\ u \in Int /\ v \in Int /\ w \in Nat \ {0} /\ v = u + (w + TilePadding) /\ v <= x
    BY <1>5, <2>1, AcrossIs
  <2>3. x \in Int
    BY <2>1, AcrossIs
  <2>4. T[a].x = c.x + u /\ T[a].w = w /\ T[b].x = c.x + x /\ T[a] \in Boxed
    BY <1>3, <1>5
  <2>5. Right(T[a]) = T[a].x + T[a].w
    BY <2>4, Coordinates
  <2> HIDE DEF u, v, x, w
  <2>6. QED
    BY ONLY <1>1, <1>4, <2>2, <2>3, <2>4, <2>5
<1>6. ASSUME NEW a, a \in DOMAIN sizes, NEW b, b \in DOMAIN sizes, row[a] < row[b]
      PROVE  Bottom(T[a]) < T[b].y
  <2> DEFINE k == row[a]
             u == Down(o, sizes, k - 1)
             v == Down(o, sizes, k)
             y == Down(o, sizes, row[b] - 1)
             h == sizes[a].h
  <2>1. /\ k \in DOMAIN o.rows /\ place[a] \in DOMAIN o.rows[k] /\ o.rows[k][place[a]] = a
        /\ row[b] \in DOMAIN o.rows /\ place[b] \in DOMAIN o.rows[row[b]]
    BY <1>2, <1>6
  <2>2. /\ u \in Int /\ v \in Int /\ h \in Nat \ {0} /\ u + (h + TilePadding) <= v /\ v <= y
    BY <1>6, <2>1, DownIs
  <2>3. y \in Int
    BY <2>1, DownIs
  <2>4. T[a].y = c.y + u /\ T[a].h = h /\ T[b].y = c.y + y /\ T[a] \in Boxed
    BY <1>3, <1>6
  <2>5. Bottom(T[a]) = T[a].y + T[a].h
    BY <2>4, Coordinates
  <2> HIDE DEF u, v, y, h
  <2>6. QED
    BY ONLY <1>1, <1>4, <2>2, <2>3, <2>4, <2>5
<1>7. /\ row[p] \in Int /\ row[q] \in Int
      /\ row[p] = row[q] => place[p] \in Int /\ place[q] \in Int /\ place[p] # place[q]
  <2>1. DOMAIN o.rows \subseteq Int
    BY CompleteFacts
  <2>2. row[p] \in DOMAIN o.rows /\ row[q] \in DOMAIN o.rows
    BY <1>2
  <2>3. \A k \in DOMAIN o.rows : DOMAIN o.rows[k] \subseteq Int
    <3>1. TAKE k \in DOMAIN o.rows
    <3>2. Organized(o) /\ sizes \in Seq(Sizes) /\ Members(o.rows) \subseteq DOMAIN sizes
      BY CompleteFacts
    <3>3. DOMAIN o.rows[k] = 1..Len(o.rows[k]) /\ Len(o.rows[k]) \in Nat
      BY <3>2, RowOf
    <3>4. QED
      BY <3>3
  <2>4. place[p] \in Int /\ place[q] \in Int
    BY <1>2, <2>2, <2>3
  <2>5. row[p] = row[q] => place[p] # place[q]
    BY <1>2
  <2>6. QED
    BY <2>1, <2>2, <2>4, <2>5
<1>8. /\ T[p].x \in Int /\ T[p].y \in Int /\ Right(T[p]) \in Int /\ Bottom(T[p]) \in Int
      /\ T[q].x \in Int /\ T[q].y \in Int /\ Right(T[q]) \in Int /\ Bottom(T[q]) \in Int
  BY <1>3, Coordinates
<1>9. Right(T[p]) < T[q].x \/ Right(T[q]) < T[p].x \/ Bottom(T[p]) < T[q].y \/ Bottom(T[q]) < T[p].y
  <2>1. CASE row[p] = row[q]
    <3>1. place[p] < place[q] \/ place[q] < place[p]
      BY <1>7, <2>1
    <3>2. QED
      BY <1>5, <2>1, <3>1
  <2>2. CASE row[p] # row[q]
    <3>1. row[p] < row[q] \/ row[q] < row[p]
      BY <1>7, <2>2
    <3>2. QED
      BY <1>6, <3>1
  <2>3. QED
    BY <2>1, <2>2
<1>10. ~Intersects(T[p], T[q])
  <2>1. Intersects(T[p], T[q]) <=> /\ T[q].x <= Right(T[p]) /\ T[p].x <= Right(T[q])
                                   /\ T[q].y <= Bottom(T[p]) /\ T[p].y <= Bottom(T[q])
    BY DEF Intersects, Meet, XSpan, YSpan
  <2>2. QED
    BY ONLY <1>8, <1>9, <2>1
<1>11. QED
  BY <1>10 DEF T

\* The corner of the members, in a box that begins at x and of which w are for
\* them and the padding around them.
RoomFrom(x, w, at, width) == at \in Int /\ x + Padding <= at /\ at + width <= x + w + Padding

LEMMA MarginHolds ==
  ASSUME NEW x \in Int, NEW width \in Nat, NEW m \in Nat
  PROVE  RoomFrom(x, Larger(m, width), x + Padding + (IF m > width THEN (m - width) \div 2 ELSE 0), width)
<1>1. Padding \in Nat
  BY PaddingTypes
<1>2. CASE m > width
  <2> DEFINE d == (m - width) \div 2
  <2>1. d \in Int /\ 0 <= d /\ d <= m - width
    BY <1>2
  <2>2. Larger(m, width) = m
    BY <1>2 DEF Larger
  <2> HIDE DEF d
  <2>3. RoomFrom(x, m, x + Padding + d, width)
    BY ONLY <1>1, <2>1, x \in Int, width \in Nat, m \in Nat DEF RoomFrom
  <2>4. QED
    BY <1>2, <2>2, <2>3 DEF d
<1>3. CASE ~(m > width)
  <2>1. Larger(m, width) = width
    BY <1>3 DEF Larger
  <2>2. QED
    BY <1>1, <1>3, <2>1 DEF RoomFrom
<1>4. QED
  BY <1>2, <1>3

\* A box with the size of an organization's.
SizeOf(o, b) == b \in Boxed /\ b.w = o.width /\ b.h = o.height

\* The corner of the members leaves the label of the server free, and there is
\* room for their width and height from there on.
LEMMA LabelLeavesRoom ==
  ASSUME NEW o, NEW b, SizeOf(o, b), NEW l, l \in LabelTypes, l # Null,
         NEW r, r \in Boxed, r.w = Labelled(b, l).w, r.h = Labelled(b, l).h
  PROVE  LET f == LabelFree(r, l)
             c == TilesCorner(o, l, r)
         IN RoomFrom(f.x, f.w, c.x, o.width) /\ RoomFrom(f.y, f.h, c.y, o.height)
<1> DEFINE f == LabelFree(r, l)
           c == TilesCorner(o, l, r)
           width == o.width
           height == o.height
           m == l.w
           n == l.h
           P == Padding
<1>1. /\ m \in Nat /\ n \in Nat /\ l.hor \in {"none", "left", "center", "right"}
      /\ l.ver \in {"none", "top", "center", "bottom"}
  BY LabelOf
<1>2. width \in Nat \ {0} /\ height \in Nat \ {0}
  BY Coordinates DEF SizeOf
<1>4. r.x \in Int /\ r.y \in Int
  BY Coordinates
<1>5. P \in Nat
  BY PaddingTypes
<1>6. /\ r.w = IF l.hor \in {"left", "right"} THEN width + m
               ELSE IF l.hor = "center" THEN Larger(m, width) ELSE width
      /\ r.h = IF l.ver \in {"top", "bottom"} THEN height + n
               ELSE IF l.ver = "center" THEN Larger(n, height) ELSE height
  BY DEF Labelled, SizeOf
<1>7. /\ f.x = r.x + (IF l.hor = "left" THEN m ELSE 0)
      /\ f.w = r.w - (IF l.hor \in {"left", "right"} THEN m ELSE 0)
      /\ f.y = r.y + (IF l.ver = "top" THEN n ELSE 0)
      /\ f.h = r.h - (IF l.ver \in {"top", "bottom"} THEN n ELSE 0)
  BY DEF LabelFree
<1>8. c.x = r.x + P + MarginLeft(o, l) /\ c.y = r.y + P + MarginTop(o, l)
  BY DEF TilesCorner
<1>9. /\ l.hor = "left" => MarginLeft(o, l) = m
      /\ l.hor = "center" => MarginLeft(o, l) = IF m > width THEN (m - width) \div 2 ELSE 0
      /\ l.hor \in {"none", "right"} => MarginLeft(o, l) = 0
  BY DEF MarginLeft
<1>10. /\ l.ver = "top" => MarginTop(o, l) = n
       /\ l.ver = "center" => MarginTop(o, l) = IF n > height THEN (n - height) \div 2 ELSE 0
       /\ l.ver \in {"none", "bottom"} => MarginTop(o, l) = 0
  BY DEF MarginTop
<1> HIDE DEF f, c, width, height, m, n, P
<1>11. RoomFrom(f.x, f.w, c.x, width)
  <2>1. CASE l.hor = "left"
    <3>1. f.x = r.x + m /\ f.w = width /\ c.x = r.x + P + m
      BY <1>1, <1>2, <1>4, <1>6, <1>7, <1>8, <1>9, <2>1
    <3>2. QED
      BY ONLY <1>1, <1>2, <1>4, <1>5, <3>1 DEF RoomFrom, P
  <2>2. CASE l.hor = "right"
    <3>1. f.x = r.x /\ f.w = width /\ c.x = r.x + P
      BY <1>1, <1>2, <1>4, <1>5, <1>6, <1>7, <1>8, <1>9, <2>2
    <3>2. QED
      BY ONLY <1>1, <1>2, <1>4, <1>5, <3>1 DEF RoomFrom, P
  <2>3. CASE l.hor = "none"
    <3>1. f.x = r.x /\ f.w = width /\ c.x = r.x + P
      BY <1>1, <1>2, <1>4, <1>5, <1>6, <1>7, <1>8, <1>9, <2>3
    <3>2. QED
      BY ONLY <1>1, <1>2, <1>4, <1>5, <3>1 DEF RoomFrom, P
  <2>4. CASE l.hor = "center"
    <3>1. f.x = r.x /\ f.w = Larger(m, width) /\ c.x = r.x + P + (IF m > width THEN (m - width) \div 2 ELSE 0)
      <4>1. Larger(m, width) \in Int
        BY <1>1, <1>2, LargerOf
      <4>2. QED
        BY <1>1, <1>2, <1>4, <1>6, <1>7, <1>8, <1>9, <2>4, <4>1
    <3>2. RoomFrom(r.x, Larger(m, width), r.x + Padding + (IF m > width THEN (m - width) \div 2 ELSE 0), width)
      BY <1>1, <1>2, <1>4, MarginHolds
    <3>3. QED
      BY <3>1, <3>2 DEF P
  <2>5. QED
    BY <1>1, <2>1, <2>2, <2>3, <2>4
<1>12. RoomFrom(f.y, f.h, c.y, height)
  <2>1. CASE l.ver = "top"
    <3>1. f.y = r.y + n /\ f.h = height /\ c.y = r.y + P + n
      BY <1>1, <1>2, <1>4, <1>6, <1>7, <1>8, <1>10, <2>1
    <3>2. QED
      BY ONLY <1>1, <1>2, <1>4, <1>5, <3>1 DEF RoomFrom, P
  <2>2. CASE l.ver = "bottom"
    <3>1. f.y = r.y /\ f.h = height /\ c.y = r.y + P
      BY <1>1, <1>2, <1>4, <1>5, <1>6, <1>7, <1>8, <1>10, <2>2
    <3>2. QED
      BY ONLY <1>1, <1>2, <1>4, <1>5, <3>1 DEF RoomFrom, P
  <2>3. CASE l.ver = "none"
    <3>1. f.y = r.y /\ f.h = height /\ c.y = r.y + P
      BY <1>1, <1>2, <1>4, <1>5, <1>6, <1>7, <1>8, <1>10, <2>3
    <3>2. QED
      BY ONLY <1>1, <1>2, <1>4, <1>5, <3>1 DEF RoomFrom, P
  <2>4. CASE l.ver = "center"
    <3>1. f.y = r.y /\ f.h = Larger(n, height)
          /\ c.y = r.y + P + (IF n > height THEN (n - height) \div 2 ELSE 0)
      <4>1. Larger(n, height) \in Int
        BY <1>1, <1>2, LargerOf
      <4>2. QED
        BY <1>1, <1>2, <1>4, <1>6, <1>7, <1>8, <1>10, <2>4, <4>1
    <3>2. RoomFrom(r.y, Larger(n, height), r.y + Padding + (IF n > height THEN (n - height) \div 2 ELSE 0), height)
      BY <1>1, <1>2, <1>4, MarginHolds
    <3>3. QED
      BY <3>1, <3>2 DEF P
  <2>5. QED
    BY <1>1, <2>1, <2>2, <2>3, <2>4
<1>13. QED
  BY <1>11, <1>12 DEF f, c, width, height

\* Members placed from a corner that leaves them room fit it.
TileFits(t, r) ==
  /\ r.x + Padding <= t.x /\ Right(t) <= Right(r) - Padding
  /\ r.y + Padding <= t.y /\ Bottom(t) <= Bottom(r) - Padding

LEMMA TilesFitRoom ==
  ASSUME NEW o, NEW sizes, Complete(o, sizes), NEW c, NEW r,
         r.x \in Int, r.y \in Int, r.w \in Int, r.h \in Int,
         RoomFrom(r.x, r.w, c.x, o.width), RoomFrom(r.y, r.h, c.y, o.height),
         NEW i, i \in DOMAIN sizes
  PROVE  TileFits(Located(o, sizes, c)[i], r)
<1> DEFINE t == Located(o, sizes, c)[i]
           u == Right(t)
           v == Bottom(t)
           width == o.width
           height == o.height
           x == r.x
           y == r.y
           w == r.w
           h == r.h
<1>1. CornerOK(c)
  BY DEF RoomFrom, CornerOK
<1>2. /\ c.x <= t.x /\ u + MinWidth <= c.x + width
      /\ c.y <= t.y /\ v + MinWidth <= c.y + height
  BY <1>1, LocatedFits
<1>3. t \in Boxed
  BY <1>1, LocatedIs
<1>4. t.x \in Int /\ t.y \in Int /\ u \in Int /\ v \in Int
  BY <1>3, Coordinates
<1>5. width \in Nat /\ height \in Nat /\ Padding \in Nat /\ MinWidth = 2 * Padding
  BY CompleteFacts, PaddingTypes DEF MinWidth
<1>6. /\ c.x \in Int /\ x + Padding <= c.x /\ c.x + width <= x + w + Padding
      /\ c.y \in Int /\ y + Padding <= c.y /\ c.y + height <= y + h + Padding
  BY DEF RoomFrom
<1>7. Right(r) = x + w /\ Bottom(r) = y + h /\ x \in Int /\ y \in Int /\ w \in Int /\ h \in Int
  BY DEF Right, Bottom
<1> HIDE DEF t, u, v, width, height, x, y, w, h
<1>8. x + Padding <= t.x /\ u <= (x + w) - Padding
  BY ONLY <1>2, <1>4, <1>5, <1>6, <1>7
<1>9. y + Padding <= t.y /\ v <= (y + h) - Padding
  BY ONLY <1>2, <1>4, <1>5, <1>6, <1>7
<1>10. QED
  BY <1>7, <1>8, <1>9 DEF TileFits, t, u, v, x, y

(***************************************************************************)
(* Every step keeps the invariant.                                         *)
(***************************************************************************)
\* What the invariant says of a state's tiling.
LEMMA TilingFacts ==
  ASSUME TypesOK, TilingOK
  PROVE  /\ members \in Seq(Sizes) /\ Len(members) \in Nat \ {0} /\ DOMAIN members = 1..Len(members)
         /\ Organized(org) /\ Measured(org, members)
         /\ Inserted = Cardinality(PlacesIn(org.rows)) /\ Inserted \in Nat
         /\ Members(org.rows) = 1..Inserted /\ Inserted <= Len(members)
<1>1. members \in Seq(Sizes) /\ members # <<>>
  BY TilingAssumption DEF TypesOK
<1>2. Len(members) \in Nat \ {0} /\ DOMAIN members = 1..Len(members)
  BY <1>1, Sequence
<1>3. Inserted = Cardinality(PlacesIn(org.rows))
  BY DEF Inserted, Places, PlacesIn
<1>4. Organized(org) /\ Measured(org, members) /\ Inserted \in 0..Len(members)
  BY DEF TilingOK
<1>5. Members(org.rows) = 1..Inserted
  BY <1>3, <1>4 DEF Organized
<1>6. QED
  BY <1>1, <1>2, <1>3, <1>4, <1>5

\* Once all members are in, the organization is complete, and a box.
LEMMA TiledBox ==
  ASSUME TypesOK, TilingOK, Inserted = Len(members)
  PROVE  Complete(org, members) /\ SizeOf(org, Tiled)
<1>1. /\ members \in Seq(Sizes) /\ Len(members) \in Nat \ {0} /\ DOMAIN members = 1..Len(members)
      /\ Organized(org) /\ Measured(org, members)
      /\ Inserted = Cardinality(PlacesIn(org.rows)) /\ Members(org.rows) = 1..Inserted
  BY TilingFacts
<1>2. org.rows # <<>>
  <2>1. SUFFICES ASSUME org.rows = <<>> PROVE FALSE
    OBVIOUS
  <2>2. PlacesIn(org.rows) = {}
    BY <2>1 DEF PlacesIn
  <2>3. Cardinality(PlacesIn(org.rows)) = 0
    BY <2>2, FS_EmptySet
  <2>4. QED
    BY <1>1, <2>3
<1>3. Complete(org, members)
  BY <1>1, <1>2 DEF Complete
<1>4. org.width \in Nat \ {0} /\ org.height \in Nat \ {0}
  BY <1>1, <1>2 DEF Organized
<1>5. SizeOf(org, Tiled)
  <2> DEFINE w == org.width
             h == org.height
             x == -(w \div 2)
             y == -(h \div 2)
             b == Tiled
  <2>1. x \in Int /\ y \in Int /\ w \in Nat \ {0} /\ h \in Nat \ {0}
    BY <1>4
  <2>2. b = [x |-> x, y |-> y, w |-> w, h |-> h]
    BY DEF Tiled
  <2> HIDE DEF w, h, x, y, b
  <2>3. b \in Boxed /\ b.w = w /\ b.h = h
    BY ONLY <2>1, <2>2 DEF Boxed
  <2>4. QED
    BY <2>3 DEF SizeOf, b, w, h
<1>6. QED
  BY <1>3, <1>5

LEMMA NoTilesNext ==
  ASSUME tiles' = <<>>, phase' \notin {"placed", "done"}
  PROVE  TilesOK' /\ CentreKept'
BY DEF TilesOK, TilesInPlace, TilesFit, TilesApart, CentreKept

LEMMA InitHolds == Init => IInv
<1> SUFFICES ASSUME Init PROVE IInv
  OBVIOUS
<1>1. /\ members \in MemberLists /\ label \in Labels \cup {Null} /\ org = NoRows
      /\ rect = [k \in Box |-> Null] /\ cells = [k \in Box |-> Null] /\ space = Null /\ region = Null
      /\ tiles = <<>> /\ centre \in Centres /\ ticks = 0 /\ phase = "tile"
  BY DEF Init
<1>2. TypesOK
  <2>1. 0 \in 0..Ticks
    BY BoxesAssumption
  <2>2. QED
    BY <1>1, <2>1 DEF TypesOK, Box
<1>3. TilingOK
  <2>1. org.rows = <<>> /\ org.rowWidth = <<>> /\ org.rowHeight = <<>> /\ org.width = 0 /\ org.height = MinWidth
    BY <1>1 DEF NoRows
  <2>2. PlacesIn(org.rows) = {} /\ Members(org.rows) = {}
    BY <2>1 DEF PlacesIn, Members
  <2>3. IsFiniteSet(PlacesIn(org.rows)) /\ Cardinality(PlacesIn(org.rows)) = 0
    BY <2>2, FS_EmptySet
  <2>4. Members(org.rows) = 1..Cardinality(PlacesIn(org.rows))
    BY <2>2, <2>3
  <2>5. MinWidth \in Nat
    BY PaddingTypes DEF MinWidth
  <2>6. /\ org.rows \in Seq(Seq(Nat)) /\ org.rowWidth \in Seq(Nat) /\ org.rowHeight \in Seq(Nat)
        /\ Len(org.rowWidth) = Len(org.rows) /\ Len(org.rowHeight) = Len(org.rows)
    BY <2>1
  <2>7. Organized(org)
    BY <2>1, <2>3, <2>4, <2>5, <2>6 DEF Organized
  <2>8. Measured(org, members)
    BY <2>1 DEF Measured
  <2>9. Inserted = 0
    BY <2>3 DEF Inserted, Places, PlacesIn
  <2>10. members \in Seq(Sizes)
    BY <1>1, TilingAssumption
  <2>11. Len(members) \in Nat
    BY <2>10, Sequence
  <2>12. QED
    BY <1>1, <2>7, <2>8, <2>9, <2>11 DEF TilingOK
<1>4. GridOK
  BY <1>1 DEF GridOK, GridFresh
<1>5. LeafOK
  BY <1>1 DEF LeafOK, Grown, Box
<1>6. TilesOK /\ CentreKept
  BY <1>1 DEF TilesOK, TilesInPlace, TilesFit, TilesApart, CentreKept
<1>7. QED
  BY <1>2, <1>3, <1>4, <1>5, <1>6 DEF IInv

\* InsertMember is insertNodeToRow: shiftToLastRow changes nothing, as the room
\* in the last row is compared with a width that is not there.
LEMMA InsertMemberKeeps ==
  ASSUME IInv, InsertMember
  PROVE  IInv'
<1> DEFINE i == Inserted + 1
           row == IF org.rows = <<>> THEN 1
                  ELSE IF CanAddHorizontal(org, members[i]) THEN ShortestRow(org)
                  ELSE Len(org.rows) + 1
           n == InsertNodeToRow(org, i, members[i], row)
<1>1. /\ phase = "tile" /\ Inserted < Len(members) /\ org' = ShiftToLastRow(n)
      /\ members' = members /\ label' = label /\ rect' = rect /\ cells' = cells /\ space' = space
      /\ region' = region /\ tiles' = tiles /\ centre' = centre /\ ticks' = ticks /\ phase' = phase
  BY DEF InsertMember
<1>2. TypesOK /\ TilingOK /\ LeafOK /\ TilesOK
  BY DEF IInv
<1>3. org' = n
  BY <1>1 DEF ShiftToLastRow, MoreThan, WidthField
<1>4. /\ members \in Seq(Sizes) /\ Len(members) \in Nat \ {0} /\ DOMAIN members = 1..Len(members)
      /\ Organized(org) /\ Measured(org, members)
      /\ Inserted = Cardinality(PlacesIn(org.rows)) /\ Inserted \in Nat
      /\ Members(org.rows) = 1..Inserted
  BY <1>2, TilingFacts
<1>5. i \in DOMAIN members /\ i \in Nat /\ i = Cardinality(PlacesIn(org.rows)) + 1
  BY <1>1, <1>4
<1>6. members[i] \in Sizes
  BY <1>4, <1>5, Sequence
<1>7. row \in 1..(Len(org.rows) + 1)
  <2>1. org.rows \in Seq(Seq(Nat))
    BY <1>4 DEF Organized
  <2>2. Len(org.rows) \in Nat /\ DOMAIN org.rows = 1..Len(org.rows)
    BY <2>1, Sequence
  <2>3. CASE org.rows = <<>>
    BY <2>2, <2>3
  <2>4. CASE org.rows # <<>>
    <3>1. ShortestRow(org) \in 1..Len(org.rows)
      BY <1>4, <2>2, <2>4, ShortestIsRow
    <3>2. QED
      BY <2>2, <2>4, <3>1
  <2>5. QED
    BY <2>3, <2>4
<1> HIDE DEF row, i
<1>8. Organized(n) /\ Cardinality(PlacesIn(n.rows)) = i
  BY <1>4, <1>5, <1>6, <1>7, InsertKeeps
<1>9. Inserts(n, org, row, i, members[i].w, members[i].h)
  BY <1>4, <1>5, <1>6, <1>7, InsertIs
<1> HIDE DEF n
<1>10. Insertion(org, n, members, row, i)
  <2>1. Members(n.rows) = 1..i
    BY <1>8 DEF Organized
  <2>2. Members(n.rows) \subseteq DOMAIN members /\ Members(org.rows) \subseteq DOMAIN members
    BY <1>4, <1>5, <2>1 DEF i
  <2>3. \A j \in DOMAIN org.rows : Fits(org, members, j)
    BY <1>4 DEF Measured
  <2>4. QED
    BY <1>4, <1>5, <1>7, <1>8, <1>9, <2>2, <2>3 DEF Insertion
<1>11. Measured(n, members)
  BY <1>4, <1>10, InsertMeasures
<1>12. TypesOK'
  BY <1>1, <1>2 DEF TypesOK
<1>13. TilingOK'
  <2>1. Inserted' = i
    BY <1>3, <1>8 DEF Inserted, Places, PlacesIn
  <2>2. i \in 0..Len(members)
    BY <1>4, <1>5
  <2>3. QED
    BY <1>1, <1>3, <1>8, <1>11, <2>1, <2>2 DEF TilingOK
<1>14. GridOK'
  BY <1>1 DEF GridOK, GridFresh
<1>15. LeafOK'
  BY <1>1, <1>2 DEF LeafOK, Grown
<1>16. TilesOK' /\ CentreKept'
  <2>1. tiles' = <<>> /\ phase' \notin {"placed", "done"}
    BY <1>1, <1>2 DEF TilesOK
  <2>2. QED
    BY <2>1, NoTilesNext
<1>17. QED
  BY <1>12, <1>13, <1>14, <1>15, <1>16 DEF IInv

\* TileCompoundMembers and ClearZeroDegreeMembers.
LEMMA SizedKeeps ==
  ASSUME IInv, NEW r, Sized(r), r = AsSized
  PROVE  IInv'
<1>1. PICK p \in Spots :
        rect' = Wrapped([rect EXCEPT !["tiled"] = r, !["service"] = At(p, ServiceSize)])
  BY DEF Sized
<1>2. /\ phase = "tile" /\ Inserted = Len(members) /\ phase' = "tick"
      /\ members' = members /\ org' = org /\ label' = label /\ cells' = cells /\ space' = space
      /\ region' = region /\ tiles' = tiles /\ centre' = centre /\ ticks' = ticks
  BY DEF Sized
<1>3. TypesOK /\ TilingOK /\ LeafOK /\ TilesOK
  BY DEF IInv
<1> DEFINE a == At(p, ServiceSize)
           rc == [rect EXCEPT !["tiled"] = r, !["service"] = a]
<1>4. r \in Boxed
  <2>1. Tiled \in Boxed
    BY <1>2, <1>3, TiledBox DEF SizeOf
  <2>2. label # Null => label \in LabelTypes
    BY <1>3, ServerLabelType DEF TypesOK
  <2>3. QED
    BY <2>1, <2>2, LabelledContains DEF AsSized
<1>5. a \in Boxed /\ a.w = ServiceSize.w /\ a.h = ServiceSize.h
  <2>1. p \in Points /\ ServiceSize \in Sizes
    BY BoxesAssumption, TilingAssumption
  <2>2. p[1] \in Int /\ p[2] \in Int /\ ServiceSize.w \in Nat \ {0} /\ ServiceSize.h \in Nat \ {0}
    BY <2>1 DEF Points, Sizes
  <2>3. a = [x |-> p[1], y |-> p[2], w |-> ServiceSize.w, h |-> ServiceSize.h]
    BY DEF At
  <2> HIDE DEF a
  <2>4. QED
    BY ONLY <2>2, <2>3 DEF Boxed
<1> HIDE DEF a
<1>6. /\ rc \in [Box -> Boxed \cup {Null}] /\ rc["tiled"] = r /\ rc["service"] = a /\ rc["leaf"] = Null
  <2>1. rect \in [Box -> Boxed \cup {Null}] /\ rect["leaf"] = Null
    BY <1>2, <1>3 DEF TypesOK, Box
  <2>2. QED
    BY <1>4, <1>5, <2>1 DEF Box
<1>7. rect' = Wrapped(rc)
  BY <1>1 DEF a
<1> HIDE DEF rc
<1>8. /\ rect' \in [Box -> Boxed \cup {Null}]
      /\ rect'["tiled"] = r /\ rect'["service"] = a /\ rect'["leaf"] = Null /\ rect'["server"] \in Boxed
  <2>1. /\ rect' \in [Box -> Boxed \cup {Null}]
        /\ \A k \in Box \ {"server"} : rect'[k] = rc[k]
        /\ rect'["server"] \in Boxed
    BY <1>7, <1>5, <1>6, WrappedHolds
  <2>2. QED
    BY <1>6, <2>1 DEF Box
<1>9. TypesOK'
  BY <1>2, <1>3, <1>4, <1>5, <1>8 DEF TypesOK, Placed
<1>10. TilingOK'
  <2>1. Inserted' = Inserted /\ AsSized' = AsSized
    BY <1>2 DEF Inserted, Tiled, AsSized
  <2>2. QED
    BY <1>2, <1>3, <1>8, <2>1 DEF TilingOK
<1>11. GridOK'
  BY <1>2 DEF GridOK, GridFresh
<1>12. LeafOK'
  BY <1>2, <1>3, <1>8 DEF LeafOK, Grown
<1>13. TilesOK' /\ CentreKept'
  <2>1. tiles' = <<>> /\ phase' \notin {"placed", "done"}
    BY <1>2, <1>3 DEF TilesOK
  <2>2. QED
    BY <2>1, NoTilesNext
<1>14. QED
  BY <1>9, <1>10, <1>11, <1>12, <1>13 DEF IInv

LEMMA UpdateGridKeeps ==
  ASSUME IInv, UpdateGrid
  PROVE  IInv'
<1>1. /\ phase = "tick" /\ ticks < Ticks /\ ticks' = ticks + 1 /\ phase' = "move"
      /\ rect' = Wrapped(rect) /\ space' = Space(rect') /\ cells' = Gridded(rect', space')
      /\ members' = members /\ org' = org /\ label' = label /\ region' = region
      /\ tiles' = tiles /\ centre' = centre
  BY DEF UpdateGrid
<1>2. TypesOK /\ TilingOK /\ LeafOK /\ TilesOK
  BY DEF IInv
<1>3. rect \in [Box -> Boxed \cup {Null}] /\ \A k \in Placed : rect[k] \in Boxed
  BY <1>1, <1>2 DEF TypesOK
<1>4. /\ rect' \in [Box -> Boxed \cup {Null}]
      /\ \A k \in Box \ {"server"} : rect'[k] = rect[k]
      /\ rect'["server"] \in Boxed
      /\ \A k \in Inner : rect[k] # Null => Inside(rect[k], rect'["server"])
  BY <1>1, <1>3, WrappedHolds DEF Placed
<1>5. /\ rect'["tiled"] = rect["tiled"] /\ rect'["service"] = rect["service"]
      /\ rect'["leaf"] = rect["leaf"]
  BY <1>4 DEF Box
<1>6. TypesOK'
  <2>1. ticks' \in 0..Ticks
    BY <1>1, <1>2, BoxesAssumption DEF TypesOK
  <2>2. DOMAIN cells' = Box
    BY <1>1 DEF Gridded
  <2>3. \A k \in Placed : rect'[k] \in Boxed
    BY <1>3, <1>4, <1>5 DEF Placed
  <2>4. rect["service"].w = ServiceSize.w /\ rect["service"].h = ServiceSize.h
    BY <1>1, <1>2 DEF TypesOK
  <2>5. QED
    BY <1>1, <1>2, <1>4, <1>5, <2>1, <2>2, <2>3, <2>4 DEF TypesOK
<1>7. TilingOK'
  <2>1. Inserted' = Inserted /\ AsSized' = AsSized
    BY <1>1 DEF Inserted, Tiled, AsSized
  <2>2. QED
    BY <1>1, <1>2, <1>5, <2>1 DEF TilingOK
<1>8. GridOK'
  <2>1. \A k \in Inner : rect'[k] # Null => Inside(rect'[k], rect'["server"])
    BY <1>4, <1>5 DEF Inner
  <2>2. QED
    BY <1>1, <2>1 DEF GridOK
<1>9. LeafOK'
  BY <1>1, <1>2, <1>5 DEF LeafOK, Grown
<1>10. TilesOK' /\ CentreKept'
  <2>1. tiles' = <<>> /\ phase' \notin {"placed", "done"}
    BY <1>1, <1>2 DEF TilesOK
  <2>2. QED
    BY <2>1, NoTilesNext
<1>11. QED
  BY <1>6, <1>7, <1>8, <1>9, <1>10 DEF IInv

LEMMA MoveNodesKeeps ==
  ASSUME IInv, MoveNodes
  PROVE  IInv'
<1>1. /\ phase = "move" /\ phase' = "tick"
      /\ members' = members /\ org' = org /\ label' = label /\ cells' = cells /\ space' = space
      /\ region' = region /\ tiles' = tiles /\ centre' = centre /\ ticks' = ticks
  BY DEF MoveNodes
<1>2. PICK p \in Moves : rect' = Displaced(rect, p)
  BY DEF MoveNodes
<1>3. TypesOK /\ TilingOK /\ LeafOK /\ TilesOK
  BY DEF IInv
<1>4. /\ rect \in [Box -> Boxed \cup {Null}] /\ \A k \in Placed : rect[k] \in Boxed
      /\ rect["service"].w = ServiceSize.w /\ rect["service"].h = ServiceSize.h
  BY <1>1, <1>3 DEF TypesOK
<1> DEFINE s == MovedBy(rect["service"], p.server)
           t == MovedBy(rect["tiled"], p.tiled)
<1>5. /\ s \in Boxed /\ s.w = ServiceSize.w /\ s.h = ServiceSize.h
      /\ t \in Boxed /\ t.w = rect["tiled"].w /\ t.h = rect["tiled"].h
  <2>1. p.server \in Points /\ p.tiled \in Points
    BY TilingAssumption
  <2>2. rect["service"] \in Boxed /\ rect["tiled"] \in Boxed
    BY <1>4 DEF Placed
  <2>3. QED
    BY <1>4, <2>1, <2>2, Moved
<1>6. rect' = [rect EXCEPT !["tiled"] = t, !["service"] = s]
  BY <1>2 DEF Displaced
<1> HIDE DEF s, t
<1>7. /\ rect' \in [Box -> Boxed \cup {Null}] /\ rect'["service"] = s /\ rect'["tiled"] = t
      /\ \A k \in Box \ {"tiled", "service"} : rect'[k] = rect[k]
  BY <1>4, <1>5, <1>6 DEF Box
<1>8. TypesOK'
  <2>1. \A k \in Placed : rect'[k] \in Boxed
    BY <1>4, <1>5, <1>7 DEF Placed, Box
  <2>2. QED
    BY <1>1, <1>3, <1>5, <1>7, <2>1 DEF TypesOK
<1>9. TilingOK'
  <2>1. Inserted' = Inserted /\ AsSized' = AsSized
    BY <1>1 DEF Inserted, Tiled, AsSized
  <2>2. rect'["tiled"].w = AsSized.w /\ rect'["tiled"].h = AsSized.h
    BY <1>1, <1>3, <1>5, <1>7 DEF TilingOK
  <2>3. QED
    BY <1>1, <1>3, <2>1, <2>2 DEF TilingOK
<1>10. GridOK'
  BY <1>1 DEF GridOK, GridFresh
<1>11. LeafOK'
  <2>1. rect'["leaf"] = rect["leaf"]
    BY <1>7 DEF Box
  <2>2. QED
    BY <1>1, <1>3, <2>1 DEF LeafOK, Grown
<1>12. TilesOK' /\ CentreKept'
  <2>1. tiles' = <<>> /\ phase' \notin {"placed", "done"}
    BY <1>1, <1>3 DEF TilesOK
  <2>2. QED
    BY <2>1, NoTilesNext
<1>13. QED
  BY <1>8, <1>9, <1>10, <1>11, <1>12 DEF IInv

LEMMA ServiceHalves ==
  ASSUME NEW r, r \in Boxed, r.w = ServiceSize.w, r.h = ServiceSize.h
  PROVE  Halves(r, LeafSize)
BY BoxesAssumption DEF Halves

\* The leaf is put beside the service on the chosen side.
LEMMA GrowTreeKeeps ==
  ASSUME IInv, GrowTree
  PROVE  IInv'
<1> DEFINE rc == Wrapped(rect)
           n  == Counts(Gridded(rc, Space(rc)), Space(rc))
<1>1. /\ phase = "tick" /\ phase' = "grown" /\ space' = Space(rect') /\ cells' = Gridded(rect', space')
      /\ members' = members /\ org' = org /\ label' = label
      /\ tiles' = tiles /\ centre' = centre /\ ticks' = ticks
  BY DEF GrowTree
<1>2. PICK side \in Choice(n) :
        /\ region' = [side |-> side, counts |-> n]
        /\ rect' = Wrapped([rc EXCEPT !["leaf"] = Beside(rc["service"], LeafSize, side)])
  BY DEF GrowTree
<1>3. TypesOK /\ TilingOK /\ LeafOK /\ TilesOK
  BY DEF IInv
<1>4. /\ rect \in [Box -> Boxed \cup {Null}] /\ \A k \in Placed : rect[k] \in Boxed
      /\ rect["service"].w = ServiceSize.w /\ rect["service"].h = ServiceSize.h
  BY <1>1, <1>3 DEF TypesOK
<1>5. /\ rc \in [Box -> Boxed \cup {Null}]
      /\ \A k \in Box \ {"server"} : rc[k] = rect[k]
      /\ rc["server"] \in Boxed
  BY <1>4, WrappedHolds DEF Placed
<1>6. n \in [0..3 -> Int]
  <2> HIDE DEF rc
  <2>1. rc["tiled"] \in Boxed /\ rc["service"] \in Boxed
    BY <1>4, <1>5 DEF Placed, Box
  <2>2. Space(rc) \in Boxed
    BY <1>5, <2>1, SpaceHolds
  <2>3. Gridded(rc, Space(rc))["service"] = CellsOf(rc["service"], Space(rc))
    BY <2>1, NullIsNoBox DEF Gridded, Box
  <2>4. QED
    BY <2>1, <2>2, <2>3, CountsType
<1> DEFINE q == Beside(rc["service"], LeafSize, side)
           rg == [rc EXCEPT !["leaf"] = q]
<1>7. rect' = Wrapped(rg) /\ q = Beside(rc["service"], LeafSize, side)
  BY <1>2
<1> HIDE DEF rc, n
<1>8. side \in 0..3 /\ \A i \in 0..3 : n[side] <= n[i]
  BY <1>2, <1>6, ChosenIsEmptiest
<1>9. rc["service"] = rect["service"] /\ rc["service"] \in Boxed /\ rc["tiled"] = rect["tiled"]
  BY <1>4, <1>5 DEF Placed, Box
<1>10. q \in Boxed
  <2>1. Halves(rc["service"], LeafSize)
    BY <1>4, <1>9, ServiceHalves
  <2>2. QED
    BY <1>8, <2>1, BesideIs
<1> HIDE DEF q
<1>11. /\ rg \in [Box -> Boxed \cup {Null}] /\ rg["leaf"] = q
       /\ \A k \in Box \ {"leaf"} : rg[k] = rc[k]
  BY <1>5, <1>10 DEF Box
<1> HIDE DEF rg
<1>12. rg["service"] \in Boxed /\ rg["service"] = rect["service"] /\ rg["tiled"] = rect["tiled"]
  BY <1>9, <1>11 DEF Box
<1>13. /\ rect' \in [Box -> Boxed \cup {Null}]
       /\ \A k \in Box \ {"server"} : rect'[k] = rg[k]
       /\ rect'["server"] \in Boxed
       /\ \A k \in Inner : rg[k] # Null => Inside(rg[k], rect'["server"])
  BY <1>7, <1>11, <1>12, WrappedHolds
<1>14. /\ rect'["tiled"] = rect["tiled"] /\ rect'["service"] = rect["service"] /\ rect'["leaf"] = q
  BY <1>11, <1>12, <1>13 DEF Box
<1>15. TypesOK'
  <2>1. DOMAIN cells' = Box
    BY <1>1 DEF Gridded
  <2>2. \A k \in Placed : rect'[k] \in Boxed
    BY <1>4, <1>13, <1>14 DEF Placed
  <2>3. QED
    BY <1>1, <1>3, <1>4, <1>13, <1>14, <2>1, <2>2 DEF TypesOK
<1>16. TilingOK'
  <2>1. Inserted' = Inserted /\ AsSized' = AsSized
    BY <1>1 DEF Inserted, Tiled, AsSized
  <2>2. QED
    BY <1>1, <1>3, <1>14, <2>1 DEF TilingOK
<1>17. GridOK'
  <2>1. \A k \in Inner : rect'[k] # Null => Inside(rect'[k], rect'["server"])
    BY <1>13 DEF Inner, Box
  <2>2. QED
    BY <1>1, <2>1 DEF GridOK
<1>18. LeafOK'
  <2>1. region'.side = side /\ region'.counts = n
    BY <1>2
  <2>2. rect'["leaf"] \in Boxed /\ rect'["leaf"] = Beside(rect'["service"], LeafSize, region'.side)
    BY <1>7, <1>9, <1>10, <1>14, <2>1
  <2>3. region'.side \in 0..3 /\ \A i \in 0..3 : region'.counts[region'.side] <= region'.counts[i]
    BY <1>8, <2>1
  <2>4. Grown'
    BY <1>1 DEF Grown
  <2>5. QED
    BY <2>2, <2>3, <2>4 DEF LeafOK
<1>19. TilesOK' /\ CentreKept'
  <2>1. tiles' = <<>> /\ phase' \notin {"placed", "done"}
    BY <1>1, <1>3 DEF TilesOK
  <2>2. QED
    BY <2>1, NoTilesNext
<1>20. QED
  BY <1>15, <1>16, <1>17, <1>18, <1>19 DEF IInv

\* RepopulateCompounds and RepopulateZeroDegreeMembers: the members go where the
\* box is now, which has the size it was given for them.
LEMMA RepopulatedKeeps ==
  ASSUME IInv, NEW corner, Repopulated(corner),
         corner = IF label = Null THEN DummyCorner(rect["tiled"]) ELSE TilesCorner(org, label, rect["tiled"])
  PROVE  IInv'
<1>1. /\ phase = "grown" /\ phase' = "placed" /\ tiles' = Located(org, members, corner)
      /\ members' = members /\ org' = org /\ label' = label /\ rect' = rect /\ cells' = cells
      /\ space' = space /\ region' = region /\ centre' = centre /\ ticks' = ticks
  BY DEF Repopulated
<1>2. TypesOK /\ TilingOK /\ LeafOK
  BY DEF IInv
<1>3. /\ Complete(org, members) /\ SizeOf(org, Tiled)
      /\ rect["tiled"].w = AsSized.w /\ rect["tiled"].h = AsSized.h
  <2>1. Inserted = Len(members)
    BY <1>1, <1>2 DEF TilingOK
  <2>2. QED
    BY <1>1, <1>2, <2>1, TiledBox DEF TilingOK
<1> DEFINE r == LabelFree(rect["tiled"], label)
           T == Located(org, members, corner)
<1>4. rect["tiled"] \in Boxed
  BY <1>1, <1>2 DEF TypesOK, Placed
<1>5. /\ RoomFrom(r.x, r.w, corner.x, org.width) /\ RoomFrom(r.y, r.h, corner.y, org.height)
      /\ r.x \in Int /\ r.y \in Int /\ r.w \in Int /\ r.h \in Int
  <2>1. /\ rect["tiled"].x \in Int /\ rect["tiled"].y \in Int
        /\ rect["tiled"].w \in Nat /\ rect["tiled"].h \in Nat
    BY <1>4, Coordinates
  <2>2. CASE label = Null
    <3>1. r = rect["tiled"] /\ r.w = org.width /\ r.h = org.height
      BY <1>3, <2>2 DEF LabelFree, SizeOf, AsSized
    <3>2. corner.x = r.x + Padding /\ corner.y = r.y + Padding
      BY <2>2, <3>1 DEF DummyCorner
    <3>3. Padding \in Nat
      BY PaddingTypes
    <3> HIDE DEF r
    <3>4. r.x \in Int /\ r.y \in Int /\ r.w \in Nat /\ r.h \in Nat
      BY <2>1, <3>1
    <3>5. QED
      BY ONLY <3>1, <3>2, <3>3, <3>4 DEF RoomFrom
  <2>3. CASE label # Null
    <3>1. label \in LabelTypes
      BY <1>2, <2>3, ServerLabelType DEF TypesOK
    <3>2. RoomFrom(r.x, r.w, corner.x, org.width) /\ RoomFrom(r.y, r.h, corner.y, org.height)
      BY <1>3, <1>4, <2>3, <3>1, LabelLeavesRoom DEF AsSized
    <3>3. label.w \in Nat /\ label.h \in Nat
      BY <3>1, LabelOf
    <3>4. /\ r.x = rect["tiled"].x + (IF label.hor = "left" THEN label.w ELSE 0)
          /\ r.y = rect["tiled"].y + (IF label.ver = "top" THEN label.h ELSE 0)
          /\ r.w = rect["tiled"].w - (IF label.hor \in {"left", "right"} THEN label.w ELSE 0)
          /\ r.h = rect["tiled"].h - (IF label.ver \in {"top", "bottom"} THEN label.h ELSE 0)
      BY <2>3 DEF LabelFree
    <3> HIDE DEF r
    <3>5. QED
      BY <2>1, <3>2, <3>3, <3>4
  <2>4. QED
    BY <2>2, <2>3
<1>6. CornerOK(corner)
  BY <1>5 DEF RoomFrom, CornerOK
<1> HIDE DEF r
<1>7. \A i \in DOMAIN members : T[i] \in Boxed /\ TileFits(T[i], r)
  BY <1>3, <1>5, <1>6, LocatedIs, TilesFitRoom
<1>8. \A i, j \in DOMAIN members : i # j => ~Intersects(T[i], T[j])
  BY <1>3, <1>6, LocatedApart
<1>9. DOMAIN T = DOMAIN members
  BY DEF Located
<1> HIDE DEF T
<1>10. tiles' = T
  BY <1>1 DEF T
<1>11. TypesOK'
  BY <1>1, <1>2 DEF TypesOK
<1>12. TilingOK'
  <2>1. Inserted' = Inserted /\ AsSized' = AsSized
    BY <1>1 DEF Inserted, Tiled, AsSized
  <2>2. QED
    BY <1>1, <1>2, <2>1 DEF TilingOK
<1>13. GridOK'
  BY <1>1 DEF GridOK, GridFresh
<1>14. LeafOK'
  BY <1>1, <1>2 DEF LeafOK, Grown
<1>15. TilesOK'
  <2>1. TilesFit'
    <3>1. LabelFree(rect["tiled"], label)' = r
      BY <1>1 DEF r, LabelFree
    <3>2. QED
      BY <1>7, <1>9, <1>10, <3>1 DEF TilesFit, TileFits
  <2>2. TilesApart'
    BY <1>8, <1>9, <1>10 DEF TilesApart
  <2>3. QED
    BY <1>1, <1>7, <1>9, <1>10, <2>1, <2>2 DEF TilesOK, TilesInPlace
<1>16. CentreKept'
  BY <1>1 DEF CentreKept
<1>17. QED
  BY <1>11, <1>12, <1>13, <1>14, <1>15, <1>16 DEF IInv

(***************************************************************************)
(* relocateComponent: the bounds move with the boxes.                      *)
(***************************************************************************)
\* The boxes of some of the map's elements, and the tiles.
BoxesOf(rc, E, t) == {rc[k] : k \in E} \cup ToSet(t)

\* They are some finite boxes.
LEMMA BoxesOfType ==
  ASSUME NEW rc, NEW E, E \subseteq Box, E # {}, \A k \in E : rc[k] \in Boxed,
         NEW t, NEW n, n \in Nat, DOMAIN t = 1..n, \A i \in DOMAIN t : t[i] \in Boxed
  PROVE  /\ BoxesOf(rc, E, t) \subseteq Boxed /\ BoxesOf(rc, E, t) # {}
         /\ IsFiniteSet(BoxesOf(rc, E, t))
<1> DEFINE S == {rc[k] : k \in E}
<1>1. S \subseteq Boxed /\ S # {}
  OBVIOUS
<1>2. ToSet(t) \subseteq Boxed
  BY DEF ToSet
<1>3. IsFiniteSet(S)
  <2> DEFINE f == [k \in E |-> rc[k]]
  <2>1. DOMAIN f = E /\ \A y : y \in S <=> \E k \in E : y = f[k]
    OBVIOUS
  <2>2. IsFiniteSet(E)
    BY FiniteBox, FS_Subset
  <2> HIDE DEF f, S
  <2>3. QED
    BY ONLY <2>1, <2>2, FiniteImage
<1>4. IsFiniteSet(ToSet(t))
  BY FiniteRange
<1> HIDE DEF S
<1>5. IsFiniteSet(S \cup ToSet(t))
  BY <1>3, <1>4, FS_Union
<1>6. QED
  BY <1>1, <1>2, <1>5 DEF BoxesOf, S

\* Half of an odd number is rounded down.
LEMMA RoundedMiddle ==
  ASSUME NEW c \in Int, NEW x \in Int, NEW r \in Int, NEW d \in Int, d = (2 * c - x - r) \div 2
  PROVE  (x + d) + (r + d) - 2 * c \in {-1, 0}
OBVIOUS

\* So the middle of what has moved is the centre, to half a unit.
LEMMA MovesCentre ==
  ASSUME centre \in Points, NEW rs, rs \subseteq Boxed, rs # {}, IsFiniteSet(rs),
         NEW qs, qs \subseteq Boxed, qs # {}, IsFiniteSet(qs), AllMoved(rs, qs, Relocation(rs))
  PROVE  /\ Bounds(qs, 0).x + Right(Bounds(qs, 0)) - 2 * centre[1] \in {-1, 0}
         /\ Bounds(qs, 0).y + Bottom(Bounds(qs, 0)) - 2 * centre[2] \in {-1, 0}
<1> DEFINE b == Bounds(rs, 0)
           c == Bounds(qs, 0)
           d == Relocation(rs)
<1>1. Spans(b, rs) /\ Spans(c, qs)
  BY BoundsSpan
<1>2. b.x \in Int /\ Right(b) \in Int /\ b.y \in Int /\ Bottom(b) \in Int
  BY <1>1, Coordinates DEF Spans
<1>3. centre[1] \in Int /\ centre[2] \in Int
  BY DEF Points
<1>4. d = <<(2 * centre[1] - b.x - Right(b)) \div 2, (2 * centre[2] - b.y - Bottom(b)) \div 2>>
  BY DEF Relocation
<1>5. /\ d[1] = (2 * centre[1] - b.x - Right(b)) \div 2
      /\ d[2] = (2 * centre[2] - b.y - Bottom(b)) \div 2
  BY <1>4
<1> HIDE DEF b, c, d
<1>6. d[1] \in Int /\ d[2] \in Int
  BY ONLY <1>2, <1>3, <1>5
<1>7. d \in Points
  BY <1>4, <1>5, <1>6 DEF Points
<1>8. AllMoved(rs, qs, d)
  BY DEF d
<1>9. /\ c.x = b.x + d[1] /\ Right(c) = Right(b) + d[1]
      /\ c.y = b.y + d[2] /\ Bottom(c) = Bottom(b) + d[2]
  BY ONLY rs \subseteq Boxed, <1>1, <1>7, <1>8, BoundsMove
<1>10. (b.x + d[1]) + (Right(b) + d[1]) - 2 * centre[1] \in {-1, 0}
  BY ONLY <1>2, <1>3, <1>5, <1>6, RoundedMiddle
<1>11. (b.y + d[2]) + (Bottom(b) + d[2]) - 2 * centre[2] \in {-1, 0}
  BY ONLY <1>2, <1>3, <1>5, <1>6, RoundedMiddle
<1>12. QED
  BY <1>9, <1>10, <1>11 DEF c

LEMMA RelocationIsWay ==
  ASSUME centre \in Points, NEW rs, rs \subseteq Boxed, rs # {}, IsFiniteSet(rs)
  PROVE  Relocation(rs) \in Points
<1> DEFINE b == Bounds(rs, 0)
           d == Relocation(rs)
           i == (2 * centre[1] - b.x - Right(b)) \div 2
           j == (2 * centre[2] - b.y - Bottom(b)) \div 2
<1>1. b.x \in Int /\ Right(b) \in Int /\ b.y \in Int /\ Bottom(b) \in Int
  BY BoundsSpan, Coordinates DEF Spans
<1>2. centre[1] \in Int /\ centre[2] \in Int
  BY DEF Points
<1>3. d = <<i, j>>
  BY DEF Relocation
<1> HIDE DEF b, d
<1>4. i \in Int /\ j \in Int
  BY ONLY <1>1, <1>2
<1>5. QED
  BY <1>3, <1>4 DEF Points, d

LEMMA MovedApart ==
  ASSUME NEW r, r \in Boxed, NEW q, q \in Boxed, NEW d, d \in Points, ~Intersects(r, q)
  PROVE  ~Intersects(MovedBy(r, d), MovedBy(q, d))
<1>1. /\ r.x \in Int /\ r.y \in Int /\ Right(r) \in Int /\ Bottom(r) \in Int
      /\ q.x \in Int /\ q.y \in Int /\ Right(q) \in Int /\ Bottom(q) \in Int
  BY Coordinates
<1>2. /\ MovedBy(r, d).x = r.x + d[1] /\ MovedBy(r, d).y = r.y + d[2]
      /\ Right(MovedBy(r, d)) = Right(r) + d[1] /\ Bottom(MovedBy(r, d)) = Bottom(r) + d[2]
      /\ MovedBy(q, d).x = q.x + d[1] /\ MovedBy(q, d).y = q.y + d[2]
      /\ Right(MovedBy(q, d)) = Right(q) + d[1] /\ Bottom(MovedBy(q, d)) = Bottom(q) + d[2]
      /\ d[1] \in Int /\ d[2] \in Int
  BY Moved
<1>3. QED
  BY <1>1, <1>2 DEF Intersects, Meet, XSpan, YSpan

\* All boxes of the map move by one way: what was inside, apart or at rest stays.
LEMMA RelocateKeeps ==
  ASSUME IInv, RelocateComponent
  PROVE  IInv'
<1> DEFINE rs == BoxesOf(rect, Elements, tiles)
           d == Relocation(rs)
<1>1. /\ phase = "placed" /\ phase' = "done"
      /\ rect' = [k \in Box |-> IF k \in Elements THEN MovedBy(rect[k], d) ELSE rect[k]]
      /\ tiles' = [i \in DOMAIN tiles |-> MovedBy(tiles[i], d)]
      /\ members' = members /\ org' = org /\ label' = label /\ cells' = cells /\ space' = space
      /\ region' = region /\ centre' = centre /\ ticks' = ticks
  BY DEF RelocateComponent, BoxesOf
<1>2. TypesOK /\ TilingOK /\ LeafOK /\ TilesOK
  BY DEF IInv
<1>3. centre \in Points
  BY <1>2, TilingAssumption DEF TypesOK
<1>4. /\ DOMAIN tiles = DOMAIN members /\ (\A i \in DOMAIN tiles : tiles[i] \in Boxed) /\ TilesApart
      /\ Len(members) \in Nat /\ DOMAIN members = 1..Len(members)
  BY <1>1, <1>2, TilingFacts DEF TilesOK, TilesInPlace
<1>5. /\ \A k \in Box : rect[k] \in Boxed
      /\ rect["service"].w = ServiceSize.w /\ rect["service"].h = ServiceSize.h
      /\ rect["leaf"] = Beside(rect["service"], LeafSize, region.side) /\ region.side \in 0..3
  <2>1. Grown
    BY <1>1 DEF Grown
  <2>2. QED
    BY <1>1, <1>2, <2>1 DEF TypesOK, LeafOK, Placed, Box
<1>6. Elements \subseteq Box /\ {"service", "leaf"} \subseteq Elements /\ Elements' = Elements
  BY <1>1 DEF Elements, Box
<1> DEFINE n == Len(members)
<1>7. rs \subseteq Boxed /\ rs # {} /\ IsFiniteSet(rs)
  <2>1. n \in Nat /\ DOMAIN tiles = 1..n /\ Elements # {} /\ \A k \in Elements : rect[k] \in Boxed
    BY <1>4, <1>5, <1>6
  <2> HIDE DEF n
  <2>2. QED
    BY <1>4, <1>6, <2>1, BoxesOfType
<1>8. d \in Points
  BY <1>3, <1>7, RelocationIsWay
<1> HIDE DEF d
<1>9. /\ \A k \in Elements : rect'[k] = MovedBy(rect[k], d)
      /\ \A k \in Box \ Elements : rect'[k] = rect[k]
      /\ DOMAIN tiles' = DOMAIN tiles /\ \A i \in DOMAIN tiles : tiles'[i] = MovedBy(tiles[i], d)
      /\ DOMAIN rect' = Box
  BY <1>1, <1>6
<1>10. /\ \A k \in Box : rect'[k] \in Boxed
       /\ \A i \in DOMAIN tiles' : tiles'[i] \in Boxed
       /\ rect'["service"].w = ServiceSize.w /\ rect'["service"].h = ServiceSize.h
  <2>1. \A k \in Elements : rect'[k] \in Boxed
    BY <1>5, <1>6, <1>8, <1>9, Moved
  <2>2. \A i \in DOMAIN tiles' : tiles'[i] \in Boxed
    BY <1>4, <1>8, <1>9, Moved
  <2>3. rect["service"] \in Boxed /\ rect'["service"] = MovedBy(rect["service"], d)
    BY <1>5, <1>6, <1>9
  <2>4. rect'["service"].w = ServiceSize.w /\ rect'["service"].h = ServiceSize.h
    BY <1>5, <1>8, <2>3, Moved
  <2>5. QED
    BY <1>5, <1>9, <2>1, <2>2, <2>4
<1>11. TypesOK'
  <2>1. rect' \in [Box -> Boxed \cup {Null}]
    BY <1>1, <1>9, <1>10
  <2>2. \A k \in Placed : rect'[k] \in Boxed
    BY <1>10 DEF Placed, Box
  <2>3. QED
    BY <1>1, <1>2, <1>10, <2>1, <2>2 DEF TypesOK
<1>12. TilingOK'
  <2>1. Inserted' = Inserted
    BY <1>1 DEF Inserted
  <2>2. QED
    BY <1>1, <1>2, <2>1 DEF TilingOK
<1>13. GridOK'
  BY <1>1 DEF GridOK, GridFresh
<1>14. LeafOK'
  <2>1. Grown /\ Grown'
    BY <1>1 DEF Grown
  <2>2. rect["service"] \in Boxed /\ Halves(rect["service"], LeafSize)
    BY <1>5, ServiceHalves DEF Box
  <2>3. Beside(MovedBy(rect["service"], d), LeafSize, region.side) = MovedBy(rect["leaf"], d)
    BY <1>5, <1>8, <2>2, BesideMoves
  <2>4. rect'["leaf"] = Beside(rect'["service"], LeafSize, region'.side)
    BY <1>1, <1>6, <1>9, <2>3
  <2>5. rect'["leaf"] \in Boxed
    BY <1>10 DEF Box
  <2>6. QED
    BY <1>1, <1>2, <2>1, <2>4, <2>5 DEF LeafOK
<1>15. TilesOK'
  <2>1. TilesApart'
    <3>1. SUFFICES ASSUME NEW i \in DOMAIN tiles, NEW j \in DOMAIN tiles, i # j
                   PROVE  ~Intersects(tiles'[i], tiles'[j])
      BY <1>9 DEF TilesApart
    <3>2. tiles[i] \in Boxed /\ tiles[j] \in Boxed /\ ~Intersects(tiles[i], tiles[j])
      BY <1>4, <3>1 DEF TilesApart
    <3>3. QED
      BY <1>8, <1>9, <3>2, MovedApart
  <2>2. TilesFit'
    BY <1>1 DEF TilesFit
  <2>3. QED
    BY <1>1, <1>4, <1>9, <1>10, <2>1, <2>2 DEF TilesOK, TilesInPlace
<1>16. CentreKept'
  <2> DEFINE qs == BoxesOf(rect', Elements, tiles')
  <2>1. qs \subseteq Boxed /\ qs # {} /\ IsFiniteSet(qs)
    <3>1. n \in Nat /\ DOMAIN tiles' = 1..n /\ Elements # {} /\ \A k \in Elements : rect'[k] \in Boxed
      BY <1>4, <1>6, <1>9, <1>10
    <3> HIDE DEF n
    <3>2. QED
      BY <1>6, <1>10, <3>1, BoxesOfType
  <2>2. AllMoved(rs, qs, d)
    <3>1. \A r \in rs : MovedBy(r, d) \in qs
      BY <1>9 DEF BoxesOf, ToSet
    <3>2. \A q \in qs : \E r \in rs : q = MovedBy(r, d)
      BY <1>9 DEF BoxesOf, ToSet
    <3>3. QED
      BY <3>1, <3>2 DEF AllMoved
  <2>3. /\ Bounds(qs, 0).x + Right(Bounds(qs, 0)) - 2 * centre[1] \in {-1, 0}
        /\ Bounds(qs, 0).y + Bottom(Bounds(qs, 0)) - 2 * centre[2] \in {-1, 0}
    <3> HIDE DEF rs, qs
    <3>1. QED
      BY <1>3, <1>7, <2>1, <2>2, MovesCentre DEF d
  <2>4. ({rect[k] : k \in Elements} \cup ToSet(tiles))' = qs
    BY <1>6 DEF BoxesOf, ToSet
  <2> HIDE DEF qs
  <2>5. QED
    BY <1>1, <2>3, <2>4 DEF CentreKept
<1>17. QED
  BY <1>11, <1>12, <1>13, <1>14, <1>15, <1>16 DEF IInv

(***************************************************************************)
(* What the invariant gives.                                               *)
(***************************************************************************)
LEMMA StepHolds == IInv /\ [Next]_vars => IInv'
<1> SUFFICES ASSUME IInv, [Next]_vars PROVE IInv'
  OBVIOUS
<1>1. CASE InsertMember
  BY <1>1, InsertMemberKeeps
<1>2. CASE TileCompoundMembers
  BY <1>2, SizedKeeps DEF TileCompoundMembers, AsSized
<1>3. CASE ClearZeroDegreeMembers
  BY <1>3, SizedKeeps DEF ClearZeroDegreeMembers, AsSized
<1>4. CASE UpdateGrid
  BY <1>4, UpdateGridKeeps
<1>5. CASE MoveNodes
  BY <1>5, MoveNodesKeeps
<1>6. CASE GrowTree
  BY <1>6, GrowTreeKeeps
<1>7. CASE RepopulateCompounds
  BY <1>7, RepopulatedKeeps DEF RepopulateCompounds
<1>8. CASE RepopulateZeroDegreeMembers
  BY <1>8, RepopulatedKeeps DEF RepopulateZeroDegreeMembers
<1>9. CASE RelocateComponent
  BY <1>9, RelocateKeeps
<1>10. CASE UNCHANGED vars
  <2>1. /\ members' = members /\ org' = org /\ label' = label /\ rect' = rect /\ cells' = cells
        /\ space' = space /\ region' = region /\ tiles' = tiles /\ centre' = centre
        /\ ticks' = ticks /\ phase' = phase
    BY <1>10 DEF vars
  <2>2. /\ Inserted' = Inserted /\ AsSized' = AsSized
        /\ GridFresh' = GridFresh /\ Grown' = Grown
    BY <2>1 DEF Inserted, Tiled, AsSized, GridFresh, Grown
  <2>3. TypesOK' /\ TilingOK' /\ GridOK' /\ LeafOK'
    BY <2>1, <2>2 DEF IInv, TypesOK, TilingOK, GridOK, LeafOK
  <2>4. TilesFit' /\ TilesApart' /\ CentreKept'
    BY <2>1 DEF IInv, TilesOK, TilesInPlace, TilesFit, TilesApart, LabelFree, CentreKept, Elements
  <2>5. QED
    BY <2>1, <2>3, <2>4 DEF IInv, TilesOK, TilesInPlace
<1>11. QED
  BY <1>1, <1>2, <1>3, <1>4, <1>5, <1>6, <1>7, <1>8, <1>9, <1>10 DEF Next, Done

\* Every state of a layout satisfies the invariant.
THEOREM Invariance == Spec => []IInv
<1>1. Init => IInv
  BY InitHolds
<1>2. IInv /\ [Next]_vars => IInv'
  BY StepHolds
<1>3. QED
  BY <1>1, <1>2, PTL DEF Spec

LEMMA PlacedTiles == IInv => TilesInPlace
BY DEF IInv, TilesOK

LEMMA PlacedCentre == IInv => CentreKept
BY DEF IInv

\* The state has its shape in every layout: above all, each member that
\* tileNodes has inserted is in one place of one row, for any list of members.
THEOREM TypeCorrect == Spec => []TypeOK
BY Invariance, TypeHolds, PTL

\* In every layout, FRGrid has a cell for every box it is given, and calcRepulsionForces
\* finds in it every box that is in range.
THEOREM GridServesForces == Spec => []GridSound
BY Invariance, GridIsSound, PTL

\* In every layout, findPlaceforPrunedNode puts the leaf on a side than which
\* none is emptier, clear of its service, with the spring between them at rest.
THEOREM LeafGrowsInPlace == Spec => []LeafInPlace
BY Invariance, LeafRests, PTL

\* In every layout, the members tileNodes packs end up apart, and inside the
\* box that was sized for them, clear of its padding and its label: for any
\* number of members of any sizes, and any label.
THEOREM TilesStayInPlace == Spec => []TilesInPlace
BY Invariance, PlacedTiles, PTL

\* In every layout, relocateComponent brings the middle of the map back to where
\* it was, to half a unit.
THEOREM MapKeepsItsPlace == Spec => []CentreKept
BY Invariance, PlacedCentre, PTL

\* In every layout, two boxes that overlap and go apart by what calcSeparationAmount
\* gives no longer overlap.
THEOREM BoxesComeApart == Spec => []SeparationClears
BY TypeCorrect, SeparationHolds, PTL

\* In every layout, the line of a connection or of a repulsion leaves each box on
\* its border, as getIntersection2 is to find it.
THEOREM LinesLeaveOnBorders == Spec => []ClipsOnBorder
BY TypeCorrect, ClipsHold, PTL
================================================================================
