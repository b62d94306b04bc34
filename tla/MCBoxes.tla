-------------------------------- MODULE MCBoxes --------------------------------
(***************************************************************************)
(* A unit is five pixels: the graph's margin is three, an edge 24 and the  *)
(* way from tile to tile two.  Up to MemberLimit members of four shapes   *)
(* are tiled, the largest area first.                                      *)
(***************************************************************************)
EXTENDS Boxes

CONSTANT MemberLimit

MCShapes == {[w |-> 12, h |-> 12], [w |-> 24, h |-> 6], [w |-> 12, h |-> 6], [w |-> 6, h |-> 18]}
MCMemberLists ==
  {m \in BoundedSeq(MCShapes, MemberLimit) :
     m # <<>> /\ \A i \in 1..(Len(m) - 1) : m[i].w * m[i].h >= m[i + 1].w * m[i + 1].h}

MCLabels ==
  {[w |-> 0, h |-> 6, hor |-> "none", ver |-> "top"],
   [w |-> 18, h |-> 0, hor |-> "left", ver |-> "none"],
   [w |-> 90, h |-> 6, hor |-> "center", ver |-> "bottom"]}
MCServerLabel == [w |-> 0, h |-> 6, hor |-> "none", ver |-> "top"]

\* On the tiled server, near it and far from it, all around.
MCSpots == {<<0, 0>>, <<-12, 3>>, <<18, -6>>, <<-42, 12>>, <<12, 60>>, <<90, 36>>,
            <<-60, -66>>, <<6, -78>>, <<108, 0>>}

\* Either box goes further than the other, or only one goes.
Go(p, q) == [tiled |-> p, server |-> q]
MCMoves == {Go(<<0, 0>>, <<0, 0>>), Go(<<-12, 0>>, <<18, 0>>), Go(<<18, -6>>, <<-18, 12>>),
            Go(<<-6, 24>>, <<12, -18>>), Go(<<24, 12>>, <<-6, -6>>), Go(<<0, 0>>, <<0, 24>>),
            Go(<<-12, -18>>, <<12, 0>>), Go(<<0, -18>>, <<0, 0>>)}
MCCentres == {<<0, 0>>, <<31, -8>>}
MCServiceSize == [w |-> 12, h |-> 6]
MCLeafSize    == [w |-> 18, h |-> 12]
================================================================================
