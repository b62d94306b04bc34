--------------------------------- MODULE Lists ---------------------------------
(***************************************************************************)
(* Going through a list from its first member to its last, as the loops of *)
(* the layout do.  These are recursive functions of the position, so that  *)
(* a proof has the state after the first k turns at hand.                  *)
(***************************************************************************)
EXTENDS Naturals, Sequences

\* What base has become when op has been done with each member in turn.
InTurn(op(_, _), base, list) ==
  LET after[k \in 0..Len(list)] == IF k = 0 THEN base ELSE op(after[k - 1], list[k])
  IN after[Len(list)]

\* The members that pass the test, in their order.
Those(list, Test(_)) ==
  InTurn(LAMBDA some, x : IF Test(x) THEN Append(some, x) ELSE some, <<>>, list)
================================================================================
