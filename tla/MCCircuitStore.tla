---------------------------- MODULE MCCircuitStore ----------------------------
(***************************************************************************)
(* Finite instances of CircuitStore: two circuits, so that every race has  *)
(* its two sides, over a handful of keys.                                  *)
(***************************************************************************)
EXTENDS CircuitStore, TLC

CONSTANTS s1, v1, v2

\* A connection to v1 from nowhere, from a server or from another service.
ToFirst == [srv |-> Null, src |-> Null, svc |-> v1]
Sources == {ToFirst, [ToFirst EXCEPT !.srv = s1], [ToFirst EXCEPT !.src = v2]}

\* Beside the connection, either a server and a service or two services.
OneOrOther == {{v2}, {s1}}
NoneRetired == {{}}

Symmetry == Permutations(Circuits)
KeySymmetry == Permutations(Servers) \cup Permutations(Services)
================================================================================
