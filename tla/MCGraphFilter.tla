---------------------------- MODULE MCGraphFilter ----------------------------
(***************************************************************************)
(* Finite instances of GraphFilter.  The two orders of the servers are     *)
(* opposite, so that a first host by list and a first host by name differ. *)
(* Services are interchangeable: no order is put on them.                  *)
(***************************************************************************)
EXTENDS GraphFilter, TLC

CONSTANTS s1, s2, s3

ByList == [s \in Servers |-> IF s = s1 THEN 1 ELSE IF s = s2 THEN 2 ELSE 3]
ByName == [s \in Servers |-> 4 - ByList[s]]

Symmetry == Permutations(Services)
==============================================================================
