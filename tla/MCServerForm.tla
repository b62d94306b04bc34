------------------------------ MODULE MCServerForm ------------------------------
(***************************************************************************)
(* Two users, two servers to create, edit and delete, two tags.            *)
(***************************************************************************)
EXTENDS ServerForm

CONSTANTS s1, s2, t1, t2, c1, c2

MCServers  == {s1, s2}
MCTags     == {t1, t2}
MCCircuits == {c1, c2}

Holding(E, L) == [ent |-> E, conn |-> [k \in {} |-> Null], link |-> L]
MCDatabases == {Holding({s1, t1}, {<<s1, t1>>})}
================================================================================
