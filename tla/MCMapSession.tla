------------------------------ MODULE MCMapSession ------------------------------
(***************************************************************************)
(* Two servers to select, of which one is deleted and created anew; two    *)
(* attempts of the dialog at the same time.                                *)
(***************************************************************************)
EXTENDS MapSession

CONSTANTS s1, s2

MCServers == {s1, s2}
MCLists == {{s1, s2}, {s2}}
================================================================================
