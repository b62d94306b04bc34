---------------------------- MODULE MCGlobalSearch ----------------------------
(***************************************************************************)
(* A finite instance of GlobalSearch: sessions whose queries are so fast   *)
(* that the delay outlasts a search, and sessions whose queries are so     *)
(* slow that a cancelled search still runs when the next one starts.       *)
(***************************************************************************)
EXTENDS GlobalSearch, TLC
================================================================================
