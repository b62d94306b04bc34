-------------------------------- MODULE MCCose ---------------------------------
(***************************************************************************)
(* Three servers, three services on them in every way up to renaming, and  *)
(* up to three connections: between services, to a server, back the other  *)
(* way, of a service with itself and of a server with its own service.     *)
(* Four more maps are deep enough for two layers of leaves, and one has no *)
(* element.                                                                *)
(***************************************************************************)
EXTENDS Cose

CONSTANTS S1, S2, S3, V1, V2, V3, root, ConnLimit

MCServices == <<V1, V2, V3>>
MCElements == {S1, S2, S3, V1, V2, V3}
MCNode == LET all == MCElements \cup {root} IN all \cup {<<"dummy", n>> : n \in all}

MCPairs == <<<<V1, V2>>, <<V2, V1>>, <<V2, V3>>, <<V3, V1>>, <<V1, V1>>, <<S1, V1>>, <<S2, V1>>, <<S3, V3>>, <<S1, S2>>>>
MCEdge  == DOMAIN MCPairs
\* The servers come first, each followed by its services.
MCPlaces == {f \in [{V1, V2, V3} -> {S1, S2, S3}] :
               /\ f[V1] = S1 /\ f[V2] # S3 /\ (f[V2] = S1 => f[V3] # S3)}
MCListing(f) == LET on(s) == <<s>> \o SelectSeq(MCServices, LAMBDA v : f[v] = s)
                IN on(S1) \o on(S2) \o on(S3)
MCParent(f) == [n \in MCElements |-> IF n \in DOMAIN f THEN f[n] ELSE Null]

MCFamily ==
  {[nodes |-> MCListing(f), parent |-> MCParent(f), ends |-> MCPairs,
    edges |-> SetToSortSeq(E, LAMBDA x, y : x < y)]
     : f \in MCPlaces, E \in {D \in SUBSET MCEdge : Cardinality(D) <= ConnLimit}}

\* One server with five services: a path, a shorter path and a node apart,
\* a cycle with a tail of two, a star with a tail.
MCDeep ==
  {[nodes |-> <<S1, S2, S3, V1, V2, V3>>, parent |-> [n \in MCElements |-> IF n = S1 THEN Null ELSE S1],
    ends |-> p, edges |-> [i \in DOMAIN p |-> i]]
     : p \in {<< <<S2, S3>>, <<S3, V1>>, <<V1, V2>>, <<V2, V3>> >>,
              << <<S2, S3>>, <<S3, V1>>, <<V1, V2>>, <<V3, V3>> >>,
              << <<S2, S3>>, <<S3, V1>>, <<V1, S2>>, <<V1, V2>>, <<V2, V3>> >>,
              << <<V1, S2>>, <<V1, S3>>, <<V1, V2>>, <<V2, V3>> >> }}

MCEmpty == [nodes |-> <<>>, parent |-> [n \in MCElements |-> Null],
            ends |-> <<>>, edges |-> <<>>]

MCMaps == MCFamily \cup MCDeep \cup {MCEmpty}
================================================================================
