----------------------------- MODULE MCGraphView -----------------------------
(***************************************************************************)
(* Finite instances of GraphView: two or three servers, two services, one  *)
(* connection, and three inventories a visit may find.                     *)
(***************************************************************************)
EXTENDS GraphView

CONSTANTS s1, s2, s3, v1, v2, k1

ByList == [s \in Servers |-> IF s = s1 THEN 1 ELSE IF s = s2 THEN 2 ELSE 3]
ByName == [s \in Servers |-> 4 - ByList[s]]

OneConn(srcSrv, srcSvc, dstSvc) ==
  [k \in Conns |-> [srcSrv |-> srcSrv, srcSvc |-> srcSvc, dstSrv |-> Null, dstSvc |-> dstSvc]]

\* One service on each server, and the connection between them.
Placed == [servers |-> {s1, s2}, host |-> {<<s1, v1>>, <<s2, v2>>},
           conn |-> OneConn(s1, v1, v2)]

\* One service on both servers, and a connection that names a server beside
\* a source service that is on none.
Shared == [servers |-> {s1, s2}, host |-> {<<s1, v1>>, <<s2, v1>>},
           conn |-> OneConn(s1, v2, v1)]

\* Two services that have the first server in common, and one of its own each.
Spread == [servers |-> {s1, s2, s3},
           host |-> {<<s1, v1>>, <<s2, v1>>, <<s1, v2>>, <<s3, v2>>},
           conn |-> OneConn(Null, v1, v2)]

PlacedOrShared == {Placed, Shared}
OnlySpread == {Spread}
==============================================================================
