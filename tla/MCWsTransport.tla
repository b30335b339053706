--------------------------- MODULE MCWsTransport ---------------------------
(* Instances of WsTransport for TLC: connections to two nodes.             *)
EXTENDS WsTransport, TLC

CONSTANTS n1, n2, d1, d2, c1, c2, c3

TwoNodes == c1 :> n1 @@ c2 :> n2
ThreeConnections == c1 :> n1 @@ c2 :> n1 @@ c3 :> n2

============================================================================
