------------------------------- MODULE MCGossip -------------------------------
(* Instances of Gossip for TLC *)
EXTENDS Gossip, Topologies

(* b loses its route to c, or is told to go through a *)
RouteChanges == {<<b, c, NoNode>>, <<b, c, a>>}

(* bound on the packets in flight *)
NetBound == Cardinality(net) <= 2
=============================================================================
