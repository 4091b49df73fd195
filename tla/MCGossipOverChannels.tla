------------------------- MODULE MCGossipOverChannels -------------------------
(* Instances of GossipOverChannels for TLC *)
EXTENDS GossipOverChannels, Topologies
=============================================================================
