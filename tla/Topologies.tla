------------------------------ MODULE Topologies ------------------------------
(***************************************************************************)
(* Networks of three nodes, the calls of their users, and how much each    *)
(* node broadcasts: values for the constants of Gossip.                    *)
(***************************************************************************)
EXTENDS Naturals, TLC

CONSTANTS a, b, c

ThreeNodes == {a, b, c}

(* a - b - c: rumors of a reach c through b *)
LinePeers == (a :> {b}) @@ (b :> {a, c}) @@ (c :> {b})

(* c knows the pair a - b, which does not know c *)
JoinPeers == (a :> {b}) @@ (b :> {a}) @@ (c :> {b})

(* a <-> b, c being elsewhere *)
PairPeers == (a :> {b}) @@ (b :> {a}) @@ (c :> {})

(* calls of AddPeer while the nodes run *)
ShortCut == {<<a, c>>}

TwoOfA  == (a :> 2) @@ (b :> 0) @@ (c :> 0)
OneOfB  == (a :> 0) @@ (b :> 1) @@ (c :> 0)
OneOfC  == (a :> 0) @@ (b :> 0) @@ (c :> 1)
OneOfAC == (a :> 1) @@ (b :> 0) @@ (c :> 1)
=============================================================================
