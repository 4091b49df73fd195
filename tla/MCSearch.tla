-------------------------------- MODULE MCSearch --------------------------------
EXTENDS Search, TLC

CONSTANTS o, p, q, f, g, mf, mg, c1, c2

Triangle == (o :> {p, q}) @@ (p :> {o, q}) @@ (q :> {o, p})

MetaOf   == (f :> mf) @@ (g :> mg)
ChunksOf == (f :> {c1, c2}) @@ (g :> {c1})

(* Nobody has all of f, though p and q together do; q has all of g, and the *)
(* origin only its metafile.                                              *)
Names == (o :> {g}) @@ (p :> {f, g}) @@ (q :> {f, g})
Blobs == (o :> {mg}) @@ (p :> {mf, c2}) @@ (q :> {mf, mg, c1})
=============================================================================
