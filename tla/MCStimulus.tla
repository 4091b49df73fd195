------------------------------- MODULE MCStimulus -------------------------------
EXTENDS Stimulus

CONSTANTS p, q, b, i, j

(* Two controllers, one of which may be inside the other, and a button     *)
(* that may be in either: no place can make a cycle.                       *)
Nested == (p :> {Root}) @@ (q :> {Root, p}) @@ (b :> {p, q})

Controllers == (p :> {None, <<i>>}) @@ (q :> {<<i>>, <<j>>, <<i, j, i>>}) @@ (b :> {None})

Actions == (p :> {None}) @@ (q :> {None}) @@ (b :> {None, <<i>>, <<j, i>>})

TargetOf == (p :> {}) @@ (q :> {i}) @@ (b :> {i})
=============================================================================
