------------------------------ MODULE PacketFeed ------------------------------
(***************************************************************************)
(* What the registry promises to the pages that show the node's packets:   *)
(* every packet is published once, at one moment, to all connections there *)
(* are then; a connection takes what it was given in order, in its own     *)
(* time, and one that is made later has missed what came before it.        *)
(***************************************************************************)
EXTENDS Naturals, Sequences

CONSTANT Packet     \* the packets whose handler may succeed

VARIABLES published, \* those handed to the connections
          given,     \* given[f]: what connection f has been given
          taken      \* taken[f]: how many of these it has taken

vars == <<published, given, taken>>

Init ==
  /\ published = {}
  /\ given = <<>>
  /\ taken = <<>>

Publish(k) ==
  /\ k \notin published
  /\ published' = published \cup {k}
  /\ given' = [f \in DOMAIN given |-> Append(given[f], k)]
  /\ UNCHANGED taken

Join ==
  /\ given' = Append(given, <<>>)
  /\ taken' = Append(taken, 0)
  /\ UNCHANGED published

Take(f) ==
  /\ taken[f] < Len(given[f])
  /\ taken' = [taken EXCEPT ![f] = @ + 1]
  /\ UNCHANGED <<published, given>>

Next ==
  \/ \E k \in Packet : Publish(k)
  \/ Join
  \/ \E f \in DOMAIN given : Take(f)

Spec == Init /\ [][Next]_vars
=============================================================================
