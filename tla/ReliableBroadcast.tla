-------------------------- MODULE ReliableBroadcast --------------------------
(***************************************************************************)
(* What the gossip of peer/impl promises to an application: whoever        *)
(* broadcasts gives its messages the sequence numbers 1, 2, 3, ...; every  *)
(* other node processes the messages of an origin in that order, each one  *)
(* once; the origin itself processes each of its own messages once, in any *)
(* order, since concurrent calls of Broadcast are not ordered among        *)
(* themselves once the sequence number is taken.                           *)
(***************************************************************************)
EXTENDS Naturals, Sequences

CONSTANTS Node,      \* the addresses of the peers
          Payload    \* the messages applications broadcast

VARIABLES sent,      \* sent[o]: the rumors o created, in order
          delivered  \* delivered[n][o]: those n processed, in order

vars == <<sent, delivered>>

Rumor == [origin : Node, seq : Nat \ {0}, msg : Payload]

TypeOK ==
  /\ sent \in [Node -> Seq(Rumor)]
  /\ delivered \in [Node -> [Node -> Seq(Rumor)]]

Init ==
  /\ sent = [o \in Node |-> <<>>]
  /\ delivered = [n \in Node |-> [o \in Node |-> <<>>]]

Broadcast(o) ==
  /\ \E m \in Payload :
       sent' = [sent EXCEPT ![o] =
                  Append(@, [origin |-> o, seq |-> Len(@) + 1, msg |-> m])]
  /\ UNCHANGED delivered

Deliver(n, o) ==
  /\ n # o
  /\ Len(delivered[n][o]) < Len(sent[o])
  /\ delivered' = [delivered EXCEPT ![n][o] =
                     Append(@, sent[o][Len(@) + 1])]
  /\ UNCHANGED sent

DeliverOwn(o) ==
  /\ \E i \in 1 .. Len(sent[o]) :
       /\ \A j \in 1 .. Len(delivered[o][o]) : delivered[o][o][j] # sent[o][i]
       /\ delivered' = [delivered EXCEPT ![o][o] = Append(@, sent[o][i])]
  /\ UNCHANGED sent

Next ==
  \E o \in Node : \/ Broadcast(o)
                  \/ DeliverOwn(o)
                  \/ \E n \in Node : Deliver(n, o)

Spec == Init /\ [][Next]_vars
=============================================================================
