-------------------------- MODULE GossipOverChannels --------------------------
(***************************************************************************)
(* The gossip layer over transport/channel: every socket has an inbox, a   *)
(* Go channel that loses nothing and delivers in the order of the sends.   *)
(* (Its capacity of 100 is not reached here; a packet equal to one still   *)
(* in the inbox is not queued a second time.)                              *)
(***************************************************************************)
EXTENDS Gossip, SequencesExt

VARIABLE inbox  \* inbox[n]: what Socket.Recv of n returns, in order

allVars == <<vars, inbox>>

(* Socket.Send for whatever a step sends; what is sent to one address in   *)
(* one step may arrive in any order.                                       *)
Arrivals(k) == SetToSeqs({p \in net' \ net : p.at = k})

Enqueue(base) ==
  \E arriving \in [Node -> UNION {Arrivals(k) : k \in Node}] :
    /\ \A k \in Node : arriving[k] \in Arrivals(k)
    /\ inbox' = [k \in Node |-> base[k] \o arriving[k]]

ReceiveHead(n) ==
  /\ inbox[n] # <<>>
  /\ Receive(n, Head(inbox[n]))
  /\ Enqueue([inbox EXCEPT ![n] = Tail(@)])

Tick(n, nbr)    == AntiEntropyTick(n, nbr) /\ Enqueue(inbox)
Create(n)       == Broadcast(n) /\ Enqueue(inbox)
OwnRumor(n)     == ProcessLocally(n) /\ Enqueue(inbox)
Retransmit(n)   == waitForAckTimeout(n) /\ Enqueue(inbox)
HandleRumor(n)  == (ExecRumor(n) \/ LearnRoute(n)) /\ Enqueue(inbox)
FinishRumors(n) == RelayAndAck(n) /\ Enqueue(inbox)

ChannelInit == Init /\ inbox = [n \in Node |-> <<>>]

ChannelNext ==
  \E n \in Node :
    \/ ReceiveHead(n)
    \/ \E nbr \in Node : Tick(n, nbr)
    \/ Create(n)
    \/ OwnRumor(n)
    \/ Retransmit(n)
    \/ HandleRumor(n)
    \/ FinishRumors(n)

(***************************************************************************)
(* Fairness: a receive loop with a packet in its inbox takes it and        *)
(* handles it to the end, a Broadcast that has begun ends, and the ticker  *)
(* of anti-entropy never stops and rand chooses every neighbour again and  *)
(* again. (A tick waits for a quiet moment of the bounded network, hence   *)
(* strong fairness.) Nothing makes users broadcast.                        *)
(***************************************************************************)
Fairness ==
  \A n \in Node :
    /\ WF_allVars(ReceiveHead(n))
    /\ WF_allVars(HandleRumor(n))
    /\ WF_allVars(FinishRumors(n))
    /\ WF_allVars(OwnRumor(n))
    /\ \A nbr \in Peers[n] : SF_allVars(Tick(n, nbr))

FairSpec == ChannelInit /\ [][ChannelNext]_allVars /\ Fairness

-----------------------------------------------------------------------------
(* A rumor somebody broadcast is in the end processed by every node, even  *)
(* by one its mongering never reached: anti-entropy brings it there.       *)
EventuallyDelivered ==
  \A n, o \in Node : \A s \in 1 .. MaxSeq[o] :
    Len(log[o][o]) >= s ~> Len(delivered[n][o]) >= s
=============================================================================
