----------------------------- MODULE GossipProofs -----------------------------
(***************************************************************************)
(* Theorems about Gossip, for any set of nodes, any topology, any user     *)
(* calls and any bounds.                                                   *)
(***************************************************************************)
EXTENDS Gossip, TLAPS

(***************************************************************************)
(* The inductive invariant. A rumor is taken from a packet only if its     *)
(* number follows the log; that this makes the logs prefixes of one        *)
(* another needs that packets hold genuine rumors, and these are what      *)
(* Broadcast, the waitForAck goroutines and the answers to a status take   *)
(* from a log, at places that exist.                                       *)
(***************************************************************************)
LogInv == StatusMatchesLog /\ LogsAgree /\ RumorsGenuine /\ WaitsForOwn

IInv == TypeOK /\ LogInv

(* A set of packets that may be put on the wire. *)
Sendable(S) ==
  /\ S \subseteq Packet
  /\ \A p \in S : p.msg.type = "rumors" => \A r \in p.msg.rumors : Created(r)

(* What the packets of directlySendToNbr, Relay and Unicast are made of.   *)
LEMMA SendToSendable ==
  ASSUME NEW hop \in Node \cup {NoNode}, NEW id \in PacketID, NEW src \in Node,
         NEW n \in Node, NEW dest \in Node, NEW m \in Message,
         m.type = "rumors" => \A r \in m.rumors : Created(r)
  PROVE  Sendable(SendTo(hop, id, src, n, dest, m))
  BY DEF Sendable, SendTo, Packet

(* The messages that handlers make (Broadcast, the status replies) are of *)
(* their types.                                                           *)
LEMMA MessageTypes ==
  /\ FreshID \in PacketID
  /\ \A R \in SUBSET Rumor : RumorsMsg(R) \in Message
  /\ \A s \in Status : StatusMsg(s) \in Message /\ StatusMsg(s).type # "rumors"
  /\ \A s \in Status, id \in PacketID :
       AckMsg(s, id) \in Message /\ AckMsg(s, id).type # "rumors"
  BY DEF FreshID, PacketID, RumorsMsg, StatusMsg, AckMsg, Message, RumorsMessage,
         StatusMessage, AckMessage

(* A network whose nodes were just created satisfies the invariant. *)
LEMMA InitIInv == Init => IInv
  <1> SUFFICES ASSUME Init PROVE IInv
    OBVIOUS
  <1>1. TypeOK
    BY ConfAssumption DEF Init, TypeOK, Status
  <1>2. StatusMatchesLog /\ LogsAgree
    BY DEF Init, StatusMatchesLog, LogsAgree
  <1>3. RumorsGenuine /\ WaitsForOwn
    BY DEF Init, RumorsGenuine, WaitsForOwn
  <1> QED
    BY <1>1, <1>2, <1>3 DEF IInv, LogInv

-----------------------------------------------------------------------------
(* Steps that leave every log alone *)

(* A handled rumors message with genuine rumors. *)
JobGenuine(j) ==
  /\ j.pkt.msg.type = "rumors"
  /\ \A r \in j.todo \cup j.pkt.msg.rumors : Created(r)

(* A step that leaves logs alone, sends only sendable packets, keeps what *)
(* is being executed genuine and starts no wait preserves the invariant   *)
(* if it keeps the types.                                                 *)
LEMMA QuietStep ==
  ASSUME IInv, TypeOK', UNCHANGED <<log, status>>,
         NEW S, net' \subseteq net \cup S, Sendable(S),
         \A n \in Node : \/ rx'[n] \in {rx[n], Idle}
                         \/ JobGenuine(rx'[n]),
         \A n \in Node : waiting'[n] \subseteq waiting[n]
  PROVE  IInv'
  <1> USE DEF IInv, LogInv
  <1>1. StatusMatchesLog' /\ LogsAgree'
    BY DEF StatusMatchesLog, LogsAgree
  <1>2. \A r : Created(r)' <=> Created(r)
    BY DEF Created
  <1>3. RumorsGenuine'
    <2>1. ASSUME NEW p \in net', p.msg.type = "rumors", NEW r \in p.msg.rumors
          PROVE  Created(r)
      BY <2>1 DEF RumorsGenuine, Sendable
    <2>2. ASSUME NEW n \in Node, rx'[n] # Idle
          PROVE  JobGenuine(rx'[n])
      BY <2>2 DEF RumorsGenuine, JobGenuine
    <2> QED
      BY <1>2, <2>1, <2>2 DEF RumorsGenuine, JobGenuine
  <1>4. WaitsForOwn'
    BY DEF WaitsForOwn
  <1> QED
    BY <1>1, <1>3, <1>4

(* AddPeer touches neighbours and routes only. *)
LEMMA AddPeerInv ==
  ASSUME IInv, NEW n \in Node, NEW peer \in Node, AddPeer(n, peer)
  PROVE  IInv'
  <1>1. TypeOK'
    BY DEF AddPeer, IInv, TypeOK, logVars
  <1>2. Sendable({})
    BY DEF Sendable
  <1> QED
    BY <1>1, <1>2, QuietStep DEF AddPeer, logVars

(* routingTable.SetEntry keeps a relay, or nothing, for every origin. *)
LEMMA SetEntryType ==
  ASSUME TypeOK, NEW n \in Node, NEW origin \in Node,
         NEW relay \in Node \cup {NoNode}, SetEntry(n, origin, relay)
  PROVE  /\ table' \in [Node -> [Node -> Node \cup {NoNode}]]
         /\ nbrs' \in [Node -> SUBSET Node]
  BY DEF SetEntry, TypeOK

(* SetRoutingEntry touches neighbours and routes only. *)
LEMMA SetRoutingEntryInv ==
  ASSUME IInv, NEW n \in Node, NEW origin \in Node,
         NEW relay \in Node \cup {NoNode}, SetRoutingEntry(n, origin, relay)
  PROVE  IInv'
  <1>1. TypeOK'
    BY SetEntryType DEF SetRoutingEntry, IInv, TypeOK, logVars
  <1>2. Sendable({})
    BY DEF Sendable
  <1> QED
    BY <1>1, <1>2, QuietStep DEF SetRoutingEntry, logVars

(* The end of Broadcast, where its own message is processed, touches no   *)
(* log.                                                                   *)
LEMMA ProcessLocallyInv ==
  ASSUME IInv, NEW n \in Node, ProcessLocally(n)
  PROVE  IInv'
  <1>1. PICK r \in broadcasting[n] :
          /\ Process(n, r)
          /\ broadcasting' = [broadcasting EXCEPT ![n] = @ \ {r}]
    BY DEF ProcessLocally
  <1>2. r \in Rumor /\ r.origin \in Node
    BY DEF IInv, TypeOK, Rumor
  <1>3. delivered' \in [Node -> [Node -> Seq(Rumor)]]
    BY <1>1, <1>2 DEF IInv, TypeOK, Process
  <1>4. TypeOK'
    BY <1>1, <1>3 DEF ProcessLocally, IInv, TypeOK, routingVars
  <1>5. Sendable({})
    BY DEF Sendable
  <1> QED
    BY <1>4, <1>5, QuietStep DEF ProcessLocally

(* The rumors of a log are genuine, and those of one's own log too. *)
LEMMA LogGenuine ==
  ASSUME IInv, NEW n \in Node, NEW o \in Node, NEW i \in 1 .. Len(log[n][o])
  PROVE  log[n][o][i] \in Rumor /\ Created(log[n][o][i])
  <1>1. log[n][o] \in Seq(Rumor) /\ log[n][o][i] \in Rumor
    BY DEF IInv, TypeOK
  <1>2. log[n][o][i].origin = o /\ log[n][o][i].seq = i
    BY DEF IInv, LogInv, StatusMatchesLog
  <1>3. i \in 1 .. Len(log[o][o]) /\ log[n][o][i] = log[o][o][i]
    BY <1>1, TypeOK DEF IInv, TypeOK, LogInv, LogsAgree
  <1> QED
    BY <1>1, <1>2, <1>3 DEF Created

(* directlySendToNbr of genuine rumors puts only sendable packets on the  *)
(* network.                                                               *)
LEMMA RumorsSendable ==
  ASSUME IInv, NEW n \in Node, NEW nbr \in Node \cup {NoNode}, NEW id \in PacketID,
         NEW R \in SUBSET Rumor, \A r \in R : Created(r)
  PROVE  Sendable(directlySendToNbr(n, nbr, id, RumorsMsg(R)))
  <1>1. CASE nbr = NoNode
    BY <1>1 DEF Sendable, directlySendToNbr, SendTo
  <1>2. CASE nbr \in Node
    BY <1>2, MessageTypes, SendToSendable DEF directlySendToNbr, RumorsMsg
  <1> QED
    BY <1>1, <1>2

(* A status, sent directly or by Unicast, is always sendable. *)
LEMMA StatusSendable ==
  ASSUME IInv, NEW n \in Node, NEW nbr \in Node \cup {NoNode}
  PROVE  /\ Sendable(directlySendToNbr(n, nbr, FreshID, StatusMsg(status[n])))
         /\ Sendable(Unicast(n, nbr, StatusMsg(status[n])))
  <1>1. status[n] \in Status
    BY DEF IInv, TypeOK
  <1>2. CASE nbr = NoNode
    BY <1>2 DEF Sendable, directlySendToNbr, SendTo, Unicast, Relay, NextHop
  <1>3. CASE nbr \in Node
    <2>1. NextHop(n, nbr) \in Node \cup {NoNode}
      BY <1>3 DEF NextHop, IInv, TypeOK
    <2> QED
      BY <1>1, <1>3, <2>1, MessageTypes, SendToSendable
      DEF directlySendToNbr, Unicast, Relay
  <1> QED
    BY <1>2, <1>3

(* The neighbour drawn by a random choice is a node, or none. *)
LEMMA NbrsExceptType ==
  ASSUME TypeOK, NEW n \in Node, NEW except
  PROVE  NbrsExcept(n, except) \subseteq Node \cup {NoNode}
  BY DEF NbrsExcept, TypeOK

(* A step that only sends. *)
LEMMA SendingStep ==
  ASSUME IInv, NEW S, Sendable(S), net' \subseteq net \cup S,
         UNCHANGED <<logVars, broadcasting, routingVars, rx>>,
         \A n \in Node : waiting'[n] \subseteq waiting[n],
         waiting' \in [Node -> SUBSET [id : PacketID, prev : Node \cup {NoNode}]]
  PROVE  IInv'
  <1>1. TypeOK'
    BY DEF IInv, TypeOK, logVars, routingVars, Sendable
  <1> QED
    BY <1>1, QuietStep DEF logVars

(* A resend after the ack timeout sends only what its goroutine waits     *)
(* for, which is genuine.                                                 *)
LEMMA waitForAckTimeoutInv ==
  ASSUME IInv, NEW n \in Node, waitForAckTimeout(n)
  PROVE  IInv'
  <1>1. PICK w \in waiting[n] : \E nbr \in NbrsExcept(n, w.prev) :
          net' = net \cup directlySendToNbr(n, nbr, FreshID,
                                            RumorsMsg({log[n][n][w.id[2]]}))
    BY DEF waitForAckTimeout
  <1>2. PICK nbr \in NbrsExcept(n, w.prev) :
          net' = net \cup directlySendToNbr(n, nbr, FreshID,
                                            RumorsMsg({log[n][n][w.id[2]]}))
    BY <1>1
  <1>3. PICK s \in 1 .. Len(log[n][n]) : w.id = <<n, s>>
    BY DEF IInv, LogInv, WaitsForOwn
  <1>4. log[n][n][s] \in Rumor /\ Created(log[n][n][s])
    BY LogGenuine
  <1>5. Sendable(directlySendToNbr(n, nbr, FreshID, RumorsMsg({log[n][n][w.id[2]]})))
    <2>1. nbr \in Node \cup {NoNode}
      BY NbrsExceptType DEF IInv
    <2>2. FreshID \in PacketID
      BY MessageTypes
    <2>3. w.id[2] = s
      BY <1>3
    <2> DEFINE R == {log[n][n][w.id[2]]}
    <2>4. R \in SUBSET Rumor /\ \A r \in R : Created(r)
      BY <1>4, <2>3
    <2> QED
      BY <2>1, <2>2, <2>4, RumorsSendable
  <1> QED
    BY <1>2, <1>5, SendingStep DEF waitForAckTimeout, IInv, TypeOK

(* The anti-entropy ticker sends a status only. *)
LEMMA AntiEntropyTickInv ==
  ASSUME IInv, NEW n \in Node, NEW nbr \in Node, AntiEntropyTick(n, nbr)
  PROVE  IInv'
  <1>1. Sendable(Unicast(n, nbr, StatusMsg(status[n])))
    BY StatusSendable
  <1> QED
    BY <1>1, SendingStep DEF AntiEntropyTick, IInv, TypeOK

(* Forwarding a packet for another node does not alter its message. *)
LEMMA ForwardInv ==
  ASSUME IInv, NEW n \in Node, NEW p \in net, Forward(n, p)
  PROVE  IInv'
  <1>1. p \in Packet /\ (p.msg.type = "rumors" => \A r \in p.msg.rumors : Created(r))
    BY DEF IInv, TypeOK, LogInv, RumorsGenuine
  <1>2. Sendable(SendTo(p.dest, p.id, p.src, n, p.dest, p.msg))
    BY <1>1, SendToSendable DEF Packet
  <1>3. net' \subseteq net \cup SendTo(p.dest, p.id, p.src, n, p.dest, p.msg)
    BY DEF Forward, AfterReceipt
  <1> QED
    BY <1>2, <1>3, SendingStep DEF Forward, IInv, TypeOK

(* Losing a packet disturbs nothing. *)
LEMMA LoseInv ==
  ASSUME IInv, NEW p \in net, Lose(p)
  PROVE  IInv'
  <1>1. Sendable({})
    BY DEF Sendable
  <1> QED
    BY <1>1, SendingStep DEF Lose, IInv, TypeOK

(* The answers to a status can be sent: the slices taken from the logs are *)
(* in range, and what they hold is genuine.                                *)
LEMMA NeededGenuine ==
  ASSUME IInv, NEW n \in Node, NEW theirs \in Status
  PROVE  /\ RumorsNeedToSend(n, theirs) \in SUBSET Rumor
         /\ \A r \in RumorsNeedToSend(n, theirs) : Created(r)
  <1> SUFFICES ASSUME NEW o \in Node, NEW i \in theirs[o] + 1 .. status[n][o]
               PROVE  log[n][o][i] \in Rumor /\ Created(log[n][o][i])
    BY DEF RumorsNeedToSend
  <1>1. theirs[o] \in Nat /\ status[n][o] = Len(log[n][o]) /\ status[n][o] \in Nat
    BY DEF Status, IInv, TypeOK, LogInv, StatusMatchesLog
  <1>2. i \in 1 .. Len(log[n][o])
    BY <1>1
  <1> QED
    BY <1>2, LogGenuine

(* Whatever ExecStatusMessage replies with can be sent: its slices hold   *)
(* genuine rumors.                                                        *)
LEMMA RepliesSendable ==
  ASSUME IInv, NEW n \in Node, NEW src \in Node, NEW theirs \in Status,
         NEW replies \in StatusReplies(n, src, theirs)
  PROVE  Sendable(replies)
  <1> DEFINE reply(nbr) == directlySendToNbr(n, nbr, FreshID, StatusMsg(status[n]))
             rumors == directlySendToNbr(n, src, FreshID,
                                         RumorsMsg(RumorsNeedToSend(n, theirs)))
  <1>1. \A nbr \in Node \cup {NoNode} : Sendable(reply(nbr))
    BY StatusSendable
  <1>2. Sendable(rumors)
    BY NeededGenuine, RumorsSendable, MessageTypes
  <1>3. Sendable({})
    BY DEF Sendable
  <1>4. \A S, T : Sendable(S) /\ Sendable(T) => Sendable(S \cup T)
    BY DEF Sendable
  <1>5. NbrsExcept(n, src) \subseteq Node \cup {NoNode}
    BY NbrsExceptType DEF IInv
  <1> HIDE DEF reply, rumors
  <1>6. CASE IHaveNew(n, theirs) \/ OtherHasNew(n, theirs)
    <2>1. replies = (IF OtherHasNew(n, theirs) THEN reply(src) ELSE {})
                    \cup (IF IHaveNew(n, theirs) THEN rumors ELSE {})
      BY <1>6 DEF StatusReplies, reply, rumors
    <2> QED
      BY <1>1, <1>2, <1>3, <1>4, <2>1
  <1>7. CASE ~(IHaveNew(n, theirs) \/ OtherHasNew(n, theirs))
    <2>1. replies = {} \/ \E nbr \in NbrsExcept(n, src) : replies = reply(nbr)
      BY <1>7 DEF StatusReplies, reply
    <2> QED
      BY <1>1, <1>3, <1>5, <2>1
  <1> QED
    BY <1>6, <1>7

(* Every field of a packet under way is of its type. *)
LEMMA PacketFields ==
  ASSUME IInv, NEW p \in net
  PROVE  /\ p \in Packet /\ p.id \in PacketID /\ p.src \in Node /\ p.relay \in Node
         /\ p.msg \in Message
         /\ p.msg.type \in {"rumors", "status", "ack"}
         /\ p.msg.type = "rumors" => p.msg.rumors \in SUBSET Rumor
         /\ p.msg.type # "rumors" => p.msg.status \in Status
  <1>1. p \in Packet
    BY DEF IInv, TypeOK
  <1> QED
    BY <1>1 DEF Packet, Message, RumorsMessage, StatusMessage, AckMessage

(* ExecStatusMessage preserves the invariant. *)
LEMMA ExecStatusMessageInv ==
  ASSUME IInv, NEW n \in Node, NEW p \in net, ExecStatusMessage(n, p)
  PROVE  IInv'
  <1>1. PICK rest \in AfterReceipt(p), replies \in StatusReplies(n, p.src, p.msg.status) :
          net' = rest \cup replies
    BY DEF ExecStatusMessage
  <1>2. p.src \in Node /\ p.msg.status \in Status
    BY PacketFields DEF ExecStatusMessage
  <1>3. Sendable(replies)
    BY <1>2, RepliesSendable
  <1>4. net' \subseteq net \cup replies
    BY <1>1 DEF AfterReceipt
  <1> QED
    BY <1>3, <1>4, SendingStep DEF ExecStatusMessage, IInv, TypeOK

(* ExecAckMessage, which may end a wait and answers the status in the     *)
(* ack, preserves the invariant.                                          *)
LEMMA ExecAckMessageInv ==
  ASSUME IInv, NEW n \in Node, NEW p \in net, ExecAckMessage(n, p)
  PROVE  IInv'
  <1>1. PICK rest \in AfterReceipt(p), replies \in AckReplies(n, p) :
          net' = rest \cup replies
    BY DEF ExecAckMessage
  <1>2. p.src \in Node /\ p.msg.status \in Status
    BY PacketFields DEF ExecAckMessage
  <1>3. Sendable(replies)
    <2>1. Sendable({})
      BY DEF Sendable
    <2> QED
      BY <1>2, <2>1, RepliesSendable DEF AckReplies
  <1>4. net' \subseteq net \cup replies
    BY <1>1 DEF AfterReceipt
  <1>5. /\ waiting' \in [Node -> SUBSET [id : PacketID, prev : Node \cup {NoNode}]]
        /\ \A k \in Node : waiting'[k] \subseteq waiting[k]
    <2> DEFINE W == [id : PacketID, prev : Node \cup {NoNode}]
               left == {w \in waiting[n] : w.id # p.msg.acked}
    <2>1. waiting \in [Node -> SUBSET W] /\ left \subseteq waiting[n]
      BY DEF IInv, TypeOK
    <2>2. waiting' \in {waiting, [waiting EXCEPT ![n] = left]}
      BY DEF ExecAckMessage
    <2> HIDE DEF left, W
    <2>3. waiting' \in [Node -> SUBSET W] /\ \A k \in Node : waiting'[k] \subseteq waiting[k]
      BY <2>1, <2>2
    <2> QED
      BY <2>3 DEF W
  <1> QED
    BY <1>3, <1>4, <1>5, SendingStep DEF ExecAckMessage

(* Starting on a rumors message: what is left to execute is genuine. *)
LEMMA ExecRumorsMessageInv ==
  ASSUME IInv, NEW n \in Node, NEW p \in net, ExecRumorsMessage(n, p)
  PROVE  IInv'
  <1> DEFINE j == [pkt |-> p, todo |-> p.msg.rumors, expected |-> FALSE, learn |-> NoNode]
  <1>1. p \in Packet /\ p.msg.rumors \in SUBSET Rumor
    BY PacketFields DEF ExecRumorsMessage
  <1>2. j \in Job
    BY <1>1 DEF Job
  <1>3. JobGenuine(j)
    BY DEF JobGenuine, IInv, LogInv, RumorsGenuine, ExecRumorsMessage
  <1> HIDE DEF j
  <1>4. rx' = [rx EXCEPT ![n] = j]
    BY DEF ExecRumorsMessage, j
  <1>5. net' \subseteq net
    BY DEF ExecRumorsMessage, AfterReceipt
  <1>6. TypeOK'
    <2>1. rx' \in [Node -> Job \cup {Idle}]
      BY <1>2, <1>4 DEF IInv, TypeOK
    <2>2. net' \subseteq Packet
      BY <1>5 DEF IInv, TypeOK
    <2>3. UNCHANGED <<logVars, broadcasting, routingVars, waiting>>
      BY DEF ExecRumorsMessage
    <2> QED
      BY <2>1, <2>2, <2>3 DEF IInv, TypeOK, logVars, routingVars
  <1>7. Sendable({})
    BY DEF Sendable
  <1>8. \A k \in Node : rx'[k] \in {rx[k], Idle} \/ JobGenuine(rx'[k])
    BY <1>3, <1>4 DEF IInv, TypeOK
  <1> QED
    BY <1>5, <1>6, <1>7, <1>8, QuietStep DEF ExecRumorsMessage, logVars

(* The end of ExecRumorsMessage relays the genuine rumors it was given,   *)
(* and acks.                                                              *)
LEMMA RelayAndAckInv ==
  ASSUME IInv, NEW n \in Node, RelayAndAck(n)
  PROVE  IInv'
  <1> DEFINE p == rx[n].pkt
             ack == IF p.src = n THEN {}
                    ELSE directlySendToNbr(n, p.relay, FreshID, AckMsg(status[n], p.id))
  <1>1. /\ p \in Packet /\ p.src \in Node /\ p.relay \in Node /\ p.id \in PacketID
        /\ p.msg \in Message
        /\ p.msg.type = "rumors" /\ \A r \in p.msg.rumors : Created(r)
    <2>1. rx[n] \in Job
      BY DEF RelayAndAck, IInv, TypeOK
    <2>2. p.msg.type = "rumors" /\ \A r \in p.msg.rumors : Created(r)
      BY DEF RelayAndAck, IInv, LogInv, RumorsGenuine
    <2> QED
      BY <2>1, <2>2 DEF Job, Packet
  <1>2. PICK nbr \in IF rx[n].expected THEN NbrsExcept(n, p.src) ELSE {NoNode} :
          net' = net \cup Relay(p.src, n, nbr, p.msg) \cup ack
    BY DEF RelayAndAck
  <1>3. nbr \in Node \cup {NoNode}
    BY <1>2, NbrsExceptType DEF IInv
  <1> HIDE DEF p
  <1>4. Sendable(ack)
    <2>1. status[n] \in Status
      BY DEF IInv, TypeOK
    <2>2. AckMsg(status[n], p.id) \in Message /\ AckMsg(status[n], p.id).type # "rumors"
      BY <1>1, <2>1, MessageTypes
    <2>3. Sendable(directlySendToNbr(n, p.relay, FreshID, AckMsg(status[n], p.id)))
      BY <1>1, <2>2, MessageTypes, SendToSendable DEF directlySendToNbr
    <2> QED
      BY <2>3 DEF Sendable
  <1>5. Sendable(Relay(p.src, n, nbr, p.msg))
    <2>1. CASE nbr = NoNode
      BY <2>1 DEF Relay, NextHop, SendTo, Sendable
    <2>2. CASE nbr \in Node
      <3>1. NextHop(n, nbr) \in Node \cup {NoNode}
        BY <2>2 DEF NextHop, IInv, TypeOK
      <3> QED
        BY <1>1, <2>2, <3>1, MessageTypes, SendToSendable DEF Relay
    <2> QED
      BY <1>3, <2>1, <2>2
  <1> DEFINE S == Relay(p.src, n, nbr, p.msg) \cup ack
  <1>6. Sendable(S)
    BY <1>4, <1>5 DEF Sendable
  <1> HIDE DEF ack
  <1>7. net' \subseteq net \cup S
    BY <1>2
  <1> HIDE DEF S
  <1>8. rx' = [rx EXCEPT ![n] = Idle] /\ UNCHANGED <<logVars, broadcasting, routingVars, waiting>>
    BY DEF RelayAndAck
  <1>9. TypeOK'
    <2>1. rx' \in [Node -> Job \cup {Idle}]
      BY <1>8 DEF IInv, TypeOK
    <2>2. net' \subseteq Packet
      BY <1>6, <1>7 DEF IInv, TypeOK, Sendable
    <2> QED
      BY <1>8, <2>1, <2>2 DEF IInv, TypeOK, logVars, routingVars
  <1>10. \A k \in Node : rx'[k] \in {rx[k], Idle}
    BY <1>8 DEF IInv, TypeOK
  <1> QED
    BY <1>6, <1>7, <1>8, <1>9, <1>10, QuietStep DEF logVars

-----------------------------------------------------------------------------
(* Steps that append a rumor to a log: an origin's own, or one that is     *)
(* genuine and next in turn                                                *)

(* Appending the next rumor of an origin, genuine or one's own, keeps     *)
(* logs and statuses in agreement.                                        *)
LEMMA Growth ==
  ASSUME IInv, NEW n \in Node, NEW r \in Rumor,
         status[n][r.origin] + 1 = r.seq,
         r.origin = n \/ Created(r),
         updateForNewRumorFromNode(n, r)
  PROVE  /\ StatusMatchesLog'
         /\ LogsAgree'
         /\ Created(r)'
         /\ \A q \in Rumor : Created(q) => Created(q)'
         /\ \A k \in Node : Len(log[k][k]) <= Len(log'[k][k])
  <1> DEFINE o == r.origin
             L == log[n][o]
  <1>1. o \in Node /\ r.seq \in Nat
    BY DEF Rumor
  <1>2. L \in Seq(Rumor) /\ Len(L) \in Nat /\ \A k, d \in Node : log[k][d] \in Seq(Rumor)
    BY <1>1 DEF IInv, TypeOK
  <1>3. r.seq = Len(L) + 1
    BY <1>1 DEF IInv, LogInv, StatusMatchesLog
  <1>4. \A k, d \in Node : log'[k][d] = IF k = n /\ d = o THEN Append(L, r) ELSE log[k][d]
    BY <1>1 DEF updateForNewRumorFromNode, IInv, TypeOK
  <1>5. \A k, d \in Node : status'[k][d] = IF k = n /\ d = o THEN Len(L) + 1 ELSE status[k][d]
    <2>1. status \in [Node -> [Node -> Nat]] /\ status[n][o] = Len(L)
      BY <1>1 DEF IInv, TypeOK, Status, LogInv, StatusMatchesLog
    <2>2. status' = [status EXCEPT ![n][o] = @ + 1]
      BY DEF updateForNewRumorFromNode
    <2> HIDE DEF L, o
    <2> QED
      BY <1>1, <2>1, <2>2
  <1>6. /\ Len(Append(L, r)) = Len(L) + 1
        /\ Append(L, r)[Len(L) + 1] = r
        /\ \A i \in 1 .. Len(L) : Append(L, r)[i] = L[i]
    BY <1>2
  <1> HIDE DEF L
  <1>7. StatusMatchesLog'
    <2> SUFFICES ASSUME NEW k \in Node, NEW d \in Node
                 PROVE  /\ status'[k][d] = Len(log'[k][d])
                        /\ \A i \in 1 .. Len(log'[k][d]) :
                             log'[k][d][i].origin = d /\ log'[k][d][i].seq = i
      BY DEF StatusMatchesLog
    <2>1. CASE k = n /\ d = o
      <3>1. \A i \in 1 .. Len(L) : L[i].origin = o /\ L[i].seq = i
        BY <1>1 DEF L, IInv, LogInv, StatusMatchesLog
      <3>2. \A i \in 1 .. Len(L) + 1 : i \in 1 .. Len(L) \/ i = Len(L) + 1
        BY <1>2
      <3>3. log'[k][d] = Append(L, r) /\ status'[k][d] = Len(L) + 1
        BY <1>4, <1>5, <2>1
      <3>4. \A i \in 1 .. Len(L) + 1 : Append(L, r)[i].origin = o /\ Append(L, r)[i].seq = i
        BY <1>3, <1>6, <3>1, <3>2
      <3> QED
        BY <1>6, <2>1, <3>3, <3>4
    <2>2. CASE ~(k = n /\ d = o)
      BY <1>4, <1>5, <2>2 DEF IInv, LogInv, StatusMatchesLog
    <2> QED
      BY <2>1, <2>2
  <1>8. \A k \in Node : /\ Len(log[k][k]) <= Len(log'[k][k])
                        /\ Len(log'[k][k]) \in Nat
                        /\ \A i \in 1 .. Len(log[k][k]) : log'[k][k][i] = log[k][k][i]
    <2> SUFFICES ASSUME NEW k \in Node
                 PROVE  /\ Len(log[k][k]) <= Len(log'[k][k])
                        /\ Len(log'[k][k]) \in Nat
                        /\ \A i \in 1 .. Len(log[k][k]) : log'[k][k][i] = log[k][k][i]
      OBVIOUS
    <2>1. CASE k = n /\ k = o
      <3>1. log'[k][k] = Append(L, r) /\ log[k][k] = L
        BY <1>4, <2>1 DEF L
      <3> QED
        BY <1>2, <1>6, <3>1
    <2>2. CASE ~(k = n /\ k = o)
      <3>1. log'[k][k] = log[k][k]
        BY <1>4, <2>2
      <3> QED
        BY <1>2, <3>1
    <2> QED
      BY <2>1, <2>2
  <1>9. \A q \in Rumor : Created(q) => Created(q)'
    BY <1>2, <1>8 DEF Created, Rumor
  <1>10. Created(r)'
    <2>1. CASE o = n
      <3>1. log'[r.origin][r.origin] = Append(L, r)
        BY <1>1, <1>4, <2>1
      <3>2. r.seq \in 1 .. Len(Append(L, r)) /\ r = Append(L, r)[r.seq]
        BY <1>2, <1>3, <1>6
      <3> QED
        BY <3>1, <3>2 DEF Created
    <2>2. CASE Created(r)
      BY <1>9, <2>2
    <2> QED
      BY <2>1, <2>2
  <1>11. LogsAgree'
    <2> SUFFICES ASSUME NEW k \in Node, NEW d \in Node
                 PROVE  /\ Len(log'[k][d]) <= Len(log'[d][d])
                        /\ \A i \in 1 .. Len(log'[k][d]) : log'[k][d][i] = log'[d][d][i]
      BY DEF LogsAgree
    <2>1. /\ Len(log[k][d]) <= Len(log[d][d])
          /\ \A i \in 1 .. Len(log[k][d]) : log[k][d][i] = log[d][d][i]
      BY DEF IInv, LogInv, LogsAgree
    <2>2. CASE k = d
      BY <1>8, <2>2
    <2>3. CASE ~(k = n /\ d = o) /\ k # d
      <3>1. log'[k][d] = log[k][d]
        BY <1>4, <2>3
      <3> QED
        BY <1>2, <1>8, <2>1, <3>1
    <2>4. CASE k = n /\ d = o /\ k # d
      <3>1. log'[k][d] = Append(L, r) /\ log'[d][d] = log[d][d]
        BY <1>4, <2>4
      <3>2. Created(r)
        BY <2>4
      <3>3. Len(L) + 1 \in 1 .. Len(log[d][d]) /\ log[d][d][Len(L) + 1] = r
        BY <1>3, <2>4, <3>2 DEF Created
      <3>4. \A i \in 1 .. Len(L) + 1 : i \in 1 .. Len(L) \/ i = Len(L) + 1
        BY <1>2
      <3>5. \A i \in 1 .. Len(L) : L[i] = log[d][d][i]
        BY <2>1, <2>4 DEF L
      <3> QED
        BY <1>2, <1>6, <3>1, <3>3, <3>4, <3>5
    <2> QED
      BY <2>2, <2>3, <2>4
  <1> QED
    BY <1>7, <1>8, <1>9, <1>10, <1>11

(* A step that appends such a rumor, sends and waits for no other, and    *)
(* starts executing no packet preserves the invariant if it keeps the     *)
(* types.                                                                 *)
LEMMA GrowthStep ==
  ASSUME IInv, TypeOK', NEW n \in Node, NEW r \in Rumor,
         status[n][r.origin] + 1 = r.seq,
         r.origin = n \/ Created(r),
         updateForNewRumorFromNode(n, r),
         \A p \in net' : \/ p \in net
                         \/ p.msg.type = "rumors" => p.msg.rumors = {r},
         \A k \in Node : \/ rx'[k] = rx[k]
                         \/ /\ rx[k] # Idle
                            /\ rx'[k].pkt = rx[k].pkt
                            /\ rx'[k].todo \subseteq rx[k].todo,
         \A k \in Node : \A w \in waiting'[k] :
           \/ w \in waiting[k]
           \/ k = n /\ r.origin = n /\ w.id = <<n, r.seq>>
  PROVE  IInv'
  <1>1. /\ StatusMatchesLog' /\ LogsAgree' /\ Created(r)'
        /\ \A q \in Rumor : Created(q) => Created(q)'
        /\ \A k \in Node : Len(log[k][k]) <= Len(log'[k][k])
    BY Growth
  <1>2. ASSUME NEW p \in net', p.msg.type = "rumors", NEW q \in p.msg.rumors
        PROVE  Created(q)'
    <2>1. CASE p \in net
      <3>1. q \in Rumor
        BY <1>2, <2>1, PacketFields
      <3>2. Created(q)
        BY <1>2, <2>1 DEF IInv, LogInv, RumorsGenuine
      <3> QED
        BY <1>1, <3>1, <3>2
    <2>2. CASE p.msg.rumors = {r}
      BY <1>1, <1>2, <2>2
    <2> QED
      BY <1>2, <2>1, <2>2
  <1>3. ASSUME NEW k \in Node, rx'[k] # Idle
        PROVE  /\ rx'[k].pkt.msg.type = "rumors"
               /\ \A q \in rx'[k].todo \cup rx'[k].pkt.msg.rumors : Created(q)'
    <2>1. rx[k] # Idle /\ rx'[k].pkt = rx[k].pkt /\ rx'[k].todo \subseteq rx[k].todo
      BY <1>3 DEF IInv
    <2>2. JobGenuine(rx[k])
      BY <2>1 DEF IInv, LogInv, RumorsGenuine, JobGenuine
    <2>3. rx[k] \in Job
      BY <2>1 DEF IInv, TypeOK
    <2>4. rx[k].todo \cup rx[k].pkt.msg.rumors \subseteq Rumor
      BY <2>2, <2>3 DEF Job, JobGenuine, Packet, Message, RumorsMessage, StatusMessage,
                        AckMessage
    <2> QED
      BY <1>1, <2>1, <2>2, <2>4 DEF JobGenuine
  <1>4. RumorsGenuine'
    BY <1>2, <1>3 DEF RumorsGenuine
  <1>5. WaitsForOwn'
    <2> SUFFICES ASSUME NEW k \in Node, NEW w \in waiting'[k]
                 PROVE  \E s \in 1 .. Len(log'[k][k]) : w.id = <<k, s>>
      BY DEF WaitsForOwn
    <2>1. Len(log[k][k]) \in Nat /\ Len(log'[k][k]) \in Nat
      BY DEF IInv, TypeOK
    <2>2. CASE w \in waiting[k]
      <3>1. PICK s \in 1 .. Len(log[k][k]) : w.id = <<k, s>>
        BY <2>2 DEF IInv, LogInv, WaitsForOwn
      <3>2. s \in 1 .. Len(log'[k][k])
        BY <1>1, <2>1
      <3> QED
        BY <3>1, <3>2
    <2>3. CASE k = n /\ r.origin = n /\ w.id = <<n, r.seq>>
      <3>1. r.seq \in 1 .. Len(log'[k][k])
        BY <1>1, <2>3 DEF Created
      <3> QED
        BY <2>3, <3>1
    <2> QED
      BY <2>2, <2>3
  <1> QED
    BY <1>1, <1>4, <1>5 DEF IInv, LogInv

(* updateForNewRumorFromNode keeps the types of log and status. *)
LEMMA GrowthType ==
  ASSUME IInv, NEW n \in Node, NEW r \in Rumor, updateForNewRumorFromNode(n, r)
  PROVE  /\ log' \in [Node -> [Node -> Seq(Rumor)]]
         /\ status' \in [Node -> Status]
  <1>1. r.origin \in Node
    BY DEF Rumor
  <1>2. log' \in [Node -> [Node -> Seq(Rumor)]]
    BY <1>1 DEF updateForNewRumorFromNode, IInv, TypeOK
  <1>3. status' \in [Node -> Status]
    <2>1. status \in [Node -> [Node -> Nat]]
      BY DEF IInv, TypeOK, Status
    <2>2. status' = [status EXCEPT ![n][r.origin] = @ + 1]
      BY DEF updateForNewRumorFromNode
    <2>3. status' \in [Node -> [Node -> Nat]]
      BY <1>1, <2>1, <2>2
    <2> QED
      BY <2>3 DEF Status
  <1> QED
    BY <1>2, <1>3

(* Broadcast gives its rumor the next number of its own and so preserves  *)
(* the invariant.                                                         *)
LEMMA BroadcastInv ==
  ASSUME IInv, NEW n \in Node, Broadcast(n)
  PROVE  IInv'
  <1>1. PICK m \in Payload, nbr \in NbrsExcept(n, NoNode) :
          LET r  == [origin |-> n, seq |-> status[n][n] + 1, msg |-> m]
              id == <<n, r.seq>>
          IN /\ updateForNewRumorFromNode(n, r)
             /\ net' = net \cup directlySendToNbr(n, nbr, id, RumorsMsg({r}))
             /\ waiting' = IF AckTimeout
                           THEN [waiting EXCEPT ![n] = @ \cup {[id |-> id, prev |-> nbr]}]
                           ELSE waiting
             /\ broadcasting' = [broadcasting EXCEPT ![n] = @ \cup {r}]
    BY DEF Broadcast
  <1> DEFINE r == [origin |-> n, seq |-> status[n][n] + 1, msg |-> m]
             w == [id |-> <<n, r.seq>>, prev |-> nbr]
             S == directlySendToNbr(n, nbr, <<n, r.seq>>, RumorsMsg({r}))
  <1>2. status[n][n] \in Nat /\ nbr \in Node \cup {NoNode}
    BY <1>1, NbrsExceptType DEF IInv, TypeOK, Status
  <1>3. r \in Rumor /\ r.origin = n /\ r.seq = status[n][n] + 1
    BY <1>2 DEF Rumor
  <1>4. w \in [id : PacketID, prev : Node \cup {NoNode}] /\ w.id = <<n, r.seq>>
    BY <1>2 DEF PacketID
  <1>5. S \subseteq Packet /\ \A p \in S : p.msg.type = "rumors" => p.msg.rumors = {r}
    <2>1. RumorsMsg({r}) \in Message /\ RumorsMsg({r}).rumors = {r}
      BY <1>3, MessageTypes DEF RumorsMsg
    <2>2. <<n, r.seq>> \in PacketID
      BY <1>2 DEF PacketID
    <2> HIDE DEF r
    <2> QED
      BY <1>2, <2>1, <2>2 DEF directlySendToNbr, SendTo, Packet
  <1>6. /\ updateForNewRumorFromNode(n, r)
        /\ net' = net \cup S
        /\ waiting' = IF AckTimeout THEN [waiting EXCEPT ![n] = @ \cup {w}] ELSE waiting
        /\ broadcasting' = [broadcasting EXCEPT ![n] = @ \cup {r}]
        /\ UNCHANGED <<delivered, routingVars, rx>>
    BY <1>1 DEF Broadcast
  <1> HIDE DEF r, w, S
  <1>7. waiting' \in [Node -> SUBSET [id : PacketID, prev : Node \cup {NoNode}]]
    BY <1>4, <1>6 DEF IInv, TypeOK
  <1>8. broadcasting' \in [Node -> SUBSET Rumor]
    BY <1>3, <1>6 DEF IInv, TypeOK
  <1>9. TypeOK'
    BY <1>3, <1>5, <1>6, <1>7, <1>8, GrowthType DEF IInv, TypeOK, routingVars
  <1>10. \A k \in Node : \A v \in waiting'[k] :
           v \in waiting[k] \/ (k = n /\ r.origin = n /\ v.id = <<n, r.seq>>)
    BY <1>3, <1>4, <1>6 DEF IInv, TypeOK
  <1>11. \A p \in net' : p \in net \/ (p.msg.type = "rumors" => p.msg.rumors = {r})
    BY <1>5, <1>6
  <1> QED
    BY <1>3, <1>6, <1>9, <1>10, <1>11, GrowthStep

(* An expected rumor: it is genuine and next in turn. *)
LEMMA ExecRumorInv ==
  ASSUME IInv, NEW n \in Node, ExecRumor(n)
  PROVE  IInv'
  <1> DEFINE j == rx[n]
  <1>1. j \in Job /\ j # Idle
    BY DEF ExecRumor, IInv, TypeOK
  <1>2. PICK r \in NextRumors(n) :
          IF status[n][r.origin] + 1 = r.seq
          THEN /\ Process(n, r)
               /\ updateForNewRumorFromNode(n, r)
               /\ rx' = [rx EXCEPT ![n].todo = @ \ {r}, ![n].expected = TRUE,
                                   ![n].learn = ToLearn(n, r.origin)]
          ELSE /\ rx' = [rx EXCEPT ![n].todo = @ \ {r}]
               /\ UNCHANGED logVars
    BY DEF ExecRumor, Expected
  <1>3. r \in j.todo /\ r \in Rumor /\ Created(r)
    BY <1>1 DEF NextRumors, Job, IInv, LogInv, RumorsGenuine
  <1>4. r.origin \in Node
    BY <1>3 DEF Rumor
  <1>5. UNCHANGED <<broadcasting, routingVars, waiting, net>>
    BY DEF ExecRumor
  <1>6. JobGenuine(j)
    BY <1>1 DEF JobGenuine, IInv, LogInv, RumorsGenuine
  <1>7. CASE status[n][r.origin] + 1 = r.seq
    <2> DEFINE k == [j EXCEPT !.todo = @ \ {r}, !.expected = TRUE,
                              !.learn = ToLearn(n, r.origin)]
    <2>1. /\ Process(n, r)
          /\ updateForNewRumorFromNode(n, r)
          /\ rx' = [rx EXCEPT ![n] = k]
      BY <1>2, <1>7
    <2>2. k \in Job /\ k.pkt = j.pkt /\ k.todo \subseteq j.todo
      BY <1>1, <1>4 DEF Job, ToLearn
    <2> HIDE DEF k
    <2>3. delivered' \in [Node -> [Node -> Seq(Rumor)]]
      BY <1>3, <1>4, <2>1 DEF Process, IInv, TypeOK
    <2>5. rx' \in [Node -> Job \cup {Idle}]
      BY <2>1, <2>2 DEF IInv, TypeOK
    <2>6. TypeOK'
      BY <1>3, <1>5, <2>1, <2>3, <2>5, GrowthType DEF IInv, TypeOK, routingVars
    <2>7. \A i \in Node : \/ rx'[i] = rx[i]
                          \/ /\ rx[i] # Idle
                             /\ rx'[i].pkt = rx[i].pkt
                             /\ rx'[i].todo \subseteq rx[i].todo
      BY <1>1, <2>1, <2>2 DEF IInv, TypeOK
    <2> QED
      BY <1>3, <1>5, <1>7, <2>1, <2>6, <2>7, GrowthStep
  <1>8. CASE status[n][r.origin] + 1 # r.seq
    <2> DEFINE k == [j EXCEPT !.todo = @ \ {r}]
    <2>1. rx' = [rx EXCEPT ![n] = k] /\ UNCHANGED logVars
      BY <1>2, <1>8
    <2>2. k \in Job /\ k.pkt = j.pkt /\ k.todo \subseteq j.todo
      BY <1>1 DEF Job
    <2>3. JobGenuine(k)
      BY <1>6, <2>2 DEF JobGenuine
    <2> HIDE DEF k
    <2>4. rx' \in [Node -> Job \cup {Idle}]
      BY <2>1, <2>2 DEF IInv, TypeOK
    <2>5. TypeOK'
      BY <1>5, <2>1, <2>4 DEF IInv, TypeOK, logVars, routingVars
    <2>6. \A i \in Node : rx'[i] \in {rx[i], Idle} \/ JobGenuine(rx'[i])
      BY <2>1, <2>3 DEF IInv, TypeOK
    <2>7. Sendable({})
      BY DEF Sendable
    <2> QED
      BY <1>5, <2>1, <2>5, <2>6, <2>7, QuietStep DEF logVars
  <1> QED
    BY <1>7, <1>8

(* Learning the route of a rumor touches routes, and what is left to      *)
(* execute.                                                               *)
LEMMA LearnRouteInv ==
  ASSUME IInv, NEW n \in Node, LearnRoute(n)
  PROVE  IInv'
  <1> DEFINE j == rx[n]
             k == [j EXCEPT !.learn = NoNode]
  <1>1. j \in Job /\ j # Idle /\ j.learn \in Node /\ j.pkt.relay \in Node
    BY DEF LearnRoute, IInv, TypeOK, Job, Packet
  <1>2. k \in Job /\ k.pkt = j.pkt /\ k.todo = j.todo
    BY <1>1 DEF Job
  <1>3. JobGenuine(k)
    BY <1>1, <1>2 DEF JobGenuine, IInv, LogInv, RumorsGenuine
  <1>4. /\ rx' = [rx EXCEPT ![n] = k]
        /\ UNCHANGED <<logVars, broadcasting, waiting, net>>
    BY DEF LearnRoute
  <1>5. /\ table' \in [Node -> [Node -> Node \cup {NoNode}]]
        /\ nbrs' \in [Node -> SUBSET Node]
    BY <1>1, SetEntryType DEF LearnRoute, IInv
  <1> HIDE DEF k
  <1>6. TypeOK'
    BY <1>2, <1>4, <1>5 DEF IInv, TypeOK, logVars
  <1>7. \A i \in Node : rx'[i] \in {rx[i], Idle} \/ JobGenuine(rx'[i])
    BY <1>3, <1>4 DEF IInv, TypeOK
  <1>8. Sendable({})
    BY DEF Sendable
  <1> QED
    BY <1>4, <1>6, <1>7, <1>8, QuietStep DEF logVars

-----------------------------------------------------------------------------
(* Every step of every node and of the network preserves the invariant. *)
LEMMA NextIInv == IInv /\ [Next]_vars => IInv'
  <1> SUFFICES ASSUME IInv, [Next]_vars PROVE IInv'
    OBVIOUS
  <1>1. ASSUME NEW n \in Node, NEW peer \in Node, AddPeer(n, peer) PROVE IInv'
    BY <1>1, AddPeerInv
  <1>2. ASSUME NEW n \in Node, NEW origin \in Node, NEW relay \in Node \cup {NoNode},
               SetRoutingEntry(n, origin, relay)
        PROVE  IInv'
    BY <1>2, SetRoutingEntryInv
  <1>3. ASSUME NEW n \in Node, Broadcast(n) PROVE IInv'
    BY <1>3, BroadcastInv
  <1>4. ASSUME NEW n \in Node, ProcessLocally(n) PROVE IInv'
    BY <1>4, ProcessLocallyInv
  <1>5. ASSUME NEW n \in Node, waitForAckTimeout(n) PROVE IInv'
    BY <1>5, waitForAckTimeoutInv
  <1>6. ASSUME NEW n \in Node, NEW nbr \in Node, AntiEntropyTick(n, nbr) PROVE IInv'
    BY <1>6, AntiEntropyTickInv
  <1>7. ASSUME NEW n \in Node, NEW p \in net, Receive(n, p) PROVE IInv'
    BY <1>7, ForwardInv, ExecRumorsMessageInv, ExecStatusMessageInv, ExecAckMessageInv
    DEF Receive
  <1>8. ASSUME NEW n \in Node, ExecRumor(n) PROVE IInv'
    BY <1>8, ExecRumorInv
  <1>9. ASSUME NEW n \in Node, RelayAndAck(n) PROVE IInv'
    BY <1>9, RelayAndAckInv
  <1>10. ASSUME NEW p \in net, Lose(p) PROVE IInv'
    BY <1>10, LoseInv
  <1>11. CASE UNCHANGED vars
    <2>1. TypeOK'
      BY <1>11 DEF vars, IInv, TypeOK
    <2>2. Sendable({})
      BY DEF Sendable
    <2> QED
      BY <1>11, <2>1, <2>2, QuietStep DEF vars
  <1>12. ASSUME NEW n \in Node, LearnRoute(n) PROVE IInv'
    BY <1>12, LearnRouteInv
  <1> QED
    BY <1>1, <1>2, <1>3, <1>4, <1>5, <1>6, <1>7, <1>8, <1>9, <1>10, <1>11, <1>12 DEF Next

(* The invariant is inductive. *)
LEMMA SpecIInv == Spec => []IInv
  BY InitIInv, NextIInv, PTL DEF Spec

(* The state of every node is of its type, whatever is received. *)
THEOREM TypeCorrect == Spec => []TypeOK
  BY SpecIInv, PTL DEF IInv

(* Status and log of every node agree, so that the slices taken for a peer *)
(* that lacks rumors are in range and complete.                            *)
THEOREM StatusCorrect == Spec => []StatusMatchesLog
  BY SpecIInv, PTL DEF IInv, LogInv

(* No two nodes ever hold different rumors under one number: what a node   *)
(* has of an origin is a prefix of what the origin broadcast.              *)
THEOREM Agreement == Spec => []LogsAgree
  BY SpecIInv, PTL DEF IInv, LogInv

(* No rumor is forged, altered or seen before its origin has logged it.    *)
THEOREM Genuineness == Spec => []RumorsGenuine
  BY SpecIInv, PTL DEF IInv, LogInv

(* A goroutine of waitForAck only ever resends a rumor its node created.   *)
THEOREM WaitsOnlyForOwn == Spec => []WaitsForOwn
  BY SpecIInv, PTL DEF IInv, LogInv

-----------------------------------------------------------------------------
(* Statuses in flight.                                                     *)

(* What a packet promises, its source has. *)
Honest(p) ==
  p.msg.type # "rumors" => \A o \in Node : p.msg.status[o] <= status[p.src][o]

(* A node only ever logs more: what was honest stays so. *)
LEMMA StatusGrows ==
  ASSUME IInv, [Next]_vars
  PROVE  \A n, o \in Node : /\ status[n][o] \in Nat /\ status'[n][o] \in Nat
                            /\ status[n][o] <= status'[n][o]
  <1>1. status \in [Node -> [Node -> Nat]] /\ status' \in [Node -> [Node -> Nat]]
    BY NextIInv DEF IInv, TypeOK, Status
  <1>2. \/ UNCHANGED status
        \/ \E n \in Node : \E r \in Rumor : updateForNewRumorFromNode(n, r)
    <2>1. ASSUME NEW n \in Node, Broadcast(n)
          PROVE  \E r \in Rumor : updateForNewRumorFromNode(n, r)
      <3>1. status[n][n] + 1 \in Nat \ {0}
        BY <1>1
      <3>2. \A m \in Payload : [origin |-> n, seq |-> status[n][n] + 1, msg |-> m] \in Rumor
        BY <3>1 DEF Rumor
      <3> QED
        BY <2>1, <3>2 DEF Broadcast
    <2>2. ASSUME NEW n \in Node, ExecRumor(n)
          PROVE  \/ UNCHANGED status
                 \/ \E r \in Rumor : updateForNewRumorFromNode(n, r)
      <3>1. NextRumors(n) \subseteq Rumor
        BY <2>2 DEF ExecRumor, NextRumors, IInv, TypeOK, Job
      <3> QED
        BY <2>2, <3>1 DEF ExecRumor, logVars
    <2> QED
      BY <2>1, <2>2 DEF Next, vars, logVars, AddPeer, SetRoutingEntry, ProcessLocally,
         waitForAckTimeout, AntiEntropyTick, Receive, Forward, ExecRumorsMessage,
         ExecStatusMessage, ExecAckMessage, LearnRoute, RelayAndAck, Lose
  <1>3. ASSUME NEW n \in Node, NEW r \in Rumor, updateForNewRumorFromNode(n, r),
               NEW k \in Node, NEW o \in Node
        PROVE  status'[k][o] \in {status[k][o], status[k][o] + 1}
    BY <1>1, <1>3 DEF updateForNewRumorFromNode, Rumor
  <1> SUFFICES ASSUME NEW k \in Node, NEW o \in Node
               PROVE  /\ status[k][o] \in Nat /\ status'[k][o] \in Nat
                      /\ status[k][o] <= status'[k][o]
    OBVIOUS
  <1>4. status'[k][o] \in {status[k][o], status[k][o] + 1}
    BY <1>2, <1>3
  <1>5. status[k][o] \in Nat /\ status'[k][o] \in Nat
    BY <1>1
  <1> QED
    BY <1>4, <1>5

(* Packets of directlySendToNbr, Unicast and Relay. *)
LEMMA SentHonest ==
  ASSUME IInv, NEW hop, NEW id, NEW n \in Node, NEW src, NEW dest, NEW m,
         \/ m.type = "rumors"
         \/ src = n /\ m.status = status[n]
  PROVE  \A p \in SendTo(hop, id, src, n, dest, m) : Honest(p)
  <1>1. \A o \in Node : status[n][o] \in Nat
    BY DEF IInv, TypeOK, Status
  <1> QED
    BY <1>1 DEF SendTo, Honest

LEMMA RepliesHonest ==
  ASSUME IInv, NEW n \in Node, NEW src, NEW theirs, NEW replies \in StatusReplies(n, src, theirs)
  PROVE  \A p \in replies : Honest(p)
  <1> DEFINE reply(nbr) == directlySendToNbr(n, nbr, FreshID, StatusMsg(status[n]))
             rumors == directlySendToNbr(n, src, FreshID,
                                         RumorsMsg(RumorsNeedToSend(n, theirs)))
  <1>1. \A nbr : \A p \in reply(nbr) : Honest(p)
    BY SentHonest DEF directlySendToNbr, StatusMsg
  <1>2. \A p \in rumors : Honest(p)
    BY SentHonest DEF directlySendToNbr, RumorsMsg
  <1>3. \/ replies \subseteq reply(src) \cup rumors
        \/ \E nbr : replies \subseteq reply(nbr)
    BY DEF StatusReplies
  <1> HIDE DEF reply, rumors
  <1> QED
    BY <1>1, <1>2, <1>3

(* What a step puts on the wire is honest. *)
LEMMA NewHonest ==
  ASSUME IInv, StatusHonest, Next, NEW p \in net'
  PROVE  Honest(p)
  <1>1. \A q \in net : Honest(q)
    BY DEF StatusHonest, Honest
  <1>2. \A q \in net : \A rest \in AfterReceipt(q) : rest \subseteq net
    BY DEF AfterReceipt
  <1>3. ASSUME NEW n \in Node, Broadcast(n)
        PROVE  Honest(p)
    <2>1. PICK hop, id, R : net' = net \cup directlySendToNbr(n, hop, id, RumorsMsg(R))
      BY <1>3 DEF Broadcast
    <2>2. \A q \in directlySendToNbr(n, hop, id, RumorsMsg(R)) : Honest(q)
      BY SentHonest DEF directlySendToNbr, RumorsMsg
    <2> QED
      BY <1>1, <2>1, <2>2
  <1>4. ASSUME NEW n \in Node, waitForAckTimeout(n)
        PROVE  Honest(p)
    <2>1. PICK hop, R : net' = net \cup directlySendToNbr(n, hop, FreshID, RumorsMsg(R))
      BY <1>4 DEF waitForAckTimeout
    <2>2. \A q \in directlySendToNbr(n, hop, FreshID, RumorsMsg(R)) : Honest(q)
      BY SentHonest DEF directlySendToNbr, RumorsMsg
    <2> QED
      BY <1>1, <2>1, <2>2
  <1>5. ASSUME NEW n \in Node, NEW nbr \in Node, AntiEntropyTick(n, nbr)
        PROVE  Honest(p)
    <2>1. \A q \in Unicast(n, nbr, StatusMsg(status[n])) : Honest(q)
      BY SentHonest DEF Unicast, Relay, StatusMsg
    <2> QED
      BY <1>1, <1>5, <2>1 DEF AntiEntropyTick
  <1>6. ASSUME NEW n \in Node, NEW q \in net, Forward(n, q)
        PROVE  Honest(p)
    <2>1. p \in net \/ p \in SendTo(q.dest, q.id, q.src, n, q.dest, q.msg)
      BY <1>2, <1>6 DEF Forward
    <2>2. p \in SendTo(q.dest, q.id, q.src, n, q.dest, q.msg) => p.src = q.src /\ p.msg = q.msg
      BY DEF SendTo
    <2> QED
      BY <1>1, <2>1, <2>2 DEF Honest
  <1>7. ASSUME NEW n \in Node, NEW q \in net, ExecRumorsMessage(n, q)
        PROVE  Honest(p)
    BY <1>1, <1>2, <1>7 DEF ExecRumorsMessage
  <1>8. ASSUME NEW n \in Node, NEW q \in net, ExecStatusMessage(n, q)
        PROVE  Honest(p)
    BY <1>1, <1>2, <1>8, RepliesHonest DEF ExecStatusMessage
  <1>9. ASSUME NEW n \in Node, NEW q \in net, ExecAckMessage(n, q)
        PROVE  Honest(p)
    BY <1>1, <1>2, <1>9, RepliesHonest DEF ExecAckMessage, AckReplies
  <1>10. ASSUME NEW n \in Node, RelayAndAck(n)
         PROVE  Honest(p)
    <2> DEFINE j == rx[n].pkt
               ack == directlySendToNbr(n, j.relay, FreshID, AckMsg(status[n], j.id))
    <2>1. j.msg.type = "rumors"
      BY <1>10 DEF RelayAndAck, IInv, LogInv, RumorsGenuine
    <2>2. \A nbr : \A q \in Relay(j.src, n, nbr, j.msg) : Honest(q)
      BY <2>1, SentHonest DEF Relay
    <2>3. \A q \in ack : Honest(q)
      BY SentHonest DEF directlySendToNbr, AckMsg
    <2>4. PICK nbr : net' \subseteq net \cup Relay(j.src, n, nbr, j.msg) \cup ack
      BY <1>10 DEF RelayAndAck
    <2> HIDE DEF j, ack
    <2> QED
      BY <1>1, <2>2, <2>3, <2>4
  <1>11. CASE net' \subseteq net
    BY <1>1, <1>11
  <1> QED
    BY <1>3, <1>4, <1>5, <1>6, <1>7, <1>8, <1>9, <1>10, <1>11
    DEF Next, Receive, AddPeer, SetRoutingEntry, ProcessLocally, ExecRumor, LearnRoute, Lose

(* However stale a status is when it comes, its sender can answer for it.  *)
THEOREM StatusesHonest == Spec => []StatusHonest
  <1>1. Init => StatusHonest
    BY DEF Init, StatusHonest
  <1>2. ASSUME IInv, StatusHonest, [Next]_vars
        PROVE  StatusHonest'
    <2> SUFFICES ASSUME NEW p \in net', p.msg.type # "rumors", NEW o \in Node
                 PROVE  p.msg.status[o] <= status'[p.src][o]
      BY DEF StatusHonest
    <2>1. Honest(p)
      <3>1. CASE Next
        BY <1>2, <3>1, NewHonest
      <3>2. CASE UNCHANGED vars
        BY <1>2, <3>2 DEF vars, StatusHonest, Honest
      <3> QED
        BY <1>2, <3>1, <3>2
    <2>2. p \in Packet
      BY <1>2, NextIInv DEF IInv, TypeOK
    <2>3. p.src \in Node /\ p.msg.status[o] \in Nat
      BY <2>2 DEF Packet, Message, RumorsMessage, StatusMessage, AckMessage, Status
    <2> QED
      BY <1>2, <2>1, <2>3, StatusGrows DEF Honest
  <1> QED
    BY <1>1, <1>2, SpecIInv, PTL DEF Spec

-----------------------------------------------------------------------------
(* Routes                                                                  *)

(***************************************************************************)
(* Besides what is to be proved: the peers given at the start stay         *)
(* neighbours, a neighbour has a route unless its user may take it away,   *)
(* and the route that is about to be learnt is neither to a peer given at  *)
(* the start nor to the node itself, which would have to learn a rumor of  *)
(* its own.                                                                *)
(***************************************************************************)
NeighboursRouted ==
  \A n \in Node : /\ Peers[n] \subseteq nbrs[n]
                  /\ \A d \in nbrs[n] : ~ByHand(n, d) => table[n][d] # NoNode

LearnsOfOthers ==
  \A n \in Node : rx[n] # Idle => rx[n].learn \notin Peers[n] \cup {n}

RouteInv == RoutesConsistent /\ NeighboursRouted /\ LearnsOfOthers

(* A step that leaves logs, neighbours and routes alone, and at most ends  *)
(* or begins to handle a rumors message with no route to learn.            *)
LEMMA RoutesKept ==
  ASSUME RouteInv, UNCHANGED <<log, table, nbrs>>,
         \A n \in Node : \/ rx'[n] = rx[n]
                         \/ /\ rx[n] = Idle \/ rx[n].learn = NoNode
                            /\ rx'[n] = Idle \/ rx'[n].learn = NoNode
  PROVE  RouteInv'
  <1>1. \A n \in Node : NoNode \notin Peers[n] \cup {n}
    BY NodeAssumption, ConfAssumption
  <1>2. LearnsOfOthers'
    BY <1>1 DEF RouteInv, LearnsOfOthers
  <1>3. RoutesConsistent'
    BY NodeAssumption DEF RouteInv, RoutesConsistent
  <1> QED
    BY <1>2, <1>3 DEF RouteInv, NeighboursRouted

LEMMA AddPeerRoutes ==
  ASSUME IInv, RouteInv, NEW n \in Node, NEW peer \in Node, AddPeer(n, peer)
  PROVE  RouteInv'
  <1>1. /\ table \in [Node -> [Node -> Node \cup {NoNode}]]
        /\ nbrs \in [Node -> SUBSET Node]
    BY DEF IInv, TypeOK
  <1>2. \A k, d \in Node : table'[k][d] \in {table[k][d], d} /\ nbrs[k] \subseteq nbrs'[k]
    BY <1>1 DEF AddPeer
  <1>3. \A k \in Node : \A d \in nbrs'[k] :
          d \in Node /\ (d \in nbrs[k] \/ table'[k][d] = d)
    BY <1>1 DEF AddPeer
  <1>4. NeighboursRouted'
    BY <1>2, <1>3, NodeAssumption DEF RouteInv, NeighboursRouted
  <1>5. RoutesConsistent'
    BY <1>2, NodeAssumption DEF RouteInv, RoutesConsistent, AddPeer, logVars
  <1>6. LearnsOfOthers'
    BY DEF RouteInv, LearnsOfOthers, AddPeer
  <1> QED
    BY <1>4, <1>5, <1>6 DEF RouteInv

LEMMA BroadcastRoutes ==
  ASSUME IInv, RouteInv, NEW n \in Node, Broadcast(n)
  PROVE  RouteInv'
  <1>1. \A k, d \in Node : log'[k][d] = log[k][d] \/ (k = n /\ d = n)
    BY DEF Broadcast, updateForNewRumorFromNode, IInv, TypeOK
  <1>2. UNCHANGED <<table, nbrs, rx>>
    BY DEF Broadcast, routingVars
  <1>3. ~ByHand(n, n) => table[n][n] = n /\ n # NoNode
    BY NodeAssumption DEF RouteInv, RoutesConsistent
  <1> QED
    BY <1>1, <1>2, <1>3 DEF RouteInv, RoutesConsistent, NeighboursRouted, LearnsOfOthers

(* A rumor of the node itself is never the one expected. *)
LEMMA ExecRumorRoutes ==
  ASSUME IInv, RouteInv, NEW n \in Node, ExecRumor(n)
  PROVE  RouteInv'
  <1>1. PICK r \in NextRumors(n) :
          IF Expected(n, r)
          THEN /\ Process(n, r)
               /\ updateForNewRumorFromNode(n, r)
               /\ rx' = [rx EXCEPT ![n].todo = @ \ {r}, ![n].expected = TRUE,
                                   ![n].learn = ToLearn(n, r.origin)]
          ELSE /\ rx' = [rx EXCEPT ![n].todo = @ \ {r}]
               /\ UNCHANGED logVars
    BY DEF ExecRumor
  <1>2. rx[n] \in Job /\ rx[n] # Idle /\ rx[n].learn = NoNode /\ UNCHANGED <<table, nbrs>>
    BY DEF ExecRumor, IInv, TypeOK, routingVars
  <1>3. r \in Rumor /\ Created(r)
    BY <1>2 DEF NextRumors, Job, IInv, LogInv, RumorsGenuine
  <1>4. r.origin \in Node
    BY <1>3 DEF Rumor
  <1>5. CASE ~Expected(n, r)
    <2>1. \A k \in Node : rx'[k] = rx[k] \/ (rx[k].learn = NoNode /\ rx'[k].learn = NoNode)
      BY <1>1, <1>2, <1>5 DEF IInv, TypeOK, Job
    <2> QED
      BY <1>1, <1>2, <1>5, <2>1, RoutesKept DEF logVars
  <1>6. CASE Expected(n, r)
    <2> DEFINE o == r.origin
               job == [rx[n] EXCEPT !.todo = @ \ {r}, !.expected = TRUE,
                                    !.learn = ToLearn(n, o)]
    <2>1. o # n
      <3>1. r.seq \in 1 .. status[o][o] /\ status[o][o] \in Nat
        BY <1>3, <1>4 DEF Created, IInv, TypeOK, Status, LogInv, StatusMatchesLog
      <3>2. status[n][o] + 1 = r.seq
        BY <1>6 DEF Expected
      <3> QED
        BY <3>1, <3>2
    <2>2. rx' = [rx EXCEPT ![n] = job] /\ job.learn = ToLearn(n, o) /\ job \in Job
      <3>1. ToLearn(n, o) \in Node \cup {NoNode}
        BY <1>4 DEF ToLearn
      <3> QED
        BY <1>1, <1>2, <1>6, <3>1 DEF Job
    <2>3. \A k, d \in Node : log'[k][d] = log[k][d] \/ (k = n /\ d = o)
      <3>1. log' = [log EXCEPT ![n][o] = Append(@, r)] /\ o \in Node
        BY <1>1, <1>4, <1>6 DEF updateForNewRumorFromNode
      <3>2. log \in [Node -> [Node -> Seq(Rumor)]]
        BY DEF IInv, TypeOK
      <3> HIDE DEF job, o
      <3> QED
        BY <3>1, <3>2
    <2>4. rx'[n] = job /\ \A k \in Node : k # n => rx'[k] = rx[k]
      BY <2>2 DEF IInv, TypeOK
    <2>5. rx'[n] # Idle
      BY <2>2, <2>4, IdleAssumption
    <2> HIDE DEF job, o
    <2>6. o \in nbrs[n] \/ (job.learn = o /\ o \notin Peers[n])
      BY <2>2 DEF ToLearn, RouteInv, NeighboursRouted
    <2>7. NeighboursRouted'
      BY <1>2 DEF RouteInv, NeighboursRouted
    <2>8. LearnsOfOthers'
      <3>1. rx'[n].learn \notin Peers[n] \cup {n}
        BY <2>1, <2>2, <2>4, <1>4, NodeAssumption, ConfAssumption
        DEF ToLearn, RouteInv, NeighboursRouted, o
      <3> QED
        BY <2>4, <3>1 DEF RouteInv, LearnsOfOthers
    <2>9. RoutesConsistent'
      <3> SUFFICES ASSUME NEW k \in Node, NEW d \in Node, ~ByHand(k, d)
                   PROVE  /\ d \in Peers[k] \cup {k} => table'[k][d] = d
                          /\ log'[k][d] # <<>> =>
                               table'[k][d] # NoNode \/ (rx'[k] # Idle /\ rx'[k].learn = d)
        BY DEF RoutesConsistent
      <3>1. d \in Peers[k] \cup {k} => table'[k][d] = d
        BY <1>2 DEF RouteInv, RoutesConsistent
      <3>2. CASE k = n /\ d = o
        BY <1>2, <2>4, <2>5, <2>6, <3>1, <3>2 DEF RouteInv, NeighboursRouted
      <3>3. CASE ~(k = n /\ d = o)
        <4>1. log[k][d] # <<>> => table[k][d] # NoNode \/ (rx[k] # Idle /\ rx[k].learn = d)
          BY DEF RouteInv, RoutesConsistent
        <4>2. CASE k = n
          BY <1>2, <2>3, <3>1, <3>3, <4>1, <4>2, NodeAssumption
        <4>3. CASE k # n
          BY <1>2, <2>3, <2>4, <3>1, <3>3, <4>1, <4>3
        <4> QED
          BY <4>2, <4>3
      <3> QED
        BY <3>2, <3>3
    <2> QED
      BY <2>7, <2>8, <2>9 DEF RouteInv
  <1> QED
    BY <1>5, <1>6

(* What is learnt is a way to the origin, and never takes one away. *)
LEMMA LearnRouteRoutes ==
  ASSUME IInv, RouteInv, NEW n \in Node, LearnRoute(n)
  PROVE  RouteInv'
  <1> DEFINE d == rx[n].learn
             relay == rx[n].pkt.relay
  <1>1. rx[n] \in Job /\ rx[n] # Idle
    BY DEF LearnRoute, IInv, TypeOK
  <1>2. d \in Node /\ relay \in Node
    BY <1>1 DEF LearnRoute, Job, Packet
  <1>3. d \notin Peers[n] \cup {n}
    BY <1>1 DEF RouteInv, LearnsOfOthers
  <1>4. table' = [table EXCEPT ![n][d] = relay] /\ log' = log
    BY DEF LearnRoute, SetEntry, logVars
  <1>5. nbrs' \in {nbrs, [nbrs EXCEPT ![n] = @ \cup {d}]}
    BY DEF LearnRoute, SetEntry
  <1>6. rx' = [rx EXCEPT ![n] = [rx[n] EXCEPT !.learn = NoNode]]
    BY DEF LearnRoute
  <1> HIDE DEF d, relay
  <1>7. /\ table \in [Node -> [Node -> Node \cup {NoNode}]]
        /\ nbrs \in [Node -> SUBSET Node]
        /\ rx \in [Node -> Job \cup {Idle}]
    BY DEF IInv, TypeOK
  <1>8. \A k, e \in Node : table'[k][e] = IF k = n /\ e = d THEN relay ELSE table[k][e]
    BY <1>4, <1>7
  <1>9. \A k \in Node : /\ nbrs[k] \subseteq nbrs'[k] /\ nbrs'[k] \subseteq Node
                        /\ \A e \in nbrs'[k] : e \in nbrs[k] \/ (k = n /\ e = d)
    BY <1>2, <1>5, <1>7
  <1>10. NeighboursRouted'
    BY <1>2, <1>8, <1>9, NodeAssumption DEF RouteInv, NeighboursRouted
  <1>11. /\ rx'[n].learn = NoNode
         /\ \A k \in Node : k # n => rx'[k] = rx[k]
    BY <1>1, <1>6, <1>7 DEF Job
  <1>12. LearnsOfOthers'
    BY <1>11, NodeAssumption, ConfAssumption DEF RouteInv, LearnsOfOthers
  <1>13. RoutesConsistent'
    <2> SUFFICES ASSUME NEW k \in Node, NEW e \in Node, ~ByHand(k, e)
                 PROVE  /\ e \in Peers[k] \cup {k} => table'[k][e] = e
                        /\ log'[k][e] # <<>> =>
                               table'[k][e] # NoNode \/ (rx'[k] # Idle /\ rx'[k].learn = e)
      BY DEF RoutesConsistent
    <2>1. /\ e \in Peers[k] \cup {k} => table[k][e] = e
          /\ log[k][e] # <<>> => table[k][e] # NoNode \/ (rx[k] # Idle /\ rx[k].learn = e)
      BY DEF RouteInv, RoutesConsistent
    <2>2. CASE k = n /\ e = d
      BY <1>2, <1>3, <1>8, <2>2, NodeAssumption
    <2>3. CASE ~(k = n /\ e = d)
      <3>1. table'[k][e] = table[k][e]
        BY <1>8, <2>3
      <3>2. CASE k = n
        BY <1>4, <2>1, <2>3, <3>1, <3>2 DEF d
      <3>3. CASE k # n
        BY <1>4, <1>11, <2>1, <3>1, <3>3
      <3> QED
        BY <3>2, <3>3
    <2> QED
      BY <2>2, <2>3
  <1> QED
    BY <1>10, <1>12, <1>13 DEF RouteInv

(* A user changes nothing but a route that may be set by hand. *)
LEMMA SetRoutingEntryRoutes ==
  ASSUME IInv, RouteInv, NEW n \in Node, NEW origin \in Node,
         NEW relay \in Node \cup {NoNode}, SetRoutingEntry(n, origin, relay)
  PROVE  RouteInv'
  <1>1. ByHand(n, origin)
    BY DEF SetRoutingEntry, ByHand
  <1>2. /\ table \in [Node -> [Node -> Node \cup {NoNode}]]
        /\ nbrs \in [Node -> SUBSET Node]
    BY DEF IInv, TypeOK
  <1>3. UNCHANGED <<log, rx>>
    BY DEF SetRoutingEntry, logVars
  <1>4. \A k, d \in Node : table'[k][d] = table[k][d] \/ (k = n /\ d = origin)
    BY <1>2 DEF SetRoutingEntry, SetEntry
  <1>5. \A k \in Node : /\ nbrs[k] \subseteq nbrs'[k] /\ nbrs'[k] \subseteq Node
                        /\ \A d \in nbrs'[k] : d \in nbrs[k] \/ (k = n /\ d = origin)
    BY <1>2 DEF SetRoutingEntry, SetEntry
  <1>6. NeighboursRouted'
    <2>1. \A k \in Node : Peers[k] \subseteq nbrs'[k]
      BY <1>5 DEF RouteInv, NeighboursRouted
    <2>2. ASSUME NEW k \in Node, NEW d \in nbrs'[k], ~ByHand(k, d)
          PROVE  table'[k][d] # NoNode
      <3>1. d \in nbrs[k] /\ d \in Node /\ table'[k][d] = table[k][d]
        BY <1>1, <1>4, <1>5, <2>2
      <3> QED
        BY <2>2, <3>1 DEF RouteInv, NeighboursRouted
    <2> QED
      BY <2>1, <2>2 DEF NeighboursRouted, ByHand
  <1>7. RoutesConsistent'
    <2> SUFFICES ASSUME NEW k \in Node, NEW d \in Node, ~ByHand(k, d)
                 PROVE  /\ d \in Peers[k] \cup {k} => table'[k][d] = d
                        /\ log'[k][d] # <<>> =>
                             table'[k][d] # NoNode \/ (rx'[k] # Idle /\ rx'[k].learn = d)
      BY DEF RoutesConsistent, ByHand
    <2>1. table'[k][d] = table[k][d]
      BY <1>1, <1>4
    <2> QED
      BY <1>3, <2>1 DEF RouteInv, RoutesConsistent
  <1>8. LearnsOfOthers'
    BY <1>3 DEF RouteInv, LearnsOfOthers
  <1> QED
    BY <1>6, <1>7, <1>8 DEF RouteInv

LEMMA StepRoutes ==
  ASSUME IInv, RouteInv, [Next]_vars
  PROVE  RouteInv'
  <1>1. ASSUME NEW n \in Node, NEW p \in net, ExecRumorsMessage(n, p)
        PROVE  RouteInv'
    <2>1. UNCHANGED <<log, table, nbrs>> /\ rx[n] = Idle
      BY <1>1 DEF ExecRumorsMessage, Received, logVars, routingVars
    <2>2. \A k \in Node : rx'[k] = rx[k] \/ (k = n /\ rx'[k].learn = NoNode)
      BY <1>1 DEF ExecRumorsMessage, IInv, TypeOK
    <2> QED
      BY <2>1, <2>2, RoutesKept
  <1>2. ASSUME NEW n \in Node, RelayAndAck(n)
        PROVE  RouteInv'
    <2>1. UNCHANGED <<log, table, nbrs>> /\ rx[n].learn = NoNode
      BY <1>2 DEF RelayAndAck, logVars, routingVars
    <2>2. \A k \in Node : rx'[k] = rx[k] \/ (k = n /\ rx'[k] = Idle)
      BY <1>2 DEF RelayAndAck, IInv, TypeOK
    <2> QED
      BY <2>1, <2>2, RoutesKept
  <1>3. ASSUME UNCHANGED <<log, table, nbrs, rx>>
        PROVE  RouteInv'
    BY <1>3, RoutesKept
  <1>4. ASSUME NEW n \in Node, NEW p \in net,
               Forward(n, p) \/ ExecStatusMessage(n, p) \/ ExecAckMessage(n, p)
        PROVE  RouteInv'
    BY <1>3, <1>4 DEF Forward, ExecStatusMessage, ExecAckMessage, logVars, routingVars
  <1>5. ASSUME NEW n \in Node, \/ ProcessLocally(n) \/ waitForAckTimeout(n)
                               \/ \E nbr \in Node : AntiEntropyTick(n, nbr)
        PROVE  RouteInv'
    BY <1>3, <1>5 DEF ProcessLocally, waitForAckTimeout, AntiEntropyTick, logVars, routingVars
  <1>6. ASSUME NEW p \in net, Lose(p)
        PROVE  RouteInv'
    BY <1>3, <1>6 DEF Lose, logVars, routingVars
  <1> QED
    BY <1>1, <1>2, <1>3, <1>4, <1>5, <1>6, AddPeerRoutes, SetRoutingEntryRoutes,
       BroadcastRoutes, ExecRumorRoutes, LearnRouteRoutes DEF Next, Receive, vars

(* Rumors of a peer that come round by other nodes never bend the route to *)
(* it, and the origin of every rumor can be answered, but for the routes a *)
(* user sets by hand.                                                      *)
THEOREM RoutesStay == Spec => []RoutesConsistent
  <1>1. Init => RouteInv
    BY NodeAssumption, ConfAssumption
    DEF Init, RouteInv, RoutesConsistent, NeighboursRouted, LearnsOfOthers
  <1>2. IInv /\ RouteInv /\ [Next]_vars => RouteInv'
    BY StepRoutes
  <1>3. RouteInv => RoutesConsistent
    BY DEF RouteInv
  <1> QED
    BY <1>1, <1>2, <1>3, SpecIInv, PTL DEF Spec

=============================================================================
