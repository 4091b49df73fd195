-------------------------------- MODULE Gossip --------------------------------
(***************************************************************************)
(* The gossip layer of peer/impl: Broadcast, the handlers of rumors, acks  *)
(* and statuses, anti-entropy, the routing table and the neighbours, over  *)
(* a network that may lose, duplicate and reorder packets.                 *)
(*                                                                         *)
(* A node has one receive loop, which handles one packet at a time; user   *)
(* calls and the tickers run beside it. The rumors handler is one step per *)
(* rumor, as its work may interleave with the other goroutines; acks and   *)
(* statuses are handled in one step.                                       *)
(***************************************************************************)
EXTENDS Integers, Sequences, FiniteSets

CONSTANTS
  Node,           \* the addresses of the peers
  NoNode,         \* the empty address ""
  Payload,        \* the messages applications broadcast
  Idle,           \* the receive loop is not handling a rumors message
  Peers,          \* Peers[n]: given to AddPeer before n is started
  AddPeerCalls,   \* the <<n, peer>> AddPeer may later be called with
  RoutingCalls,   \* the <<n, origin, relay>> users set as routes
  AckTimeout,     \* FALSE: configured as 0, nobody waits for acks
  AntiEntropy,    \* FALSE: configured as 0, no status is sent unasked
  MongerChoices,  \* outcomes of rand.Float64() < ContinueMongering
  Lossy,          \* the network loses packets
  Duplicating,    \* the network duplicates packets
  MaxSeq,         \* bound: MaxSeq[n] messages are broadcast by n
  MaxInFlight     \* bound: nothing unasked is sent above this many packets

ASSUME NodeAssumption == NoNode \notin Node
ASSUME ConfAssumption ==
  /\ Peers \in [Node -> SUBSET Node]
  /\ AddPeerCalls \subseteq Node \X Node
  /\ RoutingCalls \subseteq Node \X Node \X (Node \cup {NoNode})
  /\ MongerChoices \subseteq BOOLEAN
  /\ MaxSeq \in [Node -> Nat]
  /\ MaxInFlight \in Nat

VARIABLES
  log,           \* log[n][o]: rumorsReceived[o] of n
  status,        \* status[n][o]: StatusMsg[o] of n, 0 when absent
  delivered,     \* delivered[n][o]: rumors of o n processed, in order
  broadcasting,  \* own rumors whose Broadcast has not processed them yet
  table,         \* table[n][d]: the next hop, NoNode when absent
  nbrs,          \* nbrs[n]: the neighbour set
  waiting,       \* waiting[n]: the waitForAck goroutines of n
  rx,            \* rx[n]: the rumors message the receive loop is handling
  net            \* the packets in flight

vars == <<log, status, delivered, broadcasting, table, nbrs, waiting, rx, net>>

logVars     == <<log, status, delivered>>
routingVars == <<table, nbrs>>

-----------------------------------------------------------------------------
(* Messages and packets *)

Rumor  == [origin : Node, seq : Nat \ {0}, msg : Payload]
Status == [Node -> Nat]

(* Only the id of a rumor's first transmission is ever waited for: it is   *)
(* named after the rumor. Every other id is fresh, and nobody's.           *)
FreshID  == <<>>
PacketID == {FreshID} \cup (Node \X (Nat \ {0}))

RumorsMessage == [type : {"rumors"}, rumors : SUBSET Rumor]
StatusMessage == [type : {"status"}, status : Status]
AckMessage    == [type : {"ack"}, status : Status, acked : PacketID]
Message       == RumorsMessage \cup StatusMessage \cup AckMessage

(* at is the address given to Socket.Send, the rest is the header. *)
Packet == [id : PacketID, src : Node, relay : Node, dest : Node, at : Node,
           msg : Message]

RumorsMsg(R)   == [type |-> "rumors", rumors |-> R]
StatusMsg(s)   == [type |-> "status", status |-> s]
AckMsg(s, id)  == [type |-> "ack", status |-> s, acked |-> id]

(* Mutant of SendTo: an empty address goes on the wire as one. *)
SendToAny(hop, id, src, n, dest, m) ==
  {[id |-> id, src |-> src, relay |-> n, dest |-> dest, at |-> hop, msg |-> m]}

(* What Socket.Send puts on the wire: nothing when there is no address. *)
SendTo(hop, id, src, n, dest, m) ==
  IF hop = NoNode THEN {}
  ELSE {[id |-> id, src |-> src, relay |-> n, dest |-> dest, at |-> hop, msg |-> m]}

directlySendToNbr(n, nbr, id, m) == SendTo(nbr, id, n, n, nbr, m)
NextHop(n, dest) == IF dest = NoNode THEN NoNode ELSE table[n][dest]
Relay(src, n, dest, m) == SendTo(NextHop(n, dest), FreshID, src, n, dest, m)
Unicast(n, dest, m)    == Relay(n, n, dest, m)

(* The network after p was received: it may hold another copy. *)
AfterReceipt(p) == {net \ {p}} \cup (IF Duplicating THEN {net} ELSE {})

Calm == Cardinality(net) < MaxInFlight

-----------------------------------------------------------------------------
(* Status and neighbours *)

(* The neighbours one of which is chosen at random; NoNode if none is left. *)
NbrsExcept(n, except) ==
  IF nbrs[n] \ {except} = {} THEN {NoNode} ELSE nbrs[n] \ {except}

(* Mutant of IHaveNew: an origin the other never heard of is left out. *)
IHaveMore(n, theirs) == \E o \in Node : theirs[o] > 0 /\ status[n][o] > theirs[o]

IHaveNew(n, theirs)    == \E o \in Node : status[n][o] > theirs[o]
OtherHasNew(n, theirs) == \E o \in Node : status[n][o] < theirs[o]

(* The slices rumorsReceived[o][theirs[o] : mine[o]], put together. *)
RumorsNeedToSend(n, theirs) ==
  UNION {{log[n][o][i] : i \in theirs[o] + 1 .. status[n][o]} : o \in Node}

(* Mutant of updateForNewRumorFromNode: the slice starts anew each time. *)
updateWithNewSlice(n, r) ==
  /\ status' = [status EXCEPT ![n][r.origin] = @ + 1]
  /\ log' = [log EXCEPT ![n][r.origin] = <<r>>]

updateForNewRumorFromNode(n, r) ==
  /\ status' = [status EXCEPT ![n][r.origin] = @ + 1]
  /\ log' = [log EXCEPT ![n][r.origin] = Append(@, r)]

Process(n, r) == delivered' = [delivered EXCEPT ![n][r.origin] = Append(@, r)]

(* The empty relay deletes the entry, and leaves the neighbours alone. *)
SetEntry(n, origin, relay) ==
  /\ table' = [table EXCEPT ![n][origin] = relay]
  /\ nbrs' = IF relay = origin /\ origin # n
             THEN [nbrs EXCEPT ![n] = @ \cup {origin}]
             ELSE nbrs

-----------------------------------------------------------------------------
(* A new peer to which AddPeer(Peers) was applied before Start *)

Init ==
  /\ log = [n \in Node |-> [o \in Node |-> <<>>]]
  /\ status = [n \in Node |-> [o \in Node |-> 0]]
  /\ delivered = [n \in Node |-> [o \in Node |-> <<>>]]
  /\ broadcasting = [n \in Node |-> {}]
  /\ table = [n \in Node |-> [d \in Node |->
                IF d \in Peers[n] \cup {n} THEN d ELSE NoNode]]
  /\ nbrs = Peers
  /\ waiting = [n \in Node |-> {}]
  /\ rx = [n \in Node |-> Idle]
  /\ net = {}

-----------------------------------------------------------------------------
(* The users and the tickers *)

AddPeer(n, peer) ==
  /\ <<n, peer>> \in AddPeerCalls
  /\ table' = [table EXCEPT ![n][peer] = peer]
  /\ nbrs' = [nbrs EXCEPT ![n] = @ \cup {peer}]
  /\ UNCHANGED <<logVars, broadcasting, waiting, rx, net>>

SetRoutingEntry(n, origin, relay) ==
  /\ <<n, origin, relay>> \in RoutingCalls
  /\ SetEntry(n, origin, relay)
  /\ UNCHANGED <<logVars, broadcasting, waiting, rx, net>>

(* Mutant of Broadcast: the rumor is sent and left for its own node to     *)
(* log when it comes back.                                                 *)
BroadcastUnlogged(n) ==
  /\ status[n][n] < MaxSeq[n]
  /\ Calm
  /\ \E m \in Payload, nbr \in NbrsExcept(n, NoNode) :
       LET r == [origin |-> n, seq |-> status[n][n] + 1, msg |-> m]
       IN net' = net \cup directlySendToNbr(n, nbr, <<n, r.seq>>, RumorsMsg({r}))
  /\ UNCHANGED <<logVars, broadcasting, routingVars, waiting, rx>>

(* Broadcast up to the goroutine it starts. The rumor is logged before it  *)
(* is sent; with no neighbour it is sent nowhere, and waited for all the   *)
(* same.                                                                   *)
Broadcast(n) ==
  /\ status[n][n] < MaxSeq[n]
  /\ Calm
  /\ \E m \in Payload, nbr \in NbrsExcept(n, NoNode) :
       LET r  == [origin |-> n, seq |-> status[n][n] + 1, msg |-> m]
           id == <<n, r.seq>>
       IN /\ updateForNewRumorFromNode(n, r)
          /\ net' = net \cup directlySendToNbr(n, nbr, id, RumorsMsg({r}))
          /\ waiting' = IF AckTimeout
                        THEN [waiting EXCEPT ![n] = @ \cup {[id |-> id, prev |-> nbr]}]
                        ELSE waiting
          /\ broadcasting' = [broadcasting EXCEPT ![n] = @ \cup {r}]
  /\ UNCHANGED <<delivered, routingVars, rx>>

(* The end of Broadcast: the message is processed locally. *)
ProcessLocally(n) ==
  /\ \E r \in broadcasting[n] :
       /\ Process(n, r)
       /\ broadcasting' = [broadcasting EXCEPT ![n] = @ \ {r}]
  /\ UNCHANGED <<log, status, routingVars, waiting, rx, net>>

(* A waitForAck goroutine times out and sends its rumor again, in a packet *)
(* of another id; it goes on waiting for the first id, and goes on         *)
(* avoiding the neighbour of the first transmission.                       *)
waitForAckTimeout(n) ==
  /\ Calm
  /\ \E w \in waiting[n] : \E nbr \in NbrsExcept(n, w.prev) :
       net' = net \cup directlySendToNbr(n, nbr, FreshID,
                                         RumorsMsg({log[n][n][w.id[2]]}))
  /\ UNCHANGED <<logVars, broadcasting, routingVars, waiting, rx>>

AntiEntropyTick(n, nbr) ==
  /\ AntiEntropy
  /\ Calm
  /\ nbr \in NbrsExcept(n, NoNode)
  /\ net' = net \cup Unicast(n, nbr, StatusMsg(status[n]))
  /\ UNCHANGED <<logVars, broadcasting, routingVars, waiting, rx>>

-----------------------------------------------------------------------------
(* The receive loop: handlePacket *)

Received(n, p) == p \in net /\ p.at = n /\ rx[n] = Idle

(* Mutant of Forward: the forwarder makes itself the source. *)
ForwardAsSource(n, p) ==
  /\ Received(n, p)
  /\ p.dest # n
  /\ \E rest \in AfterReceipt(p) :
       net' = rest \cup SendTo(p.dest, p.id, n, n, p.dest, p.msg)
  /\ UNCHANGED <<logVars, broadcasting, routingVars, waiting, rx>>

(* A packet for somebody else goes straight to its destination. *)
Forward(n, p) ==
  /\ Received(n, p)
  /\ p.dest # n
  /\ \E rest \in AfterReceipt(p) :
       net' = rest \cup SendTo(p.dest, p.id, p.src, n, p.dest, p.msg)
  /\ UNCHANGED <<logVars, broadcasting, routingVars, waiting, rx>>

ExecRumorsMessage(n, p) ==
  /\ Received(n, p)
  /\ p.dest = n
  /\ p.msg.type = "rumors"
  /\ net' \in AfterReceipt(p)
  /\ rx' = [rx EXCEPT ![n] = [pkt |-> p, todo |-> p.msg.rumors, expected |-> FALSE,
                            learn |-> NoNode]]
  /\ UNCHANGED <<logVars, broadcasting, routingVars, waiting>>

(* The rumors of one origin are in order in the message; those of several  *)
(* are in the order of Go's map iteration, which is any.                   *)
NextRumors(n) ==
  {r \in rx[n].todo : \A q \in rx[n].todo : q.origin = r.origin => r.seq <= q.seq}

(* Mutants of Expected: gaps are let through, or everything is. *)
ExpectedLater(n, r) == status[n][r.origin] + 1 <= r.seq
ExpectedAny(n, r)   == TRUE

Expected(n, r) == status[n][r.origin] + 1 = r.seq

(* Mutant of ToLearn: the route of a neighbour changes, too. *)
ToLearnAny(n, origin) == origin

(* Whether the way a rumor came becomes the way to its origin: only if the *)
(* origin is no neighbour now.                                             *)
ToLearn(n, origin) == IF origin \in nbrs[n] THEN NoNode ELSE origin

(* Mutant of ExecRumor: what is not expected is processed as well. *)
ExecRumorTwice(n) ==
  /\ rx[n] # Idle
  /\ rx[n].learn = NoNode
  /\ \E r \in NextRumors(n) :
       /\ Process(n, r)
       /\ rx' = [rx EXCEPT ![n].todo = @ \ {r}, ![n].expected = TRUE]
       /\ IF Expected(n, r)
          THEN updateForNewRumorFromNode(n, r)
          ELSE UNCHANGED <<log, status>>
  /\ UNCHANGED <<broadcasting, routingVars, waiting, net>>

(* ExecRumor up to its look at the neighbours. *)
ExecRumor(n) ==
  /\ rx[n] # Idle
  /\ rx[n].learn = NoNode
  /\ \E r \in NextRumors(n) :
       IF Expected(n, r)
       THEN /\ Process(n, r)
            /\ updateForNewRumorFromNode(n, r)
            /\ rx' = [rx EXCEPT ![n].todo = @ \ {r}, ![n].expected = TRUE,
                                ![n].learn = ToLearn(n, r.origin)]
       ELSE /\ rx' = [rx EXCEPT ![n].todo = @ \ {r}]
            /\ UNCHANGED logVars
  /\ UNCHANGED <<broadcasting, routingVars, waiting, net>>

(* The end of ExecRumor: its SetRoutingEntry. A user may have called       *)
(* AddPeer since it looked at the neighbours.                              *)
LearnRoute(n) ==
  /\ rx[n] # Idle
  /\ rx[n].learn # NoNode
  /\ SetEntry(n, rx[n].learn, rx[n].pkt.relay)
  /\ rx' = [rx EXCEPT ![n].learn = NoNode]
  /\ UNCHANGED <<logVars, broadcasting, waiting, net>>

(* If a rumor was expected the message is relayed as it came; then it is   *)
(* acked to whoever sent the packet, unless it is one of this node's own.  *)
RelayAndAck(n) ==
  /\ rx[n] # Idle
  /\ rx[n].todo = {}
  /\ rx[n].learn = NoNode
  /\ LET p   == rx[n].pkt
         ack == IF p.src = n THEN {}
                ELSE directlySendToNbr(n, p.relay, FreshID, AckMsg(status[n], p.id))
     IN \E nbr \in IF rx[n].expected THEN NbrsExcept(n, p.src) ELSE {NoNode} :
          net' = net \cup Relay(p.src, n, nbr, p.msg) \cup ack
  /\ rx' = [rx EXCEPT ![n] = Idle]
  /\ UNCHANGED <<logVars, broadcasting, routingVars, waiting>>

(* What ExecStatusMessage sends: each element is one possible outcome. *)
StatusReplies(n, src, theirs) ==
  LET reply(nbr) == directlySendToNbr(n, nbr, FreshID, StatusMsg(status[n]))
      rumors     == directlySendToNbr(n, src, FreshID,
                                      RumorsMsg(RumorsNeedToSend(n, theirs)))
  IN IF IHaveNew(n, theirs) \/ OtherHasNew(n, theirs)
     THEN {(IF OtherHasNew(n, theirs) THEN reply(src) ELSE {})
           \cup (IF IHaveNew(n, theirs) THEN rumors ELSE {})}
     ELSE (IF TRUE \in MongerChoices
           THEN {reply(nbr) : nbr \in NbrsExcept(n, src)} ELSE {})
          \cup (IF FALSE \in MongerChoices THEN {{}} ELSE {})

ExecStatusMessage(n, p) ==
  /\ Received(n, p)
  /\ p.dest = n
  /\ p.msg.type = "status"
  /\ \E rest \in AfterReceipt(p), replies \in StatusReplies(n, p.src, p.msg.status) :
       net' = rest \cup replies
  /\ UNCHANGED <<logVars, broadcasting, routingVars, waiting, rx>>

(* An ack ends the wait for its id, unless it comes before the goroutine   *)
(* has registered its channel or while it is replacing it: then nobody     *)
(* reads it. Its status is processed, unless the channel is already closed *)
(* and sending on it panics (module AckWait has these steps).              *)
AckReplies(n, p) ==
  StatusReplies(n, p.src, p.msg.status)
  \cup (IF AckTimeout /\ p.msg.acked # FreshID THEN {{}} ELSE {})

ExecAckMessage(n, p) ==
  /\ Received(n, p)
  /\ p.dest = n
  /\ p.msg.type = "ack"
  /\ waiting' \in {waiting, [waiting EXCEPT ![n] = {w \in @ : w.id # p.msg.acked}]}
  /\ \E rest \in AfterReceipt(p), replies \in AckReplies(n, p) :
       net' = rest \cup replies
  /\ UNCHANGED <<logVars, broadcasting, routingVars, rx>>

Lose(p) ==
  /\ Lossy
  /\ p \in net
  /\ net' = net \ {p}
  /\ UNCHANGED <<logVars, broadcasting, routingVars, waiting, rx>>

-----------------------------------------------------------------------------
Receive(n, p) ==
  \/ Forward(n, p)
  \/ ExecRumorsMessage(n, p)
  \/ ExecStatusMessage(n, p)
  \/ ExecAckMessage(n, p)

Next ==
  \/ \E n \in Node :
       \/ \E peer \in Node : AddPeer(n, peer)
       \/ \E origin \in Node, relay \in Node \cup {NoNode} :
            SetRoutingEntry(n, origin, relay)
       \/ Broadcast(n)
       \/ ProcessLocally(n)
       \/ waitForAckTimeout(n)
       \/ \E nbr \in Node : AntiEntropyTick(n, nbr)
       \/ \E p \in net : Receive(n, p)
       \/ ExecRumor(n)
       \/ LearnRoute(n)
       \/ RelayAndAck(n)
  \/ \E p \in net : Lose(p)

Spec == Init /\ [][Next]_vars

-----------------------------------------------------------------------------
(* Properties *)

Job == [pkt : Packet, todo : SUBSET Rumor, expected : BOOLEAN,
        learn : Node \cup {NoNode}]

ASSUME IdleAssumption == Idle \notin Job

TypeOK ==
  /\ log \in [Node -> [Node -> Seq(Rumor)]]
  /\ status \in [Node -> Status]
  /\ delivered \in [Node -> [Node -> Seq(Rumor)]]
  /\ broadcasting \in [Node -> SUBSET Rumor]
  /\ table \in [Node -> [Node -> Node \cup {NoNode}]]
  /\ nbrs \in [Node -> SUBSET Node]
  /\ waiting \in [Node -> SUBSET [id : PacketID, prev : Node \cup {NoNode}]]
  /\ rx \in [Node -> Job \cup {Idle}]
  /\ net \subseteq Packet

(* The status a node advertises is the length of its log of each origin,   *)
(* and the rumors of a log are numbered without gap or repetition: the     *)
(* slices taken in compareWithOthersStatus are in range and hold what the  *)
(* other node lacks.                                                       *)
StatusMatchesLog ==
  \A n, o \in Node :
    /\ status[n][o] = Len(log[n][o])
    /\ \A i \in 1 .. Len(log[n][o]) :
         log[n][o][i].origin = o /\ log[n][o][i].seq = i

(* r is the rumor its origin created under that sequence number. *)
Created(r) ==
  /\ r.seq \in 1 .. Len(log[r.origin][r.origin])
  /\ r = log[r.origin][r.origin][r.seq]

(* Two nodes never hold different rumors under the same number: every log  *)
(* of an origin is a prefix of the origin's own, whatever is lost,         *)
(* duplicated or reordered, relayed or sent again.                         *)
LogsAgree ==
  \A n, o \in Node : /\ Len(log[n][o]) <= Len(log[o][o])
                     /\ \A i \in 1 .. Len(log[n][o]) : log[n][o][i] = log[o][o][i]

(* No rumors message, in flight or half handled, holds a rumor its origin  *)
(* has not logged yet: a node never learns its own rumors from others.     *)
RumorsGenuine ==
  /\ \A p \in net : p.msg.type = "rumors" => \A r \in p.msg.rumors : Created(r)
  /\ \A n \in Node : rx[n] # Idle =>
       /\ rx[n].pkt.msg.type = "rumors"
       /\ \A r \in rx[n].todo \cup rx[n].pkt.msg.rumors : Created(r)

(* A status in flight, stale or duplicated as it may be, never promises    *)
(* what its sender does not have: whoever asks the sender for the missing  *)
(* rumors can be answered.                                                 *)
StatusHonest ==
  \A p \in net : p.msg.type # "rumors" =>
    \A o \in Node : p.msg.status[o] <= status[p.src][o]

(* What a node stores of another origin it has processed once, in order:   *)
(* neither a retransmission nor another node's copy is processed again.    *)
ProcessedInOrder ==
  \A n, o \in Node : n # o => delivered[n][o] = log[n][o]

(* The elements of a sequence. *)
Elements(s) == {s[i] : i \in 1 .. Len(s)}

(* Its own messages a node processes once, each as its Broadcast ends,     *)
(* whatever comes back to it of them.                                      *)
OwnProcessedOnce ==
  \A o \in Node :
    /\ \A i, j \in 1 .. Len(delivered[o][o]) :
         delivered[o][o][i] = delivered[o][o][j] => i = j
    /\ broadcasting[o] \cap Elements(delivered[o][o]) = {}
    /\ broadcasting[o] \cup Elements(delivered[o][o]) = Elements(log[o][o])

(* Routes that a user may set. *)
ByHand(n, d) == \E relay \in Node \cup {NoNode} : <<n, d, relay>> \in RoutingCalls

(* A node routes directly to itself and to the peers it was started with,  *)
(* whatever rumors of theirs come round by other ways, and knows a way to  *)
(* every origin it has a rumor of; but for those to which its user sets a  *)
(* route by hand.                                                          *)
RoutesConsistent ==
  \A n, d \in Node : ~ByHand(n, d) =>
    /\ d \in Peers[n] \cup {n} => table[n][d] = d
    /\ log[n][d] # <<>> => \/ table[n][d] # NoNode
                           \/ rx[n] # Idle /\ rx[n].learn = d

(* A waitForAck goroutine waits for one of its node's own rumors.          *)
WaitsForOwn ==
  \A n \in Node : \A w \in waiting[n] :
    \E s \in 1 .. Len(log[n][n]) : w.id = <<n, s>>

(* A step appends at most one rumor to a log and never rewrites one; only  *)
(* the origin's Broadcast makes an origin's own log longer.                *)
LogsOnlyGrow ==
  [][\A n, o \in Node :
       \/ log'[n][o] = log[n][o]
       \/ /\ Len(log'[n][o]) = Len(log[n][o]) + 1
          /\ \A i \in 1 .. Len(log[n][o]) : log'[n][o][i] = log[n][o][i]
          /\ n = o => broadcasting' # broadcasting]_vars

(* The gossip layer implements reliable broadcast. *)
RB == INSTANCE ReliableBroadcast WITH sent <- [o \in Node |-> log[o][o]]

(* Every step is a step of reliable broadcast, or none. *)
ImplementsBroadcast == RB!Spec

(* peer/impl/mod.go:215 says of AddPeer that a peer is one this node can  *)
(* directly relay to: no route by another node stays or comes in its way.  *)
PeersDirect ==
  \A n \in Node : \A d \in nbrs[n] : table[n][d] = d
=============================================================================
