--------------------------- MODULE GossipRefinement ---------------------------
(***************************************************************************)
(* Gossip implements ReliableBroadcast, for any set of nodes, any topology *)
(* and any losses, duplications and retransmissions.                       *)
(***************************************************************************)
EXTENDS GossipProofs, GossipOverChannels

DeliveryInv == ProcessedInOrder /\ OwnProcessedOnce

(* Appending adds one element. *)
LEMMA ElementsAppend ==
  ASSUME NEW S, NEW s \in Seq(S), NEW x \in S
  PROVE  Elements(Append(s, x)) = Elements(s) \cup {x}
  <1>1. /\ Len(Append(s, x)) = Len(s) + 1
        /\ Append(s, x)[Len(s) + 1] = x
        /\ \A i \in 1 .. Len(s) : Append(s, x)[i] = s[i]
        /\ Len(s) \in Nat
    OBVIOUS
  <1>2. \A i \in 1 .. Len(s) + 1 : i \in 1 .. Len(s) \/ i = Len(s) + 1
    BY <1>1
  <1>3. 1 .. Len(s) \subseteq 1 .. Len(s) + 1 /\ Len(s) + 1 \in 1 .. Len(s) + 1
    BY <1>1
  <1> QED
    BY <1>1, <1>2, <1>3 DEF Elements

(* What Broadcast appends is new to its node. *)
LEMMA BroadcastStep ==
  ASSUME IInv, NEW n \in Node, Broadcast(n)
  PROVE  \E r \in Rumor :
           /\ r.origin = n /\ r.seq = Len(log[n][n]) + 1
           /\ r = [origin |-> n, seq |-> Len(log[n][n]) + 1, msg |-> r.msg]
           /\ r.msg \in Payload
           /\ log' = [log EXCEPT ![n][n] = Append(@, r)]
           /\ broadcasting' = [broadcasting EXCEPT ![n] = @ \cup {r}]
           /\ delivered' = delivered
           /\ r \notin Elements(log[n][n])
  <1>1. PICK m \in Payload, nbr \in NbrsExcept(n, NoNode) :
          LET r  == [origin |-> n, seq |-> status[n][n] + 1, msg |-> m]
          IN /\ updateForNewRumorFromNode(n, r)
             /\ broadcasting' = [broadcasting EXCEPT ![n] = @ \cup {r}]
    BY DEF Broadcast
  <1> DEFINE r == [origin |-> n, seq |-> status[n][n] + 1, msg |-> m]
  <1>2. status[n][n] = Len(log[n][n]) /\ Len(log[n][n]) \in Nat
    BY DEF IInv, TypeOK, LogInv, StatusMatchesLog
  <1>3. r \in Rumor
    BY <1>2 DEF Rumor
  <1>4. \A i \in 1 .. Len(log[n][n]) : log[n][n][i].seq = i
    BY DEF IInv, LogInv, StatusMatchesLog
  <1>5. r \notin Elements(log[n][n])
    <2> SUFFICES ASSUME NEW i \in 1 .. Len(log[n][n]) PROVE log[n][n][i] # r
      BY DEF Elements
    <2>1. log[n][n][i].seq # r.seq
      BY <1>2, <1>4
    <2> QED
      BY <2>1
  <1>6. delivered' = delivered
    BY DEF Broadcast
  <1> QED
    BY <1>1, <1>2, <1>3, <1>5, <1>6 DEF updateForNewRumorFromNode

(* What ExecRumor appends is another node's next rumor, or nothing. *)
LEMMA ExecRumorStep ==
  ASSUME IInv, NEW n \in Node, ExecRumor(n)
  PROVE  \/ UNCHANGED <<log, delivered, broadcasting>>
         \/ \E r \in Rumor :
              /\ r.origin # n
              /\ r.seq = Len(log[n][r.origin]) + 1
              /\ r.seq <= Len(log[r.origin][r.origin])
              /\ r = log[r.origin][r.origin][r.seq]
              /\ log' = [log EXCEPT ![n][r.origin] = Append(@, r)]
              /\ delivered' = [delivered EXCEPT ![n][r.origin] = Append(@, r)]
              /\ broadcasting' = broadcasting
  <1>1. rx[n] \in Job /\ rx[n] # Idle
    BY DEF ExecRumor, IInv, TypeOK
  <1>2. PICK r \in NextRumors(n) :
          IF status[n][r.origin] + 1 = r.seq
          THEN Process(n, r) /\ updateForNewRumorFromNode(n, r)
          ELSE UNCHANGED logVars
    BY DEF ExecRumor, Expected
  <1>3. r \in Rumor /\ Created(r) /\ r.origin \in Node
    BY <1>1 DEF NextRumors, Job, IInv, LogInv, RumorsGenuine, Rumor
  <1>4. broadcasting' = broadcasting
    BY DEF ExecRumor
  <1>5. CASE status[n][r.origin] + 1 = r.seq
    <2>1. status[n][r.origin] = Len(log[n][r.origin]) /\ Len(log[n][r.origin]) \in Nat
      BY <1>3 DEF IInv, TypeOK, LogInv, StatusMatchesLog
    <2>2. r.seq \in 1 .. Len(log[r.origin][r.origin]) /\ r = log[r.origin][r.origin][r.seq]
      BY <1>3 DEF Created
    <2>3. r.origin # n
      BY <1>5, <2>1, <2>2
    <2>4. /\ log' = [log EXCEPT ![n][r.origin] = Append(@, r)]
          /\ delivered' = [delivered EXCEPT ![n][r.origin] = Append(@, r)]
      BY <1>2, <1>5 DEF updateForNewRumorFromNode, Process
    <2>5. r.seq <= Len(log[r.origin][r.origin]) /\ r.seq = Len(log[n][r.origin]) + 1
      BY <1>5, <2>1, <2>2
    <2> QED
      BY <1>3, <1>4, <2>2, <2>3, <2>4, <2>5
  <1>6. CASE status[n][r.origin] + 1 # r.seq
    BY <1>2, <1>4, <1>6 DEF logVars
  <1> QED
    BY <1>5, <1>6

(* Every other step leaves logs and deliveries alone. *)
LEMMA OtherSteps ==
  ASSUME [Next]_vars,
         \A n \in Node : ~Broadcast(n) /\ ~ProcessLocally(n) /\ ~ExecRumor(n)
  PROVE  UNCHANGED <<log, delivered, broadcasting>>
  BY DEF Next, vars, AddPeer, SetRoutingEntry, waitForAckTimeout, AntiEntropyTick, Receive,
         Forward, ExecRumorsMessage, ExecStatusMessage, ExecAckMessage, LearnRoute,
         RelayAndAck, Lose, logVars

-----------------------------------------------------------------------------
(* DeliveryInv is preserved *)

(* Broadcast delivers nothing yet, and its rumor is new to the node. *)
LEMMA BroadcastDelivery ==
  ASSUME IInv, DeliveryInv, NEW n \in Node, Broadcast(n)
  PROVE  DeliveryInv'
  <1>1. PICK r \in Rumor :
          /\ r.origin = n
          /\ log' = [log EXCEPT ![n][n] = Append(@, r)]
          /\ broadcasting' = [broadcasting EXCEPT ![n] = @ \cup {r}]
          /\ delivered' = delivered
          /\ r \notin Elements(log[n][n])
    BY BroadcastStep
  <1>2. /\ log \in [Node -> [Node -> Seq(Rumor)]]
        /\ broadcasting \in [Node -> SUBSET Rumor]
    BY DEF IInv, TypeOK
  <1>3. ProcessedInOrder'
    BY <1>1, <1>2 DEF ProcessedInOrder, DeliveryInv
  <1>4. OwnProcessedOnce'
    <2> SUFFICES ASSUME NEW o \in Node
                 PROVE  /\ \A i, j \in 1 .. Len(delivered'[o][o]) :
                             delivered'[o][o][i] = delivered'[o][o][j] => i = j
                        /\ broadcasting'[o] \cap Elements(delivered'[o][o]) = {}
                        /\ broadcasting'[o] \cup Elements(delivered'[o][o])
                             = Elements(log'[o][o])
      BY DEF OwnProcessedOnce, Elements
    <2>1. /\ \A i, j \in 1 .. Len(delivered[o][o]) :
               delivered[o][o][i] = delivered[o][o][j] => i = j
          /\ broadcasting[o] \cap Elements(delivered[o][o]) = {}
          /\ broadcasting[o] \cup Elements(delivered[o][o]) = Elements(log[o][o])
      BY DEF DeliveryInv, OwnProcessedOnce
    <2>2. CASE o = n
      <3>1. log'[o][o] = Append(log[o][o], r) /\ broadcasting'[o] = broadcasting[o] \cup {r}
        BY <1>1, <1>2, <2>2
      <3>2. Elements(log'[o][o]) = Elements(log[o][o]) \cup {r}
        BY <1>2, <3>1, ElementsAppend
      <3>3. r \notin Elements(delivered[o][o])
        BY <1>1, <2>1, <2>2
      <3> QED
        BY <1>1, <2>1, <3>1, <3>2, <3>3
    <2>3. CASE o # n
      <3>1. log'[o][o] = log[o][o] /\ broadcasting'[o] = broadcasting[o]
        BY <1>1, <1>2, <2>3
      <3> QED
        BY <1>1, <2>1, <3>1
    <2> QED
      BY <2>2, <2>3
  <1> QED
    BY <1>3, <1>4 DEF DeliveryInv

(* What a node processes of its own was not processed before: it leaves    *)
(* broadcasting as it enters delivered.                                    *)
LEMMA ProcessLocallyStep ==
  ASSUME IInv, DeliveryInv, NEW n \in Node, ProcessLocally(n)
  PROVE  \E r \in Rumor :
           /\ r.origin = n
           /\ r \in broadcasting[n]
           /\ r \in Elements(log[n][n])
           /\ r \notin Elements(delivered[n][n])
           /\ delivered' = [delivered EXCEPT ![n][n] = Append(@, r)]
           /\ broadcasting' = [broadcasting EXCEPT ![n] = @ \ {r}]
           /\ log' = log
  <1>1. PICK r \in broadcasting[n] :
          /\ Process(n, r)
          /\ broadcasting' = [broadcasting EXCEPT ![n] = @ \ {r}]
    BY DEF ProcessLocally
  <1>2. r \in Rumor
    BY DEF IInv, TypeOK
  <1>3. r \in Elements(log[n][n]) /\ r \notin Elements(delivered[n][n])
    BY DEF DeliveryInv, OwnProcessedOnce
  <1>4. PICK i \in 1 .. Len(log[n][n]) : r = log[n][n][i]
    BY <1>3 DEF Elements
  <1>5. r.origin = n
    BY <1>4 DEF IInv, LogInv, StatusMatchesLog
  <1>6. log' = log
    BY DEF ProcessLocally
  <1> QED
    BY <1>1, <1>2, <1>3, <1>5, <1>6 DEF Process

(* Processing one's own message delivers it for the first time. *)
LEMMA ProcessLocallyDelivery ==
  ASSUME IInv, DeliveryInv, NEW n \in Node, ProcessLocally(n)
  PROVE  DeliveryInv'
  <1>1. PICK r \in Rumor :
          /\ r \in broadcasting[n]
          /\ r \in Elements(log[n][n])
          /\ r \notin Elements(delivered[n][n])
          /\ delivered' = [delivered EXCEPT ![n][n] = Append(@, r)]
          /\ broadcasting' = [broadcasting EXCEPT ![n] = @ \ {r}]
          /\ log' = log
    BY ProcessLocallyStep
  <1>2. /\ delivered \in [Node -> [Node -> Seq(Rumor)]]
        /\ broadcasting \in [Node -> SUBSET Rumor]
    BY DEF IInv, TypeOK
  <1>3. ProcessedInOrder'
    BY <1>1, <1>2 DEF ProcessedInOrder, DeliveryInv
  <1>4. OwnProcessedOnce'
    <2> SUFFICES ASSUME NEW o \in Node
                 PROVE  /\ \A i, j \in 1 .. Len(delivered'[o][o]) :
                             delivered'[o][o][i] = delivered'[o][o][j] => i = j
                        /\ broadcasting'[o] \cap Elements(delivered'[o][o]) = {}
                        /\ broadcasting'[o] \cup Elements(delivered'[o][o])
                             = Elements(log'[o][o])
      BY DEF OwnProcessedOnce, Elements
    <2>1. /\ \A i, j \in 1 .. Len(delivered[o][o]) :
               delivered[o][o][i] = delivered[o][o][j] => i = j
          /\ broadcasting[o] \cap Elements(delivered[o][o]) = {}
          /\ broadcasting[o] \cup Elements(delivered[o][o]) = Elements(log[o][o])
      BY DEF DeliveryInv, OwnProcessedOnce
    <2>2. CASE o = n
      <3> DEFINE D == delivered[o][o]
      <3>1. delivered'[o][o] = Append(D, r) /\ broadcasting'[o] = broadcasting[o] \ {r}
        BY <1>1, <1>2, <2>2
      <3>2. D \in Seq(Rumor) /\ Len(D) \in Nat
        BY <1>2
      <3>3. Elements(Append(D, r)) = Elements(D) \cup {r}
        BY <3>2, ElementsAppend
      <3>4. \A i \in 1 .. Len(D) : D[i] # r
        BY <1>1, <2>2 DEF Elements
      <3>5. /\ Len(Append(D, r)) = Len(D) + 1
            /\ Append(D, r)[Len(D) + 1] = r
            /\ \A i \in 1 .. Len(D) : Append(D, r)[i] = D[i]
        BY <3>2
      <3>6. \A i \in 1 .. Len(D) + 1 : i \in 1 .. Len(D) \/ i = Len(D) + 1
        BY <3>2
      <3> HIDE DEF D
      <3>7. \A i, j \in 1 .. Len(D) : D[i] = D[j] => i = j
        BY <2>1 DEF D
      <3>8. \A i, j \in 1 .. Len(D) + 1 : Append(D, r)[i] = Append(D, r)[j] => i = j
        BY <3>4, <3>5, <3>6, <3>7
      <3>9. /\ broadcasting[o] \cap Elements(D) = {}
            /\ broadcasting[o] \cup Elements(D) = Elements(log[o][o])
            /\ r \in broadcasting[o]
        BY <1>1, <2>1, <2>2 DEF D
      <3>10. /\ (broadcasting[o] \ {r}) \cap (Elements(D) \cup {r}) = {}
             /\ (broadcasting[o] \ {r}) \cup (Elements(D) \cup {r}) = Elements(log[o][o])
        BY <3>9
      <3>11. log'[o][o] = log[o][o]
        BY <1>1
      <3>12. \A i, j \in 1 .. Len(delivered'[o][o]) :
               delivered'[o][o][i] = delivered'[o][o][j] => i = j
        BY <3>1, <3>5, <3>8
      <3>13. Elements(delivered'[o][o]) = Elements(D) \cup {r}
        BY <3>1, <3>3
      <3> QED
        BY <3>1, <3>10, <3>11, <3>12, <3>13
    <2>3. CASE o # n
      <3>1. delivered'[o][o] = delivered[o][o] /\ broadcasting'[o] = broadcasting[o]
        BY <1>1, <1>2, <2>3
      <3> QED
        BY <1>1, <2>1, <3>1
    <2> QED
      BY <2>2, <2>3
  <1> QED
    BY <1>3, <1>4 DEF DeliveryInv

(* DeliveryInv speaks of logs, deliveries and broadcasts under way only. *)
LEMMA StutterDelivery ==
  ASSUME DeliveryInv, UNCHANGED <<log, delivered, broadcasting>>
  PROVE  DeliveryInv'
  BY DEF DeliveryInv, ProcessedInOrder, OwnProcessedOnce, Elements

(* ExecRumor delivers a rumor exactly when it appends it to the log. *)
LEMMA ExecRumorDelivery ==
  ASSUME IInv, DeliveryInv, NEW n \in Node, ExecRumor(n)
  PROVE  DeliveryInv'
  <1>1. CASE UNCHANGED <<log, delivered, broadcasting>>
    BY <1>1, StutterDelivery
  <1>2. ASSUME NEW r \in Rumor,
               r.origin # n,
               log' = [log EXCEPT ![n][r.origin] = Append(@, r)],
               delivered' = [delivered EXCEPT ![n][r.origin] = Append(@, r)],
               broadcasting' = broadcasting
        PROVE  DeliveryInv'
    <2>1. /\ log \in [Node -> [Node -> Seq(Rumor)]]
          /\ delivered \in [Node -> [Node -> Seq(Rumor)]]
          /\ r.origin \in Node
      BY DEF IInv, TypeOK, Rumor
    <2>2. ProcessedInOrder'
      BY <1>2, <2>1 DEF ProcessedInOrder, DeliveryInv
    <2>3. \A o \in Node : delivered'[o][o] = delivered[o][o] /\ log'[o][o] = log[o][o]
      BY <1>2, <2>1
    <2>4. OwnProcessedOnce'
      <3> SUFFICES ASSUME NEW o \in Node
                   PROVE  /\ \A i, j \in 1 .. Len(delivered'[o][o]) :
                               delivered'[o][o][i] = delivered'[o][o][j] => i = j
                          /\ broadcasting'[o] \cap Elements(delivered'[o][o]) = {}
                          /\ broadcasting'[o] \cup Elements(delivered'[o][o])
                               = Elements(log'[o][o])
        BY DEF OwnProcessedOnce, Elements
      <3>1. /\ delivered'[o][o] = delivered[o][o]
            /\ log'[o][o] = log[o][o]
            /\ broadcasting'[o] = broadcasting[o]
        BY <1>2, <2>3
      <3> QED
        BY <3>1 DEF DeliveryInv, OwnProcessedOnce
    <2> QED
      BY <2>2, <2>4 DEF DeliveryInv
  <1> QED
    BY <1>1, <1>2, ExecRumorStep

(* Both invariants together are inductive. *)
LEMMA SpecDelivery == Spec => [](IInv /\ DeliveryInv)
  <1>1. Init => DeliveryInv
    BY DEF Init, DeliveryInv, ProcessedInOrder, OwnProcessedOnce, Elements
  <1>2. ASSUME IInv, DeliveryInv, [Next]_vars PROVE DeliveryInv'
    <2>1. CASE \E n \in Node : Broadcast(n)
      BY <1>2, <2>1, BroadcastDelivery
    <2>2. CASE \E n \in Node : ProcessLocally(n)
      BY <1>2, <2>2, ProcessLocallyDelivery
    <2>3. CASE \E n \in Node : ExecRumor(n)
      BY <1>2, <2>3, ExecRumorDelivery
    <2>4. CASE \A n \in Node : ~Broadcast(n) /\ ~ProcessLocally(n) /\ ~ExecRumor(n)
      <3>1. UNCHANGED <<log, delivered, broadcasting>>
        BY <1>2, <2>4, OtherSteps
      <3> QED
        BY <1>2, <3>1, StutterDelivery
    <2> QED
      BY <2>1, <2>2, <2>3, <2>4
  <1> QED
    BY <1>1, <1>2, SpecIInv, PTL DEF Spec

(* What a node stores of another origin it has processed exactly once and  *)
(* in the origin's order, whatever ExecRumorsMessage is given.             *)
THEOREM InOrderOnce == Spec => []ProcessedInOrder
  BY SpecDelivery, PTL DEF DeliveryInv

(* A node processes each message it broadcasts at most once, and only at   *)
(* the end of the Broadcast it comes from.                                 *)
THEOREM OwnOnce == Spec => []OwnProcessedOnce
  BY SpecDelivery, PTL DEF DeliveryInv

-----------------------------------------------------------------------------
(* Refinement: what each node has sent is its own log *)

Sent == [o \in Node |-> log[o][o]]

(* Broadcast is the abstract broadcast. *)
LEMMA BroadcastRefines ==
  ASSUME IInv, NEW n \in Node, Broadcast(n)
  PROVE  RB!Broadcast(n)
  <1>1. PICK r \in Rumor :
          /\ r = [origin |-> n, seq |-> Len(log[n][n]) + 1, msg |-> r.msg]
          /\ r.msg \in Payload
          /\ log' = [log EXCEPT ![n][n] = Append(@, r)]
          /\ delivered' = delivered
    BY BroadcastStep
  <1>2. log \in [Node -> [Node -> Seq(Rumor)]]
    BY DEF IInv, TypeOK
  <1>3. Sent' = [Sent EXCEPT ![n] = Append(@, r)]
    BY <1>1, <1>2 DEF Sent
  <1>4. Sent[n] = log[n][n]
    BY DEF Sent
  <1>5. Sent' = [Sent EXCEPT ![n] =
                   Append(@, [origin |-> n, seq |-> Len(@) + 1, msg |-> r.msg])]
    BY <1>1, <1>3, <1>4
  <1> QED
    BY <1>1, <1>5 DEF RB!Broadcast, Sent

(* The end of Broadcast is the abstract delivery to oneself. *)
LEMMA ProcessLocallyRefines ==
  ASSUME IInv, DeliveryInv, NEW n \in Node, ProcessLocally(n)
  PROVE  RB!DeliverOwn(n)
  <1>1. PICK r \in Rumor :
          /\ r \in Elements(log[n][n])
          /\ r \notin Elements(delivered[n][n])
          /\ delivered' = [delivered EXCEPT ![n][n] = Append(@, r)]
          /\ log' = log
    BY ProcessLocallyStep
  <1>2. PICK i \in 1 .. Len(log[n][n]) : r = log[n][n][i]
    BY <1>1 DEF Elements
  <1>3. Sent' = Sent /\ Sent[n] = log[n][n]
    BY <1>1 DEF Sent
  <1>4. \A j \in 1 .. Len(delivered[n][n]) : delivered[n][n][j] # Sent[n][i]
    BY <1>1, <1>2, <1>3 DEF Elements
  <1>5. delivered' = [delivered EXCEPT ![n][n] = Append(@, Sent[n][i])]
    BY <1>1, <1>2, <1>3
  <1>6. i \in 1 .. Len(Sent[n])
    BY <1>3
  <1> QED
    BY <1>3, <1>4, <1>5, <1>6 DEF RB!DeliverOwn, Sent

(* ExecRumor is the abstract delivery of an origin's next rumor, or a     *)
(* stutter.                                                               *)
LEMMA ExecRumorRefines ==
  ASSUME IInv, DeliveryInv, NEW n \in Node, ExecRumor(n)
  PROVE  (\E o \in Node : RB!Deliver(n, o)) \/ UNCHANGED <<log, delivered>>
  <1>1. ASSUME NEW r \in Rumor,
               r.origin # n,
               r.seq = Len(log[n][r.origin]) + 1,
               r.seq <= Len(log[r.origin][r.origin]),
               r = log[r.origin][r.origin][r.seq],
               log' = [log EXCEPT ![n][r.origin] = Append(@, r)],
               delivered' = [delivered EXCEPT ![n][r.origin] = Append(@, r)]
        PROVE  RB!Deliver(n, r.origin)
    <2> DEFINE o == r.origin
    <2>1. /\ log \in [Node -> [Node -> Seq(Rumor)]]
          /\ delivered \in [Node -> [Node -> Seq(Rumor)]]
          /\ o \in Node
      BY DEF IInv, TypeOK, Rumor
    <2>2. Sent' = Sent
      <3> SUFFICES ASSUME NEW k \in Node PROVE log'[k][k] = log[k][k]
        BY DEF Sent
      <3> QED
        BY <1>1, <2>1
    <2>3. delivered[n][o] = log[n][o]
      BY <1>1, <2>1 DEF DeliveryInv, ProcessedInOrder
    <2>4. Sent[o] = log[o][o]
      BY <2>1 DEF Sent
    <2>5. Len(delivered[n][o]) < Len(Sent[o])
      BY <1>1, <2>1, <2>3, <2>4
    <2>6. r = Sent[o][Len(delivered[n][o]) + 1]
      BY <1>1, <2>3, <2>4
    <2>7. delivered' = [delivered EXCEPT ![n][o] =
                          Append(@, Sent[o][Len(@) + 1])]
      BY <1>1, <2>1, <2>6
    <2> QED
      BY <1>1, <2>2, <2>5, <2>7 DEF RB!Deliver, Sent
  <1> QED
    BY <1>1, ExecRumorStep DEF Rumor

(* Every step of the protocol is an abstract step or a stutter. *)
LEMMA StepRefines ==
  ASSUME IInv, DeliveryInv, [Next]_vars
  PROVE  [RB!Next]_(RB!vars)
  <1>1. CASE UNCHANGED <<log, delivered>>
    BY <1>1 DEF RB!vars
  <1>2. ASSUME NEW n \in Node, Broadcast(n) PROVE RB!Next
    BY <1>2, BroadcastRefines DEF RB!Next
  <1>3. ASSUME NEW n \in Node, ProcessLocally(n) PROVE RB!Next
    BY <1>3, ProcessLocallyRefines DEF RB!Next
  <1>4. ASSUME NEW n \in Node, ExecRumor(n)
        PROVE  RB!Next \/ UNCHANGED <<log, delivered>>
    BY <1>4, ExecRumorRefines DEF RB!Next
  <1> QED
    BY <1>1, <1>2, <1>3, <1>4, OtherSteps

(* The gossip layer gives applications a reliable broadcast: an origin's   *)
(* messages, and no others, are processed by every node in the origin's    *)
(* order, each at most once.                                               *)
THEOREM Implementation == Spec => ImplementsBroadcast
  <1>1. Init => RB!Init
    BY DEF Init, RB!Init
  <1>2. IInv /\ DeliveryInv /\ [Next]_vars => [RB!Next]_(RB!vars)
    BY StepRefines
  <1> QED
    BY <1>1, <1>2, SpecDelivery, PTL DEF Spec, ImplementsBroadcast, RB!Spec
-----------------------------------------------------------------------------
(* What a step does to the logs                                            *)

(* A log that changed has one more rumor at its end. *)
LogGrows(n, o) ==
  /\ Len(log'[n][o]) = Len(log[n][o]) + 1
  /\ \A i \in 1 .. Len(log[n][o]) : log'[n][o][i] = log[n][o][i]

LEMMA AppendGrows ==
  ASSUME IInv, NEW m \in Node, NEW origin \in Node, NEW r \in Rumor,
         log' = [log EXCEPT ![m][origin] = Append(@, r)],
         NEW n \in Node, NEW o \in Node
  PROVE  \/ log'[n][o] = log[n][o]
         \/ n = m /\ o = origin /\ LogGrows(n, o)
  <1>1. log \in [Node -> [Node -> Seq(Rumor)]]
    BY DEF IInv, TypeOK
  <1>2. CASE n = m /\ o = origin
    <2>1. log'[n][o] = Append(log[n][o], r) /\ log[n][o] \in Seq(Rumor)
      BY <1>1, <1>2
    <2> QED
      BY <1>2, <2>1 DEF LogGrows
  <1>3. CASE ~(n = m /\ o = origin)
    BY <1>1, <1>3
  <1> QED
    BY <1>2, <1>3

(* A log is appended to, one rumor at a time, and nobody's own log but by  *)
(* its own Broadcast: an own rumor that comes back is never taken for new. *)
THEOREM LogsAppendOnly == Spec => LogsOnlyGrow
  <1> DEFINE Grown(n, o) == \/ log'[n][o] = log[n][o]
                            \/ LogGrows(n, o) /\ (n = o => broadcasting' # broadcasting)
  <1>1. ASSUME IInv, DeliveryInv, [Next]_vars, NEW n \in Node, NEW o \in Node
        PROVE  Grown(n, o)
    <2>1. ASSUME NEW m \in Node, Broadcast(m) PROVE Grown(n, o)
      <3>1. PICK r \in Rumor :
              /\ log' = [log EXCEPT ![m][m] = Append(@, r)]
              /\ broadcasting' = [broadcasting EXCEPT ![m] = @ \cup {r}]
              /\ r \notin Elements(log[m][m])
        BY <1>1, <2>1, BroadcastStep
      <3>2. broadcasting \in [Node -> SUBSET Rumor] /\ r \notin broadcasting[m]
        BY <1>1, <3>1 DEF IInv, TypeOK, DeliveryInv, OwnProcessedOnce
      <3>3. broadcasting'[m] # broadcasting[m]
        BY <3>1, <3>2
      <3> QED
        BY <1>1, <3>1, <3>3, AppendGrows
    <2>2. ASSUME NEW m \in Node, ExecRumor(m) PROVE Grown(n, o)
      <3>1. CASE UNCHANGED log
        BY <3>1
      <3>2. CASE \E r \in Rumor : /\ r.origin # m
                                  /\ log' = [log EXCEPT ![m][r.origin] = Append(@, r)]
        <4>1. PICK r \in Rumor : /\ r.origin # m
                                 /\ log' = [log EXCEPT ![m][r.origin] = Append(@, r)]
          BY <3>2
        <4>2. r.origin \in Node
          BY DEF Rumor
        <4>3. \/ log'[n][o] = log[n][o]
              \/ n = m /\ o = r.origin /\ LogGrows(n, o)
          BY <1>1, <4>1, <4>2, AppendGrows
        <4> QED
          BY <4>1, <4>3
      <3>3. \/ UNCHANGED log
            \/ \E r \in Rumor : /\ r.origin # m
                               /\ log' = [log EXCEPT ![m][r.origin] = Append(@, r)]
        BY <1>1, <2>2, ExecRumorStep
      <3> QED
        BY <3>1, <3>2, <3>3
    <2>3. ASSUME NEW m \in Node, ProcessLocally(m) PROVE Grown(n, o)
      BY <2>3 DEF ProcessLocally
    <2> QED
      BY <1>1, <2>1, <2>2, <2>3, OtherSteps
  <1>2. ASSUME IInv, DeliveryInv, [Next]_vars
        PROVE  [\A n, o \in Node :
                  \/ log'[n][o] = log[n][o]
                  \/ /\ Len(log'[n][o]) = Len(log[n][o]) + 1
                     /\ \A i \in 1 .. Len(log[n][o]) : log'[n][o][i] = log[n][o][i]
                     /\ n = o => broadcasting' # broadcasting]_vars
    BY <1>1, <1>2 DEF LogGrows
  <1> QED
    BY <1>2, SpecDelivery, PTL DEF Spec, LogsOnlyGrow

-----------------------------------------------------------------------------
(* Over channels.                                                          *)

(* A socket of transport/channel only takes away behaviours: it loses      *)
(* nothing and keeps the order.                                            *)
LEMMA ChannelStep == [ChannelNext]_allVars => [Next]_vars
  <1> SUFFICES ASSUME ChannelNext PROVE Next
    BY DEF allVars, vars
  <1>1. PICK n \in Node :
          \/ ReceiveHead(n)
          \/ \E nbr \in Node : AntiEntropyTick(n, nbr)
          \/ Broadcast(n) \/ ProcessLocally(n) \/ waitForAckTimeout(n)
          \/ ExecRumor(n) \/ LearnRoute(n) \/ RelayAndAck(n)
    BY DEF ChannelNext, Tick, Create, OwnRumor, Retransmit, HandleRumor, FinishRumors
  <1>2. ASSUME ReceiveHead(n) PROVE \E p \in net : Receive(n, p)
    <2>1. Receive(n, Head(inbox[n]))
      BY <1>2 DEF ReceiveHead
    <2>2. Head(inbox[n]) \in net
      BY <2>1 DEF Receive, Forward, ExecRumorsMessage, ExecStatusMessage, ExecAckMessage, Received
    <2> QED
      BY <2>1, <2>2
  <1> QED
    BY <1>1, <1>2 DEF Next

(***************************************************************************)
(* The nodes over transport/channel are the nodes over any network: what   *)
(* is proved of gossip holds there, the broadcast it promises first.       *)
(***************************************************************************)
THEOREM OverChannels == FairSpec => ImplementsBroadcast
  <1>1. ChannelInit => Init
    BY DEF ChannelInit
  <1>2. FairSpec => Spec
    BY <1>1, ChannelStep, PTL DEF FairSpec, Spec
  <1> QED
    BY <1>2, Implementation, PTL
=============================================================================
