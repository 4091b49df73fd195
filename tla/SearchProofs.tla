------------------------------ MODULE SearchProofs ------------------------------
(***************************************************************************)
(* Theorems about Search, for any topology, any distribution of files and  *)
(* any budgets.                                                            *)
(***************************************************************************)
EXTENDS Search, FiniteSetTheorems, TLAPS

(***************************************************************************)
(* The inductive invariant. The catalog is right if answers tell only what *)
(* their source holds, and a name that SearchFirst collected is one of a   *)
(* file that the source of some answer has in full.                        *)
(***************************************************************************)
AnswersHonest ==
  \A m \in net : m.type = "answer" => \A f \in m.files : Meta[f] \in Holds[m.source]

NamesFull ==
  \A s \in First : \A f \in searches[s].names : \E n \in Node : Full(f, n)

(* A round that is under way is one of those that were asked for. *)
RoundsLeft ==
  \A s \in First : searches[s].stage = "sleeping" => searches[s].round < Retry

IInv == TypeOK /\ AnswersHonest /\ CatalogHonest /\ NamesFull /\ FirstIsFull /\ RoundsLeft

-----------------------------------------------------------------------------
(* Budgets.                                                                *)

LEMMA Sizes ==
  /\ Origin \in Node
  /\ \A n \in Node : Nbrs[n] \subseteq Node /\ Cardinality(Nbrs[n]) \in Nat
  /\ MaxShares \in Nat
  <1>1. \A n \in Node : Cardinality(Nbrs[n]) \in Nat
    BY NodeAssumption, FS_CardinalityType
  <1> QED
    BY <1>1, NodeAssumption DEF MaxShares

(* A request that is sent has a budget. *)
LEMMA SharesPositive ==
  ASSUME NEW budget \in Nat, NEW nbrs \in Nat, NEW i \in Shares(budget, nbrs)
  PROVE  /\ i \in 1 .. nbrs
         /\ Share(budget, nbrs, i) \in Nat \ {0}
  <1>1. nbrs # 0 /\ i \in 1 .. (IF budget < nbrs THEN budget ELSE nbrs)
    BY DEF Shares
  <1>2. i \in Nat \ {0} /\ i <= nbrs /\ i <= budget
    BY <1>1
  <1>3. (budget \div nbrs) \in Nat /\ (budget % nbrs) \in 0 .. nbrs - 1
    BY <1>1
  <1>4. CASE budget < nbrs
    <2>1. budget % nbrs = budget
      BY <1>1, <1>4
    <2> QED
      BY <1>1, <1>2, <1>3, <2>1 DEF Share
  <1>5. CASE ~(budget < nbrs)
    <2>1. (budget \div nbrs) >= 1
      BY <1>1, <1>5
    <2> QED
      BY <1>1, <1>2, <1>3, <2>1 DEF Share
  <1> QED
    BY <1>4, <1>5

LEMMA RequestType ==
  ASSUME NEW id \in Id, NEW budget \in Nat, NEW nbrs \in Nat, NEW i \in Shares(budget, nbrs),
         NEW from \in Node, NEW to \in Node
  PROVE  Request(id, Share(budget, nbrs, i), from, to, i) \in RequestMessage
  BY SharesPositive DEF Request, RequestMessage

LEMMA InitIInv == Init => IInv
  <1> SUFFICES ASSUME Init PROVE IInv
    OBVIOUS
  <1>1. TypeOK
    BY Sizes, FileAssumption, RingAssumption
       DEF Init, TypeOK, SearchState, CollectorState, FirstBudget, Buffer, NoPass
  <1>2. AnswersHonest /\ CatalogHonest
    BY DEF Init, AnswersHonest, CatalogHonest
  <1>3. NamesFull /\ FirstIsFull /\ RoundsLeft
    BY DEF Init, NamesFull, FirstIsFull, RoundsLeft, Call
  <1> QED
    BY <1>1, <1>2, <1>3 DEF IInv

-----------------------------------------------------------------------------
(* Requests and answers.                                                   *)

LEMMA FilesType ==
  ASSUME TypeOK, NEW n \in Node
  PROVE  Files(n) \subseteq Name /\ \A f \in Files(n) : Meta[f] \in Holds[n]
  BY FileAssumption DEF Files, TypeOK

LEMMA ForwardsType ==
  ASSUME NEW m \in RequestMessage, NEW requests \in Forwards(m)
  PROVE  requests \subseteq RequestMessage
  <1> DEFINE n      == m.to
             budget == Remaining(m.budget)
             nbrs   == Cardinality(Nbrs[n])
             shares == Shares(budget, nbrs)
  <1>1. /\ m.id \in Id /\ n \in Node /\ budget \in Nat /\ nbrs \in Nat
        /\ Nbrs[n] \subseteq Node
    BY Sizes DEF RequestMessage, Remaining
  <1>2. PICK to \in IF Nbrs[n] = {m.from} THEN {<<>>} ELSE [shares -> Nbrs[n] \ {m.from}] :
          requests = {Request(m.id, Share(budget, nbrs, i), n, to[i], i) : i \in DOMAIN to}
    BY DEF Forwards
  <1> HIDE DEF n, budget, nbrs, shares
  <1>3. ASSUME NEW i \in DOMAIN to
        PROVE  Request(m.id, Share(budget, nbrs, i), n, to[i], i) \in RequestMessage
    <2>1. to \in [shares -> Nbrs[n] \ {m.from}]
      BY <1>2, <1>3
    <2>2. i \in Shares(budget, nbrs) /\ to[i] \in Node
      BY <1>1, <2>1 DEF shares
    <2> QED
      BY <1>1, <2>2, RequestType
  <1> QED
    BY <1>2, <1>3

LEMMA ExecRequestInv ==
  ASSUME IInv, NEW m \in net, m.type = "request", ExecSearchRequestMessage(m)
  PROVE  IInv'
  <1> USE DEF IInv
  <1>1. m \in RequestMessage
    BY DEF TypeOK, Answer
  <1>2. m.to \in Node /\ m.from \in Node /\ m.id \in Id
    BY <1>1 DEF RequestMessage
  <1> DEFINE answer == [type |-> "answer", id |-> m.id, source |-> m.to, at |-> m.from,
                        files |-> Files(m.to)]
  <1>3. answer \in Answer /\ \A f \in answer.files : Meta[f] \in Holds[answer.source]
    BY <1>2, FilesType DEF Answer
  <1>4. \/ net' \subseteq net
        \/ \E requests \in Forwards(m) : net' = (net \ {m}) \cup requests \cup {answer}
    BY DEF ExecSearchRequestMessage
  <1> HIDE DEF answer
  <1>5. net' \subseteq RequestMessage \cup Answer /\ AnswersHonest'
    <2>1. CASE net' \subseteq net
      BY <2>1 DEF TypeOK, AnswersHonest
    <2>2. ASSUME NEW requests \in Forwards(m), net' = (net \ {m}) \cup requests \cup {answer}
          PROVE  <1>5
      <3>1. requests \subseteq RequestMessage
        BY <1>1, ForwardsType
      <3>2. \A r \in requests : r.type # "answer"
        BY <3>1 DEF RequestMessage
      <3> QED
        BY <1>3, <2>2, <3>1, <3>2 DEF TypeOK, AnswersHonest
    <2> QED
      BY <1>4, <2>1, <2>2
  <1>6. seen' \in [Node -> SUBSET Id]
    BY <1>2 DEF ExecSearchRequestMessage, TypeOK
  <1> QED
    BY <1>5, <1>6 DEF ExecSearchRequestMessage, TypeOK, CatalogHonest, NamesFull, FirstIsFull, RoundsLeft

LEMMA RelayInv ==
  ASSUME IInv, NEW m \in net, m.type = "answer", Relay(m)
  PROVE  IInv'
  <1> USE DEF IInv
  <1>1. m \in Answer
    BY DEF TypeOK, RequestMessage
  <1> DEFINE relayed == [m EXCEPT !.at = Origin]
  <1>2. relayed \in Answer /\ relayed.files = m.files /\ relayed.source = m.source
    BY <1>1, Sizes DEF Answer
  <1>3. net' = (net \ {m}) \cup {relayed}
    BY DEF Relay
  <1> HIDE DEF relayed
  <1>4. net' \subseteq RequestMessage \cup Answer /\ AnswersHonest'
    BY <1>2, <1>3 DEF TypeOK, AnswersHonest
  <1> QED
    BY <1>4 DEF Relay, TypeOK, CatalogHonest, NamesFull, FirstIsFull, RoundsLeft

LEMMA ExecReplyInv ==
  ASSUME IInv, NEW m \in net, m.type = "answer", ExecSearchReplyMessage(m)
  PROVE  IInv'
  <1> USE DEF IInv
  <1>1. m \in Answer
    BY DEF TypeOK, RequestMessage
  <1>2. m.source \in Node /\ m.files \subseteq Name
    BY <1>1 DEF Answer
  <1>3. \A k \in Key : Told(m, k) => k \in Holds[m.source]
    BY DEF Told, AnswersHonest
  <1>4. catalog' \in [Key -> SUBSET Node] /\ CatalogHonest'
    BY <1>2, <1>3 DEF ExecSearchReplyMessage, TypeOK, CatalogHonest
  <1>5. naming' \subseteq Name
    BY <1>2 DEF ExecSearchReplyMessage, TypeOK
  <1>6. loop' = NoPass \/ loop' \in [stage : {"passing"}, answer : Answer]
    BY <1>1 DEF ExecSearchReplyMessage
  <1>7. net' \subseteq net
    BY DEF ExecSearchReplyMessage
  <1> QED
    BY <1>4, <1>5, <1>6, <1>7
       DEF ExecSearchReplyMessage, TypeOK, AnswersHonest, NamesFull, FirstIsFull, RoundsLeft

LEMMA PassInv ==
  ASSUME IInv, PassMsgToWaiter
  PROVE  IInv'
  <1> USE DEF IInv
  <1>1. loop \in [stage : {"passing"}, answer : Answer]
    BY DEF PassMsgToWaiter, TypeOK
  <1>2. loop.answer \in Answer /\ <<loop.answer>> \in Buffer
    BY <1>1 DEF Buffer
  <1>3. collectors' \in [Id -> CollectorState]
    BY <1>2 DEF PassMsgToWaiter, TypeOK, CollectorState
  <1> QED
    BY <1>3 DEF PassMsgToWaiter, TypeOK, AnswersHonest, CatalogHonest, NamesFull, FirstIsFull, RoundsLeft

-----------------------------------------------------------------------------
(* The calls.                                                              *)

(* A call whose names and result are of files that some node has in full. *)
FineState(s, x) ==
  /\ x \in SearchState
  /\ s \in First => /\ \A f \in x.names : \E n \in Node : Full(f, n)
                    /\ x.result # Nobody => \E n \in Node : Full(x.result, n)
                    /\ x.stage = "sleeping" => x.round < Retry

LEMMA CallInv ==
  ASSUME IInv, NEW s \in Call, NEW x, FineState(s, x),
         searches' = [searches EXCEPT ![s] = x]
  PROVE  searches' \in [Call -> SearchState] /\ NamesFull' /\ FirstIsFull' /\ RoundsLeft'
  <1>1. searches' \in [Call -> SearchState]
    BY DEF IInv, TypeOK, FineState
  <1>2. ASSUME NEW t \in First PROVE searches'[t] = IF t = s THEN x ELSE searches[t]
    BY DEF IInv, TypeOK, Call
  <1>3. NamesFull' /\ FirstIsFull' /\ RoundsLeft'
    BY <1>2 DEF FineState, IInv, NamesFull, FirstIsFull, RoundsLeft
  <1> QED
    BY <1>1, <1>3

LEMMA FineBefore ==
  ASSUME IInv, NEW s \in Call
  PROVE  FineState(s, searches[s])
  BY DEF IInv, TypeOK, NamesFull, FirstIsFull, RoundsLeft, FineState

LEMMA StartInv ==
  ASSUME IInv, NEW s \in Call, Start(s)
  PROVE  IInv'
  <1> USE DEF IInv
  <1>1. FineState(s, searches[s]) /\ searches[s] \in SearchState /\ naming \subseteq Name
    BY FineBefore DEF TypeOK
  <1>2. ASSUME NEW f \in LocalFull(s),
               searches' = [searches EXCEPT ![s].stage = "done", ![s].result = f]
        PROVE  searches' \in [Call -> SearchState] /\ NamesFull' /\ FirstIsFull' /\ RoundsLeft'
    <2>1. f \in Name /\ \E n \in Node : Full(f, n)
      BY <1>1, Sizes DEF LocalFull
    <2>2. FineState(s, [searches[s] EXCEPT !.stage = "done", !.result = f])
      BY <1>1, <2>1 DEF FineState, SearchState
    <2>3. searches' = [searches EXCEPT ![s] = [@ EXCEPT !.stage = "done", !.result = f]]
      BY <1>2
    <2> QED
      BY <2>2, <2>3, CallInv
  <1>3. ASSUME searches' = [searches EXCEPT ![s].stage = "asking",
                                            ![s].names = IF s \in All THEN naming ELSE {}]
        PROVE  searches' \in [Call -> SearchState] /\ NamesFull' /\ FirstIsFull' /\ RoundsLeft'
    <2> DEFINE names == IF s \in All THEN naming ELSE {}
    <2>1. names \subseteq Name /\ (s \in First => names = {})
      BY <1>1, CallAssumption
    <2>2. searches' = [searches EXCEPT ![s] = [@ EXCEPT !.stage = "asking", !.names = names]]
      BY <1>3
    <2> HIDE DEF names
    <2>3. FineState(s, [searches[s] EXCEPT !.stage = "asking", !.names = names])
      BY <1>1, <2>1 DEF FineState, SearchState
    <2> QED
      BY <2>2, <2>3, CallInv
  <1>4. searches' \in [Call -> SearchState] /\ NamesFull' /\ FirstIsFull' /\ RoundsLeft'
    BY <1>2, <1>3 DEF Start
  <1> QED
    BY <1>4 DEF Start, TypeOK, AnswersHonest, CatalogHonest

LEMMA IdOfType ==
  ASSUME TypeOK, NEW s \in Call, s \in First => searches[s].round < Retry,
         NEW i \in Shares(searches[s].budget, MaxShares)
  PROVE  IdOf(s, i) \in Id
  <1>1. searches[s].budget \in Nat /\ searches[s].round \in 0 .. Retry
    BY DEF TypeOK, SearchState
  <1>2. i \in 1 .. MaxShares
    BY <1>1, SharesPositive, Sizes
  <1>3. s \in First => searches[s].round \in 0 .. Retry - 1
    BY <1>1, RingAssumption
  <1> QED
    BY <1>2, <1>3 DEF IdOf, Id, Call

LEMMA AskInv ==
  ASSUME IInv, NEW s \in Call, Ask(s)
  PROVE  IInv'
  <1> USE DEF IInv
  <1> DEFINE budget == searches[s].budget
             shares == Shares(budget, MaxShares)
  <1>1. FineState(s, searches[s]) /\ searches[s] \in SearchState /\ budget \in Nat
        /\ searches[s].round \in 0 .. Retry
    BY FineBefore DEF TypeOK, SearchState
  <1>2. \A stage \in {"done", "sleeping"} :
          (s \in First /\ stage = "sleeping" => searches[s].round < Retry)
            => FineState(s, [searches[s] EXCEPT !.stage = stage])
    BY <1>1 DEF FineState, SearchState
  <1>3. searches' \in [Call -> SearchState] /\ NamesFull' /\ FirstIsFull' /\ RoundsLeft'
    <2>1. s \in First => (searches[s].round >= Retry <=> ~(searches[s].round < Retry))
      BY <1>1, RingAssumption
    <2> QED
      BY <1>2, <2>1, CallInv DEF Ask
  <1>4. collectors' \in [Id -> CollectorState]
    <2>1. \A i \in Id : /\ collectors[i] \in CollectorState
                        /\ [collectors[i] EXCEPT !.stage = "starting"] \in CollectorState
      BY DEF TypeOK, CollectorState
    <2>2. \/ collectors' = collectors
          \/ \E ids : collectors' = [i \in Id |-> IF i \in ids
                                                 THEN [collectors[i] EXCEPT !.stage = "starting"]
                                                 ELSE collectors[i]]
      BY DEF Ask
    <2>3. CASE collectors' = collectors
      BY <2>3 DEF TypeOK
    <2>4. CASE collectors' # collectors
      <3>1. PICK ids : collectors' = [i \in Id |-> IF i \in ids
                                                  THEN [collectors[i] EXCEPT !.stage = "starting"]
                                                  ELSE collectors[i]]
        BY <2>2, <2>4
      <3> HIDE DEF IInv
      <3> QED
        BY <2>1, <3>1
    <2> QED
      BY <2>3, <2>4
  <1>5. net' \subseteq RequestMessage \cup Answer /\ AnswersHonest'
    <2>1. CASE UNCHANGED net
      BY <2>1 DEF TypeOK, AnswersHonest
    <2>2. ASSUME NEW to \in Chosen(s, shares), s \in First => searches[s].round < Retry,
                 net' = net \cup {Request(IdOf(s, i), Share(budget, MaxShares, i), Origin, to[i], i) :
                                     i \in shares}
          PROVE  <1>5
      <3>1. ASSUME NEW i \in shares
            PROVE  Request(IdOf(s, i), Share(budget, MaxShares, i), Origin, to[i], i)
                     \in RequestMessage
        <4>1. to[i] \in Node
          BY <2>2, Sizes DEF Chosen
        <4> QED
          BY <1>1, <2>2, <3>1, <4>1, IdOfType, RequestType, Sizes
      <3>2. \A r \in RequestMessage : r.type # "answer"
        BY DEF RequestMessage
      <3> HIDE DEF shares, budget
      <3> QED
        BY <2>2, <3>1, <3>2 DEF TypeOK, AnswersHonest
    <2>3. s \in First => (searches[s].round >= Retry <=> ~(searches[s].round < Retry))
      BY <1>1, RingAssumption
    <2> QED
      BY <2>1, <2>2, <2>3 DEF Ask
  <1> QED
    BY <1>3, <1>4, <1>5 DEF Ask, TypeOK, CatalogHonest

LEMMA WakeUpInv ==
  ASSUME IInv, NEW s \in Call, WakeUp(s)
  PROVE  IInv'
  <1> USE DEF IInv
  <1>1. /\ FineState(s, searches[s]) /\ searches[s] \in SearchState
        /\ searches[s].stage = "sleeping"
        /\ searches[s].round \in 0 .. Retry /\ searches[s].budget \in Nat
        /\ searches[s].names \subseteq Name
    BY FineBefore DEF TypeOK, SearchState, WakeUp
  <1>2. ASSUME s \in All, searches' = [searches EXCEPT ![s].stage = "done"]
        PROVE  searches' \in [Call -> SearchState] /\ NamesFull' /\ FirstIsFull' /\ RoundsLeft'
    <2>1. FineState(s, [searches[s] EXCEPT !.stage = "done"])
      BY <1>1 DEF FineState, SearchState
    <2> QED
      BY <1>2, <2>1, CallInv
  <1>3. ASSUME s \in First,
               searches' = [searches EXCEPT ![s].stage = "asking", ![s].round = NextRound(@),
                                            ![s].budget = Factor * @]
        PROVE  searches' \in [Call -> SearchState] /\ NamesFull' /\ FirstIsFull' /\ RoundsLeft'
    <2> DEFINE round  == NextRound(searches[s].round)
               budget == Factor * searches[s].budget
    <2>1. round \in 0 .. Retry
      BY <1>1, <1>3, RingAssumption DEF FineState, NextRound
    <2>2. budget \in Nat
      BY <1>1, RingAssumption
    <2>3. searches' = [searches EXCEPT ![s] = [@ EXCEPT !.stage = "asking", !.round = round,
                                                       !.budget = budget]]
      BY <1>3
    <2> HIDE DEF round, budget
    <2>4. FineState(s, [searches[s] EXCEPT !.stage = "asking", !.round = round, !.budget = budget])
      BY <1>1, <2>1, <2>2 DEF FineState, SearchState
    <2> QED
      BY <2>3, <2>4, CallInv
  <1>4. ASSUME s \in First, NEW f \in searches[s].names,
               searches' = [searches EXCEPT ![s].stage = "done", ![s].result = f]
        PROVE  searches' \in [Call -> SearchState] /\ NamesFull' /\ FirstIsFull' /\ RoundsLeft'
    <2>1. searches' = [searches EXCEPT ![s] = [@ EXCEPT !.stage = "done", !.result = f]]
      BY <1>4
    <2>2. f \in Name /\ \E n \in Node : Full(f, n)
      BY <1>1, <1>4 DEF FineState
    <2>3. FineState(s, [searches[s] EXCEPT !.stage = "done", !.result = f])
      BY <1>1, <2>2 DEF FineState, SearchState
    <2> QED
      BY <2>1, <2>3, CallInv
  <1>5. searches' \in [Call -> SearchState] /\ NamesFull' /\ FirstIsFull' /\ RoundsLeft'
    BY <1>2, <1>3, <1>4 DEF WakeUp
  <1>6. collectors' \in [Id -> CollectorState]
    <2>1. \A i \in Id : [collectors[i] EXCEPT !.told = TRUE] \in CollectorState
      BY DEF TypeOK, CollectorState
    <2> QED
      BY <2>1 DEF WakeUp, TypeOK
  <1> QED
    BY <1>5, <1>6 DEF WakeUp, TypeOK, AnswersHonest, CatalogHonest

-----------------------------------------------------------------------------
(* The goroutines that collect answers.                                    *)

LEMMA CollectInv ==
  ASSUME IInv, NEW i \in Id, Collect(i)
  PROVE  IInv'
  <1> USE DEF IInv
  <1> DEFINE s     == i[1]
             m     == Head(collectors[i].buffer)
             names == searches[s].names \cup Matching(s, m)
  <1>1. s \in Call
    BY DEF Id, Call
  <1>2. m \in Answer
    BY DEF Collect, TypeOK, Buffer, CollectorState
  <1>3. FineState(s, searches[s]) /\ searches[s] \in SearchState
        /\ searches[s].names \subseteq Name
    BY <1>1, FineBefore DEF TypeOK, SearchState
  <1>4. Matching(s, m) \subseteq Name
        /\ (s \in First => \A f \in Matching(s, m) : \E n \in Node : Full(f, n))
    BY <1>2, CallAssumption DEF Matching, Answer
  <1>5. searches' = [searches EXCEPT ![s] = [@ EXCEPT !.names = names]]
    BY DEF Collect
  <1>6. names \subseteq Name
        /\ (s \in First => \A f \in names : \E n \in Node : Full(f, n))
    BY <1>3, <1>4 DEF FineState
  <1>7. collectors' \in [Id -> CollectorState]
    BY DEF Collect, TypeOK, Buffer, CollectorState
  <1> HIDE DEF s, m, names
  <1>8. FineState(s, [searches[s] EXCEPT !.names = names])
    BY <1>3, <1>6 DEF FineState, SearchState
  <1>9. searches' \in [Call -> SearchState] /\ NamesFull' /\ FirstIsFull' /\ RoundsLeft'
    BY <1>1, <1>5, <1>8, CallInv
  <1> QED
    BY <1>7, <1>9 DEF Collect, TypeOK, AnswersHonest, CatalogHonest

LEMMA ChannelInv ==
  ASSUME IInv, NEW i \in Id, SetAckChannel(i) \/ Close(i) \/ DeleteAckChannel(i)
  PROVE  IInv'
  <1> USE DEF IInv
  <1>1. collectors' \in [Id -> CollectorState] /\ pool' \subseteq Id
    <2>1. AfterClose(collectors[i]) \in CollectorState
      BY DEF AfterClose, TypeOK, Buffer, CollectorState
    <2>2. [collectors[i] EXCEPT !.stage = "collecting"] \in CollectorState
      BY DEF TypeOK, CollectorState
    <2> QED
      BY <2>1, <2>2 DEF SetAckChannel, Close, DeleteAckChannel, TypeOK
  <1>2. UNCHANGED <<searches, naming, catalog, loop, seen, net>>
    BY DEF SetAckChannel, Close, DeleteAckChannel
  <1> QED
    BY <1>1, <1>2 DEF TypeOK, AnswersHonest, CatalogHonest, NamesFull, FirstIsFull, RoundsLeft

-----------------------------------------------------------------------------
(* The invariant.                                                          *)

LEMMA StepIInv == IInv /\ [Next]_vars => IInv'
  <1> SUFFICES ASSUME IInv, [Next]_vars PROVE IInv'
    OBVIOUS
  <1>1. CASE UNCHANGED vars
    BY <1>1 DEF vars, IInv, TypeOK, AnswersHonest, CatalogHonest, NamesFull, FirstIsFull,
               RoundsLeft
  <1> QED
    BY <1>1, ExecRequestInv, RelayInv, ExecReplyInv, PassInv, StartInv, AskInv, WakeUpInv,
       CollectInv, ChannelInv DEF Next, Collects

LEMMA Invariance == Spec => []IInv
  <1> QED
    BY InitIInv, StepIInv, PTL DEF Spec

(* Every value stays of its type; above all, every request that is sent    *)
(* has a positive budget, so forwarding cannot go on for ever.             *)
THEOREM TypeCorrect == Spec => []TypeOK
  <1>1. IInv => TypeOK
    BY DEF IInv
  <1> QED
    BY <1>1, Invariance, PTL

(* The catalog is right, whatever the topology and however many answers    *)
(* come, in whatever order.                                                *)
THEOREM CatalogRight == Spec => []CatalogHonest
  <1>1. IInv => CatalogHonest
    BY DEF IInv
  <1> QED
    BY <1>1, Invariance, PTL

(* SearchFirst returns nothing but full matches, whatever the round and    *)
(* however late the answer.                                                *)
THEOREM FirstMatches == Spec => []FirstIsFull
  <1>1. IInv => FirstIsFull
    BY DEF IInv
  <1> QED
    BY <1>1, Invariance, PTL

-----------------------------------------------------------------------------
(* Induction, in terms of sets.                                            *)

LEMMA LeastOf ==
  ASSUME NEW T \in SUBSET Nat, T # {}
  PROVE  \E n \in T : \A m \in T : n <= m
  <1> DEFINE R == OpToRel(<, Nat)
  <1>1. IsWellFoundedOn(R, Nat)
    BY NatLessThanWellFounded
  <1>2. \A x, y \in Nat : <<y, x>> \in R <=> y < x
    BY DEF OpToRel
  <1> HIDE DEF R
  <1>3. PICK x \in T : \A y \in T : ~(<<y, x>> \in R)
    BY <1>1, WFMin, Zenon
  <1>4. ASSUME NEW y \in T PROVE x <= y
    <2>1. ~(y < x)
      BY <1>2, <1>3
    <2> QED
      BY <2>1
  <1> QED
    BY <1>4

LEMMA Induction ==
  ASSUME NEW S, 0 \in S, \A n \in Nat : n \in S => n + 1 \in S
  PROVE  Nat \subseteq S
  <1> SUFFICES ASSUME Nat \ S # {} PROVE FALSE
    OBVIOUS
  <1>1. PICK n \in Nat \ S : \A m \in Nat \ S : n <= m
    BY LeastOf
  <1>2. n # 0 /\ n - 1 \in Nat /\ n - 1 \in S
    BY <1>1
  <1> QED
    BY <1>1, <1>2

-----------------------------------------------------------------------------
(* The budgets of the rounds.                                              *)

IsRing(g, n) ==
  /\ g \in [0 .. n -> Nat]
  /\ g[0] = Initial
  /\ \A r \in 1 .. n : g[r] = Factor * g[r - 1]

(* The recursion defines a budget for every round. *)
LEMMA RingOfBudgets ==
  /\ RingBudget \in [0 .. Retry -> Nat]
  /\ RingBudget[0] = Initial
  /\ \A r \in 1 .. Retry : RingBudget[r] = Factor * RingBudget[r - 1]
  <1> DEFINE S == {n \in Nat : \E g : IsRing(g, n)}
  <1>1. 0 \in S
    <2>1. IsRing([r \in 0 .. 0 |-> Initial], 0)
      BY RingAssumption DEF IsRing
    <2> QED
      BY <2>1
  <1>2. ASSUME NEW n \in Nat, n \in S PROVE n + 1 \in S
    <2>1. PICK g : IsRing(g, n)
      BY <1>2
    <2> DEFINE next == Factor * g[n]
               h == [r \in 0 .. n + 1 |-> IF r = n + 1 THEN next ELSE g[r]]
    <2>2. next \in Nat
      BY <2>1, RingAssumption DEF IsRing
    <2> HIDE DEF next
    <2>3. h \in [0 .. n + 1 -> Nat] /\ h[0] = Initial
      BY <2>1, <2>2 DEF IsRing
    <2>4. ASSUME NEW r \in 1 .. n + 1 PROVE h[r] = Factor * h[r - 1]
      <3>1. CASE r = n + 1
        BY <3>1 DEF next
      <3>2. CASE r # n + 1
        <4>1. r \in 1 .. n /\ r - 1 \in 0 .. n /\ r - 1 # n + 1
          BY <3>2
        <4>2. g[r] = Factor * g[r - 1]
          BY <2>1, <4>1 DEF IsRing
        <4> QED
          BY <3>2, <4>1, <4>2
      <3> QED
        BY <3>1, <3>2
    <2> HIDE DEF h
    <2>5. IsRing(h, n + 1)
      BY <2>3, <2>4 DEF IsRing
    <2> QED
      BY <2>5
  <1> HIDE DEF S
  <1>3. Retry \in S
    BY <1>1, <1>2, Induction, RingAssumption
  <1>4. PICK g : IsRing(g, Retry)
    BY <1>3 DEF S
  <1> DEFINE Ring(h) ==
        h = [round \in 0 .. Retry |-> IF round = 0 THEN Initial ELSE Factor * h[round - 1]]
  <1>5. Ring(g)
    <2>1. ASSUME NEW r \in 0 .. Retry
          PROVE  g[r] = IF r = 0 THEN Initial ELSE Factor * g[r - 1]
      BY <1>4, RingAssumption DEF IsRing
    <2>2. g \in [0 .. Retry -> Nat]
      BY <1>4 DEF IsRing
    <2> QED
      BY <2>1, <2>2
  <1>6. RingBudget = CHOOSE h : Ring(h)
    BY DEF RingBudget
  <1>7. Ring(RingBudget)
    <2> HIDE DEF Ring
    <2> QED
      BY <1>5, <1>6, Zenon
  <1> DEFINE T == {n \in Nat : n <= Retry => RingBudget[n] = g[n] /\ RingBudget[n] \in Nat}
  <1>8. 0 \in T
    BY <1>4, <1>7, RingAssumption DEF IsRing
  <1>9. ASSUME NEW n \in Nat, n \in T PROVE n + 1 \in T
    <2> SUFFICES ASSUME n + 1 <= Retry PROVE RingBudget[n + 1] = g[n + 1] /\ RingBudget[n + 1] \in Nat
      OBVIOUS
    <2>1. n + 1 \in 1 .. Retry /\ (n + 1) - 1 = n /\ n + 1 \in 0 .. Retry /\ n + 1 # 0
      BY RingAssumption
    <2>2. RingBudget[n + 1] = Factor * RingBudget[n]
      BY <1>7, <2>1
    <2>3. RingBudget[n] = g[n]
      BY <1>9, <2>1, RingAssumption
    <2>4. g[n + 1] = Factor * g[n]
      BY <1>4, <2>1 DEF IsRing
    <2>5. g[n + 1] \in Nat
      BY <1>4, <2>1 DEF IsRing
    <2> QED
      BY <2>2, <2>3, <2>4, <2>5
  <1> HIDE DEF T
  <1>10. Nat \subseteq T
    BY <1>8, <1>9, Induction
  <1>11. \A r \in 0 .. Retry : RingBudget[r] = g[r]
    BY <1>10 DEF T
  <1>12. RingBudget = g
    <2>1. DOMAIN RingBudget = 0 .. Retry /\ RingBudget = [r \in DOMAIN RingBudget |-> RingBudget[r]]
      BY <1>7
    <2>2. g = [r \in 0 .. Retry |-> g[r]]
      BY <1>4 DEF IsRing
    <2> HIDE DEF Ring
    <2> QED
      BY <1>11, <2>1, <2>2
  <1> QED
    BY <1>4, <1>12 DEF IsRing

-----------------------------------------------------------------------------
(* How a budget is dealt out.                                              *)

LEMMA TimesMonotone ==
  ASSUME NEW n \in Nat, NEW a \in Nat, NEW b \in Nat, a <= b
  PROVE  a * n <= b * n
  <1>1. b - a \in Nat /\ b = a + (b - a)
    OBVIOUS
  <1>2. (b - a) * n \in Nat
    BY <1>1
  <1>3. b * n = a * n + (b - a) * n
    OBVIOUS
  <1> QED
    BY <1>2, <1>3

(* The units of the i-th share, put in rows of nbrs: they fit in the budget. *)
LEMMA UnitFits ==
  ASSUME NEW budget \in Nat, NEW nbrs \in Nat, NEW i \in Shares(budget, nbrs),
         NEW u \in 1 .. Share(budget, nbrs, i)
  PROVE  (u - 1) * nbrs + i \in 1 .. budget
  <1> DEFINE d == budget \div nbrs
             r == budget % nbrs
  <1>1. nbrs \in Nat \ {0} /\ i \in 1 .. nbrs /\ Share(budget, nbrs, i) \in Nat
    BY SharesPositive
  <1>2. d \in Nat /\ r \in Nat /\ budget = d * nbrs + r
    BY <1>1
  <1>3. u \in 1 .. d + (IF i <= r THEN 1 ELSE 0)
    BY DEF Share
  <1> HIDE DEF d, r
  <1>4. u - 1 \in Nat /\ (u - 1) * nbrs \in Nat /\ d * nbrs \in Nat
    BY <1>1, <1>2, <1>3
  <1>5. CASE i <= r
    <2>1. (u - 1) * nbrs <= d * nbrs
      BY <1>1, <1>2, <1>3, <1>4, <1>5, TimesMonotone
    <2> QED
      BY <1>1, <1>2, <1>4, <1>5, <2>1
  <1>6. CASE ~(i <= r)
    <2>1. u <= d /\ u \in Nat
      BY <1>1, <1>2, <1>3, <1>6
    <2>2. u * nbrs <= d * nbrs /\ u * nbrs \in Nat
      BY <1>1, <1>2, <2>1, TimesMonotone
    <2>3. (u - 1) * nbrs = u * nbrs - nbrs
      BY <1>1, <2>1
    <2> QED
      BY <1>1, <1>2, <1>4, <2>2, <2>3
  <1> QED
    BY <1>5, <1>6

LEMMA UnitsApart ==
  ASSUME NEW nbrs \in Nat
  PROVE  \A i, j \in 1 .. nbrs : \A u, w \in Nat \ {0} :
           u < w => (u - 1) * nbrs + i # (w - 1) * nbrs + j
  <1> SUFFICES ASSUME NEW i \in 1 .. nbrs, NEW j \in 1 .. nbrs,
                      NEW u \in Nat \ {0}, NEW w \in Nat \ {0}, u < w
               PROVE  (u - 1) * nbrs + i # (w - 1) * nbrs + j
    OBVIOUS
  <1>1. u - 1 \in Nat /\ w - 1 \in Nat /\ u <= w - 1
    OBVIOUS
  <1>2. u * nbrs <= (w - 1) * nbrs
    BY <1>1, TimesMonotone
  <1>3. (u - 1) * nbrs = u * nbrs - nbrs
    OBVIOUS
  <1>4. u * nbrs \in Nat /\ (w - 1) * nbrs \in Nat
    BY <1>1
  <1> QED
    BY <1>2, <1>3, <1>4

(* No more is dealt out than there is. *)
LEMMA Dealt ==
  ASSUME NEW budget \in Nat, NEW nbrs \in Nat, NEW R,
         \A q \in R : /\ q.share \in Shares(budget, nbrs)
                      /\ q.budget = Share(budget, nbrs, q.share),
         \A p, q \in R : p.share = q.share => p = q
  PROVE  IsFiniteSet(Units(R)) /\ Cardinality(Units(R)) <= budget
  <1> DEFINE U == Units(R)
             f == [x \in U |-> (x[2] - 1) * nbrs + x[1].share]
  <1>1. ASSUME NEW x \in U
        PROVE  /\ x[1] \in R /\ x = <<x[1], x[2]>>
               /\ x[1].share \in Shares(budget, nbrs)
               /\ x[2] \in 1 .. Share(budget, nbrs, x[1].share)
    <2>1. PICK q \in R : x \in {q} \X (1 .. q.budget)
      BY DEF Units
    <2> QED
      BY <2>1
  <1> HIDE DEF U
  <1>2. ASSUME NEW x \in U
        PROVE  x[1].share \in 1 .. nbrs /\ x[2] \in Nat \ {0}
    <2>1. Share(budget, nbrs, x[1].share) \in Nat
      BY <1>1, SharesPositive
    <2> QED
      BY <1>1, <2>1, SharesPositive
  <1>3. f \in [U -> 1 .. budget]
    BY <1>1, UnitFits
  <1>4. ASSUME NEW x \in U, NEW y \in U, f[x] = f[y] PROVE x = y
    <2> DEFINE i == x[1].share
               j == y[1].share
               u == x[2]
               w == y[2]
    <2>1. (u - 1) * nbrs + i = (w - 1) * nbrs + j
      BY <1>4
    <2>2. i \in 1 .. nbrs /\ j \in 1 .. nbrs /\ u \in Nat \ {0} /\ w \in Nat \ {0}
      BY <1>2
    <2> HIDE DEF f, i, j, u, w
    <2>3. ~(u < w) /\ ~(w < u)
      BY <2>1, <2>2, UnitsApart
    <2>4. u = w /\ (u - 1) * nbrs \in Nat
      BY <2>2, <2>3
    <2>5. i = j
      BY <2>1, <2>2, <2>4
    <2>6. x[1] = y[1]
      BY <1>1, <2>5 DEF i, j
    <2> QED
      BY <1>1, <2>4, <2>6 DEF u, w
  <1> HIDE DEF f
  <1>5. f \in Injection(U, 1 .. budget)
    BY <1>3, <1>4, Zenon DEF Injection, IsInjective
  <1>6. IsFiniteSet(1 .. budget) /\ Cardinality(1 .. budget) = budget
    BY FS_Interval
  <1>7. IsFiniteSet(U) /\ Cardinality(U) <= Cardinality(1 .. budget)
    BY <1>5, <1>6, FS_Injection, Zenon
  <1> QED
    BY <1>6, <1>7 DEF U
-----------------------------------------------------------------------------
(* The budget that is left of a request.                                   *)

Counted(requests, handled, allowance) ==
  /\ IsFiniteSet(Units(requests)) /\ IsFiniteSet(handled)
  /\ Cardinality(Units(requests)) + Cardinality(handled) <= allowance

LEMMA UnitsOfOne ==
  ASSUME NEW m, m.budget \in Nat
  PROVE  IsFiniteSet(Units({m})) /\ Cardinality(Units({m})) = m.budget
  <1>1. IsFiniteSet(1 .. m.budget) /\ Cardinality(1 .. m.budget) = m.budget
    BY FS_Interval
  <1>2. IsFiniteSet({m}) /\ Cardinality({m}) = 1
    BY FS_Singleton, Zenon
  <1>3. /\ IsFiniteSet({m} \X (1 .. m.budget))
        /\ Cardinality({m} \X (1 .. m.budget)) = 1 * m.budget
    BY <1>1, <1>2, FS_Product
  <1>4. Units({m}) = {m} \X (1 .. m.budget)
    BY DEF Units
  <1>5. 1 * m.budget = m.budget
    OBVIOUS
  <1> QED
    BY <1>3, <1>4, <1>5, Zenon

(* A node that handles a request pays for itself and for what it forwards. *)
LEMMA Spent ==
  ASSUME NEW R, NEW H, NEW allowance \in Nat, Counted(R, H, allowance),
         NEW m \in R, m.budget \in Nat \ {0}, NEW n, n \notin H,
         NEW Q, IsFiniteSet(Units(Q)), Cardinality(Units(Q)) <= m.budget - 1
  PROVE  Counted((R \ {m}) \cup Q, H \cup {n}, allowance)
  <1> DEFINE rest == Units(R \ {m})
             own  == Units({m})
             sent == Units(Q)
             now  == Units((R \ {m}) \cup Q)
  <1>1. Units(R) = rest \cup own /\ rest \cap own = {} /\ now = rest \cup sent
    BY DEF Units
  <1>2. IsFiniteSet(own) /\ Cardinality(own) = m.budget
    BY UnitsOfOne
  <1>3. rest \in SUBSET Units(R) /\ IsFiniteSet(Units(R)) /\ IsFiniteSet(H)
    BY <1>1 DEF Counted
  <1> HIDE DEF rest, own, sent, now
  <1>4. IsFiniteSet(rest)
    BY <1>3, FS_Subset
  <1>5. IsFiniteSet(sent) /\ Cardinality(sent) \in Nat /\ Cardinality(sent) <= m.budget - 1
    BY FS_CardinalityType DEF sent
  <1>6. Cardinality(Units(R)) = Cardinality(rest) + m.budget
    <2>1. Cardinality(rest \cup own) = Cardinality(rest) + Cardinality(own) - Cardinality(rest \cap own)
      BY <1>2, <1>4, FS_Union
    <2>2. Cardinality(rest \cap own) = 0
      BY <1>1, FS_EmptySet
    <2>3. Cardinality(rest) \in Nat
      BY <1>4, FS_CardinalityType
    <2> QED
      BY <1>1, <1>2, <2>1, <2>2, <2>3
  <1>7. IsFiniteSet(now) /\ Cardinality(now) <= Cardinality(rest) + Cardinality(sent)
    <2>1. /\ IsFiniteSet(rest \cup sent)
          /\ Cardinality(rest \cup sent) = Cardinality(rest) + Cardinality(sent) - Cardinality(rest \cap sent)
      BY <1>4, <1>5, FS_Union
    <2>2. IsFiniteSet(rest \cap sent)
      BY <1>4, FS_Intersection
    <2>3. Cardinality(rest \cap sent) \in Nat /\ Cardinality(rest) \in Nat
      BY <1>4, <2>2, FS_CardinalityType
    <2> QED
      BY <1>1, <1>5, <2>1, <2>3
  <1>8. IsFiniteSet(H \cup {n}) /\ Cardinality(H \cup {n}) = Cardinality(H) + 1
    BY <1>3, FS_AddElement
  <1>9. Cardinality(H) \in Nat /\ Cardinality(rest) \in Nat /\ Cardinality(now) \in Nat
    BY <1>3, <1>4, <1>7, FS_CardinalityType
  <1>10. Cardinality(Units(R)) + Cardinality(H) <= allowance
    BY DEF Counted
  <1>11. Cardinality(now) + Cardinality(H \cup {n}) <= allowance
    BY <1>5, <1>6, <1>7, <1>8, <1>9, <1>10
  <1> QED
    BY <1>7, <1>8, <1>11 DEF Counted, now

LEMMA FewerCounted ==
  ASSUME NEW R, NEW H, NEW allowance \in Nat, Counted(R, H, allowance), NEW Q \in SUBSET R
  PROVE  Counted(Q, H, allowance)
  <1>1. Units(Q) \in SUBSET Units(R) /\ IsFiniteSet(Units(R)) /\ IsFiniteSet(H)
    BY DEF Units, Counted
  <1>2. IsFiniteSet(Units(Q)) /\ Cardinality(Units(Q)) <= Cardinality(Units(R))
    BY <1>1, FS_Subset
  <1>3. /\ Cardinality(Units(Q)) \in Nat /\ Cardinality(Units(R)) \in Nat
        /\ Cardinality(H) \in Nat
    BY <1>1, <1>2, FS_CardinalityType
  <1> QED
    BY <1>1, <1>2, <1>3 DEF Counted

-----------------------------------------------------------------------------
(* The inductive invariant for BudgetKept.                                 *)

(* The request of this id is not sent yet. *)
Unasked(i) ==
  \/ /\ searches[i[1]].stage \in {"idle", "asking"}
     /\ i[1] \in First => searches[i[1]].round <= i[2]
  \/ i[1] \in First /\ searches[i[1]].round < i[2]

IdsFresh == \A i \in Id : Unasked(i) => RequestsOf(i) = {} /\ Handled(i) = {}

RoundsBudgeted ==
  /\ \A s \in All : searches[s].budget = Budget
  /\ \A s \in First : searches[s].budget = RingBudget[searches[s].round]

AllCounted == \A i \in Id : Counted(RequestsOf(i), Handled(i), Allowance(i))

BInv == IInv /\ RoundsBudgeted /\ IdsFresh /\ AllCounted

LEMMA AllowanceType ==
  ASSUME NEW i \in Id
  PROVE  Allowance(i) \in Nat
  <1>1. CASE i[1] \in All
    BY <1>1, RingAssumption DEF Allowance
  <1>2. CASE i[1] \notin All
    <2>1. i[2] \in 0 .. Retry /\ i[3] \in 1 .. MaxShares
      BY <1>2, RingAssumption DEF Id
    <2>2. RingBudget[i[2]] \in Nat /\ MaxShares \in Nat \ {0}
      BY <2>1, RingOfBudgets, Sizes
    <2>3. (RingBudget[i[2]] \div MaxShares) \in Nat
      BY <2>2
    <2> QED
      BY <1>2, <2>3 DEF Allowance, Share
  <1> QED
    BY <1>1, <1>2

LEMMA InitBInv == Init => BInv
  <1> SUFFICES ASSUME Init PROVE BInv
    OBVIOUS
  <1>1. IInv
    BY InitIInv
  <1>2. \A s \in Call : searches[s].budget = FirstBudget(s) /\ searches[s].round = 0
    BY DEF Init
  <1>3. RoundsBudgeted
    BY <1>2, RingOfBudgets, CallAssumption DEF RoundsBudgeted, FirstBudget, Call
  <1>4. ASSUME NEW i \in Id PROVE RequestsOf(i) = {} /\ Handled(i) = {} /\ Units(RequestsOf(i)) = {}
    BY DEF Init, RequestsOf, Handled, Units
  <1>5. AllCounted
    BY <1>4, FS_EmptySet, AllowanceType DEF AllCounted, Counted
  <1> QED
    BY <1>1, <1>3, <1>4, <1>5 DEF BInv, IdsFresh

(* A step that neither asks nor handles a request. *)
LEMMA Quiet ==
  ASSUME BInv, IInv', RoundsBudgeted', \A i \in Id : Unasked(i)' => Unasked(i),
         \A i \in Id : RequestsOf(i)' = RequestsOf(i), UNCHANGED seen
  PROVE  BInv'
  <1>1. \A i \in Id : Handled(i)' = Handled(i)
    BY DEF Handled
  <1>2. IdsFresh' /\ AllCounted'
    BY <1>1 DEF BInv, IdsFresh, AllCounted, Allowance
  <1> QED
    BY <1>2 DEF BInv

LEMMA SameSearches ==
  ASSUME BInv, UNCHANGED searches
  PROVE  RoundsBudgeted' /\ \A i \in Id : Unasked(i)' <=> Unasked(i)
  BY DEF BInv, RoundsBudgeted, Unasked

(* A step of a call: what it leaves to ask was to be asked before. *)
LEMMA SearchStep ==
  ASSUME BInv, NEW s \in Call, NEW x, searches' = [searches EXCEPT ![s] = x],
         s \in All => x.budget = Budget,
         s \in First => x.budget = RingBudget[x.round],
         \/ x.stage \in {"idle", "asking"} /\ searches[s].stage \in {"idle", "asking"}
            /\ x.round = searches[s].round
         \/ x.stage = "asking" /\ s \in First /\ x.round = searches[s].round + 1
         \/ x.stage \in {"sleeping", "done"} /\ x.round = searches[s].round
  PROVE  RoundsBudgeted' /\ \A i \in Id : Unasked(i)' => Unasked(i)
  <1>1. searches \in [Call -> SearchState]
    BY DEF BInv, IInv, TypeOK
  <1>2. \A t \in Call : searches'[t] = IF t = s THEN x ELSE searches[t]
    BY <1>1
  <1>3. RoundsBudgeted'
    BY <1>2 DEF BInv, RoundsBudgeted, Call
  <1>4. ASSUME NEW i \in Id, Unasked(i)' PROVE Unasked(i)
    <2>1. i[1] \in Call /\ (i[1] \in First => i[2] \in 0 .. Retry - 1)
      BY CallAssumption DEF Id, Call
    <2>2. CASE i[1] # s
      BY <1>2, <1>4, <2>1, <2>2 DEF Unasked
    <2>3. CASE i[1] = s
      <3>1. searches[s].round \in 0 .. Retry
        BY <1>1 DEF SearchState
      <3>2. \/ x.stage \in {"idle", "asking"} /\ (s \in First => x.round <= i[2])
            \/ s \in First /\ x.round < i[2]
        BY <1>2, <1>4, <2>3 DEF Unasked
      <3>3. \/ /\ searches[s].stage \in {"idle", "asking"}
               /\ s \in First => searches[s].round <= i[2]
            \/ s \in First /\ searches[s].round < i[2]
        BY <2>1, <2>3, <3>1, <3>2, RingAssumption
      <3> QED
        BY <2>3, <3>3 DEF Unasked
    <2> QED
      BY <2>2, <2>3
  <1> QED
    BY <1>3, <1>4

LEMMA CallBudgeted ==
  ASSUME BInv, NEW s \in Call
  PROVE  /\ s \in All => searches[s].budget = Budget
         /\ s \in First => searches[s].budget = RingBudget[searches[s].round]
         /\ searches[s] \in SearchState
         /\ searches[s].budget \in Nat /\ searches[s].round \in 0 .. Retry
  BY DEF BInv, RoundsBudgeted, IInv, TypeOK, SearchState

LEMMA StartBudget ==
  ASSUME BInv, IInv', NEW s \in Call, Start(s)
  PROVE  BInv'
  <1> DEFINE Fits(x) == /\ searches' = [searches EXCEPT ![s] = x]
                        /\ x.budget = searches[s].budget /\ x.round = searches[s].round
                        /\ x.stage \in {"asking", "done"}
  <1>1. searches[s] \in SearchState
    BY CallBudgeted
  <1>2. \E x : Fits(x)
    <2>1. ASSUME NEW f \in LocalFull(s),
                 searches' = [searches EXCEPT ![s].stage = "done", ![s].result = f]
          PROVE  Fits([searches[s] EXCEPT !.stage = "done", !.result = f])
      BY <1>1, <2>1 DEF SearchState
    <2>2. ASSUME searches' = [searches EXCEPT ![s].stage = "asking",
                                              ![s].names = IF s \in All THEN naming ELSE {}]
          PROVE  Fits([searches[s] EXCEPT !.stage = "asking",
                                          !.names = IF s \in All THEN naming ELSE {}])
      BY <1>1, <2>2 DEF SearchState
    <2> HIDE DEF Fits
    <2> QED
      BY <2>1, <2>2 DEF Start
  <1>3. PICK x : Fits(x)
    BY <1>2
  <1>4. searches[s].stage = "idle"
    BY DEF Start
  <1>5. RoundsBudgeted' /\ \A i \in Id : Unasked(i)' => Unasked(i)
    BY <1>3, <1>4, CallBudgeted, SearchStep
  <1>6. UNCHANGED <<net, seen>>
    BY DEF Start
  <1>7. \A i \in Id : RequestsOf(i)' = RequestsOf(i)
    BY <1>6 DEF RequestsOf
  <1> QED
    BY <1>5, <1>6, <1>7, Quiet

LEMMA WakeUpBudget ==
  ASSUME BInv, IInv', NEW s \in Call, WakeUp(s)
  PROVE  BInv'
  <1> DEFINE Fits(x) ==
        /\ searches' = [searches EXCEPT ![s] = x]
        /\ \/ x.budget = searches[s].budget /\ x.round = searches[s].round /\ x.stage = "done"
           \/ /\ s \in First /\ x.budget = Factor * searches[s].budget
              /\ x.round = searches[s].round + 1 /\ x.stage = "asking"
  <1>1. searches[s] \in SearchState
    BY CallBudgeted
  <1>2. \E x : Fits(x)
    <2>1. ASSUME searches' = [searches EXCEPT ![s].stage = "done"]
          PROVE  Fits([searches[s] EXCEPT !.stage = "done"])
      BY <1>1, <2>1 DEF SearchState
    <2>2. ASSUME s \in First,
                 searches' = [searches EXCEPT ![s].stage = "asking", ![s].round = NextRound(@),
                                              ![s].budget = Factor * @]
          PROVE  Fits([searches[s] EXCEPT !.stage = "asking", !.round = NextRound(@),
                                          !.budget = Factor * @])
      BY <1>1, <2>2 DEF SearchState, NextRound
    <2>3. ASSUME NEW f \in searches[s].names,
                 searches' = [searches EXCEPT ![s].stage = "done", ![s].result = f]
          PROVE  Fits([searches[s] EXCEPT !.stage = "done", !.result = f])
      BY <1>1, <2>3 DEF SearchState
    <2> HIDE DEF Fits
    <2> QED
      BY <2>1, <2>2, <2>3 DEF WakeUp
  <1>3. PICK x : Fits(x)
    BY <1>2
  <1>4. s \in First => searches[s].round < Retry
    BY DEF WakeUp, BInv, IInv, RoundsLeft
  <1>5. s \in First => RingBudget[searches[s].round + 1] = Factor * searches[s].budget
    <2>1. ASSUME s \in First
          PROVE  searches[s].round + 1 \in 1 .. Retry
                 /\ (searches[s].round + 1) - 1 = searches[s].round
      BY <1>4, <2>1, CallBudgeted, RingAssumption
    <2> QED
      BY <2>1, RingOfBudgets, CallBudgeted
  <1>6. RoundsBudgeted' /\ \A i \in Id : Unasked(i)' => Unasked(i)
    <2>1. CASE x.budget = searches[s].budget /\ x.round = searches[s].round /\ x.stage = "done"
      BY <1>3, <2>1, CallBudgeted, SearchStep
    <2>2. CASE s \in First /\ x.budget = Factor * searches[s].budget
               /\ x.round = searches[s].round + 1 /\ x.stage = "asking"
      <3>1. s \notin All
        BY <2>2, CallAssumption
      <3> QED
        BY <1>3, <1>5, <2>2, <3>1, SearchStep
    <2> QED
      BY <1>3, <2>1, <2>2
  <1>7. UNCHANGED <<net, seen>>
    BY DEF WakeUp
  <1>8. \A i \in Id : RequestsOf(i)' = RequestsOf(i)
    BY <1>7 DEF RequestsOf
  <1> QED
    BY <1>6, <1>7, <1>8, Quiet

LEMMA CollectBudget ==
  ASSUME BInv, IInv', NEW i \in Id, Collects(i)
  PROVE  BInv'
  <1> DEFINE s == i[1]
  <1>1. s \in Call
    BY DEF Id, Call
  <1>2. RoundsBudgeted' /\ \A j \in Id : Unasked(j)' => Unasked(j)
    <2>1. CASE UNCHANGED searches
      BY <2>1, SameSearches
    <2>2. CASE Collect(i)
      <3>1. searches \in [Call -> SearchState]
        BY DEF BInv, IInv, TypeOK
      <3>2. PICK names : searches' = [searches EXCEPT ![s].names = names]
        BY <2>2 DEF Collect
      <3>3. \A t \in Call : /\ searches'[t].stage = searches[t].stage
                            /\ searches'[t].round = searches[t].round
                            /\ searches'[t].budget = searches[t].budget
        BY <1>1, <3>1, <3>2 DEF SearchState
      <3>4. \A j \in Id : j[1] \in Call
        BY DEF Id, Call
      <3> QED
        BY <3>3, <3>4 DEF BInv, RoundsBudgeted, Unasked, Call
    <2> QED
      BY <2>1, <2>2 DEF Collects, SetAckChannel, Close, DeleteAckChannel
  <1>3. UNCHANGED <<net, seen>>
    BY DEF Collects, Collect, SetAckChannel, Close, DeleteAckChannel
  <1>4. \A j \in Id : RequestsOf(j)' = RequestsOf(j)
    BY <1>3 DEF RequestsOf
  <1> QED
    BY <1>2, <1>3, <1>4, Quiet

LEMMA LoopBudget ==
  ASSUME BInv, IInv', \/ PassMsgToWaiter
                      \/ \E m \in net : m.type = "answer" /\ (Relay(m) \/ ExecSearchReplyMessage(m))
  PROVE  BInv'
  <1>1. UNCHANGED <<searches, seen>>
    BY DEF PassMsgToWaiter, Relay, ExecSearchReplyMessage
  <1>2. ASSUME NEW i \in Id PROVE RequestsOf(i)' = RequestsOf(i)
    <2>1. CASE UNCHANGED net
      BY <2>1 DEF RequestsOf
    <2>2. ASSUME NEW m \in net, m.type = "answer", Relay(m)
          PROVE  RequestsOf(i)' = RequestsOf(i)
      <3>1. [m EXCEPT !.at = Origin].type = "answer"
        BY <2>2 DEF BInv, IInv, TypeOK, Answer, RequestMessage
      <3> QED
        BY <2>2, <3>1 DEF Relay, RequestsOf
    <2>3. ASSUME NEW m \in net, m.type = "answer", ExecSearchReplyMessage(m)
          PROVE  RequestsOf(i)' = RequestsOf(i)
      BY <2>3 DEF ExecSearchReplyMessage, RequestsOf
    <2> QED
      BY <2>1, <2>2, <2>3 DEF PassMsgToWaiter
  <1> QED
    BY <1>1, <1>2, Quiet, SameSearches

(* The requests a node forwards take what it has left, and no more. *)
LEMMA Forwarded ==
  ASSUME NEW m \in RequestMessage, NEW requests \in Forwards(m)
  PROVE  /\ IsFiniteSet(Units(requests))
         /\ Cardinality(Units(requests)) <= m.budget - 1
         /\ \A q \in requests : q.type = "request" /\ q.id = m.id
  <1> DEFINE n      == m.to
             budget == Remaining(m.budget)
             nbrs   == Cardinality(Nbrs[n])
             shares == Shares(budget, nbrs)
  <1>1. n \in Node /\ budget \in Nat /\ budget = m.budget - 1 /\ nbrs \in Nat
    BY Sizes DEF RequestMessage, Remaining
  <1>2. PICK to \in IF Nbrs[n] = {m.from} THEN {<<>>} ELSE [shares -> Nbrs[n] \ {m.from}] :
          requests = {Request(m.id, Share(budget, nbrs, i), n, to[i], i) : i \in DOMAIN to}
    BY DEF Forwards
  <1>3. \A i \in DOMAIN to : i \in shares
    BY <1>2
  <1> HIDE DEF n, budget, nbrs, shares
  <1>4. ASSUME NEW q \in requests
        PROVE  \E i \in DOMAIN to : q = Request(m.id, Share(budget, nbrs, i), n, to[i], i)
                                    /\ q.share = i /\ q.budget = Share(budget, nbrs, i)
                                    /\ q.type = "request" /\ q.id = m.id
    BY <1>2 DEF Request
  <1>5. \A q \in requests : q.share \in Shares(budget, nbrs)
                            /\ q.budget = Share(budget, nbrs, q.share)
    BY <1>3, <1>4 DEF shares
  <1>6. \A p, q \in requests : p.share = q.share => p = q
    BY <1>4
  <1>7. IsFiniteSet(Units(requests)) /\ Cardinality(Units(requests)) <= budget
    BY <1>1, <1>5, <1>6, Dealt
  <1> QED
    BY <1>1, <1>4, <1>7

LEMMA ExecRequestBudget ==
  ASSUME BInv, IInv', NEW m \in net, m.type = "request", ExecSearchRequestMessage(m)
  PROVE  BInv'
  <1>1. m \in RequestMessage
    BY DEF BInv, IInv, TypeOK, Answer
  <1>2. m.to \in Node /\ m.id \in Id /\ m.budget \in Nat \ {0} /\ m \in RequestsOf(m.id)
    BY <1>1 DEF RequestMessage, RequestsOf
  <1>3. UNCHANGED searches
    BY DEF ExecSearchRequestMessage
  <1>4. RoundsBudgeted' /\ \A i \in Id : Unasked(i)' <=> Unasked(i)
    BY <1>3, SameSearches
  <1>5. ASSUME NEW i \in Id
        PROVE  /\ Allowance(i) \in Nat /\ Allowance(i)' = Allowance(i)
               /\ Counted(RequestsOf(i), Handled(i), Allowance(i))
               /\ Unasked(i)' => i # m.id /\ RequestsOf(i) = {} /\ Handled(i) = {}
    BY <1>2, <1>4, AllowanceType DEF Allowance, BInv, AllCounted, IdsFresh
  <1>6. CASE m.id \in seen[m.to]
    <2>1. UNCHANGED seen /\ net' = net \ {m}
      BY <1>6 DEF ExecSearchRequestMessage
    <2>2. ASSUME NEW i \in Id
          PROVE  Handled(i)' = Handled(i) /\ RequestsOf(i)' \in SUBSET RequestsOf(i)
      BY <2>1 DEF Handled, RequestsOf
    <2>3. AllCounted'
      BY <1>5, <2>2, FewerCounted DEF AllCounted
    <2>4. IdsFresh'
      BY <1>5, <2>2 DEF IdsFresh
    <2> QED
      BY <1>4, <2>3, <2>4 DEF BInv
  <1>7. CASE m.id \notin seen[m.to]
    <2> DEFINE answer == [type |-> "answer", id |-> m.id, source |-> m.to, at |-> m.from,
                          files |-> Files(m.to)]
    <2>1. PICK requests \in Forwards(m) : net' = (net \ {m}) \cup requests \cup {answer}
      BY <1>7 DEF ExecSearchRequestMessage
    <2>2. answer.type = "answer"
      OBVIOUS
    <2>3. seen' = [seen EXCEPT ![m.to] = @ \cup {m.id}] /\ seen \in [Node -> SUBSET Id]
      BY <1>7 DEF ExecSearchRequestMessage, BInv, IInv, TypeOK
    <2>4. /\ IsFiniteSet(Units(requests))
          /\ Cardinality(Units(requests)) <= m.budget - 1
          /\ \A q \in requests : q.type = "request" /\ q.id = m.id
      BY <1>1, Forwarded
    <2> HIDE DEF answer
    <2>5. RequestsOf(m.id)' = (RequestsOf(m.id) \ {m}) \cup requests
      BY <2>1, <2>2, <2>4 DEF RequestsOf
    <2>6. Handled(m.id)' = Handled(m.id) \cup {m.to} /\ m.to \notin Handled(m.id)
      BY <1>2, <1>7, <2>3 DEF Handled
    <2>7. ASSUME NEW i \in Id, i # m.id
          PROVE  RequestsOf(i)' = RequestsOf(i) /\ Handled(i)' = Handled(i)
      <3>1. RequestsOf(i)' = RequestsOf(i)
        BY <2>1, <2>2, <2>4, <2>7 DEF RequestsOf
      <3>2. Handled(i)' = Handled(i)
        BY <2>3, <2>7 DEF Handled
      <3> QED
        BY <3>1, <3>2
    <2>8. Counted(RequestsOf(m.id)', Handled(m.id)', Allowance(m.id)')
      <3>1. Counted((RequestsOf(m.id) \ {m}) \cup requests, Handled(m.id) \cup {m.to},
                    Allowance(m.id))
        BY <1>2, <1>5, <2>4, <2>6, Spent
      <3> QED
        BY <1>2, <1>5, <2>5, <2>6, <3>1
    <2>9. AllCounted'
      BY <1>5, <2>7, <2>8 DEF AllCounted
    <2>10. IdsFresh'
      BY <1>5, <2>7 DEF IdsFresh
    <2> QED
      BY <1>4, <2>9, <2>10 DEF BInv
  <1> QED
    BY <1>6, <1>7

LEMMA AskBudget ==
  ASSUME BInv, IInv', NEW s \in Call, Ask(s)
  PROVE  BInv'
  <1> DEFINE budget == searches[s].budget
             round  == searches[s].round
             shares == Shares(budget, MaxShares)
             Sent(i, to) == Request(IdOf(s, i), Share(budget, MaxShares, i), Origin, to, i)
  <1>1. /\ s \in All => budget = Budget
        /\ s \in First => budget = RingBudget[round]
        /\ searches[s] \in SearchState /\ budget \in Nat /\ round \in 0 .. Retry
        /\ searches[s].stage = "asking" /\ UNCHANGED seen
    BY CallBudgeted DEF Ask
  <1>2. ASSUME NEW stage \in {"done", "sleeping"}, searches' = [searches EXCEPT ![s].stage = stage]
        PROVE  RoundsBudgeted' /\ \A i \in Id : Unasked(i)' => Unasked(i)
    <2> DEFINE x == [searches[s] EXCEPT !.stage = stage]
    <2>1. /\ searches' = [searches EXCEPT ![s] = x] /\ x.stage = stage
          /\ x.budget = budget /\ x.round = round
      BY <1>1, <1>2 DEF SearchState
    <2> HIDE DEF x, budget, round
    <2> QED
      BY <1>1, <2>1, SearchStep DEF budget, round
  <1>3. CASE UNCHANGED net
    <2>1. \A i \in Id : RequestsOf(i)' = RequestsOf(i)
      BY <1>3 DEF RequestsOf
    <2>2. \E stage \in {"done", "sleeping"} : searches' = [searches EXCEPT ![s].stage = stage]
      BY DEF Ask
    <2> QED
      BY <1>1, <1>2, <2>1, <2>2, Quiet
  <1>4. ASSUME NEW to \in Chosen(s, shares), s \in First => round < Retry,
               net' = net \cup {Sent(i, to[i]) : i \in shares},
               searches' = [searches EXCEPT ![s].stage = "sleeping"]
        PROVE  BInv'
    <2>1. RoundsBudgeted' /\ \A i \in Id : Unasked(i)' => Unasked(i)
      BY <1>2, <1>4
    <2>2. \A i \in Id : Handled(i)' = Handled(i) /\ Allowance(i)' = Allowance(i)
      BY <1>1 DEF Handled, Allowance
    <2>3. \A i \in shares : i \in 1 .. MaxShares /\ Share(budget, MaxShares, i) \in Nat \ {0}
      BY <1>1, Sizes, SharesPositive
    <2> DEFINE New(id) == {Sent(i, to[i]) : i \in {k \in shares : IdOf(s, k) = id}}
    <2>4. ASSUME NEW id \in Id
          PROVE  RequestsOf(id)' = RequestsOf(id) \cup New(id)
      BY <1>4 DEF RequestsOf, Request
    <2>5. ASSUME NEW id \in Id, New(id) # {}
          PROVE  /\ Unasked(id) /\ ~Unasked(id)'
                 /\ id[1] = s /\ (s \in First => id[2] = round)
      <3>1. PICK k \in shares : IdOf(s, k) = id
        BY <2>5
      <3>2. id[1] = s /\ (s \in First => id[2] = round)
        BY <3>1, CallAssumption DEF IdOf, Call
      <3>3. Unasked(id)
        BY <1>1, <3>2 DEF Unasked
      <3>4. searches'[s].stage = "sleeping" /\ searches'[s].round = round
        BY <1>1, <1>4 DEF BInv, IInv, TypeOK, SearchState
      <3>5. ~Unasked(id)'
        BY <1>1, <3>2, <3>4 DEF Unasked
      <3> QED
        BY <3>2, <3>3, <3>5
    <2>6. ASSUME NEW id \in Id, New(id) # {}
          PROVE  IsFiniteSet(Units(New(id))) /\ Cardinality(Units(New(id))) <= Allowance(id)
      <3>1. CASE s \in All
        <4>1. \A q \in New(id) : q.share \in shares /\ q.budget = Share(budget, MaxShares, q.share)
          BY DEF Request
        <4>2. \A p, q \in New(id) : p.share = q.share => p = q
          BY DEF Request
        <4>3. Allowance(id) = budget
          BY <1>1, <2>5, <2>6, <3>1 DEF Allowance
        <4> HIDE DEF New
        <4> QED
          BY <1>1, <4>1, <4>2, <4>3, Dealt, Sizes
      <3>2. CASE s \notin All
        <4>1. PICK k \in shares : IdOf(s, k) = id
          BY <2>6
        <4>2. id = <<s, round, k>> /\ \A j \in shares : IdOf(s, j) = id => j = k
          BY <3>2, <4>1 DEF IdOf
        <4>3. New(id) = {Sent(k, to[k])}
          BY <4>1, <4>2
        <4>4. Sent(k, to[k]).budget = Share(budget, MaxShares, k)
          BY DEF Request
        <4>5. Allowance(id) = Share(budget, MaxShares, k)
          BY <1>1, <3>2, <4>2 DEF Allowance, Call
        <4>6. Share(budget, MaxShares, k) \in Nat
          BY <2>3
        <4> HIDE DEF Sent, New, budget
        <4> QED
          BY <4>3, <4>4, <4>5, <4>6, UnitsOfOne
      <3> QED
        BY <3>1, <3>2
    <2> HIDE DEF New
    <2>7. ASSUME NEW id \in Id PROVE Counted(RequestsOf(id)', Handled(id)', Allowance(id)')
      <3>1. CASE New(id) = {}
        BY <2>2, <2>4, <3>1 DEF BInv, AllCounted
      <3>2. CASE New(id) # {}
        <4>1. RequestsOf(id) = {} /\ Handled(id) = {}
          BY <2>5, <3>2 DEF BInv, IdsFresh
        <4>2. RequestsOf(id)' = New(id) /\ Handled(id)' = {}
          BY <2>2, <2>4, <4>1
        <4>3. Cardinality(Units(New(id))) \in Nat
          BY <2>6, <3>2, FS_CardinalityType
        <4>4. Allowance(id) \in Nat
          BY AllowanceType
        <4> QED
          BY <2>2, <2>6, <3>2, <4>2, <4>3, <4>4, FS_EmptySet DEF Counted
      <3> QED
        BY <3>1, <3>2
    <2>8. AllCounted'
      BY <2>7 DEF AllCounted
    <2>9. IdsFresh'
      BY <2>1, <2>2, <2>4, <2>5 DEF BInv, IdsFresh
    <2> QED
      BY <2>1, <2>8, <2>9 DEF BInv
  <1>5. s \in First => (round >= Retry <=> ~(round < Retry))
    BY <1>1, RingAssumption
  <1>6. UNCHANGED net \/ \E to \in Chosen(s, shares) :
           /\ s \in First => round < Retry
           /\ net' = net \cup {Sent(i, to[i]) : i \in shares}
           /\ searches' = [searches EXCEPT ![s].stage = "sleeping"]
    BY <1>5 DEF Ask
  <1> HIDE DEF shares, Sent, round, budget
  <1> QED
    BY <1>3, <1>4, <1>6

LEMMA StepBInv == BInv /\ [Next]_vars => BInv'
  <1> SUFFICES ASSUME BInv, [Next]_vars PROVE BInv'
    OBVIOUS
  <1>1. IInv'
    BY StepIInv DEF BInv
  <1>2. CASE UNCHANGED vars
    <2>1. UNCHANGED <<searches, seen, net>>
      BY <1>2 DEF vars
    <2>2. \A i \in Id : RequestsOf(i)' = RequestsOf(i)
      BY <2>1 DEF RequestsOf
    <2> QED
      BY <1>1, <2>1, <2>2, Quiet, SameSearches
  <1> QED
    BY <1>1, <1>2, ExecRequestBudget, LoopBudget, StartBudget, AskBudget, WakeUpBudget,
       CollectBudget DEF Next

(* The budget bounds the nodes that handle a request, whatever the network *)
(* of neighbours, however the budget is divided and wherever the requests  *)
(* meet, and so does the budget of every round of the expanding ring.      *)
THEOREM BudgetBounds == Spec => []BudgetKept
  <1>1. BInv => BudgetKept
    BY DEF BInv, AllCounted, Counted, BudgetKept
  <1> QED
    BY <1>1, InitBInv, StepBInv, PTL DEF Spec

=================================================================================
