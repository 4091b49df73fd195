--------------------------------- MODULE Search ---------------------------------
(***************************************************************************)
(* Searches of one node for files by name.  A search divides its budget    *)
(* among requests to neighbours, each of which answers and divides what is *)
(* left among its own.  Answers go back to the origin through the node the *)
(* request came from, and tell the origin who has what.  A goroutine       *)
(* collects the names in the answers until the search ends; the receive    *)
(* loop passes them through a channel that is in a pool while it does.     *)
(*                                                                         *)
(* What the nodes hold does not change while they search.                  *)
(***************************************************************************)
EXTENDS Naturals, FiniteSets, SequencesExt

CONSTANTS Node, Origin,
          Nbrs,     \* the neighbours of each node
          Name,     \* names of files that match the pattern
          Meta,     \* Meta[name]: the metahash of the file
          Chunks,   \* Chunks[name]: the hashes of its chunks
          Tagged,   \* Tagged[node]: names in its naming store at first
          Holds,    \* Holds[node]: hashes in its blob store
          All,      \* calls of SearchAll
          First,    \* calls of SearchFirst
          MaxCalls, \* bound: calls that are made
          Budget,   \* the budget of SearchAll
          Initial,  \* ExpandingRing.Initial of SearchFirst
          Factor,   \* ExpandingRing.Factor
          Retry,    \* ExpandingRing.Retry
          Nobody    \* no name

Call == All \cup First
Key  == {Meta[f] : f \in Name} \cup UNION {Chunks[f] : f \in Name}

ASSUME NodeAssumption == Origin \in Node /\ Nbrs \in [Node -> SUBSET (Node)]
                         /\ \A n \in Node : IsFiniteSet(Nbrs[n]) /\ n \notin Nbrs[n]
ASSUME FileAssumption == Tagged \in [Node -> SUBSET Name] /\ Holds \in [Node -> SUBSET Key]
                         /\ Nobody \notin Name
ASSUME CallAssumption == All \cap First = {}
ASSUME RingAssumption == Budget \in Nat /\ Initial \in Nat /\ Factor \in Nat /\ Retry \in Nat

VARIABLES
  searches,    \* the calls of the user
  collectors,  \* the goroutines that collect answers, by request id
  pool,        \* searchAllReplyChannels and searchFirstReplyChannels
  naming,      \* the naming store of the origin
  catalog,     \* its Catalog
  loop,        \* the answer its receive loop passes on, if any
  seen,        \* searchRequestsReceived of each node
  net          \* requests and answers under way

vars == <<searches, collectors, pool, naming, catalog, loop, seen, net>>

FirstBudget(s) == IF s \in All THEN Budget ELSE Initial

(* divideBudget: the share of the i-th of the requests to be sent when     *)
(* there are so many neighbours; those without share are not sent.         *)
Share(budget, nbrs, i) == (budget \div nbrs) + (IF i <= budget % nbrs THEN 1 ELSE 0)

Shares(budget, nbrs) == IF nbrs = 0 THEN {} ELSE 1 .. (IF budget < nbrs THEN budget ELSE nbrs)

MaxShares == Cardinality(Nbrs[Origin])

(* The id of a request: SearchAll uses one, SearchFirst one per request. *)
Id == (All \X {0} \X {0}) \cup (First \X (0 .. Retry - 1) \X (1 .. MaxShares))

IdOf(s, share) == IF s \in All THEN <<s, 0, 0>> ELSE <<s, searches[s].round, share>>

NoPass == [stage |-> "idle"]

Init ==
  /\ searches = [s \in Call |-> [stage |-> "idle", round |-> 0, budget |-> FirstBudget(s),
                               names |-> {}, result |-> Nobody]]
  /\ collectors = [i \in Id |-> [stage |-> "none", told |-> FALSE, buffer |-> <<>>]]
  /\ pool = {}
  /\ naming = Tagged[Origin]
  /\ catalog = [k \in Key |-> {}]
  /\ loop = NoPass
  /\ seen = [n \in Node |-> {}]
  /\ net = {}

-----------------------------------------------------------------------------
(* Every node: ExecSearchRequestMessage.                                   *)

(* The files a node can tell of: it has the metafile.  Their chunks it has *)
(* are told of too.                                                        *)
Files(n) == {f \in (IF n = Origin THEN naming ELSE Tagged[n]) : Meta[f] \in Holds[n]}

Request(id, budget, from, to, share) ==
  [type |-> "request", id |-> id, budget |-> budget, from |-> from, to |-> to, share |-> share]

(* Mutant of Remaining: the node itself costs nothing. *)
RemainingAll(budget) == budget

Remaining(budget) == budget - 1

(* forwardSearchRequest: the budget is divided by the number of neighbours *)
(* and each share goes to any of them but the sender, maybe to one twice.  *)
Forwards(m) ==
  LET n      == m.to
      nbrs   == Cardinality(Nbrs[n])
      shares == Shares(Remaining(m.budget), nbrs)
  IN {{Request(m.id, Share(Remaining(m.budget), nbrs, i), n, to[i], i) : i \in DOMAIN to} :
        to \in IF Nbrs[n] = {m.from} THEN {<<>>} ELSE [shares -> Nbrs[n] \ {m.from}]}

ExecSearchRequestMessage(m) ==
  /\ m.to = Origin => loop = NoPass
  /\ IF m.id \in seen[m.to]
     THEN net' = net \ {m} /\ UNCHANGED seen
     ELSE /\ seen' = [seen EXCEPT ![m.to] = @ \cup {m.id}]
          /\ \E requests \in Forwards(m) :
               net' = (net \ {m}) \cup requests \cup
                        {[type |-> "answer", id |-> m.id, source |-> m.to, at |-> m.from,
                          files |-> Files(m.to)]}
  /\ UNCHANGED <<searches, collectors, pool, naming, catalog, loop>>

(* handlePacket of the node an answer comes through. *)
Relay(m) ==
  /\ m.at # Origin
  /\ net' = (net \ {m}) \cup {[m EXCEPT !.at = Origin]}
  /\ UNCHANGED <<searches, collectors, pool, naming, catalog, loop, seen>>

-----------------------------------------------------------------------------
(* The origin: its receive loop.                                           *)

(* Mutant of Told: all chunks of a file are taken to be where its metafile is. *)
ToldAll(m, k) == \E f \in m.files : k = Meta[f] \/ k \in Chunks[f]

(* The answer says that its source has k. *)
Told(m, k) == \E f \in m.files : k = Meta[f] \/ k \in Chunks[f] \cap Holds[m.source]

ExecSearchReplyMessage(m) ==
  /\ m.at = Origin /\ loop = NoPass
  /\ naming' = naming \cup m.files
  /\ catalog' = [k \in Key |-> IF Told(m, k) THEN catalog[k] \cup {m.source} ELSE catalog[k]]
  /\ loop' = IF m.id \in pool THEN [stage |-> "passing", answer |-> m] ELSE NoPass
  /\ net' = net \ {m}
  /\ UNCHANGED <<searches, collectors, pool, seen>>

(* passMsgToWaiter: waits while the channel is full; on a closed one it    *)
(* panics, which ProcessPacket recovers from.                              *)
PassMsgToWaiter ==
  /\ loop # NoPass
  /\ LET id == loop.answer.id
     IN \/ collectors[id].stage = "closed" /\ UNCHANGED collectors
        \/ /\ collectors[id].stage # "closed" /\ collectors[id].buffer = <<>>
           /\ collectors' = [collectors EXCEPT ![id].buffer = <<loop.answer>>]
  /\ loop' = NoPass
  /\ UNCHANGED <<searches, pool, naming, catalog, seen, net>>

-----------------------------------------------------------------------------
(* The origin: the calls.                                                  *)

Full(f, n) == Meta[f] \in Holds[n] /\ Chunks[f] \subseteq Holds[n]

(* SearchFirst looks at the local files first. *)
LocalFull(s) == {f \in naming : s \in First /\ Full(f, Origin)}

Start(s) ==
  /\ searches[s].stage = "idle"
  /\ Cardinality({t \in Call : searches[t].stage # "idle"}) < MaxCalls
  /\ \/ \E f \in LocalFull(s) :
          searches' = [searches EXCEPT ![s].stage = "done", ![s].result = f]
     \/ /\ LocalFull(s) = {}
        /\ searches' = [searches EXCEPT ![s].stage = "asking",
                                        ![s].names = IF s \in All THEN naming ELSE {}]
  /\ UNCHANGED <<collectors, pool, naming, catalog, loop, seen, net>>

(* SearchAll chooses a neighbour it has not sent to for each request,      *)
(* SearchFirst any.                                                        *)
Chosen(s, shares) ==
  {to \in [shares -> Nbrs[Origin]] :
     s \in All => \A i, j \in shares : to[i] = to[j] => i = j}

Ask(s) ==
  /\ searches[s].stage = "asking"
  /\ LET nbrs   == MaxShares
         budget == searches[s].budget
         shares == Shares(budget, nbrs)
         ids    == IF s \in All THEN {IdOf(s, 0)} ELSE {IdOf(s, i) : i \in shares}
     IN IF s \in First /\ searches[s].round >= Retry
        THEN searches' = [searches EXCEPT ![s].stage = "done"] /\ UNCHANGED <<collectors, net>>
        ELSE /\ \E to \in Chosen(s, shares) :
                  net' = net \cup {Request(IdOf(s, i), Share(budget, nbrs, i), Origin, to[i], i) :
                                      i \in shares}
             /\ searches' = [searches EXCEPT ![s].stage = "sleeping"]
             /\ collectors' = [i \in Id |-> IF i \in ids
                                            THEN [collectors[i] EXCEPT !.stage = "starting"]
                                            ELSE collectors[i]]
  /\ UNCHANGED <<pool, naming, catalog, loop, seen>>

NextRound(round) == round + 1

(* The timeout: the goroutines are told to stop, and whatever they have    *)
(* collected by now counts.                                                *)
WakeUp(s) ==
  /\ searches[s].stage = "sleeping"
  /\ collectors' = [i \in Id |->
       IF i[1] = s /\ collectors[i].stage \in {"starting", "collecting"}
       THEN [collectors[i] EXCEPT !.told = TRUE] ELSE collectors[i]]
  /\ \/ s \in All /\ searches' = [searches EXCEPT ![s].stage = "done"]
     \/ /\ s \in First /\ searches[s].names = {}
        /\ searches' = [searches EXCEPT ![s].stage = "asking", ![s].round = NextRound(@),
                                        ![s].budget = Factor * @]
     \/ /\ s \in First
        /\ \E f \in searches[s].names :
             searches' = [searches EXCEPT ![s].stage = "done", ![s].result = f]
  /\ UNCHANGED <<pool, naming, catalog, loop, seen, net>>

-----------------------------------------------------------------------------
(* The origin: waitForSearchAllReplyMsg, waitForSearchFirstReplyMsg.       *)

SetAckChannel(i) ==
  /\ collectors[i].stage = "starting"
  /\ collectors' = [collectors EXCEPT ![i].stage = "collecting"]
  /\ pool' = pool \cup {i}
  /\ UNCHANGED <<searches, naming, catalog, loop, seen, net>>

(* Mutant of Matching: a file counts although chunks are missing. *)
MatchingAny(s, m) == m.files

(* checkFileInfoFullFile, for SearchFirst. *)
Matching(s, m) == {f \in m.files : s \in All \/ Full(f, m.source)}

Collect(i) ==
  /\ collectors[i].stage = "collecting" /\ collectors[i].buffer # <<>>
  /\ searches' = [searches EXCEPT ![i[1]].names = @ \cup Matching(i[1], Head(collectors[i].buffer))]
  /\ collectors' = [collectors EXCEPT ![i].buffer = <<>>]
  /\ UNCHANGED <<pool, naming, catalog, loop, seen, net>>

(* Mutant of AfterClose: the channel is left open. *)
AfterLeave(collector) == [collector EXCEPT !.stage = "left"]

AfterClose(collector) == [collector EXCEPT !.stage = "closed", !.buffer = <<>>]

(* timeoutChan: the channel is closed, and then leaves the pool. *)
Close(i) ==
  /\ collectors[i].stage = "collecting" /\ collectors[i].told
  /\ collectors' = [collectors EXCEPT ![i] = AfterClose(@)]
  /\ UNCHANGED <<searches, pool, naming, catalog, loop, seen, net>>

DeleteAckChannel(i) ==
  /\ collectors[i].stage \notin {"none", "starting", "collecting"} /\ i \in pool
  /\ pool' = pool \ {i}
  /\ UNCHANGED <<searches, collectors, naming, catalog, loop, seen, net>>

Collects(i) == SetAckChannel(i) \/ Collect(i) \/ Close(i) \/ DeleteAckChannel(i)

-----------------------------------------------------------------------------
Next ==
  \/ \E m \in net : \/ m.type = "request" /\ ExecSearchRequestMessage(m)
                    \/ m.type = "answer" /\ (Relay(m) \/ ExecSearchReplyMessage(m))
  \/ PassMsgToWaiter
  \/ \E s \in Call : Start(s) \/ Ask(s) \/ WakeUp(s)
  \/ \E i \in Id : Collects(i)

(* Goroutines that can go on do, and a call that sleeps wakes up; packets  *)
(* may never arrive, and nobody has to search.                             *)
Fairness ==
  /\ WF_vars(PassMsgToWaiter)
  /\ \A s \in Call : WF_vars(Ask(s) \/ WakeUp(s))
  /\ \A i \in Id : WF_vars(Collects(i))

Spec == Init /\ [][Next]_vars /\ Fairness

-----------------------------------------------------------------------------
(* Properties.                                                             *)

SearchState ==
  [stage : {"idle", "asking", "sleeping", "done"}, round : 0 .. Retry, budget : Nat,
   names : SUBSET Name, result : Name \cup {Nobody}]

Answer == [type : {"answer"}, id : Id, source : Node, at : Node, files : SUBSET Name]

RequestMessage ==
  [type : {"request"}, id : Id, budget : Nat \ {0}, from : Node, to : Node, share : Nat \ {0}]

Buffer == {<<>>} \cup {<<m>> : m \in Answer}

CollectorState ==
  [stage : {"none", "starting", "collecting", "closed"}, told : BOOLEAN, buffer : Buffer]

TypeOK ==
  /\ searches \in [Call -> SearchState]
  /\ collectors \in [Id -> CollectorState]
  /\ pool \subseteq Id
  /\ naming \subseteq Name
  /\ catalog \in [Key -> SUBSET Node]
  /\ loop = NoPass \/ loop \in [stage : {"passing"}, answer : Answer]
  /\ seen \in [Node -> SUBSET Id]
  /\ net \subseteq RequestMessage \cup Answer

(* The budget of each round of the expanding ring. *)
RingBudget[round \in 0 .. Retry] ==
  IF round = 0 THEN Initial ELSE Factor * RingBudget[round - 1]

(* What a request may cost: SearchAll's requests have one id. *)
Allowance(i) ==
  IF i[1] \in All THEN Budget ELSE Share(RingBudget[i[2]], MaxShares, i[3])

RequestsOf(i) == {m \in net : m.type = "request" /\ m.id = i}

(* The budget that is under way, unit by unit. *)
Units(requests) == UNION {{m} \X (1 .. m.budget) : m \in requests}

Handled(i) == {n \in Node : i \in seen[n]}

(* However it is divided, forwarded, comes back or meets the same node     *)
(* again, a request is handled by no more nodes than its budget says, what *)
(* is under way included.                                                  *)
BudgetKept ==
  \A i \in Id :
    Cardinality(Units(RequestsOf(i))) + Cardinality(Handled(i)) <= Allowance(i)

(* "available at peers whose addresses are": whom Catalog names for a hash *)
(* has it, whoever the answer came through.                                *)
CatalogHonest == \A k \in Key : \A n \in catalog[k] : k \in Holds[n]

(* SearchFirst "returns a name as soon as it finds a peer that fully       *)
(* matches": a file is returned only if one node has all of it.            *)
FirstIsFull ==
  \A s \in First : searches[s].result # Nobody =>
    \E n \in Node : Full(searches[s].result, n)

(* Every search ends, and answers that are late or too many hold up        *)
(* neither it nor the receive loop.                                        *)
SearchesEnd ==
  /\ \A s \in Call : searches[s].stage # "idle" ~> searches[s].stage = "done"
  /\ loop # NoPass ~> loop = NoPass
=============================================================================
