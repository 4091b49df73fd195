----------------------------- MODULE RegistryProofs -----------------------------
(***************************************************************************)
(* Theorems about Registry, for any number of goroutines that process      *)
(* packets, of pages and connections, and channels of any capacity.        *)
(***************************************************************************)
EXTENDS Registry, SequenceTheorems, TLAPS

(***************************************************************************)
(* The inductive invariant. While one packet is handed out no connection   *)
(* is added and no other packet is begun, so each is pushed once on every  *)
(* connection there is; and a page that connects again does it when all    *)
(* that its former connections can show has been handed out to the end.    *)
(***************************************************************************)

(* The goroutine that holds the lock is the one that hands a packet out;   *)
(* those that wait for it have not begun.                                  *)
LockHeld ==
  \A k \in Packet :
    /\ notifiers[k].stage = "running" <=> lock = k
    /\ notifiers[k].stage \in {"none", "waiting"} => notifiers[k].next = 1
    /\ notifiers[k].stage = "none" <=> k > processed

Begun(k) == notifiers[k].stage \in {"running", "done"}

(* A connection was given distinct packets, the one that is handed out     *)
(* only when its turn had come.                                            *)
HandedOut ==
  \A f \in DOMAIN feeds :
    /\ feeds[f].shown <= feeds[f].read
    /\ \A i \in 1 .. Len(feeds[f].pushed) :
         /\ Begun(feeds[f].pushed[i])
         /\ feeds[f].pushed[i] = lock => f < notifiers[lock].next
    /\ \A i, j \in 1 .. Len(feeds[f].pushed) :
         feeds[f].pushed[i] = feeds[f].pushed[j] => i = j

(* A page with a live connection knows. *)
LiveIsOn == \A f \in DOMAIN feeds : feeds[f].stage = "live" => pages[feeds[f].page] = "on"

(* What a former connection f of the page of g showed. *)
ShownBefore ==
  \A f, g \in DOMAIN feeds :
    f < g /\ feeds[f].page = feeds[g].page =>
      /\ feeds[f].stage # "live"
      /\ \A i \in 1 .. feeds[f].shown :
           /\ notifiers[feeds[f].pushed[i]].stage = "done"
           /\ \A j \in 1 .. Len(feeds[g].pushed) : feeds[f].pushed[i] # feeds[g].pushed[j]

IInv == TypeOK /\ LockHeld /\ HandedOut /\ LiveIsOn /\ ShownBefore /\ FeedsAgree

-----------------------------------------------------------------------------
(* Suffixes.                                                               *)

LEMMA SuffixByElements ==
  ASSUME NEW S, NEW s \in Seq(S), NEW t \in Seq(S)
  PROVE  IsSuffix(s, t) <=>
           /\ Len(s) <= Len(t)
           /\ \A i \in 1 .. Len(s) : s[(Len(s) - i) + 1] = t[(Len(t) - i) + 1]
  <1> DEFINE rs == [i \in 1 .. Len(s) |-> s[(Len(s) - i) + 1]]
             rt == [i \in 1 .. Len(t) |-> t[(Len(t) - i) + 1]]
  <1>1. Len(s) \in Nat /\ Len(t) \in Nat
    OBVIOUS
  <1>2. rs \in Seq(S) /\ Len(rs) = Len(s) /\ \A i \in 1 .. Len(s) : rs[i] = s[(Len(s) - i) + 1]
    BY <1>1
  <1>3. rt \in Seq(S) /\ Len(rt) = Len(t) /\ \A i \in 1 .. Len(t) : rt[i] = t[(Len(t) - i) + 1]
    BY <1>1
  <1>4. IsSuffix(s, t) <=>
          Len(rs) <= Len(rt) /\ SubSeq(rs, 1, Len(rs)) = SubSeq(rt, 1, Len(rs))
    BY DEF IsSuffix, IsPrefix, Reverse
  <1> HIDE DEF rs, rt
  <1>5. CASE Len(s) <= Len(t)
    <2>1. \A i \in 1 .. Len(s) : rs[i] \in S /\ rt[i] \in S
      BY <1>1, <1>2, <1>3, <1>5
    <2>2. /\ SubSeq(rs, 1, Len(s)) \in Seq(S) /\ Len(SubSeq(rs, 1, Len(s))) = Len(s)
          /\ \A i \in 1 .. Len(s) : SubSeq(rs, 1, Len(s))[i] = rs[i]
      BY <1>1, <2>1, SubSeqProperties
    <2>3. /\ SubSeq(rt, 1, Len(s)) \in Seq(S) /\ Len(SubSeq(rt, 1, Len(s))) = Len(s)
          /\ \A i \in 1 .. Len(s) : SubSeq(rt, 1, Len(s))[i] = rt[i]
      BY <1>1, <2>1, SubSeqProperties
    <2>4. SubSeq(rs, 1, Len(s)) = SubSeq(rt, 1, Len(s)) <=> \A i \in 1 .. Len(s) : rs[i] = rt[i]
      <3>1. ASSUME \A i \in 1 .. Len(s) : rs[i] = rt[i]
            PROVE  SubSeq(rs, 1, Len(s)) = SubSeq(rt, 1, Len(s))
        BY <2>2, <2>3, <3>1, SeqEqual
      <3> QED
        BY <2>2, <2>3, <3>1
    <2>5. ASSUME NEW i \in 1 .. Len(s)
          PROVE  rs[i] = s[(Len(s) - i) + 1] /\ rt[i] = t[(Len(t) - i) + 1]
      <3>1. i \in 1 .. Len(t)
        BY <1>1, <1>5
      <3> QED
        BY <1>2, <1>3, <3>1, Zenon
    <2> QED
      BY <1>2, <1>3, <1>4, <1>5, <2>4, <2>5
  <1>6. CASE ~(Len(s) <= Len(t))
    BY <1>2, <1>3, <1>4, <1>6
  <1> QED
    BY <1>5, <1>6

LEMMA AppendElements ==
  ASSUME NEW S, NEW s \in Seq(S), NEW e \in S
  PROVE  /\ Append(s, e) \in Seq(S) /\ Len(s) \in Nat /\ Len(Append(s, e)) = Len(s) + 1
         /\ \A i \in 1 .. Len(s) : Append(s, e)[i] = s[i]
         /\ \A i \in 1 .. Len(Append(s, e)) :
              \/ i \in 1 .. Len(s) /\ Append(s, e)[i] = s[i]
              \/ i = Len(s) + 1 /\ Append(s, e)[i] = e
  OBVIOUS

LEMMA IsAppend ==
  ASSUME NEW S, NEW s \in Seq(S), NEW e \in S, NEW t \in Seq(S),
         Len(t) = Len(s) + 1, t[Len(s) + 1] = e, \A i \in 1 .. Len(s) : t[i] = s[i]
  PROVE  t = Append(s, e)
  <1> DEFINE u == Append(s, e)
  <1>1. /\ u \in Seq(S) /\ Len(s) \in Nat /\ Len(u) = Len(s) + 1
        /\ u[Len(s) + 1] = e /\ \A i \in 1 .. Len(s) : u[i] = s[i]
    OBVIOUS
  <1> HIDE DEF u
  <1>2. \A i \in 1 .. Len(u) : u[i] = t[i]
    BY <1>1
  <1>3. u = t
    BY <1>1, <1>2, SeqEqual
  <1> QED
    BY <1>3 DEF u

LEMMA EmptyIsSuffix ==
  ASSUME NEW S, NEW t \in Seq(S)
  PROVE  IsSuffix(<<>>, t)
  <1>1. <<>> \in Seq(S) /\ Len(<<>>) = 0 /\ Len(t) \in Nat
    OBVIOUS
  <1> DEFINE s == <<>>
  <1>2. s \in Seq(S) /\ Len(s) = 0
    OBVIOUS
  <1> HIDE DEF s
  <1>3. Len(s) <= Len(t) /\ \A i \in 1 .. Len(s) : s[(Len(s) - i) + 1] = t[(Len(t) - i) + 1]
    BY <1>1, <1>2
  <1>4. IsSuffix(s, t)
    BY <1>2, <1>3, SuffixByElements, Zenon
  <1> QED
    BY <1>4 DEF s

LEMMA AppendKeepsSuffix ==
  ASSUME NEW S, NEW s \in Seq(S), NEW t \in Seq(S), IsSuffix(s, t), NEW e \in S
  PROVE  IsSuffix(Append(s, e), Append(t, e))
  <1> DEFINE s1 == Append(s, e)
             t1 == Append(t, e)
  <1>1. /\ Len(s) \in Nat /\ Len(t) \in Nat /\ Len(s) <= Len(t)
        /\ \A i \in 1 .. Len(s) : s[(Len(s) - i) + 1] = t[(Len(t) - i) + 1]
    BY SuffixByElements
  <1>2. /\ s1 \in Seq(S) /\ Len(s1) = Len(s) + 1 /\ s1[Len(s) + 1] = e
        /\ \A i \in 1 .. Len(s) : s1[i] = s[i]
    OBVIOUS
  <1>3. /\ t1 \in Seq(S) /\ Len(t1) = Len(t) + 1 /\ t1[Len(t) + 1] = e
        /\ \A i \in 1 .. Len(t) : t1[i] = t[i]
    OBVIOUS
  <1> HIDE DEF s1, t1
  <1>4. ASSUME NEW i \in 1 .. Len(s1)
        PROVE  s1[(Len(s1) - i) + 1] = t1[(Len(t1) - i) + 1]
    <2>1. CASE i = 1
      BY <1>1, <1>2, <1>3, <2>1
    <2>2. CASE i # 1
      <3>1. i - 1 \in 1 .. Len(s) /\ (Len(s1) - i) + 1 = (Len(s) - (i - 1)) + 1
            /\ (Len(t1) - i) + 1 = (Len(t) - (i - 1)) + 1
        BY <1>1, <1>2, <1>3, <2>2
      <3>2. (Len(s) - (i - 1)) + 1 \in 1 .. Len(s) /\ (Len(t) - (i - 1)) + 1 \in 1 .. Len(t)
        BY <1>1, <3>1
      <3>3. s[(Len(s) - (i - 1)) + 1] = t[(Len(t) - (i - 1)) + 1]
        BY <1>1, <3>1
      <3> QED
        BY <1>2, <1>3, <3>1, <3>2, <3>3
    <2> QED
      BY <2>1, <2>2
  <1>5. Len(s1) <= Len(t1)
    BY <1>1, <1>2, <1>3
  <1>6. IsSuffix(s1, t1)
    BY <1>2, <1>3, <1>4, <1>5, SuffixByElements
  <1> QED
    BY <1>6 DEF s1, t1

-----------------------------------------------------------------------------
(* Connections.                                                            *)

LEMMA FeedsType ==
  ASSUME TypeOK
  PROVE  /\ Len(feeds) \in Nat /\ DOMAIN feeds = 1 .. Len(feeds)
         /\ \A f \in DOMAIN feeds :
              /\ feeds[f] \in Feed
              /\ feeds[f].pushed \in Seq(Packet) /\ Len(feeds[f].pushed) \in Nat
              /\ feeds[f].read \in Nat /\ feeds[f].shown \in Nat
              /\ feeds[f].read <= Len(feeds[f].pushed)
              /\ Given(f) \in Seq(Packet)
  <1>1. Len(feeds) \in Nat /\ DOMAIN feeds = 1 .. Len(feeds)
    BY DEF TypeOK
  <1>2. ASSUME NEW f \in DOMAIN feeds
        PROVE  /\ feeds[f] \in Feed
               /\ feeds[f].pushed \in Seq(Packet) /\ Len(feeds[f].pushed) \in Nat
               /\ feeds[f].read \in Nat /\ feeds[f].shown \in Nat
    <2>1. feeds[f] \in Feed
      BY <1>1, ElementOfSeq DEF TypeOK
    <2> QED
      BY <2>1 DEF Feed
  <1>3. ASSUME NEW f \in DOMAIN feeds
        PROVE  feeds[f].read <= Len(feeds[f].pushed) /\ Given(f) \in Seq(Packet)
    <2>1. Waiting(feeds[f]) \in 0 .. Capacity
      BY DEF TypeOK
    <2>2. feeds[f].read <= Len(feeds[f].pushed)
      BY <1>2, <2>1, BoundAssumption DEF Waiting
    <2>3. lock # NoPacket => lock \in Packet
      BY BoundAssumption DEF TypeOK, NoPacket, Packet
    <2> QED
      BY <1>2, <2>2, <2>3 DEF Given
  <1> QED
    BY <1>1, <1>2, <1>3

LEMMA PushedType ==
  ASSUME NEW y \in Feed, NEW p \in Seq(Packet)
  PROVE  /\ [y EXCEPT !.pushed = p] \in Feed
         /\ [y EXCEPT !.pushed = p].page = y.page /\ [y EXCEPT !.pushed = p].stage = y.stage
         /\ [y EXCEPT !.pushed = p].read = y.read /\ [y EXCEPT !.pushed = p].shown = y.shown
         /\ [y EXCEPT !.pushed = p].pushed = p
  BY DEF Feed

(* One connection changes. *)
LEMMA OneFeedChanges ==
  ASSUME TypeOK, NEW f \in DOMAIN feeds, NEW x \in Feed, Waiting(x) \in 0 .. Capacity,
         feeds' = [feeds EXCEPT ![f] = x]
  PROVE  /\ DOMAIN feeds' = DOMAIN feeds /\ Len(feeds') = Len(feeds)
         /\ feeds'[f] = x /\ \A g \in DOMAIN feeds : g # f => feeds'[g] = feeds[g]
         /\ feeds' \in Seq(Feed) /\ Len(feeds') <= MaxFeeds
         /\ \A g \in DOMAIN feeds' : Waiting(feeds'[g]) \in 0 .. Capacity
  <1>1. feeds \in Seq(Feed) /\ f \in 1 .. Len(feeds)
    BY FeedsType DEF TypeOK
  <1>2. feeds' \in Seq(Feed) /\ Len(feeds') = Len(feeds)
    BY <1>1, ExceptSeq
  <1>3. DOMAIN feeds' = DOMAIN feeds
        /\ feeds'[f] = x /\ \A g \in DOMAIN feeds : g # f => feeds'[g] = feeds[g]
    BY <1>1
  <1>4. \A g \in DOMAIN feeds' : Waiting(feeds'[g]) \in 0 .. Capacity
    BY <1>3 DEF TypeOK
  <1> QED
    BY <1>2, <1>3, <1>4 DEF TypeOK

LEMMA InitIInv == Init => IInv
  <1> SUFFICES ASSUME Init PROVE IInv
    OBVIOUS
  <1>1. feeds = <<>> /\ Len(feeds) = 0 /\ DOMAIN feeds = {}
    BY DEF Init
  <1>2. \A k \in Packet : notifiers[k].stage = "none" /\ notifiers[k].next = 1 /\ k # lock
                        /\ k > processed
    BY BoundAssumption DEF Init, Packet, NoPacket
  <1>3. notifiers \in [Packet -> [stage : {"none", "waiting", "running", "done"},
                                 next : 1 .. MaxFeeds + 1]]
    BY BoundAssumption DEF Init
  <1>4. calls \in [Caller -> [stage : {"idle", "locking", "handling", "notifying"},
                             type : Type \cup {NoType}, packet : 0 .. processed]]
    BY DEF Init, NoCall, NoPacket
  <1>5. TypeOK
    <2>1. feeds \in Seq(Feed) /\ Len(feeds) <= MaxFeeds
          /\ \A f \in DOMAIN feeds : Waiting(feeds[f]) \in 0 .. Capacity
      BY <1>1, BoundAssumption
    <2>2. processed \in 0 .. MaxPackets /\ lock \in 0 .. processed
      BY BoundAssumption DEF Init, NoPacket
    <2>3. /\ handlers \subseteq Type /\ leaked \in BOOLEAN /\ writer \in Late \cup {NoType}
          /\ pages \in [Page -> {"off", "connecting", "on"}]
      BY TypeAssumption DEF Init
    <2> QED
      BY <1>3, <1>4, <2>1, <2>2, <2>3 DEF TypeOK
  <1>6. LockHeld /\ HandedOut /\ LiveIsOn /\ ShownBefore /\ FeedsAgree
    BY <1>1, <1>2 DEF LockHeld, HandedOut, LiveIsOn, ShownBefore, FeedsAgree
  <1> QED
    BY <1>5, <1>6 DEF IInv

-----------------------------------------------------------------------------
(* Steps that leave connections, and what is handed out, alone.            *)

LEMMA QuietStep ==
  ASSUME IInv, TypeOK', UNCHANGED <<processed, notifiers, lock, pages, feeds>>
  PROVE  IInv'
  BY DEF IInv, LockHeld, HandedOut, Begun, LiveIsOn, ShownBefore, FeedsAgree, Given

LEMMA CallsInv ==
  ASSUME IInv, NEW c \in Caller,
         LookUp(c) \/ Return(c) \/ \E type \in Type : GetMessage(c, type)
  PROVE  IInv'
  <1> DEFINE CallState == [stage : {"idle", "locking", "handling", "notifying"},
                           type : Type \cup {NoType}, packet : 0 .. processed]
  <1>1. calls \in [Caller -> CallState] /\ processed \in Nat
    BY BoundAssumption DEF IInv, TypeOK
  <1>2. NoCall \in CallState
    BY <1>1 DEF NoCall, NoPacket
  <1>3. ASSUME NEW t \in Type
        PROVE  [NoCall EXCEPT !.stage = "locking", !.type = t] \in CallState
    <2>1. \A x \in CallState : [x EXCEPT !.stage = "locking", !.type = t] \in CallState
      OBVIOUS
    <2> QED
      BY <1>2, <2>1
  <1>4. [calls[c] EXCEPT !.stage = "handling"] \in CallState
    BY <1>1
  <1>5. calls' \in [Caller -> CallState]
    <2> HIDE DEF CallState
    <2> QED
      BY <1>1, <1>2, <1>3, <1>4 DEF LookUp, Return, GetMessage, Goto
  <1>6. leaked' \in BOOLEAN /\ UNCHANGED <<handlers, writer, processed, notifiers, lock, pages, feeds>>
    BY DEF LookUp, Return, GetMessage, IInv, TypeOK, registry
  <1>7. TypeOK'
    BY <1>5, <1>6 DEF IInv, TypeOK
  <1> QED
    BY <1>6, <1>7, QuietStep

LEMMA RegistrationInv ==
  ASSUME IInv, (\E type \in Late : AskForLock(type)) \/ RegisterMessageCallback
  PROVE  IInv'
  <1>1. TypeOK'
    BY TypeAssumption DEF AskForLock, RegisterMessageCallback, IInv, TypeOK
  <1>2. UNCHANGED <<processed, notifiers, lock, pages, feeds>>
    BY DEF AskForLock, RegisterMessageCallback
  <1> QED
    BY <1>1, <1>2, QuietStep

(* A packet whose handler succeeds was not begun, and is not begun yet.    *)
LEMMA HandleInv ==
  ASSUME IInv, NEW c \in Caller, Handle(c)
  PROVE  IInv'
  <1> DEFINE CallState(n) == [stage : {"idle", "locking", "handling", "notifying"},
                              type : Type \cup {NoType}, packet : 0 .. n]
             k == processed + 1
  <1>1. calls \in [Caller -> CallState(processed)] /\ processed \in Nat
        /\ processed \in 0 .. MaxPackets
    BY BoundAssumption DEF IInv, TypeOK
  <1>2. CASE Goto(c, NoCall) /\ UNCHANGED <<processed, notifiers>>
    <2>1. NoCall \in CallState(processed)
      BY <1>1 DEF NoCall, NoPacket
    <2>2. calls' \in [Caller -> CallState(processed)]
      BY <1>1, <1>2, <2>1 DEF Goto
    <2>3. UNCHANGED <<registry, processed, notifiers, lock, pages, feeds>>
      BY <1>2 DEF Handle
    <2>4. TypeOK'
      BY <2>2, <2>3 DEF IInv, TypeOK, registry
    <2> QED
      BY <2>3, <2>4, QuietStep
  <1>3. CASE /\ processed < MaxPackets
             /\ processed' = k
             /\ notifiers' = [notifiers EXCEPT ![k].stage = "waiting"]
             /\ Goto(c, [calls[c] EXCEPT !.stage = "notifying", !.packet = k])
    <2>1. k \in Packet /\ notifiers[k].stage = "none" /\ notifiers[k].next = 1 /\ k # lock
      BY <1>1, <1>3, BoundAssumption DEF Packet, IInv, LockHeld
    <2>2. UNCHANGED <<registry, lock, pages, feeds>>
      BY DEF Handle
    <2>3. /\ notifiers' \in [Packet -> [stage : {"none", "waiting", "running", "done"},
                                       next : 1 .. MaxFeeds + 1]]
          /\ notifiers'[k].stage = "waiting" /\ notifiers'[k].next = 1
          /\ \A j \in Packet : j # k => notifiers'[j] = notifiers[j]
      BY <1>3, <2>1 DEF IInv, TypeOK
    <2>4. calls' \in [Caller -> CallState(k)]
      <3>1. k \in 0 .. k /\ \A n \in 0 .. processed : n \in 0 .. k
        BY <1>1
      <3>2. \A d \in Caller : calls[d] \in CallState(k)
        BY <1>1, <3>1
      <3>3. [calls[c] EXCEPT !.stage = "notifying", !.packet = k] \in CallState(k)
        BY <1>1, <3>1
      <3> HIDE DEF CallState
      <3> QED
        BY <1>1, <1>3, <3>2, <3>3 DEF Goto
    <2>5. TypeOK'
      <3>1. k \in 0 .. MaxPackets /\ lock \in 0 .. k
        BY <1>1, <1>3, BoundAssumption DEF IInv, TypeOK
      <3> QED
        BY <1>3, <2>2, <2>3, <2>4, <3>1 DEF IInv, TypeOK, registry
    <2>6. LockHeld'
      BY <1>1, <1>3, <2>1, <2>2, <2>3 DEF IInv, LockHeld, Packet
    <2>7. \A j \in Packet : notifiers[j].stage \in {"running", "done"} =>
                           notifiers'[j] = notifiers[j]
      BY <2>1, <2>3
    <2>8. lock # NoPacket => lock \in Packet /\ notifiers'[lock] = notifiers[lock]
      BY <2>1, <2>3, BoundAssumption DEF IInv, TypeOK, Packet, NoPacket
    <2>9. \A f \in DOMAIN feeds : \A i \in 1 .. Len(feeds[f].pushed) :
            feeds[f].pushed[i] \in Packet
      BY FeedsType, ElementOfSeq DEF IInv
    <2>10. HandedOut'
      BY <2>2, <2>7, <2>8, <2>9 DEF IInv, HandedOut, Begun, NoPacket, Packet
    <2>11. ShownBefore'
      <3>1. \A f \in DOMAIN feeds : \A i \in 1 .. feeds[f].shown :
              i \in 1 .. Len(feeds[f].pushed)
        BY FeedsType DEF IInv, HandedOut
      <3> QED
        BY <2>2, <2>7, <2>9, <3>1 DEF IInv, ShownBefore
    <2>12. FeedsAgree' /\ LiveIsOn'
      BY <2>2, <2>8 DEF IInv, FeedsAgree, Given, LiveIsOn
    <2> QED
      BY <2>5, <2>6, <2>10, <2>11, <2>12 DEF IInv
  <1> QED
    BY <1>2, <1>3 DEF Handle

-----------------------------------------------------------------------------
(* The goroutines of ExecAll.                                              *)

NotifierState == [stage : {"none", "waiting", "running", "done"}, next : 1 .. MaxFeeds + 1]

(* All connections are given the packet at once. *)
LEMMA TakeLockInv ==
  ASSUME IInv, NEW k \in Packet, TakeLock(k)
  PROVE  IInv'
  <1> USE DEF IInv
  <1>1. /\ notifiers[k].stage = "waiting" /\ lock = NoPacket /\ lock' = k
        /\ notifiers' = [notifiers EXCEPT ![k].stage = "running"]
        /\ UNCHANGED <<calls, registry, processed, pages, feeds>>
    BY DEF TakeLock
  <1>2. k \in Nat /\ k # NoPacket /\ k <= processed /\ notifiers[k].next = 1
        /\ NoPacket \notin Packet
    BY <1>1, BoundAssumption DEF LockHeld, TypeOK, Packet, NoPacket
  <1>3. notifiers \in [Packet -> NotifierState]
    BY DEF TypeOK, NotifierState
  <1>4. /\ notifiers' \in [Packet -> NotifierState]
        /\ notifiers'[k].stage = "running" /\ notifiers'[k].next = 1
        /\ \A j \in Packet : j # k => notifiers'[j] = notifiers[j]
    BY <1>1, <1>2, <1>3 DEF NotifierState
  <1>5. TypeOK'
    <2>1. lock' \in 0 .. processed'
      BY <1>1, <1>2, BoundAssumption DEF TypeOK
    <2> QED
      BY <1>1, <1>4, <2>1 DEF TypeOK, NotifierState, registry
  <1>6. LockHeld'
    BY <1>1, <1>2, <1>4 DEF LockHeld
  <1>7. \A f \in DOMAIN feeds : \A i \in 1 .. Len(feeds[f].pushed) :
          feeds[f].pushed[i] \in Packet /\ feeds[f].pushed[i] # k
    BY <1>1, FeedsType, ElementOfSeq DEF HandedOut, Begun
  <1>8. HandedOut'
    BY <1>1, <1>4, <1>7 DEF HandedOut, Begun
  <1>9. ShownBefore'
    <2>1. \A f \in DOMAIN feeds : \A i \in 1 .. feeds[f].shown :
            i \in 1 .. Len(feeds[f].pushed)
      BY FeedsType DEF HandedOut
    <2> QED
      BY <1>1, <1>4, <1>7, <2>1 DEF ShownBefore
  <1>10. FeedsAgree'
    <2>1. \A f \in DOMAIN feeds : Given(f) = feeds[f].pushed
                                  /\ Given(f)' = Append(feeds[f].pushed, k)
      <3>1. ASSUME NEW f \in DOMAIN feeds PROVE f >= 1
        BY FeedsType
      <3> QED
        BY <1>1, <1>2, <1>4, <3>1 DEF Given
    <2>2. ASSUME NEW f \in DOMAIN feeds, NEW g \in DOMAIN feeds, f < g
          PROVE  IsSuffix(Given(g)', Given(f)')
      <3>1. IsSuffix(feeds[g].pushed, feeds[f].pushed)
        BY <2>1, <2>2 DEF FeedsAgree
      <3>2. IsSuffix(Append(feeds[g].pushed, k), Append(feeds[f].pushed, k))
        BY <3>1, FeedsType, AppendKeepsSuffix
      <3> QED
        BY <2>1, <3>2
    <2> QED
      BY <1>1, <2>2 DEF FeedsAgree
  <1>11. LiveIsOn'
    BY <1>1 DEF LiveIsOn
  <1> QED
    BY <1>5, <1>6, <1>8, <1>9, <1>10, <1>11

LEMMA CloseDoneInv ==
  ASSUME IInv, NEW k \in Packet, CloseDone(k)
  PROVE  IInv'
  <1> USE DEF IInv
  <1>1. /\ lock = k /\ notifiers[k].next > Len(feeds) /\ lock' = NoPacket
        /\ notifiers' = [notifiers EXCEPT ![k].stage = "done"]
        /\ UNCHANGED <<calls, registry, processed, pages, feeds>>
    BY DEF CloseDone, Unlocked
  <1>2. k \in Nat /\ k # NoPacket /\ k <= processed /\ NoPacket \notin Packet
        /\ notifiers[k].stage = "running"
    BY <1>1, BoundAssumption DEF LockHeld, TypeOK, Packet, NoPacket
  <1>3. notifiers \in [Packet -> NotifierState]
    BY DEF TypeOK, NotifierState
  <1>4. /\ notifiers' \in [Packet -> NotifierState]
        /\ notifiers'[k].stage = "done"
        /\ \A j \in Packet : j # k => notifiers'[j] = notifiers[j]
    BY <1>1, <1>2, <1>3 DEF NotifierState
  <1>5. TypeOK'
    <2>1. lock' \in 0 .. processed'
      BY <1>1, BoundAssumption DEF TypeOK, NoPacket
    <2> QED
      BY <1>1, <1>4, <2>1 DEF TypeOK, NotifierState, registry
  <1>6. LockHeld'
    BY <1>1, <1>2, <1>4 DEF LockHeld
  <1>7. \A f \in DOMAIN feeds : \A i \in 1 .. Len(feeds[f].pushed) :
          feeds[f].pushed[i] \in Packet
    BY FeedsType, ElementOfSeq
  <1>8. HandedOut'
    BY <1>1, <1>2, <1>4, <1>7 DEF HandedOut, Begun
  <1>9. ShownBefore'
    <2>1. \A f \in DOMAIN feeds : \A i \in 1 .. feeds[f].shown :
            i \in 1 .. Len(feeds[f].pushed)
      BY FeedsType DEF HandedOut
    <2> QED
      BY <1>1, <1>4, <1>7, <2>1 DEF ShownBefore
  <1>10. FeedsAgree'
    <2>1. ASSUME NEW f \in DOMAIN feeds PROVE Given(f)' = Given(f)
      <3>1. ~(f >= notifiers[lock].next)
        BY <1>1, <1>3, FeedsType DEF NotifierState
      <3> QED
        BY <1>1, <3>1 DEF Given
    <2> QED
      BY <1>1, <2>1 DEF FeedsAgree
  <1>11. LiveIsOn'
    BY <1>1 DEF LiveIsOn
  <1> QED
    BY <1>5, <1>6, <1>8, <1>9, <1>10, <1>11

(* A connection gets what it was given. *)
LEMMA NotifyInv ==
  ASSUME IInv, NEW k \in Packet, Notify(k)
  PROVE  IInv'
  <1> USE DEF IInv
  <1> DEFINE f == notifiers[k].next
             p == Append(feeds[f].pushed, k)
             x == [feeds[f] EXCEPT !.pushed = p]
  <1>1. /\ lock = k /\ f <= Len(feeds) /\ HasRoom(feeds[f])
        /\ feeds' = [feeds EXCEPT ![f] = x]
        /\ notifiers' = [notifiers EXCEPT ![k].next = @ + 1]
        /\ UNCHANGED <<calls, registry, processed, lock, pages>>
    BY DEF Notify, Push
  <1>2. k \in Nat /\ k # NoPacket /\ notifiers[k].stage = "running"
    BY <1>1, BoundAssumption DEF LockHeld, Packet, NoPacket
  <1>3. notifiers \in [Packet -> NotifierState] /\ f \in DOMAIN feeds /\ f \in Nat
        /\ f + 1 \in 1 .. MaxFeeds + 1
    BY <1>1, FeedsType, BoundAssumption DEF TypeOK, NotifierState
  <1>4. /\ notifiers' \in [Packet -> NotifierState]
        /\ notifiers'[k].stage = "running" /\ notifiers'[k].next = f + 1
        /\ \A j \in Packet : j # k => notifiers'[j] = notifiers[j]
    BY <1>1, <1>2, <1>3 DEF NotifierState
  <1>old. feeds[f] \in Feed /\ feeds[f].pushed \in Seq(Packet) /\ Len(feeds[f].pushed) \in Nat
    BY <1>3, FeedsType
  <1>5. /\ x \in Feed
        /\ x.page = feeds[f].page /\ x.stage = feeds[f].stage
        /\ x.read = feeds[f].read /\ x.shown = feeds[f].shown
        /\ x.pushed = Append(feeds[f].pushed, k)
    <2>1. p \in Seq(Packet)
      BY <1>old, AppendElements
    <2> HIDE DEF p, f
    <2>3. /\ [feeds[f] EXCEPT !.pushed = p] \in Feed
          /\ [feeds[f] EXCEPT !.pushed = p].page = feeds[f].page
          /\ [feeds[f] EXCEPT !.pushed = p].stage = feeds[f].stage
          /\ [feeds[f] EXCEPT !.pushed = p].read = feeds[f].read
          /\ [feeds[f] EXCEPT !.pushed = p].shown = feeds[f].shown
          /\ [feeds[f] EXCEPT !.pushed = p].pushed = p
      BY <1>old, <2>1, PushedType
    <2> QED
      BY <2>3 DEF p
  <1>6. Waiting(x) \in 0 .. Capacity
    <2> HIDE DEF f, p, x
    <2>1. feeds[f].read \in Nat /\ Waiting(feeds[f]) \in 0 .. Capacity
      BY <1>3, FeedsType DEF TypeOK
    <2>2. Len(x.pushed) = Len(feeds[f].pushed) + 1
      BY <1>old, <1>5, AppendElements DEF p
    <2>3. Waiting(feeds[f]) < Capacity /\ x.read = feeds[f].read
      BY <1>1, <1>5 DEF HasRoom
    <2> QED
      BY <1>old, <2>1, <2>2, <2>3, BoundAssumption DEF Waiting
  <1>7. /\ \A i \in 1 .. Len(feeds[f].pushed) : x.pushed[i] = feeds[f].pushed[i]
        /\ \A i \in 1 .. Len(x.pushed) :
             \/ i \in 1 .. Len(feeds[f].pushed) /\ x.pushed[i] = feeds[f].pushed[i]
             \/ i = Len(feeds[f].pushed) + 1 /\ x.pushed[i] = k
    <2> DEFINE before == feeds[f].pushed
    <2>1. /\ before \in Seq(Packet) /\ x.pushed = Append(before, k)
          /\ Len(before) \in Nat
      BY <1>old, <1>5
    <2> HIDE DEF f, p, x, before, IInv
    <2>2. /\ Len(x.pushed) = Len(before) + 1
          /\ \A i \in 1 .. Len(before) : x.pushed[i] = before[i]
          /\ x.pushed[Len(before) + 1] = k
      BY <2>1, AppendElements
    <2>3. \A i \in 1 .. Len(x.pushed) :
            \/ i \in 1 .. Len(before) /\ x.pushed[i] = before[i]
            \/ i = Len(before) + 1 /\ x.pushed[i] = k
      BY <2>1, <2>2
    <2> QED
      BY <2>2, <2>3 DEF before
  <1> HIDE DEF f, p, x
  <1>8. /\ DOMAIN feeds' = DOMAIN feeds /\ Len(feeds') = Len(feeds)
        /\ feeds'[f] = x /\ \A g \in DOMAIN feeds : g # f => feeds'[g] = feeds[g]
        /\ feeds' \in Seq(Feed) /\ Len(feeds') <= MaxFeeds
        /\ \A g \in DOMAIN feeds' : Waiting(feeds'[g]) \in 0 .. Capacity
    BY <1>1, <1>3, <1>5, <1>6, OneFeedChanges
  <1>9. TypeOK'
    BY <1>1, <1>4, <1>8 DEF TypeOK, NotifierState, registry
  <1>10. LockHeld'
    BY <1>1, <1>2, <1>4 DEF LockHeld
  <1>11. \A g \in DOMAIN feeds : \A i \in 1 .. Len(feeds[g].pushed) :
           feeds[g].pushed[i] \in Packet
    BY FeedsType, ElementOfSeq
  (* The packet is not on the connection yet. *)
  <1>12. \A i \in 1 .. Len(feeds[f].pushed) : feeds[f].pushed[i] # k
    BY <1>1, <1>3 DEF HandedOut, f
  <1>13. HandedOut'
    <2>1. \A j \in Packet : Begun(j) => notifiers'[j].stage \in {"running", "done"}
      BY <1>2, <1>4 DEF Begun
    <2>2. ASSUME NEW g \in DOMAIN feeds
          PROVE  feeds'[g].shown <= feeds'[g].read
      BY <1>5, <1>8 DEF HandedOut
    <2>3. ASSUME NEW g \in DOMAIN feeds, NEW i \in 1 .. Len(feeds'[g].pushed)
          PROVE  /\ notifiers'[feeds'[g].pushed[i]].stage \in {"running", "done"}
                 /\ feeds'[g].pushed[i] = k => g < f + 1
      <3>1. CASE g = f /\ x.pushed[i] = k
        BY <1>3, <1>4, <1>8, <3>1
      <3>2. CASE i \in 1 .. Len(feeds[g].pushed) /\ feeds'[g].pushed[i] = feeds[g].pushed[i]
        <4>1. Begun(feeds[g].pushed[i]) /\ (feeds[g].pushed[i] = k => g < f)
          BY <1>1, <3>2 DEF HandedOut, f
        <4>2. g \in Nat
          BY FeedsType
        <4> QED
          BY <1>3, <1>11, <2>1, <3>2, <4>1, <4>2
      <3> QED
        BY <1>7, <1>8, <2>3, <3>1, <3>2
    <2>4. ASSUME NEW g \in DOMAIN feeds, NEW i \in 1 .. Len(feeds'[g].pushed),
                 NEW j \in 1 .. Len(feeds'[g].pushed), feeds'[g].pushed[i] = feeds'[g].pushed[j]
          PROVE  i = j
      <3>1. CASE g = f
        <4>1. i \in 1 .. Len(x.pushed) /\ j \in 1 .. Len(x.pushed) /\ x.pushed[i] = x.pushed[j]
          BY <1>8, <2>4, <3>1
        <4>2. \A a, b \in 1 .. Len(feeds[f].pushed) :
                feeds[f].pushed[a] = feeds[f].pushed[b] => a = b
          BY <1>3 DEF HandedOut
        <4> QED
          BY <1>7, <1>12, <4>1, <4>2
      <3>2. CASE g # f
        BY <1>8, <2>4, <3>2 DEF HandedOut
      <3> QED
        BY <3>1, <3>2
    <2> QED
      BY <1>1, <1>4, <1>8, <2>2, <2>3, <2>4 DEF HandedOut, Begun
  <1>14. ShownBefore'
    <2>1. ASSUME NEW a \in DOMAIN feeds, NEW b \in DOMAIN feeds, a < b,
                 feeds'[a].page = feeds'[b].page
          PROVE  /\ feeds'[a].stage # "live"
                 /\ \A i \in 1 .. feeds'[a].shown :
                      /\ notifiers'[feeds'[a].pushed[i]].stage = "done"
                      /\ \A j \in 1 .. Len(feeds'[b].pushed) :
                           feeds'[a].pushed[i] # feeds'[b].pushed[j]
      <3>1. /\ feeds'[a].stage = feeds[a].stage /\ feeds'[a].shown = feeds[a].shown
            /\ feeds'[a].page = feeds[a].page /\ feeds'[b].page = feeds[b].page
        BY <1>5, <1>8
      <3>2. ASSUME NEW i \in 1 .. feeds[a].shown
            PROVE  /\ feeds'[a].pushed[i] = feeds[a].pushed[i]
                   /\ feeds[a].pushed[i] \in Packet
        <4>1. i \in 1 .. Len(feeds[a].pushed)
          BY FeedsType DEF HandedOut
        <4> QED
          BY <1>7, <1>8, <1>11, <4>1
      <3>3. ASSUME NEW i \in 1 .. feeds[a].shown
            PROVE  /\ notifiers[feeds[a].pushed[i]].stage = "done"
                   /\ notifiers'[feeds[a].pushed[i]].stage = "done"
                   /\ feeds[a].pushed[i] # k
                   /\ \A j \in 1 .. Len(feeds[b].pushed) : feeds[a].pushed[i] # feeds[b].pushed[j]
        <4>1. /\ notifiers[feeds[a].pushed[i]].stage = "done"
              /\ \A j \in 1 .. Len(feeds[b].pushed) : feeds[a].pushed[i] # feeds[b].pushed[j]
          <5>1. a < b /\ feeds[a].page = feeds[b].page
            BY <2>1, <3>1
          <5> HIDE DEF IInv
          <5>2. ShownBefore
            BY DEF IInv
          <5> QED
            BY <5>1, <5>2 DEF ShownBefore
        <4>2. feeds[a].pushed[i] # k
          BY <1>2, <4>1
        <4> QED
          BY <1>4, <3>2, <4>1, <4>2
      <3>4. ASSUME NEW j \in 1 .. Len(feeds'[b].pushed)
            PROVE  \/ feeds'[b].pushed[j] = k
                   \/ j \in 1 .. Len(feeds[b].pushed) /\ feeds'[b].pushed[j] = feeds[b].pushed[j]
        BY <1>7, <1>8
      <3>5. feeds'[a].stage # "live"
        BY <2>1, <3>1 DEF ShownBefore
      <3> QED
        BY <3>1, <3>2, <3>3, <3>4, <3>5
    <2> QED
      BY <1>8, <2>1 DEF ShownBefore
  <1>15. FeedsAgree'
    <2>1. ASSUME NEW g \in DOMAIN feeds PROVE Given(g)' = Given(g)
      <3>1. g \in Nat /\ notifiers[lock].next = f /\ notifiers'[lock'].next = f + 1
        BY <1>1, <1>4, FeedsType DEF f
      <3>2. Given(g) = IF g >= f THEN Append(feeds[g].pushed, k) ELSE feeds[g].pushed
        BY <1>1, <1>2, <3>1 DEF Given
      <3>3. Given(g)' = IF g >= f + 1 THEN Append(feeds'[g].pushed, k) ELSE feeds'[g].pushed
        BY <1>1, <1>2, <3>1 DEF Given
      <3>4. CASE g = f
        <4>1. feeds'[g].pushed = Append(feeds[g].pushed, k)
          BY <1>5, <1>8, <3>4
        <4>2. g >= f /\ ~(g >= f + 1)
          BY <3>1, <3>4
        <4> QED
          BY <3>2, <3>3, <4>1, <4>2
      <3>5. CASE g # f
        <4>1. g >= f <=> g >= f + 1
          BY <1>3, <3>1, <3>5
        <4> QED
          BY <1>8, <3>2, <3>3, <3>5, <4>1
      <3> QED
        BY <3>4, <3>5
    <2> QED
      BY <1>8, <2>1 DEF FeedsAgree
  <1>16. LiveIsOn'
    BY <1>1, <1>3, <1>5, <1>8 DEF LiveIsOn
  <1> QED
    BY <1>9, <1>10, <1>13, <1>14, <1>15, <1>16

-----------------------------------------------------------------------------
(* Pages.                                                                  *)

LEMMA ConnectInv ==
  ASSUME IInv, NEW p \in Page, Connect(p)
  PROVE  IInv'
  <1> USE DEF IInv
  <1>1. /\ pages[p] = "off" /\ pages' = [pages EXCEPT ![p] = "connecting"]
        /\ UNCHANGED <<calls, registry, processed, notifiers, lock, feeds>>
    BY DEF Connect
  <1>2. TypeOK'
    BY <1>1 DEF TypeOK, registry
  <1>3. LiveIsOn'
    <2>1. \A f \in DOMAIN feeds : feeds[f].page \in Page
      BY FeedsType DEF Feed
    <2> QED
      BY <1>1, <2>1 DEF LiveIsOn, TypeOK
  <1>4. LockHeld' /\ HandedOut' /\ ShownBefore' /\ FeedsAgree'
    BY <1>1 DEF LockHeld, HandedOut, Begun, ShownBefore, FeedsAgree, Given
  <1> QED
    BY <1>2, <1>3, <1>4

(* A new connection has nothing, and while it is added no packet is handed *)
(* out: what its page has seen is over.                                    *)
LEMMA RegisterNotifyInv ==
  ASSUME IInv, NEW p \in Page, RegisterNotify(p)
  PROVE  IInv'
  <1> USE DEF IInv
  <1> DEFINE n == Len(feeds) + 1
  <1>1. PICK stage \in {"live", "broken"} :
          /\ feeds' = Append(feeds, [page |-> p, stage |-> stage, pushed |-> <<>>,
                                     read |-> 0, shown |-> 0])
          /\ pages' = [pages EXCEPT ![p] = IF stage = "live" THEN "on" ELSE "off"]
    BY DEF RegisterNotify
  <1> DEFINE x == [page |-> p, stage |-> stage, pushed |-> <<>>, read |-> 0, shown |-> 0]
  <1>2. /\ pages[p] = "connecting" /\ lock = NoPacket /\ Len(feeds) < MaxFeeds
        /\ UNCHANGED <<calls, registry, processed, notifiers, lock>>
    BY DEF RegisterNotify, MayAdd
  <1>3. /\ x \in Feed /\ x.pushed = <<>> /\ x.read = 0 /\ x.shown = 0 /\ x.page = p
        /\ x.stage = stage
    BY DEF Feed
  <1>4. feeds' = Append(feeds, x)
    BY <1>1
  <1> HIDE DEF x
  <1>5. /\ feeds' \in Seq(Feed) /\ Len(feeds) \in Nat /\ Len(feeds') = n
        /\ DOMAIN feeds' = 1 .. n /\ DOMAIN feeds = 1 .. Len(feeds)
        /\ \A f \in DOMAIN feeds' :
             \/ f \in DOMAIN feeds /\ feeds'[f] = feeds[f]
             \/ f = n /\ feeds'[f] = x
    <2>1. feeds \in Seq(Feed) /\ DOMAIN feeds = 1 .. Len(feeds)
      BY FeedsType DEF TypeOK
    <2>2. /\ Append(feeds, x) \in Seq(Feed) /\ Len(feeds) \in Nat
          /\ Len(Append(feeds, x)) = Len(feeds) + 1
          /\ \A f \in 1 .. Len(Append(feeds, x)) :
               \/ f \in 1 .. Len(feeds) /\ Append(feeds, x)[f] = feeds[f]
               \/ f = Len(feeds) + 1 /\ Append(feeds, x)[f] = x
      BY <1>3, <2>1, AppendElements
    <2>3. DOMAIN Append(feeds, x) = 1 .. Len(Append(feeds, x))
      BY <2>2, LenProperties
    <2> QED
      BY <1>4, <2>1, <2>2, <2>3
  <1>6. Len(x.pushed) = 0 /\ 1 .. Len(x.pushed) = {} /\ 1 .. x.shown = {}
    BY <1>3
  <1>7. Waiting(x) \in 0 .. Capacity
    BY <1>3, <1>6, BoundAssumption DEF Waiting
  <1>8. TypeOK'
    <2>1. Len(feeds') <= MaxFeeds
      BY <1>2, <1>5, BoundAssumption
    <2>2. pages' \in [Page -> {"off", "connecting", "on"}]
      BY <1>1 DEF TypeOK
    <2>3. \A f \in DOMAIN feeds' : Waiting(feeds'[f]) \in 0 .. Capacity
      BY <1>5, <1>7 DEF TypeOK
    <2> QED
      BY <1>2, <1>5, <2>1, <2>2, <2>3 DEF TypeOK, registry
  <1>9. LockHeld'
    BY <1>2 DEF LockHeld
  <1>10. HandedOut'
    BY <1>2, <1>3, <1>5, <1>6 DEF HandedOut, Begun
  <1>11. LiveIsOn'
    <2>1. \A f \in DOMAIN feeds : feeds[f].stage = "live" => feeds[f].page # p
      BY <1>2 DEF LiveIsOn
    <2>2. \A f \in DOMAIN feeds : feeds[f].page \in Page
      BY FeedsType DEF Feed
    <2>3. pages'[p] = (IF stage = "live" THEN "on" ELSE "off")
          /\ \A q \in Page : q # p => pages'[q] = pages[q]
      BY <1>1 DEF TypeOK
    <2> QED
      BY <1>3, <1>5, <2>1, <2>2, <2>3 DEF LiveIsOn
  <1>12. ShownBefore'
    <2>1. ASSUME NEW f \in DOMAIN feeds, feeds[f].page = p
          PROVE  /\ feeds[f].stage # "live"
                 /\ \A i \in 1 .. feeds[f].shown : notifiers[feeds[f].pushed[i]].stage = "done"
      <3>1. feeds[f].stage # "live"
        BY <1>2, <2>1 DEF LiveIsOn
      <3>2. ASSUME NEW i \in 1 .. feeds[f].shown
            PROVE  notifiers[feeds[f].pushed[i]].stage = "done"
        <4>1. i \in 1 .. Len(feeds[f].pushed)
          BY FeedsType DEF HandedOut
        <4>2. feeds[f].pushed[i] \in Packet /\ Begun(feeds[f].pushed[i])
          BY <4>1, FeedsType, ElementOfSeq DEF HandedOut
        <4>3. feeds[f].pushed[i] # lock
          BY <1>2, <4>2, BoundAssumption DEF Packet, NoPacket
        <4> QED
          BY <4>2, <4>3 DEF LockHeld, Begun
      <3> QED
        BY <3>1, <3>2
    <2>2. ASSUME NEW f \in DOMAIN feeds', NEW g \in DOMAIN feeds', f < g
          PROVE  f \in DOMAIN feeds /\ feeds'[f] = feeds[f]
      BY <1>5, <2>2
    <2> QED
      BY <1>2, <1>3, <1>5, <1>6, <2>1, <2>2 DEF ShownBefore
  <1>13. FeedsAgree'
    <2>1. \A f \in DOMAIN feeds : Given(f) = feeds[f].pushed
      BY <1>2 DEF Given
    <2>2. \A f \in DOMAIN feeds' : Given(f)' = feeds'[f].pushed
      BY <1>2 DEF Given
    <2>3. ASSUME NEW f \in DOMAIN feeds', NEW g \in DOMAIN feeds', f < g
          PROVE  IsSuffix(feeds'[g].pushed, feeds'[f].pushed)
      <3>1. f \in DOMAIN feeds /\ feeds'[f] = feeds[f] /\ feeds[f].pushed \in Seq(Packet)
        BY <1>5, <2>3, FeedsType
      <3>2. CASE g \in DOMAIN feeds /\ feeds'[g] = feeds[g]
        BY <2>1, <2>3, <3>1, <3>2 DEF FeedsAgree
      <3>3. CASE feeds'[g] = x
        BY <1>3, <3>1, <3>3, EmptyIsSuffix
      <3> QED
        BY <1>5, <3>2, <3>3
    <2> QED
      BY <2>2, <2>3 DEF FeedsAgree
  <1> QED
    BY <1>8, <1>9, <1>10, <1>11, <1>12, <1>13

(* A connection that is given nothing, shows no more unless it is live,    *)
(* and does not come back.                                                 *)
LEMMA FeedGoesOn ==
  ASSUME IInv, NEW f \in DOMAIN feeds, NEW x \in Feed,
         feeds' = [feeds EXCEPT ![f] = x],
         x.page = feeds[f].page, x.pushed = feeds[f].pushed,
         x.shown <= x.read, x.read <= Len(x.pushed), feeds[f].read <= x.read,
         x.stage = "live" => feeds[f].stage = "live",
         x.shown # feeds[f].shown => feeds[f].stage = "live",
         pages' \in [Page -> {"off", "connecting", "on"}], LiveIsOn',
         UNCHANGED <<calls, registry, processed, notifiers, lock>>
  PROVE  IInv'
  <1> USE DEF IInv
  <1>1. x.read \in Nat /\ x.shown \in Nat
    BY DEF Feed
  <1>2. Waiting(x) \in 0 .. Capacity
    <2>1. /\ Waiting(feeds[f]) \in 0 .. Capacity /\ feeds[f].read \in Nat
          /\ Len(feeds[f].pushed) \in Nat
      BY FeedsType DEF TypeOK
    <2> QED
      BY <1>1, <2>1, BoundAssumption DEF Waiting
  <1>3. /\ DOMAIN feeds' = DOMAIN feeds /\ Len(feeds') = Len(feeds)
        /\ feeds'[f] = x /\ \A g \in DOMAIN feeds : g # f => feeds'[g] = feeds[g]
        /\ feeds' \in Seq(Feed) /\ Len(feeds') <= MaxFeeds
        /\ \A g \in DOMAIN feeds' : Waiting(feeds'[g]) \in 0 .. Capacity
    BY <1>2, OneFeedChanges
  <1>4. \A g \in DOMAIN feeds : feeds'[g].pushed = feeds[g].pushed
                              /\ feeds'[g].page = feeds[g].page
    BY <1>3
  <1>5. TypeOK' /\ LockHeld'
    BY <1>3 DEF TypeOK, LockHeld, registry
  <1>6. HandedOut'
    BY <1>3, <1>4 DEF HandedOut, Begun
  <1>7. ShownBefore'
    BY <1>3, <1>4 DEF ShownBefore
  <1>8. FeedsAgree'
    BY <1>3, <1>4 DEF FeedsAgree, Given
  <1> QED
    BY <1>5, <1>6, <1>7, <1>8

LEMMA FeedInv ==
  ASSUME IInv, NEW f \in DOMAIN feeds, Forward(f) \/ Break(f) \/ Ended(f)
  PROVE  IInv'
  <1> USE DEF IInv
  <1>1. /\ feeds[f] \in Feed /\ feeds[f].read \in Nat /\ feeds[f].shown \in Nat
        /\ Len(feeds[f].pushed) \in Nat
        /\ feeds[f].shown <= feeds[f].read /\ feeds[f].read <= Len(feeds[f].pushed)
    BY FeedsType DEF HandedOut
  <1>2. CASE Forward(f)
    <2> DEFINE shown == IF feeds[f].stage = "live" THEN feeds[f].shown + 1 ELSE feeds[f].shown
               x     == [feeds[f] EXCEPT !.read = feeds[f].read + 1, !.shown = shown]
    <2>1. feeds' = [feeds EXCEPT ![f] = x]
          /\ UNCHANGED <<calls, registry, processed, notifiers, lock, pages>>
      BY <1>2 DEF Forward
    <2>2. shown \in Nat /\ shown <= feeds[f].read + 1 /\ feeds[f].read + 1 \in Nat
      BY <1>1
    <2>3. feeds[f].read + 1 <= Len(feeds[f].pushed)
      BY <1>1, <1>2 DEF Forward, Waiting
    <2>4. shown # feeds[f].shown => feeds[f].stage = "live"
      OBVIOUS
    <2> HIDE DEF shown
    <2>5. /\ x \in Feed /\ x.page = feeds[f].page /\ x.pushed = feeds[f].pushed
          /\ x.stage = feeds[f].stage
          /\ x.read = feeds[f].read + 1 /\ x.shown = shown
      BY <1>1, <2>2 DEF Feed
    <2> HIDE DEF x
    <2>6. LiveIsOn'
      BY <2>1, <2>5 DEF LiveIsOn, TypeOK
    <2>7. feeds[f].read <= x.read /\ x.shown <= x.read /\ x.read <= Len(x.pushed)
      BY <1>1, <2>2, <2>3, <2>5
    <2>8. pages' \in [Page -> {"off", "connecting", "on"}]
      BY <2>1 DEF TypeOK
    <2> QED
      BY <2>1, <2>4, <2>5, <2>6, <2>7, <2>8, FeedGoesOn
  <1>3. ASSUME NEW stage \in {"broken", "ended"},
               feeds' = [feeds EXCEPT ![f].stage = stage],
               pages' \in [Page -> {"off", "connecting", "on"}], LiveIsOn',
               UNCHANGED <<calls, registry, processed, notifiers, lock>>
        PROVE  IInv'
    <2> DEFINE x == [feeds[f] EXCEPT !.stage = stage]
    <2>1. /\ x \in Feed /\ x.page = feeds[f].page /\ x.pushed = feeds[f].pushed
          /\ x.stage = stage /\ x.read = feeds[f].read /\ x.shown = feeds[f].shown
      BY <1>1 DEF Feed
    <2>2. feeds' = [feeds EXCEPT ![f] = x]
      BY <1>3
    <2> HIDE DEF x
    <2>3. feeds[f].read <= x.read /\ x.shown <= x.read /\ x.read <= Len(x.pushed)
      BY <1>1, <2>1
    <2> QED
      BY <1>3, <2>1, <2>2, <2>3, FeedGoesOn
  <1>4. CASE Break(f)
    <2>1. /\ feeds[f].stage = "live" /\ feeds' = [feeds EXCEPT ![f].stage = "broken"]
          /\ pages' = [pages EXCEPT ![feeds[f].page] = "off"]
          /\ UNCHANGED <<calls, registry, processed, notifiers, lock>>
      BY <1>4 DEF Break
    <2>2. pages' \in [Page -> {"off", "connecting", "on"}]
      BY <2>1 DEF TypeOK
    (* No other connection of the page is live. *)
    <2>3. ASSUME NEW g \in DOMAIN feeds', feeds'[g].stage = "live"
          PROVE  pages'[feeds'[g].page] = "on"
      <3>1. g \in DOMAIN feeds /\ g # f /\ feeds'[g] = feeds[g]
        BY <1>1, <2>1, <2>3 DEF Feed, TypeOK
      <3>2. feeds[g].page # feeds[f].page
        <4>1. f < g \/ g < f
          BY <3>1, FeedsType
        <4> QED
          BY <2>1, <2>3, <3>1, <4>1 DEF ShownBefore
      <3>3. feeds[g].page \in Page /\ pages[feeds[g].page] = "on"
        BY <2>3, <3>1, FeedsType DEF LiveIsOn, Feed
      <3> QED
        BY <2>1, <3>1, <3>2, <3>3 DEF TypeOK
    <2> QED
      BY <1>3, <2>1, <2>2, <2>3 DEF LiveIsOn
  <1>5. CASE Ended(f)
    <2>1. /\ feeds' = [feeds EXCEPT ![f].stage = "ended"]
          /\ UNCHANGED <<calls, registry, processed, notifiers, lock, pages>>
      BY <1>5 DEF Ended
    <2>2. LiveIsOn'
      BY <1>1, <2>1 DEF LiveIsOn, Feed, TypeOK
    <2>3. pages' \in [Page -> {"off", "connecting", "on"}]
      BY <2>1 DEF TypeOK
    <2> QED
      BY <1>3, <2>1, <2>2, <2>3
  <1> QED
    BY <1>2, <1>4, <1>5

-----------------------------------------------------------------------------
(* The invariant.                                                          *)

LEMMA StepIInv == IInv /\ [Next]_vars => IInv'
  <1> SUFFICES ASSUME IInv, [Next]_vars PROVE IInv'
    OBVIOUS
  <1>1. CASE UNCHANGED vars
    <2>1. TypeOK'
      BY <1>1 DEF vars, IInv, TypeOK
    <2> QED
      BY <1>1, <2>1, QuietStep DEF vars
  <1> QED
    BY <1>1, CallsInv, HandleInv, RegistrationInv, TakeLockInv, NotifyInv, CloseDoneInv,
       ConnectInv, RegisterNotifyInv, FeedInv DEF Next, Calls, Notifies

LEMMA Invariance == Spec => []IInv
  <1> QED
    BY InitIInv, StepIInv, PTL DEF Spec

(* Every value stays of its type; above all, no channel holds more packets *)
(* than it has room for, and no connection has read more than it was given.*)
THEOREM TypeCorrect == Spec => []TypeOK
  <1>1. IInv => TypeOK
    BY DEF IInv
  <1> QED
    BY <1>1, Invariance, PTL

(* Connections are given the same packets in the same order, however many  *)
(* goroutines process packets and whenever connections are made.           *)
THEOREM SameFeeds == Spec => []FeedsAgree
  <1>1. IInv => FeedsAgree
    BY DEF IInv
  <1> QED
    BY <1>1, Invariance, PTL

(* A page shows a packet once, however often it connects.                  *)
THEOREM ShownOnce == Spec => []PageShowsOnce
  <1>1. ASSUME IInv PROVE PageShowsOnce
    <2> USE <1>1 DEF IInv
    <2>1. ASSUME NEW f \in DOMAIN feeds, NEW i \in 1 .. feeds[f].shown
          PROVE  i \in 1 .. Len(feeds[f].pushed)
      BY FeedsType DEF HandedOut
    <2>2. ASSUME NEW f \in DOMAIN feeds, NEW g \in DOMAIN feeds,
                 feeds[f].page = feeds[g].page,
                 NEW i \in 1 .. feeds[f].shown, NEW j \in 1 .. feeds[g].shown,
                 feeds[f].pushed[i] = feeds[g].pushed[j]
          PROVE  f = g /\ i = j
      <3>1. ~(f < g) /\ ~(g < f)
        BY <2>1, <2>2 DEF ShownBefore
      <3>2. f = g
        BY <3>1, FeedsType
      <3> QED
        BY <2>1, <2>2, <3>2 DEF HandedOut
    <2> QED
      BY <2>2 DEF PageShowsOnce
  <1> QED
    BY <1>1, Invariance, PTL

-----------------------------------------------------------------------------
(* The registry implements PacketFeed. Whatever was given stays given, in  *)
(* the same order, while a packet goes round; it is given to everybody at  *)
(* the step that takes the lock.                                           *)

PFPublished == {k \in Packet : notifiers[k].stage \in {"running", "done"}}
PFGiven     == [f \in DOMAIN feeds |-> Given(f)]
PFTaken     == [f \in DOMAIN feeds |-> feeds[f].read]

(* A step that gives nothing, and after which nothing more has been taken. *)
GivesNothing ==
  /\ DOMAIN feeds' = DOMAIN feeds
  /\ \A f \in DOMAIN feeds : Given(f)' = Given(f) /\ feeds'[f].read = feeds[f].read
  /\ \A k \in Packet : Begun(k)' <=> Begun(k)

LEMMA GivesNothingStutters ==
  ASSUME GivesNothing
  PROVE  UNCHANGED <<PFPublished, PFGiven, PFTaken>>
  BY DEF GivesNothing, PFPublished, PFGiven, PFTaken, Begun

LEMMA TakeLockPublishes ==
  ASSUME IInv, NEW k \in Packet, TakeLock(k)
  PROVE  /\ ~Begun(k)
         /\ \A j \in Packet : Begun(j)' <=> Begun(j) \/ j = k
         /\ DOMAIN feeds' = DOMAIN feeds
         /\ \A f \in DOMAIN feeds : /\ Given(f)' = Append(Given(f), k)
                                    /\ feeds'[f].read = feeds[f].read
  <1>1. /\ notifiers[k].stage = "waiting" /\ lock = NoPacket /\ lock' = k
        /\ notifiers' = [notifiers EXCEPT ![k].stage = "running"]
        /\ feeds' = feeds
    BY DEF TakeLock
  <1>2. k # NoPacket /\ notifiers[k].next = 1
    BY <1>1, BoundAssumption DEF IInv, LockHeld, Packet, NoPacket
  <1>3. /\ notifiers'[k].stage = "running" /\ notifiers'[k].next = 1
        /\ \A j \in Packet : j # k => notifiers'[j] = notifiers[j]
    BY <1>1, <1>2 DEF IInv, TypeOK
  <1>4. \A f \in DOMAIN feeds : f >= 1
    BY FeedsType DEF IInv
  <1>5. \A f \in DOMAIN feeds : Given(f)' = Append(Given(f), k)
    BY <1>1, <1>2, <1>3, <1>4 DEF Given
  <1> QED
    BY <1>1, <1>3, <1>5 DEF Begun

LEMMA NotifyGivesNothing ==
  ASSUME IInv, NEW k \in Packet, Notify(k)
  PROVE  GivesNothing
  <1> DEFINE f == notifiers[k].next
  <1>1. /\ lock = k /\ lock' = k /\ k # NoPacket /\ f <= Len(feeds)
        /\ feeds' = [feeds EXCEPT ![f].pushed = Append(@, k)]
        /\ notifiers' = [notifiers EXCEPT ![k].next = f + 1]
    BY BoundAssumption DEF Notify, Push, Packet, NoPacket
  <1>2. /\ notifiers'[k].next = f + 1 /\ f \in Nat \ {0}
        /\ \A j \in Packet : notifiers'[j].stage = notifiers[j].stage
    BY <1>1 DEF IInv, TypeOK
  <1>3. /\ DOMAIN feeds' = DOMAIN feeds /\ DOMAIN feeds = 1 .. Len(feeds)
        /\ \A g \in DOMAIN feeds :
             /\ feeds'[g].pushed = IF g = f THEN Append(feeds[g].pushed, k) ELSE feeds[g].pushed
             /\ feeds'[g].read = feeds[g].read
    <2>1. DOMAIN feeds = 1 .. Len(feeds) /\ \A g \in DOMAIN feeds : feeds[g] \in Feed
      BY FeedsType DEF IInv
    <2> HIDE DEF f
    <2> QED
      BY <1>1, <2>1 DEF Feed
  <1>4. ASSUME NEW g \in DOMAIN feeds
        PROVE  Given(g)' = Given(g)
    <2>1. Given(g) = IF g >= f THEN Append(feeds[g].pushed, k) ELSE feeds[g].pushed
      BY <1>1 DEF Given
    <2>2. Given(g)' = IF g >= f + 1 THEN Append(feeds'[g].pushed, k) ELSE feeds'[g].pushed
      BY <1>1, <1>2 DEF Given
    <2>3. g \in Nat /\ Len(feeds) \in Nat
      BY <1>3, FeedsType DEF IInv
    <2> HIDE DEF f
    <2> QED
      BY <1>2, <1>3, <2>1, <2>2, <2>3
  <1> QED
    BY <1>2, <1>3, <1>4 DEF GivesNothing, Begun

LEMMA CloseDoneGivesNothing ==
  ASSUME IInv, NEW k \in Packet, CloseDone(k)
  PROVE  GivesNothing
  <1>1. /\ lock = k /\ lock' = NoPacket /\ notifiers[k].next > Len(feeds)
        /\ notifiers' = [notifiers EXCEPT ![k].stage = "done"]
        /\ feeds' = feeds
    BY DEF CloseDone, Unlocked
  <1>2. /\ notifiers[k].stage = "running" /\ notifiers'[k].stage = "done"
        /\ \A j \in Packet : j # k => notifiers'[j] = notifiers[j]
    BY <1>1 DEF IInv, LockHeld, TypeOK
  <1>3. ASSUME NEW f \in DOMAIN feeds PROVE Given(f)' = Given(f)
    <2>1. ~(f >= notifiers[k].next)
      BY <1>1, FeedsType DEF IInv, TypeOK
    <2> QED
      BY <1>1, <2>1 DEF Given
  <1> QED
    BY <1>1, <1>2, <1>3 DEF GivesNothing, Begun

LEMMA HandleGivesNothing ==
  ASSUME IInv, NEW c \in Caller, Handle(c)
  PROVE  GivesNothing
  <1>1. UNCHANGED <<lock, feeds>>
    BY DEF Handle
  <1>2. \A j \in Packet : Begun(j) => notifiers'[j] = notifiers[j]
    BY DEF Handle, Begun, IInv, TypeOK, LockHeld
  <1>3. \A j \in Packet : Begun(j)' => Begun(j)
    BY DEF Handle, Begun, IInv, TypeOK
  <1>4. lock # NoPacket => lock \in Packet /\ Begun(lock)
    BY BoundAssumption DEF IInv, TypeOK, LockHeld, Packet, NoPacket, Begun
  <1>5. \A f \in DOMAIN feeds : Given(f)' = Given(f)
    BY <1>1, <1>2, <1>4 DEF Given
  <1> QED
    BY <1>1, <1>2, <1>3, <1>5 DEF GivesNothing, Begun

LEMMA StandStillGivesNothing ==
  ASSUME UNCHANGED <<notifiers, lock, feeds>>
  PROVE  GivesNothing
  BY DEF GivesNothing, Given, Begun

LEMMA RegisterNotifyJoins ==
  ASSUME IInv, NEW p \in Page, RegisterNotify(p)
  PROVE  /\ PFPublished' = PFPublished
         /\ PFGiven' = Append(PFGiven, <<>>)
         /\ PFTaken' = Append(PFTaken, 0)
  <1> DEFINE n == Len(feeds) + 1
  <1> DEFINE e == <<>>
  <1>0. e \in Seq(Packet)
    OBVIOUS
  <1>1. PICK x : /\ feeds' = Append(feeds, x) /\ x.pushed = e /\ x.read = 0
    BY DEF RegisterNotify
  <1> HIDE DEF e
  <1>2. lock = NoPacket /\ UNCHANGED <<notifiers, lock>>
    BY DEF RegisterNotify, MayAdd
  <1>3. Len(feeds) \in Nat /\ DOMAIN feeds = 1 .. Len(feeds)
    BY FeedsType DEF IInv
  <1>4. /\ DOMAIN feeds' = 1 .. n /\ feeds'[n] = x
        /\ \A f \in 1 .. Len(feeds) : feeds'[f] = feeds[f]
    BY <1>1, <1>3 DEF IInv, TypeOK
  <1>5. /\ PFGiven = [f \in 1 .. Len(feeds) |-> feeds[f].pushed]
        /\ PFGiven' = [f \in 1 .. n |-> feeds'[f].pushed]
    BY <1>2, <1>3, <1>4 DEF PFGiven, Given
  <1>6. /\ PFTaken = [f \in 1 .. Len(feeds) |-> feeds[f].read]
        /\ PFTaken' = [f \in 1 .. n |-> feeds'[f].read]
    BY <1>3, <1>4 DEF PFTaken
  <1>7. \A f \in 1 .. Len(feeds) : feeds[f].pushed \in Seq(Packet) /\ feeds[f].read \in Nat
    BY <1>3, FeedsType DEF IInv
  <1>8. PFGiven' = Append(PFGiven, e)
    <2>1. PFGiven \in Seq(Seq(Packet)) /\ Len(PFGiven) = Len(feeds)
      BY <1>3, <1>5, <1>7
    <2>2. PFGiven' \in Seq(Seq(Packet)) /\ Len(PFGiven') = n
      <3>1. feeds'[n].pushed \in Seq(Packet)
        BY <1>1, <1>4, <1>0
      <3>2. \A f \in 1 .. n : feeds'[f].pushed \in Seq(Packet)
        BY <1>3, <1>4, <1>7, <3>1
      <3>3. n \in Nat
        BY <1>3
      <3> HIDE DEF n
      <3> QED
        BY <1>5, <3>2, <3>3
    <2>3. /\ PFGiven'[Len(feeds) + 1] = e
          /\ \A f \in 1 .. Len(feeds) : PFGiven'[f] = PFGiven[f]
      BY <1>1, <1>3, <1>4, <1>5
    <2> QED
      BY <2>1, <2>2, <2>3, <1>0, IsAppend, Zenon
  <1>9. PFTaken' = Append(PFTaken, 0)
    <2>1. PFTaken \in Seq(Nat) /\ Len(PFTaken) = Len(feeds)
      BY <1>3, <1>6, <1>7
    <2>2. PFTaken' \in Seq(Nat) /\ Len(PFTaken') = n
      BY <1>1, <1>3, <1>4, <1>6, <1>7
    <2>3. /\ PFTaken'[Len(feeds) + 1] = 0
          /\ \A f \in 1 .. Len(feeds) : PFTaken'[f] = PFTaken[f]
      BY <1>1, <1>3, <1>4, <1>6
    <2>4. 0 \in Nat
      OBVIOUS
    <2> QED
      BY <2>1, <2>2, <2>3, <2>4, IsAppend, Zenon
  <1> QED
    BY <1>2, <1>8, <1>9 DEF PFPublished, e

LEMMA ForwardTakes ==
  ASSUME IInv, NEW f \in DOMAIN feeds, Forward(f)
  PROVE  /\ UNCHANGED <<PFPublished, PFGiven>>
         /\ PFTaken[f] < Len(PFGiven[f])
         /\ PFTaken' = [PFTaken EXCEPT ![f] = @ + 1]
  <1>1. /\ feeds[f] \in Feed /\ feeds[f].read \in Nat /\ Len(feeds[f].pushed) \in Nat
        /\ feeds[f].pushed \in Seq(Packet)
    BY FeedsType DEF IInv
  <1>2. feeds[f].read < Len(feeds[f].pushed)
    BY <1>1 DEF Forward, Waiting
  <1>3. Len(Given(f)) >= Len(feeds[f].pushed)
    BY <1>1 DEF Given
  <1>4. /\ UNCHANGED <<notifiers, lock>> /\ DOMAIN feeds' = DOMAIN feeds
        /\ \A g \in DOMAIN feeds :
             /\ feeds'[g].pushed = feeds[g].pushed
             /\ feeds'[g].read = IF g = f THEN feeds[g].read + 1 ELSE feeds[g].read
    <2>1. \A g \in DOMAIN feeds : feeds[g] \in Feed
      BY FeedsType DEF IInv
    <2> QED
      BY <2>1 DEF Forward, Feed
  <1>5. PFGiven' = PFGiven /\ PFPublished' = PFPublished
    BY <1>4 DEF PFGiven, PFPublished, Given
  <1>6. PFTaken' = [PFTaken EXCEPT ![f] = @ + 1]
    BY <1>4 DEF PFTaken
  <1>7. PFTaken[f] < Len(PFGiven[f])
    <2>1. Given(f) \in Seq(Packet) /\ Len(Given(f)) \in Nat
      BY FeedsType DEF IInv
    <2> QED
      BY <1>1, <1>2, <1>3, <2>1 DEF PFTaken, PFGiven
  <1> QED
    BY <1>5, <1>6, <1>7

LEMMA LeavingGivesNothing ==
  ASSUME IInv, NEW f \in DOMAIN feeds, Break(f) \/ Ended(f)
  PROVE  GivesNothing
  <1>1. UNCHANGED <<notifiers, lock>> /\ DOMAIN feeds' = DOMAIN feeds
    BY DEF Break, Ended
  <1>2. \A g \in DOMAIN feeds : feeds'[g].pushed = feeds[g].pushed /\ feeds'[g].read = feeds[g].read
    <2>1. \A g \in DOMAIN feeds : feeds[g] \in Feed
      BY FeedsType DEF IInv
    <2>2. CASE Break(f)
      BY <2>1, <2>2 DEF Break, Feed
    <2>3. CASE Ended(f)
      BY <2>1, <2>3 DEF Ended, Feed
    <2> QED
      BY <2>2, <2>3
  <1>3. ASSUME NEW g \in DOMAIN feeds PROVE Given(g)' = Given(g)
    BY <1>1, <1>2 DEF Given
  <1> QED
    BY <1>1, <1>2, <1>3 DEF GivesNothing, Begun

LEMMA StepRefines == IInv /\ [Next]_vars => [PF!Next]_(PF!vars)
  <1> SUFFICES ASSUME IInv, [Next]_vars
               PROVE  PF!Next \/ UNCHANGED <<PFPublished, PFGiven, PFTaken>>
    BY DEF PF!vars, PFPublished, PFGiven, PFTaken
  <1>1. ASSUME NEW k \in Packet, TakeLock(k)
        PROVE  PF!Next
    <2>1. k \notin PFPublished /\ PFPublished' = PFPublished \cup {k}
      BY <1>1, TakeLockPublishes DEF PFPublished, Begun
    <2>2. PFGiven' = [f \in DOMAIN PFGiven |-> Append(PFGiven[f], k)] /\ PFTaken' = PFTaken
      BY <1>1, TakeLockPublishes DEF PFGiven, PFTaken
    <2> QED
      BY <2>1, <2>2 DEF PF!Next, PF!Publish, PFPublished, PFGiven, PFTaken
  <1>2. ASSUME NEW p \in Page, RegisterNotify(p)
        PROVE  PF!Next
    BY <1>2, RegisterNotifyJoins DEF PF!Next, PF!Join, PFPublished, PFGiven, PFTaken
  <1>3. ASSUME NEW f \in DOMAIN feeds, Forward(f)
        PROVE  PF!Next
    <2>1. f \in DOMAIN PFGiven
      BY DEF PFGiven
    <2> QED
      BY <1>3, <2>1, ForwardTakes DEF PF!Next, PF!Take, PFPublished, PFGiven, PFTaken
  <1>4. CASE GivesNothing
    BY <1>4, GivesNothingStutters
  <1>5. ASSUME NEW c \in Caller, Calls(c) \/ \E type \in Type : GetMessage(c, type)
        PROVE  GivesNothing
    BY <1>5, HandleGivesNothing, StandStillGivesNothing DEF Calls, LookUp, Return, GetMessage
  <1>6. ASSUME (\E type \in Late : AskForLock(type)) \/ RegisterMessageCallback
        PROVE  GivesNothing
    BY <1>6, StandStillGivesNothing DEF AskForLock, RegisterMessageCallback
  <1>7. ASSUME NEW k \in Packet, Notify(k) \/ CloseDone(k)
        PROVE  GivesNothing
    BY <1>7, NotifyGivesNothing, CloseDoneGivesNothing
  <1>8. ASSUME NEW p \in Page, Connect(p)
        PROVE  GivesNothing
    BY <1>8, StandStillGivesNothing DEF Connect
  <1>9. CASE UNCHANGED vars
    BY <1>4, <1>9, StandStillGivesNothing DEF vars
  <1> QED
    BY <1>1, <1>2, <1>3, <1>4, <1>5, <1>6, <1>7, <1>8, <1>9, LeavingGivesNothing
       DEF Next, Notifies

(* Handing packets out, channel by channel and while pages come and go, is *)
(* as good as giving each to everybody at once.                            *)
THEOREM FeedImplemented == Spec => ImplementsFeed
  <1>1. Init => PF!Init
    <2> SUFFICES ASSUME Init PROVE PF!Init
      OBVIOUS
    <2>1. feeds = <<>> /\ DOMAIN feeds = {}
      BY DEF Init
    <2>2. \A k \in Packet : notifiers[k].stage = "none"
      BY DEF Init
    <2>3. PFGiven = <<>> /\ PFTaken = <<>> /\ PFPublished = {}
      BY <2>1, <2>2 DEF PFGiven, PFTaken, PFPublished
    <2> QED
      BY <2>3 DEF PF!Init, PFGiven, PFTaken, PFPublished
  <1>2. IInv /\ [Next]_vars => [PF!Next]_(PF!vars)
    BY StepRefines
  <1> QED
    BY <1>1, <1>2, Invariance, PTL DEF Spec, ImplementsFeed, PF!Spec
=============================================================================
