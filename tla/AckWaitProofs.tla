------------------------------ MODULE AckWaitProofs ------------------------------
(***************************************************************************)
(* Theorems about AckWait, for any number of broadcasts, any number of     *)
(* acks of each and with or without a Stop.                                *)
(***************************************************************************)
EXTENDS AckWait, TLAPS

Stopped == spc \notin {"running", "signalled"}

Acked(w) == "first" \in heard[w] \/ Stopped

(***************************************************************************)
(* The inductive invariant.  A goroutine ends on a token: so a token, and  *)
(* the receive loop on its way to put one, must mean an ack; and Stop must *)
(* find a channel for each id it has still to send to.                     *)
(***************************************************************************)
TokensMeanAcks == \A w \in Waiter : \A k \in Slot : buffer[w][k] > 0 => Acked(w)

LoopHasTarget ==
  rpc = "send" => \E w \in Waiter : \E k \in Slot : target = <<w, k>> /\ "first" \in heard[w]

UnservedInPool == spc = "sending" => \A w \in unserved : pool[w] # 0

IInv == /\ TypeOK
        /\ PoolTracksGoroutines
        /\ EndsOnlyIfAcked
        /\ TokensMeanAcks
        /\ LoopHasTarget
        /\ UnservedInPool

LEMMA InitIInv == Init => IInv
  <1> SUFFICES ASSUME Init PROVE IInv
    OBVIOUS
  <1>1. TypeOK
    BY AckAssumption DEF Init, TypeOK, ChanCap, Slot
  <1>2. PoolTracksGoroutines /\ EndsOnlyIfAcked /\ LoopHasTarget /\ UnservedInPool
    BY DEF Init, PoolTracksGoroutines, EndsOnlyIfAcked, LoopHasTarget, UnservedInPool
  <1>3. TokensMeanAcks
    BY DEF Init, TokensMeanAcks, Slot
  <1> QED
    BY <1>1, <1>2, <1>3 DEF IInv

-----------------------------------------------------------------------------
(* One lemma for each action.                                              *)

LEMMA BroadcastOK ==
  ASSUME IInv, NEW w \in Waiter, Broadcast(w)
  PROVE  IInv'
  BY DEF IInv, TypeOK, PoolTracksGoroutines, EndsOnlyIfAcked, TokensMeanAcks, LoopHasTarget,
     UnservedInPool, Acked, Stopped, Broadcast, channels, loop, stop

LEMMA TimeoutOK ==
  ASSUME IInv, NEW w \in Waiter, Timeout(w)
  PROVE  IInv'
  BY DEF IInv, TypeOK, PoolTracksGoroutines, EndsOnlyIfAcked, TokensMeanAcks, LoopHasTarget,
     UnservedInPool, Acked, Stopped, Timeout, channels, loop, stop

LEMMA deleteAckChannelOK ==
  ASSUME IInv, NEW w \in Waiter, deleteAckChannel(w)
  PROVE  IInv'
  BY DEF IInv, TypeOK, PoolTracksGoroutines, EndsOnlyIfAcked, TokensMeanAcks, LoopHasTarget,
     UnservedInPool, Acked, Stopped, deleteAckChannel, LockFree, channels, wire, loop, stop

LEMMA PeerReceivesOK ==
  ASSUME IInv, NEW w \in Waiter, PeerReceives(w)
  PROVE  IInv'
  BY DEF IInv, TypeOK, PoolTracksGoroutines, EndsOnlyIfAcked, TokensMeanAcks, LoopHasTarget,
     UnservedInPool, Acked, Stopped, PeerReceives, goroutine, channels, loop, stop

LEMMA RecvReackOK ==
  ASSUME IInv, NEW w \in Waiter, RecvReack(w)
  PROVE  IInv'
  BY DEF IInv, TypeOK, PoolTracksGoroutines, EndsOnlyIfAcked, TokensMeanAcks, LoopHasTarget,
     UnservedInPool, Acked, Stopped, RecvReack, goroutine, channels, loop, stop

LEMMA RecvAckOK ==
  ASSUME IInv, NEW w \in Waiter, RecvAck(w)
  PROVE  IInv'
  <1>1. acks[w] \in Nat /\ acks[w] - 1 \in 0 .. MaxAcks
    BY AckAssumption DEF IInv, TypeOK, RecvAck
  <1>2. TypeOK'
    BY <1>1 DEF IInv, TypeOK, RecvAck, goroutine, channels, loop, stop
  <1>3. \A v \in Waiter : heard[v] \subseteq heard'[v]
    BY DEF IInv, TypeOK, RecvAck
  <1>4. LoopHasTarget'
    BY <1>3 DEF IInv, TypeOK, LoopHasTarget, RecvAck, loop
  <1>5. PoolTracksGoroutines' /\ UnservedInPool'
    BY DEF IInv, PoolTracksGoroutines, UnservedInPool, RecvAck, goroutine, stop
  <1>6. EndsOnlyIfAcked' /\ TokensMeanAcks'
    BY <1>3 DEF IInv, EndsOnlyIfAcked, TokensMeanAcks, Acked, Stopped, RecvAck, goroutine,
       channels, stop
  <1> QED
    BY <1>2, <1>4, <1>5, <1>6 DEF IInv

LEMMA LeaveLoopOK ==
  ASSUME IInv, LeaveLoop
  PROVE  IInv'
  BY DEF IInv, TypeOK, PoolTracksGoroutines, EndsOnlyIfAcked, TokensMeanAcks, LoopHasTarget,
     UnservedInPool, Acked, Stopped, LeaveLoop, goroutine, channels, wire, stop

LEMMA StopOK ==
  ASSUME IInv, Stop
  PROVE  IInv'
  BY DEF IInv, TypeOK, PoolTracksGoroutines, EndsOnlyIfAcked, TokensMeanAcks, LoopHasTarget,
     UnservedInPool, Acked, Stopped, Stop, goroutine, channels, wire, loop

LEMMA LockPoolOK ==
  ASSUME IInv, LockPool
  PROVE  IInv'
  BY DEF IInv, TypeOK, PoolTracksGoroutines, EndsOnlyIfAcked, TokensMeanAcks, LoopHasTarget,
     UnservedInPool, Acked, Stopped, LockPool, goroutine, channels, wire, loop

LEMMA UnlockPoolOK ==
  ASSUME IInv, UnlockPool
  PROVE  IInv'
  BY DEF IInv, TypeOK, PoolTracksGoroutines, EndsOnlyIfAcked, TokensMeanAcks, LoopHasTarget,
     UnservedInPool, Acked, Stopped, UnlockPool, goroutine, channels, wire, loop

(* A channel that gets or loses a token. *)
LEMMA TokenMoved ==
  ASSUME TypeOK, TokensMeanAcks, NEW w \in Waiter, NEW k \in Slot, NEW n \in 0 .. ChanCap,
         buffer' = [buffer EXCEPT ![w] = [@ EXCEPT ![k] = n]],
         n > 0 => Acked(w), heard' = heard, Stopped => Stopped'
  PROVE  /\ buffer' \in [Waiter -> [Slot -> 0 .. ChanCap]]
         /\ TokensMeanAcks'
  <1>1. buffer \in [Waiter -> [Slot -> 0 .. ChanCap]]
    BY DEF TypeOK
  <1>2. buffer' \in [Waiter -> [Slot -> 0 .. ChanCap]]
    BY <1>1
  <1>3. ASSUME NEW v \in Waiter, NEW j \in Slot, buffer'[v][j] > 0
        PROVE  Acked(v)
    <2>1. buffer'[v][j] = IF v = w /\ j = k THEN n ELSE buffer[v][j]
      BY <1>1
    <2> QED
      BY <1>3, <2>1 DEF TokensMeanAcks
  <1>4. \A v \in Waiter : Acked(v) => Acked(v)'
    BY DEF Acked
  <1> QED
    BY <1>2, <1>3, <1>4 DEF TokensMeanAcks

LEMMA TakeAckOK ==
  ASSUME IInv, NEW w \in Waiter, TakeAck(w)
  PROVE  IInv'
  <1> DEFINE k == current[w]
             n == buffer[w][k] - 1
  <1>1. k \in Slot
    BY DEF IInv, TypeOK, PoolTracksGoroutines, TakeAck
  <1>2. buffer \in [Waiter -> [Slot -> 0 .. ChanCap]] /\ buffer[w][k] \in 0 .. ChanCap
    BY <1>1 DEF IInv, TypeOK
  <1>3. n \in 0 .. ChanCap
    BY <1>2 DEF TakeAck, ChanCap
  <1>4. buffer' = [buffer EXCEPT ![w] = [@ EXCEPT ![k] = n]]
    BY <1>2 DEF TakeAck
  <1>5. Acked(w)
    BY <1>1 DEF IInv, TokensMeanAcks, TakeAck
  <1>6. heard' = heard /\ spc' = spc
    BY DEF TakeAck, wire, stop
  <1> HIDE DEF k, n
  <1>7. buffer' \in [Waiter -> [Slot -> 0 .. ChanCap]] /\ TokensMeanAcks'
    BY <1>1, <1>3, <1>4, <1>5, <1>6, TokenMoved DEF IInv, Stopped
  <1>8. TypeOK'
    BY <1>7 DEF IInv, TypeOK, TakeAck, wire, loop, stop
  <1>9. PoolTracksGoroutines' /\ UnservedInPool' /\ LoopHasTarget'
    BY DEF IInv, TypeOK, PoolTracksGoroutines, UnservedInPool, LoopHasTarget, TakeAck, wire, loop,
       stop
  <1>10. EndsOnlyIfAcked'
    BY <1>5, <1>6 DEF IInv, TypeOK, EndsOnlyIfAcked, Acked, Stopped, TakeAck
  <1> QED
    BY <1>7, <1>8, <1>9, <1>10 DEF IInv

LEMMA CloseChannelOK ==
  ASSUME IInv, NEW w \in Waiter, CloseChannel(w)
  PROVE  IInv'
  <1>1. current[w] \in Slot
    BY DEF IInv, TypeOK, PoolTracksGoroutines, CloseChannel
  <1>2. closed' \in [Waiter -> [Slot -> BOOLEAN]]
    BY <1>1 DEF IInv, TypeOK, CloseChannel
  <1>3. TypeOK'
    BY <1>2 DEF IInv, TypeOK, CloseChannel, wire, loop, stop
  <1>4. PoolTracksGoroutines' /\ EndsOnlyIfAcked'
    BY DEF IInv, TypeOK, PoolTracksGoroutines, EndsOnlyIfAcked, CloseChannel, wire, stop
  <1>5. TokensMeanAcks' /\ LoopHasTarget' /\ UnservedInPool'
    BY DEF IInv, TokensMeanAcks, LoopHasTarget, UnservedInPool, Acked, Stopped, CloseChannel, wire,
       loop, stop
  <1> QED
    BY <1>3, <1>4, <1>5 DEF IInv

(* There is always a third channel. *)
LEMMA FreshSlot ==
  ASSUME TypeOK, NEW w \in Waiter
  PROVE  Fresh(w) \in Slot
  <1>1. \A j, k \in Slot : Held(w, j) /\ Held(w, k) => j = k
    BY DEF Held
  <1>2. \E k \in Slot : k # current[w] /\ ~Held(w, k)
    <2>1. 1 \in Slot /\ 2 \in Slot /\ 3 \in Slot
      BY DEF Slot
    <2> QED
      BY <1>1, <2>1
  <1> QED
    BY <1>2 DEF Fresh

LEMMA RegisterOK ==
  ASSUME IInv, NEW w \in Waiter, Register(w)
  PROVE  IInv'
  <1> DEFINE k == Fresh(w)
  <1>1. /\ k \in Slot
        /\ current' = [current EXCEPT ![w] = k]
        /\ pool' = [pool EXCEPT ![w] = k]
        /\ wpc' = [wpc EXCEPT ![w] = "select"]
        /\ k # 0
    BY FreshSlot DEF IInv, Register, Slot
  <1>2. /\ buffer' = [buffer EXCEPT ![w] = [j \in Slot |-> IF Held(w, j) THEN @[j] ELSE 0]]
        /\ closed' = [closed EXCEPT ![w] = [j \in Slot |-> Held(w, j) /\ @[j]]]
    BY DEF Register
  <1> HIDE DEF k
  <1>3. 0 \in 0 .. ChanCap
    BY DEF ChanCap
  <1>4. buffer \in [Waiter -> [Slot -> 0 .. ChanCap]] /\ closed \in [Waiter -> [Slot -> BOOLEAN]]
    BY DEF IInv, TypeOK
  <1>5. buffer' \in [Waiter -> [Slot -> 0 .. ChanCap]]
    BY <1>2, <1>3, <1>4
  <1>6. closed' \in [Waiter -> [Slot -> BOOLEAN]]
    BY <1>2, <1>4
  <1>7. TypeOK'
    BY <1>1, <1>5, <1>6 DEF IInv, TypeOK, Register, wire, loop, stop
  <1>8. PoolTracksGoroutines' /\ EndsOnlyIfAcked' /\ UnservedInPool'
    BY <1>1 DEF IInv, TypeOK, PoolTracksGoroutines, EndsOnlyIfAcked, UnservedInPool, Register, wire,
       stop
  <1>9. ASSUME NEW v \in Waiter, NEW j \in Slot, buffer'[v][j] > 0
        PROVE  Acked(v)
    <2>1. buffer'[v][j] \in {0, buffer[v][j]}
      BY <1>2, <1>4
    <2> QED
      BY <1>9, <2>1 DEF IInv, TokensMeanAcks
  <1>10. TokensMeanAcks' /\ LoopHasTarget'
    BY <1>9 DEF IInv, TokensMeanAcks, LoopHasTarget, Acked, Stopped, Register, wire, loop, stop
  <1> QED
    BY <1>7, <1>8, <1>10 DEF IInv

LEMMA NotifyOK ==
  ASSUME IInv, Notify
  PROVE  IInv'
  <1>1. PICK w \in Waiter, k \in Slot : target = <<w, k>> /\ "first" \in heard[w]
    BY DEF IInv, LoopHasTarget, Notify
  <1>2. buffer \in [Waiter -> [Slot -> 0 .. ChanCap]] /\ buffer[w][k] \in 0 .. ChanCap
    BY DEF IInv, TypeOK
  <1>3. heard' = heard /\ spc' = spc
    BY DEF Notify, wire, stop
  <1>4. buffer' \in [Waiter -> [Slot -> 0 .. ChanCap]] /\ TokensMeanAcks'
    <2>1. CASE UNCHANGED buffer
      BY <1>2, <1>3, <2>1 DEF IInv, TokensMeanAcks, Acked, Stopped
    <2>2. CASE /\ buffer[w][k] < ChanCap
               /\ buffer' = [buffer EXCEPT ![w][k] = @ + 1]
      <3>1. buffer[w][k] + 1 \in 0 .. ChanCap
        BY <1>2, <2>2 DEF ChanCap
      <3>2. buffer' = [buffer EXCEPT ![w] = [@ EXCEPT ![k] = buffer[w][k] + 1]]
        BY <1>2, <2>2
      <3> QED
        BY <1>1, <1>3, <3>1, <3>2, TokenMoved DEF IInv, Acked, Stopped
    <2> QED
      BY <1>1, <2>1, <2>2 DEF Notify
  <1>5. TypeOK'
    BY <1>4 DEF IInv, TypeOK, Notify, goroutine, wire, stop
  <1>6. PoolTracksGoroutines' /\ EndsOnlyIfAcked' /\ UnservedInPool' /\ LoopHasTarget'
    BY DEF IInv, PoolTracksGoroutines, EndsOnlyIfAcked, UnservedInPool, LoopHasTarget, Notify,
       goroutine, wire, stop
  <1> QED
    BY <1>4, <1>5, <1>6 DEF IInv

LEMMA StopWaiterOK ==
  ASSUME IInv, StopWaiter
  PROVE  IInv'
  <1>1. PICK w \in unserved :
          \/ /\ closed[w][pool[w]]
             /\ spc' = "panicked"
             /\ UNCHANGED <<buffer, unserved>>
          \/ /\ ~closed[w][pool[w]]
             /\ buffer[w][pool[w]] < ChanCap
             /\ buffer' = [buffer EXCEPT ![w][pool[w]] = @ + 1]
             /\ unserved' = unserved \ {w}
             /\ UNCHANGED spc
    BY DEF StopWaiter
  <1> DEFINE k == pool[w]
  <1>2. w \in Waiter /\ k \in Slot
    BY DEF IInv, TypeOK, UnservedInPool, StopWaiter
  <1>3. buffer \in [Waiter -> [Slot -> 0 .. ChanCap]] /\ buffer[w][k] \in 0 .. ChanCap
    BY <1>2 DEF IInv, TypeOK
  <1>4. heard' = heard /\ Stopped /\ Stopped' /\ Acked(w)
    BY <1>1 DEF StopWaiter, wire, Stopped, Acked
  <1>5. buffer' \in [Waiter -> [Slot -> 0 .. ChanCap]] /\ TokensMeanAcks'
    <2>1. CASE UNCHANGED buffer
      BY <1>3, <1>4, <2>1 DEF IInv, TokensMeanAcks, Acked
    <2>2. CASE /\ buffer[w][k] < ChanCap
               /\ buffer' = [buffer EXCEPT ![w][k] = @ + 1]
      <3>1. buffer[w][k] + 1 \in 0 .. ChanCap
        BY <1>3, <2>2 DEF ChanCap
      <3>2. buffer' = [buffer EXCEPT ![w] = [@ EXCEPT ![k] = buffer[w][k] + 1]]
        BY <1>3, <2>2
      <3> HIDE DEF k
      <3> QED
        BY <1>2, <1>4, <3>1, <3>2, TokenMoved DEF IInv
    <2> QED
      BY <1>1, <2>1, <2>2
  <1>6. spc' \in {"sending", "panicked"} /\ unserved' \subseteq unserved
    BY <1>1 DEF StopWaiter
  <1>7. TypeOK'
    BY <1>5, <1>6 DEF IInv, TypeOK, StopWaiter, goroutine, wire, loop
  <1>8. PoolTracksGoroutines' /\ LoopHasTarget'
    BY DEF IInv, PoolTracksGoroutines, LoopHasTarget, StopWaiter, goroutine, wire, loop
  <1>9. EndsOnlyIfAcked' /\ UnservedInPool'
    BY <1>6 DEF IInv, EndsOnlyIfAcked, UnservedInPool, StopWaiter, goroutine, wire
  <1> QED
    BY <1>5, <1>7, <1>8, <1>9 DEF IInv

-----------------------------------------------------------------------------
(* The invariant.                                                          *)

LEMMA StepIInv == IInv /\ [Next]_vars => IInv'
  <1>1. ASSUME IInv, NEW w \in Waiter,
               Broadcast(w) \/ Timeout(w) \/ Goroutine(w) \/ PeerReceives(w)
        PROVE  IInv'
    BY <1>1, BroadcastOK, TimeoutOK, RegisterOK, TakeAckOK, CloseChannelOK, deleteAckChannelOK,
       PeerReceivesOK DEF Goroutine
  <1>2. ASSUME IInv, Loop
        PROVE  IInv'
    BY <1>2, RecvAckOK, RecvReackOK, NotifyOK, LeaveLoopOK DEF Loop
  <1>3. ASSUME IInv, Stop \/ Stopping
        PROVE  IInv'
    BY <1>3, StopOK, LockPoolOK, StopWaiterOK, UnlockPoolOK DEF Stopping
  <1>4. ASSUME IInv, UNCHANGED vars
        PROVE  IInv'
    BY <1>4 DEF vars, IInv, TypeOK, PoolTracksGoroutines, EndsOnlyIfAcked, TokensMeanAcks,
       LoopHasTarget, UnservedInPool, Acked, Stopped
  <1> QED
    BY <1>1, <1>2, <1>3, <1>4 DEF Next

LEMMA Invariance == Spec => []IInv
  BY InitIInv, StepIInv, PTL DEF Spec

(***************************************************************************)
(* Types, and that no buffer ever holds more than its capacity.            *)
(***************************************************************************)
THEOREM TypeCorrect == Spec => []TypeOK
  <1>1. IInv => TypeOK
    BY DEF IInv
  <1> QED
    BY <1>1, Invariance, PTL

(***************************************************************************)
(* The pool never leads to a channel that its goroutine has replaced, nor  *)
(* keeps one of a goroutine that has ended.                                *)
(***************************************************************************)
THEOREM PoolExact == Spec => []PoolTracksGoroutines
  <1>1. IInv => PoolTracksGoroutines
    BY DEF IInv
  <1> QED
    BY <1>1, Invariance, PTL

(***************************************************************************)
(* No goroutine ends before the ack it waits for, or Stop.                 *)
(***************************************************************************)
THEOREM EndsWhenAcked == Spec => []EndsOnlyIfAcked
  <1>1. IInv => EndsOnlyIfAcked
    BY DEF IInv
  <1> QED
    BY <1>1, Invariance, PTL

-----------------------------------------------------------------------------
(***************************************************************************)
(* Room for every token.  All that ever goes into the channels of a        *)
(* broadcast comes of the acks of its first transmission, one token each,  *)
(* and one more token of Stop: the invariant adds up what is in a channel  *)
(* and what may still come.                                                *)
(***************************************************************************)
ByStop(w) ==
  IF spc \in {"running", "signalled"} \/ (spc = "sending" /\ w \in unserved) THEN 0 ELSE 1

ByLoop(w, k) == IF Held(w, k) THEN 1 ELSE 0

BeforeAcks(w) ==
  acks[w] = 0 /\ \A k \in Slot : ~Held(w, k) /\ buffer[w][k] <= ByStop(w)

WithAcks(w) ==
  \A k \in Slot : buffer[w][k] + acks[w] + ByLoop(w, k) <= MaxAcks + ByStop(w)

Counted(w) == IF first[w] = "gone" THEN WithAcks(w) ELSE BeforeAcks(w)

TokensCounted == \A w \in Waiter : Counted(w)

Unsent == \A w \in Waiter : wpc[w] = "idle" => first[w] = "none"

CInv == IInv /\ Unsent /\ TokensCounted

LEMMA InitCounted == Init => TokensCounted
  <1> SUFFICES ASSUME Init, NEW w \in Waiter PROVE Counted(w)
    BY DEF TokensCounted
  <1>1. ByStop(w) = 0 /\ acks[w] = 0 /\ first[w] = "none" /\ rpc = "recv"
    BY DEF Init, ByStop
  <1>2. \A k \in Slot : buffer[w][k] = 0
    BY DEF Init
  <1> QED
    BY <1>1, <1>2 DEF Counted, BeforeAcks, Held

Numbers ==
  \A w \in Waiter :
    /\ acks[w] \in Nat /\ ByStop(w) \in {0, 1}
    /\ \A k \in Slot : buffer[w][k] \in Nat /\ ByLoop(w, k) \in {0, 1}

LEMMA NumbersType == TypeOK => Numbers
  <1> SUFFICES ASSUME TypeOK, NEW w \in Waiter
               PROVE  /\ acks[w] \in Nat /\ ByStop(w) \in {0, 1}
                      /\ \A k \in Slot : buffer[w][k] \in Nat /\ ByLoop(w, k) \in {0, 1}
    BY DEF Numbers
  <1>1. acks[w] \in Nat
    BY AckAssumption DEF TypeOK
  <1>2. \A k \in Slot : buffer[w][k] \in Nat
    <2>1. buffer \in [Waiter -> [Slot -> 0 .. ChanCap]] /\ 0 .. ChanCap \subseteq Nat
      BY DEF TypeOK, ChanCap
    <2> QED
      BY <2>1
  <1>3. ByStop(w) \in {0, 1} /\ \A k \in Slot : ByLoop(w, k) \in {0, 1}
    BY DEF ByStop, ByLoop
  <1> QED
    BY <1>1, <1>2, <1>3

(* A step that adds no token and no ack to those of a broadcast.           *)
AddsNothing(w) ==
  /\ acks'[w] <= acks[w]
  /\ \A k \in Slot : buffer'[w][k] <= buffer[w][k] /\ (Held(w, k)' => Held(w, k))
  /\ ByStop(w) <= ByStop(w)'
  /\ first'[w] = "gone" <=> first[w] = "gone"

LEMMA NothingAdded ==
  ASSUME IInv, IInv', NEW w \in Waiter, Counted(w), AddsNothing(w)
  PROVE  Counted(w)'
  <1>1. Numbers /\ Numbers'
    <2>1. Numbers
      BY NumbersType DEF IInv
    <2>2. TypeOK' => Numbers'
      BY NumbersType, PTL
    <2> QED
      BY <2>1, <2>2 DEF IInv
  <1>2. /\ acks[w] \in Nat /\ acks'[w] \in Nat /\ MaxAcks \in Nat
        /\ ByStop(w) \in Nat /\ ByStop(w)' \in Nat
        /\ \A k \in Slot : /\ buffer[w][k] \in Nat /\ buffer'[w][k] \in Nat
                           /\ ByLoop(w, k) \in Nat /\ ByLoop(w, k)' \in Nat
    BY <1>1, AckAssumption DEF Numbers
  <1>3. \A k \in Slot : ByLoop(w, k)' <= ByLoop(w, k)
    BY DEF AddsNothing, ByLoop
  <1>4. CASE first[w] = "gone"
    <2>1. WithAcks(w)'
      BY <1>2, <1>3, <1>4 DEF Counted, WithAcks, AddsNothing
    <2> QED
      BY <1>4, <2>1 DEF Counted, AddsNothing
  <1>5. CASE first[w] # "gone"
    <2>1. BeforeAcks(w)'
      BY <1>2, <1>5 DEF Counted, BeforeAcks, AddsNothing
    <2> QED
      BY <1>5, <2>1 DEF Counted, AddsNothing
  <1> QED
    BY <1>4, <1>5

(* Most steps leave the channels, the loop and the acks alone.             *)
LEMMA NothingMoves ==
  ASSUME IInv, NEW w \in Waiter,
         UNCHANGED <<acks, buffer, loop, stop>>,
         first'[w] = "gone" <=> first[w] = "gone"
  PROVE  AddsNothing(w)
  <1>1. Numbers
    BY NumbersType DEF IInv
  <1>2. /\ acks[w] \in Nat /\ ByStop(w) \in Nat
        /\ \A k \in Slot : buffer[w][k] \in Nat
    BY <1>1 DEF Numbers
  <1>3. ByStop(w)' = ByStop(w) /\ \A k \in Slot : Held(w, k)' <=> Held(w, k)
    BY DEF ByStop, Held, loop, stop
  <1> QED
    BY <1>2, <1>3 DEF AddsNothing

LEMMA GoroutineAddsNothing ==
  ASSUME IInv, Unsent, NEW v \in Waiter, Goroutine(v) \/ Broadcast(v) \/ Timeout(v),
         NEW w \in Waiter
  PROVE  AddsNothing(w)
  <1>1. Numbers
    BY NumbersType DEF IInv
  <1>2. /\ acks[w] \in Nat /\ ByStop(w) \in Nat
        /\ \A k \in Slot : buffer[w][k] \in Nat
    BY <1>1 DEF Numbers
  <1>3. CASE Broadcast(v) \/ Timeout(v) \/ CloseChannel(v) \/ deleteAckChannel(v)
    <2>1. UNCHANGED <<acks, buffer, loop, stop>>
      <3>1. CASE Broadcast(v)
        BY <3>1 DEF Broadcast, channels
      <3>2. CASE Timeout(v)
        BY <3>2 DEF Timeout, channels
      <3>3. CASE CloseChannel(v)
        BY <3>3 DEF CloseChannel, wire
      <3>4. CASE deleteAckChannel(v)
        BY <3>4 DEF deleteAckChannel, channels, wire
      <3> QED
        BY <1>3, <3>1, <3>2, <3>3, <3>4
    <2>2. first'[w] = "gone" <=> first[w] = "gone"
      <3>1. CASE Broadcast(v)
        BY <3>1 DEF Broadcast, IInv, TypeOK, Unsent
      <3>2. CASE Timeout(v) \/ CloseChannel(v) \/ deleteAckChannel(v)
        BY <3>2 DEF Timeout, CloseChannel, deleteAckChannel, wire
      <3> QED
        BY <1>3, <3>1, <3>2
    <2> QED
      BY <2>1, <2>2, NothingMoves
  <1>4. CASE Register(v) \/ TakeAck(v)
    <2>1. acks' = acks /\ first' = first /\ UNCHANGED <<loop, stop>>
      BY <1>4 DEF Register, TakeAck, wire
    <2>2. ByStop(w)' = ByStop(w) /\ \A k \in Slot : Held(w, k)' <=> Held(w, k)
      BY <2>1 DEF ByStop, Held, loop, stop
    <2>3. \A k \in Slot : buffer'[w][k] <= buffer[w][k]
      <3>0. buffer \in [Waiter -> [Slot -> 0 .. ChanCap]]
        BY DEF IInv, TypeOK
      <3>1. CASE Register(v)
        <4>1. buffer' = [buffer EXCEPT ![v] = [j \in Slot |-> IF Held(v, j) THEN @[j] ELSE 0]]
          BY <3>1 DEF Register
        <4> QED
          BY <1>2, <3>0, <4>1
      <3>2. CASE TakeAck(v)
        <4>1. buffer' = [buffer EXCEPT ![v][current[v]] = @ - 1]
          BY <3>2 DEF TakeAck
        <4>2. \A k \in Slot : buffer'[w][k] \in {buffer[w][k], buffer[w][k] - 1}
          BY <3>0, <4>1
        <4> QED
          BY <1>2, <4>2
      <3> QED
        BY <1>4, <3>1, <3>2
    <2> QED
      BY <1>2, <2>1, <2>2, <2>3 DEF AddsNothing
  <1> QED
    BY <1>3, <1>4 DEF Goroutine

LEMMA RecvAckCounted ==
  ASSUME CInv, IInv', NEW v \in Waiter, RecvAck(v)
  PROVE  TokensCounted'
  <1> SUFFICES ASSUME NEW w \in Waiter PROVE Counted(w)'
    BY DEF TokensCounted
  <1>1. /\ Counted(w) /\ Counted(v) /\ IInv /\ rpc = "recv" /\ acks[v] > 0
        /\ acks' = [acks EXCEPT ![v] = @ - 1]
        /\ UNCHANGED <<buffer, first, spc, unserved>>
    BY DEF CInv, TokensCounted, RecvAck, channels, stop
  <1>2. Numbers
    BY <1>1, NumbersType DEF IInv
  <1>3. /\ MaxAcks \in Nat /\ acks[w] \in Nat /\ ByStop(w) \in Nat
        /\ ByStop(w)' = ByStop(w) /\ \A k \in Slot : buffer[w][k] \in Nat
    BY <1>1, <1>2, AckAssumption DEF Numbers, ByStop
  <1>4. acks'[w] = IF w = v THEN acks[w] - 1 ELSE acks[w]
    BY <1>1 DEF IInv, TypeOK
  <1>5. \A k \in Slot : ~Held(w, k) /\ (Held(w, k)' => w = v)
    <2>1. rpc' = "send" => target' = <<v, pool[v]>>
      BY <1>1 DEF RecvAck, loop
    <2> QED
      BY <1>1, <2>1 DEF Held
  <1>6. CASE w = v
    <2>1. first[v] = "gone" /\ first'[v] = "gone" /\ WithAcks(v)
      BY <1>1, <1>3, <1>6 DEF Counted, BeforeAcks
    <2>2. \A k \in Slot : buffer[w][k] + acks[w] <= MaxAcks + ByStop(w)
      BY <1>3, <1>5, <1>6, <2>1 DEF WithAcks, ByLoop
    <2>3. \A k \in Slot : ByLoop(w, k)' \in {0, 1}
      BY DEF ByLoop
    <2>4. WithAcks(w)'
      BY <1>1, <1>3, <1>4, <1>6, <2>2, <2>3 DEF WithAcks
    <2> QED
      BY <1>6, <2>1, <2>4 DEF Counted
  <1>7. CASE w # v
    <2>1. AddsNothing(w)
      BY <1>1, <1>3, <1>4, <1>5, <1>7 DEF AddsNothing
    <2> QED
      BY <1>1, <2>1, NothingAdded
  <1> QED
    BY <1>6, <1>7

LEMMA NotifyCounted ==
  ASSUME CInv, IInv', Notify
  PROVE  TokensCounted'
  <1> SUFFICES ASSUME NEW w \in Waiter PROVE Counted(w)'
    BY DEF TokensCounted
  <1>1. PICK v \in Waiter, j \in Slot : target = <<v, j>>
    BY DEF CInv, IInv, LoopHasTarget, Notify
  <1>2. /\ Counted(w) /\ IInv /\ rpc = "send" /\ rpc' = "recv"
        /\ UNCHANGED <<acks, first, spc, unserved>>
    BY DEF CInv, TokensCounted, Notify, wire, stop
  <1>3. Numbers
    BY <1>2, NumbersType DEF IInv
  <1>4. /\ MaxAcks \in Nat /\ acks[w] \in Nat /\ ByStop(w) \in Nat
        /\ ByStop(w)' = ByStop(w) /\ \A k \in Slot : buffer[w][k] \in Nat
    BY <1>2, <1>3, AckAssumption DEF Numbers, ByStop
  <1>5. \A k \in Slot : ByLoop(w, k)' = 0 /\ ~Held(w, k)'
    BY <1>2 DEF ByLoop, Held
  <1>6. \A k \in Slot : buffer'[w][k] <= buffer[w][k] + ByLoop(w, k)
    <2>0. buffer \in [Waiter -> [Slot -> 0 .. ChanCap]]
      BY <1>2 DEF IInv, TypeOK
    <2>1. buffer' = buffer \/ buffer' = [buffer EXCEPT ![v][j] = @ + 1]
      BY <1>1 DEF Notify
    <2>2. \A k \in Slot : buffer'[w][k] = buffer[w][k]
                         \/ (w = v /\ k = j /\ buffer'[w][k] = buffer[w][k] + 1)
      BY <2>0, <2>1
    <2>3. \A k \in Slot : ByLoop(w, k) = IF w = v /\ k = j THEN 1 ELSE 0
      BY <1>1, <1>2 DEF ByLoop, Held
    <2> QED
      BY <1>4, <2>2, <2>3
  <1>7. \A k \in Slot : buffer'[w][k] \in Nat /\ ByLoop(w, k) \in Nat
    <2>1. TypeOK' => Numbers'
      BY NumbersType, PTL
    <2> QED
      BY <1>3, <2>1 DEF Numbers, IInv
  <1>8. CASE first[w] = "gone"
    <2>1. WithAcks(w)
      BY <1>2, <1>8 DEF Counted
    <2>2. WithAcks(w)'
      BY <1>2, <1>4, <1>5, <1>6, <1>7, <2>1 DEF WithAcks
    <2> QED
      BY <1>2, <1>8, <2>2 DEF Counted
  <1>9. CASE first[w] # "gone"
    <2>1. BeforeAcks(w)
      BY <1>2, <1>9 DEF Counted
    <2>2. \A k \in Slot : buffer'[w][k] <= buffer[w][k]
      BY <1>4, <1>6, <2>1 DEF BeforeAcks, ByLoop
    <2>3. BeforeAcks(w)'
      BY <1>2, <1>4, <1>5, <1>7, <2>1, <2>2 DEF BeforeAcks
    <2> QED
      BY <1>2, <1>9, <2>3 DEF Counted
  <1> QED
    BY <1>8, <1>9

LEMMA PeerReceivesCounted ==
  ASSUME CInv, IInv', NEW v \in Waiter, PeerReceives(v)
  PROVE  TokensCounted'
  <1> SUFFICES ASSUME NEW w \in Waiter PROVE Counted(w)'
    BY DEF TokensCounted
  <1>1. PICK n \in 0 .. MaxAcks : acks' = [acks EXCEPT ![v] = n]
    BY DEF PeerReceives
  <1>2. /\ Counted(w) /\ IInv /\ first[v] = "flying"
        /\ first' = [first EXCEPT ![v] = "gone"]
        /\ UNCHANGED <<buffer, loop, stop>>
    BY DEF CInv, TokensCounted, PeerReceives, channels
  <1>3. Numbers
    BY <1>2, NumbersType DEF IInv
  <1>4. /\ MaxAcks \in Nat /\ acks[w] \in Nat /\ ByStop(w) \in Nat
        /\ ByStop(w)' = ByStop(w) /\ \A k \in Slot : buffer[w][k] \in Nat
        /\ \A k \in Slot : Held(w, k)' <=> Held(w, k)
    BY <1>2, <1>3, AckAssumption DEF Numbers, ByStop, Held, loop, stop
  <1>5. /\ acks'[w] = IF w = v THEN n ELSE acks[w]
        /\ first'[w] = IF w = v THEN "gone" ELSE first[w]
    BY <1>1, <1>2 DEF IInv, TypeOK
  <1>6. CASE w = v
    <2>1. \A k \in Slot : ~Held(w, k)' /\ buffer'[w][k] <= ByStop(w)'
      BY <1>2, <1>4, <1>6 DEF Counted, BeforeAcks
    <2>2. \A k \in Slot : buffer'[w][k] \in Nat /\ ByLoop(w, k)' = 0
      BY <1>2, <1>4, <2>1 DEF ByLoop
    <2>3. WithAcks(w)'
      BY <1>4, <1>5, <1>6, <2>1, <2>2 DEF WithAcks
    <2> QED
      BY <1>5, <1>6, <2>3 DEF Counted
  <1>7. CASE w # v
    <2>1. AddsNothing(w)
      BY <1>2, <1>4, <1>5, <1>7 DEF AddsNothing
    <2> QED
      BY <1>2, <2>1, NothingAdded
  <1> QED
    BY <1>6, <1>7

LEMMA StopWaiterCounted ==
  ASSUME CInv, IInv', StopWaiter
  PROVE  TokensCounted'
  <1> SUFFICES ASSUME NEW w \in Waiter PROVE Counted(w)'
    BY DEF TokensCounted
  <1>1. PICK v \in unserved :
          \/ /\ spc' = "panicked"
             /\ UNCHANGED <<buffer, unserved>>
          \/ /\ buffer' = [buffer EXCEPT ![v][pool[v]] = @ + 1]
             /\ unserved' = unserved \ {v}
             /\ UNCHANGED spc
    BY DEF StopWaiter
  <1>2. /\ Counted(w) /\ IInv /\ spc = "sending"
        /\ UNCHANGED <<acks, first, loop>>
    BY DEF CInv, TokensCounted, StopWaiter, wire
  <1>3. Numbers
    BY <1>2, NumbersType DEF IInv
  <1>4. /\ MaxAcks \in Nat /\ acks[w] \in Nat /\ ByStop(w) \in Nat
        /\ \A k \in Slot : buffer[w][k] \in Nat /\ ByLoop(w, k) \in Nat
        /\ \A k \in Slot : (Held(w, k)' <=> Held(w, k)) /\ ByLoop(w, k)' = ByLoop(w, k)
    BY <1>2, <1>3, AckAssumption DEF Numbers, ByLoop, Held, loop
  <1>5. ByStop(w) <= ByStop(w)'
    BY <1>1, <1>2 DEF ByStop
  <1>6. CASE w = v /\ unserved' = unserved \ {v} /\ spc' = spc
             /\ buffer' = [buffer EXCEPT ![v][pool[v]] = @ + 1]
    <2>1. ByStop(w) = 0 /\ ByStop(w)' = 1
      BY <1>2, <1>6 DEF ByStop
    <2>2. \A k \in Slot : buffer'[w][k] \in Nat /\ buffer'[w][k] <= buffer[w][k] + 1
      <3>1. buffer \in [Waiter -> [Slot -> 0 .. ChanCap]]
        BY <1>2 DEF IInv, TypeOK
      <3>2. \A k \in Slot : buffer'[w][k] \in {buffer[w][k], buffer[w][k] + 1}
        BY <1>6, <3>1
      <3> QED
        BY <1>4, <3>2
    <2>3. CASE first[w] = "gone"
      <3>1. WithAcks(w)'
        BY <1>2, <1>4, <2>1, <2>2, <2>3 DEF Counted, WithAcks
      <3> QED
        BY <1>2, <2>3, <3>1 DEF Counted
    <2>4. CASE first[w] # "gone"
      <3>1. BeforeAcks(w)'
        BY <1>2, <1>4, <2>1, <2>2, <2>4 DEF Counted, BeforeAcks
      <3> QED
        BY <1>2, <2>4, <3>1 DEF Counted
    <2> QED
      BY <2>3, <2>4
  <1>7. CASE buffer'[w] = buffer[w]
    <2>1. AddsNothing(w)
      BY <1>2, <1>4, <1>5, <1>7 DEF AddsNothing
    <2> QED
      BY <1>2, <2>1, NothingAdded
  <1> QED
    BY <1>1, <1>6, <1>7 DEF IInv, TypeOK

LEMMA StopCounted ==
  ASSUME CInv, IInv', LeaveLoop \/ Stop \/ LockPool \/ UnlockPool,
         NEW w \in Waiter
  PROVE  AddsNothing(w)
  <1>1. IInv
    BY DEF CInv
  <1>2. /\ UNCHANGED <<acks, buffer, first>>
        /\ rpc' = "send" => rpc' = rpc /\ target' = target
    BY DEF LeaveLoop, Stop, LockPool, UnlockPool, channels, wire, loop
  <1>3. ByStop(w) <= ByStop(w)'
    <2>1. \/ spc' = spc /\ unserved' = unserved
          \/ spc \in {"running", "signalled"}
          \/ spc = "sending" /\ unserved = {}
      BY DEF LeaveLoop, Stop, LockPool, UnlockPool, stop
    <2>2. ByStop(w)' \in {0, 1}
      BY DEF ByStop
    <2>3. CASE spc' = spc /\ unserved' = unserved
      BY <2>2, <2>3 DEF ByStop
    <2>4. CASE spc \in {"running", "signalled"}
      BY <2>2, <2>4 DEF ByStop
    <2>5. CASE spc = "sending" /\ unserved = {}
      <3>1. ByStop(w) = 1
        BY <2>5 DEF ByStop
      <3>2. ByStop(w)' = 1
        BY <2>5 DEF LeaveLoop, Stop, LockPool, UnlockPool, stop, ByStop
      <3> QED
        BY <3>1, <3>2
    <2> QED
      BY <2>1, <2>3, <2>4, <2>5
  <1>4. Numbers
    BY <1>1, NumbersType DEF IInv
  <1>5. acks[w] \in Nat /\ \A k \in Slot : buffer[w][k] \in Nat
    BY <1>4 DEF Numbers
  <1>6. \A k \in Slot : Held(w, k)' => Held(w, k)
    BY <1>2 DEF Held
  <1> QED
    BY <1>2, <1>3, <1>5, <1>6 DEF AddsNothing

LEMMA RecvReackCounted ==
  ASSUME IInv, NEW v \in Waiter, RecvReack(v), NEW w \in Waiter
  PROVE  AddsNothing(w)
  BY NothingMoves DEF RecvReack, channels

LEMMA UnsentOK ==
  ASSUME CInv, Next
  PROVE  Unsent'
  <1>1. IInv /\ Unsent
    BY DEF CInv
  <1>2. CASE UNCHANGED <<wpc, first>>
    BY <1>1, <1>2 DEF Unsent
  <1>3. ASSUME NEW v \in Waiter, first' = first,
               \E pc \in {"register", "select", "close", "delete", "done"} :
                 wpc' = [wpc EXCEPT ![v] = pc]
        PROVE  Unsent'
    BY <1>1, <1>3 DEF Unsent, IInv, TypeOK
  <1>4. ASSUME NEW v \in Waiter, Broadcast(v) PROVE Unsent'
    BY <1>1, <1>4 DEF Unsent, Broadcast, IInv, TypeOK
  <1>5. ASSUME NEW v \in Waiter, Timeout(v) \/ Goroutine(v) PROVE Unsent'
    BY <1>3, <1>5 DEF Timeout, Goroutine, Register, TakeAck, CloseChannel, deleteAckChannel, wire
  <1>6. ASSUME NEW v \in Waiter, PeerReceives(v) PROVE Unsent'
    BY <1>1, <1>6 DEF Unsent, PeerReceives, IInv, TypeOK, goroutine
  <1>7. CASE Loop \/ Stop \/ Stopping
    BY <1>2, <1>7 DEF Loop, RecvAck, RecvReack, Notify, LeaveLoop, Stop, Stopping, LockPool,
       StopWaiter, UnlockPool, goroutine, wire
  <1> QED
    BY <1>4, <1>5, <1>6, <1>7 DEF Next

LEMMA StepCInv == CInv /\ [Next]_vars => CInv'
  <1> SUFFICES ASSUME CInv, [Next]_vars PROVE CInv'
    OBVIOUS
  <1>1. IInv /\ Unsent /\ IInv'
    BY StepIInv DEF CInv
  <1>2. Unsent'
    BY <1>1, UnsentOK DEF Unsent, vars
  <1>3. ASSUME \A w \in Waiter : AddsNothing(w) PROVE TokensCounted'
    BY <1>1, <1>3, NothingAdded DEF TokensCounted, CInv
  <1>4. ASSUME NEW v \in Waiter, Broadcast(v) \/ Timeout(v) \/ Goroutine(v) PROVE TokensCounted'
    BY <1>1, <1>3, <1>4, GoroutineAddsNothing
  <1>5. ASSUME NEW v \in Waiter, PeerReceives(v) PROVE TokensCounted'
    BY <1>1, <1>5, PeerReceivesCounted
  <1>6. ASSUME Loop PROVE TokensCounted'
    BY <1>1, <1>3, <1>6, RecvAckCounted, RecvReackCounted, NotifyCounted, StopCounted DEF Loop
  <1>7. ASSUME Stop \/ Stopping PROVE TokensCounted'
    BY <1>1, <1>3, <1>7, StopCounted, StopWaiterCounted DEF Stopping
  <1>8. ASSUME UNCHANGED vars PROVE TokensCounted'
    <2>1. \A w \in Waiter : AddsNothing(w)
      BY <1>1, <1>8, NothingMoves DEF vars, loop, stop
    <2> QED
      BY <1>3, <2>1
  <1>9. TokensCounted'
    BY <1>4, <1>5, <1>6, <1>7, <1>8 DEF Next
  <1> QED
    BY <1>1, <1>2, <1>9 DEF CInv

LEMMA InvarianceCInv == Spec => []CInv
  <1>1. Init => CInv
    <2>1. Init => Unsent
      BY DEF Init, Unsent
    <2> QED
      BY <2>1, InitIInv, InitCounted DEF CInv
  <1> QED
    BY <1>1, StepCInv, PTL DEF Spec

LEMMA CountedHaveRoom ==
  ASSUME MaxAcks < ChanCap, CInv
  PROVE  SendsHaveRoom
  <1>1. IInv /\ TokensCounted /\ MaxAcks \in Nat /\ ChanCap \in Nat
    BY AckAssumption DEF CInv, ChanCap
  <1>2. Numbers
    BY <1>1, NumbersType DEF IInv
  <1>3. ASSUME NEW w \in Waiter, NEW k \in Slot, Held(w, k) \/ ByStop(w) = 0
        PROVE  buffer[w][k] < ChanCap
    <2>1. acks[w] \in Nat /\ ByStop(w) \in {0, 1} /\ buffer[w][k] \in Nat /\ ByLoop(w, k) \in {0, 1}
      BY <1>2 DEF Numbers
    <2>2. Held(w, k) => ByLoop(w, k) = 1
      BY DEF ByLoop
    <2>3. CASE first[w] = "gone"
      <3>1. buffer[w][k] + acks[w] + ByLoop(w, k) <= MaxAcks + ByStop(w)
        BY <1>1, <2>3 DEF TokensCounted, Counted, WithAcks
      <3> QED
        BY <1>1, <1>3, <2>1, <2>2, <3>1
    <2>4. CASE first[w] # "gone"
      <3>1. ~Held(w, k) /\ buffer[w][k] <= ByStop(w)
        BY <1>1, <2>4 DEF TokensCounted, Counted, BeforeAcks
      <3> QED
        BY <1>1, <1>3, <2>1, <3>1
    <2> QED
      BY <2>3, <2>4
  <1>4. rpc = "send" => buffer[target[1]][target[2]] < ChanCap
    <2> SUFFICES ASSUME rpc = "send" PROVE buffer[target[1]][target[2]] < ChanCap
      OBVIOUS
    <2>1. PICK w \in Waiter, k \in Slot : target = <<w, k>>
      BY <1>1 DEF IInv, LoopHasTarget
    <2>2. Held(w, k)
      BY <2>1 DEF Held
    <2>3. buffer[w][k] < ChanCap
      BY <1>3, <2>2
    <2> QED
      BY <2>1, <2>3
  <1>5. ASSUME spc = "sending", NEW w \in unserved PROVE buffer[w][pool[w]] < ChanCap
    <2>1. w \in Waiter /\ pool[w] \in Slot
      BY <1>1, <1>5 DEF IInv, TypeOK, UnservedInPool
    <2>2. ByStop(w) = 0
      BY <1>5 DEF ByStop
    <2> QED
      BY <1>3, <2>1, <2>2
  <1> QED
    BY <1>4, <1>5 DEF SendsHaveRoom

(***************************************************************************)
(* However many broadcasts there are, and whenever Stop is called: as long *)
(* as no transmission is acked more than four times, the receive loop and  *)
(* Stop find room in the channel they send on, with or without a reader.   *)
(***************************************************************************)
THEOREM RoomForTokens == MaxAcks < ChanCap => (Spec => []SendsHaveRoom)
  <1> SUFFICES ASSUME MaxAcks < ChanCap PROVE Spec => []SendsHaveRoom
    OBVIOUS
  <1>1. CInv => SendsHaveRoom
    BY CountedHaveRoom
  <1> QED
    BY <1>1, InvarianceCInv, PTL
=============================================================================
