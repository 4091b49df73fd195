-------------------------------- MODULE AckWait --------------------------------
(***************************************************************************)
(* One node and its waitForAck goroutines, step by step: a goroutine waits *)
(* on a channel it registers in the pool under the packet id of the first  *)
(* transmission, the receive loop looks the channel up and sends on it,    *)
(* and Stop sends on every channel of the pool while it holds its lock.    *)
(* A goroutine replaces its channel at every timeout, so a channel may     *)
(* have no reader, or be closed, when somebody sends on it.                *)
(***************************************************************************)
EXTENDS Integers

CONSTANTS Waiter,      \* broadcasts, each with its own packet id
          MaxAcks,     \* bound: acks that come for one transmission
          StopCalled   \* TRUE: the user may call Stop

ASSUME AckAssumption == MaxAcks \in Nat /\ StopCalled \in BOOLEAN

VARIABLES
  wpc,      \* where the goroutine of a broadcast is
  current,  \* the channel it selects on
  pool,     \* pktAckChannels, 0 when the id is absent
  buffer,   \* tokens in each channel
  closed,   \* closed[w][k]: that channel is closed
  first,    \* the first transmission of each broadcast
  acks,     \* acks in flight of the first transmission
  reacks,   \* a retransmission, or the ack of one, is in flight
  heard,    \* kinds of transmission an ack was received of
  rpc,      \* the receive loop
  target,   \* the channel the receive loop is about to send on
  spc,      \* Stop
  unserved  \* ids Stop has still to send to

vars == <<wpc, current, pool, buffer, closed, first, acks, reacks, heard,
          rpc, target, spc, unserved>>

goroutine == <<wpc, current>>
channels  == <<buffer, closed>>
wire      == <<first, acks, reacks, heard>>
loop      == <<rpc, target>>
stop      == <<spc, unserved>>

(* Mutant of ChanCap: a buffer that is one too short. *)
ChanCapFour == 4

(* make(chan bool, 5) *)
ChanCap == 5

(* Channels are named 1..3 in turn: one has a reader, one may have been    *)
(* looked up before it was replaced, so one is always unused.              *)
Slot == 1 .. 3

Held(w, k) == rpc = "send" /\ target = <<w, k>>
Fresh(w)   == CHOOSE k \in Slot : k # current[w] /\ ~Held(w, k)

LockFree == spc # "sending"
Running  == spc # "panicked"

Init ==
  /\ wpc = [w \in Waiter |-> "idle"]
  /\ current = [w \in Waiter |-> 0]
  /\ pool = [w \in Waiter |-> 0]
  /\ buffer = [w \in Waiter |-> [k \in Slot |-> 0]]
  /\ closed = [w \in Waiter |-> [k \in Slot |-> FALSE]]
  /\ first = [w \in Waiter |-> "none"]
  /\ acks = [w \in Waiter |-> 0]
  /\ reacks = [w \in Waiter |-> FALSE]
  /\ heard = [w \in Waiter |-> {}]
  /\ rpc = "recv"
  /\ target = <<>>
  /\ spc = "running"
  /\ unserved = {}

-----------------------------------------------------------------------------
(* Broadcast sends the rumor and starts the goroutine.                     *)
(* Nobody broadcasts once Stop was called.                                 *)
Broadcast(w) ==
  /\ spc = "running" /\ wpc[w] = "idle"
  /\ wpc' = [wpc EXCEPT ![w] = "register"]
  /\ first' = [first EXCEPT ![w] = "flying"]
  /\ UNCHANGED <<current, pool, channels, acks, reacks, heard, loop, stop>>

(* make(chan bool, 5) and setAckChannel. The replaced channel is garbage,  *)
(* unless the receive loop has looked it up before.                        *)
Register(w) ==
  /\ Running /\ LockFree /\ wpc[w] = "register"
  /\ LET k == Fresh(w) IN
       /\ current' = [current EXCEPT ![w] = k]
       /\ pool' = [pool EXCEPT ![w] = k]
       /\ buffer' = [buffer EXCEPT ![w] = [j \in Slot |-> IF Held(w, j) THEN @[j] ELSE 0]]
       /\ closed' = [closed EXCEPT ![w] = [j \in Slot |-> Held(w, j) /\ @[j]]]
  /\ wpc' = [wpc EXCEPT ![w] = "select"]
  /\ UNCHANGED <<wire, loop, stop>>

(* Mutant of Timeout: the goroutine gives up. *)
GiveUp(w) ==
  /\ Running /\ wpc[w] = "select"
  /\ wpc' = [wpc EXCEPT ![w] = "close"]
  /\ UNCHANGED <<current, pool, channels, wire, loop, stop>>

(* The timer may win the select even when a token is there. *)
Timeout(w) ==
  /\ Running /\ wpc[w] = "select"
  /\ reacks' = [reacks EXCEPT ![w] = TRUE]
  /\ wpc' = [wpc EXCEPT ![w] = "register"]
  /\ UNCHANGED <<current, pool, channels, first, acks, heard, loop, stop>>

TakeAck(w) ==
  /\ Running /\ wpc[w] = "select"
  /\ buffer[w][current[w]] > 0
  /\ buffer' = [buffer EXCEPT ![w][current[w]] = @ - 1]
  /\ wpc' = [wpc EXCEPT ![w] = "close"]
  /\ UNCHANGED <<current, pool, closed, wire, loop, stop>>

CloseChannel(w) ==
  /\ Running /\ wpc[w] = "close"
  /\ closed' = [closed EXCEPT ![w][current[w]] = TRUE]
  /\ wpc' = [wpc EXCEPT ![w] = "delete"]
  /\ UNCHANGED <<current, pool, buffer, wire, loop, stop>>

(* Mutant of deleteAckChannel: the entry is left in the pool. *)
keepAckChannel(w) ==
  /\ Running /\ LockFree /\ wpc[w] = "delete"
  /\ wpc' = [wpc EXCEPT ![w] = "done"]
  /\ UNCHANGED <<current, pool, channels, wire, loop, stop>>

deleteAckChannel(w) ==
  /\ Running /\ LockFree /\ wpc[w] = "delete"
  /\ pool' = [pool EXCEPT ![w] = 0]
  /\ wpc' = [wpc EXCEPT ![w] = "done"]
  /\ UNCHANGED <<current, channels, wire, loop, stop>>

-----------------------------------------------------------------------------
(* The neighbour acks the first transmission, or it or the acks are lost. *)
PeerReceives(w) ==
  /\ Running /\ first[w] = "flying"
  /\ first' = [first EXCEPT ![w] = "gone"]
  /\ \E k \in 0 .. MaxAcks : acks' = [acks EXCEPT ![w] = k]
  /\ UNCHANGED <<goroutine, pool, channels, reacks, heard, loop, stop>>

-----------------------------------------------------------------------------
(* The receive loop: ExecAckMessage and notifyAckChannel *)
RecvAck(w) ==
  /\ Running /\ LockFree /\ rpc = "recv"
  /\ acks[w] > 0
  /\ acks' = [acks EXCEPT ![w] = @ - 1]
  /\ heard' = [heard EXCEPT ![w] = @ \cup {"first"}]
  /\ IF pool[w] = 0
     THEN UNCHANGED loop
     ELSE rpc' = "send" /\ target' = <<w, pool[w]>>
  /\ UNCHANGED <<goroutine, pool, channels, first, reacks, stop>>

(* A retransmission has an id of its own, for which there is no channel. *)
RecvReack(w) ==
  /\ Running /\ LockFree /\ rpc = "recv"
  /\ reacks[w]
  /\ reacks' = [reacks EXCEPT ![w] = FALSE]
  /\ heard' = [heard EXCEPT ![w] = @ \cup {"again"}]
  /\ UNCHANGED <<goroutine, pool, channels, first, acks, loop, stop>>

(* ch <- true: it blocks while the channel is full, and panics when it is  *)
(* closed; the registry recovers the panic and the loop goes on.           *)
Notify ==
  /\ Running /\ rpc = "send"
  /\ LET w == target[1]  k == target[2] IN
       \/ /\ closed[w][k]
          /\ UNCHANGED buffer
       \/ /\ ~closed[w][k]
          /\ buffer[w][k] < ChanCap
          /\ buffer' = [buffer EXCEPT ![w][k] = @ + 1]
  /\ rpc' = "recv"
  /\ target' = <<>>
  /\ UNCHANGED <<goroutine, pool, closed, wire, stop>>

(* The loop leaves between two packets, once Stop has signalled it. *)
LeaveLoop ==
  /\ Running /\ spc # "running" /\ rpc = "recv"
  /\ rpc' = "left"
  /\ UNCHANGED <<goroutine, pool, channels, wire, target, stop>>

-----------------------------------------------------------------------------
(* Stop: the signal to the receive loop, then stopAllWaitingForACK *)
Stop ==
  /\ StopCalled /\ spc = "running"
  /\ spc' = "signalled"
  /\ UNCHANGED <<goroutine, pool, channels, wire, loop, unserved>>

LockPool ==
  /\ spc = "signalled"
  /\ spc' = "sending"
  /\ unserved' = {w \in Waiter : pool[w] # 0}
  /\ UNCHANGED <<goroutine, pool, channels, wire, loop>>

(* Nothing recovers a panic here: the program ends. *)
StopWaiter ==
  /\ spc = "sending"
  /\ \E w \in unserved :
       \/ /\ closed[w][pool[w]]
          /\ spc' = "panicked"
          /\ UNCHANGED <<buffer, unserved>>
       \/ /\ ~closed[w][pool[w]]
          /\ buffer[w][pool[w]] < ChanCap
          /\ buffer' = [buffer EXCEPT ![w][pool[w]] = @ + 1]
          /\ unserved' = unserved \ {w}
          /\ UNCHANGED spc
  /\ UNCHANGED <<goroutine, pool, closed, wire, loop>>

UnlockPool ==
  /\ spc = "sending"
  /\ unserved = {}
  /\ spc' = "returned"
  /\ UNCHANGED <<goroutine, pool, channels, wire, loop, unserved>>

-----------------------------------------------------------------------------
Goroutine(w) == Register(w) \/ TakeAck(w) \/ CloseChannel(w) \/ deleteAckChannel(w)
Loop         == (\E w \in Waiter : RecvAck(w) \/ RecvReack(w)) \/ Notify \/ LeaveLoop
Stopping     == LockPool \/ StopWaiter \/ UnlockPool

Next ==
  \/ \E w \in Waiter : \/ Broadcast(w)
                       \/ Timeout(w)
                       \/ Goroutine(w)
                       \/ PeerReceives(w)
  \/ Loop
  \/ Stop
  \/ Stopping

Spec == Init /\ [][Next]_vars

(* Every goroutine that can run does, the timer of a select fires if it is *)
(* left alone, and acks of what is sent again get through. Nothing makes   *)
(* the first transmission arrive, nor anybody broadcast or stop the node.  *)
Fairness ==
  /\ WF_vars(Loop)
  /\ WF_vars(Stopping)
  /\ \A w \in Waiter : /\ WF_vars(Goroutine(w))
                       /\ WF_vars(Goroutine(w) \/ Timeout(w))

FairSpec == Spec /\ Fairness

-----------------------------------------------------------------------------
(* Properties *)

TypeOK ==
  /\ wpc \in [Waiter -> {"idle", "register", "select", "close", "delete", "done"}]
  /\ current \in [Waiter -> {0} \cup Slot]
  /\ pool \in [Waiter -> {0} \cup Slot]
  /\ buffer \in [Waiter -> [Slot -> 0 .. ChanCap]]
  /\ closed \in [Waiter -> [Slot -> BOOLEAN]]
  /\ first \in [Waiter -> {"none", "flying", "gone"}]
  /\ acks \in [Waiter -> 0 .. MaxAcks]
  /\ reacks \in [Waiter -> BOOLEAN]
  /\ heard \in [Waiter -> SUBSET {"first", "again"}]
  /\ rpc \in {"recv", "send", "left"}
  /\ target \in {<<>>} \cup Waiter \X Slot
  /\ spc \in {"running", "signalled", "sending", "returned", "panicked"}
  /\ unserved \subseteq Waiter

(* A goroutine is found in the pool through its present channel for as     *)
(* long as it waits, and leaves nothing behind when it ends.               *)
PoolTracksGoroutines ==
  \A w \in Waiter :
    /\ pool[w] # 0 => pool[w] = current[w] /\ wpc[w] \notin {"idle", "done"}
    /\ wpc[w] \in {"select", "close", "delete"} => pool[w] # 0

(* A goroutine stops sending its rumor again only because an ack of its    *)
(* own first transmission came, or because the node was stopped.           *)
EndsOnlyIfAcked ==
  \A w \in Waiter : wpc[w] \in {"close", "delete", "done"} =>
    "first" \in heard[w] \/ spc \notin {"running", "signalled"}

(* Neither the receive loop nor Stop comes upon a full channel, not even   *)
(* one that has lost its reader: the tokens in it, the acks that may still *)
(* add one and the token of Stop are never more than it has room for.      *)
SendsHaveRoom ==
  /\ rpc = "send" => buffer[target[1]][target[2]] < ChanCap
  /\ spc = "sending" => \A w \in unserved : buffer[w][pool[w]] < ChanCap

(* A channel with no reader any more cannot hold up the receive loop, as   *)
(* long as a transmission is acked four times at most: they leave room for *)
(* the token of Stop. (Six acks of one packet would hold it up for good.)  *)
LoopNeverStuck ==
  rpc = "send" ~> rpc # "send" \/ ~Running

(* Stop holds the lock of the pool while it sends, and the goroutines need *)
(* the lock to end: it still comes to its end, by return or by a panic.    *)
StopEnds ==
  spc = "signalled" ~> spc \in {"returned", "panicked"}

(* chanPool.go:47 says stopAllWaitingForACK stops all goroutines that are  *)
(* waiting for an ack.                                                     *)
StopEndsGoroutines ==
  \A w \in Waiter : spc = "returned" /\ wpc[w] # "idle" ~> wpc[w] = "done"
=============================================================================
