------------------------------ MODULE DataSharing ------------------------------
(***************************************************************************)
(* Downloads of one file by one node, from peers that hold it or are still *)
(* uploading it.  A file is a metafile, which lists the chunks, and its    *)
(* chunks; each is requested by its hash, with a request id of its own,    *)
(* and waited for on a channel that is in the pool under that id.  The     *)
(* receive loop passes a reply to the channel it finds there.              *)
(*                                                                         *)
(* The value k is what Upload stores under the hash k.                     *)
(***************************************************************************)
EXTENDS Naturals, FiniteSets, SequencesExt

CONSTANTS Peer,       \* nodes that may hold the file
          Uploader,   \* those that upload it
          Download,   \* bound: calls of Download, each made once
          Meta,       \* the metahash of the file
          File,       \* its chunk hashes, in order
          Nil,        \* no value
          Retry,      \* BackoffDataRequest.Retry
          UserKnows,  \* UserKnows[key]: peers the user tells Catalog of
          Routed,     \* peers in the routing table, which does not change
          MaxUnderWay \* bound: messages under way, further ones are lost

Key == {Meta} \cup Range(File)
Id  == Download \X (0 .. Len(File))

ASSUME FileAssumption == /\ File \in Seq(Range(File)) /\ Len(File) > 0
                         /\ Meta \notin Range(File) /\ Nil \notin Key
ASSUME PeerAssumption == /\ Uploader \subseteq Peer /\ Routed \subseteq Peer
                         /\ Nil \notin Peer
                         /\ UserKnows \in [Key -> SUBSET Peer]
ASSUME BoundAssumption == Retry \in Nat /\ MaxUnderWay \in Nat

VARIABLES
  held,       \* keys in the blob store of each peer
  catalog,    \* Catalog of the downloading node
  blobs,      \* its blob store
  downloads,  \* its calls of Download
  pool,       \* dataReplyChannels: ids with a channel
  channels,   \* the channels: what they hold, and whether they are open
  loop,       \* the receive loop: the reply it passes on, if any
  net         \* requests and replies under way

vars == <<held, catalog, blobs, downloads, pool, channels, loop, net>>

(* The hash a download needs next: the metafile's, then the chunks'. *)
KeyAt(at) == IF at = 0 THEN Meta ELSE File[at]

Idle   == [stage |-> "idle", at |-> 0, peer |-> Nil, resent |-> 0, reply |-> <<>>, got |-> <<>>]
NoPass == [channel |-> Nil, key |-> Nil, value |-> Nil]

Init ==
  /\ held = [p \in Peer |-> IF p \in Uploader THEN {} ELSE Key]
  /\ catalog = [k \in Key |-> {}]
  /\ blobs = [k \in Key |-> Nil]
  /\ downloads = [d \in Download |-> Idle]
  /\ pool = {}
  /\ channels = [i \in Id |-> [open |-> FALSE, buffer |-> <<>>]]
  /\ loop = NoPass
  /\ net = {}

-----------------------------------------------------------------------------
(* Peers and the network.                                                  *)

(* Upload stores the chunks in order, and then the metafile. *)
Upload(p) ==
  /\ p \in Uploader
  /\ \E k \in Key \ held[p] :
       /\ \/ k = Meta /\ Range(File) \subseteq held[p]
          \/ \E i \in DOMAIN File : k = File[i] /\ \A j \in 1 .. i - 1 : File[j] \in held[p]
       /\ held' = [held EXCEPT ![p] = @ \cup {k}]
  /\ UNCHANGED <<catalog, blobs, downloads, pool, channels, loop, net>>

Requests == {m \in net : m.type = "request"}
Replies  == {m \in net : m.type = "reply"}

(* ExecDataRequestMessage: a peer that lacks the value says so. *)
ExecDataRequestMessage(m) ==
  /\ net' = (net \ {m}) \cup {[type |-> "reply", id |-> m.id, key |-> m.key, copy |-> m.copy,
                               value |-> IF m.key \in held[m.peer] THEN m.key ELSE Nil]}
  /\ UNCHANGED <<held, catalog, blobs, downloads, pool, channels, loop>>

(* Unicast, by a socket that promises nothing. *)
Unicast(m) == IF Cardinality(net) < MaxUnderWay THEN net \cup {m} ELSE net

Lose(m) ==
  /\ net' = net \ {m}
  /\ UNCHANGED <<held, catalog, blobs, downloads, pool, channels, loop>>

-----------------------------------------------------------------------------
(* The receive loop.                                                       *)

getAckChannel(id) == IF id \in pool THEN id ELSE Nil

(* Mutant of Found: what the map lacks is used as a channel, a nil one. *)
AlwaysFound(channel) == TRUE

Found(channel) == channel # Nil

(* ExecDataReplyMessage, passMsgToWaiter: a reply without a channel is     *)
(* dropped; the channel found is used after the lock of the pool is        *)
(* released.                                                               *)
ExecDataReplyMessage(m) ==
  /\ loop = NoPass
  /\ net' = net \ {m}
  /\ loop' = IF Found(getAckChannel(m.id))
             THEN [channel |-> getAckChannel(m.id), key |-> m.key, value |-> m.value]
             ELSE NoPass
  /\ UNCHANGED <<held, catalog, blobs, downloads, pool, channels>>

(* ch <- msg: waits while the channel, of capacity 1, is full, and for     *)
(* ever on a nil channel.  Sending on a closed channel panics, which       *)
(* ProcessPacket recovers from.                                            *)
PassMsgToWaiter ==
  /\ loop.channel # Nil
  /\ LET channel == channels[loop.channel]
     IN \/ ~channel.open /\ UNCHANGED channels
        \/ /\ channel.open /\ channel.buffer = <<>>
           /\ channels' = [channels EXCEPT ![loop.channel].buffer =
                              <<[key |-> loop.key, value |-> loop.value]>>]
  /\ loop' = NoPass
  /\ UNCHANGED <<held, catalog, blobs, downloads, pool, net>>

-----------------------------------------------------------------------------
(* Download.                                                               *)

(* Mutant of RequestID: one id for all requests of a download. *)
CallID(d) == <<d, 0>>

(* xid.New(), for each request. *)
RequestID(d) == <<d, downloads[d].at>>

(* What is sent to a peer, for the copy-th time after the first. *)
Request(d, peer, copy) == [type |-> "request", id |-> RequestID(d), copy |-> copy,
                           key |-> KeyAt(downloads[d].at), peer |-> peer]

(* UpdateCatalog, called by the user. *)
UpdateCatalog(k, p) ==
  /\ p \notin catalog[k]
  /\ catalog' = [catalog EXCEPT ![k] = @ \cup {p}]
  /\ UNCHANGED <<held, blobs, downloads, pool, channels, loop, net>>

(* The value of the hash needed now is known: the next one is needed. *)
Advanced(download, value) ==
  LET last == download.at = Len(File)
  IN [stage  |-> IF last THEN "done" ELSE "next",
      at     |-> IF last THEN download.at ELSE download.at + 1,
      got    |-> IF download.at = 0 THEN download.got ELSE Append(download.got, value),
      resent |-> 0, reply |-> <<>>, peer |-> Nil]

Start(d) ==
  /\ downloads[d] = Idle
  /\ downloads' = [downloads EXCEPT ![d].stage = "next"]
  /\ UNCHANGED <<held, catalog, blobs, pool, channels, loop, net>>

(* The blob store is looked at first, then a random peer of Catalog is     *)
(* asked; Unicast fails when there is no route to it.                      *)
GetNext(d) ==
  /\ downloads[d].stage = "next"
  /\ LET key    == KeyAt(downloads[d].at)
         failed == downloads' = [downloads EXCEPT ![d].stage = "failed"]
     IN IF blobs[key] # Nil
        THEN downloads' = [downloads EXCEPT ![d] = Advanced(@, blobs[key])] /\ UNCHANGED net
        ELSE \/ (catalog[key] = {} \/ catalog[key] \ Routed # {}) /\ failed /\ UNCHANGED net
             \/ \E p \in catalog[key] \cap Routed :
                  /\ net' = Unicast(Request(d, p, 0))
                  /\ downloads' = [downloads EXCEPT ![d].stage = "sent", ![d].peer = p]
  /\ UNCHANGED <<held, catalog, blobs, pool, channels, loop>>

(* setAckChannel, after the request has been sent. *)
SetAckChannel(d) ==
  /\ downloads[d].stage = "sent"
  /\ downloads' = [downloads EXCEPT ![d].stage = "waiting"]
  /\ pool' = pool \cup {RequestID(d)}
  /\ channels' = [channels EXCEPT ![RequestID(d)] = [open |-> TRUE, buffer |-> <<>>]]
  /\ UNCHANGED <<held, catalog, blobs, loop, net>>

(* Mutant of Count: retransmissions are not counted. *)
NoCount(n) == n

Count(n) == n + 1

MayResend(n) == n < Retry

(* The wait is over: the request is sent once more to the same peer, or    *)
(* given up.  The channel stays in the pool.  A download whose request     *)
(* finds no route gives up as well, which takes a route that has gone.     *)
TimeOut(d) ==
  /\ downloads[d].stage = "waiting"
  /\ LET resent == Count(downloads[d].resent)
     IN IF MayResend(downloads[d].resent)
        THEN /\ downloads' = [downloads EXCEPT ![d].resent = resent]
             /\ net' = Unicast(Request(d, downloads[d].peer, resent))
        ELSE /\ downloads' = [downloads EXCEPT ![d].stage = "gave up"]
             /\ UNCHANGED net
  /\ UNCHANGED <<held, catalog, blobs, pool, channels, loop>>

(* A reply is taken from the channel, and the channel closed. *)
TakeReply(d) ==
  /\ downloads[d].stage = "waiting" /\ channels[RequestID(d)].buffer # <<>>
  /\ channels' = [channels EXCEPT ![RequestID(d)] = [open |-> FALSE, buffer |-> <<>>]]
  /\ downloads' = [downloads EXCEPT ![d].stage = "taken",
                                    ![d].reply = channels[RequestID(d)].buffer]
  /\ UNCHANGED <<held, catalog, blobs, pool, loop, net>>

(* Mutant of deleteAckChannel: the channel stays in the pool. *)
keepAckChannel(id) == pool

deleteAckChannel(id) == pool \ {id}

(* The channel leaves the pool; what came is stored under the key the      *)
(* reply names, unless there is no value.                                  *)
UseReply(d) ==
  /\ downloads[d].stage = "taken"
  /\ pool' = deleteAckChannel(RequestID(d))
  /\ LET reply == Head(downloads[d].reply)
     IN IF reply.value = Nil
        THEN /\ downloads' = [downloads EXCEPT ![d].stage = "failed"]
             /\ UNCHANGED blobs
        ELSE /\ downloads' = [downloads EXCEPT ![d] = Advanced(@, reply.value)]
             /\ blobs' = [blobs EXCEPT ![reply.key] = reply.value]
  /\ UNCHANGED <<held, catalog, channels, loop, net>>

GoesOn(d) == GetNext(d) \/ SetAckChannel(d) \/ TimeOut(d) \/ TakeReply(d) \/ UseReply(d)

-----------------------------------------------------------------------------
Next ==
  \/ \E p \in Peer : Upload(p) \/ \E k \in Key : p \in UserKnows[k] /\ UpdateCatalog(k, p)
  \/ \E d \in Download : Start(d) \/ GoesOn(d)
  \/ \E m \in Requests : ExecDataRequestMessage(m)
  \/ \E m \in Replies : ExecDataReplyMessage(m)
  \/ \E m \in net : Lose(m)
  \/ PassMsgToWaiter

(* Goroutines that can go on do, and timers fire.  The network owes nothing.    *)
Fairness == /\ \A d \in Download : WF_vars(GoesOn(d))
            /\ WF_vars(PassMsgToWaiter)

Spec == Init /\ [][Next]_vars /\ Fairness

-----------------------------------------------------------------------------
(* Properties.                                                             *)

Ended == {"done", "failed", "gave up"}

Value  == Key \cup {Nil}
Buffer == {<<>>} \cup {<<r>> : r \in [key : Key, value : Value]}

DownloadState ==
  [stage : {"idle", "next", "sent", "waiting", "taken"} \cup Ended, at : 0 .. Len(File),
   peer : Peer \cup {Nil}, resent : 0 .. Retry, reply : Buffer, got : Seq(Key)]

RequestMessage ==
  [type : {"request"}, id : Id, copy : 0 .. Retry, key : Key, peer : Peer]

ReplyMessage ==
  [type : {"reply"}, id : Id, copy : 0 .. Retry, key : Key, value : Value]

TypeOK ==
  /\ held \in [Peer -> SUBSET Key]
  /\ catalog \in [Key -> SUBSET Peer]
  /\ blobs \in [Key -> Value]
  /\ downloads \in [Download -> DownloadState]
  /\ pool \subseteq Id
  /\ channels \in [Id -> [open : BOOLEAN, buffer : Buffer]]
  /\ loop = NoPass \/ loop \in [channel : Id, key : Key, value : Value]
  /\ net \subseteq RequestMessage \cup ReplyMessage

(* "return a reconstructed blob": whatever is late, repeated, or fetched   *)
(* by another download at the same time, a download that ends well returns *)
(* the chunks in order, has saved all it needed, and what is saved under a *)
(* hash is what has that hash.                                             *)
DownloadIsTheFile ==
  /\ \A d \in Download :
       downloads[d].stage = "done" =>
         downloads[d].got = File /\ \A k \in Key : blobs[k] = k
  /\ \A k \in Key : blobs[k] \in {k, Nil}

(* A channel is in the pool while a download waits on it, and after one    *)
(* has given up: nobody ever removes that one.                             *)
PoolTracksDownloads ==
  pool = {RequestID(d) : d \in {e \in Download :
                                  downloads[e].stage \in {"waiting", "taken", "gave up"}}}

(* The receive loop has nobody to wait for but a download that still waits *)
(* on that channel, whose timer ends the wait, or has given up: a reply    *)
(* that finds its download gone on finds the channel closed.               *)
LoopWaitsForWaiter ==
  loop # NoPass =>
    \/ \E d \in Download : /\ RequestID(d) = loop.channel
                           /\ downloads[d].stage \in {"waiting", "gave up"}
    \/ loop.channel \in Id /\ ~channels[loop.channel].open

(* Every download returns, however much is lost. *)
DownloadsEnd ==
  \A d \in Download : downloads[d].stage # "idle" ~> downloads[d].stage \in Ended

(* The receive loop is held up for ever by a reply only after a download   *)
(* has given up and left its channel.                                      *)
LoopGoesOn ==
  loop # NoPass ~> loop = NoPass \/ \E d \in Download : downloads[d].stage = "gave up"
=============================================================================
