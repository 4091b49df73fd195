--------------------------- MODULE DataSharingProofs ---------------------------
(***************************************************************************)
(* Theorems about DataSharing, for files of any length, any number of      *)
(* downloads and of peers, and any bounds.                                 *)
(***************************************************************************)
EXTENDS DataSharing, TLAPS

(***************************************************************************)
(* The inductive invariant. A download has what it needs if the replies it *)
(* uses are replies to what it asked: every message, wherever it is, says  *)
(* under which hash it was asked for, by a request id that no other wait   *)
(* has.                                                                    *)
(***************************************************************************)

(* A reply to the request for the hash at this place. *)
Genuine(reply, at) == reply.key = KeyAt(at) /\ reply.value \in {reply.key, Nil}

RepliesGenuine ==
  /\ \A m \in net : m.key = KeyAt(m.id[2])
  /\ \A m \in Replies : Genuine(m, m.id[2])
  /\ loop # NoPass => Genuine(loop, loop.channel[2])
  /\ \A i \in Id : channels[i].buffer # <<>> => Genuine(channels[i].buffer[1], i[2])
  /\ \A d \in Download : downloads[d].reply # <<>> =>
       Genuine(downloads[d].reply[1], downloads[d].at)

(* What a stage says of the rest. *)
StagesMean ==
  \A d \in Download :
    /\ downloads[d].stage \in {"sent", "waiting"} => downloads[d].peer \in Peer
    /\ downloads[d].stage = "taken" => downloads[d].reply # <<>>

(* The places of the file that a download is done with. *)
Behind(x) == {j \in 0 .. Len(File) : j < x.at \/ x.stage = "done"}

BlobsHonest == \A k \in Key : blobs[k] \in {k, Nil}

(* What a download has so far is the file up to where it is. *)
PrefixOfFile(x) ==
  /\ x.stage = "done" => x.at = Len(File)
  /\ Len(x.got) = IF x.stage = "done" THEN Len(File) ELSE IF x.at = 0 THEN 0 ELSE x.at - 1
  /\ \A i \in 1 .. Len(x.got) : x.got[i] = File[i]

Progress ==
  \A d \in Download :
    /\ PrefixOfFile(downloads[d])
    /\ \A j \in Behind(downloads[d]) : blobs[KeyAt(j)] # Nil

IInv == TypeOK /\ RepliesGenuine /\ StagesMean /\ BlobsHonest /\ Progress

-----------------------------------------------------------------------------
(* The file.                                                               *)

LEMMA FileType ==
  /\ Len(File) \in Nat /\ Len(File) >= 1
  /\ Key # {} /\ Nil \notin Key
  /\ \A j \in 0 .. Len(File) : KeyAt(j) \in Key
  /\ \A i \in 1 .. Len(File) : File[i] \in Key
  <1>1. File \in Seq(Range(File)) /\ Len(File) \in Nat /\ Len(File) >= 1
    BY FileAssumption
  <1>2. ASSUME NEW i \in 1 .. Len(File) PROVE File[i] \in Key
    BY <1>1 DEF Key
  <1> QED
    BY <1>1, <1>2, FileAssumption DEF Key, KeyAt

(* Every hash is needed at some place. *)
LEMMA EveryKeyHasAPlace ==
  ASSUME NEW k \in Key
  PROVE  \E j \in 0 .. Len(File) : KeyAt(j) = k
  <1>1. CASE k = Meta
    BY <1>1, FileType DEF KeyAt
  <1>2. CASE k # Meta
    <2>1. PICK i \in DOMAIN File : File[i] = k
      BY <1>2 DEF Key, Range
    <2>2. i \in 1 .. Len(File)
      BY <2>1, FileAssumption
    <2> QED
      BY <2>1, <2>2, FileType DEF KeyAt
  <1> QED
    BY <1>1, <1>2

LEMMA IdType ==
  \A i \in Id : i = <<i[1], i[2]>> /\ i[1] \in Download /\ i[2] \in 0 .. Len(File)
  BY DEF Id

LEMMA InitIInv == Init => IInv
  <1> SUFFICES ASSUME Init PROVE IInv
    OBVIOUS
  <1> USE FileType, BoundAssumption
  <1>1. Idle \in DownloadState /\ Idle.reply = <<>> /\ Idle.stage = "idle" /\ Idle.at = 0
        /\ Idle.got = <<>>
    BY DEF Idle, DownloadState, Buffer
  <1>2. TypeOK
    BY <1>1 DEF Init, TypeOK, Value, Buffer
  <1>3. RepliesGenuine /\ StagesMean /\ BlobsHonest
    BY <1>1 DEF Init, RepliesGenuine, StagesMean, BlobsHonest, Replies
  <1>4. Progress
    BY <1>1 DEF Init, Progress, PrefixOfFile, Behind
  <1> QED
    BY <1>2, <1>3, <1>4 DEF IInv

-----------------------------------------------------------------------------
(* Types.                                                                  *)

LEMMA AdvancedType ==
  ASSUME NEW x \in DownloadState, NEW v \in Key
  PROVE  /\ Advanced(x, v) \in DownloadState
         /\ Advanced(x, v).stage \in {"next", "done"}
         /\ Advanced(x, v).reply = <<>>
  <1>1. (IF x.at = Len(File) THEN x.at ELSE x.at + 1) \in 0 .. Len(File)
    BY FileType DEF DownloadState
  <1>2. (IF x.at = 0 THEN x.got ELSE Append(x.got, v)) \in Seq(Key)
    BY DEF DownloadState
  <1>3. <<>> \in Buffer /\ 0 \in 0 .. Retry
    BY BoundAssumption DEF Buffer
  <1> QED
    BY <1>1, <1>2, <1>3 DEF Advanced, DownloadState, Ended

LEMMA RequestType ==
  ASSUME TypeOK, NEW d \in Download, NEW p \in Peer, NEW copy \in 0 .. Retry
  PROVE  /\ RequestID(d) \in Id
         /\ Request(d, p, copy) \in RequestMessage
  BY FileType DEF TypeOK, DownloadState, RequestID, Id, Request, RequestMessage

(* The messages under way are those before and maybe one more. *)
LEMMA UnicastAdds == \A m : Unicast(m) \subseteq net \cup {m}
  BY DEF Unicast

LEMMA QuietTypes ==
  ASSUME TypeOK, NEW p \in Peer,
         Upload(p) \/ \E k \in Key : UpdateCatalog(k, p)
  PROVE  TypeOK'
  BY DEF Upload, UpdateCatalog, TypeOK

LEMMA NetTypes ==
  ASSUME TypeOK, NEW m \in net,
         \/ Lose(m)
         \/ m \in Requests /\ ExecDataRequestMessage(m)
         \/ m \in Replies /\ ExecDataReplyMessage(m)
  PROVE  TypeOK'
  <1>1. m \in RequestMessage \cup ReplyMessage
    BY DEF TypeOK
  <1>2. CASE Lose(m)
    BY <1>2 DEF Lose, TypeOK
  <1>3. CASE m \in Requests /\ ExecDataRequestMessage(m)
    <2>1. m \in RequestMessage
      BY <1>1, <1>3 DEF Requests, ReplyMessage
    <2>2. [type |-> "reply", id |-> m.id, key |-> m.key, copy |-> m.copy,
           value |-> IF m.key \in held[m.peer] THEN m.key ELSE Nil] \in ReplyMessage
      BY <2>1 DEF RequestMessage, ReplyMessage, Value
    <2> QED
      BY <1>3, <2>2 DEF ExecDataRequestMessage, TypeOK
  <1>4. CASE m \in Replies /\ ExecDataReplyMessage(m)
    <2>1. m.id \in Id /\ m.key \in Key /\ m.value \in Value
      BY <1>1, <1>4 DEF Replies, RequestMessage, ReplyMessage
    <2>2. loop' = NoPass \/ loop' \in [channel : Id, key : Key, value : Value]
      BY <1>4, <2>1 DEF ExecDataReplyMessage, getAckChannel, Found
    <2> QED
      BY <1>4, <2>2 DEF ExecDataReplyMessage, TypeOK
  <1> QED
    BY <1>2, <1>3, <1>4

LEMMA PassTypes ==
  ASSUME TypeOK, PassMsgToWaiter
  PROVE  TypeOK'
  <1>1. loop \in [channel : Id, key : Key, value : Value]
    BY DEF PassMsgToWaiter, TypeOK, NoPass
  <1>2. <<[key |-> loop.key, value |-> loop.value]>> \in Buffer
    BY <1>1 DEF Buffer
  <1>3. channels' \in [Id -> [open : BOOLEAN, buffer : Buffer]]
    BY <1>2 DEF PassMsgToWaiter, TypeOK
  <1> QED
    BY <1>3 DEF PassMsgToWaiter, TypeOK

LEMMA DownloadTypes ==
  ASSUME TypeOK, StagesMean, NEW d \in Download, Start(d) \/ GoesOn(d)
  PROVE  TypeOK' /\ StagesMean'
  <1> USE DEF TypeOK
  <1>1. downloads[d] \in DownloadState /\ RequestID(d) \in Id
        /\ KeyAt(downloads[d].at) \in Key
    BY FileType DEF DownloadState, RequestID, Id
  (* What the others say is as before. *)
  <1> DEFINE Fine(x) == /\ x \in DownloadState
                        /\ x.stage \in {"sent", "waiting"} => x.peer \in Peer
                        /\ x.stage = "taken" => x.reply # <<>>
  <1>2. ASSUME NEW x, Fine(x), downloads' = [downloads EXCEPT ![d] = x]
        PROVE  downloads' \in [Download -> DownloadState] /\ StagesMean'
    BY <1>2 DEF StagesMean
  <1>3. Fine(downloads[d])
    BY DEF StagesMean
  <1>4. CASE Start(d)
    <2>1. Fine([downloads[d] EXCEPT !.stage = "next"])
      BY <1>3 DEF DownloadState
    <2> QED
      BY <1>2, <1>4, <2>1 DEF Start
  <1>5. CASE GetNext(d)
    <2>1. CASE blobs[KeyAt(downloads[d].at)] # Nil
      <3>1. blobs[KeyAt(downloads[d].at)] \in Key
        BY <1>1, <2>1 DEF Value
      <3>2. Fine(Advanced(downloads[d], blobs[KeyAt(downloads[d].at)]))
        BY <1>1, <3>1, AdvancedType
      <3> QED
        BY <1>2, <1>5, <2>1, <3>2 DEF GetNext
    <2>2. CASE downloads' = [downloads EXCEPT ![d].stage = "failed"] /\ UNCHANGED net
      <3>1. Fine([downloads[d] EXCEPT !.stage = "failed"])
        BY <1>3 DEF DownloadState, Ended
      <3> QED
        BY <1>2, <1>5, <2>2, <3>1 DEF GetNext
    <2>3. ASSUME NEW p \in catalog[KeyAt(downloads[d].at)] \cap Routed,
                 net' = Unicast(Request(d, p, 0)),
                 downloads' = [downloads EXCEPT ![d].stage = "sent", ![d].peer = p]
          PROVE  TypeOK' /\ StagesMean'
      <3>1. p \in Peer
        BY PeerAssumption
      <3>2. Fine([downloads[d] EXCEPT !.stage = "sent", !.peer = p])
        BY <1>3, <3>1 DEF DownloadState
      <3>3. downloads' = [downloads EXCEPT ![d] = [@ EXCEPT !.stage = "sent", !.peer = p]]
        BY <2>3
      <3>4. net' \subseteq RequestMessage \cup ReplyMessage
        BY <2>3, <3>1, RequestType, UnicastAdds, BoundAssumption
      <3> QED
        BY <1>2, <1>5, <3>2, <3>3, <3>4 DEF GetNext
    <2> QED
      BY <1>5, <2>1, <2>2, <2>3 DEF GetNext
  <1>6. CASE SetAckChannel(d)
    <2>1. Fine([downloads[d] EXCEPT !.stage = "waiting"])
      BY <1>3, <1>6 DEF DownloadState, SetAckChannel
    <2> QED
      BY <1>1, <1>2, <1>6, <2>1 DEF SetAckChannel, Buffer
  <1>7. CASE TimeOut(d)
    <2>1. CASE MayResend(downloads[d].resent)
      <3>1. Count(downloads[d].resent) \in 0 .. Retry
        BY <1>1, <2>1, BoundAssumption DEF DownloadState, MayResend, Count
      <3>2. Fine([downloads[d] EXCEPT !.resent = Count(downloads[d].resent)])
        BY <1>3, <3>1 DEF DownloadState
      <3>3. downloads[d].peer \in Peer
        BY <1>3, <1>7 DEF TimeOut
      <3>4. net' \subseteq RequestMessage \cup ReplyMessage
        BY <1>7, <2>1, <3>1, <3>3, RequestType, UnicastAdds DEF TimeOut
      <3> QED
        BY <1>2, <1>7, <2>1, <3>2, <3>4 DEF TimeOut
    <2>2. CASE ~MayResend(downloads[d].resent)
      <3>1. Fine([downloads[d] EXCEPT !.stage = "gave up"])
        BY <1>3 DEF DownloadState, Ended
      <3> QED
        BY <1>2, <1>7, <2>2, <3>1 DEF TimeOut
    <2> QED
      BY <2>1, <2>2
  <1>8. CASE TakeReply(d)
    <2>1. channels[RequestID(d)].buffer \in Buffer /\ channels[RequestID(d)].buffer # <<>>
      BY <1>1, <1>8 DEF TakeReply
    <2>2. Fine([downloads[d] EXCEPT !.stage = "taken", !.reply = channels[RequestID(d)].buffer])
      BY <1>3, <2>1 DEF DownloadState
    <2>3. downloads' = [downloads EXCEPT ![d] = [@ EXCEPT !.stage = "taken",
                                                 !.reply = channels[RequestID(d)].buffer]]
      BY <1>8 DEF TakeReply
    <2> QED
      BY <1>1, <1>2, <1>8, <2>2, <2>3 DEF TakeReply, Buffer
  <1>9. CASE UseReply(d)
    <2> DEFINE reply == Head(downloads[d].reply)
    <2>1. reply \in [key : Key, value : Value]
      BY <1>3, <1>9 DEF UseReply, DownloadState, Buffer
    <2>2. CASE reply.value = Nil
      <3>1. Fine([downloads[d] EXCEPT !.stage = "failed"])
        BY <1>3 DEF DownloadState, Ended
      <3> QED
        BY <1>2, <1>9, <2>2, <3>1 DEF UseReply, deleteAckChannel
    <2>3. CASE reply.value # Nil
      <3>1. Fine(Advanced(downloads[d], reply.value))
        BY <1>1, <2>1, <2>3, AdvancedType DEF Value
      <3> QED
        BY <1>2, <1>9, <2>1, <2>3, <3>1 DEF UseReply, deleteAckChannel
    <2> QED
      BY <2>2, <2>3
  <1> QED
    BY <1>4, <1>5, <1>6, <1>7, <1>8, <1>9 DEF GoesOn

-----------------------------------------------------------------------------
(* Replies.                                                                *)

LEMMA NetGenuine ==
  ASSUME TypeOK, RepliesGenuine, NEW m \in net,
         \/ Lose(m)
         \/ m \in Requests /\ ExecDataRequestMessage(m)
         \/ m \in Replies /\ ExecDataReplyMessage(m)
  PROVE  RepliesGenuine'
  <1>1. CASE Lose(m)
    BY <1>1 DEF Lose, RepliesGenuine, Replies
  <1>2. CASE m \in Requests /\ ExecDataRequestMessage(m)
    <2> DEFINE reply == [type |-> "reply", id |-> m.id, key |-> m.key, copy |-> m.copy,
                         value |-> IF m.key \in held[m.peer] THEN m.key ELSE Nil]
    <2>1. reply.key = KeyAt(reply.id[2]) /\ Genuine(reply, reply.id[2])
      BY DEF RepliesGenuine, Genuine
    <2>2. net' = (net \ {m}) \cup {reply} /\ UNCHANGED <<downloads, channels, loop>>
      BY <1>2 DEF ExecDataRequestMessage
    <2> HIDE DEF reply
    <2> QED
      BY <2>1, <2>2 DEF RepliesGenuine, Replies
  <1>3. CASE m \in Replies /\ ExecDataReplyMessage(m)
    <2>1. loop' # NoPass => loop' = [channel |-> m.id, key |-> m.key, value |-> m.value]
      BY <1>3 DEF ExecDataReplyMessage, getAckChannel, Found
    <2>2. loop' # NoPass => Genuine(loop', loop'.channel[2])
      BY <1>3, <2>1 DEF RepliesGenuine, Genuine
    <2>3. net' \subseteq net /\ UNCHANGED <<downloads, channels>>
      BY <1>3 DEF ExecDataReplyMessage
    <2> QED
      BY <2>2, <2>3 DEF RepliesGenuine, Replies
  <1> QED
    BY <1>1, <1>2, <1>3

LEMMA PassGenuine ==
  ASSUME TypeOK, RepliesGenuine, PassMsgToWaiter
  PROVE  RepliesGenuine'
  <1>1. loop \in [channel : Id, key : Key, value : Value] /\ loop # NoPass
    BY DEF PassMsgToWaiter, TypeOK, NoPass
  <1> DEFINE buffer == <<[key |-> loop.key, value |-> loop.value]>>
  <1>2. Genuine(buffer[1], loop.channel[2])
    BY <1>1 DEF RepliesGenuine, Genuine
  <1> HIDE DEF buffer
  <1>3. \A i \in Id : channels'[i].buffer # <<>> => Genuine(channels'[i].buffer[1], i[2])
    <2>1. CASE UNCHANGED channels
      BY <2>1 DEF RepliesGenuine
    <2>2. CASE channels' = [channels EXCEPT ![loop.channel].buffer = buffer]
      BY <1>1, <1>2, <2>2 DEF RepliesGenuine, TypeOK
    <2> QED
      BY <2>1, <2>2 DEF PassMsgToWaiter, buffer
  <1>4. loop' = NoPass /\ UNCHANGED <<net, downloads>>
    BY DEF PassMsgToWaiter
  <1> QED
    BY <1>3, <1>4 DEF RepliesGenuine, Replies

(* A download that sends at most a request, and whose reply, if it has     *)
(* one, is genuine.                                                        *)
LEMMA DownloadKeepsGenuine ==
  ASSUME TypeOK, RepliesGenuine, NEW d \in Download, NEW x,
         downloads' = [downloads EXCEPT ![d] = x],
         x.reply # <<>> => Genuine(x.reply[1], x.at),
         \/ UNCHANGED net
         \/ \E p, copy : net' = Unicast(Request(d, p, copy)),
         \/ UNCHANGED channels
         \/ channels' = [channels EXCEPT ![RequestID(d)] =
                            [open |-> channels'[RequestID(d)].open, buffer |-> <<>>]],
         UNCHANGED loop
  PROVE  RepliesGenuine'
  <1>1. /\ \A m \in net' : m.key = KeyAt(m.id[2])
        /\ \A m \in Replies' : m \in Replies
    <2>1. CASE UNCHANGED net
      BY <2>1 DEF RepliesGenuine, Replies
    <2>2. ASSUME NEW p, NEW copy, net' = Unicast(Request(d, p, copy))
          PROVE  <1>1!1 /\ <1>1!2
      <3>1. Request(d, p, copy).key = KeyAt(Request(d, p, copy).id[2])
            /\ Request(d, p, copy).type = "request"
        BY DEF Request, RequestID
      <3>2. net' \subseteq net \cup {Request(d, p, copy)}
        BY <2>2, UnicastAdds
      <3> QED
        BY <3>1, <3>2 DEF RepliesGenuine, Replies
    <2> QED
      BY <2>1, <2>2
  <1>2. \A i \in Id : channels'[i].buffer # <<>> => Genuine(channels'[i].buffer[1], i[2])
    BY DEF RepliesGenuine, TypeOK
  <1>3. \A e \in Download : downloads'[e].reply # <<>> =>
          Genuine(downloads'[e].reply[1], downloads'[e].at)
    BY DEF RepliesGenuine, TypeOK
  <1> QED
    BY <1>1, <1>2, <1>3 DEF RepliesGenuine

LEMMA DownloadGenuine ==
  ASSUME TypeOK, RepliesGenuine, StagesMean, NEW d \in Download, Start(d) \/ GoesOn(d)
  PROVE  RepliesGenuine'
  <1>1. downloads[d] \in DownloadState /\ RequestID(d) \in Id
        /\ KeyAt(downloads[d].at) \in Key
    BY FileType DEF DownloadState, RequestID, Id, TypeOK
  <1>2. downloads[d].reply # <<>> => Genuine(downloads[d].reply[1], downloads[d].at)
    BY DEF RepliesGenuine
  <1>3. \A v : Advanced(downloads[d], v).reply = <<>>
    BY DEF Advanced
  <1>4. CASE Start(d)
    BY <1>1, <1>2, <1>4, DownloadKeepsGenuine DEF Start, DownloadState
  <1>5. CASE GetNext(d)
    <2>1. CASE blobs[KeyAt(downloads[d].at)] # Nil
      BY <1>3, <1>5, <2>1, DownloadKeepsGenuine DEF GetNext
    <2>2. CASE downloads' = [downloads EXCEPT ![d].stage = "failed"] /\ UNCHANGED net
      BY <1>1, <1>2, <1>5, <2>2, DownloadKeepsGenuine DEF GetNext, DownloadState
    <2>3. ASSUME NEW p, net' = Unicast(Request(d, p, 0)),
                 downloads' = [downloads EXCEPT ![d].stage = "sent", ![d].peer = p]
          PROVE  RepliesGenuine'
      <3>1. downloads' = [downloads EXCEPT ![d] = [@ EXCEPT !.stage = "sent", !.peer = p]]
        BY <2>3
      <3> QED
        BY <1>1, <1>2, <1>5, <2>3, <3>1, DownloadKeepsGenuine DEF GetNext, DownloadState
    <2> QED
      BY <1>5, <2>1, <2>2, <2>3 DEF GetNext
  <1>6. CASE SetAckChannel(d)
    BY <1>1, <1>2, <1>6, DownloadKeepsGenuine DEF SetAckChannel, TypeOK, DownloadState
  <1>7. CASE TimeOut(d)
    BY <1>1, <1>2, <1>7, DownloadKeepsGenuine DEF TimeOut, DownloadState
  <1>8. CASE TakeReply(d)
    <2> DEFINE x == [downloads[d] EXCEPT !.stage = "taken",
                                         !.reply = channels[RequestID(d)].buffer]
    <2>1. downloads' = [downloads EXCEPT ![d] = x]
      BY <1>8 DEF TakeReply
    <2>2. RequestID(d)[2] = downloads[d].at
      BY DEF RequestID
    <2>3. x.at = downloads[d].at /\ x.reply = channels[RequestID(d)].buffer
      BY <1>1 DEF DownloadState
    <2>4. x.reply # <<>> => Genuine(x.reply[1], x.at)
      BY <1>1, <2>2, <2>3 DEF RepliesGenuine
    <2> QED
      BY <1>1, <1>8, <2>1, <2>4, DownloadKeepsGenuine DEF TakeReply, TypeOK
  <1>9. CASE UseReply(d)
    BY <1>1, <1>2, <1>3, <1>9, DownloadKeepsGenuine DEF UseReply, DownloadState
  <1> QED
    BY <1>4, <1>5, <1>6, <1>7, <1>8, <1>9 DEF GoesOn

-----------------------------------------------------------------------------
(* Progress.                                                               *)

(* The chunk of a place comes after those of the places before. *)
LEMMA AdvancedPrefix ==
  ASSUME NEW x \in DownloadState, PrefixOfFile(x), x.stage # "done",
         NEW v \in Key, v = KeyAt(x.at)
  PROVE  /\ PrefixOfFile(Advanced(x, v))
         /\ \A j \in Behind(Advanced(x, v)) : j \in Behind(x) \/ j = x.at
  <1> DEFINE got == IF x.at = 0 THEN x.got ELSE Append(x.got, v)
  <1>1. /\ x.at \in 0 .. Len(File) /\ x.got \in Seq(Key) /\ Len(x.got) \in Nat
        /\ Len(File) \in Nat /\ Len(File) >= 1
    BY FileType DEF DownloadState
  <1>2. /\ Len(x.got) = IF x.at = 0 THEN 0 ELSE x.at - 1
        /\ \A i \in 1 .. Len(x.got) : x.got[i] = File[i]
    BY DEF PrefixOfFile
  <1>3. Len(got) = x.at /\ \A i \in 1 .. Len(got) : got[i] = File[i]
    <2>1. CASE x.at = 0
      BY <1>1, <1>2, <2>1
    <2>2. CASE x.at # 0
      <3>1. v = File[x.at]
        BY <2>2 DEF KeyAt
      <3>2. Len(got) = Len(x.got) + 1 /\ got[Len(x.got) + 1] = v
            /\ \A i \in 1 .. Len(x.got) : got[i] = x.got[i]
        BY <1>1, <2>2
      <3> HIDE DEF got
      <3> QED
        BY <1>1, <1>2, <2>2, <3>1, <3>2
    <2> QED
      BY <2>1, <2>2
  <1>4. Advanced(x, v).got = got
    BY DEF Advanced
  <1> HIDE DEF got
  <1>5. CASE x.at = Len(File)
    BY <1>1, <1>3, <1>4, <1>5 DEF Advanced, PrefixOfFile, Behind
  <1>6. CASE x.at # Len(File)
    BY <1>1, <1>3, <1>4, <1>6 DEF Advanced, PrefixOfFile, Behind
  <1> QED
    BY <1>5, <1>6

(* A download that does not advance. *)
LEMMA SamePlace ==
  ASSUME TypeOK, BlobsHonest, Progress, NEW d \in Download, NEW x,
         x.at = downloads[d].at, x.got = downloads[d].got,
         x.stage # "done", downloads[d].stage # "done",
         downloads' = [downloads EXCEPT ![d] = x], UNCHANGED blobs
  PROVE  BlobsHonest' /\ Progress'
  <1>1. PrefixOfFile(x) /\ Behind(x) = Behind(downloads[d])
    BY DEF Progress, PrefixOfFile, Behind
  <1> QED
    BY <1>1 DEF BlobsHonest, Progress, TypeOK

(* A download that advances, because the blob it needs is stored.          *)
LEMMA NextPlace ==
  ASSUME TypeOK, BlobsHonest, Progress, NEW d \in Download, downloads[d].stage # "done",
         downloads' = [downloads EXCEPT ![d] = Advanced(@, KeyAt(downloads[d].at))],
         BlobsHonest', \A k \in Key : blobs[k] # Nil => blobs'[k] # Nil,
         blobs'[KeyAt(downloads[d].at)] # Nil
  PROVE  Progress'
  <1>1. downloads[d] \in DownloadState /\ PrefixOfFile(downloads[d])
        /\ KeyAt(downloads[d].at) \in Key
    BY FileType DEF DownloadState, TypeOK, Progress
  <1>2. /\ PrefixOfFile(downloads'[d])
        /\ \A j \in Behind(downloads'[d]) : j \in Behind(downloads[d]) \/ j = downloads[d].at
    BY <1>1, AdvancedPrefix DEF TypeOK
  <1>3. \A j \in 0 .. Len(File) : blobs[KeyAt(j)] # Nil => blobs'[KeyAt(j)] # Nil
    BY FileType
  <1>4. ASSUME NEW e \in Download, NEW j \in Behind(downloads'[e])
        PROVE  blobs'[KeyAt(j)] # Nil
    <2>1. j \in 0 .. Len(File)
      BY DEF Behind
    <2>2. CASE e = d
      BY <1>2, <1>3, <2>1, <2>2 DEF Progress
    <2>3. CASE e # d
      BY <1>3, <2>1, <2>3 DEF Progress, TypeOK
    <2> QED
      BY <2>2, <2>3
  <1>5. \A e \in Download : PrefixOfFile(downloads'[e])
    BY <1>2 DEF Progress, TypeOK
  <1> QED
    BY <1>4, <1>5 DEF Progress, PrefixOfFile, Behind

LEMMA DownloadProgress ==
  ASSUME IInv, NEW d \in Download, Start(d) \/ GoesOn(d)
  PROVE  BlobsHonest' /\ Progress'
  <1> USE DEF IInv
  <1>1. downloads[d] \in DownloadState /\ KeyAt(downloads[d].at) \in Key
    BY FileType DEF DownloadState, TypeOK
  <1>2. CASE Start(d)
    <2>1. downloads[d].stage = "idle"
      BY <1>2 DEF Start, Idle
    <2> QED
      BY <1>1, <1>2, <2>1, SamePlace DEF Start, DownloadState
  <1>3. CASE GetNext(d)
    <2>1. CASE blobs[KeyAt(downloads[d].at)] # Nil
      <3>1. blobs[KeyAt(downloads[d].at)] = KeyAt(downloads[d].at)
        BY <1>1, <2>1 DEF BlobsHonest
      <3>2. BlobsHonest' /\ UNCHANGED blobs
        BY <1>3 DEF GetNext, BlobsHonest
      <3>3. downloads' = [downloads EXCEPT ![d] = Advanced(@, KeyAt(downloads[d].at))]
            /\ downloads[d].stage # "done"
        BY <1>3, <2>1, <3>1 DEF GetNext
      <3> QED
        BY <2>1, <3>2, <3>3, NextPlace
    <2>2. CASE downloads' = [downloads EXCEPT ![d].stage = "failed"] /\ UNCHANGED net
      BY <1>1, <1>3, <2>2, SamePlace DEF GetNext, DownloadState
    <2>3. ASSUME NEW p, downloads' = [downloads EXCEPT ![d].stage = "sent", ![d].peer = p]
          PROVE  BlobsHonest' /\ Progress'
      <3>1. downloads' = [downloads EXCEPT ![d] = [@ EXCEPT !.stage = "sent", !.peer = p]]
        BY <2>3
      <3> QED
        BY <1>1, <1>3, <3>1, SamePlace DEF GetNext, DownloadState
    <2> QED
      BY <1>3, <2>1, <2>2, <2>3 DEF GetNext
  <1>4. CASE SetAckChannel(d)
    BY <1>1, <1>4, SamePlace DEF SetAckChannel, DownloadState
  <1>5. CASE TimeOut(d)
    BY <1>1, <1>5, SamePlace DEF TimeOut, DownloadState
  <1>6. CASE TakeReply(d)
    <2>1. downloads' = [downloads EXCEPT ![d] = [@ EXCEPT !.stage = "taken",
                                                 !.reply = channels[RequestID(d)].buffer]]
      BY <1>6 DEF TakeReply
    <2> QED
      BY <1>1, <1>6, <2>1, SamePlace DEF TakeReply, DownloadState
  <1>7. CASE UseReply(d)
    <2> DEFINE reply == Head(downloads[d].reply)
    <2>1. /\ reply = downloads[d].reply[1]
          /\ Genuine(reply, downloads[d].at)
      BY <1>1, <1>7 DEF UseReply, StagesMean, RepliesGenuine, DownloadState, Buffer
    <2> HIDE DEF reply
    <2>2. CASE reply.value = Nil
      BY <1>1, <1>7, <2>2, SamePlace DEF UseReply, DownloadState, reply
    <2>3. CASE reply.value # Nil
      <3>1. reply.key = KeyAt(downloads[d].at) /\ reply.value = KeyAt(downloads[d].at)
        BY <2>1, <2>3 DEF Genuine
      <3>2. /\ blobs' = [blobs EXCEPT ![KeyAt(downloads[d].at)] = KeyAt(downloads[d].at)]
            /\ downloads' = [downloads EXCEPT ![d] = Advanced(@, KeyAt(downloads[d].at))]
            /\ downloads[d].stage # "done"
        BY <1>7, <2>3, <3>1 DEF UseReply, reply
      <3>3. BlobsHonest'
        BY <1>1, <3>2 DEF BlobsHonest, TypeOK
      <3>4. /\ \A k \in Key : blobs[k] # Nil => blobs'[k] # Nil
            /\ blobs'[KeyAt(downloads[d].at)] # Nil
        BY <1>1, <3>2, FileType DEF TypeOK
      <3> QED
        BY <3>2, <3>3, <3>4, NextPlace
    <2> QED
      BY <2>2, <2>3
  <1> QED
    BY <1>2, <1>3, <1>4, <1>5, <1>6, <1>7 DEF GoesOn

-----------------------------------------------------------------------------
(* The invariant.                                                          *)

LEMMA StepIInv == IInv /\ [Next]_vars => IInv'
  <1> SUFFICES ASSUME IInv, [Next]_vars PROVE IInv'
    OBVIOUS
  <1> USE DEF IInv
  <1>1. ASSUME NEW p \in Peer, Upload(p) \/ \E k \in Key : UpdateCatalog(k, p)
        PROVE  IInv'
    <2>1. TypeOK'
      BY <1>1, QuietTypes
    <2>2. UNCHANGED <<blobs, downloads, channels, loop, net>>
      BY <1>1 DEF Upload, UpdateCatalog
    <2> QED
      BY <2>1, <2>2 DEF RepliesGenuine, Replies, StagesMean, BlobsHonest, Progress
  <1>2. ASSUME NEW d \in Download, Start(d) \/ GoesOn(d) PROVE IInv'
    BY <1>2, DownloadTypes, DownloadGenuine, DownloadProgress
  <1>3. ASSUME NEW m \in net,
               \/ Lose(m)
               \/ m \in Requests /\ ExecDataRequestMessage(m)
               \/ m \in Replies /\ ExecDataReplyMessage(m)
        PROVE  IInv'
    <2>1. TypeOK' /\ RepliesGenuine'
      BY <1>3, NetTypes, NetGenuine
    <2>2. UNCHANGED <<blobs, downloads>>
      BY <1>3 DEF Lose, ExecDataRequestMessage, ExecDataReplyMessage
    <2> QED
      BY <2>1, <2>2 DEF StagesMean, BlobsHonest, Progress
  <1>4. ASSUME PassMsgToWaiter PROVE IInv'
    <2>1. TypeOK' /\ RepliesGenuine'
      BY <1>4, PassTypes, PassGenuine
    <2>2. UNCHANGED <<blobs, downloads>>
      BY <1>4 DEF PassMsgToWaiter
    <2> QED
      BY <2>1, <2>2 DEF StagesMean, BlobsHonest, Progress
  <1>5. ASSUME UNCHANGED vars PROVE IInv'
    BY <1>5 DEF vars, TypeOK, RepliesGenuine, Replies, StagesMean, BlobsHonest, Progress
  <1> QED
    BY <1>1, <1>2, <1>3, <1>4, <1>5 DEF Next, Requests, Replies

LEMMA Invariance == Spec => []IInv
  <1> QED
    BY InitIInv, StepIInv, PTL DEF Spec

(* Every value stays of its type, whatever is sent, lost or repeated. *)
THEOREM TypeCorrect == Spec => []TypeOK
  <1>1. IInv => TypeOK
    BY DEF IInv
  <1> QED
    BY <1>1, Invariance, PTL

(* A download that ends well has the file, for files of any length, any    *)
(* number of downloads at once, of peers and of retransmissions.           *)
THEOREM Reconstruction == Spec => []DownloadIsTheFile
  <1>1. ASSUME IInv PROVE DownloadIsTheFile
    <2> USE <1>1 DEF IInv
    <2>1. ASSUME NEW d \in Download, downloads[d].stage = "done"
          PROVE  downloads[d].got = File
      <3>1. downloads[d].got \in Seq(Key)
        BY DEF TypeOK, DownloadState
      <3>2. Len(downloads[d].got) = Len(File)
            /\ \A i \in 1 .. Len(File) : downloads[d].got[i] = File[i]
        BY <2>1 DEF Progress, PrefixOfFile
      <3>3. File \in Seq(Range(File))
        BY FileAssumption
      <3> QED
        BY <3>1, <3>2, <3>3
    <2>2. ASSUME NEW d \in Download, downloads[d].stage = "done", NEW k \in Key
          PROVE  blobs[k] = k
      <3>1. PICK j \in 0 .. Len(File) : KeyAt(j) = k
        BY EveryKeyHasAPlace
      <3> QED
        BY <2>2, <3>1 DEF Progress, Behind, BlobsHonest
    <2> QED
      BY <2>1, <2>2 DEF DownloadIsTheFile, BlobsHonest
  <1> QED
    BY <1>1, Invariance, PTL

-----------------------------------------------------------------------------
(* The pool.                                                               *)

(* Stages of a download whose channel is in the pool. *)
HasChannel(x) == x.stage \in {"waiting", "taken", "gave up"}

LEMMA PoolStep ==
  ASSUME IInv, PoolTracksDownloads, [Next]_vars
  PROVE  PoolTracksDownloads'
  <1> DEFINE Tracked(dl) == {<<d, dl[d].at>> : d \in {e \in Download : HasChannel(dl[e])}}
  <1>1. PoolTracksDownloads <=> pool = Tracked(downloads)
    BY DEF PoolTracksDownloads, RequestID, HasChannel
  <1>2. PoolTracksDownloads' <=> pool' = Tracked(downloads')
    BY DEF PoolTracksDownloads, RequestID, HasChannel
  <1>3. downloads \in [Download -> DownloadState]
    BY DEF IInv, TypeOK
  <1>4. CASE UNCHANGED <<pool, downloads>>
    BY <1>1, <1>2, <1>4
  (* A download that has a channel before and after, or neither. *)
  <1>5. ASSUME NEW d \in Download, NEW x, downloads' = [downloads EXCEPT ![d] = x],
               UNCHANGED pool, HasChannel(x) <=> HasChannel(downloads[d]),
               HasChannel(x) => x.at = downloads[d].at
        PROVE  PoolTracksDownloads'
    <2>1. Tracked(downloads') = Tracked(downloads)
      BY <1>3, <1>5
    <2> QED
      BY <1>1, <1>2, <1>5, <2>1
  <1>6. ASSUME NEW d \in Download, Start(d) PROVE PoolTracksDownloads'
    <2>1. downloads[d].stage = "idle" /\ [downloads[d] EXCEPT !.stage = "next"].stage = "next"
      BY <1>3, <1>6 DEF Start, Idle, DownloadState
    <2> QED
      BY <1>5, <1>6, <2>1 DEF Start, HasChannel
  <1>7. ASSUME NEW d \in Download, GetNext(d) PROVE PoolTracksDownloads'
    <2>1. downloads[d].stage = "next" /\ UNCHANGED pool
      BY <1>7 DEF GetNext
    <2>2. CASE blobs[KeyAt(downloads[d].at)] # Nil
      <3>1. Advanced(downloads[d], blobs[KeyAt(downloads[d].at)]).stage \in {"next", "done"}
        BY DEF Advanced
      <3>2. downloads' = [downloads EXCEPT ![d] =
                            Advanced(downloads[d], blobs[KeyAt(downloads[d].at)])]
        BY <1>7, <2>2 DEF GetNext
      <3> QED
        BY <1>5, <2>1, <3>1, <3>2 DEF HasChannel
    <2>3. CASE downloads' = [downloads EXCEPT ![d].stage = "failed"]
      <3>1. [downloads[d] EXCEPT !.stage = "failed"].stage = "failed"
        BY <1>3 DEF DownloadState
      <3> QED
        BY <1>5, <2>1, <2>3, <3>1 DEF HasChannel
    <2>4. ASSUME NEW p, downloads' = [downloads EXCEPT ![d].stage = "sent", ![d].peer = p]
          PROVE  PoolTracksDownloads'
      <3>1. downloads' = [downloads EXCEPT ![d] = [@ EXCEPT !.stage = "sent", !.peer = p]]
        BY <2>4
      <3>2. [downloads[d] EXCEPT !.stage = "sent", !.peer = p].stage = "sent"
        BY <1>3 DEF DownloadState
      <3> QED
        BY <1>5, <2>1, <3>1, <3>2 DEF HasChannel
    <2> QED
      BY <1>7, <2>2, <2>3, <2>4 DEF GetNext
  <1>8. ASSUME NEW d \in Download, SetAckChannel(d) PROVE PoolTracksDownloads'
    <2>1. Tracked(downloads') = Tracked(downloads) \cup {RequestID(d)}
      BY <1>3, <1>8 DEF SetAckChannel, HasChannel, RequestID, DownloadState
    <2> QED
      BY <1>1, <1>2, <1>8, <2>1 DEF SetAckChannel
  <1>9. ASSUME NEW d \in Download, TimeOut(d) PROVE PoolTracksDownloads'
    BY <1>3, <1>5, <1>9 DEF TimeOut, HasChannel, DownloadState
  <1>10. ASSUME NEW d \in Download, TakeReply(d) PROVE PoolTracksDownloads'
    <2>1. downloads' = [downloads EXCEPT ![d] = [@ EXCEPT !.stage = "taken",
                                                 !.reply = channels[RequestID(d)].buffer]]
      BY <1>10 DEF TakeReply
    <2>2. /\ [downloads[d] EXCEPT !.stage = "taken",
                                  !.reply = channels[RequestID(d)].buffer].stage = "taken"
          /\ [downloads[d] EXCEPT !.stage = "taken",
                                  !.reply = channels[RequestID(d)].buffer].at = downloads[d].at
      BY <1>3 DEF DownloadState
    <2>3. downloads[d].stage = "waiting" /\ UNCHANGED pool
      BY <1>10 DEF TakeReply
    <2> QED
      BY <1>5, <2>1, <2>2, <2>3 DEF HasChannel
  <1>11. ASSUME NEW d \in Download, UseReply(d) PROVE PoolTracksDownloads'
    <2>1. PICK x : downloads' = [downloads EXCEPT ![d] = x] /\ ~HasChannel(x)
      <3>1. \A v : ~HasChannel(Advanced(downloads[d], v))
        BY DEF Advanced, HasChannel
      <3>2. ~HasChannel([downloads[d] EXCEPT !.stage = "failed"])
        BY <1>3 DEF DownloadState, HasChannel
      <3> QED
        BY <1>11, <3>1, <3>2 DEF UseReply
    <2>2. Tracked(downloads') = Tracked(downloads) \ {RequestID(d)}
      BY <1>3, <2>1 DEF RequestID
    <2> QED
      BY <1>1, <1>2, <1>11, <2>2 DEF UseReply, deleteAckChannel
  <1> QED
    BY <1>4, <1>6, <1>7, <1>8, <1>9, <1>10, <1>11
       DEF Next, GoesOn, vars, Upload, UpdateCatalog, ExecDataRequestMessage,
           ExecDataReplyMessage, Lose, PassMsgToWaiter

(* A channel is in the pool exactly while a download waits on it or has    *)
(* given up: none is lost, and the only ones left over are of the latter.  *)
THEOREM PoolAccounted == Spec => []PoolTracksDownloads
  <1>1. Init => PoolTracksDownloads
    <2>1. Idle.stage = "idle"
      BY DEF Idle
    <2> QED
      BY <2>1 DEF Init, PoolTracksDownloads
  <1>2. IInv /\ PoolTracksDownloads /\ [Next]_vars => PoolTracksDownloads'
    BY PoolStep
  <1> QED
    BY <1>1, <1>2, Invariance, PTL DEF Spec

-----------------------------------------------------------------------------
(* Open channels.                                                          *)

Waits(x) == x.stage \in {"waiting", "gave up"}

(* Whoever opened a channel is there to take from it, or has given up.     *)
OpenIsWaitedFor ==
  \A i \in Id : channels[i].open => \E d \in Download : RequestID(d) = i /\ Waits(downloads[d])

(* A download that opens nothing, and does not leave a channel it waits on.*)
LEMMA WaitGoesOn ==
  ASSUME TypeOK, OpenIsWaitedFor, NEW d \in Download, NEW x,
         downloads' = [downloads EXCEPT ![d] = x],
         \A i \in Id : channels'[i].open => channels[i].open \/ i = RequestID(d),
         \/ Waits(x) /\ x.at = downloads[d].at
         \/ ~channels'[RequestID(d)].open
         \/ ~Waits(downloads[d]) /\ channels' = channels
  PROVE  OpenIsWaitedFor'
  <1>1. downloads \in [Download -> DownloadState]
    BY DEF TypeOK
  <1>2. /\ downloads'[d] = x
        /\ \A e \in Download : e # d => downloads'[e] = downloads[e]
    BY <1>1
  <1> SUFFICES ASSUME NEW i \in Id, channels'[i].open
               PROVE  \E e \in Download : RequestID(e)' = i /\ Waits(downloads'[e])
    BY DEF OpenIsWaitedFor
  <1>3. CASE Waits(x) /\ x.at = downloads[d].at /\ i = RequestID(d)
    BY <1>2, <1>3 DEF RequestID
  <1>4. CASE channels[i].open /\ i # RequestID(d)
    BY <1>2, <1>4 DEF RequestID, OpenIsWaitedFor
  <1>5. CASE ~Waits(downloads[d]) /\ channels[i].open
    BY <1>2, <1>5 DEF RequestID, OpenIsWaitedFor
  <1> QED
    BY <1>3, <1>4, <1>5

LEMMA OpenStep ==
  ASSUME IInv, OpenIsWaitedFor, [Next]_vars
  PROVE  OpenIsWaitedFor'
  <1>1. /\ TypeOK /\ downloads \in [Download -> DownloadState]
        /\ channels \in [Id -> [open : BOOLEAN, buffer : Buffer]]
    BY DEF IInv, TypeOK
  <1>2. ASSUME UNCHANGED downloads, \A i \in Id : channels'[i].open = channels[i].open
        PROVE  OpenIsWaitedFor'
    BY <1>2 DEF OpenIsWaitedFor, RequestID
  <1>3. ASSUME NEW d \in Download, Start(d) PROVE OpenIsWaitedFor'
    <2>1. ~Waits(downloads[d]) /\ channels' = channels
      BY <1>1, <1>3 DEF Start, Idle, Waits
    <2> QED
      BY <1>1, <1>3, <2>1, WaitGoesOn DEF Start
  <1>4. ASSUME NEW d \in Download, GetNext(d) PROVE OpenIsWaitedFor'
    <2>1. ~Waits(downloads[d]) /\ channels' = channels
      BY <1>1, <1>4 DEF GetNext, Waits
    <2>2. \E x : downloads' = [downloads EXCEPT ![d] = x]
      <3>1. CASE downloads' = [downloads EXCEPT ![d] = Advanced(@, blobs[KeyAt(downloads[d].at)])]
        BY <3>1
      <3>2. CASE downloads' = [downloads EXCEPT ![d].stage = "failed"]
        BY <3>2
      <3>3. ASSUME NEW p, downloads' = [downloads EXCEPT ![d].stage = "sent", ![d].peer = p]
            PROVE  \E x : downloads' = [downloads EXCEPT ![d] = x]
        <4>1. downloads' = [downloads EXCEPT ![d] = [@ EXCEPT !.stage = "sent", !.peer = p]]
          BY <3>3
        <4> QED
          BY <4>1
      <3> QED
        BY <1>4, <3>1, <3>2, <3>3 DEF GetNext
    <2> QED
      BY <1>1, <2>1, <2>2, WaitGoesOn
  <1>5. ASSUME NEW d \in Download, SetAckChannel(d) PROVE OpenIsWaitedFor'
    <2> DEFINE x == [downloads[d] EXCEPT !.stage = "waiting"]
    <2>1. downloads' = [downloads EXCEPT ![d] = x] /\ Waits(x) /\ x.at = downloads[d].at
      BY <1>1, <1>5 DEF SetAckChannel, Waits, DownloadState
    <2>2. \A i \in Id : channels'[i].open => channels[i].open \/ i = RequestID(d)
      BY <1>1, <1>5 DEF SetAckChannel
    <2> HIDE DEF x
    <2> QED
      BY <1>1, <2>1, <2>2, WaitGoesOn
  <1>6. ASSUME NEW d \in Download, TimeOut(d) PROVE OpenIsWaitedFor'
    <2>1. PICK x : /\ downloads' = [downloads EXCEPT ![d] = x]
                   /\ Waits(x) /\ x.at = downloads[d].at
      BY <1>1, <1>6 DEF TimeOut, Waits, DownloadState
    <2>2. channels' = channels
      BY <1>6 DEF TimeOut
    <2> QED
      BY <1>1, <2>1, <2>2, WaitGoesOn
  <1>7. ASSUME NEW d \in Download, TakeReply(d) PROVE OpenIsWaitedFor'
    <2>1. downloads' = [downloads EXCEPT ![d] = [@ EXCEPT !.stage = "taken",
                                                 !.reply = channels[RequestID(d)].buffer]]
      BY <1>7 DEF TakeReply
    <2>2. RequestID(d) \in Id
      BY <1>1 DEF RequestID, Id, DownloadState
    <2>3. /\ ~channels'[RequestID(d)].open
          /\ \A i \in Id : channels'[i].open => channels[i].open \/ i = RequestID(d)
      BY <1>1, <1>7, <2>2 DEF TakeReply
    <2> QED
      BY <1>1, <2>1, <2>3, WaitGoesOn
  <1>8. ASSUME NEW d \in Download, UseReply(d) PROVE OpenIsWaitedFor'
    <2>1. ~Waits(downloads[d]) /\ channels' = channels
      BY <1>1, <1>8 DEF UseReply, Waits
    <2>2. \E x : downloads' = [downloads EXCEPT ![d] = x]
      BY <1>8 DEF UseReply
    <2> QED
      BY <1>1, <2>1, <2>2, WaitGoesOn
  <1>9. ASSUME PassMsgToWaiter PROVE OpenIsWaitedFor'
    BY <1>1, <1>2, <1>9 DEF PassMsgToWaiter
  <1> QED
    BY <1>2, <1>3, <1>4, <1>5, <1>6, <1>7, <1>8, <1>9
       DEF Next, GoesOn, vars, Upload, UpdateCatalog, ExecDataRequestMessage,
           ExecDataReplyMessage, Lose

(* However many downloads run, and however often each is resent: what the  *)
(* receive loop waits on has a download waiting there, with its timer, or  *)
(* one that has given up.                                                  *)
THEOREM LoopHasAWaiter == Spec => []LoopWaitsForWaiter
  <1>1. Init => OpenIsWaitedFor
    BY DEF Init, OpenIsWaitedFor
  <1>2. IInv /\ OpenIsWaitedFor /\ [Next]_vars => OpenIsWaitedFor'
    BY OpenStep
  <1>3. ASSUME IInv, OpenIsWaitedFor, loop # NoPass
        PROVE  \/ \E d \in Download : /\ RequestID(d) = loop.channel
                                      /\ downloads[d].stage \in {"waiting", "gave up"}
               \/ loop.channel \in Id /\ ~channels[loop.channel].open
    <2>1. loop.channel \in Id
      BY <1>3 DEF IInv, TypeOK
    <2> QED
      BY <1>3, <2>1 DEF OpenIsWaitedFor, Waits
  <1>4. IInv /\ OpenIsWaitedFor => LoopWaitsForWaiter
    BY <1>3 DEF LoopWaitsForWaiter
  <1> QED
    BY <1>1, <1>2, <1>4, Invariance, PTL DEF Spec
=============================================================================
