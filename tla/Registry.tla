-------------------------------- MODULE Registry --------------------------------
(***************************************************************************)
(* The message registry of a node, and the feed of packets the pages show. *)
(* ProcessPacket looks the handler up under a read lock, runs it, and then *)
(* has a goroutine call every notification handler, for which it waits     *)
(* only so long.  A page that is connected to /registry/pktnotify is such  *)
(* a handler: it puts the packet in a channel, from which the connection   *)
(* writes it to the page.                                                  *)
(*                                                                         *)
(* Several goroutines process packets: the receive loop, handlers that     *)
(* process an embedded message, a broadcast that is processed locally.     *)
(***************************************************************************)
EXTENDS Naturals, SequencesExt

CONSTANTS Caller,      \* bound: calls of ProcessPacket that may overlap
          Page,        \* pages open in a browser
          Type,        \* types of messages in the global registry
          Registered,  \* those the node registers a handler for when it starts
          Late,        \* those registered while it runs
          Capacity,    \* of the channel of a connection (100 in the code)
          MaxPackets,  \* bound: packets whose handler succeeds
          MaxFeeds     \* bound: connections ever made

Packet == 1 .. MaxPackets

ASSUME TypeAssumption == Registered \subseteq Type /\ Late \subseteq Type
ASSUME BoundAssumption ==
  MaxPackets \in Nat /\ MaxFeeds \in Nat /\ Capacity \in Nat \ {0}

VARIABLES
  calls,      \* the call of ProcessPacket each goroutine is in
  handlers,   \* Registry.handlers: the types that have one
  leaked,     \* TRUE: a read lock of the registry is never given back
  writer,     \* the type whose registration waits for the write lock
  processed,  \* packets whose handler succeeded
  notifiers,  \* the goroutine of ExecAll of each of them
  lock,       \* the packet whose goroutine holds the lock of notifications
  pages,      \* what each page does about its connection
  feeds       \* notifications.h: the connections, in the order of Add

vars == <<calls, handlers, leaked, writer, processed, notifiers, lock, pages, feeds>>

registry == <<handlers, leaked, writer>>

NoType   == "none"
NoPacket == 0
NoCall   == [stage |-> "idle", type |-> NoType, packet |-> NoPacket]

Init ==
  /\ calls = [c \in Caller |-> NoCall]
  /\ handlers = Registered
  /\ leaked = FALSE
  /\ writer = NoType
  /\ processed = 0
  /\ notifiers = [k \in Packet |-> [stage |-> "none", next |-> 1]]
  /\ lock = NoPacket
  /\ pages = [p \in Page |-> "off"]
  /\ feeds = <<>>

-----------------------------------------------------------------------------
(* ProcessPacket.                                                          *)

Goto(c, call) == calls' = [calls EXCEPT ![c] = call]

(* A packet of a type that is not in the global registry is refused here.  *)
GetMessage(c, type) ==
  /\ calls[c] = NoCall /\ processed < MaxPackets
  /\ Goto(c, [NoCall EXCEPT !.stage = "locking", !.type = type])
  /\ UNCHANGED <<registry, processed, notifiers, lock, pages, feeds>>

(* RLock waits for a writer that came first.  Without a handler the lock   *)
(* is not given back.                                                      *)
LookUp(c) ==
  /\ calls[c].stage = "locking" /\ writer = NoType
  /\ IF calls[c].type \in handlers
     THEN Goto(c, [calls[c] EXCEPT !.stage = "handling"]) /\ UNCHANGED leaked
     ELSE Goto(c, NoCall) /\ leaked' = TRUE
  /\ UNCHANGED <<handlers, writer, processed, notifiers, lock, pages, feeds>>

(* The handler fails or panics, or succeeds and ExecAll starts.            *)
Handle(c) ==
  /\ calls[c].stage = "handling"
  /\ \/ Goto(c, NoCall) /\ UNCHANGED <<processed, notifiers>>
     \/ /\ processed < MaxPackets
        /\ processed' = processed + 1
        /\ notifiers' = [notifiers EXCEPT ![processed + 1].stage = "waiting"]
        /\ Goto(c, [calls[c] EXCEPT !.stage = "notifying", !.packet = processed + 1])
  /\ UNCHANGED <<registry, lock, pages, feeds>>

(* Mutant of GivesUp: ProcessPacket waits as long as it takes. *)
NeverGivesUp == FALSE

(* time.After: the notification handlers took too long. *)
GivesUp == TRUE

Return(c) ==
  /\ calls[c].stage = "notifying"
  /\ notifiers[calls[c].packet].stage = "done" \/ GivesUp
  /\ Goto(c, NoCall)
  /\ UNCHANGED <<registry, processed, notifiers, lock, pages, feeds>>

(* RegisterMessageCallback asks for the write lock, and has it when every  *)
(* read lock has been given back.                                          *)
AskForLock(type) ==
  /\ writer = NoType /\ type \notin handlers
  /\ writer' = type
  /\ UNCHANGED <<calls, handlers, leaked, processed, notifiers, lock, pages, feeds>>

RegisterMessageCallback ==
  /\ writer # NoType /\ ~leaked
  /\ handlers' = handlers \cup {writer}
  /\ writer' = NoType
  /\ UNCHANGED <<calls, leaked, processed, notifiers, lock, pages, feeds>>

-----------------------------------------------------------------------------
(* Notifications.                                                          *)

Waiting(feed) == Len(feed.pushed) - feed.read

HasRoom(feed) == Waiting(feed) < Capacity

TakeLock(k) ==
  /\ notifiers[k].stage = "waiting" /\ lock = NoPacket
  /\ lock' = k
  /\ notifiers' = [notifiers EXCEPT ![k].stage = "running"]
  /\ UNCHANGED <<calls, registry, processed, pages, feeds>>

(* Mutant of Push: a packet that finds the channel full is dropped. *)
PushOrDrop(k, f) ==
  feeds' = IF HasRoom(feeds[f]) THEN [feeds EXCEPT ![f].pushed = Append(@, k)] ELSE feeds

(* The handler of a connection: pkts <- p, which waits for room. *)
Push(k, f) ==
  /\ HasRoom(feeds[f])
  /\ feeds' = [feeds EXCEPT ![f].pushed = Append(@, k)]

Notify(k) ==
  /\ lock = k /\ notifiers[k].next <= Len(feeds)
  /\ Push(k, notifiers[k].next)
  /\ notifiers' = [notifiers EXCEPT ![k].next = @ + 1]
  /\ UNCHANGED <<calls, registry, processed, lock, pages>>

(* Mutant of Unlocked: the lock is not given back. *)
StillLocked(k) == k

(* The deferred Unlock. *)
Unlocked(k) == NoPacket

CloseDone(k) ==
  /\ lock = k /\ notifiers[k].next > Len(feeds)
  /\ lock' = Unlocked(k)
  /\ notifiers' = [notifiers EXCEPT ![k].stage = "done"]
  /\ UNCHANGED <<calls, registry, processed, pages, feeds>>

-----------------------------------------------------------------------------
(* Pages.                                                                  *)

(* new EventSource(addr), and its next attempt after an error. *)
Connect(p) ==
  /\ pages[p] = "off" /\ Len(feeds) < MaxFeeds
  /\ pages' = [pages EXCEPT ![p] = "connecting"]
  /\ UNCHANGED <<calls, registry, processed, notifiers, lock, feeds>>

(* Mutant of MayAdd: connections are added while handlers are called. *)
MayAddAnyTime == TRUE

(* RegisterNotify takes the lock the goroutines of ExecAll take. *)
MayAdd == lock = NoPacket

(* pktNotifyGet: the page may have gone while it waited for the lock. *)
RegisterNotify(p) ==
  /\ pages[p] = "connecting" /\ MayAdd /\ Len(feeds) < MaxFeeds
  /\ \E stage \in {"live", "broken"} :
       /\ feeds' = Append(feeds, [page |-> p, stage |-> stage, pushed |-> <<>>,
                                  read |-> 0, shown |-> 0])
       /\ pages' = [pages EXCEPT ![p] = IF stage = "live" THEN "on" ELSE "off"]
  /\ UNCHANGED <<calls, registry, processed, notifiers, lock>>

(* A packet is taken from the channel, and written to a page if there is   *)
(* one: Go's select may choose it after the connection broke.              *)
Forward(f) ==
  /\ feeds[f].stage # "ended" /\ Waiting(feeds[f]) > 0
  /\ feeds' = [feeds EXCEPT ![f].read = @ + 1,
                            ![f].shown = IF feeds[f].stage = "live" THEN @ + 1 ELSE @]
  /\ UNCHANGED <<calls, registry, processed, notifiers, lock, pages>>

(* The page is left, or the connection fails and packetError is called. *)
Break(f) ==
  /\ feeds[f].stage = "live"
  /\ feeds' = [feeds EXCEPT ![f].stage = "broken"]
  /\ pages' = [pages EXCEPT ![feeds[f].page] = "off"]
  /\ UNCHANGED <<calls, registry, processed, notifiers, lock>>

(* r.Context().Done(): the handler returns, its notification stays. *)
Ended(f) ==
  /\ feeds[f].stage = "broken"
  /\ feeds' = [feeds EXCEPT ![f].stage = "ended"]
  /\ UNCHANGED <<calls, registry, processed, notifiers, lock, pages>>

-----------------------------------------------------------------------------
Calls(c) == LookUp(c) \/ Handle(c) \/ Return(c)

Notifies(k) == TakeLock(k) \/ Notify(k) \/ CloseDone(k)

Next ==
  \/ \E c \in Caller : Calls(c) \/ \E type \in Type : GetMessage(c, type)
  \/ \E type \in Late : AskForLock(type)
  \/ RegisterMessageCallback
  \/ \E k \in Packet : Notifies(k)
  \/ \E p \in Page : Connect(p) \/ RegisterNotify(p)
  \/ \E f \in DOMAIN feeds : Forward(f) \/ Break(f) \/ Ended(f)

(* Goroutines that can go on do, handlers end, and a timer that is set     *)
(* fires; nobody has to send, to connect or to leave.                      *)
Fairness ==
  /\ \A c \in Caller : WF_vars(Calls(c))
  /\ \A k \in Packet : WF_vars(Notifies(k))
  /\ \A f \in 1 .. MaxFeeds : WF_vars(f \in DOMAIN feeds /\ Forward(f))
  /\ WF_vars(RegisterMessageCallback)

Spec == Init /\ [][Next]_vars /\ Fairness

-----------------------------------------------------------------------------
(* Properties.                                                             *)

Feed == [page : Page, stage : {"live", "broken", "ended"}, pushed : Seq(Packet),
         read : Nat, shown : Nat]

TypeOK ==
  /\ calls \in [Caller -> [stage : {"idle", "locking", "handling", "notifying"},
                           type : Type \cup {NoType}, packet : 0 .. processed]]
  /\ handlers \subseteq Type
  /\ leaked \in BOOLEAN
  /\ writer \in Late \cup {NoType}
  /\ processed \in 0 .. MaxPackets
  /\ notifiers \in [Packet -> [stage : {"none", "waiting", "running", "done"},
                               next : 1 .. MaxFeeds + 1]]
  /\ lock \in 0 .. processed
  /\ pages \in [Page -> {"off", "connecting", "on"}]
  /\ feeds \in Seq(Feed) /\ Len(feeds) <= MaxFeeds
  /\ \A f \in DOMAIN feeds : Waiting(feeds[f]) \in 0 .. Capacity

(* What a connection has been given, the packet that is being handed out   *)
(* included.                                                               *)
Given(f) ==
  IF lock # NoPacket /\ f >= notifiers[lock].next
  THEN Append(feeds[f].pushed, lock) ELSE feeds[f].pushed

(* All connections are given the same packets in the same order, whichever *)
(* goroutines process them and however slow or dead a page is: a later one *)
(* just misses those before it.                                            *)
FeedsAgree ==
  \A f, g \in DOMAIN feeds : f < g => IsSuffix(Given(g), Given(f))

(* A page shows a packet once, also when its connection broke and another  *)
(* was made while the packet was handed out.                               *)
PageShowsOnce ==
  \A f, g \in DOMAIN feeds : feeds[f].page = feeds[g].page =>
    \A i \in 1 .. feeds[f].shown : \A j \in 1 .. feeds[g].shown :
      feeds[f].pushed[i] = feeds[g].pushed[j] => <<f, i>> = <<g, j>>

(* The feed as PacketFeed has it: a packet counts as given to all          *)
(* connections from the moment its goroutine takes the lock.               *)
PF == INSTANCE PacketFeed WITH
        published <- {k \in Packet : notifiers[k].stage \in {"running", "done"}},
        given     <- [f \in DOMAIN feeds |-> Given(f)],
        taken     <- [f \in DOMAIN feeds |-> feeds[f].read]

(* Handing a packet out is as good as one step: whoever processes packets, *)
(* however long a channel stays full and whenever pages come, each packet  *)
(* goes to all connections there are at one moment, and to no later one.   *)
ImplementsFeed == PF!Spec

(* The receive loop, or whoever processes a packet, is never held up for   *)
(* ever by a page: only a callback registered after a packet without       *)
(* handler, whose read lock is kept, does that.                            *)
CallsEnd ==
  \A c \in Caller :
    calls[c] # NoCall ~> calls[c] = NoCall \/ (leaked /\ writer # NoType)

(* A connection whose page has gone and whose channel is full. *)
Dead(f) == feeds[f].stage = "ended" /\ ~HasRoom(feeds[f])

(* Every packet is handed to every connection, unless one is dead: a slow  *)
(* page, or one that just left, holds nobody up.                           *)
NotificationsEnd ==
  \A k \in Packet :
    notifiers[k].stage = "waiting" ~>
      notifiers[k].stage = "done" \/ \E f \in DOMAIN feeds : Dead(f)
=============================================================================
