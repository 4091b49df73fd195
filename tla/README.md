# A verification project for Peerster

Peerster is a peer-to-peer node in Go: peers gossip messages to one another,
share files and search for them; a web page drives a node. This directory holds
TLA+ specifications of it, the TLC configurations that check them on small
instances, and theorems about them that TLAPS checks. All paths below are
relative to the repository, those of the peer to `peer/impl`.

## The system

| part | state | operations | interacts by |
|---|---|---|---|
| gossip (`broadcast.go`, `handlers.go`, `status.go`, `nbrSet.go`, `mod.go`, `mechanisms.go`) | per node: received rumors and status, routing table, neighbours, own sequence number | `Broadcast`, `AddPeer`, `SetRoutingEntry`, handlers of rumors, acks, statuses; anti-entropy and heartbeat tickers | packets; one receive loop, one goroutine per ticker and per broadcast waiting for its ack |
| ack waiting (`broadcast.go`, `chanPool.go`) | a pool of channels by packet id, under a mutex | `waitForAck`, `notifyAckChannel`, `stopAllWaitingForACK` | channels between goroutines, the receive loop and `Stop` |
| data sharing (`dataSharing.go`, `handlers.go`) | blob and naming stores, catalog, a pool of reply channels | `Upload`, `Download`, data requests and replies, retries with backoff | packets, channels |
| search (`searchFirst.go`, `dataSharing.go`, `handlers.go`) | requests seen, reply channels, catalog | `SearchAll`, `SearchFirst`, requests forwarded on a budget | packets, channels, timeouts |
| registry (`registry/standard`, `gui/httpnode/controller/registry.go`) | handlers, notifications, message log; a channel per connected page | registration, `ProcessPacket`, `ExecAll`, the feed of packets | a read-write lock and a mutex; runs every handler, recovers its panics; server-sent events |
| transports (`transport/channel`, `udp`, `proxy`) | inboxes or UDP sockets | `Send`, `Recv`, `Close` | carry the packets |
| lifecycle (`mod.go`, `mechanisms.go`) | stop signal, quit channels | `Start`, `Stop` | signals every other goroutine |
| storage (`storage/inmemory`, `file`) | key-value maps, files | `Get`, `Set`, `Delete`, `ForEach` | called by sharing and search |
| HTTP node (`gui/httpnode`) | a server around one peer | a handler per operation of the peer | HTTP; calls the peer |
| web interface (`gui/web/assets/scripts/main.js`) | panels, forms, messages | a controller per panel, whose methods fetch | HTTP; other controllers; promises |
| page bindings (`stimulus.js`) | scopes, contexts, bindings, mutation observers | `start`, `register`, `unload`, records of mutations, dispatch of events | the document, microtasks |
| graph rendering (`viz.js`, `viz.lite.render.js`) | workers | `renderSVGElement` | a promise |
| test helpers, polypus, consensus types | none of the program's | | |

What is hard in it: a network that loses, duplicates and reorders; statuses that
are stale when they are compared; a node's own rumors that come back; goroutines
that replace or close a channel another one has looked up; `Stop` against all of
them; replies that come after a download gave up; requests that come back to
their origin; a lock that is kept on one way out; pages that go while a packet is
handed to them; methods of the page that overlap at every `await`; records of
mutations that are handled when the tree has changed again. `PROJECT.json` lists
these hazards at their lines, with the properties that cover each, or the reason
why none does.

Correct means, part by part: for gossip, that applications get a reliable
broadcast (each origin's messages once, in its order, eventually); for ack
waiting, that goroutines end when their rumor is acknowledged or the node is
stopped and hold up nobody; for data sharing, that a call ends, with the right
bytes or an error, whatever comes late; for search, that no more nodes are asked
than the budget allows and that what is said of who has what is true; for the
registry, that nobody is held up for ever and that all pages are shown the same;
for the page, that what it says and shows is what became of the requests; for the
bindings, that what is bound is what the document says, once things have settled.

## The modules

**ReliableBroadcast** is what the gossip promises: `sent[o]` is what origin
`o` broadcast, `delivered[n][o]` what `n` processed of it, in order and once.
A node's own messages may be processed in any order: two concurrent calls of
`Broadcast` take their numbers under a lock and process their messages later,
without one.

**Gossip** is the gossip layer. Its variables are the fields of `node` (`log` is
`rumorsReceived`, `status` is `StatusMsg`, `table`, `nbrs`), what its goroutines
hold (`broadcasting`, `waiting`, `rx`), the packets in flight (`net`) and the
history `delivered`. Its actions are the handlers and calls under their names in
the code. Some abstractions:

* A rumors message is handled in steps: two per rumor, up to the look at the
  neighbours (`ExecRumor`) and the setting of the route (`LearnRoute`), and one
  for the relay and the ack (`RelayAndAck`). Between them users and tickers go
  on, and `AddPeer` may change what `ExecRumor` has seen. Acks and statuses are
  one step: they read the status once to compare and once to answer, which
  differs only in that the answer may be fresher. `Broadcast` is two steps, up
  to the start of its goroutine, and the local processing: between `createRumor`
  and the sending the rumor may already be sent in answer to a status, which
  the network's reordering gives as well.
* The rumors of a message are a set. Those of one origin are in order, and the
  order of several origins is Go's order of iterating a map, which is any.
  A relayed message keeps the order of the message it came in.
* Absent map entries are 0 or `NoNode`, as the code's look-ups make them. An
  empty address is what `selectARandomNbrExcept` returns when there is no
  neighbour; sending to it fails and nothing is sent.
* Only the packet id of a first transmission is ever waited for. It is
  `<<origin, number>>`; all others are `FreshID`.
* An ack may end the wait for it or not: it may find the channel, none, one
  nobody reads any more or one that is closed. In the last case the handler
  panics, the registry recovers and the ack's status is not processed
  (`AckReplies`). `AckWait` has the detail.
* JSON, logging, TTL (which no code decrements), timestamps and the routing of
  private messages are left out.

**GossipOverChannels** adds the sockets of `transport/channel`: an inbox per
node, in order and without loss, and fairness.

**AckWait** is the goroutine of `waitForAck` with the pool, the receive loop
and `Stop`, one step per channel or lock operation. Channels are slots that
are reused when nobody refers to them. Several broadcasts are independent but
for the lock and the receive loop; the runs have one.

**DataSharing** is the downloads of one file by one node. A download needs one
hash after another, the metafile's first; for each it looks at its blob store,
asks a random peer of `Catalog`, registers a channel under the id of the request
after it was sent, and waits for a reply or a timeout, after which it asks again
or gives up and leaves its channel behind. The receive loop looks a channel up
(`ExecDataReplyMessage`), and puts the reply into it later (`PassMsgToWaiter`),
where it waits while the channel, of capacity 1, is full. Peers either have the
file or upload it meanwhile, chunks first, and answer that they lack what they do
not have yet. The value stored under hash `k` is `k`: that `Upload` stores each
piece under its hash is the code's use of SHA-256, and collisions are left out.
`Catalog` grows only by the user's calls, as it does unless one searches.

**Search** is the searches of one node. `Share` is `divideBudget`, `Forwards` the
sets of requests `forwardSearchRequest` may send, which chooses a neighbour for
each share anew. An answer goes to the node the request came from, which relays
it (`Relay`): nodes are at most one relay away from the origin when every node is
another's neighbour, as in the run. The origin takes part in its own search when
a request comes back. The goroutines that collect names (`collectors`) register
their channel, take answers, and when told close the channel before they delete
it from the pool, each of which is a step, as is the sending on it. Nodes' files
and blobs do not change during a search; requests and answers are sets, for a
node answers a request id once.

**Registry** is `ProcessPacket`: the look-up of the handler under a read lock,
which is kept when there is none; the handler; the goroutine of `ExecAll`, which
calls the notification handlers under their own mutex; the wait for it, with a
timeout. A notification handler is a page connected to `/registry/pktnotify`:
pages connect, break and reconnect, and the handler goroutine of a connection
(`Forward`, `Break`, `Ended`) competes with `ExecAll` for its channel. A type's
handler may be registered while packets are processed (`AskForLock`,
`RegisterMessageCallback`): as in Go, a waiting writer holds back new readers.

**PacketFeed** is what the registry promises to the pages: a packet is published
once, in one step, to all connections there are then (`Publish`); a connection
that is made later has missed it (`Join`); each takes its packets in order
(`Take`). In `Registry` handing out a packet is as many steps as there are
connections, and others go on in between.

**Stimulus** is the library that binds the page. The document is a finite forest
(`parent`): the tree below its root, and what has been taken out of it or was not
put in yet. It and the attributes are changed by anybody, a mutation observer hears of it through
records, and these are handled in a microtask, one at a time, on the tree as it
is then. The observer of scopes counts references and makes contexts
(`Rescope`), and each context has an observer of its own for actions. An
observer also hears of what happens below a node that was removed since the
last delivery (`transient`), as the DOM prescribes; the DOM is external to the
code. Events and targets are operators (`Invoked`, `Targets`) on that state.

**WebInterface** is the controllers of `main.js`. Each slot holds a call: a
method that ran up to its `await`. `Serve` answers its request, then the rest of
the method runs. The node (`node`) holds a routing table, a catalog and the
messages it took; it answers with what it holds, or refuses the request, or does
what is asked while its answer is lost. The inputs of a form are one value
(`form`), which the user goes on changing (`TypeOn`); a method keeps what it read
(`Sent`). A panel is the sequence of answers it shows: `Cleared` empties it and
`Filled` adds one, in the steps in which the code does. `told` is the message of
the last step, `chat` and `saved` are what the page shows as sent and what it gave
the user to save. `deleteEntry` is `setEntry` without a relay. `Initialize` is the
page's loading: controllers come in the order of the document, and look one
another up in their `initialize`.

**Topologies**, **MCGossip**, **MCGossipOverChannels**, **MCDataSharing**,
**MCSearch**, **MCStimulus** and **MCWebInterface** give the constants their
values for TLC; `AckWait` and `Registry` take theirs from the configuration.
**GossipProofs**, **GossipRefinement**, **AckWaitProofs**,
**DataSharingProofs**, **SearchProofs**, **RegistryProofs**, **StimulusProofs**
and **WebInterfaceProofs** hold the theorems. Operators whose comment begins
with "Mutant of" are variants of the code with a plausible bug; no specification
uses them, they show that the properties would notice.

## The runs

| run | instance | shows |
|---|---|---|
| `gossip_order` | line a - b - c, a broadcasts twice, two payloads; loss, duplication, acks, anti-entropy | types, `StatusMatchesLog`, `LogsAgree`, `ProcessedInOrder`, `OwnProcessedOnce`, `LogsOnlyGrow`, and that `Gossip` implements `ReliableBroadcast` |
| `gossip_routes` | c joins a - b, a and c broadcast once, a is given c by `AddPeer` and b's route to c is removed or set by hand at any moment; loss and duplication | `RumorsGenuine`, `StatusHonest` (packets are forwarded by third nodes here), `RoutesConsistent` |
| `gossip_delivery` | line over channels, b broadcasts once | `EventuallyDelivered` |
| `ack_wait` | one broadcast, up to 4 acks of its first transmission, `Stop` at any moment | `PoolTracksGoroutines`, `EndsOnlyIfAcked`, `SendsHaveRoom`, `LoopNeverStuck`, `StopEnds` |
| `sharing` | two downloads of a file of one chunk; q has it, p is uploading it; one resend, two messages under way | `DownloadIsTheFile`, `PoolTracksDownloads`, `LoopWaitsForWaiter`, `DownloadsEnd`, `LoopGoesOn` |
| `search` | a triangle, one call: `SearchAll` with budget 7, or `SearchFirst` in two rounds with budgets 1 and 2 | `BudgetKept`, `CatalogHonest`, `FirstIsFull`, `SearchesEnd` |
| `registry` | a receive loop, two pages, channels of capacity 1, two packets, two connections; one type gets its handler late | `FeedsAgree`, `PageShowsOnce`, `CallsEnd`, `NotificationsEnd`, and that `Registry` implements `PacketFeed` |
| `stimulus` | two controllers, the second maybe inside the first, a button in either; two identifiers, two modules, two records per observer | `ScopesMatchDocument`, `BindingsMatchDocument`, `ReferencesCounted`, `ContextsOfScopes`, `ClickReachesClosest`, `TargetsFoundOnce` |
| `web` | a call of the user that changes neither table nor catalog, and an update of the routing that overlaps it; the user types on | `ShownAsSent`, `PanelsHoldOneAnswer`, `EveryRequestAnswered` |
| `web_changes` | a change of the table or catalog, or an update, and a deletion that overlaps it | `ChangesAreShown` |
| `gossip_race`, `ack_stop` | each the smallest instance | the disagreements below |

### Bounds

* Gossip. Two rumors of one origin are the fewest that can be swapped or leave a
  gap, and three nodes the fewest in which a rumor is relayed, comes back or
  takes two ways. `MaxSeq` bounds broadcasts, `MaxInFlight` what is sent unasked
  (by broadcasts, timers and tickers, never the answers to what was received),
  and the constraint `NetBound` keeps two packets in flight: one to be overtaken
  and one that overtakes it; what a packet was before it is lost or duplicated
  makes older ones come late. `gossip_delivery` has no constraint, so that
  liveness is checked on whole behaviours. `gossip_routes` waits for no acks:
  `gossip_order` has the retransmissions, and `RumorsGenuine` is proved with them.
* `ack_wait` allows 4 acks of one packet: with the token of `Stop` they fill the
  channel of capacity 5 exactly. With 5 acks, which takes four duplicates of one
  packet, `Stop` can be blocked for good while it holds the pool's lock.
* `sharing`. Two downloads overlap in one store and in `Catalog`; one chunk has
  the metafile before it, so a hash that follows another is there. With one
  resend two replies to one request id come, which is what fills a channel after
  a download gave up. What is sent when `MaxUnderWay` messages are under way is
  lost, which the network may do anyway.
* `search`. A triangle is the smallest graph where a request meets a node twice
  and comes back. Budget 7 is the least that brings one back there: a
  neighbour gets 4, spends 1 and gives 2 to a share, of which the third node
  keeps 1 to send on. Nobody has all of the file f, two nodes have it together, so a match that is not one node's
  would be seen. Two rounds make the answers of the first come in the second.
* `registry`. Capacity 1 stands for 100: a channel is full as soon as its page
  is slow. Two packets can come in two orders, and two connections are either of
  two pages or of one that reconnects.
* `stimulus`. Nested controllers of the same or another name, a token that is
  twice in an attribute, and an element that is out of the document for a while
  all happen. Two records per observer let the second be about what changed before
  the first is handled. An element has few values of an attribute, and moves only
  where no cycle can come of it.
* `web`, `web_changes`. Two calls overlap. In `web` the other is an update of the
  routing, which is told and shown like what any of them starts, and whose graph is
  rendered while others go on. In `web_changes` both slots come to hold updates,
  of one panel and of different ones, for a change starts one; a deletion lets a
  change be undone before it is shown. One content of a form besides the empty one
  is enough, for the user can type it and delete it again, and what the node holds
  is with or without it. Of methods that do the same one is taken (`addPeer` for
  `setEntry`, `sendChat` for `sendPrivate`, `searchAll` for `searchFirst`).

### Fairness

`GossipOverChannels` assumes that a receive loop goes on while it has packets
(goroutines are scheduled), that a call of `Broadcast` ends, and that the
anti-entropy ticker sends to each of the neighbours a node started with again
and again: it never stops and chooses at random. A tick needs room in the
bounded network, so it is strong fairness; the code's ticker needs none. Nobody
has to broadcast, and no timeout has to happen.

Elsewhere a goroutine that can go on does (weak fairness per goroutine), and the
timer of a `select` fires or a sleeping call wakes if nothing else happens. In
`AckWait` acks of retransmissions arrive. In `DataSharing` and `Search` the
network owes nothing: requests and replies may stay under way for ever or be
lost. In `Registry` a connection writes what it finds in its channel, handlers
end, and nobody has to send, connect or leave. In `WebInterface` a fetch settles
in one way or another, and nobody has to click or to type. `Stimulus` has no
liveness: its properties hold whenever no record is pending. The platform delivers
records before another event or timer is served; what the controllers' own
`initialize`, `connect` and `disconnect` do during the delivery (`stimulus.js:1132`,
`:1141`, `:1148`) is taken to leave elements and attributes alone, as this page's
does: they set a text, or begin requests.

`AckWait`, `DataSharing`, `Search` and `Registry` do not check deadlock: their
systems come to rest when all calls have ended and nothing is under way.

### What the code does otherwise than it says

Two disagreements have a run:

* `gossip_race`: `ExecRumor` looks at the neighbours and sets the route in two
  steps. `AddPeer` for the rumor's origin between the two is undone: the new
  peer is routed to through another node from then on (`handlers.go:88-90`;
  `mod.go:215` calls a peer one to relay to directly).
* `ack_stop`: `Stop`'s token is lost when the goroutine is just replacing its
  channel, and the goroutine goes on sending after `Stop` (`chanPool.go:51`).

The others are seen in the models or where they meet the code:

* `AddPeer` with the node's own address makes it its own neighbour
  (`mod.go:222`); `peer/messaging.go:24` and `:30` exclude both.
* A retransmission gets a new packet id, and `waitForAck` waits for the first
  one: no ack of a retransmission ends it (`broadcast.go:80`).
* `Stop` may send on a channel that is closed and not yet deleted; the panic
  ends the program (`chanPool.go:52`, `broadcast.go:70`).
* A reply that comes when a download gave up finds its channel in the pool for
  ever; the second one blocks the receive loop (`dataSharing.go:351`).
  `LoopGoesOn` and `LoopWaitsForWaiter` except this case and
  `PoolTracksDownloads` records the channel: no property asks that it be gone.
* `nbrsSent` is never filled where a request is forwarded (`handlers.go:372`) nor
  in `SearchFirst` (`searchFirst.go:70`), so one neighbour may get two shares of
  the budget, of which it drops one, and another none; the comments
  (`handlers.go:378`, `searchFirst.go:78`) say that each goes to a neighbour "that
  we have not sent request to". `Search` has it as the code does; `BudgetKept`
  bounds what is spent from above and allows a share to be wasted.
* The origin of a search handles its own request when it comes back, answers
  itself, and is in its own catalog then for what it stores (`dataSharing.go:383`;
  `peer/datasharing.go:84` says it must not be). `CatalogHonest` allows it, for
  what the catalog says is true.
* `ExpandingRing.Retry` is the number of tries, the first included
  (`searchFirst.go`).
* A packet without handler, as the heartbeat's empty message, leaves the
  registry's read lock held; registering a handler after that waits for ever, and
  every packet with it (`registry/standard/mod.go:54`). `CallsEnd` names it.
* The notification of a page that has gone stays registered; once its channel is
  full, `ExecAll` waits for it with its lock held: every later packet costs
  `ProcessPacket` its timeout and is shown on no page
  (`gui/httpnode/controller/registry.go:91`). `NotificationsEnd` names it.
* `startHeartbeat` stores its quit channel where anti-entropy's is
  (`mechanisms.go:49`): `Stop` ends one of them.
* `resolve` asks the node although an input is empty (`main.js:786`).
* How far the reading of a file to upload got is printed as a success, before
  anything is sent (`main.js:641`), and a file that cannot be read is not reported
  at all. So a message of success does not mean that the node did anything.
* An entry added to the catalog is not reported: only the update that follows is
  (`main.js:590-591`). `EveryRequestAnswered` takes that for the answer.
* The panel of a search goes on saying that it is searching when the search has
  failed, and the names found before are gone by then (`main.js:717`, `:761`).
  `PanelsHoldOneAnswer` allows both.
* Of two updates that overlap, the one answered first may be rendered last: the
  graph shows an older table until the next update (`main.js:298-300`).
  `ChangesAreShown` asks that a change comes to show, not that it stays.

## The proofs

TLAPS checks the following for every value of the constants that satisfies the
named assumptions in the modules: types of the constants, finite neighbours, a
file with at least a chunk, a finite document, special values that are no real
ones. A theorem that needs more says so itself (`RoomForTokens`).
Every safety property that a passing run checks has its theorem; the types of the
other modules, and `WaitsForOwn`, are proved and not checked by a run.

**GossipProofs** and **GossipRefinement**: `Spec` implies always `TypeOK`,
`StatusMatchesLog`, `LogsAgree`, `RumorsGenuine`, `WaitsForOwn`, `StatusHonest`
(`TypeCorrect`, `StatusCorrect`, `Agreement`, `Genuineness`, `WaitsOnlyForOwn`,
`StatusesHonest`), `ProcessedInOrder`, `OwnProcessedOnce` (`InOrderOnce`,
`OwnOnce`), that logs are only appended to (`LogsAppendOnly`), that it implements
`ReliableBroadcast` (`Implementation`), and always `RoutesConsistent`
(`RoutesStay`). Every step of `GossipOverChannels` is
one of `Gossip`, so it implements `ReliableBroadcast` as well (`OverChannels`).

That logs agree is not inductive alone: a node appends what a packet holds, so
packets must hold genuine rumors; these come from slices of logs, so statuses
must be the lengths of logs without gaps, and from `waitForAck`, so a goroutine
must wait for a rumor that exists. The inductive invariant `IInv` is the
conjunction of these with the types. Steps that leave the logs alone share one
lemma (`QuietStep`), the two that make one longer share another (`GrowthStep`).
On top of `IInv`, `DeliveryInv` relates `delivered` to the logs, and gives each
step of `Gossip` its step of `ReliableBroadcast`: `Broadcast` is `Broadcast`,
`ProcessLocally` is `DeliverOwn`, `ExecRumor` is `Deliver` or nothing, and all
others change nothing. `RouteInv` adds to `RoutesConsistent` that neighbours are
routed to, unless a user may take the route away, and that a route about to be
learnt is another node's, to a node that was no peer at the start, though it may
have become a neighbour since.

**AckWaitProofs**: always `TypeOK`, `PoolTracksGoroutines`, `EndsOnlyIfAcked`
(`TypeCorrect`, `PoolExact`, `EndsWhenAcked`). The invariant adds that tokens in
channels come from acks or from `Stop`, that what the receive loop or `Stop` is
about to send on is a channel, and that those whom `Stop` has yet to serve are
in the pool. If no transmission is acked more than four times, always
`SendsHaveRoom` (`RoomForTokens`), which is what keeps the receive loop and
`Stop` from blocking. For it `TokensCounted` adds up, for each channel, the
tokens in it, the acks that may still come, the one the receive loop is about to
pass on and the one `Stop` has put: nobody but these puts any.

**DataSharingProofs**: always `TypeOK`, `DownloadIsTheFile`,
`PoolTracksDownloads` (`TypeCorrect`, `Reconstruction`, `PoolAccounted`), for
files of any length. A reply is not checked against its hash by the code, so the
proof has to follow each from the request that asked for it to its use
(`RepliesGenuine`): its id determines the place in the file. `Progress` says that
what a download has is a prefix of the file and is saved. Always
`LoopWaitsForWaiter` (`LoopHasAWaiter`): a channel is open only while the
download that opened it waits there or has given up (`OpenIsWaitedFor`).

**SearchProofs**: always `TypeOK`, `CatalogHonest`, `FirstIsFull`, `BudgetKept`
(`TypeCorrect`, `CatalogRight`, `FirstMatches`, `BudgetBounds`). Answers under
way tell only of files whose metafile the source has (`AnswersHonest`), and names
that were collected are of files some node has in full (`NamesFull`). The budget
is counted in units: a request under way with budget b is b of them, and those
under way with a request id, together with the nodes that have handled one, are
never more than that round was given (`AllCounted`). A node pays one unit for
itself and deals out what is left among its neighbours, for which the shares have
to fit (`Dealt`); and an id that was not asked for yet is on no message
(`IdsFresh`).

**RegistryProofs**: always `TypeOK`, `FeedsAgree`, `PageShowsOnce`
(`TypeCorrect`, `SameFeeds`, `ShownOnce`). The lock says which packet is handed
out (`LockHeld`), connections have what was handed out by their turn
(`HandedOut`), and a page that connects again does so when all that its former
connections can still show is done (`ShownBefore`): it is this that keeps a packet
from being shown twice. `Registry` implements `PacketFeed` (`FeedImplemented`):
the packet whose goroutine holds the lock counts as given to every connection,
also to those whose turn has not come, so that `TakeLock` is `Publish`,
`RegisterNotify` is `Join`, `Forward` is `Take`, and everything else, the steps
that hand the packet out included, changes nothing.

**StimulusProofs**: always `ContextsOfScopes`, `ReferencesCounted`,
`ScopesMatchDocument`, `BindingsMatchDocument`, `TargetsFoundOnce` and
`ClickReachesClosest` (`ContextsExact`, `References`, `ScopesFollow`,
`BindingsFollow`, `TargetsFound`, `ClicksReach`), and that the state keeps its
type (`TypeCorrect`), for any finite document, any changes to it and any order in
which the contexts' observers are served, that of the scopes being first.

* The tree. `Above` is a recursive function of the height; that it gives the
  ancestors, and how these change when an element is put in or taken out, is
  proved by induction on the height.
* The counts. An observer compares the old and the new tokens of an attribute
  from their first difference on; that the references follow is proved of the
  occurrences of a token in the common part and in the rest.
* What an observer knows. Until all records are handed over, an observer differs
  from the document. The invariant (`Watch`) says that it has a record of each
  difference: of each value that has changed (`Stale`), of what has left
  (`Gone`), of what it has not seen (`Missing`) and of what left and came back
  (`Returned`). An observer of a context of which the removal is pending
  (`Doomed`) may know less, for it will be gone first: the observer of the
  scopes is the oldest and is served before all others.
* With no record pending, the observers have seen what the document says; the
  theorems about scopes and bindings follow, and from these those about clicks
  and targets.

**WebInterfaceProofs**: always `TypeOK` and `ShownAsSent`, and that no step breaks
`PanelsHoldOneAnswer` (`TypeCorrect`, `ShownTrue`, `PanelsKept`), for any number of
calls and any choice of which overlap. A message is shown, and a file saved,
two steps after the user asked for it: the invariant adds what a call carries in
between (`Right`). What a method checked it carries; what the node answered well to
is among the messages it took, or is the file asked for; and the node never
forgets a message. Then each method is one lemma, which says that its step keeps
this and the panels.

Only model-checked is liveness under fairness, which is out of the prover's reach:
`EventuallyDelivered`, `LoopNeverStuck`, `StopEnds`, `DownloadsEnd`, `LoopGoesOn`,
`SearchesEnd`, `CallsEnd`, `NotificationsEnd`, `EveryRequestAnswered`,
`ChangesAreShown`. The
induction theorems of the library, which take the induction hypothesis as an
operator, cannot be instantiated here; where the proofs need induction (heights,
budgets) they take the least element of a set of numbers instead (`LeastOf`,
`Induction`).

## Not modelled

* `transport/proxy` relays the calls of a socket to another process and adds no
  behaviour of its own. Sockets that are closed, their deadlines and read errors,
  and the inbox limit of 100 packets in `transport/channel` are left out: a full
  inbox blocks its sender, for which no bound that TLC can reach is the code's.
* The quit channels of anti-entropy and heartbeat in `Start` and `Stop`; what is
  known of them is among the disagreements above. Nothing is read back from disk
  when a node starts, so a restart is a new node at an old address; the tests do
  not restart nodes and the protocols have no step for it.
* Storage in files is one file per key and no step more than the maps in memory.
* Concurrent searches of several nodes, and stores that change during one: a node
  handles requests of different origins independently but for its naming store
  and catalog, which only grow. `Tag` and `Resolve` are one access to a store.
* In the bindings, `Application.stop`, values and classes (the page uses
  neither), names and options of events, targets on `window`, events that a script
  dispatches while records are pending. In the page, the address `PeerInfo` fetches
  when it loads, the texts of messages and results (`uploadResult`, `resolve`),
  panels that collapse.
* `viz.js` and `viz.lite.render.js` are a third-party library and its generated
  code; the page knows a promise of them. Helpers of the tests, polypus (a
  separate tool) and the consensus types (no peer code handles them) are not
  part of the system's behaviour.
