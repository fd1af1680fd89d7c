# A TLA+ development of cyclon.p2p

cyclon.p2p is an implementation of the Cyclon peer sampling protocol in
TypeScript and JavaScript. Every node keeps a small cache of pointers to other
nodes; from time to time it picks the oldest, and the two exchange some of their
pointers. In browsers the exchange goes over a WebRTC data channel that the two
nodes negotiate through signalling servers.

This directory has TLA+ modules for those parts of it that have state and
concurrency, TLC configurations that check them on small instances, and theorems
about them checked by TLAPS. Paths below are relative to the repository.

## The system

| Part | Source | State | Operations | Modules |
|---|---|---|---|---|
| Cyclon node | `cyclon.p2p/src/CyclonNodeImpl.ts` | neighbour cache, shuffle timer, `started`, last shuffle's node and array | `start`, `executeShuffle` and its continuations, `handleShuffleRequest`, `handleShuffleResponse`, bootstrap | `CyclonNode`, `NodeLifecycle`, `CyclonNodeProofs` |
| Neighbour cache | `NeighbourSet.ts`, `incorporateSet`, `cyclon.p2p-common/src/index.ts` | map from id to pointer | insert, remove, age, merge, oldest, sample, incorporate | `NeighbourSet`, `Sampling`, `NeighbourSetProofs` |
| Local simulation | `LocalComms.ts`, `LocalBootstrap.ts`, `LocalSimulation.ts` | the caches of all nodes, the in-degrees counted from them | a tick of any node | `LocalOverlay`, `LocalOverlayProofs` |
| Signalling server | `cyclon.p2p-rtc-server/lib` | registrations, rooms, sessions | `register`, `join`, `disconnect`, lookups | `SignallingServer`, `SignallingServerProofs` |
| Client's sockets | `RedundantSignallingSocket.ts`, `SignallingServerSelector.ts` | sockets, disconnect times, connectivity timer, stored servers | connect, register, check, fail, unload, reload | `SignallingSocket`; with the registrations at the servers and posting peers, `Reachability`; `ReachabilityProofs` for both |
| Shuffle over WebRTC | `RTC.ts`, `Channel.ts`, `SocketIOSignallingService.ts`, `WebRTCComms.ts`, `OutgoingShuffleState.ts`, `IncomingShuffleState.ts` | correlation ids, buffered answers, the progress of each channel at both ends | offer, answer, open, request, response, acknowledgement, time limits, close | `ShuffleExchange`, `Comms`, `ShuffleExchangeProofs` |
| ICE candidates | `PeerConnection.ts`, `IceCandidateBatchingSignallingService.ts`, `Channel.ts` | gathered, queued, buffered and cached candidates, delivery timers | gather, batch, post, buffer, cache, add, close | `IceCandidates`, `IceCandidatesProofs` |
| Bootstrap from servers | `SignallingServerBootstrap.ts`, `PromiseTools.ts`, the pointers of `SocketIOSignallingService.ts` | the requests under way, the answers; each node's pointer counter, in memory and stored | create a pointer, register, unregister, reload; ask all servers, answer or fail, merge | `ServerBootstrap`, `Bootstrap`, `ServerBootstrapProofs`; its outcome also in `CyclonNode` |
| HTTP front end of the server | `peerApi.js`, `PeerNotifier.js`, `corsHeaders.js`, `server.js` | none | the delivery of a message with 201 or 404, the sample of a room; argument checks, headers | the first two in `Reachability`, `ShuffleExchange`, `ServerBootstrap` |
| Builders, factories, defaults | `Builder.ts`, `Defaults.ts`, `ShuffleStateFactory.ts` | none | wiring | not modelled |
| Random choices | `randomSample` and `shuffleArray` of `cyclon.p2p-common/src/index.ts` | none | | `Sampling`, `NeighbourSetProofs` |
| Storage, timers, ids, logging | rest of `cyclon.p2p-common` | maps | | not modelled: thin wrappers |
| Services of the web demo | `OverlayService.js`, `RankingService.js`, `ClientInfoService.js`, `ShuffleStatsService.js` | the saved cache, the nodes witnessed, the shuffle statistics | listeners of the cache's changes and of the shuffles' events, pruning, reload | `DemoPage` (theorems in `CyclonNodeProofs`), `ShuffleStats` (in `ShuffleExchangeProofs`) |
| Demo's user interface, example, load test | rest of `cyclon.p2p-webrtc-demo`, `cyclon.p2p-vanillajs-example`, `rtc-client/loadtest` | | | not modelled: presentation and drivers |

How they interact:

- `CyclonNodeImpl` calls its `Comms` (`sendShuffleRequest`, a promise) and its
  `Bootstrap` (`getInitialPeerSet`, a promise). The `Comms` calls back
  `handleShuffleRequest` and `handleShuffleResponse`. The array of pointers
  handed to the `Comms` remains shared with the node.
- `WebRTCComms` opens a `Channel` through `RTC`, which goes through
  `SocketIOSignallingService`: offers, answers and candidates are *posted* over
  HTTP to a server of the destination and *received* over the node's own sockets.
- `NeighbourSet` emits `change` from within its operations, and the node emits the
  start and the end of its shuffles; the demo's services listen to both.
- `RedundantSignallingSocket` keeps those sockets. Each server keeps who is
  registered on which socket and who is in which room, and gives the bootstrap a
  sample of a room.

Everything runs in JavaScript's event loop: one callback at a time to completion.
What is concurrent is everything between a call and its continuation. Each module
therefore has one action per callback, from the end of one `await` to the next,
and its `Next` lets them run in any order the code allows.

## What can go wrong, and the properties that say it does not

`PROJECT.json` lists the hazards line by line. In short:

- *Node.* Several outgoing shuffles overlap (the interval does not wait for the
  last one), requests are served in between, and all of them change one cache.
  The node's state refers only to the *last* shuffle. The timer is stopped for a
  bootstrap and started when it ends. The array used to choose evictions is also
  the one sent.
- *Overlay.* A shuffle moves pointers: nodes can become unknown to all. The array a response
  evicts from has one entry that evicts nothing.
- *Server.* A client is back on a new socket before the old one's `disconnect` is
  seen, so that two sessions of one id act on the same registration and rooms.
- *Client's sockets.* Errors, timers, unloads and reloads come in any order, while
  one timer and a bounded number of sockets must be kept.
- *Shuffle.* Messages are lost and reordered, an answer overtakes the reply of the
  server, a request comes before it is received, posts hang, channels break at one
  end first, time limits race late messages, pages are reloaded.
- *Candidates.* They are queued, batched, buffered and cached in four places
  while others keep coming, and are named by ids that can collide.
- *Bootstrap.* Servers hold pointers of different ages to one peer, answer in any order or
  fail, and know the node that asks. Which pointer is the newest depends on a counter that
  must survive the reload of a page.
- *Reachability.* A client's sockets, its registrations at the servers and the servers its
  pointers name are three views of one thing, brought into line by messages that are late.
- *Demo.* The cache is saved by a listener and loaded by the next page; the ranking and the
  statistics keep copies and counts that only events bring up to date.

## The modules

**`NeighbourSet`** has the cache as a function from ids to pointers and
`incorporateSet` as a recursive function over what was received. The order of a
JavaScript `Map` only breaks ties and lays out samples, so both are
nondeterministic. Metadata is never inspected and left out.

**`Sampling`** has the two functions that draw random numbers, `randomSample` and
`shuffleArray`, turn by turn, with the draws as an argument. The other modules do not draw:
they let any sample come out (`Samples`), or any order. That these are exactly the results of
the loops is proved, and TLC evaluates it for sets of up to four (`RandomChoices`, an
assumption of `MCCyclonNode` that a run checks first).

**`CyclonNode`** is one node among peers and a bootstrap that do whatever their
interfaces allow: any list of at most `ShuffleSize` distinct pointers may come as a
request or a response, at any time. A shuffle is *opening* (its array can still
be changed by the response to an older one), *sent*, or *answered*;
`lastShuffle` refers to one, as `lastShuffleNodeId` and `lastShuffleSet` do.
`Settle` is the continuation of `executeShuffle` with its `finally`; `Hang` is a
promise that never settles.
**`NodeLifecycle`** is the abstract specification of a node's activity (idle,
shuffling, bootstrapping, stalled); `CyclonNode` implements it under the
refinement mapping `Status`.

**`LocalOverlay`** composes the nodes of the local simulation out of the same
`NeighbourSet` operators; a whole shuffle is one step because `LocalComms` is
synchronous. Ages are left out: `LocalComms` passes pointers by reference, so that
nodes age each other's entries, and any neighbour may be the oldest.

**`DemoPage`** extends the node with the listeners of its page. They run inside
`insert`, `remove` and `mergeNodePointerIfNewer`, so that each step of the node is taken
with what its events make of the saved cache and of the ranking. What is announced is not
the difference of two caches: a pointer that is evicted and inserted again in one request is
announced. `JSON.stringify` of a `Map` is modelled by what it does (`Stringify`). The
ranking's hour is left open: any node witnessed may be old enough to be pruned. A reload
begins a new node with what was saved.

**`SignallingServer`** has the handlers of `SessionEventHandler` with
`RegistrationManager` and `RoomManager`, and clients that connect, register, join,
register again and break off. The history variable
`overlapped` has the clients that have been back before their old socket's `disconnect` was
handled, so that properties can speak of the others. An exception nobody catches ends the
process (`up`).

**`SignallingSocket`** has a client's sockets, the selector, the connectivity
interval and the session storage. Time is the order of the disconnections and the
set of those too recent to retry.

**`Reachability`** composes it with what the servers know of the client and with peers that
post to it. Each socket's session is at its server with a `register` on its way or not; a
session cut off lingers there until its `disconnect` is handled, possibly after the next has
registered. `Outcomes` are the ways a message ends that is posted with the client's newest
pointer, in any order of its servers.

**`ShuffleExchange`** has the shuffles one node sends and the nodes that serve
them, from `openChannel` to the acknowledgement. Whether a wait with a time limit
ends in time is nondeterministic. The data channel is external: it opens
between an offer and the answer to that very offer, and breaks at one end before
the other. `trouble` records that something was lost, refused or timed out, so
that properties can speak of the runs in which nothing was.
**`Comms`** is what a node relies on when a `Comms` carries its shuffles: the promise of
`sendShuffleRequest` resolves only after the response has been handled, that only after the
destination has handled the request, each once; a shuffle that is answered is not rejected;
and the destination reports the end once, as a failure only if it has not handled the
request. `ShuffleExchange` implements it with the phases of a shuffle mapped by `Progress`,
the shuffles served to those whose request has been handled and the reports to `outcomes`.

**`ShuffleStats`** adds what the pages at both ends count. It takes the steps of
`ShuffleExchange` with the events they emit; the windows of the last hour are numbers of
events, since no shuffle of a behaviour is that old.

**`IceCandidates`** has the candidates one node sends to another for the channels
between them, some offered by the one and some by the other, since the two
directions of offers share the names of the events. A channel's two directions of
candidates do not interact, so one is enough. `held` is the receiver's
`BufferingEventEmitter`: a batch nobody listens for is appended, and when all places are
taken the oldest expires (`Buffered`, `Expired`). The code has one such buffer for the
offers and candidates of all peers (answers have one of their own, which `ShuffleExchange`
has), so that what comes from others can make these expire too, at any time
(`OthersExpire`). A channel can be closed in any state: among others when its answer is
refused, while it listens and has no remote description.

**`ServerBootstrap`** has the servers' pointers, the counters they are numbered from, and a
node that asks several servers at once and merges what they answer. Pointers by id, as the
servers and `deDuplicatePeerList` keep them, are functions from ids to sequence numbers;
merging folds the answers in the order of the requests, not of their arrival. A request
that fails is an answer with nothing in it, which is what `allSettled` and
`collateSuccessfulResults` make of it. One room is sampled and all are in it.
**`Bootstrap`** is what a node relies on: it hears of pointers, and the promise resolves
with as many of the peers heard of as were asked for, not the node itself, and the newest
pointer to each. `ServerBootstrap` implements it with `heard` mapped to the union of the
answers (`Heard`) and `peers` to the pointers in the result.

Operators whose comment begins with *Fault* are not used by the specifications: each
is a definition changed the way a bug would change it, and shows what the
properties are sensitive to (`PROJECT.json`, "mutants").

`MCCyclonNode` and `MCSignallingServer` add symmetry sets, the first also `RandomChoices`;
the other specifications are checked as they are.

## The runs

| Run | Instance | What it shows |
|---|---|---|
| `node_safety` | 5 peers, capacity 3, shuffles of 2 pointers, 2 shuffles outstanding, all ages equal | The cache never has the node itself, at most one interval or bootstrap is active, the last shuffle is unanswered, a reply names entries that stay, requests keep the capacity and responses exceed it by what they cannot evict at most, an engaged neighbour leaves; `NodeLifecycle` is implemented |
| `demo_page` | 2 peers, capacity 3, shuffles of 1 pointer, 2 shuffles, sequence numbers 0..1, `PageFairSpec` | While there is room nothing is lost, rejuvenated or replaced by an older pointer; the ranking is never behind the cache; the engaged neighbour leaves even if the `Comms` never settles |
| `overlay` | 4 nodes, capacity 2, `FairSpec` | The caches keep to their capacity, nodes nobody knows are known again |
| `signalling_server` | 2 clients, 1 room, 2 sockets, `FairSpec` | No ghosts in rooms, no message on a dead or foreign socket, a registration undone by a late disconnect comes back; clients that do not overlap stay in their rooms and registered, and nothing throws until one does |
| `signalling_socket` | `Reachability` with 4 servers (1 dead, 1 malformed), 2 preferred, 2 losses, 1 reload, `ReachSpec` | Never too many sockets, one timer, affinity across reloads, eventual connection; servers lose messages only while they have a disconnection to notice, and in the end every message gets through |
| `shuffle_exchange` | `ShuffleStats` with 2 shuffles, buffer of 1 answer, 1 reload, `StatsFairSpec` | Answers match offers, both ends agree on the outcome, what reaches the nodes is what `Comms` promises, neither end waits for the other with nothing left to do (and every guard that `CanAdvance` names is one the step can be taken with), no channel left open, and what the pages count adds up |
| `server_bootstrap` | 2 peers and the node that asks, 2 servers, 1 peer asked for, sequence numbers 0..1 | A node's next pointer is newer than all it gave before, across reloads; the merged answers are what `Bootstrap` promises |
| `ice_candidates` | 2 channels, 2 candidates, buffer of 1 batch, equal or different correlation ids, `FairSpec` | One timer per queue, each candidate in one place, all added once described, channels kept apart, all get through that are neither lost on the way nor expired from the buffer |
| `older_shuffle_ends_last` | 3 peers, capacity 2, 2 shuffles outstanding | *violation*: an older shuffle's `finally` deletes the state of the newer one |
| `bootstrap_stalls` | 3 peers, capacity 2, 2 shuffles outstanding, `FairSpec` | *violation*: a bootstrap that fails ends the node's shuffling for good |
| `leaving_gone_room` | as `signalling_server`, with symmetry | *violation*: two sessions of one client leave one room, the second throws and the process ends |
| `stored_cache` | as `demo_page` | *violation*: what is saved of the neighbour cache has no neighbours in it |

### Bounds

Every bound is a CONSTANT whose comment begins with "bound", or a guard named
there.

- Two outgoing shuffles make all that overlapping can do to a state that refers to
  one of them: the other is older, or was superseded. The same holds of the two
  `Sockets` of a client; for the safety properties the theorems cover any number.
- With capacity 3 and 5 peers the cache of `node_safety` is empty, partly filled, full and
  over-full. Its `MaxAge` is 0, so that all ages are equal: any
  neighbour may then be the oldest, and the run has every choice that ages would allow and more.
  Elsewhere ages saturate at `MaxAge` (equal ages are ties). `demo_page` has the
  sequence numbers that matter to merging; its cache has room for all who can be in it, which
  is the premise of what it shows. Its shuffles carry one pointer, as everything a page
  remembers multiplies the states; `NothingLostWithRoom` is proved for all sizes.
- Four nodes are the fewest for which the overlay has nodes unknown to one another
  on both sides of a shuffle.
- `MaxInbox` is the number of a client's messages on their way; 2 are enough for
  `register` and `join` to be separated by a disconnect.
- In `signalling_socket` one server of four never answers and one has a malformed
  address, so that the preferred number is just reached; two losses let a client come back to
  a server that still has its former session to end.
- `MaxBuffered` is 1 where the code has 50: with two shuffles, an answer is then
  buffered, found, and expired by another. So it is in `ice_candidates`, where two batches of
  two channels, or of one, are enough to overflow the buffer. (The safety properties have
  also been checked with 3 candidates and 2 places, where the order of the buffer shows.)
- With sequence numbers 0 and 1 two servers have different pointers to one peer, in either
  order; with a limit of 1 and two peers the merged answers are more than were asked for.
- Two candidates make a batch of two, two batches of one channel, of which the second
  comes while the first is being added, and one batch for each of two channels.

`CHECK_DEADLOCK FALSE` is given where the system really may come to rest: the server
after a crash, a client whose page is left unloading with the bounds used up, and
shuffles and candidates when all is done.

### Fairness

- `CyclonNode` (for `bootstrap_stalls`): the interval fires, the bootstrap's promise settles
  one way or the other, superseded shuffles settle or hang. Nothing is assumed of the last
  shuffle, as the `Comms` has waits without a time limit.
- `DemoPage`: the interval fires and superseded shuffles settle or hang.
- `LocalOverlay`: every interval fires for ever.
- `SignallingServer`: messages in an inbox arrive, disconnects are noticed (Socket.IO's
  heartbeat), clients register again periodically
  (`RedundantSignallingSocket.ts:79`). The last is strong fairness only because the
  bound `MaxInbox` can disable it.
- `Reachability`: the interval fires, connecting ends somehow, retry delays pass; servers
  handle the messages of open sockets and notice disconnections.
- `ShuffleExchange`, `ShuffleStats`: for each shuffle *some* step, good or bad, is taken as long as
  one is possible: requests are answered or hang, messages arrive unless lost, timers fire.
  No success is assumed.
- `IceCandidates`: timers fire, a posted batch arrives or is lost. Nothing is assumed of channels,
  nor that what is buffered expires.
- `ServerBootstrap`: none. One request that hangs keeps `allSettled` waiting for ever.

## What is proved

For every set of ids, servers, rooms, sockets and every size, from the named
assumptions on the constants only.

**Node** (`CyclonNodeProofs`, on lemmas of `NeighbourSetProofs`): `TypeOK`,
`NeverKnowsSelf`, `AtMostOneActivity`, `LastShuffleAwaitsResponse` and
`ReplyStaysInCache` are invariants. Their conjunction is inductive and none is by
itself: what a response does to the cache depends on the array of the shuffle that is
the last, whose type and phase are the concern of the others. From it follow the
action properties `CapacityKept`, `EngagedNeighbourLeaves` and
`NothingLostWithRoom`, and the refinement of `NodeLifecycle`: the
initial states map to its initial state, each step to a step of it or a stutter.

`CapacityKept` says how far the cache can go over its capacity: a request never takes it
there, nor further; a response does by `Unpaid` pointers at most, those for which the array
of the last shuffle names nothing that is still in the cache, less the neighbour engaged. It
needs `LastArrayFits` in the invariant: that array names no node twice, and not the
destination. The heart is `IncorporateCapacity`, where the loop is seen as two sets, the cache
and what the array still names. With some items left, three numbers stay within the limit
(`Bounded`): the capacity with the names that evict nothing, the union of the two sets, and
what the array does not name together with the items left. Every turn keeps them, whether it
evicts an entry, pops a name that is not there or fills a free place, so that the cache never
ends above the limit. Because induction over data with the
library's theorems is out of reach, `Incorporate` is unrolled by a finite-set argument
(`FiniteInduction`, `RunExists`) stated in the module. `NothingLostWithRoom` rests on
`IncorporateKeeps`: an entry stays, with its age, if no array names it or the cache ends
below its capacity, since a cache that has once been full in the loop remains so.

**Random choices** (`NeighbourSetProofs`): for every finite set, `randomSample` returns what
`Samples` allows, and nothing that `Samples` allows is out of its reach; `shuffleArray`
returns the same items in some order, and every order can come out. The second and the
fourth are what a model that chooses freely needs in order to have no behaviour the code has
not. Both loops are unrolled as above; for the last, each draw fetches the item that belongs
at the end of what is left.

**Overlay** (`LocalOverlayProofs`): `CachesBounded`. The array a response evicts from
begins with the sender itself, which is never in its own cache, so that one pointer may find
nothing to evict: by `ShuffleSetBounded` the limit of the loop is the capacity and one
more. The destination is not in that array, is therefore kept by the loop, and
its removal makes up for the entry.

**Server** (`SignallingServerProofs`): `TypeOK`, `NoGhosts` and
`MessagesReachTheirNode` hold however sessions overlap. The strengthening is
`SessionsFit` (the id of a session is its client's, and an unregistered session has
`register` first in its inbox) and `SocketsFit` (a registered socket belongs to a
session registered as that node). `NeverCrashes` holds until a client overlaps, `NobodyMissing` and
`PeersAreRegistered` for every client that has not, whatever the sessions of others do;
`SeqInv` adds that such a client has one session at most and that a registered session of it
is in the registrations.

**Page** (`CyclonNodeProofs`): `PageTypeOK`, `RankingNeverBehind` and, as for the node by
itself, `NothingLostWithRoom`. A page is not a node with something added, since a reload
begins the node again, so that the invariants of the node are proved of it anew, from
`SavedFits`: what was saved is a cache a node may be started with. `RankingNeverBehind` rests
on what a loop of `incorporateSet` announces (`IncorporateReplaces`, again by unrolling):
every entry of the cache that ends with another sequence number than it began with has been
announced with that number, even if it has been evicted and inserted again in between.

**Client's sockets** (`ReachabilityProofs`): `NeverTooMany`, `ChecksRun` and
`AffinityAcrossReload`. For the first two the strengthening is `IdleBeforeStart`: before
`connect()` there are no sockets that could fail and start the checks first. For the third
it is `StoredFits` and `FreshBeforeStart`: the storage names no malformed server and no more
than are preferred, and exactly those there are sockets to while the checks run; a page that
has not called `connect()` remembers no disconnection. With these the stored servers are the
only ones with the least sort value, and there is room for all of them.

**Reachability** (`ReachabilityProofs`): the composition implements `SignallingSocket`
(`ClientIsUnchanged`), so that what is proved of the client holds in it; and
`LostOnlyUnnoticed`, with `SessionsAreConnected` (a session lasts as long as its socket) and
`CurrentHasRegistered` (a registration of the current session means that its `register` has
been handled, so that cutting it off leaves a session whose end will unregister it). The types of
both modules are proved as well (`SocketTypes`, `ReachabilityTypes`): `disconnected` keeps one
place for each server, in the order of the disconnections, when one of them is moved to the
end; and exactly the sockets that are connected have a session.

**Shuffle** (`ShuffleExchangeProofs`): `TypeOK`, which bounds the buffer of answers,
`AnswersMatch`, `OneOutcome` (the end of a shuffle is reported once) and `Agreement`, for any
number of shuffles and any buffer. The
strengthening is `OfferedOnce` (a destination hears of a shuffle once, after a server has
taken its offer), `RequestFirst` (the destination only waits for the acknowledgement once it
has handled the request, and every response is its own) and `Correlated`: offered shuffles
and buffered answers have correlation ids, and on the first page these are distinct and below
the counter. Without `OwnIds` an answer found in the buffer could be another's; after a
reload it can, which is why `AnswersMatch` and `OwnIds` end there.

The refinement of `Comms` (`ShufflesKeepToComms`) follows action by action. It needs two
facts more (`RequestIsSent`): a request that is in the channel, or has come before it was
received, is one that the sender has sent, so that nothing is handled of a shuffle that is
still being opened; and a destination that waits for the acknowledgement has handled the
request, so that what it reports is a completion.

`NeitherEndIsStuck` is the first half of `NoStandstill`, `AlwaysANextStep`: the guards of
one handler hold for every shuffle that has met with no trouble and has not succeeded at both ends.
Its invariant `RunsSmoothly` says how far the two ends can be from each other: before the
channel opens (`Opening`: an answer is on its way, buffered or applied whenever the sender
waits for one) and after (`Talking`: which message is in the channel, for each pair of
positions). An answer of another shuffle only disturbs one by making its own expire, which
is trouble. That what the guards promise can be done, which takes ENABLED, is the
other half and is checked by the run.

**Statistics** (`ShuffleExchangeProofs`): the shuffles that pages count are those of
`ShuffleExchange` (`CountedShufflesAreShuffles`), so that the theorems above hold of them;
and `StatsAddUp`. The invariant relates each counter to the cardinality of a set of
shuffles (`OutgoingCounted`, `IncomingCounted`); the last conjunct of `StatsAddUp`, which
compares the two ends, follows by `Agreement`: who has succeeded has been handled
(`Acknowledged`), and is being served still or has been counted as completed.

**Candidates** (`IceCandidatesProofs`): `TimerPerQueue`, `AddedWhenDescribed` and
`CandidatesStayApart`, for any channels, offers and correlation ids. The strengthening
is `UnderTheirId`: in every queue, batch, buffer and cache, candidates are under the
correlation id of their own channel. The invariant needs no assumption on which ids
channels share, so that the theorem is also what holds when ids collide. `EachInOnePlace` follows
from `PlacesIInv`: the six sets a candidate can be in partition those gathered
(`OneOf`), batches are disjoint (`BatchesApart`), and a channel only waits for candidates to be
added once its description is set (`AwaitedWhenDescribed`), so that the cache
it empties then holds none that has not been added. What the buffer's sequence of batches
gains, loses by expiry and hands over is in `BufferedFacts`, `TailFacts` and `PopFacts`, for a
buffer of any size, whose bound is part of the invariant (`Types`).

**Bootstrap** (`ServerBootstrapProofs`): `TypeOK`, `NextPointerIsNewest` and
`ImplementsBootstrap`. The strengthening is `CountersAgree` (the stored counter is the one in
memory, unless the page has just been loaded, which counts from the stored one) and `AnswersAreAsked` (answers come from servers asked for
them). The refinement needs that `deDuplicatePeerList` finds for every id the newest pointer
in any answer (`DeDuplicatedFacts`), which is unrolled like `Incorporate`: after i answers
it has the newest of the first i.

**Only model-checked:** the liveness properties (`EngagedNeighbourEventuallyLeaves`,
`OrphansRecover`, `StaysRegistered`, `EventuallyConnected`, `EventuallyReachable`,
`ExchangesEnd`, `CandidatesGetThrough`) and the half of `NoStandstill` that says ENABLED.
Both are beyond the prover, as are RECURSIVE operators and induction over data in general:
where a theorem needs the result of a loop, the loop is a recursive function, unrolled by an
argument on the finite set of its steps.

## Where code and comments part

Four disagreements are runs (*violation* above). Others met while modelling, which the
models contain but no run is spent on:

- *The cache can exceed its capacity.* `incorporateSet` inserts even when the array of
  entries to replace is used up or names nothing in the cache
  (`CyclonNodeImpl.ts:221`; the comment at :213 speaks of the set "to replace if we
  run out of space"). A request never does it; a response does, because its array begins
  with the node itself, may name nodes that requests have evicted since, and is short when
  the cache was (`CapacityKept` has the exact bound). It accumulates, since what is over
  is not given back: with capacity 1, shuffles of 1 pointer and 7 peers, TLC finds a cache of
  5. Where a shuffle is one step the destination's leaving makes up for it
  (`CachesBounded`).
- *Evicted entries are not those sent.* The array that is returned is the one that
  evictions are popped from, so that the reply has exactly the entries that were kept,
  whereas :154 says "then replacing those sent in reply".
- *A request can lose its sender.* A late response to an older shuffle with the same node
  consumes the array of the newer one while its channel opens (:168), down to the pointer
  to the sender that :91 puts first.
- *A late disconnect unregisters a client that is back* (`SessionEventHandler.js:22`), until
  it registers again (`StaysRegistered`).
- *Advertised servers need not be connected.* `getCurrentServerSpecs` ("we're currently
  listening on", `RedundantSignallingSocket.ts:105`) lists sockets from their creation.
- *The time limit of `receive` is not the one it is given* (`Channel.ts:182`).
- *Orphans do not stay at zero.* The README of the simulation says of the number of nodes
  with an in-degree of zero that "This should stay at zero"
  (`src/cyclon.p2p/README.md:96`). A shuffle can raise it: the sender deletes its destination,
  which nobody else may know. One tick after all have bootstrapped, when each node is known to
  the one on its left alone, is enough: that one shuffles with it and forgets it. What holds is
  `OrphansRecover`: the next shuffle of an orphan makes it known again, so that none stays one.
- *Samples can be short.* `PeerNotifier.js:42` looks up the pointer of every id in the room's
  sample; after the late disconnect above there is none for a client whose other session is
  in the room, and the JSON that is sent leaves it out (`PeersAreRegistered` is about
  clients whose sessions have not overlapped).
- *Buffered events of all peers share 50 places.* `Channel.ts:49` listens for candidates that
  may have come before, which `BufferingEventEmitter.ts:57` has then kept, unless other events
  have made them expire: `EachInOnePlace` and `CandidatesGetThrough` count these with the lost.
- *Correlation ids collide.* Two nodes that offer channels to each other may use the same
  one; candidates then go to both channels, and closing one silences the other
  (`Channel.ts:32`, `:193`). `CandidatesStayApart` and `CandidatesGetThrough` name it as
  the exception. After a reload ids begin again, so that an old answer can be taken for a
  new one (`AnswersMatch` holds until then); the channel then does not open and the
  shuffle is given up.
- *The load test waits for no answer.* `SimulatedNode.js:59` calls `waitForAnswer()` without
  the correlation id it is found by.
- *A late disconnect takes a client out of its rooms.* Checks register again
  (`RedundantSignallingSocket.ts:79`), but rooms are joined only when a socket connects, so
  that the client can be reached and is not given to others as a peer until it connects anew.
- *Waits without a limit.* `waitForAnswer`, and any HTTP request that fails at the socket
  (`HttpRequestService.ts:38` has no error handler): such a shuffle, or a bootstrap,
  hangs, and the page counts it as outstanding for as long as it is open.

The overlay is not promised to stay connected, and the models do not claim it: groups of
nodes that have lost all pointers to each other never meet again.

## Not modelled

The contents of pointers beyond id, age and sequence number; the wording and formats of
messages; how nodes choose and keep their ids; durations; the choice of servers for
failover beyond "one takes it or none does" in `ShuffleExchange` (`Reachability` has the
order). Of the local simulation, the entropy of the recorded sequences and the ages, which
aliased pointers share between nodes. Of the demo, the order and display of the ranking,
session times, locations and client descriptions. Of the HTTP front end, argument checks, CORS
headers and the start of the process. User interface, builders, factories, the example and the
load test have no state of the protocol. The signalling server's handling of clients
that lie about their id is left out: its clients here are the library's.

## How it was built

In this order: the cache and the node, with their theorems; the overlay; the
signalling server; the client's sockets; the exchange of a shuffle; the candidates; the
bootstrap from several servers; the demo's page and statistics; the composition of a client
with its servers and peers; the theorems on all of them; the bound on the cache, the random
choices, the types of the client's sockets and the refinement of `Comms`. Every safety
property of the runs is proved, but for the half of `NoStandstill` named above. What could
come next is the servers' failover within `ShuffleExchange`, which `Reachability` has by
itself, and the durations of its time limits.
