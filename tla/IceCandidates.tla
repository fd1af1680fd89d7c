----------------------------- MODULE IceCandidates -----------------------------
(***************************************************************************)
(* The ICE candidates one node, the sender, gathers for its channels to    *)
(* another, the receiver, and the way they take: PeerConnection.ts and     *)
(* IceCandidateBatchingSignallingService.ts at the sender, the signalling  *)
(* servers, then SocketIOSignallingService.ts, Channel.ts and              *)
(* PeerConnection.ts at the receiver (all of cyclon.p2p-rtc-client).       *)
(*                                                                         *)
(* Either node may have made the offer of a channel; each numbers its own  *)
(* offers, so that a channel each way can have the same correlation id.    *)
(* Arrays of candidates are modelled as sets: no two are equal             *)
(* (PeerConnection.ts:183) and their order plays no part.                  *)
(***************************************************************************)
EXTENDS Naturals, Sequences, FiniteSets, Functions

CONSTANTS
    Channels,       \* the channels between the two
    Offered,        \* those whose offer the receiver made
    CorrelationIds, \* bound: the correlation ids in use
    Names,          \* bound: the candidates to gather for a channel
    MaxCandidates,  \* bound: those gathered in all
    MaxBuffered     \* maxBufferSize of the receiver's BufferingEventEmitter

ASSUME IceCandidatesAssumption ==
    /\ Offered \subseteq Channels
    /\ IsFiniteSet(Channels)
    /\ IsFiniteSet(Names)
    /\ MaxCandidates \in Nat
    /\ MaxBuffered \in Nat \ {0}

VARIABLES
    corr,           \* each channel's correlation id
    stored,         \* sender: storedIceCandidates of all channels
    local,          \* sender: localIceCandidates of all channels
    emitting,       \* sender: "no", "yes", or "stopped" once nobody listens
    queue,          \* sender: queuedCandidates, by correlation id; {} when
                    \* there is none, as no queue is empty
    timers,         \* sender: the deliveries scheduled, by correlation id
    posts,          \* the batches on their way
    held,           \* receiver: the batches buffered for want of a listener,
                    \* the oldest first
    listened,       \* receiver: the channels that have begun to listen for
                    \* candidates
    listening,      \* receiver: those whose listener is still there
    described,      \* receiver: remoteDescriptionSet
    handling,       \* receiver: handleAnswer awaits its candidates
    cache,          \* receiver: remoteIceCandidateCache
    runs,           \* receiver: calls of processRemoteIceCandidates by
                    \* listeners that await their candidates
    added,          \* receiver: what addIceCandidate has been called with
    closed,         \* receiver: the channels that are closed
    dropped         \* the candidates given up

sender == <<stored, local, emitting, queue, timers>>

receiver == <<held, listened, listening, described, handling, cache, runs,
              added, closed>>

vars == <<corr, sender, posts, receiver, dropped>>

Candidates == Channels \X Names

Of(c) == {c} \X Names

Batch == [id : CorrelationIds, candidates : SUBSET Candidates]

TypeOK ==
    /\ corr \in [Channels -> CorrelationIds]
    /\ stored \subseteq Candidates
    /\ local \subseteq stored
    /\ emitting \in [Channels -> {"no", "yes", "stopped"}]
    /\ queue \in [CorrelationIds -> SUBSET Candidates]
    /\ timers \in [CorrelationIds -> Nat]
    /\ posts \subseteq Batch
    /\ held \in Seq(Batch) /\ Len(held) <= MaxBuffered
    /\ listened \subseteq Channels
    /\ listening \subseteq listened \ closed
    /\ described \subseteq Channels
    /\ handling \subseteq described \cap Offered
    /\ cache \in [Channels -> SUBSET Candidates]
    /\ runs \in [Channels -> Nat]
    /\ added \in [Channels -> SUBSET Candidates]
    /\ closed \subseteq Channels
    /\ dropped \subseteq Candidates

Init ==
    /\ corr \in [Channels -> CorrelationIds]
    /\ \A c, d \in Channels :
        c # d /\ corr[c] = corr[d] => (c \in Offered) # (d \in Offered)
    /\ stored = {}
    /\ local = {}
    /\ emitting = [c \in Channels |-> "no"]
    /\ queue = [i \in CorrelationIds |-> {}]
    /\ timers = [i \in CorrelationIds |-> 0]
    /\ posts = {}
    /\ held = << >>
    /\ listened = {}
    /\ listening = {}
    /\ described = {}
    /\ handling = {}
    /\ cache = [c \in Channels |-> {}]
    /\ runs = [c \in Channels |-> 0]
    /\ added = [c \in Channels |-> {}]
    /\ closed = {}
    /\ dropped = {}

------------------------------------------------------------------------------
(* The sender.                                                             *)

(* Fault: a new queue gets no delivery when another one has.               *)
SendUnscheduled(i, candidates) ==
    /\ queue' = [queue EXCEPT ![i] = @ \cup candidates]
    /\ timers' = [timers EXCEPT ![i] = IF \A j \in CorrelationIds : timers[j] = 0
                                       THEN 1 ELSE @]

(* Fault: every call schedules a delivery.                                 *)
SendRescheduled(i, candidates) ==
    /\ queue' = [queue EXCEPT ![i] = @ \cup candidates]
    /\ timers' = [timers EXCEPT ![i] = @ + 1]

(* IceCandidateBatchingSignallingService.sendIceCandidates: the first      *)
(* candidates of a queue schedule its delivery.                            *)
SendIceCandidates(i, candidates) ==
    /\ queue' = [queue EXCEPT ![i] = @ \cup candidates]
    /\ timers' = [timers EXCEPT ![i] = IF queue[i] = {} THEN @ + 1 ELSE @]

(* The event "iceCandidates" with all that there is, to Channel's listener *)
(* if it is still there.                                                   *)
Emit(c, candidates) ==
    /\ local' = local \ candidates
    /\ \/ /\ emitting'[c] = "yes" /\ candidates # {}
          /\ SendIceCandidates(corr[c], candidates)
          /\ UNCHANGED dropped
       \/ /\ emitting'[c] = "stopped"
          /\ dropped' = dropped \cup candidates
          /\ UNCHANGED <<queue, timers>>
       \/ /\ emitting'[c] = "yes" /\ candidates = {}
          /\ UNCHANGED <<queue, timers, dropped>>

(* addLocalIceCandidate: a candidate that is stored is not taken again.    *)
GatherCandidate(c) ==
    /\ Cardinality(stored) < MaxCandidates
    /\ \E candidate \in Of(c) \ stored :
           /\ stored' = stored \cup {candidate}
           /\ UNCHANGED emitting
           /\ \/ /\ emitting[c] = "no"
                 /\ local' = local \cup {candidate}
                 /\ UNCHANGED <<queue, timers, dropped>>
              \/ /\ emitting[c] # "no"
                 /\ Emit(c, {candidate})
           /\ UNCHANGED <<corr, posts, receiver>>

(* startSendingIceCandidates: at the node that answers, after the answer   *)
(* is sent; at the node that offers, after it has come, so that by then    *)
(* the answering one listens (RTC.ts:76-77).                               *)
StartSendingIceCandidates(c) ==
    /\ emitting[c] = "no"
    /\ c \in Offered \cup listened
    /\ emitting' = [emitting EXCEPT ![c] = "yes"]
    /\ Emit(c, local \cap Of(c))
    /\ UNCHANGED <<corr, stored, posts, receiver>>

(* stopSendingIceCandidates when the channel is open, or close().          *)
StopSendingIceCandidates(c) ==
    /\ emitting[c] # "stopped"
    /\ emitting' = [emitting EXCEPT ![c] = "stopped"]
    /\ Emit(c, local \cap Of(c))
    /\ UNCHANGED <<corr, stored, posts, receiver>>

(* Fault: the queue is kept when it is sent.                               *)
DeliverCandidatesKeepingQueue(i) ==
    /\ timers[i] > 0
    /\ posts' = posts \cup {[id |-> i, candidates |-> queue[i]]}
    /\ timers' = [timers EXCEPT ![i] = @ - 1]
    /\ UNCHANGED <<corr, stored, local, emitting, queue, receiver, dropped>>

(* scheduleCandidateDelivery, once the delay is over.                      *)
DeliverCandidates(i) ==
    /\ timers[i] > 0
    /\ timers' = [timers EXCEPT ![i] = @ - 1]
    /\ \/ /\ queue[i] # {}
          /\ posts' = posts \cup {[id |-> i, candidates |-> queue[i]]}
          /\ queue' = [queue EXCEPT ![i] = {}]
       \/ /\ queue[i] = {}
          /\ UNCHANGED <<posts, queue>>
    /\ UNCHANGED <<corr, stored, local, emitting, receiver, dropped>>

(* No server takes the batch, or one emits it on a socket that is gone.    *)
LoseCandidates ==
    \E p \in posts :
        /\ posts' = posts \ {p}
        /\ dropped' = dropped \cup p.candidates
        /\ UNCHANGED <<corr, sender, receiver>>

------------------------------------------------------------------------------
(* The receiver.                                                           *)

(* processRemoteIceCandidates up to its await, by each of some channels,   *)
(* for n batches that hold the candidates: with the remote description set *)
(* all that is cached is added, be it for the second time.                 *)
ProcessCandidates(channels, candidates, n) ==
    LET cached(c) == cache[c] \cup candidates
        adding == {c \in channels : c \in described /\ n > 0} IN
    /\ cache' = [c \in Channels |-> IF c \in channels THEN cached(c) ELSE cache[c]]
    /\ added' = [c \in Channels |->
                    IF c \in adding THEN added[c] \cup cached(c) ELSE added[c]]
    /\ runs' = [c \in Channels |-> IF c \in adding THEN runs[c] + n ELSE runs[c]]

(* Fault: the event is named for the peer alone.                           *)
ListenersOfPeer(i) == listening

(* Those that listen to the event of this peer and correlation id.         *)
Listeners(i) == {c \in listening : corr[c] = i}

(* BufferingEventEmitter.bufferEvent: the oldest event expires when all    *)
(* places are taken.                                                       *)
Buffered(p) ==
    Append(IF Len(held) = MaxBuffered THEN Tail(held) ELSE held, p)

Expired == IF Len(held) = MaxBuffered THEN Head(held).candidates ELSE {}

CandidatesArrive ==
    \E p \in posts :
        /\ posts' = posts \ {p}
        /\ \/ /\ Listeners(p.id) = {}
              /\ held' = Buffered(p)
              /\ dropped' = dropped \cup Expired
              /\ UNCHANGED <<cache, runs, added>>
           \/ /\ Listeners(p.id) # {}
              /\ ProcessCandidates(Listeners(p.id), p.candidates, 1)
              /\ UNCHANGED <<held, dropped>>
        /\ UNCHANGED <<corr, sender, listened, listening, described, handling,
                       closed>>

(* The buffer is one for the offers and candidates of all peers: those of  *)
(* others take places in it too, and when it overflows with them the       *)
(* oldest batch may be one of these channels'.                             *)
OthersExpire ==
    /\ held # << >>
    /\ held' = Tail(held)
    /\ dropped' = dropped \cup Head(held).candidates
    /\ UNCHANGED <<corr, sender, posts, listened, listening, described, handling,
                   cache, runs, added, closed>>

(* popUnhandledMessage until no event of this name is left: the others     *)
(* stay, in their order.                                                   *)
PopUnhandled(i) ==
    LET others == {k \in DOMAIN held : held[k].id # i} IN
    \E order \in Bijection(1..Cardinality(others), others) :
        /\ \A k, m \in DOMAIN order : k < m => order[k] < order[m]
        /\ held' = [k \in DOMAIN order |-> held[order[k]]]

(* startListeningForRemoteIceCandidates: what is held comes first.         *)
StartListening(c) ==
    LET mine == {k \in DOMAIN held : held[k].id = corr[c]} IN
    /\ c \notin listened \cup closed
    /\ c \in Offered \cup described
    /\ listened' = listened \cup {c}
    /\ listening' = listening \cup {c}
    /\ PopUnhandled(corr[c])
    /\ ProcessCandidates({c}, UNION {held[k].candidates : k \in mine},
                         Cardinality(mine))
    /\ UNCHANGED <<corr, sender, posts, described, handling, closed, dropped>>

(* Fault: what is cached waits for the next batch.                         *)
SetRemoteDescriptionOnly(c) ==
    /\ c \notin described \cup closed
    /\ c \in Offered => c \in listened
    /\ described' = described \cup {c}
    /\ handling' = IF c \in Offered THEN handling \cup {c} ELSE handling
    /\ UNCHANGED <<corr, sender, posts, held, listened, listening, cache, runs, added,
                   closed, dropped>>

(* setRemoteDescription has succeeded, in createAnswer or, once the answer *)
(* has come, in handleAnswer, which then waits for its candidates.         *)
SetRemoteDescription(c) ==
    /\ c \notin described \cup closed
    /\ c \in Offered => c \in listened
    /\ described' = described \cup {c}
    /\ handling' = IF c \in Offered THEN handling \cup {c} ELSE handling
    /\ added' = [added EXCEPT ![c] = @ \cup cache[c]]
    /\ UNCHANGED <<corr, sender, posts, held, listened, listening, cache, runs, closed,
                   dropped>>

(* Promise.all of a listener's candidates: the cache is emptied, of what   *)
(* came in the meantime too, or left as it is when one is refused.         *)
CandidatesAdded(c) ==
    /\ runs[c] > 0
    /\ runs' = [runs EXCEPT ![c] = @ - 1]
    /\ \/ cache' = [cache EXCEPT ![c] = {}]
       \/ UNCHANGED cache
    /\ UNCHANGED <<corr, sender, posts, held, listened, listening, described,
                   handling, added, closed, dropped>>

AnswerHandled(c) ==
    /\ c \in handling
    /\ handling' = handling \ {c}
    /\ cache' = [cache EXCEPT ![c] = {}]
    /\ UNCHANGED <<corr, sender, posts, held, listened, listening, described, runs,
                   added, closed, dropped>>

(* Channel.close, which takes every listener of the event with it.  It     *)
(* closes at any time: an offer that cannot be sent, which has no          *)
(* correlation id yet, and so does not listen; an answer that is refused,  *)
(* by setRemoteDescription or for one of its candidates (handleAnswer);    *)
(* any later failure or time limit.  The offer that is never answered is   *)
(* the one that stays open.                                                *)
CloseChannel(c) ==
    /\ c \notin closed
    /\ closed' = closed \cup {c}
    /\ listening' = IF c \in Offered /\ c \notin listened THEN listening
                    ELSE listening \ Listeners(corr[c])
    /\ handling' = handling \ {c}
    /\ UNCHANGED <<corr, sender, posts, held, listened, described, cache, runs, added,
                   dropped>>

------------------------------------------------------------------------------
Next ==
    \/ \E c \in Channels :
        \/ GatherCandidate(c)
        \/ StartSendingIceCandidates(c)
        \/ StopSendingIceCandidates(c)
        \/ StartListening(c)
        \/ SetRemoteDescription(c)
        \/ CandidatesAdded(c)
        \/ AnswerHandled(c)
        \/ CloseChannel(c)
    \/ \E i \in CorrelationIds : DeliverCandidates(i)
    \/ CandidatesArrive
    \/ OthersExpire
    \/ LoseCandidates

Spec == Init /\ [][Next]_vars

(* Timers fire; a batch that is posted arrives or is lost.                 *)
FairSpec ==
    /\ Spec
    /\ \A i \in CorrelationIds : WF_vars(DeliverCandidates(i))
    /\ WF_vars(CandidatesArrive \/ LoseCandidates)

------------------------------------------------------------------------------
Queued == UNION {queue[i] : i \in CorrelationIds}

InBatches(batches) == UNION {p.candidates : p \in batches}

Received == UNION {cache[c] \cup added[c] : c \in Channels}

Places == <<local, Queued, InBatches(posts), InBatches(Range(held)), Received, dropped>>

(* A queue of candidates has one delivery ahead of it, and a delivery has  *)
(* something to send, whatever comes while the delay runs: what lines 77   *)
(* and 126 of IceCandidateBatchingSignallingService.ts report never is.    *)
TimerPerQueue ==
    \A i \in CorrelationIds : timers[i] = IF queue[i] = {} THEN 0 ELSE 1

(* A candidate is sent once and is lost only with a batch that no server   *)
(* takes or that expires from the receiver's buffer, or when nobody wants  *)
(* it any more: it is in exactly one place at a time, and in one batch at  *)
(* most, through all the queues, buffers and caches of both nodes.         *)
EachInOnePlace ==
    /\ stored = UNION {Places[i] : i \in DOMAIN Places}
    /\ \A i, j \in DOMAIN Places : i # j => Places[i] \cap Places[j] = {}
    /\ \A p, q \in posts : p # q => p.candidates \cap q.candidates = {}
    /\ \A k, m \in DOMAIN held :
            k # m => held[k].candidates \cap held[m].candidates = {}

(* Candidates that come before the remote description are added with it,   *)
(* and those that come while others are being added are not forgotten when *)
(* the cache is emptied (PeerConnection.ts:72, :82-90).                    *)
AddedWhenDescribed == \A c \in described : cache[c] \subseteq added[c]

(* A channel is given the candidates of another only if the two, one       *)
(* offered by each node, have the same correlation id.                     *)
CandidatesStayApart ==
    \A c, d \in Channels :
        (cache[c] \cup added[c]) \cap Of(d) # {} => corr[c] = corr[d]

(* What has been emitted for a channel gets to the peer connection of the  *)
(* other end when that has its remote description, unless it is dropped    *)
(* (its batch was lost on the way or expired from the buffer of those that *)
(* nobody listens for, or nobody listened to the event at the sender), the *)
(* channel is closed, or another channel has its correlation id: then      *)
(* closing that one silences this one.                                     *)
CandidatesGetThrough ==
    \A c \in Channels, n \in Names :
        <<c, n>> \in stored \ local ~>
            \/ <<c, n>> \in added[c] \cup dropped
            \/ c \in closed \/ c \notin described
            \/ \E d \in Channels \ {c} : corr[d] = corr[c]
================================================================================
