------------------------------ MODULE CyclonNode ------------------------------
(***************************************************************************)
(* One Cyclon node (cyclon.p2p/src/CyclonNodeImpl.ts) among peers and a    *)
(* bootstrap server that do whatever their interfaces allow.               *)
(*                                                                         *)
(* JavaScript runs one callback at a time, so each action is one run to    *)
(* completion: the timer's call of executeShuffle up to its first await,   *)
(* an inbound request or response, the continuation of sendShuffleRequest  *)
(* or of getInitialPeerSet.  Between them anything else may run: several   *)
(* outgoing shuffles can be outstanding, and requests of other nodes are   *)
(* served while one waits for its response.                                *)
(***************************************************************************)
EXTENDS NeighbourSet

CONSTANTS
    Self,           \* the id of this node
    Shuffles,       \* bound: identities for the outgoing shuffles outstanding
    None,           \* "undefined"
    BootstrapSize   \* the number of peers asked of the bootstrap

ASSUME CyclonNodeAssumption ==
    /\ Self \in Ids
    /\ None \notin Ids
    /\ None \notin Shuffles
    /\ BootstrapSize \in Nat

VARIABLES
    neighbours,     \* the neighbour cache
    started,        \* has start() been called
    shuffleTimer,   \* is this.shuffleTimer defined
    intervals,      \* the number of intervals that are running
    bootstraps,     \* the number of calls of the bootstrapper not settled
    pending,        \* the outgoing shuffles, see Shuffle
    lastShuffle,    \* lastShuffleNodeId and lastShuffleSet, see below
    reply           \* the ids in the response set being returned, if any

vars == <<neighbours, started, shuffleTimer, intervals, bootstraps, pending,
          lastShuffle, reply>>

timerVars == <<shuffleTimer, intervals>>

IdArray == UNION {[1..n -> Ids] : n \in 0..ShuffleSize}

(* A call of comms.sendShuffleRequest: the node it is for, the array of    *)
(* pointers handed to it, and how far it is.  "opening": the array has not *)
(* been sent; "sent": the response is awaited; "answered": the response    *)
(* has been handled, the promise is still to settle.                       *)
Shuffle == [phase : {"opening", "sent", "answered"},
            dest  : Ids,
            set   : IdArray]

NoShuffle == [phase |-> "none", dest |-> None, set |-> <<>>]

Outstanding(k) == pending[k].phase # "none"

(* lastShuffleSet is the very array that was handed to comms, so the pair  *)
(* lastShuffleNodeId, lastShuffleSet is a reference to a shuffle.          *)
LastShuffleNodeId ==
    IF lastShuffle = None THEN None ELSE pending[lastShuffle].dest

TypeOK ==
    /\ IsCache(neighbours)
    /\ started \in BOOLEAN
    /\ shuffleTimer \in BOOLEAN
    /\ intervals \in Nat
    /\ bootstraps \in Nat
    /\ pending \in [Shuffles -> Shuffle \cup {NoShuffle}]
    /\ lastShuffle \in Shuffles \cup {None}
    /\ reply \subseteq Ids

Init ==
    /\ neighbours = EmptyCache
    /\ started = FALSE
    /\ shuffleTimer = FALSE
    /\ intervals = 0
    /\ bootstraps = 0
    /\ pending = [k \in Shuffles |-> NoShuffle]
    /\ lastShuffle = None
    /\ reply = {}

------------------------------------------------------------------------------
(* Parts of the handlers.                                                  *)

StartShuffling ==
    /\ shuffleTimer' = TRUE
    /\ intervals' = intervals + 1

(* Fault: the interval is cleared only in name.                            *)
StopShufflingKeepingInterval ==
    /\ shuffleTimer' = FALSE
    /\ UNCHANGED intervals

StopShuffling ==
    /\ shuffleTimer' = FALSE
    /\ intervals' = IF shuffleTimer THEN intervals - 1 ELSE intervals

(* The cache that deleteLastShuffleState leaves of c.                      *)
Swept(c) ==
    IF lastShuffle = None THEN c ELSE Remove(c, LastShuffleNodeId)

------------------------------------------------------------------------------
(* start(), and the timer's callback executeShuffle() up to its first      *)
(* await: an outgoing shuffle, or a bootstrap when the cache is empty.     *)

Start ==
    /\ ~started
    /\ started' = TRUE
    /\ StartShuffling
    /\ reply' = {}
    /\ UNCHANGED <<neighbours, bootstraps, pending, lastShuffle>>

(* Fault: the neighbour that did not answer is not deleted.                *)
BeginShuffleUnswept(k) ==
    LET aged == IncrementAges(neighbours) IN
    /\ intervals > 0
    /\ ~Outstanding(k)
    /\ \E oldest \in OldestIds(aged) :
        \E set \in ShuffleSets(aged, oldest, Self) :
            pending' = [pending EXCEPT
                ![k] = [phase |-> "opening", dest |-> oldest, set |-> set]]
    /\ neighbours' = aged
    /\ lastShuffle' = k
    /\ reply' = {}
    /\ UNCHANGED <<started, timerVars, bootstraps>>

BeginShuffle(k) ==
    LET aged == IncrementAges(Swept(neighbours)) IN
    /\ intervals > 0
    /\ ~Outstanding(k)
    /\ \E oldest \in OldestIds(aged) :
        \E set \in ShuffleSets(aged, oldest, Self) :
            pending' = [pending EXCEPT
                ![k] = [phase |-> "opening", dest |-> oldest, set |-> set]]
    /\ neighbours' = aged
    /\ lastShuffle' = k
    /\ reply' = {}
    /\ UNCHANGED <<started, timerVars, bootstraps>>

(* Fault: the interval is stopped, but nobody is asked for peers.          *)
BeginBootstrapUnasked ==
    /\ intervals > 0
    /\ DOMAIN Swept(neighbours) = {}
    /\ neighbours' = Swept(neighbours)
    /\ lastShuffle' = None
    /\ StopShuffling
    /\ reply' = {}
    /\ UNCHANGED <<started, bootstraps, pending>>

BeginBootstrap ==
    /\ intervals > 0
    /\ DOMAIN Swept(neighbours) = {}
    /\ neighbours' = Swept(neighbours)
    /\ lastShuffle' = None
    /\ StopShuffling
    /\ bootstraps' = bootstraps + 1
    /\ reply' = {}
    /\ UNCHANGED <<started, pending>>

(* The tick needs an identity for the shuffle it may begin (the bound).    *)
Tick == BeginBootstrap \/ \E k \in Shuffles : BeginShuffle(k)

------------------------------------------------------------------------------
(* The bootstrapper's promise settles.  The peers are distinct and none is *)
(* the node itself: SignallingServerBootstrap keys them by id and drops    *)
(* its own.                                                                *)

(* Up to BootstrapSize peers, with the sequence number of each.            *)
BootstrapResults ==
    UNION {[ids -> 0..MaxSeq] :
        ids \in {S \in SUBSET (Ids \ {Self}) :
                    IsFiniteSet(S) /\ Cardinality(S) <= BootstrapSize}}

InsertPeers(peers) ==
    /\ bootstraps > 0
    /\ neighbours' = [id \in DOMAIN neighbours \cup DOMAIN peers |->
            IF id \in DOMAIN peers
            THEN [id |-> id, age |-> 0, seq |-> peers[id]]
            ELSE neighbours[id]]
    /\ bootstraps' = bootstraps - 1
    /\ StartShuffling
    /\ reply' = {}
    /\ UNCHANGED <<started, pending, lastShuffle>>

BootstrapSucceeds == \E peers \in BootstrapResults : InsertPeers(peers)

BootstrapFails ==
    /\ bootstraps > 0
    /\ bootstraps' = bootstraps - 1
    /\ reply' = {}
    /\ UNCHANGED <<neighbours, started, timerVars, pending, lastShuffle>>

------------------------------------------------------------------------------
(* An inbound request.  The response set loses what incorporateSet pops    *)
(* from it before it is returned.                                          *)

ServeRequest(received, selection) ==
    /\ started
    /\ LET result == Incorporate(Self, neighbours, received, selection)
       IN  /\ neighbours' = result.cache
           /\ reply' = Range(result.replace)
    /\ UNCHANGED <<started, timerVars, bootstraps, pending, lastShuffle>>

HandleShuffleRequest(received) ==
    \E selection \in Samples(DOMAIN neighbours, ShuffleSize) :
        ServeRequest(received, selection)

------------------------------------------------------------------------------
(* The Comms: it sends the array of shuffle k once a channel is open,      *)
(* hands the response to the node, and settles the promise: at once when   *)
(* the destination is unreachable, on a timeout or an error, or after the  *)
(* response has been acknowledged.                                         *)

SendShuffleRequest(k) ==
    /\ pending[k].phase = "opening"
    /\ pending' = [pending EXCEPT ![k].phase = "sent"]
    /\ reply' = {}
    /\ UNCHANGED <<neighbours, started, timerVars, bootstraps, lastShuffle>>

(* Fault: the answered shuffle remains the last one.                       *)
HandleAwaitedResponseKeepingLast(k, response) ==
    LET result == Incorporate(Self, neighbours, response,
                              pending[lastShuffle].set)
    IN  /\ LastShuffleNodeId = pending[k].dest
        /\ neighbours' = Remove(result.cache, LastShuffleNodeId)
        /\ pending' = [pending EXCEPT ![lastShuffle].set = result.replace,
                                      ![k].phase = "answered"]
        /\ UNCHANGED lastShuffle

(* The response is taken for that of the last shuffle when it comes from   *)
(* the same node.                                                          *)
HandleAwaitedResponse(k, response) ==
    LET result == Incorporate(Self, neighbours, response,
                              pending[lastShuffle].set)
    IN  /\ LastShuffleNodeId = pending[k].dest
        /\ neighbours' = Remove(result.cache, LastShuffleNodeId)
        /\ pending' = [pending EXCEPT ![lastShuffle].set = result.replace,
                                      ![k].phase = "answered"]
        /\ lastShuffle' = None

IgnoreResponse(k) ==
    /\ LastShuffleNodeId # pending[k].dest
    /\ pending' = [pending EXCEPT ![k].phase = "answered"]
    /\ UNCHANGED <<neighbours, lastShuffle>>

HandleShuffleResponse(k, response) ==
    /\ pending[k].phase = "sent"
    /\ \/ HandleAwaitedResponse(k, response)
       \/ IgnoreResponse(k)
    /\ reply' = {}
    /\ UNCHANGED <<started, timerVars, bootstraps>>

(* The promise settles, with whatever outcome, and executeShuffle's        *)
(* "finally" runs.                                                         *)
Settle(k) ==
    /\ Outstanding(k)
    /\ neighbours' = Swept(neighbours)
    /\ lastShuffle' = None
    /\ pending' = [pending EXCEPT ![k] = NoShuffle]
    /\ reply' = {}
    /\ UNCHANGED <<started, timerVars, bootstraps>>

(* A promise that never settles: the shuffle has no further effect, and    *)
(* its identity can be used again.                                         *)
Hang(k) ==
    /\ Outstanding(k)
    /\ k # lastShuffle
    /\ pending' = [pending EXCEPT ![k] = NoShuffle]
    /\ reply' = {}
    /\ UNCHANGED <<neighbours, started, timerVars, bootstraps, lastShuffle>>

------------------------------------------------------------------------------
Next ==
    \/ Start
    \/ Tick
    \/ BootstrapSucceeds
    \/ BootstrapFails
    \/ \E received \in PointerList : HandleShuffleRequest(received)
    \/ \E k \in Shuffles :
        \/ SendShuffleRequest(k)
        \/ \E response \in PointerList : HandleShuffleResponse(k, response)
        \/ Settle(k)
        \/ Hang(k)

Spec == Init /\ [][Next]_vars

(* The interval fires; the bootstrapper's promise settles, one way or the  *)
(* other; and a shuffle that has been superseded either settles or hangs.  *)
(* Nothing is assumed of the last shuffle.                                 *)
Fairness ==
    /\ WF_vars(Tick)
    /\ WF_vars(BootstrapSucceeds \/ BootstrapFails)
    /\ \A k \in Shuffles : WF_vars(k # lastShuffle /\ (Settle(k) \/ Hang(k)))

FairSpec == Spec /\ Fairness

------------------------------------------------------------------------------
(* What the code guarantees.                                               *)

(* The node never has itself in its cache, whatever it is sent: pointers   *)
(* to it come back in requests and responses (notMe), and from the         *)
(* bootstrap.                                                              *)
NeverKnowsSelf == Self \notin DOMAIN neighbours

(* A node has at most one interval running or one bootstrap under way,     *)
(* and shuffleTimer is defined exactly when there is an interval to stop:  *)
(* start, the empty-cache branch of executeShuffle and the completion of   *)
(* the bootstrap never add up to two timers.                               *)
AtMostOneActivity ==
    /\ intervals + bootstraps <= 1
    /\ shuffleTimer <=> intervals = 1
    /\ ~started => intervals + bootstraps = 0

(* The shuffle that lastShuffleNodeId refers to is one whose response is   *)
(* still to come, so that handleShuffleResponse and deleteLastShuffleState *)
(* never act for a shuffle that is already over.                           *)
LastShuffleAwaitsResponse ==
    lastShuffle # None => pending[lastShuffle].phase \in {"opening", "sent"}

(* What handleShuffleRequest returns names nodes that are still in the     *)
(* cache: an entry is either evicted or handed out, never both.            *)
ReplyStaysInCache == reply \subseteq DOMAIN neighbours

(* The neighbour engaged in the last shuffle is out of the cache by the    *)
(* time the shuffle stops being the last: because it answered, because the *)
(* shuffle failed, or because the next tick came first.                    *)
EngagedNeighbourLeaves ==
    [][lastShuffle # None /\ lastShuffle' # lastShuffle
        => LastShuffleNodeId \notin DOMAIN neighbours']_vars

(* The pointers of a response for which the array of the last shuffle has  *)
(* no entry to evict: it names the node itself, nodes that requests have   *)
(* evicted since, and fewer than ShuffleSize when the cache had fewer.     *)
Unpaid ==
    IF lastShuffle = None
    THEN 0
    ELSE ShuffleSize
        - Cardinality(Range(pending[lastShuffle].set) \cap DOMAIN neighbours)

(* Serving a request never takes the cache over its capacity, nor further  *)
(* over it: the response set always has an entry to evict for each pointer *)
(* that has no room.  A response does by its unpaid pointers at most, less *)
(* the neighbour engaged, which leaves.                                    *)
CapacityKept ==
    [][bootstraps' >= bootstraps =>
        Size(neighbours')
            <= (IF Size(neighbours) > NumNeighbours
                THEN Size(neighbours) ELSE NumNeighbours)
               + (IF UNCHANGED lastShuffle
                  THEN 0
                  ELSE Unpaid
                    - Cardinality({LastShuffleNodeId} \cap DOMAIN neighbours))]_vars

(* As long as there is room, a request or a response loses no entry but    *)
(* that of the neighbour engaged, keeps the age of each, and replaces none *)
(* by an older pointer.  (A bootstrap may, and a reload loses them all.)   *)
NothingLostWithRoom ==
    [][
       (/\ lastShuffle' \in {None, lastShuffle}
        /\ bootstraps' = bootstraps
        /\ started' = started
        /\ Cardinality((DOMAIN neighbours' \cup {LastShuffleNodeId}) \ {None})
            < NumNeighbours)
        => \A id \in DOMAIN neighbours \ {LastShuffleNodeId} :
            /\ id \in DOMAIN neighbours'
            /\ neighbours'[id].age = neighbours[id].age
            /\ neighbours'[id].seq >= neighbours[id].seq]_vars

(* A neighbour that has been engaged in a shuffle eventually leaves the    *)
(* cache even if it never answers and the Comms never gives up: the next   *)
(* tick deletes it.                                                        *)
EngagedNeighbourEventuallyLeaves ==
    \A id \in Ids : LastShuffleNodeId = id ~> id \notin DOMAIN neighbours

(* The node's activity, as NodeLifecycle describes it.                     *)
Status ==
    CASE ~started                         -> "idle"
      [] started /\ intervals > 0         -> "shuffling"
      [] started /\ intervals = 0 /\ bootstraps > 0 -> "bootstrapping"
      [] OTHER                            -> "stalled"

Lifecycle == INSTANCE NodeLifecycle WITH status <- Status

(* The node goes through the activities that NodeLifecycle promises, in    *)
(* that order.                                                             *)
ImplementsLifecycle == Lifecycle!Spec

------------------------------------------------------------------------------
(* What comments of the code say and the code does not do.                 *)

(* CyclonNodeImpl.ts:67, "If we haven't heard back from our last shuffle   *)
(* request, delete that neighbour" (at the next tick), and :241, "Delete   *)
(* the last shuffle state": the end of an older shuffle leaves the last    *)
(* one alone.                                                              *)
OlderShuffleLeavesLastAlone ==
    [][\A k \in Shuffles :
        Outstanding(k) /\ ~Outstanding(k)' /\ lastShuffle \notin {k, None}
            => lastShuffle' = lastShuffle]_vars

(* CyclonNodeImpl.ts:176, "Bootstrap the neighbour cache and begin         *)
(* shuffling".                                                             *)
BootstrapBeginsShuffling == bootstraps > 0 ~> intervals > 0
===============================================================================
