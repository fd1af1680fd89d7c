----------------------------- MODULE LocalOverlay -----------------------------
(***************************************************************************)
(* The local simulation: an overlay of Cyclon nodes whose Comms is         *)
(* LocalComms and whose bootstrap is LocalBootstrap (cyclon.p2p/src).      *)
(*                                                                         *)
(* LocalComms calls the destination's handleShuffleRequest and the         *)
(* sender's handleShuffleResponse in the sender's timer callback, and the  *)
(* promise continuations that follow run before the next timer: a whole    *)
(* shuffle, and a whole bootstrap, is one step.                            *)
(*                                                                         *)
(* Ages and sequence numbers are left out (they are 0): LocalComms passes  *)
(* pointers by reference, so nodes age each other's entries, and here the  *)
(* oldest neighbour may be any of them.                                    *)
(***************************************************************************)
EXTENDS NeighbourSet

CONSTANT NumNodes   \* the number of nodes of the simulation

ASSUME LocalOverlayAssumption ==
    /\ NumNodes \in Nat
    /\ NumNodes >= 2
    /\ Ids = 0..(NumNodes - 1)

VARIABLE caches     \* the neighbour cache of each node

PointerTo(id) == [id |-> id, age |-> 0, seq |-> 0]

PointersTo(ids) == [i \in DOMAIN ids |-> PointerTo(ids[i])]

TypeOK ==
    /\ caches \in [Ids -> UNION {[D -> Pointer] : D \in SUBSET Ids}]
    /\ \A n \in Ids : \A id \in DOMAIN caches[n] : caches[n][id] = PointerTo(id)

(* startSimulation starts every node, before any of their timers fires.    *)
Init == caches = [n \in Ids |-> EmptyCache]

------------------------------------------------------------------------------
(* LocalBootstrap.getInitialPeerSet: the node to the right, wrapping.      *)
RightNeighbour(n) == (n + 1) % NumNodes

(* A tick of a node with an empty cache.                                   *)
Bootstrap(n) ==
    /\ DOMAIN caches[n] = {}
    /\ caches' = [caches EXCEPT
                    ![n] = Insert(@, PointerTo(RightNeighbour(n)))]

(* Fault: the pointer to the sender is left out of the request.            *)
ExchangeWithoutSender(n, dest, set, selection) ==
    LET served == Incorporate(dest, caches[dest], PointersTo(Tail(set)), selection)
        answered == Incorporate(n, caches[n], PointersTo(served.replace), set)
    IN  caches' = [caches EXCEPT ![dest] = served.cache,
                                 ![n] = Remove(answered.cache, dest)]

(* LocalComms.sendShuffleRequest: the destination serves the request, the  *)
(* sender takes the response and deletes the destination.                  *)
Exchange(n, dest, set, selection) ==
    LET served == Incorporate(dest, caches[dest], PointersTo(set), selection)
        answered == Incorporate(n, caches[n], PointersTo(served.replace), set)
    IN  caches' = [caches EXCEPT ![dest] = served.cache,
                                 ![n] = Remove(answered.cache, dest)]

(* A tick of a node that has a neighbour.                                  *)
Shuffle(n) ==
    \E dest \in DOMAIN caches[n] :
        \E set \in ShuffleSets(caches[n], dest, n),
           selection \in Samples(DOMAIN caches[dest], ShuffleSize) :
            Exchange(n, dest, set, selection)

Tick(n) == Bootstrap(n) \/ Shuffle(n)

Next == \E n \in Ids : Tick(n)

Spec == Init /\ [][Next]_caches

(* Every node's interval fires for ever.                                   *)
FairSpec == Spec /\ \A n \in Ids : WF_caches(Tick(n))

------------------------------------------------------------------------------
(* Where a shuffle is one step, the caches stay within their capacity: the *)
(* one entry too many that the pointer to the sender, which replaces       *)
(* nothing when the array is used to evict, lets in is made up for by the  *)
(* destination's leaving.                                                  *)
CachesBounded == \A n \in Ids : Size(caches[n]) <= NumNeighbours

(* getInDegreeValues: how many nodes have n in their cache.                *)
InDegree(n) == Cardinality({other \in Ids : n \in DOMAIN caches[other]})

(* What getNetworkStatistics counts as orphanCount.                        *)
IsOrphan(n) == InDegree(n) = 0

(* A node that no other knows is known again eventually: its own next      *)
(* shuffle tells its destination of it.  (A shuffle does make orphans:     *)
(* the first ones leave the destination known by nobody until it shuffles, *)
(* so that their number does not "stay at zero", as line 96 of the         *)
(* README of cyclon.p2p says it should: what holds is that none stays one. *)
(* That the overlay stays in one piece is not promised: two groups of      *)
(* nodes that have lost their pointers to each other never meet again.)    *)
OrphansRecover == \A n \in Ids : []<>~IsOrphan(n)
===============================================================================
