------------------------------- MODULE DemoPage -------------------------------
(***************************************************************************)
(* The page of the web demo: a Cyclon node together with the services that *)
(* listen to the changes of its cache (app/scripts/services of             *)
(* cyclon.p2p-webrtc-demo).  OverlayService saves the cache in the session *)
(* storage, and RankingService remembers the nodes witnessed in the last   *)
(* hour, with the newest pointer to each.                                  *)
(*                                                                         *)
(* A NeighbourSet emits "change" from within insert, remove and            *)
(* mergeNodePointerIfNewer, and its listeners run there and then, so what  *)
(* they do is part of the node's step.  Which pointers a step announces is *)
(* not the difference of two caches: one that is evicted and inserted      *)
(* again in a request is announced, one that is only aged is not.          *)
(***************************************************************************)
EXTENDS CyclonNode

VARIABLES
    witnessed,      \* witnessedPeers: the sequence number of the pointer kept
    saved           \* the neighbour cache in the session storage, or None

pageVars == <<vars, witnessed, saved>>

NobodyWitnessed == [id \in {} |-> 0]

PageTypeOK ==
    /\ TypeOK
    /\ DOMAIN witnessed \subseteq Ids
    /\ \A id \in DOMAIN witnessed : witnessed[id] \in 0..MaxSeq
    /\ saved = None \/ IsCache(saved)

PageInit == Init /\ witnessed = NobodyWitnessed /\ saved = None

------------------------------------------------------------------------------
(* The listeners.                                                          *)

(* The items of those received that are inserted ("insert") or take the    *)
(* place of an older pointer ("update"), given the caches they meet.       *)
Announced(received, replace) ==
    {received[i] : i \in {j \in DOMAIN received :
        LET id == received[j].id
            met == Incorporate(Self, neighbours,
                               SubSeq(received, 1, j - 1), replace).cache
        IN  /\ id # Self
            /\ id \in DOMAIN met => met[id].seq < received[j].seq}}

(* Fault: the pointer met first is kept.                                   *)
ProcessNodesOnce(pointers) ==
    LET ids == {p.id : p \in pointers}
        SeqOf(id) == (CHOOSE p \in pointers : p.id = id).seq
    IN  witnessed' = [id \in DOMAIN witnessed \cup ids |->
            IF id \in DOMAIN witnessed THEN witnessed[id] ELSE SeqOf(id)]

(* processNode, for pointers to different nodes.                           *)
ProcessNodes(pointers) ==
    LET ids == {p.id : p \in pointers}
        SeqOf(id) == (CHOOSE p \in pointers : p.id = id).seq
    IN  witnessed' = [id \in DOMAIN witnessed \cup ids |->
            IF id \in DOMAIN witnessed
               /\ (id \in ids => witnessed[id] >= SeqOf(id))
            THEN witnessed[id] ELSE SeqOf(id)]

(* JSON.stringify of a Map, which has no properties of its own: "{}".      *)
Stringify(contents) == EmptyCache

(* setStoredNeighbourCache(getContents()), on every change.                *)
Save == saved' = Stringify(neighbours')

(* The events of a step: the pointers announced, and whether an entry was  *)
(* removed (the last neighbour engaged, or nobody).                        *)
Change(pointers, removed) ==
    /\ ProcessNodes(pointers)
    /\ IF pointers # {} \/ removed THEN Save ELSE UNCHANGED saved

NoChange == UNCHANGED <<witnessed, saved>>

Sweeps == lastShuffle # None

------------------------------------------------------------------------------
(* The node's steps, with what the listeners do in them.                   *)

PageTick == Tick /\ Change({}, Sweeps)

PageBootstrapped ==
    \E peers \in BootstrapResults :
        /\ InsertPeers(peers)
        /\ Change({neighbours'[id] : id \in DOMAIN peers}, FALSE)

PageServes(received) ==
    \E selection \in Samples(DOMAIN neighbours, ShuffleSize) :
        /\ ServeRequest(received, selection)
        /\ Change(Announced(received, selection), FALSE)

PageTakesResponse(k, response) ==
    /\ HandleShuffleResponse(k, response)
    /\ IF LastShuffleNodeId = pending[k].dest
       THEN Change(Announced(response, pending[lastShuffle].set), TRUE)
       ELSE NoChange

PageSettles(k) == Settle(k) /\ Change({}, Sweeps)

(* The steps that change nothing in the cache.                             *)
PageGoesOn ==
    /\ \/ Start
       \/ BootstrapFails
       \/ \E k \in Shuffles : SendShuffleRequest(k) \/ Hang(k)
    /\ NoChange

------------------------------------------------------------------------------
(* The ranking's interval: who was last seen more than an hour ago is      *)
(* forgotten.  How long ago that was is left open, so that any node may    *)
(* have been.                                                              *)
PruneOldNodes ==
    /\ \E old \in SUBSET DOMAIN witnessed \ {{}} :
        witnessed' = [id \in DOMAIN witnessed \ old |-> witnessed[id]]
    /\ UNCHANGED <<vars, saved>>

(* The page is reloaded: a new node, and the cache that was saved inserted *)
(* into its own before RankingService listens.                             *)
Reload ==
    /\ started
    /\ neighbours' = IF saved = None THEN EmptyCache ELSE saved
    /\ started' = FALSE
    /\ shuffleTimer' = FALSE
    /\ intervals' = 0
    /\ bootstraps' = 0
    /\ pending' = [k \in Shuffles |-> NoShuffle]
    /\ lastShuffle' = None
    /\ reply' = {}
    /\ witnessed' = NobodyWitnessed
    /\ UNCHANGED saved

PageNext ==
    \/ PageTick
    \/ PageBootstrapped
    \/ PageGoesOn
    \/ \E received \in PointerList :
        \/ PageServes(received)
        \/ \E k \in Shuffles : PageTakesResponse(k, received)
    \/ \E k \in Shuffles : PageSettles(k)
    \/ PruneOldNodes
    \/ Reload

PageSpec == PageInit /\ [][PageNext]_pageVars

(* The intervals fire, as in CyclonNode.                                   *)
PageFairSpec ==
    /\ PageSpec
    /\ WF_pageVars(PageTick)
    /\ \A k \in Shuffles :
        WF_pageVars(k # lastShuffle /\ (PageSettles(k) \/ (Hang(k) /\ NoChange)))

------------------------------------------------------------------------------
(* A node in the ranking is never shown with a pointer older than the one  *)
(* the cache has: none of the ways a pointer gets into the cache, or takes *)
(* the place of another, escapes the listener.                             *)
RankingNeverBehind ==
    \A id \in DOMAIN witnessed \cap DOMAIN neighbours :
        neighbours[id].seq <= witnessed[id]

(* OverlayService.js:66, "Load the stored neighbour cache if its present   *)
(* then start listening for changes to store": a reload finds in the cache *)
(* the neighbours that were there before it.                               *)
CacheSurvivesReload ==
    [][Reload => DOMAIN neighbours' = DOMAIN neighbours]_pageVars
===============================================================================
