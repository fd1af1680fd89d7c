---------------------------- MODULE NeighbourSet ----------------------------
(***************************************************************************)
(* The neighbour cache of a Cyclon node (cyclon.p2p/src/NeighbourSet.ts)   *)
(* and the loop that incorporates the pointers a node receives in a        *)
(* shuffle (CyclonNodeImpl.incorporateSet).                                *)
(*                                                                         *)
(* The JavaScript Map from node id to pointer is a function whose domain   *)
(* is the set of ids in the cache.  The Map also has an insertion order;   *)
(* the code only looks at it to break ties between equally old entries and *)
(* to lay out a sample, so both are nondeterministic here.  A pointer is   *)
(* its id, age and sequence number: the metadata is never inspected.       *)
(***************************************************************************)
EXTENDS Naturals, Sequences, FiniteSets, Functions

CONSTANTS
    Ids,            \* the ids of the nodes of the overlay
    MaxAge,         \* bound: ages saturate here, so older entries tie
    MaxSeq,         \* bound: the sequence numbers told apart
    NumNeighbours,  \* the capacity of the cache
    ShuffleSize     \* the number of pointers exchanged in a shuffle

ASSUME NeighbourSetAssumption ==
    /\ MaxAge \in Nat
    /\ MaxSeq \in Nat
    /\ NumNeighbours \in Nat \ {0}
    /\ ShuffleSize \in Nat \ {0}
    /\ ShuffleSize <= NumNeighbours   \* checked by CyclonNodeImpl's constructor

Pointer == [id : Ids, age : 0..MaxAge, seq : 0..MaxSeq]

HasDistinctIds(pointers) ==
    \A i, j \in DOMAIN pointers : pointers[i].id = pointers[j].id => i = j

(* What one node may send to another: at most ShuffleSize pointers, one    *)
(* for each node named.                                                    *)
PointerList ==
    {ps \in UNION {[1..n -> Pointer] : n \in 0..ShuffleSize} :
        HasDistinctIds(ps)}

EmptyCache == [id \in {} |-> id]

(* A cache maps ids to pointers that carry the id they are filed under.    *)
IsCache(c) ==
    /\ DOMAIN c \subseteq Ids
    /\ IsFiniteSet(DOMAIN c)
    /\ \A id \in DOMAIN c : c[id] \in Pointer /\ c[id].id = id

Size(c) == Cardinality(DOMAIN c)

------------------------------------------------------------------------------
(* The operations of NeighbourSet.                                         *)

Insert(c, pointer) ==
    [id \in DOMAIN c \cup {pointer.id} |->
        IF id = pointer.id THEN pointer ELSE c[id]]

Remove(c, id) == Restrict(c, DOMAIN c \ {id})

IncrementAges(c) ==
    [id \in DOMAIN c |->
        [c[id] EXCEPT !.age = IF @ < MaxAge THEN @ + 1 ELSE @]]

(* Fault: the witnessed pointer's own age is kept.                         *)
MergeTakingWitnessedAge(c, pointer) ==
    IF c[pointer.id].seq < pointer.seq
    THEN [c EXCEPT ![pointer.id] = pointer]
    ELSE c

MergeNodePointerIfNewer(c, pointer) ==
    IF c[pointer.id].seq < pointer.seq
    THEN [c EXCEPT ![pointer.id] = [pointer EXCEPT !.age = c[pointer.id].age]]
    ELSE c

(* findOldestId returns the first entry of the greatest age in Map order:  *)
(* any of the oldest.                                                      *)
OldestIds(c) ==
    {id \in DOMAIN c : \A other \in DOMAIN c : c[other].age <= c[id].age}

(* The possible results of randomSample over S: as many distinct members   *)
(* as there are, up to k, in any order.                                    *)
Samples(S, k) ==
    LET n == IF Cardinality(S) < k THEN Cardinality(S) ELSE k
    IN  Injection(1..n, S)

(* Fault: the sample of the others is one too large.                       *)
OversizedShuffleSets(c, oldest, self) ==
    {<<self>> \o others : others \in Samples(DOMAIN c \ {oldest}, ShuffleSize)}

(* selectShuffleSet puts the oldest entry first and samples the others;    *)
(* executeShuffle then overwrites the oldest with a pointer to the sender. *)
(* Only the ids matter: what is sent is received elsewhere, and here the   *)
(* array serves to choose which entries to evict.                          *)
ShuffleSets(c, oldest, self) ==
    {<<self>> \o others : others \in Samples(DOMAIN c \ {oldest}, ShuffleSize - 1)}

------------------------------------------------------------------------------
(* incorporateSet: for each received pointer that is not to the node       *)
(* itself, update the entry the cache has, or insert one, evicting when    *)
(* the cache is full the entry at the end of the array "replace", which    *)
(* the loop shortens in place.  The handlers filter out the pointers to    *)
(* the node itself (notMe) before the loop; skipping them in it is the     *)
(* same.                                                                   *)

(* Fault: an entry is evicted only when the cache is already over-full.    *)
MakeRoomLate(state) ==
    IF Size(state.cache) > NumNeighbours /\ state.replace # <<>>
    THEN LET last == Len(state.replace)
         IN  [cache   |-> Remove(state.cache, state.replace[last]),
              replace |-> SubSeq(state.replace, 1, last - 1)]
    ELSE state

(* Fault: the entry to evict is read from the array but not popped.        *)
MakeRoomWithoutPop(state) ==
    IF Size(state.cache) >= NumNeighbours /\ state.replace # <<>>
    THEN LET last == Len(state.replace)
         IN  [cache   |-> Remove(state.cache, state.replace[last]),
              replace |-> state.replace]
    ELSE state

MakeRoom(state) ==
    IF Size(state.cache) >= NumNeighbours /\ state.replace # <<>>
    THEN LET last == Len(state.replace)
         IN  [cache   |-> Remove(state.cache, state.replace[last]),
              replace |-> SubSeq(state.replace, 1, last - 1)]
    ELSE state

(* Fault: pointers to the node itself are not discarded.                   *)
IncorporateOneUnfiltered(self, state, item) ==
    IF item.id \in DOMAIN state.cache
    THEN [cache   |-> MergeNodePointerIfNewer(state.cache, item),
          replace |-> state.replace]
    ELSE LET roomy == MakeRoom(state)
         IN  [cache   |-> Insert(roomy.cache, item),
              replace |-> roomy.replace]

IncorporateOne(self, state, item) ==
    IF item.id = self
    THEN state
    ELSE IF item.id \in DOMAIN state.cache
    THEN [cache   |-> MergeNodePointerIfNewer(state.cache, item),
          replace |-> state.replace]
    ELSE LET roomy == MakeRoom(state)
         IN  [cache   |-> Insert(roomy.cache, item),
              replace |-> roomy.replace]

(* The cache and what is left of the array "replace" after all the items.  *)
Incorporate(self, c, items, replace) ==
    LET run[i \in 0..Len(items)] ==
            IF i = 0
            THEN [cache |-> c, replace |-> replace]
            ELSE IncorporateOne(self, run[i - 1], items[i])
    IN  run[Len(items)]
=============================================================================
