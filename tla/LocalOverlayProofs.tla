-------------------------- MODULE LocalOverlayProofs --------------------------
(***************************************************************************)
(* That the caches of the local simulation keep to their capacity, for any *)
(* number of nodes and any sizes.                                          *)
(*                                                                         *)
(* A request keeps the destination's cache within its capacity, as the     *)
(* response set pays for what is received.  A response may take the        *)
(* sender's one entry over it, as the first of its array names itself and  *)
(* pays for nothing; but the destination is not in that array, so it is    *)
(* still in the cache, and leaves.                                         *)
(***************************************************************************)
EXTENDS LocalOverlay, NeighbourSetProofs

IInv ==
    /\ DOMAIN caches = Ids
    /\ caches = [n \in Ids |-> caches[n]]
    /\ \A n \in Ids : IsCache(caches[n]) /\ n \notin DOMAIN caches[n]
    /\ CachesBounded

LEMMA PointersToFacts ==
    ASSUME NEW ids \in Seq(Ids)
    PROVE  PointersTo(ids) \in Seq(Pointer) /\ Len(PointersTo(ids)) = Len(ids)
<1>1. DOMAIN ids = 1..Len(ids) /\ Len(ids) \in Nat
  OBVIOUS
<1>2. \A i \in 1..Len(ids) : PointerTo(ids[i]) \in Pointer
  BY NeighbourSetAssumption DEF PointerTo, Pointer
<1>3. PointersTo(ids) \in [1..Len(ids) -> Pointer]
  BY <1>1, <1>2 DEF PointersTo
<1> QED
  BY <1>1, <1>3

LEMMA InitIInv == Init => IInv
<1> SUFFICES ASSUME Init PROVE IInv
  OBVIOUS
<1>1. DOMAIN EmptyCache = {}
  BY DEF EmptyCache
<1>2. IsCache(EmptyCache) /\ Size(EmptyCache) = 0
  BY <1>1, FS_EmptySet DEF IsCache, Size
<1> HIDE DEF EmptyCache
<1> QED
  BY <1>1, <1>2, NeighbourSetAssumption DEF Init, IInv, CachesBounded, EmptyCache

(* A tick of a node with an empty cache gives it one other node.           *)
LEMMA BootstrapIInv ==
    ASSUME IInv, NEW n \in Ids, Bootstrap(n)
    PROVE  IInv'
<1> DEFINE right == RightNeighbour(n)
           inserted == Insert(caches[n], PointerTo(right))
<1>1. right \in Ids /\ right # n
  <2>1. n \in Nat /\ n < NumNodes /\ NumNodes \in Nat /\ NumNodes >= 2
    BY LocalOverlayAssumption
  <2>2. CASE n + 1 < NumNodes
    <3>1. (n + 1) % NumNodes = n + 1
      BY <2>1, <2>2
    <3> QED
      BY <2>1, <2>2, <3>1, LocalOverlayAssumption DEF RightNeighbour
  <2>3. CASE n + 1 = NumNodes
    <3>1. NumNodes % NumNodes = 0
      BY <2>1
    <3> QED
      BY <2>1, <2>3, <3>1, LocalOverlayAssumption DEF RightNeighbour
  <2> QED
    BY <2>1, <2>2, <2>3
<1> HIDE DEF right
<1>2. PointerTo(right) \in Pointer /\ PointerTo(right).id = right
  BY <1>1, NeighbourSetAssumption DEF PointerTo, Pointer
<1>3. IsCache(caches[n]) /\ DOMAIN caches[n] = {}
  BY DEF IInv, Bootstrap
<1>4. IsCache(inserted) /\ DOMAIN inserted = {right}
  <2>1. /\ IsCache(inserted)
        /\ DOMAIN inserted = DOMAIN caches[n] \cup {PointerTo(right).id}
    BY <1>2, <1>3, InsertFacts, Zenon
  <2> QED
    BY <1>2, <1>3, <2>1
<1>5. Size(inserted) = 1
  BY <1>4, FS_Singleton DEF Size
<1>6. caches' = [caches EXCEPT ![n] = inserted]
  BY DEF Bootstrap, right
<1> HIDE DEF inserted
<1> QED
  BY <1>1, <1>4, <1>5, <1>6, NeighbourSetAssumption DEF IInv, CachesBounded

(* The destination's cache after it has served the request, and what it    *)
(* answers.                                                                *)
LEMMA ServedFacts ==
    ASSUME IInv, NEW dest \in Ids, NEW set \in Seq(Ids), Len(set) <= ShuffleSize,
           NEW selection \in Samples(DOMAIN caches[dest], ShuffleSize)
    PROVE  LET served == Incorporate(dest, caches[dest], PointersTo(set), selection) IN
           /\ IsCache(served.cache)
           /\ dest \notin DOMAIN served.cache
           /\ Size(served.cache) <= NumNeighbours
           /\ served.replace \in Seq(Ids)
           /\ Len(served.replace) <= ShuffleSize
<1> DEFINE cache == caches[dest]
           served == Incorporate(dest, cache, PointersTo(set), selection)
<1>1. /\ IsCache(cache) /\ dest \notin DOMAIN cache
      /\ Size(cache) <= NumNeighbours
      /\ NumNeighbours \in Nat /\ NumNeighbours <= NumNeighbours
  BY NeighbourSetAssumption DEF IInv, CachesBounded
<1>2. /\ PointersTo(set) \in Seq(Pointer)
      /\ Len(PointersTo(set)) \in Nat
      /\ Len(PointersTo(set)) <= ShuffleSize
  BY PointersToFacts
<1>3. selection \in Samples(DOMAIN cache, ShuffleSize)
  OBVIOUS
<1> HIDE DEF cache
<1>4. /\ selection \in Seq(Ids)
      /\ IsInjective(selection)
      /\ Len(selection) <= ShuffleSize
      /\ Bounded(DOMAIN cache, Range(selection), Len(PointersTo(set)), NumNeighbours)
  BY <1>1, <1>2, <1>3, SelectionBounded
<1>5. Size(served.cache) <= NumNeighbours
  BY <1>1, <1>2, <1>4, IncorporateCapacity
<1>6. /\ IsCache(served.cache)
      /\ dest \notin DOMAIN served.cache
      /\ served.replace \in Seq(Ids)
      /\ Len(served.replace) <= Len(selection)
  BY <1>1, <1>2, <1>4, IncorporateFacts
<1> HIDE DEF served
<1>7. Len(served.replace) <= ShuffleSize
  BY <1>4, <1>6, NeighbourSetAssumption
<1> QED
  BY <1>5, <1>6, <1>7 DEF served, cache

(* The sender's cache after the answer, without the destination.           *)
LEMMA AnsweredFacts ==
    ASSUME IInv, NEW n \in Ids, NEW dest \in DOMAIN caches[n],
           NEW set \in ShuffleSets(caches[n], dest, n),
           NEW items \in Seq(Pointer), Len(items) <= ShuffleSize
    PROVE  LET kept == Remove(Incorporate(n, caches[n], items, set).cache, dest) IN
           /\ IsCache(kept)
           /\ n \notin DOMAIN kept
           /\ Size(kept) <= NumNeighbours
<1> DEFINE cache == caches[n]
           answered == Incorporate(n, cache, items, set).cache
<1>1. /\ IsCache(cache) /\ n \notin DOMAIN cache
      /\ Size(cache) <= NumNeighbours
      /\ Size(cache) \in Nat
  BY SizeType DEF IInv, CachesBounded
<1>2. /\ dest \in DOMAIN cache
      /\ set \in ShuffleSets(cache, dest, n)
      /\ Len(items) \in Nat
  OBVIOUS
<1> HIDE DEF cache
<1>3. /\ set \in Seq(Ids)
      /\ IsInjective(set)
      /\ dest \notin Range(set)
  BY <1>1, <1>2, ShuffleSetFacts
<1>4. Bounded(DOMAIN cache, Range(set), Len(items), NumNeighbours + 1)
  BY <1>1, <1>2, ShuffleSetBounded
<1>5. \A i \in 1..Len(set) : set[i] # dest
  BY <1>3 DEF Range
<1>6. Size(answered) <= NumNeighbours + 1
  <2> DEFINE limit == NumNeighbours + 1
  <2>1. limit \in Nat
    BY NeighbourSetAssumption
  <2>2. Bounded(DOMAIN cache, Range(set), Len(items), limit)
    BY <1>4
  <2> HIDE DEF limit
  <2>3. Size(answered) <= limit
    BY <1>1, <1>3, <2>1, <2>2, IncorporateCapacity
  <2> QED
    BY <2>3 DEF limit
<1>7. IsCache(answered) /\ n \notin DOMAIN answered
  BY <1>1, <1>3, IncorporateFacts
<1>8. dest \in DOMAIN answered
  BY <1>1, <1>2, <1>3, <1>5, IncorporateKeeps DEF Keeps
<1> HIDE DEF answered
<1>9. /\ IsCache(Remove(answered, dest))
      /\ DOMAIN Remove(answered, dest) = DOMAIN answered \ {dest}
  BY <1>7, RemoveFacts
<1>10. Size(Remove(answered, dest)) = Size(answered) - 1 /\ Size(answered) \in Nat
  BY <1>7, <1>8, <1>9, SizeFacts DEF Size
<1>11. Size(Remove(answered, dest)) <= NumNeighbours
  BY <1>6, <1>10, NeighbourSetAssumption
<1> QED
  BY <1>7, <1>9, <1>11 DEF answered, cache

LEMMA ShuffleIInv ==
    ASSUME IInv, NEW n \in Ids, Shuffle(n)
    PROVE  IInv'
<1>0. PICK dest \in DOMAIN caches[n] :
        \E set \in ShuffleSets(caches[n], dest, n),
           selection \in Samples(DOMAIN caches[dest], ShuffleSize) :
            Exchange(n, dest, set, selection)
  BY DEF Shuffle
<1>1. PICK set \in ShuffleSets(caches[n], dest, n),
           selection \in Samples(DOMAIN caches[dest], ShuffleSize) :
        Exchange(n, dest, set, selection)
  BY <1>0
<1> DEFINE served == Incorporate(dest, caches[dest], PointersTo(set), selection)
           items == PointersTo(served.replace)
           kept == Remove(Incorporate(n, caches[n], items, set).cache, dest)
<1>2. dest \in Ids /\ dest # n
  BY DEF IInv, IsCache
<1>3. set \in Seq(Ids) /\ Len(set) <= ShuffleSize
  <2>1. Size(caches[n]) \in Nat
    BY SizeType DEF IInv
  <2>2. /\ set \in Seq(Ids)
        /\ Len(set) = IF Size(caches[n]) < ShuffleSize
                      THEN Size(caches[n]) ELSE ShuffleSize
    <3>1. IsCache(caches[n]) /\ n \notin DOMAIN caches[n]
      BY DEF IInv
    <3> QED
      BY <3>1, ShuffleSetFacts
  <2> QED
    BY <2>1, <2>2, NeighbourSetAssumption
<1>4. /\ IsCache(served.cache)
      /\ dest \notin DOMAIN served.cache
      /\ Size(served.cache) <= NumNeighbours
      /\ served.replace \in Seq(Ids)
      /\ Len(served.replace) <= ShuffleSize
  BY <1>2, <1>3, ServedFacts
<1>5. caches' = [caches EXCEPT ![dest] = served.cache, ![n] = kept]
  BY <1>1 DEF Exchange
<1> HIDE DEF served
<1>6. items \in Seq(Pointer) /\ Len(items) <= ShuffleSize
  BY <1>4, PointersToFacts
<1> HIDE DEF items
<1>7. IsCache(kept) /\ n \notin DOMAIN kept /\ Size(kept) <= NumNeighbours
  BY <1>6, AnsweredFacts
<1> HIDE DEF kept
<1> QED
  BY <1>2, <1>4, <1>5, <1>7 DEF IInv, CachesBounded

LEMMA SpecIInv == Spec => []IInv
<1>1. Init => IInv
  BY InitIInv
<1>2. IInv /\ [Next]_caches => IInv'
  <2> SUFFICES ASSUME IInv, [Next]_caches PROVE IInv'
    OBVIOUS
  <2>1. ASSUME NEW n \in Ids, Bootstrap(n) PROVE IInv'
    BY <2>1, BootstrapIInv
  <2>2. ASSUME NEW n \in Ids, Shuffle(n) PROVE IInv'
    BY <2>2, ShuffleIInv
  <2>3. CASE UNCHANGED caches
    BY <2>3 DEF IInv, CachesBounded
  <2> QED
    BY <2>1, <2>2, <2>3 DEF Next, Tick
<1> QED
  BY <1>1, <1>2, PTL DEF Spec

(* In the local simulation no cache ever exceeds its capacity, though the  *)
(* loop that incorporates a response does not see to it.                   *)
THEOREM CachesKeepCapacity == Spec => []CachesBounded
<1>1. IInv => CachesBounded
  BY DEF IInv
<1> QED
  BY <1>1, SpecIInv, PTL
===============================================================================
