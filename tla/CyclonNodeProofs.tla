-------------------------- MODULE CyclonNodeProofs --------------------------
(***************************************************************************)
(* Theorems about CyclonNode: its type invariant, its safety invariants,   *)
(* the capacity of the cache under requests, and the refinement of         *)
(* NodeLifecycle, for every set of ids and every size; and about DemoPage, *)
(* that the listeners of the page miss no change of the node's cache.      *)
(***************************************************************************)
EXTENDS DemoPage, NeighbourSetProofs

USE NeighbourSetAssumption, CyclonNodeAssumption

(* The array of the last shuffle names no node twice, nor the neighbour    *)
(* engaged: executeShuffle overwrites that one by the node itself.         *)
LastArrayFits ==
    lastShuffle # None =>
        /\ IsInjective(pending[lastShuffle].set)
        /\ pending[lastShuffle].dest \notin Range(pending[lastShuffle].set)

(* The inductive invariant: the invariants need one another, since what    *)
(* an action does to the cache depends on the shuffle that is the last.    *)
IInv ==
    /\ TypeOK
    /\ NeverKnowsSelf
    /\ AtMostOneActivity
    /\ LastShuffleAwaitsResponse
    /\ ReplyStaysInCache
    /\ LastArrayFits

------------------------------------------------------------------------------
(* Parts of the actions.                                                   *)

LEMMA IdArrayFacts ==
    \A a : a \in IdArray <=> a \in Seq(Ids) /\ Len(a) <= ShuffleSize
<1>1. ASSUME NEW a \in IdArray
      PROVE  a \in Seq(Ids) /\ Len(a) <= ShuffleSize
  <2>1. PICK n \in 0..ShuffleSize : a \in [1..n -> Ids]
    BY DEF IdArray
  <2> QED
    BY <2>1
<1>2. ASSUME NEW a \in Seq(Ids), Len(a) <= ShuffleSize
      PROVE  a \in IdArray
  <2>1. Len(a) \in 0..ShuffleSize /\ a \in [1..Len(a) -> Ids]
    BY <1>2
  <2> QED
    BY <2>1 DEF IdArray
<1> QED
  BY <1>1, <1>2

LEMMA SweptFacts ==
    ASSUME TypeOK
    PROVE  /\ IsCache(Swept(neighbours))
           /\ DOMAIN Swept(neighbours) \subseteq DOMAIN neighbours
           /\ lastShuffle # None
                => LastShuffleNodeId \notin DOMAIN Swept(neighbours)
<1>1. CASE lastShuffle = None
  BY <1>1 DEF TypeOK, Swept
<1>2. CASE lastShuffle # None
  <2>1. IsCache(neighbours)
    BY DEF TypeOK
  <2>2. /\ IsCache(Remove(neighbours, LastShuffleNodeId))
        /\ DOMAIN Remove(neighbours, LastShuffleNodeId)
                = DOMAIN neighbours \ {LastShuffleNodeId}
    BY <2>1, RemoveFacts
  <2> QED
    BY <1>2, <2>2 DEF Swept
<1> QED
  BY <1>1, <1>2

------------------------------------------------------------------------------
(* The initial states and each action.                                     *)

LEMMA InitIInv == Init => IInv
<1> SUFFICES ASSUME Init PROVE IInv
  OBVIOUS
<1>1. IsCache(EmptyCache) /\ DOMAIN EmptyCache = {}
  BY FS_EmptySet DEF IsCache, EmptyCache
<1>2. TypeOK
  BY <1>1 DEF Init, TypeOK
<1>3. /\ NeverKnowsSelf /\ LastShuffleAwaitsResponse
      /\ ReplyStaysInCache /\ LastArrayFits
  BY <1>1 DEF Init, NeverKnowsSelf, LastShuffleAwaitsResponse,
              ReplyStaysInCache, LastArrayFits
<1>4. AtMostOneActivity
  BY DEF Init, AtMostOneActivity
<1> QED
  BY <1>2, <1>3, <1>4 DEF IInv

LEMMA StartIInv == IInv /\ Start => IInv'
BY DEF IInv, Start, StartShuffling, TypeOK, NeverKnowsSelf, AtMostOneActivity,
       LastShuffleAwaitsResponse, ReplyStaysInCache, LastArrayFits

LEMMA BeginShuffleIInv ==
    ASSUME IInv, NEW k \in Shuffles, BeginShuffle(k)
    PROVE  IInv'
<1> DEFINE aged == IncrementAges(Swept(neighbours))
<1>1. /\ IsCache(aged)
      /\ DOMAIN aged \subseteq DOMAIN neighbours
  BY SweptFacts, IncrementAgesFacts DEF IInv
<1>0. PICK oldest \in OldestIds(aged) :
        \E set \in ShuffleSets(aged, oldest, Self) :
            pending' = [pending EXCEPT
                ![k] = [phase |-> "opening", dest |-> oldest, set |-> set]]
  BY DEF BeginShuffle
<1>2. PICK set \in ShuffleSets(aged, oldest, Self) :
        pending' = [pending EXCEPT
            ![k] = [phase |-> "opening", dest |-> oldest, set |-> set]]
  BY <1>0
<1>3. neighbours' = aged /\ lastShuffle' = k /\ reply' = {}
  BY DEF BeginShuffle
<1>4. UNCHANGED <<started, shuffleTimer, intervals, bootstraps>>
  BY DEF BeginShuffle, timerVars
<1> HIDE DEF aged
<1>5. oldest \in Ids
  BY <1>1 DEF OldestIds, IsCache
<1>6. set \in IdArray /\ IsInjective(set) /\ oldest \notin Range(set)
  <2>1. Self \notin DOMAIN aged /\ oldest \in DOMAIN aged /\ Size(aged) \in Nat
    BY <1>1, SizeType DEF IInv, NeverKnowsSelf, OldestIds
  <2>2. /\ set \in Seq(Ids)
        /\ IsInjective(set)
        /\ Len(set) = IF Size(aged) < ShuffleSize THEN Size(aged) ELSE ShuffleSize
        /\ oldest \notin Range(set)
    BY <1>1, <2>1, ShuffleSetFacts
  <2> QED
    BY <2>1, <2>2, IdArrayFacts
<1>7. [phase |-> "opening", dest |-> oldest, set |-> set] \in Shuffle
  BY <1>5, <1>6 DEF Shuffle
<1>8. TypeOK'
  BY <1>1, <1>2, <1>3, <1>4, <1>7 DEF IInv, TypeOK
<1>9. NeverKnowsSelf' /\ AtMostOneActivity' /\ ReplyStaysInCache'
  BY <1>1, <1>3, <1>4
  DEF IInv, NeverKnowsSelf, AtMostOneActivity, ReplyStaysInCache
<1>10. LastShuffleAwaitsResponse'
  BY <1>2, <1>3 DEF IInv, TypeOK, LastShuffleAwaitsResponse
<1>11. LastArrayFits'
  BY <1>2, <1>3, <1>6 DEF IInv, TypeOK, LastArrayFits
<1> QED
  BY <1>8, <1>9, <1>10, <1>11 DEF IInv

LEMMA BeginBootstrapIInv == IInv /\ BeginBootstrap => IInv'
<1> SUFFICES ASSUME IInv, BeginBootstrap PROVE IInv'
  OBVIOUS
<1>1. /\ IsCache(neighbours')
      /\ DOMAIN neighbours' = {}
  BY SweptFacts DEF IInv, BeginBootstrap
<1>2. intervals' \in Nat /\ bootstraps' \in Nat
  BY DEF IInv, TypeOK, AtMostOneActivity, BeginBootstrap, StopShuffling
<1>3. TypeOK'
  BY <1>1, <1>2 DEF IInv, TypeOK, BeginBootstrap, StopShuffling
<1>4. AtMostOneActivity'
  BY DEF IInv, TypeOK, AtMostOneActivity, BeginBootstrap, StopShuffling
<1>5. /\ NeverKnowsSelf' /\ LastShuffleAwaitsResponse'
      /\ ReplyStaysInCache' /\ LastArrayFits'
  BY <1>1 DEF NeverKnowsSelf, LastShuffleAwaitsResponse, ReplyStaysInCache,
              LastArrayFits, BeginBootstrap
<1> QED
  BY <1>3, <1>4, <1>5 DEF IInv

LEMMA BootstrapSucceedsIInv == IInv /\ BootstrapSucceeds => IInv'
<1> SUFFICES ASSUME IInv, BootstrapSucceeds PROVE IInv'
  OBVIOUS
<1>0. PICK seq \in BootstrapResults : InsertPeers(seq)
  BY DEF BootstrapSucceeds
<1> DEFINE peers == DOMAIN seq
<1>1. /\ peers \subseteq Ids \ {Self}
      /\ IsFiniteSet(peers)
      /\ seq \in [peers -> 0..MaxSeq]
      /\ neighbours' = [id \in DOMAIN neighbours \cup peers |->
                IF id \in peers
                THEN [id |-> id, age |-> 0, seq |-> seq[id]]
                ELSE neighbours[id]]
  BY <1>0 DEF BootstrapResults, InsertPeers
<1> HIDE DEF peers
<1>2. IsFiniteSet(DOMAIN neighbours \cup peers)
  BY <1>1, FS_Union DEF IInv, TypeOK, IsCache
<1>3. IsCache(neighbours')
  BY <1>1, <1>2 DEF IInv, TypeOK, IsCache, Pointer
<1>4. TypeOK'
  BY <1>0, <1>3 DEF IInv, TypeOK, InsertPeers, StartShuffling
<1>5. NeverKnowsSelf'
  BY <1>1 DEF IInv, NeverKnowsSelf
<1>6. /\ AtMostOneActivity' /\ LastShuffleAwaitsResponse'
      /\ ReplyStaysInCache' /\ LastArrayFits'
  BY <1>0 DEF IInv, TypeOK, AtMostOneActivity, LastShuffleAwaitsResponse,
         ReplyStaysInCache, LastArrayFits, InsertPeers, StartShuffling
<1> QED
  BY <1>4, <1>5, <1>6 DEF IInv

LEMMA BootstrapFailsIInv == IInv /\ BootstrapFails => IInv'
BY DEF IInv, BootstrapFails, timerVars, TypeOK, NeverKnowsSelf,
       AtMostOneActivity, LastShuffleAwaitsResponse, ReplyStaysInCache,
       LastArrayFits

LEMMA HandleShuffleRequestIInv ==
    ASSUME IInv, NEW received \in PointerList, HandleShuffleRequest(received)
    PROVE  IInv'
<1>1. PICK selection \in Samples(DOMAIN neighbours, ShuffleSize) :
        LET result == Incorporate(Self, neighbours, received, selection)
        IN  neighbours' = result.cache /\ reply' = Range(result.replace)
  BY DEF HandleShuffleRequest, ServeRequest
<1> DEFINE result == Incorporate(Self, neighbours, received, selection)
           capacity == IF Size(neighbours) < NumNeighbours
                       THEN NumNeighbours ELSE Size(neighbours)
<1>2. IsCache(neighbours) /\ Size(neighbours) \in Nat /\ TypeOK
  BY SizeType DEF IInv, TypeOK
<1>3. /\ capacity \in Nat
      /\ NumNeighbours <= capacity
      /\ Size(neighbours) <= capacity
  BY <1>2
<1> HIDE DEF capacity
<1>4. /\ received \in Seq(Pointer)
      /\ selection \in Seq(Ids)
      /\ IsInjective(selection)
      /\ Range(selection) \subseteq DOMAIN neighbours
      /\ Bounded(DOMAIN neighbours, Range(selection), Len(received), capacity)
  <2>1. /\ received \in Seq(Pointer)
        /\ Len(received) \in Nat
        /\ Len(received) <= ShuffleSize
    BY PointerListFacts
  <2> QED
    BY <1>2, <1>3, <2>1, SelectionBounded
<1>5. IsCache(result.cache)
      /\ (Self \notin DOMAIN neighbours => Self \notin DOMAIN result.cache)
  BY <1>2, <1>4, IncorporateFacts
<1>6. Range(result.replace) \subseteq DOMAIN result.cache
  <2>1. Range(result.replace) \ DOMAIN result.cache
            \subseteq Range(selection) \ DOMAIN neighbours
    BY <1>2, <1>3, <1>4, IncorporateCapacity
  <2> QED
    BY <1>4, <2>1
<1>7. neighbours' = result.cache /\ reply' = Range(result.replace)
  BY <1>1
<1>8. UNCHANGED <<started, shuffleTimer, intervals, bootstraps, pending,
                  lastShuffle>>
  BY DEF HandleShuffleRequest, ServeRequest, timerVars
<1> HIDE DEF result
<1>9. TypeOK'
  BY <1>5, <1>6, <1>7, <1>8 DEF IInv, TypeOK, IsCache
<1>10. NeverKnowsSelf' /\ ReplyStaysInCache'
  BY <1>5, <1>6, <1>7 DEF IInv, NeverKnowsSelf, ReplyStaysInCache
<1>11. AtMostOneActivity' /\ LastShuffleAwaitsResponse' /\ LastArrayFits'
  BY <1>8 DEF IInv, AtMostOneActivity, LastShuffleAwaitsResponse, LastArrayFits
<1> QED
  BY <1>9, <1>10, <1>11 DEF IInv

LEMMA SendShuffleRequestIInv ==
    ASSUME IInv, NEW k \in Shuffles, SendShuffleRequest(k)
    PROVE  IInv'
<1>1. pending[k] \in Shuffle
  BY DEF IInv, TypeOK, SendShuffleRequest, NoShuffle
<1>2. [pending[k] EXCEPT !.phase = "sent"] \in Shuffle
  BY <1>1 DEF Shuffle
<1>3. pending' = [pending EXCEPT ![k] = [pending[k] EXCEPT !.phase = "sent"]]
  BY DEF SendShuffleRequest
<1>4. TypeOK'
  BY <1>2, <1>3 DEF IInv, TypeOK, SendShuffleRequest, timerVars
<1>5. LastShuffleAwaitsResponse'
  BY <1>1, <1>3 DEF IInv, TypeOK, LastShuffleAwaitsResponse,
                    SendShuffleRequest, Shuffle
<1>6. NeverKnowsSelf' /\ AtMostOneActivity' /\ ReplyStaysInCache'
  BY DEF IInv, NeverKnowsSelf, AtMostOneActivity, ReplyStaysInCache,
         SendShuffleRequest, timerVars
<1>7. LastArrayFits'
  <2>1. \A j \in Shuffles : /\ pending'[j].set = pending[j].set
                            /\ pending'[j].dest = pending[j].dest
    BY <1>1, <1>3 DEF IInv, TypeOK, Shuffle
  <2> QED
    BY <2>1 DEF IInv, TypeOK, LastArrayFits, SendShuffleRequest
<1> QED
  BY <1>4, <1>5, <1>6, <1>7 DEF IInv

LEMMA HandleShuffleResponseIInv ==
    ASSUME IInv, NEW k \in Shuffles, NEW response \in PointerList,
           HandleShuffleResponse(k, response)
    PROVE  IInv'
<1>1. /\ UNCHANGED <<started, shuffleTimer, intervals, bootstraps>>
      /\ reply' = {}
      /\ pending[k].phase = "sent"
  BY DEF HandleShuffleResponse, timerVars
<1>2. pending[k] \in Shuffle
  BY <1>1 DEF IInv, TypeOK, NoShuffle
<1>3. CASE IgnoreResponse(k)
  <2>1. [pending[k] EXCEPT !.phase = "answered"] \in Shuffle
    BY <1>2 DEF Shuffle
  <2>2. TypeOK'
    BY <1>1, <1>3, <2>1 DEF IInv, TypeOK, IgnoreResponse
  <2>3. lastShuffle # k
    BY <1>3 DEF IInv, TypeOK, IgnoreResponse, LastShuffleNodeId
  <2>4. LastShuffleAwaitsResponse'
    BY <1>3, <2>3 DEF IInv, TypeOK, LastShuffleAwaitsResponse, IgnoreResponse
  <2>5. NeverKnowsSelf' /\ AtMostOneActivity' /\ ReplyStaysInCache'
    BY <1>1, <1>3 DEF IInv, NeverKnowsSelf, AtMostOneActivity,
                      ReplyStaysInCache, IgnoreResponse
  <2>6. LastArrayFits'
    BY <1>3, <2>3 DEF IInv, TypeOK, LastArrayFits, IgnoreResponse
  <2> QED
    BY <2>2, <2>4, <2>5, <2>6 DEF IInv
<1>4. CASE HandleAwaitedResponse(k, response)
  <2> DEFINE set == pending[lastShuffle].set
             result == Incorporate(Self, neighbours, response, set)
  <2>1. lastShuffle # None /\ lastShuffle \in Shuffles
    BY <1>2, <1>4
    DEF IInv, TypeOK, HandleAwaitedResponse, LastShuffleNodeId, Shuffle
  <2>2. pending[lastShuffle] \in Shuffle
    BY <2>1 DEF IInv, TypeOK, LastShuffleAwaitsResponse, NoShuffle
  <2>3. set \in IdArray /\ set \in Seq(Ids) /\ Len(set) <= ShuffleSize
    BY <2>2, IdArrayFacts DEF Shuffle
  <2>4. IsCache(neighbours) /\ response \in Seq(Pointer)
    BY PointerListFacts DEF IInv, TypeOK
  <2> HIDE DEF set
  <2>5. /\ IsCache(result.cache)
        /\ Self \notin DOMAIN neighbours => Self \notin DOMAIN result.cache
        /\ result.replace \in Seq(Ids)
        /\ Len(result.replace) <= Len(set)
    BY <2>3, <2>4, IncorporateFacts
  <2> HIDE DEF result
  <2>6. result.replace \in IdArray
    <3>1. Len(result.replace) \in Nat /\ Len(set) \in Nat
      BY <2>3, <2>5
    <3> QED
      BY <2>3, <2>5, <3>1, IdArrayFacts
  <2>7. /\ IsCache(neighbours')
        /\ DOMAIN neighbours' \subseteq DOMAIN result.cache
    <3>1. neighbours' = Remove(result.cache, LastShuffleNodeId)
      BY <1>4 DEF HandleAwaitedResponse, result, set
    <3> QED
      BY <2>5, <3>1, RemoveFacts
  <2>8. pending' \in [Shuffles -> Shuffle \cup {NoShuffle}]
    <3>1. pending' = [pending EXCEPT ![lastShuffle].set = result.replace,
                                     ![k].phase = "answered"]
      BY <1>4 DEF HandleAwaitedResponse, result, set
    <3>2. [pending[lastShuffle] EXCEPT !.set = result.replace] \in Shuffle
      BY <2>2, <2>6 DEF Shuffle
    <3> DEFINE popped == [pending EXCEPT ![lastShuffle].set = result.replace]
    <3>3. /\ popped \in [Shuffles -> Shuffle \cup {NoShuffle}]
          /\ popped[k] \in Shuffle
      BY <1>2, <2>1, <3>2 DEF IInv, TypeOK
    <3>4. pending' = [popped EXCEPT ![k].phase = "answered"]
      BY <3>1
    <3> HIDE DEF popped
    <3>5. [popped[k] EXCEPT !.phase = "answered"] \in Shuffle
      BY <3>3 DEF Shuffle
    <3> QED
      BY <3>3, <3>4, <3>5
  <2>9. lastShuffle' = None
    BY <1>4 DEF HandleAwaitedResponse
  <2>10. TypeOK'
    BY <1>1, <2>7, <2>8, <2>9 DEF IInv, TypeOK
  <2>11. /\ NeverKnowsSelf' /\ ReplyStaysInCache'
         /\ LastShuffleAwaitsResponse' /\ LastArrayFits'
    BY <1>1, <2>5, <2>7, <2>9
    DEF IInv, NeverKnowsSelf, ReplyStaysInCache, LastShuffleAwaitsResponse,
        LastArrayFits
  <2>12. AtMostOneActivity'
    BY <1>1 DEF IInv, AtMostOneActivity
  <2> QED
    BY <2>10, <2>11, <2>12 DEF IInv
<1> QED
  BY <1>3, <1>4 DEF HandleShuffleResponse

LEMMA SettleIInv ==
    ASSUME IInv, NEW k \in Shuffles, Settle(k)
    PROVE  IInv'
<1>1. IsCache(neighbours') /\ DOMAIN neighbours' \subseteq DOMAIN neighbours
  BY SweptFacts DEF IInv, Settle
<1>2. TypeOK'
  BY <1>1 DEF IInv, TypeOK, Settle, timerVars
<1>3. NeverKnowsSelf' /\ AtMostOneActivity'
  BY <1>1 DEF IInv, NeverKnowsSelf, AtMostOneActivity, Settle, timerVars
<1>4. LastShuffleAwaitsResponse' /\ ReplyStaysInCache' /\ LastArrayFits'
  BY DEF LastShuffleAwaitsResponse, ReplyStaysInCache, LastArrayFits, Settle
<1> QED
  BY <1>2, <1>3, <1>4 DEF IInv

LEMMA HangIInv ==
    ASSUME IInv, NEW k \in Shuffles, Hang(k)
    PROVE  IInv'
<1>1. TypeOK'
  BY DEF IInv, TypeOK, Hang, timerVars
<1>2. LastShuffleAwaitsResponse' /\ LastArrayFits'
  BY DEF IInv, TypeOK, LastShuffleAwaitsResponse, LastArrayFits, Hang
<1>3. NeverKnowsSelf' /\ AtMostOneActivity' /\ ReplyStaysInCache'
  BY DEF IInv, NeverKnowsSelf, AtMostOneActivity, ReplyStaysInCache, Hang,
         timerVars
<1> QED
  BY <1>1, <1>2, <1>3 DEF IInv

LEMMA NextIInv == IInv /\ [Next]_vars => IInv'
<1> SUFFICES ASSUME IInv, [Next]_vars PROVE IInv'
  OBVIOUS
<1>1. CASE Start
  BY <1>1, StartIInv
<1>2. CASE Tick
  BY <1>2, BeginShuffleIInv, BeginBootstrapIInv DEF Tick
<1>3. CASE BootstrapSucceeds
  BY <1>3, BootstrapSucceedsIInv
<1>4. CASE BootstrapFails
  BY <1>4, BootstrapFailsIInv
<1>5. CASE \E received \in PointerList : HandleShuffleRequest(received)
  BY <1>5, HandleShuffleRequestIInv
<1>6. ASSUME NEW k \in Shuffles, SendShuffleRequest(k)
      PROVE  IInv'
  BY <1>6, SendShuffleRequestIInv
<1>7. ASSUME NEW k \in Shuffles,
             \E response \in PointerList : HandleShuffleResponse(k, response)
      PROVE  IInv'
  BY <1>7, HandleShuffleResponseIInv
<1>8. ASSUME NEW k \in Shuffles, Settle(k)
      PROVE  IInv'
  BY <1>8, SettleIInv
<1>9. ASSUME NEW k \in Shuffles, Hang(k)
      PROVE  IInv'
  BY <1>9, HangIInv
<1>10. CASE UNCHANGED vars
  BY <1>10 DEF vars, IInv, TypeOK, NeverKnowsSelf, AtMostOneActivity,
               LastShuffleAwaitsResponse, ReplyStaysInCache, LastArrayFits
<1> QED
  BY <1>1, <1>2, <1>3, <1>4, <1>5, <1>6, <1>7, <1>8, <1>9, <1>10 DEF Next

------------------------------------------------------------------------------
(* The theorems.                                                           *)

LEMMA SpecIInv == Spec => []IInv
<1>1. Init => IInv
  BY InitIInv
<1>2. IInv /\ [Next]_vars => IInv'
  BY NextIInv
<1> QED
  BY <1>1, <1>2, PTL DEF Spec

(* Every state of the node is well-formed: the entries of the cache carry  *)
(* the id they are filed under, and no shuffle array exceeds ShuffleSize.  *)
THEOREM TypeCorrect == Spec => []TypeOK
<1>1. IInv => TypeOK
  BY DEF IInv
<1> QED
  BY <1>1, SpecIInv, PTL

(* A node never has itself in its cache, whatever pointers its peers and   *)
(* its bootstrap send it (CyclonNodeImpl.notMe).                           *)
THEOREM SelfIsNeverKnown == Spec => []NeverKnowsSelf
<1>1. IInv => NeverKnowsSelf
  BY DEF IInv
<1> QED
  BY <1>1, SpecIInv, PTL

(* At most one interval runs, and none during a bootstrap.                 *)
THEOREM OneActivity == Spec => []AtMostOneActivity
<1>1. IInv => AtMostOneActivity
  BY DEF IInv
<1> QED
  BY <1>1, SpecIInv, PTL

(* lastShuffleNodeId always refers to a shuffle still without a response.  *)
THEOREM LastShuffleIsOutstanding == Spec => []LastShuffleAwaitsResponse
<1>1. IInv => LastShuffleAwaitsResponse
  BY DEF IInv
<1> QED
  BY <1>1, SpecIInv, PTL

(* handleShuffleRequest never hands out an entry it has just evicted.      *)
THEOREM ReplyIsInCache == Spec => []ReplyStaysInCache
<1>1. IInv => ReplyStaysInCache
  BY DEF IInv
<1> QED
  BY <1>1, SpecIInv, PTL

------------------------------------------------------------------------------
(* The capacity of the cache.                                              *)

Capacity ==
    IF Size(neighbours) > NumNeighbours THEN Size(neighbours) ELSE NumNeighbours

Engaged == Cardinality({LastShuffleNodeId} \cap DOMAIN neighbours)

LEMMA CapacityFacts ==
    ASSUME IInv
    PROVE  /\ IsCache(neighbours)
           /\ Size(neighbours) \in Nat
           /\ Capacity \in Nat
           /\ NumNeighbours <= Capacity
           /\ Size(neighbours) <= Capacity
BY SizeType DEF IInv, TypeOK, Capacity

LEMMA EngagedFacts ==
    ASSUME IInv
    PROVE  /\ Engaged \in Nat
           /\ Engaged = IF LastShuffleNodeId \in DOMAIN neighbours THEN 1 ELSE 0
           /\ lastShuffle = None => Engaged = 0
<1>1. Cardinality({}) = 0 /\ Cardinality({LastShuffleNodeId}) = 1
  BY FS_EmptySet, FS_Singleton
<1>2. CASE LastShuffleNodeId \in DOMAIN neighbours
  <2>1. {LastShuffleNodeId} \cap DOMAIN neighbours = {LastShuffleNodeId}
    BY <1>2
  <2>2. lastShuffle # None
    BY <1>2 DEF LastShuffleNodeId, IInv, TypeOK, IsCache
  <2> QED
    BY <1>1, <1>2, <2>1, <2>2 DEF Engaged
<1>3. CASE LastShuffleNodeId \notin DOMAIN neighbours
  <2>1. {LastShuffleNodeId} \cap DOMAIN neighbours = {}
    BY <1>3
  <2> QED
    BY <1>1, <1>3, <2>1 DEF Engaged
<1> QED
  BY <1>2, <1>3

LEMMA UnpaidFacts ==
    ASSUME IInv
    PROVE  /\ Unpaid \in Nat
           /\ \A left \in 0..ShuffleSize : lastShuffle # None
                => Bounded(DOMAIN neighbours, Range(pending[lastShuffle].set),
                           left, Capacity + Unpaid)
<1>1. CASE lastShuffle = None
  BY <1>1 DEF Unpaid
<1>2. CASE lastShuffle # None
  <2> DEFINE set == pending[lastShuffle].set
  <2>1. pending[lastShuffle] \in Shuffle
    BY <1>2 DEF IInv, TypeOK, LastShuffleAwaitsResponse, NoShuffle
  <2>2. set \in Seq(Ids) /\ Len(set) <= ShuffleSize /\ IsInjective(set)
    BY <1>2, <2>1, IdArrayFacts DEF Shuffle, IInv, LastArrayFits
  <2>3. Unpaid = ShuffleSize - Cardinality(Range(set) \cap DOMAIN neighbours)
    BY <1>2 DEF Unpaid
  <2> HIDE DEF set
  <2>4. ASSUME NEW left \in 0..ShuffleSize
        PROVE  /\ Unpaid \in Nat
               /\ Bounded(DOMAIN neighbours, Range(set), left, Capacity + Unpaid)
    <3>1. left \in Nat /\ left <= ShuffleSize
      OBVIOUS
    <3> QED
      BY <2>2, <2>3, <3>1, CapacityFacts, StaleArrayBounded
  <2>5. 0 \in 0..ShuffleSize
    OBVIOUS
  <2> QED
    BY <2>4, <2>5 DEF set
<1> QED
  BY <1>1, <1>2

(* Serving requests never takes the cache (further) over its capacity.     *)
LEMMA RequestKeepsCapacity ==
    ASSUME IInv, NEW received \in PointerList, HandleShuffleRequest(received)
    PROVE  Size(neighbours') <= Capacity
<1>1. PICK selection \in Samples(DOMAIN neighbours, ShuffleSize) :
        neighbours' = Incorporate(Self, neighbours, received, selection).cache
  BY DEF HandleShuffleRequest, ServeRequest
<1>2. /\ received \in Seq(Pointer)
      /\ Len(received) \in Nat
      /\ Len(received) <= ShuffleSize
  BY PointerListFacts
<1>3. /\ selection \in Seq(Ids)
      /\ IsInjective(selection)
      /\ Bounded(DOMAIN neighbours, Range(selection), Len(received), Capacity)
  BY <1>2, CapacityFacts, SelectionBounded
<1>4. Size(Incorporate(Self, neighbours, received, selection).cache) <= Capacity
  BY <1>2, <1>3, CapacityFacts, IncorporateCapacity
<1> QED
  BY <1>1, <1>4

(* Nor does a response, but for what its array has no entry for; and the   *)
(* neighbour engaged, which the array does not name, then leaves.          *)
LEMMA ResponseCapacity ==
    ASSUME IInv, NEW k \in Shuffles, NEW response \in PointerList,
           HandleAwaitedResponse(k, response), pending[k].phase = "sent"
    PROVE  Size(neighbours') <= Capacity + Unpaid - Engaged
<1> DEFINE set == pending[lastShuffle].set
           answered == Incorporate(Self, neighbours, response, set).cache
<1>1. lastShuffle # None
  <2>1. pending[k] \in Shuffle
    BY DEF IInv, TypeOK, NoShuffle
  <2> QED
    BY <2>1 DEF HandleAwaitedResponse, LastShuffleNodeId, Shuffle
<1>2. pending[lastShuffle] \in Shuffle
  BY <1>1 DEF IInv, TypeOK, LastShuffleAwaitsResponse, NoShuffle
<1>3. /\ set \in Seq(Ids)
      /\ IsInjective(set)
      /\ \A i \in 1..Len(set) : set[i] # LastShuffleNodeId
  BY <1>1, <1>2, IdArrayFacts
  DEF Shuffle, IInv, LastArrayFits, LastShuffleNodeId, Range
<1>4. response \in Seq(Pointer) /\ Len(response) \in 0..ShuffleSize
  BY PointerListFacts
<1>5. /\ Unpaid \in Nat
      /\ Bounded(DOMAIN neighbours, Range(set), Len(response), Capacity + Unpaid)
  BY <1>1, <1>4, UnpaidFacts
<1>6. neighbours' = Remove(answered, LastShuffleNodeId)
  BY DEF HandleAwaitedResponse
<1> HIDE DEF set
<1>7. Size(answered) <= Capacity + Unpaid
  <2> DEFINE limit == Capacity + Unpaid
  <2>1. limit \in Nat
    BY <1>5, CapacityFacts
  <2>2. Bounded(DOMAIN neighbours, Range(set), Len(response), limit)
    BY <1>5
  <2> HIDE DEF limit
  <2>3. Size(answered) <= limit
    BY <1>3, <1>4, <2>1, <2>2, CapacityFacts, IncorporateCapacity
  <2> QED
    BY <2>3 DEF limit
<1>8. IsCache(answered)
  BY <1>3, <1>4, CapacityFacts, IncorporateFacts
<1>9. LastShuffleNodeId \in DOMAIN neighbours => LastShuffleNodeId \in DOMAIN answered
  BY <1>3, <1>4, CapacityFacts, IncorporateKeeps DEF Keeps
<1> HIDE DEF answered
<1>10. /\ Size(answered) \in Nat
       /\ Size(neighbours') = IF LastShuffleNodeId \in DOMAIN answered
                              THEN Size(answered) - 1 ELSE Size(answered)
  <2>1. DOMAIN neighbours' = DOMAIN answered \ {LastShuffleNodeId}
    BY <1>6, <1>8, RemoveFacts
  <2> QED
    BY <1>8, <2>1, SizeFacts DEF Size
<1> QED
  BY <1>5, <1>7, <1>9, <1>10, CapacityFacts, EngagedFacts

(* A cache without the neighbour engaged is within the bound.              *)
LEMMA SweptCapacity ==
    ASSUME IInv, DOMAIN neighbours' = DOMAIN Swept(neighbours)
    PROVE  Size(neighbours') <= Capacity + Unpaid - Engaged
<1>1. CASE lastShuffle = None
  BY <1>1, CapacityFacts, EngagedFacts, UnpaidFacts DEF Swept, Size
<1>2. CASE lastShuffle # None
  <2>1. DOMAIN neighbours' = DOMAIN neighbours \ {LastShuffleNodeId}
    BY <1>2, CapacityFacts, RemoveFacts DEF Swept
  <2>2. Size(neighbours') = IF LastShuffleNodeId \in DOMAIN neighbours
                           THEN Size(neighbours) - 1 ELSE Size(neighbours)
    BY <2>1, CapacityFacts, SizeFacts DEF Size
  <2> QED
    BY <2>2, CapacityFacts, EngagedFacts, UnpaidFacts
<1> QED
  BY <1>1, <1>2

LEMMA CapacityStep ==
    ASSUME IInv, Next, bootstraps' >= bootstraps
    PROVE  Size(neighbours') <= Capacity
                + (IF UNCHANGED lastShuffle THEN 0 ELSE Unpaid - Engaged)
<1> DEFINE Goal == Size(neighbours') <= Capacity
                + (IF UNCHANGED lastShuffle THEN 0 ELSE Unpaid - Engaged)
<1>1. CASE UNCHANGED <<neighbours, lastShuffle>>
  BY <1>1, CapacityFacts
<1>2. ASSUME NEW received \in PointerList, HandleShuffleRequest(received)
      PROVE  Goal
  <2>1. UNCHANGED lastShuffle
    BY <1>2 DEF HandleShuffleRequest, ServeRequest
  <2>2. Size(neighbours') <= Capacity
    BY <1>2, RequestKeepsCapacity
  <2> QED
    BY <2>1, <2>2, CapacityFacts
<1>3. CASE DOMAIN neighbours' = DOMAIN Swept(neighbours)
  <2>1. Size(neighbours') <= Capacity + Unpaid - Engaged
    BY <1>3, SweptCapacity
  <2>2. Size(neighbours') <= Capacity /\ Size(neighbours') \in Nat
    <3>1. /\ DOMAIN neighbours' \subseteq DOMAIN neighbours
          /\ IsFiniteSet(DOMAIN neighbours)
      BY <1>3, SweptFacts DEF IInv, TypeOK, IsCache
    <3>2. /\ Cardinality(DOMAIN neighbours') <= Cardinality(DOMAIN neighbours)
          /\ Cardinality(DOMAIN neighbours') \in Nat
      BY <3>1, FS_Subset, FS_CardinalityType
    <3> QED
      BY <3>2, CapacityFacts DEF Size
  <2> QED
    BY <2>1, <2>2, CapacityFacts, EngagedFacts, UnpaidFacts
<1>4. ASSUME NEW k \in Shuffles, BeginShuffle(k)
      PROVE  DOMAIN neighbours' = DOMAIN Swept(neighbours)
  BY <1>4, SweptFacts, IncrementAgesFacts DEF BeginShuffle, IInv
<1>5. ASSUME NEW k \in Shuffles, NEW response \in PointerList,
             HandleShuffleResponse(k, response)
      PROVE  Goal
  <2>1. CASE IgnoreResponse(k)
    BY <1>1, <2>1 DEF IgnoreResponse
  <2>2. CASE HandleAwaitedResponse(k, response)
    <3>1. Size(neighbours') <= Capacity + Unpaid - Engaged
      BY <1>5, <2>2, ResponseCapacity DEF HandleShuffleResponse
    <3>2. lastShuffle' # lastShuffle
      <4>1. pending[k] \in Shuffle
        BY <1>5 DEF IInv, TypeOK, NoShuffle, HandleShuffleResponse
      <4> QED
        BY <2>2, <4>1 DEF HandleAwaitedResponse, LastShuffleNodeId, Shuffle
    <3> QED
      BY <3>1, <3>2, CapacityFacts, EngagedFacts, UnpaidFacts
  <2> QED
    BY <1>5, <2>1, <2>2 DEF HandleShuffleResponse
<1>6. ASSUME BootstrapSucceeds \/ BootstrapFails
      PROVE  FALSE
  <2>1. bootstraps' = bootstraps - 1 /\ bootstraps \in Nat
    BY <1>6 DEF BootstrapSucceeds, InsertPeers, BootstrapFails, IInv, TypeOK
  <2> QED
    BY <2>1
<1>7. ASSUME NEW k \in Shuffles,
             \/ SendShuffleRequest(k)
             \/ \E response \in PointerList : HandleShuffleResponse(k, response)
             \/ Settle(k)
             \/ Hang(k)
      PROVE  Goal
  <2>1. CASE SendShuffleRequest(k) \/ Hang(k)
    BY <1>1, <2>1 DEF SendShuffleRequest, Hang
  <2>2. CASE Settle(k)
    BY <1>3, <2>2 DEF Settle
  <2> HIDE DEF Goal
  <2> QED
    BY <1>5, <1>7, <2>1, <2>2
<1>8. CASE Start
  BY <1>1, <1>8 DEF Start
<1>9. CASE Tick
  BY <1>3, <1>4, <1>9 DEF Tick, BeginBootstrap
<1> QED
  BY <1>2, <1>6, <1>7, <1>8, <1>9 DEF Next

(* A request never takes the cache over its capacity, or further over it;  *)
(* a response by no more than the pointers for which its array has lost    *)
(* the entry to evict, or never had one.                                   *)
THEOREM CapacityIsKept == Spec => CapacityKept
<1> DEFINE A == bootstraps' >= bootstraps =>
                    Size(neighbours')
                        <= (IF Size(neighbours) > NumNeighbours
                            THEN Size(neighbours) ELSE NumNeighbours)
                           + (IF UNCHANGED lastShuffle
                              THEN 0
                              ELSE Unpaid
                                - Cardinality({LastShuffleNodeId} \cap DOMAIN neighbours))
<1>1. IInv /\ [Next]_vars => [A]_vars
  <2> SUFFICES ASSUME IInv, Next, bootstraps' >= bootstraps PROVE A
    OBVIOUS
  <2> QED
    BY CapacityStep DEF Capacity, Engaged
<1> QED
  BY <1>1, SpecIInv, PTL DEF Spec, CapacityKept

(* The neighbour engaged in the last shuffle has left the cache when the   *)
(* shuffle stops being the last, whichever way that happens.               *)
THEOREM EngagedNeighboursLeave == Spec => EngagedNeighbourLeaves
<1> DEFINE A == lastShuffle # None /\ lastShuffle' # lastShuffle
                    => LastShuffleNodeId \notin DOMAIN neighbours'
<1>1. IInv /\ [Next]_vars => [A]_vars
  <2> SUFFICES ASSUME IInv, Next, lastShuffle # None,
                      lastShuffle' # lastShuffle
               PROVE  LastShuffleNodeId \notin DOMAIN neighbours'
    OBVIOUS
  <2>1. /\ IsCache(Swept(neighbours))
        /\ LastShuffleNodeId \notin DOMAIN Swept(neighbours)
    BY SweptFacts DEF IInv
  <2>2. ASSUME NEW k \in Shuffles, BeginShuffle(k)
        PROVE  LastShuffleNodeId \notin DOMAIN neighbours'
    <3>1. neighbours' = IncrementAges(Swept(neighbours))
      BY <2>2 DEF BeginShuffle
    <3> QED
      BY <2>1, <3>1, IncrementAgesFacts
  <2>3. CASE BeginBootstrap
    BY <2>1, <2>3 DEF BeginBootstrap
  <2>4. ASSUME NEW k \in Shuffles, Settle(k)
        PROVE  LastShuffleNodeId \notin DOMAIN neighbours'
    BY <2>1, <2>4 DEF Settle
  <2>5. ASSUME NEW k \in Shuffles, NEW response \in PointerList,
               HandleShuffleResponse(k, response)
        PROVE  LastShuffleNodeId \notin DOMAIN neighbours'
    <3>1. HandleAwaitedResponse(k, response)
      BY <2>5 DEF HandleShuffleResponse, IgnoreResponse
    <3> DEFINE set == pending[lastShuffle].set
               result == Incorporate(Self, neighbours, response, set)
    <3>2. neighbours' = Remove(result.cache, LastShuffleNodeId)
      BY <3>1 DEF HandleAwaitedResponse
    <3> HIDE DEF result
    <3> QED
      BY <3>2 DEF Remove, Restrict
  <2>6. ASSUME Start \/ BootstrapSucceeds \/ BootstrapFails
        PROVE  FALSE
    BY <2>6 DEF Start, BootstrapSucceeds, InsertPeers, BootstrapFails
  <2>7. ASSUME NEW received \in PointerList, HandleShuffleRequest(received)
        PROVE  FALSE
    BY <2>7 DEF HandleShuffleRequest, ServeRequest
  <2>8. ASSUME NEW k \in Shuffles, SendShuffleRequest(k) \/ Hang(k)
        PROVE  FALSE
    BY <2>8 DEF SendShuffleRequest, Hang
  <2> QED
    BY <2>2, <2>3, <2>4, <2>5, <2>6, <2>7, <2>8 DEF Next, Tick
<1> QED
  BY <1>1, SpecIInv, PTL DEF Spec, EngagedNeighbourLeaves

------------------------------------------------------------------------------
(* Nothing is lost while there is room.                                    *)

(* A set that the resulting cache is within, and that does not fill it up, *)
(* shows that nothing was evicted on the way.                              *)
LEMMA RoomIsKept ==
    ASSUME TypeOK, NEW items \in Seq(Pointer), NEW replace \in Seq(Ids),
           NEW D, IsFiniteSet(D), Cardinality(D) < NumNeighbours,
           DOMAIN Incorporate(Self, neighbours, items, replace).cache \subseteq D
    PROVE  \A id \in DOMAIN neighbours :
            Keeps(neighbours, Incorporate(Self, neighbours, items, replace).cache, id)
<1> DEFINE result == Incorporate(Self, neighbours, items, replace)
<1>1. IsCache(neighbours)
  BY DEF TypeOK
<1>2. \A id \in DOMAIN neighbours :
        ~IsFull(result.cache) => Keeps(neighbours, result.cache, id)
  BY <1>1, IncorporateKeeps
<1> HIDE DEF result
<1>3. /\ Cardinality(DOMAIN result.cache) <= Cardinality(D)
      /\ Cardinality(DOMAIN result.cache) \in Nat
      /\ Cardinality(D) \in Nat
  BY FS_Subset, FS_CardinalityType DEF result
<1>4. ~IsFull(result.cache)
  BY <1>3 DEF IsFull, Size
<1> QED
  BY <1>2, <1>4 DEF result

NodesAround == (DOMAIN neighbours' \cup {LastShuffleNodeId}) \ {None}

(* The step of each action under the property's premise.                   *)
LEMMA NothingLostStep ==
    ASSUME IInv, Next,
           lastShuffle' \in {None, lastShuffle},
           bootstraps' = bootstraps,
           started' = started,
           Cardinality(NodesAround) < NumNeighbours
    PROVE  \A id \in DOMAIN neighbours \ {LastShuffleNodeId} :
            Keeps(neighbours, neighbours', id)
<1>0. IsCache(neighbours) /\ IsCache(neighbours')
  BY NextIInv DEF IInv, TypeOK
<1>1. /\ \A id \in DOMAIN neighbours : neighbours[id].seq \in Nat
      /\ IsFiniteSet(NodesAround)
  <2>1. IsFiniteSet(DOMAIN neighbours' \cup {LastShuffleNodeId})
    BY <1>0, FS_AddElement DEF IsCache
  <2>2. IsFiniteSet(NodesAround)
    BY <2>1, FS_Subset DEF NodesAround
  <2> QED
    BY <1>0, <2>2 DEF IsCache, Pointer
<1>2. CASE neighbours' = neighbours
  BY <1>1, <1>2 DEF Keeps
<1>3. ASSUME NEW received \in PointerList, HandleShuffleRequest(received)
      PROVE  \A id \in DOMAIN neighbours : Keeps(neighbours, neighbours', id)
  <2>1. PICK selection \in Samples(DOMAIN neighbours, ShuffleSize) :
          neighbours' = Incorporate(Self, neighbours, received, selection).cache
    BY <1>3 DEF HandleShuffleRequest, ServeRequest
  <2>2. /\ received \in Seq(Pointer)
        /\ selection \in Seq(Ids)
    <3>1. selection \in Seq(DOMAIN neighbours)
      BY <1>0, SampleFacts DEF IsCache
    <3> QED
      BY <1>0, <3>1, PointerListFacts DEF IsCache
  <2>3. DOMAIN neighbours' \subseteq NodesAround
    BY <1>0 DEF NodesAround, IsCache
  <2> QED
    BY <1>1, <2>1, <2>2, <2>3, RoomIsKept DEF IInv
<1>4. ASSUME NEW k \in Shuffles, NEW response \in PointerList,
             HandleAwaitedResponse(k, response), pending[k].phase = "sent"
      PROVE  \A id \in DOMAIN neighbours \ {LastShuffleNodeId} :
                Keeps(neighbours, neighbours', id)
  <2> DEFINE set == pending[lastShuffle].set
             result == Incorporate(Self, neighbours, response, set)
  <2>1. pending[k] \in Shuffle
    BY <1>4 DEF IInv, TypeOK, NoShuffle
  <2>2. lastShuffle # None /\ lastShuffle \in Shuffles
    BY <1>4, <2>1
    DEF IInv, TypeOK, HandleAwaitedResponse, LastShuffleNodeId, Shuffle
  <2>3. pending[lastShuffle] \in Shuffle
    BY <2>2 DEF IInv, TypeOK, LastShuffleAwaitsResponse, NoShuffle
  <2>4. set \in Seq(Ids) /\ response \in Seq(Pointer)
    BY <2>3, IdArrayFacts, PointerListFacts DEF Shuffle
  <2>5. neighbours' = Remove(result.cache, LastShuffleNodeId)
    BY <1>4 DEF HandleAwaitedResponse
  <2> HIDE DEF set
  <2>6. IsCache(result.cache)
    BY <1>0, <2>4, IncorporateFacts
  <2>7. /\ DOMAIN neighbours' = DOMAIN result.cache \ {LastShuffleNodeId}
        /\ \A id \in DOMAIN result.cache \ {LastShuffleNodeId} :
            neighbours'[id] = result.cache[id]
    <3> HIDE DEF result
    <3> QED
      BY <2>5, <2>6, RemoveFacts
  <2>8. DOMAIN result.cache \subseteq NodesAround
    <3> HIDE DEF result
    <3> QED
      BY <2>6, <2>7 DEF NodesAround, IsCache
  <2>9. \A id \in DOMAIN neighbours : Keeps(neighbours, result.cache, id)
    BY <1>1, <2>4, <2>8, RoomIsKept DEF IInv
  <2> HIDE DEF result
  <2> QED
    BY <2>7, <2>9 DEF Keeps
<1>5. CASE neighbours' = Swept(neighbours)
  <2>1. \A id \in DOMAIN neighbours \ {LastShuffleNodeId} :
            /\ id \in DOMAIN Swept(neighbours)
            /\ Swept(neighbours)[id] = neighbours[id]
    BY <1>0, RemoveFacts DEF Swept
  <2> QED
    BY <1>1, <1>5, <2>1 DEF Keeps
<1>6. ASSUME NEW k \in Shuffles, BeginShuffle(k)
      PROVE  FALSE
  BY <1>6 DEF IInv, LastShuffleAwaitsResponse, BeginShuffle, Outstanding
<1>7. ASSUME BeginBootstrap \/ BootstrapSucceeds \/ BootstrapFails
      PROVE  FALSE
  <2>1. bootstraps' \in {bootstraps - 1, bootstraps + 1}
    BY <1>7 DEF BeginBootstrap, BootstrapSucceeds, InsertPeers, BootstrapFails
  <2> QED
    BY <2>1 DEF IInv, TypeOK
<1>8. ASSUME NEW k \in Shuffles,
             \/ SendShuffleRequest(k)
             \/ \E response \in PointerList : HandleShuffleResponse(k, response)
             \/ Settle(k)
             \/ Hang(k)
      PROVE  \A id \in DOMAIN neighbours \ {LastShuffleNodeId} :
                Keeps(neighbours, neighbours', id)
  <2>1. CASE \E response \in PointerList : HandleShuffleResponse(k, response)
    BY <1>2, <1>4, <2>1 DEF HandleShuffleResponse, IgnoreResponse
  <2>2. CASE SendShuffleRequest(k) \/ Settle(k) \/ Hang(k)
    BY <1>2, <1>5, <2>2 DEF SendShuffleRequest, Settle, Hang
  <2> QED
    BY <1>8, <2>1, <2>2
<1>9. CASE Start
  BY <1>2, <1>9 DEF Start
<1> QED
  BY <1>3, <1>6, <1>7, <1>8, <1>9 DEF Next, Tick

(* While the cache does not fill up, an exchange loses no entry but that   *)
(* of the neighbour engaged, nor the age of any, nor takes an older        *)
(* pointer for a newer.                                                    *)
THEOREM RoomLosesNothing == Spec => NothingLostWithRoom
<1> DEFINE A == (/\ lastShuffle' \in {None, lastShuffle}
                 /\ bootstraps' = bootstraps
                 /\ started' = started
                 /\ Cardinality((DOMAIN neighbours' \cup {LastShuffleNodeId}) \ {None})
                        < NumNeighbours)
                => \A id \in DOMAIN neighbours \ {LastShuffleNodeId} :
                    /\ id \in DOMAIN neighbours'
                    /\ neighbours'[id].age = neighbours[id].age
                    /\ neighbours'[id].seq >= neighbours[id].seq
<1>1. IInv /\ [Next]_vars => [A]_vars
  BY NothingLostStep DEF NodesAround, Keeps
<1> QED
  BY <1>1, SpecIInv, PTL DEF Spec, NothingLostWithRoom

------------------------------------------------------------------------------
(* The refinement.                                                         *)

LEMMA LifecycleStep ==
    IInv /\ [Next]_vars => [Lifecycle!Next]_Status
<1> USE DEF Lifecycle!Next, Lifecycle!Move
<1> SUFFICES ASSUME IInv, [Next]_vars PROVE [Lifecycle!Next]_Status
  OBVIOUS
<1>1. /\ intervals \in Nat /\ bootstraps \in Nat
      /\ intervals + bootstraps <= 1
      /\ ~started => intervals = 0 /\ bootstraps = 0
  BY DEF IInv, TypeOK, AtMostOneActivity
<1>2. shuffleTimer <=> intervals = 1
  BY DEF IInv, AtMostOneActivity
<1>3. CASE Start
  <2>1. Status = "idle"
    BY <1>3 DEF Start, Status
  <2>2. started' /\ intervals' = 1
    BY <1>1, <1>3 DEF Start, StartShuffling
  <2>3. Status' = "shuffling"
    BY <2>2 DEF Status
  <2> QED
    BY <2>1, <2>3 DEF Lifecycle!Start
<1>4. CASE BeginBootstrap
  <2>1. started /\ intervals = 1 /\ bootstraps = 0
    BY <1>1, <1>4 DEF BeginBootstrap
  <2>2. intervals' = 0 /\ bootstraps' = 1 /\ started'
    BY <1>2, <1>4, <2>1 DEF BeginBootstrap, StopShuffling
  <2>3. Status = "shuffling" /\ Status' = "bootstrapping"
    BY <2>1, <2>2 DEF Status
  <2> QED
    BY <2>3 DEF Lifecycle!RunDry
<1>5. CASE BootstrapSucceeds
  <2>1. started /\ intervals = 0 /\ bootstraps = 1
    BY <1>1, <1>5 DEF BootstrapSucceeds, InsertPeers
  <2>2. intervals' = 1 /\ bootstraps' = 0 /\ started'
    BY <1>5, <2>1 DEF BootstrapSucceeds, InsertPeers, StartShuffling
  <2>3. Status = "bootstrapping" /\ Status' = "shuffling"
    BY <2>1, <2>2 DEF Status
  <2> QED
    BY <2>3 DEF Lifecycle!Bootstrapped
<1>6. CASE BootstrapFails
  <2>1. started /\ intervals = 0 /\ bootstraps = 1
    BY <1>1, <1>6 DEF BootstrapFails
  <2>2. intervals' = 0 /\ bootstraps' = 0 /\ started'
    BY <1>6, <2>1 DEF BootstrapFails, timerVars
  <2>3. Status = "bootstrapping" /\ Status' = "stalled"
    BY <2>1, <2>2 DEF Status
  <2> QED
    BY <2>3 DEF Lifecycle!Stall
<1>7. CASE UNCHANGED <<started, intervals, bootstraps>>
  BY <1>7 DEF Status
<1>8. ASSUME NEW k \in Shuffles, BeginShuffle(k)
      PROVE  UNCHANGED <<started, intervals, bootstraps>>
  BY <1>8 DEF BeginShuffle, timerVars
<1>9. ASSUME NEW received \in PointerList, HandleShuffleRequest(received)
      PROVE  UNCHANGED <<started, intervals, bootstraps>>
  BY <1>9 DEF HandleShuffleRequest, ServeRequest, timerVars
<1>10. ASSUME NEW k \in Shuffles,
              \/ SendShuffleRequest(k)
              \/ \E response \in PointerList : HandleShuffleResponse(k, response)
              \/ Settle(k)
              \/ Hang(k)
       PROVE  UNCHANGED <<started, intervals, bootstraps>>
  BY <1>10 DEF SendShuffleRequest, HandleShuffleResponse, Settle, Hang, timerVars
<1>11. CASE UNCHANGED vars
  BY <1>7, <1>11 DEF vars
<1> QED
  BY <1>3, <1>4, <1>5, <1>6, <1>7, <1>8, <1>9, <1>10, <1>11 DEF Next, Tick

(* The node starts, shuffles, bootstraps and stalls as NodeLifecycle says. *)
THEOREM LifecycleIsRefined == Spec => ImplementsLifecycle
<1>1. Init => Lifecycle!Init
  BY DEF Init, Lifecycle!Init, Status
<1>2. IInv /\ [Next]_vars => [Lifecycle!Next]_Status
  BY LifecycleStep
<1> QED
  BY <1>1, <1>2, SpecIInv, PTL DEF Spec, ImplementsLifecycle, Lifecycle!Spec
------------------------------------------------------------------------------
(* DemoPage: the node's cache and what the listeners make of its changes.  *)

(* A cache that was saved is one the node can be started with.             *)
SavedFits == saved # None => IsCache(saved) /\ Self \notin DOMAIN saved

WitnessedTypes ==
    /\ DOMAIN witnessed \subseteq Ids
    /\ \A id \in DOMAIN witnessed : witnessed[id] \in 0..MaxSeq

PageIInv ==
    /\ IInv
    /\ WitnessedTypes
    /\ SavedFits
    /\ RankingNeverBehind

(* The pointers account for the cache of the next state: it has the        *)
(* sequence number of each, and of every other node the one it had.        *)
Account(pointers) ==
    /\ pointers \subseteq Pointer
    /\ \A p, q \in pointers : p.id = q.id => p = q
    /\ \A id \in DOMAIN neighbours' :
        /\ \A p \in pointers : p.id = id => neighbours'[id].seq = p.seq
        /\ (\A p \in pointers : p.id # id)
            => id \in DOMAIN neighbours /\ neighbours'[id].seq = neighbours[id].seq

LEMMA ProcessNodesFacts ==
    ASSUME WitnessedTypes, NEW pointers, pointers \subseteq Pointer,
           \A p, q \in pointers : p.id = q.id => p = q,
           ProcessNodes(pointers)
    PROVE  /\ WitnessedTypes'
           /\ \A p \in pointers : p.seq <= witnessed'[p.id]
           /\ \A id \in DOMAIN witnessed' : (\A p \in pointers : p.id # id)
                => id \in DOMAIN witnessed /\ witnessed'[id] = witnessed[id]
<1> DEFINE ids == {p.id : p \in pointers}
           SeqOf(id) == (CHOOSE p \in pointers : p.id = id).seq
<1>1. \A p \in pointers : p.id \in ids /\ SeqOf(p.id) = p.seq
  <2> SUFFICES ASSUME NEW p \in pointers
               PROVE  SeqOf(p.id) = p.seq
    OBVIOUS
  <2>1. (CHOOSE q \in pointers : q.id = p.id) = p
    <3>1. \E q \in pointers : q.id = p.id
      OBVIOUS
    <3> QED
      BY <3>1
  <2> QED
    BY <2>1
<1>2. \A id \in ids : \E p \in pointers : p.id = id
  OBVIOUS
<1>3. \A p \in pointers : p.id \in Ids /\ p.seq \in 0..MaxSeq
  BY DEF Pointer
<1>4. \A id \in ids : id \in Ids /\ SeqOf(id) \in 0..MaxSeq
  BY <1>1, <1>2, <1>3
<1>5. witnessed' = [id \in DOMAIN witnessed \cup ids |->
        IF id \in DOMAIN witnessed /\ (id \in ids => witnessed[id] >= SeqOf(id))
        THEN witnessed[id] ELSE SeqOf(id)]
  BY DEF ProcessNodes
<1> HIDE DEF SeqOf
<1>6. /\ DOMAIN witnessed' = DOMAIN witnessed \cup ids
      /\ \A id \in DOMAIN witnessed \cup ids : witnessed'[id] =
            IF id \in DOMAIN witnessed /\ (id \in ids => witnessed[id] >= SeqOf(id))
            THEN witnessed[id] ELSE SeqOf(id)
  BY <1>5
<1>7. \A id \in DOMAIN witnessed' : (\A p \in pointers : p.id # id) => id \notin ids
  OBVIOUS
<1> HIDE DEF ids
<1>8. WitnessedTypes'
  BY <1>4, <1>6 DEF WitnessedTypes
<1>9. \A id \in ids : SeqOf(id) <= witnessed'[id]
  BY <1>4, <1>6 DEF WitnessedTypes
<1> QED
  BY <1>1, <1>6, <1>7, <1>8, <1>9

LEMMA AccountFacts ==
    ASSUME WitnessedTypes, RankingNeverBehind, NEW pointers, Account(pointers),
           ProcessNodes(pointers)
    PROVE  WitnessedTypes' /\ RankingNeverBehind'
<1>1. /\ WitnessedTypes'
      /\ \A p \in pointers : p.seq <= witnessed'[p.id]
      /\ \A id \in DOMAIN witnessed' : (\A p \in pointers : p.id # id)
            => id \in DOMAIN witnessed /\ witnessed'[id] = witnessed[id]
  BY ProcessNodesFacts DEF Account
<1>2. ASSUME NEW id \in DOMAIN witnessed' \cap DOMAIN neighbours'
      PROVE  neighbours'[id].seq <= witnessed'[id]
  <2>1. CASE \A p \in pointers : p.id # id
    BY <1>1, <1>2, <2>1 DEF Account, RankingNeverBehind
  <2>2. CASE \E p \in pointers : p.id = id
    BY <1>1, <1>2, <2>2 DEF Account
  <2> QED
    BY <2>1, <2>2
<1> QED
  BY <1>1, <1>2 DEF RankingNeverBehind

(* What a step of the node that announces such pointers keeps.             *)
LEMMA ChangeKeeps ==
    ASSUME PageIInv, IInv', NEW pointers, NEW removed, Account(pointers),
           Change(pointers, removed)
    PROVE  PageIInv'
<1>1. WitnessedTypes' /\ RankingNeverBehind'
  BY AccountFacts DEF PageIInv, Change
<1>2. SavedFits'
  <2>1. IsCache(EmptyCache) /\ Self \notin DOMAIN EmptyCache
    BY FS_EmptySet DEF IsCache, EmptyCache
  <2>2. CASE Save
    BY <2>1, <2>2 DEF Save, Stringify, SavedFits
  <2>3. CASE UNCHANGED saved
    BY <2>3 DEF PageIInv, SavedFits
  <2> QED
    BY <2>2, <2>3 DEF Change
<1> QED
  BY <1>1, <1>2 DEF PageIInv

(* The steps that insert nothing and renew nothing.                        *)
LEMMA NothingNew ==
    ASSUME DOMAIN neighbours' \subseteq DOMAIN neighbours,
           \A id \in DOMAIN neighbours' : neighbours'[id].seq = neighbours[id].seq
    PROVE  Account({})
BY DEF Account

LEMMA SweptSeqs ==
    ASSUME TypeOK
    PROVE  /\ DOMAIN Swept(neighbours) \subseteq DOMAIN neighbours
           /\ \A id \in DOMAIN Swept(neighbours) : Swept(neighbours)[id] = neighbours[id]
           /\ \A id \in DOMAIN Swept(neighbours) :
                IncrementAges(Swept(neighbours))[id].seq = neighbours[id].seq
<1>1. IsCache(neighbours) /\ IsCache(Swept(neighbours))
  BY SweptFacts DEF TypeOK
<1>2. /\ DOMAIN Swept(neighbours) \subseteq DOMAIN neighbours
      /\ \A id \in DOMAIN Swept(neighbours) : Swept(neighbours)[id] = neighbours[id]
  BY <1>1, RemoveFacts DEF Swept
<1>3. ASSUME NEW id \in DOMAIN Swept(neighbours)
      PROVE  IncrementAges(Swept(neighbours))[id].seq = Swept(neighbours)[id].seq
  BY <1>1 DEF IncrementAges, IsCache, Pointer
<1> QED
  BY <1>2, <1>3

(* What incorporateSet announces, of a request or a response.              *)
LEMMA AnnouncedFacts ==
    ASSUME IsCache(neighbours), NEW received \in PointerList,
           NEW replace \in Seq(Ids),
           DOMAIN neighbours' \subseteq
                DOMAIN Incorporate(Self, neighbours, received, replace).cache,
           \A id \in DOMAIN neighbours' : neighbours'[id] =
                Incorporate(Self, neighbours, received, replace).cache[id]
    PROVE  Account(Announced(received, replace))
<1> DEFINE result == Incorporate(Self, neighbours, received, replace)
           replacing == Replacing(Self, neighbours, received, replace)
<1>1. /\ received \in Seq(Pointer)
      /\ DOMAIN received = 1..Len(received)
      /\ HasDistinctIds(received)
  BY PointerListFacts DEF PointerList
<1>2. Announced(received, replace) = {received[i] : i \in replacing}
  BY <1>1 DEF Announced, Replacing, Replaces
<1>3. \A id \in DOMAIN result.cache :
        /\ \A i \in replacing :
            received[i].id = id => result.cache[id].seq = received[i].seq
        /\ (\A i \in replacing : received[i].id # id)
            => id \in DOMAIN neighbours /\ result.cache[id].seq = neighbours[id].seq
  <2>1. HasTheirSeqs(result.cache, Self, neighbours, received, replace)
    BY <1>1, IncorporateReplaces
  <2> QED
    BY <2>1 DEF HasTheirSeqs
<1>4. replacing \subseteq 1..Len(received)
  BY DEF Replacing
<1>5. \A id \in DOMAIN neighbours' :
        id \in DOMAIN result.cache /\ neighbours'[id] = result.cache[id]
  OBVIOUS
<1> HIDE DEF result, replacing
<1>6. /\ {received[i] : i \in replacing} \subseteq Pointer
      /\ \A p, q \in {received[i] : i \in replacing} : p.id = q.id => p = q
  BY <1>1, <1>4 DEF HasDistinctIds
<1> QED
  BY <1>2, <1>3, <1>5, <1>6 DEF Account

------------------------------------------------------------------------------
(* The page's steps.                                                       *)

LEMMA PageStepIsStep ==
    PageNext => Next \/ (PruneOldNodes /\ UNCHANGED vars) \/ Reload
BY DEF PageNext, PageTick, PageBootstrapped, PageServes, PageTakesResponse,
       PageSettles, PageGoesOn, PruneOldNodes, Next, BootstrapSucceeds,
       HandleShuffleRequest

LEMMA PageTickKeeps == PageIInv /\ IInv' /\ PageTick => PageIInv'
<1> SUFFICES ASSUME PageIInv, IInv', PageTick PROVE PageIInv'
  OBVIOUS
<1>1. \/ neighbours' = Swept(neighbours)
      \/ neighbours' = IncrementAges(Swept(neighbours))
  BY DEF PageTick, Tick, BeginBootstrap, BeginShuffle
<1>2. DOMAIN IncrementAges(Swept(neighbours)) = DOMAIN Swept(neighbours)
  BY SweptFacts, IncrementAgesFacts DEF PageIInv, IInv
<1>3. Account({})
  BY <1>1, <1>2, SweptSeqs, NothingNew DEF PageIInv, IInv
<1> QED
  BY <1>3, ChangeKeeps DEF PageTick

LEMMA PageBootstrappedKeeps == PageIInv /\ IInv' /\ PageBootstrapped => PageIInv'
<1> SUFFICES ASSUME PageIInv, IInv', PageBootstrapped PROVE PageIInv'
  OBVIOUS
<1>1. PICK peers \in BootstrapResults :
        /\ InsertPeers(peers)
        /\ Change({neighbours'[id] : id \in DOMAIN peers}, FALSE)
  BY DEF PageBootstrapped
<1> DEFINE pointers == {neighbours'[id] : id \in DOMAIN peers}
<1>2. /\ IsCache(neighbours')
      /\ DOMAIN neighbours' = DOMAIN neighbours \cup DOMAIN peers
      /\ \A id \in DOMAIN neighbours' \ DOMAIN peers : neighbours'[id] = neighbours[id]
  BY <1>1 DEF IInv, TypeOK, InsertPeers
<1>3. \A id \in DOMAIN peers : neighbours'[id] \in Pointer /\ neighbours'[id].id = id
  BY <1>2 DEF IsCache
<1>4. Account(pointers)
  <2>1. pointers \subseteq Pointer
    BY <1>3
  <2>2. \A p, q \in pointers : p.id = q.id => p = q
    BY <1>3
  <2>3. ASSUME NEW id \in DOMAIN neighbours'
        PROVE  /\ \A p \in pointers : p.id = id => neighbours'[id].seq = p.seq
               /\ (\A p \in pointers : p.id # id) =>
                    id \in DOMAIN neighbours /\ neighbours'[id].seq = neighbours[id].seq
    <3>1. \A p \in pointers : p.id = id => neighbours'[id] = p
      BY <1>3
    <3>2. (\A p \in pointers : p.id # id) => id \notin DOMAIN peers
      BY <1>3
    <3> QED
      BY <1>2, <3>1, <3>2
  <2> QED
    BY <2>1, <2>2, <2>3 DEF Account
<1> QED
  BY <1>1, <1>4, ChangeKeeps

LEMMA PageServesKeeps ==
    ASSUME PageIInv, IInv', NEW received \in PointerList, PageServes(received)
    PROVE  PageIInv'
<1>1. PICK selection \in Samples(DOMAIN neighbours, ShuffleSize) :
        /\ ServeRequest(received, selection)
        /\ Change(Announced(received, selection), FALSE)
  BY DEF PageServes
<1>2. IsCache(neighbours)
  BY DEF PageIInv, IInv, TypeOK
<1>3. selection \in Seq(Ids)
  <2>1. selection \in Seq(DOMAIN neighbours)
    BY <1>2, SampleFacts DEF IsCache
  <2> QED
    BY <1>2, <2>1 DEF IsCache
<1>4. neighbours' = Incorporate(Self, neighbours, received, selection).cache
  BY <1>1 DEF ServeRequest
<1>5. Account(Announced(received, selection))
  BY <1>2, <1>3, <1>4, AnnouncedFacts
<1> QED
  BY <1>1, <1>5, ChangeKeeps

LEMMA PageTakesResponseKeeps ==
    ASSUME PageIInv, IInv', NEW k \in Shuffles, NEW response \in PointerList,
           PageTakesResponse(k, response)
    PROVE  PageIInv'
<1>1. CASE LastShuffleNodeId # pending[k].dest
  <2>1. IgnoreResponse(k) /\ NoChange
    BY <1>1 DEF PageTakesResponse, HandleShuffleResponse, HandleAwaitedResponse
  <2> QED
    BY <2>1 DEF PageIInv, IgnoreResponse, NoChange, WitnessedTypes, SavedFits,
                RankingNeverBehind
<1>2. CASE LastShuffleNodeId = pending[k].dest
  <2> DEFINE set == pending[lastShuffle].set
             result == Incorporate(Self, neighbours, response, set)
  <2>1. /\ HandleAwaitedResponse(k, response)
        /\ Change(Announced(response, set), TRUE)
        /\ pending[k].phase = "sent"
    BY <1>2 DEF PageTakesResponse, HandleShuffleResponse, IgnoreResponse
  <2>2. pending[k] \in Shuffle
    BY <2>1 DEF PageIInv, IInv, TypeOK, NoShuffle
  <2>3. lastShuffle # None /\ lastShuffle \in Shuffles
    BY <1>2, <2>2 DEF PageIInv, IInv, TypeOK, LastShuffleNodeId, Shuffle
  <2>4. pending[lastShuffle] \in Shuffle
    BY <2>3 DEF PageIInv, IInv, TypeOK, LastShuffleAwaitsResponse, NoShuffle
  <2>5. set \in Seq(Ids) /\ response \in Seq(Pointer) /\ IsCache(neighbours)
    BY <2>4, IdArrayFacts, PointerListFacts DEF Shuffle, PageIInv, IInv, TypeOK
  <2>6. neighbours' = Remove(result.cache, LastShuffleNodeId)
    BY <2>1 DEF HandleAwaitedResponse
  <2> HIDE DEF set
  <2>7. IsCache(result.cache)
    BY <2>5, IncorporateFacts
  <2>8. /\ DOMAIN neighbours' \subseteq DOMAIN result.cache
        /\ \A id \in DOMAIN neighbours' : neighbours'[id] = result.cache[id]
    <3> HIDE DEF result
    <3>1. /\ DOMAIN Remove(result.cache, LastShuffleNodeId)
                = DOMAIN result.cache \ {LastShuffleNodeId}
          /\ \A id \in DOMAIN result.cache \ {LastShuffleNodeId} :
                Remove(result.cache, LastShuffleNodeId)[id] = result.cache[id]
      BY <2>7, RemoveFacts
    <3> QED
      BY <2>6, <3>1
  <2>9. Account(Announced(response, set))
    BY <2>5, <2>8, AnnouncedFacts
  <2> QED
    BY <2>1, <2>9, ChangeKeeps
<1> QED
  BY <1>1, <1>2

LEMMA PageSettlesKeeps ==
    ASSUME PageIInv, IInv', NEW k \in Shuffles, PageSettles(k)
    PROVE  PageIInv'
<1>1. neighbours' = Swept(neighbours)
  BY DEF PageSettles, Settle
<1>2. Account({})
  BY <1>1, SweptSeqs, NothingNew DEF PageIInv, IInv
<1> QED
  BY <1>2, ChangeKeeps DEF PageSettles

LEMMA PageGoesOnKeeps == PageIInv /\ IInv' /\ PageGoesOn => PageIInv'
BY DEF PageIInv, PageGoesOn, NoChange, Start, BootstrapFails, SendShuffleRequest,
       Hang, WitnessedTypes, SavedFits, RankingNeverBehind

LEMMA PruneKeeps == PageIInv /\ IInv' /\ PruneOldNodes => PageIInv'
<1> SUFFICES ASSUME PageIInv, IInv', PruneOldNodes PROVE PageIInv'
  OBVIOUS
<1>1. PICK old : witnessed' = [id \in DOMAIN witnessed \ old |-> witnessed[id]]
  BY DEF PruneOldNodes
<1>2. UNCHANGED <<neighbours, saved>>
  BY DEF PruneOldNodes, vars
<1>3. /\ DOMAIN witnessed' \subseteq DOMAIN witnessed
      /\ \A id \in DOMAIN witnessed' : witnessed'[id] = witnessed[id]
  BY <1>1
<1> QED
  BY <1>2, <1>3 DEF PageIInv, WitnessedTypes, SavedFits, RankingNeverBehind

(* The node that a reload starts with is as a new one, but for the cache.  *)
LEMMA ReloadKeeps == PageIInv /\ Reload => PageIInv'
<1> SUFFICES ASSUME PageIInv, Reload PROVE PageIInv'
  OBVIOUS
<1>1. IsCache(EmptyCache) /\ Self \notin DOMAIN EmptyCache
  BY FS_EmptySet DEF IsCache, EmptyCache
<1>2. IsCache(neighbours') /\ Self \notin DOMAIN neighbours'
  BY <1>1 DEF PageIInv, SavedFits, Reload
<1>3. TypeOK'
  BY <1>2 DEF TypeOK, Reload
<1>4. /\ NeverKnowsSelf' /\ LastShuffleAwaitsResponse'
      /\ ReplyStaysInCache' /\ LastArrayFits'
  BY <1>2 DEF NeverKnowsSelf, LastShuffleAwaitsResponse, ReplyStaysInCache,
              LastArrayFits, Reload
<1>5. AtMostOneActivity'
  BY DEF AtMostOneActivity, Reload
<1>6. DOMAIN witnessed' = {}
  BY DEF Reload, NobodyWitnessed
<1>7. WitnessedTypes' /\ RankingNeverBehind'
  BY <1>6 DEF WitnessedTypes, RankingNeverBehind
<1>8. SavedFits'
  BY DEF PageIInv, SavedFits, Reload
<1> QED
  BY <1>3, <1>4, <1>5, <1>7, <1>8 DEF PageIInv, IInv

LEMMA NextPageIInv == PageIInv /\ [PageNext]_pageVars => PageIInv'
<1> SUFFICES ASSUME PageIInv, [PageNext]_pageVars PROVE PageIInv'
  OBVIOUS
<1>1. CASE Reload
  BY <1>1, ReloadKeeps
<1>2. CASE PageNext /\ ~Reload
  <2>1. IInv'
    BY <1>2, PageStepIsStep, NextIInv DEF PageIInv
  <2> QED
    BY <1>2, <2>1, PageTickKeeps, PageBootstrappedKeeps, PageServesKeeps,
       PageTakesResponseKeeps, PageSettlesKeeps, PageGoesOnKeeps, PruneKeeps
    DEF PageNext
<1>3. CASE UNCHANGED pageVars
  <2>1. IInv'
    BY <1>3, NextIInv DEF PageIInv, pageVars
  <2> QED
    BY <1>3, <2>1 DEF PageIInv, pageVars, vars, WitnessedTypes, SavedFits,
                      RankingNeverBehind
<1> QED
  BY <1>1, <1>2, <1>3

LEMMA InitPageIInv == PageInit => PageIInv
<1> SUFFICES ASSUME PageInit PROVE PageIInv
  OBVIOUS
<1>1. IInv
  BY InitIInv DEF PageInit
<1>2. DOMAIN witnessed = {}
  BY DEF PageInit, NobodyWitnessed
<1> QED
  BY <1>1, <1>2 DEF PageIInv, PageInit, WitnessedTypes, SavedFits, RankingNeverBehind

LEMMA SpecPageIInv == PageSpec => []PageIInv
<1> QED
  BY InitPageIInv, NextPageIInv, PTL DEF PageSpec

(* The page's state is well typed, whatever has been saved and reloaded.   *)
THEOREM PageTypeCorrect == PageSpec => []PageTypeOK
<1>1. PageIInv => PageTypeOK
  BY DEF PageIInv, IInv, WitnessedTypes, SavedFits, PageTypeOK
<1> QED
  BY <1>1, SpecPageIInv, PTL

(* None of the ways a pointer gets into the cache escapes the ranking, for *)
(* any number of nodes and any sizes.                                      *)
THEOREM RankingKeepsUp == PageSpec => []RankingNeverBehind
<1>1. PageIInv => RankingNeverBehind
  BY DEF PageIInv
<1> QED
  BY <1>1, SpecPageIInv, PTL

(* On the page too, an exchange loses nothing while there is room.         *)
THEOREM PageLosesNothing == PageSpec => NothingLostWithRoom
<1> DEFINE A == (/\ lastShuffle' \in {None, lastShuffle}
                 /\ bootstraps' = bootstraps
                 /\ started' = started
                 /\ Cardinality((DOMAIN neighbours' \cup {LastShuffleNodeId}) \ {None})
                        < NumNeighbours)
                => \A id \in DOMAIN neighbours \ {LastShuffleNodeId} :
                    /\ id \in DOMAIN neighbours'
                    /\ neighbours'[id].age = neighbours[id].age
                    /\ neighbours'[id].seq >= neighbours[id].seq
<1>1. IInv /\ Next => A
  BY NothingLostStep DEF NodesAround, Keeps
<1>2. ASSUME Reload, started' = started
      PROVE  FALSE
  <2>1. started /\ started' = FALSE
    BY <1>2 DEF Reload
  <2>2. started = FALSE
    BY <1>2, <2>1, Zenon
  <2> QED
    BY <2>1, <2>2, Zenon
<1>3. PageIInv /\ [PageNext]_pageVars => [A]_vars
  <2> SUFFICES ASSUME PageIInv, [PageNext]_pageVars PROVE [A]_vars
    OBVIOUS
  <2>1. CASE Next
    BY <1>1, <2>1 DEF PageIInv
  <2>2. CASE Reload
    BY <1>2, <2>2
  <2>3. CASE UNCHANGED vars
    BY <2>3
  <2> QED
    BY <2>1, <2>2, <2>3, PageStepIsStep DEF pageVars
<1> QED
  BY <1>3, SpecPageIInv, PTL DEF PageSpec, NothingLostWithRoom
=============================================================================
