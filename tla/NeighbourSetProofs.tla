------------------------- MODULE NeighbourSetProofs -------------------------
(***************************************************************************)
(* Facts about the operators of NeighbourSet, for every cache and every    *)
(* list of pointers.  The ones about incorporateSet's loop are proved by   *)
(* induction on the number of items incorporated, and so are the ones      *)
(* about the loops of Sampling, at the end.                                *)
(***************************************************************************)
EXTENDS NeighbourSet, Sampling, FiniteSetTheorems, WellFoundedInduction,
        NaturalsInduction, SequenceTheorems, TLAPS

(* Induction over an interval: a set that has 0 and, with i - 1, also i,   *)
(* has every number of the interval.                                       *)
LEMMA FiniteInduction ==
    ASSUME NEW n \in Nat, NEW P,
           0 \in P,
           \A i \in 1..n : i - 1 \in P => i \in P
    PROVE  0..n \subseteq P
<1> DEFINE Bad == {i \in 0..n : i \notin P}
<1> SUFFICES ASSUME Bad # {} PROVE FALSE
    OBVIOUS
<1>1. PICK m \in Bad : \A i \in Bad : ~(i < m)
  <2> DEFINE R == OpToRel(<, Nat)
  <2>1. Bad \subseteq Nat
    OBVIOUS
  <2>2. \E m \in Bad : \A i \in Bad : ~(<<i, m>> \in R)
    BY <2>1, WFMin, NatLessThanWellFounded
  <2>3. \A i, m \in Nat : i < m => <<i, m>> \in R
    BY DEF OpToRel
  <2> HIDE DEF R
  <2> QED
    BY <2>1, <2>2, <2>3
<1>2. m \in 1..n
  OBVIOUS
<1>3. m - 1 \in 0..n /\ m - 1 < m
  BY <1>2
<1>4. m - 1 \in P
  BY <1>1, <1>3
<1> QED
  BY <1>2, <1>4

------------------------------------------------------------------------------
(* Basic operations.                                                       *)

LEMMA PointerListFacts ==
    ASSUME NEW ps \in PointerList
    PROVE  /\ ps \in Seq(Pointer)
           /\ Len(ps) \in 0..ShuffleSize
<1>1. PICK n \in 0..ShuffleSize : ps \in [1..n -> Pointer]
  BY DEF PointerList
<1> QED
  BY <1>1, NeighbourSetAssumption

LEMMA FrontFacts ==
    ASSUME NEW S, NEW s \in Seq(S), s # <<>>
    PROVE  /\ SubSeq(s, 1, Len(s) - 1) \in Seq(S)
           /\ Len(SubSeq(s, 1, Len(s) - 1)) = Len(s) - 1
           /\ \A i \in 1..(Len(s) - 1) : SubSeq(s, 1, Len(s) - 1)[i] = s[i]
<1> DEFINE n == Len(s) - 1
<1>1. n \in Nat
  BY EmptySeq
<1>2. \A i \in 1..n : s[i] \in S
  OBVIOUS
<1> HIDE DEF n
<1>3. /\ SubSeq(s, 1, n) \in Seq(S)
      /\ Len(SubSeq(s, 1, n)) = IF 1 <= n THEN n - 1 + 1 ELSE 0
      /\ \A i \in 1..(n - 1 + 1) : SubSeq(s, 1, n)[i] = s[1 + i - 1]
  BY <1>1, <1>2, SubSeqProperties
<1>4. Len(SubSeq(s, 1, n)) = n
  BY <1>1, <1>3
<1>5. \A i \in 1..n : SubSeq(s, 1, n)[i] = s[i]
  BY <1>1, <1>3
<1> QED
  BY <1>3, <1>4, <1>5 DEF n

LEMMA SampleFacts ==
    ASSUME NEW S, IsFiniteSet(S), NEW k \in Nat, NEW s \in Samples(S, k)
    PROVE  /\ s \in Seq(S)
           /\ Len(s) <= k
           /\ Len(s) = IF Cardinality(S) < k THEN Cardinality(S) ELSE k
           /\ \A i, j \in 1..Len(s) : s[i] = s[j] => i = j
<1> DEFINE n == IF Cardinality(S) < k THEN Cardinality(S) ELSE k
<1>1. n \in Nat /\ n <= k
  BY FS_CardinalityType
<1>2. s \in [1..n -> S] /\ IsInjective(s)
  BY DEF Samples, Injection
<1> HIDE DEF n
<1>3. s \in Seq(S) /\ Len(s) = n /\ DOMAIN s = 1..n
  BY <1>1, <1>2
<1>4. \A i, j \in 1..Len(s) : s[i] = s[j] => i = j
  BY <1>2, <1>3 DEF IsInjective
<1> QED
  BY <1>1, <1>3, <1>4 DEF n

LEMMA InsertFacts ==
    ASSUME NEW c, IsCache(c), NEW p \in Pointer
    PROVE  /\ IsCache(Insert(c, p))
           /\ DOMAIN Insert(c, p) = DOMAIN c \cup {p.id}
           /\ Insert(c, p)[p.id] = p
           /\ \A id \in DOMAIN c : id # p.id => Insert(c, p)[id] = c[id]
<1>1. IsFiniteSet(DOMAIN c \cup {p.id})
  BY FS_AddElement DEF IsCache
<1>2. p.id \in Ids
  BY DEF Pointer
<1> QED
  BY <1>1, <1>2 DEF IsCache, Insert

LEMMA RemoveFacts ==
    ASSUME NEW c, IsCache(c), NEW id
    PROVE  /\ IsCache(Remove(c, id))
           /\ DOMAIN Remove(c, id) = DOMAIN c \ {id}
           /\ \A other \in DOMAIN c \ {id} : Remove(c, id)[other] = c[other]
<1>1. IsFiniteSet(DOMAIN c \ {id})
  BY FS_RemoveElement DEF IsCache
<1> QED
  BY <1>1 DEF IsCache, Remove, Restrict

LEMMA IncrementAgesFacts ==
    ASSUME NEW c, IsCache(c)
    PROVE  IsCache(IncrementAges(c)) /\ DOMAIN IncrementAges(c) = DOMAIN c
BY NeighbourSetAssumption DEF IsCache, IncrementAges, Pointer

LEMMA MergeFacts ==
    ASSUME NEW c, IsCache(c), NEW p \in Pointer, p.id \in DOMAIN c
    PROVE  /\ IsCache(MergeNodePointerIfNewer(c, p))
           /\ DOMAIN MergeNodePointerIfNewer(c, p) = DOMAIN c
           /\ \A id \in DOMAIN c :
                /\ MergeNodePointerIfNewer(c, p)[id].age = c[id].age
                /\ MergeNodePointerIfNewer(c, p)[id].seq >= c[id].seq
<1>1. CASE c[p.id].seq < p.seq
  BY <1>1, NeighbourSetAssumption
  DEF IsCache, MergeNodePointerIfNewer, Pointer
<1>2. CASE ~(c[p.id].seq < p.seq)
  BY <1>2, NeighbourSetAssumption
  DEF IsCache, MergeNodePointerIfNewer, Pointer
<1> QED
  BY <1>1, <1>2

LEMMA SizeType ==
    ASSUME NEW c, IsCache(c)
    PROVE  Size(c) \in Nat
BY FS_CardinalityType DEF IsCache, Size

LEMMA SizeFacts ==
    ASSUME NEW c, IsCache(c), NEW id
    PROVE  /\ Size(c) \in Nat
           /\ Cardinality(DOMAIN c \cup {id})
                = IF id \in DOMAIN c THEN Size(c) ELSE Size(c) + 1
           /\ Cardinality(DOMAIN c \ {id})
                = IF id \in DOMAIN c THEN Size(c) - 1 ELSE Size(c)
BY FS_CardinalityType, FS_AddElement, FS_RemoveElement DEF IsCache, Size

------------------------------------------------------------------------------
(* One turn of the loop, from states such as the loop goes through.        *)

IsLoopState(state) ==
    /\ state = [cache |-> state.cache, replace |-> state.replace]
    /\ IsCache(state.cache)
    /\ state.replace \in Seq(Ids)

LEMMA MakeRoomFacts ==
    ASSUME NEW state, IsLoopState(state)
    PROVE  LET roomy == MakeRoom(state) IN
           /\ IsLoopState(roomy)
           /\ DOMAIN roomy.cache \subseteq DOMAIN state.cache
           /\ Len(roomy.replace) <= Len(state.replace)
           /\ \A i \in 1..Len(roomy.replace) :
                roomy.replace[i] = state.replace[i]
<1>1. CASE Size(state.cache) >= NumNeighbours /\ state.replace # <<>>
  <2> DEFINE last == Len(state.replace)
             shorter == SubSeq(state.replace, 1, last - 1)
  <2>1. last \in Nat \ {0}
    BY <1>1 DEF IsLoopState
  <2>2. /\ shorter \in Seq(Ids)
        /\ Len(shorter) = last - 1
        /\ \A i \in 1..(last - 1) : shorter[i] = state.replace[i]
    BY <1>1, FrontFacts DEF IsLoopState
  <2>3. MakeRoom(state) = [cache |-> Remove(state.cache, state.replace[last]),
                           replace |-> shorter]
    BY <1>1 DEF MakeRoom
  <2>4. /\ IsCache(Remove(state.cache, state.replace[last]))
        /\ DOMAIN Remove(state.cache, state.replace[last])
            \subseteq DOMAIN state.cache
    <3>1. IsCache(state.cache)
      BY DEF IsLoopState
    <3>2. \A id : /\ IsCache(Remove(state.cache, id))
                  /\ DOMAIN Remove(state.cache, id) = DOMAIN state.cache \ {id}
      BY <3>1, RemoveFacts
    <3> QED
      BY <3>2
  <2> QED
    BY <2>1, <2>2, <2>3, <2>4 DEF IsLoopState
<1>2. CASE ~(Size(state.cache) >= NumNeighbours /\ state.replace # <<>>)
  BY <1>2 DEF MakeRoom, IsLoopState
<1> QED
  BY <1>1, <1>2

LEMMA IncorporateOneFacts ==
    ASSUME NEW self, NEW state, IsLoopState(state), NEW item \in Pointer
    PROVE  LET after == IncorporateOne(self, state, item) IN
           /\ IsLoopState(after)
           /\ self \notin DOMAIN state.cache => self \notin DOMAIN after.cache
           /\ Len(after.replace) <= Len(state.replace)
           /\ \A i \in 1..Len(after.replace) :
                after.replace[i] = state.replace[i]
<1>1. CASE item.id = self
  BY <1>1 DEF IncorporateOne, IsLoopState
<1>2. CASE item.id # self /\ item.id \in DOMAIN state.cache
  <2>1. IncorporateOne(self, state, item)
            = [cache |-> MergeNodePointerIfNewer(state.cache, item),
               replace |-> state.replace]
    BY <1>2 DEF IncorporateOne, IsLoopState
  <2> QED
    BY <1>2, <2>1, MergeFacts DEF IsLoopState
<1>3. CASE item.id # self /\ item.id \notin DOMAIN state.cache
  <2> DEFINE roomy == MakeRoom(state)
  <2>1. /\ IsLoopState(roomy)
        /\ DOMAIN roomy.cache \subseteq DOMAIN state.cache
        /\ Len(roomy.replace) <= Len(state.replace)
        /\ \A i \in 1..Len(roomy.replace) : roomy.replace[i] = state.replace[i]
    BY MakeRoomFacts
  <2>2. IncorporateOne(self, state, item)
            = [cache |-> Insert(roomy.cache, item), replace |-> roomy.replace]
    BY <1>3 DEF IncorporateOne
  <2> HIDE DEF roomy
  <2>3. /\ IsCache(Insert(roomy.cache, item))
        /\ DOMAIN Insert(roomy.cache, item) = DOMAIN roomy.cache \cup {item.id}
    BY <2>1, InsertFacts DEF IsLoopState
  <2> QED
    BY <1>3, <2>1, <2>2, <2>3 DEF IsLoopState
<1> QED
  BY <1>1, <1>2, <1>3
------------------------------------------------------------------------------
(* The loop.  IsRun(run, m, ...) says that run lists the states after each *)
(* of the first m items, which is what the recursive function in           *)
(* Incorporate lists for all of them.                                      *)

RunOf(run, m, self, start, items) ==
    [i \in 0..m |-> IF i = 0 THEN start
                    ELSE IncorporateOne(self, run[i - 1], items[i])]

LEMMA RunExists ==
    ASSUME NEW self, NEW start, NEW items \in Seq(Pointer)
    PROVE  \E run : run = RunOf(run, Len(items), self, start, items)
<1> DEFINE n == Len(items)
           Has(m) == \E run : run = RunOf(run, m, self, start, items)
           P == {m \in 0..n : Has(m)}
<1>1. n \in Nat
  OBVIOUS
<1>2. 0 \in P
  <2> DEFINE run == [i \in 0..0 |-> start]
  <2>1. run = RunOf(run, 0, self, start, items)
    BY DEF RunOf
  <2> QED
    BY <1>1, <2>1
<1>3. ASSUME NEW m \in 1..n, m - 1 \in P
      PROVE  m \in P
  <2>1. PICK run : run = RunOf(run, m - 1, self, start, items)
    BY <1>3
  <2> DEFINE longer ==
        [i \in 0..m |-> IF i = m THEN IncorporateOne(self, run[m - 1], items[m])
                        ELSE run[i]]
  <2>2. \A i \in 0..(m - 1) :
            run[i] = IF i = 0 THEN start
                     ELSE IncorporateOne(self, run[i - 1], items[i])
    <3> DEFINE rhs == RunOf(run, m - 1, self, start, items)
    <3>1. \A i \in 0..(m - 1) :
            rhs[i] = IF i = 0 THEN start
                     ELSE IncorporateOne(self, run[i - 1], items[i])
      BY <1>3 DEF RunOf
    <3> QED
      BY <2>1, <3>1
  <2>3. \A i \in 0..m :
            longer[i] = IF i = 0 THEN start
                        ELSE IncorporateOne(self, longer[i - 1], items[i])
    <3> SUFFICES ASSUME NEW i \in 0..m
                 PROVE  longer[i] = IF i = 0 THEN start
                            ELSE IncorporateOne(self, longer[i - 1], items[i])
      OBVIOUS
    <3>1. CASE i = m
      BY <1>3, <3>1
    <3>2. CASE i # m /\ i = 0
      BY <1>3, <2>2, <3>2
    <3>3. CASE i # m /\ i # 0
      <4>1. i \in 0..(m - 1) /\ i - 1 \in 0..m /\ i - 1 # m
        BY <1>3, <3>3
      <4>2. longer[i] = run[i] /\ longer[i - 1] = run[i - 1]
        BY <3>3, <4>1
      <4> HIDE DEF longer
      <4> QED
        BY <2>2, <3>3, <4>1, <4>2
    <3> QED
      BY <3>1, <3>2, <3>3
  <2>4. longer = [i \in 0..m |-> longer[i]]
    OBVIOUS
  <2> HIDE DEF longer
  <2>5. longer = RunOf(longer, m, self, start, items)
    BY <2>3, <2>4 DEF RunOf
  <2> QED
    BY <1>3, <2>5
<1>4. 0..n \subseteq P
  <2> HIDE DEF P, n
  <2> QED
    BY <1>1, <1>2, <1>3, FiniteInduction
<1> QED
  BY <1>1, <1>4

(* What Incorporate returns is the last state of such a run.               *)
IsRun(run, self, c, items, replace) ==
    /\ run[0] = [cache |-> c, replace |-> replace]
    /\ \A i \in 1..Len(items) :
            run[i] = IncorporateOne(self, run[i - 1], items[i])
    /\ Incorporate(self, c, items, replace) = run[Len(items)]

LEMMA IncorporateRun ==
    ASSUME NEW self, NEW c, NEW items \in Seq(Pointer), NEW replace
    PROVE  \E run : IsRun(run, self, c, items, replace)
<1> DEFINE start == [cache |-> c, replace |-> replace]
           run == CHOOSE r : r = RunOf(r, Len(items), self, start, items)
<1>1. Incorporate(self, c, items, replace) = run[Len(items)]
  BY DEF Incorporate, RunOf
<1>2. run = RunOf(run, Len(items), self, start, items)
  BY RunExists
<1> HIDE DEF run
<1>3. \A i \in 0..Len(items) :
        run[i] = IF i = 0 THEN start
                 ELSE IncorporateOne(self, run[i - 1], items[i])
  <2> DEFINE rhs == RunOf(run, Len(items), self, start, items)
  <2>1. \A i \in 0..Len(items) :
          rhs[i] = IF i = 0 THEN start
                   ELSE IncorporateOne(self, run[i - 1], items[i])
    BY DEF RunOf
  <2> QED
    BY <1>2, <2>1
<1>4. run[0] = start
  BY <1>3
<1>5. \A i \in 1..Len(items) :
          run[i] = IncorporateOne(self, run[i - 1], items[i])
  BY <1>3
<1> QED
  BY <1>1, <1>4, <1>5 DEF IsRun
------------------------------------------------------------------------------
(* The invariants of the loop, and what they say of its result.            *)

(* Whatever array is given to evict from, the result is a cache without    *)
(* the node itself, and the array has at most lost its end.                *)
LEMMA IncorporateFacts ==
    ASSUME NEW self, NEW c, IsCache(c), NEW items \in Seq(Pointer),
           NEW replace \in Seq(Ids)
    PROVE  LET result == Incorporate(self, c, items, replace) IN
           /\ IsCache(result.cache)
           /\ self \notin DOMAIN c => self \notin DOMAIN result.cache
           /\ result.replace \in Seq(Ids)
           /\ Len(result.replace) <= Len(replace)
           /\ \A i \in 1..Len(result.replace) : result.replace[i] = replace[i]
<1>0. PICK run : IsRun(run, self, c, items, replace)
  BY IncorporateRun
<1> DEFINE n == Len(items)
           Good(state) ==
                /\ IsLoopState(state)
                /\ self \notin DOMAIN c => self \notin DOMAIN state.cache
                /\ Len(state.replace) <= Len(replace)
                /\ \A i \in 1..Len(state.replace) :
                        state.replace[i] = replace[i]
<1>1. /\ run[0] = [cache |-> c, replace |-> replace]
      /\ \A i \in 1..n : run[i] = IncorporateOne(self, run[i - 1], items[i])
      /\ Incorporate(self, c, items, replace) = run[n]
  BY <1>0 DEF IsRun
<1> DEFINE P == {i \in 0..n : Good(run[i])}
<1>2. n \in Nat
  OBVIOUS
<1>3. 0 \in P
  <2>1. Good(run[0])
    BY <1>1 DEF IsLoopState
  <2> QED
    BY <1>2, <2>1
<1>4. ASSUME NEW i \in 1..n, i - 1 \in P
      PROVE  i \in P
  <2>1. IsLoopState(run[i - 1]) /\ items[i] \in Pointer
    BY <1>4
  <2> DEFINE after == IncorporateOne(self, run[i - 1], items[i])
  <2>2. /\ IsLoopState(after)
        /\ self \notin DOMAIN run[i - 1].cache
             => self \notin DOMAIN after.cache
        /\ Len(after.replace) <= Len(run[i - 1].replace)
        /\ \A j \in 1..Len(after.replace) :
                after.replace[j] = run[i - 1].replace[j]
    BY <2>1, IncorporateOneFacts
  <2>3. run[i] = after
    BY <1>1
  <2> HIDE DEF after
  <2>4. Len(after.replace) \in Nat /\ Len(run[i - 1].replace) \in Nat
    BY <2>1, <2>2 DEF IsLoopState
  <2>5. Good(after)
    BY <1>4, <2>2, <2>4
  <2> QED
    BY <2>3, <2>5
<1>5. n \in P
  <2> HIDE DEF P
  <2>1. 0..n \subseteq P
    BY <1>2, <1>3, <1>4, FiniteInduction
  <2> QED
    BY <1>2, <2>1
<1> QED
  BY <1>1, <1>5 DEF IsLoopState

(* The loop seen as sets: D is what is in the cache, R what is in the      *)
(* array to evict from.  With "left" items to come, the cache ends with at *)
(* most "limit" entries when the array names no node twice and these       *)
(* bounds hold: each item takes a place, that of an entry in both, or one  *)
(* of the limit's; and each entry of the array that the cache has lost     *)
(* makes no room.                                                          *)
Bounded(D, R, left, limit) ==
    /\ NumNeighbours + Cardinality(R \ D) <= limit
    /\ Cardinality(D \cup R) <= limit
    /\ Cardinality(D \ R) + left <= limit

Affords(state, left, limit) ==
    Bounded(DOMAIN state.cache, Range(state.replace), left, limit)

LEMMA OneMore ==
    ASSUME NEW S, IsFiniteSet(S), NEW x
    PROVE  /\ IsFiniteSet(S \cup {x})
           /\ Cardinality(S \cup {x}) \in Nat
           /\ Cardinality(S) \in Nat
           /\ Cardinality(S \cup {x}) <= Cardinality(S) + 1
<1>1. /\ IsFiniteSet(S \cup {x})
      /\ Cardinality(S \cup {x})
            = IF x \in S THEN Cardinality(S) ELSE Cardinality(S) + 1
  BY FS_AddElement
<1>2. Cardinality(S) \in Nat
  BY FS_CardinalityType
<1> QED
  BY <1>1, <1>2

LEMMA FiniteParts ==
    ASSUME NEW D, IsFiniteSet(D), NEW R, IsFiniteSet(R)
    PROVE  /\ IsFiniteSet(D \cup R) /\ Cardinality(D \cup R) \in Nat
           /\ IsFiniteSet(R \ D) /\ Cardinality(R \ D) \in Nat
           /\ IsFiniteSet(D \ R) /\ Cardinality(D \ R) \in Nat
           /\ Cardinality(D) \in Nat /\ Cardinality(D) <= Cardinality(D \cup R)
           /\ Cardinality(D \cup R) = Cardinality(D) + Cardinality(R \ D)
<1>1. IsFiniteSet(D \cup R) /\ IsFiniteSet(R \ D) /\ IsFiniteSet(D \ R)
  BY FS_Union, FS_Difference
<1>2. Cardinality(D \cup (R \ D))
        = Cardinality(D) + Cardinality(R \ D) - Cardinality(D \cap (R \ D))
  BY <1>1, FS_Union
<1>3. D \cup (R \ D) = D \cup R /\ D \cap (R \ D) = {}
  OBVIOUS
<1>4. /\ Cardinality(D \cup R) \in Nat
      /\ Cardinality(R \ D) \in Nat
      /\ Cardinality(D \ R) \in Nat
      /\ Cardinality(D) \in Nat
  BY <1>1, FS_CardinalityType
<1>5. Cardinality({}) = 0
  BY FS_EmptySet
<1>6. Cardinality(D \cup R) = Cardinality(D) + Cardinality(R \ D) - 0
  BY <1>2, <1>3, <1>5
<1>7. /\ Cardinality(D) <= Cardinality(D \cup R)
      /\ Cardinality(D \cup R) = Cardinality(D) + Cardinality(R \ D)
  BY <1>4, <1>6
<1> QED
  BY <1>1, <1>4, <1>7

(* An item that takes the place of an entry of the array: "gone", whether  *)
(* the cache still has it or not.                                          *)
LEMMA BoundedReplacing ==
    ASSUME NEW D, IsFiniteSet(D), NEW R, IsFiniteSet(R),
           NEW gone \in R, NEW x, x \notin D,
           NEW left \in Nat \ {0}, NEW limit \in Nat, Bounded(D, R, left, limit)
    PROVE  Bounded((D \ {gone}) \cup {x}, R \ {gone}, left - 1, limit)
<1> DEFINE D2 == (D \ {gone}) \cup {x}
           R2 == R \ {gone}
<1>1. /\ IsFiniteSet(D \cup R) /\ Cardinality(D \cup R) \in Nat
      /\ IsFiniteSet(R \ D) /\ Cardinality(R \ D) \in Nat
      /\ IsFiniteSet(D \ R) /\ Cardinality(D \ R) \in Nat
  BY FiniteParts
<1>2. /\ Cardinality(R2 \ D2) <= Cardinality(R \ D)
      /\ Cardinality(R2 \ D2) \in Nat
  <2>1. R2 \ D2 \subseteq R \ D
    OBVIOUS
  <2> QED
    BY <1>1, <2>1, FS_Subset, FS_CardinalityType
<1>3. /\ Cardinality(D2 \cup R2) <= Cardinality(D \cup R)
      /\ Cardinality(D2 \cup R2) \in Nat
  <2>1. D2 \cup R2 \subseteq ((D \cup R) \ {gone}) \cup {x}
    OBVIOUS
  <2>2. /\ IsFiniteSet((D \cup R) \ {gone})
        /\ Cardinality((D \cup R) \ {gone}) = Cardinality(D \cup R) - 1
        /\ Cardinality((D \cup R) \ {gone}) \in Nat
    BY <1>1, FS_RemoveElement, FS_CardinalityType
  <2>3. /\ IsFiniteSet(((D \cup R) \ {gone}) \cup {x})
        /\ Cardinality(((D \cup R) \ {gone}) \cup {x}) <= Cardinality(D \cup R)
    <3> DEFINE S == (D \cup R) \ {gone}
    <3>1. IsFiniteSet(S) /\ Cardinality(S) = Cardinality(D \cup R) - 1
      BY <2>2
    <3> HIDE DEF S
    <3>2. IsFiniteSet(S \cup {x}) /\ Cardinality(S \cup {x}) <= Cardinality(S) + 1
      BY <3>1, OneMore
    <3>3. Cardinality(S \cup {x}) \in Nat
      BY <3>2, FS_CardinalityType
    <3> QED
      BY <1>1, <3>1, <3>2, <3>3 DEF S
  <2> HIDE DEF D2, R2
  <2> QED
    BY <1>1, <2>1, <2>3, FS_Subset, FS_CardinalityType
<1>4. /\ Cardinality(D2 \ R2) <= Cardinality(D \ R) + 1
      /\ Cardinality(D2 \ R2) \in Nat
  <2>1. D2 \ R2 \subseteq (D \ R) \cup {x}
    OBVIOUS
  <2>2. /\ IsFiniteSet((D \ R) \cup {x})
        /\ Cardinality((D \ R) \cup {x}) <= Cardinality(D \ R) + 1
        /\ Cardinality((D \ R) \cup {x}) \in Nat
    BY <1>1, OneMore
  <2> HIDE DEF D2, R2
  <2> QED
    BY <1>1, <2>1, <2>2, FS_Subset, FS_CardinalityType
<1> HIDE DEF D2, R2
<1> QED
  BY <1>1, <1>2, <1>3, <1>4, NeighbourSetAssumption DEF Bounded, D2, R2

(* An item for which nothing is evicted: there is a free place, or the     *)
(* array is used up.                                                       *)
LEMMA BoundedAdding ==
    ASSUME NEW D, IsFiniteSet(D), NEW R, IsFiniteSet(R),
           NEW x, x \notin D,
           Cardinality(D) < NumNeighbours \/ R = {},
           NEW left \in Nat \ {0}, NEW limit \in Nat, Bounded(D, R, left, limit)
    PROVE  Bounded(D \cup {x}, R, left - 1, limit)
<1> DEFINE D2 == D \cup {x}
<1>1. /\ IsFiniteSet(R \ D) /\ Cardinality(R \ D) \in Nat
      /\ IsFiniteSet(D \ R) /\ Cardinality(D \ R) \in Nat
      /\ Cardinality(D) \in Nat
  BY FiniteParts
<1>2. IsFiniteSet(D2) /\ Cardinality(D2) = Cardinality(D) + 1
  BY FS_AddElement
<1>3. /\ Cardinality(D2 \cup R) = Cardinality(D2) + Cardinality(R \ D2)
      /\ Cardinality(R \ D2) \in Nat
  BY <1>2, FiniteParts
<1>4. Cardinality(R \ D2) <= Cardinality(R \ D)
  <2>1. R \ D2 \subseteq R \ D
    OBVIOUS
  <2> QED
    BY <1>1, <2>1, FS_Subset
<1>5. /\ Cardinality(D2 \ R) <= Cardinality(D \ R) + 1
      /\ Cardinality(D2 \ R) \in Nat
  <2>1. D2 \ R \subseteq (D \ R) \cup {x}
    OBVIOUS
  <2>2. /\ IsFiniteSet((D \ R) \cup {x})
        /\ Cardinality((D \ R) \cup {x}) <= Cardinality(D \ R) + 1
        /\ Cardinality((D \ R) \cup {x}) \in Nat
    BY <1>1, OneMore
  <2> HIDE DEF D2
  <2> QED
    BY <1>1, <2>1, <2>2, FS_Subset, FS_CardinalityType
<1>6. ASSUME R = {}
      PROVE  Cardinality(R \ D2) = 0 /\ Cardinality(D \ R) = Cardinality(D)
  <2>1. R \ D2 = {} /\ D \ R = D
    BY <1>6
  <2> QED
    BY <2>1, FS_EmptySet
<1> HIDE DEF D2
<1>7. /\ NumNeighbours + Cardinality(R \ D) <= limit
      /\ Cardinality(D \ R) + left <= limit
  BY DEF Bounded
<1>8. NumNeighbours + Cardinality(R \ D2) <= limit
  BY <1>1, <1>3, <1>4, <1>7, NeighbourSetAssumption
<1>9. Cardinality(D2 \ R) + (left - 1) <= limit
  BY <1>1, <1>5, <1>7
<1>10. Cardinality(D2 \cup R) <= limit
  <2>1. CASE Cardinality(D) < NumNeighbours
    BY <1>1, <1>2, <1>3, <1>8, <2>1, NeighbourSetAssumption
  <2>2. CASE R = {}
    BY <1>1, <1>2, <1>3, <1>6, <1>7, <2>2
  <2> QED
    BY <2>1, <2>2
<1> QED
  BY <1>8, <1>9, <1>10 DEF Bounded, D2

LEMMA ArrayRange ==
    ASSUME NEW replace \in Seq(Ids)
    PROVE  /\ IsFiniteSet(Range(replace))
           /\ Cardinality(Range(replace)) \in Nat
           /\ Cardinality(Range(replace)) <= Len(replace)
           /\ IsInjective(replace) => Cardinality(Range(replace)) = Len(replace)
           /\ Range(replace) = {replace[i] : i \in 1..Len(replace)}
<1>1. /\ replace \in Surjection(1..Len(replace), Range(replace))
      /\ DOMAIN replace = 1..Len(replace)
      /\ Len(replace) \in Nat
  BY DEF Surjection, Range
<1>2. /\ IsFiniteSet(1..Len(replace))
      /\ Cardinality(1..Len(replace)) = Len(replace)
  BY <1>1, FS_Interval
<1>3. IsInjective(replace) => replace \in Injection(1..Len(replace), Range(replace))
  BY <1>1 DEF Injection, Surjection
<1> HIDE DEF Range
<1>4. /\ IsFiniteSet(Range(replace))
      /\ Cardinality(Range(replace)) <= Len(replace)
      /\ IsInjective(replace) => Cardinality(Range(replace)) = Len(replace)
  BY <1>1, <1>2, <1>3, FS_Surjection
<1>5. Cardinality(Range(replace)) \in Nat
  BY <1>4, FS_CardinalityType
<1> QED
  BY <1>1, <1>4, <1>5 DEF Range

(* Making room when the cache is full takes the last of the array out of   *)
(* both; otherwise it changes nothing.                                     *)
LEMMA MakeRoomSets ==
    ASSUME NEW state, IsLoopState(state), IsInjective(state.replace)
    PROVE  /\ IsInjective(MakeRoom(state).replace)
           /\ \/ /\ MakeRoom(state) = state
                 /\ Size(state.cache) < NumNeighbours \/ Range(state.replace) = {}
              \/ \E gone \in Range(state.replace) :
                    /\ DOMAIN MakeRoom(state).cache = DOMAIN state.cache \ {gone}
                    /\ Range(MakeRoom(state).replace) = Range(state.replace) \ {gone}
<1>0. /\ IsCache(state.cache)
      /\ state.replace \in Seq(Ids)
      /\ Size(state.cache) \in Nat
  BY SizeType DEF IsLoopState
<1>1. CASE Size(state.cache) >= NumNeighbours /\ state.replace # <<>>
  <2> DEFINE last == Len(state.replace)
             gone == state.replace[last]
             shorter == SubSeq(state.replace, 1, last - 1)
  <2>1. last \in Nat \ {0} /\ DOMAIN state.replace = 1..last
    BY <1>0, <1>1, EmptySeq
  <2>2. /\ shorter \in Seq(Ids)
        /\ Len(shorter) = last - 1
        /\ DOMAIN shorter = 1..(last - 1)
        /\ \A i \in 1..(last - 1) : shorter[i] = state.replace[i]
    BY <1>0, <1>1, FrontFacts
  <2>3. MakeRoom(state) = [cache |-> Remove(state.cache, gone), replace |-> shorter]
    BY <1>1 DEF MakeRoom
  <2> HIDE DEF shorter, last
  <2>4. gone \in Range(state.replace)
    BY <2>1 DEF Range
  <2>5. Range(shorter) = Range(state.replace) \ {gone}
    <3>1. \A i \in 1..(last - 1) : i \in 1..last /\ i # last
      BY <2>1
    <3>2. \A i \in 1..(last - 1) : state.replace[i] # gone
      BY <2>1, <3>1 DEF IsInjective
    <3>3. \A i \in 1..last : i = last \/ i \in 1..(last - 1)
      BY <2>1
    <3> QED
      BY <2>1, <2>2, <3>1, <3>2, <3>3 DEF Range
  <2>6. IsInjective(shorter)
    <3>1. \A i \in 1..(last - 1) : i \in 1..last
      BY <2>1
    <3> QED
      BY <2>1, <2>2, <3>1 DEF IsInjective
  <2>7. DOMAIN Remove(state.cache, gone) = DOMAIN state.cache \ {gone}
    <3> HIDE DEF gone
    <3> QED
      BY <1>0, RemoveFacts
  <2> HIDE DEF gone
  <2> QED
    BY <2>3, <2>4, <2>5, <2>6, <2>7
<1>2. CASE ~(Size(state.cache) >= NumNeighbours /\ state.replace # <<>>)
  <2>1. MakeRoom(state) = state
    BY <1>2 DEF MakeRoom
  <2>2. Size(state.cache) < NumNeighbours \/ Range(state.replace) = {}
    BY <1>0, <1>2, NeighbourSetAssumption DEF Range
  <2> QED
    BY <2>1, <2>2
<1> QED
  BY <1>1, <1>2

(* A turn of the loop uses up one of the items left.                       *)
LEMMA IncorporateOneAffords ==
    ASSUME NEW self, NEW state, IsLoopState(state), IsInjective(state.replace),
           NEW item \in Pointer,
           NEW left \in Nat \ {0}, NEW limit \in Nat, Affords(state, left, limit)
    PROVE  LET after == IncorporateOne(self, state, item) IN
           /\ IsInjective(after.replace)
           /\ Affords(after, left - 1, limit)
           /\ Range(after.replace) \ DOMAIN after.cache
                \subseteq Range(state.replace) \ DOMAIN state.cache
<1> DEFINE D == DOMAIN state.cache
           R == Range(state.replace)
<1>0. /\ IsCache(state.cache)
      /\ IsFiniteSet(D)
      /\ state.replace \in Seq(Ids)
      /\ IsFiniteSet(R)
      /\ Cardinality(D \ R) \in Nat
  BY ArrayRange, FiniteParts DEF IsLoopState, IsCache
<1>1. Bounded(D, R, left - 1, limit)
  <2> HIDE DEF D, R
  <2>1. Bounded(D, R, left, limit)
    BY DEF Affords, D, R
  <2> QED
    BY <1>0, <2>1 DEF Bounded
<1>2. CASE item.id = self
  <2>1. IncorporateOne(self, state, item) = state
    BY <1>2 DEF IncorporateOne
  <2> QED
    BY <1>1, <2>1 DEF Affords
<1>3. CASE item.id # self /\ item.id \in DOMAIN state.cache
  <2> DEFINE merged == MergeNodePointerIfNewer(state.cache, item)
  <2>1. IncorporateOne(self, state, item)
            = [cache |-> merged, replace |-> state.replace]
    BY <1>3 DEF IncorporateOne
  <2>2. DOMAIN merged = D
    BY <1>0, <1>3, MergeFacts
  <2> HIDE DEF merged
  <2> QED
    BY <1>1, <2>1, <2>2 DEF Affords
<1>4. CASE item.id # self /\ item.id \notin DOMAIN state.cache
  <2> DEFINE roomy == MakeRoom(state)
             inserted == Insert(roomy.cache, item)
  <2>1. IncorporateOne(self, state, item)
            = [cache |-> inserted, replace |-> roomy.replace]
    BY <1>4 DEF IncorporateOne
  <2>2. IsLoopState(roomy)
    BY MakeRoomFacts
  <2>3. /\ IsInjective(roomy.replace)
        /\ \/ roomy = state /\ (Size(state.cache) < NumNeighbours \/ R = {})
           \/ \E gone \in R : /\ DOMAIN roomy.cache = D \ {gone}
                              /\ Range(roomy.replace) = R \ {gone}
    BY MakeRoomSets
  <2> HIDE DEF roomy
  <2>4. DOMAIN inserted = DOMAIN roomy.cache \cup {item.id}
    BY <2>2, InsertFacts DEF IsLoopState
  <2> HIDE DEF inserted, D, R
  <2>5. item.id \notin D /\ Bounded(D, R, left, limit)
    BY <1>4 DEF D, R, Affords
  <2>6. CASE roomy = state /\ (Size(state.cache) < NumNeighbours \/ R = {})
    <3>1. Bounded(D \cup {item.id}, R, left - 1, limit)
      BY <1>0, <2>5, <2>6, BoundedAdding DEF Size, D
    <3>2. DOMAIN inserted = D \cup {item.id} /\ Range(roomy.replace) = R
      BY <2>4, <2>6 DEF D, R
    <3> QED
      BY <2>1, <2>3, <3>1, <3>2 DEF Affords, D, R
  <2>7. ASSUME NEW gone \in R, DOMAIN roomy.cache = D \ {gone},
               Range(roomy.replace) = R \ {gone}
        PROVE  /\ Bounded(DOMAIN inserted, Range(roomy.replace), left - 1, limit)
               /\ Range(roomy.replace) \ DOMAIN inserted \subseteq R \ D
    <3>1. Bounded((D \ {gone}) \cup {item.id}, R \ {gone}, left - 1, limit)
      BY <1>0, <2>5, BoundedReplacing
    <3> QED
      BY <2>4, <2>7, <3>1
  <2> QED
    BY <2>1, <2>3, <2>6, <2>7 DEF Affords, D, R
<1> QED
  BY <1>2, <1>3, <1>4

(* The cache ends within the limit; and the array is not left with entries *)
(* that the cache has lost, unless it had them before.                     *)
LEMMA IncorporateCapacity ==
    ASSUME NEW self, NEW c, IsCache(c), NEW items \in Seq(Pointer),
           NEW replace \in Seq(Ids), IsInjective(replace),
           NEW limit \in Nat,
           Bounded(DOMAIN c, Range(replace), Len(items), limit)
    PROVE  LET result == Incorporate(self, c, items, replace) IN
           /\ Size(result.cache) <= limit
           /\ Range(result.replace) \ DOMAIN result.cache
                \subseteq Range(replace) \ DOMAIN c
<1>0. PICK run : IsRun(run, self, c, items, replace)
  BY IncorporateRun
<1> DEFINE n == Len(items)
           Good(i) == /\ IsLoopState(run[i])
                      /\ IsInjective(run[i].replace)
                      /\ Affords(run[i], n - i, limit)
                      /\ Range(run[i].replace) \ DOMAIN run[i].cache
                            \subseteq Range(replace) \ DOMAIN c
           P == {i \in 0..n : Good(i)}
<1>1. /\ run[0] = [cache |-> c, replace |-> replace]
      /\ \A i \in 1..n : run[i] = IncorporateOne(self, run[i - 1], items[i])
      /\ Incorporate(self, c, items, replace) = run[n]
  BY <1>0 DEF IsRun
<1>2. n \in Nat
  OBVIOUS
<1>3. 0 \in P
  <2>1. IsLoopState(run[0])
    BY <1>1 DEF IsLoopState
  <2>2. Affords(run[0], n - 0, limit)
    BY <1>1, <1>2 DEF Affords
  <2> QED
    BY <1>1, <1>2, <2>1, <2>2
<1>4. ASSUME NEW i \in 1..n, i - 1 \in P
      PROVE  i \in P
  <2> DEFINE before == run[i - 1]
             after == IncorporateOne(self, before, items[i])
  <2>1. Good(i - 1)
    BY <1>4
  <2>2. items[i] \in Pointer /\ n - (i - 1) \in Nat \ {0}
    BY <1>2, <1>4
  <2>3. run[i] = after
    BY <1>1, <1>4
  <2> HIDE DEF n
  <2>4. IsLoopState(after)
    BY <2>1, <2>2, IncorporateOneFacts
  <2>5. /\ IsInjective(after.replace)
        /\ Affords(after, n - (i - 1) - 1, limit)
        /\ Range(after.replace) \ DOMAIN after.cache
                \subseteq Range(before.replace) \ DOMAIN before.cache
    BY <2>1, <2>2, IncorporateOneAffords
  <2>6. n - (i - 1) - 1 = n - i
    BY <1>2, <1>4
  <2> HIDE DEF after
  <2>7. Good(i)
    BY <2>1, <2>3, <2>4, <2>5, <2>6
  <2> HIDE DEF Good
  <2> QED
    BY <1>4, <2>7
<1>5. Good(n)
  <2>1. 0..n \subseteq P
    <3> HIDE DEF P
    <3> QED
      BY <1>2, <1>3, <1>4, FiniteInduction
  <2> QED
    BY <1>2, <2>1
<1>6. Size(run[n].cache) <= limit
  <2> DEFINE D == DOMAIN run[n].cache
             R == Range(run[n].replace)
  <2>1. IsFiniteSet(D) /\ IsFiniteSet(R)
    BY <1>5, ArrayRange DEF IsLoopState, IsCache
  <2>2. Cardinality(D \cup R) <= limit
    BY <1>5 DEF Affords, Bounded
  <2> HIDE DEF D, R
  <2>3. /\ Cardinality(D) \in Nat
        /\ Cardinality(D \cup R) \in Nat
        /\ Cardinality(D) <= Cardinality(D \cup R)
    BY <2>1, FiniteParts
  <2>4. Cardinality(D) <= limit
    BY <2>2, <2>3
  <2> QED
    BY <2>4 DEF D, Size
<1> HIDE DEF n
<1> QED
  BY <1>1, <1>5, <1>6

(* A sample of the cache to evict from pays for as many items.             *)
LEMMA SelectionBounded ==
    ASSUME NEW c, IsCache(c), NEW selection \in Samples(DOMAIN c, ShuffleSize),
           NEW left \in Nat, left <= ShuffleSize,
           NEW limit \in Nat, NumNeighbours <= limit, Size(c) <= limit
    PROVE  /\ selection \in Seq(Ids)
           /\ IsInjective(selection)
           /\ Len(selection) <= ShuffleSize
           /\ Range(selection) \subseteq DOMAIN c
           /\ Bounded(DOMAIN c, Range(selection), left, limit)
<1> DEFINE D == DOMAIN c
           R == Range(selection)
<1>1. /\ selection \in Seq(D)
      /\ Len(selection) = IF Size(c) < ShuffleSize THEN Size(c) ELSE ShuffleSize
      /\ \A i, j \in 1..Len(selection) : selection[i] = selection[j] => i = j
  <2>1. IsFiniteSet(DOMAIN c) /\ ShuffleSize \in Nat
    BY NeighbourSetAssumption DEF IsCache
  <2> QED
    BY <2>1, SampleFacts DEF Size
<1>2. /\ selection \in Seq(Ids)
      /\ IsInjective(selection)
      /\ R \subseteq D
  BY <1>1 DEF IsCache, IsInjective, Range
<1>3. Size(c) = Cardinality(D) /\ IsFiniteSet(D) /\ Cardinality(D) \in Nat
  BY FS_CardinalityType DEF Size, IsCache
<1>4. Cardinality(R) = Len(selection) /\ IsFiniteSet(R)
  BY <1>2, ArrayRange
<1>5. Len(selection) <= ShuffleSize
  BY <1>1, <1>3, NeighbourSetAssumption
<1> HIDE DEF D, R
<1>6. R \ D = {} /\ D \cup R = D /\ D \cap R = R
  BY <1>2
<1>7. Cardinality(R \ D) = 0 /\ Cardinality(D \cup R) = Cardinality(D)
  BY <1>6, FS_EmptySet
<1>8. Cardinality(D \ R) = Cardinality(D) - Cardinality(R)
  <2>1. Cardinality(D \ R) = Cardinality(D) - Cardinality(D \cap R)
    BY <1>3, FS_Difference
  <2> QED
    BY <1>6, <2>1
<1>9. Bounded(D, R, left, limit)
  BY <1>1, <1>3, <1>4, <1>7, <1>8, NeighbourSetAssumption DEF Bounded
<1> QED
  BY <1>2, <1>5, <1>9 DEF D, R

(* The array a node sends: itself, then others than the destination.       *)
LEMMA ShuffleSetFacts ==
    ASSUME NEW c, IsCache(c), NEW self \in Ids, self \notin DOMAIN c,
           NEW oldest \in DOMAIN c, NEW set \in ShuffleSets(c, oldest, self)
    PROVE  /\ set \in Seq(Ids)
           /\ IsInjective(set)
           /\ Len(set) = IF Size(c) < ShuffleSize THEN Size(c) ELSE ShuffleSize
           /\ oldest \notin Range(set)
           /\ Range(set) \ DOMAIN c = {self}
<1>1. /\ IsFiniteSet(DOMAIN c \ {oldest})
      /\ Cardinality(DOMAIN c \ {oldest}) = Size(c) - 1
      /\ Size(c) \in Nat
  BY SizeFacts, FS_RemoveElement DEF IsCache
<1>2. ShuffleSize - 1 \in Nat
  BY NeighbourSetAssumption
<1>3. PICK others \in Samples(DOMAIN c \ {oldest}, ShuffleSize - 1) :
        set = <<self>> \o others
  BY DEF ShuffleSets
<1>4. /\ others \in Seq(DOMAIN c \ {oldest})
      /\ Len(others) = IF Size(c) - 1 < ShuffleSize - 1
                       THEN Size(c) - 1 ELSE ShuffleSize - 1
      /\ \A i, j \in 1..Len(others) : others[i] = others[j] => i = j
  BY <1>1, <1>2, SampleFacts
<1>5. /\ others \in Seq(Ids)
      /\ Len(others) \in Nat
      /\ \A i \in 1..Len(others) : others[i] \in DOMAIN c \ {oldest}
  BY <1>4 DEF IsCache
<1>6. /\ set \in Seq(Ids)
      /\ Len(set) = Len(others) + 1
      /\ DOMAIN set = 1..Len(set)
      /\ set[1] = self
      /\ \A i \in 2..Len(set) : set[i] = others[i - 1]
  <2>1. <<self>> \in Seq(Ids) /\ Len(<<self>>) = 1
    OBVIOUS
  <2> QED
    BY <1>3, <1>5, <2>1
<1>7. /\ \A i \in 2..Len(set) : i - 1 \in 1..Len(others)
      /\ \A i \in 1..Len(set) : i = 1 \/ i \in 2..Len(set)
      /\ 1 \in 1..Len(set)
  BY <1>5, <1>6
<1>8. \A i \in 2..Len(set) : set[i] \in DOMAIN c \ {oldest}
  BY <1>5, <1>6, <1>7
<1>9. IsInjective(set)
  <2>1. ASSUME NEW i \in 2..Len(set), NEW j \in 2..Len(set), set[i] = set[j]
        PROVE  i = j
    <3>1. others[i - 1] = others[j - 1]
      BY <1>6, <2>1
    <3>2. i - 1 = j - 1
      BY <1>4, <1>7, <3>1
    <3> QED
      BY <3>2
  <2> QED
    BY <1>6, <1>7, <1>8, <2>1 DEF IsInjective
<1>10. oldest \notin Range(set) /\ Range(set) \ DOMAIN c = {self}
  BY <1>6, <1>7, <1>8 DEF Range
<1>11. Len(set) = IF Size(c) < ShuffleSize THEN Size(c) ELSE ShuffleSize
  BY <1>1, <1>4, <1>6, NeighbourSetAssumption
<1> QED
  BY <1>6, <1>9, <1>10, <1>11

(* Such an array pays for as many items, and one more entry, when the      *)
(* cache is within its capacity.                                           *)
LEMMA ShuffleSetBounded ==
    ASSUME NEW c, IsCache(c), Size(c) <= NumNeighbours,
           NEW self \in Ids, self \notin DOMAIN c,
           NEW oldest \in DOMAIN c, NEW set \in ShuffleSets(c, oldest, self),
           NEW left \in Nat, left <= ShuffleSize
    PROVE  Bounded(DOMAIN c, Range(set), left, NumNeighbours + 1)
<1> DEFINE D == DOMAIN c
           R == Range(set)
<1>1. /\ set \in Seq(Ids)
      /\ IsInjective(set)
      /\ Len(set) = IF Size(c) < ShuffleSize THEN Size(c) ELSE ShuffleSize
      /\ R \ D = {self}
  BY ShuffleSetFacts
<1>2. Size(c) = Cardinality(D) /\ IsFiniteSet(D) /\ Cardinality(D) \in Nat
  BY FS_CardinalityType DEF Size, IsCache
<1>3. Cardinality(R) = Len(set) /\ IsFiniteSet(R)
  BY <1>1, ArrayRange
<1> HIDE DEF D, R
<1>4. Cardinality(R \ D) = 1
  BY <1>1, FS_Singleton
<1>5. Cardinality(D \cup R) = Cardinality(D) + 1
  BY <1>2, <1>3, <1>4, FiniteParts
<1>6. Cardinality(D \cup R) = Cardinality(R) + Cardinality(D \ R)
  <2>1. Cardinality(R \cup D) = Cardinality(R) + Cardinality(D \ R)
    BY <1>2, <1>3, FiniteParts
  <2>2. R \cup D = D \cup R
    OBVIOUS
  <2> QED
    BY <2>1, <2>2
<1>7. Cardinality(D \ R) \in Nat /\ Cardinality(R) \in Nat
  BY <1>2, <1>3, FiniteParts, FS_CardinalityType
<1> QED
  BY <1>1, <1>2, <1>3, <1>4, <1>5, <1>6, <1>7, NeighbourSetAssumption
  DEF Bounded, D, R

(* An array that has lost some of its entries to other shuffles, or never  *)
(* had enough, pays for its items but for those that it has no entry for.  *)
LEMMA StaleArrayBounded ==
    ASSUME NEW c, IsCache(c), NEW set \in Seq(Ids), IsInjective(set),
           Len(set) <= ShuffleSize,
           NEW left \in Nat, left <= ShuffleSize,
           NEW capacity \in Nat, NumNeighbours <= capacity, Size(c) <= capacity
    PROVE  LET unpaid == ShuffleSize - Cardinality(Range(set) \cap DOMAIN c) IN
           /\ unpaid \in Nat
           /\ Bounded(DOMAIN c, Range(set), left, capacity + unpaid)
<1> DEFINE D == DOMAIN c
           R == Range(set)
<1>1. Size(c) = Cardinality(D) /\ IsFiniteSet(D) /\ Cardinality(D) \in Nat
  BY FS_CardinalityType DEF Size, IsCache
<1>2. Cardinality(R) = Len(set) /\ IsFiniteSet(R) /\ Len(set) \in Nat
  BY ArrayRange
<1> HIDE DEF D, R
<1>3. /\ Cardinality(D \ R) = Cardinality(D) - Cardinality(D \cap R)
      /\ Cardinality(R \ D) = Cardinality(R) - Cardinality(R \cap D)
  BY <1>1, <1>2, FS_Difference
<1>4. D \cap R = R \cap D
  OBVIOUS
<1>5. Cardinality(R \cap D) \in Nat /\ Cardinality(R \cap D) <= Cardinality(R)
  BY <1>2, FS_Intersection, FS_CardinalityType
<1>6. Cardinality(D \cup R) = Cardinality(D) + Cardinality(R \ D)
  BY <1>1, <1>2, FiniteParts
<1> DEFINE unpaid == ShuffleSize - Cardinality(R \cap D)
<1>7. unpaid \in Nat /\ Cardinality(R \ D) <= unpaid
  BY <1>2, <1>3, <1>5, NeighbourSetAssumption
<1>8. Cardinality(D \ R) + left <= capacity + unpaid
  <2>1. Cardinality(D \ R) = Cardinality(D) - Cardinality(R \cap D)
    BY <1>3, <1>4
  <2> QED
    BY <1>1, <1>5, <2>1, NeighbourSetAssumption
<1>9. Cardinality(R \ D) \in Nat
  BY <1>1, <1>2, FiniteParts
<1> HIDE DEF unpaid
<1>10. Bounded(D, R, left, capacity + unpaid)
  BY <1>1, <1>6, <1>7, <1>8, <1>9, NeighbourSetAssumption DEF Bounded
<1> QED
  BY <1>7, <1>10 DEF unpaid, D, R

------------------------------------------------------------------------------
(* What the loop keeps: the entries that no array names, and all of them   *)
(* while the cache does not fill up.                                       *)

Keeps(before, after, id) ==
    /\ id \in DOMAIN after
    /\ after[id].age = before[id].age
    /\ after[id].seq >= before[id].seq

IsFull(cache) == Size(cache) >= NumNeighbours

IsSafe(state, id) ==
    \/ ~IsFull(state.cache)
    \/ \A i \in 1..Len(state.replace) : state.replace[i] # id

LEMMA MakeRoomKeeps ==
    ASSUME NEW state, IsLoopState(state)
    PROVE  LET roomy == MakeRoom(state) IN
           /\ \A id \in DOMAIN state.cache : IsSafe(state, id) =>
                id \in DOMAIN roomy.cache /\ roomy.cache[id] = state.cache[id]
           /\ IsFull(state.cache) => Size(roomy.cache) >= NumNeighbours - 1
<1>0. /\ IsCache(state.cache)
      /\ state.replace \in Seq(Ids)
      /\ Size(state.cache) \in Nat
  BY SizeType DEF IsLoopState
<1>1. CASE IsFull(state.cache) /\ state.replace # <<>>
  <2> DEFINE last == Len(state.replace)
             gone == state.replace[last]
             roomier == Remove(state.cache, gone)
  <2>1. last \in 1..Len(state.replace)
    BY <1>0, <1>1, EmptySeq
  <2>2. MakeRoom(state).cache = roomier
    BY <1>1 DEF MakeRoom, IsFull
  <2>3. /\ DOMAIN roomier = DOMAIN state.cache \ {gone}
        /\ \A id \in DOMAIN state.cache \ {gone} : roomier[id] = state.cache[id]
    <3>1. \A id : /\ DOMAIN Remove(state.cache, id) = DOMAIN state.cache \ {id}
                  /\ \A other \in DOMAIN state.cache \ {id} :
                        Remove(state.cache, id)[other] = state.cache[other]
      BY <1>0, RemoveFacts
    <3> QED
      BY <3>1
  <2>4. \A id : IsSafe(state, id) => id # gone
    BY <1>1, <2>1 DEF IsSafe
  <2> HIDE DEF gone, roomier
  <2>5. Cardinality(DOMAIN state.cache \ {gone})
            = IF gone \in DOMAIN state.cache THEN Size(state.cache) - 1
              ELSE Size(state.cache)
    BY <1>0, SizeFacts, Zenon
  <2>6. Size(roomier) >= Size(state.cache) - 1
    BY <1>0, <2>3, <2>5 DEF Size
  <2>7. Size(roomier) \in Nat
    BY <1>0, <2>3, <2>5, SizeType, RemoveFacts DEF Size, roomier
  <2> QED
    BY <1>0, <1>1, <2>2, <2>3, <2>4, <2>6, <2>7, NeighbourSetAssumption DEF IsFull
<1>2. CASE ~(IsFull(state.cache) /\ state.replace # <<>>)
  <2>1. MakeRoom(state) = state
    BY <1>2 DEF MakeRoom, IsFull
  <2> QED
    BY <1>0, <2>1, NeighbourSetAssumption DEF IsFull
<1> QED
  BY <1>1, <1>2

LEMMA IncorporateOneKeeps ==
    ASSUME NEW self, NEW state, IsLoopState(state), NEW item \in Pointer
    PROVE  LET after == IncorporateOne(self, state, item) IN
           /\ \A id \in DOMAIN state.cache :
                IsSafe(state, id) => Keeps(state.cache, after.cache, id)
           /\ IsFull(state.cache) => IsFull(after.cache)
<1>0. IsCache(state.cache)
  BY DEF IsLoopState
<1>1. \A id \in DOMAIN state.cache : state.cache[id].seq \in Nat
  BY <1>0, NeighbourSetAssumption DEF IsCache, Pointer
<1>2. CASE item.id = self
  <2>1. IncorporateOne(self, state, item) = state
    BY <1>2 DEF IncorporateOne
  <2> QED
    BY <1>1, <2>1 DEF Keeps
<1>3. CASE item.id # self /\ item.id \in DOMAIN state.cache
  <2> DEFINE merged == MergeNodePointerIfNewer(state.cache, item)
  <2>1. IncorporateOne(self, state, item).cache = merged
    BY <1>3 DEF IncorporateOne
  <2>2. /\ DOMAIN merged = DOMAIN state.cache
        /\ \A id \in DOMAIN state.cache : /\ merged[id].age = state.cache[id].age
                                          /\ merged[id].seq >= state.cache[id].seq
    BY <1>0, <1>3, MergeFacts
  <2> HIDE DEF merged
  <2> QED
    BY <2>1, <2>2 DEF Keeps, IsFull, Size
<1>4. CASE item.id # self /\ item.id \notin DOMAIN state.cache
  <2> DEFINE roomy == MakeRoom(state)
             inserted == Insert(roomy.cache, item)
  <2>1. IncorporateOne(self, state, item).cache = inserted
    BY <1>4 DEF IncorporateOne
  <2>2. /\ IsLoopState(roomy)
        /\ DOMAIN roomy.cache \subseteq DOMAIN state.cache
    BY MakeRoomFacts
  <2>3. /\ \A id \in DOMAIN state.cache : IsSafe(state, id) =>
             id \in DOMAIN roomy.cache /\ roomy.cache[id] = state.cache[id]
        /\ IsFull(state.cache) => Size(roomy.cache) >= NumNeighbours - 1
    BY MakeRoomKeeps
  <2> HIDE DEF roomy
  <2>4. IsCache(roomy.cache) /\ Size(roomy.cache) \in Nat
    BY <2>2, SizeType DEF IsLoopState
  <2>5. /\ DOMAIN inserted = DOMAIN roomy.cache \cup {item.id}
        /\ \A id \in DOMAIN roomy.cache : id # item.id => inserted[id] = roomy.cache[id]
    BY <2>4, InsertFacts
  <2> HIDE DEF inserted
  <2>6. Size(inserted) = Size(roomy.cache) + 1
    <3>1. item.id \notin DOMAIN roomy.cache
      BY <1>4, <2>2
    <3> QED
      BY <2>4, <2>5, <3>1, SizeFacts DEF Size
  <2>7. IsFull(state.cache) => IsFull(inserted)
    BY <2>3, <2>4, <2>6, NeighbourSetAssumption DEF IsFull
  <2>8. \A id \in DOMAIN state.cache :
            IsSafe(state, id) => id \in DOMAIN inserted /\ inserted[id] = state.cache[id]
    BY <1>4, <2>3, <2>5
  <2> QED
    BY <1>1, <2>1, <2>7, <2>8 DEF Keeps
<1> QED
  BY <1>2, <1>3, <1>4

(* An entry that is not in the array stays, with its age, and so do all    *)
(* when the cache ends below its capacity.                                 *)
LEMMA IncorporateKeeps ==
    ASSUME NEW self, NEW c, IsCache(c), NEW items \in Seq(Pointer),
           NEW replace \in Seq(Ids)
    PROVE  LET result == Incorporate(self, c, items, replace) IN
           \A id \in DOMAIN c :
                \/ ~IsFull(result.cache)
                \/ \A i \in 1..Len(replace) : replace[i] # id
                => Keeps(c, result.cache, id)
<1>0. PICK run : IsRun(run, self, c, items, replace)
  BY IncorporateRun
<1> DEFINE n == Len(items)
           Unnamed(id) == \A i \in 1..Len(replace) : replace[i] # id
           Good(i) ==
                /\ IsLoopState(run[i])
                /\ Len(run[i].replace) <= Len(replace)
                /\ \A j \in 1..Len(run[i].replace) : run[i].replace[j] = replace[j]
                /\ \A id \in DOMAIN c : ~IsFull(run[i].cache) \/ Unnamed(id)
                        => Keeps(c, run[i].cache, id)
           P == {i \in 0..n : Good(i)}
<1>1. /\ run[0] = [cache |-> c, replace |-> replace]
      /\ \A i \in 1..n : run[i] = IncorporateOne(self, run[i - 1], items[i])
      /\ Incorporate(self, c, items, replace) = run[n]
  BY <1>0 DEF IsRun
<1>2. n \in Nat
  OBVIOUS
<1>3. \A id \in DOMAIN c : c[id].seq \in Nat
  BY NeighbourSetAssumption DEF IsCache, Pointer
<1>4. 0 \in P
  <2>1. IsLoopState(run[0])
    BY <1>1 DEF IsLoopState
  <2>2. \A id \in DOMAIN c : Keeps(c, run[0].cache, id)
    BY <1>1, <1>3 DEF Keeps
  <2>3. /\ Len(run[0].replace) <= Len(replace)
        /\ \A j \in 1..Len(run[0].replace) : run[0].replace[j] = replace[j]
    BY <1>1
  <2> QED
    BY <1>2, <2>1, <2>2, <2>3
<1>5. ASSUME NEW i \in 1..n, i - 1 \in P
      PROVE  i \in P
  <2> DEFINE before == run[i - 1]
             after == IncorporateOne(self, before, items[i])
  <2>1. /\ IsLoopState(before)
        /\ Len(before.replace) <= Len(replace)
        /\ \A j \in 1..Len(before.replace) : before.replace[j] = replace[j]
        /\ \A id \in DOMAIN c : ~IsFull(before.cache) \/ Unnamed(id)
                => Keeps(c, before.cache, id)
    BY <1>5
  <2>2. IsLoopState(before) /\ items[i] \in Pointer
    BY <1>5
  <2>3. run[i] = after
    BY <1>1, <1>5
  <2>4. /\ IsLoopState(after)
        /\ self \notin DOMAIN before.cache => self \notin DOMAIN after.cache
        /\ Len(after.replace) <= Len(before.replace)
        /\ \A j \in 1..Len(after.replace) : after.replace[j] = before.replace[j]
    BY <2>2, IncorporateOneFacts, SMTT(60)
  <2> HIDE DEF before, n
  <2>5. /\ \A id \in DOMAIN before.cache :
                IsSafe(before, id) => Keeps(before.cache, after.cache, id)
        /\ IsFull(before.cache) => IsFull(after.cache)
    BY <2>2, IncorporateOneKeeps
  <2> HIDE DEF after
  <2>6. /\ Len(before.replace) \in Nat
        /\ Len(after.replace) \in Nat
        /\ \A id \in DOMAIN before.cache : before.cache[id].seq \in Nat
        /\ \A id \in DOMAIN after.cache : after.cache[id].seq \in Nat
    BY <2>1, <2>4, NeighbourSetAssumption DEF IsLoopState, IsCache, Pointer
  <2>7. /\ Len(after.replace) <= Len(replace)
        /\ \A j \in 1..Len(after.replace) : after.replace[j] = replace[j]
    <3>1. Len(replace) \in Nat
      OBVIOUS
    <3>2. Len(after.replace) <= Len(replace)
      BY <2>1, <2>4, <2>6, <3>1
    <3>3. ASSUME NEW j \in 1..Len(after.replace)
          PROVE  after.replace[j] = replace[j]
      <4>1. j \in 1..Len(before.replace)
        BY <2>4, <2>6, <3>3
      <4> QED
        BY <2>1, <2>4, <3>3, <4>1, Zenon
    <3> QED
      BY <3>2, <3>3
  <2>8. ASSUME NEW id \in DOMAIN c, ~IsFull(after.cache) \/ Unnamed(id)
        PROVE  Keeps(c, after.cache, id)
    <3>1. Keeps(c, before.cache, id)
      BY <2>1, <2>5, <2>8
    <3>2. IsSafe(before, id)
      BY <2>1, <2>5, <2>6, <2>8 DEF IsSafe
    <3>3. Keeps(before.cache, after.cache, id)
      BY <2>5, <3>1, <3>2 DEF Keeps
    <3> QED
      BY <1>3, <2>6, <3>1, <3>3 DEF Keeps
  <2> QED
    BY <1>5, <2>3, <2>4, <2>7, <2>8
<1>6. Good(n)
  <2>1. 0..n \subseteq P
    <3> HIDE DEF P
    <3> QED
      BY <1>2, <1>4, <1>5, FiniteInduction
  <2> QED
    BY <1>2, <2>1
<1> QED
  BY <1>1, <1>6
------------------------------------------------------------------------------
(* Which of the items the loop inserts, or puts in the place of an older   *)
(* pointer: of these the cache has the sequence number in the end, and of  *)
(* the other nodes the one it had.                                         *)
Replaces(self, state, item) ==
    /\ item.id # self
    /\ item.id \in DOMAIN state.cache => state.cache[item.id].seq < item.seq

TakesOnly(self, state, item, after) ==
    \A id \in DOMAIN after.cache :
        IF id = item.id /\ Replaces(self, state, item)
        THEN after.cache[id].seq = item.seq
        ELSE id \in DOMAIN state.cache /\ after.cache[id].seq = state.cache[id].seq

LEMMA MakeRoomLeaves ==
    ASSUME NEW state, IsLoopState(state)
    PROVE  LET roomy == MakeRoom(state) IN
           \A id \in DOMAIN roomy.cache :
                id \in DOMAIN state.cache /\ roomy.cache[id] = state.cache[id]
<1>1. CASE Size(state.cache) >= NumNeighbours /\ state.replace # <<>>
  <2> DEFINE gone == state.replace[Len(state.replace)]
  <2>1. MakeRoom(state).cache = Remove(state.cache, gone)
    BY <1>1 DEF MakeRoom
  <2> HIDE DEF gone
  <2>2. IsCache(state.cache)
    BY DEF IsLoopState
  <2>3. /\ DOMAIN Remove(state.cache, gone) = DOMAIN state.cache \ {gone}
        /\ \A other \in DOMAIN state.cache \ {gone} :
                Remove(state.cache, gone)[other] = state.cache[other]
    BY <2>2, RemoveFacts
  <2> QED
    BY <2>1, <2>3
<1>2. CASE ~(Size(state.cache) >= NumNeighbours /\ state.replace # <<>>)
  BY <1>2 DEF MakeRoom
<1> QED
  BY <1>1, <1>2

LEMMA IncorporateOneReplaces ==
    ASSUME NEW self, NEW state, IsLoopState(state), NEW item \in Pointer
    PROVE  TakesOnly(self, state, item, IncorporateOne(self, state, item))
<1> USE DEF TakesOnly
<1>1. CASE item.id = self
  BY <1>1 DEF IncorporateOne, Replaces
<1>2. CASE item.id # self /\ item.id \in DOMAIN state.cache
  <2> DEFINE merged == MergeNodePointerIfNewer(state.cache, item)
  <2>1. IncorporateOne(self, state, item).cache = merged
    BY <1>2 DEF IncorporateOne
  <2>2. IsCache(state.cache)
    BY DEF IsLoopState
  <2>3. CASE state.cache[item.id].seq < item.seq
    <3> DEFINE put == [item EXCEPT !.age = state.cache[item.id].age]
    <3>1. put.seq = item.seq
      BY DEF Pointer
    <3>2. merged = [state.cache EXCEPT ![item.id] = put]
      BY <2>3 DEF MergeNodePointerIfNewer
    <3> HIDE DEF put, merged
    <3>3. /\ DOMAIN merged = DOMAIN state.cache
          /\ \A id \in DOMAIN state.cache :
                merged[id] = IF id = item.id THEN put ELSE state.cache[id]
      BY <3>2
    <3>4. Replaces(self, state, item)
      BY <1>2, <2>3 DEF Replaces
    <3> QED
      BY <2>1, <3>1, <3>3, <3>4
  <2>4. CASE ~(state.cache[item.id].seq < item.seq)
    <3>1. merged = state.cache
      BY <2>4 DEF MergeNodePointerIfNewer
    <3>2. ~Replaces(self, state, item)
      BY <1>2, <2>4 DEF Replaces
    <3> QED
      BY <2>1, <3>1, <3>2
  <2> QED
    BY <2>3, <2>4
<1>3. CASE item.id # self /\ item.id \notin DOMAIN state.cache
  <2> DEFINE roomy == MakeRoom(state)
  <2>1. IncorporateOne(self, state, item).cache = Insert(roomy.cache, item)
    BY <1>3 DEF IncorporateOne
  <2>2. /\ IsLoopState(roomy)
        /\ \A id \in DOMAIN roomy.cache :
                id \in DOMAIN state.cache /\ roomy.cache[id] = state.cache[id]
    BY MakeRoomFacts, MakeRoomLeaves
  <2> HIDE DEF roomy
  <2>3. /\ DOMAIN Insert(roomy.cache, item) = DOMAIN roomy.cache \cup {item.id}
        /\ Insert(roomy.cache, item)[item.id] = item
        /\ \A id \in DOMAIN roomy.cache :
                id # item.id => Insert(roomy.cache, item)[id] = roomy.cache[id]
    BY <2>2, InsertFacts DEF IsLoopState
  <2>4. Replaces(self, state, item)
    BY <1>3 DEF Replaces
  <2> QED
    BY <2>1, <2>2, <2>3, <2>4
<1> QED
  BY <1>1, <1>2, <1>3

(* The states of the loop are what Incorporate returns for fewer items.    *)
LEMMA IncorporatePrefix ==
    ASSUME NEW self, NEW c, NEW items \in Seq(Pointer), NEW replace, NEW run,
           IsRun(run, self, c, items, replace), NEW m \in 0..Len(items)
    PROVE  Incorporate(self, c, SubSeq(items, 1, m), replace) = run[m]
<1> DEFINE some == SubSeq(items, 1, m)
<1>1. /\ some \in Seq(Pointer)
      /\ Len(some) = m
      /\ \A i \in 1..m : some[i] = items[i]
  OBVIOUS
<1> HIDE DEF some
<1>2. PICK other : IsRun(other, self, c, some, replace)
  BY <1>1, IncorporateRun
<1> DEFINE P == {i \in 0..m : other[i] = run[i]}
<1>3. 0 \in P
  BY <1>2 DEF IsRun
<1>4. ASSUME NEW i \in 1..m, i - 1 \in P
      PROVE  i \in P
  <2>1. /\ other[i] = IncorporateOne(self, other[i - 1], some[i])
        /\ run[i] = IncorporateOne(self, run[i - 1], items[i])
    BY <1>1, <1>2 DEF IsRun
  <2> QED
    BY <1>1, <1>4, <2>1
<1>5. 0..m \subseteq P
  <2> HIDE DEF P
  <2> QED
    BY <1>3, <1>4, FiniteInduction
<1>6. other[m] = run[m]
  BY <1>5
<1> QED
  BY <1>1, <1>2, <1>6 DEF IsRun, some

Replacing(self, c, items, replace) ==
    {i \in 1..Len(items) :
        Replaces(self, Incorporate(self, c, SubSeq(items, 1, i - 1), replace), items[i])}

(* "after" has the sequence numbers of these, and else those of c.         *)
HasTheirSeqs(after, self, c, items, replace) ==
    \A id \in DOMAIN after :
        /\ \A i \in Replacing(self, c, items, replace) :
            items[i].id = id => after[id].seq = items[i].seq
        /\ (\A i \in Replacing(self, c, items, replace) : items[i].id # id)
            => id \in DOMAIN c /\ after[id].seq = c[id].seq

LEMMA IncorporateReplaces ==
    ASSUME NEW self, NEW c, IsCache(c), NEW items \in Seq(Pointer),
           HasDistinctIds(items), NEW replace \in Seq(Ids)
    PROVE  HasTheirSeqs(Incorporate(self, c, items, replace).cache,
                        self, c, items, replace)
<1>1. PICK run : IsRun(run, self, c, items, replace)
  BY IncorporateRun
<1> DEFINE n == Len(items)
           Does(i) == Replaces(self, run[i - 1], items[i])
           Good(m) ==
                /\ IsLoopState(run[m])
                /\ \A id \in DOMAIN run[m].cache :
                    /\ \A i \in 1..m : Does(i) /\ items[i].id = id
                            => run[m].cache[id].seq = items[i].seq
                    /\ (\A i \in 1..m : Does(i) => items[i].id # id)
                            => id \in DOMAIN c /\ run[m].cache[id].seq = c[id].seq
           P == {m \in 0..n : Good(m)}
<1>2. /\ run[0] = [cache |-> c, replace |-> replace]
      /\ \A i \in 1..n : run[i] = IncorporateOne(self, run[i - 1], items[i])
      /\ Incorporate(self, c, items, replace) = run[n]
  BY <1>1 DEF IsRun
<1>3. n \in Nat /\ (\A i \in 1..n : items[i] \in Pointer)
  OBVIOUS
<1>4. 0 \in P
  <2>1. IsLoopState(run[0])
    BY <1>2 DEF IsLoopState
  <2>2. run[0].cache = c
    BY <1>2
  <2>3. Good(0)
    <3> HIDE DEF Does
    <3> QED
      BY <2>1, <2>2
  <2> HIDE DEF Good
  <2> QED
    BY <1>3, <2>3
<1>5. ASSUME NEW m \in 1..n, m - 1 \in P
      PROVE  m \in P
  <2>1. Good(m - 1)
    BY <1>5
  <2>2. /\ IsLoopState(run[m])
        /\ \A id \in DOMAIN run[m].cache :
              IF id = items[m].id /\ Does(m)
              THEN run[m].cache[id].seq = items[m].seq
              ELSE /\ id \in DOMAIN run[m - 1].cache
                   /\ run[m].cache[id].seq = run[m - 1].cache[id].seq
    <3>1. IsLoopState(run[m - 1]) /\ items[m] \in Pointer
      BY <1>3, <2>1
    <3>2. run[m] = IncorporateOne(self, run[m - 1], items[m])
      BY <1>2
    <3>3. /\ IsLoopState(IncorporateOne(self, run[m - 1], items[m]))
          /\ TakesOnly(self, run[m - 1], items[m],
                       IncorporateOne(self, run[m - 1], items[m]))
      BY <3>1, IncorporateOneFacts, IncorporateOneReplaces, Zenon
    <3>4. IsLoopState(run[m]) /\ TakesOnly(self, run[m - 1], items[m], run[m])
      BY <3>2, <3>3, Zenon
    <3> QED
      BY <3>4, Zenon DEF TakesOnly
  <2>3. \A i \in 1..m : i = m \/ (i \in 1..(m - 1) /\ items[i].id # items[m].id)
    BY <1>3 DEF HasDistinctIds
  <2>4. \A i \in 1..(m - 1) : i \in 1..m
    BY <1>3
  <2> HIDE DEF Does
  <2>5. ASSUME NEW id \in DOMAIN run[m].cache
        PROVE  /\ \A i \in 1..m : Does(i) /\ items[i].id = id
                        => run[m].cache[id].seq = items[i].seq
               /\ (\A i \in 1..m : Does(i) => items[i].id # id)
                        => id \in DOMAIN c /\ run[m].cache[id].seq = c[id].seq
    <3>1. CASE id = items[m].id /\ Does(m)
      BY <2>2, <2>3, <3>1
    <3>2. CASE ~(id = items[m].id /\ Does(m))
      <4>1. /\ id \in DOMAIN run[m - 1].cache
            /\ run[m].cache[id].seq = run[m - 1].cache[id].seq
        BY <2>2, <3>2
      <4> QED
        BY <2>1, <2>3, <2>4, <3>2, <4>1
    <3> QED
      BY <3>1, <3>2
  <2> QED
    BY <2>2, <2>5
<1>6. Good(n)
  <2>1. 0..n \subseteq P
    <3> HIDE DEF P, n
    <3> QED
      BY <1>3, <1>4, <1>5, FiniteInduction
  <2> HIDE DEF Good
  <2> QED
    BY <1>3, <2>1
<1>7. Replacing(self, c, items, replace) = {i \in 1..n : Does(i)}
  <2>1. \A i \in 1..n : i - 1 \in 0..Len(items)
    BY <1>3
  <2>2. \A i \in 1..n :
            Incorporate(self, c, SubSeq(items, 1, i - 1), replace) = run[i - 1]
    BY <1>1, <2>1, IncorporatePrefix
  <2> QED
    BY <2>2 DEF Replacing
<1> HIDE DEF Does
<1> QED
  BY <1>2, <1>6, <1>7 DEF HasTheirSeqs

------------------------------------------------------------------------------
(***************************************************************************)
(* The random choices.  The modules let the callers of randomSample and    *)
(* shuffleArray get any sample and any order: the loops of Sampling give   *)
(* exactly those.                                                          *)
(***************************************************************************)

(* A loop of n turns has a run: the states it goes through.                *)
HasRun(n, X, start, F) ==
    \E run \in [0..n -> X] :
        /\ run[0] = start
        /\ \A i \in 1..n : run[i] = F[<<i, run[i - 1]>>]

LEMMA Iteration ==
    ASSUME NEW n \in Nat, NEW X, NEW start \in X,
           NEW F \in [(1..n) \X X -> X]
    PROVE  HasRun(n, X, start, F)
<1> DEFINE Has(m) == \E run \in [0..m -> X] :
                        /\ run[0] = start
                        /\ \A i \in 1..m : run[i] = F[<<i, run[i - 1]>>]
           P == {m \in 0..n : Has(m)}
<1>1. 0 \in P
  <2> DEFINE run == [i \in 0..0 |-> start]
  <2>1. run \in [0..0 -> X] /\ run[0] = start
    OBVIOUS
  <2>2. \A i \in 1..0 : FALSE
    OBVIOUS
  <2> HIDE DEF run
  <2>3. Has(0)
    BY <2>1, <2>2
  <2> QED
    BY <2>3
<1>2. ASSUME NEW m \in 1..n, m - 1 \in P
      PROVE  m \in P
  <2>1. PICK run \in [0..(m - 1) -> X] :
            /\ run[0] = start
            /\ \A i \in 1..(m - 1) : run[i] = F[<<i, run[i - 1]>>]
    BY <1>2
  <2> DEFINE longer ==
        [i \in 0..m |-> IF i = m THEN F[<<m, run[m - 1]>>] ELSE run[i]]
  <2>2. F[<<m, run[m - 1]>>] \in X
    <3>1. run[m - 1] \in X
      BY <1>2
    <3> QED
      BY <3>1
  <2>3. longer \in [0..m -> X]
    BY <2>2
  <2>4. longer[0] = start
    BY <2>1
  <2>5. ASSUME NEW i \in 1..m
        PROVE  longer[i] = F[<<i, longer[i - 1]>>]
    <3>1. longer[i - 1] = run[i - 1]
      OBVIOUS
    <3>2. CASE i = m
      <4>1. longer[m] = F[<<m, run[m - 1]>>]
        OBVIOUS
      <4> HIDE DEF longer
      <4> QED
        BY <3>1, <3>2, <4>1, Zenon
    <3>3. CASE i # m
      <4>1. i \in 1..(m - 1) /\ longer[i] = run[i]
        BY <3>3
      <4> HIDE DEF longer
      <4>2. run[i] = F[<<i, run[i - 1]>>]
        BY <2>1, <4>1
      <4> QED
        BY <3>1, <4>1, <4>2, Zenon
    <3> QED
      BY <3>2, <3>3
  <2> HIDE DEF longer
  <2> QED
    BY <2>3, <2>4, <2>5
<1>3. 0..n \subseteq P
  <2> HIDE DEF P
  <2> QED
    BY <1>1, <1>2, FiniteInduction
<1> QED
  BY <1>3 DEF HasRun

LEMMA ArraysFacts ==
    ASSUME NEW S, IsFiniteSet(S), NEW a \in Arrays(S)
    PROVE  /\ Cardinality(S) \in Nat
           /\ a \in Seq(S)
           /\ Len(a) = Cardinality(S)
           /\ \A i, j \in 1..Len(a) : a[i] = a[j] => i = j
           /\ \A x \in S : \E i \in 1..Len(a) : a[i] = x
<1> DEFINE n == Cardinality(S)
<1>1. n \in Nat
  BY FS_CardinalityType
<1>2. IsFiniteSet(1..n) /\ Cardinality(1..n) = n
  <2>1. 1 \in Int /\ n \in Int
    BY <1>1
  <2> HIDE DEF n
  <2>2. Cardinality(1..n) = IF 1 > n THEN 0 ELSE n - 1 + 1
    BY <2>1, FS_Interval
  <2> QED
    BY <1>1, <2>1, <2>2, FS_Interval
<1>3. a \in Injection(1..n, S)
  BY DEF Arrays
<1>4. a \in Surjection(1..n, S)
  BY <1>2, <1>3, FS_Injection
<1> HIDE DEF n
<1>5. a \in [1..n -> S] /\ IsInjective(a)
  BY <1>3 DEF Injection
<1>6. a \in Seq(S) /\ Len(a) = n /\ DOMAIN a = 1..n
  BY <1>1, <1>5
<1> QED
  BY <1>1, <1>4, <1>5, <1>6 DEF n, IsInjective, Surjection, Range

IsSampleRun(run, S, a, k, draws) ==
    /\ run \in [0..Len(a) -> Seq(S)]
    /\ run[0] = <<>>
    /\ \A i \in 1..Len(a) : run[i] = Offer(run[i - 1], k, a[i], draws[i])
    /\ RandomSample(a, k, draws) = run[Len(a)]

LEMMA SampleRun ==
    ASSUME NEW S, NEW a \in Seq(S), NEW k \in Nat, NEW draws \in Draws(Len(a))
    PROVE  \E run : IsSampleRun(run, S, a, k, draws)
<1> DEFINE n == Len(a)
           Turn(i, chosen) == Offer(chosen, k, a[i], draws[i])
           F == [t \in (1..n) \X Seq(S) |-> Turn(t[1], t[2])]
           RunFrom(run) == [i \in 0..n |-> IF i = 0 THEN <<>>
                                           ELSE Turn(i, run[i - 1])]
<1>1. n \in Nat /\ a \in [1..n -> S] /\ draws \in [1..n -> Nat]
  BY DEF Draws
<1>2. ASSUME NEW i \in 1..n, NEW chosen \in Seq(S)
      PROVE  Turn(i, chosen) \in Seq(S)
  <2>1. a[i] \in S /\ draws[i] \in Nat
    BY <1>1
  <2> QED
    BY <2>1 DEF Offer
<1>3. F \in [(1..n) \X Seq(S) -> Seq(S)]
  BY <1>2
<1>4. \A i \in 1..n, chosen \in Seq(S) : F[<<i, chosen>>] = Turn(i, chosen)
  OBVIOUS
<1>5. <<>> \in Seq(S)
  OBVIOUS
<1> HIDE DEF F, Turn, n
<1>6. \E run \in [0..n -> Seq(S)] :
         run[0] = <<>> /\ \A i \in 1..n : run[i] = F[<<i, run[i - 1]>>]
  <2>1. HasRun(n, Seq(S), <<>>, F)
    BY <1>1, <1>3, <1>5, Iteration
  <2> QED
    BY <2>1 DEF HasRun
<1>7. PICK any \in [0..n -> Seq(S)] :
         any[0] = <<>> /\ \A i \in 1..n : any[i] = F[<<i, any[i - 1]>>]
  BY <1>6
<1>8. any = RunFrom(any)
  <2>1. \A i \in 1..n : any[i] = Turn(i, any[i - 1])
    <3> SUFFICES ASSUME NEW i \in 1..n PROVE any[i] = Turn(i, any[i - 1])
      OBVIOUS
    <3>1. any[i - 1] \in Seq(S)
      BY <1>1
    <3> QED
      BY <1>4, <1>7, <3>1
  <2>2. \A i \in 0..n : any[i] = RunFrom(any)[i]
    BY <1>1, <1>7, <2>1
  <2>3. any = [i \in 0..n |-> any[i]]
    OBVIOUS
  <2> QED
    BY <2>2, <2>3
<1> DEFINE run == CHOOSE r : r = RunFrom(r)
<1>9. RandomSample(a, k, draws) = run[n]
  BY DEF RandomSample, Turn, n
<1>10. run = RunFrom(run)
  BY <1>8
<1> HIDE DEF run
<1>11. \A i \in 0..n : run[i] = RunFrom(run)[i]
  BY <1>10
<1>12. /\ run[0] = <<>>
       /\ \A i \in 1..n : run[i] = Turn(i, run[i - 1])
  BY <1>1, <1>11
<1>13. run \in [0..n -> Seq(S)]
  <2> DEFINE P == {i \in 0..n : run[i] \in Seq(S)}
  <2>1. 0 \in P
    <3>1. run[0] \in Seq(S)
      BY <1>5, <1>12, Zenon
    <3> QED
      BY <1>1, <3>1
  <2>2. ASSUME NEW i \in 1..n, i - 1 \in P PROVE i \in P
    BY <1>1, <1>2, <1>12, <2>2
  <2>3. 0..n \subseteq P
    <3> HIDE DEF P
    <3> QED
      BY <1>1, <2>1, <2>2, FiniteInduction
  <2>4. run = [i \in 0..n |-> run[i]]
    BY <1>10
  <2> QED
    BY <2>3, <2>4
<1> QED
  BY <1>9, <1>12, <1>13 DEF Turn, n, IsSampleRun

(* What randomSample has chosen of the first i items.                      *)
ChosenFrom(chosen, a, k, i) ==
    /\ Len(chosen) = IF i < k THEN i ELSE k
    /\ \A j \in 1..Len(chosen) : \E q \in 1..i : chosen[j] = a[q]
    /\ \A p, q \in 1..Len(chosen) : chosen[p] = chosen[q] => p = q

LEMMA OfferFacts ==
    ASSUME NEW S, NEW a \in Seq(S),
           \A p, q \in 1..Len(a) : a[p] = a[q] => p = q,
           NEW k \in Nat, NEW i \in 1..Len(a), NEW insertAt \in Nat,
           NEW chosen \in Seq(S), ChosenFrom(chosen, a, k, i - 1)
    PROVE  ChosenFrom(Offer(chosen, k, a[i], insertAt), a, k, i)
<1> DEFINE len == Len(chosen)
           next == Offer(chosen, k, a[i], insertAt)
<1>1. len \in Nat /\ len = (IF i - 1 < k THEN i - 1 ELSE k) /\ len <= k
  BY DEF ChosenFrom
<1>2. ASSUME NEW j \in 1..len
      PROVE  chosen[j] # a[i] /\ \E q \in 1..i : chosen[j] = a[q]
  <2>1. PICK q \in 1..(i - 1) : chosen[j] = a[q]
    BY DEF ChosenFrom
  <2>2. q \in 1..i /\ q \in 1..Len(a) /\ q # i
    OBVIOUS
  <2> QED
    BY <2>1, <2>2
<1>3. \A p, q \in 1..len : chosen[p] = chosen[q] => p = q
  BY DEF ChosenFrom
<1>4. i \in 1..i
  OBVIOUS
<1>5. CASE len < k
  <2>1. next = Append(chosen, a[i])
    BY <1>5 DEF Offer
  <2>2. /\ Len(next) = len + 1
        /\ next[len + 1] = a[i]
        /\ \A j \in 1..len : next[j] = chosen[j]
    BY <1>1, <2>1
  <2>3. \A j \in 1..(len + 1) : j = len + 1 \/ j \in 1..len
    BY <1>1
  <2>4. Len(next) = IF i < k THEN i ELSE k
    BY <1>1, <1>5, <2>2
  <2> HIDE DEF next, len
  <2>5. \A j \in 1..Len(next) : \E q \in 1..i : next[j] = a[q]
    BY <1>2, <1>4, <2>2, <2>3
  <2>6. \A p, q \in 1..Len(next) : next[p] = next[q] => p = q
    BY <1>2, <1>3, <2>2, <2>3
  <2> QED
    BY <2>4, <2>5, <2>6 DEF ChosenFrom, next
<1>6. CASE ~(len < k) /\ insertAt < len
  <2>1. next = [chosen EXCEPT ![insertAt + 1] = a[i]]
    BY <1>6 DEF Offer
  <2>2. insertAt + 1 \in 1..len /\ DOMAIN chosen = 1..len
    BY <1>1, <1>6
  <2>3. /\ Len(next) = len
        /\ next[insertAt + 1] = a[i]
        /\ \A j \in 1..len : j # insertAt + 1 => next[j] = chosen[j]
    BY <1>1, <2>1, <2>2
  <2>4. Len(next) = IF i < k THEN i ELSE k
    BY <1>1, <1>6, <2>3
  <2> DEFINE at == insertAt + 1
  <2> HIDE DEF next, len
  <2>5. \A j \in 1..len : j = at \/ (j # at /\ next[j] = chosen[j])
    BY <2>3
  <2>6. next[at] = a[i] /\ Len(next) = len
    BY <2>3
  <2> HIDE DEF at
  <2>7. \A j \in 1..Len(next) : \E q \in 1..i : next[j] = a[q]
    BY <1>2, <1>4, <2>5, <2>6
  <2>8. \A p, q \in 1..Len(next) : next[p] = next[q] => p = q
    BY <1>2, <1>3, <2>5, <2>6
  <2> QED
    BY <2>4, <2>7, <2>8 DEF ChosenFrom, next
<1>7. CASE ~(len < k) /\ ~(insertAt < len)
  <2>1. next = chosen
    BY <1>7 DEF Offer
  <2>2. Len(next) = IF i < k THEN i ELSE k
    BY <1>1, <1>7, <2>1
  <2> HIDE DEF next, len
  <2> QED
    BY <1>2, <1>3, <2>1, <2>2 DEF ChosenFrom, next, len
<1> QED
  BY <1>5, <1>6, <1>7

(* Whatever is drawn, randomSample returns distinct members of the array,  *)
(* as many as there are up to the size asked for: a result that Samples    *)
(* allows.                                                                 *)
THEOREM RandomSampleIsASample ==
    ASSUME NEW S, IsFiniteSet(S), NEW a \in Arrays(S), NEW k \in Nat,
           NEW draws \in Draws(Len(a))
    PROVE  RandomSample(a, k, draws) \in Samples(S, k)
<1> DEFINE n == Len(a)
<1>1. /\ n \in Nat /\ n = Cardinality(S) /\ a \in Seq(S)
      /\ \A p, q \in 1..n : a[p] = a[q] => p = q
  BY ArraysFacts
<1>2. PICK run : IsSampleRun(run, S, a, k, draws)
  BY <1>1, SampleRun
<1>3. /\ run \in [0..n -> Seq(S)]
      /\ run[0] = <<>>
      /\ \A i \in 1..n : run[i] = Offer(run[i - 1], k, a[i], draws[i])
      /\ RandomSample(a, k, draws) = run[n]
  BY <1>2 DEF IsSampleRun
<1> DEFINE P == {i \in 0..n : ChosenFrom(run[i], a, k, i)}
<1>4. 0 \in P
  <2>1. ChosenFrom(<<>>, a, k, 0)
    BY DEF ChosenFrom
  <2> QED
    BY <1>1, <1>3, <2>1
<1>5. ASSUME NEW i \in 1..n, i - 1 \in P PROVE i \in P
  <2>1. run[i - 1] \in Seq(S) /\ ChosenFrom(run[i - 1], a, k, i - 1)
    BY <1>3, <1>5
  <2>2. draws[i] \in Nat
    BY DEF Draws
  <2>3. ChosenFrom(Offer(run[i - 1], k, a[i], draws[i]), a, k, i)
    BY <1>1, <2>1, <2>2, OfferFacts
  <2> QED
    BY <1>3, <2>3
<1>6. ChosenFrom(run[n], a, k, n)
  <2>1. 0..n \subseteq P
    <3> HIDE DEF P, n
    <3> QED
      BY <1>1, <1>4, <1>5, FiniteInduction
  <2> HIDE DEF n
  <2> QED
    BY <1>1, <2>1
<1> DEFINE m == IF n < k THEN n ELSE k
<1>7. run[n] \in [1..m -> S] /\ IsInjective(run[n])
  <2>1. run[n] \in Seq(S)
    BY <1>1, <1>3
  <2>2. Len(run[n]) = m /\ \A p, q \in 1..m : run[n][p] = run[n][q] => p = q
    BY <1>6 DEF ChosenFrom
  <2>3. DOMAIN run[n] = 1..m
    BY <2>1, <2>2
  <2> HIDE DEF n, m
  <2> QED
    BY <2>1, <2>2, <2>3 DEF IsInjective
<1> QED
  BY <1>1, <1>3, <1>7 DEF Samples, Injection

(* Every result that Samples allows can be drawn: the items of the sample  *)
(* come first in the array, in its order, and no later item is put in.     *)
THEOREM EverySampleIsDrawn ==
    ASSUME NEW S, IsFiniteSet(S), NEW k \in Nat, NEW s \in Samples(S, k)
    PROVE  \E a \in Arrays(S) :
             \E draws \in Draws(Len(a)) : RandomSample(a, k, draws) = s
<1> DEFINE len == Len(s)
           rest == S \ Range(s)
           r == Cardinality(rest)
           n == Cardinality(S)
<1>1. /\ s \in Seq(S)
      /\ len \in Nat
      /\ len = IF n < k THEN n ELSE k
      /\ \A i, j \in 1..len : s[i] = s[j] => i = j
  BY SampleFacts
<1>2. IsFiniteSet(rest)
  BY FS_Difference
<1>3. n \in Nat /\ r \in Nat
  BY <1>2, FS_CardinalityType
<1>4. PICK b \in Bijection(1..r, rest) : TRUE
  <2> HIDE DEF rest
  <2> QED
    BY <1>2, FS_CardinalityType DEF ExistsBijection
<1>5. b \in [1..r -> rest] /\ IsInjective(b) /\ rest = Range(b)
  BY <1>4 DEF Bijection, Injection, Surjection, Range
<1>6. \A x \in S : x \in rest \/ \E i \in 1..len : x = s[i]
  BY <1>1 DEF Range
<1>7. \A i \in 1..len : s[i] \in S /\ s[i] \notin rest
  BY <1>1 DEF Range
<1> DEFINE a == [i \in 1..(len + r) |-> IF i <= len THEN s[i] ELSE b[i - len]]
<1> HIDE DEF rest, r, len
<1>8. \A i \in 1..(len + r) : i \in 1..len \/ (~(i <= len) /\ i - len \in 1..r)
  BY <1>1, <1>3
<1>9. a \in [1..(len + r) -> S]
  <2>1. rest \subseteq S
    BY DEF rest
  <2> QED
    BY <1>5, <1>7, <1>8, <2>1
<1>10. \A i, j \in 1..(len + r) : a[i] = a[j] => i = j
  <2>1. \A p, q \in 1..r : b[p] = b[q] => p = q
    BY <1>5 DEF IsInjective
  <2>2. \A p \in 1..r : b[p] \in rest
    BY <1>5
  <2>3. \A i \in 1..(len + r) :
            \/ i \in 1..len /\ a[i] = s[i]
            \/ ~(i <= len) /\ i - len \in 1..r /\ a[i] = b[i - len]
    BY <1>8
  <2> HIDE DEF a
  <2> SUFFICES ASSUME NEW i \in 1..(len + r), NEW j \in 1..(len + r), a[i] = a[j]
               PROVE  i = j
    OBVIOUS
  <2>4. CASE i \in 1..len
    BY <1>1, <1>7, <2>2, <2>3, <2>4
  <2>5. CASE ~(i <= len) /\ i - len \in 1..r /\ a[i] = b[i - len]
    <3>1. ~(j <= len) /\ j - len \in 1..r /\ a[j] = b[j - len]
      BY <1>7, <2>2, <2>3, <2>5
    <3>2. i - len = j - len
      BY <2>1, <2>5, <3>1
    <3> QED
      BY <1>1, <1>3, <3>2
  <2> QED
    BY <2>3, <2>4, <2>5
<1>11. \A x \in S : \E i \in 1..(len + r) : a[i] = x
  <2> SUFFICES ASSUME NEW x \in S PROVE \E i \in 1..(len + r) : a[i] = x
    OBVIOUS
  <2>1. CASE x \in rest
    <3>1. PICK p \in 1..r : b[p] = x
      BY <1>5, <2>1 DEF Range
    <3>2. /\ len + p \in 1..(len + r)
          /\ ~(len + p <= len)
          /\ (len + p) - len = p
      BY <1>1, <1>3
    <3> QED
      BY <3>1, <3>2
  <2>2. CASE x \notin rest
    <3>1. PICK i \in 1..len : x = s[i]
      BY <1>6, <2>2
    <3>2. i \in 1..(len + r) /\ i <= len
      BY <1>1, <1>3
    <3> QED
      BY <3>1, <3>2
  <2> QED
    BY <2>1, <2>2
<1>12. len + r = n
  <2>1. DOMAIN a = 1..(len + r)
    OBVIOUS
  <2> HIDE DEF a
  <2>2. a \in Bijection(1..(len + r), S)
    BY <1>9, <1>10, <1>11, <2>1
      DEF Bijection, Injection, Surjection, IsInjective, Range
  <2>3. ExistsBijection(1..(len + r), S)
    BY <2>2 DEF ExistsBijection
  <2>4. len + r \in Nat
    BY <1>1, <1>3
  <2> QED
    BY <2>3, <2>4, FS_CountingElements
<1>13. a \in Arrays(S) /\ Len(a) = n /\ a \in Seq(S)
  <2>1. DOMAIN a = 1..(len + r)
    OBVIOUS
  <2> HIDE DEF a, n
  <2>2. a \in [1..n -> S] /\ DOMAIN a = 1..n
    BY <1>9, <1>12, <2>1
  <2>3. a \in Seq(S) /\ Len(a) = n
    BY <1>3, <2>2
  <2>4. IsInjective(a)
    BY <1>10, <2>1 DEF IsInjective
  <2> QED
    BY <2>2, <2>3, <2>4 DEF Arrays, Injection, n
<1>14. \A i \in 1..len : i \in 1..n /\ a[i] = s[i]
  BY <1>1, <1>3, <1>12
<1> DEFINE draws == [i \in 1..n |-> i - 1]
<1>15. draws \in Draws(Len(a))
  <2> HIDE DEF a, n
  <2>1. \A i \in 1..n : i - 1 \in 0..n /\ i - 1 < i
    BY <1>3
  <2> QED
    BY <1>13, <2>1 DEF Draws
<1> HIDE DEF a
<1>16. PICK run : IsSampleRun(run, S, a, k, draws)
  BY <1>13, <1>15, SampleRun
<1> HIDE DEF n
<1>17. /\ run \in [0..n -> Seq(S)]
       /\ run[0] = <<>>
       /\ \A i \in 1..n : run[i] = Offer(run[i - 1], k, a[i], i - 1)
       /\ RandomSample(a, k, draws) = run[n]
  BY <1>13, <1>16 DEF IsSampleRun
<1> HIDE DEF draws
<1> DEFINE Good(i) ==
                /\ Len(run[i]) = IF i < len THEN i ELSE len
                /\ \A j \in 1..Len(run[i]) : run[i][j] = s[j]
           P == {i \in 0..n : Good(i)}
<1>18. 0 \in P
  <2>1. Len(run[0]) = 0
    BY <1>17
  <2>2. Good(0)
    BY <1>1, <2>1
  <2> QED
    BY <1>3, <2>2
<1>19. ASSUME NEW i \in 1..n, i - 1 \in P PROVE i \in P
  <2>1. run[i - 1] \in Seq(S) /\ Good(i - 1)
    BY <1>17, <1>19
  <2> DEFINE old == run[i - 1]
  <2>2. old \in Seq(S) /\ Len(old) \in Nat /\ run[i] = Offer(old, k, a[i], i - 1)
    BY <1>17, <2>1
  <2>3. Len(old) = (IF i - 1 < len THEN i - 1 ELSE len)
    BY <2>1
  <2>4. CASE i <= len
    <3>1. a[i] = s[i] /\ Len(old) = i - 1 /\ i - 1 < k /\ i \in 1..len
      BY <1>1, <1>3, <1>14, <2>3, <2>4
    <3>2. run[i] = Append(old, a[i])
      BY <2>2, <3>1 DEF Offer
    <3>3. /\ Len(run[i]) = i
          /\ run[i][i] = a[i]
          /\ \A j \in 1..(i - 1) : run[i][j] = old[j]
      BY <2>2, <3>1, <3>2
    <3>4. \A j \in 1..i : j = i \/ j \in 1..(i - 1)
      OBVIOUS
    <3>5. \A j \in 1..i : run[i][j] = s[j]
      BY <2>1, <3>1, <3>3, <3>4
    <3>6. Len(run[i]) = IF i < len THEN i ELSE len
      BY <1>1, <2>4, <3>3
    <3>7. Good(i)
      BY <3>3, <3>5, <3>6
    <3> HIDE DEF Good
    <3> QED
      BY <1>3, <3>7
  <2>5. CASE len < i
    <3>1. Len(old) = len /\ ~(Len(old) < k) /\ ~(i - 1 < Len(old))
      BY <1>1, <1>3, <2>3, <2>5
    <3>2. run[i] = old
      BY <2>2, <3>1 DEF Offer
    <3> QED
      BY <1>1, <2>1, <2>5, <3>1, <3>2
  <2>6. i <= len \/ len < i
    BY <1>1, <1>3
  <2> QED
    BY <2>4, <2>5, <2>6
<1>20. Good(n)
  <2>1. 0..n \subseteq P
    <3> HIDE DEF P
    <3> QED
      BY <1>3, <1>18, <1>19, FiniteInduction
  <2> HIDE DEF Good
  <2> QED
    BY <1>3, <2>1
<1>21. run[n] = s
  <2>1. len <= n
    BY <1>1, <1>3 DEF n
  <2>2. Len(run[n]) = len /\ run[n] \in Seq(S)
    BY <1>1, <1>3, <1>17, <1>20, <2>1
  <2> QED
    BY <1>1, <1>20, <2>2 DEF len
<1> QED
  BY <1>13, <1>15, <1>17, <1>21

LEMMA SwapFacts ==
    ASSUME NEW S, IsFiniteSet(S), NEW a \in Arrays(S),
           NEW i \in 1..Len(a), NEW j \in 1..Len(a)
    PROVE  /\ Swap(a, i, j) \in Arrays(S)
           /\ Swap(a, i, j)[i] = a[j]
           /\ Swap(a, i, j)[j] = a[i]
           /\ \A p \in 1..Len(a) : p # i /\ p # j => Swap(a, i, j)[p] = a[p]
<1> DEFINE n == Cardinality(S)
           b == Swap(a, i, j)
<1>1. n \in Nat /\ Len(a) = n /\ a \in Seq(S)
  BY ArraysFacts
<1>2. \A p, q \in 1..n : a[p] = a[q] => p = q
  BY ArraysFacts
<1>3. a \in [1..n -> S]
  BY <1>1
<1> HIDE DEF n
<1>4. b \in [1..n -> S]
  BY <1>1, <1>3 DEF Swap
<1>5. /\ b[i] = a[j]
      /\ b[j] = a[i]
      /\ \A p \in 1..n : p # i /\ p # j => b[p] = a[p]
  BY <1>1, <1>3 DEF Swap
<1> HIDE DEF b
<1>6. \A p, q \in 1..n : b[p] = b[q] => p = q
  BY <1>1, <1>2, <1>5
<1>7. IsInjective(b)
  BY <1>4, <1>6 DEF IsInjective
<1>8. b \in Arrays(S)
  BY <1>4, <1>7 DEF Arrays, Injection, n
<1> QED
  BY <1>1, <1>5, <1>8 DEF b

(* shuffleArray's turns: draws[i] is drawn when i items are left.          *)
IsShuffleRun(run, m, S, a, draws) ==
    /\ run \in [0..m -> Arrays(S)]
    /\ run[0] = a
    /\ \A i \in 1..m :
            run[i] = Swap(run[i - 1], Len(a) + 1 - i, draws[Len(a) + 1 - i] + 1)

LEMMA ShuffleRun ==
    ASSUME NEW S, IsFiniteSet(S), NEW a \in Arrays(S), NEW draws \in Draws(Len(a))
    PROVE  \E run : /\ IsShuffleRun(run, Len(a), S, a, draws)
                    /\ ShuffleArray(a, draws) = run[Len(a)]
<1> DEFINE n == Len(a)
           Turn(m, array) == Swap(array, n + 1 - m, draws[n + 1 - m] + 1)
           F == [t \in (1..n) \X Arrays(S) |-> Turn(t[1], t[2])]
           RunFrom(run) == [m \in 0..n |-> IF m = 0 THEN a ELSE Turn(m, run[m - 1])]
<1>1. n \in Nat /\ n = Cardinality(S)
  BY ArraysFacts
<1>2. ASSUME NEW m \in 1..n, NEW array \in Arrays(S)
      PROVE  Turn(m, array) \in Arrays(S)
  <2>1. Len(array) = n
    BY <1>1, ArraysFacts
  <2>2. n + 1 - m \in 1..n
    BY <1>1
  <2>3. draws[n + 1 - m] + 1 \in 1..n
    <3>1. draws[n + 1 - m] \in 0..n /\ draws[n + 1 - m] < n + 1 - m
      BY <2>2 DEF Draws
    <3> HIDE DEF n
    <3> QED
      BY <1>1, <2>2, <3>1
  <2> HIDE DEF n
  <2> QED
    BY <2>1, <2>2, <2>3, SwapFacts
<1>3. F \in [(1..n) \X Arrays(S) -> Arrays(S)]
  BY <1>2
<1>4. \A i \in 1..n, array \in Arrays(S) : F[<<i, array>>] = Turn(i, array)
  OBVIOUS
<1> HIDE DEF F, Turn, n
<1>5. HasRun(n, Arrays(S), a, F)
  BY <1>1, <1>3, Iteration
<1>6. PICK any \in [0..n -> Arrays(S)] :
         any[0] = a /\ \A i \in 1..n : any[i] = F[<<i, any[i - 1]>>]
  BY <1>5 DEF HasRun
<1>7. any = RunFrom(any)
  <2>1. \A i \in 1..n : any[i] = Turn(i, any[i - 1])
    <3> SUFFICES ASSUME NEW i \in 1..n PROVE any[i] = Turn(i, any[i - 1])
      OBVIOUS
    <3>1. any[i - 1] \in Arrays(S)
      BY <1>1
    <3> QED
      BY <1>4, <1>6, <3>1
  <2>2. \A i \in 0..n : any[i] = RunFrom(any)[i]
    BY <1>1, <1>6, <2>1
  <2>3. any = [i \in 0..n |-> any[i]]
    OBVIOUS
  <2> QED
    BY <2>2, <2>3
<1> DEFINE run == CHOOSE r : r = RunFrom(r)
<1>8. ShuffleArray(a, draws) = run[n]
  BY DEF ShuffleArray, Turn, n
<1>9. run = RunFrom(run)
  BY <1>7
<1> HIDE DEF run
<1>10. \A i \in 0..n : run[i] = RunFrom(run)[i]
  BY <1>9
<1>11. /\ run[0] = a
       /\ \A i \in 1..n : run[i] = Turn(i, run[i - 1])
  BY <1>1, <1>10
<1>12. run \in [0..n -> Arrays(S)]
  <2> DEFINE P == {i \in 0..n : run[i] \in Arrays(S)}
  <2>1. 0 \in P
    BY <1>1, <1>11
  <2>2. ASSUME NEW i \in 1..n, i - 1 \in P PROVE i \in P
    BY <1>1, <1>2, <1>11, <2>2
  <2>3. 0..n \subseteq P
    <3> HIDE DEF P
    <3> QED
      BY <1>1, <2>1, <2>2, FiniteInduction
  <2>4. run = [i \in 0..n |-> run[i]]
    BY <1>9
  <2> QED
    BY <2>3, <2>4
<1> QED
  BY <1>8, <1>11, <1>12 DEF Turn, n, IsShuffleRun

(* Whatever is drawn, shuffleArray leaves every item in the array once.    *)
THEOREM ShuffleArrayIsAnOrder ==
    ASSUME NEW S, IsFiniteSet(S), NEW a \in Arrays(S), NEW draws \in Draws(Len(a))
    PROVE  ShuffleArray(a, draws) \in Arrays(S)
<1>1. PICK run : /\ IsShuffleRun(run, Len(a), S, a, draws)
                 /\ ShuffleArray(a, draws) = run[Len(a)]
  BY ShuffleRun
<1>2. Len(a) \in 0..Len(a)
  BY ArraysFacts
<1> QED
  BY <1>1, <1>2 DEF IsShuffleRun

(* From any array shuffleArray can make any other order of it: each draw   *)
(* fetches the item that belongs at the end of what is left.               *)
THEOREM EveryOrderIsShuffled ==
    ASSUME NEW S, IsFiniteSet(S), NEW a \in Arrays(S), NEW b \in Arrays(S)
    PROVE  \E draws \in Draws(Len(a)) : ShuffleArray(a, draws) = b
<1> DEFINE n == Len(a)
           Placed(array, m) == \A p \in 1..n : p > n - m => array[p] = b[p]
           Good(m) == \E draws \in Draws(n) : \E run :
                        IsShuffleRun(run, m, S, a, draws) /\ Placed(run[m], m)
           P == {m \in 0..n : Good(m)}
<1>1. n \in Nat /\ n = Cardinality(S)
  BY ArraysFacts
<1>2. /\ b \in Seq(S) /\ Len(b) = n
      /\ \A p, q \in 1..n : b[p] = b[q] => p = q
  BY <1>1, ArraysFacts
<1>3. 0 \in P
  <2> DEFINE draws == [i \in 1..n |-> 0]
             run == [i \in 0..0 |-> a]
  <2>1. draws \in Draws(n)
    BY <1>1 DEF Draws
  <2>2. run \in [0..0 -> Arrays(S)] /\ run[0] = a
    OBVIOUS
  <2> HIDE DEF n
  <2>3. IsShuffleRun(run, 0, S, a, draws)
    BY <2>2 DEF IsShuffleRun
  <2>4. Placed(run[0], 0)
    BY <1>1
  <2> HIDE DEF run, draws, Placed
  <2>5. Good(0)
    BY <2>1, <2>3, <2>4
  <2> QED
    BY <1>1, <2>5
<1>4. ASSUME NEW m \in 1..n, m - 1 \in P PROVE m \in P
  <2>1. PICK draws \in Draws(n) : \E run :
            IsShuffleRun(run, m - 1, S, a, draws) /\ Placed(run[m - 1], m - 1)
    BY <1>4
  <2>2. PICK run : IsShuffleRun(run, m - 1, S, a, draws) /\ Placed(run[m - 1], m - 1)
    BY <2>1
  <2> DEFINE i == n + 1 - m
             old == run[m - 1]
  <2>3. i \in 1..n /\ i \in Nat /\ n + 1 - i = m
    BY <1>1
  <2>4. old \in Arrays(S)
    BY <1>1, <2>2 DEF IsShuffleRun
  <2>5. /\ Len(old) = n
        /\ \A x \in S : \E p \in 1..n : old[p] = x
    <3> HIDE DEF old, n
    <3>1. Len(old) = n
      BY <1>1, <2>4, ArraysFacts
    <3>2. \A x \in S : \E p \in 1..Len(old) : old[p] = x
      BY <2>4, ArraysFacts
    <3> QED
      BY <3>1, <3>2
  <2>6. PICK p \in 1..n : old[p] = b[i]
    <3> HIDE DEF n, i, old
    <3>1. b[i] \in S
      BY <1>2, <2>3
    <3> QED
      BY <2>5, <3>1
  <2>7. p <= i
    <3> SUFFICES ASSUME ~(p <= i) PROVE FALSE
      OBVIOUS
    <3>1. p > n - (m - 1)
      BY <1>1, <2>3
    <3>2. old[p] = b[p]
      BY <2>2, <3>1
    <3>3. p = i
      BY <1>2, <2>3, <2>6, <3>2
    <3> QED
      BY <2>3, <3>3
  <2> DEFINE next == Swap(old, i, p)
             drawn == [draws EXCEPT ![i] = p - 1]
             longer == [j \in 0..m |-> IF j = m THEN next ELSE run[j]]
  <2>8. draws \in [1..n -> 0..n] /\ \A j \in 1..n : draws[j] < j
    BY DEF Draws
  <2>9. /\ drawn[i] = p - 1
        /\ \A j \in 1..n : j # i => drawn[j] = draws[j]
        /\ drawn \in Draws(n)
    <3>1. p - 1 \in 0..n /\ p - 1 < i
      BY <1>1, <2>3, <2>7
    <3>2. drawn \in [1..n -> 0..n]
      BY <2>8, <3>1
    <3>3. drawn[i] = p - 1 /\ \A j \in 1..n : j # i => drawn[j] = draws[j]
      BY <2>3, <2>8
    <3> HIDE DEF drawn, n, i
    <3>4. \A j \in 1..n : drawn[j] < j
      BY <2>8, <3>1, <3>3
    <3> QED
      BY <3>2, <3>3, <3>4 DEF Draws
  <2>10. /\ next \in Arrays(S)
         /\ next[i] = old[p]
         /\ next[p] = old[i]
         /\ \A q \in 1..n : q # i /\ q # p => next[q] = old[q]
    <3> HIDE DEF n, i, old
    <3> QED
      BY <2>3, <2>4, <2>5, SwapFacts
  <2> HIDE DEF next, drawn
  <2>11. Placed(next, m)
    <3> SUFFICES ASSUME NEW q \in 1..n, q > n - m PROVE next[q] = b[q]
      OBVIOUS
    <3>1. CASE q = i
      BY <2>6, <2>10, <3>1
    <3>2. CASE q # i
      <4>1. q > n - (m - 1) /\ q > i
        BY <1>1, <2>3, <3>2
      <4>2. q # p
        BY <1>1, <2>3, <2>7, <4>1
      <4> QED
        BY <2>2, <2>10, <3>2, <4>1, <4>2
    <3> QED
      BY <3>1, <3>2
  <2>12. IsShuffleRun(longer, m, S, a, drawn)
    <3>1. longer \in [0..m -> Arrays(S)]
      <4>1. \A j \in 0..m : j = m \/ j \in 0..(m - 1)
        BY <1>1
      <4> QED
        BY <2>2, <2>10, <4>1 DEF IsShuffleRun
    <3>2. longer[0] = a
      BY <1>1, <2>2 DEF IsShuffleRun
    <3>3. ASSUME NEW j \in 1..m
          PROVE  longer[j] = Swap(longer[j - 1], n + 1 - j, drawn[n + 1 - j] + 1)
      <4>1. longer[j - 1] = run[j - 1]
        BY <1>1
      <4>2. CASE j = m
        <5>1. longer[j] = next /\ n + 1 - j = i /\ drawn[i] + 1 = p
          BY <1>1, <2>9, <4>2
        <5> HIDE DEF longer
        <5>2. longer[j - 1] = old
          BY <4>1, <4>2
        <5> QED
          BY <5>1, <5>2 DEF next
      <4>3. CASE j # m
        <5>1. j \in 1..(m - 1) /\ longer[j] = run[j]
          BY <1>1, <4>3
        <5>2. run[j] = Swap(run[j - 1], n + 1 - j, draws[n + 1 - j] + 1)
          BY <2>2, <5>1 DEF IsShuffleRun
        <5>3. n + 1 - j \in 1..n /\ n + 1 - j # i
          BY <1>1, <4>3
        <5>4. drawn[n + 1 - j] = draws[n + 1 - j]
          BY <2>9, <5>3
        <5> HIDE DEF longer
        <5> QED
          BY <4>1, <5>1, <5>2, <5>4
      <4> QED
        BY <4>2, <4>3
    <3> HIDE DEF longer
    <3> QED
      BY <3>1, <3>2, <3>3 DEF IsShuffleRun
  <2>13. longer[m] = next
    BY <1>1
  <2> HIDE DEF longer, Placed
  <2>14. Good(m)
    BY <2>9, <2>11, <2>12, <2>13
  <2> QED
    BY <2>14
<1>5. Good(n)
  <2>1. 0..n \subseteq P
    <3> HIDE DEF P, n
    <3> QED
      BY <1>1, <1>3, <1>4, FiniteInduction
  <2> HIDE DEF Good
  <2> QED
    BY <1>1, <2>1
<1>6. PICK draws \in Draws(n) : \E run :
        IsShuffleRun(run, n, S, a, draws) /\ Placed(run[n], n)
  BY <1>5
<1>7. PICK run : IsShuffleRun(run, n, S, a, draws) /\ Placed(run[n], n)
  BY <1>6
<1>8. PICK other : /\ IsShuffleRun(other, n, S, a, draws)
                   /\ ShuffleArray(a, draws) = other[n]
  BY ShuffleRun
<1>9. other[n] = run[n]
  <2> DEFINE Same == {m \in 0..n : other[m] = run[m]}
  <2>1. 0 \in Same
    BY <1>1, <1>7, <1>8 DEF IsShuffleRun
  <2>2. ASSUME NEW m \in 1..n, m - 1 \in Same PROVE m \in Same
    <3>1. other[m - 1] = run[m - 1]
      BY <2>2
    <3> QED
      BY <1>1, <1>7, <1>8, <3>1 DEF IsShuffleRun
  <2>3. 0..n \subseteq Same
    <3> HIDE DEF Same, n
    <3> QED
      BY <1>1, <2>1, <2>2, FiniteInduction
  <2> QED
    BY <1>1, <2>3
<1>10. run[n] = b
  <2>1. run[n] \in Arrays(S)
    BY <1>1, <1>7 DEF IsShuffleRun
  <2>2. run[n] \in Seq(S) /\ Len(run[n]) = n
    BY <1>1, <2>1, ArraysFacts
  <2>3. \A p \in 1..n : run[n][p] = b[p]
    BY <1>1, <1>7
  <2> HIDE DEF n
  <2> QED
    BY <1>2, <2>2, <2>3
<1> QED
  BY <1>6, <1>8, <1>9, <1>10
=============================================================================
