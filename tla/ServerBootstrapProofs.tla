------------------------- MODULE ServerBootstrapProofs -------------------------
(***************************************************************************)
(* Theorems about ServerBootstrap: the sequence numbers of a node's        *)
(* pointers, and that the merged answers of the servers are what a         *)
(* Bootstrap promises, for all sets of nodes and servers and every limit.  *)
(***************************************************************************)
EXTENDS ServerBootstrap, FiniteSetTheorems, WellFoundedInduction,
        NaturalsInduction, TLAPS

USE ServerBootstrapAssumption

(* The counter in the storage is the one in memory, unless the page has    *)
(* just been loaded; before there is one nothing has been counted.         *)
CountersAgree ==
    \A n \in Nodes :
        IF storedCounter[n] = None
        THEN pointerCounter[n] = 0
        ELSE pointerCounter[n] \in {0, storedCounter[n]}

(* Requests are outstanding only while the node asks, and only servers     *)
(* that were asked, and have settled, have given answers.                  *)
AnswersAreAsked ==
    /\ waiting # {} => status = "asking"
    /\ \A s \in Servers : s \notin Range(specs) \ waiting => answers[s] = NoPointers

IInv ==
    /\ TypeOK
    /\ CountersAgree
    /\ AnswersAreAsked
    /\ NextPointerIsNewest

------------------------------------------------------------------------------
(* Helpers.                                                                *)

(* The smaller of two numbers.                                             *)
LEMMA MinFacts ==
    ASSUME NEW a \in Int, NEW b \in Int
    PROVE  Min({a, b}) = IF a <= b THEN a ELSE b
<1>1. \E x \in {a, b} : \A y \in {a, b} : x <= y
  <2>1. CASE a <= b
    BY <2>1
  <2>2. CASE b <= a
    BY <2>2
  <2> QED
    BY <2>1, <2>2
<1>2. /\ Min({a, b}) \in {a, b}
      /\ \A y \in {a, b} : Min({a, b}) <= y
  BY <1>1 DEF Min
<1> QED
  BY <1>2

(* Induction over an interval: a set that has 0 and, with i - 1, also i,   *)
(* has every number of the interval.                                       *)
LEMMA FiniteInduction ==
    ASSUME NEW n \in Nat, NEW P,
           0 \in P,
           \A i \in 1..n : i - 1 \in P => i \in P
    PROVE  0..n \subseteq P
<1> DEFINE Bad == {i \in 0..n : i \notin P}
           R == OpToRel(<, Nat)
<1> SUFFICES ASSUME Bad # {} PROVE FALSE
  OBVIOUS
<1>0. Bad \subseteq Nat
  OBVIOUS
<1> HIDE DEF Bad
<1>1. \E m \in Bad : \A i \in Bad : ~(<<i, m>> \in R)
  BY <1>0, WFMin, NatLessThanWellFounded
<1>2. \A i, m \in Nat : i < m => <<i, m>> \in R
  BY DEF OpToRel
<1> HIDE DEF R
<1>3. PICK m \in Bad : \A i \in Bad : ~(i < m)
  BY <1>0, <1>1, <1>2
<1> USE DEF Bad
<1>4. m \in 1..n /\ m - 1 \in 0..n /\ m - 1 < m
  OBVIOUS
<1> QED
  BY <1>3, <1>4

(* Pointers by id: what is in the set, and what Restrict leaves of it.     *)
LEMMA ByIdFacts ==
    ASSUME NEW ids, NEW f
    PROVE  f \in ById(ids) <=> /\ f = [id \in DOMAIN f |-> f[id]]
                               /\ DOMAIN f \subseteq ids
                               /\ \A id \in DOMAIN f : f[id] \in 0..MaxSeq
<1>1. f \in ById(ids) <=> \E D \in SUBSET ids : f \in [D -> 0..MaxSeq]
  BY DEF ById
<1>2. ASSUME NEW D \in SUBSET ids, f \in [D -> 0..MaxSeq]
      PROVE  /\ f = [id \in DOMAIN f |-> f[id]]
             /\ DOMAIN f \subseteq ids
             /\ \A id \in DOMAIN f : f[id] \in 0..MaxSeq
  BY <1>2
<1>3. ASSUME /\ f = [id \in DOMAIN f |-> f[id]]
             /\ DOMAIN f \subseteq ids
             /\ \A id \in DOMAIN f : f[id] \in 0..MaxSeq
      PROVE  f \in [DOMAIN f -> 0..MaxSeq] /\ DOMAIN f \in SUBSET ids
  BY <1>3
<1> QED
  BY <1>1, <1>2, <1>3

LEMMA RestrictFacts ==
    ASSUME NEW ids, NEW f \in ById(ids), NEW D \in SUBSET DOMAIN f
    PROVE  /\ Restrict(f, D) \in ById(ids)
           /\ DOMAIN Restrict(f, D) = D
           /\ \A id \in D : Restrict(f, D)[id] = f[id]
<1> DEFINE r == Restrict(f, D)
<1>1. /\ DOMAIN r = D
      /\ \A id \in D : r[id] = f[id]
      /\ r = [id \in DOMAIN r |-> r[id]]
  BY DEF Restrict
<1>2. /\ DOMAIN f \subseteq ids
      /\ \A id \in DOMAIN f : f[id] \in 0..MaxSeq
  BY ByIdFacts
<1> HIDE DEF r
<1>3. r \in ById(ids)
  BY <1>1, <1>2, ByIdFacts
<1> QED
  BY <1>1, <1>3 DEF r

LEMMA NoPointersFacts ==
    /\ DOMAIN NoPointers = {}
    /\ \A ids : NoPointers \in ById(ids)
    /\ PointersOf(NoPointers) = {}
    /\ Cardinality(DOMAIN NoPointers) = 0
<1>1. DOMAIN NoPointers = {} /\ NoPointers = [id \in DOMAIN NoPointers |-> NoPointers[id]]
  BY DEF NoPointers
<1>2. \A ids : NoPointers \in ById(ids)
  BY <1>1, ByIdFacts
<1> QED
  BY <1>1, <1>2, FS_EmptySet DEF PointersOf

(* A set of pointers by id is as large as the set of the ids.              *)
LEMMA PointersOfFacts ==
    ASSUME NEW f, IsFiniteSet(DOMAIN f)
    PROVE  /\ Cardinality(PointersOf(f)) = Cardinality(DOMAIN f)
           /\ {p.id : p \in PointersOf(f)} = DOMAIN f
           /\ \A p, q \in PointersOf(f) : p.id = q.id => p = q
<1> DEFINE g == [n \in DOMAIN f |-> [id |-> n, seq |-> f[n]]]
<1>1. g \in Bijection(DOMAIN f, PointersOf(f))
  <2>1. g \in [DOMAIN f -> PointersOf(f)]
    BY DEF PointersOf
  <2>2. \A m, n \in DOMAIN f : g[m] = g[n] => m = n
    <3>1. \A m \in DOMAIN f : g[m].id = m
      OBVIOUS
    <3> HIDE DEF g
    <3> QED
      BY <3>1
  <2>3. \A p \in PointersOf(f) : \E n \in DOMAIN f : g[n] = p
    BY DEF PointersOf
  <2> QED
    BY <2>1, <2>2, <2>3, Zenon
       DEF Bijection, Injection, Surjection, IsInjective
<1>2. Cardinality(PointersOf(f)) = Cardinality(DOMAIN f)
  BY <1>1, FS_Bijection DEF ExistsBijection
<1>3. \A p \in PointersOf(f) :
        p.id \in DOMAIN f /\ p = [id |-> p.id, seq |-> f[p.id]]
  BY DEF PointersOf
<1>4. ASSUME NEW n \in DOMAIN f PROVE \E p \in PointersOf(f) : p.id = n
  <2> DEFINE p == [id |-> n, seq |-> f[n]]
  <2>1. p \in PointersOf(f) /\ p.id = n
    BY DEF PointersOf
  <2> QED
    BY <2>1
<1>5. {p.id : p \in PointersOf(f)} = DOMAIN f
  BY <1>3, <1>4
<1>6. \A p, q \in PointersOf(f) : p.id = q.id => p = q
  BY <1>3
<1> QED
  BY <1>2, <1>5, <1>6

------------------------------------------------------------------------------
(* The merging of the answers.                                             *)

(* The peers that deDuplicatePeerList has when it has met i answers.       *)
MergeOf(peerMap, n) ==
    [i \in 0..n |-> IF i = 0 THEN NoPointers
                    ELSE KeepNewer(peerMap[i - 1], answers[specs[i]])]

LEMMA MergeExists ==
    ASSUME NEW n \in Nat
    PROVE  \E peerMap : peerMap = MergeOf(peerMap, n)
<1> DEFINE Has(m) == \E peerMap : peerMap = MergeOf(peerMap, m)
           P == {m \in 0..n : Has(m)}
<1>1. 0 \in P
  <2> DEFINE peerMap == [i \in 0..0 |-> NoPointers]
  <2>1. peerMap = MergeOf(peerMap, 0)
    BY DEF MergeOf
  <2> QED
    BY <2>1
<1>2. ASSUME NEW m \in 1..n, m - 1 \in P
      PROVE  m \in P
  <2>1. PICK peerMap : peerMap = MergeOf(peerMap, m - 1)
    BY <1>2
  <2> DEFINE longer ==
        [i \in 0..m |-> IF i = m THEN KeepNewer(peerMap[m - 1], answers[specs[m]])
                        ELSE peerMap[i]]
  <2>2. \A i \in 0..(m - 1) :
            peerMap[i] = IF i = 0 THEN NoPointers
                         ELSE KeepNewer(peerMap[i - 1], answers[specs[i]])
    <3> DEFINE rhs == MergeOf(peerMap, m - 1)
    <3>1. \A i \in 0..(m - 1) :
            rhs[i] = IF i = 0 THEN NoPointers
                     ELSE KeepNewer(peerMap[i - 1], answers[specs[i]])
      BY <1>2 DEF MergeOf
    <3> QED
      BY <2>1, <3>1
  <2>3. ASSUME NEW i \in 0..m
        PROVE  longer[i] = IF i = 0 THEN NoPointers
                           ELSE KeepNewer(longer[i - 1], answers[specs[i]])
    <3>1. CASE i = m
      BY <1>2, <3>1
    <3>2. CASE i # m /\ i = 0
      BY <1>2, <2>2, <3>2
    <3>3. CASE i # m /\ i # 0
      <4>1. i \in 0..(m - 1) /\ i - 1 \in 0..m /\ i - 1 # m
        BY <1>2, <3>3
      <4>2. longer[i] = peerMap[i] /\ longer[i - 1] = peerMap[i - 1]
        BY <3>3, <4>1
      <4> HIDE DEF longer
      <4> QED
        BY <2>2, <3>3, <4>1, <4>2
    <3> QED
      BY <3>1, <3>2, <3>3
  <2>4. longer = [i \in 0..m |-> longer[i]]
    OBVIOUS
  <2> HIDE DEF longer
  <2>5. longer = MergeOf(longer, m)
    BY <2>3, <2>4 DEF MergeOf
  <2> QED
    BY <1>2, <2>5
<1>3. 0..n \subseteq P
  <2> HIDE DEF P
  <2> QED
    BY <1>1, <1>2, FiniteInduction
<1> QED
  BY <1>3

(* What the peers met so far are: of every peer in the first i answers the *)
(* newest pointer.                                                         *)
MergesFirst(peerMap, i) ==
    /\ peerMap \in ById(Others)
    /\ \A id \in DOMAIN peerMap : \E j \in 1..i :
            id \in DOMAIN answers[specs[j]] /\ peerMap[id] = answers[specs[j]][id]
    /\ \A j \in 1..i : \A id \in DOMAIN answers[specs[j]] :
            id \in DOMAIN peerMap /\ answers[specs[j]][id] <= peerMap[id]

LEMMA KeepNewerFacts ==
    ASSUME TypeOK, NEW i \in 1..Len(specs), NEW peerMap, MergesFirst(peerMap, i - 1)
    PROVE  MergesFirst(KeepNewer(peerMap, answers[specs[i]]), i)
<1> DEFINE response == answers[specs[i]]
           merged == KeepNewer(peerMap, response)
<1>1. response \in ById(Others)
  BY DEF TypeOK
<1>2. /\ DOMAIN response \subseteq Others
      /\ \A id \in DOMAIN response : response[id] \in 0..MaxSeq
      /\ DOMAIN peerMap \subseteq Others
      /\ \A id \in DOMAIN peerMap : peerMap[id] \in 0..MaxSeq
  BY <1>1, ByIdFacts DEF MergesFirst
<1>3. /\ DOMAIN merged = DOMAIN peerMap \cup DOMAIN response
      /\ merged = [id \in DOMAIN merged |-> merged[id]]
      /\ \A id \in DOMAIN merged :
            merged[id] = IF /\ id \in DOMAIN response
                            /\ id \in DOMAIN peerMap => peerMap[id] < response[id]
                         THEN response[id] ELSE peerMap[id]
  BY DEF KeepNewer
<1> HIDE DEF merged
<1>4. \A id \in DOMAIN merged : merged[id] \in 0..MaxSeq
  BY <1>2, <1>3
<1>5. merged \in ById(Others)
  BY <1>2, <1>3, <1>4, ByIdFacts
<1>6. ASSUME NEW id \in DOMAIN merged
      PROVE  \E j \in 1..i : /\ id \in DOMAIN answers[specs[j]]
                             /\ merged[id] = answers[specs[j]][id]
  <2>1. CASE id \in DOMAIN response /\ merged[id] = response[id]
    BY <2>1
  <2>2. CASE id \in DOMAIN peerMap /\ merged[id] = peerMap[id]
    <3>1. PICK j \in 1..(i - 1) : /\ id \in DOMAIN answers[specs[j]]
                                  /\ peerMap[id] = answers[specs[j]][id]
      BY <2>2 DEF MergesFirst
    <3>2. j \in 1..i
      BY <3>1
    <3> QED
      BY <2>2, <3>1, <3>2
  <2> QED
    BY <1>3, <2>1, <2>2
<1>7. ASSUME NEW j \in 1..i, NEW id \in DOMAIN answers[specs[j]]
      PROVE  id \in DOMAIN merged /\ answers[specs[j]][id] <= merged[id]
  <2>1. CASE j = i
    BY <1>2, <1>3, <2>1
  <2>2. CASE j # i
    <3>1. j \in 1..(i - 1)
      BY <2>2
    <3>2. id \in DOMAIN peerMap /\ answers[specs[j]][id] <= peerMap[id]
      BY <3>1 DEF MergesFirst
    <3>3. answers[specs[j]] \in ById(Others)
      BY DEF TypeOK
    <3>4. answers[specs[j]][id] \in 0..MaxSeq
      BY <3>3, ByIdFacts
    <3>5. peerMap[id] <= merged[id]
      BY <1>2, <1>3, <3>2
    <3>6. merged[id] \in 0..MaxSeq /\ id \in DOMAIN merged
      BY <1>3, <1>4, <3>2
    <3> QED
      BY <1>2, <3>2, <3>4, <3>5, <3>6
  <2> QED
    BY <2>1, <2>2
<1> QED
  BY <1>5, <1>6, <1>7 DEF MergesFirst, merged

(* deDuplicatePeerList returns the newest pointer to each peer that some   *)
(* answer has, whatever the order of the answers.                          *)
LEMMA DeDuplicatedMerges ==
    ASSUME TypeOK
    PROVE  MergesFirst(DeDuplicated, Len(specs))
<1> DEFINE n == Len(specs)
           peerMap == CHOOSE f : f = MergeOf(f, n)
<1>1. n \in Nat
  BY DEF TypeOK
<1>2. DeDuplicated = peerMap[n]
  BY DEF DeDuplicated, MergeOf
<1>3. peerMap = MergeOf(peerMap, n)
  BY <1>1, MergeExists
<1> HIDE DEF peerMap
<1>4. \A i \in 0..n :
        peerMap[i] = IF i = 0 THEN NoPointers
                     ELSE KeepNewer(peerMap[i - 1], answers[specs[i]])
  <2> DEFINE rhs == MergeOf(peerMap, n)
  <2>1. \A i \in 0..n :
          rhs[i] = IF i = 0 THEN NoPointers
                   ELSE KeepNewer(peerMap[i - 1], answers[specs[i]])
    BY DEF MergeOf
  <2> QED
    BY <1>3, <2>1
<1> DEFINE P == {i \in 0..n : MergesFirst(peerMap[i], i)}
<1>5. 0 \in P
  <2>1. MergesFirst(NoPointers, 0)
    BY NoPointersFacts DEF MergesFirst
  <2> QED
    BY <1>1, <1>4, <2>1
<1>6. ASSUME NEW i \in 1..n, i - 1 \in P
      PROVE  i \in P
  <2>1. MergesFirst(KeepNewer(peerMap[i - 1], answers[specs[i]]), i)
    BY <1>6, KeepNewerFacts
  <2> QED
    BY <1>4, <2>1
<1>7. 0..n \subseteq P
  <2> HIDE DEF P, n
  <2> QED
    BY <1>1, <1>5, <1>6, FiniteInduction
<1> QED
  BY <1>1, <1>2, <1>7

(* It is therefore the newest of all that has been heard.                  *)
LEMMA DeDuplicatedFacts ==
    ASSUME TypeOK, AnswersAreAsked
    PROVE  /\ DeDuplicated \in ById(Others)
           /\ DOMAIN DeDuplicated = {p.id : p \in Heard}
           /\ PointersOf(DeDuplicated) \subseteq Promised!Newest(Heard)
           /\ \A id \in DOMAIN DeDuplicated : \E s \in Servers :
                    id \in DOMAIN answers[s] /\ DeDuplicated[id] = answers[s][id]
<1> DEFINE d == DeDuplicated
<1>1. MergesFirst(d, Len(specs))
  BY DeDuplicatedMerges
<1>2. \A j \in 1..Len(specs) : specs[j] \in Servers
  BY DEF TypeOK
<1>3. ASSUME NEW s \in Servers, NEW id \in DOMAIN answers[s]
      PROVE  \E j \in 1..Len(specs) : specs[j] = s
  <2>1. s \in Range(specs)
    BY <1>3, NoPointersFacts DEF AnswersAreAsked
  <2> QED
    BY <2>1 DEF Range, TypeOK
<1> HIDE DEF d
<1>4. ASSUME NEW p \in Heard
      PROVE  p.id \in DOMAIN d /\ p.seq <= d[p.id]
  <2>1. PICK s \in Servers : p \in PointersOf(answers[s])
    BY DEF Heard
  <2>2. p.id \in DOMAIN answers[s] /\ p.seq = answers[s][p.id]
    BY <2>1 DEF PointersOf
  <2>3. PICK j \in 1..Len(specs) : specs[j] = s
    BY <1>3, <2>2
  <2> QED
    BY <1>1, <2>2, <2>3 DEF MergesFirst
<1>5. ASSUME NEW id \in DOMAIN d
      PROVE  /\ [id |-> id, seq |-> d[id]] \in Heard
             /\ \E s \in Servers : id \in DOMAIN answers[s] /\ d[id] = answers[s][id]
  <2>1. PICK j \in 1..Len(specs) :
            id \in DOMAIN answers[specs[j]] /\ d[id] = answers[specs[j]][id]
    BY <1>1 DEF MergesFirst
  <2>2. [id |-> id, seq |-> d[id]] \in PointersOf(answers[specs[j]])
    BY <2>1 DEF PointersOf
  <2> QED
    BY <1>2, <2>1, <2>2 DEF Heard
<1>6. DOMAIN d = {p.id : p \in Heard}
  <2>1. ASSUME NEW id \in DOMAIN d PROVE \E p \in Heard : p.id = id
    <3> DEFINE p == [id |-> id, seq |-> d[id]]
    <3>1. p \in Heard /\ p.id = id
      BY <1>5
    <3> QED
      BY <3>1
  <2> QED
    BY <1>4, <2>1
<1>7. ASSUME NEW p \in PointersOf(d)
      PROVE  p \in Promised!Newest(Heard)
  <2>1. PICK id \in DOMAIN d : p = [id |-> id, seq |-> d[id]]
    BY DEF PointersOf
  <2>2. p \in Heard /\ p.id = id /\ p.seq = d[id]
    BY <1>5, <2>1
  <2>3. \A q \in Heard : q.id = p.id => q.seq <= p.seq
    BY <1>4, <2>2
  <2> QED
    BY <2>2, <2>3 DEF Promised!Newest
<1>8. d \in ById(Others)
  BY <1>1 DEF MergesFirst
<1> QED
  BY <1>5, <1>6, <1>7, <1>8 DEF d

------------------------------------------------------------------------------
(* The steps.                                                              *)

LEMMA InitIInv == Init => IInv
<1> SUFFICES ASSUME Init PROVE IInv
  OBVIOUS
<1>1. Range(specs) = {}
  BY DEF Init, Range
<1>2. TypeOK
  <2>1. specs \in Seq(Servers) /\ IsInjective(specs)
    BY DEF Init, IsInjective
  <2> QED
    BY <1>1, <2>1, NoPointersFacts DEF Init, TypeOK
<1>3. CountersAgree /\ AnswersAreAsked
  BY <1>1 DEF Init, CountersAgree, AnswersAreAsked
<1>4. NextPointerIsNewest
  BY NoPointersFacts DEF Init, NextPointerIsNewest
<1> QED
  BY <1>2, <1>3, <1>4 DEF IInv

(* Creating a pointer takes the next sequence number of one node, whether  *)
(* its counter is in memory or has to be restored first.                   *)
LEMMA CreatePointerFacts ==
    ASSUME TypeOK, CountersAgree, NEW n \in Nodes, CreatePointer(n)
    PROVE  /\ NextSequenceNumber(n) \in 0..MaxSeq
           /\ NextSequenceNumber(n)' = NextSequenceNumber(n) + 1
           /\ \A m \in Nodes \ {n} : NextSequenceNumber(m)' = NextSequenceNumber(m)
           /\ pointerCounter' \in [Nodes -> Nat]
           /\ storedCounter' \in [Nodes -> Nat \cup {None}]
           /\ CountersAgree'
<1>1. NextSequenceNumber(n) \in Nat
  BY DEF TypeOK, NextSequenceNumber
<1>2. /\ pointerCounter'[n] = NextSequenceNumber(n) + 1
      /\ storedCounter'[n] = NextSequenceNumber(n) + 1
      /\ \A m \in Nodes \ {n} : /\ pointerCounter'[m] = pointerCounter[m]
                                /\ storedCounter'[m] = storedCounter[m]
      /\ NextSequenceNumber(n) <= MaxSeq
  BY DEF CreatePointer, TypeOK
<1>3. pointerCounter' \in [Nodes -> Nat] /\ storedCounter' \in [Nodes -> Nat \cup {None}]
  BY <1>1 DEF CreatePointer, TypeOK
<1>4. NextSequenceNumber(n)' = NextSequenceNumber(n) + 1
  BY <1>1, <1>2 DEF NextSequenceNumber
<1>5. \A m \in Nodes \ {n} : NextSequenceNumber(m)' = NextSequenceNumber(m)
  BY <1>2 DEF NextSequenceNumber
<1>6. CountersAgree'
  BY <1>1, <1>2 DEF CountersAgree
<1> QED
  BY <1>1, <1>2, <1>3, <1>4, <1>5, <1>6

(* What is in use stays older than the next pointer, whose number only     *)
(* grows.                                                                  *)
LEMMA NumbersGrow ==
    ASSUME TypeOK, CountersAgree, NEW n \in Nodes, CreatePointer(n)
    PROVE  \A m \in Nodes : /\ NextSequenceNumber(m) \in Nat
                            /\ NextSequenceNumber(m)' \in Nat
                            /\ NextSequenceNumber(m) <= NextSequenceNumber(m)'
<1>1. \A m \in Nodes : NextSequenceNumber(m) \in Nat
  BY DEF TypeOK, NextSequenceNumber
<1> QED
  BY <1>1, CreatePointerFacts

LEMMA SendPointerIInv ==
    ASSUME IInv, NEW n \in Nodes, SendPointer(n)
    PROVE  IInv'
<1>1. CreatePointer(n) /\ UNCHANGED <<registrations, status, specs, waiting, answers, peers>>
  BY DEF SendPointer, askVars
<1>2. TypeOK' /\ CountersAgree' /\ AnswersAreAsked'
  BY <1>1, CreatePointerFacts DEF IInv, TypeOK, AnswersAreAsked
<1>3. ASSUME NEW m \in Nodes, NEW s \in Servers,
             NEW pointers \in {registrations[s], answers[s], peers},
             m \in DOMAIN pointers
      PROVE  pointers[m] < NextSequenceNumber(m)'
  <2>1. pointers[m] < NextSequenceNumber(m)
    BY <1>3 DEF IInv, NextPointerIsNewest
  <2>2. pointers \in ById(Nodes) \cup ById(Others)
    BY <1>3 DEF IInv, TypeOK
  <2>3. pointers[m] \in Nat
    BY <1>3, <2>2, ByIdFacts
  <2> QED
    BY <1>1, <2>1, <2>3, NumbersGrow DEF IInv
<1>4. NextPointerIsNewest'
  BY <1>1, <1>3 DEF IInv, NextPointerIsNewest
<1> QED
  BY <1>2, <1>4 DEF IInv

LEMMA RegisterWithIInv ==
    ASSUME IInv, NEW n \in Nodes, NEW s \in Servers, RegisterWith(n, s)
    PROVE  IInv'
<1> DEFINE seq == NextSequenceNumber(n)
           after == [id \in DOMAIN registrations[s] \cup {n} |->
                        IF id = n THEN seq ELSE registrations[s][id]]
<1>1. CreatePointer(n) /\ UNCHANGED <<status, specs, waiting, answers, peers>>
  BY DEF RegisterWith, askVars
<1>2. registrations' = [registrations EXCEPT ![s] = after]
  BY DEF RegisterWith
<1>3. /\ registrations[s] \in ById(Nodes)
      /\ DOMAIN registrations[s] \subseteq Nodes
      /\ \A id \in DOMAIN registrations[s] : registrations[s][id] \in 0..MaxSeq
  BY ByIdFacts DEF IInv, TypeOK
<1>4. seq \in 0..MaxSeq
  BY <1>1, CreatePointerFacts DEF IInv
<1>5. /\ DOMAIN after = DOMAIN registrations[s] \cup {n}
      /\ after = [id \in DOMAIN after |-> after[id]]
      /\ after[n] = seq
      /\ \A id \in DOMAIN after \ {n} : after[id] = registrations[s][id]
  OBVIOUS
<1> HIDE DEF after
<1>6. after \in ById(Nodes)
  <2>1. \A id \in DOMAIN after : after[id] \in 0..MaxSeq
    BY <1>3, <1>4, <1>5
  <2> QED
    BY <1>3, <1>5, <2>1, ByIdFacts
<1>7. registrations' \in [Servers -> ById(Nodes)]
  BY <1>2, <1>6 DEF IInv, TypeOK
<1>8. TypeOK' /\ CountersAgree' /\ AnswersAreAsked'
  BY <1>1, <1>7, CreatePointerFacts DEF IInv, TypeOK, AnswersAreAsked
<1>9. ASSUME NEW m \in Nodes, NEW t \in Servers,
             NEW pointers \in {registrations[t], answers[t], peers},
             m \in DOMAIN pointers
      PROVE  pointers[m] < NextSequenceNumber(m) /\ pointers[m] < NextSequenceNumber(m)'
  <2>1. pointers[m] < NextSequenceNumber(m)
    BY <1>9 DEF IInv, NextPointerIsNewest
  <2>2. pointers \in ById(Nodes) \cup ById(Others)
    BY <1>9 DEF IInv, TypeOK
  <2>3. pointers[m] \in Nat
    BY <1>9, <2>2, ByIdFacts
  <2> QED
    BY <1>1, <2>1, <2>3, NumbersGrow DEF IInv
<1>10. /\ registrations'[s] = after
       /\ \A t \in Servers \ {s} : registrations'[t] = registrations[t]
  BY <1>2 DEF IInv, TypeOK
<1>11. ASSUME NEW m \in Nodes, m \in DOMAIN after
       PROVE  after[m] < NextSequenceNumber(m)'
  <2>1. CASE m = n
    BY <1>1, <1>4, <1>5, <2>1, CreatePointerFacts DEF IInv
  <2>2. CASE m # n
    BY <1>5, <1>9, <1>11, <2>2
  <2> QED
    BY <2>1, <2>2
<1>12. ASSUME NEW m \in Nodes, NEW t \in Servers
       PROVE  \A pointers \in {registrations'[t], answers'[t], peers'} :
                m \in DOMAIN pointers => pointers[m] < NextSequenceNumber(m)'
  BY <1>1, <1>9, <1>10, <1>11
<1>13. ASSUME NEW m \in Nodes, NEW t \in Servers \ {s},
              m \in DOMAIN after \cap DOMAIN registrations[t]
       PROVE  after[m] # registrations[t][m]
  <2>1. CASE m = n
    <3>1. registrations[t][m] < seq
      BY <1>9, <1>13, <2>1
    <3>2. registrations[t] \in ById(Nodes)
      BY DEF IInv, TypeOK
    <3>3. registrations[t][m] \in 0..MaxSeq
      BY <1>13, <3>2, ByIdFacts
    <3> QED
      BY <1>4, <1>5, <2>1, <3>1, <3>3
  <2>2. CASE m # n
    BY <1>5, <1>13, <2>2 DEF IInv, NextPointerIsNewest
  <2> QED
    BY <2>1, <2>2
<1>14. ASSUME NEW m \in Nodes, NEW t \in Servers, NEW u \in Servers \ {t},
              m \in DOMAIN registrations'[t] \cap DOMAIN registrations'[u]
       PROVE  registrations'[t][m] # registrations'[u][m]
  <2>1. CASE t = s
    BY <1>10, <1>13, <1>14, <2>1
  <2>2. CASE u = s
    BY <1>10, <1>13, <1>14, <2>2
  <2>3. CASE t # s /\ u # s
    BY <1>10, <1>14, <2>3 DEF IInv, NextPointerIsNewest
  <2> QED
    BY <2>1, <2>2, <2>3
<1>15. NextPointerIsNewest'
  BY <1>12, <1>14 DEF NextPointerIsNewest
<1> QED
  BY <1>8, <1>15 DEF IInv

LEMMA UnregisterIInv ==
    ASSUME IInv, NEW n \in Nodes, NEW s \in Servers, Unregister(n, s)
    PROVE  IInv'
<1> DEFINE after == Restrict(registrations[s], DOMAIN registrations[s] \ {n})
<1>1. /\ UNCHANGED <<pointerCounter, storedCounter, status, specs, waiting, answers, peers>>
      /\ registrations' = [registrations EXCEPT ![s] = after]
  BY DEF Unregister, nodeVars, askVars
<1>2. /\ after \in ById(Nodes)
      /\ DOMAIN after \subseteq DOMAIN registrations[s]
      /\ \A id \in DOMAIN after : after[id] = registrations[s][id]
  <2> DEFINE before == registrations[s]
             rest == DOMAIN before \ {n}
  <2>1. before \in ById(Nodes) /\ rest \in SUBSET DOMAIN before
    BY DEF IInv, TypeOK
  <2>2. after = Restrict(before, rest)
    OBVIOUS
  <2> HIDE DEF after, before, rest
  <2>3. /\ after \in ById(Nodes) /\ DOMAIN after = rest
        /\ \A id \in rest : after[id] = before[id]
    BY <2>1, <2>2, RestrictFacts
  <2> QED
    BY <2>1, <2>3 DEF before
<1> HIDE DEF after
<1>3. /\ registrations' \in [Servers -> ById(Nodes)]
      /\ \A t \in Servers :
            /\ DOMAIN registrations'[t] \subseteq DOMAIN registrations[t]
            /\ \A id \in DOMAIN registrations'[t] :
                    registrations'[t][id] = registrations[t][id]
  BY <1>1, <1>2 DEF IInv, TypeOK
<1>4. \A m \in Nodes : NextSequenceNumber(m)' = NextSequenceNumber(m)
  BY <1>1 DEF NextSequenceNumber
<1>5. TypeOK' /\ CountersAgree' /\ AnswersAreAsked'
  BY <1>1, <1>3 DEF IInv, TypeOK, CountersAgree, AnswersAreAsked
<1>6. NextPointerIsNewest'
  BY <1>1, <1>3, <1>4 DEF IInv, NextPointerIsNewest
<1> QED
  BY <1>5, <1>6 DEF IInv

(* The page's own counter is lost, and restored from the storage when the  *)
(* next pointer is made.                                                   *)
LEMMA ReloadIInv ==
    ASSUME IInv, NEW n \in Nodes, Reload(n)
    PROVE  IInv'
<1>1. /\ UNCHANGED <<storedCounter, registrations, status, specs, waiting, answers, peers>>
      /\ pointerCounter' = [pointerCounter EXCEPT ![n] = 0]
      /\ pointerCounter[n] > 0
  BY DEF Reload, askVars
<1>2. storedCounter[n] # None /\ storedCounter[n] = pointerCounter[n]
  BY <1>1 DEF IInv, CountersAgree
<1>3. \A m \in Nodes : NextSequenceNumber(m)' = NextSequenceNumber(m)
  BY <1>1, <1>2 DEF IInv, TypeOK, NextSequenceNumber
<1>4. TypeOK' /\ CountersAgree' /\ AnswersAreAsked'
  BY <1>1, <1>2 DEF IInv, TypeOK, CountersAgree, AnswersAreAsked
<1>5. NextPointerIsNewest'
  BY <1>1, <1>3 DEF IInv, NextPointerIsNewest
<1> QED
  BY <1>4, <1>5 DEF IInv

LEMMA GetInitialPeerSetIInv ==
    ASSUME IInv, GetInitialPeerSet
    PROVE  IInv'
<1>1. /\ UNCHANGED <<pointerCounter, storedCounter, registrations>>
      /\ specs' \in SetToAllKPermutations(Servers)
      /\ status' = IF specs' = <<>> THEN "rejected" ELSE "asking"
      /\ waiting' = Range(specs')
      /\ answers' = [s \in Servers |-> NoPointers]
      /\ peers' = NoPointers
  BY DEF GetInitialPeerSet, nodeVars
<1>2. PICK asked \in SUBSET Servers : specs' \in SetToSeqs(asked)
  BY <1>1 DEF SetToAllKPermutations
<1>3. specs' \in Seq(Servers) /\ IsInjective(specs')
  <2>1. IsFiniteSet(asked) /\ Cardinality(asked) \in Nat
    BY FS_Subset, FS_CardinalityType
  <2>2. /\ specs' \in [1..Cardinality(asked) -> asked]
        /\ \A i, j \in 1..Cardinality(asked) : i # j => specs'[i] # specs'[j]
    BY <1>2 DEF SetToSeqs
  <2> QED
    BY <2>1, <2>2 DEF IsInjective
<1>4. waiting' # {} => status' = "asking"
  <2>1. specs' = <<>> => Range(specs') = {}
    BY DEF Range
  <2> QED
    BY <1>1, <2>1
<1>5. TypeOK'
  BY <1>1, <1>3, NoPointersFacts DEF IInv, TypeOK
<1>6. CountersAgree' /\ AnswersAreAsked'
  BY <1>1, <1>4 DEF IInv, CountersAgree, AnswersAreAsked
<1>7. \A m \in Nodes : NextSequenceNumber(m)' = NextSequenceNumber(m)
  BY <1>1 DEF NextSequenceNumber
<1>8. NextPointerIsNewest'
  BY <1>1, <1>7, NoPointersFacts DEF IInv, NextPointerIsNewest
<1> QED
  BY <1>5, <1>6, <1>8 DEF IInv

(* An answer has pointers that the server has, without the node's own.     *)
LEMMA ServerAnswersFacts ==
    ASSUME IInv, NEW s \in Servers, ServerAnswers(s)
    PROVE  \E response \in ById(Others) :
             /\ answers' = [answers EXCEPT ![s] = response]
             /\ DOMAIN response \subseteq DOMAIN registrations[s]
             /\ \A id \in DOMAIN response : response[id] = registrations[s][id]
<1>1. PICK sample \in SUBSET DOMAIN registrations[s] :
        answers' = [answers EXCEPT ![s] = WithoutSelf(Restrict(registrations[s], sample))]
  BY DEF ServerAnswers, SamplePeers
<1> DEFINE sampled == Restrict(registrations[s], sample)
           response == Restrict(sampled, DOMAIN sampled \ {Self})
<1>2. /\ sampled \in ById(Nodes)
      /\ DOMAIN sampled = sample
      /\ \A id \in sample : sampled[id] = registrations[s][id]
  BY RestrictFacts DEF IInv, TypeOK
<1> HIDE DEF sampled
<1>3. /\ response \in ById(Nodes)
      /\ DOMAIN response = sample \ {Self}
      /\ \A id \in DOMAIN response : response[id] = registrations[s][id]
  BY <1>2, RestrictFacts
<1>4. answers' = [answers EXCEPT ![s] = response]
  BY <1>1 DEF WithoutSelf, sampled
<1> HIDE DEF response
<1>5. response \in ById(Others)
  <2>1. /\ response = [id \in DOMAIN response |-> response[id]]
        /\ DOMAIN response \subseteq Nodes
        /\ \A id \in DOMAIN response : response[id] \in 0..MaxSeq
    BY <1>3, ByIdFacts
  <2>2. DOMAIN response \subseteq Others
    BY <1>3, <2>1 DEF Others
  <2> QED
    BY <2>1, <2>2, ByIdFacts
<1> QED
  BY <1>3, <1>4, <1>5

LEMMA ServerAnswersIInv ==
    ASSUME IInv, NEW s \in Servers, ServerAnswers(s)
    PROVE  IInv'
<1>1. /\ UNCHANGED <<pointerCounter, storedCounter, registrations, status, specs, peers>>
      /\ s \in waiting
      /\ waiting' = waiting \ {s}
  BY DEF ServerAnswers, nodeVars
<1>2. PICK response \in ById(Others) :
        /\ answers' = [answers EXCEPT ![s] = response]
        /\ DOMAIN response \subseteq DOMAIN registrations[s]
        /\ \A id \in DOMAIN response : response[id] = registrations[s][id]
  BY ServerAnswersFacts
<1>3. TypeOK'
  BY <1>1, <1>2 DEF IInv, TypeOK
<1>4. CountersAgree' /\ AnswersAreAsked'
  BY <1>1, <1>2 DEF IInv, TypeOK, CountersAgree, AnswersAreAsked
<1>5. \A m \in Nodes : NextSequenceNumber(m)' = NextSequenceNumber(m)
  BY <1>1 DEF NextSequenceNumber
<1>6. /\ answers'[s] = response
      /\ \A t \in Servers \ {s} : answers'[t] = answers[t]
  BY <1>2 DEF IInv, TypeOK
<1>7. ASSUME NEW m \in Nodes, m \in DOMAIN response
      PROVE  response[m] < NextSequenceNumber(m)
  BY <1>2, <1>7 DEF IInv, NextPointerIsNewest
<1>8. NextPointerIsNewest'
  BY <1>1, <1>5, <1>6, <1>7 DEF IInv, NextPointerIsNewest
<1> QED
  BY <1>3, <1>4, <1>8 DEF IInv

LEMMA RequestFailsIInv ==
    ASSUME IInv, NEW s \in Servers, RequestFails(s)
    PROVE  IInv'
<1>1. /\ UNCHANGED <<pointerCounter, storedCounter, registrations, status, specs,
                     answers, peers>>
      /\ s \in waiting
      /\ waiting' = waiting \ {s}
  BY DEF RequestFails, nodeVars
<1>2. TypeOK' /\ CountersAgree' /\ AnswersAreAsked'
  BY <1>1 DEF IInv, TypeOK, CountersAgree, AnswersAreAsked
<1>3. \A m \in Nodes : NextSequenceNumber(m)' = NextSequenceNumber(m)
  BY <1>1 DEF NextSequenceNumber
<1>4. NextPointerIsNewest'
  BY <1>1, <1>3 DEF IInv, NextPointerIsNewest
<1> QED
  BY <1>2, <1>4 DEF IInv

(* The result is a sample of the merged answers: as many as were asked     *)
(* for, or all of them.                                                    *)
LEMMA ResolveFacts ==
    ASSUME IInv, Resolve
    PROVE  /\ peers' \in ById(Others)
           /\ DOMAIN peers' \subseteq DOMAIN DeDuplicated
           /\ \A id \in DOMAIN peers' : peers'[id] = DeDuplicated[id]
           /\ IsFiniteSet(DOMAIN peers')
           /\ Cardinality(DOMAIN peers') \in Nat
           /\ \/ Cardinality(DOMAIN peers') = Limit
              \/ /\ Cardinality(DOMAIN peers') < Limit
                 /\ DOMAIN peers' = DOMAIN DeDuplicated
<1> DEFINE all == DOMAIN DeDuplicated
<1>1. PICK sample \in SUBSET all :
        /\ Cardinality(sample) = Min({Limit, Cardinality(all)})
        /\ peers' = Restrict(DeDuplicated, sample)
  BY DEF Resolve
<1>2. DeDuplicated \in ById(Others)
  BY DeDuplicatedFacts DEF IInv
<1>3. /\ peers' \in ById(Others)
      /\ DOMAIN peers' = sample
      /\ \A id \in sample : peers'[id] = DeDuplicated[id]
  BY <1>1, <1>2, RestrictFacts
<1>4. IsFiniteSet(all) /\ Cardinality(all) \in Nat
  <2>1. all \subseteq Nodes
    BY <1>2, ByIdFacts DEF Others
  <2> QED
    BY <2>1, FS_Subset, FS_CardinalityType
<1>5. /\ IsFiniteSet(sample)
      /\ Cardinality(sample) \in Nat
      /\ Cardinality(all) = Cardinality(sample) => sample = all
  BY <1>4, FS_Subset, FS_CardinalityType
<1>6. Cardinality(sample) = IF Limit <= Cardinality(all) THEN Limit ELSE Cardinality(all)
  BY <1>1, <1>4, MinFacts
<1> HIDE DEF all
<1>7. \/ Cardinality(sample) = Limit
      \/ Cardinality(sample) < Limit /\ sample = all
  BY <1>4, <1>5, <1>6
<1> QED
  BY <1>3, <1>5, <1>7 DEF all

LEMMA ResolveIInv == IInv /\ Resolve => IInv'
<1> SUFFICES ASSUME IInv, Resolve PROVE IInv'
  OBVIOUS
<1>1. /\ UNCHANGED <<pointerCounter, storedCounter, registrations, specs, waiting, answers>>
      /\ waiting = {}
      /\ status' = "resolved"
  BY DEF Resolve, nodeVars
<1>2. TypeOK'
  BY <1>1, ResolveFacts DEF IInv, TypeOK
<1>3. CountersAgree' /\ AnswersAreAsked'
  BY <1>1 DEF IInv, CountersAgree, AnswersAreAsked
<1>4. \A m \in Nodes : NextSequenceNumber(m)' = NextSequenceNumber(m)
  BY <1>1 DEF NextSequenceNumber
<1>5. ASSUME NEW m \in Nodes, m \in DOMAIN peers'
      PROVE  peers'[m] < NextSequenceNumber(m)
  <2>1. m \in DOMAIN DeDuplicated /\ peers'[m] = DeDuplicated[m]
    BY <1>5, ResolveFacts
  <2>2. PICK s \in Servers : m \in DOMAIN answers[s] /\ DeDuplicated[m] = answers[s][m]
    BY <2>1, DeDuplicatedFacts DEF IInv
  <2> QED
    BY <2>1, <2>2 DEF IInv, NextPointerIsNewest
<1>6. NextPointerIsNewest'
  BY <1>1, <1>4, <1>5 DEF IInv, NextPointerIsNewest
<1> QED
  BY <1>2, <1>3, <1>6 DEF IInv

LEMMA NextIInv == IInv /\ [Next]_vars => IInv'
<1> SUFFICES ASSUME IInv, [Next]_vars PROVE IInv'
  OBVIOUS
<1>1. CASE Next
  BY <1>1, RegisterWithIInv, UnregisterIInv, SendPointerIInv, ReloadIInv,
     GetInitialPeerSetIInv, ServerAnswersIInv, RequestFailsIInv, ResolveIInv DEF Next
<1>2. CASE UNCHANGED vars
  BY <1>2 DEF vars, nodeVars, askVars, IInv, TypeOK, CountersAgree, AnswersAreAsked,
              NextPointerIsNewest, NextSequenceNumber
<1> QED
  BY <1>1, <1>2

LEMMA SpecIInv == Spec => []IInv
BY InitIInv, NextIInv, PTL DEF Spec

(* The counters, the servers' pointers by id and the promise are well      *)
(* formed; the result is never larger than asked for.                      *)
THEOREM TypeCorrect == Spec => []TypeOK
<1>1. IInv => TypeOK
  BY DEF IInv
<1> QED
  BY <1>1, SpecIInv, PTL

(* However nodes register, leave and reload their pages, the next pointer  *)
(* of each is newer than every pointer to it that anybody has, and no two  *)
(* servers have the same one.                                              *)
THEOREM NewPointersAreNewest == Spec => []NextPointerIsNewest
<1>1. IInv => NextPointerIsNewest
  BY DEF IInv
<1> QED
  BY <1>1, SpecIInv, PTL

------------------------------------------------------------------------------
(* The refinement of Bootstrap.                                            *)

(* The sizes that a Bootstrap speaks of are those meant here.              *)
LEMMA PromisedCardinality ==
    ASSUME NEW S
    PROVE  Promised!Cardinality(S) = Cardinality(S)
BY DEF Promised!Cardinality, Cardinality

LEMMA InitIsPromised == Init => Promised!Init
<1> SUFFICES ASSUME Init PROVE Promised!Init
  OBVIOUS
<1>1. Heard = {} /\ PointersOf(peers) = {}
  BY NoPointersFacts DEF Init, Heard
<1> QED
  BY <1>1 DEF Init, Promised!Init

(* Each step of the servers' bootstrap is one of the Bootstrap it          *)
(* promises, or nothing to it.                                             *)
LEMMA StepIsPromised ==
    IInv /\ [Next]_vars => [Promised!Next]_<<status, Heard, PointersOf(peers)>>
<1> SUFFICES ASSUME IInv, [Next]_vars
             PROVE  [Promised!Next]_<<status, Heard, PointersOf(peers)>>
  OBVIOUS
<1>1. CASE UNCHANGED <<status, answers, peers>>
  BY <1>1 DEF Heard, PointersOf
<1>2. CASE GetInitialPeerSet
  <2>1. /\ status # "asking"
        /\ status' \in {"asking", "rejected"}
        /\ answers' = [s \in Servers |-> NoPointers]
        /\ peers' = NoPointers
    BY <1>2 DEF GetInitialPeerSet
  <2>2. Heard' = {} /\ PointersOf(peers)' = {}
    BY <2>1, NoPointersFacts DEF Heard, PointersOf
  <2> QED
    BY <2>1, <2>2 DEF Promised!Ask, Promised!Next
<1>3. ASSUME NEW s \in Servers, ServerAnswers(s)
      PROVE  Promised!Hear
  <2>1. /\ s \in waiting
        /\ status = "asking"
        /\ UNCHANGED <<status, peers>>
    BY <1>3 DEF ServerAnswers, IInv, AnswersAreAsked
  <2>2. answers[s] = NoPointers
    BY <2>1 DEF IInv, AnswersAreAsked
  <2>3. answers' \in [Servers -> ById(Others)]
    BY <1>3, ServerAnswersIInv DEF IInv, TypeOK
  <2>4. \A t \in Servers \ {s} : answers'[t] = answers[t]
    BY <1>3 DEF ServerAnswers, IInv, TypeOK
  <2>5. Heard \subseteq Heard'
    BY <2>2, <2>4, NoPointersFacts DEF Heard, PointersOf
  <2>6. \A p \in Heard' : p.id \in Nodes \ {Self}
    BY <2>3, ByIdFacts DEF Heard, PointersOf, Others
  <2> QED
    BY <2>1, <2>5, <2>6 DEF Promised!Hear, PointersOf
<1>4. CASE Resolve
  <2> DEFINE d == DOMAIN peers'
  <2>1. /\ status = "asking"
        /\ status' = "resolved"
        /\ UNCHANGED answers
    BY <1>4 DEF Resolve
  <2>2. Heard' = Heard
    BY <2>1 DEF Heard, PointersOf
  <2>3. PointersOf(peers)' = PointersOf(peers')
    BY DEF PointersOf
  <2>4. PointersOf(peers') \subseteq Promised!Newest(Heard)
    <3>1. PointersOf(peers') \subseteq PointersOf(DeDuplicated)
      BY <1>4, ResolveFacts DEF PointersOf
    <3> QED
      BY <3>1, DeDuplicatedFacts DEF IInv
  <2>5. /\ Cardinality(PointersOf(peers')) = Cardinality(d)
        /\ {p.id : p \in PointersOf(peers')} = d
        /\ \A p, q \in PointersOf(peers') : p.id = q.id => p = q
    BY <1>4, ResolveFacts, PointersOfFacts
  <2>6. \/ Cardinality(d) = Limit
        \/ Cardinality(d) < Limit /\ d = {p.id : p \in Heard}
    BY <1>4, ResolveFacts, DeDuplicatedFacts DEF IInv
  <2> HIDE DEF d
  <2>7. \/ Cardinality(PointersOf(peers')) = Limit
        \/ /\ Cardinality(PointersOf(peers')) < Limit
           /\ {p.id : p \in PointersOf(peers')} = {p.id : p \in Heard}
    BY <2>5, <2>6
  <2>8. Promised!Resolve
    BY <2>1, <2>2, <2>3, <2>4, <2>5, <2>7, PromisedCardinality
       DEF Promised!Resolve
  <2> QED
    BY <2>8 DEF Promised!Next
<1>5. ASSUME NEW n \in Nodes, NEW s \in Servers, RegisterWith(n, s) \/ Unregister(n, s)
      PROVE  UNCHANGED <<status, answers, peers>>
  BY <1>5 DEF RegisterWith, Unregister, askVars
<1>6. ASSUME NEW n \in Nodes, SendPointer(n) \/ Reload(n)
      PROVE  UNCHANGED <<status, answers, peers>>
  BY <1>6 DEF SendPointer, Reload, askVars
<1>7. ASSUME NEW s \in Servers, RequestFails(s)
      PROVE  UNCHANGED <<status, answers, peers>>
  BY <1>7 DEF RequestFails
<1>8. CASE UNCHANGED vars
  BY <1>1, <1>8 DEF vars, askVars
<1> QED
  BY <1>1, <1>2, <1>3, <1>4, <1>5, <1>6, <1>7, <1>8 DEF Next, Promised!Next

(* Asking several servers, of which some may fail, and merging what they   *)
(* answer keeps the promise of a Bootstrap: as many peers as were asked    *)
(* for if there are, the newest pointer to each, and never the node        *)
(* itself.                                                                 *)
THEOREM PromiseIsKept == Spec => ImplementsBootstrap
<1>1. Init => Promised!Init
  BY InitIsPromised
<1>2. IInv /\ [Next]_vars => [Promised!Next]_<<status, Heard, PointersOf(peers)>>
  BY StepIsPromised
<1> QED
  BY <1>1, <1>2, SpecIInv, PTL DEF Spec, ImplementsBootstrap, Promised!Spec
================================================================================
