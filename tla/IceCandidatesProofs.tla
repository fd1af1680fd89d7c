------------------------- MODULE IceCandidatesProofs -------------------------
(***************************************************************************)
(* Theorems about IceCandidates: the queues and their timers, what is      *)
(* added when the remote description is set, and which channel candidates  *)
(* get to, for all sets of channels, correlation ids and candidates.       *)
(***************************************************************************)
EXTENDS IceCandidates, FiniteSetTheorems, TLAPS

USE IceCandidatesAssumption

(* The types the invariants need.                                          *)
Types ==
    /\ corr \in [Channels -> CorrelationIds]
    /\ local \subseteq Candidates
    /\ queue \in [CorrelationIds -> SUBSET Candidates]
    /\ timers \in [CorrelationIds -> Nat]
    /\ posts \subseteq Batch
    /\ held \in Seq(Batch) /\ Len(held) <= MaxBuffered
    /\ listening \subseteq Channels
    /\ described \subseteq Channels
    /\ cache \in [Channels -> SUBSET Candidates]
    /\ runs \in [Channels -> Nat]
    /\ added \in [Channels -> SUBSET Candidates]

(* The candidates of the channels with a correlation id.                   *)
Named(i) == {x \in Candidates : corr[x[1]] = i}

(* Candidates are queued, posted and buffered under the id of their own    *)
(* channel.                                                                *)
UnderTheirId ==
    /\ \A i \in CorrelationIds : queue[i] \subseteq Named(i)
    /\ \A p \in posts \cup Range(held) : p.candidates \subseteq Named(p.id)
    /\ \A c \in Channels : cache[c] \cup added[c] \subseteq Named(corr[c])

IInv ==
    /\ Types
    /\ TimerPerQueue
    /\ UnderTheirId
    /\ AddedWhenDescribed

------------------------------------------------------------------------------
(* A channel's candidates carry its name.                                   *)
LEMMA OfFacts ==
    ASSUME NEW c \in Channels
    PROVE  Of(c) = {x \in Candidates : x[1] = c}
BY DEF Of, Candidates

(* A channel's candidates are among those of its correlation id.            *)
LEMMA NamedFacts ==
    ASSUME NEW c \in Channels
    PROVE  Of(c) \subseteq Named(corr[c])
BY OfFacts DEF Named

(* No two batches of a sequence have a candidate in common.                *)
Apart(batches) ==
    \A k, m \in DOMAIN batches :
        k # m => batches[k].candidates \cap batches[m].candidates = {}

(* What a sequence loses with its oldest batch.                            *)
LEMMA TailFacts ==
    ASSUME NEW s \in Seq(Batch), s # << >>
    PROVE  /\ Tail(s) \in Seq(Batch) /\ Len(Tail(s)) = Len(s) - 1
           /\ Range(Tail(s)) \subseteq Range(s)
           /\ Head(s).candidates \subseteq InBatches(Range(s))
           /\ Apart(s) => /\ Apart(Tail(s))
                          /\ InBatches(Range(Tail(s)))
                                = InBatches(Range(s)) \ Head(s).candidates
<1>1. /\ Tail(s) \in Seq(Batch) /\ Len(Tail(s)) = Len(s) - 1
      /\ \A k \in 1..Len(Tail(s)) : Tail(s)[k] = s[k + 1]
      /\ Head(s) = s[1] /\ Len(s) \in Nat \ {0}
  OBVIOUS
<1>2. DOMAIN s = 1..Len(s) /\ DOMAIN Tail(s) = 1..Len(Tail(s))
  BY <1>1
<1>3. \A k \in DOMAIN Tail(s) : k + 1 \in DOMAIN s /\ k + 1 # 1
  BY <1>1, <1>2
<1>4. \A k \in DOMAIN s : k = 1 \/ (k - 1 \in DOMAIN Tail(s) /\ s[k] = Tail(s)[k - 1])
  BY <1>1, <1>2
<1>5. Range(Tail(s)) \subseteq Range(s) /\ 1 \in DOMAIN s
  BY <1>1, <1>2, <1>3 DEF Range
<1>6. Head(s).candidates \subseteq InBatches(Range(s))
  BY <1>1, <1>5 DEF Range, InBatches
<1>7. ASSUME Apart(s)
      PROVE  /\ Apart(Tail(s))
             /\ InBatches(Range(Tail(s))) = InBatches(Range(s)) \ Head(s).candidates
  <2>1. Apart(Tail(s))
    <3> SUFFICES ASSUME NEW k \in DOMAIN Tail(s), NEW m \in DOMAIN Tail(s), k # m
                 PROVE  Tail(s)[k].candidates \cap Tail(s)[m].candidates = {}
      BY DEF Apart
    <3>1. k + 1 # m + 1
      BY <1>1, <1>2
    <3> QED
      BY <1>1, <1>2, <1>3, <1>7, <3>1 DEF Apart
  <2>2. \A b \in Range(Tail(s)) : b \in Range(s) /\ b.candidates \cap Head(s).candidates = {}
    BY <1>1, <1>2, <1>3, <1>5, <1>7 DEF Apart, Range
  <2>3. \A b \in Range(s) : b = Head(s) \/ b \in Range(Tail(s))
    BY <1>1, <1>4 DEF Range
  <2> QED
    BY <2>1, <2>2, <2>3 DEF InBatches
<1> QED
  BY <1>1, <1>5, <1>6, <1>7

(* What it gains with a new one.                                           *)
LEMMA AppendFacts ==
    ASSUME NEW s \in Seq(Batch), NEW p \in Batch
    PROVE  /\ Append(s, p) \in Seq(Batch) /\ Len(Append(s, p)) = Len(s) + 1
           /\ Range(Append(s, p)) = Range(s) \cup {p}
           /\ InBatches(Range(Append(s, p))) = InBatches(Range(s)) \cup p.candidates
           /\ Apart(s) /\ p.candidates \cap InBatches(Range(s)) = {} => Apart(Append(s, p))
<1> DEFINE longer == Append(s, p)
<1>1. /\ longer \in Seq(Batch) /\ Len(longer) = Len(s) + 1
      /\ \A k \in 1..Len(s) : longer[k] = s[k]
      /\ longer[Len(s) + 1] = p
  OBVIOUS
<1>2. /\ DOMAIN s = 1..Len(s) /\ DOMAIN longer = DOMAIN s \cup {Len(s) + 1}
      /\ Len(s) + 1 \notin DOMAIN s
  BY <1>1
<1> HIDE DEF longer
<1>3. Range(longer) = Range(s) \cup {p}
  BY <1>1, <1>2 DEF Range
<1>4. InBatches(Range(longer)) = InBatches(Range(s)) \cup p.candidates
  BY <1>3 DEF InBatches
<1>5. ASSUME Apart(s), p.candidates \cap InBatches(Range(s)) = {}
      PROVE  Apart(longer)
  <2>1. \A k \in DOMAIN s : s[k].candidates \cap p.candidates = {}
    BY <1>5 DEF InBatches, Range
  <2> QED
    BY <1>1, <1>2, <1>5, <2>1 DEF Apart
<1> QED
  BY <1>1, <1>3, <1>4, <1>5 DEF longer

(* bufferEvent keeps to the places there are, and what expires is what is  *)
(* missing afterwards.                                                     *)
LEMMA BufferedFacts ==
    ASSUME Types, NEW p \in Batch
    PROVE  /\ Buffered(p) \in Seq(Batch) /\ Len(Buffered(p)) <= MaxBuffered
           /\ Range(Buffered(p)) \subseteq Range(held) \cup {p}
           /\ Expired \subseteq InBatches(Range(held))
           /\ Apart(held) /\ p.candidates \cap InBatches(Range(held)) = {} =>
                /\ Apart(Buffered(p))
                /\ InBatches(Range(Buffered(p)))
                        = (InBatches(Range(held)) \ Expired) \cup p.candidates
<1>1. /\ held \in Seq(Batch) /\ Len(held) \in Nat /\ Len(held) <= MaxBuffered
      /\ MaxBuffered \in Nat \ {0}
  BY DEF Types
<1>2. CASE Len(held) = MaxBuffered
  <2>1. held # << >>
    BY <1>1, <1>2
  <2>2. Buffered(p) = Append(Tail(held), p) /\ Expired = Head(held).candidates
    BY <1>2 DEF Buffered, Expired
  <2>3. /\ Tail(held) \in Seq(Batch) /\ Len(Tail(held)) = Len(held) - 1
        /\ Range(Tail(held)) \subseteq Range(held)
        /\ Head(held).candidates \subseteq InBatches(Range(held))
        /\ Apart(held) => /\ Apart(Tail(held))
                          /\ InBatches(Range(Tail(held)))
                                = InBatches(Range(held)) \ Head(held).candidates
    BY <1>1, <2>1, TailFacts
  <2> DEFINE rest == Tail(held)
  <2>4. /\ Append(rest, p) \in Seq(Batch) /\ Len(Append(rest, p)) = Len(rest) + 1
        /\ Range(Append(rest, p)) = Range(rest) \cup {p}
        /\ InBatches(Range(Append(rest, p))) = InBatches(Range(rest)) \cup p.candidates
        /\ Apart(rest) /\ p.candidates \cap InBatches(Range(rest)) = {}
                => Apart(Append(rest, p))
    BY <2>3, AppendFacts
  <2> HIDE DEF rest
  <2>5. Buffered(p) = Append(rest, p)
    BY <2>2 DEF rest
  <2>6. Len(rest) + 1 = MaxBuffered
    BY <1>1, <1>2, <2>3 DEF rest
  <2>7. Range(rest) \subseteq Range(held)
    BY <2>3 DEF rest
  <2>8. Apart(held) => /\ Apart(rest)
                       /\ InBatches(Range(rest)) = InBatches(Range(held)) \ Expired
    BY <2>2, <2>3 DEF rest
  <2>9. Expired \subseteq InBatches(Range(held))
    BY <2>2, <2>3
  <2>10. Len(Append(rest, p)) <= MaxBuffered
    BY <1>1, <2>4, <2>6
  <2> QED
    BY <2>4, <2>5, <2>7, <2>8, <2>9, <2>10
<1>3. CASE Len(held) # MaxBuffered
  <2>1. Buffered(p) = Append(held, p) /\ Expired = {}
    BY <1>3 DEF Buffered, Expired
  <2>2. Len(held) + 1 <= MaxBuffered
    BY <1>1, <1>3
  <2>3. /\ Append(held, p) \in Seq(Batch) /\ Len(Append(held, p)) = Len(held) + 1
        /\ Range(Append(held, p)) = Range(held) \cup {p}
        /\ InBatches(Range(Append(held, p))) = InBatches(Range(held)) \cup p.candidates
        /\ Apart(held) /\ p.candidates \cap InBatches(Range(held)) = {}
                => Apart(Append(held, p))
    BY <1>1, AppendFacts
  <2> QED
    BY <2>1, <2>2, <2>3
<1> QED
  BY <1>2, <1>3

(* The batches of one event, and those that its popping leaves.            *)
HeldAs(i) == {k \in DOMAIN held : held[k].id = i}
CandidatesHeldAs(i) == UNION {held[k].candidates : k \in HeldAs(i)}

LEMMA PopFacts ==
    ASSUME Types, NEW i, PopUnhandled(i)
    PROVE  /\ held' \in Seq(Batch) /\ Len(held') <= MaxBuffered
           /\ Range(held') \subseteq Range(held)
           /\ CandidatesHeldAs(i) \subseteq InBatches(Range(held))
           /\ Apart(held) =>
                /\ Apart(held')
                /\ InBatches(Range(held')) = InBatches(Range(held)) \ CandidatesHeldAs(i)
<1> DEFINE others == {k \in DOMAIN held : held[k].id # i}
           n == Cardinality(others)
<1>1. PICK order \in Bijection(1..n, others) :
            held' = [k \in DOMAIN order |-> held[order[k]]]
  BY DEF PopUnhandled
<1>2. /\ held \in Seq(Batch) /\ DOMAIN held = 1..Len(held) /\ Len(held) \in Nat
      /\ Len(held) <= MaxBuffered
  BY DEF Types
<1>3. n \in Nat /\ n <= Len(held)
  <2>1. others \subseteq 1..Len(held)
    BY <1>2
  <2>2. IsFiniteSet(1..Len(held)) /\ Cardinality(1..Len(held)) = Len(held)
    <3> DEFINE size == Len(held)
    <3>1. size \in Nat
      BY <1>2
    <3> HIDE DEF size, others
    <3>2. size \in Int /\ 1 \in Int
      BY <3>1
    <3>3. /\ IsFiniteSet(1..size)
          /\ Cardinality(1..size) = IF 1 > size THEN 0 ELSE size - 1 + 1
      BY <3>2, FS_Interval
    <3>4. Cardinality(1..size) = size
      BY <3>1, <3>3
    <3> QED
      BY <3>3, <3>4 DEF size
  <2> HIDE DEF others
  <2> QED
    BY <2>1, <2>2, FS_Subset, FS_CardinalityType DEF n
<1> HIDE DEF n
<1>4. /\ DOMAIN order = 1..n
      /\ \A k \in 1..n : order[k] \in others
      /\ \A k, m \in 1..n : k # m => order[k] # order[m]
      /\ \A j \in others : \E k \in 1..n : order[k] = j
  BY <1>1 DEF Bijection, Injection, Surjection, IsInjective
<1>5. \A k \in 1..n : held'[k] = held[order[k]] /\ held[order[k]] \in Batch
  BY <1>1, <1>2, <1>4
<1>6. held' = [k \in 1..n |-> held[order[k]]]
  BY <1>1, <1>4
<1>7. held' \in Seq(Batch) /\ Len(held') = n /\ DOMAIN held' = 1..n
  <2>1. held' \in [1..n -> Batch]
    BY <1>5, <1>6
  <2> QED
    BY <1>3, <2>1
<1>8. /\ \A b \in Range(held') : \E j \in others : b = held[j]
      /\ \A j \in others : held[j] \in Range(held')
  BY <1>4, <1>5, <1>7 DEF Range
<1>9. Range(held') \subseteq Range(held)
  BY <1>8 DEF Range
<1>10. CandidatesHeldAs(i) \subseteq InBatches(Range(held))
  BY DEF CandidatesHeldAs, HeldAs, InBatches, Range
<1>11. ASSUME Apart(held)
       PROVE  /\ Apart(held')
              /\ InBatches(Range(held')) = InBatches(Range(held)) \ CandidatesHeldAs(i)
  <2>1. Apart(held')
    BY <1>4, <1>5, <1>7, <1>11 DEF Apart
  <2>2. \A x : x \in InBatches(Range(held'))
                <=> \E j \in others : x \in held[j].candidates
    BY <1>8 DEF InBatches
  <2>3. \A x : x \in InBatches(Range(held))
                <=> \E j \in DOMAIN held : x \in held[j].candidates
    BY DEF InBatches, Range
  <2>4. \A x : x \in CandidatesHeldAs(i) <=> \E j \in DOMAIN held :
                                        held[j].id = i /\ x \in held[j].candidates
    BY DEF CandidatesHeldAs, HeldAs
  <2>5. \A j, k \in DOMAIN held : \A x :
            x \in held[j].candidates /\ x \in held[k].candidates => j = k
    BY <1>11 DEF Apart
  <2>6. \A x : x \in InBatches(Range(held'))
                <=> x \in InBatches(Range(held)) /\ x \notin CandidatesHeldAs(i)
    BY <2>2, <2>3, <2>4, <2>5
  <2> QED
    BY <2>1, <2>6
<1>12. Len(held') <= MaxBuffered
  BY <1>2, <1>3, <1>7
<1> QED
  BY <1>7, <1>9, <1>10, <1>11, <1>12

(* The inductive invariant holds initially: nothing is gathered yet.        *)
LEMMA InitIInv == Init => IInv
<1> SUFFICES ASSUME Init PROVE IInv
  OBVIOUS
<1>1. Types /\ TimerPerQueue
  BY DEF Init, Types, TimerPerQueue
<1>2. UnderTheirId /\ AddedWhenDescribed
  BY DEF Init, UnderTheirId, AddedWhenDescribed, Range
<1> QED
  BY <1>1, <1>2 DEF IInv

(* What the sender does with candidates of a channel.                      *)
LEMMA SenderIInv ==
    ASSUME IInv, NEW c \in Channels, NEW candidates \in SUBSET Of(c),
           \/ SendIceCandidates(corr[c], candidates) /\ candidates # {}
           \/ UNCHANGED <<queue, timers>>,
           local' \in SUBSET Candidates,
           UNCHANGED <<corr, posts, receiver>>
    PROVE  IInv'
<1>1. candidates \subseteq Named(corr[c]) /\ candidates \subseteq Candidates
  BY NamedFacts DEF Named
<1>2. corr[c] \in CorrelationIds
  BY DEF IInv, Types
<1>3. /\ queue' \in [CorrelationIds -> SUBSET Candidates]
      /\ timers' \in [CorrelationIds -> Nat]
  <2>1. /\ queue \in [CorrelationIds -> SUBSET Candidates]
        /\ timers \in [CorrelationIds -> Nat]
    BY DEF IInv, Types
  <2>2. CASE SendIceCandidates(corr[c], candidates)
    BY <1>1, <1>2, <2>1, <2>2 DEF SendIceCandidates
  <2>3. CASE UNCHANGED <<queue, timers>>
    BY <2>1, <2>3
  <2> QED
    BY <2>2, <2>3
<1>4. Types'
  BY <1>3 DEF IInv, Types, receiver
<1>5. TimerPerQueue'
  <2> SUFFICES ASSUME NEW i \in CorrelationIds
               PROVE  timers'[i] = IF queue'[i] = {} THEN 0 ELSE 1
    BY DEF TimerPerQueue
  <2>1. timers[i] = IF queue[i] = {} THEN 0 ELSE 1
    BY DEF IInv, TimerPerQueue
  <2>2. CASE UNCHANGED <<queue, timers>>
    BY <2>1, <2>2
  <2>3. CASE SendIceCandidates(corr[c], candidates) /\ candidates # {}
    <3>1. CASE i = corr[c]
      <4>1. queue'[i] = queue[i] \cup candidates
        BY <2>3, <3>1 DEF SendIceCandidates, IInv, Types
      <4>2. queue'[i] # {}
        BY <4>1, <2>3
      <4>3. timers'[i] = IF queue[i] = {} THEN timers[i] + 1 ELSE timers[i]
        BY <2>3, <3>1 DEF SendIceCandidates, IInv, Types
      <4> QED
        BY <4>2, <4>3, <2>1
    <3>2. CASE i # corr[c]
      BY <2>1, <2>3, <3>2 DEF SendIceCandidates, IInv, Types
    <3> QED
      BY <3>1, <3>2
  <2> QED
    BY <2>2, <2>3
<1>6. UnderTheirId'
  <2>1. \A i : Named(i)' = Named(i)
    BY DEF Named
  <2>2. ASSUME NEW i \in CorrelationIds
        PROVE  queue'[i] \subseteq Named(i)
    <3>1. queue[i] \subseteq Named(i)
      BY DEF IInv, UnderTheirId
    <3>2. CASE UNCHANGED <<queue, timers>>
      BY <3>1, <3>2
    <3>3. CASE SendIceCandidates(corr[c], candidates)
      <4>1. CASE i = corr[c]
        <5>1. queue'[i] = queue[i] \cup candidates
          BY <3>3, <4>1 DEF SendIceCandidates, IInv, Types
        <5> QED
          BY <3>1, <4>1, <5>1, <1>1
      <4>2. CASE i # corr[c]
        BY <3>1, <3>3, <4>2 DEF SendIceCandidates, IInv, Types
      <4> QED
        BY <4>1, <4>2
    <3> QED
      BY <3>2, <3>3
  <2>3. /\ \A p \in posts \cup Range(held) : p.candidates \subseteq Named(p.id)
        /\ \A d \in Channels : cache[d] \cup added[d] \subseteq Named(corr[d])
    BY DEF IInv, UnderTheirId
  <2> QED
    BY <2>1, <2>2, <2>3 DEF UnderTheirId, receiver, Range
<1>7. AddedWhenDescribed'
  BY DEF IInv, AddedWhenDescribed, receiver
<1> QED
  BY <1>4, <1>5, <1>6, <1>7 DEF IInv

(* What the event "iceCandidates" changes at the sender.                    *)
LEMMA EmitFacts ==
    ASSUME NEW c, NEW candidates, Emit(c, candidates)
    PROVE  /\ local' \subseteq local
           /\ \/ SendIceCandidates(corr[c], candidates) /\ candidates # {}
              \/ UNCHANGED <<queue, timers>>
BY DEF Emit

(* addLocalIceCandidate preserves the inductive invariant.                  *)
LEMMA GatherIInv ==
    ASSUME IInv, NEW c \in Channels, GatherCandidate(c)
    PROVE  IInv'
<1>1. PICK candidate \in Of(c) :
        /\ \/ local' = local \cup {candidate} /\ UNCHANGED <<queue, timers>>
           \/ Emit(c, {candidate})
        /\ UNCHANGED <<corr, posts, receiver>>
  BY DEF GatherCandidate
<1>2. candidate \in Candidates /\ {candidate} \in SUBSET Of(c)
  BY <1>1, OfFacts
<1>3. local \subseteq Candidates
  BY DEF IInv, Types
<1>4. /\ local' \subseteq local \cup {candidate}
      /\ \/ SendIceCandidates(corr[c], {candidate})
         \/ UNCHANGED <<queue, timers>>
  BY <1>1, EmitFacts
<1> QED
  BY <1>1, <1>2, <1>3, <1>4, SenderIInv

(* So does beginning or ending to send them.                                *)
LEMMA StartSendingIInv ==
    ASSUME IInv, NEW c \in Channels,
           StartSendingIceCandidates(c) \/ StopSendingIceCandidates(c)
    PROVE  IInv'
<1> DEFINE candidates == local \cap Of(c)
<1>1. Emit(c, candidates) /\ UNCHANGED <<corr, posts, receiver>>
  BY DEF StartSendingIceCandidates, StopSendingIceCandidates
<1>2. candidates \in SUBSET Of(c) /\ local \subseteq Candidates
  BY DEF IInv, Types
<1> HIDE DEF candidates
<1>3. /\ local' \in SUBSET Candidates
      /\ \/ SendIceCandidates(corr[c], candidates) /\ candidates # {}
         \/ UNCHANGED <<queue, timers>>
  BY <1>1, <1>2, EmitFacts
<1> QED
  BY <1>1, <1>2, <1>3, SenderIInv

(* So does a delivery, whose queue is not empty.                            *)
LEMMA DeliverIInv ==
    ASSUME IInv, NEW i \in CorrelationIds, DeliverCandidates(i)
    PROVE  IInv'
<1> DEFINE batch == [id |-> i, candidates |-> queue[i]]
<1>1. timers[i] = 1 /\ queue[i] # {}
  BY DEF DeliverCandidates, IInv, TimerPerQueue
<1>2. /\ timers' = [timers EXCEPT ![i] = @ - 1]
      /\ posts' = posts \cup {batch}
      /\ queue' = [queue EXCEPT ![i] = {}]
      /\ UNCHANGED <<corr, local, receiver>>
  BY <1>1 DEF DeliverCandidates
<1>3. batch \in Batch /\ batch.candidates \subseteq Named(batch.id)
  BY DEF Batch, IInv, Types, UnderTheirId
<1> HIDE DEF batch
<1>4. Types'
  BY <1>1, <1>2, <1>3 DEF IInv, Types, receiver
<1>5. TimerPerQueue'
  BY <1>1, <1>2 DEF IInv, Types, TimerPerQueue
<1>6. UnderTheirId'
  <2>1. \A j : Named(j)' = Named(j)
    BY <1>2 DEF Named
  <2>2. \A j \in CorrelationIds : queue'[j] \subseteq Named(j)
    BY <1>2 DEF IInv, Types, UnderTheirId
  <2>3. \A p \in posts' \cup Range(held') : p.candidates \subseteq Named(p.id)
    BY <1>2, <1>3 DEF IInv, UnderTheirId, receiver
  <2>4. \A c \in Channels : cache'[c] \cup added'[c] \subseteq Named(corr'[c])
    BY <1>2 DEF IInv, UnderTheirId, receiver
  <2> QED
    BY <2>1, <2>2, <2>3, <2>4 DEF UnderTheirId, Range
<1>7. AddedWhenDescribed'
  BY <1>2 DEF IInv, AddedWhenDescribed, receiver
<1> QED
  BY <1>4, <1>5, <1>6, <1>7 DEF IInv

------------------------------------------------------------------------------
(* What the receiver does leaves the queues alone, and keeps the invariant *)
(* if what it caches and adds is named by the channel and, once described, *)
(* is all added.                                                           *)
LEMMA ReceiverIInv ==
    ASSUME IInv,
           UNCHANGED <<corr, sender>>,
           posts' \subseteq posts,
           held' \in Seq(Batch), Len(held') <= MaxBuffered,
           Range(held') \subseteq Range(held) \cup posts,
           listening' \in SUBSET Channels,
           described' \in SUBSET Channels,
           runs' \in [Channels -> Nat],
           cache' \in [Channels -> SUBSET Candidates],
           added' \in [Channels -> SUBSET Candidates],
           \A c \in Channels :
             /\ cache'[c] \cup added'[c] \subseteq Named(corr[c])
             /\ c \in described' => cache'[c] \subseteq added'[c]
    PROVE  IInv'
<1>1. Types'
  BY DEF IInv, Types, sender
<1>2. TimerPerQueue'
  BY DEF IInv, TimerPerQueue, sender
<1>3. UnderTheirId'
  <2>1. \A j : Named(j)' = Named(j)
    BY DEF Named
  <2>2. \A j \in CorrelationIds : queue'[j] \subseteq Named(j)
    BY DEF IInv, UnderTheirId, sender
  <2>3. \A p \in posts' \cup Range(held') : p.candidates \subseteq Named(p.id)
    BY DEF IInv, UnderTheirId
  <2> QED
    BY <2>1, <2>2, <2>3 DEF UnderTheirId, Range
<1>4. AddedWhenDescribed'
  BY DEF AddedWhenDescribed
<1> QED
  BY <1>1, <1>2, <1>3, <1>4 DEF IInv

(* Candidates that are processed under their channels' correlation id.     *)
LEMMA ProcessFacts ==
    ASSUME IInv, NEW channels \in SUBSET Channels, NEW candidates \in SUBSET Candidates,
           NEW n \in Nat, n = 0 => candidates = {},
           \A c \in channels : candidates \subseteq Named(corr[c]),
           ProcessCandidates(channels, candidates, n)
    PROVE  /\ cache' \in [Channels -> SUBSET Candidates]
           /\ added' \in [Channels -> SUBSET Candidates]
           /\ runs' \in [Channels -> Nat]
           /\ \A c \in Channels :
                /\ cache'[c] \cup added'[c] \subseteq Named(corr[c])
                /\ c \in described => cache'[c] \subseteq added'[c]
<1>1. /\ cache' \in [Channels -> SUBSET Candidates]
      /\ added' \in [Channels -> SUBSET Candidates]
      /\ runs' \in [Channels -> Nat]
  BY DEF ProcessCandidates, IInv, Types
<1>2. ASSUME NEW c \in Channels
      PROVE  /\ cache'[c] \cup added'[c] \subseteq Named(corr[c])
             /\ c \in described => cache'[c] \subseteq added'[c]
  <2>1. /\ cache[c] \cup added[c] \subseteq Named(corr[c])
        /\ c \in described => cache[c] \subseteq added[c]
    BY DEF IInv, UnderTheirId, AddedWhenDescribed
  <2>2. cache'[c] = IF c \in channels THEN cache[c] \cup candidates ELSE cache[c]
    BY DEF ProcessCandidates
  <2>3. added'[c] = IF c \in channels /\ c \in described /\ n > 0
                    THEN added[c] \cup (cache[c] \cup candidates) ELSE added[c]
    BY DEF ProcessCandidates
  <2>4. n > 0 \/ candidates = {}
    OBVIOUS
  <2> QED
    BY <2>1, <2>2, <2>3, <2>4
<1> QED
  BY <1>1, <1>2

(* A batch that arrives is buffered or processed by its listeners.          *)
LEMMA CandidatesArriveIInv == IInv /\ CandidatesArrive => IInv'
<1> SUFFICES ASSUME IInv, CandidatesArrive PROVE IInv'
  OBVIOUS
<1>1. PICK p \in posts :
        /\ posts' = posts \ {p}
        /\ \/ held' = Buffered(p) /\ UNCHANGED <<cache, runs, added>>
           \/ /\ ProcessCandidates(Listeners(p.id), p.candidates, 1)
              /\ UNCHANGED held
        /\ UNCHANGED <<corr, sender, listening, described>>
  BY DEF CandidatesArrive
<1>2. p \in Batch /\ p.candidates \subseteq Named(p.id)
  BY DEF IInv, Types, UnderTheirId
<1>3. Listeners(p.id) \in SUBSET Channels
  BY DEF Listeners, IInv, Types
<1>4. \A c \in Listeners(p.id) : p.candidates \subseteq Named(corr[c])
  BY <1>2 DEF Listeners
<1>5. p.candidates \in SUBSET Candidates
  BY <1>2 DEF Batch
<1> DEFINE channels == Listeners(p.id)
           candidates == p.candidates
<1>6. CASE ProcessCandidates(channels, candidates, 1) /\ UNCHANGED held
  <2>a. /\ channels \in SUBSET Channels /\ candidates \in SUBSET Candidates
        /\ \A c \in channels : candidates \subseteq Named(corr[c])
        /\ ProcessCandidates(channels, candidates, 1)
    BY <1>3, <1>4, <1>5, <1>6
  <2>b. 1 \in Nat /\ (1 = 0 => candidates = {})
    OBVIOUS
  <2> HIDE DEF channels, candidates
  <2>1. /\ cache' \in [Channels -> SUBSET Candidates]
        /\ added' \in [Channels -> SUBSET Candidates]
        /\ runs' \in [Channels -> Nat]
        /\ \A c \in Channels :
             /\ cache'[c] \cup added'[c] \subseteq Named(corr[c])
             /\ c \in described => cache'[c] \subseteq added'[c]
    BY <2>a, <2>b, ProcessFacts
  <2> QED
    BY <1>1, <1>6, <2>1, ReceiverIInv DEF IInv, Types
<1>7. CASE held' = Buffered(p) /\ UNCHANGED <<cache, runs, added>>
  <2>1. \A c \in Channels :
             /\ cache[c] \cup added[c] \subseteq Named(corr[c])
             /\ c \in described => cache[c] \subseteq added[c]
    BY DEF IInv, UnderTheirId, AddedWhenDescribed
  <2>2. /\ held' \in Seq(Batch) /\ Len(held') <= MaxBuffered
        /\ Range(held') \subseteq Range(held) \cup posts
    BY <1>1, <1>2, <1>7, BufferedFacts DEF IInv
  <2> QED
    BY <1>1, <1>7, <2>1, <2>2, ReceiverIInv DEF IInv, Types
<1> QED
  BY <1>1, <1>6, <1>7

(* Nothing else changes when the oldest batch expires.                      *)
LEMMA OthersExpireIInv == IInv /\ OthersExpire => IInv'
<1> SUFFICES ASSUME IInv, OthersExpire PROVE IInv'
  OBVIOUS
<1>1. /\ held # << >> /\ held' = Tail(held)
      /\ UNCHANGED <<corr, sender, posts, listening, described, cache, runs, added>>
  BY DEF OthersExpire
<1>2. held \in Seq(Batch) /\ Len(held) \in Nat /\ Len(held) <= MaxBuffered
  BY DEF IInv, Types
<1>3. /\ held' \in Seq(Batch) /\ Len(held') = Len(held) - 1
      /\ Range(held') \subseteq Range(held)
  BY <1>1, <1>2, TailFacts
<1>4. Len(held') <= MaxBuffered
  BY <1>2, <1>3
<1>5. \A d \in Channels :
        /\ cache[d] \cup added[d] \subseteq Named(corr[d])
        /\ d \in described => cache[d] \subseteq added[d]
  BY DEF IInv, UnderTheirId, AddedWhenDescribed
<1> QED
  BY <1>1, <1>3, <1>4, <1>5, ReceiverIInv DEF IInv, Types

(* A channel that begins to listen processes what is held for it.           *)
LEMMA StartListeningIInv ==
    ASSUME IInv, NEW c \in Channels, StartListening(c)
    PROVE  IInv'
<1> DEFINE mine == HeldAs(corr[c])
           candidates == CandidatesHeldAs(corr[c])
           n == Cardinality(mine)
<1>1. /\ ProcessCandidates({c}, candidates, n)
      /\ listening' = listening \cup {c}
      /\ PopUnhandled(corr[c])
      /\ UNCHANGED <<corr, sender, posts, described>>
  BY DEF StartListening, HeldAs, CandidatesHeldAs
<1>2. /\ held \in Seq(Batch)
      /\ IsFiniteSet(mine)
  <2>1. held \in Seq(Batch) /\ mine \subseteq 1..Len(held) /\ Len(held) \in Nat
    BY DEF IInv, Types, HeldAs
  <2>2. IsFiniteSet(1..Len(held))
    BY <2>1, FS_Interval
  <2> HIDE DEF mine
  <2> QED
    BY <2>1, <2>2, FS_Subset
<1>3. n \in Nat
  <2> HIDE DEF mine
  <2> QED
    BY <1>2, FS_CardinalityType
<1>4. n = 0 => candidates = {}
  <2>1. mine = {} => candidates = {}
    BY DEF CandidatesHeldAs
  <2> HIDE DEF mine, candidates
  <2> QED
    BY <1>2, <2>1, FS_EmptySet
<1>5. \A k \in mine : /\ held[k].candidates \subseteq Named(corr[c])
                      /\ held[k].candidates \subseteq Candidates
  BY DEF IInv, UnderTheirId, Named, HeldAs, Range
<1>6. candidates \subseteq Named(corr[c]) /\ candidates \in SUBSET Candidates
  BY <1>5 DEF CandidatesHeldAs
<1> HIDE DEF mine, candidates, n
<1>7. /\ cache' \in [Channels -> SUBSET Candidates]
      /\ added' \in [Channels -> SUBSET Candidates]
      /\ runs' \in [Channels -> Nat]
      /\ \A d \in Channels :
           /\ cache'[d] \cup added'[d] \subseteq Named(corr[d])
           /\ d \in described => cache'[d] \subseteq added'[d]
  <2>1. ProcessCandidates({c}, candidates, n) /\ n \in Nat /\ (n = 0 => candidates = {})
    BY <1>1, <1>3, <1>4
  <2>2. {c} \in SUBSET Channels /\ \A d \in {c} : candidates \subseteq Named(corr[d])
    BY <1>6
  <2> QED
    BY <2>1, <2>2, <1>6, ProcessFacts
<1>8. listening' \in SUBSET Channels /\ described' \in SUBSET Channels
  BY <1>1 DEF IInv, Types
<1>9. /\ held' \in Seq(Batch) /\ Len(held') <= MaxBuffered
      /\ Range(held') \subseteq Range(held) \cup posts
      /\ posts' = posts /\ described' = described
  BY <1>1, PopFacts DEF IInv
<1> QED
  BY <1>1, <1>7, <1>8, <1>9, ReceiverIInv

(* The remaining actions of the receiver change the cache and what is      *)
(* added of one channel at most.                                           *)
LEMMA OtherReceiverIInv ==
    ASSUME IInv, NEW c \in Channels,
           \/ SetRemoteDescription(c)
           \/ CandidatesAdded(c)
           \/ AnswerHandled(c)
           \/ CloseChannel(c)
    PROVE  IInv'
<1>1. \A d \in Channels :
        /\ cache[d] \cup added[d] \subseteq Named(corr[d])
        /\ d \in described => cache[d] \subseteq added[d]
  BY DEF IInv, UnderTheirId, AddedWhenDescribed
<1>2. CASE SetRemoteDescription(c)
  <2>1. /\ UNCHANGED <<corr, sender, posts, held, listening, runs, cache>>
        /\ described' = described \cup {c}
        /\ added' = [added EXCEPT ![c] = @ \cup cache[c]]
    BY <1>2 DEF SetRemoteDescription
  <2>2. added' \in [Channels -> SUBSET Candidates]
    BY <2>1 DEF IInv, Types
  <2>3. \A d \in Channels : added'[d] = IF d = c THEN added[d] \cup cache[d] ELSE added[d]
    BY <2>1 DEF IInv, Types
  <2>4. \A d \in Channels :
          /\ cache[d] \cup added'[d] \subseteq Named(corr[d])
          /\ d \in described' => cache[d] \subseteq added'[d]
    BY <1>1, <2>1, <2>3
  <2> QED
    BY <2>1, <2>2, <2>4, ReceiverIInv DEF IInv, Types
<1>3. CASE CandidatesAdded(c) \/ AnswerHandled(c)
  <2>1. /\ UNCHANGED <<corr, sender, posts, held, listening, described, added>>
        /\ cache' = [cache EXCEPT ![c] = {}] \/ cache' = cache
    BY <1>3 DEF CandidatesAdded, AnswerHandled
  <2>2. runs' \in [Channels -> Nat]
    <3>1. runs \in [Channels -> Nat]
      BY DEF IInv, Types
    <3>2. \/ runs' = runs
          \/ runs[c] > 0 /\ runs' = [runs EXCEPT ![c] = @ - 1]
      BY <1>3 DEF CandidatesAdded, AnswerHandled
    <3> QED
      BY <3>1, <3>2
  <2>3. cache' \in [Channels -> SUBSET Candidates]
    BY <2>1 DEF IInv, Types
  <2>4. \A d \in Channels : cache'[d] \subseteq cache[d]
    BY <2>1 DEF IInv, Types
  <2>5. \A d \in Channels :
          /\ cache'[d] \cup added[d] \subseteq Named(corr[d])
          /\ d \in described => cache'[d] \subseteq added[d]
    BY <1>1, <2>4
  <2> QED
    BY <2>1, <2>2, <2>3, <2>5, ReceiverIInv DEF IInv, Types
<1>4. CASE CloseChannel(c)
  <2>1. /\ UNCHANGED <<corr, sender, posts, held, described, cache, runs, added>>
        /\ listening' \subseteq listening
    BY <1>4 DEF CloseChannel
  <2> QED
    BY <1>1, <2>1, ReceiverIInv DEF IInv, Types
<1> QED
  BY <1>2, <1>3, <1>4

(* A batch that is lost changes nothing at either node.                     *)
LEMMA LoseIInv == IInv /\ LoseCandidates => IInv'
<1> SUFFICES ASSUME IInv, LoseCandidates PROVE IInv'
  OBVIOUS
<1>1. posts' \subseteq posts /\ UNCHANGED <<corr, sender, receiver>>
  BY DEF LoseCandidates
<1>2. \A d \in Channels :
        /\ cache[d] \cup added[d] \subseteq Named(corr[d])
        /\ d \in described => cache[d] \subseteq added[d]
  BY DEF IInv, UnderTheirId, AddedWhenDescribed
<1> QED
  BY <1>1, <1>2, ReceiverIInv DEF IInv, Types, receiver

(* Every step preserves the inductive invariant.                            *)
LEMMA NextIInv == IInv /\ [Next]_vars => IInv'
<1> SUFFICES ASSUME IInv, [Next]_vars PROVE IInv'
  OBVIOUS
<1>1. ASSUME NEW c \in Channels, GatherCandidate(c) PROVE IInv'
  BY <1>1, GatherIInv
<1>2. ASSUME NEW c \in Channels,
             StartSendingIceCandidates(c) \/ StopSendingIceCandidates(c)
      PROVE  IInv'
  BY <1>2, StartSendingIInv
<1>3. ASSUME NEW c \in Channels, StartListening(c) PROVE IInv'
  BY <1>3, StartListeningIInv
<1>4. ASSUME NEW c \in Channels,
             \/ SetRemoteDescription(c) \/ CandidatesAdded(c)
             \/ AnswerHandled(c) \/ CloseChannel(c)
      PROVE  IInv'
  BY <1>4, OtherReceiverIInv
<1>5. ASSUME NEW i \in CorrelationIds, DeliverCandidates(i) PROVE IInv'
  BY <1>5, DeliverIInv
<1>6. CASE CandidatesArrive
  BY <1>6, CandidatesArriveIInv
<1>7. CASE LoseCandidates
  BY <1>7, LoseIInv
<1>8. CASE UNCHANGED vars
  <2>1. \A d \in Channels :
          /\ cache[d] \cup added[d] \subseteq Named(corr[d])
          /\ d \in described => cache[d] \subseteq added[d]
    BY DEF IInv, UnderTheirId, AddedWhenDescribed
  <2> QED
    BY <1>8, <2>1, ReceiverIInv DEF IInv, Types, vars, receiver
<1>9. CASE OthersExpire
  BY <1>9, OthersExpireIInv
<1> QED
  BY <1>1, <1>2, <1>3, <1>4, <1>5, <1>6, <1>7, <1>8, <1>9 DEF Next

------------------------------------------------------------------------------
(* The inductive invariant holds of every reachable state: candidates are  *)
(* queued, posted, buffered, cached and added under their own channel's    *)
(* correlation id.                                                         *)
THEOREM SpecIInv == Spec => []IInv
BY InitIInv, NextIInv, PTL DEF Spec

(* sendIceCandidates and its timer agree: a queue of candidates has one    *)
(* delivery ahead of it, whatever comes while the delay runs.              *)
THEOREM QueuesAreDelivered == Spec => []TimerPerQueue
<1>1. IInv => TimerPerQueue
  BY DEF IInv
<1> QED
  BY <1>1, SpecIInv, PTL

(* processRemoteIceCandidates forgets no candidate that came before the    *)
(* remote description or while others were being added.                    *)
THEOREM CachedAreAdded == Spec => []AddedWhenDescribed
<1>1. IInv => AddedWhenDescribed
  BY DEF IInv
<1> QED
  BY <1>1, SpecIInv, PTL

(* A channel is given the candidates of another only when the two have the *)
(* same correlation id.                                                    *)
THEOREM ChannelsStayApart == Spec => []CandidatesStayApart
<1>1. IInv => CandidatesStayApart
  <2> SUFFICES ASSUME IInv, NEW c \in Channels, NEW d \in Channels,
                      NEW x \in (cache[c] \cup added[c]) \cap Of(d)
               PROVE  corr[d] = corr[c]
    BY DEF CandidatesStayApart
  <2>1. x \in Named(corr[c])
    BY DEF IInv, UnderTheirId
  <2>2. x[1] = d
    BY OfFacts
  <2> QED
    BY <2>1, <2>2 DEF Named
<1> QED
  BY <1>1, SpecIInv, PTL

------------------------------------------------------------------------------
(* Where candidates are.                                                   *)

(* Every member of "all" is in exactly one of six sets.                    *)
OneOf(all, a, b, c, d, e, f) ==
    /\ all = a \cup b \cup c \cup d \cup e \cup f
    /\ a \cap (b \cup c \cup d \cup e \cup f) = {}
    /\ b \cap (c \cup d \cup e \cup f) = {}
    /\ c \cap (d \cup e \cup f) = {}
    /\ d \cap (e \cup f) = {}
    /\ e \cap f = {}

LEMMA OneOfFacts ==
    ASSUME NEW all, NEW a, NEW b, NEW c, NEW d, NEW e, NEW f
    PROVE  LET sets == <<a, b, c, d, e, f>> IN
           OneOf(all, a, b, c, d, e, f) <=>
                /\ all = UNION {sets[i] : i \in DOMAIN sets}
                /\ \A i, j \in DOMAIN sets : i # j => sets[i] \cap sets[j] = {}
<1> DEFINE sets == <<a, b, c, d, e, f>>
<1>1. /\ DOMAIN sets = {1, 2, 3, 4, 5, 6}
      /\ sets[1] = a /\ sets[2] = b /\ sets[3] = c
      /\ sets[4] = d /\ sets[5] = e /\ sets[6] = f
  OBVIOUS
<1> HIDE DEF sets
<1>2. UNION {sets[i] : i \in DOMAIN sets} = a \cup b \cup c \cup d \cup e \cup f
  BY <1>1
<1>3. (\A i, j \in DOMAIN sets : i # j => sets[i] \cap sets[j] = {})
        <=> /\ a \cap (b \cup c \cup d \cup e \cup f) = {}
            /\ b \cap (c \cup d \cup e \cup f) = {}
            /\ c \cap (d \cup e \cup f) = {}
            /\ d \cap (e \cup f) = {}
            /\ e \cap f = {}
  <2>1. ASSUME \A i, j \in DOMAIN sets : i # j => sets[i] \cap sets[j] = {}
        PROVE  /\ a \cap (b \cup c \cup d \cup e \cup f) = {}
               /\ b \cap (c \cup d \cup e \cup f) = {}
               /\ c \cap (d \cup e \cup f) = {}
               /\ d \cap (e \cup f) = {}
               /\ e \cap f = {}
    <3>1. /\ a \cap b = {} /\ a \cap c = {} /\ a \cap d = {} /\ a \cap e = {} /\ a \cap f = {}
          /\ b \cap c = {} /\ b \cap d = {} /\ b \cap e = {} /\ b \cap f = {}
          /\ c \cap d = {} /\ c \cap e = {} /\ c \cap f = {}
          /\ d \cap e = {} /\ d \cap f = {}
          /\ e \cap f = {}
      BY <1>1, <2>1
    <3> QED
      BY <3>1
  <2>2. ASSUME /\ a \cap (b \cup c \cup d \cup e \cup f) = {}
               /\ b \cap (c \cup d \cup e \cup f) = {}
               /\ c \cap (d \cup e \cup f) = {}
               /\ d \cap (e \cup f) = {}
               /\ e \cap f = {},
               NEW i \in DOMAIN sets, NEW j \in DOMAIN sets, i # j
        PROVE  sets[i] \cap sets[j] = {}
    <3>1. /\ a \cap b = {} /\ a \cap c = {} /\ a \cap d = {} /\ a \cap e = {} /\ a \cap f = {}
          /\ b \cap c = {} /\ b \cap d = {} /\ b \cap e = {} /\ b \cap f = {}
          /\ c \cap d = {} /\ c \cap e = {} /\ c \cap f = {}
          /\ d \cap e = {} /\ d \cap f = {}
          /\ e \cap f = {}
      BY <2>2
    <3> QED
      BY <1>1, <2>2, <3>1
  <2> QED
    BY <2>1, <2>2
<1> QED
  BY <1>2, <1>3 DEF OneOf, sets

(* No candidate is in two batches.                                         *)
BatchesApart ==
    /\ \A p, q \in posts : p # q => p.candidates \cap q.candidates = {}
    /\ Apart(held)

(* Candidates are awaited only once they are added, and so only once the   *)
(* remote description is set.                                              *)
AwaitedWhenDescribed ==
    /\ handling \subseteq described
    /\ \A c \in Channels : runs[c] > 0 => c \in described

PlacesIInv ==
    /\ IInv
    /\ AwaitedWhenDescribed
    /\ BatchesApart
    /\ OneOf(stored, local, Queued, InBatches(posts), InBatches(Range(held)), Received, dropped)

LEMMA PlacesMean ==
    EachInOnePlace <=>
        /\ BatchesApart
        /\ OneOf(stored, local, Queued, InBatches(posts), InBatches(Range(held)), Received, dropped)
<1> DEFINE P == InBatches(posts)
           H == InBatches(Range(held))
<1>1. OneOf(stored, local, Queued, P, H, Received, dropped) <=>
        /\ stored = UNION {Places[i] : i \in DOMAIN Places}
        /\ \A i, j \in DOMAIN Places : i # j => Places[i] \cap Places[j] = {}
  BY OneOfFacts DEF Places
<1> QED
  BY <1>1 DEF EachInOnePlace, BatchesApart, Apart

LEMMA InitPlacesIInv == Init => PlacesIInv
<1> SUFFICES ASSUME Init PROVE PlacesIInv
  OBVIOUS
<1>1. /\ Queued = {} /\ InBatches(posts) = {} /\ InBatches(Range(held)) = {}
      /\ Received = {}
  BY DEF Init, Queued, InBatches, Received, Range
<1>2. OneOf(stored, local, Queued, InBatches(posts), InBatches(Range(held)), Received, dropped)
  BY <1>1 DEF Init, OneOf
<1> QED
  BY <1>2, InitIInv DEF Init, PlacesIInv, AwaitedWhenDescribed, BatchesApart, Apart

(* What the sender does leaves alone what is under way and beyond.         *)
LEMMA SenderPlaces ==
    ASSUME PlacesIInv, IInv', UNCHANGED <<corr, posts, receiver>>,
           OneOf(stored', local', Queued', InBatches(posts), InBatches(Range(held)), Received,
                 dropped')
    PROVE  PlacesIInv'
<1>1. /\ InBatches(posts)' = InBatches(posts)
      /\ InBatches(Range(held))' = InBatches(Range(held))
      /\ Received' = Received
  BY DEF receiver, InBatches, Received, Range
<1>2. AwaitedWhenDescribed' /\ BatchesApart'
  BY DEF PlacesIInv, AwaitedWhenDescribed, BatchesApart, Apart, receiver
<1> QED
  BY <1>1, <1>2 DEF PlacesIInv

(* The event takes candidates from the local ones to the queue, or drops   *)
(* them when nobody listens to it any more.                                *)
LEMMA EmitMoves ==
    ASSUME IInv, NEW c \in Channels, NEW candidates, Emit(c, candidates)
    PROVE  /\ local' = local \ candidates
           /\ \/ Queued' = Queued \cup candidates /\ dropped' = dropped
              \/ Queued' = Queued /\ dropped' = dropped \cup candidates
              \/ Queued' = Queued /\ dropped' = dropped /\ candidates = {}
<1>1. ASSUME SendIceCandidates(corr[c], candidates)
      PROVE  Queued' = Queued \cup candidates
  <2>1. corr[c] \in CorrelationIds /\ queue \in [CorrelationIds -> SUBSET Candidates]
    BY DEF IInv, Types
  <2>2. \A i \in CorrelationIds :
            queue'[i] = IF i = corr[c] THEN queue[i] \cup candidates ELSE queue[i]
    BY <1>1, <2>1 DEF SendIceCandidates
  <2>3. /\ \A x : x \in Queued <=> \E i \in CorrelationIds : x \in queue[i]
        /\ \A x : x \in Queued' <=> \E i \in CorrelationIds : x \in queue'[i]
    BY DEF Queued
  <2>4. \A x : x \in Queued' <=> x \in Queued \/ x \in candidates
    BY <2>1, <2>2, <2>3
  <2> QED
    BY <2>4
<1>2. ASSUME UNCHANGED queue PROVE Queued' = Queued
  BY <1>2 DEF Queued
<1> QED
  BY <1>1, <1>2 DEF Emit

LEMMA GatherPlaces ==
    ASSUME PlacesIInv, IInv', NEW c \in Channels, GatherCandidate(c)
    PROVE  PlacesIInv'
<1> DEFINE Q == Queued
           P == InBatches(posts)
           H == InBatches(Range(held))
           R == Received
<1>1. PICK x \in Of(c) \ stored :
        /\ stored' = stored \cup {x}
        /\ \/ local' = local \cup {x} /\ UNCHANGED <<queue, dropped>>
           \/ Emit(c, {x})
        /\ UNCHANGED <<corr, posts, receiver>>
  BY DEF GatherCandidate
<1>2. \/ local' = local \cup {x} /\ Q' = Q /\ dropped' = dropped
      \/ local' = local \ {x} /\ Q' = Q \cup {x} /\ dropped' = dropped
      \/ local' = local \ {x} /\ Q' = Q /\ dropped' = dropped \cup {x}
  <2>1. CASE local' = local \cup {x} /\ UNCHANGED <<queue, dropped>>
    BY <2>1 DEF Queued
  <2>2. CASE Emit(c, {x})
    BY <2>2, EmitMoves DEF PlacesIInv
  <2> QED
    BY <1>1, <2>1, <2>2
<1>3. OneOf(stored, local, Q, P, H, R, dropped)
  BY DEF PlacesIInv
<1> HIDE DEF Q, P, H, R
<1>4. OneOf(stored', local', Q', P, H, R, dropped')
  BY <1>1, <1>2, <1>3 DEF OneOf
<1> QED
  BY <1>1, <1>4, SenderPlaces DEF Q, P, H, R

LEMMA StartSendingPlaces ==
    ASSUME PlacesIInv, IInv', NEW c \in Channels,
           StartSendingIceCandidates(c) \/ StopSendingIceCandidates(c)
    PROVE  PlacesIInv'
<1> DEFINE Q == Queued
           P == InBatches(posts)
           H == InBatches(Range(held))
           R == Received
           M == local \cap Of(c)
<1>1. Emit(c, M) /\ UNCHANGED <<corr, stored, posts, receiver>>
  BY DEF StartSendingIceCandidates, StopSendingIceCandidates
<1>2. /\ local' = local \ M
      /\ \/ Q' = Q \cup M /\ dropped' = dropped
         \/ Q' = Q /\ dropped' = dropped \cup M
         \/ Q' = Q /\ dropped' = dropped /\ M = {}
  <2> HIDE DEF M
  <2> QED
    BY <1>1, EmitMoves DEF PlacesIInv
<1>3. OneOf(stored, local, Q, P, H, R, dropped) /\ M \subseteq local
  BY DEF PlacesIInv
<1> HIDE DEF Q, P, H, R, M
<1>4. OneOf(stored', local', Q', P, H, R, dropped')
  BY <1>1, <1>2, <1>3 DEF OneOf
<1> QED
  BY <1>1, <1>4, SenderPlaces DEF Q, P, H, R

(* A delivery takes a whole queue, whose candidates no other queue has.    *)
LEMMA DeliverPlaces ==
    ASSUME PlacesIInv, IInv', NEW i \in CorrelationIds, DeliverCandidates(i)
    PROVE  PlacesIInv'
<1> DEFINE batch == [id |-> i, candidates |-> queue[i]]
           Q == Queued
           P == InBatches(posts)
           H == InBatches(Range(held))
           R == Received
           M == queue[i]
<1>1. queue[i] # {}
  BY DEF DeliverCandidates, PlacesIInv, IInv, TimerPerQueue
<1>2. /\ posts' = posts \cup {batch}
      /\ queue' = [queue EXCEPT ![i] = {}]
      /\ UNCHANGED <<corr, stored, local, receiver, dropped>>
  BY <1>1 DEF DeliverCandidates
<1>3. queue \in [CorrelationIds -> SUBSET Candidates]
  BY DEF PlacesIInv, IInv, Types
<1>4. \A j \in CorrelationIds \ {i} : queue[j] \cap M = {}
  <2>1. \A j \in CorrelationIds : queue[j] \subseteq Named(j)
    BY DEF PlacesIInv, IInv, UnderTheirId
  <2>2. \A j \in CorrelationIds \ {i} : Named(j) \cap Named(i) = {}
    BY DEF Named
  <2> QED
    BY <2>1, <2>2
<1>5. Q' = Q \ M /\ M \subseteq Q
  BY <1>2, <1>3, <1>4 DEF Queued
<1>6. /\ InBatches(posts)' = P \cup M
      /\ InBatches(Range(held))' = H
      /\ Received' = R
  <2>1. batch.candidates = M
    OBVIOUS
  <2> HIDE DEF batch
  <2> QED
    BY <1>2, <2>1 DEF InBatches, Received, receiver, Range
<1>7. OneOf(stored, local, Q, P, H, R, dropped)
  BY DEF PlacesIInv
<1>8. BatchesApart'
  <2>1. \A p \in posts : p.candidates \subseteq P
    BY DEF InBatches
  <2>2. batch.candidates = M
    OBVIOUS
  <2> HIDE DEF batch, Q, P, H, R, M
  <2>3. \A p \in posts : p.candidates \cap M = {}
    BY <1>5, <1>7, <2>1 DEF OneOf
  <2> QED
    BY <1>2, <2>2, <2>3 DEF PlacesIInv, BatchesApart, Apart, receiver
<1> HIDE DEF batch, Q, P, H, R, M
<1>9. OneOf(stored', local', Q', P \cup M, H, R, dropped')
  BY <1>2, <1>5, <1>7 DEF OneOf
<1>10. AwaitedWhenDescribed'
  BY <1>2 DEF PlacesIInv, AwaitedWhenDescribed, receiver
<1> QED
  BY <1>6, <1>8, <1>9, <1>10 DEF PlacesIInv, Q

------------------------------------------------------------------------------
(* Taking batches out of a set of them leaves the candidates of the others. *)
LEMMA TakeOut ==
    ASSUME NEW batches, NEW taken, taken \subseteq batches,
           \A p, q \in batches : p # q => p.candidates \cap q.candidates = {}
    PROVE  InBatches(batches \ taken) = InBatches(batches) \ InBatches(taken)
BY DEF InBatches

(* What processRemoteIceCandidates is given, some channel has afterwards.  *)
LEMMA ProcessPlaces ==
    ASSUME IInv, AwaitedWhenDescribed,
           NEW channels \in SUBSET Channels, NEW candidates, NEW n \in Nat,
           channels # {},
           ProcessCandidates(channels, candidates, n)
    PROVE  /\ Received' = Received \cup candidates
           /\ \A c \in Channels : runs'[c] > 0 => c \in described
<1>1. ASSUME NEW c \in Channels
      PROVE  /\ cache'[c] = IF c \in channels THEN cache[c] \cup candidates ELSE cache[c]
             /\ added'[c] = IF c \in channels /\ c \in described /\ n > 0
                            THEN added[c] \cup (cache[c] \cup candidates) ELSE added[c]
             /\ runs'[c] = IF c \in channels /\ c \in described /\ n > 0
                           THEN runs[c] + n ELSE runs[c]
  BY DEF ProcessCandidates
<1>2. /\ \A x : x \in Received <=> \E c \in Channels : x \in cache[c] \cup added[c]
      /\ \A x : x \in Received' <=> \E c \in Channels : x \in cache'[c] \cup added'[c]
  BY DEF Received
<1>3. ASSUME NEW x
      PROVE  x \in Received' <=> x \in Received \cup candidates
  <2>1. ASSUME x \in Received PROVE x \in Received'
    <3>1. PICK c \in Channels : x \in cache[c] \cup added[c]
      BY <1>2, <2>1
    <3>2. x \in cache'[c] \cup added'[c]
      BY <1>1, <3>1
    <3> QED
      BY <1>2, <3>2
  <2>2. ASSUME x \in candidates PROVE x \in Received'
    <3>1. PICK c \in channels : c \in Channels
      OBVIOUS
    <3>2. x \in cache'[c]
      BY <1>1, <2>2, <3>1
    <3> QED
      BY <1>2, <3>1, <3>2
  <2>3. ASSUME x \in Received' PROVE x \in Received \cup candidates
    <3>1. PICK c \in Channels : x \in cache'[c] \cup added'[c]
      BY <1>2, <2>3
    <3>2. x \in cache[c] \cup added[c] \cup candidates
      BY <1>1, <3>1
    <3> QED
      BY <1>2, <3>2
  <2> QED
    BY <2>1, <2>2, <2>3
<1>4. \A c \in Channels : runs'[c] > 0 => c \in described
  BY <1>1 DEF AwaitedWhenDescribed
<1> QED
  BY <1>3, <1>4

LEMMA CandidatesArrivePlaces ==
    ASSUME PlacesIInv, IInv', CandidatesArrive
    PROVE  PlacesIInv'
<1> DEFINE P == InBatches(posts)
           H == InBatches(Range(held))
           R == Received
<1>1. PICK p \in posts :
        /\ posts' = posts \ {p}
        /\ \/ /\ held' = Buffered(p)
              /\ dropped' = dropped \cup Expired
              /\ UNCHANGED <<cache, runs, added>>
           \/ /\ Listeners(p.id) # {}
              /\ ProcessCandidates(Listeners(p.id), p.candidates, 1)
              /\ UNCHANGED <<held, dropped>>
        /\ UNCHANGED <<corr, sender, described, handling>>
  BY DEF CandidatesArrive
<1> DEFINE M == p.candidates
           E == Expired
<1>2. InBatches(posts') = P \ M /\ M \subseteq P
  <2>1. InBatches({p}) = M
    BY DEF InBatches
  <2>2. InBatches(posts \ {p}) = P \ InBatches({p})
    BY TakeOut DEF PlacesIInv, BatchesApart
  <2> QED
    BY <1>1, <2>1, <2>2 DEF InBatches
<1>3. /\ stored' = stored /\ local' = local /\ Queued' = Queued
      /\ InBatches(posts)' = InBatches(posts')
      /\ InBatches(Range(held))' = InBatches(Range(held'))
  BY <1>1 DEF sender, Queued, InBatches, Range
<1>4. OneOf(stored, local, Queued, P, H, R, dropped)
  BY DEF PlacesIInv
<1>5. \A q, r \in posts' : q # r => q.candidates \cap r.candidates = {}
  BY <1>1 DEF PlacesIInv, BatchesApart
<1>6. Apart(held) /\ M \cap H = {}
  <2>1. Apart(held)
    BY DEF PlacesIInv, BatchesApart
  <2> HIDE DEF P, H, R, M
  <2> QED
    BY <1>2, <1>4, <2>1 DEF OneOf
<1>7. CASE /\ held' = Buffered(p)
           /\ dropped' = dropped \cup E
           /\ UNCHANGED <<cache, runs, added>>
  <2>1. p \in Batch /\ Types
    BY DEF PlacesIInv, IInv, Types
  <2>2. /\ Apart(Buffered(p)) /\ E \subseteq H
        /\ InBatches(Range(Buffered(p))) = (H \ E) \cup M
    BY <1>6, <2>1, BufferedFacts
  <2>3. InBatches(Range(held')) = (H \ E) \cup M /\ Received' = R
    BY <1>7, <2>2 DEF Received
  <2>4. AwaitedWhenDescribed'
    BY <1>1, <1>7 DEF PlacesIInv, AwaitedWhenDescribed
  <2>5. BatchesApart'
    BY <1>5, <1>7, <2>2 DEF BatchesApart, Apart
  <2> HIDE DEF P, H, R, M, E
  <2>6. OneOf(stored, local, Queued, P \ M, (H \ E) \cup M, R, dropped \cup E)
    BY <1>2, <1>4, <1>6, <2>2 DEF OneOf
  <2> QED
    BY <1>2, <1>3, <1>7, <2>3, <2>4, <2>5, <2>6 DEF PlacesIInv
<1>8. CASE /\ Listeners(p.id) # {}
           /\ ProcessCandidates(Listeners(p.id), p.candidates, 1)
           /\ UNCHANGED <<held, dropped>>
  <2>1. Listeners(p.id) \in SUBSET Channels
    BY DEF Listeners, PlacesIInv, IInv, Types
  <2>2. /\ Received' = R \cup M
        /\ \A c \in Channels : runs'[c] > 0 => c \in described
    BY <1>8, <2>1, ProcessPlaces DEF PlacesIInv
  <2>3. InBatches(Range(held')) = H
    BY <1>8
  <2>4. AwaitedWhenDescribed'
    BY <1>1, <2>2 DEF PlacesIInv, AwaitedWhenDescribed
  <2>5. BatchesApart'
    BY <1>5, <1>6, <1>8 DEF BatchesApart, Apart
  <2> HIDE DEF P, H, R, M
  <2>6. OneOf(stored, local, Queued, P \ M, H, R \cup M, dropped)
    BY <1>2, <1>4 DEF OneOf
  <2> QED
    BY <1>2, <1>3, <1>8, <2>2, <2>3, <2>4, <2>5, <2>6 DEF PlacesIInv
<1> QED
  BY <1>1, <1>7, <1>8

(* What expires is dropped.                                                *)
LEMMA OthersExpirePlaces ==
    ASSUME PlacesIInv, IInv', OthersExpire
    PROVE  PlacesIInv'
<1> DEFINE P == InBatches(posts)
           H == InBatches(Range(held))
           R == Received
           M == Head(held).candidates
<1>1. /\ held # << >> /\ held' = Tail(held)
      /\ dropped' = dropped \cup M
      /\ UNCHANGED <<corr, sender, posts, described, handling, cache, runs, added>>
  BY DEF OthersExpire
<1>2. held \in Seq(Batch) /\ Apart(held)
  BY DEF PlacesIInv, IInv, Types, BatchesApart
<1>3. Apart(Tail(held)) /\ InBatches(Range(Tail(held))) = H \ M /\ M \subseteq H
  BY <1>1, <1>2, TailFacts
<1>4. /\ stored' = stored /\ local' = local /\ Queued' = Queued
      /\ InBatches(posts)' = P /\ InBatches(Range(held))' = H \ M /\ Received' = R
  BY <1>1, <1>3 DEF sender, Queued, InBatches, Received, Range
<1>5. BatchesApart' /\ AwaitedWhenDescribed'
  BY <1>1, <1>3 DEF PlacesIInv, BatchesApart, Apart, AwaitedWhenDescribed
<1>6. OneOf(stored, local, Queued, P, H, R, dropped)
  BY DEF PlacesIInv
<1> HIDE DEF P, H, R, M
<1>7. OneOf(stored, local, Queued, P, H \ M, R, dropped \cup M)
  BY <1>3, <1>6 DEF OneOf
<1> QED
  BY <1>1, <1>4, <1>5, <1>7 DEF PlacesIInv

LEMMA StartListeningPlaces ==
    ASSUME PlacesIInv, IInv', NEW c \in Channels, StartListening(c)
    PROVE  PlacesIInv'
<1> DEFINE P == InBatches(posts)
           H == InBatches(Range(held))
           R == Received
           M == CandidatesHeldAs(corr[c])
           n == Cardinality(HeldAs(corr[c]))
<1>1. /\ ProcessCandidates({c}, M, n)
      /\ PopUnhandled(corr[c])
      /\ UNCHANGED <<corr, sender, posts, described, handling, dropped>>
  BY DEF StartListening, HeldAs, CandidatesHeldAs
<1>2. n \in Nat
  <2>1. HeldAs(corr[c]) \subseteq 1..Len(held) /\ Len(held) \in Nat
    BY DEF PlacesIInv, IInv, Types, HeldAs
  <2>2. IsFiniteSet(1..Len(held))
    BY <2>1, FS_Interval
  <2> DEFINE mine == HeldAs(corr[c])
  <2>3. IsFiniteSet(mine)
    <3> HIDE DEF mine
    <3> QED
      BY <2>1, <2>2, FS_Subset DEF mine
  <2> HIDE DEF mine
  <2>4. Cardinality(mine) \in Nat
    BY <2>3, FS_CardinalityType
  <2> QED
    BY <2>4 DEF mine
<1> HIDE DEF n
<1>3. /\ Apart(held') /\ M \subseteq H
      /\ InBatches(Range(held')) = H \ M
  BY <1>1, PopFacts DEF PlacesIInv, IInv, BatchesApart
<1> HIDE DEF M
<1>4. /\ Received' = R \cup M
      /\ \A d \in Channels : runs'[d] > 0 => d \in described
  BY <1>1, <1>2, ProcessPlaces DEF PlacesIInv
<1>5. /\ stored' = stored /\ local' = local /\ dropped' = dropped /\ Queued' = Queued
      /\ InBatches(posts)' = P /\ InBatches(Range(held))' = InBatches(Range(held'))
  BY <1>1 DEF sender, Queued, InBatches, Range
<1>6. BatchesApart' /\ AwaitedWhenDescribed'
  BY <1>1, <1>3, <1>4 DEF PlacesIInv, BatchesApart, Apart, AwaitedWhenDescribed
<1>7. OneOf(stored, local, Queued, P, H, R, dropped)
  BY DEF PlacesIInv
<1> HIDE DEF P, H, R
<1>8. OneOf(stored, local, Queued, P, H \ M, R \cup M, dropped)
  BY <1>3, <1>7 DEF OneOf
<1> QED
  BY <1>3, <1>4, <1>5, <1>6, <1>8 DEF PlacesIInv

(* The cache is emptied only of what has been added.                       *)
LEMMA OtherReceiverPlaces ==
    ASSUME PlacesIInv, IInv', NEW c \in Channels,
           \/ SetRemoteDescription(c)
           \/ CandidatesAdded(c)
           \/ AnswerHandled(c)
           \/ CloseChannel(c)
    PROVE  PlacesIInv'
<1>1. UNCHANGED <<corr, sender, posts, held, dropped>>
  BY DEF SetRemoteDescription, CandidatesAdded, AnswerHandled, CloseChannel
<1>2. /\ cache \in [Channels -> SUBSET Candidates]
      /\ added \in [Channels -> SUBSET Candidates]
      /\ runs \in [Channels -> Nat]
  BY DEF PlacesIInv, IInv, Types
<1>3. Received' = Received /\ AwaitedWhenDescribed'
  <2>1. CASE SetRemoteDescription(c)
    <3>1. /\ added' = [added EXCEPT ![c] = @ \cup cache[c]]
          /\ described' = described \cup {c}
          /\ handling' \subseteq handling \cup {c}
          /\ UNCHANGED <<cache, runs>>
      BY <2>1 DEF SetRemoteDescription
    <3>2. \A d \in Channels : cache'[d] \cup added'[d] = cache[d] \cup added[d]
      BY <1>2, <3>1
    <3> QED
      BY <3>1, <3>2 DEF Received, PlacesIInv, AwaitedWhenDescribed
  <2>2. CASE CandidatesAdded(c) \/ AnswerHandled(c)
    <3>1. /\ cache' = [cache EXCEPT ![c] = {}] \/ cache' = cache
          /\ handling' \subseteq handling
          /\ UNCHANGED <<added, described>>
          /\ \/ runs' = runs
             \/ runs[c] > 0 /\ runs' = [runs EXCEPT ![c] = @ - 1]
          /\ c \in handling \/ runs[c] > 0
      BY <2>2 DEF CandidatesAdded, AnswerHandled
    <3>2. c \in described
      BY <3>1 DEF PlacesIInv, AwaitedWhenDescribed
    <3>3. cache[c] \subseteq added[c]
      BY <3>2 DEF PlacesIInv, IInv, AddedWhenDescribed
    <3>4. \A d \in Channels : cache'[d] \cup added'[d] = cache[d] \cup added[d]
      BY <1>2, <3>1, <3>3
    <3>5. \A d \in Channels : runs'[d] > 0 => d \in described
      BY <1>2, <3>1, <3>2 DEF PlacesIInv, AwaitedWhenDescribed
    <3> QED
      BY <3>1, <3>4, <3>5 DEF Received, PlacesIInv, AwaitedWhenDescribed
  <2>3. CASE CloseChannel(c)
    <3>1. /\ UNCHANGED <<cache, added, runs, described>>
          /\ handling' \subseteq handling
      BY <2>3 DEF CloseChannel
    <3> QED
      BY <3>1 DEF Received, PlacesIInv, AwaitedWhenDescribed
  <2> QED
    BY <2>1, <2>2, <2>3
<1>4. BatchesApart'
  BY <1>1 DEF PlacesIInv, BatchesApart, Apart
<1>5. /\ stored' = stored /\ local' = local /\ dropped' = dropped /\ Queued' = Queued
      /\ InBatches(posts)' = InBatches(posts)
      /\ InBatches(Range(held))' = InBatches(Range(held))
  BY <1>1 DEF sender, Queued, InBatches, Range
<1> QED
  BY <1>3, <1>4, <1>5 DEF PlacesIInv

LEMMA LosePlaces ==
    ASSUME PlacesIInv, IInv', LoseCandidates
    PROVE  PlacesIInv'
<1> DEFINE P == InBatches(posts)
           H == InBatches(Range(held))
           R == Received
<1>1. PICK p \in posts :
        /\ posts' = posts \ {p}
        /\ dropped' = dropped \cup p.candidates
        /\ UNCHANGED <<corr, sender, receiver>>
  BY DEF LoseCandidates
<1> DEFINE M == p.candidates
<1>2. InBatches(posts') = P \ M /\ M \subseteq P
  <2>1. InBatches({p}) = M
    BY DEF InBatches
  <2>2. InBatches(posts \ {p}) = P \ InBatches({p})
    BY TakeOut DEF PlacesIInv, BatchesApart
  <2> QED
    BY <1>1, <2>1, <2>2 DEF InBatches
<1>3. /\ stored' = stored /\ local' = local /\ Queued' = Queued
      /\ InBatches(posts)' = InBatches(posts') /\ InBatches(Range(held))' = H
      /\ Received' = R
  BY <1>1 DEF sender, receiver, Queued, InBatches, Received, Range
<1>4. BatchesApart' /\ AwaitedWhenDescribed'
  BY <1>1 DEF PlacesIInv, BatchesApart, Apart, AwaitedWhenDescribed, receiver
<1>5. OneOf(stored, local, Queued, P, H, R, dropped)
  BY DEF PlacesIInv
<1>6. dropped' = dropped \cup M
  BY <1>1
<1> HIDE DEF P, H, R, M
<1>7. OneOf(stored, local, Queued, P \ M, H, R, dropped \cup M)
  BY <1>2, <1>5 DEF OneOf
<1> QED
  BY <1>2, <1>3, <1>4, <1>6, <1>7 DEF PlacesIInv

LEMMA NextPlacesIInv == PlacesIInv /\ [Next]_vars => PlacesIInv'
<1> SUFFICES ASSUME PlacesIInv, [Next]_vars PROVE PlacesIInv'
  OBVIOUS
<1>0. IInv'
  BY NextIInv DEF PlacesIInv
<1>1. ASSUME NEW c \in Channels, GatherCandidate(c) PROVE PlacesIInv'
  BY <1>0, <1>1, GatherPlaces
<1>2. ASSUME NEW c \in Channels,
             StartSendingIceCandidates(c) \/ StopSendingIceCandidates(c)
      PROVE  PlacesIInv'
  BY <1>0, <1>2, StartSendingPlaces
<1>3. ASSUME NEW c \in Channels, StartListening(c) PROVE PlacesIInv'
  BY <1>0, <1>3, StartListeningPlaces
<1>4. ASSUME NEW c \in Channels,
             \/ SetRemoteDescription(c) \/ CandidatesAdded(c)
             \/ AnswerHandled(c) \/ CloseChannel(c)
      PROVE  PlacesIInv'
  BY <1>0, <1>4, OtherReceiverPlaces
<1>5. ASSUME NEW i \in CorrelationIds, DeliverCandidates(i) PROVE PlacesIInv'
  BY <1>0, <1>5, DeliverPlaces
<1>6. CASE CandidatesArrive
  BY <1>0, <1>6, CandidatesArrivePlaces
<1>7. CASE LoseCandidates
  BY <1>0, <1>7, LosePlaces
<1>8. CASE UNCHANGED vars
  <2>1. UNCHANGED <<corr, posts, receiver, stored, local, queue, dropped>>
    BY <1>8 DEF vars, sender
  <2>2. Queued' = Queued
    BY <2>1 DEF Queued
  <2>3. OneOf(stored', local', Queued', InBatches(posts), InBatches(Range(held)), Received, dropped')
    BY <2>1, <2>2 DEF PlacesIInv
  <2> QED
    BY <1>0, <2>1, <2>3, SenderPlaces
<1>9. CASE OthersExpire
  BY <1>0, <1>9, OthersExpirePlaces
<1> QED
  BY <1>1, <1>2, <1>3, <1>4, <1>5, <1>6, <1>7, <1>8, <1>9 DEF Next

(* Through queues, batches, buffers and caches, a candidate is in one      *)
(* place and one batch at a time: none is sent or handed on twice, and     *)
(* none disappears but with a batch that is lost on the way or expires     *)
(* from the receiver's buffer, however few places it has, or when it is    *)
(* not wanted.                                                             *)
THEOREM CandidatesAreInOnePlace == Spec => []EachInOnePlace
<1>1. PlacesIInv => EachInOnePlace
  BY PlacesMean DEF PlacesIInv
<1> QED
  BY <1>1, InitPlacesIInv, NextPlacesIInv, PTL DEF Spec
==============================================================================
