------------------------ MODULE ShuffleExchangeProofs ------------------------
(***************************************************************************)
(* Theorems about ShuffleExchange, for any number of shuffles, any size of *)
(* the buffer of answers and any number of reloads: the types, how the two *)
(* ends agree, the one outcome at the destination, the answers that find   *)
(* their own offers, the promise of Comms and that no end waits for the    *)
(* other; and about ShuffleStats, that what the pages count adds up.       *)
(***************************************************************************)
EXTENDS ShuffleStats, FiniteSetTheorems, TLAPS

USE ShuffleExchangeAssumption

(* A destination hears of a shuffle when its offer arrives, which is once, *)
(* and after a server has taken it.                                        *)
OfferedOnce ==
    \A e \in Exchanges :
        /\ phase[e] \in {"idle", "offering"} \/ e \in offers
            => serving[e] = "none"
        /\ e \in offers => phase[e] \notin {"idle", "offering"}

(* The request is handled first, and then the destination only waits for   *)
(* the acknowledgement; the sender has no response but the destination's.  *)
RequestFirst ==
    \A e \in Exchanges :
        /\ "response" \in sent[e] \cup handled[e] => "request" \in handled[e]
        /\ "request" \in handled[e] => serving[e] \in {"confirming", "closed"}

(* What has been offered has a correlation id, and so have the answers     *)
(* that are kept.                                                          *)
HaveIds ==
    /\ \A e \in Exchanges :
        /\ phase[e] = "idle" <=> corr[e] = None
        /\ e \in answers => serving[e] # "none"
    /\ \A i \in 1..Len(buffered) : corr[buffered[i]] # None

(* On the first page each has one of its own.                              *)
OwnIds ==
    \A e \in Exchanges : corr[e] # None =>
        /\ corr[e] < counter
        /\ \A f \in Exchanges : corr[f] = corr[e] => f = e

Correlated == HaveIds /\ (reloads = 0 => OwnIds)

IInv ==
    /\ TypeOK
    /\ OfferedOnce
    /\ RequestFirst
    /\ OneOutcome
    /\ Correlated
    /\ AnswersMatch

------------------------------------------------------------------------------
(* What the operations on the buffer keep.                                 *)
LEMMA ConcatFacts ==
    ASSUME NEW S, NEW before \in Seq(S), NEW after \in Seq(S)
    PROVE  /\ before \o after \in Seq(S)
           /\ Len(before \o after) = Len(before) + Len(after)
           /\ \A j \in 1..(Len(before) + Len(after)) : (before \o after)[j] =
                IF j <= Len(before) THEN before[j] ELSE after[j - Len(before)]
OBVIOUS

LEMMA RemoveAtFacts ==
    ASSUME NEW S, NEW s \in Seq(S), NEW i \in 1..Len(s)
    PROVE  /\ RemoveAt(s, i) \in Seq(S)
           /\ Len(RemoveAt(s, i)) = Len(s) - 1
           /\ \A j \in 1..Len(RemoveAt(s, i)) :
                \E k \in 1..Len(s) : RemoveAt(s, i)[j] = s[k]
<1> DEFINE before == SubSeq(s, 1, i - 1)
           after == SubSeq(s, i + 1, Len(s))
<1>1. /\ before \in Seq(S) /\ Len(before) = i - 1
      /\ \A j \in 1..(i - 1) : before[j] = s[j]
  OBVIOUS
<1>2. /\ after \in Seq(S) /\ Len(after) = Len(s) - i
      /\ \A j \in 1..(Len(s) - i) : after[j] = s[i + j]
  OBVIOUS
<1>3. RemoveAt(s, i) = before \o after
  BY DEF RemoveAt
<1> HIDE DEF before, after
<1>4. /\ before \o after \in Seq(S)
      /\ Len(before \o after) = Len(s) - 1
      /\ \A j \in 1..(Len(s) - 1) :
            (before \o after)[j] = IF j < i THEN before[j] ELSE after[j - i + 1]
  BY <1>1, <1>2
<1>5. ASSUME NEW j \in 1..(Len(s) - 1)
      PROVE  \E k \in 1..Len(s) : (before \o after)[j] = s[k]
  <2>1. CASE j < i
    BY <1>1, <1>4, <2>1
  <2>2. CASE i <= j
    <3>1. j - i + 1 \in 1..(Len(s) - i) /\ i + (j - i + 1) \in 1..Len(s)
      BY <2>2
    <3>2. (before \o after)[j] = s[i + (j - i + 1)]
      BY <1>2, <1>4, <2>2, <3>1
    <3> QED
      BY <3>1, <3>2
  <2>3. j < i \/ i <= j
    OBVIOUS
  <2> QED
    BY <2>1, <2>2, <2>3, Zenon
<1> QED
  BY <1>3, <1>4, <1>5

LEMMA BufferedFacts ==
    ASSUME TypeOK, NEW e \in Exchanges
    PROVE  /\ Buffered(e) \in Seq(Exchanges)
           /\ Len(Buffered(e)) <= MaxBuffered
           /\ \A j \in 1..Len(Buffered(e)) :
                \/ Buffered(e)[j] = e
                \/ \E k \in 1..Len(buffered) : Buffered(e)[j] = buffered[k]
<1>1. buffered \in Seq(Exchanges) /\ Len(buffered) <= MaxBuffered
  BY DEF TypeOK
<1>2. CASE Len(buffered) = MaxBuffered
  <2> DEFINE rest == Tail(buffered)
  <2>1. /\ rest \in Seq(Exchanges) /\ Len(rest) = Len(buffered) - 1
        /\ \A j \in 1..Len(rest) : rest[j] = buffered[j + 1]
    BY <1>1, <1>2
  <2>2. Buffered(e) = Append(rest, e)
    BY <1>2 DEF Buffered
  <2> HIDE DEF rest
  <2>3. /\ Append(rest, e) \in Seq(Exchanges)
        /\ Len(Append(rest, e)) = Len(buffered)
        /\ \A j \in 1..Len(buffered) :
            Append(rest, e)[j] = IF j = Len(buffered) THEN e ELSE buffered[j + 1]
    BY <1>1, <2>1
  <2>4. \A j \in 1..Len(buffered) : j # Len(buffered) => j + 1 \in 1..Len(buffered)
    BY <1>1
  <2> QED
    BY <1>1, <1>2, <2>2, <2>3, <2>4
<1>3. CASE Len(buffered) # MaxBuffered
  <2>1. Buffered(e) = Append(buffered, e)
    BY <1>3 DEF Buffered
  <2>2. /\ Append(buffered, e) \in Seq(Exchanges)
        /\ Len(Append(buffered, e)) = Len(buffered) + 1
        /\ \A j \in 1..(Len(buffered) + 1) :
            Append(buffered, e)[j] = IF j = Len(buffered) + 1 THEN e ELSE buffered[j]
    BY <1>1
  <2>3. Len(buffered) + 1 <= MaxBuffered
    BY <1>1, <1>3
  <2> QED
    BY <1>1, <2>1, <2>2, <2>3
<1> QED
  BY <1>2, <1>3

LEMMA RemovedAreOld ==
    ASSUME TypeOK, NEW i \in 1..Len(buffered)
    PROVE  /\ RemoveAt(buffered, i) \in Seq(Exchanges)
           /\ Len(RemoveAt(buffered, i)) = Len(buffered) - 1
           /\ \A j \in 1..Len(RemoveAt(buffered, i)) :
                \E k \in 1..Len(buffered) : RemoveAt(buffered, i)[j] = buffered[k]
<1>1. buffered \in Seq(Exchanges)
  BY DEF TypeOK
<1>2. ASSUME NEW s, s = buffered
      PROVE  /\ RemoveAt(s, i) \in Seq(Exchanges)
             /\ Len(RemoveAt(s, i)) = Len(s) - 1
             /\ \A j \in 1..Len(RemoveAt(s, i)) :
                  \E k \in 1..Len(s) : RemoveAt(s, i)[j] = s[k]
  BY <1>1, <1>2, RemoveAtFacts
<1> QED
  BY <1>2

LEMMA UnhandledFacts ==
    ASSUME TypeOK, NEW e
    PROVE  /\ Unhandled(e) \subseteq 1..Len(buffered)
           /\ \A i \in Unhandled(e) : corr[buffered[i]] = corr[e]
BY DEF TypeOK, Unhandled

(* The end of an incoming shuffle.                                         *)
LEMMA EndServingTypes ==
    ASSUME TypeOK, NEW e \in Exchanges, NEW outcome \in {"completed", "failed"},
           EndServing(e, outcome)
    PROVE  /\ serving' \in [Exchanges -> Servings]
           /\ open' \in [Exchanges -> SUBSET {"never", "out", "in"}]
           /\ outcomes' \in [Exchanges -> Seq({"completed", "failed"})]
<1>1. outcomes[e] \in Seq({"completed", "failed"})
  BY DEF TypeOK
<1>2. Append(outcomes[e], outcome) \in Seq({"completed", "failed"})
  BY <1>1
<1>3. outcomes' = [outcomes EXCEPT ![e] = Append(outcomes[e], outcome)]
  BY DEF EndServing
<1> QED
  BY <1>2, <1>3 DEF TypeOK, EndServing, ServingBecomes, Close, Servings

LEMMA ServeTypes ==
    ASSUME TypeOK, NEW e \in Exchanges, Serve(e)
    PROVE  /\ serving' \in [Exchanges -> Servings]
           /\ sent' \in [Exchanges -> SUBSET {"request", "response", "ack"}]
           /\ handled' \in [Exchanges -> SUBSET {"request", "response"}]
<1>1. handled' \in [Exchanges -> SUBSET {"request", "response"}]
  BY DEF TypeOK, Serve
<1>2. sent' \in [Exchanges -> SUBSET {"request", "response", "ack"}]
  BY DEF TypeOK, Serve
<1> QED
  BY <1>1, <1>2 DEF TypeOK, Serve, ServingBecomes, Servings

(* Types.                                                                  *)
LEMMA TypeStep == TypeOK /\ [Next]_vars => TypeOK'
<1> SUFFICES ASSUME TypeOK, [Next]_vars PROVE TypeOK'
  OBVIOUS
<1>1. ASSUME NEW e \in Exchanges, SendOffer(e)
      PROVE  TypeOK'
  BY <1>1 DEF TypeOK, Phases, Servings, SendOffer, PhaseBecomes, signalling,
              data
<1>2. ASSUME NEW e \in Exchanges, ServerTakesOffer(e)
      PROVE  TypeOK'
  BY <1>2 DEF TypeOK, Phases, Servings, ServerTakesOffer, PhaseBecomes,
              Trouble, signalling, data
<1>3. ASSUME NEW e \in Exchanges, OfferHangs(e)
      PROVE  TypeOK'
  BY <1>3 DEF TypeOK, Phases, Servings, OfferHangs, PhaseBecomes, Trouble,
              signalling, data
<1>4. ASSUME NEW e \in Exchanges, WaitForAnswer(e)
      PROVE  TypeOK'
  <2>1. CASE Unhandled(e) = {} /\ PhaseBecomes(e, "waiting")
             /\ UNCHANGED <<applied, buffered>>
    BY <1>4, <2>1 DEF TypeOK, Phases, WaitForAnswer, PhaseBecomes, data
  <2>2. CASE \E i \in Unhandled(e) :
                /\ PhaseBecomes(e, "opening")
                /\ applied' = [applied EXCEPT ![e] = buffered[i]]
                /\ buffered' = RemoveAt(buffered, i)
    <3>1. PICK i \in 1..Len(buffered) :
                /\ PhaseBecomes(e, "opening")
                /\ applied' = [applied EXCEPT ![e] = buffered[i]]
                /\ buffered' = RemoveAt(buffered, i)
      BY <2>2, UnhandledFacts
    <3>2. buffered[i] \in Exchanges
      BY <3>1 DEF TypeOK
    <3>3. buffered' \in Seq(Exchanges) /\ Len(buffered') <= MaxBuffered
      <4>1. buffered \in Seq(Exchanges) /\ Len(buffered) <= MaxBuffered
        BY DEF TypeOK
      <4>2. /\ RemoveAt(buffered, i) \in Seq(Exchanges)
            /\ Len(RemoveAt(buffered, i)) = Len(buffered) - 1
        BY <3>1, <4>1, RemoveAtFacts
      <4> QED
        BY <3>1, <4>1, <4>2
    <3> QED
      BY <1>4, <3>1, <3>2, <3>3
      DEF TypeOK, Phases, WaitForAnswer, PhaseBecomes, data
  <2> QED
    BY <1>4, <2>1, <2>2 DEF WaitForAnswer
<1>5. ASSUME NEW e \in Exchanges, AnswerArrives(e)
      PROVE  TypeOK'
  <2>1. Buffered(e) \in Seq(Exchanges) /\ Len(Buffered(e)) <= MaxBuffered
    BY BufferedFacts
  <2>2. /\ answers' = answers \ {e}
        /\ UNCHANGED <<serving, corr, counter, offers, data, outcomes, reloads>>
    BY <1>5 DEF AnswerArrives
  <2>3. phase' \in [Exchanges -> Phases] /\ applied' \in [Exchanges -> Exchanges \cup {None}]
    <3>1. ASSUME NEW w \in Exchanges, PhaseBecomes(w, "opening"),
                 applied' = [applied EXCEPT ![w] = e]
          PROVE  /\ phase' \in [Exchanges -> Phases]
                 /\ applied' \in [Exchanges -> Exchanges \cup {None}]
      BY <3>1 DEF TypeOK, Phases, PhaseBecomes
    <3>2. CASE UNCHANGED <<phase, applied>>
      BY <3>2 DEF TypeOK
    <3> QED
      BY <1>5, <3>1, <3>2 DEF AnswerArrives
  <2>4. /\ buffered' \in Seq(Exchanges) /\ Len(buffered') <= MaxBuffered
        /\ trouble' \in [Exchanges -> BOOLEAN]
    <3>1. CASE UNCHANGED <<buffered, trouble>>
      BY <3>1 DEF TypeOK
    <3>2. CASE /\ buffered' = Buffered(e)
               /\ trouble' = [x \in Exchanges |-> trouble[x] \/ x \in Expired]
      BY <2>1, <3>2, Zenon DEF TypeOK
    <3> QED
      BY <1>5, <3>1, <3>2 DEF AnswerArrives
  <2> QED
    BY <2>2, <2>3, <2>4 DEF TypeOK, data
<1>6. ASSUME NEW e \in Exchanges, LoseSignal(e)
      PROVE  TypeOK'
  BY <1>6 DEF TypeOK, Phases, Servings, LoseSignal, Trouble, signalling, data
<1>7. ASSUME NEW e \in Exchanges, OfferArrives(e)
      PROVE  TypeOK'
  BY <1>7 DEF TypeOK, Phases, Servings, OfferArrives, ServingBecomes,
              signalling, data
<1>8. ASSUME NEW e \in Exchanges, ServerTakesAnswer(e)
      PROVE  TypeOK'
  <2>1. CASE EndServing(e, "failed") /\ Trouble(e) /\ UNCHANGED answers
    BY <1>8, <2>1, EndServingTypes DEF TypeOK, ServerTakesAnswer, Trouble
  <2>2. CASE /\ ServingBecomes(e, "answered")
             /\ answers' = answers \cup {e}
             /\ UNCHANGED <<open, outcomes, trouble>>
    BY <1>8, <2>2 DEF TypeOK, Servings, ServerTakesAnswer, ServingBecomes
  <2> QED
    BY <1>8, <2>1, <2>2 DEF ServerTakesAnswer
<1>9. ASSUME NEW e \in Exchanges, AnswerHangs(e)
      PROVE  TypeOK'
  BY <1>9 DEF TypeOK, Phases, Servings, AnswerHangs, ServingBecomes, Trouble,
              signalling, data
<1>10. ASSUME NEW e \in Exchanges, WaitForChannel(e)
       PROVE  TypeOK'
  BY <1>10 DEF TypeOK, Phases, Servings, WaitForChannel, ServingBecomes,
               signalling, data
<1>11. ASSUME NEW e \in Exchanges, ChannelOpens(e)
       PROVE  TypeOK'
  BY <1>11 DEF TypeOK, Phases, Servings, ChannelOpens, signalling, data
<1>12. ASSUME NEW e \in Exchanges, ChannelBreaks(e)
       PROVE  TypeOK'
  BY <1>12 DEF TypeOK, Phases, Servings, ChannelBreaks, Close, signalling,
               data
<1>13. ASSUME NEW e \in Exchanges, SendShuffleRequest(e)
       PROVE  TypeOK'
  BY <1>13 DEF TypeOK, Phases, Servings, SendShuffleRequest, PhaseBecomes,
               Send, signalling, data
<1>14. ASSUME NEW e \in Exchanges, ProcessShuffleResponse(e)
       PROVE  TypeOK'
  BY <1>14 DEF TypeOK, Phases, Servings, ProcessShuffleResponse, PhaseBecomes,
               signalling, data
<1>15. ASSUME NEW e \in Exchanges, CloseOutgoing(e)
       PROVE  TypeOK'
  BY <1>15 DEF TypeOK, Phases, Servings, CloseOutgoing, PhaseBecomes, Close,
               signalling, data
<1>16. ASSUME NEW e \in Exchanges, OutgoingFails(e)
       PROVE  TypeOK'
  BY <1>16 DEF TypeOK, Phases, Servings, OutgoingFails, PhaseBecomes, Close,
               Trouble, signalling, data
<1>17. ASSUME NEW e \in Exchanges, ReceiveRequest(e)
       PROVE  TypeOK'
  <2>1. CASE Serve(e)
    BY <1>17, <2>1, ServeTypes DEF TypeOK, ReceiveRequest, signalling
  <2>2. CASE ServingBecomes(e, "receiving") /\ UNCHANGED <<sent, handled>>
    BY <1>17, <2>2
    DEF TypeOK, Servings, ReceiveRequest, ServingBecomes, signalling
  <2> QED
    BY <1>17, <2>1, <2>2 DEF ReceiveRequest
<1>18. ASSUME NEW e \in Exchanges, RequestArrives(e)
       PROVE  TypeOK'
  <2>1. CASE Serve(e) /\ UNCHANGED early
    BY <1>18, <2>1, ServeTypes DEF TypeOK, RequestArrives, signalling
  <2>2. CASE /\ early' = early \cup {e}
             /\ sent' = [sent EXCEPT ![e] = sent[e] \ {"request"}]
             /\ UNCHANGED <<serving, handled>>
    BY <1>18, <2>2 DEF TypeOK, RequestArrives, signalling
  <2> QED
    BY <1>18, <2>1, <2>2 DEF RequestArrives
<1>19. ASSUME NEW e \in Exchanges, AckArrives(e)
       PROVE  TypeOK'
  <2>1. EndServing(e, "completed")
    BY <1>19 DEF AckArrives
  <2> QED
    BY <1>19, <2>1, EndServingTypes DEF TypeOK, AckArrives, Trouble, signalling
<1>20. ASSUME NEW e \in Exchanges, IncomingFails(e)
       PROVE  TypeOK'
  <2>1. EndServing(e, "failed")
    BY <1>20 DEF IncomingFails
  <2> QED
    BY <1>20, <2>1, EndServingTypes DEF TypeOK, IncomingFails, Trouble, signalling
<1>21. ASSUME NEW e \in Exchanges, AckMissed(e)
       PROVE  TypeOK'
  <2>1. EndServing(e, "completed")
    BY <1>21 DEF AckMissed
  <2> QED
    BY <1>21, <2>1, EndServingTypes DEF TypeOK, AckMissed, Trouble, signalling
<1>22. CASE Reload
  <2>1. phase' \in [Exchanges -> Phases]
    BY <1>22 DEF TypeOK, Phases, Reload
  <2>2. open' \in [Exchanges -> SUBSET {"never", "out", "in"}]
    BY <1>22 DEF TypeOK, Reload
  <2>3. reloads' \in 0..MaxReloads /\ trouble' \in [Exchanges -> BOOLEAN]
    BY <1>22 DEF TypeOK, Reload
  <2>4. buffered' \in Seq(Exchanges) /\ Len(buffered') <= MaxBuffered
    BY <1>22 DEF TypeOK, Reload
  <2> QED
    BY <1>22, <2>1, <2>2, <2>3, <2>4 DEF TypeOK, Reload
<1>23. CASE UNCHANGED vars
  BY <1>23 DEF TypeOK, Phases, Servings, vars, signalling, data
<1> QED
  BY <1>1, <1>2, <1>3, <1>4, <1>5, <1>6, <1>7, <1>8, <1>9, <1>10, <1>11,
     <1>12, <1>13, <1>14, <1>15, <1>16, <1>17, <1>18, <1>19, <1>20, <1>21,
     <1>22, <1>23
     DEF Next, Advance, Fail

(* One step of each part of the invariant.                                 *)
LEMMA OfferedOnceStep == TypeOK /\ OfferedOnce /\ [Next]_vars => OfferedOnce'
<1> SUFFICES ASSUME TypeOK /\ OfferedOnce, [Next]_vars PROVE OfferedOnce'
  OBVIOUS
<1>1. ASSUME NEW e \in Exchanges, SendOffer(e)
      PROVE  OfferedOnce'
  BY <1>1 DEF TypeOK, OfferedOnce, SendOffer, PhaseBecomes, signalling, data
<1>2. ASSUME NEW e \in Exchanges, ServerTakesOffer(e)
      PROVE  OfferedOnce'
  BY <1>2 DEF TypeOK, OfferedOnce, ServerTakesOffer, PhaseBecomes, Trouble,
              signalling, data
<1>3. ASSUME NEW e \in Exchanges, OfferHangs(e)
      PROVE  OfferedOnce'
  BY <1>3 DEF TypeOK, OfferedOnce, OfferHangs, PhaseBecomes, Trouble,
              signalling, data
<1>4. ASSUME NEW e \in Exchanges, WaitForAnswer(e)
      PROVE  OfferedOnce'
  BY <1>4 DEF TypeOK, OfferedOnce, WaitForAnswer, PhaseBecomes, signalling,
              data
<1>5. ASSUME NEW e \in Exchanges, AnswerArrives(e)
      PROVE  OfferedOnce'
  BY <1>5 DEF TypeOK, OfferedOnce, AnswerArrives, PhaseBecomes, signalling,
              data
<1>6. ASSUME NEW e \in Exchanges, LoseSignal(e)
      PROVE  OfferedOnce'
  BY <1>6 DEF TypeOK, OfferedOnce, LoseSignal, Trouble, signalling, data
<1>7. ASSUME NEW e \in Exchanges, OfferArrives(e)
      PROVE  OfferedOnce'
  BY <1>7 DEF TypeOK, OfferedOnce, OfferArrives, ServingBecomes, signalling,
              data
<1>8. ASSUME NEW e \in Exchanges, ServerTakesAnswer(e)
      PROVE  OfferedOnce'
  BY <1>8 DEF TypeOK, OfferedOnce, ServerTakesAnswer, ServingBecomes,
              EndServing, Close, Trouble, signalling, data
<1>9. ASSUME NEW e \in Exchanges, AnswerHangs(e)
      PROVE  OfferedOnce'
  BY <1>9 DEF TypeOK, OfferedOnce, AnswerHangs, ServingBecomes, Trouble,
              signalling, data
<1>10. ASSUME NEW e \in Exchanges, WaitForChannel(e)
       PROVE  OfferedOnce'
  BY <1>10 DEF TypeOK, OfferedOnce, WaitForChannel, ServingBecomes,
               signalling, data
<1>11. ASSUME NEW e \in Exchanges, ChannelOpens(e)
       PROVE  OfferedOnce'
  BY <1>11 DEF TypeOK, OfferedOnce, ChannelOpens, signalling, data
<1>12. ASSUME NEW e \in Exchanges, ChannelBreaks(e)
       PROVE  OfferedOnce'
  BY <1>12 DEF TypeOK, OfferedOnce, ChannelBreaks, Close, signalling, data
<1>13. ASSUME NEW e \in Exchanges, SendShuffleRequest(e)
       PROVE  OfferedOnce'
  BY <1>13 DEF TypeOK, OfferedOnce, SendShuffleRequest, PhaseBecomes, Send,
               signalling, data
<1>14. ASSUME NEW e \in Exchanges, ProcessShuffleResponse(e)
       PROVE  OfferedOnce'
  BY <1>14 DEF TypeOK, OfferedOnce, ProcessShuffleResponse, PhaseBecomes,
               signalling, data
<1>15. ASSUME NEW e \in Exchanges, CloseOutgoing(e)
       PROVE  OfferedOnce'
  BY <1>15 DEF TypeOK, OfferedOnce, CloseOutgoing, PhaseBecomes, Close,
               signalling, data
<1>16. ASSUME NEW e \in Exchanges, OutgoingFails(e)
       PROVE  OfferedOnce'
  BY <1>16 DEF TypeOK, OfferedOnce, OutgoingFails, PhaseBecomes, Close,
               Trouble, signalling, data
<1>17. ASSUME NEW e \in Exchanges, ReceiveRequest(e)
       PROVE  OfferedOnce'
  BY <1>17 DEF TypeOK, OfferedOnce, ReceiveRequest, ServingBecomes, Serve,
               signalling, data
<1>18. ASSUME NEW e \in Exchanges, RequestArrives(e)
       PROVE  OfferedOnce'
  BY <1>18 DEF TypeOK, OfferedOnce, RequestArrives, ServingBecomes, Serve,
               signalling, data
<1>19. ASSUME NEW e \in Exchanges, AckArrives(e)
       PROVE  OfferedOnce'
  BY <1>19 DEF TypeOK, OfferedOnce, AckArrives, EndServing, ServingBecomes,
               Close, signalling, data
<1>20. ASSUME NEW e \in Exchanges, IncomingFails(e)
       PROVE  OfferedOnce'
  BY <1>20 DEF TypeOK, OfferedOnce, IncomingFails, EndServing, ServingBecomes,
               Close, Trouble, signalling, data
<1>21. ASSUME NEW e \in Exchanges, AckMissed(e)
       PROVE  OfferedOnce'
  BY <1>21 DEF TypeOK, OfferedOnce, AckMissed, EndServing, ServingBecomes,
               Close, Trouble, signalling, data
<1>22. CASE Reload
  BY <1>22 DEF TypeOK, OfferedOnce, Reload, Over, signalling, data
<1>23. CASE UNCHANGED vars
  BY <1>23 DEF TypeOK, OfferedOnce, vars, signalling, data
<1> QED
  BY <1>1, <1>2, <1>3, <1>4, <1>5, <1>6, <1>7, <1>8, <1>9, <1>10, <1>11,
     <1>12, <1>13, <1>14, <1>15, <1>16, <1>17, <1>18, <1>19, <1>20, <1>21,
     <1>22, <1>23
     DEF Next, Advance, Fail

LEMMA RequestFirstStep == TypeOK /\ OfferedOnce /\ RequestFirst /\ [Next]_vars => RequestFirst'
<1> SUFFICES ASSUME TypeOK /\ OfferedOnce /\ RequestFirst, [Next]_vars PROVE RequestFirst'
  OBVIOUS
<1>1. ASSUME NEW e \in Exchanges, SendOffer(e)
      PROVE  RequestFirst'
  BY <1>1 DEF TypeOK, OfferedOnce, RequestFirst, SendOffer, PhaseBecomes,
              signalling, data
<1>2. ASSUME NEW e \in Exchanges, ServerTakesOffer(e)
      PROVE  RequestFirst'
  BY <1>2 DEF TypeOK, OfferedOnce, RequestFirst, ServerTakesOffer,
              PhaseBecomes, Trouble, signalling, data
<1>3. ASSUME NEW e \in Exchanges, OfferHangs(e)
      PROVE  RequestFirst'
  BY <1>3 DEF TypeOK, OfferedOnce, RequestFirst, OfferHangs, PhaseBecomes,
              Trouble, signalling, data
<1>4. ASSUME NEW e \in Exchanges, WaitForAnswer(e)
      PROVE  RequestFirst'
  BY <1>4 DEF TypeOK, OfferedOnce, RequestFirst, WaitForAnswer, PhaseBecomes,
              signalling, data
<1>5. ASSUME NEW e \in Exchanges, AnswerArrives(e)
      PROVE  RequestFirst'
  BY <1>5 DEF TypeOK, OfferedOnce, RequestFirst, AnswerArrives, PhaseBecomes,
              signalling, data
<1>6. ASSUME NEW e \in Exchanges, LoseSignal(e)
      PROVE  RequestFirst'
  BY <1>6 DEF TypeOK, OfferedOnce, RequestFirst, LoseSignal, Trouble,
              signalling, data
<1>7. ASSUME NEW e \in Exchanges, OfferArrives(e)
      PROVE  RequestFirst'
  BY <1>7 DEF TypeOK, OfferedOnce, RequestFirst, OfferArrives, ServingBecomes,
              signalling, data
<1>8. ASSUME NEW e \in Exchanges, ServerTakesAnswer(e)
      PROVE  RequestFirst'
  BY <1>8 DEF TypeOK, OfferedOnce, RequestFirst, ServerTakesAnswer,
              ServingBecomes, EndServing, Close, Trouble, signalling, data
<1>9. ASSUME NEW e \in Exchanges, AnswerHangs(e)
      PROVE  RequestFirst'
  BY <1>9 DEF TypeOK, OfferedOnce, RequestFirst, AnswerHangs, ServingBecomes,
              Trouble, signalling, data
<1>10. ASSUME NEW e \in Exchanges, WaitForChannel(e)
       PROVE  RequestFirst'
  BY <1>10 DEF TypeOK, OfferedOnce, RequestFirst, WaitForChannel,
               ServingBecomes, signalling, data
<1>11. ASSUME NEW e \in Exchanges, ChannelOpens(e)
       PROVE  RequestFirst'
  BY <1>11 DEF TypeOK, OfferedOnce, RequestFirst, ChannelOpens, signalling,
               data
<1>12. ASSUME NEW e \in Exchanges, ChannelBreaks(e)
       PROVE  RequestFirst'
  BY <1>12 DEF TypeOK, OfferedOnce, RequestFirst, ChannelBreaks, Close,
               signalling, data
<1>13. ASSUME NEW e \in Exchanges, SendShuffleRequest(e)
       PROVE  RequestFirst'
  BY <1>13 DEF TypeOK, OfferedOnce, RequestFirst, SendShuffleRequest,
               PhaseBecomes, Send, signalling, data
<1>14. ASSUME NEW e \in Exchanges, ProcessShuffleResponse(e)
       PROVE  RequestFirst'
  BY <1>14 DEF TypeOK, OfferedOnce, RequestFirst, ProcessShuffleResponse,
               PhaseBecomes, signalling, data
<1>15. ASSUME NEW e \in Exchanges, CloseOutgoing(e)
       PROVE  RequestFirst'
  BY <1>15 DEF TypeOK, OfferedOnce, RequestFirst, CloseOutgoing, PhaseBecomes,
               Close, signalling, data
<1>16. ASSUME NEW e \in Exchanges, OutgoingFails(e)
       PROVE  RequestFirst'
  BY <1>16 DEF TypeOK, OfferedOnce, RequestFirst, OutgoingFails, PhaseBecomes,
               Close, Trouble, signalling, data
<1>17. ASSUME NEW e \in Exchanges, ReceiveRequest(e)
       PROVE  RequestFirst'
  <2>1. CASE Serve(e)
    BY <1>17, <2>1 DEF TypeOK, RequestFirst, ReceiveRequest, Serve, ServingBecomes
  <2>2. CASE ServingBecomes(e, "receiving") /\ UNCHANGED <<sent, handled>>
    BY <1>17, <2>2 DEF TypeOK, RequestFirst, ReceiveRequest, ServingBecomes
  <2> QED
    BY <1>17, <2>1, <2>2 DEF ReceiveRequest
<1>18. ASSUME NEW e \in Exchanges, RequestArrives(e)
       PROVE  RequestFirst'
  <2>1. CASE Serve(e)
    BY <1>18, <2>1 DEF TypeOK, RequestFirst, RequestArrives, Serve, ServingBecomes
  <2>2. CASE /\ sent' = [sent EXCEPT ![e] = sent[e] \ {"request"}]
             /\ UNCHANGED <<serving, handled>>
    BY <1>18, <2>2 DEF TypeOK, RequestFirst, RequestArrives
  <2> QED
    BY <1>18, <2>1, <2>2 DEF RequestArrives
<1>19. ASSUME NEW e \in Exchanges, AckArrives(e)
       PROVE  RequestFirst'
  BY <1>19 DEF TypeOK, OfferedOnce, RequestFirst, AckArrives, EndServing,
               ServingBecomes, Close, signalling, data
<1>20. ASSUME NEW e \in Exchanges, IncomingFails(e)
       PROVE  RequestFirst'
  BY <1>20 DEF TypeOK, OfferedOnce, RequestFirst, IncomingFails, EndServing,
               ServingBecomes, Close, Trouble, signalling, data
<1>21. ASSUME NEW e \in Exchanges, AckMissed(e)
       PROVE  RequestFirst'
  BY <1>21 DEF TypeOK, OfferedOnce, RequestFirst, AckMissed, EndServing,
               ServingBecomes, Close, Trouble, signalling, data
<1>22. CASE Reload
  BY <1>22 DEF TypeOK, OfferedOnce, RequestFirst, Reload, Over, signalling,
               data
<1>23. CASE UNCHANGED vars
  BY <1>23 DEF TypeOK, OfferedOnce, RequestFirst, vars, signalling, data
<1> QED
  BY <1>1, <1>2, <1>3, <1>4, <1>5, <1>6, <1>7, <1>8, <1>9, <1>10, <1>11,
     <1>12, <1>13, <1>14, <1>15, <1>16, <1>17, <1>18, <1>19, <1>20, <1>21,
     <1>22, <1>23
     DEF Next, Advance, Fail

(* A serving that has not ended yet ends with the one outcome it is given. *)
LEMMA EndServingOutcome ==
    ASSUME IInv, NEW e \in Exchanges, NEW outcome \in {"completed", "failed"},
           serving[e] # "closed", EndServing(e, outcome), UNCHANGED handled,
           "request" \in handled[e] => outcome = "completed"
    PROVE  OneOutcome'
<1>1. outcomes[e] \in Seq({"completed", "failed"}) /\ Len(outcomes[e]) = 0
  BY DEF IInv, TypeOK, OneOutcome
<1>2. Append(outcomes[e], outcome) = <<outcome>>
  <2>1. outcomes[e] = <<>>
    BY <1>1
  <2> QED
    BY <2>1
<1>3. /\ outcomes' = [outcomes EXCEPT ![e] = <<outcome>>]
      /\ serving' = [serving EXCEPT ![e] = "closed"]
  BY <1>2 DEF EndServing, ServingBecomes
<1>4. Len(<<outcome>>) = 1 /\ Range(<<outcome>>) = {outcome}
  BY DEF Range
<1> QED
  BY <1>3, <1>4 DEF IInv, TypeOK, OneOutcome

(* A request is handled before the end.                                    *)
LEMMA ServeOutcome ==
    ASSUME IInv, NEW e \in Exchanges,
           serving[e] \in {"establishing", "receiving"},
           Serve(e), UNCHANGED outcomes
    PROVE  OneOutcome'
<1>1. outcomes[e] \in Seq({"completed", "failed"}) /\ Len(outcomes[e]) = 0
  BY DEF IInv, TypeOK, OneOutcome
<1>2. Range(outcomes[e]) = {}
  BY <1>1 DEF Range
<1>3. /\ serving' = [serving EXCEPT ![e] = "confirming"]
      /\ \A f \in Exchanges \ {e} : handled'[f] = handled[f]
  BY DEF IInv, TypeOK, Serve, ServingBecomes
<1> QED
  BY <1>1, <1>2, <1>3 DEF IInv, TypeOK, OneOutcome

LEMMA OneOutcomeStep == IInv /\ [Next]_vars => OneOutcome'
<1> SUFFICES ASSUME IInv, [Next]_vars PROVE OneOutcome'
  OBVIOUS
<1>1. ASSUME NEW e \in Exchanges, SendOffer(e)
      PROVE  OneOutcome'
  BY <1>1 DEF IInv, TypeOK, OneOutcome, SendOffer, PhaseBecomes, signalling,
              data
<1>2. ASSUME NEW e \in Exchanges, ServerTakesOffer(e)
      PROVE  OneOutcome'
  BY <1>2 DEF IInv, TypeOK, OneOutcome, ServerTakesOffer, PhaseBecomes,
              Trouble, signalling, data
<1>3. ASSUME NEW e \in Exchanges, OfferHangs(e)
      PROVE  OneOutcome'
  BY <1>3 DEF IInv, TypeOK, OneOutcome, OfferHangs, PhaseBecomes, Trouble,
              signalling, data
<1>4. ASSUME NEW e \in Exchanges, WaitForAnswer(e)
      PROVE  OneOutcome'
  BY <1>4 DEF IInv, TypeOK, OneOutcome, WaitForAnswer, PhaseBecomes,
              signalling, data
<1>5. ASSUME NEW e \in Exchanges, AnswerArrives(e)
      PROVE  OneOutcome'
  BY <1>5 DEF IInv, TypeOK, OneOutcome, AnswerArrives, PhaseBecomes,
              signalling, data
<1>6. ASSUME NEW e \in Exchanges, LoseSignal(e)
      PROVE  OneOutcome'
  BY <1>6 DEF IInv, TypeOK, OneOutcome, LoseSignal, Trouble, signalling, data
<1>7. ASSUME NEW e \in Exchanges, OfferArrives(e)
      PROVE  OneOutcome'
  BY <1>7 DEF IInv, TypeOK, OfferedOnce, OneOutcome, OfferArrives,
              ServingBecomes, data
<1>8. ASSUME NEW e \in Exchanges, ServerTakesAnswer(e)
      PROVE  OneOutcome'
  <2>1. CASE EndServing(e, "failed")
    <3>1. "request" \notin handled[e] /\ serving[e] # "closed"
      BY <1>8 DEF IInv, RequestFirst, ServerTakesAnswer
    <3> QED
      BY <1>8, <2>1, <3>1, EndServingOutcome DEF ServerTakesAnswer
  <2>2. CASE ServingBecomes(e, "answered") /\ UNCHANGED outcomes
    BY <1>8, <2>2 DEF IInv, TypeOK, OneOutcome, ServerTakesAnswer, ServingBecomes
  <2> QED
    BY <1>8, <2>1, <2>2 DEF ServerTakesAnswer
<1>9. ASSUME NEW e \in Exchanges, AnswerHangs(e)
      PROVE  OneOutcome'
  BY <1>9 DEF IInv, TypeOK, OneOutcome, AnswerHangs, ServingBecomes, Trouble,
              signalling, data
<1>10. ASSUME NEW e \in Exchanges, WaitForChannel(e)
       PROVE  OneOutcome'
  BY <1>10 DEF IInv, TypeOK, OneOutcome, WaitForChannel, ServingBecomes,
               signalling, data
<1>11. ASSUME NEW e \in Exchanges, ChannelOpens(e)
       PROVE  OneOutcome'
  BY <1>11 DEF IInv, TypeOK, OneOutcome, ChannelOpens, signalling, data
<1>12. ASSUME NEW e \in Exchanges, ChannelBreaks(e)
       PROVE  OneOutcome'
  BY <1>12 DEF IInv, TypeOK, OneOutcome, ChannelBreaks, Close, signalling,
               data
<1>13. ASSUME NEW e \in Exchanges, SendShuffleRequest(e)
       PROVE  OneOutcome'
  BY <1>13 DEF IInv, TypeOK, OneOutcome, SendShuffleRequest, PhaseBecomes,
               Send, signalling, data
<1>14. ASSUME NEW e \in Exchanges, ProcessShuffleResponse(e)
       PROVE  OneOutcome'
  BY <1>14 DEF IInv, TypeOK, OneOutcome, ProcessShuffleResponse, PhaseBecomes,
               signalling, data
<1>15. ASSUME NEW e \in Exchanges, CloseOutgoing(e)
       PROVE  OneOutcome'
  BY <1>15 DEF IInv, TypeOK, OneOutcome, CloseOutgoing, PhaseBecomes, Close,
               signalling, data
<1>16. ASSUME NEW e \in Exchanges, OutgoingFails(e)
       PROVE  OneOutcome'
  BY <1>16 DEF IInv, TypeOK, OneOutcome, OutgoingFails, PhaseBecomes, Close,
               Trouble, signalling, data
<1>17. ASSUME NEW e \in Exchanges, ReceiveRequest(e)
       PROVE  OneOutcome'
  <2>1. CASE Serve(e)
    BY <1>17, <2>1, ServeOutcome DEF ReceiveRequest
  <2>2. CASE ServingBecomes(e, "receiving") /\ UNCHANGED <<sent, handled>>
    BY <1>17, <2>2 DEF IInv, TypeOK, OneOutcome, ReceiveRequest, ServingBecomes
  <2> QED
    BY <1>17, <2>1, <2>2 DEF ReceiveRequest
<1>18. ASSUME NEW e \in Exchanges, RequestArrives(e)
       PROVE  OneOutcome'
  <2>1. CASE serving[e] = "receiving" /\ Serve(e)
    BY <1>18, <2>1, ServeOutcome DEF RequestArrives
  <2>2. CASE UNCHANGED <<serving, handled>>
    BY <1>18, <2>2 DEF IInv, TypeOK, OneOutcome, RequestArrives
  <2> QED
    BY <1>18, <2>1, <2>2 DEF RequestArrives
<1>19. ASSUME NEW e \in Exchanges, AckArrives(e)
       PROVE  OneOutcome'
  <2>1. serving[e] # "closed" /\ EndServing(e, "completed") /\ UNCHANGED handled
    BY <1>19 DEF AckArrives
  <2> QED
    BY <2>1, EndServingOutcome
<1>20. ASSUME NEW e \in Exchanges, IncomingFails(e)
       PROVE  OneOutcome'
  <2>1. /\ serving[e] # "closed" /\ EndServing(e, "failed") /\ UNCHANGED handled
        /\ "request" \notin handled[e]
    BY <1>20 DEF IInv, RequestFirst, IncomingFails
  <2> QED
    BY <2>1, EndServingOutcome
<1>21. ASSUME NEW e \in Exchanges, AckMissed(e)
       PROVE  OneOutcome'
  <2>1. serving[e] # "closed" /\ EndServing(e, "completed") /\ UNCHANGED handled
    BY <1>21 DEF AckMissed
  <2> QED
    BY <2>1, EndServingOutcome
<1>22. CASE Reload
  BY <1>22 DEF IInv, TypeOK, OneOutcome, Reload, Over, signalling, data
<1>23. CASE UNCHANGED vars
  BY <1>23 DEF IInv, TypeOK, OneOutcome, vars, signalling, data
<1> QED
  BY <1>1, <1>2, <1>3, <1>4, <1>5, <1>6, <1>7, <1>8, <1>9, <1>10, <1>11,
     <1>12, <1>13, <1>14, <1>15, <1>16, <1>17, <1>18, <1>19, <1>20, <1>21,
     <1>22, <1>23
     DEF Next, Advance, Fail

LEMMA CorrelatedStep == IInv /\ [Next]_vars => Correlated'
<1> SUFFICES ASSUME IInv, [Next]_vars PROVE Correlated'
  OBVIOUS
<1>1. ASSUME NEW e \in Exchanges, SendOffer(e)
      PROVE  Correlated'
  <2>1. /\ corr[e] = None
        /\ corr' = [corr EXCEPT ![e] = counter]
        /\ phase' = [phase EXCEPT ![e] = "offering"]
        /\ counter' = counter + 1
        /\ UNCHANGED <<serving, answers, buffered, reloads>>
    BY <1>1 DEF IInv, Correlated, HaveIds, OwnIds, SendOffer, PhaseBecomes
  <2>2. counter \in Nat /\ counter # None
    BY DEF IInv, TypeOK
  <2>3. \A f \in Exchanges :
            /\ phase'[f] = "idle" <=> corr'[f] = None
            /\ f \in answers' => serving'[f] # "none"
    BY <2>1, <2>2 DEF IInv, TypeOK, Correlated, HaveIds, OwnIds
  <2>4. \A i \in 1..Len(buffered') : corr'[buffered'[i]] # None
    BY <2>1, <2>2 DEF IInv, TypeOK, Correlated, HaveIds, OwnIds
  <2>5. ASSUME reloads' = 0, NEW f \in Exchanges, corr'[f] # None
        PROVE  /\ corr'[f] < counter'
               /\ \A g \in Exchanges : corr'[g] = corr'[f] => g = f
    <3>1. \A g \in Exchanges : corr[g] # None => corr[g] \in Nat /\ corr[g] < counter
      BY <2>1, <2>5 DEF IInv, TypeOK, Correlated, HaveIds, OwnIds
    <3>2. \A g \in Exchanges : corr'[g] = IF g = e THEN counter ELSE corr[g]
      BY <2>1 DEF IInv, TypeOK
    <3>3. corr'[f] \in Nat /\ corr'[f] < counter'
      BY <2>1, <2>2, <2>5, <3>1, <3>2
    <3>4. ASSUME NEW g \in Exchanges, corr'[g] = corr'[f]
          PROVE  g = f
      <4>1. CASE f # e /\ g # e
        BY <2>1, <2>5, <3>2, <3>4, <4>1 DEF IInv, Correlated, HaveIds, OwnIds
      <4>2. CASE f = e \/ g = e
        BY <2>2, <2>5, <3>1, <3>2, <3>4, <4>2
      <4> QED
        BY <4>1, <4>2
    <3> QED
      BY <3>3, <3>4
  <2>6. reloads' = 0 => OwnIds'
    BY <2>5 DEF OwnIds
  <2>7. HaveIds'
    BY <2>3, <2>4 DEF HaveIds
  <2> QED
    BY <2>6, <2>7 DEF Correlated
<1>2. ASSUME NEW e \in Exchanges, ServerTakesOffer(e)
      PROVE  Correlated'
  BY <1>2 DEF IInv, TypeOK, OfferedOnce, Correlated, HaveIds, OwnIds,
              ServerTakesOffer, PhaseBecomes, Trouble, signalling, data
<1>3. ASSUME NEW e \in Exchanges, OfferHangs(e)
      PROVE  Correlated'
  BY <1>3 DEF IInv, TypeOK, OfferedOnce, Correlated, HaveIds, OwnIds,
              OfferHangs, PhaseBecomes, Trouble, signalling, data
<1>4. ASSUME NEW e \in Exchanges, WaitForAnswer(e)
      PROVE  Correlated'
  <2>1. /\ \A i \in 1..Len(buffered') :
              \E k \in 1..Len(buffered) : buffered'[i] = buffered[k]
        /\ \A f \in Exchanges : phase'[f] = "idle" <=> phase[f] = "idle"
    <3>1. CASE PhaseBecomes(e, "waiting") /\ UNCHANGED buffered
      BY <1>4, <3>1 DEF IInv, TypeOK, WaitForAnswer, PhaseBecomes
    <3>2. CASE \E i \in Unhandled(e) : /\ PhaseBecomes(e, "opening")
                                     /\ buffered' = RemoveAt(buffered, i)
      <4>1. PICK i \in 1..Len(buffered) : /\ PhaseBecomes(e, "opening")
                                         /\ buffered' = RemoveAt(buffered, i)
        BY <3>2, UnhandledFacts DEF IInv
      <4>2. buffered \in Seq(Exchanges)
        BY DEF IInv, TypeOK
      <4>3. /\ RemoveAt(buffered, i) \in Seq(Exchanges)
            /\ Len(RemoveAt(buffered, i)) = Len(buffered) - 1
            /\ \A j \in 1..Len(RemoveAt(buffered, i)) :
                \E k \in 1..Len(buffered) : RemoveAt(buffered, i)[j] = buffered[k]
        BY <4>1, RemovedAreOld DEF IInv
      <4> QED
        BY <1>4, <4>1, <4>3 DEF IInv, TypeOK, WaitForAnswer, PhaseBecomes
    <3> QED
      BY <1>4, <3>1, <3>2 DEF WaitForAnswer
  <2>2. UNCHANGED <<serving, corr, counter, answers, reloads>>
    BY <1>4 DEF WaitForAnswer
  <2> QED
    BY <2>1, <2>2 DEF IInv, Correlated, HaveIds, OwnIds
<1>5. ASSUME NEW e \in Exchanges, AnswerArrives(e)
      PROVE  Correlated'
  <2>1. /\ UNCHANGED <<serving, corr, counter, reloads>>
        /\ answers' \subseteq answers
        /\ e \in answers
        /\ \A f \in Exchanges : phase'[f] = "idle" <=> phase[f] = "idle"
    BY <1>5 DEF IInv, TypeOK, AnswerArrives, PhaseBecomes
  <2>2. corr[e] # None
    BY <2>1 DEF IInv, OfferedOnce, Correlated, HaveIds, OwnIds
  <2>3. buffered' = buffered \/ buffered' = Buffered(e)
    BY <1>5 DEF AnswerArrives
  <2>4. \A i \in 1..Len(buffered') : corr[buffered'[i]] # None
    BY <2>2, <2>3, BufferedFacts DEF IInv, Correlated, HaveIds, OwnIds
  <2> QED
    BY <2>1, <2>4 DEF IInv, Correlated, HaveIds, OwnIds
<1>6. ASSUME NEW e \in Exchanges, LoseSignal(e)
      PROVE  Correlated'
  BY <1>6 DEF IInv, TypeOK, OfferedOnce, Correlated, HaveIds, OwnIds,
              LoseSignal, Trouble, signalling, data
<1>7. ASSUME NEW e \in Exchanges, OfferArrives(e)
      PROVE  Correlated'
  BY <1>7 DEF IInv, TypeOK, OfferedOnce, Correlated, HaveIds, OwnIds,
              OfferArrives, ServingBecomes, signalling, data
<1>8. ASSUME NEW e \in Exchanges, ServerTakesAnswer(e)
      PROVE  Correlated'
  <2>1. /\ UNCHANGED <<phase, corr, counter, buffered, reloads>>
        /\ answers' \subseteq answers \cup {e}
        /\ serving'[e] # "none"
        /\ \A f \in Exchanges \ {e} : serving'[f] = serving[f]
    BY <1>8
    DEF IInv, TypeOK, ServerTakesAnswer, ServingBecomes, EndServing
  <2> QED
    BY <2>1 DEF IInv, Correlated, HaveIds, OwnIds
<1>9. ASSUME NEW e \in Exchanges, AnswerHangs(e)
      PROVE  Correlated'
  BY <1>9 DEF IInv, TypeOK, OfferedOnce, Correlated, HaveIds, OwnIds,
              AnswerHangs, ServingBecomes, Trouble, signalling, data
<1>10. ASSUME NEW e \in Exchanges, WaitForChannel(e)
       PROVE  Correlated'
  BY <1>10 DEF IInv, TypeOK, OfferedOnce, Correlated, HaveIds, OwnIds,
               WaitForChannel, ServingBecomes, signalling, data
<1>11. ASSUME NEW e \in Exchanges, ChannelOpens(e)
       PROVE  Correlated'
  BY <1>11 DEF IInv, TypeOK, OfferedOnce, Correlated, HaveIds, OwnIds,
               ChannelOpens, signalling, data
<1>12. ASSUME NEW e \in Exchanges, ChannelBreaks(e)
       PROVE  Correlated'
  BY <1>12 DEF IInv, TypeOK, OfferedOnce, Correlated, HaveIds, OwnIds,
               ChannelBreaks, Close, signalling, data
<1>13. ASSUME NEW e \in Exchanges, SendShuffleRequest(e)
       PROVE  Correlated'
  BY <1>13 DEF IInv, TypeOK, OfferedOnce, Correlated, HaveIds, OwnIds,
               SendShuffleRequest, PhaseBecomes, Send, signalling, data
<1>14. ASSUME NEW e \in Exchanges, ProcessShuffleResponse(e)
       PROVE  Correlated'
  BY <1>14 DEF IInv, TypeOK, OfferedOnce, Correlated, HaveIds, OwnIds,
               ProcessShuffleResponse, PhaseBecomes, signalling, data
<1>15. ASSUME NEW e \in Exchanges, CloseOutgoing(e)
       PROVE  Correlated'
  BY <1>15 DEF IInv, TypeOK, OfferedOnce, Correlated, HaveIds, OwnIds,
               CloseOutgoing, PhaseBecomes, Close, signalling, data
<1>16. ASSUME NEW e \in Exchanges, OutgoingFails(e)
       PROVE  Correlated'
  BY <1>16 DEF IInv, TypeOK, OfferedOnce, Correlated, HaveIds, OwnIds,
               OutgoingFails, PhaseBecomes, Close, Trouble, signalling, data
<1>17. ASSUME NEW e \in Exchanges, ReceiveRequest(e)
       PROVE  Correlated'
  BY <1>17 DEF IInv, TypeOK, OfferedOnce, Correlated, HaveIds, OwnIds,
               ReceiveRequest, ServingBecomes, Serve, signalling, data
<1>18. ASSUME NEW e \in Exchanges, RequestArrives(e)
       PROVE  Correlated'
  BY <1>18 DEF IInv, TypeOK, OfferedOnce, Correlated, HaveIds, OwnIds,
               RequestArrives, ServingBecomes, Serve, signalling, data
<1>19. ASSUME NEW e \in Exchanges, AckArrives(e)
       PROVE  Correlated'
  BY <1>19 DEF IInv, TypeOK, OfferedOnce, Correlated, HaveIds, OwnIds,
               AckArrives, EndServing, ServingBecomes, Close, signalling, data
<1>20. ASSUME NEW e \in Exchanges, IncomingFails(e)
       PROVE  Correlated'
  BY <1>20 DEF IInv, TypeOK, OfferedOnce, Correlated, HaveIds, OwnIds,
               IncomingFails, EndServing, ServingBecomes, Close, Trouble,
               signalling, data
<1>21. ASSUME NEW e \in Exchanges, AckMissed(e)
       PROVE  Correlated'
  BY <1>21 DEF IInv, TypeOK, OfferedOnce, Correlated, HaveIds, OwnIds,
               AckMissed, EndServing, ServingBecomes, Close, Trouble,
               signalling, data
<1>22. CASE Reload
  BY <1>22 DEF IInv, TypeOK, OfferedOnce, Correlated, HaveIds, OwnIds, Reload,
               Over, signalling, data
<1>23. CASE UNCHANGED vars
  BY <1>23 DEF IInv, TypeOK, OfferedOnce, Correlated, HaveIds, OwnIds, vars,
               signalling, data
<1> QED
  BY <1>1, <1>2, <1>3, <1>4, <1>5, <1>6, <1>7, <1>8, <1>9, <1>10, <1>11,
     <1>12, <1>13, <1>14, <1>15, <1>16, <1>17, <1>18, <1>19, <1>20, <1>21,
     <1>22, <1>23
     DEF Next, Advance, Fail

LEMMA AnswersMatchStep == IInv /\ [Next]_vars => AnswersMatch'
<1> SUFFICES ASSUME IInv, [Next]_vars PROVE AnswersMatch'
  OBVIOUS
<1>1. ASSUME NEW e \in Exchanges, SendOffer(e)
      PROVE  AnswersMatch'
  BY <1>1 DEF IInv, TypeOK, OfferedOnce, Correlated, HaveIds, OwnIds,
              AnswersMatch, SendOffer, PhaseBecomes, signalling, data
<1>2. ASSUME NEW e \in Exchanges, ServerTakesOffer(e)
      PROVE  AnswersMatch'
  BY <1>2 DEF IInv, TypeOK, OfferedOnce, Correlated, HaveIds, OwnIds,
              AnswersMatch, ServerTakesOffer, PhaseBecomes, Trouble,
              signalling, data
<1>3. ASSUME NEW e \in Exchanges, OfferHangs(e)
      PROVE  AnswersMatch'
  BY <1>3 DEF IInv, TypeOK, OfferedOnce, Correlated, HaveIds, OwnIds,
              AnswersMatch, OfferHangs, PhaseBecomes, Trouble, signalling,
              data
<1>4. ASSUME NEW e \in Exchanges, WaitForAnswer(e)
      PROVE  AnswersMatch'
  <2>1. CASE UNCHANGED applied
    BY <1>4, <2>1 DEF IInv, AnswersMatch, WaitForAnswer
  <2>2. CASE \E i \in Unhandled(e) : applied' = [applied EXCEPT ![e] = buffered[i]]
    <3>1. PICK i \in 1..Len(buffered) :
                /\ corr[buffered[i]] = corr[e]
                /\ applied' = [applied EXCEPT ![e] = buffered[i]]
      BY <2>2, UnhandledFacts DEF IInv
    <3>2. buffered[i] \in Exchanges /\ corr[buffered[i]] # None
      BY <3>1 DEF IInv, TypeOK, Correlated, HaveIds, OwnIds
    <3>3. reloads = 0 => buffered[i] = e
      BY <3>1, <3>2 DEF IInv, Correlated, HaveIds, OwnIds
    <3> QED
      BY <1>4, <3>1, <3>3 DEF IInv, TypeOK, AnswersMatch, WaitForAnswer
  <2> QED
    BY <1>4, <2>1, <2>2 DEF WaitForAnswer
<1>5. ASSUME NEW e \in Exchanges, AnswerArrives(e)
      PROVE  AnswersMatch'
  BY <1>5 DEF IInv, TypeOK, OfferedOnce, Correlated, HaveIds, OwnIds,
              AnswersMatch, AnswerArrives, PhaseBecomes, signalling, data
<1>6. ASSUME NEW e \in Exchanges, LoseSignal(e)
      PROVE  AnswersMatch'
  BY <1>6 DEF IInv, TypeOK, OfferedOnce, Correlated, HaveIds, OwnIds,
              AnswersMatch, LoseSignal, Trouble, signalling, data
<1>7. ASSUME NEW e \in Exchanges, OfferArrives(e)
      PROVE  AnswersMatch'
  BY <1>7 DEF IInv, TypeOK, OfferedOnce, Correlated, HaveIds, OwnIds,
              AnswersMatch, OfferArrives, ServingBecomes, signalling, data
<1>8. ASSUME NEW e \in Exchanges, ServerTakesAnswer(e)
      PROVE  AnswersMatch'
  BY <1>8 DEF IInv, TypeOK, OfferedOnce, Correlated, HaveIds, OwnIds,
              AnswersMatch, ServerTakesAnswer, ServingBecomes, EndServing,
              Close, Trouble, signalling, data
<1>9. ASSUME NEW e \in Exchanges, AnswerHangs(e)
      PROVE  AnswersMatch'
  BY <1>9 DEF IInv, TypeOK, OfferedOnce, Correlated, HaveIds, OwnIds,
              AnswersMatch, AnswerHangs, ServingBecomes, Trouble, signalling,
              data
<1>10. ASSUME NEW e \in Exchanges, WaitForChannel(e)
       PROVE  AnswersMatch'
  BY <1>10 DEF IInv, TypeOK, OfferedOnce, Correlated, HaveIds, OwnIds,
               AnswersMatch, WaitForChannel, ServingBecomes, signalling, data
<1>11. ASSUME NEW e \in Exchanges, ChannelOpens(e)
       PROVE  AnswersMatch'
  BY <1>11 DEF IInv, TypeOK, OfferedOnce, Correlated, HaveIds, OwnIds,
               AnswersMatch, ChannelOpens, signalling, data
<1>12. ASSUME NEW e \in Exchanges, ChannelBreaks(e)
       PROVE  AnswersMatch'
  BY <1>12 DEF IInv, TypeOK, OfferedOnce, Correlated, HaveIds, OwnIds,
               AnswersMatch, ChannelBreaks, Close, signalling, data
<1>13. ASSUME NEW e \in Exchanges, SendShuffleRequest(e)
       PROVE  AnswersMatch'
  BY <1>13 DEF IInv, TypeOK, OfferedOnce, Correlated, HaveIds, OwnIds,
               AnswersMatch, SendShuffleRequest, PhaseBecomes, Send,
               signalling, data
<1>14. ASSUME NEW e \in Exchanges, ProcessShuffleResponse(e)
       PROVE  AnswersMatch'
  BY <1>14 DEF IInv, TypeOK, OfferedOnce, Correlated, HaveIds, OwnIds,
               AnswersMatch, ProcessShuffleResponse, PhaseBecomes, signalling,
               data
<1>15. ASSUME NEW e \in Exchanges, CloseOutgoing(e)
       PROVE  AnswersMatch'
  BY <1>15 DEF IInv, TypeOK, OfferedOnce, Correlated, HaveIds, OwnIds,
               AnswersMatch, CloseOutgoing, PhaseBecomes, Close, signalling,
               data
<1>16. ASSUME NEW e \in Exchanges, OutgoingFails(e)
       PROVE  AnswersMatch'
  BY <1>16 DEF IInv, TypeOK, OfferedOnce, Correlated, HaveIds, OwnIds,
               AnswersMatch, OutgoingFails, PhaseBecomes, Close, Trouble,
               signalling, data
<1>17. ASSUME NEW e \in Exchanges, ReceiveRequest(e)
       PROVE  AnswersMatch'
  BY <1>17 DEF IInv, TypeOK, OfferedOnce, Correlated, HaveIds, OwnIds,
               AnswersMatch, ReceiveRequest, ServingBecomes, Serve,
               signalling, data
<1>18. ASSUME NEW e \in Exchanges, RequestArrives(e)
       PROVE  AnswersMatch'
  BY <1>18 DEF IInv, TypeOK, OfferedOnce, Correlated, HaveIds, OwnIds,
               AnswersMatch, RequestArrives, ServingBecomes, Serve,
               signalling, data
<1>19. ASSUME NEW e \in Exchanges, AckArrives(e)
       PROVE  AnswersMatch'
  BY <1>19 DEF IInv, TypeOK, OfferedOnce, Correlated, HaveIds, OwnIds,
               AnswersMatch, AckArrives, EndServing, ServingBecomes, Close,
               signalling, data
<1>20. ASSUME NEW e \in Exchanges, IncomingFails(e)
       PROVE  AnswersMatch'
  BY <1>20 DEF IInv, TypeOK, OfferedOnce, Correlated, HaveIds, OwnIds,
               AnswersMatch, IncomingFails, EndServing, ServingBecomes, Close,
               Trouble, signalling, data
<1>21. ASSUME NEW e \in Exchanges, AckMissed(e)
       PROVE  AnswersMatch'
  BY <1>21 DEF IInv, TypeOK, OfferedOnce, Correlated, HaveIds, OwnIds,
               AnswersMatch, AckMissed, EndServing, ServingBecomes, Close,
               Trouble, signalling, data
<1>22. CASE Reload
  BY <1>22 DEF IInv, TypeOK, OfferedOnce, Correlated, HaveIds, OwnIds,
               AnswersMatch, Reload, Over, signalling, data
<1>23. CASE UNCHANGED vars
  BY <1>23 DEF IInv, TypeOK, OfferedOnce, Correlated, HaveIds, OwnIds,
               AnswersMatch, vars, signalling, data
<1> QED
  BY <1>1, <1>2, <1>3, <1>4, <1>5, <1>6, <1>7, <1>8, <1>9, <1>10, <1>11,
     <1>12, <1>13, <1>14, <1>15, <1>16, <1>17, <1>18, <1>19, <1>20, <1>21,
     <1>22, <1>23
     DEF Next, Advance, Fail

------------------------------------------------------------------------------
(* The initial states.                                                     *)
LEMMA InitIInv == Init => IInv
<1> SUFFICES ASSUME Init PROVE IInv
  OBVIOUS
<1>1. TypeOK
  BY DEF Init, TypeOK, Phases, Servings
<1>2. OfferedOnce /\ RequestFirst /\ Correlated /\ AnswersMatch
  BY DEF Init, OfferedOnce, RequestFirst, Correlated, HaveIds, OwnIds,
         AnswersMatch
<1>3. OneOutcome
  BY DEF Init, OneOutcome
<1> QED
  BY <1>1, <1>2, <1>3 DEF IInv

LEMMA NextIInv == IInv /\ [Next]_vars => IInv'
<1> SUFFICES ASSUME IInv, [Next]_vars PROVE IInv'
  OBVIOUS
<1>1. TypeOK' /\ OfferedOnce' /\ RequestFirst'
  BY TypeStep, OfferedOnceStep, RequestFirstStep DEF IInv
<1>2. OneOutcome' /\ Correlated' /\ AnswersMatch'
  BY OneOutcomeStep, CorrelatedStep, AnswersMatchStep
<1> QED
  BY <1>1, <1>2 DEF IInv

LEMMA SpecIInv == Spec => []IInv
<1> QED
  BY InitIInv, NextIInv, PTL DEF Spec

(* The state is well typed: in particular the buffer of answers keeps to   *)
(* its bound, for any number of shuffles.                                  *)
THEOREM TypeCorrect == Spec => []TypeOK
<1>1. IInv => TypeOK
  BY DEF IInv
<1> QED
  BY <1>1, SpecIInv, PTL

(* Until the page is reloaded, a shuffle only accepts its own answer.      *)
THEOREM AnswersFindTheirOffers == Spec => []AnswersMatch
<1>1. IInv => AnswersMatch
  BY DEF IInv
<1> QED
  BY <1>1, SpecIInv, PTL

(* The destination reports each end once, and none as failed whose request *)
(* it has handled.                                                         *)
THEOREM EndsAreReportedOnce == Spec => []OneOutcome
<1>1. IInv => OneOutcome
  BY DEF IInv
<1> QED
  BY <1>1, SpecIInv, PTL

(* What has succeeded for the sender has not failed for the destination.   *)
THEOREM EndsAgree == Spec => []Agreement
<1>1. IInv => Agreement
  BY DEF IInv, Agreement, RequestFirst, OneOutcome
<1> QED
  BY <1>1, SpecIInv, PTL
------------------------------------------------------------------------------
(* The refinement of Comms.                                                *)

(* The request is on its way once the sender awaits the response, and the  *)
(* destination waits for the acknowledgement once it has handled it.       *)
RequestIsSent ==
    \A e \in Exchanges :
        /\ "request" \in sent[e] \/ e \in early
            => phase[e] \notin {"idle", "offering", "offered", "hung", "waiting", "opening"}
        /\ serving[e] = "confirming" => "request" \in handled[e]

LEMMA RequestIsSentStep == TypeOK /\ RequestIsSent /\ [Next]_vars => RequestIsSent'
<1> SUFFICES ASSUME TypeOK, RequestIsSent, [Next]_vars PROVE RequestIsSent'
  OBVIOUS
<1> DEFINE Before == {"idle", "offering", "offered", "hung", "waiting", "opening"}
<1>1. ASSUME UNCHANGED <<sent, early, serving, handled>>,
             \A e \in Exchanges : phase'[e] \in Before => phase[e] \in Before
      PROVE  RequestIsSent'
  BY <1>1 DEF RequestIsSent
<1>2. ASSUME UNCHANGED <<phase, early, handled>>,
             \A e \in Exchanges : "request" \in sent'[e] => "request" \in sent[e],
             \A e \in Exchanges : serving'[e] = "confirming" => serving[e] = "confirming"
      PROVE  RequestIsSent'
  BY <1>2 DEF RequestIsSent
<1>3. ASSUME NEW e \in Exchanges,
             SendOffer(e) \/ ServerTakesOffer(e) \/ OfferHangs(e) \/ WaitForAnswer(e)
                \/ CloseOutgoing(e) \/ OutgoingFails(e)
      PROVE  RequestIsSent'
  <2>1. UNCHANGED <<sent, early, serving, handled>>
    BY <1>3
    DEF SendOffer, ServerTakesOffer, OfferHangs, WaitForAnswer, CloseOutgoing,
        OutgoingFails, data
  <2>2. CASE CloseOutgoing(e) \/ OutgoingFails(e)
    BY <1>1, <2>1, <2>2 DEF TypeOK, CloseOutgoing, OutgoingFails, PhaseBecomes
  <2>3. CASE SendOffer(e) \/ ServerTakesOffer(e) \/ OfferHangs(e) \/ WaitForAnswer(e)
    BY <1>1, <2>1, <2>3
    DEF TypeOK, SendOffer, ServerTakesOffer, OfferHangs, WaitForAnswer, PhaseBecomes
  <2> QED
    BY <1>3, <2>2, <2>3
<1>4. ASSUME NEW e \in Exchanges, AnswerArrives(e)
      PROVE  RequestIsSent'
  BY <1>1, <1>4 DEF TypeOK, AnswerArrives, PhaseBecomes, data
<1>5. ASSUME NEW e \in Exchanges,
             LoseSignal(e) \/ OfferArrives(e) \/ ServerTakesAnswer(e) \/ AnswerHangs(e)
                \/ WaitForChannel(e) \/ ChannelOpens(e) \/ ChannelBreaks(e)
      PROVE  RequestIsSent'
  <2>1. UNCHANGED <<phase, early, handled, sent>>
    BY <1>5
    DEF LoseSignal, OfferArrives, ServerTakesAnswer, AnswerHangs, WaitForChannel,
        ChannelOpens, ChannelBreaks, data
  <2>2. CASE UNCHANGED serving
    BY <1>2, <2>1, <2>2
  <2>3. ASSUME NEW s \in Servings \ {"confirming"}, ServingBecomes(e, s)
        PROVE  RequestIsSent'
    BY <1>2, <2>1, <2>3 DEF TypeOK, ServingBecomes
  <2> QED
    BY <1>5, <2>2, <2>3
    DEF LoseSignal, OfferArrives, ServerTakesAnswer, AnswerHangs, WaitForChannel,
        ChannelOpens, ChannelBreaks, EndServing, Servings
<1>6. ASSUME NEW e \in Exchanges, SendShuffleRequest(e)
      PROVE  RequestIsSent'
  BY <1>6 DEF TypeOK, RequestIsSent, SendShuffleRequest, PhaseBecomes, Send
<1>7. ASSUME NEW e \in Exchanges, ProcessShuffleResponse(e)
      PROVE  RequestIsSent'
  BY <1>7 DEF TypeOK, RequestIsSent, ProcessShuffleResponse, PhaseBecomes
<1>8. ASSUME NEW e \in Exchanges, ReceiveRequest(e)
      PROVE  RequestIsSent'
  <2>1. CASE Serve(e)
    BY <1>8, <2>1 DEF TypeOK, RequestIsSent, ReceiveRequest, Serve, ServingBecomes
  <2>2. CASE ServingBecomes(e, "receiving") /\ UNCHANGED <<sent, handled>>
    BY <1>8, <2>2 DEF TypeOK, RequestIsSent, ReceiveRequest, ServingBecomes
  <2> QED
    BY <1>8, <2>1, <2>2 DEF ReceiveRequest
<1>9. ASSUME NEW e \in Exchanges, RequestArrives(e)
      PROVE  RequestIsSent'
  <2>1. CASE Serve(e) /\ UNCHANGED early
    BY <1>9, <2>1 DEF TypeOK, RequestIsSent, RequestArrives, Serve, ServingBecomes
  <2>2. CASE /\ early' = early \cup {e}
             /\ sent' = [sent EXCEPT ![e] = sent[e] \ {"request"}]
             /\ UNCHANGED <<serving, handled>>
    BY <1>9, <2>2 DEF TypeOK, RequestIsSent, RequestArrives
  <2> QED
    BY <1>9, <2>1, <2>2 DEF RequestArrives
<1>10. ASSUME NEW e \in Exchanges, AckArrives(e)
       PROVE  RequestIsSent'
  BY <1>2, <1>10 DEF TypeOK, AckArrives, EndServing, ServingBecomes
<1>11. ASSUME NEW e \in Exchanges, IncomingFails(e) \/ AckMissed(e)
       PROVE  RequestIsSent'
  BY <1>2, <1>11 DEF TypeOK, IncomingFails, AckMissed, EndServing, ServingBecomes
<1>12. CASE Reload
  BY <1>1, <1>12 DEF TypeOK, Reload, Over
<1>13. CASE UNCHANGED vars
  BY <1>1, <1>13 DEF vars, data
<1> QED
  BY <1>3, <1>4, <1>5, <1>6, <1>7, <1>8, <1>9, <1>10, <1>11, <1>12, <1>13
  DEF Next, Advance, Fail

(* What Comms sees of the exchanges.                                       *)
Sender == [e \in Exchanges |-> Progress(e)]

Served == {e \in Exchanges : "request" \in handled[e]}

(* The sender's moves, as Comms sees them.                                 *)
LEMMA SenderMoves ==
    ASSUME TypeOK, NEW e \in Exchanges, NEW p \in Phases, PhaseBecomes(e, p),
           NEW from, Progress(e) \in from, NEW to, Progress(e)' = to,
           UNCHANGED <<Served, outcomes>>
    PROVE  Promised!Move(e, from, to)
<1>1. /\ phase'[e] = p
      /\ \A f \in Exchanges \ {e} : phase'[f] = phase[f]
  BY DEF TypeOK, PhaseBecomes
<1>2. \A f \in Exchanges \ {e} : Progress(f)' = Progress(f)
  BY <1>1 DEF Progress
<1>3. Sender' = [Sender EXCEPT ![e] = to]
  <2>1. \A f \in Exchanges : Progress(f)' = IF f = e THEN to ELSE Progress(f)
    BY <1>2
  <2> HIDE DEF Progress
  <2> QED
    BY <2>1 DEF Sender
<1> QED
  BY <1>3 DEF Promised!Move, Sender, Served

LEMMA SenderStays ==
    ASSUME TypeOK, NEW e \in Exchanges, NEW p \in Phases, PhaseBecomes(e, p),
           Progress(e)' = Progress(e)
    PROVE  UNCHANGED Sender
<1>1. \A f \in Exchanges \ {e} : phase'[f] = phase[f]
  BY DEF TypeOK, PhaseBecomes
<1>2. \A f \in Exchanges : Progress(f)' = Progress(f)
  BY <1>1 DEF Progress
<1> QED
  BY <1>2 DEF Sender

(* The destination handles the request.                                    *)
LEMMA ServeIsPromised ==
    ASSUME IInv, NEW e \in Exchanges, Serve(e), UNCHANGED <<phase, outcomes>>,
           serving[e] \in {"establishing", "receiving"},
           phase[e] \notin {"idle", "offering", "offered", "hung", "waiting", "opening"}
    PROVE  Promised!HandleRequest(e)
<1>1. Progress(e) \notin {"idle", "opening"}
  BY DEF IInv, TypeOK, Phases, Progress
<1>2. "request" \notin handled[e]
  BY DEF IInv, RequestFirst
<1>3. outcomes[e] = <<>>
  <2>1. outcomes[e] \in Seq({"completed", "failed"}) /\ Len(outcomes[e]) = 0
    BY DEF IInv, TypeOK, OneOutcome
  <2> QED
    BY <2>1
<1>4. Served' = Served \cup {e}
  <2>1. /\ handled'[e] = handled[e] \cup {"request"}
        /\ \A f \in Exchanges \ {e} : handled'[f] = handled[f]
    BY DEF IInv, TypeOK, Serve
  <2> QED
    BY <2>1 DEF Served
<1>5. UNCHANGED Sender
  BY DEF Sender, Progress
<1> QED
  BY <1>1, <1>2, <1>3, <1>4, <1>5 DEF Promised!HandleRequest, Sender, Served

(* The destination reports the end.                                        *)
LEMMA EndIsPromised ==
    ASSUME IInv, NEW e \in Exchanges, NEW outcome \in {"completed", "failed"},
           EndServing(e, outcome), UNCHANGED <<phase, handled>>,
           serving[e] \notin {"none", "closed"},
           outcome = IF "request" \in handled[e] THEN "completed" ELSE "failed"
    PROVE  Promised!Report(e)
<1>1. outcomes[e] = <<>>
  <2>1. outcomes[e] \in Seq({"completed", "failed"}) /\ Len(outcomes[e]) = 0
    BY DEF IInv, TypeOK, OneOutcome
  <2> QED
    BY <2>1
<1>2. Append(outcomes[e], outcome) = <<outcome>>
  BY <1>1
<1>3. outcomes' = [outcomes EXCEPT ![e] = <<outcome>>]
  BY <1>2 DEF EndServing
<1>4. phase[e] # "idle"
  BY DEF IInv, OfferedOnce
<1>5. Progress(e) # "idle"
  BY <1>4 DEF IInv, TypeOK, Phases, Progress
<1>6. outcome = IF e \in Served THEN "completed" ELSE "failed"
  BY DEF Served
<1>7. UNCHANGED Sender /\ UNCHANGED Served
  BY DEF Sender, Progress, Served
<1> QED
  BY <1>1, <1>3, <1>5, <1>6, <1>7 DEF Promised!Report, Sender, Served

LEMMA InitIsPromised == Init => Promised!Init /\ RequestIsSent
<1> SUFFICES ASSUME Init PROVE Promised!Init /\ RequestIsSent
  OBVIOUS
<1>1. \A e \in Exchanges : Progress(e) = "idle"
  BY DEF Init, Progress
<1>2. Promised!Init
  BY <1>1 DEF Init, Promised!Init
<1>3. RequestIsSent
  BY DEF Init, RequestIsSent
<1> QED
  BY <1>2, <1>3

(* Each step of an exchange is one that Comms allows, or nothing to it.    *)
LEMMA StepIsPromised ==
    IInv /\ RequestIsSent /\ [Next]_vars =>
        [Promised!Next]_<<[e \in Exchanges |-> Progress(e)],
                          {e \in Exchanges : "request" \in handled[e]}, outcomes>>
<1> DEFINE Goal == Promised!Next \/ UNCHANGED <<Sender, Served, outcomes>>
<1> SUFFICES ASSUME IInv, RequestIsSent, [Next]_vars
             PROVE  Goal
  BY DEF Sender, Served
<1>1. TypeOK
  BY DEF IInv
<1>2. UNCHANGED handled => UNCHANGED Served
  BY DEF Served
<1>3. UNCHANGED phase => UNCHANGED Sender
  BY DEF Sender, Progress
<1>4. ASSUME NEW e \in Exchanges, SendOffer(e)
      PROVE  Goal
  <2>1. /\ Progress(e) = "idle"
        /\ PhaseBecomes(e, "offering")
        /\ UNCHANGED <<Served, outcomes>>
    BY <1>2, <1>4 DEF SendOffer, Progress, data
  <2>2. Progress(e)' = "opening"
    BY <1>1, <2>1 DEF TypeOK, PhaseBecomes, Progress
  <2>3. Promised!Begin(e)
    BY <1>1, <2>1, <2>2, SenderMoves DEF Promised!Begin, Phases
  <2> QED
    BY <2>3 DEF Promised!Next
<1>5. ASSUME NEW e \in Exchanges, NEW p \in Phases, PhaseBecomes(e, p),
             phase[e] \in {"offering", "offered", "hung", "waiting", "opening"},
             p \in {"offering", "offered", "hung", "waiting", "opening"},
             UNCHANGED <<handled, outcomes>>
      PROVE  Goal
  <2>1. Progress(e) = "opening" /\ Progress(e)' = "opening"
    BY <1>1, <1>5 DEF TypeOK, PhaseBecomes, Progress
  <2> QED
    BY <1>1, <1>2, <1>5, <2>1, SenderStays
<1>6. ASSUME NEW e \in Exchanges,
             phase[e] \in {"offering", "offered", "hung", "waiting", "opening", "awaiting"},
             PhaseBecomes(e, "rejected"), UNCHANGED <<handled, outcomes>>
      PROVE  Goal
  <2>1. Progress(e) \in {"opening", "sent"}
    BY <1>6 DEF Progress
  <2>2. Progress(e)' = "rejected"
    BY <1>1, <1>6 DEF TypeOK, PhaseBecomes, Progress
  <2>3. Promised!Reject(e)
    BY <1>1, <1>2, <1>6, <2>1, <2>2, SenderMoves DEF Promised!Reject, Phases
  <2> QED
    BY <2>3 DEF Promised!Next
<1>7. ASSUME NEW e \in Exchanges, ServerTakesOffer(e)
      PROVE  Goal
  BY <1>5, <1>6, <1>7 DEF ServerTakesOffer, Phases, data
<1>8. ASSUME NEW e \in Exchanges, OfferHangs(e) \/ WaitForAnswer(e)
      PROVE  Goal
  <2>1. phase[e] \in {"offering", "offered"} /\ UNCHANGED <<handled, outcomes>>
    BY <1>8 DEF OfferHangs, WaitForAnswer, data
  <2>2. \/ PhaseBecomes(e, "hung") \/ PhaseBecomes(e, "waiting")
        \/ PhaseBecomes(e, "opening")
    BY <1>8 DEF OfferHangs, WaitForAnswer
  <2> QED
    BY <1>5, <2>1, <2>2 DEF Phases
<1>9. ASSUME NEW e \in Exchanges, AnswerArrives(e)
      PROVE  Goal
  <2>1. UNCHANGED <<handled, outcomes>>
    BY <1>9 DEF AnswerArrives, data
  <2>2. CASE UNCHANGED phase
    BY <1>2, <1>3, <2>1, <2>2
  <2>3. CASE \E w \in Exchanges : phase[w] = "waiting" /\ PhaseBecomes(w, "opening")
    BY <1>5, <2>1, <2>3 DEF Phases
  <2> QED
    BY <1>9, <2>2, <2>3 DEF AnswerArrives
<1>10. ASSUME NEW e \in Exchanges,
             LoseSignal(e) \/ OfferArrives(e) \/ AnswerHangs(e) \/ WaitForChannel(e)
                \/ ChannelOpens(e) \/ ChannelBreaks(e)
       PROVE  Goal
  <2>1. UNCHANGED <<phase, handled, outcomes>>
    BY <1>10
    DEF LoseSignal, OfferArrives, AnswerHangs, WaitForChannel, ChannelOpens,
        ChannelBreaks, data
  <2> QED
    BY <1>2, <1>3, <2>1
<1>11. ASSUME NEW e \in Exchanges, SendShuffleRequest(e)
       PROVE  Goal
  <2>1. /\ Progress(e) = "opening"
        /\ PhaseBecomes(e, "awaiting")
        /\ UNCHANGED <<Served, outcomes>>
    BY <1>2, <1>11 DEF SendShuffleRequest, Progress
  <2>2. Progress(e)' = "sent"
    BY <1>1, <2>1 DEF TypeOK, PhaseBecomes, Progress
  <2>3. Promised!SendRequest(e)
    BY <1>1, <2>1, <2>2, SenderMoves DEF Promised!SendRequest, Phases
  <2> QED
    BY <2>3 DEF Promised!Next
<1>12. ASSUME NEW e \in Exchanges, ProcessShuffleResponse(e)
       PROVE  Goal
  <2>1. /\ Progress(e) = "sent"
        /\ PhaseBecomes(e, "acking")
        /\ "response" \in sent[e]
        /\ handled' = [handled EXCEPT ![e] = handled[e] \cup {"response"}]
        /\ UNCHANGED outcomes
    BY <1>12 DEF ProcessShuffleResponse, Progress
  <2>2. Progress(e)' = "answered"
    BY <1>1, <2>1 DEF TypeOK, PhaseBecomes, Progress
  <2>3. \A f \in Exchanges : "request" \in handled'[f] <=> "request" \in handled[f]
    BY <2>1 DEF IInv, TypeOK
  <2>4. UNCHANGED Served
    BY <2>3 DEF Served
  <2>5. e \in Served
    BY <2>1 DEF Served, IInv, RequestFirst
  <2>6. Promised!Move(e, {"sent"}, "answered")
    BY <1>1, <2>1, <2>2, <2>4, SenderMoves DEF Phases
  <2>7. Promised!HandleResponse(e)
    BY <2>5, <2>6 DEF Promised!HandleResponse, Served
  <2> QED
    BY <2>7 DEF Promised!Next
<1>13. ASSUME NEW e \in Exchanges, CloseOutgoing(e)
       PROVE  Goal
  <2>1. /\ Progress(e) = "answered"
        /\ PhaseBecomes(e, "resolved")
        /\ UNCHANGED <<Served, outcomes>>
    BY <1>2, <1>13 DEF CloseOutgoing, Progress
  <2>2. Progress(e)' = "resolved"
    BY <1>1, <2>1 DEF TypeOK, PhaseBecomes, Progress
  <2>3. Promised!Resolve(e)
    BY <1>1, <2>1, <2>2, SenderMoves DEF Promised!Resolve, Phases
  <2> QED
    BY <2>3 DEF Promised!Next
<1>14. ASSUME NEW e \in Exchanges, OutgoingFails(e)
       PROVE  Goal
  BY <1>6, <1>14 DEF OutgoingFails
<1>15. ASSUME NEW e \in Exchanges, ReceiveRequest(e) \/ RequestArrives(e)
       PROVE  Goal
  <2>1. UNCHANGED <<phase, outcomes>>
    BY <1>15 DEF ReceiveRequest, RequestArrives
  <2>2. CASE UNCHANGED handled
    BY <1>2, <1>3, <2>1, <2>2
  <2>3. CASE ~UNCHANGED handled
    <3>1. /\ Serve(e)
          /\ serving[e] \in {"establishing", "receiving"}
          /\ "request" \in sent[e] \/ e \in early
      BY <1>15, <2>3 DEF ReceiveRequest, RequestArrives
    <3>2. Promised!HandleRequest(e)
      BY <2>1, <3>1, ServeIsPromised DEF RequestIsSent
    <3> QED
      BY <3>2 DEF Promised!Next
  <2> QED
    BY <2>2, <2>3
<1>16. ASSUME NEW e \in Exchanges, AckArrives(e) \/ AckMissed(e)
       PROVE  Goal
  <2>1. /\ serving[e] = "confirming"
        /\ EndServing(e, "completed")
        /\ UNCHANGED <<phase, handled>>
    BY <1>16 DEF AckArrives, AckMissed
  <2>2. "request" \in handled[e]
    BY <2>1 DEF RequestIsSent
  <2>3. Promised!Report(e)
    BY <2>1, <2>2, EndIsPromised
  <2> QED
    BY <2>3 DEF Promised!Next
<1>17. ASSUME NEW e \in Exchanges, IncomingFails(e) \/ ServerTakesAnswer(e)
       PROVE  Goal
  <2>1. /\ serving[e] \in {"answering", "establishing", "receiving"}
        /\ UNCHANGED <<phase, handled>>
    BY <1>17 DEF IncomingFails, ServerTakesAnswer
  <2>2. CASE EndServing(e, "failed")
    <3>1. "request" \notin handled[e]
      BY <2>1 DEF IInv, RequestFirst
    <3>2. Promised!Report(e)
      BY <2>1, <2>2, <3>1, EndIsPromised
    <3> QED
      BY <3>2 DEF Promised!Next
  <2>3. CASE UNCHANGED outcomes
    BY <1>2, <1>3, <2>1, <2>3
  <2> QED
    BY <1>17, <2>2, <2>3 DEF IncomingFails, ServerTakesAnswer
<1>18. CASE Reload
  <2>1. UNCHANGED <<handled, outcomes>>
    BY <1>18 DEF Reload
  <2>2. ASSUME NEW e \in Exchanges
        PROVE  Progress(e)' = IF Progress(e) \in {"idle", "resolved", "rejected"}
                              THEN Progress(e) ELSE "gone"
    <3>1. phase'[e] = IF Over(e) \/ phase[e] = "idle" THEN phase[e] ELSE "gone"
      BY <1>18 DEF Reload
    <3>2. phase[e] \in Phases
      BY <1>1 DEF TypeOK
    <3> QED
      BY <3>1, <3>2 DEF Progress, Over, Phases
  <2>3. Sender' = [e \in Exchanges |->
                    IF Sender[e] \in {"idle", "resolved", "rejected"}
                    THEN Sender[e] ELSE "gone"]
    BY <2>2 DEF Sender
  <2>4. Promised!Reload
    BY <1>2, <2>1, <2>3 DEF Promised!Reload, Sender, Served
  <2> QED
    BY <2>4 DEF Promised!Next
<1>19. CASE UNCHANGED vars
  BY <1>2, <1>3, <1>19 DEF vars, data
<1> HIDE DEF Goal
<1> QED
  BY <1>4, <1>7, <1>8, <1>9, <1>10, <1>11, <1>12, <1>13, <1>14, <1>15, <1>16,
     <1>17, <1>18, <1>19 DEF Next, Advance, Fail

(* For any number of shuffles and reloads, what reaches the two nodes      *)
(* keeps to the order that Comms promises.                                 *)
THEOREM ShufflesKeepToComms == Spec => ImplementsComms
<1>1. Init => Promised!Init /\ RequestIsSent
  BY InitIsPromised
<1>2. IInv /\ RequestIsSent /\ [Next]_vars => RequestIsSent'
  BY RequestIsSentStep DEF IInv
<1>3. IInv /\ RequestIsSent /\ [Next]_vars =>
        [Promised!Next]_<<[e \in Exchanges |-> Progress(e)],
                          {e \in Exchanges : "request" \in handled[e]}, outcomes>>
  BY StepIsPromised
<1> QED
  BY <1>1, <1>2, <1>3, SpecIInv, PTL DEF Spec, ImplementsComms, Promised!Spec

------------------------------------------------------------------------------
(* Two sides never wait for each other.                                    *)

(* How far the two ends of a shuffle can be from each other as long as     *)
(* nothing has gone wrong: before the channel opens,                       *)
Unopened(e) == open[e] = {"never"} /\ sent[e] = {} /\ e \notin early

IsBuffered(e) == \E i \in 1..Len(buffered) : buffered[i] = e

AnsweredFirst(e) ==
    e \in answers \/ IsBuffered(e) => serving[e] \notin {"none", "answering"}

AnswerComes(e) ==
    \/ e \in offers
    \/ serving[e] = "answering"
    \/ /\ serving[e] \in {"answered", "establishing"}
       /\ \/ e \in answers
          \/ phase[e] = "offered" /\ IsBuffered(e)

Opening(e) ==
    \/ phase[e] \in {"idle", "offering"}
    \/ phase[e] \in {"offered", "waiting"} /\ AnswerComes(e)
    \/ /\ phase[e] = "opening" /\ applied[e] = e
       /\ serving[e] \in {"answered", "establishing"}

(* and when it is open.                                                    *)
RequestComes(e) ==
    \/ phase[e] = "opening" /\ sent[e] = {} /\ e \notin early
    \/ phase[e] = "awaiting" /\ sent[e] = {"request"} /\ e \notin early
    \/ /\ phase[e] = "awaiting" /\ sent[e] = {} /\ e \in early
       /\ serving[e] # "receiving"

Talking(e) ==
    \/ /\ open[e] = {"out", "in"}
       /\ serving[e] \in {"answered", "establishing", "receiving"}
       /\ RequestComes(e)
    \/ /\ open[e] = {"out", "in"}
       /\ serving[e] = "confirming"
       /\ phase[e] = "awaiting" /\ sent[e] = {"response"}
    \/ /\ open[e] = IF phase[e] = "acking" THEN {"out", "in"} ELSE {"in"}
       /\ serving[e] = "confirming"
       /\ phase[e] \in {"acking", "resolved"} /\ sent[e] = {"ack"}
    \/ /\ serving[e] = "closed" /\ sent[e] = {}
       /\ phase[e] \in {"acking", "resolved"} /\ outcomes[e] = <<"completed">>

GoesWell(e) ==
    /\ reloads = 0
    /\ AnsweredFirst(e)
    /\ (Unopened(e) /\ Opening(e)) \/ Talking(e)

RunsSmoothly == \A e \in Exchanges : ~trouble[e] => GoesWell(e)

LEMMA RemoveAtKeeps ==
    ASSUME NEW S, NEW s \in Seq(S), NEW i \in 1..Len(s), NEW k \in 1..Len(s), k # i
    PROVE  \E j \in 1..Len(RemoveAt(s, i)) : RemoveAt(s, i)[j] = s[k]
<1> DEFINE before == SubSeq(s, 1, i - 1)
           after == SubSeq(s, i + 1, Len(s))
<1>1. /\ before \in Seq(S) /\ Len(before) = i - 1
      /\ \A j \in 1..(i - 1) : before[j] = s[j]
  OBVIOUS
<1>2. /\ after \in Seq(S) /\ Len(after) = Len(s) - i
      /\ \A j \in 1..(Len(s) - i) : after[j] = s[i + j]
  OBVIOUS
<1>3. RemoveAt(s, i) = before \o after
  BY DEF RemoveAt
<1> HIDE DEF before, after
<1>4. /\ before \o after \in Seq(S)
      /\ Len(before \o after) = Len(s) - 1
      /\ \A j \in 1..(Len(s) - 1) :
            (before \o after)[j] = IF j < i THEN before[j] ELSE after[j - i + 1]
  <2>1. /\ before \o after \in Seq(S)
        /\ Len(before \o after) = Len(before) + Len(after)
        /\ \A j \in 1..(Len(before) + Len(after)) : (before \o after)[j] =
                IF j <= Len(before) THEN before[j] ELSE after[j - Len(before)]
    BY <1>1, <1>2, ConcatFacts
  <2> QED
    BY <1>1, <1>2, <2>1
<1>5. CASE k < i
  <2>1. k \in 1..(Len(s) - 1) /\ (before \o after)[k] = s[k]
    BY <1>1, <1>4, <1>5
  <2> QED
    BY <1>3, <1>4, <2>1
<1>6. CASE k > i
  <2>1. /\ k - 1 \in 1..(Len(s) - 1)
        /\ ~(k - 1 < i)
        /\ k - i \in 1..(Len(s) - i)
        /\ k - 1 - i + 1 = k - i
        /\ i + (k - i) = k
    BY <1>6
  <2>2. (before \o after)[k - 1] = s[k]
    BY <1>2, <1>4, <2>1
  <2> QED
    BY <1>3, <1>4, <2>1, <2>2
<1> QED
  BY <1>5, <1>6

(* An answer that does not expire stays in the buffer.                     *)
LEMMA BufferedKeeps ==
    ASSUME TypeOK, NEW f \in Exchanges, NEW e \in Exchanges, e \notin Expired,
           NEW k \in 1..Len(buffered), buffered[k] = e
    PROVE  \E j \in 1..Len(Buffered(f)) : Buffered(f)[j] = e
<1>1. buffered \in Seq(Exchanges) /\ Len(buffered) <= MaxBuffered
  BY DEF TypeOK
<1>2. CASE Len(buffered) = MaxBuffered
  <2> DEFINE rest == Tail(buffered)
  <2>1. /\ rest \in Seq(Exchanges) /\ Len(rest) = Len(buffered) - 1
        /\ \A j \in 1..Len(rest) : rest[j] = buffered[j + 1]
    BY <1>1, <1>2
  <2>2. Buffered(f) = Append(rest, f)
    BY <1>2 DEF Buffered
  <2>3. Head(buffered) # e
    BY <1>2 DEF Expired
  <2>4. k # 1
    BY <1>1, <2>3
  <2> HIDE DEF rest
  <2>5. k - 1 \in 1..Len(rest) /\ rest[k - 1] = e
    BY <1>1, <2>1, <2>4
  <2>6. Len(Append(rest, f)) = Len(rest) + 1 /\ Append(rest, f)[k - 1] = e
    BY <2>1, <2>5
  <2> QED
    BY <2>1, <2>2, <2>5, <2>6
<1>3. CASE Len(buffered) # MaxBuffered
  <2>1. Buffered(f) = Append(buffered, f)
    BY <1>3 DEF Buffered
  <2>2. Len(Append(buffered, f)) = Len(buffered) + 1 /\ Append(buffered, f)[k] = e
    BY <1>1
  <2> QED
    BY <1>1, <2>1, <2>2
<1> QED
  BY <1>2, <1>3

(* What a step leaves as it is of a shuffle.                               *)
SameEnds(e) ==
    /\ phase'[e] = phase[e]
    /\ serving'[e] = serving[e]
    /\ outcomes'[e] = outcomes[e]
    /\ reloads' = reloads

SameSignals(e) ==
    /\ e \in offers' <=> e \in offers
    /\ e \in answers' <=> e \in answers
    /\ applied'[e] = applied[e]
    /\ IsBuffered(e)' <=> IsBuffered(e)

SameData(e) ==
    /\ open'[e] = open[e]
    /\ sent'[e] = sent[e]
    /\ e \in early' <=> e \in early

LEMMA Elsewhere ==
    ASSUME NEW e \in Exchanges, GoesWell(e), SameEnds(e), SameSignals(e), SameData(e)
    PROVE  GoesWell(e)'
BY DEF GoesWell, SameEnds, SameSignals, SameData, AnsweredFirst, Unopened, Opening,
       Talking, AnswerComes, RequestComes

(* The steps of one shuffle leave the others as they are, the answers of   *)
(* which are not taken or displaced.                                       *)
StepOf(f) ==
    SendOffer(f) \/ Advance(f) \/ Fail(f) \/ LoseSignal(f) \/ ChannelBreaks(f)

(* Whose answer it is, on the first page.                                  *)
LEMMA IdsTell ==
    ASSUME IInv, reloads = 0, NEW f \in Exchanges
    PROVE  /\ f \in answers =>
                /\ phase[f] # "idle"
                /\ \A w \in Exchanges : corr[w] = corr[f] => w = f
           /\ \A i \in Unhandled(f) : i \in 1..Len(buffered) /\ buffered[i] = f
<1>1. f \in answers => phase[f] # "idle" /\ corr[f] # None
  BY DEF IInv, OfferedOnce, Correlated, HaveIds
<1>2. ASSUME NEW i \in Unhandled(f)
      PROVE  i \in 1..Len(buffered) /\ buffered[i] = f
  <2>1. i \in 1..Len(buffered) /\ corr[buffered[i]] = corr[f]
    BY UnhandledFacts DEF IInv
  <2>2. buffered[i] \in Exchanges /\ corr[buffered[i]] # None
    BY <2>1 DEF IInv, TypeOK, Correlated, HaveIds
  <2> QED
    BY <2>1, <2>2 DEF IInv, Correlated, OwnIds
<1> QED
  BY <1>1, <1>2 DEF IInv, Correlated, OwnIds

LEMMA OthersAreLeft ==
    ASSUME IInv, reloads = 0, NEW f \in Exchanges, StepOf(f),
           NEW e \in Exchanges, e # f, ~trouble'[e]
    PROVE  SameEnds(e) /\ SameSignals(e) /\ SameData(e)
<1> USE DEF IInv
<1>1. ASSUME UNCHANGED buffered
      PROVE  IsBuffered(e)' <=> IsBuffered(e)
  BY <1>1 DEF IsBuffered
<1>2. CASE WaitForAnswer(f)
  <2>1. SameEnds(e) /\ SameData(e)
    BY <1>2 DEF TypeOK, WaitForAnswer, PhaseBecomes, SameEnds, SameData, data
  <2>2. /\ e \in offers' <=> e \in offers
        /\ e \in answers' <=> e \in answers
        /\ applied'[e] = applied[e]
    BY <1>2 DEF TypeOK, WaitForAnswer
  <2>3. CASE UNCHANGED buffered
    BY <1>1, <2>1, <2>2, <2>3 DEF SameSignals
  <2>4. CASE \E i \in Unhandled(f) : buffered' = RemoveAt(buffered, i)
    <3>1. PICK i \in Unhandled(f) : buffered' = RemoveAt(buffered, i)
      BY <2>4
    <3>2. i \in 1..Len(buffered) /\ buffered[i] = f /\ buffered \in Seq(Exchanges)
      BY IdsTell DEF TypeOK
    <3>3. \A j \in 1..Len(buffered') : \E k \in 1..Len(buffered) : buffered'[j] = buffered[k]
      BY <3>1, <3>2, RemovedAreOld
    <3>4. \A k \in 1..Len(buffered) : k # i =>
            \E j \in 1..Len(buffered') : buffered'[j] = buffered[k]
      BY <3>1, <3>2, RemoveAtKeeps
    <3>5. IsBuffered(e)' <=> IsBuffered(e)
      BY <3>2, <3>3, <3>4 DEF IsBuffered
    <3> QED
      BY <2>1, <2>2, <3>5 DEF SameSignals
  <2> QED
    BY <1>2, <2>3, <2>4 DEF WaitForAnswer
<1>3. CASE AnswerArrives(f)
  <2>1. /\ f \in answers
        /\ \A w \in Exchanges : corr[w] = corr[f] => w = f
    BY <1>3, IdsTell DEF AnswerArrives
  <2>2. /\ UNCHANGED <<serving, offers, outcomes, reloads, data>>
        /\ answers' = answers \ {f}
    BY <1>3 DEF AnswerArrives
  <2>3. phase'[e] = phase[e] /\ applied'[e] = applied[e]
    BY <1>3, <2>1 DEF TypeOK, AnswerArrives, PhaseBecomes
  <2>4. IsBuffered(e)' <=> IsBuffered(e)
    <3>1. CASE UNCHANGED buffered
      BY <1>1, <3>1
    <3>2. CASE /\ buffered' = Buffered(f)
               /\ trouble' = [x \in Exchanges |-> trouble[x] \/ x \in Expired]
      <4>1. e \notin Expired
        BY <3>2
      <4>2. IsBuffered(e) => IsBuffered(e)'
        BY <3>2, <4>1, BufferedKeeps DEF IsBuffered
      <4>3. \A j \in 1..Len(Buffered(f)) :
              \/ Buffered(f)[j] = f
              \/ \E k \in 1..Len(buffered) : Buffered(f)[j] = buffered[k]
        BY BufferedFacts
      <4>4. IsBuffered(e)' => IsBuffered(e)
        <5>1. ASSUME NEW j \in 1..Len(buffered'), buffered'[j] = e
              PROVE  \E k \in 1..Len(buffered) : buffered[k] = e
          BY <3>2, <4>3, <5>1
        <5> QED
          BY <5>1 DEF IsBuffered
      <4> QED
        BY <4>2, <4>4
    <3> QED
      BY <1>3, <3>1, <3>2 DEF AnswerArrives
  <2> QED
    BY <2>2, <2>3, <2>4 DEF SameEnds, SameSignals, SameData, data
<1>4. CASE \/ SendOffer(f) \/ ServerTakesOffer(f) \/ OfferHangs(f)
           \/ SendShuffleRequest(f) \/ ProcessShuffleResponse(f)
           \/ CloseOutgoing(f) \/ OutgoingFails(f) \/ LoseSignal(f)
  BY <1>1, <1>4
  DEF TypeOK, SendOffer, ServerTakesOffer, OfferHangs, SendShuffleRequest,
      ProcessShuffleResponse, CloseOutgoing, OutgoingFails, LoseSignal,
      PhaseBecomes, Send, Close, signalling, data, SameEnds, SameSignals, SameData
<1>5. CASE \/ OfferArrives(f) \/ ServerTakesAnswer(f) \/ AnswerHangs(f)
           \/ WaitForChannel(f) \/ AckArrives(f) \/ IncomingFails(f) \/ AckMissed(f)
  BY <1>1, <1>5
  DEF TypeOK, OfferArrives, ServerTakesAnswer, AnswerHangs, WaitForChannel,
      AckArrives, IncomingFails, AckMissed, EndServing, ServingBecomes, Close,
      signalling, data, SameEnds, SameSignals, SameData
<1>6. CASE ChannelOpens(f) \/ ChannelBreaks(f)
  BY <1>1, <1>6
  DEF TypeOK, ChannelOpens, ChannelBreaks, Close, signalling, data,
      SameEnds, SameSignals, SameData
<1>7. CASE ReceiveRequest(f) \/ RequestArrives(f)
  BY <1>1, <1>7
  DEF TypeOK, ReceiveRequest, RequestArrives, Serve, ServingBecomes, signalling,
      SameEnds, SameSignals, SameData
<1> QED
  BY <1>2, <1>3, <1>4, <1>5, <1>6, <1>7 DEF StepOf, Advance, Fail

(* The steps of a shuffle itself, by what they belong to.                  *)
LEMMA OpeningGoesWell ==
    ASSUME IInv, NEW e \in Exchanges, GoesWell(e), ~trouble[e], ~trouble'[e],
           \/ SendOffer(e) \/ ServerTakesOffer(e) \/ OfferHangs(e)
           \/ WaitForAnswer(e) \/ AnswerArrives(e) \/ LoseSignal(e)
    PROVE  GoesWell(e)'
<1> USE DEF IInv
<1>1. ~Trouble(e)
  BY DEF TypeOK, Trouble
<1>2. ASSUME UNCHANGED buffered
      PROVE  IsBuffered(e)' <=> IsBuffered(e)
  BY <1>2 DEF IsBuffered
<1>3. CASE SendOffer(e) \/ ServerTakesOffer(e)
  <2>1. /\ UNCHANGED <<serving, answers, outcomes, reloads, data, buffered>>
        /\ phase[e] \in {"idle", "offering"}
    BY <1>3 DEF SendOffer, ServerTakesOffer
  <2>2. Unopened(e)
    BY <2>1 DEF GoesWell, Talking, RequestComes
  <2>3. \/ phase'[e] = "offering"
        \/ phase'[e] = "offered" /\ e \in offers'
    BY <1>1, <1>3 DEF TypeOK, SendOffer, ServerTakesOffer, PhaseBecomes
  <2>4. Opening(e)'
    BY <2>3 DEF Opening, AnswerComes
  <2>5. Unopened(e)' /\ AnsweredFirst(e)'
    BY <1>2, <2>1, <2>2 DEF GoesWell, Unopened, AnsweredFirst, data
  <2> QED
    BY <2>1, <2>4, <2>5 DEF GoesWell
<1>4. CASE WaitForAnswer(e)
  <2>1. /\ UNCHANGED <<serving, offers, answers, outcomes, reloads, data>>
        /\ phase[e] = "offered"
    BY <1>4 DEF WaitForAnswer
  <2>2. Unopened(e) /\ AnswerComes(e)
    BY <2>1 DEF GoesWell, Opening, Talking, RequestComes
  <2>3. CASE Unhandled(e) = {} /\ PhaseBecomes(e, "waiting") /\ UNCHANGED buffered
    <3>1. ~IsBuffered(e)
      BY <2>3 DEF IsBuffered, Unhandled, TypeOK
    <3>2. phase'[e] = "waiting" /\ AnswerComes(e)'
      BY <2>1, <2>2, <2>3, <3>1 DEF TypeOK, PhaseBecomes, AnswerComes
    <3>3. AnsweredFirst(e)' /\ Unopened(e)'
      BY <1>2, <2>1, <2>2, <2>3 DEF GoesWell, AnsweredFirst, Unopened, data
    <3> QED
      BY <2>1, <3>2, <3>3 DEF GoesWell, Opening
  <2>4. CASE \E i \in Unhandled(e) :
                /\ PhaseBecomes(e, "opening")
                /\ applied' = [applied EXCEPT ![e] = buffered[i]]
                /\ buffered' = RemoveAt(buffered, i)
    <3>1. PICK i \in Unhandled(e) :
                /\ PhaseBecomes(e, "opening")
                /\ applied' = [applied EXCEPT ![e] = buffered[i]]
                /\ buffered' = RemoveAt(buffered, i)
      BY <2>4
    <3>2. i \in 1..Len(buffered) /\ buffered[i] = e
      BY IdsTell DEF GoesWell
    <3>3. serving[e] \in {"answered", "establishing"}
      <4>1. IsBuffered(e)
        BY <3>2 DEF IsBuffered
      <4> QED
        BY <2>2, <4>1 DEF GoesWell, AnsweredFirst, AnswerComes, OfferedOnce
    <3>4. phase'[e] = "opening" /\ applied'[e] = e
      BY <3>1, <3>2 DEF TypeOK, PhaseBecomes
    <3>5. Unopened(e)' /\ AnsweredFirst(e)'
      BY <2>1, <2>2, <3>3 DEF Unopened, AnsweredFirst, data
    <3> QED
      BY <2>1, <3>3, <3>4, <3>5 DEF GoesWell, Opening
  <2> QED
    BY <1>4, <2>3, <2>4 DEF WaitForAnswer
<1>5. CASE AnswerArrives(e)
  <2>1. /\ UNCHANGED <<serving, offers, outcomes, reloads, data>>
        /\ answers' = answers \ {e} /\ e \in answers
    BY <1>5 DEF AnswerArrives
  <2>2. /\ serving[e] \notin {"none", "answering"}
        /\ \A w \in Exchanges : corr[w] = corr[e] => w = e
    BY <2>1, IdsTell DEF GoesWell, AnsweredFirst
  <2>3. CASE phase[e] = "waiting"
    <3>1. phase'[e] = "opening" /\ applied'[e] = e
      BY <1>5, <2>2, <2>3 DEF TypeOK, AnswerArrives, PhaseBecomes
    <3>2. Unopened(e) /\ AnswerComes(e)
      BY <2>3 DEF GoesWell, Opening, Talking, RequestComes
    <3>3. serving[e] \in {"answered", "establishing"}
      BY <2>2, <3>2 DEF AnswerComes, OfferedOnce
    <3>4. Unopened(e)' /\ AnsweredFirst(e)'
      BY <2>1, <3>2, <3>3 DEF Unopened, AnsweredFirst, data
    <3> QED
      BY <2>1, <3>1, <3>3, <3>4 DEF GoesWell, Opening
  <2>4. CASE phase[e] # "waiting"
    <3>1. UNCHANGED <<phase, applied>> /\ buffered' = Buffered(e)
      BY <1>5, <2>2, <2>4 DEF AnswerArrives
    <3>2. IsBuffered(e)'
      <4>1. buffered \in Seq(Exchanges) /\ Tail(<<e>>) = <<>>
        BY DEF TypeOK
      <4>2. ASSUME NEW s \in Seq(Exchanges)
            PROVE  Len(s) + 1 \in 1..Len(Append(s, e)) /\ Append(s, e)[Len(s) + 1] = e
        OBVIOUS
      <4>3. \E s \in Seq(Exchanges) : Buffered(e) = Append(s, e)
        <5>1. CASE Len(buffered) = MaxBuffered
          <6>1. Tail(buffered) \in Seq(Exchanges)
            BY <4>1, <5>1
          <6> QED
            BY <5>1, <6>1 DEF Buffered
        <5>2. CASE Len(buffered) # MaxBuffered
          BY <4>1, <5>2 DEF Buffered
        <5> QED
          BY <5>1, <5>2
      <4> QED
        BY <3>1, <4>2, <4>3 DEF IsBuffered
    <3>3. AnsweredFirst(e)'
      BY <2>1, <2>2 DEF AnsweredFirst
    <3>4. Opening(e) => Opening(e)'
      BY <2>1, <2>2, <2>4, <3>1, <3>2 DEF Opening, AnswerComes, OfferedOnce
    <3>5. /\ Unopened(e)' <=> Unopened(e)
          /\ Talking(e)' <=> Talking(e)
      BY <2>1, <3>1 DEF Unopened, Talking, RequestComes, data
    <3> QED
      BY <2>1, <3>3, <3>4, <3>5 DEF GoesWell
  <2> QED
    BY <2>3, <2>4
<1>6. CASE OfferHangs(e) \/ LoseSignal(e)
  BY <1>1, <1>6 DEF OfferHangs, LoseSignal
<1> QED
  BY <1>3, <1>4, <1>5, <1>6

LEMMA ServingGoesWell ==
    ASSUME IInv, NEW e \in Exchanges, GoesWell(e), ~trouble[e], ~trouble'[e],
           \/ OfferArrives(e) \/ ServerTakesAnswer(e) \/ AnswerHangs(e)
           \/ WaitForChannel(e) \/ AckArrives(e) \/ IncomingFails(e) \/ AckMissed(e)
    PROVE  GoesWell(e)'
<1> USE DEF IInv
<1>1. ~Trouble(e)
  BY DEF TypeOK, Trouble
<1>2. UNCHANGED <<phase, applied, buffered, reloads>>
  BY DEF OfferArrives, ServerTakesAnswer, AnswerHangs, WaitForChannel, AckArrives,
         IncomingFails, AckMissed, signalling
<1>3. IsBuffered(e)' <=> IsBuffered(e)
  BY <1>2 DEF IsBuffered
<1>4. CASE OfferArrives(e)
  <2>1. /\ e \in offers /\ serving[e] = "none" /\ phase[e] \notin {"idle", "offering"}
        /\ serving'[e] = "answering"
        /\ UNCHANGED <<answers, data>>
    BY <1>4 DEF TypeOK, OfferArrives, ServingBecomes, OfferedOnce
  <2>2. Unopened(e) /\ phase[e] \in {"offered", "waiting"}
    BY <2>1 DEF GoesWell, Talking, Opening
  <2>3. e \notin answers /\ ~IsBuffered(e)
    BY <2>1 DEF GoesWell, AnsweredFirst
  <2> QED
    BY <1>2, <1>3, <2>1, <2>2, <2>3
    DEF GoesWell, AnsweredFirst, Unopened, Opening, AnswerComes, data
<1>5. CASE ServerTakesAnswer(e)
  <2>1. /\ serving[e] = "answering" /\ serving'[e] = "answered"
        /\ e \in answers'
        /\ UNCHANGED <<open, sent, early>>
    BY <1>1, <1>5 DEF TypeOK, ServerTakesAnswer, ServingBecomes
  <2>2. Unopened(e) /\ phase[e] \in {"offered", "waiting"}
    BY <2>1 DEF GoesWell, Talking, Opening, OfferedOnce
  <2> QED
    BY <1>2, <2>1, <2>2 DEF GoesWell, AnsweredFirst, Unopened, Opening, AnswerComes
<1>6. CASE WaitForChannel(e)
  <2>1. /\ serving[e] = "answered" /\ serving'[e] = "establishing"
        /\ UNCHANGED <<signalling, data, outcomes>>
    BY <1>6 DEF TypeOK, WaitForChannel, ServingBecomes
  <2>2. AnsweredFirst(e)' /\ (Unopened(e)' <=> Unopened(e))
    BY <2>1 DEF AnsweredFirst, Unopened, data
  <2>3. Opening(e) => Opening(e)'
    BY <1>2, <1>3, <2>1 DEF Opening, AnswerComes, signalling
  <2>4. Talking(e) => Talking(e)'
    BY <1>2, <2>1 DEF Talking, RequestComes, data
  <2> QED
    BY <1>2, <2>2, <2>3, <2>4 DEF GoesWell
<1>7. CASE AckArrives(e)
  <2>1. /\ serving[e] = "confirming" /\ "ack" \in sent[e]
        /\ EndServing(e, "completed")
        /\ UNCHANGED signalling
    BY <1>7 DEF AckArrives
  <2>2. phase[e] \in {"acking", "resolved"} /\ sent[e] = {"ack"}
    BY <2>1 DEF GoesWell, Unopened, Talking, RequestComes
  <2>3. outcomes[e] = <<>>
    <3>1. outcomes[e] \in Seq({"completed", "failed"}) /\ Len(outcomes[e]) = 0
      BY <2>1 DEF TypeOK, OneOutcome
    <3> QED
      BY <3>1
  <2>4. serving'[e] = "closed" /\ outcomes'[e] = <<"completed">>
    BY <2>1, <2>3 DEF TypeOK, EndServing, ServingBecomes
  <2>5. sent'[e] = {}
    <3>1. sent'[e] = sent[e] \ {"ack"}
      BY <1>7 DEF TypeOK, AckArrives
    <3> QED
      BY <2>2, <3>1
  <2> QED
    BY <1>2, <2>2, <2>4, <2>5 DEF GoesWell, AnsweredFirst, Talking
<1>8. CASE AnswerHangs(e) \/ IncomingFails(e) \/ AckMissed(e)
  BY <1>1, <1>8 DEF AnswerHangs, IncomingFails, AckMissed
<1> QED
  BY <1>4, <1>5, <1>6, <1>7, <1>8

LEMMA ChannelGoesWell ==
    ASSUME IInv, NEW e \in Exchanges, GoesWell(e), ~trouble[e], ~trouble'[e],
           \/ ChannelOpens(e) \/ ChannelBreaks(e)
           \/ SendShuffleRequest(e) \/ ProcessShuffleResponse(e)
           \/ CloseOutgoing(e) \/ OutgoingFails(e)
           \/ ReceiveRequest(e) \/ RequestArrives(e)
    PROVE  GoesWell(e)'
<1> USE DEF IInv
<1>1. ~Trouble(e)
  BY DEF TypeOK, Trouble
<1>2. UNCHANGED <<signalling, outcomes, reloads>>
  BY DEF ChannelOpens, ChannelBreaks, SendShuffleRequest, ProcessShuffleResponse,
         CloseOutgoing, OutgoingFails, ReceiveRequest, RequestArrives
<1>3. \A now \in Servings : now \notin {"none", "answering"} /\ serving'[e] = now
        => AnsweredFirst(e)'
  BY DEF AnsweredFirst
<1>4. UNCHANGED serving => AnsweredFirst(e)'
  BY <1>2 DEF GoesWell, AnsweredFirst, IsBuffered, signalling
<1>5. CASE ChannelOpens(e)
  <2>1. /\ phase[e] = "opening" /\ open[e] = {"never"}
        /\ serving[e] \in {"answered", "hung", "establishing"}
        /\ open'[e] = {"out", "in"}
        /\ UNCHANGED <<phase, serving, sent, early>>
    BY <1>5 DEF TypeOK, ChannelOpens
  <2>2. {"never"} # {"out", "in"}
    OBVIOUS
  <2>3. Unopened(e) /\ serving[e] \in {"answered", "establishing"}
    BY <2>1, <2>2 DEF GoesWell, Unopened, Opening, Talking
  <2>4. Talking(e)'
    BY <2>1, <2>3 DEF Unopened, Talking, RequestComes
  <2> QED
    BY <1>2, <1>4, <2>1, <2>4 DEF GoesWell
<1>6. CASE ChannelBreaks(e)
  <2>1. /\ UNCHANGED <<phase, serving, sent, early>>
        /\ open[e] # {"never"}
        /\ open[e] # {"out", "in"} /\ sent[e] = {}
    BY <1>6 DEF TypeOK, ChannelBreaks
  <2>2. /\ serving[e] = "closed"
        /\ phase[e] \in {"acking", "resolved"} /\ outcomes[e] = <<"completed">>
    BY <2>1 DEF GoesWell, Unopened, Talking
  <2>3. Talking(e)'
    BY <1>2, <2>1, <2>2 DEF Talking
  <2> QED
    BY <1>2, <1>4, <2>1, <2>3 DEF GoesWell
<1>7. CASE SendShuffleRequest(e)
  <2>1. /\ phase[e] = "opening" /\ "out" \in open[e]
        /\ phase'[e] = "awaiting" /\ sent'[e] = sent[e] \cup {"request"}
        /\ UNCHANGED <<serving, open, early>>
    BY <1>7 DEF TypeOK, SendShuffleRequest, PhaseBecomes, Send
  <2>2. /\ open[e] = {"out", "in"}
        /\ serving[e] \in {"answered", "establishing", "receiving"}
        /\ sent[e] = {} /\ e \notin early
    BY <2>1 DEF GoesWell, Unopened, Talking, RequestComes
  <2>3. Talking(e)'
    BY <2>1, <2>2 DEF Talking, RequestComes
  <2> QED
    BY <1>2, <1>4, <2>1, <2>3 DEF GoesWell
<1>8. CASE ProcessShuffleResponse(e)
  <2>1. /\ phase[e] = "awaiting" /\ "response" \in sent[e]
        /\ phase'[e] = "acking" /\ sent'[e] = (sent[e] \ {"response"}) \cup {"ack"}
        /\ UNCHANGED <<serving, open>>
    BY <1>8 DEF TypeOK, ProcessShuffleResponse, PhaseBecomes
  <2>2. /\ open[e] = {"out", "in"} /\ serving[e] = "confirming"
        /\ sent[e] = {"response"}
    BY <2>1 DEF GoesWell, Unopened, Talking, RequestComes
  <2>3. Talking(e)'
    <3>1. sent'[e] = {"ack"}
      BY <2>1, <2>2
    <3> QED
      BY <2>1, <2>2, <3>1 DEF Talking
  <2> QED
    BY <1>2, <1>4, <2>1, <2>3 DEF GoesWell
<1>9. CASE CloseOutgoing(e)
  <2>1. /\ phase[e] = "acking" /\ phase'[e] = "resolved"
        /\ open'[e] = open[e] \ {"out"}
        /\ UNCHANGED <<serving, sent>>
    BY <1>9 DEF TypeOK, CloseOutgoing, PhaseBecomes, Close
  <2>2. \/ /\ open[e] = {"out", "in"} /\ serving[e] = "confirming" /\ sent[e] = {"ack"}
        \/ serving[e] = "closed" /\ sent[e] = {} /\ outcomes[e] = <<"completed">>
    BY <2>1 DEF GoesWell, Opening, Talking, RequestComes
  <2>3. open[e] = {"out", "in"} => open'[e] = {"in"}
    BY <2>1
  <2>4. Talking(e)'
    BY <1>2, <2>1, <2>2, <2>3 DEF Talking
  <2> QED
    BY <1>2, <1>4, <2>1, <2>4 DEF GoesWell
<1>10. CASE OutgoingFails(e)
  BY <1>1, <1>10 DEF OutgoingFails
<1>11. CASE ReceiveRequest(e)
  <2>1. /\ serving[e] = "establishing" /\ "in" \in open[e]
        /\ UNCHANGED <<phase, open>>
        /\ early' = early \ {e}
    BY <1>11 DEF ReceiveRequest
  <2>2. open[e] = {"out", "in"} /\ RequestComes(e)
    BY <2>1 DEF GoesWell, Unopened, Talking
  <2>3. CASE e \in early
    <3>1. serving'[e] = "confirming" /\ sent'[e] = (sent[e] \ {"request"}) \cup {"response"}
      BY <1>11, <2>3 DEF TypeOK, ReceiveRequest, Serve, ServingBecomes
    <3>2. phase[e] = "awaiting" /\ sent[e] = {}
      BY <2>2, <2>3 DEF RequestComes
    <3>3. sent'[e] = {"response"}
      BY <3>1, <3>2
    <3>4. Talking(e)' /\ AnsweredFirst(e)'
      BY <2>1, <2>2, <3>1, <3>2, <3>3 DEF Talking, AnsweredFirst
    <3> QED
      BY <1>2, <3>4 DEF GoesWell
  <2>4. CASE e \notin early
    <3>1. serving'[e] = "receiving" /\ UNCHANGED sent
      BY <1>11, <2>4 DEF TypeOK, ReceiveRequest, ServingBecomes
    <3>2. Talking(e)' /\ AnsweredFirst(e)'
      BY <2>1, <2>2, <2>4, <3>1 DEF Talking, RequestComes, AnsweredFirst
    <3> QED
      BY <1>2, <3>2 DEF GoesWell
  <2> QED
    BY <2>3, <2>4
<1>12. CASE RequestArrives(e)
  <2>1. /\ "request" \in sent[e] /\ "in" \in open[e]
        /\ UNCHANGED <<phase, open>>
    BY <1>12 DEF RequestArrives
  <2>2. /\ open[e] = {"out", "in"} /\ phase[e] = "awaiting"
        /\ sent[e] = {"request"} /\ e \notin early
        /\ serving[e] \in {"answered", "establishing", "receiving"}
    <3>1. sent[e] \notin {{}, {"response"}, {"ack"}}
      BY <2>1
    <3>2. Talking(e)
      BY <3>1 DEF GoesWell, Unopened
    <3>3. /\ open[e] = {"out", "in"} /\ RequestComes(e)
          /\ serving[e] \in {"answered", "establishing", "receiving"}
      BY <3>1, <3>2 DEF Talking
    <3> QED
      BY <3>1, <3>3 DEF RequestComes
  <2>3. CASE serving[e] = "receiving"
    <3>1. serving'[e] = "confirming" /\ sent'[e] = (sent[e] \ {"request"}) \cup {"response"}
      BY <1>12, <2>3 DEF TypeOK, RequestArrives, Serve, ServingBecomes
    <3>2. sent'[e] = {"response"}
      BY <2>2, <3>1
    <3>3. Talking(e)' /\ AnsweredFirst(e)'
      BY <2>1, <2>2, <3>1, <3>2 DEF Talking, AnsweredFirst
    <3> QED
      BY <1>2, <3>3 DEF GoesWell
  <2>4. CASE serving[e] # "receiving"
    <3>1. /\ UNCHANGED serving /\ e \in early'
          /\ sent'[e] = sent[e] \ {"request"}
      BY <1>12, <2>4 DEF TypeOK, RequestArrives
    <3>2. sent'[e] = {}
      BY <2>2, <3>1
    <3>3. Talking(e)'
      BY <2>1, <2>2, <2>4, <3>1, <3>2 DEF Talking, RequestComes
    <3> QED
      BY <1>2, <1>4, <3>1, <3>3 DEF GoesWell
  <2> QED
    BY <2>3, <2>4
<1> QED
  BY <1>5, <1>6, <1>7, <1>8, <1>9, <1>10, <1>11, <1>12

(* What has gone wrong has gone wrong for good.                            *)
LEMMA TroubleStays ==
    ASSUME TypeOK, NEW f \in Exchanges, StepOf(f), NEW e \in Exchanges, trouble[e]
    PROVE  trouble'[e]
<1>1. ASSUME UNCHANGED trouble \/ Trouble(f)
      PROVE  trouble'[e]
  BY <1>1 DEF TypeOK, Trouble
<1>2. CASE AnswerArrives(f)
  BY <1>2 DEF TypeOK, AnswerArrives
<1>3. CASE ChannelBreaks(f)
  BY <1>3 DEF TypeOK, ChannelBreaks
<1>4. CASE \/ SendOffer(f) \/ ServerTakesOffer(f) \/ OfferHangs(f) \/ WaitForAnswer(f)
           \/ SendShuffleRequest(f) \/ ProcessShuffleResponse(f)
           \/ CloseOutgoing(f) \/ OutgoingFails(f) \/ LoseSignal(f)
  BY <1>1, <1>4
  DEF SendOffer, ServerTakesOffer, OfferHangs, WaitForAnswer, SendShuffleRequest,
      ProcessShuffleResponse, CloseOutgoing, OutgoingFails, LoseSignal
<1>5. CASE \/ OfferArrives(f) \/ ServerTakesAnswer(f) \/ AnswerHangs(f)
           \/ WaitForChannel(f) \/ AckArrives(f) \/ IncomingFails(f) \/ AckMissed(f)
           \/ ChannelOpens(f) \/ ReceiveRequest(f) \/ RequestArrives(f)
  BY <1>1, <1>5
  DEF OfferArrives, ServerTakesAnswer, AnswerHangs, WaitForChannel, AckArrives,
      IncomingFails, AckMissed, ChannelOpens, ReceiveRequest, RequestArrives
<1> QED
  BY <1>2, <1>3, <1>4, <1>5 DEF StepOf, Advance, Fail

LEMMA RunsSmoothlyStep == IInv /\ RunsSmoothly /\ [Next]_vars => RunsSmoothly'
<1> SUFFICES ASSUME IInv, RunsSmoothly, [Next]_vars PROVE RunsSmoothly'
  OBVIOUS
<1>1. ASSUME NEW f \in Exchanges, StepOf(f), NEW e \in Exchanges, ~trouble'[e]
      PROVE  GoesWell(e)'
  <2>1. ~trouble[e] /\ GoesWell(e)
    BY <1>1, TroubleStays DEF IInv, RunsSmoothly
  <2>2. CASE e # f
    BY <1>1, <2>1, <2>2, OthersAreLeft, Elsewhere DEF GoesWell
  <2>3. CASE e = f
    BY <1>1, <2>1, <2>3, OpeningGoesWell, ServingGoesWell, ChannelGoesWell
    DEF StepOf, Advance, Fail
  <2> QED
    BY <2>2, <2>3
<1>2. CASE Reload
  BY <1>2 DEF Reload, RunsSmoothly
<1>3. CASE UNCHANGED vars
  <2>1. ASSUME NEW e \in Exchanges
        PROVE  SameEnds(e) /\ SameSignals(e) /\ SameData(e)
    BY <1>3 DEF vars, signalling, data, SameEnds, SameSignals, SameData, IsBuffered
  <2>2. UNCHANGED trouble
    BY <1>3 DEF vars
  <2> QED
    BY <2>1, <2>2, Elsewhere DEF RunsSmoothly
<1> QED
  BY <1>1, <1>2, <1>3 DEF Next, StepOf, RunsSmoothly

LEMMA SmoothHasNext == RunsSmoothly => AlwaysANextStep
<1> SUFFICES ASSUME RunsSmoothly, NEW e \in Exchanges, phase[e] # "idle", ~trouble[e]
             PROVE  \/ CanAdvance(e)
                    \/ phase[e] = "resolved" /\ outcomes[e] = <<"completed">>
  BY DEF AlwaysANextStep
<1>1. GoesWell(e)
  BY DEF RunsSmoothly
<1>2. CASE Unopened(e) /\ Opening(e)
  BY <1>2 DEF CanAdvance, Unopened, Opening, AnswerComes
<1>3. CASE Talking(e)
  BY <1>3 DEF CanAdvance, Talking, RequestComes
<1> QED
  BY <1>1, <1>2, <1>3 DEF GoesWell

(* A shuffle that has met with no loss, refusal or timeout is never in a   *)
(* state where neither end can go on, for any number of other shuffles     *)
(* under way and however their answers overtake each other: one of its     *)
(* guards holds, or it has succeeded at both ends.                         *)
THEOREM NeitherEndIsStuck == Spec => []AlwaysANextStep
<1>1. Init => RunsSmoothly
  <2> SUFFICES ASSUME Init, NEW e \in Exchanges PROVE GoesWell(e)
    BY DEF RunsSmoothly
  <2>1. ~IsBuffered(e)
    BY DEF Init, IsBuffered
  <2> QED
    BY <2>1 DEF Init, GoesWell, AnsweredFirst, Unopened, Opening
<1>2. Init /\ [][Next]_vars /\ []IInv => []RunsSmoothly
  BY <1>1, RunsSmoothlyStep, PTL
<1> QED
  BY <1>2, SmoothHasNext, SpecIInv, PTL DEF Spec

------------------------------------------------------------------------------
(* ShuffleStats: what the pages count.                                     *)

OverSet == {e \in Exchanges : Over(e)}

Resolved == {e \in Exchanges : phase[e] = "resolved"}

Closed == {e \in Exchanges : serving[e] = "closed"}

Completed == {e \in Exchanges : outcomes[e] = <<"completed">>}

StatsTypes ==
    /\ stats = [direction \in {"incoming", "outgoing"} |-> stats[direction]]
    /\ \A direction \in {"incoming", "outgoing"} :
        stats[direction] \in [outstanding : Int, events : [Windows[direction] -> Nat]]

OutgoingCounted ==
    /\ stats["outgoing"].outstanding = Cardinality(UnderWay)
    /\ Total("outgoing") <= Cardinality(OverSet)
    /\ stats["outgoing"].events["successes"] <= Cardinality(Resolved)

IncomingCounted ==
    /\ stats["incoming"].outstanding = Cardinality(BeingServed)
    /\ Total("incoming") = Cardinality(Closed)
    /\ stats["incoming"].events["successes"] = Cardinality(Completed)

(* A success has been acknowledged, hence the response has been handled.   *)
Acknowledged ==
    \A e \in Exchanges :
        phase[e] \in {"acking", "resolved"} => "response" \in handled[e]

StatsIInv ==
    /\ IInv
    /\ StatsTypes
    /\ Acknowledged
    /\ OutgoingCounted
    /\ IncomingCounted

(* What an event does to the numbers.                                      *)
LEMMA StartedFacts ==
    ASSUME StatsTypes, NEW direction \in {"incoming", "outgoing"},
           stats' = HandleShuffleStarted(direction)
    PROVE  /\ StatsTypes'
           /\ stats'[direction].outstanding = stats[direction].outstanding + 1
           /\ stats'[direction].events = stats[direction].events
           /\ \A d \in {"incoming", "outgoing"} \ {direction} : stats'[d] = stats[d]
<1> DEFINE after == [stats[direction] EXCEPT !.outstanding = @ + 1]
<1>1. after \in [outstanding : Int, events : [Windows[direction] -> Nat]]
  BY DEF StatsTypes
<1>2. /\ after.outstanding = stats[direction].outstanding + 1
      /\ after.events = stats[direction].events
  BY DEF StatsTypes
<1>3. stats' = [stats EXCEPT ![direction] = after]
  BY DEF HandleShuffleStarted
<1> HIDE DEF after
<1>4. /\ stats'[direction] = after
      /\ \A d \in {"incoming", "outgoing"} \ {direction} : stats'[d] = stats[d]
      /\ stats' = [d \in {"incoming", "outgoing"} |-> stats'[d]]
  BY <1>3 DEF StatsTypes
<1> QED
  BY <1>1, <1>2, <1>4 DEF StatsTypes

LEMMA EndedFacts ==
    ASSUME StatsTypes, NEW direction \in {"incoming", "outgoing"},
           NEW window \in Windows[direction], stats' = Ended(direction, window)
    PROVE  /\ StatsTypes'
           /\ stats'[direction].outstanding = stats[direction].outstanding - 1
           /\ \A w \in Windows[direction] : stats'[direction].events[w] =
                IF w = window THEN stats[direction].events[w] + 1
                              ELSE stats[direction].events[w]
           /\ \A d \in {"incoming", "outgoing"} \ {direction} : stats'[d] = stats[d]
<1> DEFINE events == [stats[direction].events EXCEPT ![window] = @ + 1]
           fewer == [stats[direction] EXCEPT !.outstanding = @ - 1]
           after == [fewer EXCEPT !.events = events]
<1>1. /\ stats[direction] \in [outstanding : Int, events : [Windows[direction] -> Nat]]
      /\ stats[direction].outstanding \in Int
      /\ stats[direction].events \in [Windows[direction] -> Nat]
  BY DEF StatsTypes
<1>2. /\ events \in [Windows[direction] -> Nat]
      /\ \A w \in Windows[direction] : events[w] =
            IF w = window THEN stats[direction].events[w] + 1
                          ELSE stats[direction].events[w]
  BY <1>1
<1>3. stats' = [stats EXCEPT ![direction] = after]
  BY DEF Ended, StatsTypes
<1> HIDE DEF events
<1>4. /\ fewer \in [outstanding : Int, events : [Windows[direction] -> Nat]]
      /\ fewer.outstanding = stats[direction].outstanding - 1
  BY <1>1
<1> HIDE DEF fewer
<1>5. /\ after \in [outstanding : Int, events : [Windows[direction] -> Nat]]
      /\ after.outstanding = fewer.outstanding
      /\ after.events = events
  BY <1>2, <1>4
<1> HIDE DEF after
<1>6. /\ stats'[direction] = after
      /\ \A d \in {"incoming", "outgoing"} \ {direction} : stats'[d] = stats[d]
      /\ stats' = [d \in {"incoming", "outgoing"} |-> stats'[d]]
  BY <1>3 DEF StatsTypes
<1> QED
  BY <1>2, <1>4, <1>5, <1>6 DEF StatsTypes

LEMMA TotalFacts ==
    ASSUME StatsTypes
    PROVE  /\ Total("incoming") \in Nat
           /\ Total("outgoing") \in Nat
           /\ stats["outgoing"].events["successes"] \in Nat
           /\ stats["incoming"].events["successes"] \in Nat
BY DEF StatsTypes, Total, Windows

LEMMA TotalGrows ==
    ASSUME StatsTypes, NEW direction \in {"incoming", "outgoing"},
           NEW window \in Windows[direction], stats' = Ended(direction, window)
    PROVE  /\ Total(direction)' = Total(direction) + 1
           /\ stats'[direction].events["successes"] =
                stats[direction].events["successes"]
                    + IF window = "successes" THEN 1 ELSE 0
<1>1. \A w \in Windows[direction] : stats'[direction].events[w] =
            IF w = window THEN stats[direction].events[w] + 1
                          ELSE stats[direction].events[w]
  BY EndedFacts
<1>2. stats[direction].events \in [Windows[direction] -> Nat]
  BY DEF StatsTypes
<1>3. CASE direction = "incoming"
  BY <1>1, <1>2, <1>3 DEF Total, Windows
<1>4. CASE direction = "outgoing"
  BY <1>1, <1>2, <1>4 DEF Total, Windows
<1> QED
  BY <1>3, <1>4

(* The sets of shuffles that are counted.                                  *)
LEMMA CountFacts ==
    /\ \A S \in SUBSET Exchanges : Cardinality(S) \in Nat
    /\ \A S \in SUBSET Exchanges : \A e \in Exchanges \ S :
        Cardinality(S \cup {e}) = Cardinality(S) + 1
    /\ \A S \in SUBSET Exchanges : \A e \in S :
        Cardinality(S \ {e}) = Cardinality(S) - 1
    /\ \A S, T \in SUBSET Exchanges :
        S \subseteq T => Cardinality(S) <= Cardinality(T)
    /\ \A S, T \in SUBSET Exchanges :
        Cardinality(S \cup T) <= Cardinality(S) + Cardinality(T)
<1>1. \A S \in SUBSET Exchanges : IsFiniteSet(S)
  BY FS_Subset
<1>2. \A S \in SUBSET Exchanges : Cardinality(S) \in Nat
  BY <1>1, FS_CardinalityType
<1>3. \A S \in SUBSET Exchanges : \A e \in Exchanges \ S :
        Cardinality(S \cup {e}) = Cardinality(S) + 1
  BY <1>1, FS_AddElement
<1>4. \A S \in SUBSET Exchanges : \A e \in S :
        Cardinality(S \ {e}) = Cardinality(S) - 1
  BY <1>1, FS_RemoveElement
<1>5. \A S, T \in SUBSET Exchanges :
        S \subseteq T => Cardinality(S) <= Cardinality(T)
  BY <1>1, FS_Subset
<1>6. ASSUME NEW S \in SUBSET Exchanges, NEW T \in SUBSET Exchanges
      PROVE  Cardinality(S \cup T) <= Cardinality(S) + Cardinality(T)
  <2>1. /\ IsFiniteSet(S) /\ IsFiniteSet(T)
        /\ S \cap T \in SUBSET Exchanges
    BY <1>1
  <2>2. Cardinality(S \cup T) = Cardinality(S) + Cardinality(T) - Cardinality(S \cap T)
    BY <2>1, FS_Union
  <2> QED
    BY <1>2, <2>1, <2>2
<1> QED
  BY <1>2, <1>3, <1>4, <1>5, <1>6

(* A shuffle starts, and ends, at the sender.                              *)
LEMMA OutgoingStarts ==
    ASSUME TypeOK, StatsTypes, OutgoingCounted, NEW e \in Exchanges,
           phase[e] = "idle", PhaseBecomes(e, "offering"),
           stats' = HandleShuffleStarted("outgoing")
    PROVE  OutgoingCounted'
<1>1. /\ UnderWay' = UnderWay \cup {e}
      /\ e \notin UnderWay
      /\ OverSet' = OverSet
      /\ Resolved' = Resolved
  BY DEF TypeOK, UnderWay, OverSet, Resolved, Over, PhaseBecomes
<1>2. Cardinality(UnderWay \cup {e}) = Cardinality(UnderWay) + 1
  <2>1. UnderWay \in SUBSET Exchanges /\ e \in Exchanges \ UnderWay
    BY <1>1 DEF UnderWay
  <2> QED
    BY <2>1, CountFacts
<1>3. /\ stats'["outgoing"].outstanding = stats["outgoing"].outstanding + 1
      /\ stats'["outgoing"].events = stats["outgoing"].events
  BY StartedFacts
<1>4. Total("outgoing")' = Total("outgoing")
  BY <1>3 DEF Total
<1> QED
  BY <1>1, <1>2, <1>3, <1>4 DEF OutgoingCounted

LEMMA OutgoingEnds ==
    ASSUME TypeOK, StatsTypes, OutgoingCounted,
           NEW e \in Exchanges, e \in UnderWay,
           NEW end \in {"resolved", "rejected"}, PhaseBecomes(e, end),
           NEW window \in Windows["outgoing"], stats' = Ended("outgoing", window),
           window = "successes" => end = "resolved"
    PROVE  OutgoingCounted'
<1>1. /\ UnderWay' = UnderWay \ {e}
      /\ OverSet' = OverSet \cup {e}
      /\ e \notin OverSet
      /\ e \notin Resolved
      /\ Resolved' = IF end = "resolved" THEN Resolved \cup {e} ELSE Resolved
  BY DEF TypeOK, UnderWay, OverSet, Resolved, Over, PhaseBecomes
<1>2. /\ UnderWay \in SUBSET Exchanges /\ e \in UnderWay
      /\ OverSet \in SUBSET Exchanges /\ e \in Exchanges \ OverSet
      /\ Resolved \in SUBSET Exchanges /\ e \in Exchanges \ Resolved
  BY <1>1 DEF UnderWay, OverSet, Resolved
<1>3. /\ Cardinality(UnderWay)' = Cardinality(UnderWay) - 1
      /\ Cardinality(OverSet)' = Cardinality(OverSet) + 1
      /\ Cardinality(Resolved)' =
            Cardinality(Resolved) + IF end = "resolved" THEN 1 ELSE 0
      /\ Cardinality(OverSet) \in Nat
      /\ Cardinality(Resolved) \in Nat
  <2>1. Cardinality(UnderWay \ {e}) = Cardinality(UnderWay) - 1
    BY <1>2, CountFacts
  <2>2. /\ Cardinality(OverSet \cup {e}) = Cardinality(OverSet) + 1
        /\ Cardinality(Resolved \cup {e}) = Cardinality(Resolved) + 1
        /\ Cardinality(OverSet) \in Nat
        /\ Cardinality(Resolved) \in Nat
    BY <1>2, CountFacts
  <2> QED
    BY <1>1, <2>1, <2>2
<1>4. stats'["outgoing"].outstanding = stats["outgoing"].outstanding - 1
  BY EndedFacts
<1>5. /\ Total("outgoing")' = Total("outgoing") + 1
      /\ stats'["outgoing"].events["successes"] =
            stats["outgoing"].events["successes"]
                + IF window = "successes" THEN 1 ELSE 0
  BY TotalGrows
<1>6. Total("outgoing") \in Nat /\ stats["outgoing"].events["successes"] \in Nat
  BY TotalFacts
<1> QED
  BY <1>3, <1>4, <1>5, <1>6 DEF OutgoingCounted

(* The same at the destination.                                            *)
LEMMA IncomingStarts ==
    ASSUME TypeOK, StatsTypes, IncomingCounted, NEW e \in Exchanges,
           serving[e] = "none", ServingBecomes(e, "answering"),
           UNCHANGED outcomes, stats' = HandleShuffleStarted("incoming")
    PROVE  IncomingCounted'
<1>1. /\ BeingServed' = BeingServed \cup {e}
      /\ e \notin BeingServed
      /\ Closed' = Closed
      /\ Completed' = Completed
  BY DEF TypeOK, BeingServed, Closed, Completed, ServingBecomes
<1>2. Cardinality(BeingServed \cup {e}) = Cardinality(BeingServed) + 1
  <2>1. BeingServed \in SUBSET Exchanges /\ e \in Exchanges \ BeingServed
    BY <1>1 DEF BeingServed
  <2> QED
    BY <2>1, CountFacts
<1>3. /\ stats'["incoming"].outstanding = stats["incoming"].outstanding + 1
      /\ stats'["incoming"].events = stats["incoming"].events
  BY StartedFacts
<1>4. Total("incoming")' = Total("incoming")
  BY <1>3 DEF Total
<1> QED
  BY <1>1, <1>2, <1>3, <1>4 DEF IncomingCounted

LEMMA IncomingEnds ==
    ASSUME TypeOK, OneOutcome, StatsTypes, IncomingCounted,
           NEW e \in Exchanges, e \in BeingServed,
           NEW outcome \in {"completed", "failed"}, EndServing(e, outcome),
           NEW window \in Windows["incoming"], stats' = Ended("incoming", window),
           window = "successes" <=> outcome = "completed"
    PROVE  IncomingCounted'
<1>1. outcomes[e] = <<>>
  <2>1. outcomes[e] \in Seq({"completed", "failed"}) /\ Len(outcomes[e]) = 0
    BY DEF TypeOK, OneOutcome, BeingServed
  <2> QED
    BY <2>1
<1>2. /\ outcomes' = [outcomes EXCEPT ![e] = <<outcome>>]
  <2>1. Append(outcomes[e], outcome) = <<outcome>>
    BY <1>1
  <2> QED
    BY <2>1 DEF EndServing
<1>3. /\ BeingServed' = BeingServed \ {e}
      /\ Closed' = Closed \cup {e}
      /\ e \notin Closed
  BY DEF TypeOK, BeingServed, Closed, EndServing, ServingBecomes
<1>4. /\ e \notin Completed
      /\ Completed' = IF outcome = "completed" THEN Completed \cup {e} ELSE Completed
  <2>1. /\ <<outcome>> = <<"completed">> <=> outcome = "completed"
        /\ <<>> # <<"completed">>
    OBVIOUS
  <2>2. outcomes'[e] = <<outcome>> /\ \A f \in Exchanges \ {e} : outcomes'[f] = outcomes[f]
    BY <1>2 DEF TypeOK
  <2> QED
    BY <1>1, <2>1, <2>2 DEF Completed
<1>5. /\ BeingServed \in SUBSET Exchanges /\ e \in BeingServed
      /\ Closed \in SUBSET Exchanges /\ e \in Exchanges \ Closed
      /\ Completed \in SUBSET Exchanges /\ e \in Exchanges \ Completed
  BY <1>3, <1>4 DEF BeingServed, Closed, Completed
<1>6. /\ Cardinality(BeingServed)' = Cardinality(BeingServed) - 1
      /\ Cardinality(Closed)' = Cardinality(Closed) + 1
      /\ Cardinality(Completed)' =
            Cardinality(Completed) + IF outcome = "completed" THEN 1 ELSE 0
      /\ Cardinality(Completed) \in Nat
  <2>1. Cardinality(BeingServed \ {e}) = Cardinality(BeingServed) - 1
    BY <1>5, CountFacts
  <2>2. /\ Cardinality(Closed \cup {e}) = Cardinality(Closed) + 1
        /\ Cardinality(Completed \cup {e}) = Cardinality(Completed) + 1
        /\ Cardinality(Completed) \in Nat
    BY <1>5, CountFacts
  <2> QED
    BY <1>3, <1>4, <2>1, <2>2
<1>7. stats'["incoming"].outstanding = stats["incoming"].outstanding - 1
  BY EndedFacts
<1>8. /\ Total("incoming")' = Total("incoming") + 1
      /\ stats'["incoming"].events["successes"] =
            stats["incoming"].events["successes"]
                + IF window = "successes" THEN 1 ELSE 0
  BY TotalGrows
<1> QED
  BY <1>6, <1>7, <1>8 DEF IncomingCounted

(* The numbers of a direction that a step does not concern.                *)
LEMMA OutgoingUnconcerned ==
    ASSUME StatsTypes, OutgoingCounted, stats'["outgoing"] = stats["outgoing"],
           UnderWay' = UnderWay, OverSet' = OverSet, Resolved' = Resolved
    PROVE  OutgoingCounted'
BY DEF OutgoingCounted, Total

LEMMA IncomingUnconcerned ==
    ASSUME StatsTypes, IncomingCounted, stats'["incoming"] = stats["incoming"],
           UNCHANGED <<serving, outcomes>>
    PROVE  IncomingCounted'
BY DEF IncomingCounted, Total, BeingServed, Closed, Completed

LEMMA SamePhases ==
    ASSUME UNCHANGED phase
    PROVE  UnderWay' = UnderWay /\ OverSet' = OverSet /\ Resolved' = Resolved
BY DEF UnderWay, OverSet, Resolved, Over

LEMMA OutgoingEventsCounted ==
    ASSUME StatsIInv, NEW e \in Exchanges, OutgoingEvents(e)
    PROVE  StatsTypes' /\ OutgoingCounted' /\ IncomingCounted'
<1> USE DEF StatsIInv, IInv
<1>1. /\ "outgoing" \in {"incoming", "outgoing"}
      /\ "incoming" \in {"incoming", "outgoing"} \ {"outgoing"}
  OBVIOUS
<1>2. UNCHANGED <<serving, outcomes>>
  BY DEF OutgoingEvents, SendOffer, ServerTakesOffer, CloseOutgoing, OutgoingFails
<1>3. CASE SendOffer(e) /\ stats' = HandleShuffleStarted("outgoing")
  <2>1. StatsTypes' /\ stats'["incoming"] = stats["incoming"]
    BY <1>1, <1>3, StartedFacts
  <2>2. phase[e] = "idle" /\ PhaseBecomes(e, "offering")
    BY <1>3 DEF SendOffer
  <2> QED
    BY <1>2, <1>3, <2>1, <2>2, OutgoingStarts, IncomingUnconcerned
<1>4. ASSUME NEW end \in {"resolved", "rejected"}, PhaseBecomes(e, end),
             e \in UnderWay,
             NEW window \in Windows["outgoing"], stats' = Ended("outgoing", window),
             window = "successes" => end = "resolved"
      PROVE  StatsTypes' /\ OutgoingCounted' /\ IncomingCounted'
  <2>1. StatsTypes' /\ stats'["incoming"] = stats["incoming"]
    BY <1>1, <1>4, EndedFacts
  <2> QED
    BY <1>2, <1>4, <2>1, OutgoingEnds, IncomingUnconcerned
<1>5. CASE /\ ServerTakesOffer(e)
           /\ stats' = IF phase'[e] = "rejected"
                       THEN HandleShuffleError("outgoing", "unreachable")
                       ELSE stats
  <2>1. phase[e] = "offering" /\ phase \in [Exchanges -> Phases]
    BY <1>5 DEF ServerTakesOffer, TypeOK
  <2>2. CASE PhaseBecomes(e, "rejected")
    <3>1. phase'[e] = "rejected"
      BY <2>1, <2>2 DEF PhaseBecomes
    <3>2. stats' = Ended("outgoing", "unreachable")
      BY <1>5, <3>1 DEF HandleShuffleError
    <3>3. e \in UnderWay
      BY <2>1 DEF UnderWay, Over
    <3> QED
      BY <1>4, <2>2, <3>2, <3>3 DEF Windows
  <2>3. CASE PhaseBecomes(e, "offered")
    <3>1. phase'[e] = "offered"
      BY <2>1, <2>3 DEF PhaseBecomes
    <3>2. stats' = stats
      BY <1>5, <3>1
    <3>3. UnderWay' = UnderWay /\ OverSet' = OverSet /\ Resolved' = Resolved
      BY <2>1, <2>3 DEF UnderWay, OverSet, Resolved, Over, PhaseBecomes
    <3> QED
      BY <1>2, <3>2, <3>3, OutgoingUnconcerned, IncomingUnconcerned DEF StatsTypes
  <2> QED
    BY <1>5, <2>2, <2>3 DEF ServerTakesOffer
<1>6. CASE CloseOutgoing(e) /\ stats' = HandleShuffleCompleted("outgoing")
  <2>1. phase[e] = "acking" /\ PhaseBecomes(e, "resolved")
    BY <1>6 DEF CloseOutgoing
  <2>2. e \in UnderWay
    BY <2>1 DEF UnderWay, Over
  <2>3. stats' = Ended("outgoing", "successes")
    BY <1>6 DEF HandleShuffleCompleted
  <2> QED
    BY <1>4, <2>1, <2>2, <2>3 DEF Windows
<1>7. CASE OutgoingFails(e) /\ stats' \in TimeoutOrError("outgoing")
  <2>1. phase[e] \in {"opening", "awaiting"} /\ PhaseBecomes(e, "rejected")
    BY <1>7 DEF OutgoingFails
  <2>2. e \in UnderWay
    BY <2>1 DEF UnderWay, Over
  <2>3. \/ stats' = Ended("outgoing", "timeouts")
        \/ stats' = Ended("outgoing", "errors")
    BY <1>7 DEF TimeoutOrError, HandleShuffleTimeout, HandleShuffleError
  <2> QED
    BY <1>4, <2>1, <2>2, <2>3 DEF Windows
<1> QED
  BY <1>3, <1>5, <1>6, <1>7 DEF OutgoingEvents

LEMMA IncomingEventsCounted ==
    ASSUME StatsIInv, NEW e \in Exchanges, IncomingEvents(e)
    PROVE  StatsTypes' /\ OutgoingCounted' /\ IncomingCounted'
<1> USE DEF StatsIInv, IInv
<1>1. /\ "incoming" \in {"incoming", "outgoing"}
      /\ "outgoing" \in {"incoming", "outgoing"} \ {"incoming"}
  OBVIOUS
<1>2. UnderWay' = UnderWay /\ OverSet' = OverSet /\ Resolved' = Resolved
  <2>1. UNCHANGED phase
    BY DEF IncomingEvents, OfferArrives, ServerTakesAnswer, AckArrives, AckMissed,
           IncomingFails
  <2> QED
    BY <2>1, SamePhases
<1>3. CASE OfferArrives(e) /\ stats' = HandleShuffleStarted("incoming")
  <2>1. StatsTypes' /\ stats'["outgoing"] = stats["outgoing"]
    BY <1>1, <1>3, StartedFacts
  <2>2. serving[e] = "none" /\ ServingBecomes(e, "answering") /\ UNCHANGED outcomes
    BY <1>3 DEF OfferArrives, OfferedOnce
  <2> QED
    BY <1>2, <1>3, <2>1, <2>2, IncomingStarts, OutgoingUnconcerned
<1>4. ASSUME NEW outcome \in {"completed", "failed"}, EndServing(e, outcome),
             e \in BeingServed,
             NEW window \in Windows["incoming"], stats' = Ended("incoming", window),
             window = "successes" <=> outcome = "completed"
      PROVE  StatsTypes' /\ OutgoingCounted' /\ IncomingCounted'
  <2>1. StatsTypes' /\ stats'["outgoing"] = stats["outgoing"]
    BY <1>1, <1>4, EndedFacts
  <2> QED
    BY <1>2, <1>4, <2>1, IncomingEnds, OutgoingUnconcerned
<1>5. CASE /\ ServerTakesAnswer(e)
           /\ stats' = IF serving'[e] = "closed"
                       THEN HandleShuffleError("incoming", "unreachable")
                       ELSE stats
  <2>1. serving[e] = "answering" /\ serving \in [Exchanges -> Servings]
    BY <1>5 DEF ServerTakesAnswer, TypeOK
  <2>2. CASE EndServing(e, "failed")
    <3>1. serving'[e] = "closed"
      BY <2>1, <2>2 DEF EndServing, ServingBecomes
    <3>2. stats' = Ended("incoming", "errors")
      BY <1>5, <3>1 DEF HandleShuffleError
    <3>3. e \in BeingServed
      BY <2>1 DEF BeingServed
    <3> QED
      BY <1>4, <2>2, <3>2, <3>3 DEF Windows
  <2>3. CASE ServingBecomes(e, "answered") /\ UNCHANGED outcomes
    <3>1. serving'[e] = "answered"
      BY <2>1, <2>3 DEF ServingBecomes
    <3>2. stats' = stats
      BY <1>5, <3>1
    <3>3. BeingServed' = BeingServed /\ Closed' = Closed /\ Completed' = Completed
      BY <2>1, <2>3 DEF BeingServed, Closed, Completed, ServingBecomes
    <3>4. StatsTypes' /\ IncomingCounted'
      BY <3>2, <3>3 DEF StatsTypes, IncomingCounted, Total
    <3> QED
      BY <1>2, <3>2, <3>4, OutgoingUnconcerned
  <2> QED
    BY <1>5, <2>2, <2>3 DEF ServerTakesAnswer
<1>6. CASE /\ AckArrives(e) \/ AckMissed(e)
           /\ stats' = HandleShuffleCompleted("incoming")
  <2>1. serving[e] = "confirming" /\ EndServing(e, "completed")
    BY <1>6 DEF AckArrives, AckMissed
  <2>2. e \in BeingServed
    BY <2>1 DEF BeingServed
  <2>3. stats' = Ended("incoming", "successes")
    BY <1>6 DEF HandleShuffleCompleted
  <2> QED
    BY <1>4, <2>1, <2>2, <2>3 DEF Windows
<1>7. CASE IncomingFails(e) /\ stats' \in TimeoutOrError("incoming")
  <2>1. serving[e] \in {"establishing", "receiving"} /\ EndServing(e, "failed")
    BY <1>7 DEF IncomingFails
  <2>2. e \in BeingServed
    BY <2>1 DEF BeingServed
  <2>3. \/ stats' = Ended("incoming", "timeouts")
        \/ stats' = Ended("incoming", "errors")
    BY <1>7 DEF TimeoutOrError, HandleShuffleTimeout, HandleShuffleError
  <2> QED
    BY <1>4, <2>1, <2>2, <2>3 DEF Windows
<1> QED
  BY <1>3, <1>5, <1>6, <1>7 DEF IncomingEvents

(* The other steps move no shuffle from one number to another.             *)
LEMMA NoEventCounted ==
    ASSUME StatsIInv, NEW e \in Exchanges, NoEvent(e)
    PROVE  StatsTypes' /\ OutgoingCounted' /\ IncomingCounted'
<1> USE DEF StatsIInv, IInv
<1>1. /\ UnderWay' = UnderWay /\ OverSet' = OverSet /\ Resolved' = Resolved
      /\ BeingServed' = BeingServed /\ Closed' = Closed
      /\ UNCHANGED outcomes
  <2>1. ASSUME NEW f \in Exchanges, NEW p \in Phases \ {"idle", "resolved", "rejected", "gone"},
               phase[f] \notin {"idle", "resolved", "rejected", "gone"},
               PhaseBecomes(f, p)
        PROVE  UnderWay' = UnderWay /\ OverSet' = OverSet /\ Resolved' = Resolved
    BY <2>1 DEF TypeOK, UnderWay, OverSet, Resolved, Over, PhaseBecomes
  <2>2. ASSUME NEW p \in Servings \ {"none", "closed"},
               serving[e] \notin {"none", "closed"}, ServingBecomes(e, p)
        PROVE  BeingServed' = BeingServed /\ Closed' = Closed
    BY <2>2 DEF TypeOK, BeingServed, Closed, ServingBecomes
  <2>3. UNCHANGED serving => BeingServed' = BeingServed /\ Closed' = Closed
    BY DEF BeingServed, Closed
  <2>4. CASE OfferHangs(e) \/ SendShuffleRequest(e) \/ ProcessShuffleResponse(e)
    BY <2>1, <2>3, <2>4
    DEF OfferHangs, SendShuffleRequest, ProcessShuffleResponse, Phases
  <2>5. CASE WaitForAnswer(e)
    BY <2>1, <2>3, <2>5 DEF WaitForAnswer, Phases
  <2>6. CASE AnswerArrives(e)
    <3>1. UNCHANGED <<serving, outcomes>>
      BY <2>6 DEF AnswerArrives
    <3>2. CASE UNCHANGED phase
      BY <2>3, <3>1, <3>2, SamePhases
    <3>3. CASE \E w \in Exchanges : phase[w] = "waiting" /\ PhaseBecomes(w, "opening")
      BY <2>1, <2>3, <3>1, <3>3 DEF Phases
    <3> QED
      BY <2>6, <3>2, <3>3 DEF AnswerArrives
  <2>7. CASE AnswerHangs(e) \/ WaitForChannel(e)
    BY <2>2, <2>7, SamePhases DEF AnswerHangs, WaitForChannel, Servings
  <2>8. CASE LoseSignal(e) \/ ChannelOpens(e) \/ ChannelBreaks(e)
    BY <2>3, <2>8, SamePhases DEF LoseSignal, ChannelOpens, ChannelBreaks
  <2>9. CASE ReceiveRequest(e) \/ RequestArrives(e)
    BY <2>2, <2>3, <2>9, SamePhases DEF ReceiveRequest, RequestArrives, Serve, Servings
  <2> QED
    BY <2>4, <2>5, <2>6, <2>7, <2>8, <2>9 DEF NoEvent
<1>2. UNCHANGED stats
  BY DEF NoEvent
<1>3. StatsTypes' /\ Completed' = Completed
  BY <1>1, <1>2 DEF StatsTypes, Completed
<1> QED
  BY <1>1, <1>2, <1>3, OutgoingUnconcerned DEF IncomingCounted, Total

(* The reload forgets the outgoing shuffles, and the page their numbers.   *)
LEMMA ReloadCounted ==
    ASSUME StatsIInv, ReloadStats
    PROVE  StatsTypes' /\ OutgoingCounted' /\ IncomingCounted'
<1> DEFINE none == NothingCounted("outgoing")
<1>1. /\ none \in [outstanding : Int, events : [Windows["outgoing"] -> Nat]]
      /\ none.outstanding = 0
      /\ \A w \in Windows["outgoing"] : none.events[w] = 0
  BY DEF NothingCounted
<1>2. stats' = [stats EXCEPT !["outgoing"] = none] /\ Reload
  BY DEF ReloadStats
<1> HIDE DEF none
<1>3. /\ stats'["outgoing"] = none
      /\ stats'["incoming"] = stats["incoming"]
      /\ stats' = [d \in {"incoming", "outgoing"} |-> stats'[d]]
  BY <1>2 DEF StatsIInv, StatsTypes
<1>4. StatsTypes'
  BY <1>1, <1>3 DEF StatsIInv, StatsTypes
<1>5. UnderWay' = {}
  BY <1>2 DEF StatsIInv, IInv, TypeOK, Reload, UnderWay, Over
<1>6. /\ Cardinality(UnderWay') = 0
      /\ Cardinality(OverSet') \in Nat
      /\ Cardinality(Resolved') \in Nat
  <2>1. OverSet' \in SUBSET Exchanges /\ Resolved' \in SUBSET Exchanges
    BY DEF OverSet, Resolved
  <2> QED
    BY <1>5, <2>1, CountFacts, FS_EmptySet
<1>7. Total("outgoing")' = 0 /\ stats'["outgoing"].events["successes"] = 0
  BY <1>1, <1>3 DEF Total, Windows
<1>8. OutgoingCounted'
  BY <1>1, <1>3, <1>6, <1>7 DEF OutgoingCounted
<1>9. IncomingCounted'
  BY <1>2, <1>3, IncomingUnconcerned DEF StatsIInv, Reload
<1> QED
  BY <1>4, <1>8, <1>9

LEMMA StatsStepIsStep == [StatsNext]_statsVars => [Next]_vars
<1>1. ASSUME NEW e \in Exchanges, OutgoingEvents(e) \/ IncomingEvents(e) \/ NoEvent(e)
      PROVE  Next
  BY <1>1 DEF OutgoingEvents, IncomingEvents, NoEvent, Next, Advance, Fail
<1>2. ReloadStats => Next
  BY DEF ReloadStats, Next
<1>3. UNCHANGED statsVars => UNCHANGED vars
  BY DEF statsVars
<1> QED
  BY <1>1, <1>2, <1>3 DEF StatsNext

LEMMA AcknowledgedStep == IInv /\ Acknowledged /\ [Next]_vars => Acknowledged'
<1> SUFFICES ASSUME IInv, Acknowledged, [Next]_vars PROVE Acknowledged'
  OBVIOUS
<1> USE DEF IInv
<1>1. ASSUME UNCHANGED handled,
             \A e \in Exchanges : phase'[e] \in {"acking", "resolved"}
                                    => phase[e] \in {"acking", "resolved"}
      PROVE  Acknowledged'
  BY <1>1 DEF Acknowledged
<1>2. ASSUME UNCHANGED phase, \A e \in Exchanges : handled[e] \subseteq handled'[e]
      PROVE  Acknowledged'
  BY <1>2 DEF Acknowledged
<1>3. ASSUME NEW e \in Exchanges,
             SendOffer(e) \/ ServerTakesOffer(e) \/ OfferHangs(e) \/ WaitForAnswer(e)
                \/ SendShuffleRequest(e) \/ CloseOutgoing(e) \/ OutgoingFails(e)
      PROVE  Acknowledged'
  <2>1. UNCHANGED handled
    BY <1>3
    DEF SendOffer, ServerTakesOffer, OfferHangs, WaitForAnswer,
        SendShuffleRequest, CloseOutgoing, OutgoingFails, data
  <2>2. CASE CloseOutgoing(e)
    BY <1>1, <2>1, <2>2 DEF TypeOK, CloseOutgoing, PhaseBecomes
  <2>3. CASE ~CloseOutgoing(e)
    <3>1. PICK p \in Phases \ {"acking", "resolved"} : PhaseBecomes(e, p)
      BY <1>3, <2>3
      DEF SendOffer, ServerTakesOffer, OfferHangs, WaitForAnswer,
          SendShuffleRequest, OutgoingFails, Phases
    <3> QED
      BY <1>1, <2>1, <3>1 DEF TypeOK, PhaseBecomes
  <2> QED
    BY <2>2, <2>3
<1>4. ASSUME NEW e \in Exchanges, AnswerArrives(e)
      PROVE  Acknowledged'
  BY <1>1, <1>4 DEF TypeOK, AnswerArrives, PhaseBecomes, data
<1>5. ASSUME NEW e \in Exchanges, ProcessShuffleResponse(e)
      PROVE  Acknowledged'
  BY <1>5 DEF TypeOK, Acknowledged, ProcessShuffleResponse, PhaseBecomes
<1>6. ASSUME NEW e \in Exchanges, ReceiveRequest(e) \/ RequestArrives(e)
      PROVE  Acknowledged'
  <2>1. /\ UNCHANGED phase
        /\ UNCHANGED handled \/ Serve(e)
    BY <1>6 DEF ReceiveRequest, RequestArrives
  <2>2. \A f \in Exchanges : handled[f] \subseteq handled'[f]
    <3>1. CASE handled' = [handled EXCEPT ![e] = handled[e] \cup {"request"}]
      BY <3>1 DEF TypeOK
    <3> QED
      BY <2>1, <3>1 DEF Serve
  <2> QED
    BY <1>2, <2>1, <2>2
<1>7. ASSUME NEW e \in Exchanges,
             LoseSignal(e) \/ OfferArrives(e) \/ ServerTakesAnswer(e) \/ AnswerHangs(e)
                \/ WaitForChannel(e) \/ ChannelOpens(e) \/ ChannelBreaks(e)
                \/ AckArrives(e) \/ IncomingFails(e) \/ AckMissed(e)
      PROVE  Acknowledged'
  BY <1>2, <1>7
  DEF LoseSignal, OfferArrives, ServerTakesAnswer, AnswerHangs, WaitForChannel,
      ChannelOpens, ChannelBreaks, AckArrives, IncomingFails, AckMissed, data
<1>8. CASE Reload
  BY <1>1, <1>8 DEF TypeOK, Reload, Over
<1>9. CASE UNCHANGED vars
  BY <1>1, <1>9 DEF vars, data
<1> QED
  BY <1>3, <1>4, <1>5, <1>6, <1>7, <1>8, <1>9 DEF Next, Advance, Fail

LEMMA InitStatsIInv == StatsInit => StatsIInv
<1> SUFFICES ASSUME StatsInit PROVE StatsIInv
  OBVIOUS
<1>1. IInv
  BY InitIInv DEF StatsInit
<1>2. ASSUME NEW direction \in {"incoming", "outgoing"}
      PROVE  /\ stats[direction] \in [outstanding : Int, events : [Windows[direction] -> Nat]]
             /\ stats[direction].outstanding = 0
             /\ \A w \in Windows[direction] : stats[direction].events[w] = 0
  BY DEF StatsInit, NothingCounted
<1>3. StatsTypes
  BY <1>2 DEF StatsInit, StatsTypes
<1>4. /\ stats["outgoing"].outstanding = 0 /\ stats["incoming"].outstanding = 0
      /\ Total("outgoing") = 0 /\ Total("incoming") = 0
      /\ stats["outgoing"].events["successes"] = 0
      /\ stats["incoming"].events["successes"] = 0
  BY <1>2 DEF Total, Windows
<1>5. /\ UnderWay = {} /\ OverSet = {} /\ Resolved = {}
      /\ BeingServed = {} /\ Closed = {}
  BY DEF StatsInit, Init, UnderWay, OverSet, Resolved, Over, BeingServed, Closed
<1>6. Completed = {}
  <2>1. <<>> # <<"completed">>
    OBVIOUS
  <2> QED
    BY <2>1 DEF StatsInit, Init, Completed
<1>7. Cardinality({}) = 0
  BY FS_EmptySet
<1>8. Acknowledged
  BY DEF StatsInit, Init, Acknowledged
<1> QED
  BY <1>1, <1>3, <1>4, <1>5, <1>6, <1>7, <1>8
  DEF StatsIInv, OutgoingCounted, IncomingCounted

LEMMA NextStatsIInv == StatsIInv /\ [StatsNext]_statsVars => StatsIInv'
<1> SUFFICES ASSUME StatsIInv, [StatsNext]_statsVars PROVE StatsIInv'
  OBVIOUS
<1>1. IInv' /\ Acknowledged'
  BY NextIInv, AcknowledgedStep, StatsStepIsStep DEF StatsIInv
<1>2. StatsTypes' /\ OutgoingCounted' /\ IncomingCounted'
  <2>1. ASSUME NEW e \in Exchanges, OutgoingEvents(e) \/ IncomingEvents(e) \/ NoEvent(e)
        PROVE  StatsTypes' /\ OutgoingCounted' /\ IncomingCounted'
    BY <2>1, OutgoingEventsCounted, IncomingEventsCounted, NoEventCounted
  <2>2. CASE ReloadStats
    BY <2>2, ReloadCounted
  <2>3. CASE UNCHANGED statsVars
    BY <2>3 DEF statsVars, vars, StatsIInv, StatsTypes, OutgoingCounted,
                IncomingCounted, Total, UnderWay, OverSet, Resolved, Over,
                BeingServed, Closed, Completed
  <2> QED
    BY <2>1, <2>2, <2>3 DEF StatsNext
<1> QED
  BY <1>1, <1>2 DEF StatsIInv

(* No success at the sender that the destination does not count, or will.  *)
LEMMA SuccessesFollow ==
    ASSUME StatsIInv
    PROVE  Cardinality(Resolved) <= Cardinality(Completed) + Cardinality(BeingServed)
<1>1. ASSUME NEW e \in Resolved
      PROVE  e \in Completed \cup BeingServed
  <2>1. e \in Exchanges /\ "request" \in handled[e]
    BY DEF StatsIInv, IInv, Acknowledged, RequestFirst, Resolved
  <2>2. CASE serving[e] = "confirming"
    BY <2>1, <2>2 DEF BeingServed
  <2>3. CASE serving[e] = "closed"
    <3> DEFINE ends == outcomes[e]
    <3>1. /\ ends \in Seq({"completed", "failed"})
          /\ Len(ends) = 1
          /\ "failed" \notin Range(ends)
      BY <2>1, <2>3 DEF StatsIInv, IInv, TypeOK, OneOutcome
    <3>2. ends[1] \in {"completed", "failed"} /\ ends[1] \in Range(ends)
      BY <3>1 DEF Range
    <3>3. ends = <<"completed">>
      BY <3>1, <3>2
    <3> QED
      BY <2>1, <3>3 DEF Completed
  <2> QED
    BY <2>1, <2>2, <2>3 DEF StatsIInv, IInv, RequestFirst
<1>2. /\ Resolved \in SUBSET Exchanges
      /\ Completed \in SUBSET Exchanges
      /\ BeingServed \in SUBSET Exchanges
  BY DEF Resolved, Completed, BeingServed
<1>3. Completed \cup BeingServed \in SUBSET Exchanges
  BY <1>2
<1>4. Cardinality(Resolved) <= Cardinality(Completed \cup BeingServed)
  BY <1>1, <1>2, <1>3, CountFacts
<1>5. Cardinality(Completed \cup BeingServed)
        <= Cardinality(Completed) + Cardinality(BeingServed)
  BY <1>2, CountFacts
<1>6. /\ Cardinality(Resolved) \in Nat
      /\ Cardinality(Completed) \in Nat
      /\ Cardinality(BeingServed) \in Nat
      /\ Cardinality(Completed \cup BeingServed) \in Nat
  BY <1>2, <1>3, CountFacts
<1> QED
  BY <1>4, <1>5, <1>6

LEMMA SpecStatsIInv == StatsSpec => []StatsIInv
<1> QED
  BY InitStatsIInv, NextStatsIInv, PTL DEF StatsSpec

(* The shuffles that are counted are those of ShuffleExchange: what is     *)
(* proved of every behaviour of Spec holds of the pages' shuffles too.     *)
THEOREM CountedShufflesAreShuffles == StatsSpec => Spec
<1>1. StatsInit => Init
  BY DEF StatsInit
<1> QED
  BY <1>1, StatsStepIsStep, PTL DEF StatsSpec, Spec

(* What the pages show adds up, for any number of shuffles and reloads.    *)
THEOREM PagesAddUp == StatsSpec => []StatsAddUp
<1>1. StatsIInv => StatsAddUp
  <2> SUFFICES ASSUME StatsIInv PROVE StatsAddUp
    OBVIOUS
  <2>1. /\ Total("incoming") = Cardinality({e \in Exchanges : serving[e] = "closed"})
        /\ Total("outgoing") <= Cardinality({e \in Exchanges : Over(e)})
    BY DEF StatsIInv, OutgoingCounted, IncomingCounted, Closed, OverSet
  <2>2. Cardinality(Resolved) \in Nat
    <3>1. Resolved \in SUBSET Exchanges
      BY DEF Resolved
    <3> QED
      BY <3>1, CountFacts
  <2>3. stats["outgoing"].events["successes"]
            <= stats["incoming"].events["successes"] + stats["incoming"].outstanding
    <3>1. /\ Completed \in SUBSET Exchanges
          /\ BeingServed \in SUBSET Exchanges
      BY DEF Completed, BeingServed
    <3>2. Cardinality(Completed) \in Nat /\ Cardinality(BeingServed) \in Nat
      BY <3>1, CountFacts
    <3>3. stats["outgoing"].events["successes"] \in Nat
      BY TotalFacts DEF StatsIInv
    <3> QED
      BY <2>2, <3>2, <3>3, SuccessesFollow DEF StatsIInv, OutgoingCounted, IncomingCounted
  <2> QED
    BY <2>1, <2>3 DEF StatsIInv, OutgoingCounted, IncomingCounted, StatsAddUp
<1> QED
  BY <1>1, SpecStatsIInv, PTL
==============================================================================
