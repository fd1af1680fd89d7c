---------------------------- MODULE ShuffleExchange ----------------------------
(***************************************************************************)
(* Shuffles between browsers: how a node opens a WebRTC channel to another *)
(* through the signalling servers, and what the two then send each other   *)
(* (RTC.ts, Channel.ts and SocketIOSignallingService.ts of                 *)
(* cyclon.p2p-rtc-client; WebRTCComms.ts, OutgoingShuffleState.ts and      *)
(* IncomingShuffleState.ts of cyclon.p2p-rtc-comms).                       *)
(*                                                                         *)
(* One node makes the outgoing shuffles; other nodes serve them.  Each     *)
(* action is the run of one side from the end of one wait to the next.     *)
(* The network may lose signalling messages, a data channel may open or    *)
(* not, and breaks at one end before the other notices.  Whether a wait    *)
(* with a time limit ends in time is nondeterministic.                     *)
(***************************************************************************)
EXTENDS Naturals, Sequences, FiniteSets, SequencesExt

CONSTANTS
    Exchanges,      \* bound: the shuffles the node sends
    None,           \* "undefined"
    MaxBuffered,    \* maxBufferSize of the answers' BufferingEventEmitter
    MaxReloads      \* bound: reloads of the sender's page

ASSUME ShuffleExchangeAssumption ==
    /\ IsFiniteSet(Exchanges)
    /\ None \notin Exchanges \cup Nat
    /\ MaxBuffered \in Nat \ {0}
    /\ MaxReloads \in Nat

VARIABLES
    phase,          \* each outgoing shuffle, see Phases
    serving,        \* the incoming shuffle at its destination, see Servings
    corr,           \* the correlation id of its offer
    counter,        \* correlationIdCounter
    offers,         \* the shuffles whose offers are on their way
    answers,        \* the shuffles whose answers are on their way
    buffered,       \* the answers nobody waited for when they came
    applied,        \* the shuffle whose answer this one has accepted
    open,           \* the ends at which its data channel is open; {"never"}
                    \* when it has not been open yet
    sent,           \* the data messages on their way
    early,          \* the shuffles whose request came before it was received
    handled,        \* which of handleShuffleRequest and handleShuffleResponse
                    \* have been called
    outcomes,       \* the events the destination has emitted at the end of it
    trouble,        \* has anything been lost, refused or timed out
    reloads         \* how many times the sender's page has been reloaded

signalling == <<corr, counter, offers, answers, buffered, applied>>

data == <<open, sent, early, handled>>

vars == <<phase, serving, signalling, data, outcomes, trouble, reloads>>

(* "offering": the offer is to reach a signalling server; "offered": the   *)
(* server has passed it on, but its reply (201) has not come; "hung": nor  *)
(* will it; "waiting" for the answer, "opening" the channel, "awaiting"    *)
(* the response; "acking": the acknowledgement is given three seconds.     *)
Phases == {"idle", "offering", "offered", "hung", "waiting", "opening",
           "awaiting", "acking", "resolved", "rejected", "gone"}

(* The same for the answer; "establishing" the channel, "receiving" the    *)
(* request, "confirming": waiting for the acknowledgement.                 *)
Servings == {"none", "answering", "answered", "hung", "establishing",
             "receiving", "confirming", "closed"}

TypeOK ==
    /\ phase \in [Exchanges -> Phases]
    /\ serving \in [Exchanges -> Servings]
    /\ corr \in [Exchanges -> Nat \cup {None}]
    /\ counter \in Nat
    /\ offers \subseteq Exchanges
    /\ answers \subseteq Exchanges
    /\ buffered \in Seq(Exchanges) /\ Len(buffered) <= MaxBuffered
    /\ applied \in [Exchanges -> Exchanges \cup {None}]
    /\ open \in [Exchanges -> SUBSET {"never", "out", "in"}]
    /\ sent \in [Exchanges -> SUBSET {"request", "response", "ack"}]
    /\ early \subseteq Exchanges
    /\ handled \in [Exchanges -> SUBSET {"request", "response"}]
    /\ outcomes \in [Exchanges -> Seq({"completed", "failed"})]
    /\ trouble \in [Exchanges -> BOOLEAN]
    /\ reloads \in 0..MaxReloads

Init ==
    /\ phase = [e \in Exchanges |-> "idle"]
    /\ serving = [e \in Exchanges |-> "none"]
    /\ corr = [e \in Exchanges |-> None]
    /\ counter = 0
    /\ offers = {}
    /\ answers = {}
    /\ buffered = <<>>
    /\ applied = [e \in Exchanges |-> None]
    /\ open = [e \in Exchanges |-> {"never"}]
    /\ sent = [e \in Exchanges |-> {}]
    /\ early = {}
    /\ handled = [e \in Exchanges |-> {}]
    /\ outcomes = [e \in Exchanges |-> <<>>]
    /\ trouble = [e \in Exchanges |-> FALSE]
    /\ reloads = 0

Trouble(e) == trouble' = [trouble EXCEPT ![e] = TRUE]

PhaseBecomes(e, p) == phase' = [phase EXCEPT ![e] = p]

ServingBecomes(e, p) == serving' = [serving EXCEPT ![e] = p]

Send(e, message) == sent' = [sent EXCEPT ![e] = @ \cup {message}]

Close(e, end) == open' = [open EXCEPT ![e] = @ \ {end}]

------------------------------------------------------------------------------
(* RTC.openChannel: the offer and the answer.                              *)

(* Fault: the counter is not advanced.                                     *)
SendOfferAgain(e) ==
    /\ phase[e] = "idle"
    /\ PhaseBecomes(e, "offering")
    /\ corr' = [corr EXCEPT ![e] = counter]
    /\ UNCHANGED <<serving, counter, offers, answers, buffered, applied, data,
                   outcomes, trouble, reloads>>

SendOffer(e) ==
    /\ phase[e] = "idle"
    /\ PhaseBecomes(e, "offering")
    /\ corr' = [corr EXCEPT ![e] = counter]
    /\ counter' = counter + 1
    /\ UNCHANGED <<serving, offers, answers, buffered, applied, data, outcomes,
                   trouble, reloads>>

(* postToFirstAvailableServer: the first server that knows the destination *)
(* passes the offer on; when none does, it throws.  A server passes on     *)
(* what it answers 201 to and nothing else (peerApi.js).                   *)
ServerTakesOffer(e) ==
    /\ phase[e] = "offering"
    /\ \/ /\ PhaseBecomes(e, "offered")
          /\ offers' = offers \cup {e}
          /\ UNCHANGED trouble
       \/ PhaseBecomes(e, "rejected") /\ Trouble(e) /\ UNCHANGED offers
    /\ UNCHANGED <<serving, corr, counter, answers, buffered, applied, data,
                   outcomes, reloads>>

(* HttpRequestService does not notice a connection that fails: the promise *)
(* never settles.                                                          *)
OfferHangs(e) ==
    /\ phase[e] \in {"offering", "offered"}
    /\ PhaseBecomes(e, "hung")
    /\ Trouble(e)
    /\ UNCHANGED <<serving, signalling, data, outcomes, reloads>>

(* BufferingEventEmitter.once takes the oldest of these, if there are any, *)
(* and else waits.                                                         *)
Unhandled(e) == {i \in DOMAIN buffered : corr[buffered[i]] = corr[e]}

(* waitForAnswer, which first looks among the buffered answers.            *)
WaitForAnswer(e) ==
    LET mine == Unhandled(e) IN
    /\ phase[e] = "offered"
    /\ \/ /\ mine = {}
          /\ PhaseBecomes(e, "waiting")
          /\ UNCHANGED <<applied, buffered>>
       \/ \E i \in mine :
          /\ \A j \in mine : i <= j
          /\ PhaseBecomes(e, "opening")
          /\ applied' = [applied EXCEPT ![e] = buffered[i]]
          /\ buffered' = RemoveAt(buffered, i)
    /\ UNCHANGED <<serving, corr, counter, offers, answers, data, outcomes,
                   trouble, reloads>>

(* Fault: the buffer is not bounded.                                       *)
BufferedUnbounded(e) == Append(buffered, e)

(* BufferingEventEmitter.bufferEvent: when it is full the oldest expires.  *)
Buffered(e) ==
    Append(IF Len(buffered) = MaxBuffered THEN Tail(buffered) ELSE buffered, e)

Expired == IF Len(buffered) = MaxBuffered THEN {Head(buffered)} ELSE {}

(* Fault: an answer that nobody waits for is dropped.                      *)
AnswerArrivesUnbuffered(e) ==
    /\ e \in answers
    /\ answers' = answers \ {e}
    /\ \/ \E w \in Exchanges :
          /\ phase[w] = "waiting"
          /\ corr[w] = corr[e]
          /\ PhaseBecomes(w, "opening")
          /\ applied' = [applied EXCEPT ![w] = e]
       \/ /\ \A w \in Exchanges : phase[w] = "waiting" => corr[w] # corr[e]
          /\ UNCHANGED <<phase, applied>>
    /\ UNCHANGED <<serving, corr, counter, offers, buffered, data, outcomes,
                   trouble, reloads>>

(* The socket's "answer": whoever waits for its correlation id takes it.   *)
AnswerArrives(e) ==
    /\ e \in answers
    /\ answers' = answers \ {e}
    /\ \/ \E w \in Exchanges :
          /\ phase[w] = "waiting"
          /\ corr[w] = corr[e]
          /\ PhaseBecomes(w, "opening")
          /\ applied' = [applied EXCEPT ![w] = e]
          /\ UNCHANGED <<buffered, trouble>>
       \/ /\ \A w \in Exchanges : phase[w] = "waiting" => corr[w] # corr[e]
          /\ buffered' = Buffered(e)
          /\ trouble' = [x \in Exchanges |-> trouble[x] \/ x \in Expired]
          /\ UNCHANGED <<phase, applied>>
    /\ UNCHANGED <<serving, corr, counter, offers, data, outcomes, reloads>>

(* A server emits a message on a socket that is no longer there.           *)
LoseSignal(e) ==
    /\ \/ e \in offers /\ offers' = offers \ {e} /\ UNCHANGED answers
       \/ e \in answers /\ answers' = answers \ {e} /\ UNCHANGED offers
    /\ Trouble(e)
    /\ UNCHANGED <<phase, serving, corr, counter, buffered, applied, data,
                   outcomes, reloads>>

------------------------------------------------------------------------------
(* RTC.handleOffer at the destination.                                     *)

(* The end of an incoming shuffle: the channel is closed, an event emitted.*)
EndServing(e, outcome) ==
    /\ ServingBecomes(e, "closed")
    /\ Close(e, "in")
    /\ outcomes' = [outcomes EXCEPT ![e] = Append(@, outcome)]

OfferArrives(e) ==
    /\ e \in offers
    /\ offers' = offers \ {e}
    /\ ServingBecomes(e, "answering")
    /\ UNCHANGED <<phase, corr, counter, answers, buffered, applied, data,
                   outcomes, trouble, reloads>>

ServerTakesAnswer(e) ==
    /\ serving[e] = "answering"
    /\ \/ /\ ServingBecomes(e, "answered")
          /\ answers' = answers \cup {e}
          /\ UNCHANGED <<open, outcomes, trouble>>
       \/ /\ EndServing(e, "failed")
          /\ Trouble(e)
          /\ UNCHANGED answers
    /\ UNCHANGED <<phase, corr, counter, offers, buffered, applied, sent, early,
                   handled, reloads>>

AnswerHangs(e) ==
    /\ serving[e] \in {"answering", "answered"}
    /\ ServingBecomes(e, "hung")
    /\ Trouble(e)
    /\ UNCHANGED <<phase, signalling, data, outcomes, reloads>>

WaitForChannel(e) ==
    /\ serving[e] = "answered"
    /\ ServingBecomes(e, "establishing")
    /\ UNCHANGED <<phase, signalling, data, outcomes, trouble, reloads>>

------------------------------------------------------------------------------
(* The data channel (external): it opens between the two peers whose       *)
(* descriptions match, and breaks or is closed at one end before the other.*)

ChannelOpens(e) ==
    /\ phase[e] = "opening"
    /\ applied[e] = e
    /\ serving[e] \in {"answered", "hung", "establishing"}
    /\ open[e] = {"never"}
    /\ open' = [open EXCEPT ![e] = {"out", "in"}]
    /\ UNCHANGED <<phase, serving, signalling, sent, early, handled, outcomes,
                   trouble, reloads>>

ChannelBreaks(e) ==
    /\ \E end \in open[e] \ {"never"} : Close(e, end)
    /\ trouble' = [trouble EXCEPT ![e] =
                    @ \/ open[e] = {"out", "in"} \/ sent[e] # {}]
    /\ UNCHANGED <<phase, serving, signalling, sent, early, handled, outcomes,
                   reloads>>

------------------------------------------------------------------------------
(* OutgoingShuffleState and the rest of RTC.openChannel.                   *)

SendShuffleRequest(e) ==
    /\ phase[e] = "opening"
    /\ "out" \in open[e]
    /\ PhaseBecomes(e, "awaiting")
    /\ Send(e, "request")
    /\ UNCHANGED <<serving, signalling, open, early, handled, outcomes, trouble,
                   reloads>>

(* processShuffleResponse, sendResponseAcknowledgement.                    *)
ProcessShuffleResponse(e) ==
    /\ phase[e] = "awaiting"
    /\ "out" \in open[e]
    /\ "response" \in sent[e]
    /\ handled' = [handled EXCEPT ![e] = @ \cup {"response"}]
    /\ sent' = [sent EXCEPT ![e] = (@ \ {"response"}) \cup {"ack"}]
    /\ PhaseBecomes(e, "acking")
    /\ UNCHANGED <<serving, signalling, open, early, outcomes, trouble, reloads>>

(* The three seconds are over.                                             *)
CloseOutgoing(e) ==
    /\ phase[e] = "acking"
    /\ PhaseBecomes(e, "resolved")
    /\ Close(e, "out")
    /\ UNCHANGED <<serving, signalling, sent, early, handled, outcomes, trouble,
                   reloads>>

(* A time limit is exceeded, or the channel is found closed.               *)
OutgoingFails(e) ==
    /\ phase[e] \in {"opening", "awaiting"}
    /\ PhaseBecomes(e, "rejected")
    /\ Close(e, "out")
    /\ Trouble(e)
    /\ UNCHANGED <<serving, signalling, sent, early, handled, outcomes, reloads>>

------------------------------------------------------------------------------
(* WebRTCComms.handleIncomingShuffle, IncomingShuffleState.                *)

(* processShuffleRequest, once the request is there.                       *)
Serve(e) ==
    /\ handled' = [handled EXCEPT ![e] = @ \cup {"request"}]
    /\ ServingBecomes(e, "confirming")
    /\ sent' = [sent EXCEPT ![e] = (@ \ {"request"}) \cup {"response"}]

(* The channel is open at last: the request may have come already.         *)
ReceiveRequest(e) ==
    /\ serving[e] = "establishing"
    /\ "in" \in open[e]
    /\ \/ e \in early /\ Serve(e)
       \/ e \notin early /\ ServingBecomes(e, "receiving") /\ UNCHANGED <<sent, handled>>
    /\ early' = early \ {e}
    /\ UNCHANGED <<phase, signalling, open, outcomes, trouble, reloads>>

RequestArrives(e) ==
    /\ "request" \in sent[e]
    /\ "in" \in open[e]
    /\ \/ serving[e] = "receiving" /\ Serve(e) /\ UNCHANGED early
       \/ /\ serving[e] # "receiving"
          /\ early' = early \cup {e}
          /\ sent' = [sent EXCEPT ![e] = @ \ {"request"}]
          /\ UNCHANGED <<serving, handled>>
    /\ UNCHANGED <<phase, signalling, open, outcomes, trouble, reloads>>

AckArrives(e) ==
    /\ serving[e] = "confirming"
    /\ "in" \in open[e]
    /\ "ack" \in sent[e]
    /\ EndServing(e, "completed")
    /\ sent' = [sent EXCEPT ![e] = @ \ {"ack"}]
    /\ UNCHANGED <<phase, signalling, early, handled, trouble, reloads>>

(* Fault: only the opening of the channel has a time limit.                *)
IncomingFailsUnopened(e) ==
    /\ serving[e] = "establishing"
    /\ EndServing(e, "failed")
    /\ Trouble(e)
    /\ UNCHANGED <<phase, signalling, sent, early, handled, reloads>>

(* Fault: RTC.handleOffer reports the failure again.                       *)
IncomingFailsTwice(e) ==
    /\ serving[e] \in {"establishing", "receiving"}
    /\ ServingBecomes(e, "closed")
    /\ Close(e, "in")
    /\ outcomes' = [outcomes EXCEPT ![e] = @ \o <<"failed", "failed">>]
    /\ Trouble(e)
    /\ UNCHANGED <<phase, signalling, sent, early, handled, reloads>>

(* A time limit is exceeded, or the channel is found closed.               *)
IncomingFails(e) ==
    /\ serving[e] \in {"establishing", "receiving"}
    /\ EndServing(e, "failed")
    /\ Trouble(e)
    /\ UNCHANGED <<phase, signalling, sent, early, handled, reloads>>

(* Fault: a missing acknowledgement is a failure.                          *)
AckMissedIsFailure(e) ==
    /\ serving[e] = "confirming"
    /\ EndServing(e, "failed")
    /\ Trouble(e)
    /\ UNCHANGED <<phase, signalling, sent, early, handled, reloads>>

(* waitForResponseAcknowledgement goes on without it.                      *)
AckMissed(e) ==
    /\ serving[e] = "confirming"
    /\ EndServing(e, "completed")
    /\ Trouble(e)
    /\ UNCHANGED <<phase, signalling, sent, early, handled, reloads>>

------------------------------------------------------------------------------
Over(e) == phase[e] \in {"resolved", "rejected", "gone"}

(* The sender's page is reloaded.  Its local id is kept in the storage, so *)
(* that answers to its earlier offers still reach it; the correlation ids  *)
(* begin again.                                                            *)
Reload ==
    /\ reloads < MaxReloads
    /\ reloads' = reloads + 1
    /\ phase' = [e \in Exchanges |->
                    IF Over(e) \/ phase[e] = "idle" THEN phase[e] ELSE "gone"]
    /\ open' = [e \in Exchanges |-> open[e] \ {"out"}]
    /\ counter' = 0
    /\ buffered' = <<>>
    /\ trouble' = [e \in Exchanges |-> TRUE]
    /\ UNCHANGED <<serving, corr, offers, answers, applied, sent, early, handled,
                   outcomes>>

(* What happens when nothing goes wrong.                                   *)
Advance(e) ==
    \/ ServerTakesOffer(e)
    \/ WaitForAnswer(e)
    \/ AnswerArrives(e)
    \/ OfferArrives(e)
    \/ ServerTakesAnswer(e)
    \/ WaitForChannel(e)
    \/ ChannelOpens(e)
    \/ SendShuffleRequest(e)
    \/ ProcessShuffleResponse(e)
    \/ CloseOutgoing(e)
    \/ ReceiveRequest(e)
    \/ RequestArrives(e)
    \/ AckArrives(e)

Fail(e) ==
    \/ OfferHangs(e)
    \/ AnswerHangs(e)
    \/ OutgoingFails(e)
    \/ IncomingFails(e)
    \/ AckMissed(e)

Next ==
    \/ \E e \in Exchanges :
        \/ SendOffer(e)
        \/ Advance(e)
        \/ Fail(e)
        \/ LoseSignal(e)
        \/ ChannelBreaks(e)
    \/ Reload

Spec == Init /\ [][Next]_vars

(* Requests to the servers are answered or hang; messages arrive unless    *)
(* they are lost; timers fire; promises run their continuations.           *)
FairSpec == Spec /\ \A e \in Exchanges : WF_vars(Advance(e) \/ Fail(e))

------------------------------------------------------------------------------
(* Until the page is reloaded, a shuffle accepts the answer to its own     *)
(* offer only, however answers are delayed, buffered or overtake each      *)
(* other and the replies of the servers.                                   *)
AnswersMatch ==
    reloads = 0 => \A e \in Exchanges : applied[e] \in {e, None}

(* The two ends never disagree to the sender's advantage: when the shuffle *)
(* has succeeded for the sender, the destination has handled the request   *)
(* and does not report a failure, even if the acknowledgement gets lost.   *)
Agreement ==
    \A e \in Exchanges :
        "response" \in handled[e] =>
            /\ "request" \in handled[e]
            /\ "failed" \notin Range(outcomes[e])

(* The destination reports the end of an incoming shuffle once, whichever  *)
(* of RTC.handleOffer and handleIncomingShuffle finds it over, and reports *)
(* one it has handled the request of as completed.                         *)
OneOutcome ==
    \A e \in Exchanges :
        /\ Len(outcomes[e]) = IF serving[e] = "closed" THEN 1 ELSE 0
        /\ "request" \in handled[e] => "failed" \notin Range(outcomes[e])

(* How far a shuffle is for its sender, as Comms describes it.             *)
Progress(e) ==
    CASE phase[e] \in {"offering", "offered", "hung", "waiting", "opening"} -> "opening"
      [] phase[e] = "awaiting" -> "sent"
      [] phase[e] = "acking"   -> "answered"
      [] OTHER                 -> phase[e]

Promised == INSTANCE Comms WITH
    sender  <- [e \in Exchanges |-> Progress(e)],
    served  <- {e \in Exchanges : "request" \in handled[e]},
    reports <- outcomes

(* Whatever is lost, late, repeated by a reload or found closed: what      *)
(* reaches the two nodes keeps to the order that Comms promises.           *)
ImplementsComms == Promised!Spec

(* The guards of Advance(e).                                               *)
CanAdvance(e) ==
    \/ phase[e] \in {"offering", "offered", "acking"}
    \/ e \in offers \cup answers
    \/ serving[e] \in {"answering", "answered"}
    \/ /\ phase[e] = "opening" /\ applied[e] = e /\ open[e] = {"never"}
       /\ serving[e] \in {"answered", "hung", "establishing"}
    \/ phase[e] = "opening" /\ "out" \in open[e]
    \/ phase[e] = "awaiting" /\ "out" \in open[e] /\ "response" \in sent[e]
    \/ serving[e] = "establishing" /\ "in" \in open[e]
    \/ "request" \in sent[e] /\ "in" \in open[e]
    \/ serving[e] = "confirming" /\ "in" \in open[e] /\ "ack" \in sent[e]

(* Two sides never wait for each other: a shuffle that has met with no     *)
(* loss, refusal or timeout has a next step until it has succeeded at both *)
(* ends, and does not need a time limit to come to its end.                *)
AlwaysANextStep ==
    \A e \in Exchanges :
        phase[e] # "idle" /\ ~trouble[e] =>
            \/ CanAdvance(e)
            \/ phase[e] = "resolved" /\ outcomes[e] = <<"completed">>

(* And that step can really be taken: whenever one of the guards holds, in *)
(* trouble or not, so does all that the handler needs, such as a place in  *)
(* the buffer of answers.                                                  *)
NoStandstill ==
    /\ AlwaysANextStep
    /\ \A e \in Exchanges : CanAdvance(e) <=> ENABLED Advance(e)

(* Past the waits that have no time limit, for the servers and for the     *)
(* answer, both ends come to an end and leave no channel open.             *)
ExchangesEnd ==
    \A e \in Exchanges :
        /\ phase[e] = "opening" ~> Over(e) /\ "out" \notin open[e]
        /\ serving[e] = "establishing" ~> serving[e] = "closed" /\ "in" \notin open[e]
================================================================================
