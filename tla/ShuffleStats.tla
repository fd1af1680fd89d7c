----------------------------- MODULE ShuffleStats -----------------------------
(***************************************************************************)
(* What the pages of the web demo count of the shuffles of ShuffleExchange *)
(* (ShuffleStatsService.js of cyclon.p2p-webrtc-demo): how many are        *)
(* outstanding in each direction, and how each has ended.  The page of the *)
(* sender counts them as outgoing, that of the destination as incoming.    *)
(*                                                                         *)
(* The service only sees the events that nodes emit: CyclonNodeImpl at the *)
(* start and the end of an outgoing shuffle; RTC and WebRTCComms, nested,  *)
(* at the arrival of an offer and at the end of an incoming one.           *)
(*                                                                         *)
(* The windows keep the events of the last hour: no shuffle of a behaviour *)
(* here is that old, and a window is the number of its events.             *)
(***************************************************************************)
EXTENDS ShuffleExchange

VARIABLE stats

statsVars == <<vars, stats>>

Windows == [incoming |-> {"successes", "timeouts", "errors"},
            outgoing |-> {"successes", "timeouts", "errors", "unreachable"}]

NothingCounted(direction) ==
    [outstanding |-> 0, events |-> [w \in Windows[direction] |-> 0]]

StatsInit ==
    /\ Init
    /\ stats = [direction \in {"incoming", "outgoing"} |-> NothingCounted(direction)]

------------------------------------------------------------------------------
(* The handlers: the statistics after an event of one direction.           *)

HandleShuffleStarted(direction) ==
    [stats EXCEPT ![direction].outstanding = @ + 1]

(* Fault: the event is recorded, but the shuffle remains outstanding.      *)
EndedOutstanding(direction, window) ==
    [stats EXCEPT ![direction].events[window] = @ + 1]

(* updateShuffleTally and updateEventCounter.                              *)
Ended(direction, window) ==
    [stats EXCEPT ![direction].outstanding = @ - 1,
                  ![direction].events[window] = @ + 1]

HandleShuffleCompleted(direction) == Ended(direction, "successes")

HandleShuffleTimeout(direction) == Ended(direction, "timeouts")

HandleShuffleError(direction, error) ==
    Ended(direction, IF direction = "outgoing" /\ error = "unreachable"
                     THEN "unreachable" ELSE "errors")

(* A wait that fails does so on its time limit, or because the channel has *)
(* been closed.                                                            *)
TimeoutOrError(direction) ==
    {HandleShuffleTimeout(direction), HandleShuffleError(direction, "unknown")}

------------------------------------------------------------------------------
(* Who emits what, and when.                                               *)

(* executeShuffle.                                                         *)
OutgoingEvents(e) ==
    \/ /\ SendOffer(e)
       /\ stats' = HandleShuffleStarted("outgoing")
    \/ /\ ServerTakesOffer(e)
       /\ stats' = IF phase'[e] = "rejected"
                   THEN HandleShuffleError("outgoing", "unreachable")
                   ELSE stats
    \/ /\ CloseOutgoing(e)
       /\ stats' = HandleShuffleCompleted("outgoing")
    \/ /\ OutgoingFails(e)
       /\ stats' \in TimeoutOrError("outgoing")

(* WebRTCComms.initialize and handleIncomingShuffle, RTC.handleOffer.      *)
IncomingEvents(e) ==
    \/ /\ OfferArrives(e)
       /\ stats' = HandleShuffleStarted("incoming")
    \/ /\ ServerTakesAnswer(e)
       /\ stats' = IF serving'[e] = "closed"
                   THEN HandleShuffleError("incoming", "unreachable")
                   ELSE stats
    \/ /\ AckArrives(e) \/ AckMissed(e)
       /\ stats' = HandleShuffleCompleted("incoming")
    \/ /\ IncomingFails(e)
       /\ stats' \in TimeoutOrError("incoming")

NoEvent(e) ==
    /\ \/ OfferHangs(e) \/ AnswerHangs(e)
       \/ WaitForAnswer(e) \/ AnswerArrives(e) \/ WaitForChannel(e)
       \/ LoseSignal(e) \/ ChannelOpens(e) \/ ChannelBreaks(e)
       \/ SendShuffleRequest(e) \/ ProcessShuffleResponse(e)
       \/ ReceiveRequest(e) \/ RequestArrives(e)
    /\ UNCHANGED stats

ReloadStats ==
    /\ Reload
    /\ stats' = [stats EXCEPT !.outgoing = NothingCounted("outgoing")]

StatsNext ==
    \/ \E e \in Exchanges : OutgoingEvents(e) \/ IncomingEvents(e) \/ NoEvent(e)
    \/ ReloadStats

StatsSpec == StatsInit /\ [][StatsNext]_statsVars

(* The fairness is that of the shuffles.                                   *)
StatsFairSpec ==
    StatsSpec /\ \A e \in Exchanges : WF_vars(Advance(e) \/ Fail(e))

------------------------------------------------------------------------------
UnderWay == {e \in Exchanges : phase[e] # "idle" /\ ~Over(e)}

BeingServed == {e \in Exchanges : serving[e] \notin {"none", "closed"}}

Total(direction) ==
    LET events == stats[direction].events
    IN  events["successes"] + events["timeouts"] + events["errors"]
            + IF direction = "outgoing" THEN events["unreachable"] ELSE 0

(* What the pages show is true although events are all they see: as many   *)
(* shuffles are outstanding as are under way, every incoming one that is   *)
(* over has been counted once, of the outgoing ones none more than once,   *)
(* and the sender claims no success that the destination does not count,   *)
(* or will.                                                                *)
StatsAddUp ==
    /\ stats["outgoing"].outstanding = Cardinality(UnderWay)
    /\ stats["incoming"].outstanding = Cardinality(BeingServed)
    /\ Total("incoming") = Cardinality({e \in Exchanges : serving[e] = "closed"})
    /\ Total("outgoing") <= Cardinality({e \in Exchanges : Over(e)})
    /\ stats["outgoing"].events["successes"]
        <= stats["incoming"].events["successes"] + stats["incoming"].outstanding
===============================================================================
