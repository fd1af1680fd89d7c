--------------------------------- MODULE Comms ---------------------------------
(***************************************************************************)
(* What nodes rely on when a Comms (cyclon.p2p/src/Comms.ts) carries their *)
(* shuffles: the promise of sendShuffleRequest resolves only after the     *)
(* response has been handled, and the response is handled only after the   *)
(* destination has handled the request; each is handled once, a shuffle    *)
(* that is answered is not rejected, and the destination reports the end   *)
(* once, as a failure only if it has not handled the request.  Nothing is  *)
(* promised of how long it takes, or that it ends.                         *)
(***************************************************************************)
EXTENDS Sequences

CONSTANT Exchanges  \* the shuffles that a node sends

VARIABLES
    sender,         \* how far each is for the node that sends it: "idle",
                    \* "opening", "sent", "answered", "resolved", "rejected"
                    \* or, when the page is no longer there, "gone"
    served,         \* those whose request the destination has handled
    reports         \* the events at the end of each at its destination

Init ==
    /\ sender = [e \in Exchanges |-> "idle"]
    /\ served = {}
    /\ reports = [e \in Exchanges |-> <<>>]

Move(e, from, to) ==
    /\ sender[e] \in from
    /\ sender' = [sender EXCEPT ![e] = to]
    /\ UNCHANGED <<served, reports>>

Begin(e) == Move(e, {"idle"}, "opening")

SendRequest(e) == Move(e, {"opening"}, "sent")

HandleRequest(e) ==
    /\ sender[e] \notin {"idle", "opening"}
    /\ e \notin served
    /\ reports[e] = <<>>
    /\ served' = served \cup {e}
    /\ UNCHANGED <<sender, reports>>

HandleResponse(e) == e \in served /\ Move(e, {"sent"}, "answered")

Resolve(e) == Move(e, {"answered"}, "resolved")

Reject(e) == Move(e, {"opening", "sent"}, "rejected")

Report(e) ==
    /\ sender[e] # "idle"
    /\ reports[e] = <<>>
    /\ reports' = [reports EXCEPT
                    ![e] = <<IF e \in served THEN "completed" ELSE "failed">>]
    /\ UNCHANGED <<sender, served>>

(* The page of the sender is reloaded.                                     *)
Reload ==
    /\ sender' = [e \in Exchanges |->
                    IF sender[e] \in {"idle", "resolved", "rejected"}
                    THEN sender[e] ELSE "gone"]
    /\ UNCHANGED <<served, reports>>

Next ==
    \/ \E e \in Exchanges :
        \/ Begin(e) \/ SendRequest(e) \/ HandleRequest(e) \/ HandleResponse(e)
        \/ Resolve(e) \/ Reject(e) \/ Report(e)
    \/ Reload

Spec == Init /\ [][Next]_<<sender, served, reports>>
================================================================================
