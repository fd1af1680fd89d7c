----------------------------- MODULE Reachability -----------------------------
(***************************************************************************)
(* Can a client be reached?  SignallingSocket composed with what the       *)
(* servers know of the client (cyclon.p2p-rtc-server/lib) and with a peer  *)
(* that sends messages to it through the servers its pointer names         *)
(* (SocketIOSignallingService.postToFirstAvailableServer).                 *)
(*                                                                         *)
(* The client registers when a socket connects and at every connectivity   *)
(* check.  A server handles the messages of one session in order, and its  *)
(* "disconnect" last, but may still be doing so when the client is back on *)
(* another socket.  Messages on their way can be lost with the connection. *)
(***************************************************************************)
EXTENDS SignallingSocket

VARIABLES
    session,        \* how far the session of each socket is at its server
    lingering,      \* how many former sessions each server still thinks open
    registered      \* the session a server would send a message on

serverVars == <<session, lingering, registered>>

reachVars == <<vars, serverVars>>

(* No "register" has been handled yet; one has, and another is on its way; *)
(* none is on its way.                                                     *)
Session == {"fresh", "again", "settled"}

ReachTypeOK ==
    /\ TypeOK
    /\ session \in [Servers -> Session \cup {"none"}]
    /\ lingering \in [Servers -> [Session -> Nat]]
    /\ registered \in [Servers -> {"nobody", "current", "former"}]
    /\ \A s \in Servers : session[s] # "none" <=> sockets[s] = "connected"

ReachInit ==
    /\ Init
    /\ session = [s \in Servers |-> "none"]
    /\ lingering = [s \in Servers |-> [kind \in Session |-> 0]]
    /\ registered = [s \in Servers |-> "nobody"]

------------------------------------------------------------------------------
(* The client and its servers.                                             *)

(* The sessions of some sockets are cut off at the client's end.           *)
CutOff(gone) ==
    /\ session' = [s \in Servers |-> IF s \in gone THEN "none" ELSE session[s]]
    /\ lingering' = [s \in Servers |->
                        IF s \in gone /\ session[s] # "none"
                        THEN [lingering[s] EXCEPT ![session[s]] = @ + 1]
                        ELSE lingering[s]]
    /\ registered' = [s \in Servers |->
                        IF s \in gone /\ registered[s] = "current"
                        THEN "former" ELSE registered[s]]

RegisteringConnect(s) ==
    /\ SocketConnects(s)
    /\ session' = [session EXCEPT ![s] = "fresh"]
    /\ UNCHANGED <<lingering, registered>>

(* Fault: connectivity checks do not register again.                       *)
UpdateNoRegistrations == UNCHANGED session

(* updateRegistrations.                                                    *)
UpdateRegistrations ==
    session' = [s \in Servers |->
                    IF session[s] = "settled" THEN "again" ELSE session[s]]

RegisteringCheck ==
    /\ CheckConnectivity
    /\ UpdateRegistrations
    /\ UNCHANGED <<lingering, registered>>

CutOffFailure(s) == SocketFails(s) /\ CutOff({s})

CutOffReload == Reload /\ CutOff(Servers)

------------------------------------------------------------------------------
(* The servers: SessionEventHandler and RegistrationManager.               *)

HandleRegister(s) ==
    /\ session[s] \in {"fresh", "again"}
    /\ session' = [session EXCEPT ![s] = "settled"]
    /\ registered' = [registered EXCEPT ![s] = "current"]
    /\ UNCHANGED <<vars, lingering>>

HandleLateRegister(s, kind) ==
    /\ kind \in {"fresh", "again"}
    /\ lingering[s][kind] > 0
    /\ lingering' = [lingering EXCEPT ![s][kind] = @ - 1, ![s]["settled"] = @ + 1]
    /\ registered' = [registered EXCEPT ![s] = "former"]
    /\ UNCHANGED <<vars, session>>

(* Fault: the client stays registered.                                     *)
HandleDisconnectStayingRegistered(s, kind) ==
    /\ lingering[s][kind] > 0
    /\ lingering' = [lingering EXCEPT ![s][kind] = @ - 1]
    /\ UNCHANGED <<vars, session, registered>>

(* "disconnect": whoever is registered by then is not any more, unless     *)
(* this session has never registered.                                      *)
HandleDisconnect(s, kind) ==
    /\ lingering[s][kind] > 0
    /\ lingering' = [lingering EXCEPT ![s][kind] = @ - 1]
    /\ registered' = IF kind = "fresh" THEN registered
                     ELSE [registered EXCEPT ![s] = "nobody"]
    /\ UNCHANGED <<vars, session>>

------------------------------------------------------------------------------
(* The peer.                                                               *)

(* createNewPointer: the pointer names the servers there are sockets to,   *)
(* connected or not.  Peers get the newest in shuffles and from servers.   *)
Signalling == Attempted

(* randomiseServerOrder: shuffleArray can give them in any order.          *)
RandomiseServerOrder(servers) == SetToSeqs(servers)

(* sendMessageToPeer: 404 when the client is not registered, 201 once the  *)
(* message is emitted.  The request to a server that is down never ends.   *)
SendMessageToPeer(s) ==
    IF s \in Dead THEN "hangs"
    ELSE IF registered[s] = "nobody" THEN "not found"
    ELSE IF registered[s] = "current" THEN "delivered" ELSE "lost"

PostToFirstAvailableServer(order) ==
    LET answers == {i \in DOMAIN order : SendMessageToPeer(order[i]) # "not found"}
    IN  IF answers = {} THEN "unreachable"
        ELSE SendMessageToPeer(order[Min(answers)])

(* How a message can end that is sent with the client's newest pointer.    *)
Outcomes ==
    {PostToFirstAvailableServer(order) : order \in RandomiseServerOrder(Signalling)}

------------------------------------------------------------------------------
ReachNext ==
    \/ (Connect \/ RetryDelayElapses \/ BeforeUnload)
        /\ UNCHANGED serverVars
    \/ RegisteringCheck
    \/ CutOffReload
    \/ \E s \in Servers :
        \/ RegisteringConnect(s) \/ CutOffFailure(s)
        \/ HandleRegister(s)
        \/ \E kind \in Session : HandleLateRegister(s, kind) \/ HandleDisconnect(s, kind)

(* The application connects; the interval fires; attempts to connect end,  *)
(* one way or the other; time passes.  Servers handle what has reached     *)
(* them and notice that connections are gone.                              *)
ReachFairness ==
    /\ WF_reachVars(Connect /\ UNCHANGED serverVars)
    /\ WF_reachVars(RetryDelayElapses /\ UNCHANGED serverVars)
    /\ WF_reachVars(RegisteringCheck)
    /\ \A s \in Servers :
        /\ WF_reachVars(sockets[s] = "connecting"
                            /\ (RegisteringConnect(s) \/ CutOffFailure(s)))
        /\ WF_reachVars(HandleRegister(s))
        /\ \A kind \in Session : WF_reachVars(HandleDisconnect(s, kind))

ReachSpec == ReachInit /\ [][ReachNext]_reachVars /\ ReachFairness

------------------------------------------------------------------------------
(* A server takes a message and loses it only as long as it has not        *)
(* noticed that a connection of the client is gone: no other order of      *)
(* registrations and disconnections leaves a former session registered.    *)
LostOnlyUnnoticed ==
    \A s \in Servers : registered[s] = "former" =>
        \E kind \in {"again", "settled"} : lingering[s][kind] > 0

(* When there are as many living servers as the client prefers, and none   *)
(* is lost any more, every message that a peer sends gets through in the   *)
(* end, whatever order its pointer's servers are tried in: what sessions   *)
(* cut off before left behind or undid at a server is put right, and new   *)
(* pointers name no dead server that would swallow the message.            *)
EventuallyReachable ==
    Preferred \in 1..Cardinality(Servers \ (Dead \cup Malformed))
        => <>[](unloading \/ Outcomes = {"delivered"})
===============================================================================
