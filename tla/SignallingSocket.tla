--------------------------- MODULE SignallingSocket ---------------------------
(***************************************************************************)
(* A client's connections to its signalling servers                        *)
(* (cyclon.p2p-rtc-client/src/RedundantSignallingSocket.ts) and the        *)
(* selector that says which servers to try next                            *)
(* (SignallingServerSelector.ts).                                          *)
(*                                                                         *)
(* Each event handler and each call of the connectivity timer is one step. *)
(* Time enters only as the order of the disconnections and as the set of   *)
(* servers whose disconnection is too recent to try them again.  The page  *)
(* may be closed or reloaded at any time; the session storage survives.    *)
(***************************************************************************)
EXTENDS Naturals, Sequences, FiniteSets, FiniteSetsExt, SequencesExt

CONSTANTS
    Servers,        \* the known signalling servers
    Malformed,      \* those whose specification makes createSocket throw
    Dead,           \* those that never accept a connection
    Preferred,      \* getPreferredNumberOfSockets()
    MaxLosses,      \* bound: connections with living servers that are lost
    MaxReloads      \* bound: reloads of the page

ASSUME SignallingSocketAssumption ==
    /\ IsFiniteSet(Servers)
    /\ Malformed \subseteq Servers
    /\ Dead \subseteq Servers
    /\ Preferred \in 0..Cardinality(Servers)
    /\ MaxLosses \in Nat
    /\ MaxReloads \in Nat

VARIABLES
    started,        \* has connect() been called
    unloading,      \* unloadInProgress
    checking,       \* is connectivityIntervalId defined
    sockets,        \* the socket to each server: connectedSockets
    disconnected,   \* the servers disconnected from, the latest last:
                    \* lastDisconnectTimes
    recent,         \* those disconnected from too recently to try them
    stored,         \* the list of servers in the session storage
    bug,            \* has a "BUG :::" error been thrown
    losses,         \* how many living servers have been lost
    reloads         \* how many times the page has been reloaded

vars == <<started, unloading, checking, sockets, disconnected, recent, stored,
          bug, losses, reloads>>

Attempted == {s \in Servers : sockets[s] # "none"}

Connected == {s \in Servers : sockets[s] = "connected"}

TypeOK ==
    /\ started \in BOOLEAN
    /\ unloading \in BOOLEAN
    /\ checking \in BOOLEAN
    /\ sockets \in [Servers -> {"none", "connecting", "connected"}]
    /\ disconnected \in Seq(Servers)
    /\ IsInjective(disconnected)
    /\ recent \subseteq ToSet(disconnected)
    /\ stored \subseteq Servers
    /\ bug \in BOOLEAN
    /\ losses \in 0..MaxLosses
    /\ reloads \in 0..MaxReloads

NoSockets == [s \in Servers |-> "none"]

Init ==
    /\ started = FALSE
    /\ unloading = FALSE
    /\ checking = FALSE
    /\ sockets = NoSockets
    /\ disconnected = <<>>
    /\ recent = {}
    /\ stored = {}
    /\ bug = FALSE
    /\ losses = 0
    /\ reloads = 0

------------------------------------------------------------------------------
(* SignallingServerSelector.                                               *)

(* sortValue: the servers last connected to come first, then those never   *)
(* disconnected from, in a random order (equal here), then the others in   *)
(* the order of their disconnection.                                       *)
SortValue(s, disconnects) ==
    IF s \in ToSet(disconnects)
    THEN 1 + CHOOSE i \in DOMAIN disconnects : disconnects[i] = s
    ELSE IF s \in stored THEN 0 ELSE 1

(* Fault: the time of the first disconnection is kept.                     *)
FlagFirstDisconnection(s) ==
    /\ disconnected' = IF s \in ToSet(disconnected) THEN disconnected
                       ELSE Append(disconnected, s)
    /\ recent' = recent \cup {s}

(* flagDisconnection: the time of an earlier disconnection is replaced.    *)
FlagDisconnection(s) ==
    /\ \/ /\ s \notin ToSet(disconnected)
          /\ disconnected' = Append(disconnected, s)
       \/ \E i \in DOMAIN disconnected :
            /\ disconnected[i] = s
            /\ disconnected' = Append(RemoveAt(disconnected, i), s)
    /\ recent' = recent \cup {s}

------------------------------------------------------------------------------
(* RedundantSignallingSocket.                                              *)

(* Fault: only the sockets that have connected are counted.                *)
NextServersBeyondConnecting(open, disconnects, tooRecent) ==
    LET eligible == {s \in Servers \ (Malformed \cup tooRecent) : open[s] = "none"}
        missing == Preferred - Cardinality({s \in Servers : open[s] = "connected"})
        number == Min({missing, Cardinality(eligible)})
    IN  {new \in kSubset(number, eligible) :
            \A s \in new, t \in eligible \ new :
                SortValue(s, disconnects) <= SortValue(t, disconnects)}

(* connectToServers: the sets of servers it may go on to try, when "open"  *)
(* are the sockets there are.  A server whose socket cannot be created is  *)
(* passed over.                                                            *)
NextServers(open, disconnects, tooRecent) ==
    LET eligible == {s \in Servers \ (Malformed \cup tooRecent) : open[s] = "none"}
        missing == Preferred - Cardinality({s \in Servers : open[s] # "none"})
        number == Min({missing, Cardinality(eligible)})
    IN  {new \in kSubset(number, eligible) :
            \A s \in new, t \in eligible \ new :
                SortValue(s, disconnects) <= SortValue(t, disconnects)}

ConnectToServers(open, disconnects, tooRecent) ==
    \E new \in NextServers(open, disconnects, tooRecent) :
        /\ sockets' = [s \in Servers |->
                        IF s \in new THEN "connecting" ELSE open[s]]
        /\ stored' = Attempted'

(* scheduleServerConnectivityChecks, which throws when the interval runs.  *)
ScheduleChecks(running) ==
    /\ checking' = TRUE
    /\ bug' = (bug \/ running)

Connect ==
    /\ ~started
    /\ started' = TRUE
    /\ ConnectToServers(sockets, disconnected, recent)
    /\ ScheduleChecks(checking)
    /\ UNCHANGED <<unloading, disconnected, recent, losses, reloads>>

(* The interval fires.  (Registering again with the servers does not       *)
(* change anything here.)                                                  *)
CheckConnectivity ==
    /\ checking
    /\ ConnectToServers(sockets, disconnected, recent)
    /\ UNCHANGED <<started, unloading, checking, disconnected, recent, bug,
                   losses, reloads>>

(* A socket's "connect": the client registers and joins its rooms.         *)
SocketConnects(s) ==
    /\ sockets[s] = "connecting"
    /\ s \notin Dead
    /\ sockets' = [sockets EXCEPT ![s] = "connected"]
    /\ UNCHANGED <<started, unloading, checking, disconnected, recent, stored,
                   bug, losses, reloads>>

(* Fault: the interval is not stopped before it is started again.          *)
DisposeKeepingInterval(s) ==
    LET open == [sockets EXCEPT ![s] = "none"] IN
    /\ sockets[s] # "none"
    /\ FlagDisconnection(s)
    /\ \/ /\ unloading
          /\ sockets' = open
          /\ UNCHANGED <<checking, stored, bug>>
       \/ /\ ~unloading
          /\ ConnectToServers(open, disconnected', recent')
          /\ ScheduleChecks(checking)

(* Fault: a page that is being unloaded connects to other servers.         *)
DisposeThoughUnloading(s) ==
    LET open == [sockets EXCEPT ![s] = "none"] IN
    /\ sockets[s] # "none"
    /\ FlagDisconnection(s)
    /\ ConnectToServers(open, disconnected', recent')
    /\ ScheduleChecks(FALSE)

(* disposeOfSocket: the checks are stopped, the socket is forgotten, and   *)
(* unless the page is being unloaded others are tried.                     *)
DisposeOfSocket(s) ==
    LET open == [sockets EXCEPT ![s] = "none"] IN
    /\ sockets[s] # "none"
    /\ FlagDisconnection(s)
    /\ \/ /\ unloading
          /\ sockets' = open
          /\ checking' = FALSE
          /\ UNCHANGED <<stored, bug>>
       \/ /\ ~unloading
          /\ ConnectToServers(open, disconnected', recent')
          /\ ScheduleChecks(FALSE)

(* "connect_error" or "error" of a server that is dead; any of these or    *)
(* "disconnect" of one that is not.                                        *)
SocketFails(s) ==
    /\ DisposeOfSocket(s)
    /\ \/ s \in Dead /\ UNCHANGED losses
       \/ s \notin Dead /\ losses < MaxLosses /\ losses' = losses + 1
    /\ UNCHANGED <<started, unloading, reloads>>

(* delayBeforeRetryMilliseconds have passed since the earliest of the      *)
(* recent disconnections.                                                  *)
RetryDelayElapses ==
    /\ recent # {}
    /\ LET first == Min({i \in DOMAIN disconnected : disconnected[i] \in recent})
       IN  recent' = recent \ {disconnected[first]}
    /\ UNCHANGED <<started, unloading, checking, sockets, disconnected, stored,
                   bug, losses, reloads>>

(* "beforeunload", after which the page may be closed or may stay.         *)
BeforeUnload ==
    /\ started
    /\ ~unloading
    /\ unloading' = TRUE
    /\ UNCHANGED <<started, checking, sockets, disconnected, recent, stored, bug,
                   losses, reloads>>

(* The page is loaded again.                                               *)
Reload ==
    /\ started
    /\ reloads < MaxReloads
    /\ reloads' = reloads + 1
    /\ started' = FALSE
    /\ unloading' = FALSE
    /\ checking' = FALSE
    /\ sockets' = NoSockets
    /\ disconnected' = <<>>
    /\ recent' = {}
    /\ UNCHANGED <<stored, bug, losses>>

------------------------------------------------------------------------------
Next ==
    \/ Connect
    \/ CheckConnectivity
    \/ \E s \in Servers : SocketConnects(s) \/ SocketFails(s)
    \/ RetryDelayElapses
    \/ BeforeUnload
    \/ Reload

Spec == Init /\ [][Next]_vars

------------------------------------------------------------------------------
(* The client never has more than the preferred number of sockets.         *)
NeverTooMany == Cardinality(Attempted) <= Preferred

(* The checks run whenever they are needed, and only one interval does: no *)
(* path starts them twice ("BUG ::: Attempt was made to start connectivity *)
(* checks twice") and none leaves a client that goes on without them.      *)
ChecksRun ==
    /\ ~bug
    /\ started /\ ~unloading => checking

(* The servers a client has sockets to when its page begins to unload are  *)
(* the ones tried first after the reload: they stay stored although their  *)
(* sockets close one by one in the meantime.                               *)
AffinityAcrossReload ==
    [][/\ unloading => stored \subseteq stored'
       /\ ~started /\ started' => stored \subseteq Attempted']_vars

(* As long as living servers are lost no more, the client ends up          *)
(* connected to as many of them as it prefers, or to all there are,        *)
(* whatever order it tries them in: dead servers do not keep it busy.      *)
EventuallyConnected ==
    <>[](\/ unloading
         \/ Cardinality(Connected)
                = Min({Preferred, Cardinality(Servers \ (Dead \cup Malformed))}))
===============================================================================
