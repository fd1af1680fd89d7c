--------------------------- MODULE SignallingServer ---------------------------
(***************************************************************************)
(* The signalling server (cyclon.p2p-rtc-server/lib): who is registered,   *)
(* on which socket, and who is in which room, as sessions of clients come  *)
(* and go.                                                                 *)
(*                                                                         *)
(* A client (RedundantSignallingSocket) registers and joins its rooms when *)
(* its socket connects and registers again from time to time; messages of  *)
(* a socket arrive in order.  A client gives up its socket at once when    *)
(* the connection breaks; the server sees "disconnect" some time later.    *)
(* Every event handler of the server is one step.                          *)
(***************************************************************************)
EXTENDS Naturals, Sequences, FiniteSets, Functions

CONSTANTS
    Nodes,          \* the ids of the clients
    RoomNames,      \* the rooms they join
    Sockets,        \* bound: identities for the sockets open at one time
    None,           \* "null", "undefined"
    MaxInbox        \* bound: messages of one socket on their way

ASSUME SignallingServerAssumption ==
    /\ None \notin Nodes
    /\ None \notin Sockets
    /\ MaxInbox \in Nat

VARIABLES
    link,           \* each socket: unused, open, or cut at the client's end
    client,         \* the node each socket belongs to
    inbox,          \* the messages of each socket on their way to the server
    connectedId,    \* SessionEventHandler.connectedId of each socket
    currentRooms,   \* SessionEventHandler.currentRooms of each socket
    sockets,        \* RegistrationManager.sockets; registrations has its keys
    rooms,          \* RoomManager.rooms: the peers in each room that exists
    up,             \* FALSE when an error nobody catches ended the process
    overlapped      \* history: the clients that have been back before their
                    \* old socket's "disconnect" was handled

vars == <<link, client, inbox, connectedId, currentRooms, sockets, rooms, up,
          overlapped>>

serverVars == <<connectedId, currentRooms, sockets, rooms, up>>

Register == [type |-> "register", rooms |-> {}]

Join(names) == [type |-> "join", rooms |-> names]

Message == {Register} \cup {Join(names) : names \in SUBSET RoomNames}

TypeOK ==
    /\ link \in [Sockets -> {"unused", "open", "cut"}]
    /\ client \in [Sockets -> Nodes \cup {None}]
    /\ inbox \in [Sockets -> Seq(Message)]
    /\ connectedId \in [Sockets -> Nodes \cup {None}]
    /\ currentRooms \in [Sockets -> SUBSET RoomNames]
    /\ DOMAIN sockets \subseteq Nodes
    /\ \A n \in DOMAIN sockets : sockets[n] \in Sockets
    /\ DOMAIN rooms \subseteq RoomNames
    /\ \A r \in DOMAIN rooms : rooms[r] \subseteq Nodes
    /\ up \in BOOLEAN
    /\ overlapped \subseteq Nodes

EmptyMap == [key \in {} |-> key]

Init ==
    /\ link = [s \in Sockets |-> "unused"]
    /\ client = [s \in Sockets |-> None]
    /\ inbox = [s \in Sockets |-> <<>>]
    /\ connectedId = [s \in Sockets |-> None]
    /\ currentRooms = [s \in Sockets |-> {}]
    /\ sockets = EmptyMap
    /\ rooms = EmptyMap
    /\ up = TRUE
    /\ overlapped = {}

------------------------------------------------------------------------------
(* RegistrationManager and RoomManager.                                    *)

Registered(n, s) ==
    [m \in DOMAIN sockets \cup {n} |-> IF m = n THEN s ELSE sockets[m]]

(* Fault: the entry is emptied but not deleted.                            *)
UnregisteredToNone(n) ==
    [m \in DOMAIN sockets |-> IF m = n THEN None ELSE sockets[m]]

Unregistered(n) == Restrict(sockets, DOMAIN sockets \ {n})

(* Fault: a room is kept when its last peer leaves.                        *)
WithoutKeepingEmpty(current, n, names) ==
    [r \in DOMAIN current |->
        IF r \in names THEN current[r] \ {n} ELSE current[r]]

(* updateRooms: leaving deletes the rooms that become empty.               *)
Without(current, n, names) ==
    LET left == [r \in DOMAIN current |->
                    IF r \in names THEN current[r] \ {n} ELSE current[r]]
    IN  Restrict(left, {r \in DOMAIN left : r \in names => left[r] # {}})

With(current, n, names) ==
    [r \in DOMAIN current \cup names |->
        (IF r \in DOMAIN current THEN current[r] ELSE {})
            \cup (IF r \in names THEN {n} ELSE {})]

(* updateRooms throws a TypeError when an old room does not exist, which   *)
(* nothing catches.                                                        *)
CanLeave(names) == names \subseteq DOMAIN rooms

Crash ==
    /\ up' = FALSE
    /\ UNCHANGED <<connectedId, currentRooms, sockets, rooms>>

------------------------------------------------------------------------------
(* The clients.                                                            *)

(* A client has one socket to a server; it opens another only when that    *)
(* one has failed.  Once connected it registers and joins its rooms.       *)
Connect(s, n) ==
    /\ up
    /\ link[s] = "unused"
    /\ \A other \in Sockets : client[other] = n => link[other] = "cut"
    /\ link' = [link EXCEPT ![s] = "open"]
    /\ client' = [client EXCEPT ![s] = n]
    /\ \E names \in SUBSET RoomNames :
        inbox' = [inbox EXCEPT ![s] = <<Register, Join(names)>>]
    /\ overlapped' = IF \E other \in Sockets : client[other] = n
                     THEN overlapped \cup {n} ELSE overlapped
    /\ UNCHANGED serverVars

Send(s, message) ==
    /\ link[s] = "open"
    /\ Len(inbox[s]) < MaxInbox
    /\ inbox' = [inbox EXCEPT ![s] = Append(@, message)]
    /\ UNCHANGED <<link, client, serverVars, overlapped>>

(* The periodic updateRegistrations: it registers but does not join.       *)
Reregister(s) == Send(s, Register)

(* Another choice of rooms, which the server allows for.                   *)
JoinOthers(s) == \E names \in SUBSET RoomNames : Send(s, Join(names))

(* The connection breaks, or the client closes it.                         *)
Cut(s) ==
    /\ link[s] = "open"
    /\ link' = [link EXCEPT ![s] = "cut"]
    /\ UNCHANGED <<client, inbox, serverVars, overlapped>>

------------------------------------------------------------------------------
(* SessionEventHandler.handleSession.                                      *)

Receive(s, message) ==
    /\ up
    /\ inbox[s] # <<>>
    /\ Head(inbox[s]) = message
    /\ inbox' = [inbox EXCEPT ![s] = Tail(@)]

(* Fault: a socket is registered the first time only.                      *)
HandleFirstRegister(s) ==
    /\ Receive(s, Register)
    /\ connectedId' = [connectedId EXCEPT ![s] = client[s]]
    /\ sockets' = IF connectedId[s] = None THEN Registered(client[s], s)
                  ELSE sockets
    /\ UNCHANGED <<link, client, currentRooms, rooms, up, overlapped>>

(* It throws for an id other than the one first registered; a client has   *)
(* only one.                                                               *)
HandleRegister(s) ==
    /\ Receive(s, Register)
    /\ connectedId' = [connectedId EXCEPT ![s] = client[s]]
    /\ sockets' = Registered(client[s], s)
    /\ UNCHANGED <<link, client, currentRooms, rooms, up, overlapped>>

(* Fault: the session remembers its first rooms only.                      *)
HandleJoinKeepingRooms(s, names) ==
    /\ Receive(s, Join(names))
    /\ \/ /\ connectedId[s] # None
          /\ CanLeave(currentRooms[s])
          /\ rooms' = With(Without(rooms, connectedId[s], currentRooms[s]),
                           connectedId[s], names)
          /\ currentRooms' = [currentRooms EXCEPT
                                ![s] = IF @ = {} THEN names ELSE @]
          /\ UNCHANGED <<connectedId, sockets, up>>
       \/ (connectedId[s] = None \/ ~CanLeave(currentRooms[s])) /\ Crash
    /\ UNCHANGED <<link, client, overlapped>>

(* It throws, and nothing catches it, when the client has not registered.  *)
HandleJoin(s, names) ==
    /\ Receive(s, Join(names))
    /\ \/ /\ connectedId[s] # None
          /\ CanLeave(currentRooms[s])
          /\ rooms' = With(Without(rooms, connectedId[s], currentRooms[s]),
                           connectedId[s], names)
          /\ currentRooms' = [currentRooms EXCEPT ![s] = names]
          /\ UNCHANGED <<connectedId, sockets, up>>
       \/ (connectedId[s] = None \/ ~CanLeave(currentRooms[s])) /\ Crash
    /\ UNCHANGED <<link, client, overlapped>>

(* The session is over: its socket's identity can be used again.           *)
Forget(s) ==
    /\ link' = [link EXCEPT ![s] = "unused"]
    /\ client' = [client EXCEPT ![s] = None]
    /\ inbox' = [inbox EXCEPT ![s] = <<>>]

(* Fault: the registration outlives the session.                           *)
CleanUpKeepingRegistration(s) ==
    /\ connectedId[s] # None
    /\ CanLeave(currentRooms[s])
    /\ rooms' = Without(rooms, connectedId[s], currentRooms[s])
    /\ connectedId' = [connectedId EXCEPT ![s] = None]
    /\ currentRooms' = [currentRooms EXCEPT ![s] = {}]
    /\ UNCHANGED <<sockets, up>>

(* Fault: the rooms are not left.                                          *)
CleanUpKeepingRooms(s) ==
    /\ connectedId[s] # None
    /\ CanLeave(currentRooms[s])
    /\ sockets' = Unregistered(connectedId[s])
    /\ connectedId' = [connectedId EXCEPT ![s] = None]
    /\ currentRooms' = [currentRooms EXCEPT ![s] = {}]
    /\ UNCHANGED <<rooms, up>>

CleanUp(s) ==
    /\ connectedId[s] # None
    /\ CanLeave(currentRooms[s])
    /\ rooms' = Without(rooms, connectedId[s], currentRooms[s])
    /\ sockets' = Unregistered(connectedId[s])
    /\ connectedId' = [connectedId EXCEPT ![s] = None]
    /\ currentRooms' = [currentRooms EXCEPT ![s] = {}]
    /\ UNCHANGED up

(* "disconnect": what has not arrived by then is lost.                     *)
HandleDisconnect(s) ==
    /\ up
    /\ link[s] = "cut"
    /\ \/ CleanUp(s) /\ Forget(s)
       \/ /\ connectedId[s] = None
          /\ Forget(s)
          /\ UNCHANGED serverVars
       \/ /\ connectedId[s] # None
          /\ ~CanLeave(currentRooms[s])
          /\ Crash
          /\ UNCHANGED <<link, client, inbox>>
    /\ UNCHANGED overlapped

------------------------------------------------------------------------------
Next ==
    \E s \in Sockets :
        \/ \E n \in Nodes : Connect(s, n)
        \/ Reregister(s)
        \/ JoinOthers(s)
        \/ Cut(s)
        \/ HandleRegister(s)
        \/ \E names \in SUBSET RoomNames : HandleJoin(s, names)
        \/ HandleDisconnect(s)

Spec == Init /\ [][Next]_vars

(* What a client has sent arrives, unless its connection breaks; the       *)
(* server notices a broken connection; a client registers from time to     *)
(* time.  (The last is strong fairness because MaxInbox, which is not the  *)
(* code's, may make registering impossible for a while.)                   *)
Handle(s) ==
    \/ HandleRegister(s)
    \/ \E names \in SUBSET RoomNames : HandleJoin(s, names)

Fairness ==
    \A s \in Sockets :
        WF_vars(Handle(s)) /\ WF_vars(HandleDisconnect(s)) /\ SF_vars(Reregister(s))

FairSpec == Spec /\ Fairness

------------------------------------------------------------------------------
(* What GET /peers may answer for a room and a limit: the pointers of a    *)
(* sample of its members, or "undefined" for one that is not registered.   *)
PeersIn(room) == IF room \in DOMAIN rooms THEN rooms[room] ELSE {}

SessionsIn(room) == {connectedId[s] : s \in {t \in Sockets : room \in currentRooms[t]}}

(* A peer is in a room only as long as one of its sessions is, and a room  *)
(* exists only as long as there are peers in it (RoomManager.js:69), even  *)
(* when the sessions of a client overlap.                                  *)
NoGhosts ==
    /\ \A r \in RoomNames : PeersIn(r) \subseteq SessionsIn(r)
    /\ \A r \in DOMAIN rooms : rooms[r] # {}

(* A client whose own sessions have not overlapped is in the rooms that    *)
(* its session has joined, whatever the sessions of others have done.      *)
NobodyMissing ==
    \A r \in RoomNames : SessionsIn(r) \ overlapped \subseteq PeersIn(r)

(* GET /peers has a pointer to answer for every peer it samples whose own  *)
(* sessions have not overlapped.                                           *)
PeersAreRegistered ==
    \A r \in DOMAIN rooms : rooms[r] \ overlapped \subseteq DOMAIN sockets

(* An offer, answer or candidate for a node is emitted on a socket of that *)
(* very node, and never on one whose "disconnect" has been handled.        *)
MessagesReachTheirNode ==
    \A n \in DOMAIN sockets :
        link[sockets[n]] # "unused" /\ client[sockets[n]] = n

(* No handler of a session throws as long as no client's sessions have     *)
(* overlapped: the rooms to leave exist.                                   *)
NeverCrashes == overlapped = {} => up

(* A node whose socket stays open can be sent messages through it again    *)
(* and again, even after the "disconnect" of an older socket of it has     *)
(* undone its registration.                                                *)
StaysRegistered ==
    \A s \in Sockets :
        []<>(link[s] = "open" /\ up
                => client[s] \in DOMAIN sockets /\ sockets[client[s]] = s)

------------------------------------------------------------------------------
(* What comments of the code say and the code does not do, when sessions   *)
(* of a client overlap.                                                    *)

(* RoomManager.js:41, "Delete pointer from my previous rooms (if any)":    *)
(* leaving rooms that are gone is no error.                                *)
LeavingNeverFails == up
===============================================================================
