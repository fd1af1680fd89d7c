------------------------ MODULE SignallingServerProofs ------------------------
(***************************************************************************)
(* Theorems about SignallingServer: what holds however the sessions of a   *)
(* client overlap, and what holds when they do not, for all sets of nodes, *)
(* rooms and sockets.                                                      *)
(***************************************************************************)
EXTENDS SignallingServer, SequenceTheorems, TLAPS

USE SignallingServerAssumption

(* The state of a session fits its socket: a socket in use has an owner, a *)
(* registered session is registered as its owner, one that is not has no   *)
(* rooms and "register" on its way, before anything else.                  *)
SessionsFit ==
    \A s \in Sockets :
        /\ link[s] = "unused" => client[s] = None /\ inbox[s] = <<>>
        /\ link[s] # "unused" => client[s] \in Nodes
        /\ connectedId[s] \in {None, client[s]}
        /\ connectedId[s] = None =>
            /\ currentRooms[s] = {}
            /\ link[s] # "unused" => inbox[s] # <<>> /\ Head(inbox[s]) = Register

(* The registered sockets are those of sessions registered as the node.    *)
SocketsFit == \A n \in DOMAIN sockets : connectedId[sockets[n]] = n

(* Inductive whether or not the sessions of a client overlap.              *)
IInv ==
    /\ TypeOK
    /\ SessionsFit
    /\ NoGhosts
    /\ MessagesReachTheirNode
    /\ SocketsFit

------------------------------------------------------------------------------
(* What the operations of RoomManager do to the members of each room.      *)

Members(current, r) == IF r \in DOMAIN current THEN current[r] ELSE {}

IsRooms(current) ==
    /\ DOMAIN current \subseteq RoomNames
    /\ \A r \in DOMAIN current : current[r] \subseteq Nodes
    /\ \A r \in DOMAIN current : current[r] # {}

(* A map of rooms that has no empty room keeps none when a node leaves.    *)
LEMMA WithoutFacts ==
    ASSUME NEW current, IsRooms(current), NEW n, NEW names
    PROVE  /\ IsRooms(Without(current, n, names))
           /\ DOMAIN Without(current, n, names) \subseteq DOMAIN current
           /\ \A r : Members(Without(current, n, names), r)
                        = IF r \in names THEN Members(current, r) \ {n}
                          ELSE Members(current, r)
<1> DEFINE left == [r \in DOMAIN current |->
                        IF r \in names THEN current[r] \ {n} ELSE current[r]]
           kept == {r \in DOMAIN left : r \in names => left[r] # {}}
<1>1. Without(current, n, names) = [r \in kept |-> left[r]]
  BY DEF Without, Restrict
<1>2. DOMAIN left = DOMAIN current
  OBVIOUS
<1>3. \A r \in DOMAIN current :
        left[r] = IF r \in names THEN current[r] \ {n} ELSE current[r]
  OBVIOUS
<1>4. kept \subseteq DOMAIN current
  BY <1>2
<1> HIDE DEF left
<1>5. IsRooms([r \in kept |-> left[r]])
  BY <1>2, <1>3, <1>4 DEF IsRooms
<1>6. ASSUME NEW r
      PROVE  Members([q \in kept |-> left[q]], r)
                = IF r \in names THEN Members(current, r) \ {n}
                  ELSE Members(current, r)
  <2>1. CASE r \in kept
    BY <1>3, <1>4, <2>1 DEF Members
  <2>2. CASE r \in DOMAIN current /\ r \notin kept
    BY <1>2, <1>3, <2>2 DEF Members
  <2>3. CASE r \notin DOMAIN current
    BY <1>4, <2>3 DEF Members
  <2> QED
    BY <2>1, <2>2, <2>3
<1> HIDE DEF kept
<1> QED
  BY <1>1, <1>4, <1>5, <1>6

(* A node enters exactly the rooms it names.                               *)
LEMMA WithFacts ==
    ASSUME NEW current, IsRooms(current),
           NEW n \in Nodes, NEW names \in SUBSET RoomNames
    PROVE  /\ IsRooms(With(current, n, names))
           /\ \A r : Members(With(current, n, names), r)
                        = Members(current, r) \cup (IF r \in names THEN {n} ELSE {})
<1>1. DOMAIN With(current, n, names) = DOMAIN current \cup names
  BY DEF With
<1>2. \A r \in DOMAIN current \cup names :
        With(current, n, names)[r]
            = Members(current, r) \cup (IF r \in names THEN {n} ELSE {})
  BY DEF With, Members
<1>3. IsRooms(With(current, n, names))
  BY <1>1, <1>2 DEF IsRooms, Members
<1> QED
  BY <1>1, <1>2, <1>3 DEF Members

(* PeersIn and the type invariant in the terms of these lemmas.            *)
LEMMA RoomsAreRooms ==
    ASSUME TypeOK, NoGhosts
    PROVE  IsRooms(rooms) /\ \A r : PeersIn(r) = Members(rooms, r)
BY DEF TypeOK, NoGhosts, IsRooms, PeersIn, Members
------------------------------------------------------------------------------
(* NoGhosts and its converse, spelt out.                                   *)

LEMMA NoGhostsMeans ==
    NoGhosts <=>
        /\ \A r \in RoomNames : \A n \in PeersIn(r) :
                \E s \in Sockets : r \in currentRooms[s] /\ connectedId[s] = n
        /\ \A r \in DOMAIN rooms : rooms[r] # {}
BY DEF NoGhosts, SessionsIn

LEMMA InitIInv == Init => IInv
<1> SUFFICES ASSUME Init PROVE IInv
  OBVIOUS
<1>1. TypeOK
  BY EmptySeq DEF Init, TypeOK, EmptyMap
<1>2. SessionsFit
  BY DEF Init, SessionsFit
<1>3. NoGhosts
  BY DEF Init, NoGhosts, PeersIn, EmptyMap
<1>4. MessagesReachTheirNode /\ SocketsFit
  BY DEF Init, MessagesReachTheirNode, SocketsFit, EmptyMap
<1> QED
  BY <1>1, <1>2, <1>3, <1>4 DEF IInv

(* The steps of the clients leave the server's state alone.                *)
LEMMA ConnectIInv ==
    ASSUME IInv, NEW s \in Sockets, NEW n \in Nodes, Connect(s, n)
    PROVE  IInv'
<1>0. PICK names \in SUBSET RoomNames :
        inbox' = [inbox EXCEPT ![s] = <<Register, Join(names)>>]
  BY DEF Connect
<1>1. <<Register, Join(names)>> \in Seq(Message)
  BY DEF Message
<1>2. TypeOK'
  BY <1>0, <1>1 DEF IInv, TypeOK, Connect, serverVars
<1>3. SessionsFit'
  <2> SUFFICES ASSUME NEW t \in Sockets
               PROVE  SessionsFit!(t)'
    BY DEF SessionsFit
  <2>1. CASE t = s
    <3>1. inbox'[s] = <<Register, Join(names)>> /\ link'[s] = "open" /\ client'[s] = n
      BY <1>0 DEF IInv, TypeOK, Connect
    <3>2. connectedId'[s] = None /\ currentRooms'[s] = {}
      BY DEF IInv, SessionsFit, Connect, serverVars
    <3> QED
      BY <2>1, <3>1, <3>2
  <2>2. CASE t # s
    BY <1>0, <2>2 DEF IInv, TypeOK, SessionsFit, Connect, serverVars
  <2> QED
    BY <2>1, <2>2
<1>4. NoGhosts'
  BY DEF IInv, NoGhosts, PeersIn, SessionsIn, Connect, serverVars
<1>5. MessagesReachTheirNode' /\ SocketsFit'
  BY DEF IInv, TypeOK, MessagesReachTheirNode, SocketsFit, Connect, serverVars
<1> QED
  BY <1>2, <1>3, <1>4, <1>5 DEF IInv

LEMMA SendIInv ==
    ASSUME IInv, NEW s \in Sockets, NEW message \in Message, Send(s, message)
    PROVE  IInv'
<1>0. inbox[s] \in Seq(Message)
  BY DEF IInv, TypeOK
<1>1. /\ Append(inbox[s], message) \in Seq(Message)
      /\ Append(inbox[s], message) # <<>>
      /\ inbox[s] # <<>> => Head(Append(inbox[s], message)) = Head(inbox[s])
  BY <1>0, AppendProperties, HeadTailAppend
<1> QED
  BY <1>1 DEF IInv, TypeOK, SessionsFit, NoGhosts, PeersIn, SessionsIn,
              MessagesReachTheirNode, SocketsFit, Send, serverVars

LEMMA CutIInv ==
    ASSUME IInv, NEW s \in Sockets, Cut(s)
    PROVE  IInv'
BY DEF IInv, TypeOK, SessionsFit, NoGhosts, PeersIn, SessionsIn,
       MessagesReachTheirNode, SocketsFit, Cut, serverVars
(* What is left of the messages of a socket when one is received.          *)
LEMMA ReceiveFacts ==
    ASSUME IInv, NEW s \in Sockets, NEW message, Receive(s, message)
    PROVE  /\ inbox' \in [Sockets -> Seq(Message)]
           /\ \A t \in Sockets \ {s} : inbox'[t] = inbox[t]
           /\ link[s] # "unused"
           /\ client[s] \in Nodes
<1>1. inbox[s] \in Seq(Message) /\ inbox[s] # <<>>
  BY DEF IInv, TypeOK, Receive
<1>2. Tail(inbox[s]) \in Seq(Message)
  BY <1>1, HeadTailProperties
<1> QED
  BY <1>1, <1>2 DEF IInv, TypeOK, SessionsFit, Receive

LEMMA HandleRegisterIInv ==
    ASSUME IInv, NEW s \in Sockets, HandleRegister(s)
    PROVE  IInv'
<1>1. /\ inbox' \in [Sockets -> Seq(Message)]
      /\ \A t \in Sockets \ {s} : inbox'[t] = inbox[t]
      /\ link[s] # "unused"
      /\ client[s] \in Nodes
  BY ReceiveFacts DEF HandleRegister
<1>2. /\ connectedId' = [connectedId EXCEPT ![s] = client[s]]
      /\ sockets' = Registered(client[s], s)
      /\ UNCHANGED <<link, client, currentRooms, rooms, up, overlapped>>
  BY DEF HandleRegister
<1>3. TypeOK'
  BY <1>1, <1>2 DEF IInv, TypeOK, Registered
<1>4. SessionsFit'
  BY <1>1, <1>2 DEF IInv, TypeOK, SessionsFit
<1>5. NoGhosts'
  <2>1. \A r \in RoomNames : \A n \in PeersIn(r) :
            \E t \in Sockets : r \in currentRooms[t] /\ connectedId[t] = n
    BY NoGhostsMeans DEF IInv
  <2>2. \A t \in Sockets : currentRooms[t] # {} => connectedId'[t] = connectedId[t]
    BY <1>1, <1>2 DEF IInv, TypeOK, SessionsFit
  <2>3. \A r \in RoomNames : PeersIn(r)' = PeersIn(r)
    BY <1>2 DEF PeersIn
  <2>4. \A r \in RoomNames : \A n \in PeersIn(r)' :
            \E t \in Sockets : r \in currentRooms'[t] /\ connectedId'[t] = n
    BY <1>2, <2>1, <2>2, <2>3
  <2>5. \A r \in DOMAIN rooms' : rooms'[r] # {}
    BY <1>2 DEF IInv, NoGhosts
  <2> QED
    BY <2>4, <2>5 DEF NoGhosts, SessionsIn
<1>6. MessagesReachTheirNode' /\ SocketsFit'
  BY <1>1, <1>2 DEF IInv, TypeOK, SessionsFit, MessagesReachTheirNode, SocketsFit,
                    Registered
<1> QED
  BY <1>3, <1>4, <1>5, <1>6 DEF IInv

(* Join, the handler's two outcomes.                                       *)
LEMMA HandleJoinIInv ==
    ASSUME IInv, NEW s \in Sockets, NEW names \in SUBSET RoomNames,
           HandleJoin(s, names)
    PROVE  IInv'
<1> DEFINE id == connectedId[s]
           left == Without(rooms, id, currentRooms[s])
<1>1. /\ inbox' \in [Sockets -> Seq(Message)]
      /\ \A t \in Sockets \ {s} : inbox'[t] = inbox[t]
      /\ link[s] # "unused"
      /\ client[s] \in Nodes
  BY ReceiveFacts DEF HandleJoin
<1>2. connectedId[s] \in Nodes
  <2>1. Head(inbox[s]) = Join(names)
    BY DEF HandleJoin, Receive
  <2>2. Join(names) # Register
    BY DEF Join, Register
  <2> QED
    BY <1>1, <2>1, <2>2 DEF IInv, SessionsFit
<1>3. UNCHANGED <<link, client, connectedId, sockets, overlapped>>
  BY DEF HandleJoin, Crash
<1>4. CASE /\ rooms' = With(left, id, names)
           /\ currentRooms' = [currentRooms EXCEPT ![s] = names]
           /\ UNCHANGED up
  <2>1. IsRooms(rooms) /\ \A r : PeersIn(r) = Members(rooms, r)
    BY RoomsAreRooms DEF IInv
  <2>2. /\ IsRooms(left)
        /\ \A r : Members(left, r) = IF r \in currentRooms[s]
                                     THEN Members(rooms, r) \ {id}
                                     ELSE Members(rooms, r)
    BY <2>1, WithoutFacts
  <2> HIDE DEF left
  <2>3. /\ IsRooms(rooms')
        /\ \A r : Members(rooms', r)
                    = Members(left, r) \cup (IF r \in names THEN {id} ELSE {})
    BY <1>2, <1>4, <2>2, WithFacts
  <2>4. TypeOK'
    BY <1>1, <1>3, <1>4, <2>3 DEF IInv, TypeOK, IsRooms
  <2>5. SessionsFit'
    BY <1>1, <1>2, <1>3, <1>4 DEF IInv, TypeOK, SessionsFit
  <2>6. NoGhosts'
    <3>1. ASSUME NEW r \in RoomNames, NEW n \in PeersIn(r)'
          PROVE  \E t \in Sockets : r \in currentRooms'[t] /\ connectedId'[t] = n
      <4>0. currentRooms \in [Sockets -> SUBSET RoomNames]
        BY DEF IInv, TypeOK
      <4>1. n \in Members(rooms', r)
        BY <3>1 DEF PeersIn, Members
      <4>2. CASE n = id /\ r \in names
        BY <1>3, <1>4, <4>0, <4>2
      <4>3. CASE ~(n = id /\ r \in names)
        <5>1. n \in PeersIn(r) /\ ~(n = id /\ r \in currentRooms[s])
          BY <2>1, <2>2, <2>3, <4>1, <4>3
        <5>2. PICK t \in Sockets : r \in currentRooms[t] /\ connectedId[t] = n
          BY <5>1, NoGhostsMeans DEF IInv
        <5>3. t # s
          BY <5>1, <5>2
        <5> QED
          BY <1>3, <1>4, <4>0, <5>2, <5>3
      <4> QED
        BY <4>2, <4>3
    <3> QED
      BY <2>3, <3>1 DEF NoGhosts, SessionsIn, IsRooms
  <2>7. MessagesReachTheirNode' /\ SocketsFit'
    BY <1>3 DEF IInv, MessagesReachTheirNode, SocketsFit
  <2> QED
    BY <2>4, <2>5, <2>6, <2>7 DEF IInv
<1>5. CASE Crash
  <2>1. UNCHANGED <<currentRooms, rooms>> /\ up' = FALSE
    BY <1>5 DEF Crash
  <2>2. TypeOK'
    BY <1>1, <1>3, <2>1 DEF IInv, TypeOK
  <2>3. SessionsFit'
    BY <1>1, <1>2, <1>3, <2>1 DEF IInv, SessionsFit
  <2>4. NoGhosts'
    BY <1>3, <2>1 DEF IInv, NoGhosts, PeersIn, SessionsIn
  <2>5. MessagesReachTheirNode' /\ SocketsFit'
    BY <1>3, <2>1 DEF IInv, MessagesReachTheirNode, SocketsFit
  <2> QED
    BY <2>2, <2>3, <2>4, <2>5 DEF IInv
<1> QED
  BY <1>4, <1>5 DEF HandleJoin

LEMMA HandleDisconnectIInv ==
    ASSUME IInv, NEW s \in Sockets, HandleDisconnect(s)
    PROVE  IInv'
<1>0. overlapped' = overlapped
  BY DEF HandleDisconnect
<1> DEFINE id == connectedId[s]
<1>1. CASE CleanUp(s) /\ Forget(s)
  <2>1. IsRooms(rooms) /\ \A r : PeersIn(r) = Members(rooms, r)
    BY RoomsAreRooms DEF IInv
  <2> DEFINE left == Without(rooms, id, currentRooms[s])
  <2>a. rooms' = left
    BY <1>1 DEF CleanUp
  <2>b. /\ IsRooms(left)
        /\ \A r : Members(left, r) = IF r \in currentRooms[s]
                                     THEN Members(rooms, r) \ {id}
                                     ELSE Members(rooms, r)
    BY <2>1, WithoutFacts
  <2> HIDE DEF left
  <2>2. /\ IsRooms(rooms')
        /\ \A r : Members(rooms', r) = IF r \in currentRooms[s]
                                       THEN Members(rooms, r) \ {id}
                                       ELSE Members(rooms, r)
    BY <2>a, <2>b
  <2>3. /\ DOMAIN sockets' = DOMAIN sockets \ {id}
        /\ \A n \in DOMAIN sockets' : sockets'[n] = sockets[n]
    BY <1>1 DEF CleanUp, Unregistered, Restrict
  <2>4. id \in Nodes /\ id = client[s]
    BY <1>1 DEF IInv, TypeOK, SessionsFit, CleanUp
  <2>5. TypeOK'
    BY <1>0, <1>1, <2>2, <2>3, EmptySeq DEF IInv, TypeOK, IsRooms, CleanUp, Forget
  <2>6. SessionsFit'
    BY <1>1 DEF IInv, TypeOK, SessionsFit, CleanUp, Forget
  <2>7. NoGhosts'
    <3>1. ASSUME NEW r \in RoomNames, NEW n \in PeersIn(r)'
          PROVE  \E t \in Sockets : r \in currentRooms'[t] /\ connectedId'[t] = n
      <4>1. n \in Members(rooms', r)
        BY <3>1 DEF PeersIn, Members
      <4>2. n \in PeersIn(r) /\ ~(n = id /\ r \in currentRooms[s])
        BY <2>1, <2>2, <4>1
      <4>3. PICK t \in Sockets : r \in currentRooms[t] /\ connectedId[t] = n
        BY <4>2, NoGhostsMeans DEF IInv
      <4>4. t # s
        BY <4>2, <4>3
      <4> QED
        BY <1>1, <4>3, <4>4 DEF IInv, TypeOK, CleanUp
    <3> QED
      BY <2>2, <3>1 DEF NoGhosts, SessionsIn, IsRooms
  <2>8. MessagesReachTheirNode' /\ SocketsFit'
    <3>1. \A n \in DOMAIN sockets' : sockets[n] # s
      BY <2>3, <2>4 DEF IInv, MessagesReachTheirNode
    <3>2. MessagesReachTheirNode'
      BY <1>1, <2>3, <3>1 DEF IInv, TypeOK, MessagesReachTheirNode, Forget
    <3>3. SocketsFit'
      BY <1>1, <2>3, <3>1 DEF IInv, TypeOK, SocketsFit, CleanUp
    <3> QED
      BY <3>2, <3>3
  <2> QED
    BY <2>5, <2>6, <2>7, <2>8 DEF IInv
<1>2. CASE connectedId[s] = None /\ Forget(s) /\ UNCHANGED serverVars
  <2>1. TypeOK'
    BY <1>0, <1>2, EmptySeq DEF IInv, TypeOK, Forget, serverVars
  <2>2. SessionsFit'
    BY <1>2 DEF IInv, TypeOK, SessionsFit, Forget, serverVars
  <2>3. NoGhosts'
    BY <1>2 DEF IInv, NoGhosts, PeersIn, SessionsIn, serverVars
  <2>4. MessagesReachTheirNode' /\ SocketsFit'
    <3>1. \A n \in DOMAIN sockets : sockets[n] # s
      BY <1>2 DEF IInv, TypeOK, SocketsFit
    <3> QED
      BY <1>2, <3>1 DEF IInv, TypeOK, MessagesReachTheirNode, SocketsFit,
                        Forget, serverVars
  <2> QED
    BY <2>1, <2>2, <2>3, <2>4 DEF IInv
<1>3. CASE Crash /\ UNCHANGED <<link, client, inbox>>
  <2>1. /\ UNCHANGED <<link, client, inbox, connectedId, currentRooms, sockets, rooms>>
        /\ up' = FALSE
    BY <1>3 DEF Crash
  <2>2. TypeOK'
    BY <1>0, <2>1 DEF IInv, TypeOK
  <2>3. SessionsFit' /\ SocketsFit'
    BY <2>1 DEF IInv, SessionsFit, SocketsFit
  <2>4. NoGhosts' /\ MessagesReachTheirNode'
    BY <2>1 DEF IInv, NoGhosts, PeersIn, SessionsIn, MessagesReachTheirNode
  <2> QED
    BY <2>2, <2>3, <2>4 DEF IInv
<1> QED
  BY <1>1, <1>2, <1>3 DEF HandleDisconnect
LEMMA NextIInv == IInv /\ [Next]_vars => IInv'
<1> SUFFICES ASSUME IInv, [Next]_vars PROVE IInv'
  OBVIOUS
<1>1. CASE UNCHANGED vars
  BY <1>1 DEF vars, IInv, TypeOK, SessionsFit, NoGhosts, PeersIn, SessionsIn,
              MessagesReachTheirNode, SocketsFit
<1>2. ASSUME NEW s \in Sockets, NEW n \in Nodes, Connect(s, n)
      PROVE  IInv'
  BY <1>2, ConnectIInv
<1>3. ASSUME NEW s \in Sockets, Reregister(s) \/ JoinOthers(s)
      PROVE  IInv'
  <2>1. Register \in Message /\ \A names \in SUBSET RoomNames : Join(names) \in Message
    BY DEF Message
  <2> QED
    BY <1>3, <2>1, SendIInv DEF Reregister, JoinOthers
<1>4. ASSUME NEW s \in Sockets, Cut(s)
      PROVE  IInv'
  BY <1>4, CutIInv
<1>5. ASSUME NEW s \in Sockets, HandleRegister(s)
      PROVE  IInv'
  BY <1>5, HandleRegisterIInv
<1>6. ASSUME NEW s \in Sockets, NEW names \in SUBSET RoomNames, HandleJoin(s, names)
      PROVE  IInv'
  BY <1>6, HandleJoinIInv
<1>7. ASSUME NEW s \in Sockets, HandleDisconnect(s)
      PROVE  IInv'
  BY <1>7, HandleDisconnectIInv
<1> QED
  BY <1>1, <1>2, <1>3, <1>4, <1>5, <1>6, <1>7 DEF Next

(* The invariant that is inductive however sessions overlap.               *)
THEOREM SpecIInv == Spec => []IInv
BY InitIInv, NextIInv, PTL DEF Spec

(* Type correctness.                                                       *)
THEOREM TypeCorrect == Spec => []TypeOK
<1>1. IInv => TypeOK
  BY DEF IInv
<1> QED
  BY <1>1, SpecIInv, PTL

(* The rooms hold nobody whose sessions have all left them, and no room is *)
(* empty, however sessions overlap.                                        *)
THEOREM RoomsHaveNoGhosts == Spec => []NoGhosts
<1>1. IInv => NoGhosts
  BY DEF IInv
<1> QED
  BY <1>1, SpecIInv, PTL

(* A message for a node is emitted on a live socket of that node, however  *)
(* sessions overlap.                                                       *)
THEOREM MessagesAreNotMisrouted == Spec => []MessagesReachTheirNode
<1>1. IInv => MessagesReachTheirNode
  BY DEF IInv
<1> QED
  BY <1>1, SpecIInv, PTL

------------------------------------------------------------------------------
(* What holds of the clients whose own sessions have not overlapped.       *)

(* No two sessions in use belong to one such client.                       *)
OneSession ==
    \A s, t \in Sockets :
        client[s] # None /\ client[t] = client[s] => s = t \/ client[s] \in overlapped

(* Such a session that has registered has not been unregistered.           *)
SessionsAreRegistered ==
    \A s \in Sockets :
        connectedId[s] # None => connectedId[s] \in DOMAIN sockets \cup overlapped

SeqInv ==
    /\ OneSession
    /\ SessionsAreRegistered
    /\ NobodyMissing
    /\ NeverCrashes

LEMMA NobodyMissingMeans ==
    NobodyMissing <=>
        \A s \in Sockets : \A r \in RoomNames \cap currentRooms[s] :
            connectedId[s] \in PeersIn(r) \cup overlapped
BY DEF NobodyMissing, SessionsIn

(* The rooms such a session leaves exist, so leaving them is no error.     *)
LEMMA SessionsCanLeave ==
    ASSUME IInv, SeqInv, NEW s \in Sockets, connectedId[s] \notin overlapped
    PROVE  CanLeave(currentRooms[s])
<1>1. currentRooms[s] \subseteq RoomNames
  BY DEF IInv, TypeOK
<1>2. \A r \in currentRooms[s] : connectedId[s] \in PeersIn(r)
  BY <1>1, NobodyMissingMeans DEF SeqInv
<1> QED
  BY <1>2 DEF PeersIn, CanLeave

LEMMA InitSeqInv == Init => SeqInv
BY NobodyMissingMeans
   DEF Init, SeqInv, OneSession, SessionsAreRegistered, NeverCrashes

(* No client's crash is noticed by one whose sessions have not overlapped. *)
LEMMA CrashSeqInv ==
    ASSUME IInv, SeqInv, NEW s \in Sockets,
           Crash, UNCHANGED <<client, overlapped>>,
           ~CanLeave(currentRooms[s])
    PROVE  SeqInv'
<1>1. overlapped # {}
  BY SessionsCanLeave
<1> QED
  BY <1>1 DEF Crash, SeqInv, OneSession, SessionsAreRegistered, NobodyMissing,
              SessionsIn, PeersIn, NeverCrashes

LEMMA HandleJoinSeqInv ==
    ASSUME IInv, SeqInv, NEW s \in Sockets, NEW names \in SUBSET RoomNames,
           HandleJoin(s, names)
    PROVE  SeqInv'
<1> DEFINE id == connectedId[s]
           left == Without(rooms, id, currentRooms[s])
<1>1. connectedId[s] \in Nodes
  <2>1. Head(inbox[s]) = Join(names) /\ inbox[s] # <<>>
    BY DEF HandleJoin, Receive
  <2>2. Join(names) # Register
    BY DEF Join, Register
  <2> QED
    BY <2>1, <2>2 DEF IInv, TypeOK, SessionsFit
<1>2. CASE /\ rooms' = With(left, id, names)
           /\ currentRooms' = [currentRooms EXCEPT ![s] = names]
           /\ UNCHANGED <<link, client, connectedId, sockets, up, overlapped>>
  <2>1. IsRooms(rooms) /\ \A r : PeersIn(r) = Members(rooms, r)
    BY RoomsAreRooms DEF IInv
  <2>2. /\ IsRooms(left)
        /\ \A r : Members(left, r) = IF r \in currentRooms[s]
                                     THEN Members(rooms, r) \ {id}
                                     ELSE Members(rooms, r)
    BY <2>1, WithoutFacts
  <2> HIDE DEF left
  <2>3. \A r : Members(rooms', r)
                  = Members(left, r) \cup (IF r \in names THEN {id} ELSE {})
    BY <1>1, <1>2, <2>2, WithFacts
  <2>4. ASSUME NEW t \in Sockets, NEW r \in RoomNames \cap currentRooms'[t],
               connectedId[t] \notin overlapped
        PROVE  connectedId[t] \in Members(rooms', r)
    <3>0. currentRooms \in [Sockets -> SUBSET RoomNames]
      BY DEF IInv, TypeOK
    <3>1. CASE t = s
      BY <1>2, <2>3, <2>4, <3>0, <3>1
    <3>2. CASE t # s
      <4>1. r \in currentRooms[t]
        BY <1>2, <2>4, <3>0, <3>2
      <4>2. connectedId[t] \in Members(rooms, r)
        BY <2>1, <2>4, <4>1, NobodyMissingMeans DEF SeqInv
      <4>3. connectedId[t] # id
        BY <1>1, <2>4, <3>2, <4>1, SignallingServerAssumption
        DEF IInv, SessionsFit, SeqInv, OneSession
      <4> QED
        BY <2>2, <2>3, <4>2, <4>3
    <3> QED
      BY <3>1, <3>2
  <2>5. \A r : PeersIn(r)' = Members(rooms', r)
    BY DEF PeersIn, Members
  <2>6. NobodyMissing'
    BY <1>2, <2>4, <2>5 DEF NobodyMissing, SessionsIn
  <2> QED
    BY <1>2, <2>6 DEF SeqInv, OneSession, SessionsAreRegistered, NeverCrashes
<1>3. CASE ~CanLeave(currentRooms[s]) /\ Crash /\ UNCHANGED <<client, overlapped>>
  BY <1>3, CrashSeqInv
<1> QED
  BY <1>1, <1>2, <1>3, SignallingServerAssumption DEF HandleJoin

LEMMA HandleDisconnectSeqInv ==
    ASSUME IInv, SeqInv, NEW s \in Sockets, HandleDisconnect(s)
    PROVE  SeqInv'
<1>0. overlapped' = overlapped
  BY DEF HandleDisconnect
<1>1. CASE CleanUp(s) /\ Forget(s)
  <2> DEFINE id == connectedId[s]
             left == Without(rooms, id, currentRooms[s])
  <2>0. OneSession'
    BY <1>0, <1>1 DEF Forget, SeqInv, OneSession, IInv, TypeOK
  <2>1. IsRooms(rooms) /\ \A r : PeersIn(r) = Members(rooms, r)
    BY RoomsAreRooms DEF IInv
  <2>2. \A r : Members(left, r) = IF r \in currentRooms[s]
                                  THEN Members(rooms, r) \ {id}
                                  ELSE Members(rooms, r)
    BY <2>1, WithoutFacts
  <2>3. rooms' = left
    BY <1>1 DEF CleanUp
  <2> HIDE DEF left
  <2>4. \A t \in Sockets \ {s} :
            connectedId[t] # None => connectedId[t] # id \/ id \in overlapped
    BY <1>1 DEF IInv, SessionsFit, SeqInv, OneSession, CleanUp
  <2>5. /\ connectedId' = [connectedId EXCEPT ![s] = None]
        /\ currentRooms' = [currentRooms EXCEPT ![s] = {}]
        /\ DOMAIN sockets' = DOMAIN sockets \ {id}
        /\ up' = up
    BY <1>1 DEF CleanUp, Unregistered, Restrict
  <2>6. SessionsAreRegistered'
    BY <1>0, <2>4, <2>5 DEF IInv, TypeOK, SeqInv, SessionsAreRegistered
  <2>7. ASSUME NEW t \in Sockets, NEW r \in RoomNames \cap currentRooms'[t],
               connectedId'[t] \notin overlapped
        PROVE  connectedId'[t] \in Members(rooms', r)
    <3>1. t # s /\ r \in currentRooms[t] /\ connectedId'[t] = connectedId[t]
      BY <2>5, <2>7 DEF IInv, TypeOK
    <3>2. connectedId[t] \in Members(rooms, r)
      BY <2>1, <2>7, <3>1, NobodyMissingMeans DEF SeqInv
    <3>3. connectedId[t] # id
      BY <2>4, <2>7, <3>1 DEF IInv, SessionsFit
    <3> QED
      BY <2>2, <2>3, <3>1, <3>2, <3>3
  <2>8. \A r : PeersIn(r)' = Members(rooms', r)
    BY DEF PeersIn, Members
  <2>9. NobodyMissing'
    BY <1>0, <2>7, <2>8 DEF NobodyMissing, SessionsIn
  <2> QED
    BY <1>0, <2>0, <2>5, <2>6, <2>9 DEF SeqInv, NeverCrashes
<1>2. CASE Forget(s) /\ UNCHANGED serverVars
  <2>1. OneSession'
    BY <1>0, <1>2 DEF Forget, SeqInv, OneSession, IInv, TypeOK
  <2> QED
    BY <1>0, <1>2, <2>1 DEF serverVars, SeqInv, SessionsAreRegistered,
                            NobodyMissing, SessionsIn, PeersIn, NeverCrashes
<1>3. CASE ~CanLeave(currentRooms[s]) /\ Crash /\ UNCHANGED <<link, client, inbox>>
  BY <1>0, <1>3, CrashSeqInv
<1> QED
  BY <1>1, <1>2, <1>3 DEF HandleDisconnect

LEMMA NextSeqInv ==
    ASSUME IInv, SeqInv, [Next]_vars
    PROVE  SeqInv'
<1> USE DEF SeqInv, OneSession, SessionsAreRegistered, NobodyMissing, SessionsIn,
            PeersIn, NeverCrashes
<1>1. CASE UNCHANGED vars
  BY <1>1 DEF vars
<1>2. ASSUME NEW s \in Sockets, NEW n \in Nodes, Connect(s, n)
      PROVE  SeqInv'
  <2>1. /\ client' = [client EXCEPT ![s] = n]
        /\ overlapped \subseteq overlapped'
        /\ (\E t \in Sockets : client[t] = n) => n \in overlapped'
    BY <1>2 DEF Connect
  <2>2. OneSession'
    BY <2>1 DEF IInv, TypeOK
  <2> QED
    BY <1>2, <2>1, <2>2 DEF Connect, serverVars
<1>3. ASSUME NEW s \in Sockets, Reregister(s) \/ JoinOthers(s) \/ Cut(s)
      PROVE  SeqInv'
  <2>1. UNCHANGED <<client, serverVars, overlapped>>
    BY <1>3 DEF Reregister, JoinOthers, Send, Cut
  <2> QED
    BY <2>1 DEF serverVars
<1>4. ASSUME NEW s \in Sockets, HandleRegister(s)
      PROVE  SeqInv'
  <2>1. link[s] # "unused" /\ client[s] \in Nodes
    BY <1>4, ReceiveFacts DEF HandleRegister
  <2>2. \A t \in Sockets : currentRooms[t] # {} => connectedId'[t] = connectedId[t]
    BY <1>4, <2>1 DEF HandleRegister, IInv, TypeOK, SessionsFit
  <2>3. NobodyMissing'
    BY <1>4, <2>2 DEF HandleRegister
  <2>4. SessionsAreRegistered'
    BY <1>4 DEF HandleRegister, Registered, IInv, TypeOK
  <2> QED
    BY <1>4, <2>3, <2>4 DEF HandleRegister
<1>5. ASSUME NEW s \in Sockets, NEW names \in SUBSET RoomNames, HandleJoin(s, names)
      PROVE  SeqInv'
  BY <1>5, HandleJoinSeqInv
<1>6. ASSUME NEW s \in Sockets, HandleDisconnect(s)
      PROVE  SeqInv'
  BY <1>6, HandleDisconnectSeqInv
<1> QED
  BY <1>1, <1>2, <1>3, <1>4, <1>5, <1>6 DEF Next

(* What is inductive in addition, of clients that have not overlapped.     *)
THEOREM SpecSeqInv == Spec => []SeqInv
<1>1. Init => SeqInv
  BY InitSeqInv
<1>2. IInv /\ SeqInv /\ [Next]_vars => SeqInv'
  BY NextSeqInv
<1> QED
  BY <1>1, <1>2, SpecIInv, PTL DEF Spec

(* Without overlap no handler throws.                                      *)
THEOREM SequentialNeverCrashes == Spec => []NeverCrashes
<1>1. SeqInv => NeverCrashes
  BY DEF SeqInv
<1> QED
  BY <1>1, SpecSeqInv, PTL

(* A client whose own sessions do not overlap is in the rooms its session  *)
(* has joined: the overlapping sessions of others do it no harm.           *)
THEOREM OthersDoNotRemove == Spec => []NobodyMissing
<1>1. SeqInv => NobodyMissing
  BY DEF SeqInv
<1> QED
  BY <1>1, SpecSeqInv, PTL

(* Such a client, while in a room, has a pointer to answer with.           *)
THEOREM OthersDoNotUnregister == Spec => []PeersAreRegistered
<1>1. IInv /\ SeqInv => PeersAreRegistered
  <2> SUFFICES ASSUME IInv, SeqInv, NEW r \in DOMAIN rooms,
                      NEW n \in rooms[r] \ overlapped
               PROVE  n \in DOMAIN sockets
    BY DEF PeersAreRegistered
  <2>1. r \in RoomNames /\ n \in PeersIn(r) /\ n \in Nodes
    BY DEF IInv, TypeOK, PeersIn
  <2>2. PICK s \in Sockets : connectedId[s] = n
    BY <2>1, NoGhostsMeans DEF IInv
  <2> QED
    BY <2>1, <2>2 DEF SeqInv, SessionsAreRegistered
<1> QED
  BY <1>1, SpecIInv, SpecSeqInv, PTL
===============================================================================
