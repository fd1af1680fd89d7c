---------------------------- MODULE ServerBootstrap ----------------------------
(***************************************************************************)
(* How a node gets its first peers from the signalling servers             *)
(* (SignallingServerBootstrap.ts and PromiseTools.ts of                    *)
(* cyclon.p2p-rtc-comms), while those peers register with the servers,     *)
(* leave them and reload their pages.                                      *)
(*                                                                         *)
(* A node registers with one server at a time, each time with a new        *)
(* pointer, so that servers answer with pointers of different ages to the  *)
(* same peer; the sequence number tells which is the newest                *)
(* (SocketIOSignallingService.ts).  All are in the room that is sampled.   *)
(* Pointers by id, as the servers and deDuplicatePeerList keep them, are   *)
(* functions from ids to sequence numbers.                                 *)
(***************************************************************************)
EXTENDS Naturals, Sequences, FiniteSets, SequencesExt

CONSTANTS
    Nodes,          \* the ids of the nodes
    Self,           \* the node that asks for peers
    Servers,        \* the signalling servers
    None,           \* "null"
    Limit,          \* bootstrapSize
    MaxSeq          \* bound: the greatest sequence number

ASSUME ServerBootstrapAssumption ==
    /\ Self \in Nodes
    /\ IsFiniteSet(Nodes)
    /\ IsFiniteSet(Servers)
    /\ None \notin Nat
    /\ Limit \in Nat \ {0}
    /\ MaxSeq \in Nat

VARIABLES
    pointerCounter, \* each node's pointerCounter
    storedCounter,  \* the same in its storage
    registrations,  \* each server's registrations: pointers by id
    status,         \* the promise: "idle", "asking", "resolved", "rejected"
    specs,          \* the servers asked, in the order of their requests
    waiting,        \* those whose request is not settled
    answers,        \* what they have answered; nothing, if they failed
    peers           \* what the promise has resolved with, by id

nodeVars == <<pointerCounter, storedCounter>>

askVars == <<status, specs, waiting, answers, peers>>

vars == <<nodeVars, registrations, askVars>>

ById(ids) == UNION {[D -> 0..MaxSeq] : D \in SUBSET ids}

Others == Nodes \ {Self}

NoPointers == [id \in {} |-> 0]

TypeOK ==
    /\ pointerCounter \in [Nodes -> Nat]
    /\ storedCounter \in [Nodes -> Nat \cup {None}]
    /\ registrations \in [Servers -> ById(Nodes)]
    /\ status \in {"idle", "asking", "resolved", "rejected"}
    /\ specs \in Seq(Servers) /\ IsInjective(specs)
    /\ waiting \subseteq Range(specs)
    /\ answers \in [Servers -> ById(Others)]
    /\ peers \in ById(Others) /\ Cardinality(DOMAIN peers) <= Limit

Init ==
    /\ pointerCounter = [n \in Nodes |-> 0]
    /\ storedCounter = [n \in Nodes |-> None]
    /\ registrations = [s \in Servers |-> NoPointers]
    /\ status = "idle"
    /\ specs = <<>>
    /\ waiting = {}
    /\ answers = [s \in Servers |-> NoPointers]
    /\ peers = NoPointers

------------------------------------------------------------------------------
(* The nodes and their registrations.                                      *)

(* getNextPointerSequenceNumber restores a counter that is 0.              *)
NextSequenceNumber(n) ==
    IF pointerCounter[n] = 0 /\ storedCounter[n] # None
    THEN storedCounter[n] ELSE pointerCounter[n]

(* Fault: the number that was given is stored, not the next one.           *)
CreatePointerStoringLast(n) ==
    /\ NextSequenceNumber(n) <= MaxSeq
    /\ pointerCounter' = [pointerCounter EXCEPT ![n] = NextSequenceNumber(n) + 1]
    /\ storedCounter' = [storedCounter EXCEPT ![n] = NextSequenceNumber(n)]

(* createNewPointer: every pointer has a sequence number of its own.       *)
CreatePointer(n) ==
    /\ NextSequenceNumber(n) <= MaxSeq
    /\ pointerCounter' = [pointerCounter EXCEPT ![n] = NextSequenceNumber(n) + 1]
    /\ storedCounter' = [storedCounter EXCEPT ![n] = NextSequenceNumber(n) + 1]

(* sendRegisterMessage to one server: at first, or when it is repeated.    *)
RegisterWith(n, s) ==
    /\ CreatePointer(n)
    /\ registrations' = [registrations EXCEPT ![s] =
            [id \in DOMAIN @ \cup {n} |->
                IF id = n THEN NextSequenceNumber(n) ELSE @[id]]]
    /\ UNCHANGED askVars

(* A pointer the node sends in a shuffle.                                  *)
SendPointer(n) == CreatePointer(n) /\ UNCHANGED <<registrations, askVars>>

(* The server has seen the node's socket disconnect.                       *)
Unregister(n, s) ==
    /\ n \in DOMAIN registrations[s]
    /\ registrations' = [registrations EXCEPT ![s] = Restrict(@, DOMAIN @ \ {n})]
    /\ UNCHANGED <<nodeVars, askVars>>

(* The node's page is reloaded: its storage is what remains.  (The node    *)
(* that asks would forget what it has asked.)                              *)
Reload(n) ==
    /\ n # Self
    /\ pointerCounter[n] > 0
    /\ pointerCounter' = [pointerCounter EXCEPT ![n] = 0]
    /\ UNCHANGED <<storedCounter, registrations, askVars>>

------------------------------------------------------------------------------
(* SignallingServerBootstrap.                                              *)

(* getInitialPeerSet asks all servers the client has sockets to, or fails  *)
(* at once when there are none.  (After that CyclonNode does not ask       *)
(* again, but that is its choice.)                                         *)
GetInitialPeerSet ==
    /\ status # "asking"
    /\ specs' \in SetToAllKPermutations(Servers)
    /\ status' = IF specs' = <<>> THEN "rejected" ELSE "asking"
    /\ waiting' = Range(specs')
    /\ answers' = [s \in Servers |-> NoPointers]
    /\ peers' = NoPointers
    /\ UNCHANGED <<nodeVars, registrations>>

(* GET /peers at server s: at most the limit, fewer when the server has a  *)
(* lower one or has no pointer for some it sampled.                        *)
SamplePeers(s) ==
    {Restrict(registrations[s], sample) :
        sample \in {D \in SUBSET DOMAIN registrations[s] : Cardinality(D) <= Limit}}

WithoutSelf(response) == Restrict(response, DOMAIN response \ {Self})

ServerAnswers(s) ==
    /\ s \in waiting
    /\ waiting' = waiting \ {s}
    /\ \E response \in SamplePeers(s) :
        answers' = [answers EXCEPT ![s] = WithoutSelf(response)]
    /\ UNCHANGED <<nodeVars, registrations, status, specs, peers>>

(* The request fails; allSettled makes that a result like another.         *)
RequestFails(s) ==
    /\ s \in waiting
    /\ waiting' = waiting \ {s}
    /\ UNCHANGED <<nodeVars, registrations, status, specs, answers, peers>>

(* Fault: the pointer met first is kept.                                   *)
KeepFirst(peerMap, response) ==
    [id \in DOMAIN peerMap \cup DOMAIN response |->
        IF id \in DOMAIN peerMap THEN peerMap[id] ELSE response[id]]

(* deDuplicatePeerList, for the peers of one answer: a peer that is there  *)
(* is replaced by one with a greater sequence number.                      *)
KeepNewer(peerMap, response) ==
    [id \in DOMAIN peerMap \cup DOMAIN response |->
        IF id \in DOMAIN response
           /\ (id \in DOMAIN peerMap => peerMap[id] < response[id])
        THEN response[id] ELSE peerMap[id]]

(* collateSuccessfulResults puts the answers in the order of the requests. *)
DeDuplicated ==
    LET peerMap[i \in 0..Len(specs)] ==
            IF i = 0
            THEN NoPointers
            ELSE KeepNewer(peerMap[i - 1], answers[specs[i]])
    IN  peerMap[Len(specs)]

Resolve ==
    /\ status = "asking"
    /\ waiting = {}
    /\ status' = "resolved"
    /\ \E sample \in SUBSET DOMAIN DeDuplicated :
        /\ Cardinality(sample) = Min({Limit, Cardinality(DOMAIN DeDuplicated)})
        /\ peers' = Restrict(DeDuplicated, sample)
    /\ UNCHANGED <<nodeVars, registrations, specs, waiting, answers>>

------------------------------------------------------------------------------
Next ==
    \/ \E n \in Nodes :
        \/ \E s \in Servers : RegisterWith(n, s) \/ Unregister(n, s)
        \/ SendPointer(n)
        \/ Reload(n)
    \/ GetInitialPeerSet
    \/ \E s \in Servers : ServerAnswers(s) \/ RequestFails(s)
    \/ Resolve

Spec == Init /\ [][Next]_vars

------------------------------------------------------------------------------
(* Sequence numbers order a node's pointers by age although its page is    *)
(* reloaded in between: the next one is greater than that of any pointer   *)
(* to it that a server or the asking node has, and no two servers have the *)
(* same one.                                                               *)
NextPointerIsNewest ==
    \A n \in Nodes, s \in Servers :
        /\ \A pointers \in {registrations[s], answers[s], peers} :
            n \in DOMAIN pointers => pointers[n] < NextSequenceNumber(n)
        /\ \A t \in Servers \ {s} :
            n \in DOMAIN registrations[s] \cap DOMAIN registrations[t]
                => registrations[s][n] # registrations[t][n]

PointersOf(byId) == {[id |-> n, seq |-> byId[n]] : n \in DOMAIN byId}

Heard == UNION {PointersOf(answers[s]) : s \in Servers}

Promised == INSTANCE Bootstrap WITH heard <- Heard, peers <- PointersOf(peers)

(* The servers' answers, merged, are what a Bootstrap promises the node:   *)
(* whatever servers fail and whatever order they answer in, it gets as     *)
(* many of the peers heard of as it asked for, not itself, and the newest  *)
(* pointer to each.                                                        *)
ImplementsBootstrap == Promised!Spec
================================================================================
