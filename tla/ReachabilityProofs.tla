-------------------------- MODULE ReachabilityProofs --------------------------
(***************************************************************************)
(* Theorems about the client's sockets (SignallingSocket), and about their *)
(* composition with the servers (Reachability): the number of sockets, the *)
(* one connectivity timer, that the client among its servers is still that *)
(* client, that servers lose messages only while they have not noticed a   *)
(* disconnection, and the types, for all sets of servers.                  *)
(***************************************************************************)
EXTENDS Reachability, FiniteSetTheorems, TLAPS

USE SignallingSocketAssumption

(* The types the invariants need.                                          *)
ClientTypes ==
    /\ started \in BOOLEAN
    /\ unloading \in BOOLEAN
    /\ checking \in BOOLEAN
    /\ bug \in BOOLEAN
    /\ sockets \in [Servers -> {"none", "connecting", "connected"}]

(* Before connect() is called there are no sockets that could fail, and no *)
(* checks, so that connect() does not start them for the second time.      *)
IdleBeforeStart == ~started => ~checking /\ sockets = NoSockets

ClientIInv ==
    /\ ClientTypes
    /\ NeverTooMany
    /\ ChecksRun
    /\ IdleBeforeStart

------------------------------------------------------------------------------
(* The smaller of two numbers.                                             *)
LEMMA MinFacts ==
    ASSUME NEW a \in Int, NEW b \in Int
    PROVE  Min({a, b}) \in {a, b} /\ Min({a, b}) <= a /\ Min({a, b}) <= b
<1>1. \E x \in {a, b} : \A y \in {a, b} : x <= y
  <2>1. CASE a <= b
    BY <2>1
  <2>2. CASE b <= a
    BY <2>2
  <2> QED
    BY <2>1, <2>2
<1> QED
  BY <1>1 DEF Min

(* The sockets there are.                                                  *)
InUse(open) == {s \in Servers : open[s] # "none"}

LEMMA InUseFacts ==
    ASSUME NEW open
    PROVE  IsFiniteSet(InUse(open)) /\ Cardinality(InUse(open)) \in Nat
<1>1. InUse(open) \subseteq Servers
  BY DEF InUse
<1> QED
  BY <1>1, FS_Subset, FS_CardinalityType

(* connectToServers fills up to the preferred number of sockets.           *)
LEMMA ConnectToServersFacts ==
    ASSUME NEW open \in [Servers -> {"none", "connecting", "connected"}],
           Cardinality(InUse(open)) <= Preferred,
           NEW disconnects, NEW tooRecent,
           ConnectToServers(open, disconnects, tooRecent)
    PROVE  /\ sockets' \in [Servers -> {"none", "connecting", "connected"}]
           /\ NeverTooMany'
<1> DEFINE eligible == {s \in Servers \ (Malformed \cup tooRecent) : open[s] = "none"}
           missing == Preferred - Cardinality({s \in Servers : open[s] # "none"})
<1>1. PICK new \in NextServers(open, disconnects, tooRecent) :
        sockets' = [s \in Servers |-> IF s \in new THEN "connecting" ELSE open[s]]
  BY DEF ConnectToServers
<1>2. /\ new \subseteq eligible
      /\ Cardinality(new) = Min({missing, Cardinality(eligible)})
  BY <1>1 DEF NextServers, kSubset
<1>3. IsFiniteSet(eligible) /\ Cardinality(eligible) \in Nat
  <2>1. eligible \subseteq Servers
    OBVIOUS
  <2> QED
    BY <2>1, FS_Subset, FS_CardinalityType
<1>4. missing \in Int /\ missing = Preferred - Cardinality(InUse(open))
  <2>1. Preferred \in Nat
    BY FS_CardinalityType
  <2> QED
    BY <2>1, InUseFacts DEF InUse
<1>5. IsFiniteSet(new) /\ Cardinality(new) \in Nat
  BY <1>2, <1>3, FS_Subset, FS_CardinalityType
<1> HIDE DEF eligible, missing
<1>6. Cardinality(new) <= Preferred - Cardinality(InUse(open))
  BY <1>2, <1>3, <1>4, MinFacts
<1>7. Attempted' = InUse(open) \cup new
  BY <1>1, <1>2 DEF Attempted, InUse, eligible
<1>8. Cardinality(Attempted') <= Cardinality(InUse(open)) + Cardinality(new)
  <2>1. /\ Cardinality(InUse(open) \cup new)
             = Cardinality(InUse(open)) + Cardinality(new)
                 - Cardinality(InUse(open) \cap new)
        /\ Cardinality(InUse(open) \cap new) \in Nat
    BY <1>5, InUseFacts, FS_Union, FS_Intersection, FS_CardinalityType
  <2> QED
    BY <1>5, <1>7, <2>1, InUseFacts
<1>9. Preferred \in Nat /\ Cardinality(InUse(open)) \in Nat
  BY FS_CardinalityType, InUseFacts
<1>10. Cardinality(Attempted') \in Nat
  BY <1>5, <1>7, InUseFacts, FS_Union, FS_CardinalityType
<1>11. NeverTooMany'
  <2> DEFINE a == Cardinality(Attempted')
             b == Cardinality(InUse(open))
             c == Cardinality(new)
  <2>1. /\ a \in Nat /\ b \in Nat /\ c \in Nat /\ Preferred \in Nat
        /\ a <= b + c
        /\ c <= Preferred - b
    BY <1>5, <1>6, <1>8, <1>9, <1>10
  <2> HIDE DEF a, b, c
  <2>2. a <= Preferred
    BY <2>1
  <2> QED
    BY <2>2 DEF NeverTooMany, a
<1>12. sockets' \in [Servers -> {"none", "connecting", "connected"}]
  BY <1>1
<1> QED
  BY <1>11, <1>12

LEMMA AttemptedIsInUse == Attempted = InUse(sockets)
BY DEF Attempted, InUse

(* Forgetting a socket leaves no more of them.                             *)
LEMMA ForgetFacts ==
    ASSUME ClientTypes, NeverTooMany, NEW s \in Servers
    PROVE  LET open == [sockets EXCEPT ![s] = "none"] IN
           /\ open \in [Servers -> {"none", "connecting", "connected"}]
           /\ Cardinality(InUse(open)) <= Preferred
<1> DEFINE open == [sockets EXCEPT ![s] = "none"]
<1>1. InUse(open) \subseteq InUse(sockets)
  BY DEF ClientTypes, InUse
<1>2. Cardinality(InUse(open)) <= Cardinality(InUse(sockets))
  BY <1>1, InUseFacts, FS_Subset
<1>3. Preferred \in Nat
  BY FS_CardinalityType
<1> QED
  BY <1>2, <1>3, InUseFacts, AttemptedIsInUse DEF ClientTypes, NeverTooMany

------------------------------------------------------------------------------
LEMMA InitClientIInv == Init => ClientIInv
<1> SUFFICES ASSUME Init PROVE ClientIInv
  OBVIOUS
<1>1. Attempted = {}
  BY DEF Init, Attempted, NoSockets
<1>2. NeverTooMany
  BY <1>1, FS_EmptySet, FS_CardinalityType DEF NeverTooMany
<1> QED
  BY <1>2 DEF Init, ClientIInv, ClientTypes, ChecksRun, IdleBeforeStart, NoSockets

LEMMA SocketFailsClientIInv ==
    ASSUME ClientIInv, NEW s \in Servers, SocketFails(s)
    PROVE  ClientIInv'
<1> DEFINE open == [sockets EXCEPT ![s] = "none"]
<1>1. /\ open \in [Servers -> {"none", "connecting", "connected"}]
      /\ Cardinality(InUse(open)) <= Preferred
  BY ForgetFacts DEF ClientIInv
<1>2. started' = started /\ unloading' = unloading
  BY DEF SocketFails
<1>3. started
  <2>1. CASE ~started
    BY <2>1 DEF ClientIInv, IdleBeforeStart, NoSockets, SocketFails, DisposeOfSocket
  <2> QED
    BY <2>1
<1>4. CASE unloading /\ sockets' = open /\ checking' = FALSE /\ UNCHANGED <<stored, bug>>
  <2>1. NeverTooMany'
    BY <1>1, <1>4 DEF NeverTooMany, Attempted, InUse
  <2>2. ClientTypes' /\ ChecksRun'
    BY <1>1, <1>2, <1>4 DEF ClientIInv, ClientTypes, ChecksRun
  <2> QED
    BY <1>2, <1>3, <2>1, <2>2 DEF ClientIInv, IdleBeforeStart
<1>5. CASE /\ ~unloading
           /\ ConnectToServers(open, disconnected', recent')
           /\ ScheduleChecks(FALSE)
  <2>1. /\ sockets' \in [Servers -> {"none", "connecting", "connected"}]
        /\ NeverTooMany'
    BY <1>1, <1>5, ConnectToServersFacts
  <2>2. checking' = TRUE /\ bug' = bug
    BY <1>5 DEF ScheduleChecks, ClientIInv, ClientTypes
  <2>3. ClientTypes' /\ ChecksRun'
    BY <1>2, <2>1, <2>2 DEF ClientIInv, ClientTypes, ChecksRun
  <2> QED
    BY <1>2, <1>3, <2>1, <2>3 DEF ClientIInv, IdleBeforeStart
<1> QED
  BY <1>4, <1>5 DEF SocketFails, DisposeOfSocket

LEMMA ConnectClientIInv ==
    ASSUME ClientIInv, Connect
    PROVE  ClientIInv'
<1>1. /\ sockets \in [Servers -> {"none", "connecting", "connected"}]
      /\ Cardinality(InUse(sockets)) <= Preferred
  BY AttemptedIsInUse DEF ClientIInv, ClientTypes, NeverTooMany
<1>2. /\ sockets' \in [Servers -> {"none", "connecting", "connected"}]
      /\ NeverTooMany'
  BY <1>1, ConnectToServersFacts DEF Connect
<1>3. started' = TRUE /\ unloading' = unloading /\ checking' = TRUE /\ bug' = FALSE
  BY DEF Connect, ScheduleChecks, ClientIInv, ClientTypes, ChecksRun, IdleBeforeStart
<1> QED
  BY <1>2, <1>3 DEF ClientIInv, ClientTypes, ChecksRun, IdleBeforeStart

LEMMA CheckConnectivityClientIInv ==
    ASSUME ClientIInv, CheckConnectivity
    PROVE  ClientIInv'
<1>1. /\ sockets \in [Servers -> {"none", "connecting", "connected"}]
      /\ Cardinality(InUse(sockets)) <= Preferred
  BY AttemptedIsInUse DEF ClientIInv, ClientTypes, NeverTooMany
<1>2. /\ sockets' \in [Servers -> {"none", "connecting", "connected"}]
      /\ NeverTooMany'
  BY <1>1, ConnectToServersFacts DEF CheckConnectivity
<1>3. /\ UNCHANGED <<started, unloading, checking, bug>>
      /\ started
  BY DEF CheckConnectivity, ClientIInv, ClientTypes, IdleBeforeStart
<1> QED
  BY <1>2, <1>3 DEF ClientIInv, ClientTypes, ChecksRun, IdleBeforeStart

LEMMA SocketConnectsClientIInv ==
    ASSUME ClientIInv, NEW s \in Servers, SocketConnects(s)
    PROVE  ClientIInv'
<1>1. /\ sockets' \in [Servers -> {"none", "connecting", "connected"}]
      /\ Attempted' = Attempted
  BY DEF SocketConnects, ClientIInv, ClientTypes, Attempted
<1>2. /\ UNCHANGED <<started, unloading, checking, bug>>
      /\ started
  BY DEF SocketConnects, ClientIInv, ClientTypes, IdleBeforeStart, NoSockets
<1> QED
  BY <1>1, <1>2 DEF ClientIInv, ClientTypes, NeverTooMany, ChecksRun, IdleBeforeStart

LEMMA ReloadClientIInv ==
    ASSUME ClientIInv, Reload
    PROVE  ClientIInv'
<1>1. Attempted' = {}
  BY DEF Reload, Attempted, NoSockets
<1>2. NeverTooMany'
  BY <1>1, FS_EmptySet, FS_CardinalityType DEF NeverTooMany
<1> QED
  BY <1>2 DEF Reload, ClientIInv, ClientTypes, ChecksRun, IdleBeforeStart, NoSockets

LEMMA NextClientIInv == ClientIInv /\ [Next]_vars => ClientIInv'
<1> SUFFICES ASSUME ClientIInv, [Next]_vars PROVE ClientIInv'
  OBVIOUS
<1>1. CASE Connect
  BY <1>1, ConnectClientIInv
<1>2. CASE CheckConnectivity
  BY <1>2, CheckConnectivityClientIInv
<1>3. CASE \E s \in Servers : SocketConnects(s) \/ SocketFails(s)
  BY <1>3, SocketConnectsClientIInv, SocketFailsClientIInv
<1>4. CASE RetryDelayElapses
  <2>1. UNCHANGED <<started, unloading, checking, bug, sockets>>
    BY <1>4 DEF RetryDelayElapses
  <2> QED
    BY <2>1 DEF ClientIInv, ClientTypes, NeverTooMany, Attempted, ChecksRun, IdleBeforeStart
<1>5. CASE BeforeUnload
  <2>1. UNCHANGED <<started, checking, bug, sockets>> /\ unloading'
    BY <1>5 DEF BeforeUnload
  <2>2. unloading' \in BOOLEAN
    BY <1>5 DEF BeforeUnload
  <2> QED
    BY <2>1, <2>2 DEF ClientIInv, ClientTypes, NeverTooMany, Attempted, ChecksRun, IdleBeforeStart
<1>6. CASE Reload
  BY <1>6, ReloadClientIInv
<1>7. CASE UNCHANGED vars
  <2>1. UNCHANGED <<started, unloading, checking, bug, sockets>>
    BY <1>7 DEF vars
  <2> QED
    BY <2>1 DEF ClientIInv, ClientTypes, NeverTooMany, Attempted, ChecksRun, IdleBeforeStart
<1> QED
  BY <1>1, <1>2, <1>3, <1>4, <1>5, <1>6, <1>7 DEF Next

(* The inductive invariant holds of every state of the client.             *)
THEOREM SpecClientIInv == Spec => []ClientIInv
BY InitClientIInv, NextClientIInv, PTL DEF Spec

(* However servers fail, come back and are tried again, the client never   *)
(* has more than the preferred number of sockets.                          *)
THEOREM NeverTooManySockets == Spec => []NeverTooMany
<1>1. ClientIInv => NeverTooMany
  BY DEF ClientIInv
<1> QED
  BY <1>1, SpecClientIInv, PTL

(* Exactly one interval checks the connections of a client that has not    *)
(* begun to unload, and neither BUG message is ever thrown.                *)
THEOREM ConnectivityIsChecked == Spec => []ChecksRun
<1>1. ClientIInv => ChecksRun
  BY DEF ClientIInv
<1> QED
  BY <1>1, SpecClientIInv, PTL

------------------------------------------------------------------------------
(* The servers in the storage.                                             *)

(* What is stored are servers there could be sockets to, no more than are  *)
(* preferred, and the very ones there are sockets to while the checks run; *)
(* a page that has not called connect() begins from nothing else.          *)
StoredFits ==
    /\ \A s \in Malformed : sockets[s] = "none"
    /\ stored \subseteq Servers \ Malformed
    /\ Cardinality(stored) <= Preferred
    /\ checking => stored = Attempted

FreshBeforeStart == ~started => ~unloading /\ disconnected = <<>> /\ recent = {}

StorageIInv ==
    /\ ClientIInv
    /\ StoredFits
    /\ FreshBeforeStart

(* connectToServers stores what there are sockets to, after adding some.   *)
LEMMA ConnectToServersStores ==
    ASSUME NEW open \in [Servers -> {"none", "connecting", "connected"}],
           \A s \in Malformed : open[s] = "none",
           NEW disconnects, NEW tooRecent,
           ConnectToServers(open, disconnects, tooRecent),
           NeverTooMany'
    PROVE  /\ \A s \in Malformed : sockets'[s] = "none"
           /\ stored' \subseteq Servers \ Malformed
           /\ Cardinality(stored') <= Preferred
           /\ stored' = Attempted'
           /\ InUse(open) \subseteq stored'
<1>1. PICK new \in NextServers(open, disconnects, tooRecent) :
        /\ sockets' = [s \in Servers |-> IF s \in new THEN "connecting" ELSE open[s]]
        /\ stored' = Attempted'
  BY DEF ConnectToServers
<1>2. new \subseteq Servers \ Malformed
  BY <1>1 DEF NextServers, kSubset
<1>3. \A s \in Malformed : sockets'[s] = "none"
  BY <1>1, <1>2
<1>4. Attempted' \subseteq Servers \ Malformed
  BY <1>3 DEF Attempted
<1>5. InUse(open) \subseteq Attempted'
  BY <1>1 DEF Attempted, InUse
<1> QED
  BY <1>1, <1>3, <1>4, <1>5 DEF NeverTooMany

LEMMA InitStorageIInv == Init => StorageIInv
<1> SUFFICES ASSUME Init PROVE StorageIInv
  OBVIOUS
<1>1. Preferred \in Nat /\ Cardinality(stored) = 0
  BY FS_EmptySet, FS_CardinalityType DEF Init
<1> QED
  BY <1>1, InitClientIInv DEF Init, StorageIInv, StoredFits, FreshBeforeStart, NoSockets

LEMMA NextStorageIInv == StorageIInv /\ [Next]_vars => StorageIInv'
<1> SUFFICES ASSUME StorageIInv, [Next]_vars PROVE StorageIInv'
  OBVIOUS
<1>1. ClientIInv /\ ClientIInv'
  BY NextClientIInv DEF StorageIInv
<1>2. /\ sockets \in [Servers -> {"none", "connecting", "connected"}]
      /\ NeverTooMany'
  BY <1>1 DEF ClientIInv, ClientTypes
<1>3. CASE Connect \/ CheckConnectivity
  <2>1. ConnectToServers(sockets, disconnected, recent)
    BY <1>3 DEF Connect, CheckConnectivity
  <2>2. StoredFits'
    BY <1>2, <2>1, ConnectToServersStores DEF StorageIInv, StoredFits
  <2>3. started'
    BY <1>1, <1>3 DEF Connect, CheckConnectivity, ClientIInv, ClientTypes, IdleBeforeStart
  <2> QED
    BY <1>1, <2>2, <2>3 DEF StorageIInv, FreshBeforeStart
<1>4. ASSUME NEW s \in Servers, SocketConnects(s)
      PROVE  StorageIInv'
  <2>1. /\ sockets' = [sockets EXCEPT ![s] = "connected"]
        /\ sockets[s] = "connecting"
        /\ UNCHANGED <<started, unloading, checking, disconnected, recent, stored>>
    BY <1>4 DEF SocketConnects
  <2>2. Attempted' = Attempted
    BY <1>2, <2>1 DEF Attempted
  <2>3. \A t \in Malformed : sockets'[t] = "none"
    BY <1>2, <2>1 DEF StorageIInv, StoredFits
  <2> QED
    BY <1>1, <2>1, <2>2, <2>3 DEF StorageIInv, StoredFits, FreshBeforeStart
<1>5. ASSUME NEW s \in Servers, SocketFails(s)
      PROVE  StorageIInv'
  <2> DEFINE open == [sockets EXCEPT ![s] = "none"]
  <2>1. /\ open \in [Servers -> {"none", "connecting", "connected"}]
        /\ \A t \in Malformed : open[t] = "none"
    BY <1>2 DEF StorageIInv, StoredFits
  <2>2. started' = started /\ unloading' = unloading
    BY <1>5 DEF SocketFails
  <2>3. started
    <3>1. sockets[s] # "none"
      BY <1>5 DEF SocketFails, DisposeOfSocket
    <3> QED
      BY <1>1, <3>1 DEF ClientIInv, IdleBeforeStart, NoSockets
  <2>4. \/ sockets' = open /\ checking' = FALSE /\ stored' = stored
        \/ ConnectToServers(open, disconnected', recent')
    BY <1>5 DEF SocketFails, DisposeOfSocket
  <2> HIDE DEF open
  <2>5. StoredFits'
    BY <1>2, <2>1, <2>4, ConnectToServersStores DEF StorageIInv, StoredFits
  <2> QED
    BY <1>1, <2>2, <2>3, <2>5 DEF StorageIInv, FreshBeforeStart
<1>6. CASE RetryDelayElapses
  <2>1. /\ recent # {}
        /\ UNCHANGED <<started, unloading, checking, sockets, disconnected, stored>>
    BY <1>6 DEF RetryDelayElapses
  <2> QED
    BY <1>1, <2>1 DEF StorageIInv, StoredFits, FreshBeforeStart, Attempted
<1>7. CASE BeforeUnload
  <2>1. /\ started
        /\ UNCHANGED <<started, checking, sockets, stored>>
    BY <1>7 DEF BeforeUnload
  <2> QED
    BY <1>1, <2>1 DEF StorageIInv, StoredFits, FreshBeforeStart, Attempted
<1>8. CASE Reload
  <2>1. /\ checking' = FALSE
        /\ unloading' = FALSE
        /\ sockets' = NoSockets
        /\ disconnected' = <<>>
        /\ recent' = {}
        /\ stored' = stored
    BY <1>8 DEF Reload
  <2>2. \A t \in Malformed : sockets'[t] = "none"
    BY <2>1 DEF NoSockets
  <2> QED
    BY <1>1, <2>1, <2>2 DEF StorageIInv, StoredFits, FreshBeforeStart
<1>9. CASE UNCHANGED vars
  BY <1>1, <1>9 DEF vars, StorageIInv, StoredFits, FreshBeforeStart, Attempted
<1> QED
  BY <1>3, <1>4, <1>5, <1>6, <1>7, <1>8, <1>9 DEF Next

(* A page that is loaded again tries the servers in the storage first,     *)
(* since there is room for all of them and they sort before the others.    *)
LEMMA StoredAreTriedFirst ==
    ASSUME StorageIInv, ~started, Connect
    PROVE  stored \subseteq Attempted'
<1>1. /\ sockets = NoSockets
      /\ disconnected = <<>>
      /\ recent = {}
      /\ stored \subseteq Servers \ Malformed
      /\ Cardinality(stored) <= Preferred
  BY DEF StorageIInv, StoredFits, FreshBeforeStart, ClientIInv, IdleBeforeStart
<1>2. PICK new \in NextServers(sockets, disconnected, recent) :
        sockets' = [s \in Servers |-> IF s \in new THEN "connecting" ELSE sockets[s]]
  BY DEF Connect, ConnectToServers
<1> DEFINE eligible == {s \in Servers \ (Malformed \cup recent) : sockets[s] = "none"}
           missing == Preferred - Cardinality({s \in Servers : sockets[s] # "none"})
<1>3. /\ new \subseteq eligible
      /\ Cardinality(new) = Min({missing, Cardinality(eligible)})
      /\ \A s \in new, t \in eligible \ new :
            SortValue(s, disconnected) <= SortValue(t, disconnected)
  BY <1>2 DEF NextServers, kSubset
<1>4. eligible = Servers \ Malformed
  BY <1>1 DEF NoSockets
<1>5. missing = Preferred /\ Preferred \in Nat
  <2>1. {s \in Servers : sockets[s] # "none"} = {}
    BY <1>1 DEF NoSockets
  <2>2. Preferred \in Nat
    BY FS_CardinalityType
  <2> QED
    BY <2>1, <2>2, FS_EmptySet
<1> HIDE DEF eligible, missing
<1>6. /\ IsFiniteSet(eligible) /\ Cardinality(eligible) \in Nat
      /\ IsFiniteSet(stored) /\ Cardinality(stored) \in Nat
      /\ IsFiniteSet(new) /\ Cardinality(new) \in Nat
      /\ Cardinality(stored) <= Cardinality(eligible)
  <2>1. IsFiniteSet(eligible) /\ Cardinality(eligible) \in Nat
    BY <1>4, FS_Difference, FS_CardinalityType
  <2>2. stored \subseteq eligible /\ new \subseteq eligible
    BY <1>1, <1>3, <1>4
  <2> QED
    BY <2>1, <2>2, FS_Subset, FS_CardinalityType
<1>7. Cardinality(stored) <= Cardinality(new)
  <2>1. missing \in Int /\ Cardinality(eligible) \in Int
    BY <1>5, <1>6
  <2>2. Min({missing, Cardinality(eligible)}) \in {missing, Cardinality(eligible)}
    BY <2>1, MinFacts
  <2> QED
    BY <1>1, <1>3, <1>5, <1>6, <2>2
<1>8. \A s \in Servers : SortValue(s, disconnected) = IF s \in stored THEN 0 ELSE 1
  <2>1. ToSet(disconnected) = {}
    BY <1>1 DEF ToSet
  <2> QED
    BY <2>1 DEF SortValue
<1>9. stored \subseteq new
  <2> SUFFICES ASSUME NEW t \in stored, t \notin new
               PROVE  FALSE
    OBVIOUS
  <2>1. t \in eligible \ new /\ SortValue(t, disconnected) = 0
    BY <1>1, <1>4, <1>8
  <2>2. new \subseteq stored
    BY <1>3, <1>4, <1>8, <2>1
  <2>3. /\ Cardinality(new) <= Cardinality(stored)
        /\ Cardinality(stored) = Cardinality(new) => stored = new
    BY <1>6, <2>2, FS_Subset
  <2> QED
    BY <1>6, <1>7, <2>3
<1>10. \A s \in new : s \in Servers /\ sockets'[s] = "connecting"
  BY <1>2, <1>3, <1>4
<1> QED
  BY <1>9, <1>10 DEF Attempted

(* Nothing a client does while its page unloads takes a server from the    *)
(* storage, and when the page is back it has sockets to all of them first. *)
THEOREM AffinityIsKept == Spec => AffinityAcrossReload
<1> DEFINE A == /\ unloading => stored \subseteq stored'
                /\ ~started /\ started' => stored \subseteq Attempted'
<1>1. StorageIInv /\ StorageIInv' /\ [Next]_vars => [A]_vars
  <2> SUFFICES ASSUME StorageIInv, StorageIInv', Next PROVE A
    OBVIOUS
  <2>1. ASSUME unloading PROVE stored \subseteq stored'
    <3>1. started /\ ~Connect
      BY <2>1 DEF StorageIInv, FreshBeforeStart, Connect
    <3>2. CASE CheckConnectivity
      <4>1. ConnectToServers(sockets, disconnected, recent) /\ checking
        BY <3>2 DEF CheckConnectivity
      <4>2. stored = InUse(sockets)
        BY <4>1, AttemptedIsInUse DEF StorageIInv, StoredFits
      <4> QED
        BY <4>1, <4>2, ConnectToServersStores
           DEF StorageIInv, StoredFits, ClientIInv, ClientTypes
    <3>3. ASSUME NEW s \in Servers, SocketConnects(s) \/ SocketFails(s)
          PROVE  stored' = stored
      BY <2>1, <3>3 DEF SocketConnects, SocketFails, DisposeOfSocket
    <3>4. CASE RetryDelayElapses \/ BeforeUnload \/ Reload
      BY <3>4 DEF RetryDelayElapses, BeforeUnload, Reload
    <3> QED
      BY <3>1, <3>2, <3>3, <3>4 DEF Next
  <2>2. ASSUME ~started, started' PROVE stored \subseteq Attempted'
    <3>1. Connect
      BY <2>2 DEF Next, CheckConnectivity, SocketConnects, SocketFails,
                  RetryDelayElapses, BeforeUnload, Reload
    <3> QED
      BY <2>2, <3>1, StoredAreTriedFirst
  <2> QED
    BY <2>1, <2>2
<1>2. Spec => []StorageIInv
  BY InitStorageIInv, NextStorageIInv, PTL DEF Spec
<1> QED
  BY <1>1, <1>2, PTL DEF Spec, AffinityAcrossReload

------------------------------------------------------------------------------
(* The client among its servers.                                           *)

(* The types the invariant needs.                                          *)
ServerTypes ==
    /\ session \in [Servers -> Session \cup {"none"}]
    /\ lingering \in [Servers -> [Session -> Nat]]
    /\ registered \in [Servers -> {"nobody", "current", "former"}]

(* A session lasts as long as its socket is connected, so that a socket    *)
(* that connects begins one.                                               *)
SessionsAreConnected ==
    /\ sockets \in [Servers -> {"none", "connecting", "connected"}]
    /\ \A s \in Servers : session[s] # "none" => sockets[s] = "connected"

(* The current session is registered only when its "register" has been     *)
(* handled, so that cutting it off leaves a session that will unregister.  *)
CurrentHasRegistered ==
    \A s \in Servers : registered[s] = "current" => session[s] \in {"again", "settled"}

IInv ==
    /\ ServerTypes
    /\ SessionsAreConnected
    /\ CurrentHasRegistered
    /\ LostOnlyUnnoticed

------------------------------------------------------------------------------
(* Every step of the composition is a step of the client, or one that      *)
(* leaves the client alone.                                                *)
LEMMA StepsOfClient == [ReachNext]_reachVars => [Next]_vars
<1> SUFFICES ASSUME [ReachNext]_reachVars PROVE [Next]_vars
  OBVIOUS
<1>1. CASE (Connect \/ RetryDelayElapses \/ BeforeUnload) /\ UNCHANGED serverVars
  BY <1>1 DEF Next
<1>2. CASE RegisteringCheck
  BY <1>2 DEF RegisteringCheck, Next
<1>3. CASE CutOffReload
  BY <1>3 DEF CutOffReload, Next
<1>4. ASSUME NEW s \in Servers, RegisteringConnect(s) \/ CutOffFailure(s)
      PROVE  Next
  BY <1>4 DEF RegisteringConnect, CutOffFailure, Next
<1>5. ASSUME NEW s \in Servers,
             \/ HandleRegister(s)
             \/ \E kind \in Session : HandleLateRegister(s, kind) \/ HandleDisconnect(s, kind)
      PROVE  UNCHANGED vars
  BY <1>5 DEF HandleRegister, HandleLateRegister, HandleDisconnect
<1>6. CASE UNCHANGED reachVars
  BY <1>6 DEF reachVars
<1> QED
  BY <1>1, <1>2, <1>3, <1>4, <1>5, <1>6 DEF ReachNext

(* What holds of the client by itself holds of it among its servers:       *)
(* registering changes nothing of its connections.                         *)
THEOREM ClientIsUnchanged == ReachSpec => Spec
<1>1. ReachInit => Init
  BY DEF ReachInit
<1> QED
  BY <1>1, StepsOfClient, PTL DEF ReachSpec, Spec

------------------------------------------------------------------------------
LEMMA InitIInv == ReachInit => IInv
BY DEF ReachInit, Init, NoSockets, IInv, ServerTypes, SessionsAreConnected,
       CurrentHasRegistered, LostOnlyUnnoticed, Session

(* Trying other servers does not touch the connections there are.          *)
LEMMA ConnectToServersKeeps ==
    ASSUME NEW open \in [Servers -> {"none", "connecting", "connected"}],
           NEW disconnects, NEW tooRecent,
           ConnectToServers(open, disconnects, tooRecent)
    PROVE  /\ sockets' \in [Servers -> {"none", "connecting", "connected"}]
           /\ \A s \in Servers : open[s] = "connected" => sockets'[s] = "connected"
<1>1. PICK new \in NextServers(open, disconnects, tooRecent) :
        sockets' = [s \in Servers |-> IF s \in new THEN "connecting" ELSE open[s]]
  BY DEF ConnectToServers
<1>2. \A s \in new : open[s] = "none"
  BY DEF NextServers, kSubset
<1> QED
  BY <1>1, <1>2

(* Nor does any other step than the failure of a socket, or a reload.      *)
LEMMA ConnectionsStay ==
    ASSUME SessionsAreConnected,
           \/ Connect \/ CheckConnectivity \/ RetryDelayElapses \/ BeforeUnload
           \/ \E s \in Servers : SocketConnects(s)
    PROVE  /\ sockets' \in [Servers -> {"none", "connecting", "connected"}]
           /\ \A s \in Servers :
                sockets[s] = "connected" => sockets'[s] = "connected"
<1>1. CASE Connect \/ CheckConnectivity
  BY <1>1, ConnectToServersKeeps DEF Connect, CheckConnectivity, SessionsAreConnected
<1>2. CASE RetryDelayElapses \/ BeforeUnload
  BY <1>2 DEF RetryDelayElapses, BeforeUnload, SessionsAreConnected
<1>3. ASSUME NEW s \in Servers, SocketConnects(s)
      PROVE  sockets' = [sockets EXCEPT ![s] = "connected"]
  BY <1>3 DEF SocketConnects
<1> QED
  BY <1>1, <1>2, <1>3 DEF SessionsAreConnected

(* A socket that fails leaves the connections to other servers alone.      *)
LEMMA FailureIsLocal ==
    ASSUME SessionsAreConnected, NEW s \in Servers, SocketFails(s)
    PROVE  /\ sockets' \in [Servers -> {"none", "connecting", "connected"}]
           /\ \A t \in Servers \ {s} :
                sockets[t] = "connected" => sockets'[t] = "connected"
<1> DEFINE open == [sockets EXCEPT ![s] = "none"]
<1>1. /\ open \in [Servers -> {"none", "connecting", "connected"}]
      /\ \A t \in Servers \ {s} : open[t] = sockets[t]
  BY DEF SessionsAreConnected
<1>2. \/ sockets' = open
      \/ ConnectToServers(open, disconnected', recent')
  BY DEF SocketFails, DisposeOfSocket
<1> HIDE DEF open
<1> QED
  BY <1>1, <1>2, ConnectToServersKeeps

(* Cutting off a session that is registered leaves one that will say so.   *)
LEMMA CutOffIInv ==
    ASSUME IInv, NEW gone, CutOff(gone),
           sockets' \in [Servers -> {"none", "connecting", "connected"}],
           \A s \in Servers \ gone :
                sockets[s] = "connected" => sockets'[s] = "connected"
    PROVE  IInv'
<1>1. ServerTypes'
  BY DEF CutOff, IInv, ServerTypes, Session
<1>2. CurrentHasRegistered' /\ SessionsAreConnected'
  BY DEF CutOff, IInv, ServerTypes, CurrentHasRegistered, SessionsAreConnected
<1>3. ASSUME NEW s \in Servers, registered'[s] = "former"
      PROVE  \E kind \in {"again", "settled"} : lingering'[s][kind] > 0
  <2>1. CASE s \in gone /\ registered[s] = "current"
    <3>1. session[s] \in {"again", "settled"}
      BY <2>1 DEF IInv, CurrentHasRegistered
    <3>2. lingering'[s] = [lingering[s] EXCEPT ![session[s]] = @ + 1]
      BY <2>1, <3>1 DEF CutOff
    <3>3. lingering[s] \in [Session -> Nat]
      BY DEF IInv, ServerTypes
    <3>4. lingering'[s][session[s]] > 0
      BY <3>1, <3>2, <3>3 DEF Session
    <3> QED
      BY <3>1, <3>4
  <2>2. CASE ~(s \in gone /\ registered[s] = "current")
    <3>1. registered[s] = "former"
      BY <1>3, <2>2 DEF CutOff
    <3>2. PICK kind \in {"again", "settled"} : lingering[s][kind] > 0
      BY <3>1 DEF IInv, LostOnlyUnnoticed
    <3>3. \/ lingering'[s] = [lingering[s] EXCEPT ![session[s]] = @ + 1]
          \/ lingering'[s] = lingering[s]
      BY DEF CutOff
    <3>4. lingering[s] \in [Session -> Nat] /\ kind \in Session
      BY DEF IInv, ServerTypes, Session
    <3>5. lingering'[s][kind] > 0
      BY <3>2, <3>3, <3>4
    <3> QED
      BY <3>5
  <2> QED
    BY <2>1, <2>2
<1> QED
  BY <1>1, <1>2, <1>3 DEF IInv, LostOnlyUnnoticed

LEMMA HandleRegisterIInv ==
    ASSUME IInv, NEW s \in Servers, HandleRegister(s)
    PROVE  IInv'
BY DEF HandleRegister, vars, IInv, ServerTypes, SessionsAreConnected,
       CurrentHasRegistered, LostOnlyUnnoticed, Session

LEMMA HandleLateRegisterIInv ==
    ASSUME IInv, NEW s \in Servers, NEW kind \in Session, HandleLateRegister(s, kind)
    PROVE  IInv'
<1>1. /\ kind \in {"fresh", "again"}
      /\ lingering[s] \in [Session -> Nat]
      /\ lingering[s][kind] > 0
  BY DEF HandleLateRegister, IInv, ServerTypes
<1> DEFINE counts == [lingering[s] EXCEPT ![kind] = @ - 1, !["settled"] = @ + 1]
<1>2. counts \in [Session -> Nat] /\ counts["settled"] > 0
  BY <1>1 DEF Session
<1>3. lingering' = [lingering EXCEPT ![s] = counts]
  BY <1>1 DEF HandleLateRegister, IInv, ServerTypes
<1> HIDE DEF counts
<1>4. /\ session' = session
      /\ sockets' = sockets
      /\ registered' = [registered EXCEPT ![s] = "former"]
  BY DEF HandleLateRegister, vars
<1>5. ServerTypes'
  BY <1>2, <1>3, <1>4 DEF IInv, ServerTypes
<1>6. CurrentHasRegistered' /\ SessionsAreConnected'
  BY <1>4 DEF IInv, ServerTypes, CurrentHasRegistered, SessionsAreConnected
<1>7. LostOnlyUnnoticed'
  BY <1>2, <1>3, <1>4 DEF IInv, ServerTypes, LostOnlyUnnoticed
<1> QED
  BY <1>5, <1>6, <1>7 DEF IInv

LEMMA HandleDisconnectIInv ==
    ASSUME IInv, NEW s \in Servers, NEW kind \in Session, HandleDisconnect(s, kind)
    PROVE  IInv'
<1>1. lingering[s] \in [Session -> Nat] /\ lingering[s][kind] > 0
  BY DEF HandleDisconnect, IInv, ServerTypes
<1> DEFINE counts == [lingering[s] EXCEPT ![kind] = @ - 1]
<1>2. /\ counts \in [Session -> Nat]
      /\ \A k \in Session \ {kind} : counts[k] = lingering[s][k]
  BY <1>1 DEF Session
<1>3. lingering' = [lingering EXCEPT ![s] = counts]
  BY <1>1 DEF HandleDisconnect, IInv, ServerTypes
<1> HIDE DEF counts
<1>4. /\ session' = session
      /\ sockets' = sockets
      /\ \/ registered' = registered
         \/ registered' = [registered EXCEPT ![s] = "nobody"]
  BY DEF HandleDisconnect, vars
<1>6. ServerTypes' /\ CurrentHasRegistered' /\ SessionsAreConnected'
  BY <1>2, <1>3, <1>4
     DEF IInv, ServerTypes, CurrentHasRegistered, SessionsAreConnected
<1>5. ASSUME NEW t \in Servers, registered'[t] = "former"
      PROVE  \E k \in {"again", "settled"} : lingering'[t][k] > 0
  <2>1. registered[t] = "former" /\ (t = s => kind = "fresh")
    BY <1>5 DEF HandleDisconnect, IInv, ServerTypes
  <2>2. PICK k \in {"again", "settled"} : lingering[t][k] > 0
    BY <2>1 DEF IInv, LostOnlyUnnoticed
  <2>3. lingering'[t][k] = lingering[t][k]
    BY <1>2, <1>3, <2>1, <2>2 DEF IInv, ServerTypes, Session
  <2> QED
    BY <2>2, <2>3
<1> QED
  BY <1>5, <1>6 DEF IInv, LostOnlyUnnoticed

(* The server knows nothing of what the client does without it.            *)
LEMMA ClientAloneIInv ==
    ASSUME IInv, UNCHANGED serverVars,
           Connect \/ RetryDelayElapses \/ BeforeUnload
    PROVE  IInv'
<1>1. SessionsAreConnected'
  BY ConnectionsStay DEF IInv, SessionsAreConnected, serverVars
<1> QED
  BY <1>1 DEF serverVars, IInv, ServerTypes, CurrentHasRegistered, LostOnlyUnnoticed

LEMMA RegisteringCheckIInv ==
    ASSUME IInv, RegisteringCheck
    PROVE  IInv'
<1>1. /\ sockets' \in [Servers -> {"none", "connecting", "connected"}]
      /\ \A s \in Servers : sockets[s] = "connected" => sockets'[s] = "connected"
  BY ConnectionsStay DEF RegisteringCheck, IInv
<1> QED
  BY <1>1 DEF RegisteringCheck, UpdateRegistrations, IInv, ServerTypes,
              SessionsAreConnected, CurrentHasRegistered, LostOnlyUnnoticed, Session

LEMMA RegisteringConnectIInv ==
    ASSUME IInv, NEW s \in Servers, RegisteringConnect(s)
    PROVE  IInv'
<1>1. /\ session[s] = "none"
      /\ session' = [session EXCEPT ![s] = "fresh"]
      /\ UNCHANGED <<lingering, registered>>
      /\ sockets' = [sockets EXCEPT ![s] = "connected"]
  BY DEF RegisteringConnect, SocketConnects, IInv, ServerTypes, SessionsAreConnected
<1> QED
  BY <1>1 DEF IInv, ServerTypes, SessionsAreConnected, CurrentHasRegistered,
              LostOnlyUnnoticed, Session

LEMMA NextIInv == IInv /\ [ReachNext]_reachVars => IInv'
<1> SUFFICES ASSUME IInv, [ReachNext]_reachVars PROVE IInv'
  OBVIOUS
<1>1. CASE (Connect \/ RetryDelayElapses \/ BeforeUnload) /\ UNCHANGED serverVars
  BY <1>1, ClientAloneIInv
<1>2. CASE RegisteringCheck
  BY <1>2, RegisteringCheckIInv
<1>3. CASE CutOffReload
  <2>1. sockets' \in [Servers -> {"none", "connecting", "connected"}]
    BY <1>3 DEF CutOffReload, Reload, NoSockets
  <2> QED
    BY <1>3, <2>1, CutOffIInv DEF CutOffReload
<1>4. ASSUME NEW s \in Servers, RegisteringConnect(s) PROVE IInv'
  BY <1>4, RegisteringConnectIInv
<1>5. ASSUME NEW s \in Servers, CutOffFailure(s) PROVE IInv'
  <2>1. /\ sockets' \in [Servers -> {"none", "connecting", "connected"}]
        /\ \A t \in Servers \ {s} :
                sockets[t] = "connected" => sockets'[t] = "connected"
    BY <1>5, FailureIsLocal DEF CutOffFailure, IInv
  <2> QED
    BY <1>5, <2>1, CutOffIInv DEF CutOffFailure
<1>6. ASSUME NEW s \in Servers, HandleRegister(s) PROVE IInv'
  BY <1>6, HandleRegisterIInv
<1>7. ASSUME NEW s \in Servers, NEW kind \in Session,
             HandleLateRegister(s, kind) \/ HandleDisconnect(s, kind)
      PROVE  IInv'
  BY <1>7, HandleLateRegisterIInv, HandleDisconnectIInv
<1>8. CASE UNCHANGED reachVars
  BY <1>8 DEF reachVars, vars, serverVars, IInv, ServerTypes, SessionsAreConnected,
              CurrentHasRegistered, LostOnlyUnnoticed
<1> QED
  BY <1>1, <1>2, <1>3, <1>4, <1>5, <1>6, <1>7, <1>8 DEF ReachNext

(* However sessions, their registrations and their disconnections follow   *)
(* one another, a server that loses a message still has a disconnection of *)
(* the client to notice, after which it does not any more.                 *)
THEOREM LossesAreUnnoticed == ReachSpec => []LostOnlyUnnoticed
<1>1. IInv => LostOnlyUnnoticed
  BY DEF IInv
<1> QED
  BY <1>1, InitIInv, NextIInv, PTL DEF ReachSpec

------------------------------------------------------------------------------
(* The type invariants.                                                    *)

(* The order of the disconnections: each server is in it once, so that     *)
(* sortValue finds one place for it, and those too recent are among them.  *)
InOrder(order) == order \in Seq(Servers) /\ IsInjective(order)

LEMMA ConcatFacts ==
    ASSUME NEW S, NEW s \in Seq(S), NEW t \in Seq(S)
    PROVE  /\ s \o t \in Seq(S)
           /\ Len(s \o t) = Len(s) + Len(t)
           /\ \A j \in 1..(Len(s) + Len(t)) :
                (s \o t)[j] = IF j <= Len(s) THEN s[j] ELSE t[j - Len(s)]
OBVIOUS

LEMMA RemoveAtFacts ==
    ASSUME NEW s, InOrder(s), NEW i \in 1..Len(s)
    PROVE  /\ RemoveAt(s, i) \in Seq(Servers)
           /\ Len(RemoveAt(s, i)) = Len(s) - 1
           /\ \A j \in 1..(Len(s) - 1) :
                RemoveAt(s, i)[j] = s[IF j < i THEN j ELSE j + 1]
<1> DEFINE n == Len(s)
           front == SubSeq(s, 1, i - 1)
           back == SubSeq(s, i + 1, n)
<1>1. s \in Seq(Servers) /\ n \in Nat
  BY DEF InOrder
<1>2. /\ front \in Seq(Servers) /\ Len(front) = i - 1
      /\ \A j \in 1..(i - 1) : front[j] = s[j]
  BY <1>1
<1>3. /\ back \in Seq(Servers) /\ Len(back) = n - i
      /\ \A j \in 1..(n - i) : back[j] = s[i + j]
  BY <1>1
<1>4. RemoveAt(s, i) = front \o back
  BY DEF RemoveAt
<1> HIDE DEF front, back, n
<1>5. /\ front \o back \in Seq(Servers)
      /\ Len(front \o back) = (i - 1) + (n - i)
      /\ \A j \in 1..((i - 1) + (n - i)) :
            (front \o back)[j] = IF j <= i - 1 THEN front[j] ELSE back[j - (i - 1)]
  <2>1. /\ front \o back \in Seq(Servers)
        /\ Len(front \o back) = Len(front) + Len(back)
        /\ \A j \in 1..(Len(front) + Len(back)) :
              (front \o back)[j] = IF j <= Len(front) THEN front[j]
                                   ELSE back[j - Len(front)]
    BY <1>2, <1>3, ConcatFacts
  <2> QED
    BY <1>2, <1>3, <2>1
<1>6. ASSUME NEW j \in 1..(n - 1)
      PROVE  (front \o back)[j] = s[IF j < i THEN j ELSE j + 1]
  <2>1. j \in 1..((i - 1) + (n - i))
    BY <1>1
  <2>2. CASE j < i
    <3>1. j <= i - 1 /\ j \in 1..(i - 1)
      BY <1>1, <2>2
    <3> QED
      BY <1>2, <1>5, <2>1, <2>2, <3>1
  <2>3. CASE ~(j < i)
    <3>1. ~(j <= i - 1) /\ j - (i - 1) \in 1..(n - i) /\ i + (j - (i - 1)) = j + 1
      BY <1>1, <2>3
    <3> QED
      BY <1>3, <1>5, <2>1, <2>3, <3>1
  <2> QED
    BY <2>2, <2>3
<1>7. (i - 1) + (n - i) = n - 1
  BY <1>1
<1> QED
  BY <1>4, <1>5, <1>6, <1>7 DEF n

(* A server that is not in the order can be put at its end.                *)
LEMMA AppendInOrder ==
    ASSUME NEW order, InOrder(order), NEW s \in Servers, s \notin ToSet(order)
    PROVE  InOrder(Append(order, s)) /\ ToSet(Append(order, s)) = ToSet(order) \cup {s}
<1> DEFINE n == Len(order)
           new == Append(order, s)
<1>1. order \in Seq(Servers) /\ n \in Nat /\ DOMAIN order = 1..n
  BY DEF InOrder
<1>2. /\ new \in Seq(Servers)
      /\ DOMAIN new = 1..(n + 1)
      /\ new[n + 1] = s
      /\ \A i \in 1..n : new[i] = order[i]
  BY <1>1
<1>3. \A i \in 1..(n + 1) : i = n + 1 \/ i \in 1..n
  BY <1>1
<1>4. \A i \in 1..n : order[i] # s
  BY <1>1 DEF ToSet
<1>5. \A i, j \in 1..n : order[i] = order[j] => i = j
  BY <1>1 DEF InOrder, IsInjective
<1>6. n + 1 \in 1..(n + 1) /\ \A i \in 1..n : i \in 1..(n + 1)
  BY <1>1
<1> HIDE DEF new, n
<1>7. InOrder(new)
  BY <1>2, <1>3, <1>4, <1>5 DEF InOrder, IsInjective
<1>8. ToSet(new) = ToSet(order) \cup {s}
  BY <1>1, <1>2, <1>3, <1>6 DEF ToSet
<1> QED
  BY <1>7, <1>8 DEF new

LEMMA RemovedFromOrder ==
    ASSUME NEW order, InOrder(order), NEW i \in 1..Len(order)
    PROVE  /\ InOrder(RemoveAt(order, i))
           /\ ToSet(RemoveAt(order, i)) = ToSet(order) \ {order[i]}
<1> DEFINE n == Len(order)
           left == RemoveAt(order, i)
           From(j) == IF j < i THEN j ELSE j + 1
<1>1. order \in Seq(Servers) /\ n \in Nat /\ DOMAIN order = 1..n
  BY DEF InOrder
<1>2. /\ left \in Seq(Servers)
      /\ Len(left) = n - 1
      /\ \A j \in 1..(n - 1) : left[j] = order[From(j)]
  BY RemoveAtFacts
<1>3. DOMAIN left = 1..(n - 1)
  BY <1>2
<1>4. \A j \in 1..(n - 1) : From(j) \in 1..n /\ From(j) # i
  BY <1>1
<1>5. \A j, k \in 1..(n - 1) : From(j) = From(k) => j = k
  BY <1>1
<1>6. \A k \in 1..n : k # i => \E j \in 1..(n - 1) : From(j) = k
  <2> SUFFICES ASSUME NEW k \in 1..n, k # i PROVE \E j \in 1..(n - 1) : From(j) = k
    OBVIOUS
  <2>1. CASE k < i
    <3>1. k \in 1..(n - 1) /\ From(k) = k
      BY <1>1, <2>1
    <3> QED
      BY <3>1
  <2>2. CASE k > i
    <3>1. k - 1 \in 1..(n - 1) /\ From(k - 1) = k
      BY <1>1, <2>2
    <3> QED
      BY <3>1
  <2> QED
    BY <1>1, <2>1, <2>2
<1>7. \A j, k \in 1..n : order[j] = order[k] => j = k
  BY <1>1 DEF InOrder, IsInjective
<1> HIDE DEF left, n, From
<1>8. IsInjective(left)
  BY <1>2, <1>3, <1>4, <1>5, <1>7 DEF IsInjective
<1>9. ToSet(left) = ToSet(order) \ {order[i]}
  <2>1. ToSet(left) \subseteq ToSet(order) \ {order[i]}
    BY <1>1, <1>2, <1>3, <1>4, <1>7 DEF ToSet, n
  <2>2. ToSet(order) \ {order[i]} \subseteq ToSet(left)
    <3> SUFFICES ASSUME NEW k \in 1..n, order[k] # order[i]
                 PROVE  order[k] \in ToSet(left)
      BY <1>1 DEF ToSet
    <3>1. PICK j \in 1..(n - 1) : From(j) = k
      BY <1>6
    <3>2. left[j] = order[k] /\ j \in DOMAIN left
      BY <1>2, <1>3, <3>1
    <3> QED
      BY <3>2 DEF ToSet
  <2> QED
    BY <2>1, <2>2
<1> QED
  BY <1>2, <1>8, <1>9 DEF left, InOrder

LEMMA FlagDisconnectionFacts ==
    ASSUME InOrder(disconnected), recent \subseteq ToSet(disconnected),
           NEW s \in Servers, FlagDisconnection(s)
    PROVE  InOrder(disconnected') /\ recent' \subseteq ToSet(disconnected')
<1>1. recent' = recent \cup {s}
  BY DEF FlagDisconnection
<1>2. CASE s \notin ToSet(disconnected) /\ disconnected' = Append(disconnected, s)
  BY <1>1, <1>2, AppendInOrder
<1>3. ASSUME NEW i \in DOMAIN disconnected, disconnected[i] = s,
             disconnected' = Append(RemoveAt(disconnected, i), s)
      PROVE  InOrder(disconnected') /\ recent' \subseteq ToSet(disconnected')
  <2>1. i \in 1..Len(disconnected)
    BY DEF InOrder
  <2> DEFINE left == RemoveAt(disconnected, i)
  <2>2. InOrder(left) /\ ToSet(left) = ToSet(disconnected) \ {s}
    BY <1>3, <2>1, RemovedFromOrder
  <2> HIDE DEF left
  <2>3. InOrder(Append(left, s)) /\ ToSet(Append(left, s)) = ToSet(left) \cup {s}
    BY <2>2, AppendInOrder
  <2> QED
    BY <1>1, <1>3, <2>2, <2>3 DEF left
<1> QED
  BY <1>2, <1>3 DEF FlagDisconnection

LEMMA InitTypeOK == Init => TypeOK
<1> SUFFICES ASSUME Init PROVE TypeOK
  OBVIOUS
<1>1. disconnected \in Seq(Servers) /\ IsInjective(disconnected)
  BY DEF Init, IsInjective
<1>2. losses \in 0..MaxLosses /\ reloads \in 0..MaxReloads
  BY DEF Init
<1> QED
  BY <1>1, <1>2 DEF Init, TypeOK, NoSockets

(* Trying other servers, and what is stored of it.                         *)
LEMMA ConnectToServersTypes ==
    ASSUME NEW open \in [Servers -> {"none", "connecting", "connected"}],
           NEW disconnects, NEW tooRecent,
           ConnectToServers(open, disconnects, tooRecent)
    PROVE  /\ sockets' \in [Servers -> {"none", "connecting", "connected"}]
           /\ stored' \subseteq Servers
           /\ \A s \in Servers : sockets'[s] = "connected" => open[s] = "connected"
<1>1. PICK new \in NextServers(open, disconnects, tooRecent) :
        /\ sockets' = [s \in Servers |-> IF s \in new THEN "connecting" ELSE open[s]]
        /\ stored' = Attempted'
  BY DEF ConnectToServers
<1> QED
  BY <1>1 DEF Attempted

LEMMA SocketFailsTypeOK ==
    ASSUME TypeOK, NEW s \in Servers, SocketFails(s)
    PROVE  TypeOK'
<1> DEFINE open == [sockets EXCEPT ![s] = "none"]
<1>1. open \in [Servers -> {"none", "connecting", "connected"}]
  BY DEF TypeOK
<1>2. InOrder(disconnected') /\ recent' \subseteq ToSet(disconnected')
  BY FlagDisconnectionFacts DEF TypeOK, InOrder, SocketFails, DisposeOfSocket
<1>3. losses' \in 0..MaxLosses
  BY DEF SocketFails, TypeOK
<1>4. /\ sockets' \in [Servers -> {"none", "connecting", "connected"}]
      /\ stored' \subseteq Servers
  <2>1. \/ sockets' = open /\ stored' = stored
        \/ ConnectToServers(open, disconnected', recent')
    BY DEF SocketFails, DisposeOfSocket
  <2> HIDE DEF open
  <2> QED
    BY <1>1, <2>1, ConnectToServersTypes DEF TypeOK
<1>5. checking' \in BOOLEAN /\ bug' \in BOOLEAN
  BY DEF SocketFails, DisposeOfSocket, ScheduleChecks, TypeOK
<1>6. UNCHANGED <<started, unloading, reloads>>
  BY DEF SocketFails
<1> QED
  BY <1>2, <1>3, <1>4, <1>5, <1>6 DEF TypeOK, InOrder

LEMMA NextTypeOK == TypeOK /\ [Next]_vars => TypeOK'
<1> SUFFICES ASSUME TypeOK, [Next]_vars PROVE TypeOK'
  OBVIOUS
<1>1. CASE Connect \/ CheckConnectivity
  <2>1. /\ sockets' \in [Servers -> {"none", "connecting", "connected"}]
        /\ stored' \subseteq Servers
    BY <1>1, ConnectToServersTypes DEF Connect, CheckConnectivity, TypeOK
  <2>2. started' \in BOOLEAN /\ checking' \in BOOLEAN /\ bug' \in BOOLEAN
    BY <1>1 DEF Connect, CheckConnectivity, ScheduleChecks, TypeOK
  <2>3. UNCHANGED <<unloading, disconnected, recent, losses, reloads>>
    BY <1>1 DEF Connect, CheckConnectivity
  <2> QED
    BY <2>1, <2>2, <2>3 DEF TypeOK
<1>2. ASSUME NEW s \in Servers, SocketConnects(s) PROVE TypeOK'
  BY <1>2 DEF SocketConnects, TypeOK
<1>3. ASSUME NEW s \in Servers, SocketFails(s) PROVE TypeOK'
  BY <1>3, SocketFailsTypeOK
<1>4. CASE RetryDelayElapses
  <2>1. recent' \subseteq recent
    BY <1>4 DEF RetryDelayElapses
  <2>2. UNCHANGED <<started, unloading, checking, sockets, disconnected, stored,
                    bug, losses, reloads>>
    BY <1>4 DEF RetryDelayElapses
  <2> QED
    BY <2>1, <2>2 DEF TypeOK
<1>5. CASE BeforeUnload
  BY <1>5 DEF BeforeUnload, TypeOK
<1>6. CASE Reload
  <2>1. disconnected' \in Seq(Servers) /\ IsInjective(disconnected')
    BY <1>6 DEF Reload, IsInjective
  <2>2. reloads' \in 0..MaxReloads
    BY <1>6 DEF Reload, TypeOK
  <2> QED
    BY <1>6, <2>1, <2>2 DEF Reload, TypeOK, NoSockets
<1>7. CASE UNCHANGED vars
  BY <1>7 DEF vars, TypeOK
<1> QED
  BY <1>1, <1>2, <1>3, <1>4, <1>5, <1>6, <1>7 DEF Next

(* The client keeps one place for each server it was disconnected from, in *)
(* the order of the disconnections, and those too recent to try again are  *)
(* among them; what it stores are servers.                                 *)
THEOREM SocketTypes == Spec => []TypeOK
BY InitTypeOK, NextTypeOK, PTL DEF Spec

(* A socket that is connected has a session, and the other way round.      *)
ConnectedHaveSessions ==
    \A s \in Servers : sockets[s] = "connected" => session[s] # "none"

LEMMA InitReachTypeOK == ReachInit => ReachTypeOK
BY InitTypeOK DEF ReachInit, Init, NoSockets, ReachTypeOK, Session

LEMMA NextConnectedHaveSessions ==
    ASSUME TypeOK, ServerTypes, ConnectedHaveSessions, [ReachNext]_reachVars
    PROVE  ConnectedHaveSessions'
<1> DEFINE States == {"none", "connecting", "connected"}
<1>1. sockets \in [Servers -> States]
  BY DEF TypeOK
<1>2. ASSUME NEW open \in [Servers -> States], NEW disconnects, NEW tooRecent,
             ConnectToServers(open, disconnects, tooRecent)
      PROVE  \A s \in Servers : sockets'[s] = "connected" => open[s] = "connected"
  BY <1>2, ConnectToServersTypes
<1>3. CASE (Connect \/ RetryDelayElapses \/ BeforeUnload) /\ UNCHANGED serverVars
  <2>1. \A s \in Servers : sockets'[s] = "connected" => sockets[s] = "connected"
    <3>1. CASE Connect
      BY <1>1, <1>2, <3>1 DEF Connect
    <3>2. CASE RetryDelayElapses \/ BeforeUnload
      BY <3>2 DEF RetryDelayElapses, BeforeUnload
    <3> QED
      BY <1>3, <3>1, <3>2
  <2>2. session' = session
    BY <1>3 DEF serverVars
  <2> QED
    BY <2>1, <2>2 DEF ConnectedHaveSessions
<1>4. CASE RegisteringCheck
  <2>1. \A s \in Servers : sockets'[s] = "connected" => sockets[s] = "connected"
    BY <1>1, <1>2, <1>4 DEF RegisteringCheck, CheckConnectivity
  <2>2. \A s \in Servers : session'[s] = "none" => session[s] = "none"
    BY <1>4 DEF RegisteringCheck, UpdateRegistrations
  <2> QED
    BY <2>1, <2>2 DEF ConnectedHaveSessions
<1>5. CASE CutOffReload
  BY <1>5 DEF CutOffReload, Reload, NoSockets, ConnectedHaveSessions
<1>6. ASSUME NEW s \in Servers, RegisteringConnect(s) PROVE ConnectedHaveSessions'
  BY <1>1, <1>6 DEF RegisteringConnect, SocketConnects, ServerTypes, ConnectedHaveSessions
<1>7. ASSUME NEW s \in Servers, CutOffFailure(s) PROVE ConnectedHaveSessions'
  <2> DEFINE open == [sockets EXCEPT ![s] = "none"]
  <2>1. /\ open \in [Servers -> States]
        /\ \A t \in Servers : open[t] = "connected" => t # s /\ sockets[t] = "connected"
    BY <1>1
  <2>2. \/ sockets' = open
        \/ ConnectToServers(open, disconnected', recent')
    BY <1>7 DEF CutOffFailure, SocketFails, DisposeOfSocket
  <2> HIDE DEF open
  <2>3. \A t \in Servers : sockets'[t] = "connected" => open[t] = "connected"
    BY <1>2, <2>1, <2>2
  <2>4. \A t \in Servers \ {s} : session'[t] = session[t]
    BY <1>7 DEF CutOffFailure, CutOff
  <2> QED
    BY <2>1, <2>3, <2>4 DEF ConnectedHaveSessions
<1>8. ASSUME NEW s \in Servers,
             \/ HandleRegister(s)
             \/ \E kind \in Session : HandleLateRegister(s, kind) \/ HandleDisconnect(s, kind)
      PROVE  ConnectedHaveSessions'
  BY <1>8 DEF HandleRegister, HandleLateRegister, HandleDisconnect, vars, ServerTypes,
              ConnectedHaveSessions
<1>9. CASE UNCHANGED reachVars
  BY <1>9 DEF reachVars, vars, serverVars, ConnectedHaveSessions
<1> QED
  BY <1>3, <1>4, <1>5, <1>6, <1>7, <1>8, <1>9 DEF ReachNext

(* The types of the composition: exactly the sockets that are connected    *)
(* have a session at their server.                                         *)
THEOREM ReachabilityTypes == ReachSpec => []ReachTypeOK
<1> DEFINE Typed == TypeOK /\ IInv /\ ConnectedHaveSessions
<1>1. ReachInit => Typed
  BY InitReachTypeOK, InitIInv DEF ReachTypeOK, ConnectedHaveSessions
<1>2. Typed /\ [ReachNext]_reachVars => Typed'
  BY NextTypeOK, StepsOfClient, NextIInv, NextConnectedHaveSessions DEF IInv
<1>3. Typed => ReachTypeOK
  BY DEF IInv, ServerTypes, SessionsAreConnected, ConnectedHaveSessions, ReachTypeOK
<1> QED
  BY <1>1, <1>2, <1>3, PTL DEF ReachSpec
===============================================================================
