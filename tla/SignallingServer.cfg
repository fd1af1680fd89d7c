CONSTANTS
    None = None
    Nodes = {n1, n2}
    RoomNames = {r1}
    Sockets = {s1, s2}
    MaxInbox = 2
SPECIFICATION FairSpec
INVARIANTS
    TypeOK
    NobodyMissing
    PeersAreRegistered
    NeverCrashes
    NoGhosts
    MessagesReachTheirNode
PROPERTIES
    StaysRegistered
CHECK_DEADLOCK FALSE
