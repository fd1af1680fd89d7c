CONSTANTS
    None = None
    Nodes = {n1, n2}
    RoomNames = {r1}
    Sockets = {s1, s2}
    MaxInbox = 2
SYMMETRY Symmetry
SPECIFICATION Spec
INVARIANTS
    LeavingNeverFails
