CONSTANTS
    None = None
    Self = self
    Ids = {self, p1, p2, p3, p4, p5}
    Shuffles = {s1, s2}
    NumNeighbours = 3
    ShuffleSize = 2
    BootstrapSize = 1
    MaxAge = 0
    MaxSeq = 0
SYMMETRY Symmetry
SPECIFICATION Spec
INVARIANTS
    TypeOK
    NeverKnowsSelf
    AtMostOneActivity
    LastShuffleAwaitsResponse
    ReplyStaysInCache
PROPERTIES
    EngagedNeighbourLeaves
    CapacityKept
    ImplementsLifecycle
