CONSTANTS
    None = None
    Self = self
    Ids = {self, p1, p2}
    Shuffles = {s1, s2}
    NumNeighbours = 3
    ShuffleSize = 1
    BootstrapSize = 1
    MaxAge = 1
    MaxSeq = 1
SPECIFICATION PageFairSpec
INVARIANTS
    RankingNeverBehind
PROPERTIES
    NothingLostWithRoom
    EngagedNeighbourEventuallyLeaves
