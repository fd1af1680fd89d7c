CONSTANTS
    NumNodes = 4
    Ids = {0, 1, 2, 3}
    NumNeighbours = 2
    ShuffleSize = 2
    MaxAge = 0
    MaxSeq = 0
SPECIFICATION FairSpec
INVARIANTS
    CachesBounded
PROPERTIES
    OrphansRecover
