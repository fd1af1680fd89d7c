CONSTANTS
    None = None
    Self = self
    Ids = {self, p1, p2, p3}
    Shuffles = {s1, s2}
    NumNeighbours = 2
    ShuffleSize = 2
    BootstrapSize = 1
    MaxAge = 1
    MaxSeq = 0
SYMMETRY Symmetry
SPECIFICATION Spec
PROPERTIES
    OlderShuffleLeavesLastAlone
