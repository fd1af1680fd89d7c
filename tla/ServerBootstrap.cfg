CONSTANTS
    None = None
    Self = self
    Nodes = {self, p1, p2}
    Servers = {s1, s2}
    Limit = 1
    MaxSeq = 1
SPECIFICATION Spec
INVARIANTS
    NextPointerIsNewest
PROPERTIES
    ImplementsBootstrap
