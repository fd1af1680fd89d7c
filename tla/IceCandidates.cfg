CONSTANTS
    Channels = {c1, c2}
    Offered = {c1}
    CorrelationIds = {1, 2}
    Names = {a, b}
    MaxCandidates = 2
    MaxBuffered = 1
SPECIFICATION FairSpec
INVARIANTS
    TimerPerQueue
    EachInOnePlace
    AddedWhenDescribed
    CandidatesStayApart
PROPERTIES
    CandidatesGetThrough
CHECK_DEADLOCK FALSE
