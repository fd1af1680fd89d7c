CONSTANTS
    Servers = {a, b, d, m}
    Malformed = {m}
    Dead = {d}
    Preferred = 2
    MaxLosses = 2
    MaxReloads = 1
SPECIFICATION ReachSpec
INVARIANTS
    NeverTooMany
    ChecksRun
    LostOnlyUnnoticed
PROPERTIES
    AffinityAcrossReload
    EventuallyConnected
    EventuallyReachable
CHECK_DEADLOCK FALSE
