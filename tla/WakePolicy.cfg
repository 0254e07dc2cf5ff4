\* A table of three for four peers: eviction, refresh and re-learning all
\* happen, and two peers differ in the type of their address only.
CONSTANTS
    Peer           = {2, 3, 4, 5}
    Free           = 0
    MaxPeers       = 3
    SaveDelayTicks = 2
    WakeOptions    = {"known", "directed", "stadia"}
    PollTicks      = 1
    HoldPolls      = 3

SPECIFICATION PolicyFairSpec
INVARIANTS
    PolicyTypeOK
    PeersCompact
    StoreIsCurrent
    ReportsAgree
PROPERTIES
    ImplementsRecentList
    DirtyIsSaved
    ClearsAfterHold
    HeldButtonClears
