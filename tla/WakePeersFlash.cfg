\* Does a power cycle bring back the table when no save is left to be done?
CONSTANTS
    Peer           = {p1, p2, p3, p4}
    Free           = Free
    MaxPeers       = 3
    SaveDelayTicks = 2

SPECIFICATION Spec
INVARIANTS
    PeersSurvivePowerCycle
