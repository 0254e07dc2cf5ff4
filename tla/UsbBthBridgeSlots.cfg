\* Is a slot left alone while TinyUSB sends from it?
CONSTANTS
    Depth          = 3
    TxTicks        = 1
    SuppressMax    = 2
    OutstandingMax = 2
    StandbyMax     = 0

SPECIFICATION Spec
INVARIANTS
    SlotStable
