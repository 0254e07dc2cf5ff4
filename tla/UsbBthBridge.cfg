\* A command that the standby host sends too.  Two packets fit the ring; two late answers may be owed, one of them to
\* the standby host.
CONSTANTS
    Depth          = 3
    TxTicks        = 1
    SuppressMax    = 2
    OutstandingMax = 2
    StandbyMax     = 1

SPECIFICATION FairSpec
INVARIANTS
    TypeOK
    InFlightIsOldest
    SuppressCovers
PROPERTIES
    SecondAnswerForTaken
    ImplementsChannel
    OldestMovesOn
