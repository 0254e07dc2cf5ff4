SPECIFICATION FairSpec
CONSTANTS
    Base = 5
    Capacity = 6
    RingSize = 3
    RingByte <- MCByte
    Gone = Gone
    Packets <- MCPackets
    MaxOnWay = 2
INVARIANTS
    UTypeOK
    LengthsHonest
    StreamWhole
PROPERTIES
    DeliveredAsSent
    ImplementsByteChannel
    AlwaysBack
