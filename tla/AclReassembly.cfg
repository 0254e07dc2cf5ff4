\* Lengths from 12 wrap; packets are one fragment or two, with a rest that is
\* long enough for another header.
CONSTANTS
    Base        = 4
    BufferLen   = 8
    EndpointLen = 5

SPECIFICATION Spec
INVARIANTS
    TypeOK
    AclStreamWhole
    AclLengthsHonest
