SPECIFICATION Spec
CONSTANTS
    FifoSize = 2
    OutSize = 2
    FrameLens <- MCFrameLens
    MaxIn = 2
    MaxOut = 3
INVARIANTS
    TypeOK
    Fiq2Follows
PROPERTIES
    SentInOrder
    EveryByteHeard
    EveryFrameSent
