SPECIFICATION Spec
CONSTANTS
    IncomingN = 3
    DedicatedN = 32
    AckN = 16
    Bursts = 2
    Cycles = 2
    Modulus = 8
    Services <- MCServices
    Kind <- MCKind
    Offers <- MCOffers
    Sizes <- MCSizes
    OwnMax = 2
    RepeatMax = 1
INVARIANTS
    InStep
    Paged
PROPERTIES
    Delivered
    ChannelFreed
CHECK_DEADLOCK FALSE
