SPECIFICATION Spec
CONSTANTS
    RxSize = 6
    TxSize = 2
    AtrLen = 2
    Slots = 1
    PinMax = 1
    PukMax = 1
    ResetMod = 2
    Files <- MCFiles
    Kind <- MCKind
    FcpLen <- MCFcpLen
    RecLen = 2
    RandLen = 2
    KeyLen = 3
    Always = {"bin"}
    MF = "mf"
    Pin = "a"
    Puk = "puk"
    Settings <- MCSettings
INVARIANTS
    Framed
    NoByteStranded
    ReadsLastWrite
PROPERTIES
    CommandEnds
    TimeoutSeen
