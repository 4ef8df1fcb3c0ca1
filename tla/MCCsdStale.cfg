SPECIFICATION Spec
CONSTANTS
    Modulus = 4
    PduLen = 3
    TxqN = 12
    PppTxN = 12
    TakeN = 4
    MruN = 4
    OutN = 3
    Size <- MCSize
    DgramMax = 2048
    ReplyLen <- MCReplyLen
    Settings <- MCHastySettings
    RetryMax = 1
    AbortMax = 1
    OddMax = 1
    CallMax = 2
    SilentMax = 1
INVARIANT RightPage
CHECK_DEADLOCK FALSE
