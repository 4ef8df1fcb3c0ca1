SPECIFICATION Spec
CONSTANTS
    Slots = 4
    PendingN = 3
    DelayedN = 1
    Ttl = 1
    KaCyc = 2
    BeatLen = 0
    MaxRec = 3
    MaxTime = 3
    MaxStep = 1
    MaxBatch = 2
    Kinds <- MCKinds
INVARIANTS
    TypeOK
    Intact
    NoStrandedRecord
    WakeupNotLost
    ReadsOnlyWritten
    FreshPosts
    OneFate
PROPERTIES
    NeverSilent
    LinkSpec
