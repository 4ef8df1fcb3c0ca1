SPECIFICATION Spec
CONSTANTS
    Slots = 4
    PendingN = 3
    DelayedN = 1
    Ttl = 1
    KaCyc = 2
    BeatLen = 3
    MaxRec = 1
    MaxTime = 3
    MaxStep = 1
    MaxBatch = 1
    Kinds <- MCKinds
INVARIANTS
    ReadsOnlyWritten
