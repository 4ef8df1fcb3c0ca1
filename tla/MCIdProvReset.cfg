SPECIFICATION Spec
CONSTANTS
    Prologue <- MCPrologue
    StageFrames = 3
    RingFrames = 2
    Unread = 1
    MaxRuns = 2
CHECK_DEADLOCK FALSE
INVARIANTS
    ResetReachesPhone
