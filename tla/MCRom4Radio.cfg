SPECIFICATION Spec
CONSTANTS
    QueueN = 3
    RingN = 1
    ServingN = 2
    SelectedN = 4
    MeasureN = 2
    RoundMod = 3
    Frames = {0, 1}
    Ras = {1, 2}
    Settings <- MCSettings
    LossMax = 1
    RejectMax = 1
INVARIANT Correlated
PROPERTIES Camps SecurityAnswered
