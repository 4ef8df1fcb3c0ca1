SPECIFICATION Spec
CONSTANTS
    SecCyc = 2
    SecsPerMin = 2
    MinsPerHour = 2
    HoursPerDay = 2
    AlarmHold = 1
    DogOff = 63
    Writes <- MCWrites
    Modes <- MCModes
    MaxTime = 9
    ClockTime = 4
    MaxStep = 1
CONSTRAINT Apart
CHECK_DEADLOCK FALSE
INVARIANTS
    TypeOK
    Irq2Level
    AlarmReleased
PROPERTIES
    MinuteLatched
    AlarmCaught
    CounterWriteIsolated
    NoFalseStarvation
    DogAwake
