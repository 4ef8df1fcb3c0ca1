SPECIFICATION Spec
CONSTANTS
    SecCyc = 2
    SecsPerMin = 2
    MinsPerHour = 2
    HoursPerDay = 2
    AlarmHold = 1
    DogOff = 63
    Writes <- MCClockWrites
    Modes <- MCClockModes
    MaxTime = 5
    ClockTime = 5
    MaxStep = 1
CHECK_DEADLOCK FALSE
PROPERTIES
    SecondLatched
