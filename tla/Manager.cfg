CONSTANTS
    NumDevices = 2
    Callers = {c1, c2}
SPECIFICATION MCSpec
INVARIANTS
    CancelNeverLost
    RunningIsHonest
    StatusCoherent
    IdleShowsWait
    NoLostWake
PROPERTIES
    ImplementsCollector
    DisableTakesEffect
    EnableTakesEffect
    ShutdownCompletes
