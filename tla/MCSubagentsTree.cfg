SPECIFICATION Spec
CONSTANTS
    Tasks = {t1, t2}
    Surfaces = {}
    MaxThreads = 2
    MaxDepth = 2
    MaxChildren = 1
    MaxContinuations = 1
    MaxLaunches = 2
    MaxAsks = 2
    PromptAbort = FALSE
    t1 = t1
    t2 = t2
SYMMETRY TaskSymmetry
INVARIANTS
    TypeOK
    RunningTurnIsLive
    LiveTurnsAreShown
    SleepersHaveAWaker
PROPERTIES
    StopIsFinal
CHECK_DEADLOCK FALSE
