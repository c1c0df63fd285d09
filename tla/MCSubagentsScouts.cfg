SPECIFICATION FairSpec
CONSTANTS
    Tasks = {t1}
    Surfaces = {s1}
    MaxThreads = 1
    MaxDepth = 1
    MaxChildren = 1
    MaxContinuations = 1
    MaxLaunches = 2
    MaxAsks = 1
    PromptAbort = TRUE
    t1 = t1
    s1 = s1
INVARIANTS
    AnswerIsCurrent
    NoStrandedScout
PROPERTIES
    StopEndsTheRun
CHECK_DEADLOCK FALSE
