SPECIFICATION FairSpec
CONSTANTS
    MaxAttempts = 2
    MaxRecoveries = 1
    Controls = {"active", "paused"}
    MaxPendingControls = 1
    MaxFaults = 1
INVARIANTS TypeOK WorkersAreOwned
PROPERTY StopEnds
CHECK_DEADLOCK FALSE
