SPECIFICATION FairSpec
CONSTANTS
    Controls <- MCControls
    Kind <- MCKind
    Text <- MCText
    Target <- MCTarget
    Takers = {"boundary"}
    Waiters = {"query"}
    Abandoned = {"query"}
    Approvals = {"shell"}
    InitialSteering <- MCInitialSteering
    Remembered = 2
INVARIANTS TypeOK SteeringIsKeptOnce DeadStreamHoldsNobody
PROPERTY SteeringIsTaken
CHECK_DEADLOCK FALSE
