SPECIFICATION FairSpec
CONSTANTS
    Surfaces = {"x"}
    NoSurface = "-"
    MaxTracks = 2
    MaxLaunches = 2
    MaxAsks = 3
    MaxFaults = 1
INVARIANTS TypeOK EpochsRunAlone
PROPERTIES OnlyTheOperatorRestarts EpochsAreReleased StrayWorkersEnd
