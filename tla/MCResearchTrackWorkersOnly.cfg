SPECIFICATION Spec
CONSTANTS
    Surfaces = {"x"}
    NoSurface = "-"
    MaxTracks = 1
    MaxLaunches = 1
    MaxAsks = 1
    MaxFaults = 0
PROPERTIES ReservedEpochsArePrepared
