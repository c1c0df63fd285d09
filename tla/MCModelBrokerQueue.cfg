SPECIFICATION FairSpec
CONSTANTS
    Ids <- MCIds
    MaxStored = 2
    Chunks = 2
    MaxLosses = 1
    MaxCrashes = 1
INVARIANTS TypeOK SpoolIsSound
PROPERTIES WaitingIsServed KeepsThePromise
