SPECIFICATION Spec
CONSTANTS
    w1 = w1
    w2 = w2
    h1 = h1
    Workers = {w1, w2}
    HostOps = {h1}
    SuspendingOps = {h1}
    MaxConnection = 1
    MaxRequests = 3
    MaxTimeouts = 1
    MaxGeneration = 0
    AutoRollback = TRUE
SYMMETRY Symmetric
INVARIANTS
    TypeOK
    LeaseIsRightlyHeld
    NoStrandedRequest
    CoordinatedStepsNeverStall
