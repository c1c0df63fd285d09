SPECIFICATION FairSpec
CONSTANTS
    w1 = w1
    w2 = w2
    h1 = h1
    Workers = {w1, w2}
    HostOps = {h1}
    SuspendingOps = {h1}
    MaxConnection = 1
    MaxRequests = 2
    MaxTimeouts = 0
    MaxGeneration = 1
    AutoRollback = FALSE
INVARIANTS
    AnswersMatch
    TransactionsAreAgreed
PROPERTIES
    EverybodyIsServed
