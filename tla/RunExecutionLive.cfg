SPECIFICATION FairSpec
PROPERTIES
    CancellationEnds
CONSTANTS
    Workers = {w1, w2, gone}
    Gone = gone
    NoWorker = NoWorker
    MaxAttempts = 2
    MaxTries = 1
    Jobs = {j1, j2}
    Stalls = FALSE
    EarlyFaults = TRUE
    Hasty = FALSE
