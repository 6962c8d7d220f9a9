SPECIFICATION Spec
INVARIANTS
    QueuedRunHasJob
CONSTANTS
    Workers = {w1, gone}
    Gone = gone
    NoWorker = NoWorker
    MaxAttempts = 2
    MaxTries = 2
    Jobs = {j1, j2}
    Stalls = FALSE
    EarlyFaults = FALSE
    Hasty = TRUE
