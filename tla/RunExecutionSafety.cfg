SPECIFICATION Spec
SYMMETRY LaneAndRowSymmetry
INVARIANTS
    AttemptsAgree
    LockIsSound
    QueuedRunHasJob
    StopIsConfirmed
PROPERTIES
    ProcessesAreTheRuns
    EndStands
CONSTANTS
    Workers = {w1, w2, gone}
    Gone = gone
    NoWorker = NoWorker
    MaxAttempts = 2
    MaxTries = 2
    Jobs = {j1, j2}
    Stalls = FALSE
    EarlyFaults = FALSE
    Hasty = FALSE
