SPECIFICATION FairSpec
INVARIANTS
    PendingIsClaimable
    SteadyLanesAreAlone
PROPERTIES
    KeepsPromise
    EveryJobSettles
    InterruptedIsTakenUp
CONSTANTS
    Workers = {w1, w2}
    NoWorker = NoWorker
    MaxAttempts = 2
    Jobs = {j1, j2}
    AgentJobs = {j1}
    CancellableFrom = {"pending", "claimed"}
