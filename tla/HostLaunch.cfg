SPECIFICATION MCSpec
INVARIANTS
    TableIsExact
    ProcessIsGuarded
PROPERTIES
    NobodyIsPassedOver
    LaunchesAnswered
CONSTANTS
    first = first
    retry = retry
    other = other
    peer = peer
    mixed = mixed
    sweep = sweep
    run1 = run1
    run2 = run2
    run3 = run3
    run4 = run4
    Launches = {first, retry, other, peer, mixed}
    Maintenance = {sweep}
    Keys = {1, 2}
    Writes <- MCWrites
    Reads <- MCReads
    Tends <- MCTends
    Runs = {run1, run2, run3, run4}
    RunOf <- MCRunOf
    Tooled = {first}
    TaskKeys = {1}
    MaxCommands = 1
    Disturbances <- Everything
