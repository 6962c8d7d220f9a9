SPECIFICATION MCSpec
CONSTANTS
    Launches <- MCLaunches
    Runs <- MCRuns
    RunOf <- MCRunOf
    Bounds <- MCBounds
INVARIANTS SlotsAreExact SaidIsSo SidesInStep
PROPERTY EveryDispatchSettles
CHECK_DEADLOCK FALSE
