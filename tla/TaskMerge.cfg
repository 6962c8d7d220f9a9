SPECIFICATION MCSpec
CONSTANTS
    Runs <- MCRuns
    Merges <- MCMerges
    Bounds <- MCBounds
INVARIANTS MergesAnswer NothingLeftBehind
PROPERTIES WorkIsKept MergesEnd
CHECK_DEADLOCK FALSE
