SPECIFICATION MCSpec
CONSTANTS
    ra = ra  rb = rb  a1 = a1  a2 = a2  b1 = b1  p1 = p1  p2 = p2  p3 = p3  standing = standing
    x = x  y = y  z = z  w = w  e1 = e1  e2 = e2
    Runs <- MCRuns
    Decisions = {a1, a2, b1}
    Proposals = {p1, p2, p3}
    RunOf <- MCRunOf
    Standing = standing
    Person = person
    None = none
    StandingUses = 1
    Stories <- MCStories
    Patches = {p1, p2}
    Edits = {e1, e2}
    Base = base
    Requests = {x, y, z, w}
    Tales <- MCTales
INVARIANT StatusIsTrue
PROPERTIES EditsStand GrantsAreSpentAsGiven ParkedRunIsAnswered
CHECK_DEADLOCK FALSE
