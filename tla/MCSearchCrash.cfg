SPECIFICATION Spec
CONSTANTS
    p1 = p1  p2 = p2  p3 = p3
    f = f  g = g
    ours = ours  theirs = theirs
    Initial = Initial  None = None
    Scope <- MCScope
    Invocations = {p1, p2, p3}
    Files = {f, g}
    Format <- TwoVersions
    Original = None
    Undecodable = {2}
    WalkErrors = FALSE
    MaxActive = 1
    MaxChanges = 2
    MaxCrashes = 1
INVARIANTS UndisturbedSearchIsExact UndisturbedSearchSucceeds
CHECK_DEADLOCK FALSE
