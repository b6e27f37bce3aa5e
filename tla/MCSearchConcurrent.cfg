SPECIFICATION Spec
CONSTANTS
    p1 = p1  p2 = p2  p3 = p3
    f = f  g = g
    ours = ours  theirs = theirs
    Initial = Initial  None = None
    Scope <- MCScope
    Invocations = {p1, p2, p3}
    Files = {f, g}
    Format <- OneVersion
    Original = ours
    Undecodable = {}
    WalkErrors = TRUE
    MaxActive = 3
    MaxChanges = 1
    MaxCrashes = 0
CHECK_DEADLOCK FALSE
INVARIANTS SearchesAreCurrent
PROPERTIES RefreshesOnlyAdvance
