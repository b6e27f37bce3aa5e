SPECIFICATION Spec
CONSTANTS
    p1 = p1  p2 = p2  p3 = p3
    f = f  g = g
    ours = ours  theirs = theirs
    Initial = Initial  None = None
    Scope <- MCScope
    Invocations = {p1, p3}
    Files = {f}
    Format <- OneVersion
    Original = ours
    Undecodable = {}
    WalkErrors = FALSE
    MaxActive = 2
    MaxChanges = 2
    MaxCrashes = 0
INVARIANTS RefreshedSearchSeesFiles
CHECK_DEADLOCK FALSE
