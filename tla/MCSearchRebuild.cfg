SPECIFICATION Spec
CONSTANTS
    p1 = p1  p2 = p2  p3 = p3
    f = f  g = g
    ours = ours  theirs = theirs
    Initial = Initial  None = None
    Scope <- MCScope
    Invocations = {p1, p2, p3}
    Files = {f}
    Format <- TwoVersions
    Original = None
    Undecodable = {}
    WalkErrors = FALSE
    MaxActive = 2
    MaxChanges = 0
    MaxCrashes = 1
CHECK_DEADLOCK FALSE
INVARIANTS TypeOK RebuildsLeaveAnIndex
PROPERTIES EveryInvocationEnds
