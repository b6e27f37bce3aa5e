SPECIFICATION Spec
CONSTANTS
    Wrappers = {a, b}
    None = None
    MaxCrashes = 1
INVARIANTS OnlyTheReleaseRuns EndedRunsLeaveNothing
PROPERTIES EveryRunEnds
CHECK_DEADLOCK FALSE
