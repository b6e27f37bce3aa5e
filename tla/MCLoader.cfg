SPECIFICATION Spec
CONSTANTS
    None = None
    Malformed = Malformed
    Widest = 3
    Sources <- MCSources
CHECK_DEADLOCK FALSE
INVARIANTS FailuresSayWhy FaultsAreIndependent NamesDenoteOneThing LocatorsDenoteOne
