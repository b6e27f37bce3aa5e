SPECIFICATION MCSpec
CONSTANTS
    Nodes = 3
    Columns = 3
    Cardinalities <- MCWide
    Unbounded = Unbounded
    None = None
    Pending = Pending
INVARIANTS TypeOK NeverExhausted AssignedInOrder AcceptedIsPartition
PROPERTIES ImplementsVerdict Terminates
CHECK_DEADLOCK FALSE
