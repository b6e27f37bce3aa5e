SPECIFICATION Spec
CONSTANTS
    a = a  b = b
    far = far  linked = linked
    Stdin = Stdin  None = None  Unreadable = Unreadable
    Schemas = {linked}
    CommandLines <- LinkedAlone
    Candidates <- LinkedCandidates
    Link <- SchemaLink
    Missing = Missing
    Origins <- LinkOrigins
    Segments <- LinkSegments
    JsonFiles <- LinkFiles
    FileAt <- LinkFileAt
    Texts = {"only"}
    Refers <- GrowingRefers
    MaxChanges = 0
CHECK_DEADLOCK FALSE
INVARIANTS CyclesResolve
