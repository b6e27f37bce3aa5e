SPECIFICATION Spec
CONSTANTS
    a = a  b = b
    far = far  linked = linked
    Stdin = Stdin  None = None  Unreadable = Unreadable
    Schemas = {far, linked}
    CommandLines <- Lines
    Candidates <- SchemaCandidates
    Link <- SchemaLink
    Missing = Missing
    Origins <- LinkOrigins
    Segments <- LinkSegments
    JsonFiles <- LinkFiles
    FileAt <- LinkFileAt
    Texts = {"first", "second"}
    Refers <- LinkRefers
    MaxChanges = 1
CHECK_DEADLOCK FALSE
INVARIANTS ArgumentsAccountedFor ZeroMeansAllValid PreloadConsistent
PROPERTIES EndsUnlessUrisGrow
