SPECIFICATION Spec
CONSTANTS
    Unbounded = Unbounded  None = None
    Unparsable = 0
    MaxQueryResultNodes = 4
    Cases <- AllCases  Grammars <- AllGrammars  Contents <- AllContents
    QueryResult <- NodeSet  QueryRefused <- Refused
CHECK_DEADLOCK FALSE
INVARIANTS JudgedOnce SaidOnce SkippedSubtreesSilent InvalidValueSuspendsOrder CleanMeansConforming ViolatedOnFairGround EntriesAreWhereTheySay EstimateIsSound
