SPECIFICATION FairSpec
CONSTANTS
    MaxChunks = 4
    PipeCap = 2
CHECK_DEADLOCK FALSE
INVARIANTS
    TypeOK
    SuccessMeansWholeLog
    NothingOutlivesTheCall
PROPERTIES
    CommandReturns
