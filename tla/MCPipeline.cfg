CONSTANTS
    Callers = {"payload", "marker", "final"}
    WithBody = {"marker", "final"}
SPECIFICATION FairSpec
CHECK_DEADLOCK FALSE
INVARIANTS
    TypeOK
    ExitMeansReported
    FailureIsReported
PROPERTIES
    ProcessEnds
    RequestsKeepContract
