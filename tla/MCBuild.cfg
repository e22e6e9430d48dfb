CONSTANTS
    Paths <- MCPaths
    Names = {"m", "n"}
    MaxModules = 2
    Executions = {"e1"}
SPECIFICATION Spec
INVARIANTS
    TypeOK
    ExecutionHasBuild
    ReportedIsExecutable
    CacheHitIsWhole
    SuccessMeansReported
    ChangedReachesRunner
CHECK_DEADLOCK FALSE
