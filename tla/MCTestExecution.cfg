SPECIFICATION FairSpec
CONSTANT
    ConsecutiveRuns = 3
CHECK_DEADLOCK FALSE
INVARIANTS
    TypeOK
    NoStaleSampler
    PostedResultsOnce
PROPERTIES
    RunReturns
