SPECIFICATION FairSpec
CONSTANTS
    NoOne = NoOne
    SubModules = {m1, m2, m3}
CHECK_DEADLOCK FALSE
INVARIANTS
    TypeOK
    PreRunsComeFirst
    ResultsReportedOnce
    SuccessReportsAll
PROPERTIES
    BlockListErrorEndsDiscovery
    DiscoveryEnds
