SPECIFICATION Spec
CONSTANTS
    MaxConns = 2
    MaxReports = 1
    MsgCap = 2
    AbortedCap = 1
    Events = {"interrupt", "rejected", "duplicate"}
CHECK_DEADLOCK FALSE
INVARIANTS
    TypeOK
    EarlierConnectionsClosed
    StaleWritersCanStop
    MessagesConserved
PROPERTIES
    FirstWritesInOrder
