SPECIFICATION Spec
CONSTANTS
    MaxConns = 2
    MaxReports = 0
    MsgCap = 2
    AbortedCap = 3
    Events = {"duplicate"}
CHECK_DEADLOCK FALSE
INVARIANTS
    BreakIsSurvived
