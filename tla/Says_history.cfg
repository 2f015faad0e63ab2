SPECIFICATION Spec
CONSTANTS
    r1 = r1
    r2 = r2
    none = none
    Requests <- MCRequests
    NoConv = none
CHECK_DEADLOCK FALSE
INVARIANTS HistoryPersists
