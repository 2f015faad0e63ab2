SPECIFICATION Spec
CONSTANTS
    d1 = d1
    d2 = d2
    s1 = s1
    s2 = s2
    Docs <- OneDoc
    ContentOf <- OwnContent
    HasText <- OneDoc
    Servers <- OneServer
    UploadAt <- OnServer1
    ClientAt <- OnServer1
    Inline = FALSE
    Limit = 1
    Workers = 1
    Faults <- AllFaults
    MaxFaults = 3
CHECK_DEADLOCK FALSE
INVARIANTS IndexedIsComplete
PROPERTIES IndexedIsFinal
