SPECIFICATION Spec
CONSTANTS
    d1 = d1
    d2 = d2
    s1 = s1
    s2 = s2
    Docs <- OneDoc
    ContentOf <- OwnContent
    HasText <- OneDoc
    Servers <- TwoServers
    UploadAt <- OnServer1
    ClientAt <- OnServer2
    Inline = TRUE
    Limit = 1
    Workers = 1
    Faults <- AllFaults
    MaxFaults = 3
CHECK_DEADLOCK FALSE
INVARIANTS TypeOK IndexedIsComplete DeleteLeavesNothing PublishedTogether
PROPERTIES DeletedStaysDeleted ImplementsLifecycle
