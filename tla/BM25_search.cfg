SPECIFICATION Spec
CONSTANTS
    t1 = t1
    t2 = t2
    a = a
    b = b
    o = o
    ra = ra
    rb1 = rb1
    rb2 = rb2
    ro = ro
    ca = ca
    cb1 = cb1
    cb2 = cb2
    cb3 = cb3
    co = co
    x = x
    y = y
    r1 = r1
    none = none
    Tenants <- MCTenants
    Docs <- MCDocs
    Batches <- MCBatches
    Chunks <- MCChunks
    Terms <- MCTerms
    Readers <- MCReaders
    TenantOf <- MCTenantOf
    DocOf <- MCDocOf
    BatchOf <- MCBatchOf
    TermsOf <- MCTermsOf
    NoTerm = none
CHECK_DEADLOCK FALSE
INVARIANTS TypeOK IndexConsistent KeyErrorNeedsBoth QuietSearchIsExact FailsOnlyWhenRaced ReportsAreGenuine
