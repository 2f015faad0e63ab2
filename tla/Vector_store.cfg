SPECIFICATION Spec
CONSTANTS
    p1 = p1
    p2 = p2
    c1 = c1
    c2 = c2
    r1 = r1
    r2 = r2
    d1 = d1
    d2 = d2
    t1 = t1
    t2 = t2
    NoOne = NoOne
    Processes = {p1, p2}
    Clients = {c1, c2}
    ProcessOf <- MCProcessOf
    Rows = {r1, r2}
    Documents = {d1, d2}
    Tenants = {t1, t2}
    DocOf <- MCDocOf
    TenantOf <- MCTenantOf
    TopK = 2
    MaxLost = 1
INVARIANTS DeletedIsUnfound AnsweredIsKept
