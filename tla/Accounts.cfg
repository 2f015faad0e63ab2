SPECIFICATION Spec
CONSTANTS
    r1 = r1
    r2 = r2
    r3 = r3
    r4 = r4
    None = None
    Requests <- MCRequests
    Names = {"acme", "globex"}
    Emails = {"ann", "bob"}
    Passwords = {"x", "y"}
    Payloads <- MCPayloads
SYMMETRY Symmetry
CHECK_DEADLOCK FALSE
INVARIANTS OneAccountPerAddress RepliesAreFaithful
