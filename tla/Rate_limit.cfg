SPECIFICATION Spec
CONSTANTS
    u1 = u1
    u2 = u2
    home = home
    Users <- MCUsers
    Addresses <- MCAddresses
    IpOf <- MCIpOf
    Paths <- MCPaths
    LimitOf <- MCLimitOf
    Second = 2
    Window = 3
    MaxTime = 6
    MaxLog = 3
INVARIANTS WindowNeverExceeded RefusedOnlyWhenFull RetryAfterIsEnough
SYMMETRY MCSymmetry
