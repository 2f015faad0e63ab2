SPECIFICATION FairSpec
CONSTANTS
    alice = alice
    bob = bob
    q1 = q1
    q2 = q2
    q3 = q3
    nobody = nobody
    none = none
    Users <- MCUsers
    Calls <- MCCalls
    NoUser = nobody
    NoToken = none
    MaxPairs = 2
CHECK_DEADLOCK FALSE
INVARIANTS StoredIsShown OneRefresher
PROPERTIES CallsSettle
