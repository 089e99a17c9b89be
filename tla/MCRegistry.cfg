SPECIFICATION FairSpec
CONSTANTS
    c1 = c1
    c2 = c2
    c3 = c3
    s1 = s1
    s2 = s2
    i1 = i1
    i2 = i2
    n1 = n1
    None = None
    Conn = {c1, c2, c3}
    Instance = {i1, i2}
    Service = {s1, s2}
    NodeId = {n1}
    NodeOf <- MCNodeOf
    HelloFirst = TRUE
INVARIANTS
    NoStaleRegistration
    SupersededIsDoomed
    ReconnectIsClean
    NodeEventBalance
PROPERTIES
    OwnershipSpec
    HelloResolves
CHECK_DEADLOCK FALSE
