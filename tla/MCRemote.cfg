SPECIFICATION FairSpec
CONSTANTS
    a1 = a1
    a2 = a2
    other = other
    c1 = c1
    c2 = c2
    Addr = {a1, a2}
    Foreign = {a2}
    Call = {c1, c2}
    CallTo <- Calls
    LazyUnbind = FALSE
    MaxOps = 3
    MaxFaults = 2
INVARIANTS
    BindingsFollowHandlers
    RouterFollowsBindings
PROPERTIES
    BoundIsRegistered
    ReconnectSettles
    CallsResolve
CHECK_DEADLOCK FALSE
