SPECIFICATION FairSpec
CONSTANTS
    c1 = c1
    c2 = c2
    c3 = c3
    s = s
    sx = sx
    k1 = k1
    k2 = k2
    k3 = k3
    r1 = r1
    r2 = r2
    r3 = r3
    None = None
    Conn = {c1, c2, c3}
    Service = {s, sx}
    Call = {k1, k2, k3}
    ReqId = {r1, r2, r3}
    CallerOf <- MCClientsOf
    IdOf <- MCIdOf
    NamesOf <- MCNamesOf
    Offers <- MCOneServer
    Push = {k2}
    Streams = {k1}
    Leaving = {c3}
    Timeouts = FALSE
    Lossy = {}
PROPERTY PendingCallsFailOnDisconnect
CHECK_DEADLOCK FALSE
