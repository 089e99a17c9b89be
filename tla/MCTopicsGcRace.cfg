SPECIFICATION Spec
CONSTANTS
    c1 = c1
    c2 = c2
    c3 = c3
    t1 = t1
    Conn = {c1, c2}
    Topic = {t1}
    Backlog = 2
    GcScan = TRUE
    MaxChan = 2
    MaxMsg = 2
INVARIANT BroadcastReachesSubscribers
CHECK_DEADLOCK FALSE
