SPECIFICATION MonFairSpec
CONSTANTS
    N = 3
    Unknown = {3}
    Limit = 3
    Garbage = 3
    Size <- Sizes
    Offset <- Offsets
    PingInterval = 2
    PingTimeout = 3
    ForwardTimeout = 4
    AnswerTime = 1
    None = None
INVARIANTS
    DecodedIsSent
    OnlySilentIsKilled
    AnsweringIsKept
PROPERTY ArrivedIsRead
CHECK_DEADLOCK FALSE
