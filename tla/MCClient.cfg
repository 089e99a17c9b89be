SPECIFICATION FairSpec
CONSTANTS
    bind1 = bind1
    bind2 = bind2
    unbind1 = unbind1
    call1 = call1
    push1 = push1
    stream1 = stream1
    None = None
    KindOf <- Kinds
    Cmd = {bind1, bind2, unbind1}
    Rpc = {call1}
    Push = {push1}
    Stream = {stream1}
    StreamBuffer = 1
    MaxChunks <- Chunks
    MaxRequests = 2
INVARIANTS
    CommandGetsItsAnswer
    StreamIsPrefix
    LiveStreamEndsComplete
PROPERTIES
    RequestsResolve
    StreamsEnd
    NoticeIsHandled
CHECK_DEADLOCK FALSE
