SPECIFICATION FairSpec
CONSTANTS
    call1 = call1
    call2 = call2
    push = push
    topic = topic
    Direct = Direct
    None = None
    Src = {call1, push, topic}
    Callers = {call1}
    Topics = {topic}
    HighBufferMark = 2
    MaxMsg = 6
INVARIANTS
    ForwardedInOrder
    OutcomeIsTrue
PROPERTIES
    LostOnlyOnOverflow
    WaitersAreReleased
CHECK_DEADLOCK FALSE
