SPECIFICATION ServedSpec
CONSTANTS
    Req = {1, 2}
    MaxEvents = 3
    EncodingFails = TRUE
INVARIANTS
    AnswerIsClosed
    FailureReachesCaller
CHECK_DEADLOCK FALSE
