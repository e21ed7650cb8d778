SPECIFICATION FairSpec
CONSTANTS
    v1 = v1
    c1 = c1
    None = None
    Viewers = {v1}
    Callers = {c1}
    RingChunks = 1
    QueueChunks = 1
    Admissions = 2
    MaxChunks = 2
CHECK_DEADLOCK FALSE
INVARIANTS TypeOK Lossless ViewsAreExact ExitIsLast
PROPERTIES FailureIsFinal ExitIsTold
