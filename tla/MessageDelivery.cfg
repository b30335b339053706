SPECIFICATION FairSpec
CONSTANTS
    m1 = m1
    bad = bad
    Message = {m1, bad}
    Undecodable = {bad}
    MaxRetries = 1
    Prefetch = 2
    MaxChannels = 2
    MaxOutages = 1
INVARIANTS Conservation AckedWasHandled DeadLetterJustified CleanStop WaitsOnlyInOutage
PROPERTIES NoRetryAfterStop ImplementsStageQueue EventuallySettled
CHECK_DEADLOCK FALSE
