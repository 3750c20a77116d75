SPECIFICATION SerialSpec
CONSTANTS
    q1 = q1
    q2 = q2
    c1 = c1
    a1 = a1
    empty = empty
    d1 = d1
    d2 = d2
    d3 = d3
    d4 = d4
    Queries = {q1}
    Checks = {}
    Args = {a1}
    NoArgs = NoArgs
    EmptyObject = empty
    DefaultKey = DefaultKey
    DB <- MCHandles4
    NoDB = NoDB
    EnableMultiple = FALSE
    ForwardHeaders = FALSE
    Evicts = FALSE
    Retries = 2
    RetryOn <- MCRetryOn
    Mutator = FALSE
    Timeout = FALSE
INVARIANT
    NoLeak
CHECK_DEADLOCK FALSE
