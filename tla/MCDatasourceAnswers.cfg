SPECIFICATION FairDSpec
CONSTANTS
    q1 = q1
    q2 = q2
    c1 = c1
    a1 = a1
    empty = empty
    d1 = d1
    d2 = d2
    d3 = d3
    d4 = d4
    Queries = {q1}
    Checks = {c1}
    Args = {a1}
    NoArgs = NoArgs
    EmptyObject = empty
    DefaultKey = DefaultKey
    DB <- MCHandles3
    NoDB = NoDB
    EnableMultiple = TRUE
    ForwardHeaders = FALSE
    Evicts = TRUE
    Retries = 2
    RetryOn <- MCRetryOn
    Mutator = FALSE
    Timeout = TRUE
PROPERTIES
    Heals
    EveryRequestAnswered
ACTION_CONSTRAINT InOrder
CHECK_DEADLOCK FALSE
