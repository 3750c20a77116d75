SPECIFICATION Spec
CONSTANTS
    q1 = q1
    q2 = q2
    c1 = c1
    a1 = a1
    empty = empty
    d1 = d1
    d2 = d2
    d3 = d3
    d4 = d4
    d5 = d5
    Queries <- MCQueries
    Checks = {}
    Args <- MCArgs
    NoArgs = NoArgs
    EmptyObject = empty
    DefaultKey = DefaultKey
    DB <- MCHandles4
    NoDB = NoDB
    EnableMultiple = TRUE
    ForwardHeaders = FALSE
    Evicts = TRUE
INVARIANT
    NeverTurnedAway
CHECK_DEADLOCK FALSE
