SPECIFICATION DSpec
CONSTANTS
    q1 = q1
    q2 = q2
    c1 = c1
    a1 = a1
    empty = empty
    d1 = d1
    d2 = d2
    d3 = d3
    d4 = d4
    Queries = {q1, q2}
    Checks = {}
    Args = {a1}
    NoArgs = NoArgs
    EmptyObject = empty
    DefaultKey = DefaultKey
    DB <- MCHandles3
    NoDB = NoDB
    EnableMultiple = TRUE
    ForwardHeaders = FALSE
    Evicts = FALSE
    Retries = 2
    RetryOn <- MCRetryOn
    Mutator = TRUE
    Timeout = TRUE
INVARIANTS
    NeverTurnedAway
    ClosedByAnother
    DTypeOK
    ClosedMeansDisturbed
    RetryableIsDownstream
    SuccessIsTheLastRun
    LeakNeedsRace
SYMMETRY MCSymmetry3
CHECK_DEADLOCK FALSE
