SPECIFICATION FairPluginSpec
CONSTANTS
    q1 = q1
    q2 = q2
    a1 = a1
    empty = empty
    d1 = d1
    d2 = d2
    A = A
    B = B
    Queries = {q1, q2}
    Checks = {}
    Args = {a1}
    NoArgs = NoArgs
    EmptyObject = empty
    DefaultKey = DefaultKey
    DB = {d1, d2}
    NoDB = NoDB
    EnableMultiple = FALSE
    ForwardHeaders = FALSE
    Evicts = FALSE
    Retries = 1
    RetryOn <- MCRetryOn
    Mutator = FALSE
    Timeout = TRUE
    RefID = {A, B}
    RefOf <- MCRefOf
    Incoming = {q1, q2}
    Mutations <- MCMutations
    Errors = FALSE
INVARIANTS
    QuietAfterReturn
    FramesAreEarned
PROPERTY
    QueryDataSpec
ACTION_CONSTRAINT InOrderWithoutDispose
CHECK_DEADLOCK FALSE
