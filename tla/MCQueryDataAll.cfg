SPECIFICATION FairSpec
CONSTANTS
    qa = qa
    qb = qb
    qc = qc
    qd = qd
    A = A
    B = B
    Query = {qa, qb, qc, qd}
    RefID = {A, B}
    RefOf <- MCRefOf
    Incoming = {qa, qb, qc}
    Mutations <- SameNumber
    Errors = TRUE
INVARIANTS
    TypeOK
    WaitsForAll
    OwnAnswer
    NoFailureIsHidden
    NeverCrashes
PROPERTIES
    PromiseKept
    Returns
CHECK_DEADLOCK FALSE
