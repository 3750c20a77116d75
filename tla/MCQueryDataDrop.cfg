SPECIFICATION FairSpec
CONSTANTS
    qa = qa
    qb = qb
    qc = qc
    qd = qd
    A = A
    B = B
    Query = {qa, qb, qc, qd}
    RefID = {A, B}
    RefOf <- MCRefOf
    Incoming = {qa}
    Mutations <- Drops
    Errors = FALSE
PROPERTY
    Returns
CHECK_DEADLOCK FALSE
