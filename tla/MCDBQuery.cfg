SPECIFICATION Spec
CONSTANTS
    k1 = k1
    v1 = v1
    big = big
    rounded = rounded
    huge = huge
    h1 = h1
    h2 = h2
    t1 = t1
    t2 = t2
    la = la
    lb = lb
    in = in
    out = out
    HeaderKey = HeaderKey
    Nested = Nested
    Values = {v1, big, rounded, huge, h1, h2, Nested}
    Refused = Refused
    Reread <- MCReread
    Null = Null
    Documents <- MCDocuments
    HeaderValues = {h1}
    Configs <- MCConfigs
    Results <- MCResults
    Thresholds = {0, 2}
CONSTRAINT
    Focus
INVARIANTS
    HeadersArrive
    LimitHolds
    SeriesAreComplete
    LargeIsLogged
    RowsAreClosed
    TimedAsAnswered
CHECK_DEADLOCK FALSE
