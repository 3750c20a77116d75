SPECIFICATION FairSpec
CONSTANTS
    s1 = s1
    s2 = s2
    Sources = {s1, s2}
    MaxVersion <- MCMaxVersion
    Builds = {1, 2, 3}
    NoBuild = 0
    DB = {1, 2, 3, 4}
    NoDB = 0
    Retries = 2
    Requests = {1, 2}
    HTTPAsks <- MCHTTPAsks
    CustomRoutes <- MCCustomRoutes
INVARIANTS
    ServedByItsSettings
    CurrentIsServing
    OrphanHasReason
    CompletionIsServed
PROPERTY
    ReplacedIsClosed
ACTION_CONSTRAINT Restricted
CHECK_DEADLOCK FALSE
