------------------------------ MODULE MCLifecycle ------------------------------
(* Lifecycle with constructions, handles and requests numbered. *)
EXTENDS Lifecycle

CONSTANTS s1, s2

MCMaxVersion == [s \in Sources |-> IF s = s1 THEN 2 ELSE 1]

MCCustomRoutes == {
    {},
    {Route("POST", "/tables")},
    {Route("POST", "/other")},
    {Route(AnyMethod, AnyPath)},
    {Route(AnyMethod, AnyPath), Route("POST", "/tables")},
    {Route(AnyMethod, "/tables")},
    {Route("POST", AnyPath)}}

MCHTTPAsks == {Route("GET", "/tables"), Route("POST", "/tables")}

\* Which of several unused constructions, handles or requests comes next makes
\* no difference.
InOrder ==
    /\ \A b \in Builds : build[b].at = "idle" /\ build'[b].at # "idle" =>
        \A c \in 1..(b - 1) : build[c].at # "idle"
    /\ \A r \in Requests : request[r].at = "idle" /\ request'[r].at # "idle" =>
        \A q \in 1..(r - 1) : request[q].at # "idle"
    /\ \A d \in opened' \ opened : \A e \in 1..(d - 1) : e \in opened

\* Routes and middleware matter to resource calls only: without either the
\* requests are queries, and with either they are resource calls.
Focused ==
    \A r \in Requests : request[r].at = "idle" /\ request'[r].at # "idle" =>
        (request'[r].ask = Query <=> custom = {} /\ ~middleware)

Restricted == InOrder /\ Focused

=============================================================================
