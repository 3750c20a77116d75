----------------------------- MODULE MCConnector -----------------------------
(* Connector on small instances: two queries, a health check, two argument *)
(* values (one of them the empty object) and a handful of handles.         *)
EXTENDS Connector, TLC

CONSTANTS q1, q2, c1, a1, empty, d1, d2, d3, d4, d5

MCQueries == {q1, q2}
MCArgs == {a1, empty}
MCHandles3 == {d1, d2, d3}
MCHandles4 == {d1, d2, d3, d4}
MCHandles5 == {d1, d2, d3, d4, d5}

\* Handles and queries are interchangeable (no liveness is checked with them).
HandleSymmetry == Permutations(MCHandles5) \cup Permutations(MCQueries)

=============================================================================
