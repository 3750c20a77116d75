------------------------------- MODULE MCPlugin -------------------------------
(* One call of QueryData and health checks on a small instance. *)
EXTENDS Plugin

CONSTANTS q1, q2, a1, empty, d1, d2, A, B

MCRefOf == [q \in Queries |-> IF q = q1 THEN A ELSE B]
MCMutations == {Queries}
MCRetryOn == {"transient", "closed"}

\* Handles are interchangeable: it is enough to consider the executions that
\* open them in order (a symmetry that is sound for liveness, too).  Dispose
\* against requests in flight is the business of the other runs.
InOrderWithoutDispose == d1 \in opened' /\ dispose' = "no"

=============================================================================
