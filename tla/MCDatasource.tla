----------------------------- MODULE MCDatasource -----------------------------
(* Datasource on small instances, and the schedule in which requests do not *)
(* overlap.                                                                 *)
EXTENDS Datasource, TLC

CONSTANTS q1, q2, c1, a1, empty, d1, d2, d3, d4

MCQueries == {q1, q2}
MCHandles4 == {d1, d2, d3, d4}
MCHandles3 == {d1, d2, d3}
MCSymmetry3 == Permutations(MCQueries) \cup Permutations(MCHandles3)
MCRetryOn == {"transient", "closed"}

InFlight(r) == pc[r] \notin {"idle", "done"}

\* One request at a time, and no Dispose: what a test of the code does.
SerialNext ==
    \E r \in Requests :
        /\ \A s \in Requests \ {r} : ~InFlight(s)
        /\ RejectEarly(r) \/ Proceed(r) \/ Panic(r) \/ Expire(r) \/ Cancel(r)

SerialSpec == DInit /\ [][SerialNext]_allVars

\* Handles are interchangeable: it is enough to consider the executions that
\* open them in order, d1 first (a symmetry that is sound for liveness, too).
InOrder ==
    /\ d1 \in opened'
    /\ d2 \in opened' \/ d3 \notin opened'

=============================================================================
