----------------------------- MODULE MCQueryData -----------------------------
(* QueryData with three queries, two of them under one RefID. *)
EXTENDS QueryData

CONSTANTS qa, qb, qc, qd, A, B

MCRefOf == [q \in {qa, qb, qc, qd} |-> IF q \in {qa, qb} THEN A ELSE B]

\* MutateQueryData may replace queries but keeps their number: three, with two
\* of them under one RefID.
SameNumber == {{qa, qb, qc}, {qb, qc, qd}}

\* It may drop the one query there is.
Drops == {{}, {qa}}

=============================================================================
