------------------------------- MODULE MCDBQuery -------------------------------
(* DBQuery on small documents, row sequences and configurations. *)
EXTENDS DBQuery

CONSTANTS k1, v1, big, rounded, huge, h1, h2, t1, t2, la, lb, in, out

\* An integer above 2^53 is rounded, a number above the range refused.
MCReread ==
    [v \in Values |-> IF v = big THEN rounded ELSE IF v = huge THEN Refused ELSE v]

EscapedHeader == Member(HeaderKey, v1, "escaped")
PlainHeader == Plain(HeaderKey, v1)

MCDocuments == {
    Absent,
    Object(<<>>),
    Object(<<Plain(k1, huge)>>),
    Object(<<Plain(k1, Nested)>>),
    Object(<<PlainHeader, Plain(k1, big)>>),
    Object(<<PlainHeader, Plain(k1, huge)>>),
    Object(<<EscapedHeader, Plain(k1, big)>>),
    Object(<<EscapedHeader, Plain(k1, Nested)>>),
    Object(<<Plain(k1, v1), Plain(HeaderKey, h2), Plain(k1, h2)>>),
    [shape |-> "null", members |-> <<>>],
    [shape |-> "other", members |-> <<>>]}

\* SetDefaultRowLimit enables the limits.
MCConfigs ==
    [enabled : {TRUE}, settings : {0, 1}, env : {Unset, Invalid, Number(-1), Number(2)},
     grafana : {Unset, Number(0)}, default : {0, 3}, late : {0, 2}]
    \cup [enabled : {FALSE}, settings : {1}, env : {Number(2)}, grafana : {Number(0)},
          default : {0}, late : {0, 2}]

Row(t, l) == [time |-> t, label |-> l]

MCRows == {
    <<>>,
    <<Row(t1, la)>>,
    <<Row(t1, la), Row(t1, lb)>>,
    <<Row(t1, la), Row(Null, lb)>>,
    <<Row(t1, la), Row(t1, lb), Row(t2, la)>>}

\* Only a nullable column has null times.
MCResults ==
    {r \in [columns : {"ok"}, rows : MCRows, time : {"none", "time", "nullable"},
            labels : BOOLEAN, values : {{}, {in}, {in, out}}] :
        r.time = "time" => \A n \in DOMAIN r.rows : r.rows[n].time # Null}
    \cup {[NoResult EXCEPT !.columns = c] : c \in {"error", "panic"}}

\* The arguments have no influence on what comes after them, so only those of
\* one document are sent.
Focus == given = Absent \/ at \in {"construct", "headers", "macros"}

=============================================================================
