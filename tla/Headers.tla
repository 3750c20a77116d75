------------------------------- MODULE Headers -------------------------------
(***************************************************************************)
(* How the HTTP headers of a request get into the connection arguments of  *)
(* its queries: applyHeaders of query.go.  The fast path appends a member  *)
(* to the text of a JSON object without decoding it; the slow path decodes *)
(* and encodes, which changes numbers that a float64 cannot hold.          *)
(*                                                                         *)
(* A document is the text of the arguments, as far as the code looks at    *)
(* it: its shape and, for an object, its members in order.  GetQuery has   *)
(* parsed the JSON around it, so it is absent or valid JSON.               *)
(***************************************************************************)
EXTENDS SequencesExt

CONSTANTS
    HeaderKey,  \* "grafana-http-headers"
    Nested,     \* a member value in whose text the quoted HeaderKey occurs
    Values,     \* member values
    Reread,     \* what a value is once decoded into an `any` and encoded again
    Refused     \* in place of it, for a number out of the range of float64

ASSUME RereadAssumption == Reread \in [Values -> Values \cup {Refused}]

Absent == [shape |-> "absent", members |-> <<>>]
Object(members) == [shape |-> "object", members |-> members]

\* The key is what the text decodes to; spelled "escaped" if the text is not
\* the key itself (grafana\u002dhttp-headers).
Member(k, v, spelled) == [key |-> k, value |-> v, spelled |-> spelled]
Plain(k, v) == Member(k, v, "plain")

Keys(doc) == {m.key : m \in ToSet(doc.members)}

\* What a decoder makes of an object: of a repeated key, the last value.
Decode(doc) ==
    [k \in Keys(doc) |->
        LET at == {n \in DOMAIN doc.members : doc.members[n].key = k}
        IN  doc.members[CHOOSE n \in at : \A m \in at : m <= n].value]

Encode(f) ==
    LET keys == SetToSeq(DOMAIN f)
    IN  Object([n \in DOMAIN keys |-> Plain(keys[n], f[keys[n]])])

\* The members that have the key of the headers as it is.
PlainHeaders(doc) ==
    {n \in DOMAIN doc.members :
        doc.members[n].key = HeaderKey /\ doc.members[n].spelled = "plain"}

\* bytes.Contains: the quoted key anywhere in the text.
Mentions(doc) ==
    PlainHeaders(doc) # {} \/ \E m \in ToSet(doc.members) : m.value = Nested

\* Mutant of Injectable: the fast path takes any object.
InjectableAnyway(doc) == doc.shape \in {"absent", "object"}

\* injectJSONKey takes blank arguments and objects, unless the key occurs.
Injectable(doc) == doc.shape \in {"absent", "object"} /\ ~Mentions(doc)

Injected(doc, headers) == Object(Append(doc.members, Plain(HeaderKey, headers)))

\* json.Unmarshal into a map[string]any succeeds.
Decodable(doc) ==
    doc.shape = "object" /\ \A m \in ToSet(doc.members) : Reread[m.value] # Refused

\* applyHeadersSlow: what cannot be decoded stays as it is.
Overwritten(doc, headers) ==
    IF ~Decodable(doc) THEN doc
    ELSE Encode([k \in Keys(doc) \cup {HeaderKey} |->
                    IF k = HeaderKey THEN headers ELSE Reread[Decode(doc)[k]]])

\* JSON null decodes to a nil map without an error, and adding to it panics.
Panics(doc) == ~Injectable(doc) /\ doc.shape = "null"

ApplyHeaders(doc, headers) ==
    IF Injectable(doc) THEN Injected(doc, headers) ELSE Overwritten(doc, headers)

=============================================================================
