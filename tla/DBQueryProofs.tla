----------------------------- MODULE DBQueryProofs -----------------------------
(***************************************************************************)
(* Proofs about DBQuery for any documents, headers, limits and rows: what  *)
(* the injection of the headers does to the connection arguments, and the  *)
(* invariants of a run.                                                    *)
(***************************************************************************)
EXTENDS DBQuery, FiniteSetTheorems, TLAPS

-----------------------------------------------------------------------------
(* Headers *)

\* What HeadersArrive says of the arguments doc became.
Carries(doc, result_, h) ==
    /\ Keys(result_) = Keys(doc) \cup {HeaderKey}
    /\ Decode(result_)[HeaderKey] = h
    /\ \A k \in Keys(doc) \ {HeaderKey} :
         Decode(result_)[k] = IF Mentions(doc) THEN Reread[Decode(doc)[k]] ELSE Decode(doc)[k]
    /\ \A m, n \in PlainHeaders(result_) : m = n

\* The members of a document are numbered.
LEMMA Members ==
    ASSUME NEW doc \in Documents
    PROVE  /\ Len(doc.members) \in Nat /\ DOMAIN doc.members = 1..Len(doc.members)
           /\ doc.members \in Seq({doc.members[n] : n \in DOMAIN doc.members})
           /\ Keys(doc) = {doc.members[n].key : n \in 1..Len(doc.members)}
<1>1. doc.members \in Seq({doc.members[n] : n \in DOMAIN doc.members})
  BY DBQueryAssumption
<1>2. Len(doc.members) \in Nat /\ DOMAIN doc.members = 1..Len(doc.members)
  BY <1>1
<1>3. Keys(doc) = {doc.members[n].key : n \in DOMAIN doc.members}
  BY DEF Keys, ToSet
<1> QED BY <1>1, <1>2, <1>3

\* Of the members with one key, the last decides; there is one.
LEMMA Largest ==
    ASSUME NEW len \in Nat, NEW N \in SUBSET (1..len), N # {}
    PROVE  \E m \in N : \A n \in N : n <= m
<1> DEFINE T == {len - n : n \in N}
           Less == {pair \in Nat \X Nat : pair[1] < pair[2]}
<1>1. IsWellFoundedOn(Less, Nat)
  BY NatLessThanWellFounded DEF OpToRel
<1>2. /\ \A n \in N : len - n \in Nat
      /\ T \subseteq Nat /\ T # {}
  <2>1. \A n \in N : len - n \in Nat
    OBVIOUS
  <2>2. PICK n \in N : TRUE
    OBVIOUS
  <2>3. len - n \in T
    OBVIOUS
  <2> QED BY <2>1, <2>3
<1>3. PICK x \in T : \A y \in T : <<y, x>> \notin Less
  <2> HIDE DEF T, Less
  <2> QED BY <1>1, <1>2, WFMin
<1>4. \A y \in T : ~(y < x)
  BY <1>2, <1>3
<1>5. PICK m \in N : x = len - m
  OBVIOUS
<1>6. \A n \in N : ~(len - n < len - m)
  BY <1>4, <1>5
<1> QED BY <1>6

\* CHOOSE picks the largest number: it is unique.
LEMMA LastDecides ==
    ASSUME NEW len \in Nat, NEW N \in SUBSET (1..len), NEW m \in N, \A n \in N : n <= m
    PROVE  (CHOOSE n \in N : \A l \in N : l <= n) = m
<1>1. PICK c \in N : c = CHOOSE n \in N : \A l \in N : l <= n
  OBVIOUS
<1>2. \A l \in N : l <= c
  BY <1>1
<1>3. c <= m /\ m <= c
  BY <1>2
<1> QED BY <1>1, <1>3

\* The members of doc with key k.
At(doc, k) == {n \in DOMAIN doc.members : doc.members[n].key = k}

\* A key decodes to the value of the last member that has it.
LEMMA DecodeAt ==
    ASSUME NEW doc, NEW len \in Nat, NEW k \in Keys(doc), At(doc, k) \subseteq 1..len,
           NEW m \in At(doc, k), \A n \in At(doc, k) : n <= m
    PROVE  Decode(doc)[k] = doc.members[m].value
<1>1. (CHOOSE n \in At(doc, k) : \A l \in At(doc, k) : l <= n) = m
  BY LastDecides
<1>2. Decode(doc)[k] =
        doc.members[CHOOSE n \in At(doc, k) : \A l \in At(doc, k) : l <= n].value
  BY DEF Decode, At
<1> QED BY <1>1, <1>2

\* The fast path: the appended member is the last one with the key of the
\* headers, and no other member changes.
LEMMA InjectedCarries ==
    ASSUME NEW doc \in Documents, NEW h, Injectable(doc)
    PROVE  Carries(doc, Injected(doc, h), h)
<1> DEFINE len == Len(doc.members)
           new == Injected(doc, h)
<1>1. /\ len \in Nat /\ DOMAIN doc.members = 1..len
      /\ doc.members \in Seq({doc.members[n] : n \in DOMAIN doc.members})
      /\ Keys(doc) = {doc.members[n].key : n \in 1..len}
  BY Members
<1>2. ~Mentions(doc) /\ PlainHeaders(doc) = {}
  BY DEF Injectable, Mentions
<1>3. new.members = Append(doc.members, Plain(HeaderKey, h))
  BY DEF Injected, Object
<1>4. /\ DOMAIN new.members = 1..(len + 1)
      /\ \A n \in 1..len : new.members[n] = doc.members[n]
      /\ new.members[len + 1] = Plain(HeaderKey, h)
  <2> DEFINE S == {doc.members[n] : n \in DOMAIN doc.members} \cup {Plain(HeaderKey, h)}
  <2>1. doc.members \in Seq(S) /\ Plain(HeaderKey, h) \in S
    BY <1>1
  <2> HIDE DEF S
  <2> QED BY <1>1, <1>3, <2>1
<1>5. new.members[len + 1].key = HeaderKey /\ new.members[len + 1].value = h
  BY <1>4 DEF Plain, Member
<1> HIDE DEF new
<1>6. 1..(len + 1) = (1..len) \cup {len + 1} /\ len + 1 \notin 1..len
  BY <1>1
<1>7. Keys(new) = Keys(doc) \cup {HeaderKey}
  <2>1. Keys(new) = {new.members[n].key : n \in 1..(len + 1)}
    BY <1>4 DEF Keys, ToSet
  <2>2. \A n \in 1..len : new.members[n].key = doc.members[n].key
    BY <1>4
  <2>3. Keys(new) = {new.members[n].key : n \in 1..len} \cup {new.members[len + 1].key}
    BY <1>6, <2>1
  <2>4. {new.members[n].key : n \in 1..len} = Keys(doc)
    BY <1>1, <2>2
  <2> QED BY <1>5, <2>3, <2>4
<1>8. Decode(new)[HeaderKey] = h
  <2>1. At(new, HeaderKey) \subseteq 1..(len + 1) /\ len + 1 \in At(new, HeaderKey)
    BY <1>4, <1>5, <1>6 DEF At
  <2>2. \A n \in At(new, HeaderKey) : n <= len + 1
    BY <1>1, <2>1
  <2>3. HeaderKey \in Keys(new) /\ len + 1 \in Nat
    BY <1>1, <1>7
  <2>4. Decode(new)[HeaderKey] = new.members[len + 1].value
    BY <2>1, <2>2, <2>3, DecodeAt
  <2> QED BY <1>5, <2>4
<1>9. ASSUME NEW k \in Keys(doc) \ {HeaderKey}
      PROVE  Decode(new)[k] = Decode(doc)[k]
  <2>1. At(new, k) = At(doc, k) /\ At(doc, k) \subseteq 1..len /\ k \in Keys(new)
    BY <1>1, <1>4, <1>5, <1>6, <1>7 DEF At
  <2>2. At(doc, k) # {}
    BY <1>1 DEF At
  <2>3. PICK m \in At(doc, k) : \A n \in At(doc, k) : n <= m
    BY <1>1, <2>1, <2>2, Largest
  <2>4. Decode(doc)[k] = doc.members[m].value /\ Decode(new)[k] = new.members[m].value
    BY <1>1, <2>1, <2>3, DecodeAt
  <2> QED BY <1>4, <2>1, <2>4
<1>10. \A n \in PlainHeaders(new) : n = len + 1
  <2> SUFFICES ASSUME NEW n \in PlainHeaders(new), n \in 1..len PROVE FALSE
    BY <1>4, <1>6 DEF PlainHeaders
  <2>1. n \in PlainHeaders(doc)
    BY <1>1, <1>4 DEF PlainHeaders
  <2> QED BY <1>2, <2>1
<1>11. Carries(doc, new, h)
  BY <1>2, <1>7, <1>8, <1>9, <1>10 DEF Carries
<1> QED BY <1>11 DEF new

\* SetToSeq lists every element of a finite set once.
LEMMA Listed ==
    ASSUME NEW S, IsFiniteSet(S)
    PROVE  /\ Cardinality(S) \in Nat
           /\ SetToSeq(S) \in [1..Cardinality(S) -> S]
           /\ \A m, n \in 1..Cardinality(S) : SetToSeq(S)[m] = SetToSeq(S)[n] => m = n
           /\ \A x \in S : \E n \in 1..Cardinality(S) : SetToSeq(S)[n] = x
<1> DEFINE card == Cardinality(S)
<1>1. card \in Nat /\ ExistsBijection(1..card, S)
  BY FS_CardinalityType
<1>2. \E f \in [1..card -> S] : IsInjective(f)
  BY <1>1 DEF ExistsBijection, Bijection, Injection
<1>3. SetToSeq(S) \in [1..card -> S] /\ IsInjective(SetToSeq(S))
  BY <1>2 DEF SetToSeq
<1>4. IsFiniteSet(1..card) /\ Cardinality(1..card) = card
  BY <1>1, FS_Interval
<1>5. SetToSeq(S) \in Injection(1..card, S)
  BY <1>3 DEF Injection
<1>6. SetToSeq(S) \in Surjection(1..card, S)
  BY <1>4, <1>5, FS_Injection
<1> QED BY <1>1, <1>3, <1>6 DEF IsInjective, Surjection

\* Decoding what was encoded gives it back.
LEMMA DecodeEncoded ==
    ASSUME NEW f, IsFiniteSet(DOMAIN f), f = [k \in DOMAIN f |-> f[k]]
    PROVE  /\ Keys(Encode(f)) = DOMAIN f /\ Decode(Encode(f)) = f
           /\ \A m, n \in DOMAIN Encode(f).members :
                Encode(f).members[m].key = Encode(f).members[n].key => m = n
<1> DEFINE card == Cardinality(DOMAIN f)
           keys == SetToSeq(DOMAIN f)
           new == Encode(f)
<1>1. /\ card \in Nat /\ keys \in [1..card -> DOMAIN f]
      /\ \A m, n \in 1..card : keys[m] = keys[n] => m = n
      /\ \A k \in DOMAIN f : \E n \in 1..card : keys[n] = k
  BY Listed
<1>2. new.members = [n \in DOMAIN keys |-> Plain(keys[n], f[keys[n]])]
  BY DEF Encode, Object
<1> HIDE DEF keys, new, card
<1>3. /\ DOMAIN new.members = 1..card
      /\ \A n \in 1..card : new.members[n].key = keys[n] /\ new.members[n].value = f[keys[n]]
  BY <1>1, <1>2 DEF Plain, Member
<1>4. Keys(new) = DOMAIN f
  <2>1. Keys(new) = {new.members[n].key : n \in 1..card}
    BY <1>3 DEF Keys, ToSet
  <2>2. \A n \in 1..card : new.members[n].key \in DOMAIN f
    BY <1>1, <1>3
  <2>3. ASSUME NEW k \in DOMAIN f PROVE k \in Keys(new)
    <3>1. PICK n \in 1..card : keys[n] = k
      BY <1>1
    <3> QED BY <1>3, <2>1, <3>1
  <2> QED BY <2>1, <2>2, <2>3
<1>5. ASSUME NEW k \in DOMAIN f PROVE Decode(new)[k] = f[k]
  <2>1. PICK n \in 1..card : keys[n] = k
    BY <1>1
  <2>2. At(new, k) = {n}
    BY <1>1, <1>3, <2>1 DEF At
  <2> QED BY <1>1, <1>3, <1>4, <2>1, <2>2, DecodeAt
<1>6. Decode(new) = [k \in Keys(new) |-> Decode(new)[k]]
  BY DEF Decode
<1>7. Decode(new) = f
  BY <1>4, <1>5, <1>6
<1>8. \A m, n \in DOMAIN new.members : new.members[m].key = new.members[n].key => m = n
  BY <1>1, <1>3
<1> QED BY <1>4, <1>7, <1>8 DEF new

\* The slow path: the document is decoded, the headers are set and every key
\* is written once.
LEMMA OverwrittenCarries ==
    ASSUME NEW doc \in Documents, NEW h, Decodable(doc), Mentions(doc)
    PROVE  Carries(doc, Overwritten(doc, h), h)
<1> DEFINE keys == Keys(doc) \cup {HeaderKey}
           f == [k \in keys |-> IF k = HeaderKey THEN h ELSE Reread[Decode(doc)[k]]]
           new == Encode(f)
<1>1. IsFiniteSet(keys)
  <2> DEFINE len == Len(doc.members)
             key == [n \in 1..len |-> doc.members[n].key]
  <2>1. len \in Nat /\ Keys(doc) = {doc.members[n].key : n \in 1..len}
    BY Members
  <2>2. key \in Surjection(1..len, Keys(doc))
    BY <2>1 DEF Surjection
  <2>3. IsFiniteSet(1..len)
    BY <2>1, FS_Interval
  <2>4. IsFiniteSet(Keys(doc))
    BY <2>2, <2>3, FS_Surjection
  <2> QED BY <2>4, FS_AddElement
<1>2. Overwritten(doc, h) = new
  BY DEF Overwritten
<1>3. DOMAIN f = keys /\ f = [k \in DOMAIN f |-> f[k]]
  OBVIOUS
<1>4. f[HeaderKey] = h /\ \A k \in Keys(doc) \ {HeaderKey} : f[k] = Reread[Decode(doc)[k]]
  OBVIOUS
<1>5. /\ Keys(new) = keys /\ Decode(new) = f
      /\ \A m, n \in DOMAIN new.members : new.members[m].key = new.members[n].key => m = n
  <2> HIDE DEF f, keys
  <2> QED BY <1>1, <1>3, DecodeEncoded
<1> HIDE DEF new, f
<1>6. \A m, n \in PlainHeaders(new) : m = n
  BY <1>5 DEF PlainHeaders
<1>7. Carries(doc, new, h)
  BY <1>4, <1>5, <1>6 DEF Carries
<1> QED BY <1>2, <1>7

\* Either path carries the headers, for blank arguments and for every object
\* that has no number out of range or does not mention the key.
LEMMA HeadersCarried ==
    ASSUME NEW doc \in Documents, NEW h, doc.shape \in {"absent", "object"},
           Mentions(doc) => Decodable(doc)
    PROVE  Carries(doc, ApplyHeaders(doc, h), h)
<1>1. CASE Injectable(doc)
  BY <1>1, InjectedCarries DEF ApplyHeaders
<1>2. CASE ~Injectable(doc)
  <2>1. Mentions(doc)
    BY <1>2 DEF Injectable
  <2> QED BY <1>2, <2>1, OverwrittenCarries DEF ApplyHeaders
<1> QED BY <1>1, <1>2

-----------------------------------------------------------------------------
(* Steps that end a run *)

\* The last of the durations is the one just observed.
LEMMA LastTimed ==
    ASSUME timings \in Seq(Observations), NEW s \in {"unset", "plugin", "downstream"},
           NEW status \in {"ok", "error"}, Time(s, status)
    PROVE  /\ timings' \in Seq(Observations) /\ timings' # <<>>
           /\ timings'[Len(timings')] = <<s, status>>
<1>1. <<s, status>> \in Observations /\ timings' = Append(timings, <<s, status>>)
  BY DEF Observations, Time
<1> QED BY <1>1

\* However it ends, the conversion closes the rows and observes a duration;
\* unless it panics, that of the error it returns, and a context error is
\* downstream by then.
LEMMA ConversionEnds ==
    ASSUME NEW e \in {"validation", "convert", "nullTime", "noResults"},
           timings \in Seq(Observations), ConversionFails(e) \/ ConversionPanics("ok")
    PROVE  /\ at' = "done" /\ rows' = "closed" /\ err' \in {"panic", e}
           /\ timings' \in Seq(Observations) /\ timings' # <<>>
           /\ marks' \in SUBSET {"context"} /\ source' \in {"plugin", "downstream"}
           /\ source' = "plugin" => marks' = {}
           /\ err' # "panic" => timings'[Len(timings')] = <<source', "error">>
           /\ timings'[Len(timings')] = <<"plugin", "error">> => source' = "plugin"
<1>1. ASSUME NEW status \in {"ok", "error"}, ConversionPanics(status)
      PROVE  /\ at' = "done" /\ rows' = "closed" /\ err' = "panic"
             /\ source' = "plugin" /\ marks' = {}
             /\ timings' \in Seq(Observations) /\ timings' # <<>>
  BY <1>1, LastTimed DEF ConversionPanics, EndConversion, Fail, FailMarked
<1>2. ASSUME NEW s \in {"plugin", "downstream"}, NEW m \in SUBSET {"context"},
             s = "plugin" => m = {}, FailMarked(e, s, m), EndConversion(s, "error")
      PROVE  /\ at' = "done" /\ rows' = "closed" /\ err' = e /\ source' = s /\ marks' = m
             /\ timings' \in Seq(Observations) /\ timings' # <<>>
             /\ timings'[Len(timings')] = <<source', "error">>
  BY <1>2, LastTimed DEF EndConversion, FailMarked
<1>3. CASE ConversionPanics("ok") \/ ConversionPanics("error")
  BY <1>1, <1>3
<1>4. CASE \E s \in Judged : Fail(e, s) /\ EndConversion(s, "error")
  <2>1. PICK s \in Judged : Fail(e, s) /\ EndConversion(s, "error")
    BY <1>4
  <2>2. s \in {"plugin", "downstream"} /\ FailMarked(e, s, {})
    BY <2>1 DEF Judged, Fail
  <2> QED BY <1>2, <2>1, <2>2
<1>5. CASE \E m \in SUBSET {"context"} :
              FailMarked(e, "downstream", m) /\ EndConversion("downstream", "error")
  <2>1. PICK m \in SUBSET {"context"} :
              FailMarked(e, "downstream", m) /\ EndConversion("downstream", "error")
    BY <1>5
  <2>2. /\ at' = "done" /\ rows' = "closed" /\ err' = e /\ source' = "downstream" /\ marks' = m
        /\ timings' \in Seq(Observations) /\ timings' # <<>>
        /\ timings'[Len(timings')] = <<source', "error">>
    BY <1>2, <2>1
  <2> QED BY <2>2
<1> QED BY <1>3, <1>4, <1>5 DEF ConversionFails

-----------------------------------------------------------------------------
(* What a run has not done yet *)

\* Whatever it is taken from, the row limit is a number.
LEMMA LimitIsNumber ==
    ASSUME NEW c \in Configs
    PROVE  NewRowLimit(c) \in Int /\ c.default \in Int /\ c.late \in Int
<1>1. /\ c.settings \in Int /\ c.env.value \in Int /\ c.grafana.value \in Int
      /\ c.default \in Int /\ c.late \in Int
  BY DBQueryAssumption
<1> QED BY <1>1 DEF NewRowLimit, NoLimit

LEMMA ThresholdIsNumber ==
    ASSUME NEW t \in Thresholds
    PROVE  t \in Nat
BY DBQueryAssumption

\* No run has done anything when it begins.
LEMMA StagedAtFirst == Init => Staged
BY LimitIsNumber, ThresholdIsNumber DEF Init, Staged, Answered

\* Every step of GetQuery and Run leaves undone what comes after it.
LEMMA StagedKept == Staged /\ [Next]_vars => Staged'
<1> SUFFICES ASSUME Staged, [Next]_vars PROVE Staged'
  OBVIOUS
<1> USE DEF Staged, Answered, request, failure, outcome, measured
<1>1. CASE NewDatasource
  BY <1>1, LimitIsNumber DEF NewDatasource
<1>2. CASE SetDefaultRowLimit
  BY <1>2, LimitIsNumber DEF SetDefaultRowLimit
<1>3. CASE GetQuery
  BY <1>3 DEF GetQuery, Fail, FailMarked
<1>4. CASE Interpolate
  BY <1>4 DEF Interpolate, MacroErrors, Fail, FailMarked
<1>5. CASE Send
  <2>1. CASE QueryFails /\ UNCHANGED rows
    BY <1>5, <2>1, LastTimed DEF Send, QueryFails, Judged, QueryMarks, Fail, FailMarked
  <2>2. CASE rows' = "open" /\ Time("downstream", "ok") /\ at' = "check" /\ UNCHANGED failure
    <3>1. timings' = << <<"downstream", "ok">> >>
      <4>1. timings = <<>>
        BY <1>5 DEF Send
      <4> QED BY <2>2, <4>1 DEF Time
    <3>2. timings' \in Seq(Observations)
      BY <2>2, LastTimed
    <3> QED BY <1>5, <2>2, <3>1, <3>2 DEF Send
  <2> QED BY <1>5, <2>1, <2>2 DEF Send
<1>6. CASE CheckRows
  BY <1>6, LastTimed DEF CheckRows, Judged, QueryMarks, Fail, FailMarked
<1>7. CASE ValidateRows
  BY <1>7, ConversionEnds DEF ValidateRows
<1>8. CASE FrameFromRows
  BY <1>8, ConversionEnds DEF FrameFromRows
<1>9. CASE Shape
  BY <1>9, ConversionEnds DEF Shape, ShapeLong, NoAnswer, Answer
<1>10. CASE ObserveResponseSize
  BY <1>10, LastTimed DEF ObserveResponseSize, EndConversion
<1>11. CASE UNCHANGED vars
  BY <1>11 DEF vars
<1> QED BY <1>1, <1>2, <1>3, <1>4, <1>5, <1>6, <1>7, <1>8, <1>9, <1>10, <1>11 DEF Next

\* A run is sent before it is timed, has rows only once it is sent, and has no
\* error before it ends (the order of the calls in handleQuery and Run).
THEOREM StagesInOrder == Spec => []Staged
BY StagedAtFirst, StagedKept, PTL DEF Spec

-----------------------------------------------------------------------------
(* The invariants of a run *)

\* The headers are in the arguments once GetQuery has returned, and nothing
\* takes them out (HeadersArrive).
THEOREM ForwardedHeadersArrive == Spec => []HeadersArrive
<1>1. HeadersArrive <=> (at \notin {"construct", "headers"}
                         /\ given.shape \in {"absent", "object"}
                         /\ (Mentions(given) => Decodable(given))
                         => Carries(given, args, headers))
  BY DEF HeadersArrive, Carries
<1>2. Init => HeadersArrive
  BY <1>1 DEF Init
<1>3. Staged /\ HeadersArrive /\ [Next]_vars => HeadersArrive'
  <2> SUFFICES ASSUME Staged, HeadersArrive, [Next]_vars,
                      at' \notin {"construct", "headers"},
                      given'.shape \in {"absent", "object"},
                      Mentions(given') => Decodable(given')
               PROVE  Carries(given', args', headers')
    BY DEF HeadersArrive, Carries
  <2>1. CASE GetQuery
    <3>1. /\ given' = given /\ headers' = headers /\ args = given /\ given \in Documents
      BY <2>1 DEF GetQuery, Staged
    <3>2. ~Panics(args)
      BY <3>1 DEF Panics
    <3>3. args' = ApplyHeaders(given, headers)
      BY <2>1, <3>1, <3>2 DEF GetQuery
    <3>4. Carries(given, args', headers)
      BY <3>1, <3>3, HeadersCarried
    <3> QED BY <3>1, <3>4
  <2>2. CASE NewDatasource \/ SetDefaultRowLimit
    BY <2>2 DEF NewDatasource, SetDefaultRowLimit
  <2>3. CASE \/ Interpolate \/ Send \/ CheckRows \/ ValidateRows \/ FrameFromRows
             \/ Shape \/ ObserveResponseSize \/ UNCHANGED vars
    <3>1. UNCHANGED <<given, args, headers>> /\ at \notin {"construct", "headers"}
      BY <2>3 DEF Interpolate, Send, CheckRows, ValidateRows, FrameFromRows, Shape,
                  ObserveResponseSize, vars, request
    <3>2. Carries(given, args, headers)
      BY <1>1, <3>1
    <3> QED BY <3>1, <3>2
  <2> QED BY <2>1, <2>2, <2>3 DEF Next
<1> QED BY <1>2, <1>3, StagesInOrder, PTL DEF Spec

\* No run ends with its rows open (RowsAreClosed).
THEOREM RowsComeBack == Spec => []RowsAreClosed
<1>1. Init => RowsAreClosed
  BY DEF Init, RowsAreClosed
<1>2. Staged /\ RowsAreClosed /\ [Next]_vars => RowsAreClosed'
  <2> SUFFICES ASSUME Staged, RowsAreClosed, [Next]_vars, at' = "done"
               PROVE  rows' # "open"
    BY DEF RowsAreClosed
  <2>1. timings \in Seq(Observations)
    BY DEF Staged
  <2>2. CASE at \in {"construct", "headers", "macros"}
    BY <2>2 DEF Next, NewDatasource, SetDefaultRowLimit, GetQuery, Interpolate, Send,
                CheckRows, ValidateRows, FrameFromRows, Shape, ObserveResponseSize,
                request, vars, Staged
  <2>3. CASE Send \/ CheckRows
    BY <2>3 DEF Send, CheckRows, Staged
  <2>4. CASE ValidateRows
    BY <2>1, <2>4, ConversionEnds DEF ValidateRows
  <2>5. CASE FrameFromRows
    BY <2>1, <2>5, ConversionEnds DEF FrameFromRows
  <2>6. CASE Shape
    BY <2>1, <2>6, ConversionEnds DEF Shape, ShapeLong, NoAnswer, Answer
  <2>7. CASE ObserveResponseSize
    BY <2>7 DEF ObserveResponseSize, EndConversion
  <2>8. CASE UNCHANGED vars
    BY <2>8 DEF vars, RowsAreClosed
  <2> QED
    BY <2>2, <2>3, <2>4, <2>5, <2>6, <2>7, <2>8
       DEF Next, NewDatasource, SetDefaultRowLimit, GetQuery, Interpolate
<1> QED BY <1>1, <1>2, StagesInOrder, PTL DEF Spec

\* The last duration that a run observes is about its answer
\* (TimedAsAnswered): a step that fails observes the source that it sets, and
\* only what handleQuery or the SDK looks for in an error makes a difference.
THEOREM DurationsTellTheAnswer == Spec => []TimedAsAnswered
<1>1. Init => TimedAsAnswered
  BY DEF Init, TimedAsAnswered
<1>2. Staged /\ TimedAsAnswered /\ [Next]_vars => TimedAsAnswered'
  <2> SUFFICES ASSUME Staged, TimedAsAnswered, [Next]_vars, at' = "done", timings' # <<>>
               PROVE  TimedAsAnswered'
    BY DEF TimedAsAnswered
  <2>1. timings \in Seq(Observations)
    BY DEF Staged
  \* A step that fails with the source it observes.
  <2>2. ASSUME timings'[Len(timings')] = <<source', "error">>, err' # "none",
               source' \in {"plugin", "downstream"}
        PROVE  TimedAsAnswered'
    BY <2>2 DEF TimedAsAnswered, Reported, ErrorSource
  <2>3. CASE at \in {"construct", "headers", "macros"}
    BY <2>3 DEF Next, NewDatasource, SetDefaultRowLimit, GetQuery, Interpolate, Send,
                CheckRows, ValidateRows, FrameFromRows, Shape, ObserveResponseSize,
                request, failure, outcome, vars, Staged
  <2>4. CASE Send
    <3>1. CASE FailMarked("canceled", "downstream", {"context"}) /\ Time("unset", "error")
      <4>1. timings'[Len(timings')] = <<"unset", "error">>
        BY <2>1, <3>1, LastTimed
      <4> QED BY <3>1, <4>1 DEF TimedAsAnswered, Reported, ErrorSource, FailMarked
    <3>2. CASE \E s \in Judged, m \in QueryMarks : FailMarked("query", s, m) /\ Time(s, "error")
      <4>1. PICK s \in Judged, m \in QueryMarks : FailMarked("query", s, m) /\ Time(s, "error")
        BY <3>2
      <4>2. s \in {"plugin", "downstream"}
        BY DEF Judged
      <4> QED BY <2>1, <2>2, <4>1, <4>2, LastTimed DEF FailMarked
    <3>3. CASE Fail("panic", "plugin") /\ Time("unset", "error")
      <4>1. timings'[Len(timings')] = <<"unset", "error">>
        BY <2>1, <3>3, LastTimed
      <4> QED BY <3>3, <4>1 DEF TimedAsAnswered, Reported, ErrorSource, Fail, FailMarked
    <3> QED BY <2>4, <3>1, <3>2, <3>3 DEF Send, QueryFails
  <2>5. CASE CheckRows
    <3>1. CASE err' \in {"noRows", "panic"} /\ source' \in {"plugin", "downstream"} /\ UNCHANGED timings
               /\ (err' = "noRows" => source' = "downstream")
      <4>1. timings = << <<"downstream", "ok">> >> /\ Len(timings) = 1
        BY <2>5 DEF CheckRows, Staged
      <4>2. timings'[Len(timings')] = <<"downstream", "ok">>
        BY <3>1, <4>1
      <4> QED BY <3>1, <4>2 DEF TimedAsAnswered, Reported, ErrorSource
    <3>2. CASE \E s \in Judged, m \in QueryMarks : FailMarked("rows", s, m) /\ Time(s, "error")
      <4>1. PICK s \in Judged, m \in QueryMarks : FailMarked("rows", s, m) /\ Time(s, "error")
        BY <3>2
      <4>2. s \in {"plugin", "downstream"}
        BY DEF Judged
      <4> QED BY <2>1, <2>2, <4>1, <4>2, LastTimed DEF FailMarked
    <3> QED BY <2>5, <3>1, <3>2 DEF CheckRows, Fail, FailMarked
  <2>6. ASSUME NEW e \in {"validation", "convert", "nullTime", "noResults"},
               ConversionFails(e) \/ ConversionPanics("ok")
        PROVE  TimedAsAnswered'
    BY <2>1, <2>6, ConversionEnds DEF TimedAsAnswered, Reported, ErrorSource
  <2>7. CASE ValidateRows
    BY <2>6, <2>7 DEF ValidateRows
  <2>8. CASE FrameFromRows
    BY <2>6, <2>8 DEF FrameFromRows
  <2>9. CASE Shape
    BY <2>6, <2>9 DEF Shape, ShapeLong, NoAnswer, Answer
  <2>10. CASE ObserveResponseSize
    <3>1. timings'[Len(timings')] = <<"plugin", "ok">> /\ err' = "none"
      BY <2>1, <2>10, LastTimed DEF ObserveResponseSize, EndConversion, Staged, failure
    <3> QED BY <3>1 DEF TimedAsAnswered, Reported
  <2>11. CASE UNCHANGED vars
    BY <2>11 DEF vars, TimedAsAnswered, Reported, ErrorSource
  <2> QED
    BY <2>3, <2>4, <2>5, <2>7, <2>8, <2>9, <2>10, <2>11
       DEF Next, NewDatasource, SetDefaultRowLimit, GetQuery, Interpolate
<1> QED BY <1>1, <1>2, StagesInOrder, PTL DEF Spec

\* The limit that is set is that of the first source that says something.
LEMMA FirstSourceWins ==
    ASSUME NEW c \in Configs
    PROVE  NewRowLimit(c) = Ceiling(c) /\ Ceiling(c) \in Int
<1> SUFFICES NewRowLimit(c) = Ceiling(c)
  BY LimitIsNumber
<1> DEFINE First == CHOOSE i \in Saying(c) : \A j \in Saying(c) : i <= j
<1>1. Saying(c) \subseteq 1..4
  BY DEF Saying
<1>2. ASSUME NEW i \in Saying(c), \A j \in Saying(c) : i <= j
      PROVE  First = i
  <2>1. First \in Saying(c) /\ \A j \in Saying(c) : First <= j
    BY <1>2
  <2>2. First <= i /\ i <= First
    BY <1>2, <2>1
  <2> HIDE DEF First
  <2> QED BY <1>1, <2>1, <2>2
<1> HIDE DEF First
<1>3. Ceiling(c) = IF Saying(c) = {} THEN NoLimit ELSE <<c.settings, c.env.value, c.grafana.value, c.default>>[First]
  BY DEF Ceiling, First
<1>4. /\ 1 \in Saying(c) <=> c.enabled /\ c.settings # 0
      /\ 2 \in Saying(c) <=> c.enabled /\ c.env.kind = "number" /\ c.env.value >= 0
      /\ 3 \in Saying(c) <=> c.enabled /\ c.grafana.kind = "number"
      /\ 4 \in Saying(c) <=> c.enabled /\ c.default # 0
  BY DEF Saying
<1>5. 1..4 = {1, 2, 3, 4}
  OBVIOUS
<1>6. CASE Saying(c) = {}
  BY <1>3, <1>4, <1>5, <1>6 DEF NewRowLimit
<1>7. CASE 1 \in Saying(c)
  <2>1. First = 1
    BY <1>1, <1>2, <1>7
  <2> QED BY <1>3, <1>4, <1>5, <1>7, <2>1 DEF NewRowLimit
<1>8. CASE 1 \notin Saying(c) /\ 2 \in Saying(c)
  <2>1. First = 2
    BY <1>1, <1>2, <1>8
  <2> QED BY <1>3, <1>4, <1>5, <1>8, <2>1 DEF NewRowLimit
<1>9. CASE 1 \notin Saying(c) /\ 2 \notin Saying(c) /\ 3 \in Saying(c)
  <2>1. First = 3
    BY <1>1, <1>2, <1>9
  <2> QED BY <1>3, <1>4, <1>5, <1>9, <2>1 DEF NewRowLimit
<1>10. CASE 1 \notin Saying(c) /\ 2 \notin Saying(c) /\ 3 \notin Saying(c) /\ 4 \in Saying(c)
  <2>1. First = 4
    BY <1>1, <1>2, <1>10
  <2> QED BY <1>3, <1>4, <1>5, <1>10, <2>1 DEF NewRowLimit
<1> QED BY <1>1, <1>5, <1>6, <1>7, <1>8, <1>9, <1>10

\* The SDK takes the first rows, as many as the limit it is given allows.
LEMMA FirstRows ==
    ASSUME NEW r \in Results, NEW l \in Int
    PROVE  /\ Len(r.rows) \in Nat
           /\ Len(FromRows(r, l).rows) = IF l < 0 \/ Len(r.rows) <= l THEN Len(r.rows) ELSE l
           /\ \A n \in DOMAIN FromRows(r, l).rows :
                n \in DOMAIN r.rows /\ FromRows(r, l).rows[n] = r.rows[n]
<1> DEFINE S == {r.rows[n] : n \in DOMAIN r.rows}
<1>1. r.rows \in Seq(S)
  BY DBQueryAssumption
<1> HIDE DEF S
<1>2. Len(r.rows) \in Nat
  BY <1>1
<1>3. CASE l < 0 \/ Len(r.rows) <= l
  BY <1>2, <1>3 DEF FromRows, Frame
<1>4. CASE ~(l < 0 \/ Len(r.rows) <= l)
  <2>1. FromRows(r, l).rows = SubSeq(r.rows, 1, l)
    BY <1>4 DEF FromRows, Frame
  <2> QED BY <1>1, <1>2, <1>4, <2>1
<1> QED BY <1>3, <1>4

\* The configured limit reaches the frame that is made of the rows (Limited),
\* as long as the plugin does not replace it.
THEOREM LimitReachesTheFrame == Spec => []Limited
<1>1. Init => Limited
  BY DEF Init, Limited, Answered
<1>2. Staged /\ Limited /\ [Next]_vars => Limited'
  <2> SUFFICES ASSUME Staged, Limited, [Next]_vars, config'.late = 0
               PROVE  /\ at' # "construct" => limit' = Ceiling(config')
                      /\ at' \in {"shape", "observe"} \/ Answered' =>
                            frame' = FromRows(result', Ceiling(config'))
    BY DEF Limited
  <2>1. config' = config
    BY DEF Next, NewDatasource, SetDefaultRowLimit, GetQuery, Interpolate, Send, CheckRows,
           ValidateRows, FrameFromRows, Shape, ObserveResponseSize, request, vars
  <2>2. /\ config \in Configs
        /\ at # "construct" => limit = Ceiling(config)
        /\ at \in {"shape", "observe"} \/ Answered => frame = FromRows(result, Ceiling(config))
        /\ at # "done" => err = "none"
        /\ timings \in Seq(Observations)
    BY <2>1 DEF Limited, Staged
  <2>3. CASE NewDatasource
    BY <2>1, <2>2, <2>3, FirstSourceWins DEF NewDatasource, Answered
  <2>4. CASE SetDefaultRowLimit
    BY <2>1, <2>4 DEF SetDefaultRowLimit
  <2>5. CASE GetQuery \/ Interpolate
    BY <2>1, <2>2, <2>5
       DEF GetQuery, Interpolate, MacroErrors, Fail, FailMarked, request, Answered
  <2>6. CASE Send \/ CheckRows
    BY <2>1, <2>2, <2>6
       DEF Send, QueryFails, CheckRows, Fail, FailMarked, request, Answered
  <2>7. ASSUME NEW e \in {"validation", "convert", "nullTime", "noResults"},
               ConversionFails(e) \/ ConversionPanics("ok"), limit' = limit, at # "construct"
        PROVE  /\ at' # "construct" => limit' = Ceiling(config')
               /\ at' \notin {"shape", "observe"} /\ ~Answered'
    BY <2>1, <2>2, <2>7, ConversionEnds DEF Answered
  <2>8. CASE ValidateRows
    BY <2>1, <2>2, <2>7, <2>8 DEF ValidateRows, request, Answered
  <2>9. CASE FrameFromRows
    BY <2>1, <2>2, <2>7, <2>9 DEF FrameFromRows, request, Answered
  <2>10. CASE Shape
    BY <2>1, <2>2, <2>7, <2>10 DEF Shape, ShapeLong, NoAnswer, Answer, request, Answered
  <2>11. CASE ObserveResponseSize
    BY <2>1, <2>2, <2>11 DEF ObserveResponseSize, request, Answered
  <2>12. CASE UNCHANGED vars
    BY <2>1, <2>2, <2>12 DEF vars, Answered
  <2> QED BY <2>3, <2>4, <2>5, <2>6, <2>8, <2>9, <2>10, <2>11, <2>12 DEF Next
<1> QED BY <1>1, <1>2, StagesInOrder, PTL DEF Spec

-----------------------------------------------------------------------------
(* The size of an answer *)

\* What TotalRows adds up, for every set of its frames.
IsSum(g, F) ==
    g = [s \in SUBSET F |->
            IF s = {} THEN 0
            ELSE Len((CHOOSE x \in s : TRUE).rows) + g[s \ {CHOOSE x \in s : TRUE}]]

LEMMA SumIsChosen ==
    ASSUME NEW F
    PROVE  TotalRows(F) = (CHOOSE g : IsSum(g, F))[F]
BY Zenon DEF TotalRows, MapThenSumSet, MapThenFoldSet, IsSum

\* Of a finite set there is one such sum: two could differ only on a smallest
\* set of frames, which is not empty, and then they would on a smaller one.
LEMMA SumIsUnique ==
    ASSUME NEW F, IsFiniteSet(F), NEW g, IsSum(g, F), NEW h, IsSum(h, F)
    PROVE  g[F] = h[F]
<1> DEFINE Differ == {s \in SUBSET F : g[s] # h[s]}
<1>1. IsWellFoundedOn(StrictSubsetOrdering(F), SUBSET F)
  <2>1. FiniteSubsetsOf(F) = SUBSET F
    BY FS_FiniteSubsetsOfFinite
  <2> QED BY <2>1, FS_StrictSubsetOrderingWellFounded
<1>2. Differ = {}
  <2> SUFFICES ASSUME Differ # {} PROVE FALSE
    OBVIOUS
  <2>1. PICK s \in Differ : \A t \in Differ : <<t, s>> \notin StrictSubsetOrdering(F)
    <3> HIDE DEF Differ
    <3>1. Differ \subseteq SUBSET F
      BY DEF Differ
    <3> QED BY <1>1, <3>1, WFMin
  <2> DEFINE x == CHOOSE x \in s : TRUE
  <2>2. s \in SUBSET F /\ s # {}
    BY DEF IsSum
  <2>3. x \in s /\ s \ {x} \in SUBSET F
    BY <2>2
  <2>4. <<s \ {x}, s>> \in StrictSubsetOrdering(F)
    BY <2>2, <2>3 DEF StrictSubsetOrdering
  <2>5. g[s \ {x}] = h[s \ {x}]
    BY <2>1, <2>3, <2>4
  <2>6. g[s] = Len(x.rows) + g[s \ {x}] /\ h[s] = Len(x.rows) + h[s \ {x}]
    BY <2>2, <2>3 DEF IsSum
  <2> QED BY <2>5, <2>6
<1> QED BY <1>2

LEMMA TheSum ==
    ASSUME NEW F, IsFiniteSet(F), NEW g, IsSum(g, F)
    PROVE  TotalRows(F) = g[F]
<1>1. IsSum(CHOOSE h : IsSum(h, F), F)
  OBVIOUS
<1> QED BY <1>1, SumIsChosen, SumIsUnique

\* A single frame.
LEMMA OneFrame ==
    ASSUME NEW f, Len(f.rows) \in Nat
    PROVE  TotalRows({f}) = Len(f.rows)
<1> DEFINE g == [s \in SUBSET {f} |-> IF s = {} THEN 0 ELSE Len(f.rows)]
<1>1. IsSum(g, {f})
  <2>1. ASSUME NEW s \in SUBSET {f}, s # {}
        PROVE  (CHOOSE x \in s : TRUE) = f /\ s \ {CHOOSE x \in s : TRUE} = {}
    BY <2>1
  <2>2. ASSUME NEW s \in SUBSET {f}
        PROVE  g[s] = IF s = {} THEN 0
                      ELSE Len((CHOOSE x \in s : TRUE).rows) + g[s \ {CHOOSE x \in s : TRUE}]
    BY <2>1, <2>2
  <2> QED BY <2>2 DEF IsSum
<1>2. IsFiniteSet({f})
  BY FS_Singleton
<1>3. g[{f}] = Len(f.rows)
  OBVIOUS
<1> HIDE DEF g
<1> QED BY <1>1, <1>2, <1>3, TheSum

\* SetToSeq numbers the elements of a finite set.
LEMMA Numbered ==
    ASSUME NEW S, IsFiniteSet(S)
    PROVE  /\ Cardinality(S) \in Nat
           /\ SetToSeq(S) \in [1..Cardinality(S) -> S]
           /\ Len(SetToSeq(S)) = Cardinality(S)
<1>1. Cardinality(S) \in Nat /\ ExistsBijection(1..Cardinality(S), S)
  BY FS_CardinalityType
<1>2. \E f \in [1..Cardinality(S) -> S] : IsInjective(f)
  BY <1>1, Zenon DEF ExistsBijection, Bijection, Injection, IsInjective
<1>3. SetToSeq(S) \in [1..Cardinality(S) -> S]
  BY <1>2, Zenon DEF SetToSeq
<1>4. SetToSeq(S) \in Seq(S)
  BY <1>1, <1>3
<1>5. Len(SetToSeq(S)) = Cardinality(S)
  <2> DEFINE s == SetToSeq(S)
             c == Cardinality(S)
  <2>1. s \in Seq(S) /\ DOMAIN s = 1..c /\ c \in Nat
    BY <1>1, <1>3, <1>4
  <2> HIDE DEF s, c
  <2>2. DOMAIN s = 1..Len(s) /\ Len(s) \in Nat
    BY <2>1
  <2>3. Len(s) = c
    BY <2>1, <2>2
  <2> QED BY <2>3 DEF s, c
<1> QED BY <1>1, <1>3, <1>5

\* A series has all the rows with its label and no other.
LEMMA SeriesRows ==
    ASSUME NEW f, NEW len \in Nat, DOMAIN f.rows = 1..len, NEW l, NEW c
    PROVE  /\ IsFiniteSet(Labelled(f, l)) /\ Labelled(f, l) \subseteq 1..len
           /\ Cardinality(Labelled(f, l)) \in Nat
           /\ DOMAIN Series(f, l, c).rows = 1..Cardinality(Labelled(f, l))
           /\ Len(Series(f, l, c).rows) = Cardinality(Labelled(f, l))
           /\ \A n \in DOMAIN Series(f, l, c).rows :
                 \E m \in Labelled(f, l) : Series(f, l, c).rows[n] = f.rows[m]
           /\ \A m \in Labelled(f, l) : f.rows[m] \in ToSet(Series(f, l, c).rows)
           /\ Series(f, l, c).time = f.time /\ Series(f, l, c).values = {c}
<1> DEFINE N == Labelled(f, l)
           s == SetToSeq(N)
           t == [n \in DOMAIN s |-> f.rows[s[n]]]
<1>1. N \subseteq 1..len
  BY DEF Labelled
<1>2. IsFiniteSet(N)
  <2>1. IsFiniteSet(1..len)
    BY FS_Interval
  <2> HIDE DEF N
  <2> QED BY <1>1, <2>1, FS_Subset
<1>3. Cardinality(N) \in Nat /\ s \in [1..Cardinality(N) -> N]
  BY <1>2, Numbered
<1>4. \A m \in N : \E n \in 1..Cardinality(N) : s[n] = m
  <2> HIDE DEF N
  <2> QED BY <1>2, Listed
<1>5. /\ Series(f, l, c).rows = t /\ Series(f, l, c).time = f.time
      /\ Series(f, l, c).values = {c}
  BY DEF Series, Frame
<1> HIDE DEF N, s
<1>6. DOMAIN t = 1..Cardinality(N) /\ \A n \in DOMAIN t : t[n] = f.rows[s[n]] /\ s[n] \in N
  BY <1>3
<1>7. ASSUME NEW m \in N PROVE f.rows[m] \in ToSet(t)
  <2>1. PICK n \in 1..Cardinality(N) : s[n] = m
    BY <1>4
  <2>2. n \in DOMAIN t /\ t[n] = f.rows[m]
    BY <1>6, <2>1
  <2> HIDE DEF t
  <2> QED BY <2>2 DEF ToSet
<1> HIDE DEF t
<1>8. Len(t) = Cardinality(N)
  BY <1>3, <1>6
<1> QED BY <1>1, <1>2, <1>3, <1>5, <1>6, <1>7, <1>8 DEF N

\* A series tells its label and its value column: its rows have the label, and
\* there is one.
LEMMA SeriesTells ==
    ASSUME NEW f, NEW len \in Nat, DOMAIN f.rows = 1..len, NEW l, NEW c, Labelled(f, l) # {}
    PROVE  /\ Series(f, l, c).rows[1].label = l
           /\ Series(f, l, c).values = {c}
<1>1. /\ IsFiniteSet(Labelled(f, l)) /\ Cardinality(Labelled(f, l)) \in Nat
      /\ DOMAIN Series(f, l, c).rows = 1..Cardinality(Labelled(f, l))
      /\ \A k \in DOMAIN Series(f, l, c).rows :
            \E j \in Labelled(f, l) : Series(f, l, c).rows[k] = f.rows[j]
      /\ Series(f, l, c).values = {c}
  BY SeriesRows
<1>2. Cardinality(Labelled(f, l)) # 0
  BY <1>1, FS_EmptySet
<1>3. 1 \in DOMAIN Series(f, l, c).rows
  BY <1>1, <1>2
<1>4. PICK j \in Labelled(f, l) : Series(f, l, c).rows[1] = f.rows[j]
  BY <1>1, <1>3
<1>5. f.rows[j].label = l
  BY DEF Labelled
<1> QED BY <1>1, <1>4, <1>5

\* The series of a frame have each of its rows once for every value column: a
\* set of series has as many as there are pairs of a row and a column in it.
LEMMA SeriesTogether ==
    ASSUME NEW f, NEW len \in Nat, DOMAIN f.rows = 1..len, IsFiniteSet(f.values)
    PROVE  TotalRows(LongToMulti(f)) = len * Cardinality(f.values)
<1> DEFINE V == f.values
           P == (1..len) \X V
           Of(p) == Series(f, f.rows[p[1]].label, p[2])
           F == LongToMulti(f)
           In(s) == {p \in P : Of(p) \in s}
           g == [s \in SUBSET F |-> Cardinality(In(s))]
<1>1. F = {Of(p) : p \in P}
  <2>1. F = {Series(f, f.rows[n].label, c) : n \in 1..len, c \in V}
    BY DEF LongToMulti
  <2>2. ASSUME NEW n \in 1..len, NEW c \in V
        PROVE  <<n, c>> \in P /\ Of(<<n, c>>) = Series(f, f.rows[n].label, c)
    OBVIOUS
  <2>3. ASSUME NEW p \in P PROVE p[1] \in 1..len /\ p[2] \in V
    OBVIOUS
  <2>4. ASSUME NEW p \in P PROVE p = <<p[1], p[2]>>
    OBVIOUS
  <2>5. ASSUME NEW x \in F PROVE \E p \in P : x = Of(p)
    <3>1. PICK n \in 1..len, c \in V : x = Series(f, f.rows[n].label, c)
      BY <2>1
    <3> HIDE DEF P, Of
    <3> QED BY <2>2, <3>1
  <2>6. ASSUME NEW p \in P PROVE Of(p) \in F
    <3>1. p[1] \in 1..len /\ p[2] \in V
      BY <2>3
    <3> HIDE DEF P
    <3> QED BY <2>1, <3>1
  <2> HIDE DEF P, V, Of, F
  <2> QED BY <2>5, <2>6
<1>2. IsFiniteSet(1..len) /\ Cardinality(1..len) = len
  <2>1. len \in Int /\ 1 \in Int
    OBVIOUS
  <2>2. IsFiniteSet(1..len) /\ Cardinality(1..len) = IF 1 > len THEN 0 ELSE len - 1 + 1
    BY <2>1, FS_Interval
  <2> QED BY <2>2
<1>3. IsFiniteSet(P) /\ Cardinality(P) = len * Cardinality(V)
  <2> HIDE DEF V
  <2>1. IsFiniteSet(V)
    BY DEF V
  <2> QED BY <1>2, <2>1, FS_Product
<1>4. IsFiniteSet(F)
  <2> DEFINE o == [p \in P |-> Of(p)]
  <2>1. o \in Surjection(P, F)
    <3> HIDE DEF P, Of, F
    <3> QED BY <1>1 DEF Surjection
  <2> HIDE DEF o, F, P
  <2> QED BY <1>3, <2>1, FS_Surjection
<1>5. ASSUME NEW s
      PROVE  IsFiniteSet(In(s)) /\ Cardinality(In(s)) \in Nat
  <2>1. In(s) \in SUBSET P
    OBVIOUS
  <2> HIDE DEF In, P
  <2> QED BY <1>3, <2>1, FS_Subset, FS_CardinalityType
<1>6. ASSUME NEW s \in SUBSET F, s # {}, NEW x \in s
      PROVE  Cardinality(In(s)) = Len(x.rows) + Cardinality(In(s \ {x}))
  <2>1. PICK q \in P : x = Of(q)
    BY <1>1
  <2> DEFINE L == Labelled(f, f.rows[q[1]].label)
             Q == L \X {q[2]}
  <2>2. q[1] \in 1..len /\ q[2] \in V
    OBVIOUS
  <2>3. /\ Len(x.rows) = Cardinality(L) /\ IsFiniteSet(L) /\ Cardinality(L) \in Nat
        /\ L \subseteq 1..len
    BY <2>1, SeriesRows
  <2>4. IsFiniteSet(Q) /\ Cardinality(Q) = Len(x.rows)
    <3>1. IsFiniteSet({q[2]}) /\ Cardinality({q[2]}) = 1
      BY FS_Singleton
    <3> HIDE DEF L
    <3>2. IsFiniteSet(Q) /\ Cardinality(Q) = Cardinality(L) * Cardinality({q[2]})
      BY <2>3, <3>1, FS_Product
    <3> QED BY <2>3, <3>1, <3>2
  <2>5. Q = {p \in P : Of(p) = x}
    <3>1. ASSUME NEW p \in P, Of(p) = x PROVE p \in Q
      <4>1. p[1] \in 1..len /\ p[2] \in V /\ p = <<p[1], p[2]>>
        OBVIOUS
      <4>2. f.rows[p[1]].label = f.rows[q[1]].label /\ p[2] = q[2]
        <5> DEFINE l == f.rows[q[1]].label
                   k == f.rows[p[1]].label
        <5>1. x = Series(f, l, q[2]) /\ x = Series(f, k, p[2])
          BY <2>1, <3>1
        <5>2. q[1] \in Labelled(f, l) /\ p[1] \in Labelled(f, k)
          BY <2>2, <4>1 DEF Labelled
        <5> HIDE DEF P, Of, L, Q, l, k
        <5>3. x.rows[1].label = l /\ x.values = {q[2]}
          <6>1. Labelled(f, l) # {}
            BY <5>2
          <6>2. /\ Series(f, l, q[2]).rows[1].label = l
                /\ Series(f, l, q[2]).values = {q[2]}
            BY <6>1, SeriesTells
          <6> QED BY <5>1, <6>2
        <5>4. x.rows[1].label = k /\ x.values = {p[2]}
          <6>1. Labelled(f, k) # {}
            BY <5>2
          <6>2. /\ Series(f, k, p[2]).rows[1].label = k
                /\ Series(f, k, p[2]).values = {p[2]}
            BY <6>1, SeriesTells
          <6> QED BY <5>1, <6>2
        <5>5. {p[2]} = {q[2]}
          BY <5>3, <5>4
        <5> QED BY <5>3, <5>4, <5>5 DEF l, k
      <4>3. p[1] \in L
        BY <4>1, <4>2 DEF Labelled
      <4> HIDE DEF L
      <4> QED BY <4>1, <4>2, <4>3
    <3>2. ASSUME NEW p \in Q PROVE p \in P /\ Of(p) = x
      <4>1. p[1] \in L /\ p[2] = q[2] /\ p = <<p[1], p[2]>>
        OBVIOUS
      <4>2. p[1] \in 1..len /\ f.rows[p[1]].label = f.rows[q[1]].label
        BY <2>3, <4>1 DEF Labelled
      <4> QED BY <2>1, <2>2, <4>1, <4>2
    <3> HIDE DEF Q, P, Of
    <3> QED BY <3>1, <3>2
  <2>6. In(s) = Q \cup In(s \ {x}) /\ Q \cap In(s \ {x}) = {}
    <3> HIDE DEF Q, Of, P
    <3> QED BY <2>5
  <2> HIDE DEF Q, In, Of, P, L, F, g, V
  <2>7. IsFiniteSet(In(s \ {x})) /\ Cardinality(In(s \ {x})) \in Nat
    BY <1>5
  <2>8. Cardinality(In(s)) = Cardinality(Q) + Cardinality(In(s \ {x})) - Cardinality({})
    <3> DEFINE R == In(s \ {x})
    <3>1. /\ IsFiniteSet(Q) /\ IsFiniteSet(R)
          /\ In(s) = Q \cup R /\ Q \cap R = {}
      BY <2>4, <2>6, <2>7
    <3> HIDE DEF R
    <3>2. Cardinality(Q \cup R) = Cardinality(Q) + Cardinality(R) - Cardinality(Q \cap R)
      BY <3>1, FS_Union
    <3> QED BY <3>1, <3>2 DEF R
  <2> QED BY <2>3, <2>4, <2>7, <2>8, FS_EmptySet
<1>7. Cardinality(In({})) = 0
  <2>1. In({}) = {}
    OBVIOUS
  <2> QED BY <2>1, FS_EmptySet
<1>8. g[F] = len * Cardinality(V)
  <2>1. In(F) = P
    <3> HIDE DEF Of, P, F
    <3> QED BY <1>1
  <2> QED BY <1>3, <2>1
<1> HIDE DEF In, F
<1>9. IsSum(g, F)
  <2>1. ASSUME NEW s \in SUBSET F
        PROVE  g[s] = IF s = {} THEN 0
                      ELSE Len((CHOOSE x \in s : TRUE).rows) + g[s \ {CHOOSE x \in s : TRUE}]
    <3>1. CASE s = {}
      BY <1>7, <3>1
    <3>2. CASE s # {}
      <4> DEFINE x == CHOOSE x \in s : TRUE
      <4>1. x \in s /\ s \ {x} \in SUBSET F
        BY <3>2
      <4> HIDE DEF x
      <4>2. g[s] = Len(x.rows) + g[s \ {x}]
        BY <1>6, <3>2, <4>1
      <4> QED BY <3>2, <4>2 DEF x
    <3> QED BY <3>1, <3>2
  <2> HIDE DEF g
  <2>2. g = [s \in SUBSET F |-> g[s]]
    BY DEF g
  <2> QED BY <2>1, <2>2, Zenon DEF IsSum
<1> HIDE DEF g
<1> QED BY <1>4, <1>8, <1>9, TheSum DEF F, V

\* The frame of a wide conversion has one row for every time, and so no more
\* than the long one.
LEMMA WideRows ==
    ASSUME NEW f, NEW len \in Nat, DOMAIN f.rows = 1..len
    PROVE  /\ TotalRows(LongToWide(f)) = Cardinality(Times(f))
           /\ Cardinality(Times(f)) \in Nat /\ Cardinality(Times(f)) <= len
           /\ \A g \in LongToWide(f) : Len(g.rows) = Cardinality(Times(f))
<1> DEFINE T == Times(f)
           Wide(t) == [time |-> t, label |-> "all"]
           S == {Wide(t) : t \in T}
           time == [n \in 1..len |-> f.rows[n].time]
           w == [t \in T |-> Wide(t)]
           g == Frame(SetToSeq(S), f.time, FALSE,
                      f.values \X {f.rows[n].label : n \in DOMAIN f.rows})
<1>1. IsFiniteSet(1..len) /\ Cardinality(1..len) = len
  <2>1. len \in Int /\ 1 \in Int
    OBVIOUS
  <2>2. IsFiniteSet(1..len) /\ Cardinality(1..len) = IF 1 > len THEN 0 ELSE len - 1 + 1
    BY <2>1, FS_Interval
  <2> QED BY <2>2
<1>2. time \in Surjection(1..len, T)
  BY DEF Times, Surjection
<1>3. LongToWide(f) = {g} /\ g.rows = SetToSeq(S)
  BY DEF LongToWide, Frame
<1> HIDE DEF T, time, g
<1>4. IsFiniteSet(T) /\ Cardinality(T) <= len /\ Cardinality(T) \in Nat
  BY <1>1, <1>2, FS_Surjection, FS_CardinalityType
<1>5. w \in Surjection(T, S) /\ w \in Injection(T, S)
  <2>1. \A t, u \in T : Wide(t) = Wide(u) => t = u
    <3>1. \A t \in T : Wide(t).time = t
      OBVIOUS
    <3> HIDE DEF Wide
    <3> QED BY <3>1
  <2> HIDE DEF Wide
  <2> QED BY <2>1 DEF Injection, Surjection, IsInjective
<1> HIDE DEF S, w
<1>6. IsFiniteSet(S) /\ Cardinality(S) = Cardinality(T)
  BY <1>4, <1>5, FS_Surjection
<1>7. Len(g.rows) = Cardinality(T)
  BY <1>3, <1>6, Numbered
<1> QED BY <1>3, <1>4, <1>7, OneFrame DEF T

-----------------------------------------------------------------------------
(* What an answer is made of *)

\* The frame of the rows that the SDK takes.
LEMMA FrameOfRows ==
    ASSUME NEW r \in Results, NEW l \in Int, NEW f, f = FromRows(r, l)
    PROVE  /\ f = Frame(f.rows, f.time, f.labels, f.values) /\ IsFiniteSet(f.values)
           /\ f.rows \in Seq({f.rows[n] : n \in DOMAIN f.rows})
           /\ f.time \in {"none", "time", "nullable"}
           /\ f.time = "time" => ~HasNullTime(f)
<1> DEFINE S == {r.rows[n] : n \in DOMAIN r.rows}
<1>1. /\ r.rows \in Seq(S) /\ r.time \in {"none", "time", "nullable"}
      /\ r.time = "time" => \A n \in DOMAIN r.rows : r.rows[n].time # Null
      /\ IsFiniteSet(r.values)
  BY DBQueryAssumption
<1>2. f.time = r.time /\ f.values = r.values /\ f.rows = IF l < 0 \/ Len(r.rows) <= l THEN r.rows ELSE SubSeq(r.rows, 1, l)
  BY DEF FromRows, Frame
<1> HIDE DEF S
<1>3. /\ f.rows \in Seq(S)
      /\ \A n \in DOMAIN f.rows : n \in DOMAIN r.rows /\ f.rows[n] = r.rows[n]
  BY <1>1, <1>2
<1>4. f.rows \in Seq({f.rows[n] : n \in DOMAIN f.rows})
  <2>1. DOMAIN f.rows = 1..Len(f.rows) /\ Len(f.rows) \in Nat /\ f.rows = [n \in 1..Len(f.rows) |-> f.rows[n]]
    BY <1>3
  <2> QED BY <2>1
<1>5. f.time = "time" => ~HasNullTime(f)
  BY <1>1, <1>2, <1>3 DEF HasNullTime
<1>6. f = Frame(f.rows, f.time, f.labels, f.values)
  BY DEF FromRows, Frame
<1> QED BY <1>1, <1>2, <1>4, <1>5, <1>6

\* The answer is what was made of the frame, and what was made is what is
\* measured (Framed).
THEOREM AnswersAreFramed == Spec => []Framed
<1>1. Init => Framed
  BY FS_EmptySet DEF Init, Framed, NoFrame, Frame, HasNullTime, Answered
<1>2. Staged /\ Framed /\ [Next]_vars => Framed'
  <2> SUFFICES ASSUME Staged, Framed, [Next]_vars PROVE Framed'
    OBVIOUS
  <2>1. timings \in Seq(Observations) /\ (at # "done" => err = "none")
    BY DEF Staged
  <2>2. ASSUME UNCHANGED frame, at' # "observe", ~Answered' PROVE Framed'
    BY <2>2 DEF Framed, HasNullTime
  <2>3. CASE NewDatasource \/ SetDefaultRowLimit
    BY <2>2, <2>3 DEF NewDatasource, SetDefaultRowLimit, Answered
  <2>4. CASE GetQuery \/ Interpolate \/ Send \/ CheckRows
    BY <2>2, <2>4 DEF GetQuery, Interpolate, MacroErrors, Send, QueryFails, CheckRows, Fail, FailMarked, Answered
  <2>5. CASE ValidateRows
    BY <2>1, <2>2, <2>5, ConversionEnds DEF ValidateRows, Answered
  <2>6. CASE FrameFromRows
    <3>1. CASE frame' = FromRows(result, limit) /\ at' = "shape" /\ at = "scan"
      <4>1. result \in Results /\ limit \in Int
        BY <3>1 DEF Staged
      <4>2. /\ frame' = Frame(frame'.rows, frame'.time, frame'.labels, frame'.values)
            /\ IsFiniteSet(frame'.values)
            /\ frame'.rows \in Seq({frame'.rows[n] : n \in DOMAIN frame'.rows})
            /\ frame'.time \in {"none", "time", "nullable"}
            /\ frame'.time = "time" => ~HasNullTime(frame')
        <5> DEFINE f == FromRows(result, limit)
        <5>1. /\ f = Frame(f.rows, f.time, f.labels, f.values) /\ IsFiniteSet(f.values)
              /\ f.rows \in Seq({f.rows[n] : n \in DOMAIN f.rows})
              /\ f.time \in {"none", "time", "nullable"}
              /\ f.time = "time" => ~HasNullTime(f)
          BY <4>1, FrameOfRows
        <5> HIDE DEF f
        <5>2. frame' = f
          BY <3>1 DEF f
        <5> QED BY <5>1, <5>2 DEF HasNullTime
      <4> QED BY <3>1, <4>2 DEF Framed, HasNullTime, Answered
    <3>2. CASE ConversionFails("convert") \/ ConversionPanics("ok")
      BY <2>1, <2>2, <2>6, <3>2, ConversionEnds DEF FrameFromRows, Answered
    <3> QED BY <2>6, <3>1, <3>2 DEF FrameFromRows
  <2>7. CASE Shape
    <3>1. ASSUME NEW e \in {"validation", "convert", "nullTime", "noResults"}, NoAnswer(e)
          PROVE  Framed'
      BY <2>1, <2>2, <2>7, <3>1, ConversionEnds DEF Shape, NoAnswer, Answered
    <3>2. ASSUME Answer(Shaped), format = "multi" /\ IsLong(frame) => Fixable(frame)
          PROVE  Framed'
      BY <2>7, <3>2 DEF Shape, Answer, Framed, Shaped, request, Answered, HasNullTime, Fixable
    <3> QED BY <2>7, <3>1, <3>2 DEF Shape, ShapeLong, Shaped, NeedsRows
  <2>8. CASE ObserveResponseSize
    <3>1. /\ UNCHANGED <<request, frame, frames>> /\ at = "observe"
          /\ observed' = TotalRows(frames)
          /\ warned' = Crosses(TotalRows(frames), IF retry THEN 0 ELSE threshold)
      BY <2>8 DEF ObserveResponseSize, CollectResponseSize
    <3>2. warned' <=> ~retry /\ threshold > 0 /\ TotalRows(frames) >= threshold
      <4> DEFINE t == IF retry THEN 0 ELSE threshold
      <4>1. t > 0 <=> ~retry /\ threshold > 0
        OBVIOUS
      <4>2. ~retry => t = threshold
        OBVIOUS
      <4>3. warned' = (t > 0 /\ TotalRows(frames) >= t)
        BY <3>1, Zenon DEF Crosses
      <4> HIDE DEF t
      <4> QED BY <4>1, <4>2, <4>3, Zenon
    <3> QED BY <3>1, <3>2 DEF Framed, Shaped, request, Answered, HasNullTime
  <2>9. CASE UNCHANGED vars
    BY <2>9 DEF vars, Framed, Shaped, Answered, HasNullTime
  <2> QED BY <2>3, <2>4, <2>5, <2>6, <2>7, <2>8, <2>9 DEF Next
<1> QED BY <1>1, <1>2, StagesInOrder, PTL DEF Spec

\* A frame that is made of the rows has no more of them, and all together have
\* what the panel gets.
LEMMA RowsOfAnswer ==
    ASSUME Framed, Answered
    PROVE  /\ Len(frame.rows) \in Nat /\ DOMAIN frame.rows = 1..Len(frame.rows)
           /\ TotalRows(frames) = Delivered
           /\ \A f \in frames : Len(f.rows) \in Nat /\ Len(f.rows) <= Len(frame.rows)
<1> DEFINE S == {frame.rows[n] : n \in DOMAIN frame.rows}
           len == Len(frame.rows)
           g == Fixed(frame)
<1>1. /\ frame.rows \in Seq(S) /\ frame = Frame(frame.rows, frame.time, frame.labels, frame.values)
      /\ frames = Shaped /\ IsFiniteSet(frame.values)
  BY DEF Framed
<1>2. len \in Nat /\ DOMAIN frame.rows = 1..len
  <2> HIDE DEF S
  <2> QED BY <1>1
<1>3. g.rows = frame.rows /\ g.values = frame.values
  BY <1>1 DEF Fixed, Frame
<1> HIDE DEF S
<1>4. CASE ~NeedsRows(format) \/ ~IsLong(frame)
  <2>1. frames = {frame} /\ Delivered = Len(frame.rows)
    BY <1>1, <1>4 DEF Shaped, Delivered
  <2> QED BY <1>2, <2>1, OneFrame
<1> HIDE DEF len, g
<1>5. CASE NeedsRows(format) /\ IsLong(frame) /\ format = "multi"
  <2>1. frames = LongToMulti(g) /\ Delivered = len * Cardinality(frame.values)
    BY <1>1, <1>5 DEF Shaped, Delivered, len, g
  <2>2. TotalRows(frames) = Delivered
    BY <1>2, <1>1, <1>3, <2>1, SeriesTogether
  <2>3. ASSUME NEW f \in frames PROVE Len(f.rows) \in Nat /\ Len(f.rows) <= len
    <3>1. PICK l, c : f = Series(g, l, c)
      BY <2>1 DEF LongToMulti
    <3>2. /\ Len(f.rows) = Cardinality(Labelled(g, l)) /\ Len(f.rows) \in Nat
          /\ Labelled(g, l) \subseteq 1..len
      <4>1. DOMAIN g.rows = 1..len
        BY <1>2, <1>3 DEF len
      <4>2. /\ Len(Series(g, l, c).rows) = Cardinality(Labelled(g, l))
            /\ Cardinality(Labelled(g, l)) \in Nat /\ Labelled(g, l) \subseteq 1..len
        BY <1>2, <4>1, SeriesRows, Zenon
      <4> QED BY <3>1, <4>2
    <3>3. IsFiniteSet(1..len) /\ Cardinality(1..len) = len
      <4>1. len \in Int /\ 1 \in Int
        BY <1>2
      <4>2. IsFiniteSet(1..len) /\ Cardinality(1..len) = IF 1 > len THEN 0 ELSE len - 1 + 1
        BY <4>1, FS_Interval
      <4> QED BY <1>2, <4>2
    <3>4. Cardinality(Labelled(g, l)) <= Cardinality(1..len)
      BY <3>2, <3>3, FS_Subset
    <3> QED BY <3>2, <3>3, <3>4
  <2> QED BY <1>2, <2>2, <2>3 DEF len
<1>6. CASE NeedsRows(format) /\ IsLong(frame) /\ format # "multi"
  <2>1. frames = LongToWide(frame) /\ Delivered = Cardinality(Times(frame))
    BY <1>1, <1>6 DEF Shaped, Delivered
  <2> QED BY <1>2, <2>1, WideRows DEF len
<1> QED BY <1>4, <1>5, <1>6

\* An answer has the first rows of the result, up to the configured limit
\* (LimitHolds): the limit reaches the frame, and no shape adds rows to a frame.
THEOREM ConfiguredLimitIsKept == Spec => []LimitHolds
<1>1. ASSUME Staged, Limited, Framed PROVE LimitHolds
  <2> SUFFICES ASSUME Answered, config.late = 0
               PROVE  LET top == Ceiling(config)
                      IN  /\ Len(frame.rows) = IF top < 0 \/ Len(result.rows) <= top
                                               THEN Len(result.rows) ELSE top
                          /\ \A n \in DOMAIN frame.rows : frame.rows[n] = result.rows[n]
                          /\ top >= 0 => \A f \in frames : Len(f.rows) <= top
    BY DEF LimitHolds
  <2> DEFINE top == Ceiling(config)
  <2>1. config \in Configs /\ result \in Results /\ frame = FromRows(result, top)
    BY <1>1 DEF Staged, Limited
  <2>2. top \in Int
    BY <2>1, FirstSourceWins
  <2> HIDE DEF top
  <2>3. /\ Len(result.rows) \in Nat
        /\ Len(frame.rows) = IF top < 0 \/ Len(result.rows) <= top THEN Len(result.rows) ELSE top
        /\ \A n \in DOMAIN frame.rows : frame.rows[n] = result.rows[n]
    BY <2>1, <2>2, FirstRows
  <2>4. \A f \in frames : Len(f.rows) \in Nat /\ Len(f.rows) <= Len(frame.rows)
    BY <1>1, RowsOfAnswer
  <2>5. ASSUME top >= 0, NEW f \in frames PROVE Len(f.rows) <= top
    BY <2>2, <2>3, <2>4, <2>5
  <2> QED BY <2>3, <2>5 DEF top
<1> QED BY <1>1, StagesInOrder, LimitReachesTheFrame, AnswersAreFramed, PTL

\* No series of the "multi" format has null times, and every row is in a series
\* of each value column (SeriesAreComplete).
THEOREM SeriesKeepRows == Spec => []SeriesAreComplete
<1>1. ASSUME Framed PROVE SeriesAreComplete
  <2> SUFFICES ASSUME Answered, format = "multi", IsLong(frame)
               PROVE  /\ \A f \in frames : f.time = "time" /\ ~HasNullTime(f)
                      /\ \A n \in DOMAIN frame.rows, c \in frame.values :
                            \E f \in frames : f.values = {c} /\ frame.rows[n] \in ToSet(f.rows)
    BY DEF SeriesAreComplete
  <2> DEFINE g == Fixed(frame)
             len == Len(frame.rows)
  <2>1. g.rows = frame.rows /\ g.time = "time" /\ g.values = frame.values /\ ~HasNullTime(frame)
    BY <1>1 DEF Framed, Fixed, Frame, Fixable
  <2>2. frames = LongToMulti(g)
    BY <1>1 DEF Framed, Shaped, NeedsRows
  <2>3. len \in Nat /\ DOMAIN g.rows = 1..len
    BY <1>1, <2>1, RowsOfAnswer
  <2> HIDE DEF g, len
  <2>4. ASSUME NEW f \in frames
        PROVE  f.time = "time" /\ ~HasNullTime(f)
    <3>1. PICK l, c : f = Series(g, l, c)
      BY <2>2 DEF LongToMulti
    <3>2. /\ f.time = g.time
          /\ \A n \in DOMAIN f.rows : \E m \in Labelled(g, l) : f.rows[n] = g.rows[m]
      BY <2>3, <3>1, SeriesRows
    <3> QED BY <2>1, <3>2 DEF HasNullTime, Labelled
  <2>5. ASSUME NEW n \in DOMAIN frame.rows, NEW c \in frame.values
        PROVE  \E f \in frames : f.values = {c} /\ frame.rows[n] \in ToSet(f.rows)
    <3>1. Series(g, g.rows[n].label, c) \in frames
      BY <2>1, <2>2 DEF LongToMulti
    <3>2. n \in Labelled(g, g.rows[n].label)
      BY <2>1 DEF Labelled
    <3>3. /\ \A m \in Labelled(g, g.rows[n].label) :
               g.rows[m] \in ToSet(Series(g, g.rows[n].label, c).rows)
          /\ Series(g, g.rows[n].label, c).values = {c}
      BY <2>3, SeriesRows
    <3> QED BY <2>1, <3>1, <3>2, <3>3
  <2> QED BY <2>4, <2>5
<1> QED BY <1>1, AnswersAreFramed, PTL

\* A large response is logged by the rows the panel gets (LargeIsLogged):
\* however they are shaped, the frames together have as many.
THEOREM LargeResponsesAreLogged == Spec => []LargeIsLogged
<1>1. ASSUME Framed PROVE LargeIsLogged
  BY <1>1, RowsOfAnswer DEF LargeIsLogged, Framed
<1> QED BY <1>1, AnswersAreFramed, PTL

=============================================================================
