-------------------------------- MODULE DBQuery --------------------------------
(***************************************************************************)
(* One run of one query, from its JSON to its frames: NewDatasource sets   *)
(* the row limit, GetQuery injects the headers, the macros are applied,    *)
(* DBQuery.Run sends the query, and the rows that come back are validated, *)
(* converted, shaped and measured (query.go, interpolator.go, metrics.go,  *)
(* responseobs.go).                                                        *)
(*                                                                         *)
(* Module Datasource knows the outcome of such a run only as an error      *)
(* class, ok or noResults.                                                 *)
(***************************************************************************)
EXTENDS Headers, RowLimit, Frames

CONSTANTS
    Documents,     \* connection arguments that queries bring
    HeaderValues,  \* HTTP headers that requests bring
    Configs,       \* sources of the row limit
    Results,       \* what the server may return: the columns and the rows
    Thresholds     \* values of DriverSettings.ResponseThresholds.Rows, 0 for none

\* Members and rows come in sequences, blank arguments have no members, only a
\* nullable column has null times, columns are finitely many, and limits and
\* thresholds are numbers.
ASSUME DBQueryAssumption ==
    /\ \A doc \in Documents :
        /\ doc.members \in Seq({doc.members[n] : n \in DOMAIN doc.members})
        /\ doc.shape = "absent" => doc.members = <<>>
    /\ \A r \in Results :
        /\ r.rows \in Seq({r.rows[n] : n \in DOMAIN r.rows})
        /\ r.time \in {"none", "time", "nullable"}
        /\ r.time = "time" => \A n \in DOMAIN r.rows : r.rows[n].time # Null
        /\ IsFiniteSet(r.values)
    /\ Thresholds \subseteq Nat
    /\ \A c \in Configs :
        {c.settings, c.env.value, c.grafana.value, c.default, c.late} \subseteq Int

VARIABLES
    at,        \* what happens next
    config,    \* the sources of the row limit
    limit,     \* ds.rowLimit
    given,     \* the connection arguments as the query brought them
    args,      \* q.ConnectionArgs
    headers,   \* the HTTP headers of the request
    format,    \* q.Format
    retry,     \* the run is one of the timeout loop
    mutator,   \* the driver is a QueryErrorMutator
    threshold, \* DriverSettings.ResponseThresholds.Rows
    rows,      \* the *sql.Rows: none, open or closed
    result,    \* what the server returned
    frame,     \* the frame made of the rows
    frames,    \* the frames the run returns, none but an error frame if it fails
    err,       \* the error it returns
    source,    \* the source the run gives it
    marks,     \* what handleQuery finds in it
    timings,   \* the source and status of each observation of a duration
    observed,  \* the rows CollectResponseSize was told of, none before
    warned     \* whether a large response was logged

request == <<config, limit, given, args, headers, format, retry, mutator, threshold>>
failure == <<err, source, marks>>
outcome == <<failure, timings>>
measured == <<observed, warned>>
vars == <<at, config, limit, given, args, headers, format, retry, mutator, threshold,
          rows, result, frame, frames, err, source, marks, timings, observed, warned>>

NoFrame == Frame(<<>>, "none", FALSE, {})
NoResult == [columns |-> "ok", rows |-> <<>>, time |-> "none", labels |-> FALSE, values |-> {}]
NotObserved == -1

\* NewDatasource and the query's JSON.  Only the query that handleQuery runs
\* in its loop for timeouts is built without the response thresholds.
Init ==
    /\ at = "construct"
    /\ config \in Configs
    /\ limit = config.default
    /\ given \in Documents
    /\ args = given
    /\ headers \in HeaderValues
    /\ format \in Formats
    /\ retry \in BOOLEAN
    /\ mutator \in BOOLEAN
    /\ threshold \in Thresholds
    /\ rows = "none"
    /\ result = NoResult
    /\ frame = NoFrame
    /\ frames = {}
    /\ err = "none"
    /\ source = "none"
    /\ marks = {}
    /\ timings = <<>>
    /\ observed = NotObserved
    /\ warned = FALSE

\* ErrorQuery or a context error that the error wraps, as errors.Is finds it,
\* and a text of RetryOn in its message.  A context error is any that the SDK's
\* IsDownstreamError knows by itself, timeouts of the network included.
Marks == {"ErrorQuery", "context", "retryOn"}

\* The run, or what comes before it, ends with error e.
FailMarked(e, s, m) == err' = e /\ source' = s /\ marks' = m /\ at' = "done"
Fail(e, s) == FailMarked(e, s, {})

\* CollectDuration
Time(s, status) == timings' = Append(timings, <<s, status>>)

NewDatasource ==
    /\ at = "construct"
    /\ limit' = NewRowLimit(config)
    /\ at' = "headers"
    /\ UNCHANGED <<config, given, args, headers, format, retry, mutator, threshold, rows,
                   result, frame, frames, outcome, measured>>

\* The plugin sets the row limit of the instance after its construction.
SetDefaultRowLimit ==
    /\ at = "headers" /\ config.late # 0
    /\ limit' = config.late
    /\ UNCHANGED <<at, config, given, args, headers, format, retry, mutator, threshold,
                   rows, result, frame, frames, outcome, measured>>

\* GetQuery, for an instance with ForwardHeaders; without, args stay as given.
GetQuery ==
    /\ at = "headers"
    /\ IF Panics(args)
       THEN Fail("panic", "plugin") /\ UNCHANGED args
       ELSE /\ args' = ApplyHeaders(args, headers)
            /\ at' = "macros"
            /\ UNCHANGED failure
    /\ UNCHANGED <<config, limit, given, headers, format, retry, mutator, threshold, rows,
                   result, frame, frames, timings, measured>>

\* A macro with bad arguments or brackets is the user's mistake.
MacroErrors == {<<"badMacro", "downstream">>, <<"macro", "plugin">>}

\* By the driver's macros or the plugin's Interpolator.
Interpolate ==
    /\ at = "macros"
    /\ \/ at' = "send" /\ UNCHANGED failure
       \/ \E e \in MacroErrors : Fail(e[1], e[2])
    /\ UNCHANGED <<request, rows, result, frame, frames, timings, measured>>

-----------------------------------------------------------------------------
(* Run *)

\* The source of an error that Run shows to the mutator, if there is one.
Judged == IF mutator THEN {"plugin", "downstream"} ELSE {"plugin"}

\* What is found in a failure that Run wraps with ErrorQuery: a mutator returns
\* whatever it likes.
QueryMarks == IF mutator THEN SUBSET Marks ELSE {m \in SUBSET Marks : "ErrorQuery" \in m}

\* QueryContext fails.  The deferred observation reads errWithSource, which
\* the branch for cancellations shadows and a mutator that panics leaves unset.
QueryFails ==
    \/ FailMarked("canceled", "downstream", {"context"}) /\ Time("unset", "error")
    \/ \E s \in Judged, m \in QueryMarks : FailMarked("query", s, m) /\ Time(s, "error")
    \/ mutator /\ Fail("panic", "plugin") /\ Time("unset", "error")

Send ==
    /\ at = "send"
    /\ \/ QueryFails /\ UNCHANGED rows
       \/ /\ rows' = "open"
          /\ Time("downstream", "ok")
          /\ at' = "check"
          /\ UNCHANGED failure
    /\ UNCHANGED <<request, result, frame, frames, measured>>

\* rows.Err, which database/sql sets when it closes the rows: the context has
\* ended since.  No observation is made of sql.ErrNoRows.
CheckRows ==
    /\ at = "check"
    /\ \/ /\ rows' = "closed"
          /\ \/ Fail("noRows", "downstream") /\ UNCHANGED timings
             \/ \E s \in Judged, m \in QueryMarks : FailMarked("rows", s, m) /\ Time(s, "error")
             \/ mutator /\ Fail("panic", "plugin") /\ UNCHANGED timings
          /\ UNCHANGED result
       \/ /\ result' \in Results
          /\ at' = "validate"
          /\ UNCHANGED <<rows, outcome>>
    /\ UNCHANGED <<request, frame, frames, measured>>

\* Mutants of EndConversion: the rows are closed only if it succeeds; the
\* status that is observed is the one at its beginning.
EndConversionLeaving(s, status) ==
    Time(s, status) /\ rows' = IF status = "ok" THEN "closed" ELSE rows

EndConversionOk(s, status) == Time(s, "ok") /\ rows' = "closed"

\* convertRowsToFrames returns or panics: its deferred observation, and that
\* of Run, which closes the rows.
EndConversion(s, status) == Time(s, status) /\ rows' = "closed"

\* A converter, the driver's scan or the mutator panics: the status is "ok"
\* until getFrames has returned an error.
ConversionPanics(status) == Fail("panic", "plugin") /\ EndConversion("plugin", status)

\* getFrames has returned an error.  The mutator is not asked about what
\* IsDownstreamHTTPError takes for downstream: a context error, which reading
\* the columns or the rows may return, or one of the network.
ConversionFails(e) ==
    \/ \E s \in Judged : Fail(e, s) /\ EndConversion(s, "error")
    \/ /\ e \in {"validation", "convert"}
       /\ \E m \in SUBSET {"context"} : FailMarked(e, "downstream", m)
       /\ EndConversion("downstream", "error")
    \/ mutator /\ ConversionPanics("error")

\* Columns fails or panics, as on rows that are closed or that a driver got
\* wrong; the panic is recovered from right there.
ValidateRows ==
    /\ at = "validate"
    /\ \/ result.columns = "ok" /\ at' = "scan" /\ UNCHANGED <<rows, outcome>>
       \/ result.columns # "ok" /\ ConversionFails("validation")
    /\ UNCHANGED <<request, result, frame, frames, measured>>

\* Scanning may fail, a converter or the server being what they are.
FrameFromRows ==
    /\ at = "scan"
    /\ \/ (ConversionFails("convert") \/ ConversionPanics("ok")) /\ UNCHANGED frame
       \/ /\ frame' = FromRows(result, limit)
          /\ at' = "shape"
          /\ UNCHANGED <<rows, outcome>>
    /\ UNCHANGED <<request, result, frames, measured>>

Answer(fs) == frames' = fs /\ at' = "observe" /\ UNCHANGED <<rows, outcome>>
NoAnswer(e) == ConversionFails(e) /\ UNCHANGED frames

\* A long frame is converted, unless its times cannot be or the SDK refuses
\* it (for unsorted times, say).
ShapeLong ==
    \/ format = "multi" /\ ~Fixable(frame) /\ NoAnswer("nullTime")
    \/ format = "multi" /\ Fixable(frame) /\ Answer(LongToMulti(Fixed(frame)))
    \/ format = "timeseries" /\ Answer(LongToWide(frame))
    \/ (format = "timeseries" \/ Fixable(frame)) /\ NoAnswer("convert")

Shape ==
    /\ at = "shape"
    /\ IF NeedsRows(format) /\ frame.rows = <<>>
       THEN NoAnswer("noResults")
       ELSE IF NeedsRows(format) /\ IsLong(frame)
       THEN ShapeLong
       ELSE Answer({frame})
    /\ UNCHANGED <<request, result, frame, measured>>

\* Mutant of Crosses: the threshold itself is not large.
CrossesStrictly(n, t) == t > 0 /\ n > t

Crosses(n, t) == t > 0 /\ n >= t

CollectResponseSize(n) == observed' = n

\* Before the deferred calls.
ObserveResponseSize ==
    /\ at = "observe"
    /\ CollectResponseSize(TotalRows(frames))
    /\ warned' = Crosses(TotalRows(frames), IF retry THEN 0 ELSE threshold)
    /\ EndConversion("plugin", "ok")
    /\ at' = "done"
    /\ UNCHANGED <<request, result, frame, frames, failure>>

Next ==
    \/ NewDatasource \/ SetDefaultRowLimit \/ GetQuery \/ Interpolate
    \/ Send \/ CheckRows \/ ValidateRows \/ FrameFromRows \/ Shape
    \/ ObserveResponseSize

Spec == Init /\ [][Next]_vars

-----------------------------------------------------------------------------
(* Properties *)

Answered == at = "done" /\ err = "none"

\* The headers arrive on either path: whoever decodes the arguments finds them
\* under their key, whatever value the query brought under it and however it
\* spelled the key, and finds every other member.  Only the slow path changes
\* the value of another, and no path writes the key next to a plain one.  A
\* document that mentions the key and has a number no float64 holds is the
\* exception: it stays as it is.
HeadersArrive ==
    /\ at \notin {"construct", "headers"}
    /\ given.shape \in {"absent", "object"} /\ (Mentions(given) => Decodable(given))
    => /\ Keys(args) = Keys(given) \cup {HeaderKey}
       /\ Decode(args)[HeaderKey] = headers
       /\ \A k \in Keys(given) \ {HeaderKey} :
            Decode(args)[k] = IF Mentions(given) THEN Reread[Decode(given)[k]]
                              ELSE Decode(given)[k]
       /\ \A m, n \in PlainHeaders(args) : m = n

\* The configured limit: of the sources in the order of newRowLimit's comment,
\* the first that says something, if limits are enabled.
Saying(c) ==
    {i \in 1..4 : /\ c.enabled
                  /\ \/ i = 1 /\ c.settings # 0
                     \/ i = 2 /\ c.env.kind = "number" /\ c.env.value >= 0
                     \/ i = 3 /\ c.grafana.kind = "number"
                     \/ i = 4 /\ c.default # 0}
Ceiling(c) ==
    LET First == CHOOSE i \in Saying(c) : \A j \in Saying(c) : i <= j
    IN  IF Saying(c) = {} THEN NoLimit
        ELSE <<c.settings, c.env.value, c.grafana.value, c.default>>[First]

\* An answer is made of the first rows of the result, as many as the configured
\* limit allows and no fewer, and no frame of it has more, in whatever format;
\* unless the plugin sets its default after the construction.
LimitHolds ==
    Answered /\ config.late = 0 =>
        LET top == Ceiling(config)
        IN  /\ Len(frame.rows) = IF top < 0 \/ Len(result.rows) <= top THEN Len(result.rows)
                                 ELSE top
            /\ \A n \in DOMAIN frame.rows : frame.rows[n] = result.rows[n]
            /\ top >= 0 => \A f \in frames : Len(f.rows) <= top

\* In the "multi" format every series has times, none of them null, and every
\* row is in a series of each value column: no value is left behind.
SeriesAreComplete ==
    Answered /\ format = "multi" /\ IsLong(frame) =>
        /\ \A f \in frames : f.time = "time" /\ ~HasNullTime(f)
        /\ \A n \in DOMAIN frame.rows, c \in frame.values :
              \E f \in frames : f.values = {c} /\ frame.rows[n] \in ToSet(f.rows)

\* How many rows the panel gets: a row for each value column, one for each
\* time, or the rows as they are.
Delivered ==
    IF ~NeedsRows(format) \/ ~IsLong(frame) THEN Len(frame.rows)
    ELSE IF format = "multi" THEN Len(frame.rows) * Cardinality(frame.values)
    ELSE Cardinality(Times(frame))

\* A large response is logged however it was shaped, by the number of rows that
\* the panel gets and never without a threshold; except on a retry after a
\* timeout.
LargeIsLogged ==
    Answered => /\ observed = Delivered
                /\ warned <=> ~retry /\ threshold > 0 /\ Delivered >= threshold

\* However a run ends, by whichever return or by a panic, it gives the
\* connection its rows occupy back to the pool of the handle.
RowsAreClosed == at = "done" => rows # "open"

\* The source that QueryData reports for the run's error (errors.go:26-31).
ErrorSource == IF source = "downstream" \/ "context" \in marks THEN "downstream" ELSE "plugin"

\* What handleQuery answers when it does not run the query again: no results
\* are no error, and an error it would retry is downstream.
Reported ==
    IF err \in {"none", "noResults"} THEN "ok"
    ELSE IF {"ErrorQuery", "retryOn"} \subseteq marks THEN "downstream"
    ELSE ErrorSource

\* A failure that is answered as the plugin's is counted as the plugin's, and
\* what is counted as such is answered so, or it is one of the four kinds that
\* handleQuery and the SDK turn into something else after the observation: no
\* results, context errors, errors to be retried, and panics that come later.
TimedAsAnswered ==
    at = "done" /\ ~retry /\ timings # <<>> =>
        LET counted == timings[Len(timings)]
        IN  /\ Reported = "plugin" /\ err # "panic" => counted = <<"plugin", "error">>
            /\ counted = <<"plugin", "error">> =>
                  \/ Reported = "plugin"
                  \/ err = "noResults" \/ "context" \in marks
                  \/ {"ErrorQuery", "retryOn"} \subseteq marks
            /\ err = "none" => counted = <<"plugin", "ok">>

-----------------------------------------------------------------------------
(* The inductive invariant behind the safety properties.                   *)

\* The source and the status of a duration.
Observations == {"unset", "plugin", "downstream"} \X {"ok", "error"}

\* What a run has not done yet, by where it is.
Staged ==
    /\ given \in Documents /\ config \in Configs /\ limit \in Int
    /\ timings \in Seq(Observations)
    /\ at \in {"construct", "headers"} => args = given
    /\ at \in {"construct", "headers", "macros", "send"} => rows # "open" /\ timings = <<>>
    /\ at = "check" => timings = << <<"downstream", "ok">> >>
    /\ at \in {"validate", "scan", "shape", "observe"} \/ Answered => result \in Results
    /\ threshold \in Nat
    /\ at # "done" => err = "none"

\* The configured limit is the one that is set, and the frame that is made of
\* the rows has the first of them, up to the limit.
Limited ==
    config.late = 0 =>
        /\ at # "construct" => limit = Ceiling(config)
        /\ at \in {"shape", "observe"} \/ Answered => frame = FromRows(result, Ceiling(config))

\* The frames that are made of the frame, by the format.
Shaped ==
    IF ~NeedsRows(format) \/ ~IsLong(frame) THEN {frame}
    ELSE IF format = "multi" THEN LongToMulti(Fixed(frame))
    ELSE LongToWide(frame)

\* The frame is a frame, and an answer is what was made of it and measured.
Framed ==
    /\ frame = Frame(frame.rows, frame.time, frame.labels, frame.values)
    /\ IsFiniteSet(frame.values)
    /\ frame.rows \in Seq({frame.rows[n] : n \in DOMAIN frame.rows})
    /\ frame.time \in {"none", "time", "nullable"}
    /\ frame.time = "time" => ~HasNullTime(frame)
    /\ at = "observe" \/ Answered =>
        /\ frames = Shaped
        /\ format = "multi" /\ IsLong(frame) => Fixable(frame)
    /\ Answered =>
        /\ observed = TotalRows(frames)
        /\ warned <=> ~retry /\ threshold > 0 /\ TotalRows(frames) >= threshold

=============================================================================
