------------------------------ MODULE Datasource ------------------------------
(***************************************************************************)
(* What a query and a health check do with their connection: handleQuery   *)
(* of datasource.go with DBQuery.Run of query.go, connectWithRetries of    *)
(* connector.go and HealthChecker.Check of health.go, over the cache and   *)
(* the Reconnect of module Connector.                                      *)
(*                                                                         *)
(* An error is abstracted to its class, that is, to what the code tests:   *)
(* whether it wraps ErrorQuery, whether it wraps DeadlineExceeded, and     *)
(* whether its text contains one of DriverSettings.RetryOn.                *)
(***************************************************************************)
EXTENDS Connector, Integers

CONSTANTS
    Retries,   \* DriverSettings.Retries
    RetryOn,   \* the error classes whose text DriverSettings.RetryOn matches
    Timeout,   \* whether DriverSettings.Timeout is set
    Mutator    \* whether the driver is a QueryErrorMutator

\* Classes of the outcome of one run of a query.
\*   closed       "sql: database is closed" from QueryContext
\*   transient    an error of the driver, of the kind retries are meant for
\*   fatal        any other error of the driver
\*   deadline     DeadlineExceeded from QueryContext or rows.Err
\*   canceled     Canceled from QueryContext
\*   rowsCanceled Canceled from rows.Err
\*   mutated      what a QueryErrorMutator made of an error, ErrorQuery lost
\*   convDeadline DeadlineExceeded without ErrorQuery: from the conversion of
\*                the rows, or as a QueryErrorMutator left it
\*   badRows      any other failure to convert the rows
\*   noResults    ErrorNoResults
QueryErrors == {"closed", "transient", "fatal", "deadline", "rowsCanceled"}
RunErrors ==
    QueryErrors \cup {"canceled", "mutated", "convDeadline", "badRows", "noResults"}
\* Errors of a request before, between and after its runs.
OtherErrors == {"missing", "refused", "connect", "early", "hook", "panic"}

ASSUME DatasourceAssumption ==
    /\ Retries \in Nat
    /\ RetryOn \subseteq RunErrors
    /\ Timeout \in BOOLEAN
    /\ Mutator \in BOOLEAN

VARIABLES
    step,    \* what a request that holds a connection does next
    loop,    \* which part of handleQuery a query is in
    i,       \* the loop counter
    err,     \* err of handleQuery: the error of the first run
    last,    \* the outcome of the latest run
    ctx,     \* the request's context
    answer   \* what the request returned

requestState == <<step, loop, i, err, last>>
dsVars == <<step, loop, i, err, last, ctx, answer>>
allVars == <<cache, opened, closed, argsOf, pc, args, key, conn, db, dispose,
             sweep, step, loop, i, err, last, ctx, answer>>

Retryable(e) == e \in RetryOn                       \* shouldRetry
IsErrorQuery(e) == e \in QueryErrors                \* errors.Is(e, ErrorQuery)
IsDeadline(e) == e \in {"deadline", "convDeadline"} \* errors.Is(e, DeadlineExceeded)

\* What the error of QueryContext or rows.Err becomes: the mutator may keep it
\* or replace it.
Mutated(e) ==
    IF ~(Mutator /\ IsErrorQuery(e)) THEN {e}
    ELSE {e, "mutated"} \cup (IF IsDeadline(e) THEN {"convDeadline"} ELSE {})

\* ErrorSource of the error that Run, Reconnect or GetConnectionFromQuery
\* returns.  The mutator decides for the errors it sees, and the rows may bring
\* a downstream HTTP error; but what wraps a cancellation or a timeout is
\* downstream for the SDK's IsDownstreamError whatever the code marked it as.
SourcesOf(e) ==
    IF e \in {"connect", "canceled", "rowsCanceled"} \/ IsDeadline(e) THEN {"downstream"}
    ELSE IF e = "badRows" \/ Mutator THEN {"plugin", "downstream"}
    ELSE {"plugin"}

\* Mutant of Converted: the conversion is left out.
Unconverted(e) == SourcesOf(e)

\* "Convert retryable errors to downstream errors."
Converted(e) ==
    IF IsErrorQuery(e) /\ Retryable(e) THEN {"downstream"} ELSE SourcesOf(e)

NoAnswer == [err |-> "none", source |-> "none"]
Success == [err |-> "ok", source |-> "none"]
Failure(e, source) == [err |-> e, source |-> source]

DInit ==
    /\ Init
    /\ step = [r \in Requests |-> IF r \in Queries THEN "run"
                                  ELSE IF Retries = 0 THEN "ping" ELSE "redial"]
    /\ loop = [r \in Requests |-> "first"]
    /\ i = [r \in Requests |-> 0]
    /\ err = [r \in Requests |-> "none"]
    /\ last = [r \in Requests |-> "none"]
    /\ ctx = [r \in Requests |-> "live"]
    /\ answer = [r \in Requests |-> NoAnswer]

Set(r, a) == answer' = [answer EXCEPT ![r] = a]

\* The request returns a and lets go of its connection.
Answer(r, a) == Return(r) /\ Set(r, a) /\ UNCHANGED <<step, loop, i, err, ctx>>

AnswerError(r, e, sources) == \E source \in sources : Answer(r, Failure(e, source))

-----------------------------------------------------------------------------
(* Before the connection *)

\* The query JSON is bad (a plugin error) or its macros are (a downstream
\* error), or PreCheckHealth says no.  The result of a health check has no
\* error source; its metrics say downstream whatever the failure.
RejectEarly(r) ==
    /\ pc[r] = "idle" /\ answer[r] = NoAnswer
    /\ \E source \in IF r \in Queries THEN {"plugin", "downstream"} ELSE {"downstream"} :
          Set(r, Failure("early", source))
    /\ UNCHANGED <<vars, requestState, ctx>>

\* Why a request that ends in this step got no connection.
AcquireError(r) ==
    CASE pc[r] = "dial" -> Failure("connect", "downstream")
      [] pc[r] = "idle" /\ r \in Queries /\ Refused(args'[r]) -> Failure("refused", "plugin")
      [] OTHER -> Failure("missing", IF r \in Queries THEN "plugin" ELSE "downstream")

\* One step of GetConnectionFromQuery, or of the lookup in Connect.
Acquire(r) ==
    /\ answer[r] = NoAnswer
    /\ \/ BeginQuery(r) \/ LookupHit(r) \/ LookupMiss(r)
       \/ DialNew(r) \/ DialFails(r) \/ StoreNew(r) \/ BeginCheck(r)
    /\ IF pc'[r] = "done" THEN Set(r, AcquireError(r)) ELSE UNCHANGED answer
    /\ UNCHANGED <<requestState, ctx>>

-----------------------------------------------------------------------------
(* The context of a request *)

\* Mutant of Expire: the deadline closes the handle the query runs on.
ExpireAndClose(r) ==
    /\ Timeout /\ r \in Queries /\ Acquired(r) /\ ctx[r] = "live"
    /\ ctx' = [ctx EXCEPT ![r] = "expired"]
    /\ closed' = closed \cup {db[r]}
    /\ UNCHANGED <<cache, opened, argsOf, requestVars, disposeVars, requestState, answer>>

\* The one deadline handleQuery sets, for the first run and all retries.
Expire(r) ==
    /\ Timeout /\ r \in Queries /\ Acquired(r) /\ ctx[r] = "live"
    /\ ctx' = [ctx EXCEPT ![r] = "expired"]
    /\ UNCHANGED <<vars, requestState, answer>>

\* The caller goes away.
Cancel(r) ==
    /\ pc[r] \notin {"idle", "done"} /\ ctx[r] = "live"
    /\ ctx' = [ctx EXCEPT ![r] = "canceled"]
    /\ UNCHANGED <<vars, requestState, answer>>

-----------------------------------------------------------------------------
(* handleQuery after Run has returned o *)

\* Mutants of Iterate: one retry too many; the retries are not counted.
IterateOnceMore(r) ==
    /\ i[r] < Retries
    /\ i' = [i EXCEPT ![r] = @ + 1]
    /\ step' = [step EXCEPT ![r] = "redial"]
    /\ UNCHANGED <<vars, loop, err, ctx, answer>>

IterateForever(r) ==
    /\ i[r] + 1 < Retries
    /\ step' = [step EXCEPT ![r] = "redial"]
    /\ UNCHANGED <<vars, loop, i, err, ctx, answer>>

\* One more iteration of the current loop, or the first of a new one.
Iterate(r) ==
    /\ i[r] + 1 < Retries
    /\ i' = [i EXCEPT ![r] = @ + 1]
    /\ step' = [step EXCEPT ![r] = "redial"]
    /\ UNCHANGED <<vars, loop, err, ctx, answer>>

EnterLoop(r, l, o) ==
    /\ Retries > 0
    /\ loop' = [loop EXCEPT ![r] = l]
    /\ err' = [err EXCEPT ![r] = o]
    /\ step' = [step EXCEPT ![r] = "redial"]
    /\ UNCHANGED <<vars, i, ctx, answer>>

\* Mutant of Exhausted: the error of the first run is lost.
ExhaustedSilently(r) == i[r] + 1 = Retries /\ Answer(r, Success)

\* The loop is over: handleQuery falls through to its last return, with the
\* error of the first run.
Exhausted(r) ==
    /\ i[r] + 1 = Retries
    /\ AnswerError(r, err[r], Converted(err[r]))

WantsRetry(o) == IsErrorQuery(o) /\ ~IsDeadline(o) /\ Retryable(o)

AfterFirst(r, o) ==
    \/ o \in {"ok", "noResults"} /\ Answer(r, Success)
    \/ WantsRetry(o) /\ EnterLoop(r, "retry", o)
    \/ IsDeadline(o) /\ EnterLoop(r, "timeout", o)
    \/ /\ o \notin {"ok", "noResults"}
       /\ Retries = 0 \/ ~(WantsRetry(o) \/ IsDeadline(o))
       /\ AnswerError(r, o, Converted(o))

AfterRetry(r, o) ==
    \/ o = "ok" /\ Answer(r, Success)
    \/ o # "ok" /\ ~Retryable(o) /\ AnswerError(r, o, SourcesOf(o))
    \/ o # "ok" /\ Retryable(o) /\ (Iterate(r) \/ Exhausted(r))

AfterTimeout(r, o) ==
    \/ o = "ok" /\ Answer(r, Success)
    \/ o # "ok" /\ (Iterate(r) \/ Exhausted(r))

AfterRun(r, o) ==
    /\ last' = [last EXCEPT ![r] = o]
    /\ \/ loop[r] = "first" /\ AfterFirst(r, o)
       \/ loop[r] = "retry" /\ AfterRetry(r, o)
       \/ loop[r] = "timeout" /\ AfterTimeout(r, o)

-----------------------------------------------------------------------------
(* DBQuery.Run *)

About(r, s) == pc[r] = "ready" /\ step[r] = s

\* What QueryContext of database/sql can fail with: a closed handle is
\* noticed before an ended context, and that before the server is asked.
SendErrors(r) ==
    IF db[r] \in closed THEN {"closed"}
    ELSE CASE ctx[r] = "expired" -> {"deadline"}
           [] ctx[r] = "canceled" -> {"canceled"}
           [] OTHER -> {"transient", "fatal", "deadline"}

Send(r) ==
    /\ About(r, "run")
    /\ \/ \E e \in SendErrors(r) : \E o \in Mutated(e) : AfterRun(r, o)
       \/ /\ db[r] \notin closed /\ ctx[r] = "live"
          /\ step' = [step EXCEPT ![r] = "rows"]
          /\ UNCHANGED <<vars, loop, i, err, last, ctx, answer>>

\* rows.Err and convertRowsToFrames: a context that has ended since
\* QueryContext returned may show in either, or not at all.
ReadOutcomes(r) ==
    {"ok", "noResults", "badRows"} \cup
    CASE ctx[r] = "expired" -> {"deadline", "convDeadline"}
      [] ctx[r] = "canceled" -> {"rowsCanceled"}
      [] OTHER -> {}

Read(r) ==
    /\ About(r, "rows")
    /\ \E e \in ReadOutcomes(r) : \E o \in Mutated(e) : AfterRun(r, o)

-----------------------------------------------------------------------------
(* Reconnect, called from both loops of handleQuery and from               *)
(* connectWithRetries                                                      *)

Reconnect(r) ==
    \/ /\ About(r, "redial") /\ Redial(r)
       /\ UNCHANGED dsVars
    \/ /\ CloseOld(r)
       /\ UNCHANGED dsVars
    \/ /\ StoreFresh(r)
       /\ step' = [step EXCEPT ![r] = IF r \in Queries THEN "run" ELSE "ping"]
       /\ UNCHANGED <<loop, i, err, last, ctx, answer>>

\* driver.Connect fails: the first loop and the health check give up, the
\* timeout loop tries again.
RedialFails(r) ==
    /\ About(r, "redial")
    /\ UNCHANGED last
    /\ IF loop[r] = "timeout"
       THEN Iterate(r) \/ Exhausted(r)
       ELSE Answer(r, Failure("connect", "downstream"))

-----------------------------------------------------------------------------
(* connect and ping of a health check *)

PingErrors(r) ==
    IF db[r] \in closed THEN {"closed"}
    ELSE IF ctx[r] = "canceled" THEN {"canceled"}
    ELSE {"transient", "fatal"} \cup (IF Timeout THEN {"deadline"} ELSE {})

\* The ping succeeds; PostCheckHealth may still object.
PingOk(r) ==
    /\ db[r] \notin closed /\ ctx[r] = "live"
    /\ \E a \in {Success, Failure("hook", "downstream")} : Answer(r, a)

PingFails(r, e) ==
    \/ /\ Retries = 0 \/ ~Retryable(e) \/ i[r] + 1 = Retries
       /\ Answer(r, Failure(e, "downstream"))
    \/ Retryable(e) /\ Iterate(r)

Ping(r) ==
    /\ About(r, "ping")
    /\ PingOk(r) \/ \E e \in PingErrors(r) : PingFails(r, e)
    /\ UNCHANGED last

-----------------------------------------------------------------------------
\* A panic out of handleQuery, from whatever of the plugin it calls: mutators
\* and macros, driver.Connect, the driver below QueryContext, a converter.
\* QueryData recovers from it and answers.
Panic(r) ==
    /\ r \in Queries /\ answer[r] = NoAnswer
    /\ \/ pc[r] = "idle" /\ UNCHANGED vars
       \/ DialFails(r)
       \/ Return(r)
    /\ Set(r, Failure("panic", "plugin"))
    /\ UNCHANGED <<requestState, ctx>>

-----------------------------------------------------------------------------
Proceed(r) ==
    Acquire(r) \/ Send(r) \/ Read(r) \/ Reconnect(r) \/ RedialFails(r) \/ Ping(r)

Background == (DisposeStep \/ \E k \in Key : Evict(k)) /\ UNCHANGED dsVars

DNext ==
    \/ \E r \in Requests :
        RejectEarly(r) \/ Proceed(r) \/ Panic(r) \/ Expire(r) \/ Cancel(r)
    \/ Background

DSpec == DInit /\ [][DNext]_allVars

\* Calls of the driver and of database/sql return, so a request that has
\* begun takes its next step; and a Dispose that has started goes on.
DFairness ==
    /\ \A r \in Requests : WF_allVars(pc[r] # "idle" /\ Proceed(r))
    /\ WF_allVars(DisposeGoesOn /\ UNCHANGED dsVars)

FairDSpec == DSpec /\ DFairness

-----------------------------------------------------------------------------
(* Properties *)

DTypeOK ==
    /\ step \in [Requests -> {"run", "rows", "redial", "ping"}]
    /\ loop \in [Requests -> {"first", "retry", "timeout"}]
    /\ i \in [Requests -> {0} \cup 0..(Retries - 1)]
    /\ err \in [Requests -> RunErrors \cup {"none"}]
    /\ last \in [Requests -> RunErrors \cup {"none", "ok"}]
    /\ ctx \in [Requests -> {"live", "expired", "canceled"}]
    /\ answer \in [Requests ->
                    [err : RunErrors \cup OtherErrors \cup {"none", "ok"},
                     source : {"none", "plugin", "downstream"}]]

Answered(r) == answer[r] # NoAnswer

\* A request whose answer is that its database was closed was disturbed: some
\* other request reconnected, or Dispose or an eviction closed the handle.
ClosedMeansDisturbed ==
    \A r \in Requests : answer[r].err = "closed" =>
        \/ Evicts \/ dispose # "no"
        \/ \E s \in Requests \ {r} : conn[s] \in closed /\ db[s] # conn[s]

\* A query error that the settings call retryable never reaches the caller as
\* the plugin's fault, through whichever of the returns of handleQuery it
\* leaves.
RetryableIsDownstream ==
    \A r \in Queries :
        IsErrorQuery(answer[r].err) /\ Retryable(answer[r].err)
            => answer[r].source = "downstream"

\* Retrying loses no success and invents none: a query that ran is answered
\* with success exactly if a run brought rows, or its only run brought none.
SuccessIsTheLastRun ==
    \A r \in Queries : Answered(r) =>
        (answer[r].err = "ok" <=>
            last[r] = "ok" \/ (last[r] = "noResults" /\ loop[r] = "first"))

\* Every request that begins is answered.
EveryRequestAnswered ==
    \A r \in Requests : pc[r] # "idle" ~> Answered(r)

\* No handle is lost: whatever is open is in the cache or in the hands of a
\* request about to store it.
NoLeak == Leaked = {}

\* s and t replaced the same handle, or were given different ones for the same
\* arguments: each dialled one, or one dialled and the other replaced or came
\* after a replacement.
Collided(s, t) ==
    /\ key[s] = key[t] /\ NoDB \notin {conn[s], conn[t]}
    /\ \/ conn[s] = conn[t] /\ db[s] # conn[s] /\ db[t] # conn[t]
       \/ conn[s] # conn[t] /\ key[s] # DefaultKey

\* What it takes to lose a handle.
Racy ==
    \/ Evicts \/ dispose = "done"
    \/ \E r \in Requests : i[r] > 0
    \/ \E s \in Requests : \E t \in Requests \ {s} : Collided(s, t)

\* While the cache neither evicts nor has been cleared, a handle is lost only
\* by a second retry, or because two requests collided: a request that keeps
\* to itself and retries once closes what it replaces.
LeakNeedsRace == Leaked # {} => Racy

\* "allow retries on timeouts" (datasource.go handleQuery): when the loop for
\* timeouts begins, there is time left for its retries.
TimeoutRetryHasTime ==
    [][\A r \in Queries :
          loop[r] # "timeout" /\ loop'[r] = "timeout" => ctx[r] # "expired"]_allVars

-----------------------------------------------------------------------------
(* The inductive invariant behind LeakNeedsRace, next to that of Connector. *)

\* What is cached under arguments was taken by a request of those arguments.
CachedWasTaken ==
    \A k \in Args : cache[k] # NoDB =>
        \E s \in Requests : key[s] = k /\ conn[s] # NoDB

\* The handle that is about to be replaced is closed.
ReplacedIsClosed == \A r \in Requests : pc[r] = "swap" => conn[r] \in closed

\* Until its second retry a request replaces a handle at most once: a query
\* only when it has left the first part of handleQuery.
ReplacesOnce ==
    \A r \in Requests : i[r] = 0 =>
        /\ r \in Checks => step[r] \in {"redial", "ping"}
        /\ pc[r] = "ready" /\ step[r] = "redial" => db[r] = conn[r]
        /\ r \in Queries /\ loop[r] = "first" /\ pc[r] # "done" =>
            /\ pc[r] \notin {"close", "swap"} /\ step[r] # "redial"
            /\ pc[r] = "ready" => db[r] = conn[r]

\* The handle r took is still cached, or somebody else has replaced it.
StillThere(r) ==
    \/ cache[key[r]] = conn[r]
    \/ \E s \in Requests \ {r} : key[s] = key[r] /\ conn[s] = conn[r] /\ db[s] # conn[s]

\* So it is until r has replaced it.
TakenStillThere ==
    ~Racy => \A r \in Requests :
        Acquired(r) /\ (pc[r] = "ready" => db[r] = conn[r]) => StillThere(r)

=============================================================================
