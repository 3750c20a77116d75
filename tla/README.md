# A TLA+ development of sqlds

`sqlds` is a Go library for Grafana SQL datasource plugins. A plugin supplies a driver (it opens
`*sql.DB` handles); the library keeps the handles of one datasource instance in a cache, runs the
queries of each request on goroutines of their own, reconnects and retries when a query fails, and
turns rows into data frames. This directory holds TLA+ models of it, the TLC configurations that
check them and theorems about them proved with TLAPS.

## 1. Inventory

| part | source | state | operations | what makes it right |
|---|---|---|---|---|
| connection cache | `connector.go`, `cache.go` | a concurrent map from key to handle; whether a handle is closed | `NewConnector`, `GetConnectionFromQuery`, `Connect`, `Reconnect`, `Dispose` | a request runs on a handle of its own arguments; a closed handle does not stay in the cache; the bootstrap entry survives; nothing is lost at `Dispose` |
| query execution | `datasource.go` (`handleQuery`), `query.go` (`Run`) | the loops' counters, the errors of the first and of the latest run, the deadline, the rows | run, retry loop, timeout loop, error mutator | every query is answered; the answer is that of the last run; retryable errors are not blamed on the plugin; retries lose no handle; rows are closed whatever happens |
| health check | `health.go`, `connector.go` (`connectWithRetries`) | the loop counter | ping, reconnect and ping | as above |
| QueryData | `datasource.go`, `response.go` | a `WaitGroup`, a mutex-guarded response map | add, mutate, launch, handle, recover, set, wait, join errors | returns, after all queries; each RefID gets its own answer, panics included |
| error classes | `errors.go` | none | `ErrorSource` | see query execution |
| row limit | `datasource.go` (`newRowLimit`, `SetDefaultRowLimit`) | `rowLimit`, `EnableRowLimit` | compute at construction, set | precedence of four sources |
| header forwarding | `query.go` (`applyHeaders`) | none | inject into the JSON arguments, fast and slow | the headers arrive on both paths, over whatever the query brought under their key; every other member is still there |
| rows to frames | `query.go` (`getFrames`) | none | validate, convert, per format | which outcomes are errors; no null times reach the conversion; no row is left out of the series |
| response size | `query.go`, `responseobs/` | counters | sum rows and cells, compare with thresholds | every large response is reported, however it was shaped |
| macros | `interpolator.go`, `macros.go` | none | interpolate | a user's mistake is not blamed on the plugin |
| metrics | `metrics.go` | none (two histograms) | observe durations and sizes | what is counted as the plugin's failure is answered as such, and the other way round |
| lifecycle | `datasource.go` (`NewDatasource`, `Dispose`) | the instance's connector and its bootstrap handle | construct, fail, dispose | a replaced instance is disposed of, and nothing else is; its requests end on its own settings |
| resource routes, completion | `completion.go` | the routes of the mux | register, serve | a call for completion is answered by the driver's `Completable`, unless the plugin's middleware answers it |
| driver interfaces, mocks | `driver.go`, `mock/`, `test/` and others | none | | interfaces and test doubles |

**Interaction.** A call of `QueryData` starts a goroutine per query. Each calls `handleQuery`, which
takes a handle out of the cache that it shares with every other query of every other call, with
health checks and with `Dispose`. No lock spans two cache operations, so `Load`, the driver's
`Connect`, `db.Close` and `Store` of different requests interleave freely; everything hard about the
code comes from there, from the loops that reuse a handle taken earlier, from the one deadline that
spans all runs, and from the counting in `QueryData`. Around all of it, the SDK's instance manager
constructs an instance when settings have changed and disposes of the old one while requests are still
in it. `PROJECT.json` lists the hazards line by line.

## 2. Modules

    Lifecycle --- Resources            Plugin : QueryData x Datasource
                                                      |          |
    DBQuery --- Headers, RowLimit, Frames           FanOut    Connector --- Handles
                                                   (abstract)             (abstract)

`Connector` is the cache: one action per call of the cache, the driver or `Close`.

| code | model |
|---|---|
| `Connector.cache` (sync.Map) | `cache`, with `NoDB` for an absent key |
| a `*sql.DB` | a member of `DB`; `opened`, `closed`, `argsOf` (what it was opened with) |
| a goroutine in `GetConnectionFromQuery` or `Reconnect` | `pc[r]`; its locals `args`, `key`, `conn` (dbConn), `db` |
| `NewConnector` | `Init` |
| `GetConnectionFromQuery` | `BeginQuery` (refusal, bootstrap lookup), `LookupHit`, `LookupMiss`, `DialNew`, `DialFails`, `StoreNew` |
| `Connect` (up to the lookup) | `BeginCheck` |
| `Reconnect` | `Redial`, `CloseOld`, `StoreFresh`; a failed dial changes nothing |
| `syncMapCache.Dispose` | `DisposeStart`, `DisposeVisit(k)`, `DisposeClear`, with what `sync.Map.Range` guarantees and no more |
| a custom cache with eviction | `Evict(k)` (external; only with `Evicts`) |

The cache key of connection arguments, a SHA-256 of them, is the arguments themselves (no
collisions). `ForwardHeaders` makes the arguments non-empty, as `applyHeaders` does. A visit of
`Dispose` loads an entry and closes it in one step: only `Dispose` itself could tell.

`Handles` says what that cache promises to its users without cache, keys or the order of calls: a pool of
handles that are fresh, open or closed. `Connector` implements it (`PoolSpec`) under the mapping `Pool`:
a handle is fresh until it is stored, what a request took is `conn`, what it is about to publish is `db`
while it dials. `Strict` clients, who insist on a handle of their own arguments, are the queries of
an instance with `EnableMultiple`.

`Datasource` EXTENDS `Connector`: its actions are those of the cache, with what `handleQuery` and the
health check do around each, so that it implements `Connector` by construction (`Implementation`, by
which the theorems on the cache carry over). It adds what a request does with its connection: `Send` and
`Read` are the two places where `Run` can fail (`QueryContext`; `rows.Err` and the conversion),
`AfterRun` is the code of `handleQuery` that looks at the error, `Reconnect` and `RedialFails` the
calls of `Connector.Reconnect`, `Ping` the health check, `Expire` and `Cancel` the request's context.
Errors are classes: what the code tests of an error is whether it wraps `ErrorQuery`, whether it wraps
`DeadlineExceeded`, and whether its text matches `RetryOn`, so any set of classes may be retryable.
`err` is the outer variable of `handleQuery` and `last` the outcome of the latest run; that the loops
shadow the former is why both exist. The source of an error follows the SDK's `IsDownstreamError`,
which also counts cancellations and timeouts as downstream. A query error mutator (`Mutator`) may keep
an error or replace it (`mutated`; `convDeadline` if a timeout shows through), by which it also decides
whether the error is retried. `Panic` is a panic of any part of the plugin that `handleQuery`
calls; `QueryData` recovers from it.

`QueryData` is one call of `QueryData`: the caller's program counter `main`, the counter `wg`, a
program counter `go[q]` per goroutine. What happens inside `handleQuery` is one action with three
outcomes (frames, error, panic). A negative counter kills the process (`crashed`). It implements
`FanOut`, a call without goroutines or counters whose queries finish one by one and which returns when
none is left (`PromiseKept`).

`Plugin` puts the two together: a goroutine of `QueryData` runs the `handleQuery` of `Datasource` on the
cache of `Connector`, and the step with which it is answered becomes `HandleQuery` of `QueryData`
(`HandOver`). What `QueryData` takes for granted of `handleQuery`, that it comes back and leaves the call
alone meanwhile, is there a property (`QueryDataSpec`: the composition implements `QueryData`,
fairness included).

`DBQuery` is one run of one query looked at more closely, over three modules of pure operators:
`RowLimit` (`newRowLimit`), `Headers` (`applyHeaders`) and `Frames` (`getFrames`,
`fixFrameForLongToMulti`).

| code | model |
|---|---|
| `NewDatasource`, `SetDefaultRowLimit` after it | `NewDatasource`, `SetDefaultRowLimit` |
| `GetQuery`, `interpolate` | `GetQuery` (headers), `Interpolate` |
| `Run`: `QueryContext`, `rows.Err` | `Send` with `QueryFails`, `CheckRows` |
| `convertRowsToFrames`: `validateRows`, `FrameFromRows`, the formats | `ValidateRows`, `FrameFromRows`, `Shape` |
| the deferred `rows.Close` and observations, on each way out | `EndConversion`, with `ConversionFails`, `ConversionPanics` |
| `CollectDuration`, `CollectResponseSize`, the log of large responses | `timings`, `observed`, `warned` |
| what `handleQuery` and `ErrorSource` find in an error | `marks`; `ErrorSource`, `Reported` |

An argument document is its shape and, for an object, its sequence of members, each a key, how the
text spells it, and a value. That tells apart what the two paths of `applyHeaders` do: the fast one
appends to the text, unless it finds the quoted key in it (`Mentions`): a key written with an escape is
not found, and one inside a value is; the slow one decodes into a map of `any` and encodes again, by which
the last of repeated keys wins and a value becomes `Reread` of it (an integer above 2^53 is rounded), or
fails for a number that is out of range (`Refused`). A frame has at most a time and a string column
besides any number of value columns, which is what decides how it is converted: to one series for each
label and value column, or to a row for each time. A failure has a source, by which it is counted, and
`marks`, by which it is answered: an error the plugin is counted for may be answered as downstream,
because a context error is in it or it is to be retried. `Datasource` knows the outcome of a run only
as an error class, `ok` or `noResults`.

`Lifecycle` is the plugin as the instance manager sees it. The manager is the SDK's, hence external
(`Save`, `Construct`, `Arrive`, and when `Dispose` is called): it constructs an instance for
the latest settings when a request asks for one, one at a time for each data source, and disposes of
the instance it replaces later. `NewConnector`, `RegisterRoutes` and their failures are the steps of
`NewDatasource`; `TakeConnection` what a request does with the bootstrap entry, the only one kept here;
`Redial`, `CloseOld` and `StoreFresh` the steps of `Reconnect`, which a request takes up to `Retries`
times, each time from the handle it took first; `CloseAll` and `Clear` the two halves of `Dispose`. All of
them interleave. An instance is known by its construction `b`, which stands for the `*SQLDatasource` it
is made on: the factory in the repository's `README.md` makes a new one each time. `Resources` has the
routes of `registerRoutes` over an external `ServeMux` and the replies of `getResources`. With a
`ResourceMiddleware` (`middleware`) a resource call is answered by it (`Intercept`) or passed on
(`CallResource`).

The proofs are in modules of their own, `<module>Proofs` for those of one component; `PoolProofs` shows
that `Connector` implements `Handles`, `LeakProofs` when `Datasource` loses no handle. The invariants
they need are at the end of the component's module or where they are proved. `MCConnector`,
`MCDatasource`, `MCQueryData`, `MCPlugin`, `MCDBQuery`, `MCLifecycle` hold the values for TLC.

The definitions whose comment begins with "Mutant of" are wrong on purpose: put in the place of the
definition they name, they break the property `PROJECT.json` pairs them with, which shows that
the property depends on the code it is about.

## 3. What TLC checks

| run | question | instance |
|---|---|---|
| connector_multi | argument isolation, the window of a closed handle, and that the cache implements `Handles` | 2 queries, 1 check, 2 argument values, 5 handles, Dispose, evicting cache |
| datasource_concurrent | who may close a handle, which handles are lost, survival of the bootstrap entry, answers of two overlapping queries and their error source | 2 queries with and without arguments, 2 retries, 3 handles, deadline, cancellation, panic, error mutator, Dispose |
| datasource_answers | a closed handle does not stay in the cache; every request is answered | 1 query, 1 check, 2 retries, 3 handles, eviction, Dispose, liveness |
| querydata_all | all of QueryData, and that it implements `FanOut` | 3 queries (of 4), 2 RefIDs, mutator that replaces queries, liveness |
| plugin | that `handleQuery` over the cache is what `QueryData` expects, and what is left when the call returns | 2 queries on one bootstrap handle, 1 retry, 2 handles, deadline, cancellation, panic, liveness |
| one_query | headers, row limit, completeness of series, large responses, rows closed, what is counted and answered | 11 documents, 66 limit configurations, results of up to 3 rows and 2 value columns, thresholds 0 and 2, 5 formats, with and without mutator |
| lifecycle | whose connection a request runs on, what Dispose closes and spares, which handles are lost, who answers a call for completion | 2 data sources, one saved anew, 3 constructions, 4 handles, 2 requests of 2 retries, 7 sets of custom routes, with and without middleware |
| dispose_race, evict_default, retry_leak, timeout_retry, querydata_drop | what a document or comment says and the code does not do | smallest instance that shows it |

**Bounds.** The number of handles is unbounded in the code: `DB` bounds the dials. When the handles
run out a dial can only fail, which is one of its outcomes anyway. Two requests suffice for every
interference on one entry (each can hold a stale handle while the other swaps it); the third, a health
check, contends for the bootstrap entry. In connector_multi five handles give a bootstrap handle and two
dials to each query. Two retries are the fewest for which a loop reuses the handle it took: the first
of them, alone, loses nothing (`LeakNeedsRace`), the second loses a handle (retry_leak). In
datasource_concurrent three handles are the bootstrap handle and two dials, enough for two queries to
displace each other's handle, and for one to retry twice. A queue of three goroutines shows every
order of `Done` and `Set`, with two of them under one RefID. In plugin two handles give one dial, which
either query may make while the other still runs on the handle it replaces; the run leaves `Dispose`
out (`InOrderWithoutDispose`), which the runs of its parts have. In one_query three rows are the fewest in
which a label has two rows and a time has two, and two value columns make more rows of them than the
limit; what comes after `GetQuery` does not look at the arguments, so only those of one document are sent
(`Focus`). In lifecycle (`MaxVersion`) one data source is saved once, so that it is replaced while its
requests are in flight; the second is there to be affected by mistake, and the third construction is
the retry after a failed one. Four handles give two instances a bootstrap handle each and two dials to
the requests, enough for one to retry twice or for two to collide. Routes and middleware matter to
resource calls and to nothing else, so requests are queries in the executions without either and
resource calls in the others (`Focused`).

Symmetry of handles and queries is used for safety only; where there is liveness (datasource_answers,
plugin, lifecycle) an action constraint considers only the executions that open handles in order (`InOrder`,
`InOrderWithoutDispose`) instead, which loses none but renamings. Requests end and do not come back, and
a plugin may be asked nothing more, hence `CHECK_DEADLOCK FALSE`.

**Fairness.** `Connector`: a request that has dialled closes and stores (`CloseOld`, `StoreFresh`),
because nothing blocks between the calls, and a Dispose that has begun goes on. `Datasource`: a
request that has begun takes its next step, because calls of the driver and of `database/sql` return
(not necessarily with success), and a Dispose that has begun goes on. Nothing is assumed about arrivals,
dials, `Dispose`, deadlines. `QueryData`: the scheduler runs every goroutine, and `handleQuery`
returns. The latter is no assumption of `Plugin`, which assumes what `Datasource` does and that
goroutines are scheduled, and of which it is checked. `Lifecycle`: the timers of the instance manager
fire, so that a `Dispose` that is due is called, and one that has begun goes on; nothing is assumed of saves, requests or constructions.

## 4. What is proved

Every safety invariant that a passing run checks is also a theorem, for every number of requests,
queries, handles, data sources, documents, rows and all settings; so is every refinement but the
fairness of one (`QueryDataSpec`). The assumptions are named, in the modules that declare the constants:

| assumption | says |
|---|---|
| `ConnectorAssumption`, `DatasourceAssumption` | special values differ from ordinary ones, settings are booleans or naturals, `Requests` are finite |
| `QueryDataAssumption`, `PluginAssumption` | every query has a RefID, the queries of a call are finitely many |
| `LifecycleAssumption` | there is a data source; `NoBuild` is no construction; routes have a method and a path |
| `RereadAssumption` | decoding a value and encoding it again gives a value, or fails |
| `DBQueryAssumption` | members and rows come in sequences, blank arguments have no members, only a nullable column has null times, columns are finitely many, limits and thresholds are numbers |

Where a theorem needs more it says so: `BootstrapSurvives` a cache that does not evict, and those of
`QueryData` and `Plugin` (but for `QueryDataTypes`, `InstanceIsImplemented` and `CallIsImplemented`)
`CountKept`, a mutator that keeps the number of queries: with one that does not, QueryData may wait for
ever (querydata_drop) or return early.

*Connector.* The safety properties are not inductive: that a handle is closed only in the window of
a swap needs that a freshly dialled handle is known to nobody else (`FreshIsPrivate`), that a handle
is under one key (`OneHome`: else closing it under one key would leave it under another) and that
handles in circulation have been opened, so that a dial cannot return one of them (`HandlesOpened`).
Isolation also needs `KeysMatchArgs` and `ArgsMatch`. `IInv` in `ConnectorProofs` is the conjunction;
each conjunct has a lemma with one step per action. From it: `TypeCorrect`, `ClosedWindow`,
`Isolation`, `ClosedByAnotherOnly` (through `ClosedByTaker`: whoever closed a handle had taken it and
goes on with another), and, for a cache that does not evict, `BootstrapSurvives` (`DefaultPresent`).

*The promise of the cache.* `PoolIsImplemented` (Spec => PoolSpec): each step of the cache is a step of
`Handles` or a stutter. Beyond `IInv` it needs `ClosedIsReplaced`: a closed handle is cached only
while Dispose ranges over the map or the request that took and closed it is about to replace it. The lemmas on `Life` say how a step changes the life of the one handle it
is about, and of no other.

*Datasource.* Its steps are those of `Connector` or stutters (`Implementation`: it is built that way,
and the theorem says nothing else), so that every theorem above holds of it (`DatasourceIsolation`). `RetryableErrors` needs
only that whatever leaves `handleQuery` through its last return has been converted, and what leaves
it earlier is not retryable. `ClosedAnswers` adds to `IInv` that a closed handle's taker stays
known. `DatasourceTypes` bounds the loop counter by `Retries`. `LastRunDecides` needs that while a query
has no answer none of its runs has succeeded, and that an answered one runs no more (`AnswerInv`).

*Leaks.* `LeaksAreExcused`: what a document says of handles does not hold of the second retry
(retry_leak), so the theorem says what does. `Racy` names the excuses (an evicting cache, Dispose, a
second retry of anyone, two requests collided on one entry), and they never go away. Without one, a
handle that somebody took is still under its key unless exactly one request is at replacing it
(`TakenStillThere`); what is about to be replaced is closed (`ReplacedIsClosed`); what is cached under
arguments has been taken (`CachedWasTaken`); and before its second retry a request replaces at most once
(`ReplacesOnce`). So the store that displaces a handle is that of the one who closed it.

*QueryData.* With `CountKept`, the counter is the number of goroutines still to finish (`Counted`),
hence `ReturnsAfterAll` and `NoNegativeCounter`. `Recorded` adds that the response of a RefID is that of
some query of this RefID that has set it, and that the error of the call is read off the responses:
hence `AnswersAreOwn`, `FailuresSurface` (a failure is reported unless another query of its RefID has put
frames in its place) and, with the queries without a response as those still to
finish, `PromiseIsKept` (the refinement of `FanOut`).

*Plugin.* Every step of the composition is one of `Datasource`, as it is built, or a stutter
(`InstanceIsImplemented`), and one of `QueryData` or a stutter (`CallIsImplemented`). So the theorems of both hold of it, and
`Coupled` joins them: a goroutine goes on once `handleQuery` has answered, with frames only after a
success. `QuietWhenReturned` and `FramesComeFromRuns` follow. The first attempt failed at `Handle`, whose
guard `~crashed /\ r \in Queries => go[r] = "handle"` read as one implication: a crashed process went on.
It is two conjuncts now.

*DBQuery.* `Staged` says what a run has not done yet at each point of the code. `RowsComeBack` and
`DurationsTellTheAnswer` follow from it by the ways out of the conversion (`ConversionEnds`).
`ForwardedHeadersArrive` rests on what the two paths of `applyHeaders` do to a document
(`InjectedCarries`: the appended member is the last of its key, and the only plain one;
`OverwrittenCarries`: decoding and encoding keeps every other key, with its value reread).
`ConfiguredLimitIsKept` goes by `LimitReachesTheFrame` (`Limited`: the limit that is set is the first that
is configured, and the SDK takes as many rows and no more) and by what shaping does to the rows of one
frame; `SeriesKeepRows` by `Framed` (`AnswersAreFramed`), that an answer is what was made of the frame.
`LargeResponsesAreLogged` needs the size of what was made of it, a sum over a set by recursion:
`SumIsUnique` shows by a smallest counterexample that it is whatever satisfies its equation, and
`SeriesTogether` gives one that does for the series of a frame: a row for each row that has one of
their labels, times the value columns.

*Lifecycle.* `IInv` (`Invariance`), by topic: how constructions, instances and requests hang together
and whose settings their handles were opened with (`Wired`); that instances are of settings which were
the latest, and retired ones of older settings (`Dated`); that instances share no handle (`Separate`);
that what a request is about to store is open and nobody else's (`Fresh`); that an instance has a
default connection until it is disposed of, closed only in the swap of a retry (`Serving`); that the
handle a request took is still cached when it replaces it, unless the instance goes, someone retries a
second time or two collide (`StillThere`); that what is cached open after Dispose was stored late
(`LateStore`); that every open handle is somebody's or explained (`Accounted`); the routes
(`RoutesRegistered`). `OwnSettings` and `SuccessorIsSpared` are read off it; `OrphansAreExplained` is
`Accounted` with `LateStore`.

**Only model-checked**: `Heals`, `EveryRequestAnswered`, `Returns`, the fairness part of
`QueryDataSpec` (its steps are `CallIsImplemented`), and `ReplacedIsClosed` of `Lifecycle`: liveness under
fairness is out of this prover's reach. The runs that expect a violation have nothing to prove.

## 5. Where the code and what is said of it disagree

* `dispose_race`: Dispose ranges and clears in two steps; a handle stored in between is dropped open.
* `evict_default`: an evicting cache, which the documentation invites, loses the bootstrap entry that
  every request reads first, and nothing dials it again.
* `retry_leak`: each retry closes the handle first taken, so from the second on, the handle of
  the previous retry is overwritten and never closed.
* `timeout_retry`: the loop for retries "on timeouts" begins when the deadline they run under has
  passed. (It is of use only for a timeout of the driver's own.)
* `querydata_drop`: the queries are counted before the mutator may change them. (With a query
  added instead of dropped, QueryData returns early or the process dies of a negative counter.)

Besides, what no document settles is modelled, excepted in a property by name or left to no property,
and listed in `PROJECT.json` with the reason: a cancellation is counted without a source and one seen in
`rows.Err` may be retried, a converter that panics is counted as a success, a retry after a timeout has no
response thresholds, the arguments `{}` open a connection of their own under multiple connections (the
changelog calls them empty, but only with regard to an error they must not cause), the arguments `null`
panic, arguments with a number out of range may stay without the headers, a failed construction leaves
its bootstrap handle open, and a plugin that sets its row limit after the construction overrides the configuration page.

## 6. Not modelled

`Pause` (a sleep), hash collisions, negative `Retries` (the check would neither dial nor ping), the
values in frames, cells and ragged frames in the response size, `sanitizeLabelName`, the duration
of a health check and the values of the histograms, logs, `ParseOptions` (which nothing calls). The
conversions of the SDK (`FrameFromRows`, `LongToWide`, `LongToMulti`), its instance manager and the
`ServeMux` are external, modelled by what the code relies on. A `ResourceMiddleware` that rewrites a call
or a reply, and a factory that constructs two instances on one `*SQLDatasource`, are left out. The
driver interfaces are modelled by what their implementations may do in the actions that call them; the
mocks are test doubles and no part of a running plugin. A second call of `QueryData` differs from the first only by what it finds
in the cache, which `Connector` and `Datasource` let be anything that other requests may leave there.

## 7. Plan

1. (done) `Connector`, `Datasource`, `QueryData` and their proofs; `DBQuery` with `Headers`,
   `RowLimit` and `Frames`.
2. (done) `Handles` and `FanOut` and that they are implemented; the composition `Plugin`; the error
   mutator, panics, macros and metrics; `Lifecycle` and `Resources`.
3. (done) Proofs of the refinements `PoolSpec`, `PromiseKept` and of `CallIsImplemented`; of
   `LeakNeedsRace` for any number of requests; of the properties of `DBQuery` and `Lifecycle`.
4. (done) `Reconnect`, `Dispose`, several retries and the middleware in `Lifecycle`, the documents, value
   columns and error marks in `DBQuery`, and the theorems on them again; the precedence of all sources of
   the row limit.
5. What a pool of `Handles` promises (no handle comes back to life, what is fresh is nobody else's) as
   theorems about `Handles`, carried over to `Connector` by `PoolIsImplemented`.
