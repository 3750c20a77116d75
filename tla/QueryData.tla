------------------------------ MODULE QueryData ------------------------------
(***************************************************************************)
(* One call of SQLDatasource.QueryData: a goroutine per query, a WaitGroup *)
(* that counts them, a mutex-guarded response map, and the recovery of     *)
(* panics.  What a goroutine does inside handleQuery is module Datasource; *)
(* here it returns frames, returns an error, or panics.                    *)
(***************************************************************************)
EXTENDS Integers, FiniteSets

CONSTANTS
    Query,      \* the queries there can be
    RefID,      \* values of DataQuery.RefID
    RefOf,      \* the RefID of each query
    Incoming,   \* req.Queries as the request arrives
    Mutations,  \* what MutateQueryData may make of req.Queries
    Errors      \* DriverSettings.Errors

ASSUME QueryDataAssumption ==
    /\ RefOf \in [Query -> RefID]
    /\ Incoming \subseteq Query /\ IsFiniteSet(Incoming)
    /\ \A m \in Mutations : m \subseteq Query /\ IsFiniteSet(m)
    /\ Errors \in BOOLEAN

VARIABLES
    main,       \* where QueryData is
    wg,         \* the counter of the WaitGroup
    work,       \* req.Queries after MutateQueryData
    go,         \* where the goroutine of each query is
    result,     \* frames and err of each goroutine
    responses,  \* res.Responses, by RefID
    returned,   \* the error QueryData returns
    crashed     \* the process died of "negative WaitGroup counter"

vars == <<main, wg, work, go, result, responses, returned, crashed>>

Outcome == {"frames", "error", "panic"}

Init ==
    /\ main = "add"
    /\ wg = 0
    /\ work = {}
    /\ go = [q \in Query |-> "no"]
    /\ result = [q \in Query |-> "none"]
    /\ responses = [id \in RefID |-> "none"]
    /\ returned = "none"
    /\ crashed = FALSE

-----------------------------------------------------------------------------
(* The caller's goroutine *)

\* Mutant of Add: one query is not counted.
AddOneLess ==
    /\ ~crashed /\ main = "add"
    /\ wg' = Cardinality(Incoming) - 1
    /\ main' = "mutate"
    /\ UNCHANGED <<work, go, result, responses, returned, crashed>>

\* wg.Add(len(req.Queries)), before the mutator has its say.
Add ==
    /\ ~crashed /\ main = "add"
    /\ wg' = Cardinality(Incoming)
    /\ main' = "mutate"
    /\ UNCHANGED <<work, go, result, responses, returned, crashed>>

MutateQueryData ==
    /\ ~crashed /\ main = "mutate"
    /\ work' \in Mutations
    /\ main' = "launch"
    /\ UNCHANGED <<wg, go, result, responses, returned, crashed>>

Launch(q) ==
    /\ ~crashed /\ main = "launch" /\ q \in work /\ go[q] = "no"
    /\ go' = [go EXCEPT ![q] = "handle"]
    /\ UNCHANGED <<main, wg, work, result, responses, returned, crashed>>

Launched ==
    /\ ~crashed /\ main = "launch" /\ \A q \in work : go[q] # "no"
    /\ main' = "wait"
    /\ UNCHANGED <<wg, work, go, result, responses, returned, crashed>>

\* Mutant of Wait: the last query is not waited for.
WaitForAllButOne ==
    /\ ~crashed /\ main = "wait" /\ wg <= 1
    /\ main' = "collect"
    /\ UNCHANGED <<wg, work, go, result, responses, returned, crashed>>

Wait ==
    /\ ~crashed /\ main = "wait" /\ wg = 0
    /\ main' = "collect"
    /\ UNCHANGED <<wg, work, go, result, responses, returned, crashed>>

\* Mutant of Failed: recovered panics are left out of the joined error.
FailedInQuery(id) == responses[id] = "error"

\* A response that carries an error.
Failed(id) == responses[id] \in {"error", "panic"}

\* ds.errors joins the errors of all responses; they are returned only if the
\* driver asks for it.
Return ==
    /\ ~crashed /\ main = "collect"
    /\ returned' = IF Errors /\ \E id \in RefID : Failed(id) THEN "errors" ELSE "nil"
    /\ main' = "returned"
    /\ UNCHANGED <<wg, work, go, result, responses, crashed>>

-----------------------------------------------------------------------------
(* The goroutine of query q *)

Becomes(q, label, o) ==
    /\ go' = [go EXCEPT ![q] = label]
    /\ result' = [result EXCEPT ![q] = o]
    /\ UNCHANGED <<main, wg, work, responses, returned, crashed>>

\* Mutant of HandleQuery: a panic is recovered from and forgotten.
HandleQuerySwallowing(q) ==
    /\ ~crashed /\ go[q] = "handle"
    /\ \/ Becomes(q, "mutate", "frames")
       \/ \E o \in {"error", "none"} : Becomes(q, "set", o)

\* handleQuery; the response mutator sees only frames.
HandleQuery(q) ==
    /\ ~crashed /\ go[q] = "handle"
    /\ \/ Becomes(q, "mutate", "frames")
       \/ \E o \in {"error", "panic"} : Becomes(q, "set", o)

MutateResponse(q) ==
    /\ ~crashed /\ go[q] = "mutate"
    /\ \E o \in Outcome : Becomes(q, "set", o)

\* Mutant of SetResponse: the recovered panic leaves no response.
SetUnlessPanic(q) ==
    /\ ~crashed /\ go[q] = "set"
    /\ responses' = IF result[q] = "panic" THEN responses
                    ELSE [responses EXCEPT ![RefOf[q]] = result[q]]
    /\ go' = [go EXCEPT ![q] = "finish"]
    /\ UNCHANGED <<main, wg, work, result, returned, crashed>>

\* response.Set, of the result or, from the deferred recover, of the panic.
SetResponse(q) ==
    /\ ~crashed /\ go[q] = "set"
    /\ responses' = [responses EXCEPT ![RefOf[q]] = result[q]]
    /\ go' = [go EXCEPT ![q] = "finish"]
    /\ UNCHANGED <<main, wg, work, result, returned, crashed>>

\* Mutant of Done: it is not deferred, so a panic skips it.
DoneUnlessPanic(q) ==
    /\ ~crashed /\ go[q] = "finish"
    /\ wg' = IF result[q] = "panic" THEN wg ELSE wg - 1
    /\ crashed' = (wg' < 0)
    /\ go' = [go EXCEPT ![q] = "done"]
    /\ UNCHANGED <<main, work, result, responses, returned>>

\* The deferred wg.Done, which runs after the recover and panics itself if
\* the counter becomes negative.
Done(q) ==
    /\ ~crashed /\ go[q] = "finish"
    /\ wg' = wg - 1
    /\ crashed' = (wg = 0)
    /\ go' = [go EXCEPT ![q] = "done"]
    /\ UNCHANGED <<main, work, result, responses, returned>>

-----------------------------------------------------------------------------
Caller == Add \/ MutateQueryData \/ (\E q \in Query : Launch(q)) \/ Launched \/ Wait \/ Return
Goroutine(q) == HandleQuery(q) \/ MutateResponse(q) \/ SetResponse(q) \/ Done(q)

\* After a crash of the process nothing runs.
Next == Caller \/ \E q \in Query : Goroutine(q)

Spec == Init /\ [][Next]_vars

\* Every goroutine is scheduled, and handleQuery returns or panics
\* (EveryRequestAnswered of module Datasource).
Fairness ==
    /\ WF_vars(Caller)
    /\ \A q \in Query : WF_vars(Goroutine(q))

FairSpec == Spec /\ Fairness

-----------------------------------------------------------------------------
(* Properties *)

TypeOK ==
    /\ main \in {"add", "mutate", "launch", "wait", "collect", "returned"}
    /\ wg \in Int
    /\ work \subseteq Query
    /\ go \in [Query -> {"no", "handle", "mutate", "set", "finish", "done"}]
    /\ result \in [Query -> Outcome \cup {"none"}]
    /\ \A q \in Query : go[q] \notin {"no", "handle"} => result[q] \in Outcome
    /\ responses \in [RefID -> Outcome \cup {"none"}]
    /\ returned \in {"none", "nil", "errors"}
    /\ crashed \in BOOLEAN

Finished == {q \in Query : go[q] = "done"}

\* QueryData goes on only when every goroutine is through: no query is still
\* running, or about to write the map that the caller reads without the lock.
WaitsForAll ==
    main \in {"collect", "returned"} => \A q \in work : go[q] = "done"

\* What the caller gets under a RefID is what a query of that RefID produced,
\* whatever the other queries did, panics included.
OwnAnswer ==
    main = "returned" =>
        \A q \in work : \E p \in work :
            RefOf[p] = RefOf[q] /\ responses[RefOf[q]] = result[p]

\* The call returns an error only if one of its queries failed or panicked, and
\* of a driver that wants errors none is lost but one whose response another
\* query of the same RefID has overwritten with frames.
NoFailureIsHidden ==
    /\ returned = "errors" => Errors /\ \E q \in work : result[q] \in {"error", "panic"}
    /\ returned = "nil" /\ Errors =>
        \A q \in work : result[q] \in {"error", "panic"} =>
            \E p \in work \ {q} : RefOf[p] = RefOf[q] /\ result[p] = "frames"

\* The WaitGroup is never done more often than it was told to be.
NeverCrashes == ~crashed

\* QueryData returns, panics in its queries or not.
Returns == <>(main = "returned")

-----------------------------------------------------------------------------
(* The promise to the caller that the goroutines implement                 *)

Promise == INSTANCE FanOut WITH
    Bad <- {"error", "panic"},
    Choices <- Mutations,
    stage <- CASE main \in {"add", "mutate"} -> "choosing"
               [] main = "returned" -> "returned"
               [] OTHER -> "running",
    pending <- {q \in work : go[q] \notin {"finish", "done"}},
    outcome <- responses

\* However the goroutines, their panics and the caller interleave, the call
\* is the simple one of module FanOut: each query writes its response once,
\* the caller reads the map after the last write, and nothing written is lost.
PromiseKept == Promise!Spec

-----------------------------------------------------------------------------
\* The mutator leaves the number of queries alone.
CountKept == \A m \in Mutations : Cardinality(m) = Cardinality(Incoming)

\* The inductive invariant behind WaitsForAll and NeverCrashes: the counter is
\* the number of goroutines that are still to finish.
Counted ==
    /\ main # "add" => wg = Cardinality(Incoming) - Cardinality(Finished)
    /\ main = "add" => wg = 0
    /\ main \in {"add", "mutate"} => \A q \in Query : go[q] = "no"
    /\ main \notin {"add", "mutate"} => work \in Mutations
    /\ \A q \in Query : go[q] # "no" => q \in work
    /\ WaitsForAll
    /\ NeverCrashes

\* The response of a query has been written.
Responded == {q \in Query : go[q] \in {"finish", "done"}}

\* The inductive invariant behind OwnAnswer, NoFailureIsHidden and
\* PromiseKept: a response is the result of a query of its RefID that has
\* written it, no query that has written is without one, and what was reported
\* is what can still be read.
Recorded ==
    /\ main \in {"add", "mutate"} => work = {}
    /\ \A id \in RefID : responses[id] # "none" =>
        \E p \in Responded : RefOf[p] = id /\ responses[id] = result[p]
    /\ \A q \in Responded : responses[RefOf[q]] # "none"
    /\ returned = "none" <=> main # "returned"
    /\ main = "returned" => (returned = "errors" <=> Errors /\ \E id \in RefID : Failed(id))

=============================================================================
