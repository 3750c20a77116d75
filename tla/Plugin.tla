-------------------------------- MODULE Plugin --------------------------------
(***************************************************************************)
(* One instance at work: a call of QueryData (module QueryData) whose      *)
(* goroutines run handleQuery (module Datasource) on the instance's cache  *)
(* (module Connector), while health checks come in, contexts end and the   *)
(* instance is disposed of.                                                *)
(*                                                                         *)
(* The two halves meet in the step of a goroutine: as long as handleQuery  *)
(* runs it is a step of module Datasource, and with the answer it becomes  *)
(* the step HandleQuery of module QueryData.                               *)
(***************************************************************************)
EXTENDS Datasource, FiniteSets

CONSTANTS
    RefID,      \* values of DataQuery.RefID
    RefOf,      \* the RefID of each query
    Incoming,   \* req.Queries as the request arrives
    Mutations,  \* what MutateQueryData may make of req.Queries
    Errors      \* DriverSettings.Errors

ASSUME PluginAssumption ==
    /\ RefOf \in [Queries -> RefID]
    /\ Incoming \subseteq Queries /\ IsFiniteSet(Incoming)
    /\ \A m \in Mutations : m \subseteq Queries /\ IsFiniteSet(m)
    /\ Errors \in BOOLEAN

VARIABLES main, wg, work, go, result, responses, returned, crashed

callVars == <<main, wg, work, go, result, responses, returned, crashed>>
pluginVars == <<allVars, callVars>>

QD == INSTANCE QueryData WITH Query <- Queries

PluginInit == DInit /\ QD!Init

-----------------------------------------------------------------------------
\* The caller's goroutine launches, waits and collects.
Call == QD!Caller /\ UNCHANGED allVars

\* The rest of a goroutine, after handleQuery has returned or panicked.
Respond(r) ==
    /\ QD!MutateResponse(r) \/ QD!SetResponse(r) \/ QD!Done(r)
    /\ UNCHANGED allVars

\* Mutants of HandOver: an error is taken for frames; a panic is not recovered
\* from.
HandOverAnything(r, a) == QD!Becomes(r, "mutate", "frames")

HandOverUnlessPanic(r, a) ==
    \/ a = Success /\ QD!Becomes(r, "mutate", "frames")
    \/ a.err = "panic" /\ UNCHANGED callVars
    \/ a.err \notin {"ok", "panic"} /\ QD!Becomes(r, "set", "error")

\* What handleQuery leaves to the goroutine that called it.
HandOver(r, a) ==
    \/ a = Success /\ QD!Becomes(r, "mutate", "frames")
    \/ a.err = "panic" /\ QD!Becomes(r, "set", "panic")
    \/ a.err \notin {"ok", "panic"} /\ QD!Becomes(r, "set", "error")

\* A step of handleQuery in its goroutine, or of a health check.
Handle(r) ==
    /\ ~crashed
    /\ r \in Queries => go[r] = "handle"
    /\ RejectEarly(r) \/ Proceed(r) \/ Panic(r)
    /\ IF r \in Checks \/ answer'[r] = NoAnswer THEN UNCHANGED callVars
       ELSE HandOver(r, answer'[r])

\* Contexts end, and the instance is disposed of.
Elsewhere ==
    /\ ~crashed
    /\ (\E r \in Requests : Expire(r) \/ Cancel(r)) \/ Background
    /\ UNCHANGED callVars

PluginNext ==
    \/ Call
    \/ \E r \in Queries : Respond(r)
    \/ \E r \in Requests : Handle(r)
    \/ Elsewhere

PluginSpec == PluginInit /\ [][PluginNext]_pluginVars

\* Every goroutine is scheduled and every call it makes comes back; a health
\* check that has begun goes on, and so does a Dispose.
PluginFairness ==
    /\ WF_pluginVars(Call)
    /\ \A r \in Queries : WF_pluginVars(Handle(r) \/ Respond(r))
    /\ \A r \in Checks : WF_pluginVars(pc[r] # "idle" /\ Handle(r))
    /\ WF_pluginVars(~crashed /\ DisposeGoesOn /\ UNCHANGED <<dsVars, callVars>>)

FairPluginSpec == PluginSpec /\ PluginFairness

-----------------------------------------------------------------------------
(* Properties *)

\* What module QueryData takes for granted of handleQuery holds: with all its
\* retries and reconnects it comes back, with frames, an error or a panic, and
\* touches nothing of the call meanwhile.
QueryDataSpec == QD!FairSpec

\* When QueryData goes on to collect the responses, none of its queries is
\* still in the connector: none is about to close a handle that other calls
\* share, or to store one into a cache that may have been disposed of.
QuietAfterReturn ==
    main \in {"collect", "returned"} =>
        \A r \in work : Answered(r) /\ pc[r] \in {"idle", "done"}

\* Frames under a RefID are those of a query of that RefID whose last run
\* brought them: no failed, retried or panicked query passes for a success.
FramesAreEarned ==
    \A id \in RefID : responses[id] = "frames" =>
        \E r \in work : RefOf[r] = id /\ answer[r] = Success /\ last[r] \in {"ok", "noResults"}


-----------------------------------------------------------------------------
\* The inductive invariant behind QuietAfterReturn and FramesAreEarned, next to
\* those of the two halves: a goroutine goes on once handleQuery has answered,
\* and with frames only after a success.
Coupled ==
    \A r \in Queries :
        /\ go[r] \notin {"no", "handle"} => Answered(r)
        /\ go[r] = "mutate" => answer[r] = Success
        /\ go[r] \in {"set", "finish", "done"} /\ result[r] = "frames" => answer[r] = Success

=============================================================================
