------------------------------ MODULE PluginProofs ------------------------------
(***************************************************************************)
(* An instance at work does what its two halves were proved to do: its     *)
(* requests are those of module Datasource and its call is that of module  *)
(* QueryData, for any number of queries, checks and handles.  The two      *)
(* together say what a caller may rely on once QueryData has returned.     *)
(***************************************************************************)
EXTENDS Plugin, DatasourceProofs, FiniteSets

QP == INSTANCE QueryDataProofs WITH Query <- Queries

-----------------------------------------------------------------------------
(* The instance *)

\* Whatever the plugin does, its requests take a step of module Datasource or
\* none.
LEMMA InstanceStep == ASSUME [PluginNext]_pluginVars PROVE [DNext]_allVars
<1>1. CASE Call \/ UNCHANGED pluginVars
  BY <1>1 DEF Call, pluginVars, allVars
<1>2. ASSUME NEW r \in Queries, Respond(r) PROVE UNCHANGED allVars
  BY <1>2 DEF Respond
<1>3. ASSUME NEW r \in Requests, Handle(r) PROVE DNext
  BY <1>3 DEF Handle, DNext
<1>4. CASE Elsewhere
  BY <1>4 DEF Elsewhere, DNext
<1> QED BY <1>1, <1>2, <1>3, <1>4 DEF PluginNext

\* The requests of a plugin at work are those of module Datasource, so all
\* that is proved of them holds there, too.
THEOREM InstanceIsImplemented == PluginSpec => DSpec
<1>1. PluginInit => DInit
  BY DEF PluginInit
<1>2. [PluginNext]_pluginVars => [DNext]_allVars
  BY InstanceStep
<1> QED BY <1>1, <1>2, PTL DEF PluginSpec, DSpec

-----------------------------------------------------------------------------
(* The call *)

\* The step in which handleQuery returns or panics is the one that module
\* QueryData takes for it.
LEMMA HandOverHandles ==
    ASSUME NEW r \in Queries, NEW a, HandOver(r, a), ~crashed, go[r] = "handle"
    PROVE  QD!HandleQuery(r)
  BY DEF HandOver, QD!HandleQuery, QD!Becomes

\* Whatever the plugin does, its call takes a step of module QueryData or none.
LEMMA CallStep == ASSUME [PluginNext]_pluginVars PROVE [QD!Next]_callVars
<1>1. CASE Call
  BY <1>1 DEF Call, QD!Next
<1>2. ASSUME NEW r \in Queries, Respond(r) PROVE QD!Next
  BY <1>2 DEF Respond, QD!Next, QD!Goroutine
<1>3. ASSUME NEW r \in Requests, Handle(r) PROVE [QD!Next]_callVars
  <2>1. CASE r \in Checks \/ answer'[r] = NoAnswer
    BY <1>3, <2>1 DEF Handle
  <2>2. CASE ~(r \in Checks \/ answer'[r] = NoAnswer)
    <3>1. r \in Queries /\ ~crashed /\ go[r] = "handle" /\ HandOver(r, answer'[r])
      BY <1>3, <2>2 DEF Handle, Requests
    <3> QED BY <3>1, HandOverHandles DEF QD!Next, QD!Goroutine
  <2> QED BY <2>1, <2>2
<1>4. CASE Elsewhere \/ UNCHANGED pluginVars
  BY <1>4 DEF Elsewhere, pluginVars
<1> QED BY <1>1, <1>2, <1>3, <1>4 DEF PluginNext

\* What module QueryData takes for granted of handleQuery holds, but for the
\* liveness: handleQuery returns frames, returns an error or panics, and
\* touches nothing of the call meanwhile.
THEOREM CallIsImplemented == PluginSpec => QD!Spec
<1>1. PluginInit => QD!Init
  BY DEF PluginInit
<1>2. [PluginNext]_pluginVars => [QD!Next]_QD!vars
  BY CallStep DEF callVars, QD!vars
<1> QED BY <1>1, <1>2, PTL DEF PluginSpec, QD!Spec


-----------------------------------------------------------------------------
(* What the proofs of QueryData are about is the same call. *)

\* The parameters of the call are such as QueryData assumes.
LEMMA CallAssumption ==
    /\ RefOf \in [Queries -> RefID]
    /\ Incoming \subseteq Queries /\ QP!IsFiniteSet(Incoming)
    /\ \A m \in Mutations : m \subseteq Queries /\ QP!IsFiniteSet(m)
    /\ Errors \in BOOLEAN
<1>1. \A S : QP!IsFiniteSet(S) = IsFiniteSet(S)
  BY Zenon DEF QP!IsFiniteSet, IsFiniteSet
<1> QED BY <1>1, PluginAssumption

\* Its steps are the same.
LEMMA SameNext == QD!Next <=> QP!Next
<1>1. QD!Add <=> QP!Add
  <2>1. QD!Cardinality(Incoming) = QP!Cardinality(Incoming)
    BY Zenon DEF QD!Cardinality, QP!Cardinality
  <2> QED BY <2>1, Zenon DEF QD!Add, QP!Add
<1>2. QD!MutateQueryData <=> QP!MutateQueryData
  BY Zenon DEF QD!MutateQueryData, QP!MutateQueryData
<1>3. \A q \in Queries : QD!Launch(q) <=> QP!Launch(q)
  BY Zenon DEF QD!Launch, QP!Launch
<1>4. QD!Launched <=> QP!Launched
  BY Zenon DEF QD!Launched, QP!Launched
<1>5. QD!Wait <=> QP!Wait
  BY Zenon DEF QD!Wait, QP!Wait
<1>6. QD!Return <=> QP!Return
  BY Zenon DEF QD!Return, QP!Return, QD!Failed, QP!Failed
<1>7. \A q \in Queries : QD!HandleQuery(q) <=> QP!HandleQuery(q)
  BY Zenon DEF QD!HandleQuery, QP!HandleQuery, QD!Becomes, QP!Becomes
<1>8. \A q \in Queries : QD!MutateResponse(q) <=> QP!MutateResponse(q)
  BY Zenon DEF QD!MutateResponse, QP!MutateResponse, QD!Becomes, QP!Becomes,
               QD!Outcome, QP!Outcome
<1>9. \A q \in Queries : QD!SetResponse(q) <=> QP!SetResponse(q)
  BY Zenon DEF QD!SetResponse, QP!SetResponse
<1>10. \A q \in Queries : QD!Done(q) <=> QP!Done(q)
  BY Zenon DEF QD!Done, QP!Done
<1> QED
  BY <1>1, <1>2, <1>3, <1>4, <1>5, <1>6, <1>7, <1>8, <1>9, <1>10, Zenon
     DEF QD!Next, QP!Next, QD!Caller, QP!Caller, QD!Goroutine, QP!Goroutine

\* The call of the plugin is a call of QueryData.
LEMMA SameCall == PluginSpec => QP!Spec
<1>1. PluginInit => QP!Init
  BY Zenon DEF PluginInit, QD!Init, QP!Init
<1>2. [PluginNext]_pluginVars => [QP!Next]_QP!vars
  BY CallStep, SameNext DEF callVars, QP!vars
<1> QED BY <1>1, <1>2, PTL DEF PluginSpec, QP!Spec


-----------------------------------------------------------------------------
(* The two halves together *)

\* A query whose goroutine has just got its answer was answered by the same
\* step, and others are left alone.
LEMMA CoupledHandle ==
    ASSUME TypeOK, DTypeOK, Coupled, QP!TypeOK, NEW r \in Requests, Handle(r)
    PROVE  Coupled'
<1> SUFFICES ASSUME NEW q \in Queries
    PROVE  /\ go'[q] \notin {"no", "handle"} => answer'[q] # NoAnswer
           /\ go'[q] = "mutate" => answer'[q] = Success
           /\ go'[q] \in {"set", "finish", "done"} /\ result'[q] = "frames" =>
                answer'[q] = Success
  BY DEF Coupled, Answered
<1>1. /\ go[q] \notin {"no", "handle"} => answer[q] # NoAnswer
      /\ go[q] = "mutate" => answer[q] = Success
      /\ go[q] \in {"set", "finish", "done"} /\ result[q] = "frames" => answer[q] = Success
  BY DEF Coupled, Answered
<1>2. CASE q # r
  <2>1. answer'[q] = answer[q]
    BY <1>2, OthersStay DEF Handle, Requests
  <2>2. go'[q] = go[q] /\ result'[q] = result[q]
    BY <1>2 DEF Handle, HandOver, callVars, QD!Becomes, QP!TypeOK
  <2> QED BY <1>1, <2>1, <2>2
<1>3. CASE q = r
  <2>1. go[r] = "handle" /\ r \notin Checks
    BY <1>3, ConnectorAssumption DEF Handle
  <2>2. CASE answer'[r] = NoAnswer
    BY <1>3, <2>1, <2>2 DEF Handle, callVars
  <2>3. CASE answer'[r] # NoAnswer
    <3>1. HandOver(r, answer'[r]) /\ r \in Queries
      BY <1>3, <2>1, <2>3 DEF Handle
    <3>2. \/ answer'[r] = Success /\ go'[r] = "mutate"
          \/ go'[r] = "set" /\ result'[r] # "frames"
      BY <3>1 DEF HandOver, QD!Becomes, QP!TypeOK
    <3> QED BY <1>3, <2>3, <3>2
  <2> QED BY <2>2, <2>3
<1> QED BY <1>2, <1>3

\* No step parts a goroutine from the answer of its query.
LEMMA CoupledStep ==
    ASSUME TypeOK, DTypeOK, Coupled, QP!TypeOK, [PluginNext]_pluginVars
    PROVE  Coupled'
<1>1. CASE Call
  <2>1. answer' = answer /\ result' = result /\ \A q \in Queries : go'[q] = go[q] \/ go'[q] = "handle"
    BY <1>1 DEF Call, QD!Caller, QD!Add, QD!MutateQueryData, QD!Launch, QD!Launched, QD!Wait,
                QD!Return, QP!TypeOK, allVars
  <2> QED BY <2>1 DEF Coupled, Answered
<1>2. ASSUME NEW r \in Queries, Respond(r) PROVE Coupled'
  <2>1. answer' = answer
    BY <1>2 DEF Respond, allVars
  <2>2. \A q \in Queries : q # r => go'[q] = go[q] /\ result'[q] = result[q]
    BY <1>2 DEF Respond, QD!MutateResponse, QD!SetResponse, QD!Done, QD!Becomes, QP!TypeOK
  <2>3. \/ go[r] = "mutate" /\ go'[r] = "set"
        \/ go[r] = "set" /\ go'[r] = "finish" /\ result'[r] = result[r]
        \/ go[r] = "finish" /\ go'[r] = "done" /\ result'[r] = result[r]
    BY <1>2 DEF Respond, QD!MutateResponse, QD!SetResponse, QD!Done, QD!Becomes, QP!TypeOK
  <2> QED BY <2>1, <2>2, <2>3 DEF Coupled, Answered
<1>3. ASSUME NEW r \in Requests, Handle(r) PROVE Coupled'
  BY <1>3, CoupledHandle
<1>4. CASE Elsewhere
  <2>1. answer' = answer /\ go' = go /\ result' = result
    BY <1>4 DEF Elsewhere, Expire, Cancel, Background, dsVars, callVars
  <2> QED BY <2>1 DEF Coupled, Answered
<1>5. CASE UNCHANGED pluginVars
  <2>1. answer' = answer /\ go' = go /\ result' = result
    BY <1>5 DEF pluginVars, allVars, callVars
  <2> QED BY <2>1 DEF Coupled, Answered
<1> QED BY <1>1, <1>2, <1>3, <1>4, <1>5 DEF PluginNext

\* Coupled is right in every state.
LEMMA CoupledInvariance == PluginSpec => []Coupled
<1>1. PluginInit => Coupled
  BY DEF PluginInit, QD!Init, Coupled
<1>2. TypeOK /\ DTypeOK /\ QP!TypeOK /\ Coupled /\ [PluginNext]_pluginVars => Coupled'
  BY CoupledStep
<1>3. PluginSpec => []QP!TypeOK
  BY SameCall, QP!QueryDataTypes, CallAssumption, PTL
<1> QED BY InstanceIsImplemented, AnswerInvariance, <1>1, <1>2, <1>3, PTL DEF PluginSpec

\* When QueryData has waited for its goroutines, none of its queries is in the
\* connector any more (QuietAfterReturn), as long as the mutator keeps the
\* number of queries: the counter is that of the goroutines, and a goroutine is
\* through only after handleQuery has let go of its connection.
THEOREM QuietWhenReturned == ASSUME QD!CountKept PROVE PluginSpec => []QuietAfterReturn
<1>1. QP!CountKept
  <2>1. \A S : QD!Cardinality(S) = QP!Cardinality(S)
    BY Zenon DEF QD!Cardinality, QP!Cardinality
  <2> QED BY <2>1 DEF QD!CountKept, QP!CountKept
<1>2. PluginSpec => [](QP!TypeOK /\ QP!WaitsForAll)
  BY <1>1, SameCall, QP!QueryDataTypes, QP!ReturnsAfterAll, CallAssumption, PTL
<1>3. QP!TypeOK /\ QP!WaitsForAll /\ Coupled /\ AnswerInv => QuietAfterReturn
  BY DEF QP!TypeOK, QP!WaitsForAll, Coupled, AnswerInv, AnswerKept, QuietAfterReturn
<1> QED BY <1>2, <1>3, InstanceIsImplemented, AnswerInvariance, CoupledInvariance, PTL

\* Frames that QueryData returns under a RefID were brought by the last run of
\* a query of that RefID (FramesAreEarned), under the same condition.
THEOREM FramesComeFromRuns == ASSUME QD!CountKept PROVE PluginSpec => []FramesAreEarned
<1>1. QP!CountKept
  <2>1. \A S : QD!Cardinality(S) = QP!Cardinality(S)
    BY Zenon DEF QD!Cardinality, QP!Cardinality
  <2> QED BY <2>1 DEF QD!CountKept, QP!CountKept
<1>2. PluginSpec => [](QP!TypeOK /\ QP!Counted /\ QP!Recorded)
  BY <1>1, SameCall, QP!RecordInvariance, CallAssumption, PTL
<1>3. ASSUME QP!TypeOK, QP!Counted, QP!Recorded, Coupled, SuccessIsTheLastRun
      PROVE  FramesAreEarned
  <2> SUFFICES ASSUME NEW id \in RefID, responses[id] = "frames"
      PROVE  \E r \in work : RefOf[r] = id /\ answer[r] = Success /\ last[r] \in {"ok", "noResults"}
    BY DEF FramesAreEarned
  <2>1. PICK p \in QP!Responded : RefOf[p] = id /\ result[p] = "frames"
    BY <1>3 DEF QP!Recorded
  <2>2. p \in work /\ p \in Queries /\ go[p] \in {"finish", "done"}
    <3>1. QP!Responded \subseteq work
      BY <1>3 DEF QP!TypeOK, QP!Counted, QP!Responded
    <3> QED BY <2>1, <3>1 DEF QP!Responded
  <2>3. answer[p] = Success
    BY <1>3, <2>1, <2>2 DEF Coupled
  <2>4. last[p] \in {"ok", "noResults"}
    BY <1>3, <2>2, <2>3 DEF SuccessIsTheLastRun, Success, Answered, NoAnswer
  <2> QED BY <2>1, <2>2, <2>3, <2>4
<1> QED
  BY <1>2, <1>3, InstanceIsImplemented, LastRunDecides, CoupledInvariance, PTL

=============================================================================
