-------------------------- MODULE DatasourceProofs --------------------------
(***************************************************************************)
(* Datasource implements Connector, so what ConnectorProofs proves of the  *)
(* connector holds of the whole of handleQuery and of the health check;    *)
(* and two properties of the answers, for any numbers of requests and      *)
(* retries and any RetryOn.                                                *)
(***************************************************************************)
EXTENDS Datasource, ConnectorProofs

\* What a request does when a run of its query is over: it returns, or
\* it leaves the connector alone.
LEMMA AfterRunConnector ==
    ASSUME NEW r \in Requests, NEW o, AfterRun(r, o)
    PROVE  Return(r) \/ UNCHANGED vars
  BY DEF AfterRun, AfterFirst, AfterRetry, AfterTimeout, Answer, AnswerError,
         EnterLoop, Iterate, Exhausted

\* Every step of the datasource is a step of the connector or leaves it alone.
LEMMA StepSimulation == ASSUME [DNext]_allVars PROVE [Next]_vars
<1>1. ASSUME NEW r \in Requests, Acquire(r) PROVE Next
  BY <1>1 DEF Acquire, Next, RequestStep
<1>2. ASSUME NEW r \in Requests, Send(r) PROVE [Next]_vars
  BY <1>2, AfterRunConnector DEF Send, Next, RequestStep
<1>3. ASSUME NEW r \in Requests, Read(r) PROVE [Next]_vars
  BY <1>3, AfterRunConnector DEF Read, Next, RequestStep
<1>4. ASSUME NEW r \in Requests, Reconnect(r) PROVE Next
  BY <1>4 DEF Reconnect, Next, RequestStep
<1>5. ASSUME NEW r \in Requests, RedialFails(r) PROVE [Next]_vars
  BY <1>5 DEF RedialFails, Iterate, Exhausted, Answer, AnswerError, Next, RequestStep
<1>6. ASSUME NEW r \in Requests, Ping(r) PROVE [Next]_vars
  BY <1>6 DEF Ping, PingOk, PingFails, Iterate, Answer, Next, RequestStep
<1>7. ASSUME NEW r \in Requests, RejectEarly(r) \/ Expire(r) \/ Cancel(r)
      PROVE UNCHANGED vars
  BY <1>7 DEF RejectEarly, Expire, Cancel
<1>8. CASE Background
  BY <1>8 DEF Background, Next
<1>9. CASE UNCHANGED allVars
  BY <1>9 DEF allVars, vars
<1>10. ASSUME NEW r \in Requests, Panic(r) PROVE [Next]_vars
  BY <1>10 DEF Panic, Next, RequestStep
<1> QED
  BY <1>1, <1>2, <1>3, <1>4, <1>5, <1>6, <1>7, <1>8, <1>9, <1>10 DEF DNext, Proceed

\* Datasource implements Connector under the identity mapping.
THEOREM Implementation == DSpec => Spec
<1>1. DInit => Init
  BY DEF DInit
<1>2. [DNext]_allVars => [Next]_vars
  BY StepSimulation
<1> QED BY <1>1, <1>2, PTL DEF DSpec, Spec

\* In handleQuery with all its retries, a query runs only on a handle that
\* was opened with its own connection arguments.
THEOREM DatasourceIsolation == DSpec => []ArgsIsolation
  BY Implementation, Isolation, PTL

-----------------------------------------------------------------------------
(* Types *)

\* The types hold initially.
LEMMA DTypeInit == ASSUME DInit PROVE DTypeOK
  BY DatasourceAssumption DEF DInit, DTypeOK, NoAnswer

\* An answer that is a failure with a known class keeps the type of answer.
LEMMA AnswerType ==
    ASSUME DTypeOK, NEW r \in Requests, NEW a, Answer(r, a),
           a \in [err : RunErrors \cup OtherErrors \cup {"none", "ok"},
                  source : {"none", "plugin", "downstream"}],
           last' \in [Requests -> RunErrors \cup {"none", "ok"}]
    PROVE  DTypeOK'
  BY DEF DTypeOK, Answer, Set

\* Sources are attached to every class of error.
LEMMA FailureType ==
    ASSUME NEW e \in RunErrors \cup OtherErrors \cup {"none", "ok"},
           NEW source \in Converted(e) \cup SourcesOf(e)
    PROVE  Failure(e, source) \in
                [err : RunErrors \cup OtherErrors \cup {"none", "ok"},
                 source : {"none", "plugin", "downstream"}]
<1>1. source \in {"plugin", "downstream"}
  BY DEF Converted, SourcesOf
<1> QED BY <1>1 DEF Failure

\* The loop counter stays below Retries.
LEMMA IterateType ==
    ASSUME DTypeOK, NEW r \in Requests, Iterate(r),
           last' \in [Requests -> RunErrors \cup {"none", "ok"}]
    PROVE  DTypeOK'
<1>1. i[r] + 1 \in 0..(Retries - 1)
  BY DatasourceAssumption DEF DTypeOK, Iterate
<1> QED BY <1>1 DEF DTypeOK, Iterate

\* Where a handler goes after a run is one of its labels.
LEMMA AfterRunType ==
    ASSUME DTypeOK, NEW r \in Requests, NEW o \in RunErrors \cup {"ok"},
           AfterRun(r, o)
    PROVE  DTypeOK'
<1>1. last' \in [Requests -> RunErrors \cup {"none", "ok"}]
  BY DEF AfterRun, DTypeOK
<1>2. err[r] \in RunErrors \cup OtherErrors \cup {"none", "ok"}
  BY DEF DTypeOK
<1>3. ASSUME NEW l \in {"retry", "timeout"}, EnterLoop(r, l, o), o # "ok"
      PROVE DTypeOK'
  BY <1>1, <1>3 DEF EnterLoop, DTypeOK
<1>4. ASSUME Exhausted(r) PROVE DTypeOK'
  BY <1>1, <1>2, <1>4, AnswerType, FailureType DEF Exhausted, AnswerError
<1>5. ASSUME Iterate(r) PROVE DTypeOK'
  BY <1>1, <1>5, IterateType
<1>6. ASSUME Answer(r, Success) PROVE DTypeOK'
  BY <1>1, <1>6, AnswerType DEF Success
<1>7. ASSUME AnswerError(r, o, Converted(o)) \/ AnswerError(r, o, SourcesOf(o))
      PROVE DTypeOK'
  BY <1>1, <1>7, AnswerType, FailureType DEF AnswerError
<1> QED BY <1>3, <1>4, <1>5, <1>6, <1>7
        DEF AfterRun, AfterFirst, AfterRetry, AfterTimeout, WantsRetry,
            IsErrorQuery, IsDeadline, QueryErrors

\* The mutator makes an error of a run of an error of a run, and no error
\* of a success; a database that is closed it can only report if it is.
LEMMA MutatedType ==
    ASSUME NEW e \in RunErrors \cup {"ok"}, NEW o \in Mutated(e)
    PROVE  o \in RunErrors \cup {"ok"} /\ (o = "closed" => e = "closed")
  BY DEF Mutated, RunErrors

\* No step breaks a type.
LEMMA DTypeStep == ASSUME DTypeOK, [DNext]_allVars PROVE DTypeOK'
<1>1. ASSUME NEW r \in Requests, Acquire(r) PROVE DTypeOK'
  <2>1. AcquireError(r) \in [err : OtherErrors, source : {"plugin", "downstream"}]
    BY DEF AcquireError, Failure, OtherErrors
  <2> QED BY <1>1, <2>1 DEF Acquire, Set, DTypeOK, requestState
<1>2. ASSUME NEW r \in Requests, Send(r) PROVE DTypeOK'
  <2>1. SendErrors(r) \subseteq RunErrors
    BY DEF SendErrors, RunErrors, QueryErrors
  <2>2. CASE \E e \in SendErrors(r) : \E o \in Mutated(e) : AfterRun(r, o)
    BY <2>1, <2>2, AfterRunType, MutatedType
  <2>3. CASE step' = [step EXCEPT ![r] = "rows"]
             /\ UNCHANGED <<vars, loop, i, err, last, ctx, answer>>
    BY <2>3 DEF DTypeOK
  <2> QED BY <1>2, <2>2, <2>3 DEF Send
<1>3. ASSUME NEW r \in Requests, Read(r) PROVE DTypeOK'
  <2>1. ReadOutcomes(r) \subseteq RunErrors \cup {"ok"}
    BY DEF ReadOutcomes, RunErrors, QueryErrors
  <2> QED BY <1>3, <2>1, AfterRunType, MutatedType DEF Read
<1>4. ASSUME NEW r \in Requests, Reconnect(r) PROVE DTypeOK'
  BY <1>4 DEF Reconnect, DTypeOK, dsVars
<1>5. ASSUME NEW r \in Requests, RedialFails(r) PROVE DTypeOK'
  <2>1. last' \in [Requests -> RunErrors \cup {"none", "ok"}]
    BY <1>5 DEF RedialFails, DTypeOK
  <2>2. err[r] \in RunErrors \cup OtherErrors \cup {"none", "ok"}
    BY DEF DTypeOK
  <2>3. CASE Iterate(r)
    BY <2>1, <2>3, IterateType
  <2>4. CASE Exhausted(r)
    BY <2>1, <2>2, <2>4, AnswerType, FailureType DEF Exhausted, AnswerError
  <2>5. CASE Answer(r, Failure("connect", "downstream"))
    BY <2>1, <2>5, AnswerType DEF Failure, OtherErrors
  <2> QED BY <1>5, <2>3, <2>4, <2>5 DEF RedialFails
<1>6. ASSUME NEW r \in Requests, Ping(r) PROVE DTypeOK'
  <2>1. last' \in [Requests -> RunErrors \cup {"none", "ok"}]
    BY <1>6 DEF Ping, DTypeOK
  <2>2. CASE PingOk(r)
    BY <2>1, <2>2, AnswerType DEF PingOk, Success, Failure, OtherErrors
  <2>3. PICK e \in PingErrors(r) \cup {"closed"} : PingOk(r) \/ PingFails(r, e)
    BY <1>6 DEF Ping
  <2>4. e \in RunErrors
    BY <2>3 DEF PingErrors, RunErrors, QueryErrors
  <2>5. CASE Answer(r, Failure(e, "downstream"))
    BY <2>1, <2>4, <2>5, AnswerType DEF Failure
  <2>6. CASE Iterate(r)
    BY <2>1, <2>6, IterateType
  <2> QED BY <2>2, <2>3, <2>5, <2>6 DEF PingFails
<1>7. ASSUME NEW r \in Requests, RejectEarly(r) PROVE DTypeOK'
  BY <1>7 DEF RejectEarly, Set, Failure, OtherErrors, DTypeOK, requestState
<1>8. ASSUME NEW r \in Requests, Expire(r) \/ Cancel(r) PROVE DTypeOK'
  <2>1. CASE Expire(r)
    BY <2>1 DEF Expire, DTypeOK, requestState
  <2>2. CASE Cancel(r)
    BY <2>2 DEF Cancel, DTypeOK, requestState
  <2> QED BY <1>8, <2>1, <2>2
<1>9. CASE Background \/ UNCHANGED allVars
  BY <1>9 DEF Background, DTypeOK, dsVars, allVars
<1>10. ASSUME NEW r \in Requests, Panic(r) PROVE DTypeOK'
  BY <1>10 DEF Panic, Set, Failure, OtherErrors, DTypeOK, requestState
<1> QED
  BY <1>1, <1>2, <1>3, <1>4, <1>5, <1>6, <1>7, <1>8, <1>9, <1>10 DEF DNext, Proceed

\* Every variable of the datasource keeps its type; in particular no loop
\* counter reaches Retries, so a request dials at most Retries times over.
THEOREM DatasourceTypes == DSpec => []DTypeOK
<1>1. DInit => DTypeOK
  BY DTypeInit
<1>2. DTypeOK /\ [DNext]_allVars => DTypeOK'
  BY DTypeStep
<1> QED BY <1>1, <1>2, PTL DEF DSpec

-----------------------------------------------------------------------------
(* Answers *)

\* r is answered with the error e and one of the sources.
SetError(r, e, sources) == \E source \in sources : Set(r, Failure(e, source))

\* The error an answer carries, and the error a query remembers, change only
\* in these ways.
LEMMA AfterRunAnswer ==
    ASSUME DTypeOK, NEW r \in Requests, NEW o, AfterRun(r, o)
    PROVE  /\ \/ UNCHANGED answer
              \/ Set(r, Success)
              \/ SetError(r, o, Converted(o))
              \/ ~Retryable(o) /\ SetError(r, o, SourcesOf(o))
              \/ SetError(r, err[r], Converted(err[r]))
           /\ UNCHANGED err \/ err' = [err EXCEPT ![r] = o]
           /\ Return(r) \/ UNCHANGED vars
  BY DEF AfterRun, AfterFirst, AfterRetry, AfterTimeout, Answer, AnswerError,
         SetError, EnterLoop, Iterate, Exhausted

\* What a request can be answered without a run.
LEMMA OtherAnswers ==
    ASSUME NEW r \in Requests,
               \/ RejectEarly(r) \/ Acquire(r) \/ Panic(r)
               \/ Reconnect(r) \/ RedialFails(r)
    PROVE  /\ \/ UNCHANGED answer
              \/ \E e \in OtherErrors, source \in {"plugin", "downstream"} :
                    Set(r, Failure(e, source))
              \/ SetError(r, err[r], Converted(err[r]))
           /\ UNCHANGED err
<1>1. CASE RejectEarly(r)
  BY <1>1 DEF RejectEarly, OtherErrors, requestState
<1>2. CASE Acquire(r)
  <2>1. \E e \in OtherErrors, source \in {"plugin", "downstream"} :
            AcquireError(r) = Failure(e, source)
    BY DEF AcquireError, OtherErrors
  <2> QED BY <1>2, <2>1 DEF Acquire, requestState
<1>3. CASE Reconnect(r)
  BY <1>3 DEF Reconnect, dsVars
<1>4. CASE RedialFails(r)
  BY <1>4 DEF RedialFails, Iterate, Exhausted, Answer, AnswerError, SetError, OtherErrors
<1>5. CASE Panic(r)
  BY <1>5 DEF Panic, OtherErrors, requestState
<1> QED BY <1>1, <1>2, <1>3, <1>4, <1>5

\* What a health check can be answered after its ping.
LEMMA PingAnswers ==
    ASSUME NEW r \in Requests, Ping(r)
    PROVE  /\ \/ UNCHANGED answer
              \/ Set(r, Success)
              \/ Set(r, Failure("hook", "downstream"))
              \/ \E e \in PingErrors(r) : Set(r, Failure(e, "downstream"))
           /\ UNCHANGED err
<1>1. CASE PingOk(r)
  BY <1>1 DEF PingOk, Answer
<1>2. ASSUME NEW e \in PingErrors(r), PingFails(r, e)
      PROVE  /\ UNCHANGED answer \/ Set(r, Failure(e, "downstream"))
             /\ UNCHANGED err
  BY <1>2 DEF PingFails, Iterate, Answer
<1> QED BY <1>1, <1>2 DEF Ping

\* No step answers with a retryable query error as the fault of the plugin.
LEMMA RetryableStep ==
    ASSUME DTypeOK, RetryableIsDownstream, [DNext]_allVars
    PROVE  RetryableIsDownstream'
<1> USE DEF RetryableIsDownstream
<1>0. ASSUME NEW r \in Requests, NEW a, Set(r, a),
             IsErrorQuery(a.err) /\ Retryable(a.err) => a.source = "downstream"
      PROVE  RetryableIsDownstream'
  BY <1>0 DEF Set, DTypeOK, IsErrorQuery, Retryable, Requests
<1>1. ASSUME NEW r \in Requests, NEW o, AfterRun(r, o)
      PROVE RetryableIsDownstream'
  <2>1. CASE UNCHANGED answer
    BY <2>1 DEF IsErrorQuery, Retryable
  <2>2. CASE Set(r, Success)
    BY <1>0, <2>2 DEF Success, IsErrorQuery, QueryErrors
  <2>3. ASSUME NEW e, SetError(r, e, Converted(e)) PROVE RetryableIsDownstream'
    BY <1>0, <2>3 DEF Failure, Converted, SetError
  <2>4. CASE ~Retryable(o) /\ SetError(r, o, SourcesOf(o))
    BY <1>0, <2>4 DEF Failure, SetError
  <2> QED BY <1>1, <2>1, <2>2, <2>3, <2>4, AfterRunAnswer
<1>2. ASSUME NEW r \in Requests,
               \/ RejectEarly(r) \/ Acquire(r) \/ Panic(r)
               \/ Reconnect(r) \/ RedialFails(r)
      PROVE RetryableIsDownstream'
  <2>1. CASE UNCHANGED answer
    BY <2>1 DEF IsErrorQuery, Retryable
  <2>2. ASSUME NEW e \in OtherErrors, NEW source, Set(r, Failure(e, source))
        PROVE RetryableIsDownstream'
    BY <1>0, <2>2 DEF Failure, OtherErrors, IsErrorQuery, QueryErrors
  <2>3. CASE SetError(r, err[r], Converted(err[r]))
    BY <1>0, <2>3 DEF Failure, Converted, SetError
  <2> QED BY <1>2, <2>1, <2>2, <2>3, OtherAnswers
<1>3. ASSUME NEW r \in Requests, Ping(r) PROVE RetryableIsDownstream'
  <2>1. CASE UNCHANGED answer
    BY <2>1 DEF IsErrorQuery, Retryable
  <2>2. CASE Set(r, Success) \/ Set(r, Failure("hook", "downstream"))
    BY <1>0, <2>2 DEF Success, Failure, IsErrorQuery, QueryErrors
  <2>3. ASSUME NEW e, Set(r, Failure(e, "downstream")) PROVE RetryableIsDownstream'
    BY <1>0, <2>3 DEF Failure
  <2> QED BY <1>3, <2>1, <2>2, <2>3, PingAnswers
<1>4. ASSUME UNCHANGED answer PROVE RetryableIsDownstream'
  BY <1>4 DEF IsErrorQuery, Retryable
<1> QED
  BY <1>1, <1>2, <1>3, <1>4
     DEF DNext, Proceed, Send, Read, Expire, Cancel, Background, dsVars, allVars

\* A query error the settings call retryable is always answered as a
\* downstream error.
THEOREM RetryableErrors == DSpec => []RetryableIsDownstream
<1>1. DInit => RetryableIsDownstream
  BY DEF DInit, RetryableIsDownstream, NoAnswer, IsErrorQuery, QueryErrors, Requests
<1>2. DTypeOK /\ RetryableIsDownstream /\ [DNext]_allVars => RetryableIsDownstream'
  BY RetryableStep
<1> QED BY DatasourceTypes, <1>1, <1>2, PTL DEF DSpec

-----------------------------------------------------------------------------
(* Who closed the database *)

\* s has closed the handle it took and holds another.
Moved(s) == conn[s] \in closed /\ db[s] # conn[s]

\* Something other than r has closed a handle.
Disturbed(r) ==
    Evicts \/ dispose # "no" \/ \E s \in Requests \ {r} : Moved(s)

\* The strengthening of ClosedMeansDisturbed that survives a retry: handleQuery
\* remembers the error of the first run and may answer with it later.
DisturbedInv ==
    \A r \in Requests :
        answer[r].err = "closed" \/ err[r] = "closed" => Disturbed(r)

\* A request that went on with another handle than the one it took, and
\* closed, stays so.
LEMMA TakerStep ==
    ASSUME TypeOK, HandlesOpened, NEW s \in Requests, Moved(s), [Next]_vars
    PROVE  Moved(s)'
<1> USE DEF HandlesOpened, Moved, Acquired, TypeOK, Key, cacheVars, requestVars, disposeVars
<1>1. ASSUME NEW r \in Requests, BeginQuery(r) PROVE Moved(s)'
  <2>1. PICK a \in QueryArgs : Reject(r, a) \/ UseDefault(r, a) \/ UseOwnKey(r, a)
    BY <1>1 DEF BeginQuery
  <2>2. CASE Reject(r, a)
    BY <1>1, ConnectorAssumption, <2>2 DEF BeginQuery, Reject, Goto
  <2>3. CASE UseDefault(r, a)
    BY <1>1, ConnectorAssumption, <2>3 DEF BeginQuery, UseDefault, Take, Goto
  <2>4. CASE UseOwnKey(r, a)
    BY <1>1, ConnectorAssumption, <2>4 DEF BeginQuery, UseOwnKey, Goto
  <2> QED BY <2>1, <2>2, <2>3, <2>4
<1>2. ASSUME NEW r \in Requests, LookupHit(r) PROVE Moved(s)'
  BY <1>2, ConnectorAssumption DEF LookupHit, Take, Goto
<1>3. ASSUME NEW r \in Requests, LookupMiss(r) PROVE Moved(s)'
  BY <1>3 DEF LookupMiss, Goto
<1>4. ASSUME NEW r \in Requests, DialNew(r) PROVE Moved(s)'
  <2>1. PICK h \in DB : Dial(r, h)
    BY <1>4 DEF DialNew
  <2> QED BY <1>4, <2>1, ConnectorAssumption DEF DialNew, Dial, Goto
<1>5. ASSUME NEW r \in Requests, DialFails(r) PROVE Moved(s)'
  BY <1>5 DEF DialFails, Goto
<1>6. ASSUME NEW r \in Requests, StoreNew(r) PROVE Moved(s)'
  BY <1>6, ConnectorAssumption DEF StoreNew, Store, Take, Goto
<1>7. ASSUME NEW r \in Requests, BeginCheck(r) PROVE Moved(s)'
  <2>1. CASE cache[DefaultKey] # NoDB
    BY <1>7, ConnectorAssumption, <2>1 DEF BeginCheck, Take, Goto
  <2>2. CASE cache[DefaultKey] = NoDB
    BY <1>7, ConnectorAssumption, <2>2 DEF BeginCheck, Goto
  <2> QED BY <2>1, <2>2
<1>8. ASSUME NEW r \in Requests, Redial(r) PROVE Moved(s)'
  <2>1. PICK h \in DB : Dial(r, h)
    BY <1>8 DEF Redial
  <2> QED BY <1>8, <2>1, ConnectorAssumption DEF Redial, Dial, Goto
<1>9. ASSUME NEW r \in Requests, CloseOld(r) PROVE Moved(s)'
  BY <1>9 DEF CloseOld, Goto
<1>10. ASSUME NEW r \in Requests, StoreFresh(r) PROVE Moved(s)'
  BY <1>10 DEF StoreFresh, Store, Goto
<1>11. ASSUME NEW r \in Requests, Return(r) PROVE Moved(s)'
  BY <1>11 DEF Return, Goto
<1>12. CASE DisposeStart
  BY <1>12 DEF DisposeStart
<1>13. ASSUME NEW k \in Key, DisposeVisit(k) PROVE Moved(s)'
  BY <1>13 DEF DisposeVisit
<1>14. CASE DisposeClear
  BY <1>14 DEF DisposeClear
<1>15. ASSUME NEW k \in Key, Evict(k) PROVE Moved(s)'
  BY <1>15 DEF Evict, Store
<1>16. CASE vars' = vars
  BY <1>16 DEF vars
<1> QED BY NextCases, <1>1, <1>2, <1>3, <1>4, <1>5, <1>6, <1>7, <1>8, <1>9,
           <1>10, <1>11, <1>12, <1>13, <1>14, <1>15, <1>16

\* A request that was disturbed stays so.
LEMMA DisturbedStep ==
    ASSUME TypeOK, HandlesOpened, NEW r \in Requests, Disturbed(r), [Next]_vars
    PROVE  Disturbed(r)'
<1>1. CASE Evicts
  BY <1>1 DEF Disturbed
<1>2. CASE dispose # "no"
  <2>1. dispose' # "no"
    BY <1>2, NextCases
       DEF BeginQuery, LookupHit, LookupMiss, DialNew, DialFails, StoreNew,
           BeginCheck, Redial, CloseOld, StoreFresh, Return, DisposeStart,
           DisposeVisit, DisposeClear, Evict, disposeVars, vars
  <2> QED BY <2>1 DEF Disturbed
<1>3. ASSUME NEW s \in Requests \ {r}, Moved(s) PROVE Disturbed(r)'
  BY <1>3, TakerStep DEF Disturbed
<1> QED BY <1>1, <1>2, <1>3 DEF Disturbed

\* A handle a request is about to use is closed only by a disturbance.
LEMMA ClosedIsDisturbed ==
    ASSUME IInv, NEW r \in Requests, pc[r] = "ready", db[r] \in closed
    PROVE  Disturbed(r)
  BY DEF IInv, ClosedByTaker, Disturbed, Moved

\* No step gives the error of a closed handle to a request that was not disturbed.
LEMMA DisturbedInvStep ==
    ASSUME IInv, DTypeOK, DisturbedInv, [DNext]_allVars
    PROVE  DisturbedInv'
<1>1. [Next]_vars
  BY StepSimulation
<1>2. ASSUME NEW r \in Requests, Disturbed(r) PROVE Disturbed(r)'
  BY <1>1, <1>2, DisturbedStep DEF IInv
<1>3. ASSUME NEW r \in Requests, NEW a, Set(r, a), UNCHANGED err,
             a.err = "closed" => Disturbed(r)
      PROVE  DisturbedInv'
  BY <1>2, <1>3 DEF Set, DTypeOK, DisturbedInv
<1>4. ASSUME UNCHANGED answer, UNCHANGED err PROVE DisturbedInv'
  BY <1>2, <1>4 DEF DisturbedInv
<1>5. ASSUME NEW r \in Requests, NEW o, AfterRun(r, o),
             o = "closed" => Disturbed(r)
      PROVE  DisturbedInv'
  <2>0. /\ \/ UNCHANGED answer
           \/ Set(r, Success)
           \/ SetError(r, o, Converted(o))
           \/ ~Retryable(o) /\ SetError(r, o, SourcesOf(o))
           \/ SetError(r, err[r], Converted(err[r]))
        /\ UNCHANGED err \/ err' = [err EXCEPT ![r] = o]
    BY <1>5, AfterRunAnswer
  <2>1. \A p \in Requests : answer'[p].err = "closed" =>
            answer[p].err = "closed" \/ (p = r /\ (o = "closed" \/ err[r] = "closed"))
    BY <2>0 DEF Set, SetError, Success, Failure, DTypeOK
  <2>2. \A p \in Requests : err'[p] = "closed" =>
            err[p] = "closed" \/ (p = r /\ o = "closed")
    BY <2>0 DEF DTypeOK
  <2> QED BY <1>2, <1>5, <2>1, <2>2 DEF DisturbedInv
<1>6. ASSUME NEW r \in Requests, Send(r) PROVE DisturbedInv'
  <2>1. CASE UNCHANGED <<answer, err>>
    BY <1>4, <2>1
  <2>2. ASSUME NEW e \in SendErrors(r), NEW o \in Mutated(e), AfterRun(r, o)
        PROVE  DisturbedInv'
    <3>1. o = "closed" => db[r] \in closed
      BY <2>2 DEF SendErrors, Mutated
    <3>2. o = "closed" => Disturbed(r)
      BY <1>6, <3>1, ClosedIsDisturbed DEF Send, About
    <3> QED BY <1>5, <2>2, <3>2
  <2> QED BY <1>6, <2>1, <2>2 DEF Send
<1>7. ASSUME NEW r \in Requests, Read(r) PROVE DisturbedInv'
  <2>1. \A e \in ReadOutcomes(r) : "closed" \notin Mutated(e)
    BY DEF ReadOutcomes, Mutated
  <2> QED BY <1>5, <1>7, <2>1 DEF Read
<1>8. ASSUME NEW r \in Requests,
               \/ RejectEarly(r) \/ Acquire(r) \/ Panic(r)
               \/ Reconnect(r) \/ RedialFails(r)
      PROVE  DisturbedInv'
  <2>1. UNCHANGED err
    BY <1>8, OtherAnswers
  <2>2. CASE UNCHANGED answer
    BY <1>4, <2>1, <2>2
  <2>3. ASSUME NEW e \in OtherErrors, NEW source, Set(r, Failure(e, source))
        PROVE DisturbedInv'
    BY <1>3, <2>1, <2>3 DEF Failure, OtherErrors
  <2>4. CASE SetError(r, err[r], Converted(err[r]))
    BY <1>3, <2>1, <2>4 DEF Failure, SetError, DisturbedInv
  <2> QED BY <1>8, <2>2, <2>3, <2>4, OtherAnswers
<1>9. ASSUME NEW r \in Requests, Ping(r) PROVE DisturbedInv'
  <2>1. UNCHANGED err
    BY <1>9, PingAnswers
  <2>2. CASE UNCHANGED answer
    BY <1>4, <2>1, <2>2
  <2>3. CASE Set(r, Success) \/ Set(r, Failure("hook", "downstream"))
    BY <1>3, <2>1, <2>3 DEF Success, Failure
  <2>4. ASSUME NEW e \in PingErrors(r), Set(r, Failure(e, "downstream"))
        PROVE DisturbedInv'
    <3>1. e = "closed" => Disturbed(r)
      BY <1>9, ClosedIsDisturbed DEF PingErrors, Ping, About
    <3> QED BY <1>3, <2>1, <2>4, <3>1 DEF Failure
  <2> QED BY <1>9, <2>2, <2>3, <2>4, PingAnswers
<1>10. ASSUME UNCHANGED <<answer, err>> PROVE DisturbedInv'
  BY <1>4, <1>10
<1> QED
  BY <1>6, <1>7, <1>8, <1>9, <1>10
     DEF DNext, Proceed, Expire, Cancel, Background, dsVars, requestState, allVars

\* A query or a health check is told that its database is closed only when
\* another request has reconnected, or Dispose or an eviction has begun: never
\* by its own retries.
THEOREM ClosedAnswers == DSpec => []ClosedMeansDisturbed
<1>1. DInit => DisturbedInv
  BY DEF DInit, DisturbedInv, NoAnswer
<1>2. IInv /\ DTypeOK /\ DisturbedInv /\ [DNext]_allVars => DisturbedInv'
  BY DisturbedInvStep
<1>3. DisturbedInv => ClosedMeansDisturbed
  BY DEF DisturbedInv, ClosedMeansDisturbed, Disturbed, Moved
<1> QED
  BY Implementation, Invariance, DatasourceTypes, <1>1, <1>2, <1>3, PTL DEF DSpec

-----------------------------------------------------------------------------
(* Success is the last run's *)

\* While a query has no answer none of its runs has succeeded, and it has left
\* the first part of handleQuery if one of them is over; once it is answered it
\* runs no more.
AnswerKept(q) ==
    /\ step[q] # "ping"
    /\ Answered(q) => pc[q] \in {"idle", "done"}
    /\ ~Answered(q) => last[q] # "ok" /\ (loop[q] = "first" => last[q] = "none")
    /\ Answered(q) => (answer[q].err = "ok" <=>
            last[q] = "ok" \/ (last[q] = "noResults" /\ loop[q] = "first"))

AnswerInv == \A q \in Queries : AnswerKept(q)

\* What concerns one query is left alone by the steps of others.
LEMMA AnswerElsewhere ==
    ASSUME NEW q \in Queries, AnswerKept(q), pc'[q] = pc[q], answer'[q] = answer[q],
           step'[q] = step[q], loop'[q] = loop[q], last'[q] = last[q]
    PROVE  AnswerKept(q)'
  BY DEF AnswerKept, Answered

\* A query returns: a success after a run that brought one, an error after any
\* other.
LEMMA AnswerOf ==
    ASSUME DTypeOK, TypeOK, NEW r \in Requests, NEW a, Answer(r, a), step[r] # "ping",
           a # NoAnswer,
           a.err = "ok" <=> last'[r] = "ok" \/ (last'[r] = "noResults" /\ loop[r] = "first")
    PROVE  AnswerKept(r)'
<1>1. pc'[r] = "done" /\ answer'[r] = a /\ step'[r] = step[r] /\ loop'[r] = loop[r]
  BY DEF Answer, Set, Return, Goto, DTypeOK, TypeOK
<1> QED BY <1>1 DEF AnswerKept, Answered

\* handleQuery after a run, seen by its query.
LEMMA AnswerAfterRun ==
    ASSUME DTypeOK, TypeOK, NEW r \in Queries, AnswerKept(r), pc[r] = "ready",
           NEW o \in RunErrors \cup {"ok"}, AfterRun(r, o)
    PROVE  AnswerKept(r)'
<1> USE DEF Requests
<1>1. ~Answered(r) /\ step[r] # "ping" /\ last'[r] = o /\ err[r] # "ok"
  BY DEF AnswerKept, AfterRun, DTypeOK, RunErrors, QueryErrors
<1>2. ASSUME o = "ok" \/ (o = "noResults" /\ loop[r] = "first"), Answer(r, Success)
      PROVE  AnswerKept(r)'
  BY <1>1, <1>2, AnswerOf DEF Success, NoAnswer
<1>3. ASSUME NEW e, e # "ok", AnswerError(r, e, Converted(e)) \/ AnswerError(r, e, SourcesOf(e)),
             o # "ok", o = "noResults" => loop[r] # "first"
      PROVE  AnswerKept(r)'
  <2>1. PICK source \in {"plugin", "downstream"} : Answer(r, Failure(e, source))
    BY <1>3 DEF AnswerError, Converted, SourcesOf
  <2> QED BY <1>1, <1>3, <2>1, AnswerOf DEF Failure, NoAnswer
<1>4. ASSUME NEW l \in {"retry", "timeout"}, EnterLoop(r, l, o), o # "ok"
      PROVE  AnswerKept(r)'
  BY <1>1, <1>4 DEF EnterLoop, AnswerKept, Answered, DTypeOK
<1>5. ASSUME Iterate(r), o # "ok", loop[r] # "first"
      PROVE  AnswerKept(r)'
  BY <1>1, <1>5 DEF Iterate, AnswerKept, Answered, DTypeOK
<1>6. CASE loop[r] = "first" /\ AfterFirst(r, o)
  BY <1>2, <1>3, <1>4, <1>6
     DEF AfterFirst, WantsRetry, IsErrorQuery, IsDeadline, QueryErrors
<1>7. CASE loop[r] = "retry" /\ AfterRetry(r, o)
  BY <1>1, <1>2, <1>3, <1>5, <1>7 DEF AfterRetry, Exhausted
<1>8. CASE loop[r] = "timeout" /\ AfterTimeout(r, o)
  BY <1>1, <1>2, <1>3, <1>5, <1>8 DEF AfterTimeout, Exhausted
<1> QED BY <1>6, <1>7, <1>8 DEF AfterRun

\* A request moves nobody else.
LEMMA OthersStay ==
    ASSUME TypeOK, DTypeOK, NEW r \in Requests, NEW q \in Requests \ {r},
           \/ RejectEarly(r) \/ Proceed(r) \/ Panic(r) \/ Expire(r) \/ Cancel(r)
    PROVE  /\ pc'[q] = pc[q] /\ answer'[q] = answer[q] /\ step'[q] = step[q]
           /\ loop'[q] = loop[q] /\ last'[q] = last[q]
<1> DEFINE Stay == /\ pc'[q] = pc[q] /\ answer'[q] = answer[q] /\ step'[q] = step[q]
                   /\ loop'[q] = loop[q] /\ last'[q] = last[q]
<1> USE DEF TypeOK, DTypeOK, Goto, Set, requestState, dsVars
<1>1. ASSUME NEW l, Goto(r, l) PROVE pc'[q] = pc[q]
  BY <1>1
<1>2. ASSUME RejectEarly(r) \/ Expire(r) \/ Cancel(r) PROVE Stay
  BY <1>2 DEF RejectEarly, Expire, Cancel, vars
<1>3. ASSUME Acquire(r) PROVE Stay
  BY <1>3 DEF Acquire, BeginQuery, Reject, UseDefault, UseOwnKey, LookupHit, LookupMiss,
              DialNew, DialFails, StoreNew, BeginCheck, Take
<1>4. ASSUME Reconnect(r) PROVE Stay
  BY <1>4 DEF Reconnect, Redial, CloseOld, StoreFresh
<1>5. ASSUME Panic(r) PROVE Stay
  BY <1>5 DEF Panic, DialFails, Return, vars
<1>6. ASSUME NEW o, AfterRun(r, o) PROVE Stay
  BY <1>6 DEF AfterRun, AfterFirst, AfterRetry, AfterTimeout, Answer, AnswerError, EnterLoop,
              Iterate, Exhausted, Return, vars
<1>7. ASSUME Send(r) \/ Read(r) PROVE Stay
  BY <1>6, <1>7 DEF Send, Read, vars
<1>8. ASSUME RedialFails(r) \/ Ping(r) PROVE Stay
  BY <1>8 DEF RedialFails, Ping, PingOk, PingFails, Answer, AnswerError, Iterate, Exhausted,
              Return, vars
<1> QED BY <1>2, <1>3, <1>4, <1>5, <1>7, <1>8 DEF Proceed

\* A query that gets no connection, or panics, is answered with an error: no
\* run of its has succeeded.
LEMMA AnswerWithoutRun ==
    ASSUME TypeOK, DTypeOK, NEW q \in Queries, AnswerKept(q), ~Answered(q),
           NEW a \in [err : OtherErrors, source : {"plugin", "downstream"}], Set(q, a),
           pc'[q] \in {"idle", "done"}, UNCHANGED <<step, loop, last>>
    PROVE  AnswerKept(q)'
<1>1. answer'[q] = a /\ a # NoAnswer /\ a.err # "ok"
  BY DEF Set, DTypeOK, Requests, NoAnswer, OtherErrors
<1> QED BY <1>1 DEF AnswerKept, Answered

\* No step parts an answer from the run that gave it.
LEMMA AnswerKeptStep ==
    ASSUME TypeOK, DTypeOK, NEW q \in Queries, AnswerKept(q),
           \/ RejectEarly(q) \/ Proceed(q) \/ Panic(q) \/ Expire(q) \/ Cancel(q)
    PROVE  AnswerKept(q)'
<1> USE DEF Requests
<1>1. CASE RejectEarly(q)
  <2>1. PICK source \in {"plugin", "downstream"} : Set(q, Failure("early", source))
    BY <1>1 DEF RejectEarly
  <2> QED BY <1>1, <2>1, AnswerWithoutRun
          DEF RejectEarly, Failure, OtherErrors, requestState, vars, Answered
<1>2. CASE Panic(q)
  <2>1. pc'[q] \in {"idle", "done"}
    BY <1>2 DEF Panic, DialFails, Return, Goto, vars, TypeOK
  <2> QED BY <1>2, <2>1, AnswerWithoutRun
          DEF Panic, Failure, OtherErrors, requestState, Answered
<1>3. CASE Acquire(q)
  <2>1. AcquireError(q) \in [err : OtherErrors, source : {"plugin", "downstream"}]
    BY DEF AcquireError, Failure, OtherErrors
  <2>2. CASE pc'[q] = "done"
    BY <1>3, <2>1, <2>2, AnswerWithoutRun DEF Acquire, requestState, Answered
  <2>3. CASE pc'[q] # "done"
    BY <1>3, <2>3 DEF Acquire, requestState, Answered, AnswerKept
  <2> QED BY <2>2, <2>3
<1>4. CASE Send(q)
  <2>1. SendErrors(q) \subseteq RunErrors
    BY DEF SendErrors, RunErrors, QueryErrors
  <2>2. CASE \E e \in SendErrors(q) : \E o \in Mutated(e) : AfterRun(q, o)
    BY <1>4, <2>1, <2>2, AnswerAfterRun, MutatedType DEF Send, About
  <2>3. CASE step' = [step EXCEPT ![q] = "rows"]
             /\ UNCHANGED <<vars, loop, i, err, last, ctx, answer>>
    BY <2>3 DEF AnswerKept, Answered, DTypeOK, vars
  <2> QED BY <1>4, <2>2, <2>3 DEF Send
<1>5. CASE Read(q)
  <2>1. ReadOutcomes(q) \subseteq RunErrors \cup {"ok"}
    BY DEF ReadOutcomes, RunErrors, QueryErrors
  <2> QED BY <1>5, <2>1, AnswerAfterRun, MutatedType DEF Read, About
<1>6. CASE Reconnect(q)
  <2>1. ~Answered(q)
    BY <1>6 DEF Reconnect, About, CloseOld, StoreFresh, AnswerKept
  <2>2. step'[q] # "ping" /\ UNCHANGED <<loop, last, answer>>
    BY <1>6 DEF Reconnect, dsVars, AnswerKept, DTypeOK
  <2> QED BY <2>1, <2>2 DEF AnswerKept, Answered
<1>7. CASE RedialFails(q)
  <2>1. ~Answered(q) /\ UNCHANGED last /\ step[q] # "ping" /\ err[q] # "ok"
    BY <1>7 DEF RedialFails, About, AnswerKept, DTypeOK, RunErrors, QueryErrors
  <2>2. CASE Iterate(q)
    BY <2>1, <2>2 DEF Iterate, AnswerKept, Answered, DTypeOK
  <2>3. CASE Exhausted(q) /\ loop[q] = "timeout"
    <3>1. PICK source \in {"plugin", "downstream"} : Answer(q, Failure(err[q], source))
      BY <2>3 DEF Exhausted, AnswerError, Converted, SourcesOf
    <3> QED BY <2>1, <2>3, <3>1, AnswerOf DEF Failure, NoAnswer, AnswerKept
  <2>4. CASE Answer(q, Failure("connect", "downstream"))
    BY <2>1, <2>4, AnswerOf DEF Failure, NoAnswer, AnswerKept
  <2> QED BY <1>7, <2>2, <2>3, <2>4 DEF RedialFails
<1>8. CASE Ping(q)
  BY <1>8 DEF Ping, About, AnswerKept
<1>9. CASE Expire(q) \/ Cancel(q)
  BY <1>9 DEF Expire, Cancel, requestState, vars, AnswerKept, Answered
<1> QED BY <1>1, <1>2, <1>3, <1>4, <1>5, <1>6, <1>7, <1>8, <1>9 DEF Proceed

\* No step breaks the invariant of answers.
LEMMA AnswerInvStep ==
    ASSUME TypeOK, DTypeOK, AnswerInv, [DNext]_allVars
    PROVE  AnswerInv'
<1>1. ASSUME NEW r \in Requests, NEW q \in Queries,
               \/ RejectEarly(r) \/ Proceed(r) \/ Panic(r) \/ Expire(r) \/ Cancel(r)
      PROVE  AnswerKept(q)'
  <2>1. CASE q = r
    BY <1>1, <2>1, AnswerKeptStep DEF AnswerInv
  <2>2. CASE q # r
    BY <1>1, <2>2, OthersStay, AnswerElsewhere DEF AnswerInv, Requests
  <2> QED BY <2>1, <2>2
<1>2. ASSUME Background \/ UNCHANGED allVars, NEW q \in Queries PROVE AnswerKept(q)'
  <2>1. UNCHANGED <<pc, answer, step, loop, last>>
    BY <1>2 DEF Background, DisposeStep, DisposeGoesOn, DisposeStart, DisposeVisit,
                DisposeClear, Evict, requestVars, dsVars, allVars
  <2> QED BY <2>1, AnswerElsewhere DEF AnswerInv
<1> QED BY <1>1, <1>2 DEF DNext, AnswerInv

\* It is right in every state, and so are the types it rests on.
LEMMA AnswerInvariance == DSpec => [](TypeOK /\ DTypeOK /\ AnswerInv)
<1>1. DInit => AnswerInv
  BY DEF DInit, AnswerInv, AnswerKept, Answered, Requests
<1>2. TypeOK /\ DTypeOK /\ AnswerInv /\ [DNext]_allVars => AnswerInv'
  BY AnswerInvStep
<1>3. IInv => TypeOK
  BY DEF IInv
<1> QED BY Implementation, Invariance, DatasourceTypes, <1>1, <1>2, <1>3, PTL DEF DSpec

\* A query that ran is answered with success exactly if its last run brought
\* rows, or its only run brought none, for any number of retries: no return of
\* handleQuery loses a success or invents one.
THEOREM LastRunDecides == DSpec => []SuccessIsTheLastRun
<1>1. AnswerInv => SuccessIsTheLastRun
  BY DEF AnswerInv, AnswerKept, SuccessIsTheLastRun
<1> QED BY AnswerInvariance, <1>1, PTL

=============================================================================
