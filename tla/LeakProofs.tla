------------------------------ MODULE LeakProofs ------------------------------
(***************************************************************************)
(* Who may lose a handle: only a second retry or two requests that collide *)
(* leave one open that no Dispose will close, for any number of requests,  *)
(* keys and handles.                                                       *)
(***************************************************************************)
EXTENDS DatasourceProofs

-----------------------------------------------------------------------------
(* Steps of the connector, as far as a handle can get lost in them *)

\* r takes the handle that is cached under its key.
Takes(r) ==
    /\ pc[r] \in {"idle", "lookup"} /\ pc' = [pc EXCEPT ![r] = "ready"]
    /\ \E k \in Key :
        /\ cache[k] # NoDB
        /\ key' = [key EXCEPT ![r] = k]
        /\ conn' = [conn EXCEPT ![r] = cache[k]]
        /\ db' = [db EXCEPT ![r] = cache[k]]
    /\ UNCHANGED <<cache, opened, closed>>

\* Nothing changes but that handles are closed, or a request gets to a state
\* in which it holds none.
Passes ==
    /\ UNCHANGED <<cache, opened, conn, db>> /\ closed \subseteq closed'
    /\ \A r \in Requests :
        \/ pc'[r] = pc[r]
        \/ ~Holding(r) /\ pc'[r] \in {"lookup", "dial", "done"}
    /\ \A r \in Requests : conn[r] # NoDB => key'[r] = key[r]

\* A step of the connector is one of these, or the cache is no longer kept.
LEMMA LossCases ==
    ASSUME TypeOK, HandlesOpened, [Next]_vars
    PROVE  \/ \E r \in Requests :
               Takes(r) \/ DialNew(r) \/ StoreNew(r) \/ Redial(r) \/ CloseOld(r) \/ StoreFresh(r)
           \/ Passes
           \/ dispose' = "done" \/ Evicts
<1> USE DEF TypeOK, HandlesOpened, Holding, Key, cacheVars, requestVars, disposeVars
<1>1. ASSUME NEW r \in Requests, BeginQuery(r) PROVE Takes(r) \/ Passes
  <2>1. PICK a \in QueryArgs : Reject(r, a) \/ UseDefault(r, a) \/ UseOwnKey(r, a)
    BY <1>1 DEF BeginQuery
  <2>2. CASE Reject(r, a)
    BY <1>1, <2>2 DEF BeginQuery, Reject, Goto, Passes
  <2>3. CASE UseDefault(r, a)
    BY <1>1, <2>3 DEF BeginQuery, UseDefault, Take, Goto, Takes
  <2>4. CASE UseOwnKey(r, a)
    BY <1>1, <2>4 DEF BeginQuery, UseOwnKey, Goto, Passes
  <2> QED BY <2>1, <2>2, <2>3, <2>4
<1>2. ASSUME NEW r \in Requests, LookupHit(r) PROVE Takes(r)
  BY <1>2 DEF LookupHit, Take, Goto, Takes
<1>3. ASSUME NEW r \in Requests, BeginCheck(r) PROVE Takes(r) \/ Passes
  <2>1. CASE cache[DefaultKey] # NoDB
    BY <1>3, <2>1 DEF BeginCheck, Take, Goto, Takes
  <2>2. CASE cache[DefaultKey] = NoDB
    BY <1>3, <2>2 DEF BeginCheck, Goto, Passes
  <2> QED BY <2>1, <2>2
<1>4. ASSUME NEW r \in Requests, LookupMiss(r) \/ DialFails(r) \/ Return(r) PROVE Passes
  BY <1>4 DEF LookupMiss, DialFails, Return, Goto, Passes
<1>5. CASE DisposeStart \/ (\E k \in Key : DisposeVisit(k)) \/ vars' = vars
  BY <1>5 DEF DisposeStart, DisposeVisit, vars, Passes
<1>6. CASE DisposeClear \/ \E k \in Key : Evict(k)
  BY <1>6 DEF DisposeClear, Evict
<1> QED BY NextCases, <1>1, <1>2, <1>3, <1>4, <1>5, <1>6

\* What a request took stays what it took, and once it has gone on with
\* another handle it does not return to that one.
LEMMA TakenStays ==
    ASSUME TypeOK, HandlesOpened, [Next]_vars, NEW s \in Requests, conn[s] # NoDB
    PROVE  \/ /\ conn'[s] = conn[s] /\ key'[s] = key[s]
              /\ db[s] # conn[s] => db'[s] # conn[s]
           \/ dispose' = "done" \/ Evicts
<1> USE DEF TypeOK, HandlesOpened, Goto
<1>1. ASSUME NEW r \in Requests, Takes(r) \/ DialNew(r) \/ StoreNew(r)
      PROVE  conn'[s] = conn[s] /\ key'[s] = key[s] /\ db'[s] = db[s]
  <2>1. r # s
    BY <1>1 DEF Takes, DialNew, StoreNew
  <2> QED BY <1>1, <2>1 DEF Takes, DialNew, StoreNew, Dial, Take
<1>2. ASSUME NEW r \in Requests, Redial(r)
      PROVE  conn'[s] = conn[s] /\ key'[s] = key[s] /\ (db[s] # conn[s] => db'[s] # conn[s])
  <2>1. PICK h \in DB \ opened : db' = [db EXCEPT ![r] = h]
    BY <1>2 DEF Redial, Dial
  <2>2. conn[s] \in opened
    OBVIOUS
  <2> QED BY <1>2, <2>1, <2>2 DEF Redial
<1>3. ASSUME NEW r \in Requests, CloseOld(r) \/ StoreFresh(r)
      PROVE  conn'[s] = conn[s] /\ key'[s] = key[s] /\ db'[s] = db[s]
  BY <1>3 DEF CloseOld, StoreFresh
<1>4. CASE Passes
  BY <1>4 DEF Passes
<1> QED BY LossCases, <1>1, <1>2, <1>3, <1>4


-----------------------------------------------------------------------------
(* What excuses a leak *)

\* Requests that have collided stay so.
LEMMA CollidedStays ==
    ASSUME TypeOK, HandlesOpened, [Next]_vars,
           NEW s \in Requests, NEW t \in Requests, Collided(s, t)
    PROVE  Collided(s, t)' \/ dispose' = "done" \/ Evicts
<1>1. conn[s] # NoDB /\ conn[t] # NoDB
  BY DEF Collided
<1> QED BY <1>1, TakenStays DEF Collided

\* A retry that was made stays made.
LEMMA RetriesStay ==
    ASSUME DTypeOK, [DNext]_allVars, NEW q \in Requests, i[q] > 0
    PROVE  i'[q] > 0
<1> USE DEF DTypeOK
<1>0. i[q] \in Nat
  BY DatasourceAssumption
<1>1. ASSUME NEW r \in Requests, Iterate(r) PROVE i'[q] > 0
  BY <1>0, <1>1 DEF Iterate
<1>2. ASSUME NEW r \in Requests, RejectEarly(r) \/ Acquire(r) \/ Panic(r) \/ Expire(r) \/ Cancel(r)
      PROVE  i'[q] > 0
  BY <1>2 DEF RejectEarly, Acquire, Panic, Expire, Cancel, requestState
<1>3. ASSUME NEW r \in Requests, NEW o, AfterRun(r, o) PROVE i'[q] > 0
  BY <1>1, <1>3 DEF AfterRun, AfterFirst, AfterRetry, AfterTimeout, Exhausted, Answer,
                    AnswerError, EnterLoop
<1>4. ASSUME NEW r \in Requests, Send(r) \/ Read(r) PROVE i'[q] > 0
  BY <1>3, <1>4 DEF Send, Read
<1>5. ASSUME NEW r \in Requests, Reconnect(r) PROVE i'[q] > 0
  BY <1>5 DEF Reconnect, dsVars
<1>6. ASSUME NEW r \in Requests, RedialFails(r) \/ Ping(r) PROVE i'[q] > 0
  BY <1>1, <1>6 DEF RedialFails, Ping, PingOk, PingFails, Exhausted, Answer, AnswerError
<1>7. CASE Background \/ UNCHANGED allVars
  BY <1>7 DEF Background, dsVars, allVars
<1> QED BY <1>2, <1>4, <1>5, <1>6, <1>7 DEF DNext, Proceed

\* What excuses a leak does so for good.
LEMMA RacyStays ==
    ASSUME TypeOK, HandlesOpened, DTypeOK, [DNext]_allVars, Racy
    PROVE  Racy'
<1>1. [Next]_vars
  BY StepSimulation
<1>2. CASE dispose = "done"
  BY <1>1, <1>2, NextCases
     DEF BeginQuery, LookupHit, LookupMiss, DialNew, DialFails, StoreNew, BeginCheck, Redial,
         CloseOld, StoreFresh, Return, DisposeStart, DisposeVisit, DisposeClear, Evict,
         disposeVars, vars, Racy
<1>3. ASSUME NEW s \in Requests, NEW t \in Requests \ {s}, Collided(s, t) PROVE Racy'
  BY <1>1, <1>3, CollidedStays DEF Racy
<1>4. ASSUME NEW r \in Requests, i[r] > 0 PROVE Racy'
  BY <1>4, RetriesStay DEF Racy
<1> QED BY <1>2, <1>3, <1>4 DEF Racy

-----------------------------------------------------------------------------
(* Who took what is cached, and what becomes of it *)

\* Only requests of the arguments store under them, and they have taken what
\* they store, or hold a handle they took.
LEMMA CachedWasTakenStep ==
    ASSUME IInv, CachedWasTaken, [Next]_vars
    PROVE  CachedWasTaken' \/ dispose' = "done" \/ Evicts
<1> USE DEF IInv, TypeOK
<1> SUFFICES ASSUME NEW k \in Args, cache'[k] # NoDB, dispose' # "done", ~Evicts
             PROVE  \E s \in Requests : key'[s] = k /\ conn'[s] # NoDB
  BY DEF CachedWasTaken
<1>1. CASE cache[k] # NoDB
  <2>1. PICK s \in Requests : key[s] = k /\ conn[s] # NoDB
    BY <1>1 DEF CachedWasTaken
  <2> QED BY <2>1, TakenStays
<1>2. CASE cache[k] = NoDB
  <2>1. ASSUME NEW r \in Requests, StoreNew(r) \/ StoreFresh(r)
        PROVE  key'[r] = k /\ conn'[r] # NoDB
    <3>1. key[r] = k /\ db[r] # NoDB
      BY <1>2, <2>1, ConnectorAssumption DEF StoreNew, StoreFresh, Store, Key
    <3>2. pc[r] = "swap" => conn[r] # NoDB
      BY ConnectorAssumption DEF HandlesOpened, Acquired
    <3> QED BY <2>1, <3>1, <3>2 DEF StoreNew, StoreFresh, Store, Take
  <2>2. \/ UNCHANGED cache
        \/ \E r \in Requests : StoreNew(r) \/ StoreFresh(r)
    BY LossCases DEF Takes, DialNew, Redial, CloseOld, Passes
  <2> QED BY <1>2, <2>1, <2>2
<1> QED BY <1>1, <1>2

\* The handle that is about to be replaced was closed in the step before.
LEMMA ReplacedIsClosedStep ==
    ASSUME IInv, ReplacedIsClosed, [Next]_vars
    PROVE  ReplacedIsClosed' \/ dispose' = "done" \/ Evicts
<1> USE DEF IInv, TypeOK
<1> SUFFICES ASSUME NEW q \in Requests, pc'[q] = "swap", dispose' # "done", ~Evicts
             PROVE  conn'[q] \in closed'
  BY DEF ReplacedIsClosed
<1>1. ASSUME NEW r \in Requests, CloseOld(r) PROVE conn'[q] \in closed'
  BY <1>1 DEF CloseOld, Goto, ReplacedIsClosed
<1>2. ASSUME NEW r \in Requests,
             Takes(r) \/ DialNew(r) \/ StoreNew(r) \/ Redial(r) \/ StoreFresh(r)
      PROVE  conn'[q] \in closed'
  BY <1>2 DEF Takes, DialNew, StoreNew, Redial, StoreFresh, Dial, Take, Goto, ReplacedIsClosed
<1>3. CASE Passes
  BY <1>3 DEF Passes, ReplacedIsClosed
<1> QED BY LossCases, <1>1, <1>2, <1>3


-----------------------------------------------------------------------------
(* When a request replaces its handle *)

\* What ReplacesOnce says of one request.
Once(r) ==
    i[r] = 0 =>
        /\ r \in Checks => step[r] \in {"redial", "ping"}
        /\ pc[r] = "ready" /\ step[r] = "redial" => db[r] = conn[r]
        /\ r \in Queries /\ loop[r] = "first" /\ pc[r] # "done" =>
            /\ pc[r] \notin {"close", "swap"} /\ step[r] # "redial"
            /\ pc[r] = "ready" => db[r] = conn[r]

\* A request leaves the handles of others alone.
LEMMA OthersKeep ==
    ASSUME TypeOK, DTypeOK, NEW r \in Requests, NEW q \in Requests \ {r},
           \/ RejectEarly(r) \/ Proceed(r) \/ Panic(r) \/ Expire(r) \/ Cancel(r)
    PROVE  i'[q] = i[q] /\ db'[q] = db[q] /\ conn'[q] = conn[q]
<1> DEFINE Keep == i'[q] = i[q] /\ db'[q] = db[q] /\ conn'[q] = conn[q]
<1> USE DEF TypeOK, DTypeOK, Set, requestState, dsVars
<1>1. ASSUME RejectEarly(r) \/ Expire(r) \/ Cancel(r) PROVE Keep
  BY <1>1 DEF RejectEarly, Expire, Cancel, vars
<1>2. ASSUME Acquire(r) PROVE Keep
  BY <1>2 DEF Acquire, BeginQuery, Reject, UseDefault, UseOwnKey, LookupHit, LookupMiss,
              DialNew, DialFails, StoreNew, BeginCheck, Take, Dial
<1>3. ASSUME Reconnect(r) PROVE Keep
  BY <1>3 DEF Reconnect, Redial, CloseOld, StoreFresh, Dial
<1>4. ASSUME Panic(r) PROVE Keep
  BY <1>4 DEF Panic, DialFails, Return, vars
<1>5. ASSUME NEW o, AfterRun(r, o) PROVE Keep
  BY <1>5 DEF AfterRun, AfterFirst, AfterRetry, AfterTimeout, Answer, AnswerError, EnterLoop,
              Iterate, Exhausted, Return, vars
<1>6. ASSUME Send(r) \/ Read(r) PROVE Keep
  BY <1>5, <1>6 DEF Send, Read, vars
<1>7. ASSUME RedialFails(r) \/ Ping(r) PROVE Keep
  BY <1>7 DEF RedialFails, Ping, PingOk, PingFails, Answer, AnswerError, Iterate, Exhausted,
              Return, vars
<1> QED BY <1>1, <1>2, <1>3, <1>4, <1>6, <1>7 DEF Proceed

\* A request that returns replaces nothing.
LEMMA OnceAnswered ==
    ASSUME TypeOK, DTypeOK, NEW r \in Requests, Once(r), NEW a, Answer(r, a)
    PROVE  Once(r)'
  BY DEF Answer, Return, Goto, Once, TypeOK

\* A second retry is no concern of Once.
LEMMA OnceIterated ==
    ASSUME DTypeOK, NEW r \in Requests, Iterate(r)
    PROVE  Once(r)'
<1>1. i[r] \in Nat /\ i'[r] = i[r] + 1
  BY DatasourceAssumption DEF Iterate, DTypeOK
<1> QED BY <1>1 DEF Once

\* No run makes its request replace a handle twice.
LEMMA OnceAfterRun ==
    ASSUME TypeOK, DTypeOK, NEW r \in Requests, Once(r), pc[r] = "ready",
           step[r] \in {"run", "rows"}, NEW o, AfterRun(r, o)
    PROVE  Once(r)'
<1>1. CASE Iterate(r) \/ \E a : Answer(r, a)
  BY <1>1, OnceAnswered, OnceIterated
<1>2. ASSUME NEW l \in {"retry", "timeout"}, EnterLoop(r, l, o), loop[r] = "first"
      PROVE  Once(r)'
  <2>1. pc' = pc /\ db' = db /\ conn' = conn /\ i' = i /\ loop'[r] # "first" /\ step'[r] = "redial"
    BY <1>2 DEF EnterLoop, vars, DTypeOK
  <2>2. i[r] = 0 => r \in Queries /\ r \notin Checks /\ db[r] = conn[r]
    BY <1>2, ConnectorAssumption DEF Once, Requests
  <2> QED BY <2>1, <2>2 DEF Once
<1> QED BY <1>1, <1>2 DEF AfterRun, AfterFirst, AfterRetry, AfterTimeout, AnswerError, Exhausted

\* No step of a request makes it replace a handle twice.
LEMMA OnceStep ==
    ASSUME TypeOK, DTypeOK, NEW r \in Requests, Once(r),
           \/ RejectEarly(r) \/ Proceed(r) \/ Panic(r) \/ Expire(r) \/ Cancel(r)
    PROVE  Once(r)'
<1> USE DEF TypeOK, DTypeOK, Goto, requestState, dsVars
<1>1. CASE RejectEarly(r) \/ Expire(r) \/ Cancel(r)
  BY <1>1 DEF RejectEarly, Expire, Cancel, vars, Once
<1>2. CASE Acquire(r)
  <2>1. UNCHANGED requestState /\ pc[r] \in {"idle", "lookup", "dial", "store"}
    BY <1>2 DEF Acquire, BeginQuery, LookupHit, LookupMiss, DialNew, DialFails, StoreNew,
                BeginCheck
  <2>2. /\ pc'[r] \notin {"close", "swap"}
        /\ pc'[r] = "ready" => db'[r] = conn'[r]
    <3>1. ASSUME BeginQuery(r)
          PROVE  pc'[r] \notin {"close", "swap"} /\ (pc'[r] = "ready" => db'[r] = conn'[r])
      BY <3>1 DEF BeginQuery, Reject, UseDefault, UseOwnKey, Take
    <3> QED BY <1>2, <3>1 DEF Acquire, LookupHit, LookupMiss, DialNew, DialFails, StoreNew,
                              BeginCheck, Take
  <2> QED BY <2>1, <2>2 DEF Once
<1>3. CASE Send(r) \/ Read(r)
  <2>1. pc[r] = "ready" /\ step[r] \in {"run", "rows"}
    BY <1>3 DEF Send, Read, About
  <2>2. CASE \E o : AfterRun(r, o)
    BY <2>1, <2>2, OnceAfterRun
  <2>3. CASE step' = [step EXCEPT ![r] = "rows"] /\ UNCHANGED <<vars, loop, i>>
    BY <2>1, <2>3 DEF Once, vars
  <2> QED BY <1>3, <2>2, <2>3 DEF Send, Read
<1>4. CASE Reconnect(r)
  <2>1. CASE About(r, "redial") /\ Redial(r) /\ UNCHANGED dsVars
    BY <2>1 DEF About, Redial, Once
  <2>2. CASE CloseOld(r) /\ UNCHANGED dsVars
    BY <2>2 DEF CloseOld, Once
  <2>3. CASE /\ StoreFresh(r) /\ UNCHANGED <<loop, i>>
             /\ step' = [step EXCEPT ![r] = IF r \in Queries THEN "run" ELSE "ping"]
    BY <2>3, ConnectorAssumption DEF StoreFresh, Once, Requests
  <2> QED BY <1>4, <2>1, <2>2, <2>3 DEF Reconnect
<1>5. CASE RedialFails(r) \/ Ping(r)
  BY <1>5, OnceAnswered, OnceIterated
     DEF RedialFails, Ping, PingOk, PingFails, Exhausted, AnswerError
<1>6. CASE Panic(r)
  BY <1>6 DEF Panic, DialFails, Return, vars, Once
<1> QED BY <1>1, <1>2, <1>3, <1>4, <1>5, <1>6 DEF Proceed

\* No step makes any request replace a handle twice.
LEMMA ReplacesOnceStep ==
    ASSUME TypeOK, DTypeOK, ReplacesOnce, [DNext]_allVars
    PROVE  ReplacesOnce'
<1>1. ReplacesOnce <=> \A q \in Requests : Once(q)
  BY DEF ReplacesOnce, Once
<1>2. ASSUME NEW q \in Requests PROVE Once(q)'
  <2>1. ASSUME NEW r \in Requests,
               \/ RejectEarly(r) \/ Proceed(r) \/ Panic(r) \/ Expire(r) \/ Cancel(r)
        PROVE  Once(q)'
    <3>1. CASE r = q
      BY <1>1, <2>1, <3>1, OnceStep
    <3>2. CASE r # q
      <4>1. /\ pc'[q] = pc[q] /\ step'[q] = step[q] /\ loop'[q] = loop[q]
            /\ i'[q] = i[q] /\ db'[q] = db[q] /\ conn'[q] = conn[q]
        BY <2>1, <3>2, OthersStay, OthersKeep
      <4> QED BY <1>1, <4>1 DEF Once
    <3> QED BY <3>1, <3>2
  <2>2. CASE Background
    <3>1. UNCHANGED <<pc, db, conn, step, loop, i>>
      BY <2>2 DEF Background, DisposeStep, DisposeStart, DisposeGoesOn, DisposeVisit,
                  DisposeClear, Evict, requestVars, dsVars
    <3> QED BY <1>1, <3>1 DEF Once
  <2>3. CASE UNCHANGED allVars
    BY <1>1, <2>3 DEF Once, allVars
  <2> QED BY <2>1, <2>2, <2>3 DEF DNext
<1> QED BY <1>2 DEF ReplacesOnce, Once

\* Only a request that was about to redials.
LEMMA RedialWasDue ==
    ASSUME TypeOK, DTypeOK, [DNext]_allVars, NEW q \in Requests, Redial(q)
    PROVE  step[q] = "redial"
<1> USE DEF TypeOK, Goto
<1>0. pc[q] = "ready" /\ pc'[q] = "close"
  BY DEF Redial
<1>1. ASSUME NEW r \in Requests,
             \/ RejectEarly(r) \/ Proceed(r) \/ Panic(r) \/ Expire(r) \/ Cancel(r)
      PROVE  step[q] = "redial"
  <2>1. r = q
    BY <1>0, <1>1, OthersStay
  <2>2. CASE Reconnect(q)
    BY <1>0, <2>2 DEF Reconnect, About, CloseOld, StoreFresh
  <2>3. CASE RejectEarly(q) \/ Acquire(q) \/ Panic(q) \/ Expire(q) \/ Cancel(q)
    BY <1>0, <2>3 DEF RejectEarly, Acquire, BeginQuery, LookupHit, LookupMiss, DialNew, DialFails,
                      StoreNew, BeginCheck, Panic, Return, Expire, Cancel, vars
  <2>4. ASSUME NEW o, AfterRun(q, o) PROVE FALSE
    BY <1>0, <2>4, AfterRunConnector DEF Return, vars
  <2>5. CASE Send(q) \/ Read(q)
    BY <1>0, <2>4, <2>5 DEF Send, Read, vars
  <2>6. CASE RedialFails(q) \/ Ping(q)
    BY <1>0, <2>6 DEF RedialFails, Ping, PingOk, PingFails, Answer, AnswerError, Iterate, Exhausted,
                Return, About, vars
  <2> QED BY <1>1, <2>1, <2>2, <2>3, <2>5, <2>6 DEF Proceed
<1>2. CASE Background \/ UNCHANGED allVars
  BY <1>0, <1>2 DEF Background, DisposeStep, DisposeStart, DisposeGoesOn, DisposeVisit,
                    DisposeClear, Evict, requestVars, allVars
<1> QED BY <1>1, <1>2 DEF DNext


-----------------------------------------------------------------------------
(* The handle a request took is there until it is replaced *)

\* A request that has not replaced the handle it took.
Undisturbed(r) == Acquired(r) /\ (pc[r] = "ready" => db[r] = conn[r])

\* A store under the key of r, by another request, is that of a handle that
\* request took the place of; or the two collide.
LEMMA StoredOver ==
    ASSUME IInv, ~Racy, NEW r \in Requests, NEW t \in Requests \ {r},
           Undisturbed(t) => StillThere(t),
           pc[t] = "swap", key[t] = key[r], cache[key[r]] = conn[r]
    PROVE  conn[t] = conn[r] /\ db[t] # conn[t]
<1>1. db[t] # conn[t]
  BY DEF IInv, FreshIsPrivate, Holding
<1>2. Undisturbed(t) /\ conn[t] # NoDB
  BY ConnectorAssumption DEF Undisturbed, Acquired, IInv, HandlesOpened, TypeOK
<1>3. cache[key[t]] = conn[t]
  <2> SUFFICES ASSUME NEW s \in Requests \ {t}, key[s] = key[t], conn[s] = conn[t], db[s] # conn[s]
               PROVE  FALSE
    BY <1>2 DEF StillThere
  <2>1. Collided(s, t)
    BY <1>1, <1>2 DEF Collided
  <2> QED BY <2>1 DEF Racy
<1> QED BY <1>1, <1>3

\* No step takes the handle away unless somebody replaces it.
LEMMA TakenStillThereStep ==
    ASSUME IInv, DTypeOK, ReplacesOnce, TakenStillThere, [DNext]_allVars
    PROVE  TakenStillThere'
<1> USE DEF IInv, TypeOK
<1> SUFFICES ASSUME ~Racy', NEW r \in Requests, Undisturbed(r)'
             PROVE  StillThere(r)'
  BY DEF TakenStillThere, Undisturbed
<1>1. /\ ~Racy /\ dispose' # "done" /\ ~Evicts
      /\ [Next]_vars
      /\ \A s \in Requests : i[s] = 0
      /\ \A t \in Requests : Undisturbed(t) => StillThere(t)
  <2>1. \A s \in Requests : i[s] \in Nat
    BY DatasourceAssumption DEF DTypeOK
  <2>2. ~Racy
    BY RacyStays
  <2> QED BY <2>1, <2>2, StepSimulation DEF Racy, TakenStillThere, Undisturbed
<1>2. ASSUME Undisturbed(r), conn'[r] = conn[r], key'[r] = key[r], cache'[key[r]] = cache[key[r]]
      PROVE  StillThere(r)'
  <2>1. CASE cache[key[r]] = conn[r]
    BY <1>2, <2>1 DEF StillThere
  <2>2. ASSUME NEW s \in Requests \ {r}, key[s] = key[r], conn[s] = conn[r], db[s] # conn[s]
        PROVE  StillThere(r)'
    <3>1. conn[s] # NoDB
      BY <1>2, <2>2, ConnectorAssumption DEF Undisturbed, HandlesOpened
    <3>2. conn'[s] = conn[s] /\ key'[s] = key[s] /\ db'[s] # conn'[s]
      BY <1>1, <2>2, <3>1, TakenStays
    <3> QED BY <1>2, <2>2, <3>2 DEF StillThere
  <2> QED BY <1>1, <1>2, <2>1, <2>2 DEF StillThere
<1>3. ASSUME NEW t \in Requests, Takes(t) PROVE StillThere(r)'
  <2>1. CASE t = r
    BY <1>3, <2>1 DEF Takes, StillThere
  <2>2. CASE t # r
    <3>1. Undisturbed(r)
      BY <1>3, <2>2 DEF Takes, Undisturbed, Acquired
    <3> QED BY <1>2, <1>3, <2>2, <3>1 DEF Takes
  <2> QED BY <2>1, <2>2
<1>4. ASSUME NEW t \in Requests, StoreNew(t) PROVE StillThere(r)'
  <2>1. CASE t = r
    BY <1>4, <2>1 DEF StoreNew, Store, Take, StillThere
  <2>2. CASE t # r
    <3>1. Undisturbed(r) /\ conn'[r] = conn[r] /\ key'[r] = key[r]
      BY <1>4, <2>2 DEF StoreNew, Take, Goto, Undisturbed, Acquired
    <3>2. CASE key[t] # key[r]
      BY <1>2, <1>4, <3>1, <3>2 DEF StoreNew, Store
    <3>3. CASE key[t] = key[r]
      <4>1. key'[t] = key[t] /\ conn'[t] = db[t] /\ db[t] # conn[r] /\ key[t] # DefaultKey
        BY <1>4 DEF StoreNew, Take, FreshIsPrivate, Holding, KeysMatchArgs, Requests
      <4>2. conn[r] # NoDB /\ db[t] # NoDB
        BY <1>4, <3>1, ConnectorAssumption DEF StoreNew, Undisturbed, HandlesOpened, Holding
      <4>3. Collided(t, r)'
        BY <3>1, <3>3, <4>1, <4>2 DEF Collided
      <4> QED BY <2>2, <4>3 DEF Racy
    <3> QED BY <3>2, <3>3
  <2> QED BY <2>1, <2>2
<1>5. ASSUME NEW t \in Requests, StoreFresh(t) PROVE StillThere(r)'
  <2>1. t # r
    BY <1>5 DEF StoreFresh, Goto, Undisturbed, FreshIsPrivate, Holding
  <2>2. /\ Undisturbed(r) /\ UNCHANGED <<conn, key, db>>
        /\ pc[t] = "swap"
    BY <1>5, <2>1 DEF StoreFresh, Goto, Undisturbed, Acquired
  <2>3. CASE key[t] # key[r] \/ cache[key[r]] # conn[r]
    <3>1. CASE key[t] # key[r]
      BY <1>2, <1>5, <2>2, <3>1 DEF StoreFresh, Store
    <3>2. CASE cache[key[r]] # conn[r]
      BY <1>1, <2>2, <3>2 DEF StillThere
    <3> QED BY <2>3, <3>1, <3>2
  <2>4. CASE key[t] = key[r] /\ cache[key[r]] = conn[r]
    <3>1. conn[t] = conn[r] /\ db[t] # conn[t]
      BY <1>1, <2>1, <2>2, <2>4, StoredOver
    <3> QED BY <2>1, <2>2, <2>4, <3>1 DEF StillThere
  <2> QED BY <2>3, <2>4
<1>6. ASSUME NEW t \in Requests, Redial(t) PROVE StillThere(r)'
  <2>1. Undisturbed(r)
    <3>1. CASE t = r
      BY <1>1, <1>6, <3>1, RedialWasDue DEF ReplacesOnce, Redial, Undisturbed, Acquired
    <3>2. CASE t # r
      BY <1>6, <3>2 DEF Redial, Dial, Goto, Undisturbed, Acquired
    <3> QED BY <3>1, <3>2
  <2> QED BY <1>2, <1>6, <2>1 DEF Redial
<1>7. ASSUME NEW t \in Requests, DialNew(t) \/ CloseOld(t) PROVE StillThere(r)'
  <2>1. Undisturbed(r) /\ UNCHANGED <<cache, conn, key>>
    BY <1>7 DEF DialNew, CloseOld, Dial, Goto, Undisturbed, Acquired
  <2> QED BY <1>2, <2>1
<1>8. CASE Passes
  <2>1. Undisturbed(r) /\ UNCHANGED <<cache, conn>>
    BY <1>8 DEF Passes, Undisturbed, Acquired, Holding
  <2>2. key'[r] = key[r]
    BY <1>8, <2>1, ConnectorAssumption DEF Passes, Undisturbed, HandlesOpened
  <2> QED BY <1>2, <2>1, <2>2
<1> QED BY <1>1, <1>3, <1>4, <1>5, <1>6, <1>7, <1>8, LossCases

-----------------------------------------------------------------------------
(* Leaks *)

\* Where an open handle is: in the cache, or with a request about to store it.
Kept(d) == (\E k \in Key : cache[k] = d) \/ \E r \in Requests : Holding(r) /\ db[r] = d

\* No step loses a handle without an excuse.
LEMMA LeakStep ==
    ASSUME IInv, DTypeOK, CachedWasTaken, ReplacedIsClosed, TakenStillThere, LeakNeedsRace,
           [DNext]_allVars
    PROVE  LeakNeedsRace'
<1> USE DEF IInv, TypeOK
<1> SUFFICES ASSUME ~Racy', NEW d \in opened', d \notin closed' PROVE Kept(d)'
  BY DEF LeakNeedsRace, Leaked, Kept
<1>1. /\ ~Racy /\ dispose' # "done" /\ ~Evicts /\ [Next]_vars
      /\ \A t \in Requests : Undisturbed(t) => StillThere(t)
      /\ d \in opened /\ d \notin closed => Kept(d)
  <2>1. ~Racy
    BY RacyStays
  <2> QED BY <2>1, StepSimulation DEF Racy, TakenStillThere, Undisturbed, LeakNeedsRace, Leaked, Kept
<1>2. ASSUME NEW t \in Requests, Takes(t) PROVE Kept(d)'
  BY <1>1, <1>2 DEF Takes, Kept, Holding
<1>3. ASSUME NEW t \in Requests, DialNew(t) \/ Redial(t) PROVE Kept(d)'
  <2>1. PICK h \in DB \ opened : /\ opened' = opened \cup {h} /\ db' = [db EXCEPT ![t] = h]
                                 /\ pc'[t] \in {"store", "close"}
    BY <1>3 DEF DialNew, Redial, Dial, Goto
  <2>2. ~Holding(t) /\ UNCHANGED <<cache, closed>> /\ \A r \in Requests \ {t} : pc'[r] = pc[r]
    BY <1>3 DEF DialNew, Redial, Goto, Holding
  <2>3. CASE d = h
    BY <2>1, <2>3 DEF Kept, Holding
  <2>4. CASE d # h
    BY <1>1, <2>1, <2>2, <2>4 DEF Kept, Holding
  <2> QED BY <2>3, <2>4
<1>4. ASSUME NEW t \in Requests, CloseOld(t) PROVE Kept(d)'
  BY <1>1, <1>4 DEF CloseOld, Goto, Kept, Holding
<1>5. CASE Passes
  BY <1>1, <1>5 DEF Passes, Kept, Holding
<1>6. ASSUME NEW t \in Requests, StoreNew(t) \/ StoreFresh(t) PROVE Kept(d)'
  <2>1. /\ cache' = [cache EXCEPT ![key[t]] = db[t]] /\ UNCHANGED <<opened, closed>>
        /\ \A r \in Requests \ {t} : pc'[r] = pc[r] /\ db'[r] = db[r]
        /\ key[t] \in Key
    BY <1>6 DEF StoreNew, StoreFresh, Store, Take, Goto
  <2>2. d \in opened /\ d \notin closed /\ Kept(d)
    BY <1>1, <2>1
  <2>3. CASE d = db[t]
    BY <2>1, <2>3 DEF Kept
  <2>4. ASSUME NEW r \in Requests \ {t}, Holding(r), db[r] = d PROVE Kept(d)'
    BY <2>1, <2>4 DEF Kept, Holding
  <2>5. ASSUME NEW k \in Key \ {key[t]}, cache[k] = d PROVE Kept(d)'
    BY <2>1, <2>5 DEF Kept
  <2>6. ASSUME cache[key[t]] = d, StoreNew(t) PROVE FALSE
    <3>1. d # NoDB /\ db[t] # NoDB /\ conn[t] = NoDB /\ key[t] \in Args
      BY <2>2, <2>6, ConnectorAssumption
         DEF StoreNew, HandlesOpened, Holding, KeysMatchArgs, Requests, Key
    <3>2. PICK s \in Requests : key[s] = key[t] /\ conn[s] # NoDB
      BY <2>6, <3>1 DEF CachedWasTaken
    <3>3. s # t /\ conn[s] # db[t]
      BY <2>6, <3>1, <3>2 DEF StoreNew, FreshIsPrivate, Holding
    <3>4. Collided(s, t)'
      BY <2>6, <3>1, <3>2, <3>3, ConnectorAssumption DEF StoreNew, Take, Collided, Key
    <3> QED BY <3>3, <3>4 DEF Racy
  <2>7. ASSUME cache[key[t]] = d, StoreFresh(t) PROVE FALSE
    <3>1. /\ pc[t] = "swap" /\ conn[t] \in closed /\ conn[t] # NoDB /\ db[t] # conn[t]
          /\ Undisturbed(t)
      BY <2>7, ConnectorAssumption
         DEF StoreFresh, ReplacedIsClosed, HandlesOpened, FreshIsPrivate, Holding, Acquired,
             Undisturbed
    <3>2. PICK s \in Requests \ {t} : key[s] = key[t] /\ conn[s] = conn[t] /\ db[s] # conn[s]
      BY <1>1, <2>2, <2>7, <3>1 DEF StillThere
    <3>3. Collided(s, t)
      BY <3>1, <3>2 DEF Collided
    <3> QED BY <1>1, <3>3 DEF Racy
  <2> QED BY <1>6, <2>2, <2>3, <2>4, <2>5, <2>6, <2>7 DEF Kept
<1> QED BY <1>1, <1>2, <1>3, <1>4, <1>5, <1>6, LossCases

\* The strengthening of LeakNeedsRace holds initially.
LEMMA LeakInvInit ==
    ASSUME DInit
    PROVE  CachedWasTaken /\ ReplacedIsClosed /\ ReplacesOnce /\ TakenStillThere /\ LeakNeedsRace
<1>1. CachedWasTaken
  BY ConnectorAssumption DEF DInit, Init, CachedWasTaken, Key
<1>2. ReplacedIsClosed /\ TakenStillThere
  BY DEF DInit, Init, ReplacedIsClosed, TakenStillThere, Acquired
<1>3. ReplacesOnce
  BY ConnectorAssumption DEF DInit, Init, ReplacesOnce, Requests
<1>4. LeakNeedsRace
  BY DEF DInit, Init, LeakNeedsRace, Leaked, Key
<1> QED BY <1>1, <1>2, <1>3, <1>4


\* The invariant; once there is an excuse it only remembers the retries.
LeakInv ==
    /\ ReplacesOnce /\ TakenStillThere /\ LeakNeedsRace
    /\ ~Racy => CachedWasTaken /\ ReplacedIsClosed

\* Every step keeps it.
LEMMA LeakInvStep ==
    ASSUME IInv, DTypeOK, LeakInv, [DNext]_allVars
    PROVE  LeakInv'
<1>1. ReplacesOnce'
  BY ReplacesOnceStep DEF LeakInv, IInv
<1>2. TakenStillThere'
  BY TakenStillThereStep DEF LeakInv
<1>3. CASE Racy'
  BY <1>1, <1>2, <1>3 DEF LeakInv, LeakNeedsRace
<1>4. CASE ~Racy'
  <2>1. ~Racy /\ dispose' # "done" /\ ~Evicts
    BY <1>4, RacyStays DEF Racy, IInv
  <2>2. CachedWasTaken /\ ReplacedIsClosed /\ [Next]_vars
    BY <2>1, StepSimulation DEF LeakInv
  <2>3. CachedWasTaken'
    BY <2>1, <2>2, CachedWasTakenStep
  <2>4. ReplacedIsClosed'
    BY <2>1, <2>2, ReplacedIsClosedStep
  <2>5. LeakNeedsRace'
    BY <2>2, LeakStep DEF LeakInv
  <2> QED BY <1>1, <1>2, <2>3, <2>4, <2>5 DEF LeakInv
<1> QED BY <1>3, <1>4

\* A handle is lost only to a second retry of its request, to two requests
\* that replaced the same handle or dialled for the same arguments, to a cache
\* that evicts, or after Dispose (LeakNeedsRace), however many requests, keys
\* and handles there are.
THEOREM LeaksAreExcused == DSpec => []LeakNeedsRace
<1>1. DInit => LeakInv
  BY LeakInvInit DEF LeakInv
<1>2. IInv /\ DTypeOK /\ LeakInv /\ [DNext]_allVars => LeakInv'
  BY LeakInvStep
<1>3. LeakInv => LeakNeedsRace
  BY DEF LeakInv
<1> QED BY Implementation, Invariance, DatasourceTypes, <1>1, <1>2, <1>3, PTL DEF DSpec

=============================================================================
