------------------------------ MODULE PoolProofs ------------------------------
(***************************************************************************)
(* Connector implements Handles: whatever requests, Dispose and evictions  *)
(* do to the cache, its users see a pool of handles.  The mapping is that  *)
(* of Pool in module Connector; every action of the connector has a lemma  *)
(* that names the step of the pool it is, or shows that it is none.        *)
(***************************************************************************)
EXTENDS ConnectorProofs

\* The variables of the pool.
Lives == [d \in DB |-> Life(d)]
Runs == [r \in Requests |-> IF pc[r] = "ready" THEN db[r] ELSE NoDB]
Fetches == [r \in Requests |-> IF Holding(r) THEN db[r] ELSE NoDB]
Withdrawing == dispose = "range"

PoolVars == <<Lives, argsOf, args, conn, Runs, Fetches, Withdrawing>>

\* Some request is about to store d.
Fresh(d) == \E r \in Requests : Holding(r) /\ db[r] = d

-----------------------------------------------------------------------------
(* A closed handle in the cache *)

\* No step leaves a closed handle stored but to the call that replaces it.
LEMMA ClosedIsReplacedStep ==
    ASSUME TypeOK, HandlesOpened, FreshIsPrivate, OneHome, ClosedIsReplaced, [Next]_vars
    PROVE  ClosedIsReplaced'
<1> USE DEF HandlesOpened, FreshIsPrivate, OneHome, ClosedIsReplaced, Holding, Acquired,
            TypeOK, Key, cacheVars, requestVars, disposeVars
<1>1. ASSUME NEW r \in Requests, BeginQuery(r) PROVE ClosedIsReplaced'
  <2>1. PICK a \in QueryArgs : Reject(r, a) \/ UseDefault(r, a) \/ UseOwnKey(r, a)
    BY <1>1 DEF BeginQuery
  <2>2. CASE Reject(r, a)
    BY <1>1, <2>2 DEF BeginQuery, Reject, Goto
  <2>3. CASE UseDefault(r, a)
    BY <1>1, <2>3 DEF BeginQuery, UseDefault, Take, Goto
  <2>4. CASE UseOwnKey(r, a)
    BY <1>1, <2>4 DEF BeginQuery, UseOwnKey, Goto
  <2> QED BY <2>1, <2>2, <2>3, <2>4
<1>2. ASSUME NEW r \in Requests, LookupHit(r) PROVE ClosedIsReplaced'
  BY <1>2 DEF LookupHit, Take, Goto
<1>3. ASSUME NEW r \in Requests,
               \/ LookupMiss(r) \/ DialNew(r) \/ DialFails(r) \/ Redial(r) \/ Return(r)
      PROVE  ClosedIsReplaced'
  BY <1>3 DEF LookupMiss, DialNew, DialFails, Redial, Return, Dial, Goto
<1>4. ASSUME NEW r \in Requests, StoreNew(r) PROVE ClosedIsReplaced'
  BY <1>4 DEF StoreNew, Store, Take, Goto
<1>5. ASSUME NEW r \in Requests, BeginCheck(r) PROVE ClosedIsReplaced'
  <2>1. CASE cache[DefaultKey] # NoDB
    BY <1>5, <2>1 DEF BeginCheck, Take, Goto
  <2>2. CASE cache[DefaultKey] = NoDB
    BY <1>5, <2>2 DEF BeginCheck, Goto
  <2> QED BY <2>1, <2>2
<1>6. ASSUME NEW r \in Requests, CloseOld(r) PROVE ClosedIsReplaced'
  BY <1>6 DEF CloseOld, Goto
<1>7. ASSUME NEW r \in Requests, StoreFresh(r) PROVE ClosedIsReplaced'
  BY <1>7, ConnectorAssumption DEF StoreFresh, Store, Goto
<1>8. CASE DisposeStart \/ \E k \in Key : DisposeVisit(k)
  BY <1>8 DEF DisposeStart, DisposeVisit
<1>9. CASE DisposeClear
  BY <1>9, ConnectorAssumption DEF DisposeClear
<1>10. ASSUME NEW k \in Key, Evict(k) PROVE ClosedIsReplaced'
  BY <1>10, ConnectorAssumption DEF Evict, Store
<1>11. CASE vars' = vars
  BY <1>11 DEF vars
<1> QED BY NextCases, <1>1, <1>2, <1>3, <1>4, <1>5, <1>6, <1>7, <1>8, <1>9, <1>10, <1>11

PoolInv == IInv /\ ClosedIsReplaced

\* The invariant the refinement needs holds in every state.
LEMMA PoolInvariance == Spec => []PoolInv
<1>1. Init => ClosedIsReplaced
  BY DEF Init, ClosedIsReplaced
<1>2. IInv /\ ClosedIsReplaced /\ [Next]_vars => ClosedIsReplaced'
  BY ClosedIsReplacedStep DEF IInv
<1> QED BY Invariance, <1>1, <1>2, PTL DEF Spec, PoolInv

-----------------------------------------------------------------------------
(* The pool's variables, before and after a step *)

\* The four stages of a handle's life.
LEMMA LifeOf ==
    /\ \A d \in DB : Life(d) = IF d \notin opened THEN "unopened"
                               ELSE IF d \in closed THEN "closed"
                               ELSE IF Fresh(d) THEN "fresh" ELSE "open"
    /\ \A d \in DB : Life(d)' = IF d \notin opened' THEN "unopened"
                                ELSE IF d \in closed' THEN "closed"
                                ELSE IF Fresh(d)' THEN "fresh" ELSE "open"
  BY DEF Life, Fresh

\* A step that opens, closes and stores no handle leaves all lives alone.
LEMMA LifeKept ==
    ASSUME UNCHANGED <<opened, closed>>, \A d \in DB : Fresh(d)' <=> Fresh(d)
    PROVE  Lives' = Lives
  BY LifeOf DEF Lives

\* The initial states map to those of the pool.
LEMMA PoolInit == ASSUME Init PROVE Pool!Init
<1>1. PICK b \in DB : opened = {b} /\ closed = {}
  BY DEF Init
<1>2. \A d \in DB : ~Fresh(d)
  BY DEF Init, Fresh, Holding
<1>3. \A d \in DB : Life(d) = IF d = b THEN "open" ELSE "unopened"
  BY <1>1, <1>2, LifeOf
<1> QED BY <1>1, <1>3 DEF Init, Pool!Init, Holding

-----------------------------------------------------------------------------
(* What the cache holds may be taken *)

\* Whatever the cache returns is open, or has a successor on the way, or is
\* being withdrawn with everything else.
LEMMA CachedIsFindable ==
    ASSUME PoolInv, NEW k \in Key, cache[k] # NoDB
    PROVE  cache[k] \in DB /\ Pool!Findable(cache[k])
<1>1. cache[k] \in DB /\ cache[k] \in opened
  BY DEF PoolInv, IInv, HandlesOpened, TypeOK
<1>2. ~Fresh(cache[k])
  BY DEF PoolInv, IInv, FreshIsPrivate, Fresh
<1>3. CASE cache[k] \in closed
  <2>1. Life(cache[k]) = "closed"
    BY <1>1, <1>3, LifeOf
  <2>2. CASE dispose = "range"
    BY <1>1, <2>1, <2>2 DEF Pool!Findable
  <2>3. ASSUME NEW r \in Requests, pc[r] = "swap", conn[r] = cache[k]
        PROVE  Pool!Findable(cache[k])
    <3>1. Holding(r) /\ db[r] # NoDB
      BY <2>3, ConnectorAssumption DEF Holding, PoolInv, IInv, HandlesOpened, TypeOK
    <3> QED BY <1>1, <2>1, <2>3, <3>1 DEF Pool!Findable
  <2> QED BY <1>1, <1>3, <2>2, <2>3 DEF PoolInv, ClosedIsReplaced
<1>4. CASE cache[k] \notin closed
  <2>1. Life(cache[k]) = "open"
    BY <1>1, <1>2, <1>4, LifeOf
  <2> QED BY <1>1, <2>1 DEF Pool!Findable
<1> QED BY <1>3, <1>4

\* With multiple connections a query finds, under the key of its arguments, a
\* handle opened with them.
LEMMA CachedSuits ==
    ASSUME PoolInv, EnableMultiple, NEW a \in QueryArgs, cache[KeyOf(a)] # NoDB
    PROVE  argsOf[cache[KeyOf(a)]] = a
  BY ConnectorAssumption DEF PoolInv, IInv, ArgsMatch, QueryArgs, KeyOf

-----------------------------------------------------------------------------
(* One lemma for each action *)

\* A step that touches neither the handles nor what anyone is about to store.
Bystanders == UNCHANGED <<opened, closed, argsOf, dispose>>
StoresKept == \A s \in Requests : Holding(s)' = Holding(s) /\ (Holding(s) => db'[s] = db[s])

\* Such a step shows neither in the lives of the handles nor in who dials.
LEMMA NothingStored ==
    ASSUME Bystanders, StoresKept
    PROVE  Lives' = Lives /\ Fetches' = Fetches
<1>1. \A d \in DB : Fresh(d)' <=> Fresh(d)
  BY DEF StoresKept, Fresh
<1> QED BY <1>1, LifeKept DEF Fetches, StoresKept, Bystanders

\* A query that begins asks the pool for a connection, or takes the default one.
LEMMA BeginQueryRefines ==
    ASSUME PoolInv, NEW r \in Requests, BeginQuery(r) PROVE Pool!Next
<1> USE DEF cacheVars, disposeVars, Goto
<1>1. PICK a \in QueryArgs : Reject(r, a) \/ UseDefault(r, a) \/ UseOwnKey(r, a)
  BY DEF BeginQuery
<1>2. /\ r \in Queries /\ r \notin Checks /\ pc[r] = "idle" /\ conn[r] = NoDB
      /\ a \in Args \cup {NoArgs}
  BY ConnectorAssumption DEF BeginQuery, PoolInv, IInv, HandlesOpened, QueryArgs
<1>3. StoresKept /\ Bystanders
  BY <1>1, <1>2 DEF Reject, UseDefault, Take, UseOwnKey, BeginQuery, Holding, StoresKept,
                    Bystanders, PoolInv, IInv, TypeOK
<1>4. Lives' = Lives /\ Fetches' = Fetches
  BY <1>3, NothingStored
<1>5. Pool!Idle(r) /\ Pool!Wants(r)
  BY <1>1, <1>2 DEF Pool!Idle, Pool!Wants, Holding, Reject, UseDefault, UseOwnKey
<1>6. CASE Reject(r, a) \/ UseOwnKey(r, a)
  <2>1. Runs' = Runs
    BY <1>2, <1>6 DEF Reject, UseOwnKey, Runs, PoolInv, IInv, TypeOK
  <2>2. Pool!Ask(r)
    BY <1>3, <1>4, <1>5, <1>6, <2>1
       DEF Pool!Ask, Reject, UseOwnKey, Bystanders, Lives, Runs, Fetches
  <2> QED BY <2>2 DEF Pool!Next
<1>7. CASE UseDefault(r, a)
  <2>1. PICK h \in DB : h = cache[DefaultKey] /\ Pool!Findable(h)
    BY <1>7, CachedIsFindable DEF UseDefault, Key
  <2>2. EnableMultiple => argsOf[h] = args'[r]
    BY <1>2, <1>7, <2>1, CachedSuits DEF UseDefault, PoolInv, IInv, TypeOK
  <2>3. Runs' = [Runs EXCEPT ![r] = h] /\ conn' = [conn EXCEPT ![r] = h]
    BY <1>2, <1>7, <2>1 DEF UseDefault, Take, Runs, PoolInv, IInv, TypeOK
  <2>4. Pool!Take(r, h)
    BY <1>2, <1>3, <1>4, <1>5, <2>1, <2>2, <2>3
       DEF Pool!Take, Bystanders, Lives, Runs, Fetches
  <2> QED BY <2>1, <2>4 DEF Pool!Next
<1> QED BY <1>1, <1>6, <1>7

\* So does a health check.
LEMMA BeginCheckRefines ==
    ASSUME PoolInv, NEW r \in Requests, BeginCheck(r) PROVE Pool!Next
<1> USE DEF cacheVars, disposeVars, Goto
<1>1. /\ r \in Checks /\ r \notin Queries /\ pc[r] = "idle" /\ conn[r] = NoDB
  BY ConnectorAssumption DEF BeginCheck, PoolInv, IInv, HandlesOpened
<1>2. StoresKept /\ Bystanders
  BY <1>1 DEF Take, BeginCheck, Holding, StoresKept, Bystanders, PoolInv, IInv, TypeOK
<1>3. Lives' = Lives /\ Fetches' = Fetches
  BY <1>2, NothingStored
<1>4. Pool!Idle(r) /\ Pool!Wants(r)
  BY <1>1 DEF Pool!Idle, Pool!Wants, Holding, BeginCheck, CheckArgs
<1>5. CASE cache[DefaultKey] = NoDB
  <2>1. Runs' = Runs /\ conn' = conn
    BY <1>1, <1>5 DEF BeginCheck, Runs, PoolInv, IInv, TypeOK
  <2>2. Pool!Ask(r)
    BY <1>2, <1>3, <1>4, <2>1 DEF Pool!Ask, Bystanders, Lives, Runs, Fetches
  <2> QED BY <2>2 DEF Pool!Next
<1>6. CASE cache[DefaultKey] # NoDB
  <2>1. PICK h \in DB : h = cache[DefaultKey] /\ Pool!Findable(h)
    BY <1>6, CachedIsFindable DEF Key
  <2>2. Take(r, DefaultKey, h)
    BY <1>6, <2>1 DEF BeginCheck
  <2>3. Runs' = [Runs EXCEPT ![r] = h] /\ conn' = [conn EXCEPT ![r] = h]
    BY <1>1, <2>2 DEF Take, Runs, PoolInv, IInv, TypeOK
  <2>4. Pool!Take(r, h)
    BY <1>1, <1>2, <1>3, <1>4, <2>1, <2>3
       DEF Pool!Take, Bystanders, Lives, Runs, Fetches
  <2> QED BY <2>1, <2>4 DEF Pool!Next
<1> QED BY <1>5, <1>6

\* A lookup that hits takes what it finds.
LEMMA LookupHitRefines ==
    ASSUME PoolInv, NEW r \in Requests, LookupHit(r) PROVE Pool!Next
<1> USE DEF cacheVars, disposeVars, Goto
<1>1. /\ pc[r] = "lookup" /\ conn[r] = NoDB /\ key[r] \in Key /\ cache[key[r]] # NoDB
      /\ r \in Queries /\ args[r] \in QueryArgs /\ key[r] = KeyOf(args[r])
  BY DEF LookupHit, PoolInv, IInv, HandlesOpened, KeysMatchArgs, Requests, TypeOK
<1>2. PICK h \in DB : h = cache[key[r]] /\ Pool!Findable(h)
  BY <1>1, CachedIsFindable
<1>3. StoresKept /\ Bystanders
  BY <1>1 DEF Take, LookupHit, Holding, StoresKept, Bystanders, PoolInv, IInv, TypeOK
<1>4. Lives' = Lives /\ Fetches' = Fetches
  BY <1>3, NothingStored
<1>5. Pool!Idle(r) /\ args' = args
  BY <1>1 DEF Pool!Idle, Holding, LookupHit
<1>6. EnableMultiple => argsOf[h] = args'[r]
  BY <1>1, <1>2, <1>5, CachedSuits
<1>7. Runs' = [Runs EXCEPT ![r] = h] /\ conn' = [conn EXCEPT ![r] = h]
  BY <1>1, <1>2 DEF LookupHit, Take, Runs, PoolInv, IInv, TypeOK
<1>8. Pool!Take(r, h)
  BY <1>2, <1>3, <1>4, <1>5, <1>6, <1>7 DEF Pool!Take, Bystanders, Lives, Runs, Fetches
<1> QED BY <1>8 DEF Pool!Next

\* A dial: the new handle is fresh, and its request's alone.
LEMMA OpensOne ==
    ASSUME PoolInv, NEW r \in Requests, NEW h \in DB, Dial(r, h), closed' = closed,
           pc[r] \in {"dial", "ready"},
           \E l \in {"store", "close"} : Goto(r, l)
    PROVE  /\ Lives[h] = "unopened" /\ Lives' = [Lives EXCEPT ![h] = "fresh"]
           /\ Fetches[r] = NoDB /\ Fetches' = [Fetches EXCEPT ![r] = h]
           /\ Runs' = [Runs EXCEPT ![r] = NoDB]
<1> USE DEF PoolInv, IInv, TypeOK
<1>1. /\ ~Holding(r) /\ Holding(r)'
      /\ \A s \in Requests \ {r} : Holding(s)' = Holding(s) /\ pc'[s] = pc[s]
  BY DEF Goto, Holding
<1>2. db' = [db EXCEPT ![r] = h] /\ opened' = opened \cup {h} /\ h \notin opened
  BY DEF Dial
<1>3. h \notin closed /\ h \notin closed'
  BY <1>2 DEF HandlesOpened
<1>4. \A d \in DB : Fresh(d)' <=> (Fresh(d) \/ d = h)
  BY <1>1, <1>2 DEF Fresh
<1>5. \A d \in DB : Life(d)' = IF d = h THEN "fresh" ELSE Life(d)
  BY <1>2, <1>3, <1>4, LifeOf
<1>6. Lives[h] = "unopened"
  BY <1>2, LifeOf DEF Lives
<1>7. Fetches' = [Fetches EXCEPT ![r] = h] /\ Fetches[r] = NoDB
  BY <1>1, <1>2 DEF Fetches
<1>8. Runs' = [Runs EXCEPT ![r] = NoDB]
  BY <1>1, <1>2 DEF Runs, Goto
<1> QED BY <1>5, <1>6, <1>7, <1>8 DEF Lives

\* The dial for a new key opens a handle.
LEMMA DialNewRefines ==
    ASSUME PoolInv, NEW r \in Requests, DialNew(r) PROVE Pool!Next
<1>1. PICK h \in DB : Dial(r, h)
  BY DEF DialNew
<1>2. Pool!Open(r, h)
  BY <1>1, OpensOne DEF DialNew, Dial, Pool!Open, Lives, Fetches, Runs, disposeVars
<1> QED BY <1>2 DEF Pool!Next

\* So does that of a retry.
LEMMA RedialRefines ==
    ASSUME PoolInv, NEW r \in Requests, Redial(r) PROVE Pool!Next
<1>1. PICK h \in DB : Dial(r, h)
  BY DEF Redial
<1>2. Pool!Open(r, h)
  BY <1>1, OpensOne DEF Redial, Dial, Pool!Open, Lives, Fetches, Runs, disposeVars
<1> QED BY <1>2 DEF Pool!Next

\* A store: the handle the request was holding is open to all.
LEMMA StoresOne ==
    ASSUME PoolInv, NEW r \in Requests, Holding(r), Goto(r, "ready"),
           UNCHANGED <<opened, closed, db>>
    PROVE  /\ Fetches[r] = db[r] /\ db[r] \in DB
           /\ Lives' = [Lives EXCEPT ![Fetches[r]] = "open"]
           /\ Fetches' = [Fetches EXCEPT ![r] = NoDB]
           /\ Runs' = [Runs EXCEPT ![r] = Fetches[r]]
<1> USE DEF PoolInv, IInv, TypeOK
<1>1. /\ ~Holding(r)'
      /\ \A s \in Requests \ {r} : Holding(s)' = Holding(s) /\ pc'[s] = pc[s]
  BY DEF Goto, Holding
<1>2. /\ db[r] \in opened /\ db[r] \in DB /\ db[r] \notin closed
      /\ \A s \in Requests \ {r} : Holding(s) => db[s] # db[r]
  BY DEF HandlesOpened, FreshIsPrivate
<1>3. \A d \in DB : Fresh(d)' <=> (Fresh(d) /\ d # db[r])
  BY <1>1, <1>2 DEF Fresh
<1>4. \A d \in DB : Life(d)' = IF d = db[r] THEN "open" ELSE Life(d)
  BY <1>2, <1>3, LifeOf
<1>5. Fetches[r] = db[r] /\ Fetches' = [Fetches EXCEPT ![r] = NoDB]
  BY <1>1 DEF Fetches
<1>6. Runs' = [Runs EXCEPT ![r] = db[r]]
  BY <1>1 DEF Runs, Goto
<1> QED BY <1>2, <1>4, <1>5, <1>6 DEF Lives

\* Storing the connection of a new key publishes it.
LEMMA StoreNewRefines ==
    ASSUME PoolInv, NEW r \in Requests, StoreNew(r) PROVE Pool!Next
<1>1. /\ Holding(r) /\ Goto(r, "ready") /\ conn[r] = NoDB /\ conn' = [conn EXCEPT ![r] = db[r]]
      /\ UNCHANGED <<opened, closed, db, argsOf, args, dispose>>
  BY DEF StoreNew, Take, Holding, disposeVars, PoolInv, IInv, TypeOK, HandlesOpened
<1>2. Pool!Publish(r)
  BY <1>1, StoresOne, ConnectorAssumption DEF Pool!Publish, Lives, Fetches, Runs
<1> QED BY <1>2 DEF Pool!Next

\* So does storing the connection a retry dialled.
LEMMA StoreFreshRefines ==
    ASSUME PoolInv, NEW r \in Requests, StoreFresh(r) PROVE Pool!Next
<1>1. /\ Holding(r) /\ Goto(r, "ready") /\ conn[r] # NoDB /\ conn \in [Requests -> DB \cup {NoDB}]
      /\ UNCHANGED <<opened, closed, db, conn, argsOf, args, dispose>>
  BY ConnectorAssumption
     DEF StoreFresh, Holding, Acquired, disposeVars, PoolInv, IInv, TypeOK, HandlesOpened
<1>2. Pool!Publish(r)
  BY <1>1, StoresOne, ConnectorAssumption DEF Pool!Publish, Lives, Fetches, Runs
<1> QED BY <1>2 DEF Pool!Next

\* db.Close: one published handle is closed, whoever closes it.
LEMMA ClosesOne ==
    ASSUME PoolInv, NEW h \in opened, closed' = closed \cup {h},
           UNCHANGED <<opened, db>>, StoresKept
    PROVE  Lives' = [Lives EXCEPT ![h] = "closed"] /\ h \in DB /\ Fetches' = Fetches
<1> USE DEF PoolInv, IInv, TypeOK
<1>1. \A d \in DB : Fresh(d)' <=> Fresh(d)
  BY DEF StoresKept, Fresh
<1>2. \A d \in DB : Life(d)' = IF d = h THEN "closed" ELSE Life(d)
  BY <1>1, LifeOf
<1> QED BY <1>2 DEF Lives, Fetches, StoresKept

\* A retry retires the connection it replaces.
LEMMA CloseOldRefines ==
    ASSUME PoolInv, NEW r \in Requests, CloseOld(r) PROVE Pool!Next
<1>1. /\ Holding(r) /\ db[r] # NoDB /\ conn[r] # NoDB
      /\ conn[r] \in opened /\ closed' = closed \cup {conn[r]}
      /\ UNCHANGED <<opened, db, conn, argsOf, args, dispose>>
  BY ConnectorAssumption
     DEF CloseOld, Holding, Acquired, disposeVars, PoolInv, IInv, TypeOK, HandlesOpened
<1>2. StoresKept /\ Runs' = Runs
  BY DEF CloseOld, Goto, StoresKept, Holding, Runs, PoolInv, IInv, TypeOK
<1>3. Pool!Retire(r)
  BY <1>1, <1>2, ClosesOne DEF Pool!Retire, Lives, Fetches, Runs
<1> QED BY <1>3 DEF Pool!Next

\* A request that returns releases its connection.
LEMMA ReturnRefines ==
    ASSUME PoolInv, NEW r \in Requests, Return(r) PROVE Pool!Next
<1>1. StoresKept /\ Bystanders
  BY DEF Return, Goto, Holding, StoresKept, Bystanders, cacheVars, disposeVars, PoolInv, IInv, TypeOK
<1>2. Runs' = [Runs EXCEPT ![r] = NoDB]
  BY DEF Return, Goto, Runs, PoolInv, IInv, TypeOK
<1>3. Pool!Release(r)
  BY <1>1, <1>2, NothingStored
     DEF Return, Bystanders, Pool!Release, Lives, Runs, Fetches
<1> QED BY <1>3 DEF Pool!Next

\* A lookup that finds nothing, and a dial that fails, show in no handle.
LEMMA MissesStutter ==
    ASSUME PoolInv, NEW r \in Requests, LookupMiss(r) \/ DialFails(r)
    PROVE  UNCHANGED PoolVars
<1>1. StoresKept /\ Bystanders
  BY DEF LookupMiss, DialFails, Goto, Holding, StoresKept, Bystanders, cacheVars, disposeVars,
         PoolInv, IInv, TypeOK
<1>2. Runs' = Runs
  BY DEF LookupMiss, DialFails, Goto, Runs, PoolInv, IInv, TypeOK
<1> QED BY <1>1, <1>2, NothingStored
        DEF LookupMiss, DialFails, Bystanders, PoolVars, Withdrawing

\* Whoever sweeps an entry of the cache withdraws a published handle, if it
\* was not closed already.
LEMMA SweepRefines ==
    ASSUME PoolInv, NEW k \in Key, cache[k] # NoDB,
           dispose = "range" \/ Evicts, closed' = closed \cup {cache[k]},
           UNCHANGED <<opened, argsOf, pc, args, conn, db, dispose>>
    PROVE  [Pool!Next]_PoolVars
<1>1. PICK h \in opened : h = cache[k]
  BY DEF PoolInv, IInv, HandlesOpened
<1>2. StoresKept /\ Runs' = Runs
  BY DEF StoresKept, Holding, Runs
<1>3. Lives' = [Lives EXCEPT ![h] = "closed"] /\ h \in DB /\ Fetches' = Fetches
  BY <1>1, <1>2, ClosesOne
<1>4. CASE h \in closed
  <2>1. Lives[h] = "closed"
    BY <1>1, <1>3, <1>4, LifeOf DEF Lives
  <2> QED BY <1>2, <1>3, <2>1 DEF PoolVars, Lives, Withdrawing
<1>5. CASE h \notin closed
  <2>1. ~Fresh(h)
    BY <1>1 DEF PoolInv, IInv, FreshIsPrivate, Fresh
  <2>2. Lives[h] = "open"
    BY <1>1, <1>3, <1>5, <2>1, LifeOf DEF Lives
  <2>3. Pool!Withdraw(h)
    BY <1>2, <1>3, <2>2 DEF Pool!Withdraw, Lives, Runs, Fetches
  <2> QED BY <1>3, <2>3 DEF Pool!Next
<1> QED BY <1>4, <1>5

\* Dispose begins and ends the withdrawal of all connections.
LEMMA DisposeRefines ==
    ASSUME PoolInv, DisposeStart \/ DisposeClear PROVE Pool!Next
<1>1. /\ UNCHANGED <<opened, closed, argsOf, pc, args, conn, db>>
      /\ (dispose' = "range") = ~(dispose = "range")
  BY DEF DisposeStart, DisposeClear, cacheVars, requestVars
<1>2. Lives' = Lives /\ Runs' = Runs /\ Fetches' = Fetches
  BY <1>1, LifeKept DEF Fresh, Holding, Runs, Fetches
<1>3. Pool!Withdrawal
  BY <1>1, <1>2 DEF Pool!Withdrawal, Lives, Runs, Fetches
<1> QED BY <1>3 DEF Pool!Next

-----------------------------------------------------------------------------
(* The refinement *)

\* Every step maps to a step of the pool or a stutter.
LEMMA PoolStep == ASSUME PoolInv, [Next]_vars PROVE [Pool!Next]_PoolVars
<1>1. ASSUME NEW r \in Requests,
               \/ BeginQuery(r) \/ LookupHit(r) \/ DialNew(r) \/ StoreNew(r) \/ BeginCheck(r)
               \/ Redial(r) \/ CloseOld(r) \/ StoreFresh(r) \/ Return(r)
      PROVE  Pool!Next
  BY <1>1, BeginQueryRefines, LookupHitRefines, DialNewRefines, StoreNewRefines,
     BeginCheckRefines, RedialRefines, CloseOldRefines, StoreFreshRefines, ReturnRefines
<1>2. ASSUME NEW r \in Requests, LookupMiss(r) \/ DialFails(r) PROVE UNCHANGED PoolVars
  BY <1>2, MissesStutter
<1>3. CASE DisposeStart \/ DisposeClear
  BY <1>3, DisposeRefines
<1>4. ASSUME NEW k \in Key, DisposeVisit(k) \/ Evict(k) PROVE [Pool!Next]_PoolVars
  BY <1>4, SweepRefines DEF DisposeVisit, Evict, requestVars, disposeVars
<1>5. CASE vars' = vars
  BY <1>5, LifeKept DEF vars, PoolVars, Fresh, Holding, Runs, Fetches, Withdrawing
<1> QED BY NextCases, <1>1, <1>2, <1>3, <1>4, <1>5

\* Connector implements Handles: for any number of requests, keys and handles,
\* with or without evictions, and however Dispose races with them, those who
\* use the cache see the pool of handles that Handles describes.
THEOREM PoolIsImplemented == Spec => PoolSpec
<1>1. Init => Pool!Init
  BY PoolInit
<1>2. PoolInv /\ [Next]_vars => [Pool!Next]_(Pool!vars)
  BY PoolStep DEF Pool!vars, PoolVars, Lives, Runs, Fetches, Withdrawing
<1> QED BY PoolInvariance, <1>1, <1>2, PTL DEF Spec, PoolSpec, Pool!Spec

=============================================================================
