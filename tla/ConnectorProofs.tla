-------------------------- MODULE ConnectorProofs --------------------------
(***************************************************************************)
(* Proofs about Connector for any number of requests, argument values and  *)
(* handles.  Each conjunct of the inductive invariant has a lemma of its   *)
(* own, with one step per action; the theorems at the end combine them.    *)
(***************************************************************************)
EXTENDS Connector, TLAPS

\* Every step is a step of one request, of Dispose, an eviction, or a
\* stutter: the case split of the lemmas below.
LEMMA NextCases ==
    ASSUME [Next]_vars
    PROVE  \/ \E r \in Requests :
               \/ BeginQuery(r) \/ LookupHit(r) \/ LookupMiss(r)
               \/ DialNew(r) \/ DialFails(r) \/ StoreNew(r) \/ BeginCheck(r)
               \/ Redial(r) \/ CloseOld(r) \/ StoreFresh(r) \/ Return(r)
           \/ DisposeStart \/ (\E k \in Key : DisposeVisit(k)) \/ DisposeClear
           \/ \E k \in Key : Evict(k)
           \/ vars' = vars
  BY DEF Next, RequestStep, DisposeStep, DisposeGoesOn

-----------------------------------------------------------------------------
\* Every variable keeps its type.
LEMMA TypeInit == ASSUME Init PROVE TypeOK
  BY ConnectorAssumption DEF Init, TypeOK, Key, Requests

\* No step breaks a type.
LEMMA TypeStep == ASSUME TypeOK, HandlesOpened, [Next]_vars PROVE TypeOK'
<1> USE DEF TypeOK, Key, cacheVars, requestVars, disposeVars
<1>1. ASSUME NEW r \in Requests, BeginQuery(r) PROVE TypeOK'
  <2>1. PICK a \in QueryArgs : Reject(r, a) \/ UseDefault(r, a) \/ UseOwnKey(r, a)
    BY <1>1 DEF BeginQuery
  <2>2. a \in Args \cup {NoArgs} /\ KeyOf(a) \in Key
    BY DEF QueryArgs, KeyOf
  <2>3. CASE Reject(r, a)
    BY <1>1, <2>2, <2>3 DEF BeginQuery, Reject, Goto
  <2>4. CASE UseDefault(r, a)
    BY <1>1, <2>2, <2>4 DEF BeginQuery, UseDefault, Take, Goto
  <2>5. CASE UseOwnKey(r, a)
    BY <1>1, <2>2, <2>5 DEF BeginQuery, UseOwnKey, Goto
  <2> QED BY <2>1, <2>3, <2>4, <2>5
<1>2. ASSUME NEW r \in Requests, LookupHit(r) PROVE TypeOK'
  BY <1>2 DEF LookupHit, Take, Goto
<1>3. ASSUME NEW r \in Requests, LookupMiss(r) PROVE TypeOK'
  BY <1>3 DEF LookupMiss, Goto
<1>4. ASSUME NEW r \in Requests, DialNew(r) PROVE TypeOK'
  BY <1>4 DEF DialNew, Dial, Goto
<1>5. ASSUME NEW r \in Requests, DialFails(r) PROVE TypeOK'
  BY <1>5 DEF DialFails, Goto
<1>6. ASSUME NEW r \in Requests, StoreNew(r) PROVE TypeOK'
  BY <1>6 DEF StoreNew, Store, Take, Goto
<1>7. ASSUME NEW r \in Requests, BeginCheck(r) PROVE TypeOK'
  BY <1>7 DEF BeginCheck, CheckArgs, Take, Goto
<1>8. ASSUME NEW r \in Requests, Redial(r) PROVE TypeOK'
  BY <1>8 DEF Redial, Dial, Goto
<1>9. ASSUME NEW r \in Requests, CloseOld(r) PROVE TypeOK'
  BY <1>9 DEF CloseOld, Goto, HandlesOpened, Acquired
<1>10. ASSUME NEW r \in Requests, StoreFresh(r) PROVE TypeOK'
  BY <1>10 DEF StoreFresh, Store, Goto
<1>11. ASSUME NEW r \in Requests, Return(r) PROVE TypeOK'
  BY <1>11 DEF Return, Goto
<1>12. CASE DisposeStart
  BY <1>12 DEF DisposeStart
<1>13. ASSUME NEW k \in Key, DisposeVisit(k) PROVE TypeOK'
  BY <1>13 DEF DisposeVisit
<1>14. CASE DisposeClear
  BY <1>14 DEF DisposeClear
<1>15. ASSUME NEW k \in Key, Evict(k) PROVE TypeOK'
  BY <1>15 DEF Evict, Store
<1>16. CASE vars' = vars
  BY <1>16 DEF vars
<1> QED BY NextCases, <1>1, <1>2, <1>3, <1>4, <1>5, <1>6, <1>7, <1>8, <1>9,
           <1>10, <1>11, <1>12, <1>13, <1>14, <1>15, <1>16

-----------------------------------------------------------------------------
\* Handles in circulation have been opened.
LEMMA HandlesOpenedStep ==
    ASSUME TypeOK, HandlesOpened, [Next]_vars
    PROVE  HandlesOpened'
<1> USE DEF HandlesOpened, Holding, Acquired, TypeOK, Key, cacheVars, requestVars, disposeVars
<1>1. ASSUME NEW r \in Requests, BeginQuery(r) PROVE HandlesOpened'
  <2>1. PICK a \in QueryArgs : Reject(r, a) \/ UseDefault(r, a) \/ UseOwnKey(r, a)
    BY <1>1 DEF BeginQuery
  <2>2. CASE Reject(r, a)
    BY <1>1, <2>2 DEF BeginQuery, Reject, Goto
  <2>3. CASE UseDefault(r, a)
    BY <1>1, <2>3 DEF BeginQuery, UseDefault, Take, Goto
  <2>4. CASE UseOwnKey(r, a)
    BY <1>1, <2>4 DEF BeginQuery, UseOwnKey, Goto
  <2> QED BY <2>1, <2>2, <2>3, <2>4
<1>2. ASSUME NEW r \in Requests, LookupHit(r) PROVE HandlesOpened'
  BY <1>2 DEF LookupHit, Take, Goto
<1>3. ASSUME NEW r \in Requests, LookupMiss(r) PROVE HandlesOpened'
  BY <1>3 DEF LookupMiss, Goto
<1>4. ASSUME NEW r \in Requests, DialNew(r) PROVE HandlesOpened'
  BY <1>4 DEF DialNew, Dial, Goto
<1>5. ASSUME NEW r \in Requests, DialFails(r) PROVE HandlesOpened'
  BY <1>5 DEF DialFails, Goto
<1>6. ASSUME NEW r \in Requests, StoreNew(r) PROVE HandlesOpened'
  BY <1>6 DEF StoreNew, Store, Take, Goto
<1>7. ASSUME NEW r \in Requests, BeginCheck(r) PROVE HandlesOpened'
  <2>1. CASE cache[DefaultKey] # NoDB
    BY <1>7, <2>1 DEF BeginCheck, Take, Goto
  <2>2. CASE cache[DefaultKey] = NoDB
    BY <1>7, <2>2 DEF BeginCheck, Goto
  <2> QED BY <2>1, <2>2
<1>8. ASSUME NEW r \in Requests, Redial(r) PROVE HandlesOpened'
  BY <1>8 DEF Redial, Dial, Goto
<1>9. ASSUME NEW r \in Requests, CloseOld(r) PROVE HandlesOpened'
  BY <1>9 DEF CloseOld, Goto
<1>10. ASSUME NEW r \in Requests, StoreFresh(r) PROVE HandlesOpened'
  BY <1>10 DEF StoreFresh, Store, Goto
<1>11. ASSUME NEW r \in Requests, Return(r) PROVE HandlesOpened'
  BY <1>11 DEF Return, Goto
<1>12. CASE DisposeStart
  BY <1>12 DEF DisposeStart
<1>13. ASSUME NEW k \in Key, DisposeVisit(k) PROVE HandlesOpened'
  BY <1>13 DEF DisposeVisit
<1>14. CASE DisposeClear
  BY <1>14 DEF DisposeClear
<1>15. ASSUME NEW k \in Key, Evict(k) PROVE HandlesOpened'
  BY <1>15 DEF Evict, Store
<1>16. CASE vars' = vars
  BY <1>16 DEF vars
<1> QED BY NextCases, <1>1, <1>2, <1>3, <1>4, <1>5, <1>6, <1>7, <1>8, <1>9,
           <1>10, <1>11, <1>12, <1>13, <1>14, <1>15, <1>16

\* A handle dialled and not yet stored stays private: nobody else can load,
\* take or close it.
LEMMA FreshIsPrivateStep ==
    ASSUME TypeOK, HandlesOpened, FreshIsPrivate, [Next]_vars
    PROVE  FreshIsPrivate'
<1> USE DEF HandlesOpened, FreshIsPrivate, Holding, Acquired, TypeOK, Key, cacheVars, requestVars, disposeVars
<1>1. ASSUME NEW r \in Requests, BeginQuery(r) PROVE FreshIsPrivate'
  <2>1. PICK a \in QueryArgs : Reject(r, a) \/ UseDefault(r, a) \/ UseOwnKey(r, a)
    BY <1>1 DEF BeginQuery
  <2>2. CASE Reject(r, a)
    BY <1>1, <2>2 DEF BeginQuery, Reject, Goto
  <2>3. CASE UseDefault(r, a)
    BY <1>1, <2>3 DEF BeginQuery, UseDefault, Take, Goto
  <2>4. CASE UseOwnKey(r, a)
    BY <1>1, <2>4 DEF BeginQuery, UseOwnKey, Goto
  <2> QED BY <2>1, <2>2, <2>3, <2>4
<1>2. ASSUME NEW r \in Requests, LookupHit(r) PROVE FreshIsPrivate'
  BY <1>2 DEF LookupHit, Take, Goto
<1>3. ASSUME NEW r \in Requests, LookupMiss(r) PROVE FreshIsPrivate'
  BY <1>3 DEF LookupMiss, Goto
<1>4. ASSUME NEW r \in Requests, DialNew(r) PROVE FreshIsPrivate'
  <2>1. PICK h \in DB : Dial(r, h)
    BY <1>4 DEF DialNew
  <2> QED BY <1>4, <2>1, ConnectorAssumption DEF DialNew, Dial, Goto
<1>5. ASSUME NEW r \in Requests, DialFails(r) PROVE FreshIsPrivate'
  BY <1>5 DEF DialFails, Goto
<1>6. ASSUME NEW r \in Requests, StoreNew(r) PROVE FreshIsPrivate'
  BY <1>6 DEF StoreNew, Store, Take, Goto
<1>7. ASSUME NEW r \in Requests, BeginCheck(r) PROVE FreshIsPrivate'
  <2>1. CASE cache[DefaultKey] # NoDB
    BY <1>7, <2>1 DEF BeginCheck, Take, Goto
  <2>2. CASE cache[DefaultKey] = NoDB
    BY <1>7, <2>2 DEF BeginCheck, Goto
  <2> QED BY <2>1, <2>2
<1>8. ASSUME NEW r \in Requests, Redial(r) PROVE FreshIsPrivate'
  <2>1. PICK h \in DB : Dial(r, h)
    BY <1>8 DEF Redial
  <2> QED BY <1>8, <2>1, ConnectorAssumption DEF Redial, Dial, Goto
<1>9. ASSUME NEW r \in Requests, CloseOld(r) PROVE FreshIsPrivate'
  BY <1>9 DEF CloseOld, Goto
<1>10. ASSUME NEW r \in Requests, StoreFresh(r) PROVE FreshIsPrivate'
  BY <1>10 DEF StoreFresh, Store, Goto
<1>11. ASSUME NEW r \in Requests, Return(r) PROVE FreshIsPrivate'
  BY <1>11 DEF Return, Goto
<1>12. CASE DisposeStart
  BY <1>12 DEF DisposeStart
<1>13. ASSUME NEW k \in Key, DisposeVisit(k) PROVE FreshIsPrivate'
  BY <1>13 DEF DisposeVisit
<1>14. CASE DisposeClear
  BY <1>14, ConnectorAssumption DEF DisposeClear
<1>15. ASSUME NEW k \in Key, Evict(k) PROVE FreshIsPrivate'
  BY <1>15, ConnectorAssumption DEF Evict, Store
<1>16. CASE vars' = vars
  BY <1>16 DEF vars
<1> QED BY NextCases, <1>1, <1>2, <1>3, <1>4, <1>5, <1>6, <1>7, <1>8, <1>9,
           <1>10, <1>11, <1>12, <1>13, <1>14, <1>15, <1>16

\* No handle is ever cached under two keys.
LEMMA OneHomeStep ==
    ASSUME TypeOK, HandlesOpened, FreshIsPrivate, OneHome, [Next]_vars
    PROVE  OneHome'
<1> USE DEF HandlesOpened, FreshIsPrivate, OneHome, Holding, Acquired, TypeOK, Key, cacheVars, requestVars, disposeVars
<1>1. ASSUME NEW r \in Requests, BeginQuery(r) PROVE OneHome'
  <2>1. PICK a \in QueryArgs : Reject(r, a) \/ UseDefault(r, a) \/ UseOwnKey(r, a)
    BY <1>1 DEF BeginQuery
  <2>2. CASE Reject(r, a)
    BY <1>1, <2>2 DEF BeginQuery, Reject, Goto
  <2>3. CASE UseDefault(r, a)
    BY <1>1, <2>3 DEF BeginQuery, UseDefault, Take, Goto
  <2>4. CASE UseOwnKey(r, a)
    BY <1>1, <2>4 DEF BeginQuery, UseOwnKey, Goto
  <2> QED BY <2>1, <2>2, <2>3, <2>4
<1>2. ASSUME NEW r \in Requests, LookupHit(r) PROVE OneHome'
  BY <1>2 DEF LookupHit, Take, Goto
<1>3. ASSUME NEW r \in Requests, LookupMiss(r) PROVE OneHome'
  BY <1>3 DEF LookupMiss, Goto
<1>4. ASSUME NEW r \in Requests, DialNew(r) PROVE OneHome'
  BY <1>4 DEF DialNew, Dial, Goto
<1>5. ASSUME NEW r \in Requests, DialFails(r) PROVE OneHome'
  BY <1>5 DEF DialFails, Goto
<1>6. ASSUME NEW r \in Requests, StoreNew(r) PROVE OneHome'
  BY <1>6 DEF StoreNew, Store, Take, Goto
<1>7. ASSUME NEW r \in Requests, BeginCheck(r) PROVE OneHome'
  <2>1. CASE cache[DefaultKey] # NoDB
    BY <1>7, <2>1 DEF BeginCheck, Take, Goto
  <2>2. CASE cache[DefaultKey] = NoDB
    BY <1>7, <2>2 DEF BeginCheck, Goto
  <2> QED BY <2>1, <2>2
<1>8. ASSUME NEW r \in Requests, Redial(r) PROVE OneHome'
  BY <1>8 DEF Redial, Dial, Goto
<1>9. ASSUME NEW r \in Requests, CloseOld(r) PROVE OneHome'
  BY <1>9 DEF CloseOld, Goto
<1>10. ASSUME NEW r \in Requests, StoreFresh(r) PROVE OneHome'
  BY <1>10 DEF StoreFresh, Store, Goto
<1>11. ASSUME NEW r \in Requests, Return(r) PROVE OneHome'
  BY <1>11 DEF Return, Goto
<1>12. CASE DisposeStart
  BY <1>12 DEF DisposeStart
<1>13. ASSUME NEW k \in Key, DisposeVisit(k) PROVE OneHome'
  BY <1>13 DEF DisposeVisit
<1>14. CASE DisposeClear
  BY <1>14, ConnectorAssumption DEF DisposeClear
<1>15. ASSUME NEW k \in Key, Evict(k) PROVE OneHome'
  BY <1>15, ConnectorAssumption DEF Evict, Store
<1>16. CASE vars' = vars
  BY <1>16 DEF vars
<1> QED BY NextCases, <1>1, <1>2, <1>3, <1>4, <1>5, <1>6, <1>7, <1>8, <1>9,
           <1>10, <1>11, <1>12, <1>13, <1>14, <1>15, <1>16

\* Whoever closed a handle had taken it and went on with another.
LEMMA ClosedByTakerStep ==
    ASSUME TypeOK, HandlesOpened, FreshIsPrivate, ClosedByTaker, [Next]_vars
    PROVE  ClosedByTaker'
<1> USE DEF HandlesOpened, FreshIsPrivate, ClosedByTaker, Holding, Acquired, TypeOK, Key, cacheVars, requestVars, disposeVars
<1>1. ASSUME NEW r \in Requests, BeginQuery(r) PROVE ClosedByTaker'
  <2>1. PICK a \in QueryArgs : Reject(r, a) \/ UseDefault(r, a) \/ UseOwnKey(r, a)
    BY <1>1 DEF BeginQuery
  <2>2. CASE Reject(r, a)
    BY <1>1, ConnectorAssumption, <2>2 DEF BeginQuery, Reject, Goto
  <2>3. CASE UseDefault(r, a)
    BY <1>1, ConnectorAssumption, <2>3 DEF BeginQuery, UseDefault, Take, Goto
  <2>4. CASE UseOwnKey(r, a)
    BY <1>1, ConnectorAssumption, <2>4 DEF BeginQuery, UseOwnKey, Goto
  <2> QED BY <2>1, <2>2, <2>3, <2>4
<1>2. ASSUME NEW r \in Requests, LookupHit(r) PROVE ClosedByTaker'
  BY <1>2, ConnectorAssumption DEF LookupHit, Take, Goto
<1>3. ASSUME NEW r \in Requests, LookupMiss(r) PROVE ClosedByTaker'
  BY <1>3 DEF LookupMiss, Goto
<1>4. ASSUME NEW r \in Requests, DialNew(r) PROVE ClosedByTaker'
  <2>1. PICK h \in DB : Dial(r, h)
    BY <1>4 DEF DialNew
  <2> QED BY <1>4, <2>1, ConnectorAssumption DEF DialNew, Dial, Goto
<1>5. ASSUME NEW r \in Requests, DialFails(r) PROVE ClosedByTaker'
  BY <1>5 DEF DialFails, Goto
<1>6. ASSUME NEW r \in Requests, StoreNew(r) PROVE ClosedByTaker'
  BY <1>6, ConnectorAssumption DEF StoreNew, Store, Take, Goto
<1>7. ASSUME NEW r \in Requests, BeginCheck(r) PROVE ClosedByTaker'
  <2>1. CASE cache[DefaultKey] # NoDB
    BY <1>7, ConnectorAssumption, <2>1 DEF BeginCheck, Take, Goto
  <2>2. CASE cache[DefaultKey] = NoDB
    BY <1>7, ConnectorAssumption, <2>2 DEF BeginCheck, Goto
  <2> QED BY <2>1, <2>2
<1>8. ASSUME NEW r \in Requests, Redial(r) PROVE ClosedByTaker'
  <2>1. PICK h \in DB : Dial(r, h)
    BY <1>8 DEF Redial
  <2> QED BY <1>8, <2>1, ConnectorAssumption DEF Redial, Dial, Goto
<1>9. ASSUME NEW r \in Requests, CloseOld(r) PROVE ClosedByTaker'
  BY <1>9 DEF CloseOld, Goto
<1>10. ASSUME NEW r \in Requests, StoreFresh(r) PROVE ClosedByTaker'
  BY <1>10 DEF StoreFresh, Store, Goto
<1>11. ASSUME NEW r \in Requests, Return(r) PROVE ClosedByTaker'
  BY <1>11 DEF Return, Goto
<1>12. CASE DisposeStart
  BY <1>12 DEF DisposeStart
<1>13. ASSUME NEW k \in Key, DisposeVisit(k) PROVE ClosedByTaker'
  BY <1>13 DEF DisposeVisit
<1>14. CASE DisposeClear
  BY <1>14, ConnectorAssumption DEF DisposeClear
<1>15. ASSUME NEW k \in Key, Evict(k) PROVE ClosedByTaker'
  BY <1>15, ConnectorAssumption DEF Evict, Store
<1>16. CASE vars' = vars
  BY <1>16 DEF vars
<1> QED BY NextCases, <1>1, <1>2, <1>3, <1>4, <1>5, <1>6, <1>7, <1>8, <1>9,
           <1>10, <1>11, <1>12, <1>13, <1>14, <1>15, <1>16

\* Every request knows the key its arguments select.
LEMMA KeysMatchArgsStep ==
    ASSUME TypeOK, KeysMatchArgs, [Next]_vars
    PROVE  KeysMatchArgs'
<1> USE DEF KeysMatchArgs, QueryArgs, KeyOf, Requests, TypeOK, Key, cacheVars, requestVars, disposeVars
<1>1. ASSUME NEW r \in Requests, BeginQuery(r) PROVE KeysMatchArgs'
  <2>1. PICK a \in QueryArgs : Reject(r, a) \/ UseDefault(r, a) \/ UseOwnKey(r, a)
    BY <1>1 DEF BeginQuery
  <2>2. CASE Reject(r, a)
    BY <1>1, ConnectorAssumption, <2>2 DEF BeginQuery, Reject, Goto
  <2>3. CASE UseDefault(r, a)
    BY <1>1, ConnectorAssumption, <2>3 DEF BeginQuery, UseDefault, Take, Goto
  <2>4. CASE UseOwnKey(r, a)
    BY <1>1, ConnectorAssumption, <2>4 DEF BeginQuery, UseOwnKey, Goto
  <2> QED BY <2>1, <2>2, <2>3, <2>4
<1>2. ASSUME NEW r \in Requests, LookupHit(r) PROVE KeysMatchArgs'
  BY <1>2 DEF LookupHit, Take, Goto
<1>3. ASSUME NEW r \in Requests, LookupMiss(r) PROVE KeysMatchArgs'
  BY <1>3 DEF LookupMiss, Goto
<1>4. ASSUME NEW r \in Requests, DialNew(r) PROVE KeysMatchArgs'
  BY <1>4 DEF DialNew, Dial, Goto
<1>5. ASSUME NEW r \in Requests, DialFails(r) PROVE KeysMatchArgs'
  BY <1>5 DEF DialFails, Goto
<1>6. ASSUME NEW r \in Requests, StoreNew(r) PROVE KeysMatchArgs'
  BY <1>6 DEF StoreNew, Store, Take, Goto
<1>7. ASSUME NEW r \in Requests, BeginCheck(r) PROVE KeysMatchArgs'
  <2>1. CASE cache[DefaultKey] # NoDB
    BY <1>7, ConnectorAssumption, <2>1 DEF BeginCheck, Take, Goto
  <2>2. CASE cache[DefaultKey] = NoDB
    BY <1>7, ConnectorAssumption, <2>2 DEF BeginCheck, Goto
  <2> QED BY <2>1, <2>2
<1>8. ASSUME NEW r \in Requests, Redial(r) PROVE KeysMatchArgs'
  BY <1>8 DEF Redial, Dial, Goto
<1>9. ASSUME NEW r \in Requests, CloseOld(r) PROVE KeysMatchArgs'
  BY <1>9 DEF CloseOld, Goto
<1>10. ASSUME NEW r \in Requests, StoreFresh(r) PROVE KeysMatchArgs'
  BY <1>10 DEF StoreFresh, Store, Goto
<1>11. ASSUME NEW r \in Requests, Return(r) PROVE KeysMatchArgs'
  BY <1>11 DEF Return, Goto
<1>12. CASE DisposeStart
  BY <1>12 DEF DisposeStart
<1>13. ASSUME NEW k \in Key, DisposeVisit(k) PROVE KeysMatchArgs'
  BY <1>13 DEF DisposeVisit
<1>14. CASE DisposeClear
  BY <1>14 DEF DisposeClear
<1>15. ASSUME NEW k \in Key, Evict(k) PROVE KeysMatchArgs'
  BY <1>15 DEF Evict, Store
<1>16. CASE vars' = vars
  BY <1>16 DEF vars
<1> QED BY NextCases, <1>1, <1>2, <1>3, <1>4, <1>5, <1>6, <1>7, <1>8, <1>9,
           <1>10, <1>11, <1>12, <1>13, <1>14, <1>15, <1>16

\* The bootstrap entry is overwritten, never removed, before Dispose ends.
LEMMA DefaultPresentStep ==
    ASSUME TypeOK, HandlesOpened, DefaultPresent, [Next]_vars
    PROVE  DefaultPresent'
<1> USE DEF HandlesOpened, Holding, DefaultPresent, TypeOK, Key, cacheVars, requestVars, disposeVars
<1>1. ASSUME NEW r \in Requests, BeginQuery(r) PROVE DefaultPresent'
  <2>1. PICK a \in QueryArgs : Reject(r, a) \/ UseDefault(r, a) \/ UseOwnKey(r, a)
    BY <1>1 DEF BeginQuery
  <2>2. CASE Reject(r, a)
    BY <1>1, <2>2 DEF BeginQuery, Reject, Goto
  <2>3. CASE UseDefault(r, a)
    BY <1>1, <2>3 DEF BeginQuery, UseDefault, Take, Goto
  <2>4. CASE UseOwnKey(r, a)
    BY <1>1, <2>4 DEF BeginQuery, UseOwnKey, Goto
  <2> QED BY <2>1, <2>2, <2>3, <2>4
<1>2. ASSUME NEW r \in Requests, LookupHit(r) PROVE DefaultPresent'
  BY <1>2 DEF LookupHit, Take, Goto
<1>3. ASSUME NEW r \in Requests, LookupMiss(r) PROVE DefaultPresent'
  BY <1>3 DEF LookupMiss, Goto
<1>4. ASSUME NEW r \in Requests, DialNew(r) PROVE DefaultPresent'
  BY <1>4 DEF DialNew, Dial, Goto
<1>5. ASSUME NEW r \in Requests, DialFails(r) PROVE DefaultPresent'
  BY <1>5 DEF DialFails, Goto
<1>6. ASSUME NEW r \in Requests, StoreNew(r) PROVE DefaultPresent'
  BY <1>6, ConnectorAssumption DEF StoreNew, Store, Take, Goto
<1>7. ASSUME NEW r \in Requests, BeginCheck(r) PROVE DefaultPresent'
  <2>1. CASE cache[DefaultKey] # NoDB
    BY <1>7, <2>1 DEF BeginCheck, Take, Goto
  <2>2. CASE cache[DefaultKey] = NoDB
    BY <1>7, <2>2 DEF BeginCheck, Goto
  <2> QED BY <2>1, <2>2
<1>8. ASSUME NEW r \in Requests, Redial(r) PROVE DefaultPresent'
  BY <1>8 DEF Redial, Dial, Goto
<1>9. ASSUME NEW r \in Requests, CloseOld(r) PROVE DefaultPresent'
  BY <1>9 DEF CloseOld, Goto
<1>10. ASSUME NEW r \in Requests, StoreFresh(r) PROVE DefaultPresent'
  BY <1>10, ConnectorAssumption DEF StoreFresh, Store, Goto
<1>11. ASSUME NEW r \in Requests, Return(r) PROVE DefaultPresent'
  BY <1>11 DEF Return, Goto
<1>12. CASE DisposeStart
  BY <1>12 DEF DisposeStart
<1>13. ASSUME NEW k \in Key, DisposeVisit(k) PROVE DefaultPresent'
  BY <1>13 DEF DisposeVisit
<1>14. CASE DisposeClear
  BY <1>14 DEF DisposeClear
<1>15. ASSUME NEW k \in Key, Evict(k) PROVE DefaultPresent'
  BY <1>15 DEF Evict, Store
<1>16. CASE vars' = vars
  BY <1>16 DEF vars
<1> QED BY NextCases, <1>1, <1>2, <1>3, <1>4, <1>5, <1>6, <1>7, <1>8, <1>9,
           <1>10, <1>11, <1>12, <1>13, <1>14, <1>15, <1>16

\* Handles are cached under, and held for, the arguments they were opened
\* with.
LEMMA ArgsMatchStep ==
    ASSUME TypeOK, HandlesOpened, FreshIsPrivate, KeysMatchArgs, ArgsMatch, [Next]_vars
    PROVE  ArgsMatch'
<1> USE DEF HandlesOpened, KeysMatchArgs, ArgsMatch, ArgsIsolation, QueryArgs, CheckArgs, KeyOf, Requests, Holding, Acquired, TypeOK, Key, cacheVars, requestVars, disposeVars
<1>1. ASSUME NEW r \in Requests, BeginQuery(r) PROVE ArgsMatch'
  <2>1. PICK a \in QueryArgs : Reject(r, a) \/ UseDefault(r, a) \/ UseOwnKey(r, a)
    BY <1>1 DEF BeginQuery
  <2>2. CASE Reject(r, a)
    BY <1>1, ConnectorAssumption, <2>2 DEF BeginQuery, Reject, Goto
  <2>3. CASE UseDefault(r, a)
    BY <1>1, ConnectorAssumption, <2>3 DEF BeginQuery, UseDefault, Take, Goto
  <2>4. CASE UseOwnKey(r, a)
    BY <1>1, ConnectorAssumption, <2>4 DEF BeginQuery, UseOwnKey, Goto
  <2> QED BY <2>1, <2>2, <2>3, <2>4
<1>2. ASSUME NEW r \in Requests, LookupHit(r) PROVE ArgsMatch'
  BY <1>2 DEF LookupHit, Take, Goto
<1>3. ASSUME NEW r \in Requests, LookupMiss(r) PROVE ArgsMatch'
  BY <1>3 DEF LookupMiss, Goto
<1>4. ASSUME NEW r \in Requests, DialNew(r) PROVE ArgsMatch'
  <2>1. PICK h \in DB : Dial(r, h)
    BY <1>4 DEF DialNew
  <2> QED BY <1>4, <2>1, ConnectorAssumption DEF DialNew, Dial, Goto
<1>5. ASSUME NEW r \in Requests, DialFails(r) PROVE ArgsMatch'
  BY <1>5 DEF DialFails, Goto
<1>6. ASSUME NEW r \in Requests, StoreNew(r) PROVE ArgsMatch'
  BY <1>6, ConnectorAssumption DEF StoreNew, Store, Take, Goto
<1>7. ASSUME NEW r \in Requests, BeginCheck(r) PROVE ArgsMatch'
  <2>1. CASE cache[DefaultKey] # NoDB
    BY <1>7, ConnectorAssumption, <2>1 DEF BeginCheck, Take, Goto
  <2>2. CASE cache[DefaultKey] = NoDB
    BY <1>7, ConnectorAssumption, <2>2 DEF BeginCheck, Goto
  <2> QED BY <2>1, <2>2
<1>8. ASSUME NEW r \in Requests, Redial(r) PROVE ArgsMatch'
  <2>1. PICK h \in DB : Dial(r, h)
    BY <1>8 DEF Redial
  <2> QED BY <1>8, <2>1, ConnectorAssumption DEF Redial, Dial, Goto
<1>9. ASSUME NEW r \in Requests, CloseOld(r) PROVE ArgsMatch'
  BY <1>9 DEF CloseOld, Goto
<1>10. ASSUME NEW r \in Requests, StoreFresh(r) PROVE ArgsMatch'
  BY <1>10, ConnectorAssumption DEF StoreFresh, Store, Goto
<1>11. ASSUME NEW r \in Requests, Return(r) PROVE ArgsMatch'
  BY <1>11 DEF Return, Goto
<1>12. CASE DisposeStart
  BY <1>12 DEF DisposeStart
<1>13. ASSUME NEW k \in Key, DisposeVisit(k) PROVE ArgsMatch'
  BY <1>13 DEF DisposeVisit
<1>14. CASE DisposeClear
  BY <1>14, ConnectorAssumption DEF DisposeClear
<1>15. ASSUME NEW k \in Key, Evict(k) PROVE ArgsMatch'
  BY <1>15, ConnectorAssumption DEF Evict, Store
<1>16. CASE vars' = vars
  BY <1>16 DEF vars
<1> QED BY NextCases, <1>1, <1>2, <1>3, <1>4, <1>5, <1>6, <1>7, <1>8, <1>9,
           <1>10, <1>11, <1>12, <1>13, <1>14, <1>15, <1>16

\* No step leaves a closed handle in the cache outside its two windows.
LEMMA ClosedOnlyWhileSwappingStep ==
    ASSUME TypeOK, HandlesOpened, FreshIsPrivate, OneHome, ClosedOnlyWhileSwapping, [Next]_vars
    PROVE  ClosedOnlyWhileSwapping'
<1> USE DEF HandlesOpened, FreshIsPrivate, OneHome, ClosedOnlyWhileSwapping, Holding, Acquired, TypeOK, Key, cacheVars, requestVars, disposeVars
<1>1. ASSUME NEW r \in Requests, BeginQuery(r) PROVE ClosedOnlyWhileSwapping'
  <2>1. PICK a \in QueryArgs : Reject(r, a) \/ UseDefault(r, a) \/ UseOwnKey(r, a)
    BY <1>1 DEF BeginQuery
  <2>2. CASE Reject(r, a)
    BY <1>1, <2>2 DEF BeginQuery, Reject, Goto
  <2>3. CASE UseDefault(r, a)
    BY <1>1, <2>3 DEF BeginQuery, UseDefault, Take, Goto
  <2>4. CASE UseOwnKey(r, a)
    BY <1>1, <2>4 DEF BeginQuery, UseOwnKey, Goto
  <2> QED BY <2>1, <2>2, <2>3, <2>4
<1>2. ASSUME NEW r \in Requests, LookupHit(r) PROVE ClosedOnlyWhileSwapping'
  BY <1>2 DEF LookupHit, Take, Goto
<1>3. ASSUME NEW r \in Requests, LookupMiss(r) PROVE ClosedOnlyWhileSwapping'
  BY <1>3 DEF LookupMiss, Goto
<1>4. ASSUME NEW r \in Requests, DialNew(r) PROVE ClosedOnlyWhileSwapping'
  BY <1>4 DEF DialNew, Dial, Goto
<1>5. ASSUME NEW r \in Requests, DialFails(r) PROVE ClosedOnlyWhileSwapping'
  BY <1>5 DEF DialFails, Goto
<1>6. ASSUME NEW r \in Requests, StoreNew(r) PROVE ClosedOnlyWhileSwapping'
  BY <1>6 DEF StoreNew, Store, Take, Goto
<1>7. ASSUME NEW r \in Requests, BeginCheck(r) PROVE ClosedOnlyWhileSwapping'
  <2>1. CASE cache[DefaultKey] # NoDB
    BY <1>7, <2>1 DEF BeginCheck, Take, Goto
  <2>2. CASE cache[DefaultKey] = NoDB
    BY <1>7, <2>2 DEF BeginCheck, Goto
  <2> QED BY <2>1, <2>2
<1>8. ASSUME NEW r \in Requests, Redial(r) PROVE ClosedOnlyWhileSwapping'
  BY <1>8 DEF Redial, Dial, Goto
<1>9. ASSUME NEW r \in Requests, CloseOld(r) PROVE ClosedOnlyWhileSwapping'
  BY <1>9 DEF CloseOld, Goto
<1>10. ASSUME NEW r \in Requests, StoreFresh(r) PROVE ClosedOnlyWhileSwapping'
  BY <1>10, ConnectorAssumption DEF StoreFresh, Store, Goto
<1>11. ASSUME NEW r \in Requests, Return(r) PROVE ClosedOnlyWhileSwapping'
  BY <1>11 DEF Return, Goto
<1>12. CASE DisposeStart
  BY <1>12 DEF DisposeStart
<1>13. ASSUME NEW k \in Key, DisposeVisit(k) PROVE ClosedOnlyWhileSwapping'
  BY <1>13 DEF DisposeVisit
<1>14. CASE DisposeClear
  BY <1>14, ConnectorAssumption DEF DisposeClear
<1>15. ASSUME NEW k \in Key, Evict(k) PROVE ClosedOnlyWhileSwapping'
  BY <1>15, ConnectorAssumption DEF Evict, Store
<1>16. CASE vars' = vars
  BY <1>16 DEF vars
<1> QED BY NextCases, <1>1, <1>2, <1>3, <1>4, <1>5, <1>6, <1>7, <1>8, <1>9,
           <1>10, <1>11, <1>12, <1>13, <1>14, <1>15, <1>16

\* A request finds no bootstrap entry only after Dispose, when no cache evicts.
LEMMA NeverTurnedAwayStep ==
    ASSUME TypeOK, ~Evicts, HandlesOpened, KeysMatchArgs, DefaultPresent, NeverTurnedAway, [Next]_vars
    PROVE  NeverTurnedAway'
<1> USE DEF HandlesOpened, KeysMatchArgs, DefaultPresent, NeverTurnedAway, TurnedAway, Requests, Holding, Acquired, TypeOK, Key, cacheVars, requestVars, disposeVars
<1>1. ASSUME NEW r \in Requests, BeginQuery(r) PROVE NeverTurnedAway'
  <2>1. PICK a \in QueryArgs : Reject(r, a) \/ UseDefault(r, a) \/ UseOwnKey(r, a)
    BY <1>1 DEF BeginQuery
  <2>2. CASE Reject(r, a)
    BY <1>1, ConnectorAssumption, <2>2 DEF BeginQuery, Reject, Goto
  <2>3. CASE UseDefault(r, a)
    BY <1>1, ConnectorAssumption, <2>3 DEF BeginQuery, UseDefault, Take, Goto
  <2>4. CASE UseOwnKey(r, a)
    BY <1>1, ConnectorAssumption, <2>4 DEF BeginQuery, UseOwnKey, Goto
  <2> QED BY <2>1, <2>2, <2>3, <2>4
<1>2. ASSUME NEW r \in Requests, LookupHit(r) PROVE NeverTurnedAway'
  BY <1>2, ConnectorAssumption DEF LookupHit, Take, Goto
<1>3. ASSUME NEW r \in Requests, LookupMiss(r) PROVE NeverTurnedAway'
  BY <1>3 DEF LookupMiss, Goto
<1>4. ASSUME NEW r \in Requests, DialNew(r) PROVE NeverTurnedAway'
  BY <1>4 DEF DialNew, Dial, Goto
<1>5. ASSUME NEW r \in Requests, DialFails(r) PROVE NeverTurnedAway'
  BY <1>5, ConnectorAssumption DEF DialFails, Goto
<1>6. ASSUME NEW r \in Requests, StoreNew(r) PROVE NeverTurnedAway'
  BY <1>6, ConnectorAssumption DEF StoreNew, Store, Take, Goto
<1>7. ASSUME NEW r \in Requests, BeginCheck(r) PROVE NeverTurnedAway'
  <2>1. CASE cache[DefaultKey] # NoDB
    BY <1>7, ConnectorAssumption, <2>1 DEF BeginCheck, Take, Goto
  <2>2. CASE cache[DefaultKey] = NoDB
    BY <1>7, ConnectorAssumption, <2>2 DEF BeginCheck, Goto
  <2> QED BY <2>1, <2>2
<1>8. ASSUME NEW r \in Requests, Redial(r) PROVE NeverTurnedAway'
  BY <1>8 DEF Redial, Dial, Goto
<1>9. ASSUME NEW r \in Requests, CloseOld(r) PROVE NeverTurnedAway'
  BY <1>9 DEF CloseOld, Goto
<1>10. ASSUME NEW r \in Requests, StoreFresh(r) PROVE NeverTurnedAway'
  BY <1>10, ConnectorAssumption DEF StoreFresh, Store, Goto
<1>11. ASSUME NEW r \in Requests, Return(r) PROVE NeverTurnedAway'
  BY <1>11, ConnectorAssumption DEF Return, Goto
<1>12. CASE DisposeStart
  BY <1>12 DEF DisposeStart
<1>13. ASSUME NEW k \in Key, DisposeVisit(k) PROVE NeverTurnedAway'
  BY <1>13 DEF DisposeVisit
<1>14. CASE DisposeClear
  BY <1>14 DEF DisposeClear
<1>15. ASSUME NEW k \in Key, Evict(k) PROVE NeverTurnedAway'
  BY <1>15 DEF Evict, Store
<1>16. CASE vars' = vars
  BY <1>16 DEF vars
<1> QED BY NextCases, <1>1, <1>2, <1>3, <1>4, <1>5, <1>6, <1>7, <1>8, <1>9,
           <1>10, <1>11, <1>12, <1>13, <1>14, <1>15, <1>16

-----------------------------------------------------------------------------
(* The theorems. *)

\* The inductive invariant.
IInv ==
    /\ TypeOK /\ HandlesOpened /\ FreshIsPrivate /\ OneHome
    /\ ClosedByTaker /\ KeysMatchArgs /\ ArgsMatch /\ DefaultPresent

\* The invariant holds of an instance that was just made.
LEMMA InvInit == ASSUME Init PROVE IInv
<1>1. PICK b \in DB :
        /\ cache = [k \in Key |-> IF k = DefaultKey THEN b ELSE NoDB]
        /\ opened = {b}
  BY DEF Init
<1>2. TypeOK
  BY TypeInit
<1>3. HandlesOpened /\ FreshIsPrivate /\ OneHome
  BY <1>1, ConnectorAssumption
     DEF Init, HandlesOpened, FreshIsPrivate, OneHome, Holding, Acquired, Key
<1>4. ClosedByTaker /\ KeysMatchArgs
  BY DEF Init, ClosedByTaker, KeysMatchArgs, Requests
<1>5. ArgsMatch
  BY <1>1, ConnectorAssumption
     DEF Init, ArgsMatch, ArgsIsolation, Holding, Key, Requests
<1>6. DefaultPresent
  BY <1>1, ConnectorAssumption DEF DefaultPresent, Key
<1> QED BY <1>2, <1>3, <1>4, <1>5, <1>6 DEF IInv

\* No step breaks the invariant.
LEMMA InvStep == ASSUME IInv, [Next]_vars PROVE IInv'
  BY TypeStep, HandlesOpenedStep, FreshIsPrivateStep, OneHomeStep,
     ClosedByTakerStep, KeysMatchArgsStep, ArgsMatchStep, DefaultPresentStep
     DEF IInv

\* In every state of every run the invariant holds.
LEMMA Invariance == Spec => []IInv
  BY InvInit, InvStep, PTL DEF Spec

\* Every variable of the connector keeps its type.
THEOREM TypeCorrect == Spec => []TypeOK
<1>1. IInv => TypeOK
  BY DEF IInv
<1> QED BY Invariance, <1>1, PTL

\* The cache hands out a closed handle only between the Close and the Store
\* of a Reconnect of that entry, or while Dispose ranges over the map.
THEOREM ClosedWindow == Spec => []ClosedOnlyWhileSwapping
<1>1. Init => ClosedOnlyWhileSwapping
  BY DEF Init, ClosedOnlyWhileSwapping
<1>2. IInv /\ ClosedOnlyWhileSwapping /\ [Next]_vars => ClosedOnlyWhileSwapping'
  BY ClosedOnlyWhileSwappingStep DEF IInv
<1> QED BY Invariance, <1>1, <1>2, PTL DEF Spec

\* With multiple connections enabled, no interleaving of dials, reconnects,
\* evictions and Dispose gives a query a handle opened with other arguments.
THEOREM Isolation == Spec => []ArgsIsolation
<1>1. IInv => ArgsIsolation
  BY DEF IInv, ArgsMatch, ArgsIsolation
<1> QED BY Invariance, <1>1, PTL

\* A request's own retries never close the handle it goes on with.
THEOREM ClosedByAnotherOnly == Spec => []ClosedByAnother
<1>1. IInv => ClosedByAnother
  BY DEF IInv, ClosedByTaker, ClosedByAnother
<1> QED BY Invariance, <1>1, PTL

\* With a cache that does not evict, no acceptable request is turned away for
\* a missing connection before Dispose has cleared the map.
THEOREM BootstrapSurvives == ASSUME ~Evicts PROVE Spec => []NeverTurnedAway
<1>1. Init => NeverTurnedAway
  BY DEF Init, NeverTurnedAway, TurnedAway
<1>2. IInv /\ NeverTurnedAway /\ [Next]_vars => NeverTurnedAway'
  BY NeverTurnedAwayStep DEF IInv
<1> QED BY Invariance, <1>1, <1>2, PTL DEF Spec

=============================================================================
