------------------------------ MODULE Connector ------------------------------
(***************************************************************************)
(* The connection cache of one SQL datasource instance: connector.go over  *)
(* the sync.Map-backed ConnectionCache of cache.go.                        *)
(*                                                                         *)
(* Requests are goroutines.  A query takes a *sql.DB handle out of the     *)
(* cache, or dials one and stores it (GetConnectionFromQuery); a health    *)
(* check takes the default handle (Connect).  Either may then replace the  *)
(* handle it took (Reconnect).  No lock spans two cache operations, so     *)
(* every call of the cache, of the driver and of sql.DB.Close is a step of *)
(* its own.                                                                *)
(*                                                                         *)
(* The cache key of non-empty connection arguments is a SHA-256 of them;   *)
(* it is abstracted to the arguments themselves, that is, to a hash        *)
(* without collisions.                                                     *)
(***************************************************************************)
CONSTANTS
    Queries,         \* queries that reach the instance during its life
    Checks,          \* health checks that reach it
    Args,            \* non-empty values of Query.ConnectionArgs
    NoArgs,          \* nil or zero-length ConnectionArgs
    EmptyObject,     \* the ConnectionArgs "{}"
    DefaultKey,      \* Connector.defaultKey
    DB,              \* the handles the driver can open: bounds the dials
    NoDB,            \* no handle: an absent cache entry, a nil *sql.DB
    EnableMultiple,  \* Connector.enableMultipleConnections
    ForwardHeaders,  \* DriverSettings.ForwardHeaders
    Evicts           \* a custom ConnectionCache that evicts is installed

ASSUME ConnectorAssumption ==
    /\ Queries \cap Checks = {}
    /\ NoArgs \notin Args
    /\ DefaultKey \notin Args
    /\ NoDB \notin DB
    /\ EnableMultiple \in BOOLEAN
    /\ ForwardHeaders \in BOOLEAN
    /\ Evicts \in BOOLEAN

VARIABLES
    cache,    \* the sync.Map: key to handle
    opened,   \* handles driver.Connect has returned
    closed,   \* handles db.Close has been called on
    argsOf,   \* the connection arguments a handle was opened with
    pc,       \* where each request is
    args,     \* q.ConnectionArgs of each request
    key,      \* cacheKey of each request
    conn,     \* dbConn: the handle the request took
    db,       \* the handle it runs on; conn until it reconnects
    dispose,  \* where Connector.Dispose is
    sweep     \* what Dispose's Range owes each key

cacheVars == <<cache, opened, closed, argsOf>>
requestVars == <<pc, args, key, conn, db>>
disposeVars == <<dispose, sweep>>
vars == <<cache, opened, closed, argsOf, pc, args, key, conn, db, dispose, sweep>>

Requests == Queries \cup Checks
Key == Args \cup {DefaultKey}

\* Mutant of KeyOf: the test for empty arguments is forgotten.
KeyOfAnything(a) == IF EnableMultiple THEN a ELSE DefaultKey

\* defaultKey and keyWithConnectionArgs: which entry the arguments select.
KeyOf(a) == IF EnableMultiple /\ a # NoArgs THEN a ELSE DefaultKey

\* GetConnectionFromQuery turns connection arguments away when they could
\* not be honoured.
Refused(a) == ~EnableMultiple /\ ~ForwardHeaders /\ a \notin {NoArgs, EmptyObject}

\* With ForwardHeaders GetQuery injects the HTTP headers into the arguments,
\* so they are never empty.
QueryArgs == IF ForwardHeaders THEN Args ELSE Args \cup {NoArgs}
CheckArgs == IF ForwardHeaders THEN Args ELSE {NoArgs}

-----------------------------------------------------------------------------
\* NewConnector: dial with nil arguments and store the bootstrap handle.
Init ==
    \E b \in DB :
        /\ cache = [k \in Key |-> IF k = DefaultKey THEN b ELSE NoDB]
        /\ opened = {b}
        /\ closed = {}
        /\ argsOf = [d \in DB |-> NoArgs]
        /\ pc = [r \in Requests |-> "idle"]
        /\ args = [r \in Requests |-> NoArgs]
        /\ key = [r \in Requests |-> DefaultKey]
        /\ conn = [r \in Requests |-> NoDB]
        /\ db = [r \in Requests |-> NoDB]
        /\ dispose = "no"
        /\ sweep = [k \in Key |-> "may"]

Goto(r, label) == pc' = [pc EXCEPT ![r] = label]

\* r holds the connection cached under k and is about to use it.
Take(r, k, h) ==
    /\ key' = [key EXCEPT ![r] = k]
    /\ conn' = [conn EXCEPT ![r] = h]
    /\ db' = [db EXCEPT ![r] = h]
    /\ Goto(r, "ready")

\* Mutant of Dial: the driver is not given the request's arguments.
DialWithoutArgs(r, h) ==
    /\ h \in DB \ opened
    /\ opened' = opened \cup {h}
    /\ argsOf' = [argsOf EXCEPT ![h] = NoArgs]
    /\ db' = [db EXCEPT ![r] = h]

\* driver.Connect opens a handle nobody has seen before.
Dial(r, h) ==
    /\ h \in DB \ opened
    /\ opened' = opened \cup {h}
    /\ argsOf' = [argsOf EXCEPT ![h] = args[r]]
    /\ db' = [db EXCEPT ![r] = h]

\* connCache().Store(k, h).  A key that appears while Dispose ranges over
\* the map may or may not be visited.
Store(k, h) == cache' = [cache EXCEPT ![k] = h]

-----------------------------------------------------------------------------
(* GetConnectionFromQuery *)

\* The arguments are refused, or the bootstrap entry is gone.
Reject(r, a) ==
    /\ Refused(a) \/ cache[DefaultKey] = NoDB
    /\ args' = [args EXCEPT ![r] = a]
    /\ Goto(r, "done")
    /\ UNCHANGED <<key, conn, db>>

\* The default connection serves the query.
UseDefault(r, a) ==
    /\ ~Refused(a) /\ cache[DefaultKey] # NoDB
    /\ KeyOf(a) = DefaultKey
    /\ args' = [args EXCEPT ![r] = a]
    /\ Take(r, DefaultKey, cache[DefaultKey])

\* The arguments select an entry of their own, looked up in the next step.
UseOwnKey(r, a) ==
    /\ ~Refused(a) /\ cache[DefaultKey] # NoDB
    /\ KeyOf(a) # DefaultKey
    /\ args' = [args EXCEPT ![r] = a]
    /\ key' = [key EXCEPT ![r] = KeyOf(a)]
    /\ Goto(r, "lookup")
    /\ UNCHANGED <<conn, db>>

BeginQuery(r) ==
    /\ r \in Queries /\ pc[r] = "idle"
    /\ \E a \in QueryArgs : Reject(r, a) \/ UseDefault(r, a) \/ UseOwnKey(r, a)
    /\ UNCHANGED <<cacheVars, disposeVars>>

LookupHit(r) ==
    /\ pc[r] = "lookup" /\ cache[key[r]] # NoDB
    /\ Take(r, key[r], cache[key[r]])
    /\ UNCHANGED <<cacheVars, args, disposeVars>>

LookupMiss(r) ==
    /\ pc[r] = "lookup" /\ cache[key[r]] = NoDB
    /\ Goto(r, "dial")
    /\ UNCHANGED <<cacheVars, args, key, conn, db, disposeVars>>

DialNew(r) ==
    /\ pc[r] = "dial"
    /\ \E h \in DB : Dial(r, h)
    /\ Goto(r, "store")
    /\ UNCHANGED <<cache, closed, args, key, conn, disposeVars>>

\* driver.Connect fails: nothing is stored and the query ends.
DialFails(r) ==
    /\ pc[r] = "dial"
    /\ Goto(r, "done")
    /\ UNCHANGED <<cacheVars, args, key, conn, db, disposeVars>>

\* The dialled handle goes into the cache over whatever is there by now.
StoreNew(r) ==
    /\ pc[r] = "store"
    /\ Store(key[r], db[r])
    /\ Take(r, key[r], db[r])
    /\ UNCHANGED <<opened, closed, argsOf, args, disposeVars>>

-----------------------------------------------------------------------------
(* Connect: a health check takes the default connection. *)

BeginCheck(r) ==
    /\ r \in Checks /\ pc[r] = "idle"
    /\ \E a \in CheckArgs : args' = [args EXCEPT ![r] = a]
    /\ \/ /\ cache[DefaultKey] # NoDB
          /\ Take(r, DefaultKey, cache[DefaultKey])
       \/ /\ cache[DefaultKey] = NoDB
          /\ Goto(r, "done")
          /\ UNCHANGED <<key, conn, db>>
    /\ UNCHANGED <<cacheVars, disposeVars>>

-----------------------------------------------------------------------------
(* Reconnect: dial first, then close the handle the request took, then     *)
(* store the fresh one.  Every retry of a request closes the same handle,  *)
(* the one it took from the cache.  A failed dial changes nothing: the     *)
(* request stays "ready" and may try again or return.                      *)

\* Mutant of Redial: the old handle is closed before the dial, which may fail.
RedialAfterClose(r) ==
    /\ pc[r] = "ready"
    /\ closed' = closed \cup {conn[r]}
    /\ \/ (\E h \in DB : Dial(r, h)) /\ Goto(r, "close")
       \/ UNCHANGED <<opened, argsOf, db, pc>>
    /\ UNCHANGED <<cache, args, key, conn, disposeVars>>

Redial(r) ==
    /\ pc[r] = "ready"
    /\ \E h \in DB : Dial(r, h)
    /\ Goto(r, "close")
    /\ UNCHANGED <<cache, closed, args, key, conn, disposeVars>>

\* Mutants of CloseOld: it drops the cache entry; it closes the handle just
\* dialled; it closes nothing.
CloseAndDelete(r) ==
    /\ pc[r] = "close"
    /\ closed' = closed \cup {conn[r]}
    /\ Store(key[r], NoDB)
    /\ Goto(r, "swap")
    /\ UNCHANGED <<opened, argsOf, args, key, conn, db, disposeVars>>

CloseFresh(r) ==
    /\ pc[r] = "close"
    /\ closed' = closed \cup {db[r]}
    /\ Goto(r, "swap")
    /\ UNCHANGED <<cache, opened, argsOf, args, key, conn, db, disposeVars>>

CloseNothing(r) ==
    /\ pc[r] = "close"
    /\ Goto(r, "swap")
    /\ UNCHANGED <<cacheVars, args, key, conn, db, disposeVars>>

CloseOld(r) ==
    /\ pc[r] = "close"
    /\ closed' = closed \cup {conn[r]}
    /\ Goto(r, "swap")
    /\ UNCHANGED <<cache, opened, argsOf, args, key, conn, db, disposeVars>>

\* Mutant of StoreFresh: the cache keeps the closed handle.
StoreNothing(r) ==
    /\ pc[r] = "swap"
    /\ Goto(r, "ready")
    /\ UNCHANGED <<cacheVars, args, key, conn, db, disposeVars>>

StoreFresh(r) ==
    /\ pc[r] = "swap"
    /\ Store(key[r], db[r])
    /\ Goto(r, "ready")
    /\ UNCHANGED <<opened, closed, argsOf, args, key, conn, db, disposeVars>>

\* The request has its answer.
Return(r) ==
    /\ pc[r] = "ready"
    /\ Goto(r, "done")
    /\ UNCHANGED <<cacheVars, args, key, conn, db, disposeVars>>

-----------------------------------------------------------------------------
(* Dispose: Range over the sync.Map closing every entry, then Clear.       *)
(* Range visits each key at most once, every key that is present           *)
(* throughout exactly once, and takes no snapshot: a store it races with   *)
(* may land before or after the visit of its key.                          *)

DisposeStart ==
    /\ dispose = "no"
    /\ dispose' = "range"
    /\ sweep' = [k \in Key |-> IF cache[k] # NoDB THEN "must" ELSE "may"]
    /\ UNCHANGED <<cacheVars, requestVars>>

DisposeVisit(k) ==
    /\ dispose = "range" /\ sweep[k] # "seen" /\ cache[k] # NoDB
    /\ closed' = closed \cup {cache[k]}
    /\ sweep' = [sweep EXCEPT ![k] = "seen"]
    /\ UNCHANGED <<cache, opened, argsOf, requestVars, dispose>>

DisposeClear ==
    /\ dispose = "range"
    /\ \A k \in Key : sweep[k] = "must" => cache[k] = NoDB
    /\ dispose' = "done"
    /\ cache' = [k \in Key |-> NoDB]
    /\ UNCHANGED <<opened, closed, argsOf, requestVars, sweep>>

\* A plugin's TTL or LRU cache drops an entry and closes its handle.
Evict(k) ==
    /\ Evicts /\ dispose = "no" /\ cache[k] # NoDB
    /\ Store(k, NoDB)
    /\ closed' = closed \cup {cache[k]}
    /\ UNCHANGED <<opened, argsOf, requestVars, disposeVars>>

-----------------------------------------------------------------------------
RequestStep(r) ==
    \/ BeginQuery(r) \/ LookupHit(r) \/ LookupMiss(r)
    \/ DialNew(r) \/ DialFails(r) \/ StoreNew(r)
    \/ BeginCheck(r)
    \/ Redial(r) \/ CloseOld(r) \/ StoreFresh(r) \/ Return(r)

DisposeGoesOn == (\E k \in Key : DisposeVisit(k)) \/ DisposeClear
DisposeStep == DisposeStart \/ DisposeGoesOn

Next ==
    \/ \E r \in Requests : RequestStep(r)
    \/ DisposeStep
    \/ \E k \in Key : Evict(k)

Spec == Init /\ [][Next]_vars

\* A goroutine between two calls is scheduled again; db.Close returns; so
\* does the Range of a Dispose that has started.  Nothing obliges a request
\* to arrive, a dial to succeed, or Dispose to be called.
Fairness ==
    /\ \A r \in Requests : WF_vars(CloseOld(r)) /\ WF_vars(StoreFresh(r))
    /\ WF_vars(DisposeGoesOn)

FairSpec == Spec /\ Fairness

-----------------------------------------------------------------------------
\* A request is between acquiring a fresh handle and storing it.
Holding(r) == pc[r] \in {"store", "close", "swap"}

\* A request has taken a connection out of the cache.
Acquired(r) == pc[r] \in {"ready", "close", "swap"}

-----------------------------------------------------------------------------
(* Properties *)

TypeOK ==
    /\ cache \in [Key -> DB \cup {NoDB}]
    /\ opened \subseteq DB
    /\ closed \subseteq DB
    /\ argsOf \in [DB -> Args \cup {NoArgs}]
    /\ pc \in [Requests -> {"idle", "lookup", "dial", "store", "ready",
                            "close", "swap", "done"}]
    /\ args \in [Requests -> Args \cup {NoArgs}]
    /\ key \in [Requests -> Key]
    /\ conn \in [Requests -> DB \cup {NoDB}]
    /\ db \in [Requests -> DB \cup {NoDB}]
    /\ dispose \in {"no", "range", "done"}
    /\ sweep \in [Key -> {"must", "may", "seen"}]

\* The cache hands out a closed handle only inside the window of a Reconnect
\* of that very entry, between db.Close and Store, or while Dispose ranges
\* over the map.  A Reconnect that fails never leaves a closed handle behind
\* (connector.go Reconnect dials before it closes).
ClosedOnlyWhileSwapping ==
    \A k \in Key : cache[k] \in closed =>
        \/ dispose = "range"
        \/ \E r \in Requests : pc[r] = "swap" /\ key[r] = k

\* With multiple connections enabled a query runs only on a handle that was
\* dialled with its own connection arguments, whoever dialled or replaced it.
ArgsIsolation ==
    EnableMultiple =>
        \A r \in Queries : pc[r] = "ready" => argsOf[db[r]] = args[r]

\* A request whose arguments are acceptable was refused a connection because
\* the bootstrap entry was missing (MissingDBConnection).
TurnedAway(r) ==
    /\ pc[r] = "done" /\ conn[r] = NoDB
    /\ key[r] = DefaultKey /\ ~Refused(args[r])

\* The bootstrap entry, which every request reads first, outlives all the
\* reconnects: no acceptable request is turned away before Dispose clears
\* the map.  It holds of the default cache, not of one that evicts.
NeverTurnedAway ==
    \A r \in Requests : TurnedAway(r) => dispose = "done"

\* A request finds the handle it runs on closed only because another request
\* that took the same handle reconnected, or Dispose or an eviction closed
\* it; its own retries never close the handle they go on with.
ClosedByAnother ==
    \A r \in Requests : Acquired(r) /\ db[r] \in closed =>
        \/ Evicts \/ dispose # "no"
        \/ \E s \in Requests \ {r} : conn[s] = db[r] /\ db[s] # db[r]

\* A closed handle does not stay in the cache: the reconnect that closed it
\* replaces it, or Dispose removes it.
Heals == \A k \in Key : cache[k] \in closed ~> cache[k] \notin closed

\* Handles that no Dispose will close: open, in no cache entry and not about
\* to be stored.  Only a retry of a request that began with one might.
Leaked == {d \in opened \ closed :
             /\ \A k \in Key : cache[k] # d
             /\ \A r \in Requests : Holding(r) => db[r] # d}

\* "Dispose iterates every live entry, calls Close on each, then clears the
\* underlying map" (cache.go NewSyncMapCache): clearing drops no handle that
\* is still open.
ClearDropsOnlyClosed ==
    [][DisposeClear => \A k \in Key : cache[k] # NoDB => cache[k] \in closed]_vars

-----------------------------------------------------------------------------
(* The pool of handles that the cache implements                           *)

\* A handle is published once it has been stored in the cache.
Life(d) ==
    IF d \notin opened THEN "unopened"
    ELSE IF d \in closed THEN "closed"
    ELSE IF \E r \in Requests : Holding(r) /\ db[r] = d THEN "fresh"
    ELSE "open"

Pool == INSTANCE Handles WITH
    Clients <- Requests,
    Strict <- IF EnableMultiple THEN Queries ELSE {},
    Purposes <- Args \cup {NoArgs},
    Plain <- NoArgs,
    life <- [d \in DB |-> Life(d)],
    purpose <- argsOf,
    wants <- args,
    took <- conn,
    runs <- [r \in Requests |-> IF pc[r] = "ready" THEN db[r] ELSE NoDB],
    fetches <- [r \in Requests |-> IF Holding(r) THEN db[r] ELSE NoDB],
    withdrawing <- dispose = "range"

\* Whatever the requests, Dispose and evictions do to the cache and in
\* whatever order, those who use its handles see no more than module Handles
\* allows: a handle just dialled is known to one request and nobody closes it,
\* a request closes only the handle it took and only with the successor in
\* hand, a closed handle is found only until that successor is stored, and a
\* query finds only handles of its own arguments.
PoolSpec == Pool!Spec

-----------------------------------------------------------------------------
(* The inductive invariant behind the safety properties, by topic.         *)

\* Handles in circulation have been opened, and a request that has taken a
\* connection has one.
HandlesOpened ==
    /\ closed \subseteq opened
    /\ \A k \in Key : cache[k] \in opened \cup {NoDB}
    /\ \A r \in Requests :
        /\ conn[r] \in opened \cup {NoDB}
        /\ db[r] \in opened \cup {NoDB}
        /\ Holding(r) => db[r] \in opened
        /\ Acquired(r) => conn[r] \in opened /\ db[r] \in opened
        /\ pc[r] \in {"idle", "lookup", "dial", "store"} => conn[r] = NoDB

\* A handle dialled and not yet stored is known to its request alone.
FreshIsPrivate ==
    \A r \in Requests : Holding(r) =>
        /\ db[r] \notin closed
        /\ \A k \in Key : cache[k] # db[r]
        /\ \A s \in Requests : conn[s] # db[r]
        /\ \A s \in Requests \ {r} : db[s] # db[r]

\* A handle is cached under one key, the key its takers know it by.
OneHome ==
    /\ \A k, l \in Key : cache[k] = cache[l] /\ cache[k] # NoDB => k = l
    /\ \A r \in Requests, k \in Key :
        Acquired(r) /\ cache[k] = conn[r] => k = key[r]

\* Whoever closed a handle had taken it and went on with another.
ClosedByTaker ==
    \A h \in closed :
        \/ Evicts \/ dispose # "no"
        \/ \E s \in Requests : conn[s] = h /\ db[s] # h

\* Requests know their key.
KeysMatchArgs ==
    /\ \A r \in Queries : pc[r] \notin {"idle", "done"} =>
        /\ args[r] \in QueryArgs
        /\ key[r] = KeyOf(args[r])
        /\ pc[r] \in {"lookup", "dial", "store"} => key[r] # DefaultKey
    /\ \A r \in Checks :
        /\ key[r] = DefaultKey
        /\ pc[r] \notin {"lookup", "dial", "store"}
        /\ pc[r] # "idle" => args[r] \in CheckArgs

\* Cached and held handles were opened with the arguments of their key.
ArgsMatch ==
    EnableMultiple =>
        /\ \A k \in Args : cache[k] # NoDB => argsOf[cache[k]] = k
        /\ ~ForwardHeaders /\ cache[DefaultKey] # NoDB
            => argsOf[cache[DefaultKey]] = NoArgs
        /\ \A r \in Requests : Holding(r) => argsOf[db[r]] = args[r]
        /\ ArgsIsolation

\* The bootstrap entry is there until Dispose clears the map.
DefaultPresent == ~Evicts /\ dispose # "done" => cache[DefaultKey] # NoDB

\* A closed handle in the cache is about to be replaced by the very request
\* that closed it, unless all handles are being closed.
ClosedIsReplaced ==
    \A k \in Key : cache[k] \in closed =>
        \/ dispose = "range"
        \/ \E r \in Requests : pc[r] = "swap" /\ conn[r] = cache[k]

=============================================================================
