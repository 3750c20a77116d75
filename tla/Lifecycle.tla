------------------------------ MODULE Lifecycle ------------------------------
(***************************************************************************)
(* The instances of a plugin: their construction and disposal by           *)
(* datasource.go, connector.go and completion.go, and the requests that    *)
(* are in flight meanwhile.                                                *)
(*                                                                         *)
(* The instance manager of the SDK is external.  It constructs an instance *)
(* for the latest settings of a data source when a request asks for one,   *)
(* one at a time for each data source, and disposes of the one it replaces *)
(* some time later, whoever still uses it.                                 *)
(*                                                                         *)
(* A construction stands for the value of SQLDatasource it is made on: the *)
(* factory of README.md makes one for each.                                *)
(*                                                                         *)
(* Of an instance's cache only the default entry matters here (module      *)
(* Connector has the others).                                              *)
(***************************************************************************)
EXTENDS Naturals, Resources

CONSTANTS
    Sources,     \* the data sources of the plugin's type
    MaxVersion,  \* of each data source: bounds how often it is saved
    Builds,      \* calls of the method NewDatasource
    NoBuild,
    DB,          \* the handles the driver can open
    NoDB,
    Retries,     \* driverSettings.Retries
    Requests,    \* queries, health checks and resource calls
    HTTPAsks,    \* what resource calls ask for
    CustomRoutes \* values of SQLDatasource.CustomRoutes

ASSUME LifecycleAssumption ==
    /\ Sources # {}
    /\ MaxVersion \in [Sources -> Nat]
    /\ NoBuild \notin Builds
    /\ NoDB \notin DB
    /\ Retries \in Nat
    /\ HTTPAsks \subseteq HTTPRequests
    /\ \A routes \in CustomRoutes : routes \subseteq [method : STRING, path : STRING]

VARIABLES
    custom,      \* the plugin's custom routes
    middleware,  \* whether the plugin sets ResourceMiddleware
    version,     \* the latest settings of each data source
    instance,    \* the instance the manager has for it, by its construction
    retired,     \* instances whose Dispose is due
    clearing,    \* instances whose Dispose has closed what was cached
    disposed,    \* instances Dispose has been called on
    build,       \* the constructions
    cache,       \* the default entry of the connector of each
    opened, closed,
    settingsOf,  \* the settings a handle was opened with
    request

routes == <<custom, middleware>>
manager == <<version, instance, retired, clearing, disposed>>
handles == <<cache, opened, closed, settingsOf>>
vars == <<custom, middleware, version, instance, retired, clearing, disposed,
          build, cache, opened, closed, settingsOf, request>>

Query == Route("none", "QueryData")
AnySource == CHOOSE s \in Sources : TRUE
NoReply == Reply("none", 0)
Settings(s, n) == [source |-> s, version |-> n]
SettingsOfBuild(b) == Settings(build[b].source, build[b].version)

Init ==
    /\ custom \in CustomRoutes
    /\ middleware \in BOOLEAN
    /\ version = [s \in Sources |-> 1]
    /\ instance = [s \in Sources |-> NoBuild]
    /\ retired = {} /\ clearing = {} /\ disposed = {}
    /\ build = [b \in Builds |->
                   [at |-> "idle", source |-> AnySource, version |-> 0, db |-> NoDB]]
    /\ cache = [b \in Builds |-> NoDB]
    /\ opened = {} /\ closed = {}
    /\ settingsOf = [d \in DB |-> Settings(AnySource, 0)]
    /\ request = [r \in Requests |->
                     [at |-> "idle", ask |-> Query, build |-> NoBuild,
                      first |-> NoDB, db |-> NoDB, tries |-> 0, reply |-> NoReply]]

-----------------------------------------------------------------------------
(* The instance manager *)

\* A user saves the settings of s.
Save(s) ==
    /\ version[s] < MaxVersion[s]
    /\ version' = [version EXCEPT ![s] = @ + 1]
    /\ UNCHANGED <<routes, instance, retired, clearing, disposed, build, handles, request>>

UpToDate(s) == instance[s] # NoBuild /\ build[instance[s]].version = version[s]
UnderWay(b) == build[b].at \in {"dial", "routes"}

\* A request finds no instance of the latest settings: the one there is will
\* be disposed of, once more if a construction in its place has failed, and
\* the factory calls NewDatasource.
Construct(b, s) ==
    /\ build[b].at = "idle" /\ ~UpToDate(s)
    /\ \A c \in Builds : UnderWay(c) => build[c].source # s
    /\ build' = [build EXCEPT ![b] = [at |-> "dial", source |-> s, version |-> version[s],
                                      db |-> NoDB]]
    /\ retired' = retired \cup ({instance[s]} \ {NoBuild})
    /\ UNCHANGED <<routes, version, instance, clearing, disposed, handles, request>>

\* Mutants of CloseAll: it disposes of what the manager has for the data
\* source; it closes nothing.
CloseAllOfSource(b) ==
    /\ b \in retired \ clearing
    /\ LET c == IF instance[build[b].source] = NoBuild THEN b ELSE instance[build[b].source]
       IN  closed' = closed \cup ({cache[c]} \ {NoDB})
    /\ retired' = retired \ {b}
    /\ clearing' = clearing \cup {b}
    /\ UNCHANGED <<routes, version, instance, disposed, build, cache, opened, settingsOf, request>>

CloseNone(b) ==
    /\ b \in retired \ clearing
    /\ retired' = retired \ {b}
    /\ clearing' = clearing \cup {b}
    /\ UNCHANGED <<routes, version, instance, disposed, build, handles, request>>

\* SQLDatasource.Dispose, first half: Range closes what is cached.
CloseAll(b) ==
    /\ b \in retired \ clearing
    /\ closed' = closed \cup ({cache[b]} \ {NoDB})
    /\ retired' = retired \ {b}
    /\ clearing' = clearing \cup {b}
    /\ UNCHANGED <<routes, version, instance, disposed, build, cache, opened, settingsOf, request>>

\* Second half: Clear, of whatever has been stored meanwhile.
Clear(b) ==
    /\ b \in clearing
    /\ cache' = [cache EXCEPT ![b] = NoDB]
    /\ clearing' = clearing \ {b}
    /\ disposed' = disposed \cup {b}
    /\ UNCHANGED <<routes, version, instance, retired, build, opened, closed, settingsOf, request>>

-----------------------------------------------------------------------------
(* NewDatasource *)

\* NewConnector opens and stores the bootstrap connection; ds.connector is
\* assigned.
NewConnector(b) ==
    /\ build[b].at = "dial"
    /\ \E d \in DB \ opened :
        /\ opened' = opened \cup {d}
        /\ settingsOf' = [settingsOf EXCEPT ![d] = SettingsOfBuild(b)]
        /\ cache' = [cache EXCEPT ![b] = d]
        /\ build' = [build EXCEPT ![b].at = "routes", ![b].db = d]
    /\ UNCHANGED <<routes, manager, closed, request>>

\* driver.Connect fails.
NewConnectorFails(b) ==
    /\ build[b].at = "dial"
    /\ build' = [build EXCEPT ![b].at = "failed"]
    /\ UNCHANGED <<routes, manager, handles, request>>

\* Nothing from here on can block: the middleware wraps the mux, and the
\* manager puts the instance to use.
RegisterRoutes(b) ==
    /\ build[b].at = "routes" /\ "registered" \in Registrations(custom)
    /\ build' = [build EXCEPT ![b].at = "done"]
    /\ instance' = [instance EXCEPT ![build[b].source] = b]
    /\ UNCHANGED <<routes, version, retired, clearing, disposed, handles, request>>

\* A custom route is refused, or the mux panics: the construction has failed,
\* with ds.connector assigned.
RegisterRoutesFails(b) ==
    /\ build[b].at = "routes" /\ Registrations(custom) \cap {"refused", "panic"} # {}
    /\ build' = [build EXCEPT ![b].at = "failed"]
    /\ UNCHANGED <<routes, manager, handles, request>>

-----------------------------------------------------------------------------
(* Queries and health checks.  That one ends changes nothing here: it may    *)
(* run for as long as it likes.                                              *)

\* A request gets the instance of the latest settings.
Arrive(r, s, ask) ==
    /\ request[r].at = "idle" /\ UpToDate(s)
    /\ request' = [request EXCEPT ![r].at = "begun", ![r].ask = ask, ![r].build = instance[s]]
    /\ UNCHANGED <<routes, manager, build, handles>>

\* GetConnectionFromQuery: the default entry, or MissingDBConnection.
TakeConnection(r) ==
    /\ request[r].at = "begun" /\ request[r].ask = Query
    /\ LET d == cache[request[r].build]
       IN  request' = [request EXCEPT ![r].at = IF d = NoDB THEN "done" ELSE "running",
                                      ![r].first = d,
                                      ![r].db = d]
    /\ UNCHANGED <<routes, manager, build, handles>>

\* Mutant of Redial: it dials with the latest settings.
RedialToLatest(r) ==
    /\ request[r].at = "running" /\ request[r].tries < Retries
    /\ \E d \in DB \ opened :
        /\ opened' = opened \cup {d}
        /\ LET s == build[request[r].build].source
           IN  settingsOf' = [settingsOf EXCEPT ![d] = Settings(s, version[s])]
        /\ request' = [request EXCEPT ![r].at = "close", ![r].db = d, ![r].tries = @ + 1]
    /\ UNCHANGED <<routes, manager, build, cache, closed>>

\* The next retry calls Reconnect on the connection taken first, which dials
\* with the settings of that one...
Redial(r) ==
    /\ request[r].at = "running" /\ request[r].tries < Retries
    /\ \E d \in DB \ opened :
        /\ opened' = opened \cup {d}
        /\ settingsOf' = [settingsOf EXCEPT ![d] = settingsOf[request[r].first]]
        /\ request' = [request EXCEPT ![r].at = "close", ![r].db = d, ![r].tries = @ + 1]
    /\ UNCHANGED <<routes, manager, build, cache, closed>>

\* Mutant of CloseOld: it leaves the handle open.
LeaveOld(r) ==
    /\ request[r].at = "close"
    /\ request' = [request EXCEPT ![r].at = "store"]
    /\ UNCHANGED <<routes, manager, build, handles>>

\* ...closes it...
CloseOld(r) ==
    /\ request[r].at = "close"
    /\ closed' = closed \cup {request[r].first}
    /\ request' = [request EXCEPT ![r].at = "store"]
    /\ UNCHANGED <<routes, manager, build, cache, opened, settingsOf>>

\* ...and stores the fresh one.
StoreFresh(r) ==
    /\ request[r].at = "store"
    /\ cache' = [cache EXCEPT ![request[r].build] = request[r].db]
    /\ request' = [request EXCEPT ![r].at = "running"]
    /\ UNCHANGED <<routes, manager, build, opened, closed, settingsOf>>

-----------------------------------------------------------------------------
(* Resource calls *)

\* The middleware answers the call itself.
Intercept(r) ==
    /\ middleware /\ request[r].at = "begun" /\ request[r].ask # Query
    /\ request' = [request EXCEPT ![r].at = "done", ![r].reply = Reply("middleware", 403)]
    /\ UNCHANGED <<routes, manager, build, handles>>

\* There is no middleware, or it passes the call on as it came.
CallResource(r) ==
    /\ request[r].at = "begun" /\ request[r].ask # Query
    /\ \E completable, err \in BOOLEAN, body \in Bodies :
        request' = [request EXCEPT
                       ![r].at = "done",
                       ![r].reply = Serve(custom, request[r].ask, completable, body, err)]
    /\ UNCHANGED <<routes, manager, build, handles>>

-----------------------------------------------------------------------------
Next ==
    \/ \E s \in Sources : Save(s)
    \/ \E b \in Builds, s \in Sources : Construct(b, s)
    \/ \E b \in Builds :
        \/ NewConnector(b) \/ NewConnectorFails(b)
        \/ RegisterRoutes(b) \/ RegisterRoutesFails(b)
        \/ CloseAll(b) \/ Clear(b)
    \/ \E r \in Requests, s \in Sources, ask \in HTTPAsks \cup {Query} : Arrive(r, s, ask)
    \/ \E r \in Requests :
        \/ TakeConnection(r) \/ Redial(r) \/ CloseOld(r) \/ StoreFresh(r)
        \/ Intercept(r) \/ CallResource(r)

Spec == Init /\ [][Next]_vars

\* The manager's timers fire, and a Dispose runs on.
FairSpec == Spec /\ \A b \in Builds : WF_vars(CloseAll(b)) /\ WF_vars(Clear(b))

-----------------------------------------------------------------------------
(* Properties *)

Running(r) == request[r].at \in {"running", "close", "store"}
Disposing(b) == b \in clearing \cup disposed

\* A query runs on a connection opened with the very settings for which it
\* was given its instance, whatever is saved, constructed and disposed of
\* meanwhile, and however often it reconnects.
ServedByItsSettings ==
    \A r \in Requests : Running(r) =>
        settingsOf[request[r].db] = SettingsOfBuild(request[r].build)

\* A retry has closed what b caches and not stored the fresh handle yet.
Swapping(b) ==
    \E r \in Requests :
        request[r].at = "store" /\ request[r].build = b /\ request[r].first = cache[b]

\* Disposing of a replaced instance spares its successor: an instance of the
\* latest settings caches a default connection, and one that is closed only
\* while a retry is about to replace it.
CurrentIsServing ==
    \A s \in Sources : UpToDate(s) =>
        LET d == cache[instance[s]] IN
        d \in opened /\ (d \in closed => Swapping(instance[s]))

\* A request of b that reconnects is about to store d.
Held(d, b) ==
    \E r \in Requests :
        request[r].at \in {"close", "store"} /\ request[r].build = b /\ request[r].db = d

\* Open handles that no later Dispose will reach.
Orphans ==
    {d \in opened \ closed : \A b \in Builds :
        /\ b \in retired \/ UnderWay(b) \/ (\E s \in Sources : instance[s] = b) => cache[b] # d
        /\ ~Held(d, b)}

\* A request dialled d for b, and b is being disposed of or has been.
Late(b, d) ==
    /\ Disposing(b)
    /\ \E r \in Requests : /\ request[r].build = b /\ request[r].db = d
                           /\ request[r].tries >= 1

\* A request dialled for b a second time, again from its first handle.
Twice(b) == \E r \in Requests : request[r].build = b /\ request[r].tries >= 2

\* Two requests each dialled to replace one handle of b.
Collided(b) ==
    \E q, r \in Requests :
        /\ q # r /\ request[q].build = b /\ request[r].build = b
        /\ request[q].first = request[r].first
        /\ request[q].tries >= 1 /\ request[r].tries >= 1

\* A handle is orphaned only by a construction that failed after opening it,
\* by a retry on an instance that is disposed of meanwhile, by the second
\* retry of a request, or by two requests that replace the same handle.
OrphanHasReason ==
    \A d \in Orphans : \E b \in Builds :
        /\ SettingsOfBuild(b) = settingsOf[d]
        /\ \/ build[b].at = "failed" /\ build[b].db = d
           \/ Late(b, d)
           \/ Twice(b)
           \/ Collided(b)

\* The bootstrap connection of an instance that is replaced gets closed,
\* whatever the requests still on it do.
ReplacedIsClosed ==
    \A b \in Builds : b \in retired ~> build[b].db \in closed

\* A request for completion is answered by the Completable of the driver, or
\* with its error, unless the middleware answers it; no custom route takes it
\* over unless it names the method.
CompletionIsServed ==
    \A r \in Requests :
        LET q == request[r].ask IN
        request[r].at = "done" /\ q # Query /\ q.path \in CompletionPaths =>
            \/ request[r].reply.by = "default"
            \/ middleware /\ request[r].reply.by = "middleware"
            \/ \E p \in custom : p.method # AnyMethod /\ q \in Matched(p)

-----------------------------------------------------------------------------
(* The inductive invariant behind the safety properties, by topic.         *)

Opened(b) == build[b].db # NoDB

BuildRecord ==
    [at : {"idle", "dial", "routes", "done", "failed"},
     source : Sources, version : Nat, db : DB \cup {NoDB}]
RequestRecord ==
    [at : {"idle", "begun", "running", "close", "store", "done"}, ask : HTTPRequests \cup {Query},
     build : Builds \cup {NoBuild}, first : DB \cup {NoDB}, db : DB \cup {NoDB}, tries : Nat,
     reply : [by : {"none", "default", "custom", "mux", "middleware"}, status : Nat]]

\* Every variable keeps its type.
TypeOK ==
    /\ custom \in CustomRoutes /\ middleware \in BOOLEAN
    /\ version \in [Sources -> Nat]
    /\ instance \in [Sources -> Builds \cup {NoBuild}]
    /\ retired \subseteq Builds /\ clearing \subseteq Builds /\ disposed \subseteq Builds
    /\ build \in [Builds -> BuildRecord]
    /\ cache \in [Builds -> DB \cup {NoDB}]
    /\ opened \subseteq DB /\ closed \subseteq opened
    /\ settingsOf \in [DB -> [source : Sources, version : Nat]]
    /\ request \in [Requests -> RequestRecord]

\* What an instance caches it opened with its own settings; until it is put to
\* use, that is the bootstrap connection.
BuildsWired ==
    \A b \in Builds :
        /\ build[b].at \in {"routes", "done"} => Opened(b)
        /\ build[b].at \in {"idle", "dial"} => ~Opened(b)
        /\ build[b].at # "done" => cache[b] = build[b].db
        /\ cache[b] # NoDB => /\ Opened(b) /\ cache[b] \in opened
                              /\ settingsOf[cache[b]] = SettingsOfBuild(b)

\* Instances, and what requests are given, are finished constructions.
InstancesWired ==
    /\ \A s \in Sources : instance[s] # NoBuild =>
        build[instance[s]].at = "done" /\ build[instance[s]].source = s
    /\ \A b \in retired \cup clearing \cup disposed : build[b].at = "done"

\* A request runs on handles opened with the settings of its instance: the one
\* it took first, or a fresh one once it retries.
RequestsWired ==
    \A r \in Requests :
        /\ request[r].at # "idle" =>
            request[r].build \in Builds /\ build[request[r].build].at = "done"
        /\ request[r].tries >= 1 => Running(r)
        /\ Running(r) =>
            /\ request[r].first \in opened /\ request[r].db \in opened
            /\ settingsOf[request[r].first] = SettingsOfBuild(request[r].build)
            /\ settingsOf[request[r].db] = SettingsOfBuild(request[r].build)
        /\ request[r].at \in {"close", "store"} => request[r].tries >= 1
        /\ request[r].at = "store" => request[r].first \in closed

Wired == BuildsWired /\ InstancesWired /\ RequestsWired

\* Instances are of settings that were the latest, and no longer are once they
\* are retired; a data source has one construction under way.
Dated ==
    LET gone == retired \cup clearing \cup disposed IN
    /\ \A b \in Builds : build[b].at # "idle" => build[b].version <= version[build[b].source]
    /\ \A b \in gone : build[b].version < version[build[b].source]
    /\ \A b, c \in Builds :
        UnderWay(b) /\ UnderWay(c) /\ build[b].source = build[c].source => b = c
    /\ \A b \in Builds : UnderWay(b) => instance[build[b].source] \in gone \cup {NoBuild}
    /\ \A b \in Builds : build[b].at = "done" => b \in gone \/ instance[build[b].source] = b

\* Instances share no handle.
Separate ==
    /\ \A b, c \in Builds : cache[b] = cache[c] /\ cache[b] # NoDB => b = c
    /\ \A r \in Requests, b \in Builds :
        Running(r) /\ cache[b] \in {request[r].first, request[r].db} => request[r].build = b

\* Nobody else has the handle a request is about to store.
Fresh ==
    \A r \in Requests : request[r].at \in {"close", "store"} =>
        LET d == request[r].db IN
        /\ d \notin closed
        /\ \A b \in Builds : cache[b] # d
        /\ \A q \in Requests : Running(q) => request[q].first # d /\ (q # r => request[q].db # d)

\* An instance has a default connection until it is disposed of.
Serving ==
    \A b \in Builds : build[b].at \in {"routes", "done"} /\ ~Disposing(b) =>
        cache[b] # NoDB /\ (cache[b] \in closed => Swapping(b))

\* The handle a request took stays cached until the request has replaced it,
\* unless the instance goes or another request replaces the handle first.
StillThere ==
    \A r \in Requests :
        LET b == request[r].build IN
        /\ Running(r)
        /\ request[r].tries = 0 \/ (request[r].tries = 1 /\ request[r].at \in {"close", "store"})
        => \/ cache[b] = request[r].first
           \/ Disposing(b) \/ Twice(b) \/ Collided(b)
           \/ /\ request[r].tries = 0
              /\ \E q \in Requests : /\ q # r /\ request[q].build = b /\ request[q].tries >= 1
                                     /\ request[q].first = request[r].first

\* What is cached open while or after an instance is disposed of, a request
\* stored too late.
LateStore ==
    \A b \in Builds : Disposing(b) /\ cache[b] \in opened \ closed =>
        Late(b, cache[b]) \/ Twice(b) \/ Collided(b)

\* The open handle d is one of b's, or b explains why nobody has it.
AccountedBy(b, d) ==
    /\ settingsOf[d] = SettingsOfBuild(b)
    /\ cache[b] = d \/ Held(d, b) \/ Late(b, d) \/ Twice(b) \/ Collided(b)

Accounted == \A d \in opened \ closed : \E b \in Builds : AccountedBy(b, d)

\* No instance is put to use before its routes are registered.
RoutesRegistered ==
    \A b \in Builds : build[b].at = "done" => "registered" \in Registrations(custom)

=============================================================================
