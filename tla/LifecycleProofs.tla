--------------------------- MODULE LifecycleProofs ---------------------------
(***************************************************************************)
(* Proofs about Lifecycle for any number of data sources, settings,        *)
(* constructions, retries, handles and requests.  Each conjunct of the     *)
(* inductive invariant has a lemma of its own, with one step per action    *)
(* that can disturb it; the theorems at the end combine them.              *)
(***************************************************************************)
EXTENDS Lifecycle, TLAPS

\* Every step is one of these: the case split of the lemmas below.
LEMMA NextCases ==
    ASSUME [Next]_vars
    PROVE  \/ \E s \in Sources : Save(s)
           \/ \E b \in Builds, s \in Sources : Construct(b, s)
           \/ \E b \in Builds : NewConnector(b)
           \/ \E b \in Builds : NewConnectorFails(b) \/ RegisterRoutesFails(b)
           \/ \E b \in Builds : RegisterRoutes(b)
           \/ \E b \in Builds : CloseAll(b)
           \/ \E b \in Builds : Clear(b)
           \/ \E r \in Requests, s \in Sources, ask \in HTTPAsks \cup {Query} : Arrive(r, s, ask)
           \/ \E r \in Requests : TakeConnection(r)
           \/ \E r \in Requests : Redial(r)
           \/ \E r \in Requests : CloseOld(r)
           \/ \E r \in Requests : StoreFresh(r)
           \/ \E r \in Requests : Intercept(r) \/ CallResource(r)
           \/ vars' = vars
  BY DEF Next

\* The types and the wiring hold initially.
LEMMA InitTypes == ASSUME Init PROVE TypeOK /\ Wired
<1>1. AnySource \in Sources
  BY LifecycleAssumption DEF AnySource
<1> QED BY <1>1, LifecycleAssumption
        DEF Init, TypeOK, BuildRecord, RequestRecord, Wired, BuildsWired, InstancesWired,
            RequestsWired, Opened, Running, Settings, NoReply, Reply

Replies == [by : {"none", "default", "custom", "mux", "middleware"}, status : Nat]

\* The answers of resource calls are replies.
LEMMA ServeType ==
    ASSUME NEW q, NEW completable \in BOOLEAN, NEW body, NEW err \in BOOLEAN
    PROVE  Serve(custom, q, completable, body, err) \in Replies
  BY DEF Serve, Completion, Reply, Replies

-----------------------------------------------------------------------------
(* What each action does, field by field *)

\* The fields of a construction.
LEMMA BuildFields ==
    ASSUME TypeOK, NEW b \in Builds
    PROVE  /\ build[b].at \in {"idle", "dial", "routes", "done", "failed"}
           /\ build[b].source \in Sources /\ build[b].version \in Nat
           /\ build[b].db \in DB \cup {NoDB}
  BY DEF TypeOK, BuildRecord

\* The fields of a request.
LEMMA RequestFields ==
    ASSUME TypeOK, NEW r \in Requests
    PROVE  /\ request[r].at \in {"idle", "begun", "running", "close", "store", "done"}
           /\ request[r].ask \in HTTPRequests \cup {Query}
           /\ request[r].build \in Builds \cup {NoBuild}
           /\ request[r].first \in DB \cup {NoDB} /\ request[r].db \in DB \cup {NoDB}
           /\ request[r].tries \in Nat
           /\ request[r].reply \in Replies
  BY DEF TypeOK, RequestRecord, Replies

\* A request that has begun has a finished instance.
LEMMA Connected ==
    ASSUME TypeOK, Wired, NEW r \in Requests, request[r].at # "idle"
    PROVE  /\ request[r].build \in Builds /\ build[request[r].build].at = "done"
           /\ Opened(request[r].build)
  BY DEF Wired, BuildsWired, RequestsWired

\* Every other construction, or request, is left alone.
OtherBuilds(b) ==
    build' \in [Builds -> BuildRecord] /\ \A c \in Builds \ {b} : build'[c] = build[c]
OtherRequests(r) ==
    request' \in [Requests -> RequestRecord] /\ \A q \in Requests \ {r} : request'[q] = request[q]

\* A construction begins with the latest settings and no connection.
LEMMA ConstructEffect ==
    ASSUME TypeOK, NEW b \in Builds, NEW s \in Sources, Construct(b, s)
    PROVE  /\ OtherBuilds(b)
           /\ build[b].at = "idle" /\ build'[b].at = "dial" /\ build'[b].source = s
           /\ build'[b].version = version[s] /\ build'[b].db = NoDB
<1>1. version[s] \in Nat
  BY DEF TypeOK
<1> DEFINE new == [at |-> "dial", source |-> s, version |-> version[s], db |-> NoDB]
<1>2. new \in BuildRecord
  BY <1>1 DEF BuildRecord
<1>3. build' = [build EXCEPT ![b] = new]
  BY DEF Construct
<1>4. new.at = "dial" /\ new.source = s /\ new.version = version[s] /\ new.db = NoDB
  OBVIOUS
<1>5. build[b].at = "idle"
  BY DEF Construct
<1> HIDE DEF new
<1> QED BY <1>2, <1>3, <1>4, <1>5 DEF TypeOK, OtherBuilds

\* A construction moves on.
LEMMA BuildMoves ==
    ASSUME TypeOK, NEW b \in Builds,
           NEW label \in {"routes", "done", "failed"}, NEW d \in DB \cup {NoDB},
           build' = [build EXCEPT ![b].at = label, ![b].db = d]
    PROVE  /\ OtherBuilds(b)
           /\ build'[b].at = label /\ build'[b].db = d
           /\ build'[b].source = build[b].source /\ build'[b].version = build[b].version
<1> DEFINE new == [build[b] EXCEPT !.at = label, !.db = d]
<1>1. build[b] \in BuildRecord
  BY DEF TypeOK
<1>2. /\ new \in BuildRecord /\ new.at = label /\ new.db = d
      /\ new.source = build[b].source /\ new.version = build[b].version
  BY <1>1 DEF BuildRecord
<1>3. build' = [build EXCEPT ![b] = new]
  BY DEF TypeOK
<1>4. build \in [Builds -> BuildRecord]
  BY DEF TypeOK
<1> HIDE DEF new
<1> QED BY <1>2, <1>3, <1>4 DEF OtherBuilds

\* A construction moves on with the connection it has.
LEMMA BuildMovesOn ==
    ASSUME TypeOK, NEW b \in Builds, NEW label \in {"done", "failed"},
           build' = [build EXCEPT ![b].at = label]
    PROVE  /\ OtherBuilds(b)
           /\ build'[b].at = label /\ build'[b].db = build[b].db
           /\ build'[b].source = build[b].source /\ build'[b].version = build[b].version
<1> DEFINE new == [build[b] EXCEPT !.at = label]
<1>1. build[b] \in BuildRecord
  BY DEF TypeOK
<1>2. /\ new \in BuildRecord /\ new.at = label /\ new.db = build[b].db
      /\ new.source = build[b].source /\ new.version = build[b].version
  BY <1>1 DEF BuildRecord
<1>3. build' = [build EXCEPT ![b] = new]
  BY DEF TypeOK
<1>4. build \in [Builds -> BuildRecord]
  BY DEF TypeOK
<1> HIDE DEF new
<1> QED BY <1>2, <1>3, <1>4 DEF OtherBuilds

\* A handle is opened with the given settings.
Dials(d, settings) ==
    /\ d \in DB /\ d \notin opened /\ opened' = opened \cup {d}
    /\ settingsOf' \in [DB -> [source : Sources, version : Nat]]
    /\ settingsOf'[d] = settings
    /\ \A e \in DB \ {d} : settingsOf'[e] = settingsOf[e]

\* NewConnector stores a fresh handle in its own connector.
LEMMA NewConnectorEffect ==
    ASSUME TypeOK, NEW b \in Builds, NewConnector(b)
    PROVE  \E d \in DB :
            /\ Dials(d, SettingsOfBuild(b))
            /\ cache' = [cache EXCEPT ![b] = d]
            /\ OtherBuilds(b)
            /\ build[b].at = "dial" /\ build'[b].at = "routes" /\ build'[b].db = d
            /\ build'[b].source = build[b].source /\ build'[b].version = build[b].version
<1>1. PICK d \in DB \ opened :
        /\ opened' = opened \cup {d}
        /\ settingsOf' = [settingsOf EXCEPT ![d] = SettingsOfBuild(b)]
        /\ cache' = [cache EXCEPT ![b] = d]
        /\ build' = [build EXCEPT ![b].at = "routes", ![b].db = d]
  BY DEF NewConnector
<1>2. SettingsOfBuild(b) \in [source : Sources, version : Nat]
  BY BuildFields DEF SettingsOfBuild, Settings
<1>3. Dials(d, SettingsOfBuild(b))
  BY <1>1, <1>2 DEF TypeOK, Dials
<1>4. /\ OtherBuilds(b)
      /\ build'[b].at = "routes" /\ build'[b].db = d
      /\ build'[b].source = build[b].source /\ build'[b].version = build[b].version
  BY <1>1, BuildMoves
<1> QED BY <1>1, <1>3, <1>4 DEF NewConnector

\* A request is given the instance of its data source.
LEMMA ArriveEffect ==
    ASSUME TypeOK, NEW r \in Requests, NEW s \in Sources,
           NEW ask \in HTTPAsks \cup {Query}, Arrive(r, s, ask)
    PROVE  /\ OtherRequests(r)
           /\ request[r].at = "idle" /\ request'[r].at = "begun" /\ request'[r].ask = ask
           /\ request'[r].build = instance[s] /\ instance[s] \in Builds
           /\ request'[r].tries = request[r].tries
<1> DEFINE new == [request[r] EXCEPT !.at = "begun", !.ask = ask, !.build = instance[s]]
<1>1. /\ instance[s] \in Builds /\ ask \in HTTPRequests \cup {Query}
      /\ request[r] \in RequestRecord /\ request[r].at = "idle"
  BY LifecycleAssumption DEF Arrive, UpToDate, TypeOK
<1>2. /\ new \in RequestRecord /\ new.at = "begun" /\ new.ask = ask /\ new.build = instance[s]
      /\ new.tries = request[r].tries
  BY <1>1 DEF RequestRecord
<1>3. request' = [request EXCEPT ![r] = new]
  BY DEF Arrive, TypeOK
<1> HIDE DEF new
<1> QED BY <1>1, <1>2, <1>3 DEF TypeOK, OtherRequests

\* A query takes the default connection of its instance, if there is one.
LEMMA TakeConnectionEffect ==
    ASSUME TypeOK, Wired, NEW r \in Requests, TakeConnection(r)
    PROVE  /\ OtherRequests(r)
           /\ request[r].at = "begun" /\ request[r].ask = Query /\ request[r].build \in Builds
           /\ request'[r].at = IF cache[request[r].build] = NoDB THEN "done" ELSE "running"
           /\ request'[r].first = cache[request[r].build]
           /\ request'[r].db = cache[request[r].build]
           /\ request'[r].ask = request[r].ask /\ request'[r].build = request[r].build
           /\ request'[r].tries = request[r].tries
<1>1. request[r].at = "begun" /\ request[r].ask = Query /\ request[r] \in RequestRecord
  BY DEF TakeConnection, TypeOK
<1>2. request[r].build \in Builds
  BY <1>1, Connected
<1>3. PICK d \in DB \cup {NoDB} : d = cache[request[r].build]
  BY <1>2 DEF TypeOK
<1>4. PICK label \in {"done", "running"} : label = IF d = NoDB THEN "done" ELSE "running"
  OBVIOUS
<1> DEFINE new == [request[r] EXCEPT !.at = label, !.first = d, !.db = d]
<1>5. /\ new \in RequestRecord /\ new.at = label /\ new.first = d /\ new.db = d
      /\ new.ask = request[r].ask /\ new.build = request[r].build
      /\ new.tries = request[r].tries
  BY <1>1 DEF RequestRecord
<1>6. request' = [request EXCEPT ![r].at = label, ![r].first = d, ![r].db = d]
  BY <1>3, <1>4 DEF TakeConnection
<1>7. request' = [request EXCEPT ![r] = new]
  BY <1>6 DEF TypeOK
<1> HIDE DEF new
<1> QED BY <1>1, <1>2, <1>3, <1>4, <1>5, <1>7 DEF TypeOK, OtherRequests

\* A retry opens a fresh handle with the settings of the one taken first.
LEMMA RedialEffect ==
    ASSUME TypeOK, Wired, NEW r \in Requests, Redial(r)
    PROVE  \E d \in DB :
            /\ Dials(d, SettingsOfBuild(request[r].build))
            /\ OtherRequests(r)
            /\ request[r].at = "running" /\ request'[r].at = "close" /\ request'[r].db = d
            /\ request'[r].tries = request[r].tries + 1
            /\ request'[r].first = request[r].first /\ request'[r].build = request[r].build
            /\ request'[r].ask = request[r].ask
<1>1. /\ request[r].at = "running" /\ request[r] \in RequestRecord
      /\ request[r].build \in Builds
      /\ settingsOf[request[r].first] = SettingsOfBuild(request[r].build)
  BY Connected DEF Redial, TypeOK, Wired, RequestsWired, Running
<1>2. PICK d \in DB \ opened :
        /\ opened' = opened \cup {d}
        /\ settingsOf' = [settingsOf EXCEPT ![d] = settingsOf[request[r].first]]
        /\ request' = [request EXCEPT ![r].at = "close", ![r].db = d, ![r].tries = @ + 1]
  BY DEF Redial
<1>3. SettingsOfBuild(request[r].build) \in [source : Sources, version : Nat]
  BY <1>1, BuildFields DEF SettingsOfBuild, Settings
<1>4. Dials(d, SettingsOfBuild(request[r].build))
  BY <1>1, <1>2, <1>3 DEF TypeOK, Dials
<1>n. PICK n \in Nat : n = request[r].tries + 1
  BY RequestFields
<1> DEFINE new == [request[r] EXCEPT !.at = "close", !.db = d, !.tries = n]
<1>5. /\ new \in RequestRecord /\ new.at = "close" /\ new.db = d
      /\ new.tries = request[r].tries + 1
      /\ new.first = request[r].first /\ new.build = request[r].build
      /\ new.ask = request[r].ask
  BY <1>1, <1>n DEF RequestRecord
<1>6. request' = [request EXCEPT ![r] = new]
  BY <1>2, <1>n DEF TypeOK
<1> HIDE DEF new
<1> QED BY <1>1, <1>4, <1>5, <1>6 DEF TypeOK, OtherRequests

\* A request goes on with the handles it has.
LEMMA RequestMoves ==
    ASSUME TypeOK, NEW r \in Requests, NEW label \in {"running", "store"},
           request' = [request EXCEPT ![r].at = label]
    PROVE  /\ OtherRequests(r)
           /\ request'[r].at = label
           /\ request'[r].first = request[r].first /\ request'[r].db = request[r].db
           /\ request'[r].tries = request[r].tries /\ request'[r].build = request[r].build
           /\ request'[r].ask = request[r].ask
<1> DEFINE new == [request[r] EXCEPT !.at = label]
<1>1. request[r] \in RequestRecord
  BY DEF TypeOK
<1>2. /\ new \in RequestRecord /\ new.at = label
      /\ new.first = request[r].first /\ new.db = request[r].db
      /\ new.tries = request[r].tries /\ new.build = request[r].build
      /\ new.ask = request[r].ask
  BY <1>1 DEF RequestRecord
<1>3. request' = [request EXCEPT ![r] = new]
  BY DEF TypeOK
<1> HIDE DEF new
<1> QED BY <1>2, <1>3 DEF TypeOK, OtherRequests

\* A resource call is answered by the middleware or by Serve, and touches no
\* connection.
LEMMA AnswerEffect ==
    ASSUME TypeOK, NEW r \in Requests, Intercept(r) \/ CallResource(r)
    PROVE  /\ OtherRequests(r)
           /\ request[r].at = "begun" /\ request[r].ask # Query /\ request'[r].at = "done"
           /\ request'[r].ask = request[r].ask /\ request'[r].build = request[r].build
           /\ request'[r].tries = request[r].tries
           /\ \/ middleware /\ request'[r].reply.by = "middleware"
              \/ \E completable, err \in BOOLEAN, body \in Bodies :
                    request'[r].reply = Serve(custom, request[r].ask, completable, body, err)
<1>1. PICK reply \in Replies :
        /\ request' = [request EXCEPT ![r].at = "done", ![r].reply = reply]
        /\ \/ middleware /\ reply.by = "middleware"
           \/ \E completable, err \in BOOLEAN, body \in Bodies :
                 reply = Serve(custom, request[r].ask, completable, body, err)
  <2>1. CASE Intercept(r)
    <3>1. Reply("middleware", 403) \in Replies /\ Reply("middleware", 403).by = "middleware"
      BY DEF Reply, Replies
    <3> QED BY <2>1, <3>1 DEF Intercept
  <2>2. CASE CallResource(r)
    BY <2>2, ServeType DEF CallResource
  <2> QED BY <2>1, <2>2
<1> DEFINE new == [request[r] EXCEPT !.at = "done", !.reply = reply]
<1>2. request[r] \in RequestRecord /\ request[r].at = "begun" /\ request[r].ask # Query
  BY DEF TypeOK, Intercept, CallResource
<1>3. /\ new \in RequestRecord /\ new.at = "done" /\ new.reply = reply
      /\ new.ask = request[r].ask /\ new.build = request[r].build
      /\ new.tries = request[r].tries
  BY <1>2 DEF RequestRecord, Replies
<1>4. request' = [request EXCEPT ![r] = new]
  BY <1>1 DEF TypeOK
<1> HIDE DEF new
<1>5. OtherRequests(r) /\ request'[r] = new
  BY <1>3, <1>4 DEF TypeOK, OtherRequests
<1>6. CASE middleware /\ reply.by = "middleware"
  BY <1>2, <1>3, <1>5, <1>6
<1>7. CASE \E completable, err \in BOOLEAN, body \in Bodies :
                 reply = Serve(custom, request[r].ask, completable, body, err)
  BY <1>2, <1>3, <1>5, <1>7
<1> QED BY <1>1, <1>6, <1>7

-----------------------------------------------------------------------------
(* The steps of the invariant *)

\* No step breaks a type.
LEMMA TypeStep ==
    ASSUME TypeOK, Wired, [Next]_vars
    PROVE  TypeOK'
<1> USE DEF TypeOK, routes, manager, handles
<1>1. ASSUME NEW s \in Sources, Save(s) PROVE TypeOK'
  BY <1>1 DEF Save
<1>2. ASSUME NEW b \in Builds, NEW s \in Sources, Construct(b, s) PROVE TypeOK'
  <2>1. build' \in [Builds -> BuildRecord]
    BY <1>2, ConstructEffect DEF OtherBuilds
  <2>2. retired' \subseteq Builds
    BY <1>2 DEF Construct
  <2> QED BY <1>2, <2>1, <2>2 DEF Construct
<1>3. ASSUME NEW b \in Builds, NewConnector(b) PROVE TypeOK'
  <2>1. PICK d \in DB :
        /\ Dials(d, SettingsOfBuild(b)) /\ OtherBuilds(b)
        /\ cache' = [cache EXCEPT ![b] = d]
    BY <1>3, NewConnectorEffect
  <2> QED BY <1>3, <2>1 DEF NewConnector, Dials, OtherBuilds
<1>4. ASSUME NEW b \in Builds, NewConnectorFails(b) \/ RegisterRoutesFails(b) PROVE TypeOK'
  BY <1>4, BuildMovesOn DEF NewConnectorFails, RegisterRoutesFails, OtherBuilds
<1>5. ASSUME NEW b \in Builds, RegisterRoutes(b) PROVE TypeOK'
  BY <1>5, BuildMovesOn, BuildFields DEF RegisterRoutes, OtherBuilds
<1>6. ASSUME NEW b \in Builds, CloseAll(b) PROVE TypeOK'
  BY <1>6 DEF CloseAll, Wired, BuildsWired
<1>7. ASSUME NEW b \in Builds, Clear(b) PROVE TypeOK'
  BY <1>7 DEF Clear
<1>8. ASSUME NEW r \in Requests, NEW s \in Sources, NEW ask \in HTTPAsks \cup {Query},
             Arrive(r, s, ask)
      PROVE  TypeOK'
  BY <1>8, ArriveEffect DEF Arrive, OtherRequests
<1>9. ASSUME NEW r \in Requests, TakeConnection(r) PROVE TypeOK'
  BY <1>9, TakeConnectionEffect DEF TakeConnection, OtherRequests
<1>10. ASSUME NEW r \in Requests, Redial(r) PROVE TypeOK'
  <2>1. PICK d \in DB : Dials(d, SettingsOfBuild(request[r].build)) /\ OtherRequests(r)
    BY <1>10, RedialEffect
  <2> QED BY <1>10, <2>1 DEF Redial, Dials, OtherRequests
<1>11. ASSUME NEW r \in Requests, CloseOld(r) PROVE TypeOK'
  <2>1. OtherRequests(r) /\ request[r].first \in opened
    BY <1>11, RequestMoves DEF CloseOld, Wired, RequestsWired, Running
  <2> QED BY <1>11, <2>1 DEF CloseOld, OtherRequests
<1>12. ASSUME NEW r \in Requests, StoreFresh(r) PROVE TypeOK'
  <2>1. OtherRequests(r) /\ request[r].db \in DB
    BY <1>12, RequestMoves DEF StoreFresh, Wired, RequestsWired, Running
  <2> QED BY <1>12, <2>1 DEF StoreFresh, OtherRequests
<1>13. ASSUME NEW r \in Requests, Intercept(r) \/ CallResource(r) PROVE TypeOK'
  BY <1>13, AnswerEffect DEF Intercept, CallResource, OtherRequests
<1>14. CASE vars' = vars
  BY <1>14 DEF vars
<1> QED BY NextCases, <1>1, <1>2, <1>3, <1>4, <1>5, <1>6, <1>7, <1>8, <1>9, <1>10, <1>11,
           <1>12, <1>13, <1>14

\* What is settled stays settled: the parameters of a construction once it has
\* begun, its bootstrap connection once it is open, and the settings of an open
\* handle.
BuildsSettled ==
    \A b \in Builds :
        /\ build[b].at # "idle" =>
            /\ build'[b].at # "idle" /\ build'[b].source = build[b].source
            /\ build'[b].version = build[b].version
            /\ SettingsOfBuild(b)' = SettingsOfBuild(b)
        /\ Opened(b) => build'[b].db = build[b].db
        /\ build[b].at \in {"done", "failed"} => build'[b] = build[b]
HandlesSettled ==
    opened \subseteq opened' /\ \A d \in opened : settingsOf'[d] = settingsOf[d]

\* No step unsettles what is settled.
LEMMA Settled ==
    ASSUME TypeOK, Wired, [Next]_vars
    PROVE  BuildsSettled /\ HandlesSettled
<1> USE DEF routes, manager, handles
<1>1. ASSUME UNCHANGED build PROVE BuildsSettled
  BY <1>1 DEF BuildsSettled, SettingsOfBuild, Settings
<1>2. ASSUME UNCHANGED <<opened, settingsOf>> PROVE HandlesSettled
  BY <1>2 DEF HandlesSettled
<1>3. ASSUME NEW b \in Builds, NEW s \in Sources, Construct(b, s)
      PROVE  BuildsSettled /\ HandlesSettled
  <2>1. BuildsSettled
    BY <1>3, ConstructEffect
       DEF BuildsSettled, SettingsOfBuild, Settings, OtherBuilds, Wired, BuildsWired
  <2> QED BY <1>2, <1>3, <2>1 DEF Construct
<1>4. ASSUME NEW b \in Builds, NewConnector(b) PROVE BuildsSettled /\ HandlesSettled
  <2>1. BuildsSettled
    BY <1>4, NewConnectorEffect
       DEF BuildsSettled, SettingsOfBuild, Settings, OtherBuilds, Wired, BuildsWired
  <2>2. HandlesSettled
    BY <1>4, NewConnectorEffect DEF TypeOK, HandlesSettled, Dials
  <2> QED BY <2>1, <2>2
<1>5. ASSUME NEW b \in Builds,
             NewConnectorFails(b) \/ RegisterRoutesFails(b) \/ RegisterRoutes(b)
      PROVE  BuildsSettled /\ HandlesSettled
  <2>1. PICK label \in {"done", "failed"} : build' = [build EXCEPT ![b].at = label]
    BY <1>5 DEF NewConnectorFails, RegisterRoutesFails, RegisterRoutes
  <2>2. build[b].at \in {"dial", "routes"}
    BY <1>5 DEF NewConnectorFails, RegisterRoutesFails, RegisterRoutes
  <2>3. BuildsSettled
    BY <2>1, <2>2, BuildMovesOn
       DEF BuildsSettled, SettingsOfBuild, Settings, OtherBuilds
  <2> QED BY <1>2, <1>5, <2>3 DEF NewConnectorFails, RegisterRoutesFails, RegisterRoutes
<1>6. ASSUME NEW r \in Requests, Redial(r) PROVE BuildsSettled /\ HandlesSettled
  <2>1. HandlesSettled
    BY <1>6, RedialEffect DEF TypeOK, HandlesSettled, Dials
  <2> QED BY <1>1, <1>6, <2>1 DEF Redial
<1>7. CASE UNCHANGED <<build, opened, settingsOf>>
  BY <1>1, <1>2, <1>7
<1> QED BY NextCases, <1>3, <1>4, <1>5, <1>6, <1>7
        DEF Save, CloseAll, Clear, Arrive, TakeConnection, CloseOld, StoreFresh, Intercept,
            CallResource, vars

\* A finished construction stays finished, and its data source's.
LEMMA DoneStays ==
    ASSUME BuildsSettled, NEW b \in Builds, build[b].at = "done"
    PROVE  build'[b].at = "done" /\ build'[b].source = build[b].source
  BY DEF BuildsSettled

\* No step breaks the wiring of the constructions.
LEMMA BuildsWiredStep ==
    ASSUME TypeOK, Wired, [Next]_vars
    PROVE  BuildsWired'
<1> USE DEF routes, manager, handles
<1>0. BuildsSettled /\ HandlesSettled /\ BuildsWired
  BY Settled DEF Wired
<1> DEFINE W(b) ==
        /\ build[b].at \in {"routes", "done"} => Opened(b)
        /\ build[b].at \in {"idle", "dial"} => ~Opened(b)
        /\ build[b].at # "done" => cache[b] = build[b].db
        /\ cache[b] # NoDB => /\ Opened(b) /\ cache[b] \in opened
                              /\ settingsOf[cache[b]] = SettingsOfBuild(b)
<1> SUFFICES ASSUME NEW b \in Builds PROVE W(b)'
  BY DEF BuildsWired
<1>a. W(b)
  BY <1>0 DEF BuildsWired
<1>b. build[b].at \in {"idle", "dial", "routes", "done", "failed"}
  BY BuildFields
<1>1. ASSUME build'[b] = build[b], cache'[b] = cache[b] PROVE W(b)'
  BY <1>0, <1>1, <1>a DEF HandlesSettled, Opened, SettingsOfBuild, Settings
<1>2. ASSUME NEW c \in Builds, NEW s \in Sources, Construct(c, s) PROVE W(b)'
  <2>1. CASE b # c
    BY <1>1, <1>2, <2>1, ConstructEffect DEF Construct, OtherBuilds
  <2>2. CASE b = c
    BY <1>2, <1>a, <2>2, ConstructEffect DEF Construct, Opened
  <2> QED BY <2>1, <2>2
<1>3. ASSUME NEW c \in Builds, NewConnector(c) PROVE W(b)'
  <2>1. PICK d \in DB :
            /\ Dials(d, SettingsOfBuild(c)) /\ OtherBuilds(c)
            /\ cache' = [cache EXCEPT ![c] = d]
            /\ build'[c].at = "routes" /\ build'[c].db = d
            /\ build'[c].source = build[c].source /\ build'[c].version = build[c].version
    BY <1>3, NewConnectorEffect
  <2>2. CASE b # c
    BY <1>1, <2>1, <2>2 DEF OtherBuilds, TypeOK
  <2>3. CASE b = c
    BY <2>1, <2>3, LifecycleAssumption
       DEF TypeOK, Opened, Dials, SettingsOfBuild, Settings
  <2> QED BY <2>2, <2>3
<1>4. ASSUME NEW c \in Builds,
             NewConnectorFails(c) \/ RegisterRoutesFails(c) \/ RegisterRoutes(c)
      PROVE  W(b)'
  <2>1. PICK label \in {"done", "failed"} :
            /\ build' = [build EXCEPT ![c].at = label]
            /\ label = "done" => build[c].at = "routes"
            /\ UNCHANGED <<cache, opened, settingsOf>>
    BY <1>4 DEF NewConnectorFails, RegisterRoutesFails, RegisterRoutes
  <2>2. /\ OtherBuilds(c) /\ build'[c].at = label /\ build'[c].db = build[c].db
        /\ build[c].at \in {"dial", "routes"}
        /\ build'[c].source = build[c].source /\ build'[c].version = build[c].version
    BY <1>4, <2>1, BuildMovesOn DEF NewConnectorFails, RegisterRoutesFails, RegisterRoutes
  <2>3. CASE b # c
    BY <1>1, <2>1, <2>2, <2>3 DEF OtherBuilds
  <2>4. CASE b = c
    BY <1>a, <2>1, <2>2, <2>4 DEF Opened, SettingsOfBuild, Settings
  <2> QED BY <2>3, <2>4
<1>5. ASSUME NEW c \in Builds, Clear(c) PROVE W(b)'
  <2>1. build[c].at = "done" /\ build'[b] = build[b]
    BY <1>5 DEF Clear, Wired, InstancesWired
  <2>2. CASE b # c
    BY <1>1, <1>5, <2>1, <2>2 DEF Clear, TypeOK
  <2>3. CASE b = c
    <3>1. cache'[b] = NoDB
      BY <1>5, <2>3 DEF Clear, TypeOK
    <3> QED BY <1>a, <2>1, <2>3, <3>1 DEF Opened
  <2> QED BY <2>2, <2>3
<1>6. ASSUME NEW r \in Requests, StoreFresh(r) PROVE W(b)'
  <2>1. /\ request[r].build \in Builds /\ build[request[r].build].at = "done"
        /\ Opened(request[r].build) /\ build'[b] = build[b]
        /\ request[r].db \in opened
        /\ settingsOf[request[r].db] = SettingsOfBuild(request[r].build)
    BY <1>6, Connected DEF StoreFresh, Wired, RequestsWired, Running
  <2>2. CASE b # request[r].build
    BY <1>1, <1>6, <2>1, <2>2 DEF StoreFresh, TypeOK
  <2>3. CASE b = request[r].build
    <3>1. cache'[b] = request[r].db
      BY <1>6, <2>3 DEF StoreFresh, TypeOK
    <3> QED BY <1>6, <2>1, <2>3, <3>1 DEF StoreFresh, Opened, SettingsOfBuild, Settings
  <2> QED BY <2>2, <2>3
<1>7. ASSUME NEW r \in Requests, Redial(r) PROVE W(b)'
  BY <1>1, <1>7 DEF Redial
<1>8. CASE UNCHANGED <<build, cache>>
  BY <1>1, <1>8
<1> HIDE DEF W
<1> QED BY NextCases, <1>2, <1>3, <1>4, <1>5, <1>6, <1>7, <1>8
        DEF Save, CloseAll, Arrive, TakeConnection, CloseOld, Intercept, CallResource, vars

\* No step breaks that of the instances.
LEMMA InstancesWiredStep ==
    ASSUME TypeOK, Wired, [Next]_vars
    PROVE  InstancesWired'
<1> USE DEF routes, manager, handles
<1>0. /\ BuildsSettled /\ InstancesWired
      /\ \A s \in Sources : instance[s] # NoBuild => instance[s] \in Builds
      /\ retired \cup clearing \cup disposed \subseteq Builds
  BY Settled DEF Wired, TypeOK
<1>1. /\ \A s \in Sources : instance[s] # NoBuild =>
            build'[instance[s]].at = "done" /\ build'[instance[s]].source = s
      /\ \A b \in retired \cup clearing \cup disposed : build'[b].at = "done"
  BY <1>0, DoneStays DEF InstancesWired
<1>2. CASE UNCHANGED <<instance, retired, clearing, disposed>>
  BY <1>1, <1>2 DEF InstancesWired
<1>3. ASSUME NEW b \in Builds, NEW s \in Sources, Construct(b, s) PROVE InstancesWired'
  BY <1>1, <1>3 DEF Construct, InstancesWired
<1>4. ASSUME NEW b \in Builds, RegisterRoutes(b) PROVE InstancesWired'
  <2>1. /\ build'[b].at = "done" /\ build'[b].source = build[b].source
        /\ build[b].source \in Sources
    BY <1>4, BuildMovesOn, BuildFields DEF RegisterRoutes
  <2>2. /\ UNCHANGED <<retired, clearing, disposed>> /\ instance'[build[b].source] = b
        /\ \A s \in Sources \ {build[b].source} : instance'[s] = instance[s]
    BY <1>4, <2>1 DEF RegisterRoutes, TypeOK
  <2> QED BY <1>1, <2>1, <2>2 DEF InstancesWired
<1>5. ASSUME NEW b \in Builds, CloseAll(b) \/ Clear(b) PROVE InstancesWired'
  BY <1>1, <1>5 DEF CloseAll, Clear, InstancesWired
<1> QED BY NextCases, <1>2, <1>3, <1>4, <1>5
        DEF Save, NewConnector, NewConnectorFails, RegisterRoutesFails, Arrive, TakeConnection,
            Redial, CloseOld, StoreFresh, Intercept, CallResource, vars

\* No step breaks that of the requests.
LEMMA RequestsWiredStep ==
    ASSUME TypeOK, Wired, [Next]_vars
    PROVE  RequestsWired'
<1> USE DEF routes, manager, handles
<1>0. BuildsSettled /\ HandlesSettled /\ RequestsWired
  BY Settled DEF Wired
<1> DEFINE W(r) ==
        /\ request[r].at # "idle" =>
            request[r].build \in Builds /\ build[request[r].build].at = "done"
        /\ request[r].tries >= 1 => Running(r)
        /\ Running(r) =>
            /\ request[r].first \in opened /\ request[r].db \in opened
            /\ settingsOf[request[r].first] = SettingsOfBuild(request[r].build)
            /\ settingsOf[request[r].db] = SettingsOfBuild(request[r].build)
        /\ request[r].at \in {"close", "store"} => request[r].tries >= 1
        /\ request[r].at = "store" => request[r].first \in closed
<1> SUFFICES ASSUME NEW r \in Requests PROVE W(r)'
  BY DEF RequestsWired
<1>a. W(r) /\ request[r].tries \in Nat
  BY <1>0, RequestFields DEF RequestsWired
<1>b. closed \subseteq closed'
  BY NextCases
     DEF Save, Construct, NewConnector, NewConnectorFails, RegisterRoutes, RegisterRoutesFails,
         CloseAll, Clear, Arrive, TakeConnection, Redial, CloseOld, StoreFresh, Intercept,
         CallResource, vars
<1>c. ASSUME NEW c \in Builds, build[c].at = "done"
      PROVE  build'[c].at = "done" /\ build'[c] = build[c]
  BY <1>0, <1>c DEF BuildsSettled
<1>1. ASSUME request'[r] = request[r] PROVE W(r)'
  BY <1>0, <1>1, <1>a, <1>b, <1>c
     DEF HandlesSettled, SettingsOfBuild, Settings, Running
<1> HIDE DEF W
<1>2. ASSUME NEW q \in Requests, r # q, OtherRequests(q) PROVE W(r)'
  BY <1>1, <1>2 DEF OtherRequests
<1>3. ASSUME NEW s \in Sources, NEW ask \in HTTPAsks \cup {Query}, Arrive(r, s, ask)
      PROVE  W(r)'
  <2>1. instance[s] \in Builds /\ build[instance[s]].at = "done"
    BY <1>3, ArriveEffect DEF Arrive, UpToDate, Wired, InstancesWired
  <2> QED BY <1>3, <1>a, <2>1, ArriveEffect DEF W, Arrive, Running
<1>4. ASSUME TakeConnection(r) PROVE W(r)'
  <2>1. PICK b \in Builds : b = request[r].build /\ build[b].at = "done"
    BY <1>4, Connected DEF TakeConnection
  <2>2. /\ UNCHANGED <<build, opened, settingsOf>>
        /\ request[r].at = "begun" /\ request'[r].build = b
        /\ request'[r].at = IF cache[b] = NoDB THEN "done" ELSE "running"
        /\ request'[r].first = cache[b] /\ request'[r].db = cache[b]
        /\ request'[r].tries = request[r].tries
    <3>1. UNCHANGED <<build, opened, settingsOf>>
      BY <1>4 DEF TakeConnection
    <3> QED BY <1>4, <2>1, <3>1, TakeConnectionEffect
  <2>3. cache[b] # NoDB => cache[b] \in opened /\ settingsOf[cache[b]] = SettingsOfBuild(b)
    BY DEF Wired, BuildsWired
  <2>4. ~(request[r].tries >= 1)
    BY <1>a, <2>2 DEF W, Running
  <2> QED BY <2>1, <2>2, <2>3, <2>4 DEF W, Running, SettingsOfBuild, Settings
<1>5. ASSUME Redial(r) PROVE W(r)'
  <2>1. PICK d \in DB :
            /\ Dials(d, SettingsOfBuild(request[r].build))
            /\ request[r].at = "running" /\ request'[r].at = "close" /\ request'[r].db = d
            /\ request'[r].tries = request[r].tries + 1
            /\ request'[r].first = request[r].first /\ request'[r].build = request[r].build
    BY <1>5, RedialEffect
  <2>2. /\ request[r].build \in Builds /\ build[request[r].build].at = "done"
        /\ request[r].first \in opened /\ opened \subseteq DB
        /\ settingsOf[request[r].first] = SettingsOfBuild(request[r].build)
    BY <1>a, <2>1 DEF W, Running, TypeOK
  <2>3. UNCHANGED build
    BY <1>5 DEF Redial
  <2>4. request'[r].tries >= 1
    BY <1>a, <2>1
  <2> QED BY <2>1, <2>2, <2>3, <2>4 DEF W, Running, Dials, SettingsOfBuild, Settings
<1>6. ASSUME CloseOld(r) PROVE W(r)'
  <2>1. /\ request'[r].at = "store" /\ request[r].at = "close"
        /\ request'[r].first = request[r].first /\ request'[r].db = request[r].db
        /\ request'[r].tries = request[r].tries /\ request'[r].build = request[r].build
        /\ request[r].first \in closed' /\ UNCHANGED <<build, opened, settingsOf>>
    BY <1>6, RequestMoves DEF CloseOld
  <2> QED BY <1>a, <2>1 DEF W, Running, SettingsOfBuild, Settings
<1>7. ASSUME StoreFresh(r) PROVE W(r)'
  <2>1. /\ request'[r].at = "running" /\ request[r].at = "store"
        /\ request'[r].first = request[r].first /\ request'[r].db = request[r].db
        /\ request'[r].tries = request[r].tries /\ request'[r].build = request[r].build
        /\ UNCHANGED <<build, opened, settingsOf>>
    BY <1>7, RequestMoves DEF StoreFresh
  <2> QED BY <1>a, <2>1 DEF W, Running, SettingsOfBuild, Settings
<1>8. ASSUME Intercept(r) \/ CallResource(r) PROVE W(r)'
  <2>1. UNCHANGED build
    BY <1>8 DEF Intercept, CallResource
  <2> QED BY <1>8, <1>a, <2>1, AnswerEffect DEF W, Running
<1>9. CASE UNCHANGED request
  BY <1>1, <1>9
<1>10. ASSUME NEW q \in Requests, NEW s \in Sources, NEW ask \in HTTPAsks \cup {Query},
              Arrive(q, s, ask)
       PROVE  W(r)'
  BY <1>2, <1>3, <1>10, ArriveEffect
<1>11. ASSUME NEW q \in Requests, TakeConnection(q) PROVE W(r)'
  BY <1>2, <1>4, <1>11, TakeConnectionEffect
<1>12. ASSUME NEW q \in Requests, Redial(q) PROVE W(r)'
  BY <1>2, <1>5, <1>12, RedialEffect
<1>13. ASSUME NEW q \in Requests, CloseOld(q) PROVE W(r)'
  BY <1>2, <1>6, <1>13, RequestMoves DEF CloseOld
<1>14. ASSUME NEW q \in Requests, StoreFresh(q) PROVE W(r)'
  BY <1>2, <1>7, <1>14, RequestMoves DEF StoreFresh
<1>15. ASSUME NEW q \in Requests, Intercept(q) \/ CallResource(q) PROVE W(r)'
  BY <1>2, <1>8, <1>15, AnswerEffect
<1> QED BY NextCases, <1>9, <1>10, <1>11, <1>12, <1>13, <1>14, <1>15
        DEF Save, Construct, NewConnector, NewConnectorFails, RegisterRoutesFails,
            RegisterRoutes, CloseAll, Clear, vars

\* No step breaks the wiring.
LEMMA WiredStep ==
    ASSUME TypeOK, Wired, [Next]_vars
    PROVE  Wired'
  BY BuildsWiredStep, InstancesWiredStep, RequestsWiredStep DEF Wired

\* No step makes a retired instance current, or begins a second construction
\* for a data source.
LEMMA DatedStep ==
    ASSUME TypeOK, Wired, Dated, [Next]_vars
    PROVE  Dated'
<1> USE DEF routes, manager, handles
<1> DEFINE gone == retired \cup clearing \cup disposed
<1>0. /\ gone \subseteq Builds
      /\ \A b \in gone : build[b].at = "done"
      /\ \A b \in Builds : build[b].source \in Sources /\ build[b].version \in Nat
      /\ \A s \in Sources : version[s] \in Nat /\ instance[s] \in Builds \cup {NoBuild}
  BY BuildFields DEF TypeOK, Wired, InstancesWired
<1>1. ASSUME NEW s \in Sources, Save(s) PROVE Dated'
  <2>1. /\ UNCHANGED <<build, instance, retired, clearing, disposed>>
        /\ \A t \in Sources : version'[t] \in Nat /\ version[t] <= version'[t]
    BY <1>0, <1>1 DEF Save, TypeOK
  <2> QED BY <1>0, <2>1 DEF Dated, UnderWay
<1>2. ASSUME NEW b \in Builds, NEW s \in Sources, Construct(b, s)
      PROVE  Dated'
  <2>1. /\ \A c \in Builds \ {b} : build'[c] = build[c]
        /\ build[b].at = "idle" /\ build'[b].at = "dial" /\ build'[b].source = s
        /\ build'[b].version = version[s]
    BY <1>2, ConstructEffect DEF OtherBuilds
  <2>2. /\ gone' = gone \cup ({instance[s]} \ {NoBuild})
        /\ UNCHANGED <<version, instance>>
    BY <1>2 DEF Construct
  <2>3. /\ \A c \in Builds : UnderWay(c) => build[c].source # s
        /\ ~UpToDate(s)
    BY <1>2 DEF Construct
  <2>4. b \notin gone'
    <3>1. instance[s] # NoBuild => build[instance[s]].at = "done"
      BY DEF Wired, InstancesWired
    <3> QED BY <1>0, <2>1, <2>2, <3>1
  <2>5. \A c \in Builds : build'[c].at # "idle" => build'[c].version <= version'[build'[c].source]
    BY <1>0, <2>1, <2>2 DEF Dated
  <2>6. \A c \in gone' : build'[c].version < version'[build'[c].source]
    <3>1. instance[s] # NoBuild => build[instance[s]].version < version[s]
                                   /\ build[instance[s]].source = s
      <4>1. instance[s] # NoBuild => /\ build[instance[s]].at # "idle"
                                     /\ build[instance[s]].source = s
                                     /\ build[instance[s]].version # version[s]
        BY <2>3 DEF Wired, InstancesWired, UpToDate
      <4> QED BY <1>0, <4>1 DEF Dated
    <3> QED BY <1>0, <2>1, <2>2, <2>4, <3>1 DEF Dated
  <2>7. \A c, e \in Builds :
            UnderWay(c)' /\ UnderWay(e)' /\ build'[c].source = build'[e].source => c = e
    BY <2>1, <2>3 DEF Dated, UnderWay
  <2>8. \A c \in Builds : UnderWay(c)' => instance'[build'[c].source] \in gone' \cup {NoBuild}
    BY <2>1, <2>2 DEF Dated, UnderWay
  <2>9. \A c \in Builds : build'[c].at = "done" => c \in gone' \/ instance'[build'[c].source] = c
    BY <2>1, <2>2 DEF Dated
  <2> QED BY <2>5, <2>6, <2>7, <2>8, <2>9 DEF Dated
<1>3. ASSUME NEW b \in Builds, NewConnector(b) PROVE Dated'
  <2>1. /\ OtherBuilds(b)
        /\ build[b].at = "dial" /\ build'[b].at = "routes"
        /\ build'[b].source = build[b].source /\ build'[b].version = build[b].version
    BY <1>3, NewConnectorEffect
  <2>2. UNCHANGED <<version, instance, retired, clearing, disposed>>
    BY <1>3 DEF NewConnector
  <2> QED BY <1>0, <2>1, <2>2 DEF Dated, UnderWay, OtherBuilds
<1>4. ASSUME NEW b \in Builds, NewConnectorFails(b) \/ RegisterRoutesFails(b) PROVE Dated'
  <2>1. /\ OtherBuilds(b)
        /\ build[b].at \in {"dial", "routes"} /\ build'[b].at = "failed"
        /\ build'[b].source = build[b].source /\ build'[b].version = build[b].version
    BY <1>4, BuildMovesOn DEF NewConnectorFails, RegisterRoutesFails
  <2>2. UNCHANGED <<version, instance, retired, clearing, disposed>>
    BY <1>4 DEF NewConnectorFails, RegisterRoutesFails
  <2> QED BY <1>0, <2>1, <2>2 DEF Dated, UnderWay, OtherBuilds
<1>5. ASSUME NEW b \in Builds, RegisterRoutes(b) PROVE Dated'
  <2>1. /\ OtherBuilds(b)
        /\ build[b].at = "routes" /\ build'[b].at = "done"
        /\ build'[b].source = build[b].source /\ build'[b].version = build[b].version
        /\ build[b].source \in Sources
    BY <1>5, BuildMovesOn, BuildFields DEF RegisterRoutes
  <2>2. /\ UNCHANGED <<version, retired, clearing, disposed>>
        /\ instance'[build[b].source] = b
        /\ \A s \in Sources \ {build[b].source} : instance'[s] = instance[s]
    BY <1>5, <2>1 DEF RegisterRoutes, TypeOK
  <2>3. \A c \in Builds : UnderWay(c)' => UnderWay(c) /\ build[c].source # build[b].source
    BY <2>1 DEF Dated, UnderWay, OtherBuilds
  <2>4. instance[build[b].source] \in gone \cup {NoBuild}
    BY <2>1 DEF Dated, UnderWay
  <2>5. \A c \in Builds : build'[c].at = "done" => c \in gone \/ instance'[build'[c].source] = c
    <3> SUFFICES ASSUME NEW c \in Builds, build'[c].at = "done", c # b
                 PROVE  c \in gone \/ instance'[build'[c].source] = c
      BY <2>1, <2>2
    <3>1. build'[c] = build[c] /\ build[c].source \in Sources /\ c # NoBuild
      BY <1>0, <2>1, LifecycleAssumption DEF OtherBuilds
    <3>2. c \in gone \/ instance[build[c].source] = c
      BY <3>1 DEF Dated
    <3> QED BY <2>2, <2>4, <3>1, <3>2
  <2>6. \A c \in gone : build'[c].version < version'[build'[c].source]
    BY <1>0, <2>1, <2>2 DEF Dated, OtherBuilds
  <2>7. \A c \in Builds : build'[c].at # "idle" => build'[c].version <= version'[build'[c].source]
    BY <1>0, <2>1, <2>2 DEF Dated, OtherBuilds
  <2>8. \A c \in Builds : UnderWay(c)' => instance'[build'[c].source] \in gone \cup {NoBuild}
    BY <1>0, <2>1, <2>2, <2>3 DEF Dated, UnderWay, OtherBuilds
  <2>9. \A c, e \in Builds :
            UnderWay(c)' /\ UnderWay(e)' /\ build'[c].source = build'[e].source => c = e
    BY <2>1, <2>3 DEF Dated, UnderWay, OtherBuilds
  <2> QED BY <2>2, <2>5, <2>6, <2>7, <2>8, <2>9 DEF Dated
<1>6. ASSUME NEW b \in Builds, CloseAll(b) \/ Clear(b) PROVE Dated'
  <2>1. gone' = gone /\ UNCHANGED <<version, instance, build>>
    BY <1>6 DEF CloseAll, Clear
  <2> QED BY <2>1 DEF Dated, UnderWay
<1>7. CASE UNCHANGED <<version, instance, retired, clearing, disposed, build>>
  BY <1>7 DEF Dated, UnderWay
<1> QED BY NextCases, <1>1, <1>2, <1>3, <1>4, <1>5, <1>6, <1>7
        DEF Arrive, TakeConnection, Redial, CloseOld, StoreFresh, Intercept, CallResource, vars

-----------------------------------------------------------------------------
(* What requests on their connections have done *)

\* No request gets, or has, a connection that changes.
Quiet == \A r \in Requests : Running(r) \/ Running(r)' => request'[r] = request[r]

\* What requests and disposals tell about handles is as it was.
Same == Quiet /\ UNCHANGED <<cache, opened, closed, settingsOf, clearing, disposed>>
        /\ \A b \in Builds : build'[b].at \in {"routes", "done"} => build[b].at \in {"routes", "done"}

\* The steps that matter to handles, and the others.
LEMMA HandleCases ==
    ASSUME TypeOK, Wired, [Next]_vars
    PROVE  \/ Same
           \/ \E b \in Builds : NewConnector(b)
           \/ \E b \in Builds : CloseAll(b)
           \/ \E b \in Builds : Clear(b)
           \/ \E r \in Requests : TakeConnection(r)
           \/ \E r \in Requests : Redial(r)
           \/ \E r \in Requests : CloseOld(r)
           \/ \E r \in Requests : StoreFresh(r)
<1> USE DEF routes, manager, handles
<1>1. ASSUME NEW s \in Sources, Save(s) PROVE Same
  BY <1>1 DEF Save, Same, Quiet
<1>2. ASSUME NEW b \in Builds, NEW s \in Sources, Construct(b, s) PROVE Same
  <2>1. \A c \in Builds : build'[c].at \in {"routes", "done"} => build[c].at \in {"routes", "done"}
    BY <1>2, ConstructEffect DEF OtherBuilds
  <2> QED BY <1>2, <2>1 DEF Construct, Same, Quiet
<1>3. ASSUME NEW b \in Builds,
             NewConnectorFails(b) \/ RegisterRoutesFails(b) \/ RegisterRoutes(b)
      PROVE  Same
  <2>1. PICK label \in {"done", "failed"} :
            /\ build' = [build EXCEPT ![b].at = label]
            /\ label = "done" => build[b].at = "routes"
    BY <1>3 DEF NewConnectorFails, RegisterRoutesFails, RegisterRoutes
  <2>2. \A c \in Builds : build'[c].at \in {"routes", "done"} => build[c].at \in {"routes", "done"}
    BY <2>1, BuildMovesOn DEF OtherBuilds
  <2> QED BY <1>3, <2>2 DEF NewConnectorFails, RegisterRoutesFails, RegisterRoutes, Same, Quiet
<1>4. ASSUME NEW r \in Requests, NEW s \in Sources, NEW ask \in HTTPAsks \cup {Query},
             Arrive(r, s, ask)
      PROVE  Same
  <2>1. Quiet
    BY <1>4, ArriveEffect DEF Quiet, Running, OtherRequests
  <2> QED BY <1>4, <2>1 DEF Arrive, Same
<1>5. ASSUME NEW r \in Requests, Intercept(r) \/ CallResource(r) PROVE Same
  <2>1. Quiet
    BY <1>5, AnswerEffect DEF Quiet, Running, OtherRequests
  <2> QED BY <1>5, <2>1 DEF Intercept, CallResource, Same
<1>6. CASE vars' = vars
  BY <1>6 DEF vars, Same, Quiet
<1> QED BY NextCases, <1>1, <1>2, <1>3, <1>4, <1>5, <1>6

\* A request that has dialled keeps its instance and its first handle, and its
\* fresh one until it dials again.
LEMMA TriesStay ==
    ASSUME TypeOK, Wired, [Next]_vars, NEW r \in Requests, request[r].tries >= 1
    PROVE  /\ request'[r].tries >= request[r].tries /\ request'[r].tries >= 1
           /\ request'[r].build = request[r].build /\ request'[r].first = request[r].first
           /\ request'[r].db = request[r].db \/ request'[r].tries >= 2
<1>1. Running(r) /\ request[r].tries \in Nat
  BY RequestFields DEF Wired, RequestsWired
<1>2. CASE request'[r] = request[r]
  BY <1>1, <1>2
<1>3. ASSUME NEW q \in Requests, OtherRequests(q), request[q].at = "begun"
      PROVE  request'[r] = request[r]
  BY <1>1, <1>3 DEF OtherRequests, Running
<1>4. ASSUME NEW q \in Requests, TakeConnection(q) PROVE request'[r] = request[r]
  BY <1>3, <1>4, TakeConnectionEffect
<1>5. CASE \E q \in Requests : Redial(q)
  <2>1. PICK q \in Requests : Redial(q)
    BY <1>5
  <2> QED BY <1>1, <1>2, <2>1, RedialEffect DEF OtherRequests
<1>6. CASE \E q \in Requests : CloseOld(q)
  BY <1>1, <1>2, <1>6, RequestMoves DEF CloseOld, OtherRequests
<1>7. CASE \E q \in Requests : StoreFresh(q)
  BY <1>1, <1>2, <1>7, RequestMoves DEF StoreFresh, OtherRequests
<1>8. ASSUME Same \/ UNCHANGED request PROVE request'[r] = request[r]
  BY <1>1, <1>8 DEF Same, Quiet
<1> QED BY HandleCases, <1>2, <1>4, <1>5, <1>6, <1>7, <1>8 DEF NewConnector, CloseAll, Clear

Excused(b) == Twice(b) \/ Collided(b)

\* Excuses last: a second retry, and two retries of one handle.
LEMMA ExcusesStay ==
    ASSUME TypeOK, Wired, [Next]_vars, NEW b \in Builds, Excused(b)
    PROVE  Excused(b)'
<1>0. \A r \in Requests : request[r].tries \in Nat /\ request'[r].tries \in Nat
  BY RequestFields, TypeStep DEF TypeOK, RequestRecord
<1>1. ASSUME Twice(b) PROVE Twice(b)'
  <2>1. PICK r \in Requests : request[r].build = b /\ request[r].tries >= 2
    BY <1>1 DEF Twice
  <2>2. request'[r].build = b /\ request'[r].tries >= 2
    BY <1>0, <2>1, TriesStay
  <2> QED BY <2>2 DEF Twice
<1>2. ASSUME Collided(b) PROVE Collided(b)'
  <2>1. PICK q \in Requests, r \in Requests :
            /\ q # r /\ request[q].build = b /\ request[r].build = b
            /\ request[q].first = request[r].first
            /\ request[q].tries >= 1 /\ request[r].tries >= 1
    BY <1>2 DEF Collided
  <2> QED BY <2>1, TriesStay DEF Collided
<1> QED BY <1>1, <1>2 DEF Excused

\* An instance that is being disposed of has been, for good.
LEMMA DisposingStays ==
    ASSUME [Next]_vars, NEW b \in Builds, Disposing(b)
    PROVE  Disposing(b)'
<1> USE DEF manager, routes, handles
<1> QED BY NextCases
        DEF Disposing, Save, Construct, NewConnector, NewConnectorFails, RegisterRoutes,
            RegisterRoutesFails, CloseAll, Clear, Arrive, TakeConnection, Redial, CloseOld,
            StoreFresh, Intercept, CallResource, vars

\* A handle dialled too late stays one, until its request dials again.
LEMMA LateStays ==
    ASSUME TypeOK, Wired, [Next]_vars, NEW b \in Builds, NEW d, Late(b, d)
    PROVE  Late(b, d)' \/ Excused(b)'
<1>1. PICK r \in Requests : request[r].build = b /\ request[r].db = d /\ request[r].tries >= 1
  BY DEF Late
<1>2. Disposing(b)'
  BY DisposingStays DEF Late
<1> QED BY <1>1, <1>2, TriesStay DEF Late, Excused, Twice

\* What is cached, and what requests run on, is open or has been.
LEMMA Known ==
    ASSUME TypeOK, Wired
    PROVE  /\ \A b \in Builds : cache[b] \in opened \cup {NoDB}
           /\ \A r \in Requests : Running(r) =>
                /\ request[r].first \in opened /\ request[r].db \in opened
                /\ request[r].build \in Builds /\ build[request[r].build].at = "done"
           /\ NoDB \notin opened /\ closed \subseteq opened /\ opened \subseteq DB
  BY LifecycleAssumption DEF TypeOK, Wired, BuildsWired, RequestsWired, Running

\* The steps on handles, in terms of handles: NewConnector caches a fresh one.
LEMMA NewConnectorHandles ==
    ASSUME TypeOK, Wired, NEW b \in Builds, NewConnector(b)
    PROVE  \E d \in DB :
            /\ d \notin opened /\ opened' = opened \cup {d}
            /\ cache' = [cache EXCEPT ![b] = d] /\ cache'[b] = d /\ cache[b] = NoDB
            /\ \A c \in Builds \ {b} : cache'[c] = cache[c]
            /\ settingsOf'[d] = SettingsOfBuild(b)' /\ build[b].at = "dial"
            /\ \A c \in Builds \ {b} : build'[c] = build[c]
            /\ UNCHANGED <<closed, clearing, disposed, request>>
<1>1. PICK d \in DB :
        /\ Dials(d, SettingsOfBuild(b))
        /\ cache' = [cache EXCEPT ![b] = d]
        /\ OtherBuilds(b)
        /\ build[b].at = "dial"
        /\ build'[b].source = build[b].source /\ build'[b].version = build[b].version
  BY NewConnectorEffect
<1>2. cache[b] = NoDB
  BY <1>1 DEF Wired, BuildsWired, Opened
<1>3. UNCHANGED <<closed, clearing, disposed, request>>
  BY DEF NewConnector, manager
<1>4. cache'[b] = d /\ \A c \in Builds \ {b} : cache'[c] = cache[c]
  BY <1>1 DEF TypeOK
<1> QED BY <1>1, <1>2, <1>3, <1>4 DEF Dials, OtherBuilds, SettingsOfBuild, Settings

\* CloseAll closes what one instance caches.
LEMMA CloseAllHandles ==
    ASSUME TypeOK, NEW b \in Builds, CloseAll(b)
    PROVE  /\ closed' = closed \cup ({cache[b]} \ {NoDB}) /\ b \in clearing'
           /\ UNCHANGED <<cache, opened, settingsOf, request, build>>
           /\ clearing \subseteq clearing' /\ clearing' \ {b} \subseteq clearing
           /\ UNCHANGED disposed
  BY DEF CloseAll

\* Clear forgets it.
LEMMA ClearHandles ==
    ASSUME TypeOK, NEW b \in Builds, Clear(b)
    PROVE  /\ cache'[b] = NoDB /\ \A c \in Builds \ {b} : cache'[c] = cache[c]
           /\ UNCHANGED <<opened, closed, settingsOf, request, build>>
           /\ Disposing(b) /\ \A c \in Builds : Disposing(c)' = Disposing(c)
<1>1. \A c \in Builds : Disposing(c)' = Disposing(c)
  BY DEF Clear, Disposing
<1> QED BY <1>1 DEF Clear, TypeOK, Disposing

\* Redial opens a handle for one request.
LEMMA RedialHandles ==
    ASSUME TypeOK, Wired, NEW r \in Requests, Redial(r)
    PROVE  \E d \in DB :
            /\ d \notin opened /\ opened' = opened \cup {d}
            /\ settingsOf'[d] = SettingsOfBuild(request[r].build)
            /\ \A q \in Requests \ {r} : request'[q] = request[q]
            /\ request[r].at = "running" /\ request'[r].at = "close" /\ request'[r].db = d
            /\ request'[r].tries = request[r].tries + 1
            /\ request'[r].first = request[r].first /\ request'[r].build = request[r].build
            /\ UNCHANGED <<cache, closed, build, clearing, disposed>>
<1>1. UNCHANGED <<cache, closed, build, clearing, disposed>>
  BY DEF Redial, manager
<1> QED BY <1>1, RedialEffect DEF Dials, OtherRequests

\* CloseOld closes the handle the request took first.
LEMMA CloseOldHandles ==
    ASSUME TypeOK, NEW r \in Requests, CloseOld(r)
    PROVE  /\ closed' = closed \cup {request[r].first}
           /\ \A q \in Requests \ {r} : request'[q] = request[q]
           /\ request[r].at = "close" /\ request'[r].at = "store"
           /\ request'[r].first = request[r].first /\ request'[r].db = request[r].db
           /\ request'[r].tries = request[r].tries /\ request'[r].build = request[r].build
           /\ UNCHANGED <<cache, opened, settingsOf, build, clearing, disposed>>
<1>1. UNCHANGED <<cache, opened, settingsOf, build, clearing, disposed>>
  BY DEF CloseOld, manager
<1> QED BY <1>1, RequestMoves DEF CloseOld, OtherRequests

\* StoreFresh caches the handle the request opened.
LEMMA StoreFreshHandles ==
    ASSUME TypeOK, Wired, NEW r \in Requests, StoreFresh(r)
    PROVE  /\ request[r].build \in Builds /\ cache'[request[r].build] = request[r].db
           /\ \A c \in Builds \ {request[r].build} : cache'[c] = cache[c]
           /\ \A q \in Requests \ {r} : request'[q] = request[q]
           /\ request[r].at = "store" /\ request'[r].at = "running"
           /\ request'[r].first = request[r].first /\ request'[r].db = request[r].db
           /\ request'[r].tries = request[r].tries /\ request'[r].build = request[r].build
           /\ UNCHANGED <<opened, closed, settingsOf, build, clearing, disposed>>
<1>1. UNCHANGED <<opened, closed, settingsOf, build, clearing, disposed>>
  BY DEF StoreFresh, manager
<1>2. request[r].build \in Builds
  BY Connected DEF StoreFresh
<1> QED BY <1>1, <1>2, RequestMoves DEF StoreFresh, OtherRequests, TypeOK

\* TakeConnection gives a request what its instance caches.
LEMMA TakeConnectionHandles ==
    ASSUME TypeOK, Wired, NEW r \in Requests, TakeConnection(r)
    PROVE  /\ \A q \in Requests \ {r} : request'[q] = request[q]
           /\ request[r].at = "begun" /\ request[r].build \in Builds
           /\ request'[r].at = IF cache[request[r].build] = NoDB THEN "done" ELSE "running"
           /\ request'[r].first = cache[request[r].build]
           /\ request'[r].db = cache[request[r].build]
           /\ request'[r].build = request[r].build /\ request'[r].tries = request[r].tries
           /\ UNCHANGED <<cache, opened, closed, settingsOf, build, clearing, disposed>>
<1>1. UNCHANGED <<cache, opened, closed, settingsOf, build, clearing, disposed>>
  BY DEF TakeConnection, manager, handles
<1> QED BY <1>1, TakeConnectionEffect DEF OtherRequests

-----------------------------------------------------------------------------
(* The steps of the invariant: whose handles are whose *)

\* No step lets instances share a handle.
LEMMA SeparateStep ==
    ASSUME TypeOK, Wired, Separate, Fresh, [Next]_vars
    PROVE  Separate'
<1> DEFINE C(b, c) == cache[b] = cache[c] /\ cache[b] # NoDB => b = c
           R(r, b) == Running(r) /\ cache[b] \in {request[r].first, request[r].db}
                        => request[r].build = b
<1>b. /\ \A e \in Builds : cache[e] \in opened \cup {NoDB}
      /\ \A q \in Requests : Running(q) =>
            request[q].first \in opened /\ request[q].db \in opened /\ request[q].build \in Builds
      /\ NoDB \notin opened
  BY Known
<1>c. ASSUME NEW q \in Requests, StoreFresh(q)
      PROVE  /\ \A e \in Builds : cache[e] # request[q].db
             /\ \A p \in Requests : Running(p) =>
                    request[p].first # request[q].db /\ (p # q => request[p].db # request[q].db)
  BY <1>c, StoreFreshHandles DEF Fresh
<1>1. ASSUME NEW b \in Builds, NEW c \in Builds PROVE C(b, c)'
  <2>a. C(b, c)
    BY DEF Separate
  <2>1. ASSUME NEW e \in Builds, NewConnector(e) PROVE C(b, c)'
    BY <2>1, <2>a, <1>b, NewConnectorHandles
  <2>2. ASSUME NEW e \in Builds, CloseAll(e) PROVE C(b, c)'
    BY <2>2, <2>a, CloseAllHandles
  <2>3. ASSUME NEW e \in Builds, Clear(e) PROVE C(b, c)'
    BY <2>3, <2>a, ClearHandles
  <2>4. ASSUME NEW q \in Requests, TakeConnection(q) \/ Redial(q) \/ CloseOld(q) PROVE C(b, c)'
    BY <2>4, <2>a, TakeConnectionHandles, RedialHandles, CloseOldHandles
  <2>5. ASSUME NEW q \in Requests, StoreFresh(q) PROVE C(b, c)'
    BY <2>5, <2>a, <1>c, StoreFreshHandles
  <2>6. CASE Same
    BY <2>6, <2>a DEF Same
  <2> QED BY HandleCases, <2>1, <2>2, <2>3, <2>4, <2>5, <2>6
<1>2. ASSUME NEW r \in Requests, NEW b \in Builds PROVE R(r, b)'
  <2>a. R(r, b)
    BY DEF Separate
  <2>1. CASE Same
    BY <2>1, <2>a DEF Same, Quiet, Running
  <2>2. ASSUME NEW e \in Builds, NewConnector(e) PROVE R(r, b)'
    BY <2>2, <2>a, <1>b, NewConnectorHandles DEF Running
  <2>3. ASSUME NEW e \in Builds, CloseAll(e) PROVE R(r, b)'
    BY <2>3, <2>a, CloseAllHandles DEF Running
  <2>4. ASSUME NEW e \in Builds, Clear(e) PROVE R(r, b)'
    BY <2>4, <2>a, <1>b, ClearHandles DEF Running
  <2>5. ASSUME NEW q \in Requests, TakeConnection(q) PROVE R(r, b)'
    <3>1. \A e \in Builds : cache[e] = cache[b] /\ cache[b] # NoDB => e = b
      BY DEF Separate
    <3> QED BY <2>5, <2>a, <3>1, TakeConnectionHandles DEF Running
  <2>6. ASSUME NEW q \in Requests, Redial(q) PROVE R(r, b)'
    BY <2>6, <2>a, <1>b, RedialHandles, LifecycleAssumption DEF Running
  <2>7. ASSUME NEW q \in Requests, CloseOld(q) PROVE R(r, b)'
    BY <2>7, <2>a, CloseOldHandles DEF Running
  <2>8. ASSUME NEW q \in Requests, StoreFresh(q) PROVE R(r, b)'
    BY <2>8, <2>a, <1>c, StoreFreshHandles DEF Running
  <2> QED BY HandleCases, <2>1, <2>2, <2>3, <2>4, <2>5, <2>6, <2>7, <2>8
<1> QED BY <1>1, <1>2 DEF Separate

\* No step hands a handle on, or closes it, before it is stored.
LEMMA FreshStep ==
    ASSUME TypeOK, Wired, Fresh, [Next]_vars
    PROVE  Fresh'
<1> DEFINE U(r) == LET d == request[r].db IN
            /\ d \notin closed
            /\ \A b \in Builds : cache[b] # d
            /\ \A q \in Requests : Running(q) =>
                  request[q].first # d /\ (q # r => request[q].db # d)
<1> SUFFICES ASSUME NEW r \in Requests, request'[r].at \in {"close", "store"} PROVE U(r)'
  BY DEF Fresh
<1>a. request[r].at \in {"close", "store"} => U(r)
  BY DEF Fresh
<1>b. /\ \A e \in Builds : cache[e] \in opened \cup {NoDB}
      /\ \A q \in Requests : Running(q) =>
            request[q].first \in opened /\ request[q].db \in opened /\ request[q].build \in Builds
      /\ NoDB \notin opened /\ closed \subseteq opened
  BY Known
<1>1. CASE Same
  <2>1. request'[r] = request[r]
    BY <1>1 DEF Same, Quiet, Running
  <2>2. \A q \in Requests : Running(q)' => Running(q) /\ request'[q] = request[q]
    BY <1>1 DEF Same, Quiet, Running
  <2> QED BY <1>1, <1>a, <2>1, <2>2 DEF Same
<1>2. ASSUME NEW e \in Builds, NewConnector(e) PROVE U(r)'
  BY <1>2, <1>a, <1>b, NewConnectorHandles DEF Running
<1>3. ASSUME NEW e \in Builds, CloseAll(e) PROVE U(r)'
  BY <1>3, <1>a, CloseAllHandles DEF Running
<1>4. ASSUME NEW e \in Builds, Clear(e) PROVE U(r)'
  BY <1>4, <1>a, <1>b, ClearHandles DEF Running
<1>5. ASSUME NEW q \in Requests, TakeConnection(q) PROVE U(r)'
  <2>1. q # r /\ request'[r] = request[r]
    BY <1>5, TakeConnectionHandles
  <2> QED BY <1>5, <1>a, <2>1, TakeConnectionHandles DEF Running
<1>6. ASSUME NEW q \in Requests, Redial(q) PROVE U(r)'
  BY <1>6, <1>a, <1>b, RedialHandles, LifecycleAssumption DEF Running
<1>7. ASSUME NEW q \in Requests, CloseOld(q) PROVE U(r)'
  <2>1. request[r].at \in {"close", "store"} /\ request'[r].db = request[r].db
    BY <1>7, CloseOldHandles
  <2>2. request[q].first # request[r].db
    BY <1>7, <1>a, <2>1, CloseOldHandles DEF Running
  <2> QED BY <1>7, <1>a, <2>1, <2>2, CloseOldHandles DEF Running
<1>8. ASSUME NEW q \in Requests, StoreFresh(q) PROVE U(r)'
  <2>1. q # r /\ request'[r] = request[r]
    BY <1>8, StoreFreshHandles
  <2>2. request[q].db # request[r].db
    BY <1>8, <1>a, <2>1, StoreFreshHandles DEF Running
  <2> QED BY <1>8, <1>a, <2>1, <2>2, StoreFreshHandles DEF Running
<1> QED BY HandleCases, <1>1, <1>2, <1>3, <1>4, <1>5, <1>6, <1>7, <1>8

\* No step leaves an instance without an open default connection, but a retry
\* that is about to replace it, or the disposal of the instance.
LEMMA ServingStep ==
    ASSUME TypeOK, Wired, Separate, Fresh, Serving, [Next]_vars
    PROVE  Serving'
<1> DEFINE V(b) == cache[b] # NoDB /\ (cache[b] \in closed => Swapping(b))
<1> SUFFICES ASSUME NEW b \in Builds, build'[b].at \in {"routes", "done"}, ~Disposing(b)'
             PROVE  V(b)'
  BY DEF Serving
<1>a. ASSUME build[b].at \in {"routes", "done"} PROVE V(b)
  BY <1>a, DisposingStays DEF Serving
<1>b. /\ \A e \in Builds : cache[e] \in opened \cup {NoDB}
      /\ NoDB \notin opened /\ closed \subseteq opened /\ opened \subseteq DB
  BY Known
<1>1. CASE Same
  <2>1. \A r \in Requests : request[r].at = "store" => request'[r] = request[r]
    BY <1>1 DEF Same, Quiet, Running
  <2> QED BY <1>1, <1>a, <2>1 DEF Same, Swapping
<1>2. ASSUME NEW e \in Builds, NewConnector(e) PROVE V(b)'
  <2>1. PICK d \in DB :
            /\ d \notin opened /\ cache'[e] = d
            /\ \A c \in Builds \ {e} : cache'[c] = cache[c] /\ build'[c] = build[c]
            /\ UNCHANGED <<closed, request>>
    BY <1>2, NewConnectorHandles
  <2>2. CASE b = e
    BY <1>b, <2>1, <2>2, LifecycleAssumption
  <2>3. CASE b # e
    BY <1>a, <2>1, <2>3 DEF Swapping
  <2> QED BY <2>2, <2>3
<1>3. ASSUME NEW e \in Builds, CloseAll(e) PROVE V(b)'
  <2>1. b # e
    BY <1>3, CloseAllHandles DEF Disposing
  <2>2. V(b)
    BY <1>3, <1>a, CloseAllHandles
  <2>3. cache[b] # cache[e]
    BY <2>1, <2>2 DEF Separate
  <2> QED BY <1>3, <2>2, <2>3, CloseAllHandles DEF Swapping
<1>4. ASSUME NEW e \in Builds, Clear(e) PROVE V(b)'
  <2>1. b # e
    BY <1>4, ClearHandles
  <2> QED BY <1>4, <1>a, <2>1, ClearHandles DEF Swapping
<1>5. ASSUME NEW q \in Requests, TakeConnection(q) PROVE V(b)'
  <2>1. \A r \in Requests : request[r].at = "store" => request'[r] = request[r]
    BY <1>5, TakeConnectionHandles
  <2>2. UNCHANGED <<cache, closed, build>>
    BY <1>5, TakeConnectionHandles
  <2> QED BY <1>a, <2>1, <2>2 DEF Swapping
<1>6. ASSUME NEW q \in Requests, Redial(q) PROVE V(b)'
  <2>1. \A r \in Requests : request[r].at = "store" => request'[r] = request[r]
    BY <1>6, RedialHandles
  <2>2. UNCHANGED <<cache, closed, build>>
    BY <1>6, RedialHandles
  <2> QED BY <1>a, <2>1, <2>2 DEF Swapping
<1>7. ASSUME NEW q \in Requests, CloseOld(q) PROVE V(b)'
  <2>1. V(b) /\ UNCHANGED cache
    BY <1>7, <1>a, CloseOldHandles
  <2>2. CASE cache[b] = request[q].first
    <3>1. request[q].build = b
      BY <1>7, <2>2, CloseOldHandles DEF Separate, Running
    <3> QED BY <1>7, <2>1, <2>2, <3>1, CloseOldHandles DEF Swapping
  <2>3. CASE cache[b] # request[q].first
    <3>1. \A r \in Requests : request[r].at = "store" => request'[r] = request[r]
      BY <1>7, CloseOldHandles
    <3> QED BY <1>7, <2>1, <2>3, <3>1, CloseOldHandles DEF Swapping
  <2> QED BY <2>2, <2>3
<1>8. ASSUME NEW q \in Requests, StoreFresh(q) PROVE V(b)'
  <2>1. CASE request[q].build = b
    <3>1. cache'[b] = request[q].db /\ UNCHANGED closed /\ request[q].at = "store"
      BY <1>8, <2>1, StoreFreshHandles
    <3>2. request[q].db \notin closed /\ request[q].db \in opened
      BY <3>1, Known DEF Fresh, Running
    <3> QED BY <1>b, <3>1, <3>2
  <2>2. CASE request[q].build # b
    BY <1>8, <1>a, <2>2, StoreFreshHandles DEF Swapping
  <2> QED BY <2>1, <2>2
<1> QED BY HandleCases, <1>1, <1>2, <1>3, <1>4, <1>5, <1>6, <1>7, <1>8

-----------------------------------------------------------------------------
(* The steps of the invariant: what is not lost *)

\* No step takes the handle of a request from the cache before the request has
\* replaced it, without leaving a reason.
LEMMA StillThereStep ==
    ASSUME TypeOK, Wired, StillThere, [Next]_vars
    PROVE  StillThere'
<1> DEFINE InWindow(r) ==
                /\ Running(r)
                /\ request[r].tries = 0
                   \/ (request[r].tries = 1 /\ request[r].at \in {"close", "store"})
           Rival(q, r) == /\ q # r /\ request[q].build = request[r].build /\ request[q].tries >= 1
                          /\ request[q].first = request[r].first
           There(r) ==
                \/ cache[request[r].build] = request[r].first
                \/ Disposing(request[r].build) \/ Excused(request[r].build)
                \/ request[r].tries = 0 /\ \E q \in Requests : Rival(q, r)
<1> SUFFICES ASSUME NEW r \in Requests, InWindow(r)' PROVE There(r)'
  BY DEF StillThere, Excused
<1>a. InWindow(r) => There(r)
  BY DEF StillThere, Excused
<1>b. /\ Running(r) => request[r].build \in Builds /\ build[request[r].build].at = "done"
      /\ request[r].tries \in Nat
  BY RequestFields, Known
<1>c. \A q \in Requests : request[q].tries >= 1 =>
        /\ request'[q].tries >= 1 /\ request'[q].build = request[q].build
        /\ request'[q].first = request[q].first
  BY TriesStay
<1>1. ASSUME NEW b \in Builds, b = request[r].build, request'[r].build = b,
             Disposing(b) \/ Excused(b)
      PROVE  There(r)'
  BY <1>1, DisposingStays, ExcusesStay
<1>2. ASSUME NEW q \in Requests, Rival(q, r), request'[r] = request[r] PROVE Rival(q, r)'
  BY <1>2, <1>c
<1>3. ASSUME request'[r] = request[r], cache'[request[r].build] = cache[request[r].build]
      PROVE  There(r)'
  <2>1. InWindow(r) /\ There(r)
    BY <1>3, <1>a DEF Running
  <2>2. PICK b \in Builds : b = request[r].build
    BY <1>b, <2>1
  <2>3. CASE cache[b] = request[r].first
    BY <1>3, <2>2, <2>3
  <2>4. CASE Disposing(b) \/ Excused(b)
    BY <1>1, <1>3, <2>2, <2>4
  <2>5. CASE request[r].tries = 0 /\ \E q \in Requests : Rival(q, r)
    BY <1>2, <1>3, <2>5
  <2> HIDE DEF There, Rival, InWindow
  <2> QED BY <2>1, <2>2, <2>3, <2>4, <2>5 DEF There
<1>4. CASE Same
  BY <1>3, <1>4 DEF Same, Quiet
<1>5. ASSUME NEW e \in Builds, NewConnector(e) PROVE There(r)'
  <2>1. request'[r] = request[r] /\ build[e].at = "dial"
    BY <1>5, NewConnectorHandles
  <2>2. request[r].build \in Builds \ {e}
    BY <1>b, <2>1 DEF Running
  <2>3. cache'[request[r].build] = cache[request[r].build]
    BY <1>5, <2>2, NewConnectorHandles
  <2> QED BY <1>3, <2>1, <2>3
<1>6. ASSUME NEW e \in Builds, CloseAll(e) PROVE There(r)'
  BY <1>3, <1>6, CloseAllHandles
<1>7. ASSUME NEW e \in Builds, Clear(e) PROVE There(r)'
  <2>1. request'[r] = request[r] /\ Disposing(e)
    BY <1>7, ClearHandles
  <2>2. request[r].build \in Builds
    BY <1>b, <2>1 DEF Running
  <2>3. CASE request[r].build = e
    BY <1>1, <2>1, <2>3
  <2>4. CASE request[r].build # e
    BY <1>3, <1>7, <2>1, <2>2, <2>4, ClearHandles
  <2> QED BY <2>3, <2>4
<1>8. ASSUME NEW q \in Requests, TakeConnection(q) PROVE There(r)'
  BY <1>3, <1>8, TakeConnectionHandles
<1>9. ASSUME NEW q \in Requests, Redial(q) PROVE There(r)'
  <2>1. CASE q # r
    BY <1>3, <1>9, <2>1, RedialHandles
  <2>2. CASE q = r
    <3>1. /\ request[r].at = "running" /\ request'[r].tries = request[r].tries + 1
          /\ request'[r].first = request[r].first /\ request'[r].build = request[r].build
          /\ UNCHANGED cache
      BY <1>9, <2>2, RedialHandles
    <3>2. request[r].tries = 0 /\ request'[r].tries = 1 /\ request[r].build \in Builds
      BY <1>b, <3>1 DEF Running
    <3>3. There(r)
      BY <1>a, <3>1, <3>2 DEF Running
    <3>4. CASE cache[request[r].build] = request[r].first
      BY <3>1, <3>4
    <3>5. CASE Disposing(request[r].build) \/ Excused(request[r].build)
      BY <1>1, <3>1, <3>2, <3>5
    <3>6. CASE \E p \in Requests : Rival(p, r)
      <4>1. PICK p \in Requests : Rival(p, r)
        BY <3>6
      <4>2. /\ p # r /\ request'[p].build = request'[r].build /\ request'[p].tries >= 1
            /\ request'[p].first = request'[r].first /\ request'[r].tries >= 1
        BY <1>c, <3>1, <3>2, <4>1
      <4>3. Excused(request[r].build)'
        BY <3>1, <4>2 DEF Excused, Collided
      <4> QED BY <3>1, <4>3 DEF Excused, Twice, Collided
    <3> QED BY <3>3, <3>4, <3>5, <3>6
  <2> QED BY <2>1, <2>2
<1>10. ASSUME NEW q \in Requests, CloseOld(q) PROVE There(r)'
  <2>1. CASE q # r
    BY <1>3, <1>10, <2>1, CloseOldHandles
  <2>2. CASE q = r
    <3>1. /\ request[r].at = "close" /\ request'[r].tries = request[r].tries
          /\ request'[r].first = request[r].first /\ request'[r].build = request[r].build
          /\ UNCHANGED cache
      BY <1>10, <2>2, CloseOldHandles
    <3>2. InWindow(r) /\ There(r) /\ request[r].build \in Builds /\ request[r].tries >= 1
      BY <1>a, <1>b, <3>1 DEF Running, Wired, RequestsWired
    <3>3. CASE Disposing(request[r].build) \/ Excused(request[r].build)
      BY <1>1, <3>1, <3>2, <3>3
    <3>4. CASE cache[request[r].build] = request[r].first
      BY <3>1, <3>4
    <3> QED BY <1>b, <3>2, <3>3, <3>4
  <2> QED BY <2>1, <2>2
<1>11. ASSUME NEW q \in Requests, StoreFresh(q) PROVE There(r)'
  <2>1. /\ request[q].build \in Builds /\ request[q].at = "store" /\ request[q].tries >= 1
        /\ request[q].tries \in Nat /\ request'[q].at = "running"
        /\ request'[q].tries = request[q].tries
    BY <1>11, StoreFreshHandles, RequestFields DEF Wired, RequestsWired
  <2>2. q # r /\ request'[r] = request[r]
    BY <1>11, <2>1, StoreFreshHandles
  <2>3. InWindow(r) /\ There(r) /\ request[r].build \in Builds
    BY <1>a, <1>b, <2>2 DEF Running
  <2>4. CASE request[q].build # request[r].build
    BY <1>3, <1>11, <2>2, <2>3, <2>4, StoreFreshHandles
  <2>5. CASE Disposing(request[r].build) \/ Excused(request[r].build)
    BY <1>1, <2>2, <2>3, <2>5
  <2>6. CASE request[q].build = request[r].build /\ cache[request[r].build] = request[r].first
             /\ ~Disposing(request[r].build) /\ ~Excused(request[r].build)
    <3>1. request[q].tries = 1
      BY <2>1, <2>6 DEF Excused, Twice
    <3>2. cache[request[q].build] = request[q].first
      BY <2>1, <2>6, <3>1 DEF StillThere, Running, Excused
    <3>3. Rival(q, r)
      BY <2>1, <2>2, <2>6, <3>2
    <3>4. request[r].tries = 0
      BY <2>3, <2>6, <3>3 DEF Excused, Collided
    <3> QED BY <1>2, <2>2, <3>3, <3>4
  <2>7. CASE request[r].tries = 0 /\ \E p \in Requests : Rival(p, r)
    BY <1>2, <2>2, <2>7
  <2> HIDE DEF Rival, InWindow
  <2> QED BY <2>3, <2>4, <2>5, <2>6, <2>7
<1> HIDE DEF There, InWindow, Rival
<1> QED BY HandleCases, <1>4, <1>5, <1>6, <1>7, <1>8, <1>9, <1>10, <1>11

\* No step leaves something cached open while an instance is disposed of, but a
\* request that stores too late.
LEMMA LateStoreStep ==
    ASSUME TypeOK, Wired, LateStore, [Next]_vars
    PROVE  LateStore'
<1> SUFFICES ASSUME NEW b \in Builds, Disposing(b)', cache'[b] \in opened' \ closed'
             PROVE  Late(b, cache[b])' \/ Excused(b)'
  BY DEF LateStore, Excused
<1>b. /\ cache[b] \in opened \cup {NoDB} /\ NoDB \notin opened /\ opened' \subseteq DB
      /\ closed \subseteq opened
  BY Known, TypeStep DEF TypeOK
<1>1. ASSUME Disposing(b), cache'[b] = cache[b], cache[b] \notin closed
      PROVE  Late(b, cache[b])' \/ Excused(b)'
  <2>1. cache[b] \in opened \ closed
    BY <1>1, <1>b, LifecycleAssumption
  <2>2. Late(b, cache[b]) \/ Excused(b)
    BY <1>1, <2>1 DEF LateStore, Excused
  <2>3. PICK d : d = cache[b]
    OBVIOUS
  <2>4. CASE Late(b, cache[b])
    BY <1>1, <2>3, <2>4, LateStays DEF Late
  <2>5. CASE Excused(b)
    BY <2>5, ExcusesStay
  <2> QED BY <2>2, <2>4, <2>5
<1>2. CASE Same
  <2>1. Disposing(b) /\ cache'[b] = cache[b] /\ cache[b] \notin closed
    BY <1>2 DEF Same, Disposing
  <2> QED BY <1>1, <2>1
<1>3. ASSUME NEW e \in Builds, NewConnector(e) PROVE Late(b, cache[b])' \/ Excused(b)'
  <2>1. build[e].at = "dial" /\ UNCHANGED <<clearing, disposed, closed>>
    BY <1>3, NewConnectorHandles
  <2>2. Disposing(b) /\ b # e
    BY <2>1 DEF Disposing, Wired, InstancesWired
  <2>3. cache'[b] = cache[b] /\ cache[b] \notin closed
    BY <1>3, <2>1, <2>2, NewConnectorHandles
  <2> QED BY <1>1, <2>2, <2>3
<1>4. ASSUME NEW e \in Builds, CloseAll(e) PROVE Late(b, cache[b])' \/ Excused(b)'
  <2>1. b # e
    BY <1>4, <1>b, CloseAllHandles, LifecycleAssumption
  <2>2. Disposing(b) /\ cache'[b] = cache[b] /\ cache[b] \notin closed
    BY <1>4, <2>1, CloseAllHandles DEF Disposing
  <2> QED BY <1>1, <2>2
<1>5. ASSUME NEW e \in Builds, Clear(e) PROVE Late(b, cache[b])' \/ Excused(b)'
  <2>1. b # e
    BY <1>5, <1>b, ClearHandles, LifecycleAssumption
  <2>2. Disposing(b) /\ cache'[b] = cache[b] /\ cache[b] \notin closed
    BY <1>5, <2>1, ClearHandles
  <2> QED BY <1>1, <2>2
<1>6. ASSUME NEW q \in Requests, TakeConnection(q) \/ Redial(q) \/ CloseOld(q)
      PROVE  Late(b, cache[b])' \/ Excused(b)'
  <2>1. UNCHANGED <<cache, clearing, disposed>> /\ closed \subseteq closed'
    BY <1>6, TakeConnectionHandles, RedialHandles, CloseOldHandles
  <2>2. Disposing(b) /\ cache'[b] = cache[b] /\ cache[b] \notin closed
    BY <2>1 DEF Disposing
  <2> QED BY <1>1, <2>2
<1>7. ASSUME NEW q \in Requests, StoreFresh(q) PROVE Late(b, cache[b])' \/ Excused(b)'
  <2>1. CASE request[q].build = b
    <3>1. /\ cache'[b] = request'[q].db /\ request'[q].build = b
          /\ request'[q].tries = request[q].tries /\ request[q].at = "store"
      BY <1>7, <2>1, StoreFreshHandles
    <3>2. request[q].tries >= 1
      BY <3>1 DEF Wired, RequestsWired
    <3> QED BY <3>1, <3>2 DEF Late
  <2>2. CASE request[q].build # b
    <3>1. Disposing(b) /\ cache'[b] = cache[b] /\ cache[b] \notin closed
      BY <1>7, <2>2, StoreFreshHandles DEF Disposing
    <3> QED BY <1>1, <3>1
  <2> QED BY <2>1, <2>2
<1> QED BY HandleCases, <1>2, <1>3, <1>4, <1>5, <1>6, <1>7

\* What accounts for a handle is a construction that has begun.
LEMMA AccountsSettled ==
    ASSUME TypeOK, Wired, NEW b \in Builds, NEW d \in opened, AccountedBy(b, d)
    PROVE  build[b].at # "idle"
<1>1. ASSUME NEW r \in Requests, request[r].build = b, request[r].tries >= 1
      PROVE  build[b].at # "idle"
  BY <1>1 DEF Wired, RequestsWired, Running
<1>2. CASE cache[b] = d
  BY <1>2, LifecycleAssumption DEF Wired, BuildsWired, TypeOK
<1>3. CASE Held(d, b)
  BY <1>1, <1>3 DEF Held, Wired, RequestsWired
<1>4. CASE Late(b, d) \/ Collided(b)
  BY <1>1, <1>4 DEF Late, Collided
<1>5. CASE Twice(b)
  <2>1. PICK r \in Requests : request[r].build = b /\ request[r].tries >= 2
    BY <1>5 DEF Twice
  <2> QED BY <1>1, <2>1, RequestFields
<1> QED BY <1>2, <1>3, <1>4, <1>5 DEF AccountedBy

\* No step loses an open handle without a reason.
LEMMA AccountedStep ==
    ASSUME TypeOK, Wired, StillThere, LateStore, Accounted, [Next]_vars
    PROVE  Accounted'
<1> DEFINE G(b, d) == cache[b] = d \/ Held(d, b) \/ Late(b, d) \/ Excused(b)
<1>0. BuildsSettled /\ HandlesSettled /\ closed \subseteq closed'
  <2>1. closed \subseteq closed'
    BY NextCases
       DEF Save, Construct, NewConnector, NewConnectorFails, RegisterRoutes, RegisterRoutesFails,
           CloseAll, Clear, Arrive, TakeConnection, Redial, CloseOld, StoreFresh, Intercept,
           CallResource, manager, handles, vars
  <2> QED BY <2>1, Settled
<1> SUFFICES ASSUME NEW d \in opened' \ closed'
             PROVE  \E b \in Builds : settingsOf'[d] = SettingsOfBuild(b)' /\ G(b, d)'
  BY DEF Accounted, AccountedBy, Excused
<1>1. CASE d \in opened
  <2>1. PICK b \in Builds : settingsOf[d] = SettingsOfBuild(b) /\ G(b, d) /\ AccountedBy(b, d)
    BY <1>0, <1>1 DEF Accounted, AccountedBy, Excused
  <2>2. settingsOf'[d] = SettingsOfBuild(b)'
    BY <1>0, <1>1, <2>1, AccountsSettled DEF BuildsSettled, HandlesSettled
  <2>3. d \in opened \ closed /\ d # NoDB
    BY <1>0, <1>1, LifecycleAssumption DEF TypeOK
  <2>4. ASSUME Late(b, d) \/ Excused(b) PROVE G(b, d)'
    BY <2>4, LateStays, ExcusesStay
  <2>5. ASSUME Held(d, b) PROVE G(b, d)'
    <3>1. PICK r \in Requests :
            request[r].at \in {"close", "store"} /\ request[r].build = b /\ request[r].db = d
      BY <2>5 DEF Held
    <3>2. ASSUME request'[r] = request[r] PROVE Held(d, b)'
      BY <3>1, <3>2 DEF Held
    <3>3. ASSUME NEW q \in Requests, CloseOld(q) PROVE Held(d, b)'
      BY <3>1, <3>2, <3>3, CloseOldHandles DEF Held
    <3>4. ASSUME NEW q \in Requests, StoreFresh(q) PROVE Held(d, b)' \/ cache'[b] = d
      BY <3>1, <3>2, <3>4, StoreFreshHandles
    <3>5. ASSUME NEW q \in Requests, Redial(q) \/ TakeConnection(q) PROVE Held(d, b)'
      BY <3>1, <3>2, <3>5, RedialHandles, TakeConnectionHandles
    <3>6. ASSUME Same \/ UNCHANGED request PROVE Held(d, b)'
      BY <3>1, <3>2, <3>6 DEF Same, Quiet, Running
    <3> QED BY HandleCases, <3>3, <3>4, <3>5, <3>6 DEF NewConnector, CloseAll, Clear
  <2>6. ASSUME cache[b] = d PROVE G(b, d)'
    <3>1. CASE cache'[b] = cache[b]
      BY <2>6, <3>1
    <3>2. ASSUME Disposing(b) PROVE G(b, d)'
      BY <2>3, <2>4, <2>6, <3>2 DEF LateStore, Excused
    <3>3. ASSUME NEW e \in Builds, NewConnector(e) PROVE G(b, d)'
      BY <2>3, <2>6, <3>1, <3>3, NewConnectorHandles
    <3>4. ASSUME NEW e \in Builds, Clear(e) PROVE G(b, d)'
      BY <3>1, <3>2, <3>4, ClearHandles
    <3>5. ASSUME NEW q \in Requests, StoreFresh(q) PROVE G(b, d)'
      <4>1. CASE request[q].build # b
        BY <3>1, <3>5, <4>1, StoreFreshHandles
      <4>2. CASE request[q].build = b
        <5>1. /\ request[q].at = "store" /\ request[q].tries \in Nat
              /\ request[q].tries >= 1 /\ request[q].first \in closed
          BY <3>5, StoreFreshHandles, RequestFields DEF Wired, RequestsWired
        <5>2. CASE request[q].tries # 1
          <6>1. Excused(b)
            BY <4>2, <5>1, <5>2 DEF Excused, Twice
          <6> QED BY <2>4, <6>1
        <5>3. CASE request[q].tries = 1
          <6>1. cache[b] = request[q].first \/ Disposing(b) \/ Excused(b)
            BY <4>2, <5>1, <5>3 DEF StillThere, Running, Excused
          <6>2. cache[b] # request[q].first
            BY <2>3, <2>6, <5>1
          <6> QED BY <2>4, <3>2, <6>1, <6>2
        <5> QED BY <5>2, <5>3
      <4> QED BY <4>1, <4>2
    <3>6. ASSUME Same \/ UNCHANGED cache PROVE G(b, d)'
      BY <3>1, <3>6 DEF Same
    <3> HIDE DEF G
    <3> QED BY HandleCases, <3>3, <3>4, <3>5, <3>6 DEF CloseAll, TakeConnection, Redial, CloseOld,
                                                       handles
  <2> QED BY <2>1, <2>2, <2>4, <2>5, <2>6
<1>2. CASE d \notin opened
  <2>1. ASSUME NEW e \in Builds, NewConnector(e)
        PROVE  \E b \in Builds : settingsOf'[d] = SettingsOfBuild(b)' /\ G(b, d)'
    BY <1>2, <2>1, NewConnectorHandles
  <2>2. ASSUME NEW q \in Requests, Redial(q)
        PROVE  \E b \in Builds : settingsOf'[d] = SettingsOfBuild(b)' /\ G(b, d)'
    <3>1. /\ settingsOf'[d] = SettingsOfBuild(request[q].build)
          /\ request'[q].at = "close" /\ request'[q].db = d
          /\ request'[q].build = request[q].build /\ request[q].at = "running" /\ UNCHANGED build
      BY <1>2, <2>2, RedialHandles
    <3>2. PICK b \in Builds : b = request[q].build
      BY <3>1, Known DEF Running
    <3>3. Held(d, b)' /\ settingsOf'[d] = SettingsOfBuild(b)'
      BY <3>1, <3>2 DEF Held, SettingsOfBuild, Settings
    <3> QED BY <3>3
  <2>3. ASSUME UNCHANGED opened PROVE FALSE
    BY <1>2, <2>3
  <2> QED BY HandleCases, <2>1, <2>2, <2>3
          DEF Same, CloseAll, Clear, TakeConnection, CloseOld, StoreFresh, handles
<1> QED BY <1>1, <1>2

-----------------------------------------------------------------------------
(* Completion *)

\* With the routes registered, a request for completion goes to a default
\* route, for a custom route for every method that matches it is one for every
\* path, and less specific.
LEMMA DefaultAnswers ==
    ASSUME custom \in CustomRoutes, "registered" \in Registrations(custom),
           NEW q \in HTTPRequests, q.path \in CompletionPaths,
           NEW completable, NEW body, NEW err,
           \A p \in custom : q \in Matched(p) => p.method = AnyMethod
    PROVE  Serve(custom, q, completable, body, err).by = "default"
<1> DEFINE matching == {p \in Registered(custom) : q \in Matched(p)}
           chosen   == CHOOSE p \in matching : \A o \in matching : Matched(p) \subseteq Matched(o)
           default  == Route(AnyMethod, q.path)
           elsewhere == [method |-> "GET", path |-> "/other"]
<1>1. custom \cap DefaultRoutes = {}
  BY DEF Registrations
<1>2. default \in DefaultRoutes
  BY DEF DefaultRoutes
<1>3. q \in Matched(default)
  BY DEF Matched, Route
<1>4. default \in matching
  BY <1>2, <1>3 DEF Registered
<1>5. elsewhere \in HTTPRequests /\ elsewhere \notin Matched(default)
  <2>1. elsewhere \in HTTPRequests
    BY DEF HTTPRequests
  <2>2. default.path = q.path
    BY DEF Route
  <2>3. q.path # AnyPath /\ q.path # "/other"
    BY DEF CompletionPaths, AnyPath
  <2>4. elsewhere.path = "/other"
    OBVIOUS
  <2> QED BY <2>1, <2>2, <2>3, <2>4 DEF Matched
<1>6. ASSUME NEW p \in custom, q \in Matched(p)
      PROVE  Matched(p) = HTTPRequests
  <2>1. p \in [method : STRING, path : STRING] /\ p.method = AnyMethod
    BY <1>6, LifecycleAssumption
  <2>2. p.path = AnyPath \/ p.path = q.path
    BY <1>6 DEF Matched
  <2>3. p.path = q.path => p = default
    BY <2>1 DEF Route
  <2>4. p.path = AnyPath
    BY <1>1, <1>2, <2>2, <2>3
  <2> QED BY <2>1, <2>4 DEF Matched
<1>7. ASSUME NEW p \in DefaultRoutes, q \in Matched(p) PROVE p = default
  <2>1. PICK x \in CompletionPaths : p = Route(AnyMethod, x)
    BY DEF DefaultRoutes
  <2>2. p.path = x /\ x # AnyPath
    BY <2>1 DEF Route, CompletionPaths, AnyPath
  <2>3. p.path \in {AnyPath, q.path}
    BY <1>7 DEF Matched
  <2> QED BY <2>1, <2>2, <2>3
<1>8. Matched(default) \subseteq HTTPRequests
  BY DEF Matched
<1>9. \A o \in matching : Matched(default) \subseteq Matched(o)
  BY <1>6, <1>7, <1>8 DEF Registered
<1>10. chosen \in matching /\ \A o \in matching : Matched(chosen) \subseteq Matched(o)
  BY <1>4, <1>9
<1>11. chosen \notin custom
  BY <1>4, <1>5, <1>6, <1>10
<1>12. matching # {}
  BY <1>4
<1> HIDE DEF matching, chosen
<1>13. Serve(custom, q, completable, body, err) = Completion(completable, body, err)
  BY <1>11, <1>12, Zenon DEF Serve, matching, chosen
<1> QED BY <1>13 DEF Completion, Reply


\* No instance gets to answer with other routes than those registered.
LEMMA RoutesStep ==
    ASSUME TypeOK, Wired, RoutesRegistered, CompletionIsServed, [Next]_vars
    PROVE  RoutesRegistered' /\ CompletionIsServed'
<1> USE DEF routes, manager, handles
<1>0. UNCHANGED <<custom, middleware>>
  BY NextCases
     DEF vars, Save, Construct, NewConnector, NewConnectorFails, RegisterRoutes,
         RegisterRoutesFails, CloseAll, Clear, Arrive, TakeConnection, Redial, CloseOld,
         StoreFresh, Intercept, CallResource
<1>1. RoutesRegistered'
  <2>1. ASSUME NEW b \in Builds, build'[b].at = "done"
        PROVE  "registered" \in Registrations(custom)
    <3>1. ASSUME NEW c \in Builds, NEW s \in Sources, Construct(c, s)
          PROVE  build[b].at = "done"
      BY <2>1, <3>1, ConstructEffect DEF OtherBuilds
    <3>2. ASSUME NEW c \in Builds, NewConnector(c) PROVE build[b].at = "done"
      BY <2>1, <3>2, NewConnectorEffect DEF OtherBuilds
    <3>3. ASSUME NEW c \in Builds, NewConnectorFails(c) \/ RegisterRoutesFails(c)
          PROVE  build[b].at = "done"
      BY <2>1, <3>3, BuildMovesOn DEF NewConnectorFails, RegisterRoutesFails, OtherBuilds
    <3>4. ASSUME NEW c \in Builds, RegisterRoutes(c)
          PROVE  "registered" \in Registrations(custom)
      BY <3>4 DEF RegisterRoutes
    <3> QED BY <2>1, NextCases, <3>1, <3>2, <3>3, <3>4
            DEF RoutesRegistered, Save, CloseAll, Clear, Arrive, TakeConnection, Redial, CloseOld,
                StoreFresh, Intercept, CallResource, vars
  <2> QED BY <1>0, <2>1 DEF RoutesRegistered
<1>2. CompletionIsServed'
  <2> DEFINE Served(r) ==
        LET q == request[r].ask IN
        request[r].at = "done" /\ q # Query /\ q.path \in CompletionPaths =>
            \/ request[r].reply.by = "default"
            \/ middleware /\ request[r].reply.by = "middleware"
            \/ \E p \in custom : p.method # AnyMethod /\ q \in Matched(p)
  <2> SUFFICES ASSUME NEW r \in Requests PROVE Served(r)'
    BY DEF CompletionIsServed
  <2>1. CASE request'[r] = request[r]
    BY <1>0, <2>1 DEF CompletionIsServed
  <2>2. CASE request'[r].at # "done" \/ request'[r].ask = Query
    BY <2>2
  <2>3. ASSUME Intercept(r) \/ CallResource(r) PROVE Served(r)'
    <3>1. /\ request[r].at = "begun" /\ request[r].ask # Query
          /\ request'[r].ask = request[r].ask
          /\ \/ middleware /\ request'[r].reply.by = "middleware"
             \/ \E completable, err \in BOOLEAN, body \in Bodies :
                   request'[r].reply = Serve(custom, request[r].ask, completable, body, err)
      BY <2>3, AnswerEffect
    <3>2. /\ "registered" \in Registrations(custom) /\ custom \in CustomRoutes
          /\ request[r].ask \in HTTPRequests
      BY <3>1, Connected, RequestFields DEF RoutesRegistered, TypeOK
    <3>3. CASE middleware /\ request'[r].reply.by = "middleware"
      BY <1>0, <3>3
    <3>4. CASE \E completable, err \in BOOLEAN, body \in Bodies :
                   request'[r].reply = Serve(custom, request[r].ask, completable, body, err)
      BY <1>0, <3>1, <3>2, <3>4, DefaultAnswers
    <3> HIDE DEF Served
    <3> QED BY <3>1, <3>3, <3>4
  <2>4. ASSUME NEW q \in Requests, OtherRequests(q), q # r PROVE Served(r)'
    BY <2>1, <2>4 DEF OtherRequests
  <2>5. ASSUME NEW q \in Requests, Intercept(q) \/ CallResource(q) PROVE Served(r)'
    BY <2>3, <2>4, <2>5, AnswerEffect
  <2>6. ASSUME NEW q \in Requests, NEW s \in Sources, NEW ask \in HTTPAsks \cup {Query},
               Arrive(q, s, ask)
        PROVE  Served(r)'
    BY <2>2, <2>4, <2>6, ArriveEffect
  <2>7. ASSUME NEW q \in Requests, TakeConnection(q) PROVE Served(r)'
    BY <2>2, <2>4, <2>7, TakeConnectionEffect
  <2>8. ASSUME NEW q \in Requests, Redial(q) PROVE Served(r)'
    BY <2>2, <2>4, <2>8, RedialEffect
  <2>9. ASSUME NEW q \in Requests, CloseOld(q) \/ StoreFresh(q) PROVE Served(r)'
    BY <2>2, <2>4, <2>9, RequestMoves DEF CloseOld, StoreFresh
  <2> HIDE DEF Served
  <2> QED BY NextCases, <2>1, <2>5, <2>6, <2>7, <2>8, <2>9
          DEF Save, Construct, NewConnector, NewConnectorFails, RegisterRoutesFails,
              RegisterRoutes, CloseAll, Clear, vars
<1> QED BY <1>1, <1>2

-----------------------------------------------------------------------------
(* The inductive invariant, and what follows from it *)

IInv ==
    /\ TypeOK /\ Wired /\ Dated
    /\ Separate /\ Fresh /\ Serving
    /\ StillThere /\ LateStore /\ Accounted
    /\ RoutesRegistered /\ CompletionIsServed

\* The invariant holds initially.
LEMMA InitIInv == ASSUME Init PROVE IInv
<1>1. TypeOK /\ Wired
  BY InitTypes
<1>2. /\ \A b \in Builds : build[b].at = "idle" /\ cache[b] = NoDB
      /\ \A r \in Requests : request[r].at = "idle"
      /\ opened = {} /\ retired = {} /\ clearing = {} /\ disposed = {}
  BY DEF Init
<1>3. Dated /\ Serving
  BY <1>2 DEF Dated, Serving, UnderWay
<1>4. Separate /\ Fresh /\ StillThere
  BY <1>2 DEF Separate, Fresh, StillThere, Running
<1>5. LateStore /\ Accounted
  BY <1>2 DEF LateStore, Disposing, Accounted
<1>6. RoutesRegistered /\ CompletionIsServed
  BY <1>2 DEF RoutesRegistered, CompletionIsServed
<1> QED BY <1>1, <1>3, <1>4, <1>5, <1>6 DEF IInv

\* No step breaks the invariant.
LEMMA StepIInv == ASSUME IInv, [Next]_vars PROVE IInv'
  BY TypeStep, WiredStep, DatedStep, SeparateStep, FreshStep, ServingStep, StillThereStep,
     LateStoreStep, AccountedStep, RoutesStep
     DEF IInv

\* For every number of data sources, constructions, requests and retries, the
\* state of the manager, of the instances and of the requests is as the parts
\* of the invariant say.
THEOREM Invariance == Spec => []IInv
<1>1. Init => IInv
  BY InitIInv
<1>2. IInv /\ [Next]_vars => IInv'
  BY StepIInv
<1> QED BY <1>1, <1>2, PTL DEF Spec

\* Settings do not leak from one instance to another: a query runs on a
\* connection opened with the settings it was given its instance for.
THEOREM OwnSettings == Spec => []ServedByItsSettings
<1>1. IInv => ServedByItsSettings
  BY DEF IInv, Wired, RequestsWired, ServedByItsSettings
<1> QED BY <1>1, Invariance, PTL

\* Disposing of an instance never takes the connection of the one that
\* replaced it: that one has an open connection, or a retry about to store one.
THEOREM SuccessorIsSpared == Spec => []CurrentIsServing
<1>1. ASSUME IInv PROVE CurrentIsServing
  <2> SUFFICES ASSUME NEW s \in Sources, UpToDate(s)
               PROVE  /\ cache[instance[s]] \in opened
                      /\ cache[instance[s]] \in closed => Swapping(instance[s])
    BY DEF CurrentIsServing
  <2> USE <1>1 DEF IInv
  <2>1. PICK b \in Builds : b = instance[s]
    BY DEF UpToDate, TypeOK
  <2>2. build[b].at = "done" /\ build[b].source = s /\ build[b].version = version[s]
    BY <2>1, LifecycleAssumption DEF UpToDate, Wired, InstancesWired
  <2>3. ~Disposing(b)
    BY <2>2, BuildFields DEF Dated, Disposing
  <2>4. cache[b] # NoDB /\ (cache[b] \in closed => Swapping(b))
    BY <2>2, <2>3 DEF Serving
  <2>5. cache[b] \in opened
    BY <2>4, Known
  <2> QED BY <2>1, <2>4, <2>5
<1> QED BY <1>1, Invariance, PTL

\* Whatever is open and out of reach of every later Dispose got there in one
\* of the four ways OrphanHasReason names.
THEOREM OrphansAreExplained == Spec => []OrphanHasReason
<1>1. ASSUME IInv PROVE OrphanHasReason
  <2> SUFFICES ASSUME NEW d \in Orphans
               PROVE  \E b \in Builds :
                        /\ SettingsOfBuild(b) = settingsOf[d]
                        /\ \/ build[b].at = "failed" /\ build[b].db = d
                           \/ Late(b, d) \/ Twice(b) \/ Collided(b)
    BY DEF OrphanHasReason
  <2> USE <1>1 DEF IInv
  <2>1. PICK b \in Builds : AccountedBy(b, d) /\ d \in opened \ closed /\ ~Held(d, b)
    BY DEF Orphans, Accounted
  <2>2. CASE cache[b] = d
    <3>1. b \notin retired /\ ~UnderWay(b) /\ \A s \in Sources : instance[s] # b
      BY <2>2 DEF Orphans
    <3>2. Opened(b) /\ build[b].source \in Sources
      BY <2>1, <2>2, Known, BuildFields DEF Wired, BuildsWired
    <3>3. build[b].at \in {"done", "failed"}
      BY <3>1, <3>2, BuildFields DEF Wired, BuildsWired, UnderWay
    <3>4. CASE build[b].at = "failed"
      <4>1. build[b].db = d
        BY <2>2, <3>4 DEF Wired, BuildsWired
      <4> QED BY <2>1, <3>4, <4>1 DEF AccountedBy
    <3>5. CASE build[b].at = "done"
      <4>1. Disposing(b)
        BY <3>1, <3>2, <3>5 DEF Dated, Disposing
      <4>2. Late(b, d) \/ Twice(b) \/ Collided(b)
        BY <2>1, <2>2, <4>1 DEF LateStore
      <4> QED BY <2>1, <4>2 DEF AccountedBy
    <3> QED BY <3>3, <3>4, <3>5
  <2>3. CASE cache[b] # d
    BY <2>1, <2>3 DEF AccountedBy
  <2> QED BY <2>2, <2>3
<1> QED BY <1>1, Invariance, PTL

\* A request for completion is answered by a default route or by the
\* middleware, unless a custom route names its method.
THEOREM CompletionRoutes == Spec => []CompletionIsServed
<1>1. IInv => CompletionIsServed
  BY DEF IInv
<1> QED BY <1>1, Invariance, PTL

=============================================================================
