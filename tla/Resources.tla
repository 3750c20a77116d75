------------------------------ MODULE Resources ------------------------------
(***************************************************************************)
(* The resource routes of an instance: registerRoutes and getResources of  *)
(* completion.go over http.ServeMux, which is external.                    *)
(*                                                                         *)
(* A route, like a request, is a method and a path; a route may leave      *)
(* either open.  These are the calls that reach the mux: a middleware may  *)
(* answer them before that (Intercept of module Lifecycle).                *)
(***************************************************************************)
Route(method, path) == [method |-> method, path |-> path]
AnyMethod == "any"
AnyPath == "/{name}"

CompletionPaths == {"/tables", "/schemas", "/columns"}
HTTPRequests == [method : {"GET", "POST"}, path : CompletionPaths \cup {"/other"}]

DefaultRoutes == {Route(AnyMethod, p) : p \in CompletionPaths}

Matched(route) ==
    {q \in HTTPRequests : /\ route.method \in {AnyMethod, q.method}
                          /\ route.path \in {AnyPath, q.path}}

\* ServeMux panics on two routes of which neither is more specific, and
\* prefers the more specific of those that match.
Conflict(p, q) ==
    /\ Matched(p) \cap Matched(q) # {}
    /\ ~(Matched(p) \subseteq Matched(q)) /\ ~(Matched(q) \subseteq Matched(p))

\* Mutant of Registered: a custom route replaces the default routes it covers.
RegisteredCustomFirst(custom) ==
    custom \cup {d \in DefaultRoutes : \A c \in custom : ~(Matched(d) \subseteq Matched(c))}

Registered(custom) == DefaultRoutes \cup custom

\* The order in which registerRoutes ranges over the custom routes decides
\* whether one that is a default route or one in conflict comes first.
Registrations(custom) ==
    LET refused  == custom \cap DefaultRoutes # {}
        conflict == \E p, q \in Registered(custom) : Conflict(p, q)
    IN  (IF refused THEN {"refused"} ELSE {}) \cup (IF conflict THEN {"panic"} ELSE {})
        \cup (IF refused \/ conflict THEN {} ELSE {"registered"})

\* Who answers q, and how: the handler of a default route needs the driver to
\* be Completable, a JSON body, and the Completable to return no error.  A
\* body is never nil here: the SDK's adapter makes an empty one of it, which
\* is no JSON.
Bodies == {"empty", "bad", "options"}

Reply(by, status) == [by |-> by, status |-> status]

Completion(completable, body, err) ==
    Reply("default", IF completable /\ body = "options" /\ ~err THEN 200 ELSE 400)

Serve(custom, q, completable, body, err) ==
    LET matching == {p \in Registered(custom) : q \in Matched(p)}
        chosen   == CHOOSE p \in matching : \A o \in matching : Matched(p) \subseteq Matched(o)
    IN  CASE matching = {} -> Reply("mux", 404)
          [] matching # {} /\ chosen \in custom -> Reply("custom", 200)
          [] OTHER -> Completion(completable, body, err)

=============================================================================
