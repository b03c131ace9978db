------------------------------ MODULE ApiRoutes ------------------------------
(***************************************************************************)
(* The routes of the API, one table per group of methods of a controller,  *)
(* in the order in which they are registered: modules in the order of      *)
(* app.module, methods in the order of their class.  A request goes to the *)
(* first route of its verb whose path matches, whatever comes after it.    *)
(***************************************************************************)
EXTENDS Naturals, Sequences

\* What matches any segment ("*" stands for the rest of the path, one here).
Params == {":id", ":sessionId", ":roleId", ":code", ":requestId", "*"}

\* auth: who may call; needs: the permission asked for, if any;
\* logged: FALSE under @DisableDatabaseLog; perMinute: @Throttle's limit, 0
\* without one; skips: under @SkipThrottle.
Route(verb, path, auth) ==
  [verb |-> verb, path |-> path, auth |-> auth, needs |-> <<>>,
   logged |-> TRUE, perMinute |-> 0, skips |-> FALSE]

Needs(resource, action, verb, path) ==
  [Route(verb, path, "permission") EXCEPT !.needs = <<resource, action>>]

Quiet(r) == [r EXCEPT !.logged = FALSE]
AtMost(n, r) == [r EXCEPT !.perMinute = n]
Skipping(r) == [r EXCEPT !.skips = TRUE]

-----------------------------------------------------------------------------
RegisterAndLogin ==
  <<Route("POST", <<"auth", "register">>, "open"),
    AtMost(5, Quiet(Route("POST", <<"auth", "login">>, "local")))>>
TokenRoutes ==
  <<AtMost(10, Quiet(Route("POST", <<"auth", "refresh">>, "open"))),
    Route("POST", <<"auth", "logout">>, "jwt"),
    Route("POST", <<"auth", "me">>, "jwt")>>

UserCollection ==
  <<Needs("user", "create", "POST", <<"users">>),
    Needs("user", "list", "GET", <<"users">>),
    Needs("user", "statistics", "GET", <<"users", "statistics">>),
    Needs("user", "session_list", "GET", <<"users", ":id", "sessions">>),
    Needs("user", "read", "GET", <<"users", ":id">>)>>
UserRows ==
  <<Needs("user", "session_revoke", "DELETE",
          <<"users", ":id", "sessions", ":sessionId">>),
    Needs("user", "update", "PATCH", <<"users", ":id">>),
    Needs("user", "delete", "DELETE", <<"users", ":id">>),
    Needs("user", "update", "PATCH", <<"users", ":id", "status">>),
    Needs("user", "update", "PATCH", <<"users", ":id", "verify">>)>>
UserGrantRoutes ==
  <<Quiet(Needs("user", "reset_password", "POST", <<"users", ":id", "reset-password">>)),
    Needs("user", "assign_role", "POST", <<"users", ":id", "roles">>),
    Needs("user", "assign_role", "DELETE", <<"users", ":id", "roles", ":roleId">>),
    Needs("user", "assign_role", "GET", <<"users", ":id", "roles">>),
    Needs("user", "delete", "POST", <<"users", "batch-delete">>)>>
ProfileRoutes ==
  <<Route("GET", <<"users", "profile", "me">>, "jwt"),
    Route("PATCH", <<"users", "profile", "me">>, "jwt"),
    Quiet(Route("POST", <<"users", "profile", "change-password">>, "jwt")),
    Route("GET", <<"users", "profile", "sessions">>, "jwt"),
    Route("POST", <<"users", "profile", "logout-other-sessions">>, "jwt")>>

RoleCollection ==
  <<Needs("role", "create", "POST", <<"roles">>),
    Needs("role", "list", "GET", <<"roles">>),
    Needs("role", "list", "GET", <<"roles", "paginated">>),
    Needs("role", "read", "GET", <<"roles", ":id">>),
    Needs("role", "read", "GET", <<"roles", "code", ":code">>)>>
RoleRows ==
  <<Needs("role", "update", "PATCH", <<"roles", ":id">>),
    Needs("role", "update", "PATCH", <<"roles", ":id", "status">>),
    Needs("role", "assign_permissions", "POST", <<"roles", ":id", "permissions">>),
    Needs("role", "list", "GET", <<"roles", ":id", "permissions">>)>>
RoleEnds ==
  <<Needs("role", "statistics", "GET", <<"roles", "statistics", "overview">>),
    Needs("role", "delete", "DELETE", <<"roles", ":id">>),
    Needs("role", "delete", "POST", <<"roles", "batch-delete">>),
    Needs("role", "list", "GET", <<"roles", "active", "codes">>)>>

PermissionCollection ==
  <<Needs("permission", "create", "POST", <<"permissions">>),
    Needs("permission", "read", "GET", <<"permissions">>),
    Needs("permission", "list", "GET", <<"permissions", "paginated">>),
    Needs("permission", "read", "GET", <<"permissions", ":id">>)>>
PermissionRows ==
  <<Needs("permission", "update", "PATCH", <<"permissions", ":id">>),
    Needs("permission", "update", "PATCH", <<"permissions", ":id", "status">>),
    Needs("permission", "delete", "DELETE", <<"permissions", ":id">>),
    Needs("permission", "statistics", "GET", <<"permissions", "stats", "overview">>),
    Needs("permission", "delete", "POST", <<"permissions", "batch-delete">>)>>

PublicRoutes == <<Skipping(Route("GET", <<"api">>, "open"))>>
HealthRoutes ==
  <<Skipping(Quiet(Route("GET", <<"health">>, "open"))),
    Skipping(Quiet(Route("GET", <<"health", "liveness">>, "open"))),
    Skipping(Quiet(Route("GET", <<"health", "readiness">>, "open")))>>

LogListings ==
  <<Needs("logs", "api_list", "GET", <<"logs", "api">>),
    Needs("logs", "api_read", "GET", <<"logs", "api", ":requestId">>)>>
LogTables ==
  <<Needs("logs", "error_list", "GET", <<"logs", "errors">>),
    Needs("logs", "audit_list", "GET", <<"logs", "audit">>),
    Needs("logs", "statistics", "GET", <<"logs", "statistics">>)>>

\* @Roles('admin') on the class.
Admin(verb, rest) == Route(verb, <<"mock-endpoints">> \o rest, "admin")
MockRoutes ==
  <<Admin("POST", <<>>), Admin("GET", <<>>),
    Admin("GET", <<"export">>), Admin("GET", <<"stats">>), Admin("GET", <<"logs">>),
    Admin("GET", <<":id">>), Admin("PATCH", <<":id">>), Admin("DELETE", <<":id">>),
    Admin("POST", <<":id", "enable">>), Admin("POST", <<":id", "disable">>),
    Admin("POST", <<"clear-cache">>), Admin("POST", <<"batch-enable">>),
    Admin("POST", <<"batch-disable">>), Admin("POST", <<"batch-delete">>),
    Admin("POST", <<"import">>), Admin("DELETE", <<"logs">>)>>
MockProxy == <<Route("ALL", <<"mock", "*">>, "open")>>

Routes ==
  RegisterAndLogin \o TokenRoutes
    \o UserCollection \o UserRows \o UserGrantRoutes \o ProfileRoutes
    \o RoleCollection \o RoleRows \o RoleEnds
    \o PermissionCollection \o PermissionRows
    \o PublicRoutes \o HealthRoutes \o LogListings \o LogTables
    \o MockRoutes \o MockProxy

-----------------------------------------------------------------------------
Matches(r, verb, path) ==
  /\ r.verb \in {verb, "ALL"}
  /\ Len(r.path) = Len(path)
  /\ \A k \in DOMAIN path : r.path[k] \in Params \union {path[k]}

\* The positions of Routes that match; the smallest is served.
Candidates(verb, path) == {n \in DOMAIN Routes : Matches(Routes[n], verb, path)}

First(S) == CHOOSE n \in S : \A k \in S : n <= k

\* A request that means the n-th route: its parameters are ids.
Aimed(n) ==
  [verb |-> IF Routes[n].verb = "ALL" THEN "GET" ELSE Routes[n].verb,
   path |-> [k \in DOMAIN Routes[n].path |->
               IF Routes[n].path[k] \in Params THEN "an-id" ELSE Routes[n].path[k]]]

\* The route that serves it.
Serves == [n \in DOMAIN Routes |-> First(Candidates(Aimed(n).verb, Aimed(n).path))]

\* Two routes are served by an earlier one, which is logged when they are.
ASSUME ServedAlike == \A n \in DOMAIN Routes : Routes[Serves[n]].logged = Routes[n].logged
=============================================================================
