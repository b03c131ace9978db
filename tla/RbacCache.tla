----------------------------- MODULE RbacCache -----------------------------
(***************************************************************************)
(* Who may do what, and the per-user cache of it: the role and permission  *)
(* rows of the database, the cache entries "roles of a user" and           *)
(* "permissions of a user" (RbacCacheService, one hour each), the guards   *)
(* and the login and refresh handlers that fill them, and the              *)
(* administrative operations that change the rows and then delete entries. *)
(*                                                                         *)
(* Every await is a step of its own, so a fill that has read the database  *)
(* and not yet written the cache can be overtaken by a change.  Requests   *)
(* carry a ghost, overtaken: the kinds they have read and that changed     *)
(* since, and the kinds a login or refresh read with deactivated rows in   *)
(* them; an entry carries excused: it was written by such a read, or a     *)
(* deletion that should have removed it was lost.                          *)
(*                                                                         *)
(* The reverse indexes (role -> users, permission -> users) are left out:  *)
(* the only operations that read them are called by nobody.                *)
(***************************************************************************)
EXTENDS Naturals, FiniteSets

CONSTANTS
  Users, Roles, Perms,
  Requests,       \* handlers that can be in flight together
  NoUser,
  Ops,            \* the operations this instance lets clients call
  PrefixedKeys,   \* Redis with a key prefix, which KEYS patterns ignore
  CacheFaults,    \* a cache or database call may throw
  MaxChanges      \* bound on changes of grants clients ask for

ASSUME RbacAssumption ==
  /\ NoUser \notin Users
  /\ PrefixedKeys \in BOOLEAN
  /\ CacheFaults \in BOOLEAN
  /\ MaxChanges \in Nat

VARIABLES
  userRoles,    \* rows of user_roles, as a set of roles for each user
  roleStatus,   \* rows of roles
  rolePerms,    \* rows of role_permissions
  permStatus,   \* rows of permissions
  cache,        \* cache[kind][user]
  req,          \* the handlers in flight
  changes       \* changes of grants asked for so far

database == <<userRoles, roleStatus, rolePerms, permStatus>>
vars == <<database, cache, req, changes>>

Kinds == {"roles", "permissions"}
Codes == Roles \union Perms
Status == {"unborn", "active", "inactive", "deleted"}

Entry == [present : BOOLEAN, codes : SUBSET Codes, excused : BOOLEAN]
NoEntry == [present |-> FALSE, codes |-> {}, excused |-> FALSE]

Idle == [pc |-> "idle", op |-> "none", user |-> NoUser, left |-> {},
         read |-> [k \in Kinds |-> {}], overtaken |-> {}, listed |-> {},
         roles |-> {}, perms |-> {}]

-----------------------------------------------------------------------------
(* What the database says. *)

Exists(status) == status \in {"active", "inactive"}

\* getUserRolesFromDB, getUserPermissionsFromDB: active rows only.
ActiveRoles(u) == {r \in userRoles[u] : roleStatus[r] = "active"}
View(k, u) ==
  IF k = "roles" THEN ActiveRoles(u)
  ELSE {p \in Perms : /\ permStatus[p] = "active"
                      /\ \E r \in ActiveRoles(u) : p \in rolePerms[r]}

\* What login takes from the user row it read: every role and permission.
Held(k, u) ==
  IF k = "roles" THEN userRoles[u]
  ELSE {p \in Perms : \E r \in userRoles[u] : p \in rolePerms[r]}

\* Login and refresh do not ask whether a role or permission is active: what
\* they read of these kinds is not what a guard would read.
Differs(u) == {k \in Kinds : Held(k, u) # View(k, u)}

\* The query joins rows that exist; it throws on a row that points nowhere.
Readable(u) ==
  \A r \in userRoles[u] : /\ Exists(roleStatus[r])
                          /\ \A p \in rolePerms[r] : Exists(permStatus[p])

First(K) == IF "roles" \in K THEN "roles" ELSE "permissions"

-----------------------------------------------------------------------------
(* A request that has committed still has to delete these entries. *)

Covers(w, k, u) ==
  \/ req[w].pc = "delete" /\ u = req[w].user /\ k \in req[w].left
  \/ req[w].pc = "flush" /\ k \in req[w].left
  \/ /\ req[w].pc = "drop"
     /\ \/ k \in req[w].left \ {First(req[w].left)}
        \/ k = First(req[w].left) /\ u \in req[w].listed

Init ==
  /\ roleStatus \in [Roles -> {"unborn", "active"}]
  /\ permStatus = [p \in Perms |-> "active"]
  /\ userRoles \in [Users -> SUBSET {r \in Roles : roleStatus[r] = "active"}]
  /\ rolePerms \in [Roles -> SUBSET Perms]
  /\ \A r \in Roles : roleStatus[r] = "unborn" => rolePerms[r] = {}
  /\ cache = [k \in Kinds |-> [u \in Users |-> NoEntry]]
  /\ req = [w \in Requests |-> Idle]
  /\ changes = 0

Called(w, op) == op \in Ops /\ req[w].pc = "idle"
Admitted == changes < MaxChanges /\ changes' = changes + 1
Becomes(w, r) == req' = [req EXCEPT ![w] = r]

\* The request after it dealt with kind k: on with the next, or answered.
Without(r, k) == IF r.left \ {k} = {} THEN Idle
                 ELSE [r EXCEPT !.left = @ \ {k}, !.listed = {}]

-----------------------------------------------------------------------------
(* Filling the cache. *)

\* A guard asks the cache; a hit decides the request there and then.
GuardMiss(w, k, u) ==
  /\ Called(w, "guard")
  /\ ~cache[k][u].present
  /\ Becomes(w, [Idle EXCEPT !.pc = "query", !.op = "guard", !.user = u,
                             !.left = {k}])
  /\ UNCHANGED <<database, cache, changes>>

GuardQuery(w) ==
  /\ req[w].pc = "query" /\ req[w].op = "guard"
  /\ Readable(req[w].user)
  /\ LET k == First(req[w].left)
     IN Becomes(w, [req[w] EXCEPT !.pc = "store", !.left = {k}, !.overtaken = {},
                      !.read[k] = View(k, req[w].user)])
  /\ UNCHANGED <<database, cache, changes>>

\* The local strategy loads the user with its roles, login uses them later.
LoginQuery(w, u) ==
  /\ Called(w, "login") /\ Readable(u)
  /\ Becomes(w, [Idle EXCEPT !.pc = "store", !.op = "login", !.user = u,
                             !.left = Kinds,
                             !.overtaken = Differs(u),
                             !.read = [k \in Kinds |-> Held(k, u)]])
  /\ UNCHANGED <<database, cache, changes>>

RefreshRoles(w, u) ==
  /\ Called(w, "refresh") /\ Readable(u)
  /\ Becomes(w, [Idle EXCEPT !.pc = "query", !.op = "refresh", !.user = u,
                             !.left = {"permissions"},
                             !.overtaken = Differs(u) \ {"permissions"},
                             !.read["roles"] = Held("roles", u)])
  /\ UNCHANGED <<database, cache, changes>>

RefreshPermissions(w) ==
  /\ req[w].pc = "query" /\ req[w].op = "refresh"
  /\ Readable(req[w].user)
  /\ Becomes(w, [req[w] EXCEPT !.pc = "store", !.left = Kinds,
                   !.overtaken = @ \ {"permissions"},
                   !.read["permissions"] = View("permissions", req[w].user)])
  /\ UNCHANGED <<database, cache, changes>>

QueryFails(w) ==
  /\ req[w].pc = "query" /\ ~Readable(req[w].user)
  /\ Becomes(w, Idle)
  /\ UNCHANGED <<database, cache, changes>>

\* setUserRoles, setUserPermissions.
Store(w) ==
  /\ req[w].pc = "store"
  /\ LET k == First(req[w].left)
     IN /\ cache' = [cache EXCEPT ![k][req[w].user] =
                       [present |-> TRUE, codes |-> req[w].read[k],
                        excused |-> k \in req[w].overtaken]]
        /\ Becomes(w, Without(req[w], k))
  /\ UNCHANGED <<database, changes>>

-----------------------------------------------------------------------------
(* Changing grants: the commit, and what the request does after it. *)

Checked(w, op, u, R, P) ==
  /\ Called(w, op) /\ Admitted
  /\ Becomes(w, [Idle EXCEPT !.pc = "commit", !.op = op, !.user = u,
                             !.roles = R, !.perms = P])
  /\ UNCHANGED <<database, cache>>

\* The kinds of entry of each user that this step makes different.
Changed == [u \in Users |-> {k \in Kinds : View(k, u)' # View(k, u)}]
Overtaken(r, K) == [r EXCEPT !.overtaken = @ \union K]

\* The commit overtakes every fill that has read what it changes.
Commits(w, after) ==
  /\ req' = [v \in Requests |->
               IF v = w THEN after
               ELSE IF req[v].pc \in {"query", "store"}
               THEN Overtaken(req[v], Changed[req[v].user]) ELSE req[v]]
  /\ UNCHANGED cache

ThenDelete(u) == [Idle EXCEPT !.pc = "delete", !.user = u, !.left = Kinds]
ThenFlush == [Idle EXCEPT !.pc = "flush", !.left = Kinds]

AssignRoles(w, u, R) ==
  /\ \A r \in R : roleStatus[r] = "active"
  /\ Checked(w, "assignRoles", u, R, {})

\* Mutant: the handler forgets the user's cache.
AssignRolesForgets(w) ==
  /\ req[w].pc = "commit" /\ req[w].op = "assignRoles"
  /\ userRoles' = [userRoles EXCEPT ![req[w].user] = req[w].roles]
  /\ UNCHANGED <<changes, roleStatus, rolePerms, permStatus>>
  /\ Commits(w, Idle)

AssignRolesCommit(w) ==
  /\ req[w].pc = "commit" /\ req[w].op = "assignRoles"
  /\ userRoles' = [userRoles EXCEPT ![req[w].user] = req[w].roles]
  /\ UNCHANGED <<changes, roleStatus, rolePerms, permStatus>>
  /\ Commits(w, ThenDelete(req[w].user))

RemoveRole(w, u, r) ==
  /\ roleStatus[r] = "active"
  /\ Checked(w, "removeRole", u, {r}, {})

RemoveRoleCommit(w) ==
  /\ req[w].pc = "commit" /\ req[w].op = "removeRole"
  /\ userRoles' = [userRoles EXCEPT ![req[w].user] = @ \ req[w].roles]
  /\ UNCHANGED <<changes, roleStatus, rolePerms, permStatus>>
  /\ Commits(w, IF userRoles' = userRoles THEN Idle
                ELSE ThenDelete(req[w].user))

CreateRole(w, r) ==
  /\ Called(w, "createRole") /\ roleStatus[r] = "unborn" /\ Admitted
  /\ roleStatus' = [roleStatus EXCEPT ![r] = "active"]
  /\ UNCHANGED <<userRoles, rolePerms, permStatus>>
  /\ Commits(w, ThenFlush)

UpdateRoleStatus(w, r, status) ==
  /\ Called(w, "updateRoleStatus") /\ Exists(roleStatus[r]) /\ Admitted
  /\ roleStatus' = [roleStatus EXCEPT ![r] = status]
  /\ UNCHANGED <<userRoles, rolePerms, permStatus>>
  /\ Commits(w, ThenFlush)

\* RolesService.remove: inside one transaction, but the count is a snapshot
\* read and nothing keeps a user from being given the role before the delete.
\* The client emulates the cascade (no foreign keys): whether it sees a row
\* added since the count is up to the isolation level.
DeleteRole(w, r) ==
  /\ Exists(roleStatus[r]) /\ \A u \in Users : r \notin userRoles[u]
  /\ Checked(w, "deleteRole", NoUser, {r}, {})

DeleteRoleCommit(w) ==
  /\ req[w].pc = "commit" /\ req[w].op = "deleteRole"
  /\ \A r \in req[w].roles : Exists(roleStatus[r])
  /\ roleStatus' = [r \in Roles |-> IF r \in req[w].roles THEN "deleted"
                                    ELSE roleStatus[r]]
  /\ rolePerms' = [r \in Roles |-> IF r \in req[w].roles THEN {}
                                   ELSE rolePerms[r]]
  /\ \/ userRoles' = [u \in Users |-> userRoles[u] \ req[w].roles]
     \/ UNCHANGED userRoles
  /\ UNCHANGED <<changes, permStatus>>
  /\ Commits(w, ThenFlush)

\* Another request deleted the role first: the delete throws.
DeleteRoleGone(w) ==
  /\ req[w].pc = "commit" /\ req[w].op = "deleteRole"
  /\ \E r \in req[w].roles : ~Exists(roleStatus[r])
  /\ Becomes(w, Idle)
  /\ UNCHANGED <<database, cache, changes>>

AssignPermissions(w, r, P) ==
  /\ Exists(roleStatus[r])
  /\ \A p \in P : permStatus[p] = "active"
  /\ Checked(w, "assignPermissions", NoUser, {r}, P)

\* removePermissions deletes the very rows assignPermissions inserts again.
Assigned(old, P) == (old \ P) \union P

AssignPermissionsCommit(w) ==
  /\ req[w].pc = "commit" /\ req[w].op = "assignPermissions"
  /\ rolePerms' = [r \in Roles |->
                     IF r \in req[w].roles
                     THEN Assigned(rolePerms[r], req[w].perms)
                     ELSE rolePerms[r]]
  /\ UNCHANGED <<changes, userRoles, roleStatus, permStatus>>
  /\ Commits(w, ThenFlush)

UpdatePermissionStatus(w, p, status) ==
  /\ Called(w, "updatePermissionStatus") /\ Exists(permStatus[p]) /\ Admitted
  /\ permStatus' = [permStatus EXCEPT ![p] = status]
  /\ UNCHANGED <<userRoles, roleStatus, rolePerms>>
  /\ Commits(w, ThenFlush)

DeletePermission(w, p) ==
  /\ Called(w, "deletePermission") /\ Exists(permStatus[p]) /\ Admitted
  /\ permStatus' = [permStatus EXCEPT ![p] = "deleted"]
  /\ rolePerms' = [r \in Roles |-> rolePerms[r] \ {p}]
  /\ UNCHANGED <<userRoles, roleStatus>>
  /\ Commits(w, ThenFlush)

-----------------------------------------------------------------------------
(* Emptying the cache. *)

Logout(w, u) ==
  /\ Called(w, "logout")
  /\ Becomes(w, ThenDelete(u))
  /\ UNCHANGED <<database, cache, changes>>

\* deleteUserCache: first the roles, then the permissions of one user.
DeleteEntry(w) ==
  /\ req[w].pc = "delete"
  /\ LET k == First(req[w].left)
     IN /\ cache' = [cache EXCEPT ![k][req[w].user] = NoEntry]
        /\ Becomes(w, Without(req[w], k))
  /\ UNCHANGED <<database, changes>>

\* The entries KEYS reports for the pattern of kind k.
Matching(k) == {u \in Users : cache[k][u].present /\ ~PrefixedKeys}

\* delPattern: KEYS, and then one DEL of the keys it found.
FlushKeys(w) ==
  /\ req[w].pc = "flush"
  /\ LET k == First(req[w].left)
     IN Becomes(w, IF Matching(k) = {} THEN Without(req[w], k)
                   ELSE [req[w] EXCEPT !.pc = "drop", !.listed = Matching(k)])
  /\ UNCHANGED <<database, cache, changes>>

FlushDrop(w) ==
  /\ req[w].pc = "drop"
  /\ LET k == First(req[w].left)
         dropped == [u \in Users |-> IF u \in req[w].listed THEN NoEntry
                                     ELSE cache[k][u]]
     IN /\ cache' = [cache EXCEPT ![k] = dropped]
        /\ Becomes(w, IF req[w].left = {k} THEN Idle
                      ELSE [Without(req[w], k) EXCEPT !.pc = "flush"])
  /\ UNCHANGED <<database, changes>>

\* Mutant: entries are stored without a lifetime.
NeverExpires(k, u) == FALSE /\ cache[k][u].present /\ UNCHANGED vars

\* The entry's hour is over.
Expire(k, u) ==
  /\ cache[k][u].present
  /\ cache' = [cache EXCEPT ![k][u] = NoEntry]
  /\ UNCHANGED <<database, req, changes>>

-----------------------------------------------------------------------------
(* A cache or database call throws: the handler answers an error. *)

\* Entries request w was going to delete stay, and may now be stale.
Excused(w) ==
  [k \in Kinds |-> [u \in Users |->
     IF Covers(w, k, u) /\ cache[k][u].present
     THEN [cache[k][u] EXCEPT !.excused = TRUE] ELSE cache[k][u]]]

Fail(w) ==
  /\ CacheFaults /\ req[w].pc # "idle"
  /\ cache' = Excused(w)
  /\ Becomes(w, Idle)
  /\ UNCHANGED <<database, changes>>

-----------------------------------------------------------------------------
\* One step of a request that is in flight.
Step(w) ==
  \/ GuardQuery(w) \/ RefreshPermissions(w) \/ QueryFails(w) \/ Store(w)
  \/ AssignRolesCommit(w) \/ RemoveRoleCommit(w)
  \/ DeleteRoleCommit(w) \/ DeleteRoleGone(w) \/ AssignPermissionsCommit(w)
  \/ DeleteEntry(w) \/ FlushKeys(w) \/ FlushDrop(w)

Arrive(w) ==
  \/ \E u \in Users : \/ \E k \in Kinds : GuardMiss(w, k, u)
                      \/ LoginQuery(w, u)
                      \/ RefreshRoles(w, u)
                      \/ Logout(w, u)
                      \/ \E R \in SUBSET Roles : AssignRoles(w, u, R)
                      \/ \E r \in Roles : RemoveRole(w, u, r)
  \/ \E r \in Roles : \/ CreateRole(w, r)
                      \/ DeleteRole(w, r)
                      \/ \E s \in {"active", "inactive"} :
                           UpdateRoleStatus(w, r, s)
                      \/ \E P \in SUBSET Perms : AssignPermissions(w, r, P)
  \/ \E p \in Perms : \/ DeletePermission(w, p)
                      \/ \E s \in {"active", "inactive"} :
                           UpdatePermissionStatus(w, p, s)

Next ==
  \/ \E w \in Requests : Step(w) \/ Arrive(w) \/ Fail(w)
  \/ \E k \in Kinds, u \in Users : Expire(k, u)

Spec == Init /\ [][Next]_vars

\* The event loop resumes every await, and an hour passes.
FairSpec ==
  /\ Spec
  /\ \A w \in Requests : WF_vars(Step(w))
  /\ \A k \in Kinds, u \in Users : WF_vars(Expire(k, u))

-----------------------------------------------------------------------------
Request ==
  [pc : {"idle", "query", "store", "commit", "delete", "flush", "drop"},
   op : {"none", "guard", "login", "refresh", "assignRoles", "removeRole",
         "deleteRole", "assignPermissions"},
   user : Users \union {NoUser}, left : SUBSET Kinds,
   read : [Kinds -> SUBSET Codes], overtaken : SUBSET Kinds,
   listed : SUBSET Users, roles : SUBSET Roles, perms : SUBSET Perms]

\* What a request holds is of the right kind, and a request that reads or
\* writes the entries of one user has a user and something left to do.
WellFormed(r) ==
  /\ r.read["roles"] \subseteq Roles
  /\ r.read["permissions"] \subseteq Perms
  /\ \/ r.pc \in {"query", "store", "delete"}
     \/ r.op \in {"assignRoles", "removeRole"}
     => r.user \in Users
  /\ r.pc \notin {"idle", "commit"} => r.left # {}

DatabaseOK ==
  /\ userRoles \in [Users -> SUBSET Roles]
  /\ roleStatus \in [Roles -> Status]
  /\ rolePerms \in [Roles -> SUBSET Perms]
  /\ permStatus \in [Perms -> Status]

CacheOK ==
  /\ cache \in [Kinds -> [Users -> Entry]]
  /\ \A u \in Users : /\ cache["roles"][u].codes \subseteq Roles
                      /\ cache["permissions"][u].codes \subseteq Perms

RequestsOK ==
  /\ req \in [Requests -> Request]
  /\ \A w \in Requests : WellFormed(req[w])

\* Types: an entry holds codes of its own kind, requests are well formed and
\* the bound on changes is kept.
TypeOK == DatabaseOK /\ CacheOK /\ RequestsOK /\ changes \in 0..MaxChanges

Fresh(k, u) == cache[k][u].present => cache[k][u].codes = View(k, u)

\* A cache entry differs from what the guards would read in the database only
\* if a request in flight is still going to delete it, or for one of three
\* reasons outside any one handler: the change overtook a fill between its
\* read and its write, login or refresh cached a deactivated role or
\* permission, or a deletion was lost to a cache failure.  This is what
\* ordering every commit before its deleteUserCache or flush achieves.
StaleHasCause ==
  \A k \in Kinds, u \in Users :
    \/ Fresh(k, u)
    \/ cache[k][u].excused
    \/ \E w \in Requests : Covers(w, k, u)

\* A fill for u that no change has overtaken holds what the database says now.
Agrees(r, u) ==
  /\ r.pc = "store"
       => \A k \in r.left \ r.overtaken : r.read[k] = View(k, u)
  /\ r.pc = "query" /\ r.op = "refresh"
       => "roles" \in r.overtaken \/ r.read["roles"] = View("roles", u)
ReadsAgree ==
  \A w \in Requests, u \in Users : req[w].user = u => Agrees(req[w], u)

\* With no request in flight the cache agrees with the database: the promise
\* of users.service.ts:621, "清除用户的 RBAC 缓存，确保下次请求获取最新的角色和权限".
FreshWhenQuiet ==
  (\A w \in Requests : req[w].pc = "idle")
    => \A k \in Kinds, u \in Users : Fresh(k, u)

\* Once grants stop changing, every stale entry disappears for good: staleness
\* lasts an hour at most, whatever interleaving or failure caused it, unless a
\* role or permission stays deactivated, which every login caches anew.
NoneInactive ==
  /\ \A r \in Roles : roleStatus[r] # "inactive"
  /\ \A p \in Perms : permStatus[p] # "inactive"
StalenessEnds ==
  <>[]NoneInactive => <>[](\A k \in Kinds, u \in Users : Fresh(k, u))
=============================================================================
