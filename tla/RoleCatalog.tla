----------------------------- MODULE RoleCatalog -----------------------------
(***************************************************************************)
(* The rows of roles and permissions and the two tables that link them to  *)
(* each other and to users: the services that administer and list them,    *)
(* and the seed script, which may be run at any time and again.            *)
(*                                                                         *)
(* As in UserAccounts a request is the sequence of calls its method        *)
(* awaits.  A transaction reads one snapshot and its writes take effect    *)
(* together when it commits; there are no foreign keys (relationMode =     *)
(* "prisma"), so nothing ties a link to its rows but these calls.  The     *)
(* flush of the RBAC cache that ends most methods is modelled in RbacCache.*)
(* A permission has one unique column here, its code.                      *)
(***************************************************************************)
EXTENDS Naturals, Sequences, FiniteSets, SeedData, RoleGrants

CONSTANTS
  RoleIds, PermIds, \* autoincrement ids: 1..n bounds the rows ever inserted
  Sample,           \* the seeded permissions the model follows
  RoleSample,       \* the seeded roles the model follows
  OwnCode,          \* the code of a role that an administrator makes up
  OwnPermission,    \* the code of a permission that an administrator makes up
  Workers,
  Failures,         \* an await may throw; the script may be killed
  MaxOps            \* bound on the requests admitted

ASSUME CatalogAssumption ==
  /\ RoleIds \subseteq Nat \ {0} /\ PermIds \subseteq Nat \ {0}
  /\ Sample \subseteq SeededPermissions
  /\ RoleSample \subseteq SeededRoles
  /\ 1..Cardinality(RoleSample) \subseteq RoleIds
  /\ 1..Cardinality(Sample) \subseteq PermIds
  /\ OwnCode \notin SeededRoles
  /\ OwnPermission \notin SeededPermissions
  /\ Failures \in BOOLEAN
  /\ MaxOps \in Nat

VARIABLES
  role,     \* rows of roles
  perm,     \* rows of permissions
  grants,   \* rows of role_permissions: <<role id, permission id>>
  holders,  \* rows of user_roles: <<user, role id>>
  req,      \* what each worker serves, and its last answer
  admitted,
  torn      \* history: links written while one of their rows was deleted

vars == <<role, perm, grants, holders, req, admitted, torn>>

Users == {"root", "test"}
Codes == RoleSample \union {OwnCode}
PermCodes == Sample \union {OwnPermission}

NoRole == [state |-> "unborn", code |-> "none", name |-> "none"]
NoPerm == [state |-> "unborn", code |-> <<>>, batch |-> FALSE]

\* The name of a default role is written as its code.
NewRole(c, n) == [state |-> "active", code |-> c, name |-> n]

\* The script inserts its permissions in one batch: createdAt may be equal.
NewPerm(c, batch) == [state |-> "active", code |-> c, batch |-> batch]

There(r) == r.state \in {"active", "inactive"}
RolesThere == {i \in RoleIds : There(role[i])}
PermsThere == {i \in PermIds : There(perm[i])}

Idle == [op |-> "none", todo |-> <<>>, ids |-> {}, perms |-> {},
         user |-> "root", row |-> NoRole, prow |-> NoPerm, done |-> {},
         page |-> 1, total |-> 0, gone |-> {}, moved |-> FALSE,
         slipped |-> FALSE, answer |-> "none"]

-----------------------------------------------------------------------------
(* Before: nothing, or what the script writes.                             *)
Numberings(S) == {f \in [1..Cardinality(S) -> S] :
                    \A i, j \in DOMAIN f : f[i] = f[j] => i = j}

Written(rs, ps, own) ==
  /\ role = [i \in RoleIds |->
               IF i \in DOMAIN rs THEN NewRole(rs[i], rs[i])
               ELSE IF own /\ i = Len(rs) + 1 THEN NewRole(OwnCode, OwnCode)
               ELSE NoRole]
  /\ perm = [i \in PermIds |-> IF i \in DOMAIN ps THEN NewPerm(ps[i], TRUE)
                                                  ELSE NoPerm]
  /\ grants = {l \in (DOMAIN rs) \X (DOMAIN ps) :
                 ps[l[2]] \in DefaultGrants(rs[l[1]], Sample)}
  /\ holders = {l \in Users \X (DOMAIN rs) :
                  <<l[1], rs[l[2]]>> \in {<<"root", "admin">>, <<"test", "user">>}}

\* After the script an administrator may have created a role.
Init ==
  /\ req = [w \in Workers |-> Idle]
  /\ admitted = 0
  /\ torn = {}
  /\ \/ Written(<<>>, <<>>, FALSE)
     \/ \E own \in BOOLEAN :
          Written(CHOOSE f \in Numberings(RoleSample) : TRUE,
                  CHOOSE f \in Numberings(Sample) : TRUE, own)

-----------------------------------------------------------------------------
(* Requests: one action per method.                                        *)
Begin(w, r, todo) ==
  /\ req[w].todo = <<>>
  /\ admitted < MaxOps /\ admitted' = admitted + 1
  /\ req' = [req EXCEPT ![w] = [r EXCEPT !.todo = todo]]
  /\ UNCHANGED <<role, perm, grants, holders, torn>>

Op(name, ids) == [Idle EXCEPT !.op = name, !.ids = ids]
PermOp(name, P) == [Idle EXCEPT !.op = name, !.perms = P]

\* POST /roles
CreateRole(w, c, n) ==
  Begin(w, [Op("create", {}) EXCEPT !.row = NewRole(c, n)], <<"insertRole">>)

\* PATCH /roles/:id and PATCH /roles/:id/status
UpdateRole(w, i, c, n) ==
  Begin(w, [Op("update", {i}) EXCEPT
              !.row = [state |-> "keep", code |-> c, name |-> n]],
        <<"findRole", "writeRole">>)

UpdateRoleStatus(w, i, s) ==
  Begin(w, [Op("status", {i}) EXCEPT
              !.row = [state |-> s, code |-> "keep", name |-> "keep"]],
        <<"findRole", "writeRole">>)

\* DELETE /roles/:id and POST /roles/batch-delete
RemoveRole(w, i) ==
  Begin(w, Op("remove", {i}), <<"findRole", "checkUnused", "deleteRoles">>)

BatchDeleteRoles(w, S) ==
  Begin(w, Op("batch", S), <<"checkUnused", "deleteRoles">>)

\* POST /roles/:id/permissions
AssignPermissions(w, i, P) ==
  Begin(w, [Op("assignPermissions", {i}) EXCEPT !.perms = P],
        <<"findRole", "countPerms", "grantPerms", "findRole">>)

\* GET /roles/:id/permissions
GetRolePermissions(w, i) ==
  Begin(w, Op("permissions", {i}), <<"findRole", "readLinks", "readPerms">>)

\* Mutated form: the roles are not looked up.
AssignRolesUnchecked(w, u, S) ==
  Begin(w, [Op("assignRoles", S) EXCEPT !.user = u], <<"giveRoles">>)

\* POST /users/:id/roles and DELETE /users/:id/roles/:roleId
AssignRoles(w, u, S) ==
  Begin(w, [Op("assignRoles", S) EXCEPT !.user = u], <<"countRoles", "giveRoles">>)

RemoveUserRole(w, u, i) ==
  Begin(w, [Op("removeUserRole", {i}) EXCEPT !.user = u],
        <<"countRoles", "takeRole">>)

\* POST /permissions
CreatePermission(w, c) ==
  Begin(w, [Idle EXCEPT !.op = "createPerm", !.prow = NewPerm(c, FALSE)],
        <<"insertPerm">>)

\* PATCH /permissions/:id and PATCH /permissions/:id/status
UpdatePermission(w, p, c) ==
  Begin(w, [PermOp("updatePerm", {p}) EXCEPT !.prow.code = c],
        <<"findPerm", "writePerm">>)

UpdatePermissionStatus(w, p, s) ==
  Begin(w, [PermOp("permStatus", {p}) EXCEPT !.prow.state = s],
        <<"findPerm", "writePerm">>)

\* DELETE /permissions/:id and POST /permissions/batch-delete
RemovePermission(w, p) ==
  Begin(w, PermOp("removePerm", {p}), <<"findPerm", "deletePerms">>)

BatchDeletePermissions(w, P) ==
  Begin(w, PermOp("batchPerms", P), <<"deletePerms">>)

\* GET /roles/paginated: a client takes page after page of one row while
\* there is a next one.
WalkRoles(w) ==
  Begin(w, Op("walkRoles", RolesThere), <<"count", "rows">>)

\* GET /permissions/paginated: the two reads are started together.
WalkPermissions(w) ==
  \E todo \in {<<"count", "rows">>, <<"rows", "count">>} :
    Begin(w, PermOp("walkPerms", PermsThere), todo)

\* pnpm prisma:seed
Seed(w) ==
  /\ \A v \in Workers : req[v].op # "seed" \/ req[v].todo = <<>>
  /\ Begin(w, Op("seed", {}), <<"upsertPerms", "upsertRoles", "upsertGrants",
                                "upsertHolders">>)

-----------------------------------------------------------------------------
(* The calls.                                                              *)
At(w, call) == req[w].todo # <<>> /\ Head(req[w].todo) = call

After(r) == [r EXCEPT !.todo = Tail(@),
                      !.answer = IF Len(r.todo) = 1 THEN "done" ELSE @]

Goes(w, r) == req' = [req EXCEPT ![w] = After(r)]

Refused(w, answer) == req' = [req EXCEPT ![w].todo = <<>>, ![w].answer = answer]

\* w's call has written: the other requests see their rows deleted (dead),
\* roles assigned under a check they made, or a page shift between two reads.
Affects(w, r, dead, given, inserted) ==
  req' = [v \in Workers |->
    IF v = w THEN r ELSE
      [req[v] EXCEPT
         !.moved = TRUE,
         !.gone = @ \union dead,
         !.done = IF At(v, "deleteRoles") THEN @ \union given ELSE @,
         !.slipped = @ \/ (inserted /\ At(v, "rows"))]]

Dead(kind, S) == {kind} \X S

FindRole(w) ==
  /\ At(w, "findRole")
  /\ IF req[w].ids \subseteq RolesThere THEN Goes(w, req[w])
                                        ELSE Refused(w, "notFound")
  /\ UNCHANGED <<role, perm, grants, holders, admitted, torn>>


\* Mutated form: only the code has a unique index.
ClashOfCode(r, i) == \E j \in RolesThere \ {i} : role[j].code = r.code

\* A unique column has the value in another row.
Clash(r, i) == \E j \in RolesThere \ {i} : role[j].code = r.code \/ role[j].name = r.name

NextRole == CHOOSE i \in RoleIds : role[i].state = "unborn" /\
                \A j \in RoleIds : role[j].state = "unborn" => i <= j
NextPerm == CHOOSE i \in PermIds : perm[i].state = "unborn" /\
                \A j \in PermIds : perm[j].state = "unborn" => i <= j
RoomForRole == \E i \in RoleIds : role[i].state = "unborn"
RoomForPerm == \E i \in PermIds : perm[i].state = "unborn"

InsertRole(w) ==
  /\ At(w, "insertRole")
  /\ IF Clash(req[w].row, 0)
       THEN Refused(w, "conflict") /\ UNCHANGED role
       ELSE /\ RoomForRole
            /\ role' = [role EXCEPT ![NextRole] = req[w].row]
            /\ Affects(w, After(req[w]), {}, {}, TRUE)
  /\ UNCHANGED <<perm, grants, holders, admitted, torn>>

Kept(new, old) == [f \in DOMAIN old |-> IF new[f] = "keep" THEN old[f] ELSE new[f]]

WriteRole(w) ==
  /\ At(w, "writeRole")
  /\ \A i \in req[w].ids :
       LET new == Kept(req[w].row, role[i]) IN
       IF i \notin RolesThere \/ Clash(new, i)
         THEN /\ Refused(w, IF i \in RolesThere THEN "conflict" ELSE "notFound")
              /\ UNCHANGED role
         ELSE /\ role' = [role EXCEPT ![i] = new]
              /\ Affects(w, After(req[w]), {}, {}, FALSE)
  /\ UNCHANGED <<perm, grants, holders, admitted, torn>>

\* Mutated form: only the first role of a batch is looked at.
UsedFirst(S) == \E i \in S : (\A j \in S : i <= j) /\ \E u \in Users : <<u, i>> \in holders

Used(S) == \E i \in S, u \in Users : <<u, i>> \in holders

\* The transaction's reads: the rows and the links to users.
CheckUnused(w) ==
  /\ At(w, "checkUnused")
  /\ IF ~(req[w].ids \subseteq RolesThere) THEN Refused(w, "notFound")
     ELSE IF Used(req[w].ids) THEN Refused(w, "inUse")
     ELSE Goes(w, req[w])
  /\ UNCHANGED <<role, perm, grants, holders, admitted, torn>>

\* delete and deleteMany take the links along.
DeleteRoles(w) ==
  /\ At(w, "deleteRoles")
  /\ LET S == req[w].ids \intersect RolesThere IN
     IF req[w].op = "remove" /\ S = {}
       THEN Refused(w, "notFound") /\ UNCHANGED <<role, grants, holders>>
       ELSE /\ role' = [i \in RoleIds |-> IF i \in S
                          THEN [NoRole EXCEPT !.state = "deleted"] ELSE role[i]]
            /\ grants' = {l \in grants : l[1] \notin S}
            /\ holders' = {l \in holders : l[2] \notin S}
            /\ Affects(w, After(req[w]), Dead("role", S), {}, FALSE)
  /\ UNCHANGED <<perm, admitted, torn>>

CountPerms(w) ==
  /\ At(w, "countPerms")
  /\ IF \A p \in req[w].perms : perm[p].state = "active" THEN Goes(w, req[w])
                                                         ELSE Refused(w, "notFound")
  /\ UNCHANGED <<role, perm, grants, holders, admitted, torn>>

\* Links with a row that was deleted after this request looked it up.
LateLinks(w, links) ==
  {<<"grant", l>> : l \in {m \in links : \/ <<"role", m[1]>> \in req[w].gone
                                         \/ <<"perm", m[2]>> \in req[w].gone}}
LateHolders(w, links) ==
  {<<"holder", l>> : l \in {m \in links : <<"role", m[2]>> \in req[w].gone}}

GrantPerms(w) ==
  /\ At(w, "grantPerms")
  /\ \A i \in req[w].ids :
       /\ grants' = Regranted(grants, i, req[w].perms)
       /\ torn' = torn \union LateLinks(w, {i} \X req[w].perms)
  /\ Affects(w, After(req[w]), {}, {}, FALSE)
  /\ UNCHANGED <<role, perm, holders, admitted>>

ReadLinks(w) ==
  /\ At(w, "readLinks")
  /\ LET linked == {l[2] : l \in {m \in grants : m[1] \in req[w].ids}} IN
     Goes(w, [req[w] EXCEPT !.perms = linked])
  /\ UNCHANGED <<role, perm, grants, holders, admitted, torn>>

ReadPerms(w) ==
  /\ At(w, "readPerms")
  /\ Goes(w, [req[w] EXCEPT !.perms = @ \intersect PermsThere])
  /\ UNCHANGED <<role, perm, grants, holders, admitted, torn>>

CountRoles(w) ==
  /\ At(w, "countRoles")
  /\ IF \A i \in req[w].ids : role[i].state = "active" THEN Goes(w, req[w])
                                                       ELSE Refused(w, "notFound")
  /\ UNCHANGED <<role, perm, grants, holders, admitted, torn>>

GiveRoles(w) ==
  /\ At(w, "giveRoles")
  /\ LET links == {req[w].user} \X req[w].ids IN
     /\ holders' = {l \in holders : l[1] # req[w].user} \union links
     /\ torn' = torn \union LateHolders(w, links)
     /\ Affects(w, After(req[w]), {}, links, FALSE)
  /\ UNCHANGED <<role, perm, grants, admitted>>

TakeRole(w) ==
  /\ At(w, "takeRole")
  /\ holders' = holders \ ({req[w].user} \X req[w].ids)
  /\ Affects(w, After(req[w]), {}, {}, FALSE)
  /\ UNCHANGED <<role, perm, grants, admitted, torn>>

InsertPerm(w) ==
  /\ At(w, "insertPerm")
  /\ IF \E p \in PermsThere : perm[p].code = req[w].prow.code
       THEN Refused(w, "conflict") /\ UNCHANGED perm
       ELSE /\ RoomForPerm
            /\ perm' = [perm EXCEPT ![NextPerm] = req[w].prow]
            /\ Affects(w, After(req[w]), {}, {}, TRUE)
  /\ UNCHANGED <<role, grants, holders, admitted, torn>>

FindPerm(w) ==
  /\ At(w, "findPerm")
  /\ IF req[w].perms \subseteq PermsThere THEN Goes(w, req[w])
                                          ELSE Refused(w, "notFound")
  /\ UNCHANGED <<role, perm, grants, holders, admitted, torn>>

\* The column that the request names.
Amended(r, old) == IF r.op = "updatePerm" THEN [old EXCEPT !.code = r.prow.code]
                                          ELSE [old EXCEPT !.state = r.prow.state]

WritePerm(w) ==
  /\ At(w, "writePerm")
  /\ \A p \in req[w].perms :
       LET new == Amended(req[w], perm[p]) IN
       IF p \notin PermsThere \/ \E q \in PermsThere \ {p} : perm[q].code = new.code
         THEN /\ Refused(w, IF p \in PermsThere THEN "conflict" ELSE "notFound")
              /\ UNCHANGED perm
         ELSE /\ perm' = [perm EXCEPT ![p] = new]
              /\ Affects(w, After(req[w]), {}, {}, FALSE)
  /\ UNCHANGED <<role, grants, holders, admitted, torn>>

\* Nobody looks whether the permissions are granted; the links go along.
\* When no row is left remove answers "not found" and batchDelete "empty".
DeletePerms(w) ==
  /\ At(w, "deletePerms")
  /\ LET P == req[w].perms \intersect PermsThere IN
     IF P = {}
       THEN Refused(w, "notFound") /\ UNCHANGED <<perm, grants>>
       ELSE /\ perm' = [p \in PermIds |-> IF p \in P
                          THEN [NoPerm EXCEPT !.state = "deleted"] ELSE perm[p]]
            /\ grants' = {l \in grants : l[2] \notin P}
            /\ Affects(w, After(req[w]), Dead("perm", P), {}, FALSE)
  /\ UNCHANGED <<role, holders, admitted, torn>>

-----------------------------------------------------------------------------
(* Listings, newest first, one row to a page.                              *)
Listed(w) == IF req[w].op = "walkRoles" THEN RolesThere ELSE PermsThere

SameTime(w, i, j) == req[w].op = "walkPerms" /\ perm[i].batch /\ perm[j].batch

\* Mutated form: skip is one row too many.
PageSkipping(w, k) ==
  {i \in Listed(w) : Cardinality({j \in Listed(w) : j > i}) = k}

\* What the k-th row may be: rows with equal createdAt come in any order.
Page(w, k) ==
  {i \in Listed(w) :
     /\ Cardinality({j \in Listed(w) : j > i /\ ~SameTime(w, i, j)}) < k
     /\ k <= Cardinality({j \in Listed(w) : j >= i \/ SameTime(w, i, j)})}

\* After the second read the client looks at hasNextPage.
Turns(r) ==
  IF Len(r.todo) > 1 THEN [r EXCEPT !.todo = Tail(@)]
  ELSE IF r.page < r.total
         THEN [r EXCEPT !.page = @ + 1,
                        !.todo = IF Head(r.todo) = "rows"
                                   THEN <<"count", "rows">> ELSE <<"rows", "count">>]
         ELSE After(r)

CountRows(w) ==
  /\ At(w, "count")
  /\ req' = [req EXCEPT ![w] = Turns([@ EXCEPT !.total = Cardinality(Listed(w))])]
  /\ UNCHANGED <<role, perm, grants, holders, admitted, torn>>

FindRows(w) ==
  /\ At(w, "rows")
  /\ IF Page(w, req[w].page) = {}
       THEN req' = [req EXCEPT ![w] = Turns(@)]
       ELSE \E i \in Page(w, req[w].page) :
              req' = [req EXCEPT ![w] = Turns([req[w] EXCEPT !.done = @ \union {i}])]
  /\ UNCHANGED <<role, perm, grants, holders, admitted, torn>>

-----------------------------------------------------------------------------
(* The script.  It keeps the ids its upserts return.                       *)
RoleOrder == <<"admin", "user", "content_manager", "finance_manager", "auditor">>

\* Upserts go on until nothing is left of their kind.
Upserted(r, left) == IF left THEN r ELSE After(r)

\* Promise.all: the upserts are in flight together and settle in any order.
UpsertPerms(w) ==
  /\ At(w, "upsertPerms")
  /\ \E c \in {c \in Sample : ~ \E p \in req[w].done : p[1] = "perm" /\ p[3] = c} :
       LET last == Cardinality(req[w].done) + 1 < Cardinality(Sample)
           Got(p) == Upserted([req[w] EXCEPT
                        !.perms = @ \union {p},
                        !.done = @ \union {<<"perm", p, c>>}], last) IN
       IF \E p \in PermsThere : perm[p].code = c
         THEN \E p \in {p \in PermsThere : perm[p].code = c} :
                req' = [req EXCEPT ![w] = Got(p)] /\ UNCHANGED perm
         ELSE /\ RoomForPerm
              /\ perm' = [perm EXCEPT ![NextPerm] = NewPerm(c, TRUE)]
              /\ Affects(w, Got(NextPerm), {}, {}, TRUE)
  /\ UNCHANGED <<role, grants, holders, admitted, torn>>

RoleIdOf(r, c) == {t[2] : t \in {d \in r.done : d[1] = "role" /\ d[3] = c}}

\* Mutated form: a role that is there already gets no more grants.
ReturnedIfNew(r, i, c, inserted) ==
  [r EXCEPT !.ids = IF inserted THEN @ \union {i} ELSE @,
            !.done = @ \union {<<"role", i, c>>}]

\* The id an upsert returns, of a new row or of the one that was there.
Returned(r, i, c, inserted) ==
  [r EXCEPT !.ids = @ \union {i}, !.done = @ \union {<<"role", i, c>>}]

\* One after the other; a row with the code is left as it is, a row with only
\* the name makes the insert fail and ends the script.
UpsertRoles(w) ==
  /\ At(w, "upsertRoles")
  /\ \E n \in 1..Len(RoleOrder) :
       LET c == RoleOrder[n]
           Open(m) == RoleOrder[m] \in RoleSample /\ RoleIdOf(req[w], RoleOrder[m]) = {}
           Got(i, inserted) == Upserted(Returned(req[w], i, c, inserted),
                                        \E m \in (n + 1)..Len(RoleOrder) : Open(m)) IN
       /\ Open(n) /\ \A m \in 1..(n - 1) : ~Open(m)
       /\ IF \E i \in RolesThere : role[i].code = c
            THEN \E i \in {i \in RolesThere : role[i].code = c} :
                   req' = [req EXCEPT ![w] = Got(i, FALSE)] /\ UNCHANGED role
          ELSE IF Clash(NewRole(c, c), 0)
            THEN Refused(w, "failed") /\ UNCHANGED role
            ELSE /\ RoomForRole
                 /\ role' = [role EXCEPT ![NextRole] = NewRole(c, c)]
                 /\ Affects(w, Got(NextRole, TRUE), {}, {}, TRUE)
  /\ UNCHANGED <<perm, grants, holders, admitted, torn>>

\* The links between the ids it has got.
Wanted(r) ==
  {l \in r.ids \X r.perms :
     \E d, e \in r.done : /\ d[1] = "role" /\ d[2] = l[1]
                          /\ e[1] = "perm" /\ e[2] = l[2]
                          /\ e[3] \in DefaultGrants(d[3], Sample)}

UpsertGrants(w) ==
  /\ At(w, "upsertGrants")
  /\ LET left == Wanted(req[w]) \ grants IN
     IF left = {}
       THEN Goes(w, req[w]) /\ UNCHANGED <<grants, torn>>
       ELSE \E l \in left :
              /\ grants' = grants \union {l}
              /\ torn' = torn \union LateLinks(w, {l})
              /\ Affects(w, req[w], {}, {}, FALSE)
  /\ UNCHANGED <<role, perm, holders, admitted>>

UpsertHolders(w) ==
  /\ At(w, "upsertHolders")
  /\ LET links == ({"root"} \X RoleIdOf(req[w], "admin"))
                    \union ({"test"} \X RoleIdOf(req[w], "user"))
         left == links \ holders IN
     IF left = {}
       THEN Goes(w, req[w]) /\ UNCHANGED <<holders, torn>>
       ELSE \E l \in left :
              /\ holders' = holders \union {l}
              /\ torn' = torn \union LateHolders(w, {l})
              /\ Affects(w, req[w], {}, {l}, FALSE)
  /\ UNCHANGED <<role, perm, grants, admitted>>

-----------------------------------------------------------------------------
\* An await throws, or the process that runs the script is killed.
Fail(w) ==
  /\ Failures /\ req[w].todo # <<>>
  /\ Refused(w, "failed")
  /\ UNCHANGED <<role, perm, grants, holders, admitted, torn>>

Known(i) == role[i].state # "unborn"
KnownPerm(p) == perm[p].state # "unborn"
SomeRoles == {S \in SUBSET {i \in RoleIds : Known(i)} : S # {}}
SomePerms == {P \in SUBSET {p \in PermIds : KnownPerm(p)} : P # {}}

Arrive(w) ==
  \/ \E c, n \in Codes : CreateRole(w, c, n)
  \/ \E i \in RoleIds : Known(i) /\
       \/ \E c, n \in Codes \union {"keep"} : UpdateRole(w, i, c, n)
       \/ \E s \in {"active", "inactive"} : UpdateRoleStatus(w, i, s)
       \/ RemoveRole(w, i)
       \/ \E P \in SomePerms : AssignPermissions(w, i, P)
       \/ GetRolePermissions(w, i)
       \/ \E u \in Users : RemoveUserRole(w, u, i)
  \/ \E S \in SomeRoles : BatchDeleteRoles(w, S)
                            \/ \E u \in Users : AssignRoles(w, u, S)
  \/ \E c \in PermCodes : CreatePermission(w, c)
  \/ \E p \in PermIds : KnownPerm(p) /\
       \/ \E c \in PermCodes : UpdatePermission(w, p, c)
       \/ \E s \in {"active", "inactive"} : UpdatePermissionStatus(w, p, s)
       \/ RemovePermission(w, p)
  \/ \E P \in SomePerms : BatchDeletePermissions(w, P)
  \/ WalkRoles(w) \/ WalkPermissions(w)
  \/ Seed(w)

Proceed(w) ==
  \/ FindRole(w) \/ InsertRole(w) \/ WriteRole(w) \/ CheckUnused(w) \/ DeleteRoles(w)
  \/ CountPerms(w) \/ GrantPerms(w) \/ ReadLinks(w) \/ ReadPerms(w)
  \/ CountRoles(w) \/ GiveRoles(w) \/ TakeRole(w)
  \/ InsertPerm(w) \/ FindPerm(w) \/ WritePerm(w) \/ DeletePerms(w)
  \/ CountRows(w) \/ FindRows(w)
  \/ UpsertPerms(w) \/ UpsertRoles(w) \/ UpsertGrants(w) \/ UpsertHolders(w)

Next == \E w \in Workers : Arrive(w) \/ Proceed(w) \/ Fail(w)

Spec == Init /\ [][Next]_vars

-----------------------------------------------------------------------------
RoleRow == [state : {"unborn", "active", "inactive", "deleted"},
            code : Codes \union {"none"}, name : Codes \union {"none"}]
PermRow == [state : {"unborn", "active", "inactive", "deleted"},
            code : PermCodes \union {<<>>}, batch : BOOLEAN]

(* Rows have their columns, and no two rows share a unique one.            *)
TypeOK ==
  /\ role \in [RoleIds -> RoleRow]
  /\ perm \in [PermIds -> PermRow]
  /\ grants \subseteq RoleIds \X PermIds
  /\ holders \subseteq Users \X RoleIds
  /\ admitted \in 0..MaxOps
  /\ \A i, j \in RolesThere : 
       role[i].code = role[j].code \/ role[i].name = role[j].name => i = j
  /\ \A p, q \in PermsThere : perm[p].code = perm[q].code => p = q

(* There are no foreign keys.  A link without its row has one cause: the   *)
(* row was deleted after the request that wrote the link had looked it up. *)
OrphansHaveCause ==
  /\ \A l \in grants : (l[1] \notin RolesThere \/ l[2] \notin PermsThere)
                          => <<"grant", l>> \in torn
  /\ \A l \in holders : l[2] \notin RolesThere => <<"holder", l>> \in torn

(* roles.service 319 and 540: a role in use is not deleted.  Users lose a  *)
(* role by its deletion only if it was given to them between the check and *)
(* the commit.                                                             *)
DeletesUnused(i) ==
  \E w \in Workers : /\ At(w, "deleteRoles") /\ i \in req[w].ids
                     /\ {l \in holders : l[2] = i} \subseteq req[w].done
UsedRoleKept ==
  [][\A i \in RolesThere : ~There(role'[i]) => DeletesUnused(i)]_vars

(* Whatever run of the script was killed before, and whatever stands in    *)
(* the tables, one that ends well with no other write meanwhile leaves the *)
(* default roles with their grants and the two accounts with their roles.  *)
Grants(i, g) == \E p \in PermsThere : perm[p].code = g /\ <<i, p>> \in grants
Seeded ==
  \A c \in RoleSample : \E i \in RolesThere :
    /\ role[i].code = c
    /\ \A g \in DefaultGrants(c, Sample) : Grants(i, g)
    /\ c = "admin" => <<"root", i>> \in holders
    /\ c = "user" => <<"test", i>> \in holders
SeedCompletes ==
  \A w \in Workers :
    req[w].op = "seed" /\ req[w].answer = "done" /\ ~req[w].moved => Seeded

(* A client that takes page after page while hasNextPage has seen every    *)
(* row that was there all the time, unless a row was deleted meanwhile, or *)
(* inserted between the count and the rows of a page, or two rows have the *)
(* same createdAt.                                                         *)
Steady(r, kind) == ~r.slipped /\ {g \in r.gone : g[1] = kind} = {}
WalkComplete ==
  \A w \in Workers : req[w].answer = "done" =>
    /\ req[w].op = "walkRoles" /\ Steady(req[w], "role") => req[w].ids \subseteq req[w].done
    /\ (/\ req[w].op = "walkPerms" /\ Steady(req[w], "perm")
        /\ Cardinality({p \in PermIds : perm[p].batch}) <= 1)
          => req[w].perms \subseteq req[w].done
=============================================================================
