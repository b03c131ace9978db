-------------------------- MODULE RoleCatalogProofs --------------------------
(***************************************************************************)
(* Proofs about RoleCatalog for any ids, any sample of the seed's rows,    *)
(* any number of workers and requests, with and without failures.          *)
(***************************************************************************)
EXTENDS RoleCatalog, FiniteSetTheorems, FunctionTheorems, WellFoundedInduction, TLAPS

Fields == {"op", "todo", "ids", "perms", "user", "row", "prow", "done", "page",
           "total", "gone", "moved", "slipped", "answer"}
Shaped(r) == DOMAIN r = Fields

Starts(t, call) == t # <<>> /\ Head(t) = call

SeedTodos == {<<"upsertPerms", "upsertRoles", "upsertGrants", "upsertHolders">>,
              <<"upsertRoles", "upsertGrants", "upsertHolders">>,
              <<"upsertGrants", "upsertHolders">>, <<"upsertHolders">>}
WriteTodos == {<<"findRole", "writeRole">>, <<"writeRole">>}
AssignTodos == {<<"findRole", "countPerms", "grantPerms", "findRole">>,
                <<"countPerms", "grantPerms", "findRole">>,
                <<"grantPerms", "findRole">>}
AmendTodos == {<<"findPerm", "writePerm">>, <<"writePerm">>}
FindTodos == {<<"findRole", "writeRole">>,
              <<"findRole", "checkUnused", "deleteRoles">>,
              <<"findRole", "countPerms", "grantPerms", "findRole">>,
              <<"findRole", "readLinks", "readPerms">>, <<"findRole">>}

\* What is left to do is known from the next call.
Planned(t) ==
  /\ Starts(t, "findRole") => t \in FindTodos
  /\ Starts(t, "insertRole") => t = <<"insertRole">>
  /\ Starts(t, "writeRole") => t = <<"writeRole">>
  /\ Starts(t, "checkUnused") => t = <<"checkUnused", "deleteRoles">>
  /\ Starts(t, "deleteRoles") => t = <<"deleteRoles">>
  /\ Starts(t, "countPerms") => t = <<"countPerms", "grantPerms", "findRole">>
  /\ Starts(t, "grantPerms") => t = <<"grantPerms", "findRole">>
  /\ Starts(t, "readLinks") => t = <<"readLinks", "readPerms">>
  /\ Starts(t, "readPerms") => t = <<"readPerms">>
  /\ Starts(t, "countRoles") => t \in {<<"countRoles", "giveRoles">>,
                                       <<"countRoles", "takeRole">>}
  /\ Starts(t, "giveRoles") => t = <<"giveRoles">>
  /\ Starts(t, "takeRole") => t = <<"takeRole">>
  /\ Starts(t, "insertPerm") => t = <<"insertPerm">>
  /\ Starts(t, "findPerm") => t \in {<<"findPerm", "writePerm">>,
                                     <<"findPerm", "deletePerms">>}
  /\ Starts(t, "writePerm") => t = <<"writePerm">>
  /\ Starts(t, "deletePerms") => t = <<"deletePerms">>
  /\ Starts(t, "count") => t \in {<<"count", "rows">>, <<"count">>}
  /\ Starts(t, "rows") => t \in {<<"rows", "count">>, <<"rows">>}
  /\ Starts(t, "upsertPerms") =>
       t = <<"upsertPerms", "upsertRoles", "upsertGrants", "upsertHolders">>
  /\ Starts(t, "upsertRoles") => t = <<"upsertRoles", "upsertGrants", "upsertHolders">>
  /\ Starts(t, "upsertGrants") => t = <<"upsertGrants", "upsertHolders">>
  /\ Starts(t, "upsertHolders") => t = <<"upsertHolders">>

Statuses == {"active", "inactive"}
NewRoles == [state : {"active"}, code : Codes, name : Codes]
Amendments == [state : Statuses \union {"keep"}, code : Codes \union {"keep"},
               name : Codes \union {"keep"}]
NewPerms == [state : {"active"}, code : PermCodes, batch : BOOLEAN]
Amends(r) == IF r.op = "updatePerm" THEN r.prow.code \in PermCodes
                                    ELSE r.prow.state \in Statuses

\* What a request has looked up was deleted since, if it is not there: of the
\* roles R, the permissions P and the links H to users.
RolesKnown(r, R) == \A i \in r.ids : i \in R \/ <<"role", i>> \in r.gone
PermsKnown(r, P) == \A p \in r.perms : p \in P \/ <<"perm", p>> \in r.gone
HoldersSeen(r, H) == {l \in H : l[2] \in r.ids} \subseteq r.done
IdsKept(r) == \A d \in r.done : d[1] = "role" => d[2] \in r.ids

Typed(r) == r.ids \subseteq RoleIds /\ r.perms \subseteq PermIds /\ r.user \in Users
Looked(r, t, R, P, H) ==
  /\ t = <<"insertRole">> => r.row \in NewRoles
  /\ t \in WriteTodos => r.ids # {} /\ r.row \in Amendments
  /\ t \in AssignTodos => r.ids # {}
  /\ t = <<"insertPerm">> => r.prow \in NewPerms
  /\ t \in AmendTodos => r.perms # {} /\ Amends(r)
  /\ Starts(t, "countPerms") => RolesKnown(r, R)
  /\ Starts(t, "grantPerms") => RolesKnown(r, R) /\ PermsKnown(r, P)
  /\ Starts(t, "giveRoles") => RolesKnown(r, R)
  /\ Starts(t, "deleteRoles") => HoldersSeen(r, H)
  /\ t \in SeedTodos => RolesKnown(r, R) /\ PermsKnown(r, P) /\ IdsKept(r)
Sane(r, R, P, H) == Shaped(r) /\ Typed(r) /\ Planned(r.todo) /\ Looked(r, r.todo, R, P, H)

Requests ==
  /\ DOMAIN req = Workers /\ req = [w \in Workers |-> req[w]]
  /\ \A w \in Workers : Sane(req[w], RolesThere, PermsThere, holders)

Inv == TypeOK /\ Requests /\ OrphansHaveCause

-----------------------------------------------------------------------------
(* What is left to do.                                                     *)
LEMMA NothingLeft ==
  ASSUME NEW r, NEW R, NEW P, NEW H
  PROVE  Planned(<<>>) /\ Looked(r, <<>>, R, P, H)
BY DEF Planned, Looked, Starts, WriteTodos, AssignTodos, AmendTodos, SeedTodos

LEMMA InsertRoleTodo ==
  ASSUME NEW r, NEW R, NEW P, NEW H, r.row \in NewRoles
  PROVE  Planned(<<"insertRole">>) /\ Looked(r, <<"insertRole">>, R, P, H)
BY DEF Planned, Looked, Starts, WriteTodos, AssignTodos, AmendTodos, SeedTodos

LEMMA WriteRoleTodo ==
  ASSUME NEW r, NEW R, NEW P, NEW H, r.ids # {}, r.row \in Amendments, NEW t \in WriteTodos
  PROVE  Planned(t) /\ Looked(r, t, R, P, H)
BY DEF Planned, Looked, Starts, WriteTodos, AssignTodos, AmendTodos, SeedTodos, FindTodos

LEMMA AssignTodo ==
  ASSUME NEW r, NEW R, NEW P, NEW H, r.ids # {}, NEW t \in AssignTodos,
         Starts(t, "findRole") \/ RolesKnown(r, R),
         Starts(t, "grantPerms") => PermsKnown(r, P)
  PROVE  Planned(t) /\ Looked(r, t, R, P, H)
BY DEF Planned, Looked, Starts, WriteTodos, AssignTodos, AmendTodos, SeedTodos, FindTodos

LEMMA AmendTodo ==
  ASSUME NEW r, NEW R, NEW P, NEW H, r.perms # {}, Amends(r), NEW t \in AmendTodos
  PROVE  Planned(t) /\ Looked(r, t, R, P, H)
BY DEF Planned, Looked, Starts, WriteTodos, AssignTodos, AmendTodos, SeedTodos, FindTodos

LEMMA InsertPermTodo ==
  ASSUME NEW r, NEW R, NEW P, NEW H, r.prow \in NewPerms
  PROVE  Planned(<<"insertPerm">>) /\ Looked(r, <<"insertPerm">>, R, P, H)
BY DEF Planned, Looked, Starts, WriteTodos, AssignTodos, AmendTodos, SeedTodos

LEMMA GiveTodo ==
  ASSUME NEW r, NEW R, NEW P, NEW H, RolesKnown(r, R)
  PROVE  Planned(<<"giveRoles">>) /\ Looked(r, <<"giveRoles">>, R, P, H)
BY DEF Planned, Looked, Starts, WriteTodos, AssignTodos, AmendTodos, SeedTodos

LEMMA DeleteTodo ==
  ASSUME NEW r, NEW R, NEW P, NEW H, HoldersSeen(r, H)
  PROVE  Planned(<<"deleteRoles">>) /\ Looked(r, <<"deleteRoles">>, R, P, H)
BY DEF Planned, Looked, Starts, WriteTodos, AssignTodos, AmendTodos, SeedTodos

LEMMA SeedTodo ==
  ASSUME NEW r, NEW R, NEW P, NEW H, NEW t \in SeedTodos,
         RolesKnown(r, R), PermsKnown(r, P), IdsKept(r)
  PROVE  Planned(t) /\ Looked(r, t, R, P, H)
BY DEF Planned, Looked, Starts, WriteTodos, AssignTodos, AmendTodos, SeedTodos

\* The others ask for nothing.
PlainTodos == {<<"findRole", "checkUnused", "deleteRoles">>,
               <<"findRole", "readLinks", "readPerms">>, <<"findRole">>,
               <<"checkUnused", "deleteRoles">>, <<"readLinks", "readPerms">>,
               <<"readPerms">>, <<"countRoles", "giveRoles">>,
               <<"countRoles", "takeRole">>, <<"takeRole">>,
               <<"findPerm", "deletePerms">>, <<"deletePerms">>, <<"count", "rows">>,
               <<"count">>, <<"rows", "count">>, <<"rows">>}

LEMMA PlainTodo ==
  ASSUME NEW r, NEW R, NEW P, NEW H, NEW t \in PlainTodos
  PROVE  Planned(t) /\ Looked(r, t, R, P, H)
BY DEF PlainTodos, Planned, Looked, Starts, WriteTodos, AssignTodos, AmendTodos, SeedTodos,
       FindTodos

-----------------------------------------------------------------------------
(* What is written to a request leaves its other fields alone.             *)
Aside(r, c) == c.gone = r.gone /\ c.row = r.row /\ c.prow = r.prow /\ c.op = r.op
Same(r, c) ==
  /\ Shaped(c) /\ Aside(r, c) /\ c.user = r.user
  /\ c.ids = r.ids /\ c.perms = r.perms /\ c.done = r.done

Went(r, t, a) == [r EXCEPT !.todo = t, !.answer = a]
Onward(r, t) == [r EXCEPT !.todo = t]
Turned(r, n, t) == [r EXCEPT !.page = n, !.todo = t]
Totalled(r, n) == [r EXCEPT !.total = n]
Seen(r, D) == [r EXCEPT !.done = D]
PermsTaken(r, P) == [r EXCEPT !.perms = P]
PermsDone(r, P, D) == [r EXCEPT !.perms = P, !.done = D]
IdsDone(r, S, D) == [r EXCEPT !.ids = S, !.done = D]
Touched(r, G, D, s) == [r EXCEPT !.moved = TRUE, !.gone = G, !.done = D, !.slipped = s]

LEMMA WentSame ==
  ASSUME NEW r, Shaped(r), NEW t, NEW a
  PROVE  Same(r, Went(r, t, a)) /\ Went(r, t, a).todo = t
BY DEF Shaped, Fields, Same, Aside, Went

LEMMA OnwardSame ==
  ASSUME NEW r, Shaped(r), NEW t
  PROVE  Same(r, Onward(r, t)) /\ Onward(r, t).todo = t
BY DEF Shaped, Fields, Same, Aside, Onward

LEMMA TurnedSame ==
  ASSUME NEW r, Shaped(r), NEW n, NEW t
  PROVE  Same(r, Turned(r, n, t)) /\ Turned(r, n, t).todo = t
BY DEF Shaped, Fields, Same, Aside, Turned

LEMMA TotalledSame ==
  ASSUME NEW r, Shaped(r), NEW n
  PROVE  Same(r, Totalled(r, n)) /\ Totalled(r, n).todo = r.todo
BY DEF Shaped, Fields, Same, Aside, Totalled

LEMMA SeenFields ==
  ASSUME NEW r, Shaped(r), NEW D
  PROVE  LET c == Seen(r, D) IN
         /\ Shaped(c) /\ Aside(r, c) /\ c.user = r.user /\ c.ids = r.ids
         /\ c.perms = r.perms /\ c.done = D /\ c.todo = r.todo
BY DEF Shaped, Fields, Aside, Seen

LEMMA PermsTakenFields ==
  ASSUME NEW r, Shaped(r), NEW P
  PROVE  LET c == PermsTaken(r, P) IN
         /\ Shaped(c) /\ Aside(r, c) /\ c.user = r.user /\ c.ids = r.ids
         /\ c.perms = P /\ c.done = r.done /\ c.todo = r.todo
BY DEF Shaped, Fields, Aside, PermsTaken

LEMMA PermsDoneFields ==
  ASSUME NEW r, Shaped(r), NEW P, NEW D
  PROVE  LET c == PermsDone(r, P, D) IN
         /\ Shaped(c) /\ Aside(r, c) /\ c.user = r.user /\ c.ids = r.ids
         /\ c.perms = P /\ c.done = D /\ c.todo = r.todo
BY DEF Shaped, Fields, Aside, PermsDone

LEMMA IdsDoneFields ==
  ASSUME NEW r, Shaped(r), NEW S, NEW D
  PROVE  LET c == IdsDone(r, S, D) IN
         /\ Shaped(c) /\ Aside(r, c) /\ c.user = r.user /\ c.ids = S
         /\ c.perms = r.perms /\ c.done = D /\ c.todo = r.todo
BY DEF Shaped, Fields, Aside, IdsDone

LEMMA TouchedFields ==
  ASSUME NEW r, Shaped(r), NEW G, NEW D, NEW s
  PROVE  LET c == Touched(r, G, D, s) IN
         /\ Shaped(c) /\ c.gone = G /\ c.row = r.row /\ c.prow = r.prow /\ c.op = r.op
         /\ c.user = r.user /\ c.ids = r.ids /\ c.perms = r.perms /\ c.done = D
         /\ c.todo = r.todo
BY DEF Shaped, Fields, Touched

-----------------------------------------------------------------------------
(* Requests that others have touched, and tables that have changed.        *)

\* What a call does to the tables it does not hide from the others.
Told(R, P, H, R2, P2, H2, dead, given) ==
  /\ \A i \in R \ R2 : <<"role", i>> \in dead
  /\ \A p \in P \ P2 : <<"perm", p>> \in dead
  /\ H2 \ H \subseteq given

LEMMA SameSane ==
  ASSUME NEW r, NEW c, NEW R, NEW P, NEW H, Sane(r, R, P, H), Same(r, c),
         Planned(c.todo), Looked(r, c.todo, R, P, H)
  PROVE  Sane(c, R, P, H)
BY DEF Sane, Same, Aside, Looked, Typed, Amends, RolesKnown, PermsKnown, HoldersSeen, IdsKept

LEMMA TouchedSane ==
  ASSUME NEW r, NEW R, NEW P, NEW H, Sane(r, R, P, H),
         NEW R2, NEW P2, NEW H2, NEW dead, NEW given,
         Told(R, P, H, R2, P2, H2, dead, given), NEW s, NEW D,
         D = IF Starts(r.todo, "deleteRoles") THEN r.done \union given ELSE r.done
  PROVE  Sane(Touched(r, r.gone \union dead, D, s), R2, P2, H2)
<1> DEFINE c == Touched(r, r.gone \union dead, D, s)
<1>1. /\ Shaped(c) /\ c.gone = r.gone \union dead /\ c.row = r.row /\ c.prow = r.prow
      /\ c.op = r.op /\ c.user = r.user /\ c.ids = r.ids /\ c.perms = r.perms
      /\ c.done = D /\ c.todo = r.todo
  BY TouchedFields DEF Sane
<1> HIDE DEF c
<1>2. RolesKnown(r, R) => RolesKnown(c, R2)
  BY <1>1 DEF RolesKnown, Told
<1>3. PermsKnown(r, P) => PermsKnown(c, P2)
  BY <1>1 DEF PermsKnown, Told
<1>4. Starts(r.todo, "deleteRoles") /\ HoldersSeen(r, H) => HoldersSeen(c, H2)
  BY <1>1 DEF HoldersSeen, Told
<1>5. r.todo \in SeedTodos => ~Starts(r.todo, "deleteRoles")
  BY DEF SeedTodos, Starts
<1>6. r.todo \in SeedTodos /\ IdsKept(r) => IdsKept(c)
  BY <1>1, <1>5 DEF IdsKept
<1>7. Looked(c, c.todo, R2, P2, H2)
  BY <1>1, <1>2, <1>3, <1>4, <1>6 DEF Looked, Sane, Amends
<1>8. QED
  BY <1>1, <1>7 DEF Sane, Typed, c

\* A table that has only grown, and links to users that have only gone.
LEMMA GrownSane ==
  ASSUME NEW r, NEW R, NEW P, NEW H, Sane(r, R, P, H),
         NEW R2, R \subseteq R2, NEW P2, P \subseteq P2, NEW H2, H2 \subseteq H
  PROVE  Sane(r, R2, P2, H2)
BY DEF Sane, Looked, RolesKnown, PermsKnown, HoldersSeen

\* The request w goes on as c, the others are as they were.
LEMMA Replaced ==
  ASSUME Requests, NEW w \in Workers, NEW c, Sane(c, RolesThere, PermsThere, holders),
         req' = [req EXCEPT ![w] = c], UNCHANGED <<role, perm, holders>>
  PROVE  Requests'
<1>1. RolesThere' = RolesThere /\ PermsThere' = PermsThere /\ holders' = holders
  BY DEF RolesThere, PermsThere, There
<1>2. /\ DOMAIN req' = Workers /\ req' = [v \in Workers |-> req'[v]]
      /\ req'[w] = c /\ \A v \in Workers \ {w} : req'[v] = req[v]
  BY Zenon DEF Requests
<1>3. QED
  BY <1>1, <1>2 DEF Requests

\* The request w has written and goes on as c, the others are told of it.
LEMMA Affected ==
  ASSUME Requests, NEW w \in Workers, NEW c, NEW dead, NEW given, NEW ins,
         Affects(w, c, dead, given, ins),
         Told(RolesThere, PermsThere, holders, RolesThere', PermsThere', holders', dead, given),
         Sane(c, RolesThere', PermsThere', holders')
  PROVE  Requests'
<1> DEFINE D(v) == IF Starts(req[v].todo, "deleteRoles") THEN req[v].done \union given
                                                         ELSE req[v].done
           s(v) == req[v].slipped \/ (ins /\ At(v, "rows"))
           t(v) == Touched(req[v], req[v].gone \union dead, D(v), s(v))
<1>1. req' = [v \in Workers |-> IF v = w THEN c ELSE t(v)]
  BY DEF Affects, Touched, At, Starts
<1>2. \A v \in Workers : Sane(t(v), RolesThere', PermsThere', holders')
  BY TouchedSane DEF Requests
<1> HIDE DEF t
<1>3. /\ DOMAIN req' = Workers /\ req' = [v \in Workers |-> req'[v]]
      /\ \A v \in Workers : req'[v] = IF v = w THEN c ELSE t(v)
  BY <1>1, Zenon
<1>4. QED
  BY <1>2, <1>3 DEF Requests

\* A refused request has nothing left to do.
LEMMA RefusedKeeps ==
  ASSUME Requests, NEW w \in Workers, NEW a, Refused(w, a),
         UNCHANGED <<role, perm, holders>>
  PROVE  Requests'
<1>1. Sane(req[w], RolesThere, PermsThere, holders) /\ Shaped(req[w])
  BY DEF Requests, Sane
<1>2. req' = [req EXCEPT ![w] = Went(req[w], <<>>, a)]
  BY DEF Refused, Went, Requests
<1>3. Sane(Went(req[w], <<>>, a), RolesThere, PermsThere, holders)
  BY <1>1, WentSame, NothingLeft, SameSane
<1>4. QED
  BY <1>2, <1>3, Replaced

\* A request that goes on with its next call.
LEMMA AfterSane ==
  ASSUME NEW r, NEW R, NEW P, NEW H, Sane(r, R, P, H),
         Planned(Tail(r.todo)), Looked(r, Tail(r.todo), R, P, H)
  PROVE  Sane(After(r), R, P, H)
<1>1. After(r) = Went(r, Tail(r.todo), IF Len(r.todo) = 1 THEN "done" ELSE r.answer)
  BY DEF After, Went
<1>2. QED
  BY <1>1, WentSame, SameSane DEF Sane

LEMMA GoesKeeps ==
  ASSUME Requests, NEW w \in Workers, NEW r, Goes(w, r), UNCHANGED <<role, perm, holders>>,
         Sane(r, RolesThere, PermsThere, holders), Planned(Tail(r.todo)),
         Looked(r, Tail(r.todo), RolesThere, PermsThere, holders)
  PROVE  Requests'
BY AfterSane, Replaced DEF Goes

-----------------------------------------------------------------------------
(* Steps that read.                                                        *)

LEMMA Unwritten ==
  ASSUME Inv, UNCHANGED <<role, perm, grants, holders, admitted, torn>>, Requests'
  PROVE  Inv'
BY DEF Inv, TypeOK, OrphansHaveCause, RolesThere, PermsThere, There

\* What is known of the request that takes a step.
LEMMA Acting ==
  ASSUME Inv, NEW w \in Workers, NEW call, At(w, call)
  PROVE  /\ Requests /\ Starts(req[w].todo, call)
         /\ Sane(req[w], RolesThere, PermsThere, holders)
         /\ Shaped(req[w]) /\ Typed(req[w]) /\ Planned(req[w].todo)
         /\ Looked(req[w], req[w].todo, RolesThere, PermsThere, holders)
BY DEF Inv, Requests, Sane, At, Starts

LEMMA FindRoleKeeps ==
  ASSUME Inv, NEW w \in Workers, FindRole(w)
  PROVE  Inv'
<1> DEFINE t == req[w].todo
           L(u) == Planned(u) /\ Looked(req[w], u, RolesThere, PermsThere, holders)
<1>1. UNCHANGED <<role, perm, grants, holders, admitted, torn>> /\ At(w, "findRole")
  BY DEF FindRole
<1>2. /\ Requests /\ Sane(req[w], RolesThere, PermsThere, holders)
      /\ Looked(req[w], t, RolesThere, PermsThere, holders) /\ t \in FindTodos
  BY <1>1, Acting DEF Planned
<1>3. CASE ~(req[w].ids \subseteq RolesThere)
  BY <1>1, <1>2, <1>3, RefusedKeeps, Unwritten DEF FindRole
<1>4. CASE req[w].ids \subseteq RolesThere
  <2>1. RolesKnown(req[w], RolesThere)
    BY <1>4 DEF RolesKnown
  <2>2. CASE t = <<"findRole", "writeRole">>
    <3>1. Tail(t) = <<"writeRole">>
      BY <2>2
    <3>2. req[w].ids # {} /\ req[w].row \in Amendments
      BY <1>2, <2>2 DEF Looked, WriteTodos
    <3>3. L(Tail(t))
      BY <3>1, <3>2, WriteRoleTodo DEF WriteTodos
    <3>4. QED
      BY <3>3, <1>1, <1>2, <1>4, GoesKeeps, Unwritten DEF FindRole
  <2>3. CASE t = <<"findRole", "checkUnused", "deleteRoles">>
    <3>1. Tail(t) = <<"checkUnused", "deleteRoles">>
      BY <2>3
    <3>2. L(Tail(t))
      BY <3>1, PlainTodo DEF PlainTodos
    <3>3. QED
      BY <3>2, <1>1, <1>2, <1>4, GoesKeeps, Unwritten DEF FindRole
  <2>4. CASE t = <<"findRole", "countPerms", "grantPerms", "findRole">>
    <3>1. Tail(t) = <<"countPerms", "grantPerms", "findRole">>
      BY <2>4
    <3>2. req[w].ids # {}
      BY <1>2, <2>4 DEF Looked, AssignTodos
    <3>3. /\ <<"countPerms", "grantPerms", "findRole">> \in AssignTodos
          /\ ~Starts(<<"countPerms", "grantPerms", "findRole">>, "grantPerms")
      BY DEF AssignTodos, Starts
    <3>4. L(Tail(t))
      BY <3>1, <3>2, <3>3, <2>1, AssignTodo
    <3>5. QED
      BY <3>4, <1>1, <1>2, <1>4, GoesKeeps, Unwritten DEF FindRole
  <2>5. CASE t = <<"findRole", "readLinks", "readPerms">>
    <3>1. Tail(t) = <<"readLinks", "readPerms">>
      BY <2>5
    <3>2. L(Tail(t))
      BY <3>1, PlainTodo DEF PlainTodos
    <3>3. QED
      BY <3>2, <1>1, <1>2, <1>4, GoesKeeps, Unwritten DEF FindRole
  <2>6. CASE t = <<"findRole">>
    <3>1. Tail(t) = <<>>
      BY <2>6
    <3>2. L(Tail(t))
      BY <3>1, NothingLeft
    <3>3. QED
      BY <3>2, <1>1, <1>2, <1>4, GoesKeeps, Unwritten DEF FindRole
  <2>7. QED
    BY <1>2, <2>2, <2>3, <2>4, <2>5, <2>6 DEF FindTodos
<1>5. QED
  BY <1>3, <1>4

LEMMA CheckUnusedKeeps ==
  ASSUME Inv, NEW w \in Workers, CheckUnused(w)
  PROVE  Inv'
<1> DEFINE t == req[w].todo
<1>1. UNCHANGED <<role, perm, grants, holders, admitted, torn>> /\ At(w, "checkUnused")
  BY DEF CheckUnused
<1>2. /\ Requests /\ Sane(req[w], RolesThere, PermsThere, holders)
      /\ t = <<"checkUnused", "deleteRoles">>
  BY <1>1, Acting DEF Planned
<1>3. ASSUME NEW a, Refused(w, a) PROVE Inv'
  BY <1>1, <1>2, <1>3, RefusedKeeps, Unwritten
<1>4. CASE Goes(w, req[w]) /\ ~Used(req[w].ids)
  <2>1. {l \in holders : l[2] \in req[w].ids} = {}
    BY <1>4 DEF Used, Inv, TypeOK
  <2>2. HoldersSeen(req[w], holders)
    BY <2>1 DEF HoldersSeen
  <2>3. Tail(t) = <<"deleteRoles">>
    BY <1>2
  <2>4. Planned(Tail(t)) /\ Looked(req[w], Tail(t), RolesThere, PermsThere, holders)
    BY <2>2, <2>3, DeleteTodo
  <2>5. QED
    BY <1>1, <1>2, <1>4, <2>4, GoesKeeps, Unwritten
<1>5. QED
  BY <1>3, <1>4 DEF CheckUnused

LEMMA CountPermsKeeps ==
  ASSUME Inv, NEW w \in Workers, CountPerms(w)
  PROVE  Inv'
<1> DEFINE t == req[w].todo
<1>1. UNCHANGED <<role, perm, grants, holders, admitted, torn>> /\ At(w, "countPerms")
  BY DEF CountPerms
<1>2. /\ Requests /\ Sane(req[w], RolesThere, PermsThere, holders) /\ Typed(req[w])
      /\ Starts(t, "countPerms") /\ t = <<"countPerms", "grantPerms", "findRole">>
      /\ Looked(req[w], t, RolesThere, PermsThere, holders)
  BY <1>1, Acting DEF Planned
<1>3. CASE Refused(w, "notFound")
  BY <1>1, <1>2, <1>3, RefusedKeeps, Unwritten
<1>4. CASE Goes(w, req[w]) /\ \A p \in req[w].perms : perm[p].state = "active"
  <2>1. PermsKnown(req[w], PermsThere)
    BY <1>2, <1>4 DEF PermsKnown, PermsThere, There, Typed
  <2>2. RolesKnown(req[w], RolesThere) /\ req[w].ids # {}
    BY <1>2 DEF Looked, AssignTodos
  <2>3. Tail(t) = <<"grantPerms", "findRole">>
    BY <1>2
  <2>4. Planned(Tail(t)) /\ Looked(req[w], Tail(t), RolesThere, PermsThere, holders)
    BY <2>1, <2>2, <2>3, AssignTodo DEF AssignTodos
  <2>5. QED
    BY <1>1, <1>2, <1>4, <2>4, GoesKeeps, Unwritten
<1>5. QED
  BY <1>3, <1>4 DEF CountPerms

LEMMA CountRolesKeeps ==
  ASSUME Inv, NEW w \in Workers, CountRoles(w)
  PROVE  Inv'
<1> DEFINE t == req[w].todo
<1>1. UNCHANGED <<role, perm, grants, holders, admitted, torn>> /\ At(w, "countRoles")
  BY DEF CountRoles
<1>2. /\ Requests /\ Sane(req[w], RolesThere, PermsThere, holders) /\ Typed(req[w])
      /\ t \in {<<"countRoles", "giveRoles">>, <<"countRoles", "takeRole">>}
  BY <1>1, Acting DEF Planned
<1>3. CASE Refused(w, "notFound")
  BY <1>1, <1>2, <1>3, RefusedKeeps, Unwritten
<1>4. CASE Goes(w, req[w]) /\ \A i \in req[w].ids : role[i].state = "active"
  <2>1. RolesKnown(req[w], RolesThere)
    BY <1>2, <1>4 DEF RolesKnown, RolesThere, There, Typed
  <2>2. CASE t = <<"countRoles", "giveRoles">>
    <3>1. Tail(t) = <<"giveRoles">>
      BY <2>2
    <3>2. Planned(Tail(t)) /\ Looked(req[w], Tail(t), RolesThere, PermsThere, holders)
      BY <2>1, <3>1, GiveTodo
    <3>3. QED
      BY <1>1, <1>2, <1>4, <3>2, GoesKeeps, Unwritten
  <2>3. CASE t = <<"countRoles", "takeRole">>
    <3>1. Tail(t) = <<"takeRole">>
      BY <2>3
    <3>2. Planned(Tail(t)) /\ Looked(req[w], Tail(t), RolesThere, PermsThere, holders)
      BY <3>1, PlainTodo DEF PlainTodos
    <3>3. QED
      BY <1>1, <1>2, <1>4, <3>2, GoesKeeps, Unwritten
  <2>4. QED
    BY <1>2, <2>2, <2>3
<1>5. QED
  BY <1>3, <1>4 DEF CountRoles

LEMMA FindPermKeeps ==
  ASSUME Inv, NEW w \in Workers, FindPerm(w)
  PROVE  Inv'
<1> DEFINE t == req[w].todo
<1>1. UNCHANGED <<role, perm, grants, holders, admitted, torn>> /\ At(w, "findPerm")
  BY DEF FindPerm
<1>2. /\ Requests /\ Sane(req[w], RolesThere, PermsThere, holders)
      /\ t \in {<<"findPerm", "writePerm">>, <<"findPerm", "deletePerms">>}
      /\ Looked(req[w], t, RolesThere, PermsThere, holders)
  BY <1>1, Acting DEF Planned
<1>3. CASE Refused(w, "notFound")
  BY <1>1, <1>2, <1>3, RefusedKeeps, Unwritten
<1>4. CASE Goes(w, req[w])
  <2>1. CASE t = <<"findPerm", "writePerm">>
    <3>1. Tail(t) = <<"writePerm">>
      BY <2>1
    <3>2. req[w].perms # {} /\ Amends(req[w])
      BY <1>2, <2>1 DEF Looked, AmendTodos
    <3>3. Planned(Tail(t)) /\ Looked(req[w], Tail(t), RolesThere, PermsThere, holders)
      BY <3>1, <3>2, AmendTodo DEF AmendTodos
    <3>4. QED
      BY <1>1, <1>2, <1>4, <3>3, GoesKeeps, Unwritten
  <2>2. CASE t = <<"findPerm", "deletePerms">>
    <3>1. Tail(t) = <<"deletePerms">>
      BY <2>2
    <3>2. Planned(Tail(t)) /\ Looked(req[w], Tail(t), RolesThere, PermsThere, holders)
      BY <3>1, PlainTodo DEF PlainTodos
    <3>3. QED
      BY <1>1, <1>2, <1>4, <3>2, GoesKeeps, Unwritten
  <2>3. QED
    BY <1>2, <2>1, <2>2
<1>5. QED
  BY <1>3, <1>4 DEF FindPerm

\* The permissions a request holds are replaced, and it has no use for what
\* was known of the former ones.
LEMMA ReadKeeps ==
  ASSUME Inv, NEW w \in Workers, UNCHANGED <<role, perm, grants, holders, admitted, torn>>,
         Requests, Sane(req[w], RolesThere, PermsThere, holders),
         req[w].todo \in {<<"readLinks", "readPerms">>, <<"readPerms">>},
         NEW P \in SUBSET PermIds, Goes(w, PermsTaken(req[w], P))
  PROVE  Inv'
<1> DEFINE c == PermsTaken(req[w], P)
<1>1. /\ Shaped(c) /\ Aside(req[w], c) /\ c.user = req[w].user /\ c.ids = req[w].ids
      /\ c.perms = P /\ c.done = req[w].done /\ c.todo = req[w].todo
  BY PermsTakenFields DEF Sane
<1>2. Goes(w, c)
  OBVIOUS
<1> HIDE DEF c
<1>3. c.todo \in PlainTodos
  BY <1>1 DEF PlainTodos
<1>4. Sane(c, RolesThere, PermsThere, holders)
  BY <1>1, <1>3, PlainTodo DEF Sane, Typed
<1>5. Tail(c.todo) \in {<<"readPerms">>, <<>>}
  <2>1. CASE c.todo = <<"readLinks", "readPerms">>
    BY <2>1
  <2>2. CASE c.todo = <<"readPerms">>
    BY <2>2
  <2>3. QED
    BY <1>1, <2>1, <2>2
<1>6. Planned(Tail(c.todo)) /\ Looked(c, Tail(c.todo), RolesThere, PermsThere, holders)
  BY <1>5, PlainTodo, NothingLeft DEF PlainTodos
<1>7. QED
  BY <1>2, <1>4, <1>6, GoesKeeps, Unwritten

LEMMA ReadLinksKeeps ==
  ASSUME Inv, NEW w \in Workers, ReadLinks(w)
  PROVE  Inv'
<1> DEFINE P == {l[2] : l \in {m \in grants : m[1] \in req[w].ids}}
<1>1. UNCHANGED <<role, perm, grants, holders, admitted, torn>> /\ At(w, "readLinks")
  BY DEF ReadLinks
<1>2. /\ Requests /\ Sane(req[w], RolesThere, PermsThere, holders)
      /\ req[w].todo = <<"readLinks", "readPerms">>
  BY <1>1, Acting DEF Planned
<1>3. P \in SUBSET PermIds
  BY DEF Inv, TypeOK
<1>4. Goes(w, PermsTaken(req[w], P))
  BY DEF ReadLinks, PermsTaken
<1>5. QED
  BY <1>1, <1>2, <1>3, <1>4, ReadKeeps

LEMMA ReadPermsKeeps ==
  ASSUME Inv, NEW w \in Workers, ReadPerms(w)
  PROVE  Inv'
<1> DEFINE P == req[w].perms \intersect PermsThere
<1>1. UNCHANGED <<role, perm, grants, holders, admitted, torn>> /\ At(w, "readPerms")
  BY DEF ReadPerms
<1>2. /\ Requests /\ Sane(req[w], RolesThere, PermsThere, holders)
      /\ req[w].todo = <<"readPerms">>
  BY <1>1, Acting DEF Planned
<1>3. P \in SUBSET PermIds
  BY DEF PermsThere
<1>4. Goes(w, PermsTaken(req[w], P))
  BY DEF ReadPerms, PermsTaken
<1>5. QED
  BY <1>1, <1>2, <1>3, <1>4, ReadKeeps

-----------------------------------------------------------------------------
(* Listings.                                                               *)
ListTodos == {<<"count", "rows">>, <<"count">>, <<"rows", "count">>, <<"rows">>}

LEMMA ListTodo ==
  ASSUME NEW r, NEW R, NEW P, NEW H, NEW t \in ListTodos \union {<<>>}
  PROVE  Planned(t) /\ Looked(r, t, R, P, H)
BY PlainTodo, NothingLeft DEF ListTodos, PlainTodos

LEMMA ListTails ==
  ASSUME NEW t \in ListTodos
  PROVE  Tail(t) \in ListTodos \union {<<>>}
<1>1. CASE t = <<"count", "rows">>
  BY <1>1 DEF ListTodos
<1>2. CASE t = <<"count">>
  BY <1>2 DEF ListTodos
<1>3. CASE t = <<"rows", "count">>
  BY <1>3 DEF ListTodos
<1>4. CASE t = <<"rows">>
  BY <1>4 DEF ListTodos
<1>5. QED
  BY <1>1, <1>2, <1>3, <1>4 DEF ListTodos

\* A request that goes on in its listing.
LEMMA ListedSane ==
  ASSUME NEW r, NEW c, NEW R, NEW P, NEW H, Sane(r, R, P, H), Same(r, c),
         c.todo \in ListTodos \union {<<>>}
  PROVE  Sane(c, R, P, H)
<1>1. Planned(c.todo) /\ Looked(r, c.todo, R, P, H)
  BY ListTodo
<1>2. QED
  BY <1>1, SameSane

LEMMA TurnsSane ==
  ASSUME NEW r, NEW R, NEW P, NEW H, Sane(r, R, P, H), r.todo \in ListTodos
  PROVE  Sane(Turns(r), R, P, H)
<1>1. Shaped(r)
  BY DEF Sane
<1>2. CASE Len(r.todo) > 1
  <2>1. Turns(r) = Onward(r, Tail(r.todo))
    BY <1>2 DEF Turns, Onward
  <2>2. Same(r, Turns(r)) /\ Turns(r).todo = Tail(r.todo)
    BY <1>1, <2>1, OnwardSame
  <2>3. QED
    BY <2>2, ListTails, ListedSane
<1>3. CASE ~(Len(r.todo) > 1) /\ r.page < r.total
  <2>1. PICK t \in ListTodos : Turns(r) = Turned(r, r.page + 1, t)
    BY <1>3 DEF Turns, Turned, ListTodos
  <2>2. Same(r, Turns(r)) /\ Turns(r).todo = t
    BY <1>1, <2>1, TurnedSame
  <2>3. QED
    BY <2>2, ListedSane
<1>4. CASE ~(Len(r.todo) > 1) /\ ~(r.page < r.total)
  <2>1. Turns(r) = After(r)
    BY <1>4 DEF Turns
  <2>2. Planned(Tail(r.todo)) /\ Looked(r, Tail(r.todo), R, P, H)
    BY ListTails, ListTodo
  <2>3. QED
    BY <2>1, <2>2, AfterSane
<1>5. QED
  BY <1>2, <1>3, <1>4

LEMMA CountRowsKeeps ==
  ASSUME Inv, NEW w \in Workers, CountRows(w)
  PROVE  Inv'
<1> DEFINE n == Cardinality(Listed(w))
           c == Totalled(req[w], n)
<1>1. /\ UNCHANGED <<role, perm, grants, holders, admitted, torn>> /\ At(w, "count")
      /\ req' = [req EXCEPT ![w] = Turns(c)]
  BY DEF CountRows, Totalled
<1>2. /\ Requests /\ Sane(req[w], RolesThere, PermsThere, holders) /\ Shaped(req[w])
      /\ req[w].todo \in ListTodos
  BY <1>1, Acting DEF Planned, ListTodos
<1>3. Same(req[w], c) /\ c.todo = req[w].todo
  BY <1>2, TotalledSame
<1> HIDE DEF c
<1>4. Sane(c, RolesThere, PermsThere, holders)
  BY <1>2, <1>3, ListTodo, SameSane
<1>5. QED
  BY <1>1, <1>2, <1>3, <1>4, TurnsSane, Replaced, Unwritten

LEMMA FindRowsKeeps ==
  ASSUME Inv, NEW w \in Workers, FindRows(w)
  PROVE  Inv'
<1>1. UNCHANGED <<role, perm, grants, holders, admitted, torn>> /\ At(w, "rows")
  BY DEF FindRows
<1>2. /\ Requests /\ Sane(req[w], RolesThere, PermsThere, holders) /\ Shaped(req[w])
      /\ req[w].todo \in ListTodos /\ Typed(req[w])
  BY <1>1, Acting DEF Planned, ListTodos
<1>3. CASE req' = [req EXCEPT ![w] = Turns(req[w])]
  BY <1>1, <1>2, <1>3, TurnsSane, Replaced, Unwritten
<1>4. ASSUME NEW i, req' = [req EXCEPT ![w] = Turns(Seen(req[w], req[w].done \union {i}))]
      PROVE  Inv'
  <2> DEFINE c == Seen(req[w], req[w].done \union {i})
  <2>1. Shaped(c) /\ c.ids = req[w].ids /\ c.perms = req[w].perms
                  /\ c.user = req[w].user /\ c.todo = req[w].todo
    BY <1>2, SeenFields
  <2>2. req' = [req EXCEPT ![w] = Turns(c)]
    BY <1>4
  <2> HIDE DEF c
  <2>3. Sane(c, RolesThere, PermsThere, holders)
    BY <1>2, <2>1, ListTodo DEF Sane, Typed
  <2>4. QED
    BY <1>1, <1>2, <2>1, <2>2, <2>3, TurnsSane, Replaced, Unwritten
<1>5. CASE \E i \in Page(w, req[w].page) :
             req' = [req EXCEPT ![w] = Turns([req[w] EXCEPT !.done = @ \union {i}])]
  <2>1. PICK i \in Page(w, req[w].page) :
          req' = [req EXCEPT ![w] = Turns([req[w] EXCEPT !.done = @ \union {i}])]
    BY <1>5, Zenon
  <2>2. req' = [req EXCEPT ![w] = Turns(Seen(req[w], req[w].done \union {i}))]
    BY <2>1, Zenon DEF Seen
  <2>3. QED
    BY <1>4, <2>2
<1>6. QED
  BY <1>3, <1>5 DEF FindRows

LEMMA FailKeeps ==
  ASSUME Inv, NEW w \in Workers, Fail(w)
  PROVE  Inv'
BY RefusedKeeps, Unwritten DEF Fail, Inv

-----------------------------------------------------------------------------
(* Rows are written.                                                       *)

LEMMA Least ==
  ASSUME NEW S \in SUBSET Nat, S # {}
  PROVE  \E i \in S : \A j \in S : i <= j
<1> DEFINE R == OpToRel(<, Nat)
<1>1. IsWellFoundedOn(R, Nat)
  BY NatLessThanWellFounded
<1> HIDE DEF R
<1>2. PICK i \in S : \A j \in S : ~(<<j, i>> \in R)
  BY <1>1, WFMin
<1>3. ASSUME NEW j \in S PROVE i <= j
  <2>1. <<j, i>> \notin R /\ i \in Nat /\ j \in Nat
    BY <1>2
  <2>2. j < i => <<j, i>> \in R
    BY <2>1 DEF R, OpToRel
  <2>3. QED
    BY <2>1, <2>2
<1>4. QED
  BY <1>3

LEMMA NextRoleUnborn ==
  ASSUME RoomForRole
  PROVE  NextRole \in RoleIds /\ role[NextRole].state = "unborn"
<1> DEFINE S == {i \in RoleIds : role[i].state = "unborn"}
<1>1. S \in SUBSET Nat /\ S # {}
  BY CatalogAssumption DEF RoomForRole
<1>2. \E i \in S : \A j \in S : i <= j
  BY <1>1, Least
<1>3. \E i \in RoleIds : role[i].state = "unborn" /\
        \A j \in RoleIds : role[j].state = "unborn" => i <= j
  BY <1>2
<1>4. QED
  BY <1>3 DEF NextRole

LEMMA NextPermUnborn ==
  ASSUME RoomForPerm
  PROVE  NextPerm \in PermIds /\ perm[NextPerm].state = "unborn"
<1> DEFINE S == {p \in PermIds : perm[p].state = "unborn"}
<1>1. S \in SUBSET Nat /\ S # {}
  BY CatalogAssumption DEF RoomForPerm
<1>2. \E p \in S : \A q \in S : p <= q
  BY <1>1, Least
<1>3. \E p \in PermIds : perm[p].state = "unborn" /\
        \A q \in PermIds : perm[q].state = "unborn" => p <= q
  BY <1>2
<1>4. QED
  BY <1>3 DEF NextPerm

\* Nothing is hidden from the others by a call after which no row and no
\* link to a user has gone or come.
LEMMA NothingToTell ==
  ASSUME NEW R, NEW P, NEW H, NEW R2, R \subseteq R2, NEW P2, P \subseteq P2,
         NEW H2, H2 \subseteq H, NEW dead, NEW given
  PROVE  Told(R, P, H, R2, P2, H2, dead, given)
BY DEF Told

\* A role's row is written and its unique columns are its own.
LEMMA RoleWritten ==
  ASSUME Inv, NEW i \in RoleIds, NEW r \in RoleRow, There(r),
         \A j \in RolesThere \ {i} : role[j].code # r.code /\ role[j].name # r.name,
         role' = [role EXCEPT ![i] = r],
         UNCHANGED <<perm, grants, holders, admitted, torn>>
  PROVE  /\ TypeOK' /\ OrphansHaveCause'
         /\ RolesThere' = RolesThere \union {i} /\ PermsThere' = PermsThere
<1>1. role \in [RoleIds -> RoleRow] /\ role' \in [RoleIds -> RoleRow]
  BY DEF Inv, TypeOK
<1>2. RolesThere' = RolesThere \union {i} /\ PermsThere' = PermsThere
  BY <1>1 DEF RolesThere, PermsThere
<1>3. ASSUME NEW j \in RolesThere', NEW k \in RolesThere',
             role'[j].code = role'[k].code \/ role'[j].name = role'[k].name
      PROVE  j = k
  BY <1>1, <1>2, <1>3 DEF Inv, TypeOK
<1>4. TypeOK'
  BY <1>1, <1>2, <1>3 DEF Inv, TypeOK
<1>5. OrphansHaveCause'
  BY <1>2 DEF Inv, OrphansHaveCause
<1>6. QED
  BY <1>2, <1>4, <1>5

LEMMA PermWritten ==
  ASSUME Inv, NEW p \in PermIds, NEW r \in PermRow, There(r),
         \A q \in PermsThere \ {p} : perm[q].code # r.code,
         perm' = [perm EXCEPT ![p] = r],
         UNCHANGED <<role, grants, holders, admitted, torn>>
  PROVE  /\ TypeOK' /\ OrphansHaveCause'
         /\ PermsThere' = PermsThere \union {p} /\ RolesThere' = RolesThere
<1>1. perm \in [PermIds -> PermRow] /\ perm' \in [PermIds -> PermRow]
  BY DEF Inv, TypeOK
<1>2. PermsThere' = PermsThere \union {p} /\ RolesThere' = RolesThere
  BY <1>1 DEF RolesThere, PermsThere
<1>3. ASSUME NEW j \in PermsThere', NEW k \in PermsThere', perm'[j].code = perm'[k].code
      PROVE  j = k
  BY <1>1, <1>2, <1>3 DEF Inv, TypeOK
<1>4. TypeOK'
  BY <1>1, <1>2, <1>3 DEF Inv, TypeOK
<1>5. OrphansHaveCause'
  BY <1>2 DEF Inv, OrphansHaveCause
<1>6. QED
  BY <1>2, <1>4, <1>5

\* The last call of a request adds to the tables.
LEMMA LastCall ==
  ASSUME Requests, NEW w \in Workers, NEW dead, NEW given, NEW ins,
         Affects(w, After(req[w]), dead, given, ins), Tail(req[w].todo) = <<>>,
         Told(RolesThere, PermsThere, holders, RolesThere', PermsThere', holders', dead, given)
  PROVE  Requests'
<1> DEFINE c == After(req[w])
<1>1. c = Went(req[w], Tail(req[w].todo),
               IF Len(req[w].todo) = 1 THEN "done" ELSE req[w].answer)
  BY DEF After, Went
<1>2. Affects(w, c, dead, given, ins)
  OBVIOUS
<1> HIDE DEF c
<1>3. Same(req[w], c) /\ c.todo = <<>> /\ Typed(req[w])
  <2>1. Shaped(req[w]) /\ Typed(req[w])
    BY DEF Requests, Sane
  <2>2. PICK a : c = Went(req[w], Tail(req[w].todo), a)
    BY <1>1, Zenon
  <2>3. Same(req[w], c) /\ c.todo = Tail(req[w].todo)
    BY <2>1, <2>2, WentSame
  <2>4. QED
    BY <2>1, <2>3
<1>4. Sane(c, RolesThere', PermsThere', holders')
  BY <1>3, NothingLeft DEF Sane, Typed, Same
<1>5. QED
  BY <1>2, <1>4, Affected

LEMMA InsertRoleKeeps ==
  ASSUME Inv, NEW w \in Workers, InsertRole(w)
  PROVE  Inv'
<1> DEFINE r == req[w].row
<1>1. UNCHANGED <<perm, grants, holders, admitted, torn>> /\ At(w, "insertRole")
  BY DEF InsertRole
<1>2. Requests /\ req[w].todo = <<"insertRole">> /\ r \in NewRoles
  BY <1>1, Acting DEF Planned, Looked
<1>3. CASE Refused(w, "conflict") /\ UNCHANGED role
  BY <1>1, <1>2, <1>3, RefusedKeeps, Unwritten
<1>4. CASE /\ ~Clash(r, 0) /\ RoomForRole
           /\ role' = [role EXCEPT ![NextRole] = r]
           /\ Affects(w, After(req[w]), {}, {}, TRUE)
  <2>1. NextRole \in RoleIds
    BY <1>4, NextRoleUnborn
  <2>2. r \in RoleRow /\ There(r)
    BY <1>2 DEF NewRoles, RoleRow, There
  <2>3. \A j \in RolesThere : role[j].code # r.code /\ role[j].name # r.name
    BY <1>4, CatalogAssumption DEF Clash, RolesThere
  <2>4. /\ TypeOK' /\ OrphansHaveCause'
        /\ RolesThere' = RolesThere \union {NextRole} /\ PermsThere' = PermsThere
    BY <1>1, <1>4, <2>1, <2>2, <2>3, RoleWritten
  <2>5. Told(RolesThere, PermsThere, holders, RolesThere', PermsThere', holders', {}, {})
    BY <1>1, <2>4, NothingToTell
  <2>6. Tail(req[w].todo) = <<>>
    BY <1>2
  <2>7. Requests'
    BY <1>2, <1>4, <2>5, <2>6, LastCall
  <2>8. QED
    BY <2>4, <2>7 DEF Inv
<1>5. QED
  BY <1>3, <1>4 DEF InsertRole

LEMMA KeptTyped ==
  ASSUME NEW n \in Amendments, NEW o \in RoleRow, There(o)
  PROVE  Kept(n, o) \in RoleRow /\ There(Kept(n, o))
<1>1. DOMAIN o = {"state", "code", "name"} /\ o = [f \in DOMAIN o |-> o[f]]
  BY DEF RoleRow
<1>2. Kept(n, o) = [state |-> IF n.state = "keep" THEN o.state ELSE n.state,
                    code |-> IF n.code = "keep" THEN o.code ELSE n.code,
                    name |-> IF n.name = "keep" THEN o.name ELSE n.name]
  BY <1>1 DEF Kept
<1>3. QED
  BY <1>2 DEF RoleRow, Amendments, There, Statuses

LEMMA WriteRoleKeeps ==
  ASSUME Inv, NEW w \in Workers, WriteRole(w)
  PROVE  Inv' /\ RolesThere \subseteq RolesThere'
<1>1. UNCHANGED <<perm, grants, holders, admitted, torn>> /\ At(w, "writeRole")
  BY DEF WriteRole
<1>2. /\ Requests /\ req[w].todo = <<"writeRole">> /\ Typed(req[w])
      /\ req[w].ids # {} /\ req[w].row \in Amendments
  BY <1>1, Acting DEF Planned, Looked, WriteTodos
<1>3. PICK i \in req[w].ids : TRUE
  BY <1>2
<1> DEFINE new == Kept(req[w].row, role[i])
<1>4. i \in RoleIds /\ role[i] \in RoleRow
  BY <1>2, <1>3 DEF Typed, Inv, TypeOK
<1>5. CASE i \notin RolesThere \/ Clash(new, i)
  <2>1. PICK a : Refused(w, a) /\ UNCHANGED role
    BY <1>3, <1>5 DEF WriteRole
  <2>2. Inv'
    BY <1>1, <1>2, <2>1, RefusedKeeps, Unwritten
  <2>3. QED
    BY <2>1, <2>2 DEF RolesThere
<1>6. CASE i \in RolesThere /\ ~Clash(new, i)
  <2>1. role' = [role EXCEPT ![i] = new] /\ Affects(w, After(req[w]), {}, {}, FALSE)
    BY <1>3, <1>6 DEF WriteRole
  <2>2. new \in RoleRow /\ There(new)
    BY <1>2, <1>4, <1>6, KeptTyped DEF RolesThere
  <2>3. \A j \in RolesThere \ {i} : role[j].code # new.code /\ role[j].name # new.name
    BY <1>6 DEF Clash
  <2> HIDE DEF new
  <2>4. /\ TypeOK' /\ OrphansHaveCause'
        /\ RolesThere' = RolesThere \union {i} /\ PermsThere' = PermsThere
    BY <1>1, <1>4, <2>1, <2>2, <2>3, RoleWritten
  <2>5. Told(RolesThere, PermsThere, holders, RolesThere', PermsThere', holders', {}, {})
    BY <1>1, <2>4, NothingToTell
  <2>6. Tail(req[w].todo) = <<>>
    BY <1>2
  <2>7. Requests'
    BY <1>2, <2>1, <2>5, <2>6, LastCall
  <2>8. QED
    BY <2>4, <2>7 DEF Inv
<1>7. QED
  BY <1>5, <1>6

LEMMA InsertPermKeeps ==
  ASSUME Inv, NEW w \in Workers, InsertPerm(w)
  PROVE  Inv'
<1> DEFINE r == req[w].prow
<1>1. UNCHANGED <<role, grants, holders, admitted, torn>> /\ At(w, "insertPerm")
  BY DEF InsertPerm
<1>2. Requests /\ req[w].todo = <<"insertPerm">> /\ r \in NewPerms
  BY <1>1, Acting DEF Planned, Looked
<1>3. CASE Refused(w, "conflict") /\ UNCHANGED perm
  BY <1>1, <1>2, <1>3, RefusedKeeps, Unwritten
<1>4. CASE /\ ~ \E p \in PermsThere : perm[p].code = r.code
           /\ RoomForPerm
           /\ perm' = [perm EXCEPT ![NextPerm] = r]
           /\ Affects(w, After(req[w]), {}, {}, TRUE)
  <2>1. NextPerm \in PermIds
    BY <1>4, NextPermUnborn
  <2>2. r \in PermRow /\ There(r)
    BY <1>2 DEF NewPerms, PermRow, There
  <2>3. /\ TypeOK' /\ OrphansHaveCause'
        /\ PermsThere' = PermsThere \union {NextPerm} /\ RolesThere' = RolesThere
    BY <1>1, <1>4, <2>1, <2>2, PermWritten
  <2>4. Told(RolesThere, PermsThere, holders, RolesThere', PermsThere', holders', {}, {})
    BY <1>1, <2>3, NothingToTell
  <2>5. Tail(req[w].todo) = <<>>
    BY <1>2
  <2>6. Requests'
    BY <1>2, <1>4, <2>4, <2>5, LastCall
  <2>7. QED
    BY <2>3, <2>6 DEF Inv
<1>5. QED
  BY <1>3, <1>4 DEF InsertPerm

LEMMA AmendedTyped ==
  ASSUME NEW r, Amends(r), NEW o \in PermRow, There(o)
  PROVE  Amended(r, o) \in PermRow /\ There(Amended(r, o))
<1>1. CASE r.op = "updatePerm"
  BY <1>1 DEF Amends, Amended, PermRow, There
<1>2. CASE r.op # "updatePerm"
  BY <1>2 DEF Amends, Amended, PermRow, There, Statuses
<1>3. QED
  BY <1>1, <1>2

LEMMA WritePermKeeps ==
  ASSUME Inv, NEW w \in Workers, WritePerm(w)
  PROVE  Inv' /\ PermsThere \subseteq PermsThere'
<1>1. UNCHANGED <<role, grants, holders, admitted, torn>> /\ At(w, "writePerm")
  BY DEF WritePerm
<1>2. /\ Requests /\ req[w].todo = <<"writePerm">> /\ Typed(req[w])
      /\ req[w].perms # {} /\ Amends(req[w])
  BY <1>1, Acting DEF Planned, Looked, AmendTodos
<1>3. PICK p \in req[w].perms : TRUE
  BY <1>2
<1> DEFINE new == Amended(req[w], perm[p])
<1>4. p \in PermIds /\ perm[p] \in PermRow
  BY <1>2, <1>3 DEF Typed, Inv, TypeOK
<1>5. CASE p \notin PermsThere \/ \E q \in PermsThere \ {p} : perm[q].code = new.code
  <2>1. PICK a : Refused(w, a) /\ UNCHANGED perm
    BY <1>3, <1>5 DEF WritePerm
  <2>2. Inv'
    BY <1>1, <1>2, <2>1, RefusedKeeps, Unwritten
  <2>3. QED
    BY <2>1, <2>2 DEF PermsThere
<1>6. CASE p \in PermsThere /\ ~ \E q \in PermsThere \ {p} : perm[q].code = new.code
  <2>1. perm' = [perm EXCEPT ![p] = new] /\ Affects(w, After(req[w]), {}, {}, FALSE)
    BY <1>3, <1>6 DEF WritePerm
  <2>2. new \in PermRow /\ There(new)
    BY <1>2, <1>4, <1>6, AmendedTyped DEF PermsThere
  <2>3. \A q \in PermsThere \ {p} : perm[q].code # new.code
    BY <1>6
  <2> HIDE DEF new
  <2>4. /\ TypeOK' /\ OrphansHaveCause'
        /\ PermsThere' = PermsThere \union {p} /\ RolesThere' = RolesThere
    BY <1>1, <1>4, <2>1, <2>2, <2>3, PermWritten
  <2>5. Told(RolesThere, PermsThere, holders, RolesThere', PermsThere', holders', {}, {})
    BY <1>1, <2>4, NothingToTell
  <2>6. Tail(req[w].todo) = <<>>
    BY <1>2
  <2>7. Requests'
    BY <1>2, <2>1, <2>5, <2>6, LastCall
  <2>8. QED
    BY <2>4, <2>7 DEF Inv
<1>7. QED
  BY <1>5, <1>6

-----------------------------------------------------------------------------
(* Rows are deleted with their links.                                      *)

LEMMA DeletedRow ==
  /\ [NoRole EXCEPT !.state = "deleted"] \in RoleRow
  /\ ~There([NoRole EXCEPT !.state = "deleted"])
  /\ [NoPerm EXCEPT !.state = "deleted"] \in PermRow
  /\ ~There([NoPerm EXCEPT !.state = "deleted"])
  /\ NoRole \in RoleRow /\ ~There(NoRole) /\ NoPerm \in PermRow /\ ~There(NoPerm)
BY DEF NoRole, NoPerm, RoleRow, PermRow, There

\* S is what DeleteRoles finds of the roles it was asked to delete.
LEMMA RolesDeleted ==
  ASSUME Inv, NEW S \in SUBSET RolesThere,
         role' = [i \in RoleIds |-> IF i \in S THEN [NoRole EXCEPT !.state = "deleted"]
                                               ELSE role[i]],
         grants' = {l \in grants : l[1] \notin S},
         holders' = {l \in holders : l[2] \notin S},
         UNCHANGED <<perm, admitted, torn>>
  PROVE  /\ TypeOK' /\ OrphansHaveCause'
         /\ RolesThere' = RolesThere \ S /\ PermsThere' = PermsThere
<1> DEFINE gone == [NoRole EXCEPT !.state = "deleted"]
<1>1. gone \in RoleRow /\ ~There(gone)
  BY DeletedRow
<1>2. role' = [i \in RoleIds |-> IF i \in S THEN gone ELSE role[i]]
  OBVIOUS
<1> HIDE DEF gone
<1>3. role \in [RoleIds -> RoleRow] /\ role' \in [RoleIds -> RoleRow]
  BY <1>1, <1>2 DEF Inv, TypeOK
<1>4. RolesThere' = RolesThere \ S /\ PermsThere' = PermsThere
  BY <1>1, <1>2 DEF RolesThere, PermsThere
<1>5. \A i \in RolesThere' : i \in RolesThere /\ role'[i] = role[i]
  BY <1>2, <1>4 DEF RolesThere
<1>6. TypeOK'
  BY <1>3, <1>4, <1>5 DEF Inv, TypeOK
<1>7. OrphansHaveCause'
  BY <1>4 DEF Inv, OrphansHaveCause
<1>8. QED
  BY <1>4, <1>6, <1>7

LEMMA PermsDeleted ==
  ASSUME Inv, NEW S \in SUBSET PermsThere,
         perm' = [p \in PermIds |-> IF p \in S THEN [NoPerm EXCEPT !.state = "deleted"]
                                               ELSE perm[p]],
         grants' = {l \in grants : l[2] \notin S},
         UNCHANGED <<role, holders, admitted, torn>>
  PROVE  /\ TypeOK' /\ OrphansHaveCause'
         /\ PermsThere' = PermsThere \ S /\ RolesThere' = RolesThere
<1> DEFINE gone == [NoPerm EXCEPT !.state = "deleted"]
<1>1. gone \in PermRow /\ ~There(gone)
  BY DeletedRow
<1>2. perm' = [p \in PermIds |-> IF p \in S THEN gone ELSE perm[p]]
  OBVIOUS
<1> HIDE DEF gone
<1>3. perm \in [PermIds -> PermRow] /\ perm' \in [PermIds -> PermRow]
  BY <1>1, <1>2 DEF Inv, TypeOK
<1>4. PermsThere' = PermsThere \ S /\ RolesThere' = RolesThere
  BY <1>1, <1>2 DEF RolesThere, PermsThere
<1>5. \A p \in PermsThere' : p \in PermsThere /\ perm'[p] = perm[p]
  BY <1>2, <1>4 DEF PermsThere
<1>6. TypeOK'
  BY <1>3, <1>4, <1>5 DEF Inv, TypeOK
<1>7. OrphansHaveCause'
  BY <1>4 DEF Inv, OrphansHaveCause
<1>8. QED
  BY <1>4, <1>6, <1>7

LEMMA DeleteRolesKeeps ==
  ASSUME Inv, NEW w \in Workers, DeleteRoles(w)
  PROVE  Inv' /\ RolesThere \ RolesThere' \subseteq req[w].ids
<1> DEFINE S == req[w].ids \intersect RolesThere
<1>1. UNCHANGED <<perm, admitted, torn>> /\ At(w, "deleteRoles")
  BY DEF DeleteRoles
<1>2. Requests /\ req[w].todo = <<"deleteRoles">>
  BY <1>1, Acting DEF Planned
<1>3. CASE Refused(w, "notFound") /\ UNCHANGED <<role, grants, holders>>
  BY <1>1, <1>2, <1>3, RefusedKeeps, Unwritten DEF RolesThere
<1>4. CASE /\ role' = [i \in RoleIds |-> IF i \in S
                         THEN [NoRole EXCEPT !.state = "deleted"] ELSE role[i]]
           /\ grants' = {l \in grants : l[1] \notin S}
           /\ holders' = {l \in holders : l[2] \notin S}
           /\ Affects(w, After(req[w]), Dead("role", S), {}, FALSE)
  <2>1. /\ TypeOK' /\ OrphansHaveCause'
        /\ RolesThere' = RolesThere \ S /\ PermsThere' = PermsThere
    BY <1>1, <1>4, RolesDeleted
  <2>2. Told(RolesThere, PermsThere, holders, RolesThere', PermsThere', holders',
             Dead("role", S), {})
    BY <1>4, <2>1 DEF Told, Dead
  <2>3. Tail(req[w].todo) = <<>>
    BY <1>2
  <2>4. Requests'
    BY <1>2, <1>4, <2>2, <2>3, LastCall
  <2>5. QED
    BY <2>1, <2>4 DEF Inv
<1>5. QED
  BY <1>3, <1>4 DEF DeleteRoles

LEMMA DeletePermsKeeps ==
  ASSUME Inv, NEW w \in Workers, DeletePerms(w)
  PROVE  Inv'
<1> DEFINE S == req[w].perms \intersect PermsThere
<1>1. UNCHANGED <<role, holders, admitted, torn>> /\ At(w, "deletePerms")
  BY DEF DeletePerms
<1>2. Requests /\ req[w].todo = <<"deletePerms">>
  BY <1>1, Acting DEF Planned
<1>3. CASE Refused(w, "notFound") /\ UNCHANGED <<perm, grants>>
  BY <1>1, <1>2, <1>3, RefusedKeeps, Unwritten
<1>4. CASE /\ perm' = [p \in PermIds |-> IF p \in S
                         THEN [NoPerm EXCEPT !.state = "deleted"] ELSE perm[p]]
           /\ grants' = {l \in grants : l[2] \notin S}
           /\ Affects(w, After(req[w]), Dead("perm", S), {}, FALSE)
  <2>1. /\ TypeOK' /\ OrphansHaveCause'
        /\ PermsThere' = PermsThere \ S /\ RolesThere' = RolesThere
    BY <1>1, <1>4, PermsDeleted
  <2>2. Told(RolesThere, PermsThere, holders, RolesThere', PermsThere', holders',
             Dead("perm", S), {})
    BY <1>1, <2>1 DEF Told, Dead
  <2>3. Tail(req[w].todo) = <<>>
    BY <1>2
  <2>4. Requests'
    BY <1>2, <1>4, <2>2, <2>3, LastCall
  <2>5. QED
    BY <2>1, <2>4 DEF Inv
<1>5. QED
  BY <1>3, <1>4 DEF DeletePerms

-----------------------------------------------------------------------------
(* Links are written and taken away.                                       *)

\* Links come whose rows are there or were when they were looked up.
LEMMA GrantsLinked ==
  ASSUME Inv, NEW w \in Workers, NEW L \in SUBSET (RoleIds \X PermIds),
         \A l \in L : l[1] \in RolesThere \/ <<"role", l[1]>> \in req[w].gone,
         \A l \in L : l[2] \in PermsThere \/ <<"perm", l[2]>> \in req[w].gone,
         grants' \subseteq grants \union L, torn' = torn \union LateLinks(w, L),
         UNCHANGED <<role, perm, holders, admitted>>
  PROVE  /\ TypeOK' /\ OrphansHaveCause'
         /\ RolesThere' = RolesThere /\ PermsThere' = PermsThere
<1>1. RolesThere' = RolesThere /\ PermsThere' = PermsThere
  BY DEF RolesThere, PermsThere
<1>2. TypeOK'
  BY <1>1 DEF Inv, TypeOK
<1>3. ASSUME NEW l \in grants', l[1] \notin RolesThere \/ l[2] \notin PermsThere
      PROVE  <<"grant", l>> \in torn'
  <2>1. CASE l \in grants
    BY <1>3, <2>1 DEF Inv, OrphansHaveCause
  <2>2. CASE l \in L
    BY <1>3, <2>2 DEF LateLinks
  <2>3. QED
    BY <2>1, <2>2
<1>4. OrphansHaveCause'
  BY <1>1, <1>3 DEF Inv, OrphansHaveCause
<1>5. QED
  BY <1>1, <1>2, <1>4

LEMMA HoldersLinked ==
  ASSUME Inv, NEW w \in Workers, NEW L \in SUBSET (Users \X RoleIds),
         \A l \in L : l[2] \in RolesThere \/ <<"role", l[2]>> \in req[w].gone,
         holders' \subseteq holders \union L, torn' = torn \union LateHolders(w, L),
         UNCHANGED <<role, perm, grants, admitted>>
  PROVE  /\ TypeOK' /\ OrphansHaveCause'
         /\ RolesThere' = RolesThere /\ PermsThere' = PermsThere
<1>1. RolesThere' = RolesThere /\ PermsThere' = PermsThere
  BY DEF RolesThere, PermsThere
<1>2. TypeOK'
  BY <1>1 DEF Inv, TypeOK
<1>3. ASSUME NEW l \in holders', l[2] \notin RolesThere
      PROVE  <<"holder", l>> \in torn'
  <2>1. CASE l \in holders
    BY <1>3, <2>1 DEF Inv, OrphansHaveCause
  <2>2. CASE l \in L
    BY <1>3, <2>2 DEF LateHolders
  <2>3. QED
    BY <2>1, <2>2
<1>4. OrphansHaveCause'
  BY <1>1, <1>3 DEF Inv, OrphansHaveCause
<1>5. QED
  BY <1>1, <1>2, <1>4

LEMMA GrantPermsKeeps ==
  ASSUME Inv, NEW w \in Workers, GrantPerms(w)
  PROVE  Inv' /\ grants \subseteq grants'
<1>1. /\ UNCHANGED <<role, perm, holders, admitted>> /\ At(w, "grantPerms")
      /\ Affects(w, After(req[w]), {}, {}, FALSE)
  BY DEF GrantPerms
<1>2. /\ Requests /\ req[w].todo = <<"grantPerms", "findRole">> /\ Typed(req[w])
      /\ Sane(req[w], RolesThere, PermsThere, holders)
      /\ req[w].ids # {} /\ RolesKnown(req[w], RolesThere) /\ PermsKnown(req[w], PermsThere)
  BY <1>1, Acting DEF Planned, Looked, AssignTodos
<1>3. PICK i \in req[w].ids : TRUE
  BY <1>2
<1> DEFINE L == {i} \X req[w].perms
<1>4. grants' = Regranted(grants, i, req[w].perms) /\ torn' = torn \union LateLinks(w, L)
  BY <1>3 DEF GrantPerms
<1>5. grants \subseteq grants' /\ grants' \subseteq grants \union L
  BY <1>4 DEF Regranted
<1>6. L \in SUBSET (RoleIds \X PermIds)
  BY <1>2, <1>3 DEF Typed
<1>7. \A l \in L : /\ l[1] \in RolesThere \/ <<"role", l[1]>> \in req[w].gone
                   /\ l[2] \in PermsThere \/ <<"perm", l[2]>> \in req[w].gone
  BY <1>2, <1>3 DEF RolesKnown, PermsKnown
<1> HIDE DEF L
<1>8. /\ TypeOK' /\ OrphansHaveCause'
      /\ RolesThere' = RolesThere /\ PermsThere' = PermsThere
  BY <1>1, <1>4, <1>5, <1>6, <1>7, GrantsLinked
<1>9. Sane(After(req[w]), RolesThere', PermsThere', holders')
  <2>1. Tail(req[w].todo) = <<"findRole">>
    BY <1>2
  <2>2. /\ Planned(Tail(req[w].todo))
        /\ Looked(req[w], Tail(req[w].todo), RolesThere, PermsThere, holders)
    BY <2>1, PlainTodo DEF PlainTodos
  <2>3. Sane(After(req[w]), RolesThere, PermsThere, holders)
    BY <1>2, <2>2, AfterSane
  <2>4. QED
    BY <1>1, <1>8, <2>3
<1>10. Told(RolesThere, PermsThere, holders, RolesThere', PermsThere', holders', {}, {})
  BY <1>1, <1>8, NothingToTell
<1>11. Requests'
  BY <1>1, <1>2, <1>9, <1>10, Affected
<1>12. QED
  BY <1>5, <1>8, <1>11 DEF Inv

LEMMA GiveRolesKeeps ==
  ASSUME Inv, NEW w \in Workers, GiveRoles(w)
  PROVE  Inv'
<1> DEFINE L == {req[w].user} \X req[w].ids
<1>1. /\ UNCHANGED <<role, perm, grants, admitted>> /\ At(w, "giveRoles")
      /\ holders' = {l \in holders : l[1] # req[w].user} \union L
      /\ torn' = torn \union LateHolders(w, L)
      /\ Affects(w, After(req[w]), {}, L, FALSE)
  BY DEF GiveRoles
<1>2. /\ Requests /\ req[w].todo = <<"giveRoles">> /\ Typed(req[w])
      /\ RolesKnown(req[w], RolesThere)
  BY <1>1, Acting DEF Planned, Looked
<1>3. L \in SUBSET (Users \X RoleIds)
  BY <1>2 DEF Typed
<1>4. \A l \in L : l[2] \in RolesThere \/ <<"role", l[2]>> \in req[w].gone
  BY <1>2 DEF RolesKnown
<1>5. Tail(req[w].todo) = <<>>
  BY <1>2
<1> HIDE DEF L
<1>6. holders' \subseteq holders \union L
  BY <1>1
<1>7. /\ TypeOK' /\ OrphansHaveCause'
      /\ RolesThere' = RolesThere /\ PermsThere' = PermsThere
  BY <1>1, <1>3, <1>4, <1>6, HoldersLinked
<1>8. Told(RolesThere, PermsThere, holders, RolesThere', PermsThere', holders', {}, L)
  BY <1>6, <1>7 DEF Told
<1>9. Requests'
  BY <1>1, <1>2, <1>5, <1>8, LastCall
<1>10. QED
  BY <1>7, <1>9 DEF Inv

LEMMA TakeRoleKeeps ==
  ASSUME Inv, NEW w \in Workers, TakeRole(w)
  PROVE  Inv'
<1>1. /\ UNCHANGED <<role, perm, grants, admitted, torn>> /\ At(w, "takeRole")
      /\ holders' \subseteq holders /\ Affects(w, After(req[w]), {}, {}, FALSE)
  BY DEF TakeRole
<1>2. Requests /\ req[w].todo = <<"takeRole">>
  BY <1>1, Acting DEF Planned
<1>3. RolesThere' = RolesThere /\ PermsThere' = PermsThere
  BY <1>1 DEF RolesThere, PermsThere
<1>4. TypeOK' /\ OrphansHaveCause'
  BY <1>1, <1>3 DEF Inv, TypeOK, OrphansHaveCause
<1>5. Told(RolesThere, PermsThere, holders, RolesThere', PermsThere', holders', {}, {})
  BY <1>1, <1>3, NothingToTell
<1>6. Tail(req[w].todo) = <<>>
  BY <1>2
<1>7. Requests'
  BY <1>1, <1>2, <1>5, <1>6, LastCall
<1>8. QED
  BY <1>4, <1>7 DEF Inv

-----------------------------------------------------------------------------
(* The script.                                                             *)

LEMMA SeedTails ==
  ASSUME NEW t \in SeedTodos
  PROVE  Tail(t) \in SeedTodos \union {<<>>}
<1>1. CASE t = <<"upsertPerms", "upsertRoles", "upsertGrants", "upsertHolders">>
  BY <1>1 DEF SeedTodos
<1>2. CASE t = <<"upsertRoles", "upsertGrants", "upsertHolders">>
  BY <1>2 DEF SeedTodos
<1>3. CASE t = <<"upsertGrants", "upsertHolders">>
  BY <1>3 DEF SeedTodos
<1>4. CASE t = <<"upsertHolders">>
  BY <1>4 DEF SeedTodos
<1>5. QED
  BY <1>1, <1>2, <1>3, <1>4 DEF SeedTodos

\* What the script knows at every call.
Scripted(r, R, P, H) ==
  /\ Sane(r, R, P, H) /\ r.todo \in SeedTodos
  /\ RolesKnown(r, R) /\ PermsKnown(r, P) /\ IdsKept(r)

LEMMA Script ==
  ASSUME Inv, NEW w \in Workers,
         NEW call \in {"upsertPerms", "upsertRoles", "upsertGrants", "upsertHolders"},
         At(w, call)
  PROVE  Scripted(req[w], RolesThere, PermsThere, holders)
<1>1. /\ Sane(req[w], RolesThere, PermsThere, holders) /\ Planned(req[w].todo)
      /\ Looked(req[w], req[w].todo, RolesThere, PermsThere, holders)
      /\ Starts(req[w].todo, call)
  BY Acting
<1>2. req[w].todo \in SeedTodos
  BY <1>1 DEF Planned, SeedTodos
<1>3. QED
  BY <1>1, <1>2 DEF Looked, Scripted

LEMMA ScriptGoesOn ==
  ASSUME NEW r, NEW R, NEW P, NEW H, Scripted(r, R, P, H), NEW left
  PROVE  Sane(Upserted(r, left), R, P, H) /\ Planned(Tail(r.todo))
                                          /\ Looked(r, Tail(r.todo), R, P, H)
<1>1. Tail(r.todo) \in SeedTodos \union {<<>>}
  BY SeedTails DEF Scripted
<1>2. Planned(Tail(r.todo)) /\ Looked(r, Tail(r.todo), R, P, H)
  BY <1>1, SeedTodo, NothingLeft DEF Scripted
<1>3. Sane(After(r), R, P, H)
  BY <1>2, AfterSane DEF Scripted
<1>4. QED
  BY <1>2, <1>3 DEF Upserted, Scripted

\* Two tables that have only grown.
LEMMA GrownScripted ==
  ASSUME NEW r, NEW R, NEW P, NEW H, Scripted(r, R, P, H),
         NEW R2, R \subseteq R2, NEW P2, P \subseteq P2
  PROVE  Scripted(r, R2, P2, H)
BY GrownSane DEF Scripted, RolesKnown, PermsKnown

\* The script gets the id of a row that is there.
LEMMA PermGot ==
  ASSUME NEW r, NEW R, NEW P \in SUBSET PermIds, NEW H, Scripted(r, R, P, H),
         NEW p \in P, NEW c
  PROVE  Scripted(PermsDone(r, r.perms \union {p}, r.done \union {<<"perm", p, c>>}), R, P, H)
<1> DEFINE d == PermsDone(r, r.perms \union {p}, r.done \union {<<"perm", p, c>>})
<1>1. /\ Shaped(d) /\ Aside(r, d) /\ d.user = r.user /\ d.ids = r.ids
      /\ d.perms = r.perms \union {p} /\ d.done = r.done \union {<<"perm", p, c>>}
      /\ d.todo = r.todo
  BY PermsDoneFields DEF Scripted, Sane
<1> HIDE DEF d
<1>2. RolesKnown(d, R) /\ PermsKnown(d, P)
  BY <1>1 DEF Scripted, RolesKnown, PermsKnown, Aside
<1>3. IdsKept(d)
  <2>1. <<"perm", p, c>>[1] # "role"
    OBVIOUS
  <2>2. QED
    BY <1>1, <2>1 DEF Scripted, IdsKept
<1>4. Typed(d)
  BY <1>1 DEF Scripted, Sane, Typed
<1>5. Planned(d.todo) /\ Looked(d, d.todo, R, P, H)
  BY <1>1, <1>2, <1>3, SeedTodo DEF Scripted
<1>6. Scripted(d, R, P, H)
  BY <1>1, <1>2, <1>3, <1>4, <1>5 DEF Scripted, Sane
<1>7. QED
  BY <1>6 DEF d

LEMMA RoleGot ==
  ASSUME NEW r, NEW R \in SUBSET RoleIds, NEW P, NEW H, Scripted(r, R, P, H),
         NEW i \in R, NEW c
  PROVE  Scripted(IdsDone(r, r.ids \union {i}, r.done \union {<<"role", i, c>>}), R, P, H)
<1> DEFINE d == IdsDone(r, r.ids \union {i}, r.done \union {<<"role", i, c>>})
<1>1. /\ Shaped(d) /\ Aside(r, d) /\ d.user = r.user /\ d.ids = r.ids \union {i}
      /\ d.perms = r.perms /\ d.done = r.done \union {<<"role", i, c>>}
      /\ d.todo = r.todo
  BY IdsDoneFields DEF Scripted, Sane
<1> HIDE DEF d
<1>2. RolesKnown(d, R) /\ PermsKnown(d, P)
  BY <1>1 DEF Scripted, RolesKnown, PermsKnown, Aside
<1>3. IdsKept(d)
  <2>1. <<"role", i, c>>[2] = i
    OBVIOUS
  <2>2. QED
    BY <1>1, <2>1 DEF Scripted, IdsKept
<1>4. Typed(d)
  BY <1>1 DEF Scripted, Sane, Typed
<1>5. Planned(d.todo) /\ Looked(d, d.todo, R, P, H)
  BY <1>1, <1>2, <1>3, SeedTodo DEF Scripted
<1>6. Scripted(d, R, P, H)
  BY <1>1, <1>2, <1>3, <1>4, <1>5 DEF Scripted, Sane
<1>7. QED
  BY <1>6 DEF d

LEMMA UpsertPermsKeeps ==
  ASSUME Inv, NEW w \in Workers, UpsertPerms(w)
  PROVE  Inv'
<1> DEFINE r == req[w]
           D(p, c) == PermsDone(r, r.perms \union {p}, r.done \union {<<"perm", p, c>>})
<1>1. UNCHANGED <<role, grants, holders, admitted, torn>> /\ At(w, "upsertPerms")
  BY DEF UpsertPerms
<1>2. Requests /\ Scripted(r, RolesThere, PermsThere, holders)
  BY <1>1, Script DEF Inv
<1> DEFINE last == Cardinality(r.done) + 1 < Cardinality(Sample)
           E(p, c) == [r EXCEPT !.perms = @ \union {p},
                                !.done = @ \union {<<"perm", p, c>>}]
<1>3. PICK c \in Sample :
        IF \E p \in PermsThere : perm[p].code = c
          THEN \E p \in {p \in PermsThere : perm[p].code = c} :
                 req' = [req EXCEPT ![w] = Upserted(E(p, c), last)] /\ UNCHANGED perm
          ELSE /\ RoomForPerm
               /\ perm' = [perm EXCEPT ![NextPerm] = NewPerm(c, TRUE)]
               /\ Affects(w, Upserted(E(NextPerm, c), last), {}, {}, TRUE)
  BY DEF UpsertPerms
<1>4. \A p : E(p, c) = D(p, c)
  BY DEF PermsDone
<1> HIDE DEF last, E
<1>5. CASE \E p \in PermsThere : perm[p].code = c
  <2>1. PICK p \in PermsThere :
          req' = [req EXCEPT ![w] = Upserted(D(p, c), last)] /\ UNCHANGED perm
    BY <1>3, <1>4, <1>5
  <2>2. Scripted(D(p, c), RolesThere, PermsThere, holders)
    BY <1>2, PermGot DEF PermsThere
  <2>3. Sane(Upserted(D(p, c), last), RolesThere, PermsThere, holders)
    BY <2>2, ScriptGoesOn
  <2>4. QED
    BY <1>1, <1>2, <2>1, <2>3, Replaced, Unwritten
<1>6. CASE ~ \E p \in PermsThere : perm[p].code = c
  <2>1. /\ RoomForPerm /\ perm' = [perm EXCEPT ![NextPerm] = NewPerm(c, TRUE)]
        /\ Affects(w, Upserted(D(NextPerm, c), last), {}, {}, TRUE)
    BY <1>3, <1>4, <1>6
  <2>2. NextPerm \in PermIds
    BY <2>1, NextPermUnborn
  <2>3. /\ NewPerm(c, TRUE) \in PermRow /\ There(NewPerm(c, TRUE))
        /\ NewPerm(c, TRUE).code = c
    BY DEF NewPerm, PermRow, There, PermCodes
  <2>4. /\ TypeOK' /\ OrphansHaveCause'
        /\ PermsThere' = PermsThere \union {NextPerm} /\ RolesThere' = RolesThere
    BY <1>1, <1>6, <2>1, <2>2, <2>3, PermWritten
  <2>5. Told(RolesThere, PermsThere, holders, RolesThere', PermsThere', holders', {}, {})
    BY <1>1, <2>4, NothingToTell
  <2>6. Scripted(r, RolesThere', PermsThere', holders')
    BY <1>1, <1>2, <2>4, GrownScripted
  <2>7. PermsThere' \in SUBSET PermIds /\ NextPerm \in PermsThere'
    BY <2>2, <2>4 DEF PermsThere
  <2>8. Scripted(D(NextPerm, c), RolesThere', PermsThere', holders')
    BY <2>6, <2>7, PermGot
  <2>9. Sane(Upserted(D(NextPerm, c), last), RolesThere', PermsThere', holders')
    BY <2>8, ScriptGoesOn
  <2>10. Requests'
    BY <1>2, <2>1, <2>5, <2>9, Affected
  <2>11. QED
    BY <2>4, <2>10 DEF Inv
<1>7. QED
  BY <1>5, <1>6

LEMMA UpsertRolesKeeps ==
  ASSUME Inv, NEW w \in Workers, UpsertRoles(w)
  PROVE  Inv'
<1> DEFINE r == req[w]
           D(i, c) == IdsDone(r, r.ids \union {i}, r.done \union {<<"role", i, c>>})
           Open(m) == RoleOrder[m] \in RoleSample /\ RoleIdOf(r, RoleOrder[m]) = {}
           left(n) == \E m \in (n + 1)..Len(RoleOrder) : Open(m)
           E(i, c, b) == Returned(r, i, c, b)
<1>1. UNCHANGED <<perm, grants, holders, admitted, torn>> /\ At(w, "upsertRoles")
  BY DEF UpsertRoles
<1>2. Requests /\ Scripted(r, RolesThere, PermsThere, holders)
  BY <1>1, Script DEF Inv
<1>3. PICK n \in 1..Len(RoleOrder) :
        /\ Open(n)
        /\ IF \E i \in RolesThere : role[i].code = RoleOrder[n]
             THEN \E i \in {i \in RolesThere : role[i].code = RoleOrder[n]} :
                    /\ req' = [req EXCEPT ![w] = Upserted(E(i, RoleOrder[n], FALSE), left(n))]
                    /\ UNCHANGED role
           ELSE IF Clash(NewRole(RoleOrder[n], RoleOrder[n]), 0)
             THEN Refused(w, "failed") /\ UNCHANGED role
             ELSE /\ RoomForRole
                  /\ role' = [role EXCEPT ![NextRole] = NewRole(RoleOrder[n], RoleOrder[n])]
                  /\ Affects(w, Upserted(E(NextRole, RoleOrder[n], TRUE), left(n)),
                             {}, {}, TRUE)
  BY DEF UpsertRoles
<1> DEFINE c == RoleOrder[n]
<1>4. \A i, b : E(i, c, b) = D(i, c)
  BY DEF IdsDone, Returned
<1>5. c \in Codes
  BY <1>3 DEF Codes
<1> HIDE DEF left, Open, E, c
<1>6. CASE \E i \in RolesThere : role[i].code = c
  <2>1. PICK i \in RolesThere :
          req' = [req EXCEPT ![w] = Upserted(D(i, c), left(n))] /\ UNCHANGED role
    BY <1>3, <1>4, <1>6 DEF c
  <2>2. Scripted(D(i, c), RolesThere, PermsThere, holders)
    BY <1>2, RoleGot DEF RolesThere
  <2>3. Sane(Upserted(D(i, c), left(n)), RolesThere, PermsThere, holders)
    BY <2>2, ScriptGoesOn
  <2>4. QED
    BY <1>1, <1>2, <2>1, <2>3, Replaced, Unwritten
<1>7. CASE Refused(w, "failed") /\ UNCHANGED role
  BY <1>1, <1>2, <1>7, RefusedKeeps, Unwritten
<1>8. CASE /\ ~Clash(NewRole(c, c), 0) /\ RoomForRole
           /\ role' = [role EXCEPT ![NextRole] = NewRole(c, c)]
           /\ Affects(w, Upserted(D(NextRole, c), left(n)), {}, {}, TRUE)
  <2>1. NextRole \in RoleIds
    BY <1>8, NextRoleUnborn
  <2>2. NewRole(c, c) \in RoleRow /\ There(NewRole(c, c))
    BY <1>5 DEF NewRole, RoleRow, There
  <2>3. \A j \in RolesThere : /\ role[j].code # NewRole(c, c).code
                              /\ role[j].name # NewRole(c, c).name
    BY <1>8, CatalogAssumption DEF Clash, RolesThere
  <2>4. /\ TypeOK' /\ OrphansHaveCause'
        /\ RolesThere' = RolesThere \union {NextRole} /\ PermsThere' = PermsThere
    BY <1>1, <1>8, <2>1, <2>2, <2>3, RoleWritten
  <2>5. Told(RolesThere, PermsThere, holders, RolesThere', PermsThere', holders', {}, {})
    BY <1>1, <2>4, NothingToTell
  <2>6. Scripted(r, RolesThere', PermsThere', holders')
    BY <1>1, <1>2, <2>4, GrownScripted
  <2>7. RolesThere' \in SUBSET RoleIds /\ NextRole \in RolesThere'
    BY <2>1, <2>4 DEF RolesThere
  <2>8. Scripted(D(NextRole, c), RolesThere', PermsThere', holders')
    BY <2>6, <2>7, RoleGot
  <2>9. Sane(Upserted(D(NextRole, c), left(n)), RolesThere', PermsThere', holders')
    BY <2>8, ScriptGoesOn
  <2>10. Requests'
    BY <1>2, <1>8, <2>5, <2>9, Affected
  <2>11. QED
    BY <2>4, <2>10 DEF Inv
<1>9. QED
  BY <1>3, <1>4, <1>6, <1>7, <1>8 DEF c

LEMMA UpsertGrantsKeeps ==
  ASSUME Inv, NEW w \in Workers, UpsertGrants(w)
  PROVE  Inv' /\ grants \subseteq grants'
<1> DEFINE r == req[w]
           left == Wanted(r) \ grants
<1>1. UNCHANGED <<role, perm, holders, admitted>> /\ At(w, "upsertGrants")
  BY DEF UpsertGrants
<1>2. Requests /\ Scripted(r, RolesThere, PermsThere, holders)
  BY <1>1, Script DEF Inv
<1>3. CASE Goes(w, r) /\ UNCHANGED <<grants, torn>>
  <2>1. Sane(r, RolesThere, PermsThere, holders) /\ Planned(Tail(r.todo))
        /\ Looked(r, Tail(r.todo), RolesThere, PermsThere, holders)
    BY <1>2, ScriptGoesOn DEF Scripted
  <2>2. QED
    BY <1>1, <1>2, <1>3, <2>1, GoesKeeps, Unwritten
<1>4. ASSUME NEW l \in left, grants' = grants \union {l},
             torn' = torn \union LateLinks(w, {l}), Affects(w, r, {}, {}, FALSE)
      PROVE  Inv'
  <2>1. l \in r.ids \X r.perms
    BY DEF Wanted
  <2>2. {l} \in SUBSET (RoleIds \X PermIds)
    BY <1>2, <2>1 DEF Scripted, Sane, Typed
  <2>3. /\ l[1] \in RolesThere \/ <<"role", l[1]>> \in r.gone
        /\ l[2] \in PermsThere \/ <<"perm", l[2]>> \in r.gone
    BY <1>2, <2>1 DEF Scripted, RolesKnown, PermsKnown
  <2>4. /\ TypeOK' /\ OrphansHaveCause'
        /\ RolesThere' = RolesThere /\ PermsThere' = PermsThere
    BY <1>1, <1>4, <2>2, <2>3, GrantsLinked
  <2>5. Told(RolesThere, PermsThere, holders, RolesThere', PermsThere', holders', {}, {})
    BY <1>1, <2>4, NothingToTell
  <2>6. Sane(r, RolesThere', PermsThere', holders')
    BY <1>1, <1>2, <2>4 DEF Scripted
  <2>7. Requests'
    BY <1>2, <1>4, <2>5, <2>6, Affected
  <2>8. QED
    BY <2>4, <2>7 DEF Inv
<1>5. QED
  BY <1>3, <1>4 DEF UpsertGrants

LEMMA UpsertHoldersKeeps ==
  ASSUME Inv, NEW w \in Workers, UpsertHolders(w)
  PROVE  Inv'
<1> DEFINE r == req[w]
           links == ({"root"} \X RoleIdOf(r, "admin")) \union ({"test"} \X RoleIdOf(r, "user"))
<1>1. UNCHANGED <<role, perm, grants, admitted>> /\ At(w, "upsertHolders")
  BY DEF UpsertHolders
<1>2. Requests /\ Scripted(r, RolesThere, PermsThere, holders)
  BY <1>1, Script DEF Inv
<1>3. CASE Goes(w, r) /\ UNCHANGED <<holders, torn>>
  <2>1. Sane(r, RolesThere, PermsThere, holders) /\ Planned(Tail(r.todo))
        /\ Looked(r, Tail(r.todo), RolesThere, PermsThere, holders)
    BY <1>2, ScriptGoesOn DEF Scripted
  <2>2. QED
    BY <1>1, <1>2, <1>3, <2>1, GoesKeeps, Unwritten
<1>4. ASSUME NEW l \in links, holders' = holders \union {l},
             torn' = torn \union LateHolders(w, {l}), Affects(w, r, {}, {l}, FALSE)
      PROVE  Inv'
  <2>1. \A c : RoleIdOf(r, c) \subseteq r.ids
    BY <1>2 DEF Scripted, IdsKept, RoleIdOf
  <2>2. l \in Users \X r.ids
    BY <2>1 DEF Users
  <2>3. {l} \in SUBSET (Users \X RoleIds)
    BY <1>2, <2>2 DEF Scripted, Sane, Typed
  <2>4. l[2] \in RolesThere \/ <<"role", l[2]>> \in r.gone
    BY <1>2, <2>2 DEF Scripted, RolesKnown
  <2>5. /\ TypeOK' /\ OrphansHaveCause'
        /\ RolesThere' = RolesThere /\ PermsThere' = PermsThere
    BY <1>1, <1>4, <2>3, <2>4, HoldersLinked
  <2>6. Told(RolesThere, PermsThere, holders, RolesThere', PermsThere', holders', {}, {l})
    BY <1>4, <2>5 DEF Told
  <2>7. Sane(r, RolesThere', PermsThere', holders')
    <3>1. Scripted(r, RolesThere', PermsThere', holders)
      BY <1>2, <2>5
    <3>2. Looked(r, r.todo, RolesThere', PermsThere', holders')
      BY <3>1, SeedTodo DEF Scripted
    <3>3. QED
      BY <3>1, <3>2 DEF Scripted, Sane
  <2>8. Requests'
    BY <1>2, <1>4, <2>6, <2>7, Affected
  <2>9. QED
    BY <2>5, <2>8 DEF Inv
<1>5. QED
  BY <1>3, <1>4 DEF UpsertHolders

-----------------------------------------------------------------------------
(* Requests are admitted.                                                  *)

RowGiven(r, x) == [r EXCEPT !.row = x]
UserGiven(r, u) == [r EXCEPT !.user = u]
CodeGiven(r, c) == [r EXCEPT !.prow.code = c]
StateGiven(r, s) == [r EXCEPT !.prow.state = s]

\* A request that knows nothing yet.
Fresh(r) == Shaped(r) /\ Typed(r) /\ r.gone = {} /\ r.done = {}

LEMMA OpFresh ==
  ASSUME NEW op, NEW S \in SUBSET RoleIds
  PROVE  Fresh(Op(op, S)) /\ Op(op, S).ids = S /\ Op(op, S).perms = {}
BY DEF Fresh, Shaped, Fields, Typed, Users, Op, Idle

LEMMA PermOpFresh ==
  ASSUME NEW op, NEW P \in SUBSET PermIds
  PROVE  /\ Fresh(PermOp(op, P)) /\ PermOp(op, P).perms = P
         /\ PermOp(op, P).op = op /\ PermOp(op, P).prow = NoPerm
BY DEF Fresh, Shaped, Fields, Typed, Users, PermOp, Idle

LEMMA CreatePermFresh ==
  ASSUME NEW c
  PROVE  LET r == [Idle EXCEPT !.op = "createPerm", !.prow = NewPerm(c, FALSE)] IN
         Fresh(r) /\ r.prow = NewPerm(c, FALSE)
BY DEF Fresh, Shaped, Fields, Typed, Users, Idle

LEMMA RowGivenFresh ==
  ASSUME NEW r, Fresh(r), NEW x
  PROVE  Fresh(RowGiven(r, x)) /\ RowGiven(r, x).row = x /\ RowGiven(r, x).ids = r.ids
BY DEF Fresh, Shaped, Fields, Typed, RowGiven

LEMMA UserGivenFresh ==
  ASSUME NEW r, Fresh(r), NEW u \in Users
  PROVE  Fresh(UserGiven(r, u)) /\ UserGiven(r, u).ids = r.ids
BY DEF Fresh, Shaped, Fields, Typed, UserGiven

LEMMA PermsTakenFresh ==
  ASSUME NEW r, Fresh(r), NEW P \in SUBSET PermIds
  PROVE  Fresh(PermsTaken(r, P)) /\ PermsTaken(r, P).ids = r.ids
BY DEF Fresh, Shaped, Fields, Typed, PermsTaken

LEMMA CodeGivenFresh ==
  ASSUME NEW r, Fresh(r), r.prow = NoPerm, NEW c
  PROVE  /\ Fresh(CodeGiven(r, c)) /\ CodeGiven(r, c).op = r.op
         /\ CodeGiven(r, c).perms = r.perms /\ CodeGiven(r, c).prow.code = c
BY DEF Fresh, Shaped, Fields, Typed, CodeGiven, NoPerm

LEMMA StateGivenFresh ==
  ASSUME NEW r, Fresh(r), r.prow = NoPerm, NEW s
  PROVE  /\ Fresh(StateGiven(r, s)) /\ StateGiven(r, s).op = r.op
         /\ StateGiven(r, s).perms = r.perms /\ StateGiven(r, s).prow.state = s
BY DEF Fresh, Shaped, Fields, Typed, StateGiven, NoPerm

LEMMA BeginKeeps ==
  ASSUME Inv, NEW w \in Workers, NEW r, NEW todo, Begin(w, r, todo), Fresh(r),
         Planned(todo), Looked(r, todo, RolesThere, PermsThere, holders)
  PROVE  Inv' /\ UNCHANGED <<role, grants>>
<1> DEFINE c == Onward(r, todo)
<1>1. /\ req' = [req EXCEPT ![w] = c] /\ admitted < MaxOps /\ admitted' = admitted + 1
      /\ UNCHANGED <<role, perm, grants, holders, torn>>
  BY DEF Begin, Onward
<1>2. Same(r, c) /\ c.todo = todo
  BY OnwardSame DEF Fresh
<1> HIDE DEF c
<1>3. Looked(c, todo, RolesThere, PermsThere, holders)
  BY <1>2 DEF Looked, Same, Aside, Amends, RolesKnown, PermsKnown, HoldersSeen, IdsKept
<1>4. Sane(c, RolesThere, PermsThere, holders)
  BY <1>2, <1>3 DEF Sane, Same, Typed, Fresh
<1>5. Requests'
  BY <1>1, <1>4, Replaced DEF Inv
<1>6. admitted' \in 0..MaxOps
  BY <1>1, CatalogAssumption DEF Inv, TypeOK
<1>7. RolesThere' = RolesThere /\ PermsThere' = PermsThere
  BY <1>1 DEF RolesThere, PermsThere
<1>8. TypeOK' /\ OrphansHaveCause'
  BY <1>1, <1>6, <1>7 DEF Inv, TypeOK, OrphansHaveCause
<1>9. QED
  BY <1>1, <1>5, <1>8 DEF Inv

\* A request whose calls ask for nothing.
LEMMA PlainKeeps ==
  ASSUME Inv, NEW w \in Workers, NEW r, NEW todo \in PlainTodos, Begin(w, r, todo), Fresh(r)
  PROVE  Inv' /\ UNCHANGED <<role, grants>>
BY PlainTodo, BeginKeeps

LEMMA ArriveKeeps ==
  ASSUME Inv, NEW w \in Workers, Arrive(w)
  PROVE  Inv' /\ UNCHANGED <<role, grants>>
<1> DEFINE Goal == Inv' /\ UNCHANGED <<role, grants>>
<1> HIDE DEF Goal
<1>1. ASSUME NEW c \in Codes, NEW n \in Codes, CreateRole(w, c, n) PROVE Goal
  <2> DEFINE r == RowGiven(Op("create", {}), NewRole(c, n))
  <2>1. Begin(w, r, <<"insertRole">>)
    BY <1>1 DEF CreateRole, RowGiven
  <2>2. Fresh(r) /\ r.row = NewRole(c, n)
    BY OpFresh, RowGivenFresh
  <2> HIDE DEF r
  <2>3. r.row \in NewRoles
    BY <2>2 DEF NewRole, NewRoles
  <2>4. QED
    BY <2>1, <2>2, <2>3, InsertRoleTodo, BeginKeeps DEF Goal
<1>2. ASSUME NEW i \in RoleIds, NEW c \in Codes \union {"keep"}, NEW n \in Codes \union {"keep"},
             UpdateRole(w, i, c, n)
      PROVE  Goal
  <2> DEFINE x == [state |-> "keep", code |-> c, name |-> n]
             r == RowGiven(Op("update", {i}), x)
  <2>1. Begin(w, r, <<"findRole", "writeRole">>)
    BY <1>2 DEF UpdateRole, RowGiven
  <2>2. Fresh(r) /\ r.row = x /\ r.ids = {i}
    BY OpFresh, RowGivenFresh
  <2> HIDE DEF r
  <2>3. r.row \in Amendments
    BY <2>2 DEF Amendments
  <2>4. QED
    BY <2>1, <2>2, <2>3, WriteRoleTodo, BeginKeeps DEF Goal, WriteTodos
<1>3. ASSUME NEW i \in RoleIds, NEW s \in Statuses, UpdateRoleStatus(w, i, s) PROVE Goal
  <2> DEFINE x == [state |-> s, code |-> "keep", name |-> "keep"]
             r == RowGiven(Op("status", {i}), x)
  <2>1. Begin(w, r, <<"findRole", "writeRole">>)
    BY <1>3 DEF UpdateRoleStatus, RowGiven
  <2>2. Fresh(r) /\ r.row = x /\ r.ids = {i}
    BY OpFresh, RowGivenFresh
  <2> HIDE DEF r
  <2>3. r.row \in Amendments
    BY <2>2 DEF Amendments
  <2>4. QED
    BY <2>1, <2>2, <2>3, WriteRoleTodo, BeginKeeps DEF Goal, WriteTodos
<1>4. ASSUME NEW i \in RoleIds, RemoveRole(w, i) PROVE Goal
  BY <1>4, OpFresh, PlainKeeps DEF RemoveRole, PlainTodos, Goal
<1>5. ASSUME NEW i \in RoleIds, NEW P \in SUBSET PermIds, AssignPermissions(w, i, P)
      PROVE  Goal
  <2> DEFINE r == PermsTaken(Op("assignPermissions", {i}), P)
             t == <<"findRole", "countPerms", "grantPerms", "findRole">>
  <2>1. Begin(w, r, t)
    BY <1>5 DEF AssignPermissions, PermsTaken
  <2>2. Fresh(r) /\ r.ids = {i}
    BY OpFresh, PermsTakenFresh
  <2> HIDE DEF r
  <2>3. t \in AssignTodos /\ Starts(t, "findRole") /\ ~Starts(t, "grantPerms")
    BY DEF AssignTodos, Starts
  <2> HIDE DEF t
  <2>4. QED
    BY <2>1, <2>2, <2>3, AssignTodo, BeginKeeps DEF Goal
<1>6. ASSUME NEW i \in RoleIds, GetRolePermissions(w, i) PROVE Goal
  BY <1>6, OpFresh, PlainKeeps DEF GetRolePermissions, PlainTodos, Goal
<1>7. ASSUME NEW u \in Users, NEW i \in RoleIds, RemoveUserRole(w, u, i) PROVE Goal
  <2>1. Begin(w, UserGiven(Op("removeUserRole", {i}), u), <<"countRoles", "takeRole">>)
    BY <1>7 DEF RemoveUserRole, UserGiven
  <2>2. QED
    BY <2>1, OpFresh, UserGivenFresh, PlainKeeps DEF PlainTodos, Goal
<1>8. ASSUME NEW S \in SUBSET RoleIds, BatchDeleteRoles(w, S) PROVE Goal
  BY <1>8, OpFresh, PlainKeeps DEF BatchDeleteRoles, PlainTodos, Goal
<1>9. ASSUME NEW u \in Users, NEW S \in SUBSET RoleIds, AssignRoles(w, u, S) PROVE Goal
  <2>1. Begin(w, UserGiven(Op("assignRoles", S), u), <<"countRoles", "giveRoles">>)
    BY <1>9 DEF AssignRoles, UserGiven
  <2>2. QED
    BY <2>1, OpFresh, UserGivenFresh, PlainKeeps DEF PlainTodos, Goal
<1>10. ASSUME NEW c \in PermCodes, CreatePermission(w, c) PROVE Goal
  <2> DEFINE r == [Idle EXCEPT !.op = "createPerm", !.prow = NewPerm(c, FALSE)]
  <2>1. Begin(w, r, <<"insertPerm">>)
    BY <1>10 DEF CreatePermission
  <2>2. Fresh(r) /\ r.prow = NewPerm(c, FALSE)
    BY CreatePermFresh
  <2> HIDE DEF r
  <2>3. r.prow \in NewPerms
    BY <2>2 DEF NewPerm, NewPerms
  <2>4. QED
    BY <2>1, <2>2, <2>3, InsertPermTodo, BeginKeeps DEF Goal
<1>11. ASSUME NEW p \in PermIds, NEW c \in PermCodes, UpdatePermission(w, p, c) PROVE Goal
  <2> DEFINE r == CodeGiven(PermOp("updatePerm", {p}), c)
  <2>1. Begin(w, r, <<"findPerm", "writePerm">>)
    BY <1>11 DEF UpdatePermission, CodeGiven
  <2>2. Fresh(r) /\ r.op = "updatePerm" /\ r.perms = {p} /\ r.prow.code = c
    BY PermOpFresh, CodeGivenFresh
  <2> HIDE DEF r
  <2>3. QED
    BY <2>1, <2>2, AmendTodo, BeginKeeps DEF Goal, AmendTodos, Amends
<1>12. ASSUME NEW p \in PermIds, NEW s \in Statuses, UpdatePermissionStatus(w, p, s)
       PROVE  Goal
  <2> DEFINE r == StateGiven(PermOp("permStatus", {p}), s)
  <2>1. Begin(w, r, <<"findPerm", "writePerm">>)
    BY <1>12 DEF UpdatePermissionStatus, StateGiven
  <2>2. Fresh(r) /\ r.op = "permStatus" /\ r.perms = {p} /\ r.prow.state = s
    BY PermOpFresh, StateGivenFresh
  <2> HIDE DEF r
  <2>3. QED
    BY <2>1, <2>2, AmendTodo, BeginKeeps DEF Goal, AmendTodos, Amends
<1>13. ASSUME NEW p \in PermIds, RemovePermission(w, p) PROVE Goal
  BY <1>13, PermOpFresh, PlainKeeps DEF RemovePermission, PlainTodos, Goal
<1>14. ASSUME NEW P \in SUBSET PermIds, BatchDeletePermissions(w, P) PROVE Goal
  BY <1>14, PermOpFresh, PlainKeeps DEF BatchDeletePermissions, PlainTodos, Goal
<1>15. ASSUME WalkRoles(w) PROVE Goal
  <2>1. RolesThere \in SUBSET RoleIds
    BY DEF RolesThere
  <2>2. QED
    BY <1>15, <2>1, OpFresh, PlainKeeps DEF WalkRoles, PlainTodos, Goal
<1>16. ASSUME WalkPermissions(w) PROVE Goal
  <2>1. PermsThere \in SUBSET PermIds
    BY DEF PermsThere
  <2>2. QED
    BY <1>16, <2>1, PermOpFresh, PlainKeeps DEF WalkPermissions, PlainTodos, Goal
<1>17. ASSUME Seed(w) PROVE Goal
  <2> DEFINE r == Op("seed", {})
             t == <<"upsertPerms", "upsertRoles", "upsertGrants", "upsertHolders">>
  <2>1. Begin(w, r, t) /\ t \in SeedTodos
    BY <1>17 DEF Seed, SeedTodos
  <2>2. Fresh(r) /\ r.ids = {} /\ r.perms = {}
    BY OpFresh
  <2> HIDE DEF r, t
  <2>3. RolesKnown(r, RolesThere) /\ PermsKnown(r, PermsThere) /\ IdsKept(r)
    BY <2>2 DEF RolesKnown, PermsKnown, IdsKept, Fresh
  <2>4. QED
    BY <2>1, <2>2, <2>3, SeedTodo, BeginKeeps DEF Goal
<1>18. Goal
  BY <1>1, <1>2, <1>3, <1>4, <1>5, <1>6, <1>7, <1>8, <1>9, <1>10, <1>11, <1>12, <1>13,
     <1>14, <1>15, <1>16, <1>17
     DEF Arrive, SomeRoles, SomePerms, Statuses
<1>19. QED
  BY <1>18 DEF Goal

-----------------------------------------------------------------------------
(* Before.                                                                 *)

LEMMA EightFinite ==
  ASSUME NEW a, NEW b, NEW c, NEW d, NEW e, NEW f, NEW g, NEW h
  PROVE  IsFiniteSet({a, b, c, d, e, f, g, h})
<1>1. IsFiniteSet({a, b, c, d})
  <2>1. IsFiniteSet({a})
    BY FS_EmptySet, FS_AddElement, {} \union {a} = {a}
  <2>2. IsFiniteSet({a, b})
    BY <2>1, FS_AddElement, {a} \union {b} = {a, b}
  <2>3. IsFiniteSet({a, b, c})
    BY <2>2, FS_AddElement, {a, b} \union {c} = {a, b, c}
  <2>4. QED
    BY <2>3, FS_AddElement, {a, b, c} \union {d} = {a, b, c, d}
<1>2. IsFiniteSet({e, f, g, h})
  <2>1. IsFiniteSet({e})
    BY FS_EmptySet, FS_AddElement, {} \union {e} = {e}
  <2>2. IsFiniteSet({e, f})
    BY <2>1, FS_AddElement, {e} \union {f} = {e, f}
  <2>3. IsFiniteSet({e, f, g})
    BY <2>2, FS_AddElement, {e, f} \union {g} = {e, f, g}
  <2>4. QED
    BY <2>3, FS_AddElement, {e, f, g} \union {h} = {e, f, g, h}
<1>3. {a, b, c, d} \union {e, f, g, h} = {a, b, c, d, e, f, g, h}
  OBVIOUS
<1>4. QED
  BY <1>1, <1>2, <1>3, FS_Union

LEMMA SamplesFinite == IsFiniteSet(RoleSample) /\ IsFiniteSet(Sample)
<1>1. IsFiniteSet(RoleSample)
  <2>1. SeededRoles = {"admin", "user", "content_manager", "finance_manager", "auditor",
                       "auditor", "auditor", "auditor"}
    BY DEF SeededRoles
  <2>2. IsFiniteSet(SeededRoles)
    BY <2>1, EightFinite
  <2>3. QED
    BY <2>2, FS_Subset, CatalogAssumption
<1>2. /\ IsFiniteSet({"user"} \X UserActions) /\ IsFiniteSet({"role"} \X RoleActions)
      /\ IsFiniteSet({"system"} \X SystemActions)
      /\ IsFiniteSet({"permission"} \X PermissionActions)
      /\ IsFiniteSet({"logs"} \X LogActions)
  <2>1. ASSUME NEW x PROVE IsFiniteSet({x})
    BY FS_EmptySet, FS_AddElement, {} \union {x} = {x}
  <2>2. IsFiniteSet(UserActions)
    BY EightFinite DEF UserActions
  <2>3. IsFiniteSet(RoleActions)
    <3>1. RoleActions = {"list", "statistics", "read", "create", "update", "delete",
                         "assign_permissions", "assign_permissions"}
      BY DEF RoleActions
    <3>2. QED
      BY <3>1, EightFinite
  <2>4. IsFiniteSet(SystemActions)
    <3>1. SystemActions = {"admin", "config", "config", "config", "config", "config",
                           "config", "config"}
      BY DEF SystemActions
    <3>2. QED
      BY <3>1, EightFinite
  <2>5. IsFiniteSet(PermissionActions)
    <3>1. PermissionActions = {"read", "create", "update", "delete", "statistics",
                               "statistics", "statistics", "statistics"}
      BY DEF PermissionActions
    <3>2. QED
      BY <3>1, EightFinite
  <2>6. IsFiniteSet(LogActions)
    <3>1. LogActions = {"api_list", "api_read", "error_list", "audit_list", "statistics",
                        "statistics", "statistics", "statistics"}
      BY DEF LogActions
    <3>2. QED
      BY <3>1, EightFinite
  <2>7. QED
    BY <2>1, <2>2, <2>3, <2>4, <2>5, <2>6, FS_Product
<1>3. SeededPermissions =
        ((({"user"} \X UserActions) \union ({"role"} \X RoleActions))
           \union (({"system"} \X SystemActions) \union ({"permission"} \X PermissionActions)))
          \union ({"logs"} \X LogActions)
  BY DEF SeededPermissions
<1>4. IsFiniteSet(SeededPermissions)
  BY <1>2, <1>3, FS_Union
<1>5. IsFiniteSet(Sample)
  BY <1>4, FS_Subset, CatalogAssumption
<1>6. QED
  BY <1>1, <1>5

LEMMA Numbered ==
  ASSUME NEW S, IsFiniteSet(S)
  PROVE  \E f : f \in Numberings(S)
<1>1. ExistsBijection(1..Cardinality(S), S)
  BY FS_CardinalityType
<1>2. PICK f : f \in Bijection(1..Cardinality(S), S)
  BY <1>1 DEF ExistsBijection
<1>3. f \in [1..Cardinality(S) -> S] /\
        \A i, j \in 1..Cardinality(S) : f[i] = f[j] => i = j
  BY <1>2, Fun_BijectionProperties
<1>4. QED
  BY <1>3 DEF Numberings

\* Rows written under the first ids, each with a code of its own.
Rows(f, Ids, S) == DOMAIN f \subseteq Ids /\ (\A i \in DOMAIN f : f[i] \in S) /\
                   \A i, j \in DOMAIN f : f[i] = f[j] => i = j

LEMMA WrittenInv ==
  ASSUME NEW rs, NEW ps, NEW own \in BOOLEAN, Written(rs, ps, own),
         Rows(rs, RoleIds, RoleSample), Rows(ps, PermIds, Sample), admitted = 0
  PROVE  TypeOK /\ OrphansHaveCause
<1>1. \A i \in RoleIds :
        /\ i \in DOMAIN rs => role[i] = NewRole(rs[i], rs[i]) /\ rs[i] \in RoleSample
        /\ i \notin DOMAIN rs =>
             \/ role[i] = NoRole
             \/ role[i] = NewRole(OwnCode, OwnCode) /\ i = Len(rs) + 1
  BY DEF Written, Rows
<1>2. \A p \in PermIds :
        /\ p \in DOMAIN ps => perm[p] = NewPerm(ps[p], TRUE) /\ ps[p] \in Sample
        /\ p \notin DOMAIN ps => perm[p] = NoPerm
  BY DEF Written, Rows
<1>3. \A c \in Codes : /\ NewRole(c, c) \in RoleRow /\ There(NewRole(c, c))
                       /\ NewRole(c, c).code = c /\ NewRole(c, c).name = c
  BY DEF NewRole, RoleRow, There
<1>4. \A c \in PermCodes : /\ NewPerm(c, TRUE) \in PermRow /\ There(NewPerm(c, TRUE))
                           /\ NewPerm(c, TRUE).code = c
  BY DEF NewPerm, PermRow, There
<1>5. RoleSample \subseteq Codes /\ OwnCode \in Codes /\ Sample \subseteq PermCodes
                                 /\ OwnCode \notin RoleSample
  BY CatalogAssumption DEF Codes, PermCodes
<1>6. role \in [RoleIds -> RoleRow]
  <2>1. \A i \in RoleIds : role[i] \in RoleRow
    BY <1>1, <1>3, <1>5, DeletedRow
  <2>2. role = [i \in RoleIds |-> role[i]]
    BY DEF Written
  <2>3. QED
    BY <2>1, <2>2
<1>7. perm \in [PermIds -> PermRow]
  <2>1. \A p \in PermIds : perm[p] \in PermRow
    BY <1>2, <1>4, <1>5, DeletedRow
  <2>2. perm = [p \in PermIds |-> perm[p]]
    BY DEF Written
  <2>3. QED
    BY <2>1, <2>2
<1>8. DOMAIN rs \subseteq RolesThere /\ DOMAIN ps \subseteq PermsThere
  <2>1. ASSUME NEW i \in DOMAIN rs PROVE i \in RolesThere
    <3>1. i \in RoleIds /\ rs[i] \in Codes
      BY <1>5 DEF Rows
    <3>2. There(role[i])
      BY <1>1, <1>3, <3>1
    <3>3. QED
      BY <3>1, <3>2 DEF RolesThere
  <2>2. ASSUME NEW p \in DOMAIN ps PROVE p \in PermsThere
    <3>1. p \in PermIds /\ ps[p] \in PermCodes
      BY <1>5 DEF Rows
    <3>2. There(perm[p])
      BY <1>2, <1>4, <3>1
    <3>3. QED
      BY <3>1, <3>2 DEF PermsThere
  <2>3. QED
    BY <2>1, <2>2
<1>9. grants \subseteq (DOMAIN rs) \X (DOMAIN ps) /\ holders \subseteq Users \X (DOMAIN rs)
  BY DEF Written
<1>10. OrphansHaveCause
  BY <1>8, <1>9 DEF OrphansHaveCause
<1>11. ASSUME NEW i \in RolesThere, NEW j \in RolesThere,
              role[i].code = role[j].code \/ role[i].name = role[j].name
       PROVE  i = j
  <2>1. /\ i \in RoleIds /\ j \in RoleIds /\ role[i] # NoRole /\ role[j] # NoRole
    BY DeletedRow DEF RolesThere
  <2>2. CASE i \in DOMAIN rs /\ j \in DOMAIN rs
    <3>1. rs[i] = rs[j]
      BY <1>1, <1>3, <1>5, <1>11, <2>1, <2>2
    <3>2. QED
      BY <2>2, <3>1 DEF Rows
  <2>3. CASE i \notin DOMAIN rs /\ j \notin DOMAIN rs
    BY <1>1, <2>1, <2>3
  <2>4. CASE i \in DOMAIN rs /\ j \notin DOMAIN rs
    BY <1>1, <1>3, <1>5, <1>11, <2>1, <2>4
  <2>5. CASE i \notin DOMAIN rs /\ j \in DOMAIN rs
    BY <1>1, <1>3, <1>5, <1>11, <2>1, <2>5
  <2>6. QED
    BY <2>2, <2>3, <2>4, <2>5
<1>12. ASSUME NEW p \in PermsThere, NEW q \in PermsThere, perm[p].code = perm[q].code
       PROVE  p = q
  <2>1. p \in DOMAIN ps /\ q \in DOMAIN ps
    BY <1>2, DeletedRow DEF PermsThere
  <2>2. ps[p] = ps[q]
    BY <1>2, <1>4, <1>5, <1>12, <2>1 DEF Rows
  <2>3. QED
    BY <2>1, <2>2 DEF Rows
<1>13. admitted \in 0..MaxOps
  BY CatalogAssumption
<1>14. grants \subseteq RoleIds \X PermIds /\ holders \subseteq Users \X RoleIds
  BY <1>9 DEF Rows
<1>15. QED
  BY <1>6, <1>7, <1>10, <1>11, <1>12, <1>13, <1>14 DEF TypeOK

LEMMA IdleSane ==
  ASSUME NEW R, NEW P, NEW H
  PROVE  Sane(Idle, R, P, H)
<1>1. Shaped(Idle) /\ Idle.todo = <<>> /\ Typed(Idle)
  BY DEF Shaped, Fields, Idle, Typed, Users
<1>2. QED
  BY <1>1, NothingLeft DEF Sane

LEMMA InitInv == Init => Inv
<1> SUFFICES ASSUME Init PROVE Inv
  OBVIOUS
<1>1. Requests
  BY IdleSane DEF Init, Requests
<1>2. CASE Written(<<>>, <<>>, FALSE)
  <2>1. Rows(<<>>, RoleIds, RoleSample) /\ Rows(<<>>, PermIds, Sample)
    BY DEF Rows
  <2>2. QED
    BY <1>1, <1>2, <2>1, WrittenInv DEF Init, Inv
<1>3. CASE \E own \in BOOLEAN :
             Written(CHOOSE f \in Numberings(RoleSample) : TRUE,
                     CHOOSE f \in Numberings(Sample) : TRUE, own)
  <2> DEFINE rs == CHOOSE f \in Numberings(RoleSample) : TRUE
             ps == CHOOSE f \in Numberings(Sample) : TRUE
  <2>1. rs \in Numberings(RoleSample) /\ ps \in Numberings(Sample)
    BY SamplesFinite, Numbered
  <2>2. PICK own \in BOOLEAN : Written(rs, ps, own)
    BY <1>3
  <2> HIDE DEF rs, ps
  <2>3. Rows(rs, RoleIds, RoleSample) /\ Rows(ps, PermIds, Sample)
    BY <2>1, CatalogAssumption DEF Numberings, Rows
  <2>4. QED
    BY <1>1, <2>2, <2>3, WrittenInv DEF Init, Inv
<1>4. QED
  BY <1>2, <1>3 DEF Init

-----------------------------------------------------------------------------
(* Every step.                                                             *)

LEMMA ReadStep ==
  ASSUME Inv, NEW w \in Workers,
         \/ FindRole(w) \/ CheckUnused(w) \/ CountPerms(w) \/ ReadLinks(w) \/ ReadPerms(w)
         \/ CountRoles(w) \/ FindPerm(w) \/ CountRows(w) \/ FindRows(w) \/ Fail(w)
  PROVE  Inv' /\ UNCHANGED <<role, grants>>
<1>1. Inv'
  BY FindRoleKeeps, CheckUnusedKeeps, CountPermsKeeps, ReadLinksKeeps, ReadPermsKeeps,
     CountRolesKeeps, FindPermKeeps, CountRowsKeeps, FindRowsKeeps, FailKeeps
<1>2. UNCHANGED <<role, grants>>
  BY DEF FindRole, CheckUnused, CountPerms, ReadLinks, ReadPerms, CountRoles, FindPerm,
         CountRows, FindRows, Fail
<1>3. QED
  BY <1>1, <1>2

LEMMA NextInv == Inv /\ [Next]_vars => Inv'
<1> SUFFICES ASSUME Inv, [Next]_vars PROVE Inv'
  OBVIOUS
<1>1. CASE UNCHANGED vars
  BY <1>1, Unwritten DEF vars, Inv, Requests, RolesThere, PermsThere, There, Sane
<1>2. ASSUME NEW w \in Workers, Arrive(w) PROVE Inv'
  BY <1>2, ArriveKeeps
<1>3. ASSUME NEW w \in Workers, Proceed(w) PROVE Inv'
  BY <1>3, ReadStep, InsertRoleKeeps, WriteRoleKeeps, DeleteRolesKeeps, GrantPermsKeeps,
     GiveRolesKeeps, TakeRoleKeeps, InsertPermKeeps, WritePermKeeps, DeletePermsKeeps,
     UpsertPermsKeeps, UpsertRolesKeeps, UpsertGrantsKeeps, UpsertHoldersKeeps
     DEF Proceed
<1>4. ASSUME NEW w \in Workers, Fail(w) PROVE Inv'
  BY <1>4, FailKeeps
<1>5. QED
  BY <1>1, <1>2, <1>3, <1>4 DEF Next

LEMMA InvHolds == Spec => []Inv
<1>1. QED
  BY InitInv, NextInv, PTL DEF Spec

\* Rows have their columns and no two rows share a unique one: the code and
\* the name of a role, the code of a permission.
THEOREM TypeCorrect == Spec => []TypeOK
<1>1. Inv => TypeOK
  BY DEF Inv
<1>2. QED
  BY <1>1, InvHolds, PTL

\* A link of a role to a permission or to a user that has lost one of its
\* rows was written by a request that had looked the row up before its
\* deletion: assignPermissions and assignRoles check outside of the write, and
\* the script keeps ids over its calls.
THEOREM OrphansCaused == Spec => []OrphansHaveCause
<1>1. Inv => OrphansHaveCause
  BY DEF Inv
<1>2. QED
  BY <1>1, InvHolds, PTL

\* A role that was in use when remove or batchDelete looked is not deleted:
\* whoever held it at its deletion was given it between the check and the
\* commit.
THEOREM UsedKept == Spec => UsedRoleKept
<1> DEFINE A == \A i \in RolesThere : ~There(role'[i]) => DeletesUnused(i)
<1>1. Inv /\ [Next]_vars => [A]_vars
  <2> SUFFICES ASSUME Inv, Next PROVE A
    OBVIOUS
  <2>1. PICK w \in Workers : Arrive(w) \/ Proceed(w) \/ Fail(w)
    BY DEF Next
  <2>2. CASE RolesThere \subseteq RolesThere'
    BY <2>2 DEF RolesThere
  <2>3. CASE DeleteRoles(w)
    <3>1. ASSUME NEW i \in RolesThere, ~There(role'[i]) PROVE DeletesUnused(i)
      <4>1. i \in req[w].ids
        BY <2>3, <3>1, DeleteRolesKeeps DEF RolesThere
      <4>2. At(w, "deleteRoles") /\ HoldersSeen(req[w], holders)
        BY <2>3, Acting DEF DeleteRoles, Looked
      <4>3. QED
        BY <4>1, <4>2 DEF DeletesUnused, HoldersSeen
    <3>2. QED
      BY <3>1
  <2>4. CASE role' = role
    BY <2>2, <2>4 DEF RolesThere
  <2>5. CASE InsertRole(w) \/ UpsertRoles(w)
    <3>1. role' = role \/ \E r : RoomForRole /\ role' = [role EXCEPT ![NextRole] = r]
      BY <2>5 DEF InsertRole, UpsertRoles
    <3>2. CASE role' # role
      <4>1. PICK r : RoomForRole /\ role' = [role EXCEPT ![NextRole] = r]
        BY <3>1, <3>2
      <4>2. NextRole \notin RolesThere
        BY <4>1, NextRoleUnborn DEF RolesThere, There
      <4>3. \A i \in RolesThere : role'[i] = role[i]
        BY <4>1, <4>2 DEF RolesThere, Inv, TypeOK
      <4>4. QED
        BY <4>3 DEF RolesThere
    <3>3. QED
      BY <2>4, <3>2
  <2>6. CASE WriteRole(w)
    BY <2>2, <2>6, WriteRoleKeeps
  <2>7. CASE Arrive(w)
    BY <2>4, <2>7, ArriveKeeps
  <2>8. CASE Fail(w)
    BY <2>4, <2>8, ReadStep
  <2>9. CASE Proceed(w) /\ ~(DeleteRoles(w) \/ InsertRole(w) \/ UpsertRoles(w) \/ WriteRole(w))
    <3>1. role' = role
      BY <2>9, ReadStep
         DEF Proceed, GrantPerms, GiveRoles, TakeRole, InsertPerm, WritePerm, DeletePerms,
             UpsertPerms, UpsertGrants, UpsertHolders
    <3>2. QED
      BY <2>4, <3>1
  <2>10. QED
    BY <2>1, <2>3, <2>5, <2>6, <2>7, <2>8, <2>9
<1>2. QED
  BY <1>1, InvHolds, PTL DEF Spec, UsedRoleKept

-----------------------------------------------------------------------------
(* The script and the walks by themselves.                                 *)
FirstCall == <<"upsertPerms", "upsertRoles", "upsertGrants", "upsertHolders">>
RolesCall == <<"upsertRoles", "upsertGrants", "upsertHolders">>
GrantsCall == <<"upsertGrants", "upsertHolders">>
HoldersCall == <<"upsertHolders">>
Long == {"seed", "walkRoles", "walkPerms"}
CourseOf(op) ==
  CASE op = "seed" -> SeedTodos
    [] op = "walkRoles" -> {<<"count", "rows">>, <<"rows">>}
    [] op = "walkPerms" -> ListTodos

\* They are on course, and have no answer before the end.
OnCourse(r) ==
  r.op \in Long => \/ r.todo = <<>>
                   \/ r.todo \in CourseOf(r.op) /\ r.answer # "done"

\* What the script keeps of its upserts is there, and is linked.
RolesGot(r, R, rows) ==
  \A d \in r.done : d[1] = "role" => d[2] \in R /\ rows[d[2]].code = d[3] /\ d[2] \in r.ids
PermsGot(r, P, rows) ==
  \A d \in r.done : d[1] = "perm" => d[2] \in P /\ rows[d[2]].code = d[3] /\ d[2] \in r.perms
CodesGot(r) == {d[3] : d \in r.done}
HasPerm(r, c) == \E d \in r.done : d[1] = "perm" /\ d[3] = c
AllPerms(r) == \A c \in Sample : HasPerm(r, c)

\* The upserts of permissions are counted.
Counted(r) ==
  /\ IsFiniteSet(r.done) /\ Cardinality(r.done) = Cardinality(CodesGot(r))
  /\ \A d \in r.done : d[1] = "perm" /\ d[3] \in Sample

\* How far the script has come: what may be left to do.
AfterPerms == {RolesCall, GrantsCall, HoldersCall}
AfterRoles == {GrantsCall, HoldersCall}
AfterGrants == {HoldersCall}
Past(r, todos) == r.answer = "done" \/ r.todo \in todos
Links(r) == ({"root"} \X RoleIdOf(r, "admin")) \union ({"test"} \X RoleIdOf(r, "user"))
Sown(r, R, rows, P, prows, G, H) ==
  /\ RolesGot(r, R, rows) /\ PermsGot(r, P, prows)
  /\ r.todo = FirstCall => Counted(r)
  /\ Past(r, AfterPerms) => AllPerms(r)
  /\ Past(r, AfterRoles) => \A c \in RoleSample : RoleIdOf(r, c) # {}
  /\ Past(r, AfterGrants) => Wanted(r) \subseteq G
  /\ r.answer = "done" => Links(r) \subseteq H

\* Until another request writes.
SownAt(w) ==
  req[w].op = "seed" /\ ~req[w].moved =>
    Sown(req[w], RolesThere, role, PermsThere, perm, grants, holders)

\* The rows of a listing before row i, newest first.
Rank(L, i) == Cardinality({j \in L : j > i})

\* The pages that a walk has been through, of the rows S it began with.
Through(r, L, S) ==
  /\ r.todo \in {<<"count", "rows">>, <<"rows", "count">>, <<"rows">>} =>
       \A i \in S : Rank(L, i) < r.page - 1 => i \in r.done
  /\ r.todo = <<"count">> => \A i \in S : Rank(L, i) < r.page => i \in r.done
  /\ r.todo = <<"rows">> => r.total = Cardinality(L)
  /\ r.answer = "done" => S \subseteq r.done
Walked(r, L, S) == S \subseteq L /\ r.page \in Nat \ {0} /\ r.total \in Nat /\ Through(r, L, S)

OneBatch(rows) == \A p, q \in PermIds : rows[p].batch /\ rows[q].batch => p = q
WalkedAt(w) ==
  /\ req[w].op = "walkRoles" /\ Steady(req[w], "role") =>
       Walked(req[w], RolesThere, req[w].ids)
  /\ req[w].op = "walkPerms" /\ Steady(req[w], "perm") /\ OneBatch(perm) =>
       Walked(req[w], PermsThere, req[w].perms)

\* Finitely many rows were ever inserted; those of a batch are there.
Finite ==
  /\ IsFiniteSet({i \in RoleIds : Known(i)}) /\ IsFiniteSet({p \in PermIds : KnownPerm(p)})
  /\ \A p \in PermIds : perm[p].batch => p \in PermsThere

Fine(w) == OnCourse(req[w]) /\ SownAt(w) /\ WalkedAt(w)
Complete == Finite /\ \A w \in Workers : Fine(w)

-----------------------------------------------------------------------------
(* What a step of one request is to the tables and to the others.          *)
Touches(r, c, dead, ins) ==
  /\ c.op = r.op /\ c.todo = r.todo /\ c.ids = r.ids /\ c.perms = r.perms
  /\ c.page = r.page /\ c.total = r.total /\ c.answer = r.answer
  /\ c.moved /\ c.gone = r.gone \union dead
  /\ r.slipped \/ (ins /\ Starts(r.todo, "rows")) => c.slipped
  /\ ~Starts(r.todo, "deleteRoles") => c.done = r.done

\* Rows are lost by deletion only, and new ones are one at a time.
Writes(dead, ins) ==
  /\ \A i \in RolesThere \ RolesThere' : <<"role", i>> \in dead
  /\ \A p \in PermsThere \ PermsThere' : <<"perm", p>> \in dead
  /\ ~ins => RolesThere' \subseteq RolesThere /\ PermsThere' \subseteq PermsThere
  /\ \A p \in PermsThere \intersect PermsThere' : perm'[p].batch = perm[p].batch
  /\ \A p \in PermIds : perm'[p].batch => p \in PermsThere'
  /\ \E n : {i \in RoleIds : Known(i)}' \subseteq {i \in RoleIds : Known(i)} \union {n}
  /\ \E n : {p \in PermIds : KnownPerm(p)}' \subseteq {p \in PermIds : KnownPerm(p)} \union {n}

Steps(w) ==
  \/ /\ UNCHANGED <<role, perm, grants, holders>>
     /\ \A v \in Workers \ {w} : req'[v] = req[v]
  \/ \E dead, ins : /\ Writes(dead, ins)
                    /\ \A v \in Workers \ {w} : Touches(req[v], req'[v], dead, ins)

LEMMA TouchedTouches ==
  ASSUME NEW r, Shaped(r), NEW dead, NEW D, NEW s, NEW ins,
         ~Starts(r.todo, "deleteRoles") => D = r.done,
         r.slipped \/ (ins /\ Starts(r.todo, "rows")) => s
  PROVE  Touches(r, Touched(r, r.gone \union dead, D, s), dead, ins)
<1> DEFINE G == r.gone \union dead
           c == Touched(r, G, D, s)
<1>1. /\ c.op = r.op /\ c.todo = r.todo /\ c.ids = r.ids /\ c.perms = r.perms
      /\ c.page = r.page /\ c.total = r.total /\ c.answer = r.answer
      /\ c.moved /\ c.gone = G /\ c.done = D /\ c.slipped = s
  BY DEF Shaped, Fields, Touched
<1> HIDE DEF c
<1>2. Touches(r, c, dead, ins)
  BY <1>1 DEF Touches
<1>3. QED
  BY <1>2 DEF c

\* A step that reads, or is refused.
LEMMA Reads ==
  ASSUME Requests, NEW w \in Workers, NEW c, req' = [req EXCEPT ![w] = c],
         UNCHANGED <<role, perm, grants, holders>>
  PROVE  Steps(w) /\ req'[w] = c
<1>1. req'[w] = c /\ \A v \in Workers \ {w} : req'[v] = req[v]
  BY Zenon DEF Requests
<1>2. QED
  BY <1>1 DEF Steps

\* A step that writes.
LEMMA WritesSteps ==
  ASSUME Requests, NEW w \in Workers, NEW c, NEW dead, NEW given, NEW ins,
         Affects(w, c, dead, given, ins), Writes(dead, ins)
  PROVE  Steps(w) /\ req'[w] = c
<1> DEFINE D(v) == IF Starts(req[v].todo, "deleteRoles") THEN req[v].done \union given
                                                         ELSE req[v].done
           s(v) == req[v].slipped \/ (ins /\ At(v, "rows"))
           t(v) == Touched(req[v], req[v].gone \union dead, D(v), s(v))
<1>1. req' = [v \in Workers |-> IF v = w THEN c ELSE t(v)]
  BY DEF Affects, Touched, At, Starts
<1>2. ASSUME NEW v \in Workers PROVE Touches(req[v], t(v), dead, ins)
  <2>1. Shaped(req[v])
    BY DEF Requests, Sane
  <2>2. ~Starts(req[v].todo, "deleteRoles") => D(v) = req[v].done
    OBVIOUS
  <2>3. req[v].slipped \/ (ins /\ Starts(req[v].todo, "rows")) => s(v)
    BY DEF At, Starts
  <2> HIDE DEF D, s
  <2>4. QED
    BY <2>1, <2>2, <2>3, TouchedTouches
<1> HIDE DEF t
<1>3. \A v \in Workers : req'[v] = IF v = w THEN c ELSE t(v)
  BY <1>1, Zenon
<1>4. req'[w] = c /\ \A v \in Workers \ {w} : Touches(req[v], req'[v], dead, ins)
  BY <1>2, <1>3
<1>5. QED
  BY <1>4 DEF Steps

LEMMA AfterFields ==
  ASSUME NEW r, Shaped(r)
  PROVE  LET c == After(r) IN
         /\ c.op = r.op /\ c.ids = r.ids /\ c.perms = r.perms /\ c.done = r.done
         /\ c.gone = r.gone /\ c.moved = r.moved /\ c.slipped = r.slipped
         /\ c.page = r.page /\ c.total = r.total /\ c.todo = Tail(r.todo)
         /\ c.answer = IF Len(r.todo) = 1 THEN "done" ELSE r.answer
<1> DEFINE t == Tail(r.todo)
           a == IF Len(r.todo) = 1 THEN "done" ELSE r.answer
<1>1. After(r) = Went(r, t, a)
  BY DEF After, Went
<1> HIDE DEF t, a
<1>2. LET c == Went(r, t, a) IN
         /\ c.op = r.op /\ c.ids = r.ids /\ c.perms = r.perms /\ c.done = r.done
         /\ c.gone = r.gone /\ c.moved = r.moved /\ c.slipped = r.slipped
         /\ c.page = r.page /\ c.total = r.total /\ c.todo = t
         /\ c.answer = a
  BY DEF Went, Shaped, Fields
<1>3. QED
  BY <1>1, <1>2 DEF t, a

\* A request that is refused is at its end, without the answer "done".
RefusedAs(r, c) ==
  /\ c.todo = <<>> /\ c.answer \notin {"done"} /\ c.op = r.op /\ c.ids = r.ids
  /\ c.perms = r.perms /\ c.done = r.done /\ c.gone = r.gone /\ c.moved = r.moved
  /\ c.slipped = r.slipped /\ c.page = r.page /\ c.total = r.total

LEMMA RefusedReads ==
  ASSUME Requests, NEW w \in Workers, NEW a, a # "done", Refused(w, a),
         UNCHANGED <<role, perm, grants, holders>>
  PROVE  Steps(w) /\ RefusedAs(req[w], req'[w])
<1>1. Shaped(req[w])
  BY DEF Requests, Sane
<1>2. req' = [req EXCEPT ![w] = Went(req[w], <<>>, a)]
  BY DEF Refused, Went, Requests
<1>3. Steps(w) /\ req'[w] = Went(req[w], <<>>, a)
  BY <1>2, Reads
<1>4. RefusedAs(req[w], Went(req[w], <<>>, a))
  BY <1>1 DEF RefusedAs, Went, Shaped, Fields
<1>5. QED
  BY <1>3, <1>4

\* The tables that steps leave.
LEMMA NoRowWritten ==
  ASSUME Finite, UNCHANGED <<role, perm>>, NEW dead
  PROVE  Writes(dead, FALSE)
BY DEF Finite, Writes, RolesThere, PermsThere, There, Known, KnownPerm

LEMMA RoleRowWritten ==
  ASSUME Inv, Finite, NEW i \in RoleIds, NEW r, There(r), role' = [role EXCEPT ![i] = r],
         perm' = perm, NEW ins \in BOOLEAN, ins \/ i \in RolesThere
  PROVE  Writes({}, ins) /\ RolesThere \subseteq RolesThere' /\ i \in RolesThere'
         /\ role'[i] = r /\ \A j \in RoleIds \ {i} : role'[j] = role[j]
<1>1. DOMAIN role = RoleIds
  BY DEF Inv, TypeOK
<1>2. role'[i] = r /\ \A j \in RoleIds \ {i} : role'[j] = role[j]
  BY <1>1
<1>3. RolesThere' = RolesThere \union {i} /\ PermsThere' = PermsThere
  BY <1>2 DEF RolesThere, PermsThere
<1>4. {j \in RoleIds : Known(j)}' \subseteq {j \in RoleIds : Known(j)} \union {i}
  BY <1>2 DEF Known
<1>5. {p \in PermIds : KnownPerm(p)}' \subseteq {p \in PermIds : KnownPerm(p)} \union {i}
  BY DEF KnownPerm
<1>6. Writes({}, ins)
  BY <1>3, <1>4, <1>5 DEF Writes, Finite
<1>7. QED
  BY <1>2, <1>3, <1>6

LEMMA PermRowWritten ==
  ASSUME Inv, Finite, NEW p \in PermIds, NEW r, There(r), perm' = [perm EXCEPT ![p] = r],
         role' = role, NEW ins \in BOOLEAN, ins \/ p \in PermsThere,
         p \in PermsThere => r.batch = perm[p].batch
  PROVE  Writes({}, ins) /\ PermsThere \subseteq PermsThere' /\ p \in PermsThere'
         /\ perm'[p] = r /\ \A q \in PermIds \ {p} : perm'[q] = perm[q]
<1>1. DOMAIN perm = PermIds
  BY DEF Inv, TypeOK
<1>2. perm'[p] = r /\ \A q \in PermIds \ {p} : perm'[q] = perm[q]
  BY <1>1
<1>3. PermsThere' = PermsThere \union {p} /\ RolesThere' = RolesThere
  BY <1>2 DEF RolesThere, PermsThere
<1>4. {q \in PermIds : KnownPerm(q)}' \subseteq {q \in PermIds : KnownPerm(q)} \union {p}
  BY <1>2 DEF KnownPerm
<1>5. {j \in RoleIds : Known(j)}' \subseteq {j \in RoleIds : Known(j)} \union {p}
  BY DEF Known
<1>6. /\ \A q \in PermsThere \intersect PermsThere' : perm'[q].batch = perm[q].batch
      /\ \A q \in PermIds : perm'[q].batch => q \in PermsThere'
  BY <1>2, <1>3 DEF Finite, PermsThere
<1>7. Writes({}, ins)
  BY <1>3, <1>4, <1>5, <1>6 DEF Writes
<1>8. QED
  BY <1>2, <1>3, <1>7

LEMMA RoleRowsDeleted ==
  ASSUME Inv, Finite, NEW S \in SUBSET RolesThere, perm' = perm,
         role' = [i \in RoleIds |-> IF i \in S THEN [NoRole EXCEPT !.state = "deleted"]
                                               ELSE role[i]]
  PROVE  Writes(Dead("role", S), FALSE)
<1> DEFINE gone == [NoRole EXCEPT !.state = "deleted"]
<1>1. ~There(gone)
  BY DeletedRow
<1>2. \A i \in RoleIds : role'[i] = IF i \in S THEN gone ELSE role[i]
  OBVIOUS
<1> HIDE DEF gone
<1>3. RolesThere' = RolesThere \ S /\ PermsThere' = PermsThere
  BY <1>1, <1>2 DEF RolesThere, PermsThere
<1>4. {i \in RoleIds : Known(i)}' \subseteq {i \in RoleIds : Known(i)}
  BY <1>2 DEF Known, RolesThere, There
<1>5. {p \in PermIds : KnownPerm(p)}' = {p \in PermIds : KnownPerm(p)}
  BY DEF KnownPerm
<1>6. QED
  BY <1>3, <1>4, <1>5 DEF Writes, Finite, Dead

LEMMA PermRowsDeleted ==
  ASSUME Inv, Finite, NEW S \in SUBSET PermsThere, role' = role,
         perm' = [p \in PermIds |-> IF p \in S THEN [NoPerm EXCEPT !.state = "deleted"]
                                               ELSE perm[p]]
  PROVE  Writes(Dead("perm", S), FALSE)
<1> DEFINE gone == [NoPerm EXCEPT !.state = "deleted"]
<1>1. ~There(gone) /\ gone.batch = FALSE
  BY DeletedRow DEF NoPerm
<1>2. \A p \in PermIds : perm'[p] = IF p \in S THEN gone ELSE perm[p]
  OBVIOUS
<1> HIDE DEF gone
<1>3. RolesThere' = RolesThere /\ PermsThere' = PermsThere \ S
  BY <1>1, <1>2 DEF RolesThere, PermsThere
<1>4. {p \in PermIds : KnownPerm(p)}' \subseteq {p \in PermIds : KnownPerm(p)}
  BY <1>2 DEF KnownPerm, PermsThere, There
<1>5. {i \in RoleIds : Known(i)}' = {i \in RoleIds : Known(i)}
  BY DEF Known
<1>6. /\ \A p \in PermsThere \intersect PermsThere' : perm'[p].batch = perm[p].batch
      /\ \A p \in PermIds : perm'[p].batch => p \in PermsThere'
  BY <1>1, <1>2, <1>3 DEF Finite, PermsThere
<1>7. QED
  BY <1>3, <1>4, <1>5, <1>6 DEF Writes, Dead

-----------------------------------------------------------------------------
(* The calls of the other requests.                                        *)
Other(w) == Steps(w) /\ req'[w].op = req[w].op

LEMMA GoesOther ==
  ASSUME Requests, NEW w \in Workers, NEW r, Shaped(r), r.op = req[w].op, Goes(w, r),
         UNCHANGED <<role, perm, grants, holders>>
  PROVE  Other(w)
BY AfterFields, Reads DEF Goes, Other

LEMMA RefusedOther ==
  ASSUME Requests, NEW w \in Workers, NEW a, a # "done", Refused(w, a),
         UNCHANGED <<role, perm, grants, holders>>
  PROVE  Other(w)
BY RefusedReads DEF Other, RefusedAs

LEMMA WritesOther ==
  ASSUME Requests, NEW w \in Workers, NEW dead, NEW given, NEW ins,
         Affects(w, After(req[w]), dead, given, ins), Writes(dead, ins)
  PROVE  Other(w)
<1> DEFINE c == After(req[w])
<1>1. c.op = req[w].op
  BY AfterFields DEF Requests, Sane
<1>2. Affects(w, c, dead, given, ins)
  OBVIOUS
<1> HIDE DEF c
<1>3. QED
  BY <1>1, <1>2, WritesSteps DEF Other

LEMMA ReadsOther ==
  ASSUME Inv, NEW w \in Workers,
         \/ FindRole(w) \/ CheckUnused(w) \/ CountPerms(w) \/ CountRoles(w) \/ FindPerm(w)
         \/ Fail(w)
  PROVE  Other(w)
<1>1. Requests /\ Shaped(req[w])
  BY DEF Inv, Requests, Sane
<1>2. /\ UNCHANGED <<role, perm, grants, holders>>
      /\ Goes(w, req[w]) \/ \E a : a # "done" /\ Refused(w, a)
  BY DEF FindRole, CheckUnused, CountPerms, CountRoles, FindPerm, Fail
<1>3. QED
  BY <1>1, <1>2, GoesOther, RefusedOther

LEMMA ReadLinksOther ==
  ASSUME Inv, NEW w \in Workers, ReadLinks(w) \/ ReadPerms(w)
  PROVE  Other(w)
<1>1. Requests /\ Shaped(req[w])
  BY DEF Inv, Requests, Sane
<1>2. UNCHANGED <<role, perm, grants, holders>> /\ \E P : Goes(w, PermsTaken(req[w], P))
  BY DEF ReadLinks, ReadPerms, PermsTaken
<1>3. PICK P : Goes(w, PermsTaken(req[w], P))
  BY <1>2
<1>4. Shaped(PermsTaken(req[w], P)) /\ PermsTaken(req[w], P).op = req[w].op
  BY <1>1, PermsTakenFields DEF Aside
<1>5. QED
  BY <1>1, <1>2, <1>3, <1>4, GoesOther

LEMMA RoleWritesOther ==
  ASSUME Inv, Finite, NEW w \in Workers, InsertRole(w) \/ WriteRole(w) \/ DeleteRoles(w)
  PROVE  Other(w)
<1>1. Requests
  BY DEF Inv
<1>2. CASE InsertRole(w)
  <2>1. UNCHANGED <<perm, grants, holders>> /\ At(w, "insertRole")
    BY <1>2 DEF InsertRole
  <2>2. req[w].row \in NewRoles
    BY <2>1, Acting DEF Planned, Looked
  <2>3. CASE Refused(w, "conflict") /\ UNCHANGED role
    BY <1>1, <2>1, <2>3, RefusedOther
  <2>4. CASE /\ RoomForRole /\ role' = [role EXCEPT ![NextRole] = req[w].row]
             /\ Affects(w, After(req[w]), {}, {}, TRUE)
    <3>1. NextRole \in RoleIds /\ There(req[w].row)
      BY <2>2, <2>4, NextRoleUnborn DEF NewRoles, There
    <3>2. Writes({}, TRUE)
      BY <2>1, <2>4, <3>1, RoleRowWritten
    <3>3. QED
      BY <1>1, <2>4, <3>2, WritesOther
  <2>5. QED
    BY <1>2, <2>3, <2>4 DEF InsertRole
<1>3. CASE WriteRole(w)
  <2>1. UNCHANGED <<perm, grants, holders>> /\ At(w, "writeRole")
    BY <1>3 DEF WriteRole
  <2>2. /\ Typed(req[w]) /\ req[w].ids # {} /\ req[w].row \in Amendments
    BY <2>1, Acting DEF Planned, Looked, WriteTodos
  <2>3. PICK i \in req[w].ids : TRUE
    BY <2>2
  <2> DEFINE new == Kept(req[w].row, role[i])
  <2>4. i \in RoleIds /\ role[i] \in RoleRow
    BY <2>2, <2>3 DEF Typed, Inv, TypeOK
  <2>5. CASE i \notin RolesThere \/ Clash(new, i)
    <3>1. UNCHANGED role /\ Refused(w, IF i \in RolesThere THEN "conflict" ELSE "notFound")
      BY <1>3, <2>3, <2>5 DEF WriteRole
    <3>2. QED
      BY <1>1, <2>1, <3>1, RefusedOther
  <2>6. CASE i \in RolesThere /\ ~Clash(new, i)
    <3>1. role' = [role EXCEPT ![i] = new] /\ Affects(w, After(req[w]), {}, {}, FALSE)
      BY <1>3, <2>3, <2>6 DEF WriteRole
    <3>2. There(new)
      BY <2>2, <2>4, <2>6, KeptTyped DEF RolesThere
    <3> HIDE DEF new
    <3>3. Writes({}, FALSE)
      BY <2>1, <2>4, <2>6, <3>1, <3>2, RoleRowWritten
    <3>4. QED
      BY <1>1, <3>1, <3>3, WritesOther
  <2>7. QED
    BY <2>5, <2>6
<1>4. CASE DeleteRoles(w)
  <2> DEFINE S == req[w].ids \intersect RolesThere
  <2>1. UNCHANGED perm
    BY <1>4 DEF DeleteRoles
  <2>2. CASE Refused(w, "notFound") /\ UNCHANGED <<role, grants, holders>>
    BY <1>1, <2>1, <2>2, RefusedOther
  <2>3. CASE /\ role' = [i \in RoleIds |-> IF i \in S
                           THEN [NoRole EXCEPT !.state = "deleted"] ELSE role[i]]
             /\ Affects(w, After(req[w]), Dead("role", S), {}, FALSE)
    <3>1. Writes(Dead("role", S), FALSE)
      BY <2>1, <2>3, RoleRowsDeleted
    <3>2. QED
      BY <1>1, <2>3, <3>1, WritesOther
  <2>4. QED
    BY <1>4, <2>2, <2>3 DEF DeleteRoles
<1>5. QED
  BY <1>2, <1>3, <1>4

LEMMA PermWritesOther ==
  ASSUME Inv, Finite, NEW w \in Workers, InsertPerm(w) \/ WritePerm(w) \/ DeletePerms(w)
  PROVE  Other(w)
<1>1. Requests
  BY DEF Inv
<1>2. CASE InsertPerm(w)
  <2>1. UNCHANGED <<role, grants, holders>> /\ At(w, "insertPerm")
    BY <1>2 DEF InsertPerm
  <2>2. req[w].prow \in NewPerms
    BY <2>1, Acting DEF Planned, Looked
  <2>3. CASE Refused(w, "conflict") /\ UNCHANGED perm
    BY <1>1, <2>1, <2>3, RefusedOther
  <2>4. CASE /\ RoomForPerm /\ perm' = [perm EXCEPT ![NextPerm] = req[w].prow]
             /\ Affects(w, After(req[w]), {}, {}, TRUE)
    <3>1. NextPerm \in PermIds /\ There(req[w].prow) /\ NextPerm \notin PermsThere
      BY <2>2, <2>4, NextPermUnborn DEF NewPerms, There, PermsThere
    <3>2. Writes({}, TRUE)
      BY <2>1, <2>4, <3>1, PermRowWritten
    <3>3. QED
      BY <1>1, <2>4, <3>2, WritesOther
  <2>5. QED
    BY <1>2, <2>3, <2>4 DEF InsertPerm
<1>3. CASE WritePerm(w)
  <2>1. UNCHANGED <<role, grants, holders>> /\ At(w, "writePerm")
    BY <1>3 DEF WritePerm
  <2>2. /\ Typed(req[w]) /\ req[w].perms # {} /\ Amends(req[w])
    BY <2>1, Acting DEF Planned, Looked, AmendTodos
  <2>3. PICK p \in req[w].perms : TRUE
    BY <2>2
  <2> DEFINE new == Amended(req[w], perm[p])
  <2>4. p \in PermIds /\ perm[p] \in PermRow
    BY <2>2, <2>3 DEF Typed, Inv, TypeOK
  <2>5. CASE p \notin PermsThere \/ \E q \in PermsThere \ {p} : perm[q].code = new.code
    <3>1. UNCHANGED perm /\ Refused(w, IF p \in PermsThere THEN "conflict" ELSE "notFound")
      BY <1>3, <2>3, <2>5 DEF WritePerm
    <3>2. QED
      BY <1>1, <2>1, <3>1, RefusedOther
  <2>6. CASE p \in PermsThere /\ ~ \E q \in PermsThere \ {p} : perm[q].code = new.code
    <3>1. perm' = [perm EXCEPT ![p] = new] /\ Affects(w, After(req[w]), {}, {}, FALSE)
      BY <1>3, <2>3, <2>6 DEF WritePerm
    <3>2. There(new)
      BY <2>2, <2>4, <2>6, AmendedTyped DEF PermsThere
    <3>3. new.batch = perm[p].batch
      BY <2>4 DEF Amended, PermRow
    <3> HIDE DEF new
    <3>4. Writes({}, FALSE)
      BY <2>1, <2>4, <2>6, <3>1, <3>2, <3>3, PermRowWritten
    <3>5. QED
      BY <1>1, <3>1, <3>4, WritesOther
  <2>7. QED
    BY <2>5, <2>6
<1>4. CASE DeletePerms(w)
  <2> DEFINE S == req[w].perms \intersect PermsThere
  <2>1. UNCHANGED <<role, holders>>
    BY <1>4 DEF DeletePerms
  <2>2. CASE Refused(w, "notFound") /\ UNCHANGED <<perm, grants>>
    BY <1>1, <2>1, <2>2, RefusedOther
  <2>3. CASE /\ perm' = [p \in PermIds |-> IF p \in S
                           THEN [NoPerm EXCEPT !.state = "deleted"] ELSE perm[p]]
             /\ Affects(w, After(req[w]), Dead("perm", S), {}, FALSE)
    <3>1. Writes(Dead("perm", S), FALSE)
      BY <2>1, <2>3, PermRowsDeleted
    <3>2. QED
      BY <1>1, <2>3, <3>1, WritesOther
  <2>4. QED
    BY <1>4, <2>2, <2>3 DEF DeletePerms
<1>5. QED
  BY <1>2, <1>3, <1>4

LEMMA LinkWritesOther ==
  ASSUME Inv, Finite, NEW w \in Workers, GrantPerms(w) \/ GiveRoles(w) \/ TakeRole(w)
  PROVE  Other(w)
<1>1. Requests
  BY DEF Inv
<1>2. UNCHANGED <<role, perm>> /\ \E given : Affects(w, After(req[w]), {}, given, FALSE)
  BY DEF GrantPerms, GiveRoles, TakeRole
<1>3. Writes({}, FALSE)
  BY <1>2, NoRowWritten
<1>4. QED
  BY <1>1, <1>2, <1>3, WritesOther

-----------------------------------------------------------------------------
(* What a step is to the other requests.                                   *)
LEMMA RanksGrow ==
  ASSUME NEW L2, IsFiniteSet(L2), NEW L \in SUBSET L2, NEW i
  PROVE  Rank(L, i) \in Nat /\ Rank(L2, i) \in Nat /\ Rank(L, i) <= Rank(L2, i)
<1>1. {j \in L2 : j > i} \subseteq L2 /\ {j \in L : j > i} \subseteq {j \in L2 : j > i}
  OBVIOUS
<1>2. QED
  BY <1>1, FS_Subset, FS_CardinalityType DEF Rank

ListsFinite == IsFiniteSet(RolesThere) /\ IsFiniteSet(PermsThere)
LEMMA ThereFinite == Finite => ListsFinite
<1> SUFFICES ASSUME Finite PROVE ListsFinite
  OBVIOUS
<1>1. RolesThere \subseteq {i \in RoleIds : Known(i)}
  BY DEF RolesThere, Known, There
<1>2. PermsThere \subseteq {p \in PermIds : KnownPerm(p)}
  BY DEF PermsThere, KnownPerm, There
<1>3. QED
  BY <1>1, <1>2, FS_Subset DEF Finite, ListsFinite

LEMMA FiniteKeeps ==
  ASSUME Finite, NEW w \in Workers, Steps(w)
  PROVE  Finite'
<1>1. CASE UNCHANGED <<role, perm, grants, holders>>
  BY <1>1 DEF Finite, Known, KnownPerm, PermsThere, There
<1>2. ASSUME NEW dead, NEW ins, Writes(dead, ins) PROVE Finite'
  <2> DEFINE A == {i \in RoleIds : Known(i)}
             B == {p \in PermIds : KnownPerm(p)}
  <2>1. PICK n : A' \subseteq A \union {n}
    BY <1>2 DEF Writes
  <2>2. PICK m : B' \subseteq B \union {m}
    BY <1>2 DEF Writes
  <2>3. IsFiniteSet(A \union {n}) /\ IsFiniteSet(B \union {m})
    BY FS_AddElement DEF Finite
  <2>4. IsFiniteSet(A') /\ IsFiniteSet(B')
    BY <2>1, <2>2, <2>3, FS_Subset
  <2>5. QED
    BY <1>2, <2>4 DEF Finite, Writes
<1>3. QED
  BY <1>1, <1>2 DEF Steps

\* A walk goes on in a listing L2 that has only grown, L before.
LEMMA WalkUndisturbed ==
  ASSUME NEW r, NEW c, NEW dead, NEW ins, Touches(r, c, dead, ins),
         r.todo \in ListTodos \union {<<>>},
         NEW L, NEW L2, IsFiniteSet(L), IsFiniteSet(L2), NEW S, NEW kind, Steady(c, kind),
         \A i \in L \ L2 : <<kind, i>> \in dead, ~ins => L2 \subseteq L,
         Steady(r, kind) => Walked(r, L, S)
  PROVE  Walked(c, L2, S)
<1>1. /\ c.todo = r.todo /\ c.page = r.page /\ c.total = r.total /\ c.answer = r.answer
      /\ c.gone = r.gone \union dead
      /\ r.slipped \/ (ins /\ Starts(r.todo, "rows")) => c.slipped
  BY DEF Touches
<1>2. c.done = r.done
  BY DEF Touches, ListTodos, Starts
<1>3. ~c.slipped /\ \A g \in c.gone : g[1] # kind
  BY DEF Steady
<1>4. Steady(r, kind)
  BY <1>1, <1>3 DEF Steady
<1>5. L \subseteq L2
  <2>1. \A i : <<kind, i>>[1] = kind
    OBVIOUS
  <2>2. QED
    BY <1>1, <1>3, <2>1
<1>6. \A i : /\ Rank(L, i) \in Nat /\ Rank(L2, i) \in Nat /\ Rank(L, i) <= Rank(L2, i)
  BY <1>5, RanksGrow
<1>7. Walked(r, L, S)
  BY <1>4
<1>8. r.todo = <<"rows">> => L2 = L
  BY <1>1, <1>3, <1>5 DEF Starts
<1>9. S \subseteq L2 /\ c.page \in Nat \ {0} /\ c.total \in Nat
  BY <1>1, <1>5, <1>7 DEF Walked
<1>10. \A i \in S : Rank(L2, i) < r.page - 1 => Rank(L, i) < r.page - 1
  BY <1>1, <1>6, <1>9
<1>11. \A i \in S : Rank(L2, i) < r.page => Rank(L, i) < r.page
  BY <1>1, <1>6, <1>9
<1>12. Through(c, L2, S)
  BY <1>1, <1>2, <1>7, <1>8, <1>10, <1>11 DEF Walked, Through
<1>13. QED
  BY <1>9, <1>12 DEF Walked

\* Of a batch one row is left at most: so it was before.
LEMMA BatchBefore ==
  ASSUME Finite, NEW dead, NEW ins, Writes(dead, ins), OneBatch(perm'),
         PermsThere \subseteq PermsThere'
  PROVE  OneBatch(perm)
BY DEF Finite, Writes, OneBatch

LEMMA OthersFine ==
  ASSUME Complete, NEW w \in Workers, Steps(w), NEW v \in Workers \ {w}
  PROVE  Fine(v)'
<1> DEFINE r == req[v]
           c == req'[v]
<1>1. OnCourse(r) /\ SownAt(v) /\ WalkedAt(v)
  BY DEF Complete, Fine
<1>2. CASE UNCHANGED <<role, perm, grants, holders>> /\ req'[v] = req[v]
  <2>1. RolesThere' = RolesThere /\ PermsThere' = PermsThere
    BY <1>2 DEF RolesThere, PermsThere, There
  <2>2. OnCourse(req[v])' /\ SownAt(v)' /\ WalkedAt(v)'
    BY <1>1, <1>2, <2>1 DEF OnCourse, SownAt, WalkedAt
  <2>3. QED
    BY <2>2 DEF Fine
<1>3. ASSUME NEW dead, NEW ins, Writes(dead, ins), Touches(r, c, dead, ins)
      PROVE  Fine(v)'
  <2>1. /\ c.op = r.op /\ c.todo = r.todo /\ c.answer = r.answer /\ c.moved
        /\ c.ids = r.ids /\ c.perms = r.perms /\ c.gone = r.gone \union dead
    BY <1>3 DEF Touches
  <2>2. OnCourse(c)
    BY <1>1, <2>1 DEF OnCourse
  <2>3. SownAt(v)'
    BY <2>1 DEF SownAt
  <2>4. IsFiniteSet(RolesThere) /\ IsFiniteSet(PermsThere)
    BY ThereFinite DEF Complete, ListsFinite
  <2>5. IsFiniteSet(RolesThere') /\ IsFiniteSet(PermsThere')
    <3>1. Finite'
      BY FiniteKeeps DEF Complete
    <3>2. ListsFinite'
      BY <3>1, ThereFinite, PTL
    <3>3. QED
      BY <3>2 DEF ListsFinite
  <2>6. ASSUME c.op = "walkRoles", Steady(c, "role")
        PROVE  Walked(c, RolesThere', c.ids)
    <3>1. r.todo \in ListTodos \union {<<>>}
      BY <1>1, <2>1, <2>6 DEF OnCourse, Long, CourseOf, ListTodos
    <3>2. Steady(r, "role") => Walked(r, RolesThere, r.ids)
      BY <1>1, <2>1, <2>6 DEF WalkedAt
    <3>3. /\ \A i \in RolesThere \ RolesThere' : <<"role", i>> \in dead
          /\ ~ins => RolesThere' \subseteq RolesThere
      BY <1>3 DEF Writes
    <3> HIDE DEF r, c
    <3>4. QED
      BY <1>3, <2>1, <2>4, <2>5, <2>6, <3>1, <3>2, <3>3, WalkUndisturbed
  <2>7. ASSUME c.op = "walkPerms", Steady(c, "perm"), OneBatch(perm')
        PROVE  Walked(c, PermsThere', c.perms)
    <3>1. r.todo \in ListTodos \union {<<>>}
      BY <1>1, <2>1, <2>7 DEF OnCourse, Long, CourseOf, ListTodos
    <3>2. /\ \A p \in PermsThere \ PermsThere' : <<"perm", p>> \in dead
          /\ ~ins => PermsThere' \subseteq PermsThere
      BY <1>3 DEF Writes
    <3>3. PermsThere \subseteq PermsThere'
      <4>1. \A p : <<"perm", p>>[1] = "perm"
        OBVIOUS
      <4>2. QED
        BY <2>1, <2>7, <3>2, <4>1 DEF Steady
    <3>4. Steady(r, "perm") => Walked(r, PermsThere, r.perms)
      BY <1>1, <1>3, <2>1, <2>7, <3>3, BatchBefore DEF WalkedAt, Complete
    <3> HIDE DEF r, c
    <3>5. QED
      BY <1>3, <2>1, <2>4, <2>5, <2>7, <3>1, <3>2, <3>4, WalkUndisturbed
  <2>8. QED
    BY <2>2, <2>3, <2>6, <2>7 DEF Fine, WalkedAt
<1>4. QED
  BY <1>2, <1>3 DEF Steps

-----------------------------------------------------------------------------
(* A walk goes on.                                                         *)
LEMMA Ordered ==
  ASSUME NEW L, L \subseteq Nat, NEW i \in L
  PROVE  \A j \in L : /\ j >= i <=> j > i \/ j = i
                      /\ ~(i > i)
                      /\ \A k \in L : j > i /\ k >= j => k > i
<1>1. i \in Nat /\ \A j \in L : j \in Nat
  OBVIOUS
<1>2. QED
  BY <1>1

LEMMA RankBelow ==
  ASSUME NEW L, IsFiniteSet(L), L \subseteq Nat, NEW i \in L
  PROVE  Rank(L, i) \in Nat /\ Rank(L, i) < Cardinality(L)
         /\ Cardinality({j \in L : j >= i}) = Rank(L, i) + 1
<1> DEFINE A == {j \in L : j > i}
           B == {j \in L : j >= i}
<1>1. A \subseteq L /\ B \subseteq L /\ i \notin A /\ B = A \union {i}
  <2>1. \A j \in L : (j >= i <=> j > i \/ j = i) /\ ~(i > i)
    BY Ordered
  <2>2. QED
    BY <2>1
<1>2. IsFiniteSet(A) /\ IsFiniteSet(B) /\ Cardinality(B) <= Cardinality(L)
  BY <1>1, FS_Subset
<1>3. Cardinality(B) = Cardinality(A) + 1
  BY <1>1, <1>2, FS_AddElement
<1>4. Cardinality(A) \in Nat /\ Cardinality(L) \in Nat
  BY <1>2, FS_CardinalityType
<1>5. QED
  BY <1>2, <1>3, <1>4 DEF Rank

LEMMA RankInjective ==
  ASSUME NEW L, IsFiniteSet(L), L \subseteq Nat, NEW i \in L, NEW k \in L,
         Rank(L, i) = Rank(L, k)
  PROVE  i = k
<1>1. ASSUME NEW a \in L, NEW b \in L, a < b PROVE Rank(L, b) < Rank(L, a)
  <2> DEFINE A == {j \in L : j > a}
             B == {j \in L : j >= b}
  <2>1. A \subseteq L /\ B \subseteq A
    <3>1. b > a
      BY <1>1
    <3>2. QED
      BY <3>1, Ordered
  <2>2. IsFiniteSet(A) /\ Cardinality(B) <= Cardinality(A)
    BY <2>1, FS_Subset
  <2>3. Rank(L, b) \in Nat /\ Cardinality(B) = Rank(L, b) + 1 /\ Cardinality(A) \in Nat
    BY <2>2, RankBelow, FS_CardinalityType
  <2>4. QED
    BY <2>2, <2>3 DEF Rank
<1>2. i \in Nat /\ k \in Nat /\ Rank(L, i) \in Nat /\ Rank(L, k) \in Nat
  BY RankBelow
<1>3. QED
  BY <1>1, <1>2

\* Without rows of one time a page is the row of its number.
LEMMA PageIs ==
  ASSUME NEW w \in Workers, NEW L, Listed(w) = L, IsFiniteSet(L), L \subseteq Nat,
         \A i, j \in L : SameTime(w, i, j) => i = j, NEW k \in Nat, NEW i \in L
  PROVE  i \in Page(w, k) <=> Rank(L, i) = k - 1
<1>1. {j \in L : j > i /\ ~SameTime(w, i, j)} = {j \in L : j > i}
  BY Ordered
<1>2. {j \in L : j >= i \/ SameTime(w, i, j)} = {j \in L : j >= i}
  BY Ordered
<1>3. i \in Page(w, k) <=> Rank(L, i) < k /\ k <= Cardinality({j \in L : j >= i})
  BY <1>1, <1>2 DEF Page, Rank
<1>4. /\ Rank(L, i) \in Nat /\ Cardinality({j \in L : j >= i}) = Rank(L, i) + 1
  BY RankBelow
<1>5. QED
  BY <1>3, <1>4

\* What the call has read.
Read(r, L, S) ==
  /\ S \subseteq L /\ r.page \in Nat \ {0} /\ r.total \in Nat
  /\ r.todo \in {<<"count", "rows">>, <<"count">>} => r.total = Cardinality(L)
  /\ r.todo = <<"count", "rows">> => \A i \in S : Rank(L, i) < r.page - 1 => i \in r.done
  /\ r.todo \in {<<"count">>, <<"rows", "count">>, <<"rows">>} =>
       \A i \in S : Rank(L, i) < r.page => i \in r.done
  /\ r.todo = <<"rows">> => r.total = Cardinality(L)

\* The fields that turning a page leaves alone.
Kin(r, c) ==
  /\ c.op = r.op /\ c.ids = r.ids /\ c.perms = r.perms /\ c.gone = r.gone
  /\ c.slipped = r.slipped /\ c.moved = r.moved

LEMMA SetAside ==
  ASSUME NEW r, Shaped(r), NEW n, NEW t, NEW D
  PROVE  /\ LET c == Onward(r, t) IN
            /\ Kin(r, c) /\ Shaped(c) /\ c.todo = t /\ c.done = r.done
            /\ c.page = r.page /\ c.total = r.total /\ c.answer = r.answer
         /\ LET c == Turned(r, n, t) IN
            /\ Kin(r, c) /\ Shaped(c) /\ c.todo = t /\ c.done = r.done
            /\ c.page = n /\ c.total = r.total /\ c.answer = r.answer
         /\ LET c == Totalled(r, n) IN
            /\ Kin(r, c) /\ Shaped(c) /\ c.todo = r.todo /\ c.done = r.done
            /\ c.page = r.page /\ c.total = n /\ c.answer = r.answer
         /\ LET c == Seen(r, D) IN
            /\ Kin(r, c) /\ Shaped(c) /\ c.todo = r.todo /\ c.done = D
            /\ c.page = r.page /\ c.total = r.total /\ c.answer = r.answer
BY DEF Shaped, Fields, Kin, Onward, Turned, Totalled, Seen

\* How the client goes on from a call.
Turning(r, c) ==
  \/ /\ r.todo \in {<<"count", "rows">>, <<"rows", "count">>}
     /\ c.todo = Tail(r.todo) /\ c.page = r.page /\ c.answer = r.answer
  \/ /\ r.todo \in {<<"rows">>, <<"count">>} /\ r.page < r.total
     /\ c.todo = IF r.todo = <<"rows">> THEN <<"count", "rows">> ELSE <<"rows", "count">>
     /\ c.page = r.page + 1 /\ c.answer = r.answer
  \/ /\ r.todo \in {<<"rows">>, <<"count">>} /\ ~(r.page < r.total)
     /\ c.todo = <<>> /\ c.page = r.page /\ c.answer = "done"

LEMMA ListLengths ==
  /\ Len(<<"count", "rows">>) = 2 /\ Tail(<<"count", "rows">>) = <<"rows">>
  /\ Len(<<"rows", "count">>) = 2 /\ Tail(<<"rows", "count">>) = <<"count">>
  /\ Len(<<"rows">>) = 1 /\ Tail(<<"rows">>) = <<>> /\ Head(<<"rows">>) = "rows"
  /\ Len(<<"count">>) = 1 /\ Tail(<<"count">>) = <<>> /\ Head(<<"count">>) = "count"
<1>1. Len(<<"count", "rows">>) = 2 /\ Len(<<"rows", "count">>) = 2
  OBVIOUS
<1>2. Tail(<<"count", "rows">>) = <<"rows">>
  OBVIOUS
<1>3. Tail(<<"rows", "count">>) = <<"count">>
  OBVIOUS
<1>4. Len(<<"rows">>) = 1 /\ Head(<<"rows">>) = "rows"
  OBVIOUS
<1>5. Len(<<"count">>) = 1 /\ Head(<<"count">>) = "count"
  OBVIOUS
<1>6. Tail(<<"rows">>) = <<>>
  OBVIOUS
<1>7. Tail(<<"count">>) = <<>>
  OBVIOUS
<1>8. QED
  BY <1>1, <1>2, <1>3, <1>4, <1>5, <1>6, <1>7

LEMMA TurnsAs ==
  ASSUME NEW r, Shaped(r), r.todo \in ListTodos
  PROVE  LET c == Turns(r) IN
         Kin(r, c) /\ c.done = r.done /\ c.total = r.total /\ Turning(r, c)
<1>1. CASE r.todo \in {<<"count", "rows">>, <<"rows", "count">>}
  <2>1. Len(r.todo) = 2
    BY <1>1, ListLengths
  <2>2. Turns(r) = Onward(r, Tail(r.todo))
    BY <2>1 DEF Turns, Onward
  <2>3. QED
    BY <1>1, <2>2, SetAside DEF Turning
<1>2. CASE r.todo \in {<<"rows">>, <<"count">>} /\ r.page < r.total
  <2> DEFINE t == IF r.todo = <<"rows">> THEN <<"count", "rows">> ELSE <<"rows", "count">>
  <2>1. Len(r.todo) = 1 /\ (Head(r.todo) = "rows" <=> r.todo = <<"rows">>)
    BY <1>2, ListLengths
  <2>2. Turns(r) = Turned(r, r.page + 1, t)
    <3>1. t = IF Head(r.todo) = "rows" THEN <<"count", "rows">> ELSE <<"rows", "count">>
      BY <2>1
    <3> HIDE DEF t
    <3>2. QED
      BY <1>2, <2>1, <3>1 DEF Turns, Turned
  <2>3. QED
    BY <1>2, <2>2, SetAside DEF Turning
<1>3. CASE r.todo \in {<<"rows">>, <<"count">>} /\ ~(r.page < r.total)
  <2>1. Len(r.todo) = 1 /\ Tail(r.todo) = <<>>
    BY <1>3, ListLengths
  <2>2. Turns(r) = After(r)
    BY <1>3, <2>1 DEF Turns
  <2>3. QED
    BY <1>3, <2>1, <2>2, AfterFields DEF Turning, Kin
<1>4. QED
  BY <1>1, <1>2, <1>3 DEF ListTodos

LEMMA TurnsWalked ==
  ASSUME NEW r, r.todo \in ListTodos, r.answer # "done", NEW L, IsFiniteSet(L),
         L \subseteq Nat, NEW S, Read(r, L, S), NEW c, c.done = r.done, c.total = r.total,
         Turning(r, c)
  PROVE  Walked(c, L, S)
<1>1. Cardinality(L) \in Nat /\ r.page \in Nat \ {0} /\ r.total \in Nat /\ S \subseteq L
  BY FS_CardinalityType DEF Read
<1>2. \A i \in S : Rank(L, i) \in Nat /\ Rank(L, i) < Cardinality(L)
  BY <1>1, RankBelow
<1>3. CASE r.todo = <<"count", "rows">>
  <2>1. c.todo = <<"rows">> /\ c.page = r.page /\ c.answer # "done"
    BY <1>3 DEF Turning
  <2>2. QED
    BY <1>1, <1>3, <2>1 DEF Read, Walked, Through
<1>4. CASE r.todo = <<"rows", "count">>
  <2>1. c.todo = <<"count">> /\ c.page = r.page /\ c.answer # "done"
    BY <1>4 DEF Turning
  <2>2. QED
    BY <1>1, <1>4, <2>1 DEF Read, Walked, Through
<1>5. CASE r.todo \in {<<"rows">>, <<"count">>}
  <2>1. \A i \in S : Rank(L, i) < r.page => i \in r.done
    BY <1>5 DEF Read
  <2>2. r.total = Cardinality(L)
    BY <1>5 DEF Read
  <2>3. CASE r.page < r.total
    <3>1. /\ c.todo \in {<<"count", "rows">>, <<"rows", "count">>}
          /\ c.page = r.page + 1 /\ c.answer # "done"
      BY <1>5, <2>3 DEF Turning
    <3>2. QED
      BY <1>1, <2>1, <3>1 DEF Walked, Through
  <2>4. CASE ~(r.page < r.total)
    <3>1. c.todo = <<>> /\ c.page = r.page
      BY <1>5, <2>4, ListLengths DEF Turning
    <3>2. S \subseteq r.done
      BY <1>1, <1>2, <2>1, <2>2, <2>4
    <3>3. QED
      BY <1>1, <3>1, <3>2 DEF Walked, Through
  <2>5. QED
    BY <2>3, <2>4
<1>6. QED
  BY <1>3, <1>4, <1>5 DEF ListTodos

\* Of the long requests only a walk reads pages.
LEMMA PagesOfWalks ==
  ASSUME NEW r, OnCourse(r), r.op \in Long, r.todo \in ListTodos
  PROVE  /\ r.op \in {"walkRoles", "walkPerms"} /\ r.answer # "done"
         /\ r.op = "walkRoles" => r.todo \in {<<"count", "rows">>, <<"rows">>}
<1>1. \A t \in ListTodos : t # <<>> /\ t \notin SeedTodos
  BY DEF ListTodos, SeedTodos
<1>2. r.todo \in CourseOf(r.op) /\ r.answer # "done"
  BY <1>1 DEF OnCourse
<1>3. r.op # "seed"
  BY <1>1, <1>2 DEF CourseOf
<1>4. QED
  BY <1>2, <1>3 DEF Long, CourseOf

LEMMA TurnedOnCourse ==
  ASSUME NEW r, OnCourse(r), r.op \in Long, r.todo \in ListTodos, NEW c, c.op = r.op,
         Turning(r, c)
  PROVE  OnCourse(c)
<1>1. /\ r.op \in {"walkRoles", "walkPerms"} /\ r.answer # "done"
      /\ r.op = "walkRoles" => r.todo \in {<<"count", "rows">>, <<"rows">>}
  BY PagesOfWalks
<1>2. CASE r.todo = <<"count", "rows">>
  <2>1. c.todo = <<"rows">> /\ c.answer # "done"
    BY <1>1, <1>2 DEF Turning
  <2>2. QED
    BY <1>1, <2>1 DEF OnCourse, CourseOf, ListTodos
<1>3. CASE r.todo = <<"rows", "count">>
  <2>1. c.todo = <<"count">> /\ c.answer # "done"
    BY <1>1, <1>3 DEF Turning
  <2>2. r.op = "walkPerms"
    BY <1>1, <1>3, ListLengths
  <2>3. QED
    BY <2>1, <2>2 DEF OnCourse, CourseOf, ListTodos
<1>4. CASE r.todo = <<"rows">>
  <2>1. c.todo = <<>> \/ (c.todo = <<"count", "rows">> /\ c.answer # "done")
    BY <1>1, <1>4, ListLengths DEF Turning
  <2>2. QED
    BY <1>1, <2>1 DEF OnCourse, CourseOf, ListTodos
<1>5. CASE r.todo = <<"count">>
  <2>1. c.todo = <<>> \/ (c.todo = <<"rows", "count">> /\ c.answer # "done")
    BY <1>1, <1>5, ListLengths DEF Turning
  <2>2. r.op = "walkPerms"
    BY <1>1, <1>5, ListLengths
  <2>3. QED
    BY <2>1, <2>2 DEF OnCourse, CourseOf, ListTodos
<1>6. QED
  BY <1>2, <1>3, <1>4, <1>5 DEF ListTodos

\* A request that is neither the script nor a walk.
LEMMA ShortFine ==
  ASSUME NEW w \in Workers, req'[w].op \notin Long
  PROVE  Fine(w)'
BY DEF Fine, OnCourse, SownAt, WalkedAt, Long

LEMMA ListingGoesOn ==
  ASSUME Complete, Inv, NEW w \in Workers, req[w].todo \in ListTodos,
         NEW c, Shaped(c), Kin(req[w], c), c.todo = req[w].todo, c.answer = req[w].answer,
         req' = [req EXCEPT ![w] = Turns(c)], UNCHANGED <<role, perm, grants, holders>>,
         req[w].op = "walkRoles" /\ Steady(req[w], "role") =>
           Read(c, RolesThere, req[w].ids),
         req[w].op = "walkPerms" /\ Steady(req[w], "perm") /\ OneBatch(perm) =>
           Read(c, PermsThere, req[w].perms)
  PROVE  Steps(w) /\ Fine(w)'
<1> DEFINE r == req[w]
           x == req'[w]
<1>1. Steps(w) /\ x = Turns(c)
  BY Reads DEF Inv
<1>2. Kin(c, x) /\ x.done = c.done /\ x.total = c.total /\ Turning(c, x)
  BY <1>1, TurnsAs
<1>3. x.op = r.op /\ x.ids = r.ids /\ x.perms = r.perms /\ x.gone = r.gone
      /\ x.slipped = r.slipped
  BY <1>2 DEF Kin
<1>4. CASE r.op \in Long
  <2>1. OnCourse(r) /\ OnCourse(c)
    BY DEF Complete, Fine, OnCourse, Kin
  <2>2. r.op \in {"walkRoles", "walkPerms"} /\ c.answer # "done"
    BY <1>4, <2>1, PagesOfWalks
  <2>3. OnCourse(x)
    BY <1>2, <1>4, <2>1, TurnedOnCourse DEF Kin
  <2>4. /\ IsFiniteSet(RolesThere) /\ IsFiniteSet(PermsThere)
        /\ RolesThere \subseteq Nat /\ PermsThere \subseteq Nat
        /\ RolesThere' = RolesThere /\ PermsThere' = PermsThere
    BY ThereFinite, CatalogAssumption
       DEF Complete, ListsFinite, RolesThere, PermsThere, There
  <2> HIDE DEF r, x
  <2>5. ASSUME x.op = "walkRoles", Steady(x, "role") PROVE Walked(x, RolesThere, x.ids)
    <3>1. Read(c, RolesThere, x.ids)
      BY <1>3, <2>5 DEF Steady, r
    <3>2. QED
      BY <1>2, <2>2, <2>4, <3>1, TurnsWalked
  <2>6. ASSUME x.op = "walkPerms", Steady(x, "perm"), OneBatch(perm)
        PROVE  Walked(x, PermsThere, x.perms)
    <3>1. Read(c, PermsThere, x.perms)
      BY <1>3, <2>6 DEF Steady, r
    <3>2. QED
      BY <1>2, <2>2, <2>4, <3>1, TurnsWalked
  <2>7. SownAt(w)'
    BY <1>3, <2>2 DEF SownAt, x
  <2>8. WalkedAt(w)'
    BY <2>4, <2>5, <2>6 DEF WalkedAt, x
  <2>9. QED
    BY <1>1, <2>3, <2>7, <2>8 DEF Fine, x
<1>5. CASE r.op \notin Long
  BY <1>1, <1>3, <1>5, ShortFine
<1>6. QED
  BY <1>4, <1>5

\* The rows of a page that the walk did not have yet.
LEMMA RowsCounted ==
  ASSUME NEW r, Shaped(r), NEW L, NEW S, Walked(r, L, S), IsFiniteSet(L),
         r.todo \in {<<"count", "rows">>, <<"count">>}
  PROVE  Read(Totalled(r, Cardinality(L)), L, S)
<1> DEFINE n == Cardinality(L)
           c == Totalled(r, n)
<1>1. c.todo = r.todo /\ c.done = r.done /\ c.page = r.page /\ c.total = n
  BY SetAside
<1>2. n \in Nat
  BY FS_CardinalityType
<1> HIDE DEF c, n
<1>3. CASE r.todo = <<"count", "rows">>
  <2>1. r.todo \notin {<<"count">>, <<"rows", "count">>, <<"rows">>}
    BY <1>3, ListLengths
  <2>2. Read(c, L, S)
    BY <1>1, <1>2, <1>3, <2>1 DEF Walked, Through, Read, n
  <2>3. QED
    BY <2>2 DEF c, n
<1>4. CASE r.todo = <<"count">>
  <2>1. r.todo \notin {<<"count", "rows">>, <<"rows", "count">>, <<"rows">>}
    BY <1>4, ListLengths
  <2>2. Read(c, L, S)
    BY <1>1, <1>2, <1>4, <2>1 DEF Walked, Through, Read, n
  <2>3. QED
    BY <2>2 DEF c, n
<1>5. QED
  BY <1>3, <1>4

LEMMA RowsRead ==
  ASSUME NEW r, NEW L, NEW S, Walked(r, L, S), IsFiniteSet(L),
         r.todo \in {<<"rows", "count">>, <<"rows">>},
         NEW c, c.todo = r.todo, c.page = r.page, c.total = r.total,
         r.done \subseteq c.done, \A i \in S : Rank(L, i) = r.page - 1 => i \in c.done
  PROVE  Read(c, L, S)
<1>1. r.todo \notin {<<"count", "rows">>, <<"count">>}
  BY ListLengths
<1>2. S \subseteq L /\ r.page \in Nat \ {0} /\ r.total \in Nat
  BY DEF Walked
<1>3. \A i \in S : Rank(L, i) \in Nat
  <2>1. \A i : Rank(L, i) \in Nat
    BY RanksGrow
  <2>2. QED
    BY <2>1
<1>4. \A i \in S : Rank(L, i) < r.page - 1 => i \in r.done
  BY DEF Walked, Through
<1>5. \A i \in S : Rank(L, i) < r.page => i \in c.done
  BY <1>2, <1>3, <1>4
<1>6. r.todo = <<"rows">> => r.total = Cardinality(L)
  BY DEF Walked, Through
<1>7. QED
  BY <1>1, <1>2, <1>5, <1>6 DEF Read

LEMMA CountRowsFine ==
  ASSUME Complete, Inv, NEW w \in Workers, CountRows(w)
  PROVE  Steps(w) /\ Fine(w)'
<1> DEFINE r == req[w]
           n == Cardinality(Listed(w))
           c == Totalled(r, n)
<1>1. /\ UNCHANGED <<role, perm, grants, holders>> /\ At(w, "count")
      /\ req' = [req EXCEPT ![w] = Turns(c)]
  BY DEF CountRows, Totalled
<1>2. Shaped(r) /\ r.todo \in {<<"count", "rows">>, <<"count">>}
  BY <1>1, Acting DEF Planned
<1>3. Kin(r, c) /\ Shaped(c) /\ c.todo = r.todo /\ c.answer = r.answer
  BY <1>2, SetAside
<1>4. IsFiniteSet(RolesThere) /\ IsFiniteSet(PermsThere) /\ WalkedAt(w)
  BY ThereFinite DEF Complete, ListsFinite, Fine
<1>5. ASSUME r.op = "walkRoles", Steady(r, "role") PROVE Read(c, RolesThere, r.ids)
  <2>1. Walked(r, RolesThere, r.ids) /\ Listed(w) = RolesThere
    BY <1>4, <1>5 DEF WalkedAt, Listed
  <2> HIDE DEF r
  <2>2. QED
    BY <1>2, <1>4, <2>1, RowsCounted
<1>6. ASSUME r.op = "walkPerms", Steady(r, "perm"), OneBatch(perm)
      PROVE  Read(c, PermsThere, r.perms)
  <2>1. Walked(r, PermsThere, r.perms) /\ Listed(w) = PermsThere
    BY <1>4, <1>6 DEF WalkedAt, Listed
  <2> HIDE DEF r
  <2>2. QED
    BY <1>2, <1>4, <2>1, RowsCounted
<1>7. r.todo \in ListTodos
  BY <1>2 DEF ListTodos
<1> HIDE DEF c
<1>8. QED
  BY <1>1, <1>3, <1>5, <1>6, <1>7, ListingGoesOn

\* The rows of a page are kept, whichever of one time they are.
LEMMA PageKept ==
  ASSUME NEW w \in Workers, NEW L, Listed(w) = L, IsFiniteSet(L), L \subseteq Nat,
         \A i, j \in L : SameTime(w, i, j) => i = j, NEW k \in Nat, NEW D,
         Page(w, k) = {} \/ \E i \in Page(w, k) : i \in D
  PROVE  \A i \in L : Rank(L, i) = k - 1 => i \in D
<1> SUFFICES ASSUME NEW i \in L, Rank(L, i) = k - 1 PROVE i \in D
  OBVIOUS
<1>1. i \in Page(w, k)
  BY PageIs
<1>2. PICK j \in Page(w, k) : j \in D
  BY <1>1
<1>3. j \in L
  BY DEF Page
<1>4. Rank(L, j) = k - 1
  BY <1>3, PageIs
<1>5. QED
  BY <1>2, <1>3, <1>4, RankInjective

LEMMA FindRowsFine ==
  ASSUME Complete, Inv, NEW w \in Workers, FindRows(w)
  PROVE  Steps(w) /\ Fine(w)'
<1> DEFINE r == req[w]
<1>1. UNCHANGED <<role, perm, grants, holders>> /\ At(w, "rows")
  BY DEF FindRows
<1>2. Shaped(r) /\ r.todo \in {<<"rows", "count">>, <<"rows">>}
  BY <1>1, Acting DEF Planned
<1>3. PICK c : /\ Kin(r, c) /\ Shaped(c) /\ c.todo = r.todo /\ c.answer = r.answer
               /\ c.page = r.page /\ c.total = r.total /\ r.done \subseteq c.done
               /\ Page(w, r.page) = {} \/ \E i \in Page(w, r.page) : i \in c.done
               /\ req' = [req EXCEPT ![w] = Turns(c)]
  <2>1. CASE Page(w, r.page) = {}
    <3>1. req' = [req EXCEPT ![w] = Turns(r)]
      BY <2>1 DEF FindRows
    <3>2. Kin(r, r)
      BY DEF Kin
    <3> HIDE DEF r
    <3>3. QED
      BY <1>2, <2>1, <3>1, <3>2
  <2>2. CASE Page(w, r.page) # {}
    <3>1. PICK i \in Page(w, r.page) :
            req' = [req EXCEPT ![w] = Turns([req[w] EXCEPT !.done = @ \union {i}])]
      BY <2>2, Zenon DEF FindRows
    <3> DEFINE D == r.done \union {i}
               s == Seen(r, D)
    <3>2. req' = [req EXCEPT ![w] = Turns(s)]
      BY <3>1, Zenon DEF Seen
    <3>3. Kin(r, s) /\ Shaped(s) /\ s.todo = r.todo /\ s.answer = r.answer
          /\ s.page = r.page /\ s.total = r.total /\ s.done = D
      BY <1>2, SetAside
    <3>4. r.done \subseteq D /\ i \in D
      OBVIOUS
    <3> HIDE DEF r, D, s
    <3>5. QED
      BY <3>1, <3>2, <3>3, <3>4
  <2>3. QED
    BY <2>1, <2>2
<1>4. /\ IsFiniteSet(RolesThere) /\ IsFiniteSet(PermsThere) /\ WalkedAt(w)
      /\ RolesThere \subseteq Nat /\ PermsThere \subseteq Nat
  BY ThereFinite, CatalogAssumption
     DEF Complete, ListsFinite, Fine, RolesThere, PermsThere
<1>5. ASSUME r.op = "walkRoles", Steady(r, "role") PROVE Read(c, RolesThere, r.ids)
  <2>1. Walked(r, RolesThere, r.ids) /\ Listed(w) = RolesThere
    BY <1>4, <1>5 DEF WalkedAt, Listed
  <2>2. \A i, j \in RolesThere : SameTime(w, i, j) => i = j
    BY <1>5 DEF SameTime
  <2>3. r.page \in Nat /\ r.ids \subseteq RolesThere
    BY <2>1 DEF Walked
  <2> DEFINE k == r.page
             D == c.done
  <2>4. Page(w, k) = {} \/ \E i \in Page(w, k) : i \in D
    BY <1>3
  <2>5. k \in Nat
    BY <2>3
  <2> HIDE DEF r, k, D
  <2>6. \A i \in RolesThere : Rank(RolesThere, i) = k - 1 => i \in D
    BY <1>4, <2>1, <2>2, <2>4, <2>5, PageKept
  <2>7. QED
    BY <1>2, <1>3, <1>4, <2>1, <2>3, <2>6, RowsRead DEF k, D
<1>6. ASSUME r.op = "walkPerms", Steady(r, "perm"), OneBatch(perm)
      PROVE  Read(c, PermsThere, r.perms)
  <2>1. Walked(r, PermsThere, r.perms) /\ Listed(w) = PermsThere
    BY <1>4, <1>6 DEF WalkedAt, Listed
  <2>2. \A i, j \in PermsThere : SameTime(w, i, j) => i = j
    BY <1>6 DEF SameTime, OneBatch, PermsThere
  <2>3. r.page \in Nat /\ r.perms \subseteq PermsThere
    BY <2>1 DEF Walked
  <2> DEFINE k == r.page
             D == c.done
  <2>4. Page(w, k) = {} \/ \E i \in Page(w, k) : i \in D
    BY <1>3
  <2>5. k \in Nat
    BY <2>3
  <2> HIDE DEF r, k, D
  <2>6. \A i \in PermsThere : Rank(PermsThere, i) = k - 1 => i \in D
    BY <1>4, <2>1, <2>2, <2>4, <2>5, PageKept
  <2>7. QED
    BY <1>2, <1>3, <1>4, <2>1, <2>3, <2>6, RowsRead DEF k, D
<1>7. r.todo \in ListTodos
  BY <1>2 DEF ListTodos
<1>8. QED
  BY <1>1, <1>3, <1>5, <1>6, <1>7, ListingGoesOn

-----------------------------------------------------------------------------
(* The script goes on.                                                     *)
LEMMA CallsOfScript ==
  ASSUME NEW r, OnCourse(r), r.op \in Long, r.todo \in SeedTodos
  PROVE  r.op = "seed" /\ r.answer # "done"
<1>1. \A t \in SeedTodos : t # <<>> /\ t \notin ListTodos
  BY DEF SeedTodos, ListTodos
<1>2. r.todo \in CourseOf(r.op) /\ r.answer # "done"
  BY <1>1 DEF OnCourse
<1>3. CourseOf("walkRoles") \subseteq ListTodos /\ CourseOf("walkPerms") \subseteq ListTodos
  BY DEF CourseOf, ListTodos
<1>4. QED
  BY <1>1, <1>2, <1>3 DEF Long

LEMMA SeedLengths ==
  /\ Len(FirstCall) = 4 /\ Tail(FirstCall) = RolesCall
  /\ Len(RolesCall) = 3 /\ Tail(RolesCall) = GrantsCall
  /\ Len(GrantsCall) = 2 /\ Tail(GrantsCall) = HoldersCall
  /\ Len(HoldersCall) = 1 /\ Tail(HoldersCall) = <<>>
<1>1. Len(FirstCall) = 4 /\ Tail(FirstCall) = RolesCall
  BY DEF FirstCall, RolesCall
<1>2. Len(RolesCall) = 3 /\ Tail(RolesCall) = GrantsCall
  BY DEF RolesCall, GrantsCall
<1>3. Len(GrantsCall) = 2 /\ Tail(GrantsCall) = HoldersCall
  BY DEF GrantsCall, HoldersCall
<1>4. Len(HoldersCall) = 1 /\ Tail(HoldersCall) = <<>>
  BY DEF HoldersCall
<1>5. QED
  BY <1>1, <1>2, <1>3, <1>4

\* The calls that are left tell how far it has come.
LEMMA Stages ==
  /\ FirstCall \notin AfterPerms \union AfterRoles \union AfterGrants
  /\ RolesCall # FirstCall /\ RolesCall \notin AfterRoles \union AfterGrants
  /\ GrantsCall # FirstCall /\ GrantsCall \in AfterPerms /\ GrantsCall \notin AfterGrants
  /\ HoldersCall # FirstCall /\ HoldersCall \in AfterPerms \intersect AfterRoles
  /\ <<>> # FirstCall /\ <<>> \notin AfterPerms \union AfterRoles \union AfterGrants
<1>1. Len(FirstCall) = 4 /\ Len(RolesCall) = 3 /\ Len(GrantsCall) = 2 /\ Len(HoldersCall) = 1
  BY SeedLengths
<1>2. /\ FirstCall # RolesCall /\ FirstCall # GrantsCall /\ FirstCall # HoldersCall
      /\ RolesCall # GrantsCall /\ RolesCall # HoldersCall /\ GrantsCall # HoldersCall
  BY <1>1
<1>3. <<>> # FirstCall /\ <<>> # RolesCall /\ <<>> # GrantsCall /\ <<>> # HoldersCall
  <2> DEFINE e == <<>>
  <2>1. Len(e) = 0
    OBVIOUS
  <2> HIDE DEF e
  <2>2. e # FirstCall /\ e # RolesCall /\ e # GrantsCall /\ e # HoldersCall
    BY <1>1, <2>1
  <2>3. QED
    BY <2>2 DEF e
<1>4. QED
  BY <1>2, <1>3 DEF AfterPerms, AfterRoles, AfterGrants

\* A request that goes on to its next call when nothing is left.
LEMMA UpsertedAs ==
  ASSUME NEW r, Shaped(r), NEW left
  PROVE  LET c == Upserted(r, left) IN
         /\ Kin(r, c) /\ c.done = r.done
         /\ left => c.todo = r.todo /\ c.answer = r.answer
         /\ ~left => c.todo = Tail(r.todo) /\ (Len(r.todo) # 1 => c.answer = r.answer)
BY AfterFields DEF Upserted, Kin

\* The count of its upserts tells that none is missing.
LEMMA AllCounted ==
  ASSUME NEW r, Counted(r), NEW c \in Sample, ~HasPerm(r, c), NEW d,
         d[1] = "perm", d[3] = c, NEW x, x.done = r.done \union {d}
  PROVE  Counted(x) /\ (Cardinality(r.done) + 1 < Cardinality(Sample) \/ AllPerms(x))
<1>1. \A e \in r.done : e[1] = "perm" /\ e[3] \in Sample /\ e[3] # c
  BY DEF Counted, HasPerm
<1>2. CodesGot(x) = CodesGot(r) \union {c} /\ c \notin CodesGot(r) /\ d \notin r.done
  BY <1>1 DEF CodesGot
<1>3. CodesGot(r) \subseteq Sample /\ CodesGot(x) \subseteq Sample
  BY <1>1, <1>2 DEF CodesGot
<1>4. IsFiniteSet(Sample) /\ IsFiniteSet(CodesGot(r)) /\ IsFiniteSet(CodesGot(x))
  BY <1>3, SamplesFinite, FS_Subset
<1>5. Cardinality(CodesGot(x)) = Cardinality(CodesGot(r)) + 1
  BY <1>2, <1>4, FS_AddElement
<1>6. IsFiniteSet(x.done) /\ Cardinality(x.done) = Cardinality(r.done) + 1
  <2>1. IsFiniteSet(r.done)
    BY DEF Counted
  <2>2. /\ IsFiniteSet(r.done \union {d})
        /\ Cardinality(r.done \union {d}) = Cardinality(r.done) + 1
    BY <1>2, <2>1, FS_AddElement
  <2>3. QED
    BY <2>2
<1>7. Counted(x)
  BY <1>1, <1>5, <1>6 DEF Counted
<1>8. ASSUME ~(Cardinality(r.done) + 1 < Cardinality(Sample)), NEW g \in Sample
       PROVE  HasPerm(x, g)
  <2>1. /\ Cardinality(CodesGot(x)) <= Cardinality(Sample)
        /\ Cardinality(CodesGot(x)) = Cardinality(Sample) => CodesGot(x) = Sample
    BY <1>3, <1>4, FS_Subset
  <2>2. /\ Cardinality(CodesGot(x)) = Cardinality(r.done) + 1
        /\ Cardinality(r.done) \in Nat /\ Cardinality(Sample) \in Nat
    BY <1>4, <1>5, FS_CardinalityType DEF Counted
  <2>3. CodesGot(x) = Sample
    BY <1>8, <2>1, <2>2
  <2>4. PICK e \in x.done : e[3] = g
    BY <2>3 DEF CodesGot
  <2>5. QED
    BY <1>7, <2>4 DEF Counted, HasPerm
<1>9. QED
  BY <1>7, <1>8 DEF AllPerms

\* A permission more.
LEMMA PermSown ==
  ASSUME NEW r, NEW R, NEW rows, NEW P, NEW prows, NEW G, NEW H,
         Sown(r, R, rows, P, prows, G, H), r.todo = FirstCall, r.answer # "done",
         NEW P2, P \subseteq P2, NEW prows2, \A q \in P : prows2[q].code = prows[q].code,
         NEW p \in P2, NEW c \in Sample, prows2[p].code = c, ~HasPerm(r, c),
         NEW left, left <=> Cardinality(r.done) + 1 < Cardinality(Sample),
         NEW x, x.ids = r.ids, x.perms = r.perms \union {p},
         x.done = r.done \union {<<"perm", p, c>>}, x.answer = r.answer,
         x.todo = IF left THEN FirstCall ELSE RolesCall
  PROVE  Sown(x, R, rows, P2, prows2, G, H)
<1> DEFINE d == <<"perm", p, c>>
<1>1. d[1] = "perm" /\ d[1] # "role" /\ d[2] = p /\ d[3] = c
  OBVIOUS
<1>2. Counted(r)
  BY DEF Sown
<1> HIDE DEF d
<1>3. x.done = r.done \union {d}
  BY DEF d
<1>4. Counted(x) /\ (left \/ AllPerms(x))
  BY <1>1, <1>2, <1>3, AllCounted
<1>5. RolesGot(x, R, rows)
  BY <1>1, <1>3 DEF Sown, RolesGot
<1>6. PermsGot(x, P2, prows2)
  BY <1>1, <1>3 DEF Sown, PermsGot
<1>7. Past(x, AfterPerms) => ~left
  BY Stages DEF Past
<1>8. ~Past(x, AfterRoles) /\ ~Past(x, AfterGrants)
  BY Stages DEF Past
<1>9. QED
  BY <1>4, <1>5, <1>6, <1>7, <1>8 DEF Sown

\* A role more.
OthersGot(r, c) == \A g \in RoleSample \ {c} : RoleIdOf(r, g) # {}
LEMMA RoleSown ==
  ASSUME NEW r, NEW R, NEW rows, NEW P, NEW prows, NEW G, NEW H,
         Sown(r, R, rows, P, prows, G, H), r.todo = RolesCall, r.answer # "done",
         NEW R2, R \subseteq R2, NEW rows2, \A j \in R : rows2[j].code = rows[j].code,
         NEW i \in R2, NEW c, rows2[i].code = c,
         NEW left, left \/ OthersGot(r, c),
         NEW x, x.ids = r.ids \union {i}, x.perms = r.perms,
         NEW d, d[1] = "role", d[2] = i, d[3] = c, x.done = r.done \union {d},
         x.answer = r.answer, x.todo = IF left THEN RolesCall ELSE GrantsCall
  PROVE  Sown(x, R2, rows2, P, prows, G, H)
<1>1. d[1] = "role" /\ d[1] # "perm" /\ d[2] = i /\ d[3] = c
  OBVIOUS
<1>2. x.done = r.done \union {d}
  OBVIOUS
<1>3. RolesGot(x, R2, rows2)
  BY <1>1, <1>2 DEF Sown, RolesGot
<1>4. PermsGot(x, P, prows)
  BY <1>1, <1>2 DEF Sown, PermsGot
<1>5. x.todo # FirstCall
  BY Stages
<1>6. AllPerms(x)
  <2>1. Past(r, AfterPerms)
    BY DEF Past, AfterPerms
  <2>2. QED
    BY <1>2, <2>1 DEF Sown, AllPerms, HasPerm
<1>7. ASSUME ~left, NEW g \in RoleSample PROVE RoleIdOf(x, g) # {}
  <2>1. RoleIdOf(r, g) \subseteq RoleIdOf(x, g)
    BY <1>2 DEF RoleIdOf
  <2>2. i \in RoleIdOf(x, c)
    BY <1>1, <1>2 DEF RoleIdOf
  <2>3. QED
    BY <1>7, <2>1, <2>2 DEF OthersGot
<1>8. Past(x, AfterRoles) => ~left
  BY Stages DEF Past
<1>9. ~Past(x, AfterGrants)
  BY Stages DEF Past
<1>10. QED
  BY <1>3, <1>4, <1>5, <1>6, <1>7, <1>8, <1>9 DEF Sown

\* The links have been written.
LEMMA GrantsSown ==
  ASSUME NEW r, NEW R, NEW rows, NEW P, NEW prows, NEW G, NEW H,
         Sown(r, R, rows, P, prows, G, H), r.todo = GrantsCall, r.answer # "done",
         NEW G2, NEW x, x.ids = r.ids, x.perms = r.perms, x.done = r.done,
         x.answer = r.answer,
         x.todo = GrantsCall \/ (x.todo = HoldersCall /\ Wanted(r) \subseteq G2)
  PROVE  Sown(x, R, rows, P, prows, G2, H)
<1>1. RolesGot(x, R, rows) /\ PermsGot(x, P, prows)
  BY DEF Sown, RolesGot, PermsGot
<1>2. /\ AllPerms(x)
      /\ \A c \in RoleSample : RoleIdOf(x, c) # {}
  <2>1. Past(r, AfterPerms) /\ Past(r, AfterRoles)
    BY DEF Past, AfterPerms, AfterRoles
  <2>2. QED
    BY <2>1 DEF Sown, AllPerms, HasPerm, RoleIdOf
<1>3. x.todo # FirstCall
  BY Stages
<1>4. Past(x, AfterGrants) => Wanted(x) \subseteq G2
  BY Stages DEF Past, Wanted
<1>5. QED
  BY <1>1, <1>2, <1>3, <1>4 DEF Sown

LEMMA HoldersSown ==
  ASSUME NEW r, NEW R, NEW rows, NEW P, NEW prows, NEW G, NEW H,
         Sown(r, R, rows, P, prows, G, H), r.todo = HoldersCall,
         NEW H2, NEW x, x.ids = r.ids, x.perms = r.perms, x.done = r.done,
         x.todo \in {HoldersCall, <<>>}, x.answer = "done" => Links(r) \subseteq H2
  PROVE  Sown(x, R, rows, P, prows, G, H2)
<1>1. RolesGot(x, R, rows) /\ PermsGot(x, P, prows)
  BY DEF Sown, RolesGot, PermsGot
<1>2. /\ AllPerms(x)
      /\ \A c \in RoleSample : RoleIdOf(x, c) # {}
      /\ Wanted(x) \subseteq G
  <2>1. Past(r, AfterPerms) /\ Past(r, AfterRoles) /\ Past(r, AfterGrants)
    BY DEF Past, AfterPerms, AfterRoles, AfterGrants
  <2>2. QED
    BY <2>1 DEF Sown, AllPerms, HasPerm, RoleIdOf, Wanted
<1>3. x.todo # FirstCall
  BY Stages
<1>4. x.answer = "done" => Links(x) \subseteq H2
  BY DEF Links, RoleIdOf
<1>5. QED
  BY <1>1, <1>2, <1>3, <1>4 DEF Sown

\* The script is at its call, if the request is the script.
LEMMA AtScript ==
  ASSUME Complete, Inv, NEW w \in Workers,
         NEW call \in {"upsertPerms", "upsertRoles", "upsertGrants", "upsertHolders"},
         At(w, call)
  PROVE  /\ Requests /\ Shaped(req[w])
         /\ call = "upsertPerms" => req[w].todo = FirstCall
         /\ call = "upsertRoles" => req[w].todo = RolesCall
         /\ call = "upsertGrants" => req[w].todo = GrantsCall
         /\ call = "upsertHolders" => req[w].todo = HoldersCall
         /\ req[w].op \in Long =>
              /\ req[w].op = "seed" /\ req[w].answer # "done"
              /\ ~req[w].moved => Sown(req[w], RolesThere, role, PermsThere, perm, grants, holders)
<1> DEFINE r == req[w]
<1>1. Requests /\ Shaped(r) /\ Planned(r.todo) /\ Starts(r.todo, call)
  BY Acting
<1>2. /\ call = "upsertPerms" => r.todo = FirstCall
      /\ call = "upsertRoles" => r.todo = RolesCall
      /\ call = "upsertGrants" => r.todo = GrantsCall
      /\ call = "upsertHolders" => r.todo = HoldersCall
  BY <1>1 DEF Planned, FirstCall, RolesCall, GrantsCall, HoldersCall
<1>3. r.todo \in SeedTodos
  BY <1>1, <1>2, Script DEF Scripted
<1>4. OnCourse(r) /\ SownAt(w)
  BY DEF Complete, Fine
<1>5. r.op \in Long => r.op = "seed" /\ r.answer # "done"
  BY <1>3, <1>4, CallsOfScript
<1>6. QED
  BY <1>1, <1>2, <1>4, <1>5 DEF SownAt

\* The script after its call.
LEMMA SeedFine ==
  ASSUME NEW w \in Workers, NEW r, r.op \in Long => r.op = "seed" /\ r.answer # "done",
         req'[w].op = r.op, req'[w].moved = r.moved,
         \/ req'[w].todo = <<>>
         \/ req'[w].todo \in SeedTodos /\ req'[w].answer = r.answer,
         r.op = "seed" /\ ~r.moved =>
           Sown(req'[w], RolesThere', role', PermsThere', perm', grants', holders')
  PROVE  Fine(w)'
<1>1. CASE r.op \in Long
  <2>1. req'[w].op = "seed" /\ r.answer # "done"
    BY <1>1
  <2>2. OnCourse(req'[w])
    BY <2>1 DEF OnCourse, CourseOf
  <2>3. SownAt(w)' /\ WalkedAt(w)'
    BY <2>1 DEF SownAt, WalkedAt
  <2>4. QED
    BY <2>2, <2>3 DEF Fine
<1>2. CASE r.op \notin Long
  BY <1>2, ShortFine
<1>3. QED
  BY <1>1, <1>2

LEMMA CallsAreTodos ==
  FirstCall \in SeedTodos /\ RolesCall \in SeedTodos /\ GrantsCall \in SeedTodos
    /\ HoldersCall \in SeedTodos
BY DEF FirstCall, RolesCall, GrantsCall, HoldersCall, SeedTodos

LEMMA UpsertPermsFine ==
  ASSUME Complete, Inv, NEW w \in Workers, UpsertPerms(w)
  PROVE  Steps(w) /\ Fine(w)'
<1> DEFINE r == req[w]
           few == Cardinality(r.done) + 1 < Cardinality(Sample)
           D(p, c) == PermsDone(r, r.perms \union {p}, r.done \union {<<"perm", p, c>>})
           E(p, c) == [r EXCEPT !.perms = @ \union {p},
                                !.done = @ \union {<<"perm", p, c>>}]
<1>1. UNCHANGED <<role, grants, holders>> /\ At(w, "upsertPerms")
  BY DEF UpsertPerms
<1>2. /\ Requests /\ Shaped(r) /\ r.todo = FirstCall
      /\ r.op \in Long => r.op = "seed" /\ r.answer # "done"
      /\ r.op = "seed" /\ ~r.moved =>
           Sown(r, RolesThere, role, PermsThere, perm, grants, holders)
  BY <1>1, AtScript DEF Long
<1>3. PICK c \in Sample :
        /\ ~ \E p \in r.done : p[1] = "perm" /\ p[3] = c
        /\ IF \E p \in PermsThere : perm[p].code = c
             THEN \E p \in {p \in PermsThere : perm[p].code = c} :
                    req' = [req EXCEPT ![w] = Upserted(E(p, c), few)] /\ UNCHANGED perm
             ELSE /\ RoomForPerm
                  /\ perm' = [perm EXCEPT ![NextPerm] = NewPerm(c, TRUE)]
                  /\ Affects(w, Upserted(E(NextPerm, c), few), {}, {}, TRUE)
  BY DEF UpsertPerms
<1>4. \A p : E(p, c) = D(p, c)
  BY DEF PermsDone
<1>5. ~HasPerm(r, c)
  BY <1>3 DEF HasPerm
<1> HIDE DEF few, E
<1>6. PICK p : /\ Steps(w) /\ req'[w] = Upserted(D(p, c), few)
               /\ PermsThere \subseteq PermsThere' /\ p \in PermsThere' /\ perm'[p].code = c
               /\ \A q \in PermsThere : perm'[q].code = perm[q].code
  <2>1. CASE \E p \in PermsThere : perm[p].code = c
    <3>1. PICK p \in PermsThere :
            /\ perm[p].code = c
            /\ req' = [req EXCEPT ![w] = Upserted(D(p, c), few)] /\ UNCHANGED perm
      BY <1>3, <1>4, <2>1
    <3>2. Steps(w) /\ req'[w] = Upserted(D(p, c), few)
      BY <1>1, <1>2, <3>1, Reads
    <3>3. QED
      BY <3>1, <3>2 DEF PermsThere
  <2>2. CASE ~ \E p \in PermsThere : perm[p].code = c
    <3> DEFINE n == NextPerm
               row == NewPerm(c, TRUE)
               x == Upserted(D(n, c), few)
    <3>1. RoomForPerm /\ perm' = [perm EXCEPT ![n] = row] /\ Affects(w, x, {}, {}, TRUE)
      BY <1>3, <1>4, <2>2
    <3>2. n \in PermIds /\ n \notin PermsThere
      BY <3>1, NextPermUnborn DEF PermsThere, There
    <3>3. There(row) /\ row.code = c
      BY DEF NewPerm, There
    <3> HIDE DEF n, row, x
    <3>4. /\ Writes({}, TRUE) /\ PermsThere \subseteq PermsThere' /\ n \in PermsThere'
          /\ perm'[n] = row /\ \A q \in PermIds \ {n} : perm'[q] = perm[q]
      BY <1>1, <3>1, <3>2, <3>3, PermRowWritten DEF Complete
    <3>5. Steps(w) /\ req'[w] = x
      BY <1>2, <3>1, <3>4, WritesSteps
    <3>6. \A q \in PermsThere : perm'[q].code = perm[q].code
      BY <3>2, <3>4 DEF PermsThere
    <3>7. QED
      BY <3>3, <3>4, <3>5, <3>6 DEF x
  <2>3. QED
    BY <2>1, <2>2
<1> DEFINE d == D(p, c)
           x == req'[w]
<1>7. /\ Shaped(d) /\ d.op = r.op /\ d.ids = r.ids /\ d.perms = r.perms \union {p}
      /\ d.done = r.done \union {<<"perm", p, c>>} /\ d.todo = FirstCall
  BY <1>2, PermsDoneFields DEF Aside
<1>8. d.answer = r.answer /\ d.moved = r.moved
  BY <1>2 DEF PermsDone, Shaped, Fields
<1>9. x = Upserted(d, few)
  BY <1>6
<1> HIDE DEF d, x
<1>10. /\ Kin(d, x) /\ x.done = d.done /\ x.answer = d.answer
       /\ x.todo = IF few THEN FirstCall ELSE RolesCall
  <2>1. Len(d.todo) = 4 /\ Tail(d.todo) = RolesCall
    BY <1>7, SeedLengths
  <2>2. /\ Kin(d, x) /\ x.done = d.done
        /\ few => x.todo = d.todo /\ x.answer = d.answer
        /\ ~few => x.todo = Tail(d.todo) /\ (Len(d.todo) # 1 => x.answer = d.answer)
    BY <1>7, <1>9, UpsertedAs
  <2>3. QED
    BY <1>7, <2>1, <2>2
<1>11. RolesThere' = RolesThere /\ UNCHANGED <<role, grants, holders>>
  BY <1>1 DEF RolesThere
<1>12. ASSUME r.op = "seed", ~r.moved
       PROVE  Sown(x, RolesThere, role, PermsThere', perm', grants, holders)
  <2>1. /\ x.ids = r.ids /\ x.perms = r.perms \union {p} /\ x.answer = r.answer
        /\ x.done = r.done \union {<<"perm", p, c>>} /\ r.answer # "done"
    BY <1>2, <1>7, <1>8, <1>10, <1>12 DEF Kin, Long
  <2>2. Sown(r, RolesThere, role, PermsThere, perm, grants, holders) /\ r.todo = FirstCall
    BY <1>2, <1>12
  <2>3. few <=> Cardinality(r.done) + 1 < Cardinality(Sample)
    BY DEF few
  <2> HIDE DEF r
  <2>4. QED
    BY <1>5, <1>6, <1>10, <2>1, <2>2, <2>3, PermSown
<1>13. Fine(w)'
  <2>1. x.op = r.op /\ x.moved = r.moved /\ x.answer = r.answer /\ x.todo \in SeedTodos
    BY <1>7, <1>8, <1>10, CallsAreTodos DEF Kin
  <2>2. QED
    BY <1>2, <1>11, <1>12, <2>1, SeedFine DEF x
<1>14. QED
  BY <1>6, <1>13

\* A request that is refused promises nothing.
LEMMA RefusedFine ==
  ASSUME Complete, NEW w \in Workers, UNCHANGED <<role, perm, grants, holders>>,
         RefusedAs(req[w], req'[w])
  PROVE  Fine(w)'
<1> DEFINE r == req[w]
           x == req'[w]
<1>1. /\ x.todo = <<>> /\ x.answer # "done" /\ x.op = r.op /\ x.ids = r.ids
      /\ x.perms = r.perms /\ x.done = r.done /\ x.gone = r.gone /\ x.moved = r.moved
      /\ x.slipped = r.slipped /\ x.page = r.page /\ x.total = r.total
  BY DEF RefusedAs
<1>2. SownAt(w) /\ WalkedAt(w)
  BY DEF Complete, Fine
<1>3. RolesThere' = RolesThere /\ PermsThere' = PermsThere
  BY DEF RolesThere, PermsThere, There
<1>4. OnCourse(x)
  BY <1>1 DEF OnCourse
<1>5. ASSUME x.op = "seed", ~x.moved
      PROVE  Sown(x, RolesThere, role, PermsThere, perm, grants, holders)
  <2>1. RolesGot(r, RolesThere, role) /\ PermsGot(r, PermsThere, perm)
    BY <1>1, <1>2, <1>5 DEF SownAt, Sown
  <2>2. RolesGot(x, RolesThere, role) /\ PermsGot(x, PermsThere, perm)
    BY <1>1, <2>1 DEF RolesGot, PermsGot
  <2>3. /\ x.todo # FirstCall
        /\ ~Past(x, AfterPerms) /\ ~Past(x, AfterRoles) /\ ~Past(x, AfterGrants)
    BY <1>1, Stages DEF Past
  <2>4. QED
    BY <1>1, <2>2, <2>3 DEF Sown
<1>6. \A L, S : Walked(r, L, S) => Walked(x, L, S)
  <2>1. \A t \in ListTodos : t # <<>>
    BY DEF ListTodos
  <2>2. \A L, S : Through(x, L, S)
    BY <1>1, <2>1 DEF Through, ListTodos
  <2>3. QED
    BY <1>1, <2>2 DEF Walked
<1>7. SownAt(w)'
  BY <1>3, <1>5 DEF SownAt
<1>8. WalkedAt(w)'
  <2>1. /\ Steady(x, "role") <=> Steady(r, "role")
        /\ Steady(x, "perm") <=> Steady(r, "perm")
    BY <1>1 DEF Steady
  <2>2. QED
    BY <1>1, <1>2, <1>3, <1>6, <2>1 DEF WalkedAt
<1>9. QED
  BY <1>4, <1>7, <1>8 DEF Fine

LEMMA RolesOrdered ==
  ASSUME NEW c \in RoleSample
  PROVE  \E m \in 1..Len(RoleOrder) : RoleOrder[m] = c
<1>1. c \in SeededRoles
  BY CatalogAssumption
<1>2. /\ Len(RoleOrder) = 5
      /\ RoleOrder[1] = "admin" /\ RoleOrder[2] = "user" /\ RoleOrder[3] = "content_manager"
      /\ RoleOrder[4] = "finance_manager" /\ RoleOrder[5] = "auditor"
  BY DEF RoleOrder
<1>3. \E m \in 1..5 : RoleOrder[m] = c
  BY <1>1, <1>2 DEF SeededRoles
<1>4. QED
  BY <1>2, <1>3

LEMMA UpsertRolesFine ==
  ASSUME Complete, Inv, NEW w \in Workers, UpsertRoles(w)
  PROVE  Steps(w) /\ Fine(w)'
<1> DEFINE r == req[w]
           D(i, c) == IdsDone(r, r.ids \union {i}, r.done \union {<<"role", i, c>>})
           Open(m) == RoleOrder[m] \in RoleSample /\ RoleIdOf(r, RoleOrder[m]) = {}
           left(n) == \E m \in (n + 1)..Len(RoleOrder) : Open(m)
           E(i, c, b) == Returned(r, i, c, b)
<1>1. UNCHANGED <<perm, grants, holders>> /\ At(w, "upsertRoles")
  BY DEF UpsertRoles
<1>2. /\ Requests /\ Shaped(r) /\ r.todo = RolesCall
      /\ r.op \in Long => r.op = "seed" /\ r.answer # "done"
      /\ r.op = "seed" /\ ~r.moved =>
           Sown(r, RolesThere, role, PermsThere, perm, grants, holders)
  BY <1>1, AtScript DEF Long
<1>3. PICK n \in 1..Len(RoleOrder) :
        /\ Open(n) /\ \A m \in 1..(n - 1) : ~Open(m)
        /\ IF \E i \in RolesThere : role[i].code = RoleOrder[n]
             THEN \E i \in {i \in RolesThere : role[i].code = RoleOrder[n]} :
                    /\ req' = [req EXCEPT ![w] = Upserted(E(i, RoleOrder[n], FALSE), left(n))]
                    /\ UNCHANGED role
           ELSE IF Clash(NewRole(RoleOrder[n], RoleOrder[n]), 0)
             THEN Refused(w, "failed") /\ UNCHANGED role
             ELSE /\ RoomForRole
                  /\ role' = [role EXCEPT ![NextRole] = NewRole(RoleOrder[n], RoleOrder[n])]
                  /\ Affects(w, Upserted(E(NextRole, RoleOrder[n], TRUE), left(n)),
                             {}, {}, TRUE)
  BY DEF UpsertRoles
<1> DEFINE c == RoleOrder[n]
           lf == left(n)
<1>4. \A i, b : E(i, c, b) = D(i, c)
  BY DEF IdsDone, Returned
<1>5. lf \/ OthersGot(r, c)
  <2> SUFFICES ASSUME ~lf, NEW g \in RoleSample \ {c} PROVE RoleIdOf(r, g) # {}
    BY DEF OthersGot
  <2>1. PICK m \in 1..Len(RoleOrder) : RoleOrder[m] = g
    BY RolesOrdered
  <2>2. Len(RoleOrder) \in Nat /\ n \in Nat /\ m \in Nat /\ m # n
    BY <2>1 DEF RoleOrder
  <2>3. ~Open(m)
    <3>1. m \in 1..(n - 1) \/ m \in (n + 1)..Len(RoleOrder)
      BY <2>2
    <3>2. QED
      BY <1>3, <3>1
  <2>4. QED
    BY <2>1, <2>3
<1> HIDE DEF left, Open, E, c, lf
<1>6. CASE Refused(w, "failed") /\ UNCHANGED role
  BY <1>1, <1>2, <1>6, RefusedReads, RefusedFine
<1>7. ASSUME NEW i, Steps(w), req'[w] = Upserted(D(i, c), lf),
             RolesThere \subseteq RolesThere', i \in RolesThere', role'[i].code = c,
             \A j \in RolesThere : role'[j].code = role[j].code
      PROVE  Fine(w)'
  <2> DEFINE d == D(i, c)
             x == req'[w]
  <2>1. /\ Shaped(d) /\ d.op = r.op /\ d.ids = r.ids \union {i} /\ d.perms = r.perms
        /\ d.done = r.done \union {<<"role", i, c>>} /\ d.todo = RolesCall
    BY <1>2, IdsDoneFields DEF Aside
  <2>2. d.answer = r.answer /\ d.moved = r.moved
    BY <1>2 DEF IdsDone, Shaped, Fields
  <2>3. x = Upserted(d, lf)
    BY <1>7
  <2> HIDE DEF d, x
  <2>4. Len(d.todo) = 3 /\ Tail(d.todo) = GrantsCall
    BY <2>1, SeedLengths
  <2>5. /\ Kin(d, x) /\ x.done = d.done
        /\ lf => x.todo = d.todo /\ x.answer = d.answer
        /\ ~lf => x.todo = Tail(d.todo) /\ (Len(d.todo) # 1 => x.answer = d.answer)
    BY <2>1, <2>3, UpsertedAs
  <2>6. x.answer = d.answer /\ x.todo = IF lf THEN RolesCall ELSE GrantsCall
    BY <2>1, <2>4, <2>5
  <2>7. PermsThere' = PermsThere /\ UNCHANGED <<perm, grants, holders>>
    BY <1>1 DEF PermsThere
  <2>8. ASSUME r.op = "seed", ~r.moved
        PROVE  Sown(x, RolesThere', role', PermsThere, perm, grants, holders)
    <3>1. /\ x.ids = r.ids \union {i} /\ x.perms = r.perms /\ x.answer = r.answer
          /\ x.done = r.done \union {<<"role", i, c>>} /\ r.answer # "done"
      BY <1>2, <2>1, <2>2, <2>5, <2>6, <2>8 DEF Kin, Long
    <3>2. Sown(r, RolesThere, role, PermsThere, perm, grants, holders) /\ r.todo = RolesCall
      BY <1>2, <2>8
    <3>3. /\ RolesThere \subseteq RolesThere' /\ i \in RolesThere' /\ role'[i].code = c
          /\ \A j \in RolesThere : role'[j].code = role[j].code
      BY <1>7
    <3> DEFINE e == <<"role", i, c>>
    <3>4. e[1] = "role" /\ e[2] = i /\ e[3] = c /\ x.done = r.done \union {e}
      BY <3>1
    <3> HIDE DEF r, e
    <3>5. QED
      BY <1>5, <2>6, <3>1, <3>2, <3>3, <3>4, RoleSown
  <2>9. x.op = r.op /\ x.moved = r.moved /\ x.answer = r.answer /\ x.todo \in SeedTodos
    BY <2>1, <2>2, <2>5, <2>6, CallsAreTodos DEF Kin
  <2>10. QED
    BY <1>2, <2>7, <2>8, <2>9, SeedFine DEF x
<1>8. CASE \E i \in RolesThere : role[i].code = c
  <2>1. PICK i \in RolesThere :
          /\ role[i].code = c
          /\ req' = [req EXCEPT ![w] = Upserted(D(i, c), lf)] /\ UNCHANGED role
    BY <1>3, <1>4, <1>8 DEF c, lf
  <2>2. Steps(w) /\ req'[w] = Upserted(D(i, c), lf)
    BY <1>1, <1>2, <2>1, Reads
  <2>3. RolesThere' = RolesThere
    BY <2>1 DEF RolesThere
  <2>4. QED
    BY <1>7, <2>1, <2>2, <2>3
<1>9. CASE /\ ~Clash(NewRole(c, c), 0) /\ RoomForRole
           /\ role' = [role EXCEPT ![NextRole] = NewRole(c, c)]
           /\ Affects(w, Upserted(D(NextRole, c), lf), {}, {}, TRUE)
  <2> DEFINE k == NextRole
             row == NewRole(c, c)
             x == Upserted(D(k, c), lf)
  <2>1. role' = [role EXCEPT ![k] = row] /\ Affects(w, x, {}, {}, TRUE)
    BY <1>9
  <2>2. k \in RoleIds /\ k \notin RolesThere
    BY <1>9, NextRoleUnborn DEF RolesThere, There
  <2>3. There(row) /\ row.code = c
    BY DEF NewRole, There
  <2> HIDE DEF k, row, x
  <2>4. /\ Writes({}, TRUE) /\ RolesThere \subseteq RolesThere' /\ k \in RolesThere'
        /\ role'[k] = row /\ \A j \in RoleIds \ {k} : role'[j] = role[j]
    BY <1>1, <2>1, <2>2, <2>3, RoleRowWritten DEF Complete
  <2>5. Steps(w) /\ req'[w] = x
    BY <1>2, <2>1, <2>4, WritesSteps
  <2>6. \A j \in RolesThere : role'[j].code = role[j].code
    BY <2>2, <2>4 DEF RolesThere
  <2>7. QED
    BY <1>7, <2>3, <2>4, <2>5, <2>6 DEF x
<1>10. QED
  BY <1>3, <1>4, <1>6, <1>8, <1>9 DEF c, lf

\* The script's request after After.
LEMMA ScriptAfter ==
  ASSUME NEW r, Shaped(r)
  PROVE  LET x == After(r) IN
         /\ x.op = r.op /\ x.moved = r.moved /\ x.ids = r.ids /\ x.perms = r.perms
         /\ x.done = r.done
         /\ r.todo = GrantsCall => x.todo = HoldersCall /\ x.answer = r.answer
         /\ r.todo = HoldersCall => x.todo = <<>>
<1> DEFINE x == After(r)
<1>1. /\ x.op = r.op /\ x.moved = r.moved /\ x.ids = r.ids /\ x.perms = r.perms
      /\ x.done = r.done /\ x.todo = Tail(r.todo)
      /\ x.answer = IF Len(r.todo) = 1 THEN "done" ELSE r.answer
  BY AfterFields
<1> HIDE DEF x
<1>2. r.todo = GrantsCall => Len(r.todo) = 2 /\ Tail(r.todo) = HoldersCall
  BY SeedLengths
<1>3. r.todo = HoldersCall => Tail(r.todo) = <<>>
  BY SeedLengths
<1>4. r.todo = HoldersCall => x.todo = <<>>
  BY <1>1, <1>3, Zenon
<1>5. r.todo = GrantsCall => x.todo = HoldersCall /\ x.answer = r.answer
  <2> SUFFICES ASSUME r.todo = GrantsCall PROVE x.todo = HoldersCall /\ x.answer = r.answer
    OBVIOUS
  <2> DEFINE n == Len(r.todo)
  <2>1. n = 2 /\ Tail(r.todo) = HoldersCall
    BY <1>2
  <2>2. x.todo = Tail(r.todo) /\ x.answer = IF n = 1 THEN "done" ELSE r.answer
    BY <1>1
  <2> HIDE DEF n
  <2>3. QED
    BY <2>1, <2>2
<1>6. QED
  BY <1>1, <1>4, <1>5, Zenon DEF x

LEMMA UpsertGrantsFine ==
  ASSUME Complete, Inv, NEW w \in Workers, UpsertGrants(w)
  PROVE  Steps(w) /\ Fine(w)'
<1> DEFINE r == req[w]
           x == req'[w]
           left == Wanted(r) \ grants
<1>1. UNCHANGED <<role, perm, holders>> /\ At(w, "upsertGrants")
  BY DEF UpsertGrants
<1>2. /\ Requests /\ Shaped(r) /\ r.todo = GrantsCall
      /\ r.op \in Long => r.op = "seed" /\ r.answer # "done"
      /\ r.op = "seed" /\ ~r.moved =>
           Sown(r, RolesThere, role, PermsThere, perm, grants, holders)
  BY <1>1, AtScript DEF Long
<1>3. /\ Steps(w)
      /\ \/ x = After(r) /\ Wanted(r) \subseteq grants'
         \/ x = r
  <2>1. CASE left = {}
    <3>1. Goes(w, r) /\ grants' = grants
      BY <2>1 DEF UpsertGrants
    <3>2. Steps(w) /\ x = After(r)
      BY <1>1, <1>2, <3>1, Reads DEF Goes
    <3>3. QED
      BY <2>1, <3>1, <3>2
  <2>2. CASE left # {}
    <3>1. Affects(w, r, {}, {}, FALSE)
      BY <2>2 DEF UpsertGrants
    <3>2. Writes({}, FALSE)
      BY <1>1, NoRowWritten DEF Complete
    <3>3. QED
      BY <1>2, <3>1, <3>2, WritesSteps
  <2>3. QED
    BY <2>1, <2>2
<1>4. /\ x.op = r.op /\ x.moved = r.moved /\ x.ids = r.ids /\ x.perms = r.perms
      /\ x.done = r.done /\ x.answer = r.answer
      /\ x.todo = GrantsCall \/ (x.todo = HoldersCall /\ Wanted(r) \subseteq grants')
  BY <1>2, <1>3, ScriptAfter
<1>5. RolesThere' = RolesThere /\ PermsThere' = PermsThere
  BY <1>1 DEF RolesThere, PermsThere
<1>6. ASSUME r.op = "seed", ~r.moved
      PROVE  Sown(x, RolesThere, role, PermsThere, perm, grants', holders)
  <2>1. Sown(r, RolesThere, role, PermsThere, perm, grants, holders) /\ r.answer # "done"
    BY <1>2, <1>6 DEF Long
  <2> HIDE DEF r, x
  <2>2. QED
    BY <1>2, <1>4, <2>1, GrantsSown
<1> HIDE DEF r, x
<1>7. x.todo \in SeedTodos
  BY <1>4, CallsAreTodos
<1>8. Fine(w)'
  BY <1>1, <1>2, <1>4, <1>5, <1>6, <1>7, SeedFine DEF x
<1>9. QED
  BY <1>3, <1>8

LEMMA UpsertHoldersFine ==
  ASSUME Complete, Inv, NEW w \in Workers, UpsertHolders(w)
  PROVE  Steps(w) /\ Fine(w)'
<1> DEFINE r == req[w]
           x == req'[w]
           left == Links(r) \ holders
<1>1. UNCHANGED <<role, perm, grants>> /\ At(w, "upsertHolders")
  BY DEF UpsertHolders
<1>2. /\ Requests /\ Shaped(r) /\ r.todo = HoldersCall
      /\ r.op \in Long => r.op = "seed" /\ r.answer # "done"
      /\ r.op = "seed" /\ ~r.moved =>
           Sown(r, RolesThere, role, PermsThere, perm, grants, holders)
  BY <1>1, AtScript DEF Long
<1>3. /\ Steps(w)
      /\ \/ x = After(r) /\ Links(r) \subseteq holders'
         \/ x = r
  <2>1. CASE left = {}
    <3>1. Goes(w, r) /\ holders' = holders
      BY <2>1 DEF UpsertHolders, Links
    <3>2. Steps(w) /\ x = After(r)
      BY <1>1, <1>2, <3>1, Reads DEF Goes
    <3>3. QED
      BY <2>1, <3>1, <3>2
  <2>2. CASE left # {}
    <3>1. \E l : Affects(w, r, {}, {l}, FALSE)
      BY <2>2 DEF UpsertHolders, Links
    <3>2. Writes({}, FALSE)
      BY <1>1, NoRowWritten DEF Complete
    <3>3. QED
      BY <1>2, <3>1, <3>2, WritesSteps
  <2>3. QED
    BY <2>1, <2>2
<1>4. /\ x.op = r.op /\ x.moved = r.moved /\ x.ids = r.ids /\ x.perms = r.perms
      /\ x.done = r.done
      /\ \/ x.todo = HoldersCall /\ x.answer = r.answer
         \/ x.todo = <<>> /\ Links(r) \subseteq holders'
  BY <1>2, <1>3, ScriptAfter
<1>5. RolesThere' = RolesThere /\ PermsThere' = PermsThere
  BY <1>1 DEF RolesThere, PermsThere
<1>6. ASSUME r.op = "seed", ~r.moved
      PROVE  Sown(x, RolesThere, role, PermsThere, perm, grants, holders')
  <2>1. Sown(r, RolesThere, role, PermsThere, perm, grants, holders) /\ r.answer # "done"
    BY <1>2, <1>6 DEF Long
  <2> HIDE DEF r, x
  <2>2. x.answer = "done" => Links(r) \subseteq holders'
    BY <1>4, <2>1
  <2>3. QED
    BY <1>2, <1>4, <2>1, <2>2, HoldersSown
<1> HIDE DEF r, x
<1>7. x.todo = <<>> \/ (x.todo \in SeedTodos /\ x.answer = r.answer)
  BY <1>4, CallsAreTodos
<1>8. Fine(w)'
  BY <1>1, <1>2, <1>4, <1>5, <1>6, <1>7, SeedFine DEF x
<1>9. QED
  BY <1>3, <1>8

-----------------------------------------------------------------------------
(* Requests are admitted.                                                  *)
LEMMA Begun ==
  ASSUME Inv, NEW w \in Workers, NEW r, Fresh(r), NEW todo, Begin(w, r, todo)
  PROVE  /\ Steps(w) /\ UNCHANGED <<role, perm, grants, holders>>
         /\ LET x == req'[w] IN
            /\ x.op = r.op /\ x.ids = r.ids /\ x.perms = r.perms /\ x.todo = todo
            /\ x.done = {} /\ x.page = r.page /\ x.total = r.total
            /\ x.answer = r.answer
<1> DEFINE c == Onward(r, todo)
<1>1. req' = [req EXCEPT ![w] = c] /\ UNCHANGED <<role, perm, grants, holders>>
  BY DEF Begin, Onward
<1>2. Kin(r, c) /\ c.todo = todo /\ c.done = {} /\ c.page = r.page /\ c.total = r.total
      /\ c.answer = r.answer
  BY SetAside DEF Fresh
<1> HIDE DEF c
<1>3. Steps(w) /\ req'[w] = c
  BY <1>1, Reads DEF Inv
<1>4. QED
  BY <1>1, <1>2, <1>3 DEF Kin

LEMMA ShortBegun ==
  ASSUME Inv, NEW w \in Workers, NEW r, Fresh(r), r.op \notin Long, NEW todo,
         Begin(w, r, todo)
  PROVE  Steps(w) /\ Fine(w)'
BY Begun, ShortFine

LEMMA SeedBegun ==
  ASSUME Inv, NEW w \in Workers, Seed(w)
  PROVE  Steps(w) /\ Fine(w)'
<1> DEFINE r == Op("seed", {})
           x == req'[w]
<1>1. Begin(w, r, FirstCall)
  BY DEF Seed, FirstCall
<1>2. Fresh(r) /\ r.op = "seed" /\ r.answer = "none"
  BY OpFresh DEF Op, Idle
<1> HIDE DEF r
<1>3. Steps(w) /\ x.op = "seed" /\ x.todo = FirstCall /\ x.done = {} /\ x.answer = "none"
  BY <1>1, <1>2, Begun
<1> HIDE DEF x
<1>4. OnCourse(x)
  BY <1>3, CallsAreTodos DEF OnCourse, CourseOf
<1>5. Counted(x)
  <2>1. CodesGot(x) = {} /\ x.done = {}
    BY <1>3 DEF CodesGot
  <2>2. QED
    BY <2>1, FS_EmptySet DEF Counted
<1>6. \A R, rows, P, prows, G, H : Sown(x, R, rows, P, prows, G, H)
  <2>1. ~Past(x, AfterPerms) /\ ~Past(x, AfterRoles) /\ ~Past(x, AfterGrants)
    BY <1>3, Stages DEF Past
  <2>2. QED
    BY <1>3, <1>5, <2>1 DEF Sown, RolesGot, PermsGot
<1>7. SownAt(w)' /\ WalkedAt(w)'
  BY <1>3, <1>6 DEF SownAt, WalkedAt, x
<1>8. QED
  BY <1>3, <1>4, <1>7 DEF Fine, x

\* No page before the first.
LEMMA WalkBegins ==
  ASSUME NEW x, NEW L, IsFiniteSet(L), L \subseteq Nat, x.page = 1, x.total = 0,
         x.answer # "done", x.todo \in {<<"count", "rows">>, <<"rows", "count">>}
  PROVE  Walked(x, L, L)
<1>1. \A i \in L : Rank(L, i) \in Nat
  BY RankBelow
<1>2. \A i \in L : ~(Rank(L, i) < x.page - 1)
  BY <1>1
<1>3. x.todo # <<"count">> /\ x.todo # <<"rows">>
  BY ListLengths
<1>4. QED
  BY <1>2, <1>3 DEF Walked, Through

LEMMA WalkRolesBegun ==
  ASSUME Complete, Inv, NEW w \in Workers, WalkRoles(w)
  PROVE  Steps(w) /\ Fine(w)'
<1> DEFINE r == Op("walkRoles", RolesThere)
           x == req'[w]
<1>1. Begin(w, r, <<"count", "rows">>)
  BY DEF WalkRoles
<1>2. /\ Fresh(r) /\ r.op = "walkRoles" /\ r.ids = RolesThere /\ r.answer = "none"
      /\ r.page = 1 /\ r.total = 0
  <2>1. RolesThere \in SUBSET RoleIds
    BY DEF RolesThere
  <2>2. QED
    BY <2>1, OpFresh DEF Op, Idle
<1> HIDE DEF r
<1>3. /\ Steps(w) /\ UNCHANGED <<role, perm, grants, holders>>
      /\ x.op = "walkRoles" /\ x.ids = RolesThere /\ x.todo = <<"count", "rows">>
      /\ x.answer = "none" /\ x.page = 1 /\ x.total = 0
  BY <1>1, <1>2, Begun
<1>4. IsFiniteSet(RolesThere) /\ RolesThere \subseteq Nat /\ RolesThere' = RolesThere
  BY <1>3, ThereFinite, CatalogAssumption DEF Complete, ListsFinite, RolesThere
<1> HIDE DEF x
<1>5. Walked(x, RolesThere, x.ids)
  BY <1>3, <1>4, WalkBegins
<1>6. OnCourse(x)
  BY <1>3 DEF OnCourse, CourseOf
<1>7. SownAt(w)' /\ WalkedAt(w)'
  BY <1>3, <1>4, <1>5 DEF SownAt, WalkedAt, x
<1>8. QED
  BY <1>3, <1>6, <1>7 DEF Fine, x

LEMMA WalkPermissionsBegun ==
  ASSUME Complete, Inv, NEW w \in Workers, WalkPermissions(w)
  PROVE  Steps(w) /\ Fine(w)'
<1> DEFINE r == PermOp("walkPerms", PermsThere)
           x == req'[w]
<1>1. PICK t \in {<<"count", "rows">>, <<"rows", "count">>} : Begin(w, r, t)
  BY DEF WalkPermissions
<1>2. /\ Fresh(r) /\ r.op = "walkPerms" /\ r.perms = PermsThere /\ r.answer = "none"
      /\ r.page = 1 /\ r.total = 0
  <2>1. PermsThere \in SUBSET PermIds
    BY DEF PermsThere
  <2>2. QED
    BY <2>1, PermOpFresh DEF PermOp, Idle
<1> HIDE DEF r
<1>3. /\ Steps(w) /\ UNCHANGED <<role, perm, grants, holders>>
      /\ x.op = "walkPerms" /\ x.perms = PermsThere /\ x.todo = t
      /\ x.answer = "none" /\ x.page = 1 /\ x.total = 0
  BY <1>1, <1>2, Begun
<1>4. IsFiniteSet(PermsThere) /\ PermsThere \subseteq Nat /\ PermsThere' = PermsThere
  BY <1>3, ThereFinite, CatalogAssumption DEF Complete, ListsFinite, PermsThere
<1> HIDE DEF x
<1>5. Walked(x, PermsThere, x.perms)
  BY <1>3, <1>4, WalkBegins
<1>6. OnCourse(x)
  BY <1>3 DEF OnCourse, CourseOf, ListTodos
<1>7. SownAt(w)' /\ WalkedAt(w)'
  BY <1>3, <1>4, <1>5 DEF SownAt, WalkedAt, x
<1>8. QED
  BY <1>3, <1>6, <1>7 DEF Fine, x

\* The other methods.
LEMMA OpNamed ==
  ASSUME NEW op, NEW S \in SUBSET RoleIds
  PROVE  Fresh(Op(op, S)) /\ Op(op, S).op = op
BY OpFresh DEF Op, Idle

LEMMA RowNamed ==
  ASSUME NEW r, Fresh(r), NEW x
  PROVE  Fresh(RowGiven(r, x)) /\ RowGiven(r, x).op = r.op
BY RowGivenFresh DEF Fresh, Shaped, Fields, RowGiven

LEMMA UserNamed ==
  ASSUME NEW r, Fresh(r), NEW u \in Users
  PROVE  Fresh(UserGiven(r, u)) /\ UserGiven(r, u).op = r.op
BY UserGivenFresh DEF Fresh, Shaped, Fields, UserGiven

LEMMA PermsNamed ==
  ASSUME NEW r, Fresh(r), NEW P \in SUBSET PermIds
  PROVE  Fresh(PermsTaken(r, P)) /\ PermsTaken(r, P).op = r.op
BY PermsTakenFresh DEF Fresh, Shaped, Fields, PermsTaken

LEMMA ArriveFine ==
  ASSUME Complete, Inv, NEW w \in Workers, Arrive(w)
  PROVE  Steps(w) /\ Fine(w)'
<1> DEFINE Goal == Steps(w) /\ Fine(w)'
<1> HIDE DEF Goal
<1>1. ASSUME NEW c \in Codes, NEW n \in Codes, CreateRole(w, c, n) PROVE Goal
  <2> DEFINE r == RowGiven(Op("create", {}), NewRole(c, n))
  <2>1. \E t : Begin(w, r, t)
    BY <1>1 DEF CreateRole, RowGiven
  <2>2. Fresh(r) /\ r.op = "create"
    BY OpNamed, RowNamed
  <2> HIDE DEF r
  <2>3. QED
    BY <2>1, <2>2, ShortBegun DEF Goal, Long
<1>2. ASSUME NEW i \in RoleIds, NEW c \in Codes \union {"keep"},
             NEW n \in Codes \union {"keep"}, UpdateRole(w, i, c, n) PROVE Goal
  <2> DEFINE r == RowGiven(Op("update", {i}), [state |-> "keep", code |-> c, name |-> n])
  <2>1. \E t : Begin(w, r, t)
    BY <1>2 DEF UpdateRole, RowGiven
  <2>2. Fresh(r) /\ r.op = "update"
    BY OpNamed, RowNamed
  <2> HIDE DEF r
  <2>3. QED
    BY <2>1, <2>2, ShortBegun DEF Goal, Long
<1>3. ASSUME NEW i \in RoleIds, NEW s \in Statuses, UpdateRoleStatus(w, i, s) PROVE Goal
  <2> DEFINE r == RowGiven(Op("status", {i}), [state |-> s, code |-> "keep", name |-> "keep"])
  <2>1. \E t : Begin(w, r, t)
    BY <1>3 DEF UpdateRoleStatus, RowGiven
  <2>2. Fresh(r) /\ r.op = "status"
    BY OpNamed, RowNamed
  <2> HIDE DEF r
  <2>3. QED
    BY <2>1, <2>2, ShortBegun DEF Goal, Long
<1>4. ASSUME NEW op \in {"remove", "permissions", "batch"}, NEW S \in SUBSET RoleIds,
             NEW t, Begin(w, Op(op, S), t)
      PROVE  Goal
  BY <1>4, OpNamed, ShortBegun DEF Goal, Long
<1>5. ASSUME NEW i \in RoleIds, NEW P \in SUBSET PermIds, AssignPermissions(w, i, P)
      PROVE  Goal
  <2> DEFINE r == PermsTaken(Op("assignPermissions", {i}), P)
  <2>1. \E t : Begin(w, r, t)
    BY <1>5 DEF AssignPermissions, PermsTaken
  <2>2. Fresh(r) /\ r.op = "assignPermissions"
    BY OpNamed, PermsNamed
  <2> HIDE DEF r
  <2>3. QED
    BY <2>1, <2>2, ShortBegun DEF Goal, Long
<1>6. ASSUME NEW op \in {"removeUserRole", "assignRoles"}, NEW u \in Users,
             NEW S \in SUBSET RoleIds, NEW t, Begin(w, [Op(op, S) EXCEPT !.user = u], t)
      PROVE  Goal
  <2> DEFINE r == UserGiven(Op(op, S), u)
  <2>1. Begin(w, r, t)
    BY <1>6 DEF UserGiven
  <2>2. Fresh(r) /\ r.op = op
    BY OpNamed, UserNamed
  <2> HIDE DEF r
  <2>3. QED
    BY <2>1, <2>2, ShortBegun DEF Goal, Long
<1>7. ASSUME NEW c \in PermCodes, CreatePermission(w, c) PROVE Goal
  <2> DEFINE r == [Idle EXCEPT !.op = "createPerm", !.prow = NewPerm(c, FALSE)]
  <2>1. \E t : Begin(w, r, t)
    BY <1>7 DEF CreatePermission
  <2>2. Fresh(r) /\ r.op = "createPerm"
    BY CreatePermFresh DEF Idle
  <2> HIDE DEF r
  <2>3. QED
    BY <2>1, <2>2, ShortBegun DEF Goal, Long
<1>8. ASSUME NEW p \in PermIds, NEW c \in PermCodes, UpdatePermission(w, p, c) PROVE Goal
  <2> DEFINE r == CodeGiven(PermOp("updatePerm", {p}), c)
  <2>1. \E t : Begin(w, r, t)
    BY <1>8 DEF UpdatePermission, CodeGiven
  <2>2. Fresh(r) /\ r.op = "updatePerm"
    BY PermOpFresh, CodeGivenFresh
  <2> HIDE DEF r
  <2>3. QED
    BY <2>1, <2>2, ShortBegun DEF Goal, Long
<1>9. ASSUME NEW p \in PermIds, NEW s \in Statuses, UpdatePermissionStatus(w, p, s) PROVE Goal
  <2> DEFINE r == StateGiven(PermOp("permStatus", {p}), s)
  <2>1. \E t : Begin(w, r, t)
    BY <1>9 DEF UpdatePermissionStatus, StateGiven
  <2>2. Fresh(r) /\ r.op = "permStatus"
    BY PermOpFresh, StateGivenFresh
  <2> HIDE DEF r
  <2>3. QED
    BY <2>1, <2>2, ShortBegun DEF Goal, Long
<1>10. ASSUME NEW op \in {"removePerm", "batchPerms"}, NEW P \in SUBSET PermIds,
              NEW t, Begin(w, PermOp(op, P), t)
       PROVE  Goal
  BY <1>10, PermOpFresh, ShortBegun DEF Goal, Long
<1>11. ASSUME WalkRoles(w) \/ WalkPermissions(w) \/ Seed(w) PROVE Goal
  BY <1>11, WalkRolesBegun, WalkPermissionsBegun, SeedBegun DEF Goal
<1>12. ASSUME NEW i \in RoleIds,
              RemoveRole(w, i) \/ GetRolePermissions(w, i)
                \/ \E u \in Users : RemoveUserRole(w, u, i)
       PROVE  Goal
  BY <1>4, <1>6, <1>12 DEF RemoveRole, GetRolePermissions, RemoveUserRole
<1>13. ASSUME NEW S \in SUBSET RoleIds,
              BatchDeleteRoles(w, S) \/ \E u \in Users : AssignRoles(w, u, S)
       PROVE  Goal
  BY <1>4, <1>6, <1>13 DEF BatchDeleteRoles, AssignRoles
<1>14. ASSUME NEW p \in PermIds, RemovePermission(w, p) PROVE Goal
  BY <1>10, <1>14 DEF RemovePermission
<1>15. ASSUME NEW P \in SUBSET PermIds, BatchDeletePermissions(w, P) PROVE Goal
  BY <1>10, <1>15 DEF BatchDeletePermissions
<1>16. ASSUME NEW i \in RoleIds,
              \/ \E c, n \in Codes \union {"keep"} : UpdateRole(w, i, c, n)
              \/ \E s \in {"active", "inactive"} : UpdateRoleStatus(w, i, s)
              \/ \E P \in SomePerms : AssignPermissions(w, i, P)
       PROVE  Goal
  BY <1>2, <1>3, <1>5, <1>16 DEF SomePerms, Statuses
<1>17. ASSUME NEW p \in PermIds,
              \/ \E c \in PermCodes : UpdatePermission(w, p, c)
              \/ \E s \in {"active", "inactive"} : UpdatePermissionStatus(w, p, s)
       PROVE  Goal
  BY <1>8, <1>9, <1>17 DEF Statuses
<1>18. SomeRoles \subseteq SUBSET RoleIds /\ SomePerms \subseteq SUBSET PermIds
  BY DEF SomeRoles, SomePerms
<1>19. Goal
  BY <1>1, <1>7, <1>11, <1>12, <1>13, <1>14, <1>15, <1>16, <1>17, <1>18 DEF Arrive
<1>20. QED
  BY <1>19 DEF Goal

-----------------------------------------------------------------------------
(* Every step.                                                             *)

\* The calls of the other requests: the script and the walks do not make them.
OtherCalls == {"findRole", "insertRole", "writeRole", "checkUnused", "deleteRoles",
               "countPerms", "grantPerms", "readLinks", "readPerms", "countRoles",
               "giveRoles", "takeRole", "insertPerm", "findPerm", "writePerm", "deletePerms"}

LEMMA OtherFine ==
  ASSUME Complete, NEW w \in Workers, Other(w), NEW call \in OtherCalls, At(w, call)
  PROVE  Steps(w) /\ Fine(w)'
<1> DEFINE r == req[w]
<1>1. OnCourse(r)
  BY DEF Complete, Fine
<1>2. r.todo # <<>> /\ Head(r.todo) \in OtherCalls
  BY DEF At
<1>3. \A t \in SeedTodos \union ListTodos : Head(t) \notin OtherCalls
  BY DEF SeedTodos, ListTodos, OtherCalls
<1>4. ASSUME r.op \in Long PROVE FALSE
  <2>1. r.todo \in CourseOf(r.op)
    BY <1>1, <1>2, <1>4 DEF OnCourse
  <2>2. CourseOf(r.op) \subseteq SeedTodos \union ListTodos
    BY <1>4 DEF Long, CourseOf, ListTodos
  <2>3. QED
    BY <1>2, <1>3, <2>1, <2>2
<1>5. QED
  BY <1>4, ShortFine DEF Other

LEMMA FailFine ==
  ASSUME Complete, Inv, NEW w \in Workers, Fail(w)
  PROVE  Steps(w) /\ Fine(w)'
BY RefusedReads, RefusedFine DEF Fail, Inv

LEMMA OtherCallFine ==
  ASSUME Complete, Inv, NEW w \in Workers,
         \/ FindRole(w) \/ InsertRole(w) \/ WriteRole(w) \/ CheckUnused(w) \/ DeleteRoles(w)
         \/ CountPerms(w) \/ GrantPerms(w) \/ ReadLinks(w) \/ ReadPerms(w)
         \/ CountRoles(w) \/ GiveRoles(w) \/ TakeRole(w)
         \/ InsertPerm(w) \/ FindPerm(w) \/ WritePerm(w) \/ DeletePerms(w)
  PROVE  Steps(w) /\ Fine(w)'
<1>1. Other(w)
  BY ReadsOther, ReadLinksOther, RoleWritesOther, PermWritesOther, LinkWritesOther DEF Complete
<1>2. \E call \in OtherCalls : At(w, call)
  BY DEF FindRole, InsertRole, WriteRole, CheckUnused, DeleteRoles, CountPerms, GrantPerms,
         ReadLinks, ReadPerms, CountRoles, GiveRoles, TakeRole, InsertPerm, FindPerm,
         WritePerm, DeletePerms, OtherCalls
<1>3. QED
  BY <1>1, <1>2, OtherFine

LEMMA NextComplete == Inv /\ Complete /\ [Next]_vars => Complete'
<1> SUFFICES ASSUME Inv, Complete, [Next]_vars PROVE Complete'
  OBVIOUS
<1>1. CASE UNCHANGED vars
  <2>1. ASSUME NEW w \in Workers PROVE Fine(w)'
    <3>1. OnCourse(req[w]) /\ SownAt(w) /\ WalkedAt(w)
      BY DEF Complete, Fine
    <3>2. RolesThere' = RolesThere /\ PermsThere' = PermsThere
      BY <1>1 DEF vars, RolesThere, PermsThere, There
    <3>3. OnCourse(req[w])' /\ SownAt(w)' /\ WalkedAt(w)'
      BY <1>1, <3>1, <3>2 DEF vars, OnCourse, SownAt, WalkedAt
    <3>4. QED
      BY <3>3 DEF Fine
  <2>2. Finite'
    BY <1>1 DEF vars, Complete, Finite, Known, KnownPerm, PermsThere, There
  <2>3. QED
    BY <2>1, <2>2 DEF Complete
<1>2. ASSUME NEW w \in Workers, Steps(w), Fine(w)' PROVE Complete'
  <2>1. Finite'
    BY <1>2, FiniteKeeps DEF Complete
  <2>2. \A v \in Workers : Fine(v)'
    BY <1>2, OthersFine
  <2>3. QED
    BY <2>1, <2>2 DEF Complete
<1>3. ASSUME NEW w \in Workers, Arrive(w) \/ Proceed(w) \/ Fail(w)
      PROVE  Steps(w) /\ Fine(w)'
  BY <1>3, ArriveFine, FailFine, OtherCallFine, CountRowsFine, FindRowsFine,
     UpsertPermsFine, UpsertRolesFine, UpsertGrantsFine, UpsertHoldersFine
     DEF Proceed
<1>4. QED
  BY <1>1, <1>2, <1>3 DEF Next

-----------------------------------------------------------------------------
(* Before.                                                                 *)
LEMMA NumberedRows ==
  ASSUME NEW S, IsFiniteSet(S), NEW f \in Numberings(S)
  PROVE  IsFiniteSet(DOMAIN f)
<1>1. DOMAIN f = 1..Cardinality(S) /\ Cardinality(S) \in Nat
  BY FS_CardinalityType DEF Numberings
<1>2. QED
  BY <1>1, FS_Interval

LEMMA WrittenFinite ==
  ASSUME NEW rs, NEW ps, NEW own \in BOOLEAN, Written(rs, ps, own),
         IsFiniteSet(DOMAIN rs), IsFiniteSet(DOMAIN ps)
  PROVE  Finite
<1>1. {i \in RoleIds : Known(i)} \subseteq (DOMAIN rs) \union {Len(rs) + 1}
  BY DEF Written, Known, NoRole
<1>2. {p \in PermIds : KnownPerm(p)} \subseteq DOMAIN ps
  BY DEF Written, KnownPerm, NoPerm
<1>3. \A p \in PermIds : perm[p].batch => p \in PermsThere
  BY DEF Written, NewPerm, NoPerm, PermsThere, There
<1>4. IsFiniteSet((DOMAIN rs) \union {Len(rs) + 1})
  BY FS_AddElement
<1>5. IsFiniteSet({i \in RoleIds : Known(i)}) /\ IsFiniteSet({p \in PermIds : KnownPerm(p)})
  BY <1>1, <1>2, <1>4, FS_Subset
<1>6. QED
  BY <1>3, <1>5 DEF Finite

LEMMA InitComplete == Init => Complete
<1> SUFFICES ASSUME Init PROVE Complete
  OBVIOUS
<1>1. ASSUME NEW w \in Workers PROVE Fine(w)
  <2>1. req[w].op = "none"
    BY DEF Init, Idle
  <2>2. QED
    BY <2>1 DEF Fine, OnCourse, SownAt, WalkedAt, Long
<1>2. Finite
  <2>1. CASE Written(<<>>, <<>>, FALSE)
    <3>1. DOMAIN <<>> = {}
      OBVIOUS
    <3>2. QED
      BY <2>1, <3>1, FS_EmptySet, WrittenFinite
  <2>2. CASE \E own \in BOOLEAN :
               Written(CHOOSE f \in Numberings(RoleSample) : TRUE,
                       CHOOSE f \in Numberings(Sample) : TRUE, own)
    <3> DEFINE rs == CHOOSE f \in Numberings(RoleSample) : TRUE
               ps == CHOOSE f \in Numberings(Sample) : TRUE
    <3>1. rs \in Numberings(RoleSample) /\ ps \in Numberings(Sample)
      BY SamplesFinite, Numbered
    <3>2. PICK own \in BOOLEAN : Written(rs, ps, own)
      BY <2>2
    <3> HIDE DEF rs, ps
    <3>3. IsFiniteSet(DOMAIN rs) /\ IsFiniteSet(DOMAIN ps)
      BY <3>1, SamplesFinite, NumberedRows
    <3>4. QED
      BY <3>2, <3>3, WrittenFinite
  <2>3. QED
    BY <2>1, <2>2 DEF Init
<1>3. QED
  BY <1>1, <1>2 DEF Complete

LEMMA CompleteHolds == Spec => [](Inv /\ Complete)
<1>1. Init => Inv /\ Complete
  BY InitInv, InitComplete
<1>2. Inv /\ Complete /\ [Next]_vars => Inv' /\ Complete'
  BY NextInv, NextComplete
<1>3. QED
  BY <1>1, <1>2, PTL DEF Spec

-----------------------------------------------------------------------------
(* What the script leaves behind.                                          *)
LEMMA DefaultsSampled ==
  ASSUME NEW c \in RoleSample
  PROVE  DefaultGrants(c, Sample) \subseteq Sample
<1>1. c \in SeededRoles
  BY CatalogAssumption
<1>2. /\ UserGrants(Sample) \subseteq Sample /\ ContentGrants(Sample) \subseteq Sample
      /\ FinanceGrants(Sample) \subseteq Sample /\ AuditGrants(Sample) \subseteq Sample
  BY DEF UserGrants, ContentGrants, FinanceGrants, AuditGrants
<1>3. QED
  BY <1>1, <1>2 DEF SeededRoles, DefaultGrants

LEMMA SownSeeds ==
  ASSUME NEW r, r.answer = "done",
         Sown(r, RolesThere, role, PermsThere, perm, grants, holders)
  PROVE  Seeded
<1>1. /\ RolesGot(r, RolesThere, role) /\ PermsGot(r, PermsThere, perm)
      /\ AllPerms(r) /\ \A c \in RoleSample : RoleIdOf(r, c) # {}
      /\ Wanted(r) \subseteq grants /\ Links(r) \subseteq holders
  BY DEF Sown, Past
<1>2. ASSUME NEW c \in RoleSample
      PROVE  \E i \in RolesThere :
               /\ role[i].code = c
               /\ \A g \in DefaultGrants(c, Sample) : Grants(i, g)
               /\ c = "admin" => <<"root", i>> \in holders
               /\ c = "user" => <<"test", i>> \in holders
  <2>1. PICK i : i \in RoleIdOf(r, c)
    BY <1>1
  <2>2. PICK d \in r.done : d[1] = "role" /\ d[2] = i /\ d[3] = c
    BY <2>1 DEF RoleIdOf
  <2>3. i \in RolesThere /\ role[i].code = c /\ i \in r.ids
    BY <1>1, <2>2 DEF RolesGot
  <2>4. ASSUME NEW g \in DefaultGrants(c, Sample) PROVE Grants(i, g)
    <3>1. g \in Sample
      BY DefaultsSampled
    <3>2. PICK e \in r.done : e[1] = "perm" /\ e[3] = g
      BY <1>1, <3>1 DEF AllPerms, HasPerm
    <3>3. e[2] \in PermsThere /\ perm[e[2]].code = g /\ e[2] \in r.perms
      BY <1>1, <3>2 DEF PermsGot
    <3>4. <<i, e[2]>> \in Wanted(r)
      BY <2>2, <2>3, <3>2, <3>3 DEF Wanted
    <3>5. QED
      BY <1>1, <3>3, <3>4 DEF Grants
  <2>5. c = "admin" => <<"root", i>> \in Links(r)
    BY <2>1 DEF Links
  <2>6. c = "user" => <<"test", i>> \in Links(r)
    BY <2>1 DEF Links
  <2>7. QED
    BY <1>1, <2>3, <2>4, <2>5, <2>6
<1>3. QED
  BY <1>2 DEF Seeded

LEMMA CompleteSeeds == Complete => SeedCompletes
<1> SUFFICES ASSUME Complete PROVE SeedCompletes
  OBVIOUS
<1>1. ASSUME NEW w \in Workers, req[w].op = "seed", req[w].answer = "done", ~req[w].moved
      PROVE  Seeded
  BY <1>1, SownSeeds DEF Complete, Fine, SownAt
<1>2. QED
  BY <1>1 DEF SeedCompletes

\* prisma/seed.ts: whatever the tables hold and wherever earlier runs of the
\* script were killed, a run that ends well with no write of another request
\* meanwhile leaves each default role with its grants, and the two accounts with
\* their roles.
THEOREM SeedDone == Spec => []SeedCompletes
BY CompleteHolds, CompleteSeeds, PTL

-----------------------------------------------------------------------------
(* What a client has seen that turns the pages to the end.                 *)
LEMMA OneOfBatch ==
  ASSUME Finite, Cardinality({p \in PermIds : perm[p].batch}) <= 1
  PROVE  OneBatch(perm)
<1> DEFINE B == {p \in PermIds : perm[p].batch}
<1>1. B \subseteq PermsThere
  BY DEF Finite
<1>2. IsFiniteSet(B)
  BY <1>1, ThereFinite, FS_Subset DEF ListsFinite
<1>3. ASSUME NEW p \in B, NEW q \in B, p # q PROVE FALSE
  <2>1. {p, q} \subseteq B
    BY <1>3
  <2>2. Cardinality({p, q}) = 2
    <3>1. IsFiniteSet({p}) /\ Cardinality({p}) = 1
      BY FS_Singleton
    <3>2. Cardinality({p} \union {q}) = 2
      <4>1. Cardinality({p} \union {q})
              = IF q \in {p} THEN Cardinality({p}) ELSE Cardinality({p}) + 1
        BY <3>1, FS_AddElement
      <4>2. q \notin {p}
        BY <1>3
      <4>3. QED
        BY <3>1, <4>1, <4>2
    <3>3. {p} \union {q} = {p, q}
      OBVIOUS
    <3>4. QED
      BY <3>2, <3>3
  <2>3. Cardinality({p, q}) <= Cardinality(B) /\ Cardinality(B) \in Nat
    BY <1>2, <2>1, FS_Subset, FS_CardinalityType
  <2>4. QED
    BY <2>2, <2>3
<1>4. QED
  BY <1>3 DEF OneBatch

LEMMA CompleteWalks == Complete => WalkComplete
<1> SUFFICES ASSUME Complete, NEW w \in Workers, req[w].answer = "done"
             PROVE  /\ req[w].op = "walkRoles" /\ Steady(req[w], "role")
                         => req[w].ids \subseteq req[w].done
                    /\ (/\ req[w].op = "walkPerms" /\ Steady(req[w], "perm")
                        /\ Cardinality({p \in PermIds : perm[p].batch}) <= 1)
                         => req[w].perms \subseteq req[w].done
  BY DEF WalkComplete
<1>1. WalkedAt(w) /\ Finite
  BY DEF Complete, Fine
<1>2. ASSUME req[w].op = "walkRoles", Steady(req[w], "role")
      PROVE  req[w].ids \subseteq req[w].done
  BY <1>1, <1>2 DEF WalkedAt, Walked, Through
<1>3. ASSUME req[w].op = "walkPerms", Steady(req[w], "perm"),
             Cardinality({p \in PermIds : perm[p].batch}) <= 1
      PROVE  req[w].perms \subseteq req[w].done
  BY <1>1, <1>3, OneOfBatch DEF WalkedAt, Walked, Through
<1>4. QED
  BY <1>2, <1>3

\* GET /roles/paginated and /permissions/paginated: a client that takes page
\* after page while hasNextPage holds has seen every row that was there when it
\* began, unless a row was deleted meanwhile, or inserted between the count and
\* the rows of a page, or rows share their createdAt.
THEOREM WalkDone == Spec => []WalkComplete
BY CompleteHolds, CompleteWalks, PTL
=============================================================================
