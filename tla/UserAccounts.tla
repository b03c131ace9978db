---------------------------- MODULE UserAccounts ----------------------------
(***************************************************************************)
(* The rows of users, the service methods that change them, the audit      *)
(* trail those methods leave (@AuditLog) and the sessions a password has   *)
(* opened.                                                                 *)
(*                                                                         *)
(* A method is the sequence of calls it awaits: Begin is given that        *)
(* sequence by one action per method, and each call is an action of its    *)
(* own.  @AuditLog puts "old" before the method and "record" after it.     *)
(* One unique column, name, stands for email, username and phone: they are *)
(* checked by one query and each has its own unique index.  Columns that   *)
(* nothing decides upon (names, avatar, last login) are left out.          *)
(***************************************************************************)
EXTENDS Naturals, Sequences

CONSTANTS
  Users,       \* ids of rows
  Names,       \* values of a unique column
  Passwords,
  Workers,     \* handlers in flight together
  Failures,    \* an await may throw
  MaxOps       \* bound on the requests admitted

ASSUME AccountsAssumption ==
  /\ Failures \in BOOLEAN
  /\ MaxOps \in Nat
  /\ Names # {} /\ Passwords # {}

VARIABLES
  row,      \* rows of users
  session,  \* sessions that are active, by user and by the password given
  req,      \* handlers in flight
  queue,    \* audit records being written, which nobody awaits
  trail,    \* rows of audit_logs
  cause,    \* history: what happened to an account that explains its state
  admitted

vars == <<row, session, req, queue, trail, cause, admitted>>

Status == {"absent", "live", "deleted"}
Causes == {"unaudited", "aborted", "lost", "batch", "overlap", "unrevoked"}

NoRow == [status |-> "absent", name |-> CHOOSE n \in Names : TRUE,
          password |-> CHOOSE p \in Passwords : TRUE,
          active |-> FALSE, verified |-> FALSE]

\* What the user adapter selects: no password, and no deletedAt.
View(r) == [name |-> r.name, active |-> r.active, verified |-> r.verified]

Account(n, p) == [NoRow EXCEPT !.status = "live", !.name = n, !.password = p,
                               !.active = TRUE]

Idle == [op |-> "none", users |-> {}, todo |-> <<>>, arg |-> NoRow,
         guess |-> NoRow.password, old |-> <<>>, result |-> {},
         disturbed |-> FALSE, committed |-> FALSE]

Live(u) == row[u].status = "live"

-----------------------------------------------------------------------------
\* An account may be there from before, with the record of its creation.
Created(u) == [op |-> "create", users |-> {u}, old |-> <<>>,
               new |-> {View(Account(NoRow.name, NoRow.password))}]

Init ==
  /\ session = {}
  /\ req = [w \in Workers |-> Idle]
  /\ queue = {}
  /\ admitted = 0
  /\ cause = [u \in Users |-> {}]
  /\ \/ /\ row = [u \in Users |-> NoRow]
        /\ trail = {}
     \/ \E u \in Users :
          /\ row = [v \in Users |-> IF v = u THEN Account(NoRow.name, NoRow.password)
                                            ELSE NoRow]
          /\ trail = {Created(u)}

(* A request is admitted with the calls its method awaits.                 *)
Begin(w, op, S, arg, guess, todo) ==
  /\ req[w] = Idle
  /\ admitted < MaxOps /\ admitted' = admitted + 1
  /\ req' = [req EXCEPT ![w] = [Idle EXCEPT !.op = op, !.users = S,
                                            !.arg = arg, !.guess = guess,
                                            !.todo = todo]]
  /\ UNCHANGED <<row, session, queue, trail, cause>>

\* POST /auth/register and POST /users.
Create(w, u, n, p) ==
  /\ ~ \E v \in Workers : u \in req[v].users
  /\ row[u].status = "absent"
  /\ Begin(w, "create", {u}, Account(n, p), p,
           <<"conflict", "insert", "reread", "record">>)

\* Requests name accounts that have been created, by now perhaps deleted.
Known(u) == row[u].status # "absent"

\* Mutated form: the old value is read when the update is done.
UpdateThenOld(w, u, n, b) ==
  /\ Known(u)
  /\ Begin(w, "edit", {u}, [NoRow EXCEPT !.name = n, !.active = b], NoRow.password,
           <<"find", "conflict", "update", "old", "reread", "record">>)

\* PATCH /users/:id: the body may name the unique column, isActive, or both.
Update(w, u, n, b) ==
  /\ Known(u)
  /\ \/ Begin(w, "update", {u}, [NoRow EXCEPT !.name = n], NoRow.password,
              <<"old", "find", "conflict", "update", "reread", "record">>)
     \/ Begin(w, "edit", {u}, [NoRow EXCEPT !.name = n, !.active = b], NoRow.password,
              <<"old", "find", "conflict", "update", "reread", "record">>)
     \/ Begin(w, "activate", {u}, [NoRow EXCEPT !.active = b], NoRow.password,
              <<"old", "find", "update", "reread", "record">>)

\* Mutated form: the row that was read is answered, not read again.
UpdateProfileUnread(w, u, n) ==
  /\ Known(u)
  /\ Begin(w, "update", {u}, [NoRow EXCEPT !.name = n], NoRow.password,
           <<"old", "find", "conflict", "reread", "update", "record">>)

UpdateProfile(w, u, n) ==
  /\ Known(u)
  /\ Begin(w, "update", {u}, [NoRow EXCEPT !.name = n], NoRow.password,
           <<"old", "find", "conflict", "update", "reread", "record">>)

Remove(w, u) ==
  /\ Known(u)
  /\ Begin(w, "remove", {u}, NoRow, NoRow.password,
           <<"old", "find", "delete", "record">>)

\* Mutated form: the sessions are revoked before the password is changed.
ChangePasswordLate(w, u, g, p) ==
  /\ Known(u)
  /\ Begin(w, "change", {u}, [NoRow EXCEPT !.password = p], g,
           <<"old", "find", "revoke", "update", "record">>)

ChangePassword(w, u, g, p) ==
  /\ Known(u)
  /\ Begin(w, "change", {u}, [NoRow EXCEPT !.password = p], g,
           <<"old", "find", "update", "revoke", "record">>)

ResetUserPassword(w, u, p) ==
  /\ Known(u)
  /\ Begin(w, "reset", {u}, [NoRow EXCEPT !.password = p], NoRow.password,
           <<"find", "update", "revoke">>)

UpdateUserStatus(w, u, b) ==
  /\ Known(u)
  /\ Begin(w, "status", {u}, [NoRow EXCEPT !.active = b], NoRow.password,
           <<"find", "update", "reread">>)

VerifyUser(w, u) ==
  /\ Known(u)
  /\ Begin(w, "verify", {u}, NoRow, NoRow.password,
           <<"old", "find", "update", "reread", "record">>)

\* Only the deletion itself: no check that the accounts are inactive.
BatchDelete(w, S) ==
  /\ S # {} /\ \A u \in S : Known(u)
  /\ Begin(w, "batch", S, NoRow, NoRow.password,
           <<"old", "deleteMany", "record">>)

\* validateUser, then login up to the row of its session.
Login(w, u, p) ==
  /\ Known(u)
  /\ Begin(w, "login", {u}, NoRow, p, <<"validate", "open">>)

-----------------------------------------------------------------------------
(* The calls.                                                              *)

At(w, call) == req[w].todo # <<>> /\ Head(req[w].todo) = call

\* On to the next call; after the last one the response goes out.
After(r) == IF Len(r.todo) <= 1 THEN Idle ELSE [r EXCEPT !.todo = Tail(@)]
Goes(w, r) == req' = [req EXCEPT ![w] = After(r)]

\* A handler that ends after its write and before its record leaves neither
\* record nor, if the sessions were still to be revoked, a revocation.
Ended(r) ==
  (IF r.committed /\ r.op \notin {"status", "reset"} THEN {"aborted"} ELSE {})
    \union (IF r.committed /\ \E i \in 1..Len(r.todo) : r.todo[i] = "revoke"
              THEN {"unrevoked"} ELSE {})

Throw(w) ==
  /\ req' = [req EXCEPT ![w] = Idle]
  /\ cause' = [u \in Users |-> IF u \in req[w].users
                                 THEN cause[u] \union Ended(req[w]) ELSE cause[u]]

\* fetchOldData: what the adapter finds of the rows, deleted or not.
FetchOld(w) ==
  /\ At(w, "old")
  /\ Goes(w, [req[w] EXCEPT !.old = [u \in req[w].users |-> View(row[u])]])
  /\ UNCHANGED <<row, session, queue, trail, cause, admitted>>

\* Mutated form: remove does not look at isActive.
RefusesNoRemoval(r, found) ==
  \/ r.op = "verify" /\ found.verified
  \/ r.op = "change" /\ (r.guess # found.password
                           \/ r.arg.password = found.password)

\* What each method refuses once it has the row.
Refuses(r, found) ==
  \/ r.op = "remove" /\ found.active
  \/ r.op = "verify" /\ found.verified
  \/ r.op = "change" /\ (r.guess # found.password
                           \/ r.arg.password = found.password)

Find(w) ==
  /\ At(w, "find")
  /\ \A u \in req[w].users :
       IF ~Live(u) \/ Refuses(req[w], row[u])
         THEN Throw(w)
         ELSE /\ Goes(w, IF /\ req[w].op \in {"update", "edit"}
                            /\ req[w].arg.name = row[u].name
                           THEN [req[w] EXCEPT !.todo = Tail(@)] ELSE req[w])
              /\ UNCHANGED cause
  /\ UNCHANGED <<row, session, queue, trail, admitted>>

\* checkConflict looks at accounts that are not deleted.
CheckConflict(w) ==
  /\ At(w, "conflict")
  /\ IF \E v \in Users \ req[w].users : Live(v) /\ row[v].name = req[w].arg.name
       THEN Throw(w)
       ELSE Goes(w, req[w]) /\ UNCHANGED cause
  /\ UNCHANGED <<row, session, queue, trail, admitted>>

\* Mutated form: the index is over accounts that are not deleted.
FreeForLive(n, u) == \A v \in Users \ {u} : Live(v) => row[v].name # n

\* The unique index is over all rows.
Free(n, u) == \A v \in Users \ {u} : Known(v) => row[v].name # n

\* A write has reached the rows of S: other handlers in flight work with what
\* they read before it.
Writes(w, S, why) ==
  /\ req' = [v \in Workers |->
               IF v = w
                 THEN After([req[w] EXCEPT !.committed = TRUE])
                 ELSE [req[v] EXCEPT !.disturbed =
                         @ \/ req[v].users \intersect S # {}]]
  /\ cause' = [u \in Users |-> cause[u] \union
       IF u \notin S THEN {}
         ELSE why \union
              IF req[w].disturbed
                   \/ \E v \in Workers \ {w} : req[v].committed
                                                 /\ u \in req[v].users
                THEN {"overlap"} ELSE {}]

Insert(w) ==
  /\ At(w, "insert")
  /\ \A u \in req[w].users :
       IF Free(req[w].arg.name, u)
         THEN row' = [row EXCEPT ![u] = req[w].arg] /\ Writes(w, {u}, {})
         ELSE Throw(w) /\ UNCHANGED row
  /\ UNCHANGED <<session, queue, trail, admitted>>

\* The columns each method writes.
Written(r, found) ==
  CASE r.op = "update" -> [found EXCEPT !.name = r.arg.name]
    [] r.op = "edit" -> [found EXCEPT !.name = r.arg.name, !.active = r.arg.active]
    [] r.op \in {"activate", "status"} -> [found EXCEPT !.active = r.arg.active]
    [] r.op \in {"change", "reset"} -> [found EXCEPT !.password = r.arg.password]
    [] r.op = "verify" -> [found EXCEPT !.verified = TRUE]

\* Mutated form: the update is addressed by id alone.
AffectedById(u) == Known(u)

\* updateMany with deletedAt: null; nothing updated is "not found".
Affected(u) == Live(u)

UpdateRow(w) ==
  /\ At(w, "update")
  /\ \A u \in req[w].users :
       IF Affected(u) /\ Free(Written(req[w], row[u]).name, u)
         THEN /\ row' = [row EXCEPT ![u] = Written(req[w], @)]
              /\ Writes(w, {u}, IF req[w].op \in {"status", "reset"}
                                  THEN {"unaudited"} ELSE {})
         ELSE Throw(w) /\ UNCHANGED row
  /\ UNCHANGED <<session, queue, trail, admitted>>

DeleteRow(w) ==
  /\ At(w, "delete")
  /\ \A u \in req[w].users :
       IF Affected(u)
         THEN row' = [row EXCEPT ![u].status = "deleted"] /\ Writes(w, {u}, {})
         ELSE Throw(w) /\ UNCHANGED row
  /\ UNCHANGED <<session, queue, trail, admitted>>

DeleteMany(w) ==
  /\ At(w, "deleteMany")
  /\ LET S == {u \in req[w].users : Live(u)}
     IN IF S # {}
          THEN /\ row' = [u \in Users |-> IF u \in S
                            THEN [row[u] EXCEPT !.status = "deleted"] ELSE row[u]]
               /\ Writes(w, S, {"batch"})
          ELSE Throw(w) /\ UNCHANGED row
  /\ UNCHANGED <<session, queue, trail, admitted>>

\* findByIdWithRoles; toUserResponse of null throws.
Reread(w) ==
  /\ At(w, "reread")
  /\ \A u \in req[w].users :
       IF Live(u)
         THEN /\ Goes(w, [req[w] EXCEPT !.result = {View(row[u])}])
              /\ UNCHANGED cause
         ELSE Throw(w)
  /\ UNCHANGED <<row, session, queue, trail, admitted>>

\* AuthService.revokeAllUserSessions, which ends with one updateMany.
RevokeAllUserSessions(w) ==
  /\ At(w, "revoke")
  /\ session' = {s \in session : s.user \notin req[w].users}
  /\ Goes(w, req[w])
  /\ UNCHANGED <<row, queue, trail, cause, admitted>>

Validate(w) ==
  /\ At(w, "validate")
  /\ \A u \in req[w].users :
       IF Live(u) /\ row[u].active /\ row[u].password = req[w].guess
         THEN Goes(w, req[w]) /\ UNCHANGED cause
         ELSE Throw(w)
  /\ UNCHANGED <<row, session, queue, trail, admitted>>

\* late: the password was changed after it had been compared.
Open(w) ==
  /\ At(w, "open")
  /\ session' = session \union
       {[user |-> u, password |-> req[w].guess,
         late |-> row[u].password # req[w].guess] : u \in req[w].users}
  /\ Goes(w, req[w])
  /\ UNCHANGED <<row, queue, trail, cause, admitted>>

\* The action @AuditLog names.
Action(op) == IF op \in {"edit", "activate"} THEN "update" ELSE op

\* createAuditLogAsync is called and not awaited; the response goes out.
Record(w) ==
  /\ At(w, "record")
  /\ queue' = queue \union
       {[op |-> Action(req[w].op), users |-> req[w].users, old |-> req[w].old,
         new |-> req[w].result]}
  /\ Goes(w, req[w])
  /\ UNCHANGED <<row, session, trail, cause, admitted>>

\* An await rejects, or the process dies.
Fail(w) ==
  /\ Failures
  /\ req[w].todo # <<>>
  /\ Throw(w)
  /\ UNCHANGED <<row, session, queue, trail, admitted>>

WriteRecord(r) ==
  /\ queue' = queue \ {r}
  /\ trail' = trail \union {r}
  /\ UNCHANGED <<row, session, req, cause, admitted>>

\* The write fails, which is printed, or the process ends before it.
LoseRecord(r) ==
  /\ Failures
  /\ queue' = queue \ {r}
  /\ cause' = [u \in Users |-> IF u \in r.users
                                 THEN cause[u] \union {"lost"} ELSE cause[u]]
  /\ UNCHANGED <<row, session, req, trail, admitted>>

Call(w) ==
  \/ FetchOld(w) \/ Find(w) \/ CheckConflict(w) \/ Insert(w) \/ UpdateRow(w)
  \/ DeleteRow(w) \/ DeleteMany(w) \/ Reread(w) \/ RevokeAllUserSessions(w)
  \/ Validate(w) \/ Open(w) \/ Record(w)

Request(w) ==
  \/ \E u \in Users :
       \/ Remove(w, u) \/ VerifyUser(w, u)
       \/ \E n \in Names : UpdateProfile(w, u, n)
       \/ \E b \in BOOLEAN :
            UpdateUserStatus(w, u, b) \/ \E n \in Names : Update(w, u, n, b)
       \/ \E p \in Passwords :
            \/ ResetUserPassword(w, u, p) \/ Login(w, u, p)
            \/ \E g \in Passwords : ChangePassword(w, u, g, p)
            \/ \E n \in Names : Create(w, u, n, p)
  \/ \E S \in SUBSET Users : BatchDelete(w, S)

Next ==
  \/ \E w \in Workers : Request(w) \/ Call(w) \/ Fail(w)
  \/ \E r \in queue : WriteRecord(r) \/ LoseRecord(r)

Spec == Init /\ [][Next]_vars

-----------------------------------------------------------------------------
(* Type invariant.  A handler that has written is past its checks.         *)

Views == [name : Names, active : BOOLEAN, verified : BOOLEAN]
Rows == [status : Status, name : Names, password : Passwords,
         active : BOOLEAN, verified : BOOLEAN]
Sessions == [user : Users, password : Passwords, late : BOOLEAN]
Operations == {"create", "update", "edit", "activate", "remove", "change",
               "reset", "status", "verify", "batch", "login"}
Calls == {"old", "find", "conflict", "insert", "update", "delete", "deleteMany",
          "reread", "revoke", "validate", "open", "record"}
Olds == {<<>>} \union UNION {[S -> Views] : S \in SUBSET Users}
Handlers == [op : Operations \union {"none"}, users : SUBSET Users,
             todo : Seq(Calls), arg : Rows, guess : Passwords, old : Olds,
             result : SUBSET Views, disturbed : BOOLEAN, committed : BOOLEAN]
Records == [op : Operations, users : SUBSET Users, old : Olds,
            new : SUBSET Views]

TypeOK ==
  /\ row \in [Users -> Rows]
  /\ session \in SUBSET Sessions
  /\ req \in [Workers -> Handlers]
  /\ queue \in SUBSET Records /\ trail \in SUBSET Records
  /\ cause \in [Users -> SUBSET Causes]
  /\ admitted \in 0..MaxOps

-----------------------------------------------------------------------------
(* Safety.                                                                 *)

\* No handler is between its write and its answer, and no record of u is on
\* its way.
Settled(u) ==
  /\ \A w \in Workers : u \in req[w].users => ~req[w].committed
  /\ \A r \in queue : u \notin r.users

RecordsOf(u) == {t \in trail : u \in t.users}

(* Unless its change is one the code does not record (a status set by an   *)
(* administrator), or the handler ended before its record, or the write of *)
(* the record was lost, what an account is can be read off the trail: its  *)
(* row is what some record says the operation left, and the deletion of a  *)
(* deleted account is recorded.  However the handlers overlap.             *)
RowHasRecord ==
  \A u \in Users :
    (Known(u) /\ Settled(u) /\ cause[u] \intersect {"unaudited", "aborted", "lost"} = {})
      => \E t \in RecordsOf(u) : IF Live(u) THEN View(row[u]) \in t.new
                                            ELSE t.op \in {"remove", "batch"}

(* Of an account no two handlers worked on together the records form a     *)
(* chain: each begins with what another ended with, and ends with what     *)
(* another began with or with the row of today.  The old value is read     *)
(* before the method and outside its transaction, so an overlap breaks it. *)
ChainOfRecords ==
  \A u \in Users :
    (Settled(u) /\ cause[u] \subseteq {"batch", "unrevoked"})
      => \A t \in RecordsOf(u) :
           /\ t.op # "create" => \E s \in RecordsOf(u) : t.old[u] \in s.new
           /\ \A v \in t.new : v = View(row[u])
                \/ \E s \in RecordsOf(u) : s.op # "create" /\ s.old[u] = v

(* An active session was opened with the password of today, unless the     *)
(* revocation is still to come, failed or never ran, or the login compared *)
(* the password before it was changed.                                     *)
OldPasswordSessionHasCause ==
  \A s \in session :
    \/ s.password = row[s.user].password
    \/ s.late \/ "unrevoked" \in cause[s.user]
    \/ \E w \in Workers : /\ s.user \in req[w].users
                          /\ \E i \in 1..Len(req[w].todo) : req[w].todo[i] = "revoke"

(* remove deletes inactive accounts only: a deleted account that is active *)
(* went in a batch, or a change of status or an update activated it between *)
(* the check (users.service 307) and the deletion.                         *)
ActiveDeletedHasCause ==
  \A u \in Users :
    (row[u].status = "deleted" /\ row[u].active)
      => cause[u] \intersect {"batch", "overlap"} # {}

(* Two registrations, or two renamings, may both pass the check: the index *)
(* lets one of them through.  Deleted accounts keep their names.           *)
NamesUnique ==
  \A u, v \in Users : (Known(u) /\ Known(v) /\ row[u].name = row[v].name) => u = v

(* Whatever is in flight when an account is deleted, its row never changes *)
(* again: no update reaches it and nothing brings it back.                 *)
DeletedForGood ==
  [][\A u \in Users : row[u].status = "deleted" => row'[u] = row[u]]_vars
=============================================================================
