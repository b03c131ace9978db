------------------------- MODULE UserAccountsProofs -------------------------
(***************************************************************************)
(* Proofs about UserAccounts for every set of accounts, names, passwords   *)
(* and handlers, with and without failures, and any number of requests.    *)
(***************************************************************************)
EXTENDS UserAccounts, TLAPS

\* The methods that call an update of one row.
Updaters == {"update", "edit", "activate", "change", "reset", "status", "verify"}

Awaits(r, call) == \E i \in 1..Len(r.todo) : r.todo[i] = call

\* Who makes a call: each is made by the methods it belongs to.
Fitting(op, call) ==
  /\ call = "update" => op \in Updaters
  /\ call = "insert" => op = "create"
  /\ call = "delete" => op = "remove"
  /\ call = "revoke" => op \in {"change", "reset"}
  /\ call = "open" => op = "login"

\* The calls of a method: each is made once, a row is looked up before it is
\* deleted, and the sessions are revoked after a password was written.
SaneTodo(op, todo) ==
  /\ todo \in Seq(Calls)
  /\ \A i \in 1..Len(todo) : Fitting(op, todo[i])
  /\ \A i, j \in 1..Len(todo) : todo[i] = todo[j] => i = j
  /\ \A i, j \in 1..Len(todo) : todo[i] = "delete" /\ todo[j] = "find" => j < i
  /\ \A i \in 1..Len(todo) :
       todo[i] = "update" /\ op \in {"change", "reset"}
         => \E j \in 1..Len(todo) : i < j /\ todo[j] = "revoke"

\* What the calls a handler has still to make say of it.
Sane(r) ==
  /\ r.todo # <<>> => r.users # {} /\ r.op \in Operations
  /\ SaneTodo(r.op, r.todo)

HandlersSane == \A w \in Workers : Sane(req[w])

-----------------------------------------------------------------------------
(* Types.                                                                  *)

LEMMA NoRowTyped == NoRow \in Rows
<1>1. (CHOOSE n \in Names : TRUE) \in Names
  BY AccountsAssumption
<1>2. (CHOOSE p \in Passwords : TRUE) \in Passwords
  BY AccountsAssumption
<1>3. QED
  BY <1>1, <1>2 DEF NoRow, Rows, Status

LEMMA IdleTyped == Idle \in Handlers /\ Sane(Idle) /\ Idle.todo = <<>> /\ Idle.users = {}
<1>1. NoRow \in Rows /\ NoRow.password \in Passwords
  BY NoRowTyped DEF Rows
<1>2. <<>> \in Olds /\ <<>> \in Seq(Calls)
  BY DEF Olds
<1>3. Idle \in Handlers
  BY <1>1, <1>2 DEF Idle, Handlers
<1>4. Idle.todo = <<>> /\ Idle.users = {}
  BY DEF Idle
<1>5. Sane(Idle)
  BY <1>2, <1>4 DEF Sane, SaneTodo
<1>6. QED
  BY <1>3, <1>4, <1>5

LEMMA ViewTyped == ASSUME NEW r \in Rows PROVE View(r) \in Views
BY DEF View, Views, Rows

(* The rest of the calls of a method make as much sense.                   *)
LEMMA TailSaneTodo ==
  ASSUME NEW op, NEW todo, SaneTodo(op, todo), todo # <<>>
  PROVE  SaneTodo(op, Tail(todo))
<1> DEFINE t == Tail(todo)
<1>1. todo \in Seq(Calls) /\ t \in Seq(Calls) /\ Len(todo) \in Nat /\ Len(todo) >= 1
  BY DEF SaneTodo
<1>2. /\ Len(t) = Len(todo) - 1
      /\ \A i \in 1..Len(t) : i + 1 \in 1..Len(todo) /\ t[i] = todo[i + 1]
  BY <1>1
<1> HIDE DEF t
<1>3. \A i \in 1..Len(t) : Fitting(op, t[i])
  BY <1>2 DEF SaneTodo
<1>4. ASSUME NEW i \in 1..Len(t), NEW j \in 1..Len(t), t[i] = t[j] PROVE i = j
  <2>1. i + 1 = j + 1
    BY <1>2, <1>4 DEF SaneTodo
  <2>2. QED
    BY <2>1
<1>5. ASSUME NEW i \in 1..Len(t), NEW j \in 1..Len(t), t[i] = "delete", t[j] = "find"
      PROVE  j < i
  <2>1. j + 1 < i + 1
    BY <1>2, <1>5 DEF SaneTodo
  <2>2. QED
    BY <2>1
<1>6. ASSUME NEW i \in 1..Len(t), t[i] = "update", op \in {"change", "reset"}
      PROVE  \E j \in 1..Len(t) : i < j /\ t[j] = "revoke"
  <2>1. PICK k \in 1..Len(todo) : i + 1 < k /\ todo[k] = "revoke"
    BY <1>2, <1>6 DEF SaneTodo
  <2>2. k - 1 \in 1..Len(t) /\ i < k - 1 /\ (k - 1) + 1 = k
    BY <1>1, <1>2, <2>1
  <2>3. t[k - 1] = "revoke"
    BY <1>2, <2>1, <2>2
  <2>4. QED
    BY <2>2, <2>3
<1>7. SaneTodo(op, t)
  BY <1>1, <1>3, <1>4, <1>5, <1>6 DEF SaneTodo, t
<1>8. QED
  BY <1>7 DEF t

LEMMA TailSane ==
  ASSUME NEW r \in Handlers, Sane(r), r.todo # <<>>
  PROVE  /\ [r EXCEPT !.todo = Tail(@)] \in Handlers
         /\ Sane([r EXCEPT !.todo = Tail(@)])
<1> DEFINE t == [r EXCEPT !.todo = Tail(@)]
<1>1. r.todo \in Seq(Calls) /\ Tail(r.todo) \in Seq(Calls)
  BY DEF Handlers
<1>2. t \in Handlers /\ t.todo = Tail(r.todo) /\ t.users = r.users /\ t.op = r.op
  BY <1>1 DEF Handlers
<1>3. SaneTodo(t.op, t.todo)
  BY <1>2, TailSaneTodo DEF Sane
<1>4. QED
  BY <1>2, <1>3 DEF Sane

LEMMA AfterSane ==
  ASSUME NEW r \in Handlers, Sane(r), r.todo # <<>>
  PROVE  After(r) \in Handlers /\ Sane(After(r))
<1>1. CASE Len(r.todo) <= 1
  BY <1>1, IdleTyped DEF After
<1>2. CASE ~(Len(r.todo) <= 1)
  BY <1>2, TailSane DEF After
<1>3. QED
  BY <1>1, <1>2

(* What Sane says does not depend on the other fields.                     *)
LEMMA SaneElsewhere ==
  ASSUME NEW r, NEW s, s.todo = r.todo, s.users = r.users, s.op = r.op, Sane(r)
  PROVE  Sane(s)
BY DEF Sane

Typed(r) == r \in Handlers /\ Sane(r)
HandlersTyped == req \in [Workers -> Handlers] /\ HandlersSane

(* A handler is replaced by one that makes sense.                          *)
LEMMA ReplaceTyped ==
  ASSUME HandlersTyped, NEW w \in Workers, NEW r, Typed(r),
         req' = [req EXCEPT ![w] = r]
  PROVE  HandlersTyped'
BY DEF HandlersTyped, HandlersSane, Typed

LEMMA GoesTyped ==
  ASSUME HandlersTyped, NEW w \in Workers, NEW r, Typed(r), r.todo # <<>>, Goes(w, r)
  PROVE  HandlersTyped'
<1>1. Typed(After(r))
  BY AfterSane DEF Typed
<1>2. QED
  BY <1>1, ReplaceTyped DEF Goes

(* A handler that throws ends.                                             *)
LEMMA ThrowTyped ==
  ASSUME TypeOK, HandlersSane, NEW w \in Workers, Throw(w)
  PROVE  HandlersTyped' /\ cause' \in [Users -> SUBSET Causes]
<1>1. HandlersTyped'
  BY IdleTyped, ReplaceTyped DEF Throw, Typed, HandlersTyped, TypeOK
<1>2. Ended(req[w]) \subseteq Causes
  BY DEF Ended, Causes
<1>3. QED
  BY <1>1, <1>2 DEF Throw, TypeOK

(* A handler that has written goes on; others may have read too early.     *)
LEMMA WritesTyped ==
  ASSUME TypeOK, HandlersSane, NEW w \in Workers, NEW S \in SUBSET Users,
         NEW why \in SUBSET Causes, req[w].todo # <<>>, Writes(w, S, why)
  PROVE  HandlersTyped' /\ cause' \in [Users -> SUBSET Causes]
<1> DEFINE c == [req[w] EXCEPT !.committed = TRUE]
           d(v) == [req[v] EXCEPT !.disturbed = @ \/ req[v].users \intersect S # {}]
<1>1. req[w] \in Handlers /\ Sane(req[w])
  BY DEF TypeOK, HandlersSane
<1>2. c \in Handlers /\ c.todo = req[w].todo /\ c.users = req[w].users /\ c.op = req[w].op
  BY <1>1 DEF Handlers
<1>3. Sane(c)
  BY <1>1, <1>2, SaneElsewhere
<1>4. Typed(After(c))
  BY <1>2, <1>3, AfterSane DEF Typed
<1>5. ASSUME NEW v \in Workers PROVE Typed(d(v))
  <2>1. req[v] \in Handlers /\ Sane(req[v])
    BY DEF TypeOK, HandlersSane
  <2>2. /\ d(v) \in Handlers /\ d(v).todo = req[v].todo
        /\ d(v).users = req[v].users /\ d(v).op = req[v].op
    BY <2>1 DEF Handlers
  <2>3. QED
    BY <2>1, <2>2, SaneElsewhere DEF Typed
<1>6. req' = [v \in Workers |-> IF v = w THEN After(c) ELSE d(v)]
  BY DEF Writes
<1>7. HandlersTyped'
  BY <1>4, <1>5, <1>6 DEF HandlersTyped, HandlersSane, Typed
<1>8. cause' \in [Users -> SUBSET Causes]
  <2>1. \A u \in Users : cause[u] \subseteq Causes
    BY DEF TypeOK
  <2>2. QED
    BY <2>1 DEF Writes, Causes
<1>9. QED
  BY <1>7, <1>8

(* The inductive invariant of the types.                                   *)
Inv == TypeOK /\ HandlersSane

-----------------------------------------------------------------------------
(* The first state, and the requests.                                      *)

LEMMA AccountTyped ==
  ASSUME NEW n \in Names, NEW p \in Passwords
  PROVE  Account(n, p) \in Rows /\ Account(n, p).name = n
BY NoRowTyped DEF Account, Rows, Status

LEMMA InitInv == Init => Inv
<1> SUFFICES ASSUME Init PROVE Inv
  OBVIOUS
<1>1. HandlersSane /\ req \in [Workers -> Handlers]
  BY IdleTyped DEF Init, HandlersSane
<1>2. session \in SUBSET Sessions /\ queue \in SUBSET Records /\ admitted \in 0..MaxOps
  BY AccountsAssumption DEF Init
<1>3. row \in [Users -> Rows] /\ cause \in [Users -> SUBSET Causes]
                              /\ trail \in SUBSET Records
  <2>1. cause \in [Users -> SUBSET Causes]
    BY DEF Init
  <2>2. CASE row = [u \in Users |-> NoRow] /\ trail = {}
    BY <2>1, <2>2, NoRowTyped
  <2>3. ASSUME NEW u \in Users,
               row = [v \in Users |-> IF v = u THEN Account(NoRow.name, NoRow.password)
                                                 ELSE NoRow],
               trail = {Created(u)}
        PROVE  row \in [Users -> Rows] /\ trail \in SUBSET Records
    <3> DEFINE a == Account(NoRow.name, NoRow.password)
    <3>1. a \in Rows
      BY NoRowTyped, AccountTyped DEF Rows
    <3>2. Created(u) \in Records
      <4>1. View(a) \in Views /\ <<>> \in Olds
        BY <3>1, ViewTyped DEF Olds
      <4>2. QED
        BY <4>1 DEF Created, Records, Operations
    <3>3. QED
      BY <2>3, <3>1, <3>2, NoRowTyped
  <2>4. QED
    BY <2>1, <2>2, <2>3 DEF Init
<1>4. QED
  BY <1>1, <1>2, <1>3 DEF Inv, TypeOK

(* A request begins with calls that make sense for its method.             *)
LEMMA BeginInv ==
  ASSUME Inv, NEW w \in Workers, NEW op \in Operations, NEW S \in SUBSET Users, S # {},
         NEW arg \in Rows, NEW guess \in Passwords, NEW todo, SaneTodo(op, todo),
         Begin(w, op, S, arg, guess, todo)
  PROVE  Inv'
<1> DEFINE r == [Idle EXCEPT !.op = op, !.users = S, !.arg = arg, !.guess = guess,
                             !.todo = todo]
<1>1. r \in Handlers /\ r.op = op /\ r.users = S /\ r.todo = todo
  BY IdleTyped DEF Handlers, SaneTodo
<1>2. Sane(r)
  BY <1>1 DEF Sane
<1>3. HandlersTyped'
  BY <1>1, <1>2, ReplaceTyped DEF Begin, Typed, HandlersTyped, Inv, TypeOK
<1>4. admitted' \in 0..MaxOps
  BY AccountsAssumption DEF Begin, Inv, TypeOK
<1>5. QED
  BY <1>3, <1>4 DEF Begin, Inv, TypeOK, HandlersTyped

LEMMA RequestInv ==
  ASSUME Inv, NEW w \in Workers, Request(w)
  PROVE  Inv'
<1> USE NoRowTyped
<1>0. NoRow.password \in Passwords
  BY DEF Rows
<1>1. ASSUME NEW u \in Users, Remove(w, u) PROVE Inv'
  <2>1. SaneTodo("remove", <<"old", "find", "delete", "record">>)
    BY DEF SaneTodo, Calls, Fitting, Updaters
  <2>2. QED
    BY <1>0, <1>1, <2>1, BeginInv DEF Remove, Operations
<1>2. ASSUME NEW u \in Users, VerifyUser(w, u) PROVE Inv'
  <2>1. SaneTodo("verify", <<"old", "find", "update", "reread", "record">>)
    BY DEF SaneTodo, Calls, Fitting, Updaters
  <2>2. QED
    BY <1>0, <1>2, <2>1, BeginInv DEF VerifyUser, Operations
<1>3. ASSUME NEW u \in Users, NEW n \in Names,
             UpdateProfile(w, u, n) \/ \E b \in BOOLEAN : Update(w, u, n, b)
      PROVE  Inv'
  <2> DEFINE naming == <<"old", "find", "conflict", "update", "reread", "record">>
             enabling == <<"old", "find", "update", "reread", "record">>
  <2>1. SaneTodo("update", naming) /\ SaneTodo("edit", naming)
    BY DEF SaneTodo, Calls, Fitting, Updaters
  <2>2. SaneTodo("activate", enabling)
    BY DEF SaneTodo, Calls, Fitting, Updaters
  <2>3. [NoRow EXCEPT !.name = n] \in Rows
    BY DEF Rows
  <2>4. \A b \in BOOLEAN : /\ [NoRow EXCEPT !.name = n, !.active = b] \in Rows
                           /\ [NoRow EXCEPT !.active = b] \in Rows
    BY DEF Rows
  <2>5. CASE UpdateProfile(w, u, n)
    BY <1>0, <2>1, <2>3, <2>5, BeginInv DEF UpdateProfile, Operations
  <2>6. ASSUME NEW b \in BOOLEAN, Update(w, u, n, b) PROVE Inv'
    BY <1>0, <2>1, <2>2, <2>3, <2>4, <2>6, BeginInv DEF Update, Operations
  <2>7. QED
    BY <1>3, <2>5, <2>6
<1>4. ASSUME NEW u \in Users, NEW b \in BOOLEAN, UpdateUserStatus(w, u, b) PROVE Inv'
  <2>1. SaneTodo("status", <<"find", "update", "reread">>)
    BY DEF SaneTodo, Calls, Fitting, Updaters
  <2>2. [NoRow EXCEPT !.active = b] \in Rows
    BY DEF Rows
  <2>3. QED
    BY <1>0, <1>4, <2>1, <2>2, BeginInv DEF UpdateUserStatus, Operations
<1>5. ASSUME NEW p \in Passwords PROVE [NoRow EXCEPT !.password = p] \in Rows
  BY <1>5 DEF Rows
<1>6. ASSUME NEW u \in Users, NEW p \in Passwords, ResetUserPassword(w, u, p) PROVE Inv'
  <2>1. SaneTodo("reset", <<"find", "update", "revoke">>)
    BY DEF SaneTodo, Calls, Fitting, Updaters
  <2>2. QED
    BY <1>0, <1>5, <1>6, <2>1, BeginInv DEF ResetUserPassword, Operations
<1>7. ASSUME NEW u \in Users, NEW p \in Passwords, Login(w, u, p) PROVE Inv'
  <2>1. SaneTodo("login", <<"validate", "open">>)
    BY DEF SaneTodo, Calls, Fitting, Updaters
  <2>2. QED
    BY <1>7, <2>1, BeginInv DEF Login, Operations
<1>8. ASSUME NEW u \in Users, NEW p \in Passwords, NEW g \in Passwords,
             ChangePassword(w, u, g, p)
      PROVE  Inv'
  <2>1. SaneTodo("change", <<"old", "find", "update", "revoke", "record">>)
    BY DEF SaneTodo, Calls, Fitting, Updaters
  <2>2. QED
    BY <1>5, <1>8, <2>1, BeginInv DEF ChangePassword, Operations
<1>9. ASSUME NEW u \in Users, NEW p \in Passwords, NEW n \in Names, Create(w, u, n, p)
      PROVE  Inv'
  <2>1. SaneTodo("create", <<"conflict", "insert", "reread", "record">>)
    BY DEF SaneTodo, Calls, Fitting, Updaters
  <2>2. QED
    BY <1>9, <2>1, AccountTyped, BeginInv DEF Create, Operations
<1>10. ASSUME NEW S \in SUBSET Users, BatchDelete(w, S) PROVE Inv'
  <2>1. SaneTodo("batch", <<"old", "deleteMany", "record">>)
    BY DEF SaneTodo, Calls, Fitting, Updaters
  <2>2. QED
    BY <1>0, <1>10, <2>1, BeginInv DEF BatchDelete, Operations
<1>11. QED
  BY <1>1, <1>2, <1>3, <1>4, <1>6, <1>7, <1>8, <1>9, <1>10 DEF Request

-----------------------------------------------------------------------------
(* The calls.                                                              *)

LEMMA HandlerTyped ==
  ASSUME Inv, NEW w \in Workers
  PROVE  Typed(req[w]) /\ HandlersTyped
BY DEF Inv, TypeOK, HandlersSane, HandlersTyped, Typed

(* A call that only goes on, or throws.                                    *)
LEMMA QuietCallInv ==
  ASSUME Inv, NEW w \in Workers, NEW r, Typed(r), r.todo # <<>>,
         (Goes(w, r) /\ UNCHANGED cause) \/ Throw(w),
         UNCHANGED <<row, session, queue, trail, admitted>>
  PROVE  Inv'
<1>1. HandlersTyped' /\ cause' \in [Users -> SUBSET Causes]
  BY GoesTyped, ThrowTyped, HandlerTyped DEF Inv, TypeOK
<1>2. QED
  BY <1>1 DEF HandlersTyped, Inv, TypeOK

LEMMA FetchOldInv == ASSUME Inv, NEW w \in Workers, FetchOld(w) PROVE Inv'
<1> DEFINE old == [u \in req[w].users |-> View(row[u])]
           r == [req[w] EXCEPT !.old = old]
<1>1. Typed(req[w]) /\ req[w].todo # <<>>
  BY HandlerTyped DEF FetchOld, At
<1>2. old \in Olds
  <2>1. req[w].users \in SUBSET Users
    BY <1>1 DEF Typed, Handlers
  <2>2. old \in [req[w].users -> Views]
    BY <2>1, ViewTyped DEF Inv, TypeOK
  <2>3. QED
    BY <2>1, <2>2 DEF Olds
<1>3. r \in Handlers /\ r.todo = req[w].todo /\ r.users = req[w].users /\ r.op = req[w].op
  BY <1>1, <1>2 DEF Typed, Handlers
<1>4. Typed(r)
  BY <1>1, <1>3, SaneElsewhere DEF Typed
<1>5. QED
  BY <1>1, <1>3, <1>4, QuietCallInv DEF FetchOld

(* Of the accounts of a handler that still has calls there is one.         *)
LEMMA SomeUser ==
  ASSUME Inv, NEW w \in Workers, req[w].todo # <<>>
  PROVE  req[w].users \subseteq Users /\ \E u \in req[w].users : TRUE
BY HandlerTyped DEF Typed, Handlers, Sane

LEMMA FindInv == ASSUME Inv, NEW w \in Workers, Find(w) PROVE Inv'
<1> DEFINE skip == [req[w] EXCEPT !.todo = Tail(@)]
<1>1. Typed(req[w]) /\ req[w].todo # <<>>
  BY HandlerTyped DEF Find, At
<1>2. PICK u \in req[w].users : u \in Users
  BY <1>1, SomeUser
<1>3. \/ Throw(w)
      \/ Goes(w, skip) /\ UNCHANGED cause
      \/ Goes(w, req[w]) /\ UNCHANGED cause
  BY <1>2 DEF Find
<1>4. UNCHANGED <<row, session, queue, trail, admitted>>
  BY DEF Find
<1>5. ASSUME (Goes(w, req[w]) /\ UNCHANGED cause) \/ Throw(w) PROVE Inv'
  BY <1>1, <1>4, <1>5, QuietCallInv
<1>6. ASSUME Goes(w, skip) /\ UNCHANGED cause PROVE Inv'
  <2>1. Typed(skip)
    BY <1>1, TailSane DEF Typed
  <2>2. CASE skip.todo # <<>>
    BY <1>4, <1>6, <2>1, <2>2, QuietCallInv
  <2>3. CASE skip.todo = <<>>
    <3> HIDE DEF skip
    <3>1. Len(skip.todo) <= 1
      BY <2>3
    <3>2. After(skip) = Idle
      BY ONLY <3>1 DEF After
    <3>3. HandlersTyped'
      BY <1>6, <3>2, IdleTyped, ReplaceTyped, HandlerTyped DEF Goes, Typed
    <3>4. QED
      BY <1>4, <1>6, <3>3 DEF HandlersTyped, Inv, TypeOK
  <2>4. QED
    BY <2>2, <2>3
<1>7. QED
  BY <1>3, <1>5, <1>6

LEMMA CheckConflictInv == ASSUME Inv, NEW w \in Workers, CheckConflict(w) PROVE Inv'
<1>1. Typed(req[w]) /\ req[w].todo # <<>>
  BY HandlerTyped DEF CheckConflict, At
<1>2. QED
  BY <1>1, QuietCallInv DEF CheckConflict

LEMMA ValidateInv == ASSUME Inv, NEW w \in Workers, Validate(w) PROVE Inv'
<1>1. Typed(req[w]) /\ req[w].todo # <<>>
  BY HandlerTyped DEF Validate, At
<1>2. QED
  BY <1>1, SomeUser, QuietCallInv DEF Validate

LEMMA RereadInv == ASSUME Inv, NEW w \in Workers, Reread(w) PROVE Inv'
<1>1. Typed(req[w]) /\ req[w].todo # <<>>
  BY HandlerTyped DEF Reread, At
<1>2. PICK u \in req[w].users : u \in Users
  BY <1>1, SomeUser
<1> DEFINE r == [req[w] EXCEPT !.result = {View(row[u])}]
<1>3. View(row[u]) \in Views
  BY <1>2, ViewTyped DEF Inv, TypeOK
<1>4. r \in Handlers /\ r.todo = req[w].todo /\ r.users = req[w].users /\ r.op = req[w].op
  BY <1>1, <1>3 DEF Typed, Handlers
<1>5. Typed(r)
  BY <1>1, <1>4, SaneElsewhere DEF Typed
<1>6. QED
  BY <1>1, <1>2, <1>4, <1>5, QuietCallInv DEF Reread

(* A row is written to, or the handler throws.                             *)
LEMMA WriteCallInv ==
  ASSUME Inv, NEW w \in Workers, req[w].todo # <<>>,
         NEW S \in SUBSET Users, NEW why \in SUBSET Causes,
         \/ row' \in [Users -> Rows] /\ Writes(w, S, why)
         \/ Throw(w) /\ UNCHANGED row,
         UNCHANGED <<session, queue, trail, admitted>>
  PROVE  Inv'
<1>1. HandlersTyped' /\ cause' \in [Users -> SUBSET Causes]
  BY WritesTyped, ThrowTyped DEF Inv
<1>2. row' \in [Users -> Rows]
  BY DEF Inv, TypeOK
<1>3. QED
  BY <1>1, <1>2 DEF HandlersTyped, Inv, TypeOK

LEMMA InsertInv == ASSUME Inv, NEW w \in Workers, Insert(w) PROVE Inv'
<1>1. Typed(req[w]) /\ req[w].todo # <<>>
  BY HandlerTyped DEF Insert, At
<1>2. PICK u \in req[w].users : u \in Users
  BY <1>1, SomeUser
<1>3. [row EXCEPT ![u] = req[w].arg] \in [Users -> Rows]
  BY <1>1, <1>2 DEF Inv, TypeOK, Typed, Handlers
<1>4. QED
  <2>1. \/ row' \in [Users -> Rows] /\ Writes(w, {u}, {})
        \/ Throw(w) /\ UNCHANGED row
    BY <1>2, <1>3 DEF Insert
  <2>2. UNCHANGED <<session, queue, trail, admitted>>
    BY DEF Insert
  <2>3. {u} \in SUBSET Users /\ {} \in SUBSET Causes
    BY <1>2
  <2>4. QED
    BY <1>1, <2>1, <2>2, <2>3, WriteCallInv

(* What an update writes into a row, by its method.                        *)
LEMMA WrittenTyped ==
  ASSUME NEW r \in Handlers, NEW found \in Rows, r.op \in Updaters
  PROVE  Written(r, found) \in Rows /\ Written(r, found).status = found.status
<1>1. r.arg \in Rows
  BY DEF Handlers
<1>2. CASE r.op = "update"
  BY <1>1, <1>2 DEF Written, Rows
<1>3. CASE r.op \in {"change", "reset"}
  BY <1>1, <1>3 DEF Written, Rows
<1>4. CASE r.op \in {"activate", "status"}
  BY <1>1, <1>4 DEF Written, Rows
<1>5. CASE r.op = "verify"
  BY <1>1, <1>5 DEF Written, Rows
<1>6. CASE r.op = "edit"
  BY <1>1, <1>6 DEF Written, Rows
<1>7. QED
  BY <1>2, <1>3, <1>4, <1>5, <1>6 DEF Updaters

(* The call at the head of those a handler still makes.                    *)
LEMMA AtAwaits ==
  ASSUME Inv, NEW w \in Workers, NEW call, At(w, call)
  PROVE  Awaits(req[w], call) /\ Len(req[w].todo) >= 1 /\ req[w].todo[1] = call
<1>1. req[w].todo \in Seq(Calls) /\ req[w].todo # <<>>
  BY HandlerTyped DEF At, Typed, Handlers
<1>2. 1 \in 1..Len(req[w].todo) /\ req[w].todo[1] = call
  BY <1>1 DEF At
<1>3. QED
  BY <1>2 DEF Awaits

LEMMA UpdateTyped ==
  ASSUME Inv, NEW w \in Workers, At(w, "update"), NEW u \in Users
  PROVE  Written(req[w], row[u]) \in Rows /\ Written(req[w], row[u]).status = row[u].status
<1>1. req[w].op \in Updaters /\ req[w] \in Handlers
  BY AtAwaits, HandlerTyped DEF Typed, Sane, SaneTodo, Fitting, Awaits
<1>2. row[u] \in Rows
  BY DEF Inv, TypeOK
<1>3. QED
  BY <1>1, <1>2, WrittenTyped

LEMMA UpdateRowInv == ASSUME Inv, NEW w \in Workers, UpdateRow(w) PROVE Inv'
<1>1. Typed(req[w]) /\ req[w].todo # <<>>
  BY HandlerTyped DEF UpdateRow, At
<1>2. PICK u \in req[w].users : u \in Users
  BY <1>1, SomeUser
<1>3. [row EXCEPT ![u] = Written(req[w], @)] \in [Users -> Rows]
  BY <1>2, UpdateTyped DEF Inv, TypeOK, UpdateRow
<1> DEFINE why == IF req[w].op \in {"status", "reset"} THEN {"unaudited"} ELSE {}
<1>4. why \in SUBSET Causes
  BY DEF Causes
<1>5. QED
  BY <1>1, <1>2, <1>3, <1>4, WriteCallInv DEF UpdateRow

(* A deleted row keeps its columns.                                        *)
LEMMA DeletedTyped ==
  ASSUME Inv, NEW u \in Users
  PROVE  [row[u] EXCEPT !.status = "deleted"] \in Rows
BY DEF Inv, TypeOK, Rows, Status

LEMMA DeleteRowInv == ASSUME Inv, NEW w \in Workers, DeleteRow(w) PROVE Inv'
<1>1. Typed(req[w]) /\ req[w].todo # <<>>
  BY HandlerTyped DEF DeleteRow, At
<1>2. PICK u \in req[w].users : u \in Users
  BY <1>1, SomeUser
<1>3. [row EXCEPT ![u].status = "deleted"] \in [Users -> Rows]
  BY <1>2, DeletedTyped DEF Inv, TypeOK
<1>4. QED
  <2>1. \/ row' \in [Users -> Rows] /\ Writes(w, {u}, {})
        \/ Throw(w) /\ UNCHANGED row
    BY <1>2, <1>3 DEF DeleteRow
  <2>2. UNCHANGED <<session, queue, trail, admitted>>
    BY DEF DeleteRow
  <2>3. {u} \in SUBSET Users /\ {} \in SUBSET Causes
    BY <1>2
  <2>4. QED
    BY <1>1, <2>1, <2>2, <2>3, WriteCallInv

LEMMA DeleteManyInv == ASSUME Inv, NEW w \in Workers, DeleteMany(w) PROVE Inv'
<1> DEFINE S == {u \in req[w].users : Live(u)}
<1>1. Typed(req[w]) /\ req[w].todo # <<>>
  BY HandlerTyped DEF DeleteMany, At
<1>2. S \in SUBSET Users /\ {"batch"} \in SUBSET Causes
  BY <1>1, SomeUser DEF Causes
<1>3. [u \in Users |-> IF u \in S THEN [row[u] EXCEPT !.status = "deleted"]
                                  ELSE row[u]] \in [Users -> Rows]
  BY DeletedTyped DEF Inv, TypeOK
<1>4. QED
  BY <1>1, <1>2, <1>3, WriteCallInv DEF DeleteMany

LEMMA RevokeInv == ASSUME Inv, NEW w \in Workers, RevokeAllUserSessions(w) PROVE Inv'
<1>1. Typed(req[w]) /\ req[w].todo # <<>>
  BY HandlerTyped DEF RevokeAllUserSessions, At
<1>2. HandlersTyped'
  BY <1>1, GoesTyped, HandlerTyped DEF RevokeAllUserSessions
<1>3. session' \in SUBSET Sessions
  BY DEF RevokeAllUserSessions, Inv, TypeOK
<1>4. QED
  BY <1>2, <1>3 DEF RevokeAllUserSessions, HandlersTyped, Inv, TypeOK

LEMMA OpenInv == ASSUME Inv, NEW w \in Workers, Open(w) PROVE Inv'
<1>1. Typed(req[w]) /\ req[w].todo # <<>>
  BY HandlerTyped DEF Open, At
<1>2. HandlersTyped'
  BY <1>1, GoesTyped, HandlerTyped DEF Open
<1>3. session' \in SUBSET Sessions
  <2>1. req[w].guess \in Passwords /\ req[w].users \subseteq Users
    BY <1>1 DEF Typed, Handlers
  <2>2. ASSUME NEW u \in req[w].users
        PROVE  [user |-> u, password |-> req[w].guess,
                late |-> row[u].password # req[w].guess] \in Sessions
    BY <2>1 DEF Sessions
  <2>3. QED
    BY <2>2 DEF Open, Inv, TypeOK
<1>4. QED
  BY <1>2, <1>3 DEF Open, HandlersTyped, Inv, TypeOK

LEMMA RecordInv == ASSUME Inv, NEW w \in Workers, Record(w) PROVE Inv'
<1>1. Typed(req[w]) /\ req[w].todo # <<>>
  BY HandlerTyped DEF Record, At
<1>2. HandlersTyped'
  BY <1>1, GoesTyped, HandlerTyped DEF Record
<1>3. queue' \in SUBSET Records
  <2>1. /\ req[w].op \in Operations /\ req[w].users \in SUBSET Users
        /\ req[w].old \in Olds /\ req[w].result \in SUBSET Views
    BY <1>1 DEF Typed, Handlers, Sane
  <2>2. QED
    BY <2>1 DEF Record, Action, Operations, Inv, TypeOK, Records
<1>4. QED
  BY <1>2, <1>3 DEF Record, HandlersTyped, Inv, TypeOK

LEMMA NextInv == Inv /\ [Next]_vars => Inv'
<1> SUFFICES ASSUME Inv, [Next]_vars PROVE Inv'
  OBVIOUS
<1>1. ASSUME NEW w \in Workers, Call(w) PROVE Inv'
  BY <1>1, FetchOldInv, FindInv, CheckConflictInv, InsertInv, UpdateRowInv,
     DeleteRowInv, DeleteManyInv, RereadInv, RevokeInv, ValidateInv, OpenInv,
     RecordInv DEF Call
<1>2. ASSUME NEW w \in Workers, Fail(w) PROVE Inv'
  BY <1>2, ThrowTyped DEF Fail, HandlersTyped, Inv, TypeOK
<1>3. ASSUME NEW r \in queue, WriteRecord(r) PROVE Inv'
  BY <1>3 DEF WriteRecord, Inv, TypeOK, HandlersSane
<1>4. ASSUME NEW r \in queue, LoseRecord(r) PROVE Inv'
  BY <1>4 DEF LoseRecord, Inv, TypeOK, HandlersSane, Causes
<1>5. CASE UNCHANGED vars
  BY <1>5 DEF vars, Inv, TypeOK, HandlersSane
<1>6. QED
  BY <1>1, <1>2, <1>3, <1>4, <1>5, RequestInv DEF Next

(* Rows, sessions, handlers and records keep their types, and no handler   *)
(* updates a row for a method that does not (users.service).               *)
THEOREM TypeCorrect == Spec => []TypeOK
<1>1. Inv => TypeOK
  BY DEF Inv
<1>2. QED
  BY <1>1, InitInv, NextInv, PTL DEF Spec

-----------------------------------------------------------------------------
(* Which calls write which rows.                                           *)

LEMMA QuietCalls ==
  ASSUME NEW w \in Workers,
         \/ FetchOld(w) \/ Find(w) \/ CheckConflict(w) \/ Reread(w) \/ Validate(w)
         \/ RevokeAllUserSessions(w) \/ Open(w) \/ Record(w) \/ Fail(w)
  PROVE  UNCHANGED row
BY DEF FetchOld, Find, CheckConflict, Reread, Validate, RevokeAllUserSessions, Open,
       Record, Fail

LEMMA InsertWrites ==
  ASSUME Inv, NEW w \in Workers, Insert(w)
  PROVE  \/ UNCHANGED row
         \/ \E u \in req[w].users : /\ u \in Users /\ Free(req[w].arg.name, u)
                                    /\ row' = [row EXCEPT ![u] = req[w].arg]
<1>1. PICK u \in req[w].users : u \in Users
  BY SomeUser DEF Insert, At
<1>2. QED
  BY <1>1 DEF Insert

LEMMA UpdateWrites ==
  ASSUME Inv, NEW w \in Workers, UpdateRow(w)
  PROVE  \/ UNCHANGED row
         \/ \E u \in req[w].users :
              /\ u \in Users /\ Live(u) /\ Free(Written(req[w], row[u]).name, u)
              /\ row' = [row EXCEPT ![u] = Written(req[w], @)]
<1>1. PICK u \in req[w].users : u \in Users
  BY SomeUser DEF UpdateRow, At
<1>2. QED
  BY <1>1 DEF UpdateRow, Affected

\* The rows when those of S have been deleted.
Without(S) == [u \in Users |-> IF u \in S THEN [row[u] EXCEPT !.status = "deleted"]
                                          ELSE row[u]]

LEMMA DeleteWrites ==
  ASSUME Inv, NEW w \in Workers, DeleteRow(w) \/ DeleteMany(w)
  PROVE  \E S \in SUBSET Users : (\A u \in S : Live(u)) /\ row' = Without(S)
<1>1. row = Without({})
  BY DEF Without, Inv, TypeOK
<1>2. CASE UNCHANGED row
  <2>1. row' = Without({}) /\ {} \in SUBSET Users
    BY <1>1, <1>2
  <2>2. QED
    BY <2>1
<1>3. CASE DeleteRow(w) /\ row' # row
  <2>1. PICK u \in req[w].users : u \in Users
    BY <1>3, SomeUser DEF DeleteRow, At
  <2>2. Live(u) /\ row' = [row EXCEPT ![u].status = "deleted"]
    BY <1>3, <2>1 DEF DeleteRow, Affected
  <2>3. row' = Without({u}) /\ {u} \in SUBSET Users
    BY <2>1, <2>2 DEF Without, Inv, TypeOK
  <2>4. QED
    BY <2>2, <2>3
<1>4. CASE DeleteMany(w) /\ row' # row
  <2> DEFINE S == {u \in req[w].users : Live(u)}
  <2>1. S \in SUBSET Users /\ \A u \in S : Live(u)
    BY <1>4, SomeUser DEF DeleteMany, At
  <2>2. row' = Without(S)
    BY <1>4 DEF DeleteMany, Without
  <2> HIDE DEF S
  <2>3. QED
    BY <2>1, <2>2
<1>5. QED
  BY <1>2, <1>3, <1>4

LEMMA OtherSteps ==
  ASSUME [Next]_vars
  PROVE  \/ UNCHANGED row
         \/ \E w \in Workers : Insert(w) \/ UpdateRow(w) \/ DeleteRow(w) \/ DeleteMany(w)
<1>1. ASSUME NEW w \in Workers, Request(w) PROVE UNCHANGED row
  BY <1>1 DEF Request, Remove, VerifyUser, Update, UpdateProfile, UpdateUserStatus,
              ResetUserPassword, Login, ChangePassword, Create, BatchDelete, Begin
<1>2. ASSUME NEW r, WriteRecord(r) \/ LoseRecord(r) PROVE UNCHANGED row
  BY <1>2 DEF WriteRecord, LoseRecord
<1>3. CASE UNCHANGED vars
  BY <1>3 DEF vars
<1>4. QED
  BY <1>1, <1>2, <1>3, QuietCalls DEF Next, Call

-----------------------------------------------------------------------------
(* Names.                                                                  *)

LEMMA InitNames == Init => NamesUnique
<1> SUFFICES ASSUME Init PROVE NamesUnique
  OBVIOUS
<1>1. NoRow.status = "absent"
  BY DEF NoRow
<1>2. CASE row = [u \in Users |-> NoRow]
  BY <1>1, <1>2 DEF NamesUnique, Known
<1>3. ASSUME NEW u \in Users, \A v \in Users \ {u} : row[v] = NoRow
      PROVE  NamesUnique
  BY <1>1, <1>3 DEF NamesUnique, Known
<1>4. QED
  BY <1>2, <1>3 DEF Init

(* A row that was not there, or was, takes a name no other row has.        *)
LEMMA TakesFree ==
  ASSUME Inv, NamesUnique, NEW u \in Users, NEW r \in Rows, Free(r.name, u),
         row' = [row EXCEPT ![u] = r]
  PROVE  NamesUnique'
<1>1. \A v \in Users : row'[v] = IF v = u THEN r ELSE row[v]
  BY DEF Inv, TypeOK
<1>2. SUFFICES ASSUME NEW x \in Users, NEW y \in Users,
                      row'[x].status # "absent", row'[y].status # "absent",
                      row'[x].name = row'[y].name
               PROVE  x = y
  BY DEF NamesUnique, Known
<1>3. CASE x # u /\ y # u
  BY <1>1, <1>2, <1>3 DEF NamesUnique, Known
<1>4. CASE x = u \/ y = u
  BY <1>1, <1>2, <1>4 DEF Free, Known
<1>5. QED
  BY <1>3, <1>4

LEMMA NextNames == Inv /\ NamesUnique /\ [Next]_vars => NamesUnique'
<1> SUFFICES ASSUME Inv, NamesUnique, [Next]_vars PROVE NamesUnique'
  OBVIOUS
<1>1. CASE UNCHANGED row
  BY <1>1 DEF NamesUnique, Known
<1>2. ASSUME NEW w \in Workers, Insert(w) PROVE NamesUnique'
  <2>1. req[w].arg \in Rows
    BY HandlerTyped DEF Typed, Handlers
  <2>2. QED
    BY <1>1, <1>2, <2>1, InsertWrites, TakesFree
<1>3. ASSUME NEW w \in Workers, UpdateRow(w) PROVE NamesUnique'
  <2>1. ASSUME NEW u \in Users PROVE Written(req[w], row[u]) \in Rows
    BY <1>3, UpdateTyped DEF UpdateRow
  <2>2. QED
    BY <1>1, <1>3, <2>1, UpdateWrites, TakesFree
<1>4. ASSUME NEW w \in Workers, DeleteRow(w) \/ DeleteMany(w) PROVE NamesUnique'
  <2>1. \A u \in Users : row[u] \in Rows
    BY DEF Inv, TypeOK
  <2>2. \A u \in Users : /\ row'[u].name = row[u].name
                         /\ row'[u].status # "absent" => row[u].status # "absent"
    BY <1>4, <2>1, DeleteWrites DEF Without, Rows, Live
  <2>3. QED
    BY <2>2 DEF NamesUnique, Known
<1>5. QED
  BY <1>1, <1>2, <1>3, <1>4, OtherSteps

(* However registrations and renamings overlap between the check of the    *)
(* name and the write, no two rows ever share a name, deleted rows         *)
(* included (checkConflict and the unique indexes).                        *)
THEOREM NamesStayUnique == Spec => []NamesUnique
<1> DEFINE IInv == Inv /\ NamesUnique
<1>1. Init => IInv
  BY InitInv, InitNames
<1>2. IInv /\ [Next]_vars => IInv'
  BY NextInv, NextNames
<1>3. QED
  BY <1>1, <1>2, PTL DEF Spec

-----------------------------------------------------------------------------
(* Deletion.                                                               *)

\* The id of an account that is being created is known to its handler only.
Reserved ==
  \A w \in Workers : Awaits(req[w], "insert") =>
    \A u \in req[w].users :
      /\ row[u].status = "absent"
      /\ \A v \in Workers \ {w} : u \notin req[v].users

LEMMA InitReserved == Init => Reserved
BY IdleTyped DEF Init, Reserved, Awaits

(* What a call or a failure of one handler does to the requests in flight. *)
Same(r, s) ==
  /\ s.todo = r.todo /\ s.users = r.users /\ s.op = r.op
  /\ s.committed = r.committed /\ s.arg = r.arg
  /\ r.disturbed => s.disturbed

\* The handler has gone on: by one call, or by two past a check it can skip.
GoneOn(r, s) ==
  /\ s.users = r.users /\ s.op = r.op /\ s.arg = r.arg
  /\ r.committed => s.committed
  /\ r.disturbed => s.disturbed
  /\ \/ s.todo = Tail(r.todo)
     \/ r.op \in {"update", "edit"} /\ s.todo = Tail(Tail(r.todo)) /\ Len(r.todo) > 1

Moves(w) ==
  /\ \A v \in Workers \ {w} : Same(req[v], req'[v])
  /\ \/ Throw(w)
     \/ req'[w] = Idle /\ (Len(req[w].todo) <= 1 \/ req[w].op \in {"update", "edit"})
     \/ GoneOn(req[w], req'[w])

LEMMA SameSelf == \A r : Same(r, r)
BY DEF Same

LEMMA ThrowMoves ==
  ASSUME Inv, NEW w \in Workers, Throw(w)
  PROVE  Moves(w)
<1>1. \A v \in Workers \ {w} : req'[v] = req[v]
  BY DEF Throw, Inv, TypeOK
<1>2. QED
  BY <1>1, SameSelf DEF Moves

LEMMA GoesMoves ==
  ASSUME Inv, NEW w \in Workers, NEW r \in Handlers, Same(req[w], r), Goes(w, r)
  PROVE  Moves(w)
<1>1. /\ \A v \in Workers \ {w} : req'[v] = req[v]
      /\ req'[w] = After(r)
  BY DEF Goes, Inv, TypeOK
<1>2. CASE Len(r.todo) <= 1
  BY <1>1, <1>2, SameSelf DEF Moves, After, Same
<1>3. CASE ~(Len(r.todo) <= 1)
  <2>1. /\ After(r).todo = Tail(r.todo) /\ After(r).users = r.users /\ After(r).op = r.op
        /\ After(r).committed = r.committed /\ After(r).disturbed = r.disturbed
        /\ After(r).arg = r.arg
    BY <1>3 DEF After, Handlers
  <2>2. GoneOn(req[w], req'[w])
    BY <1>1, <2>1 DEF GoneOn, Same
  <2>3. QED
    BY <1>1, <2>2, SameSelf DEF Moves
<1>4. QED
  BY <1>2, <1>3

LEMMA WritesMoves ==
  ASSUME Inv, NEW w \in Workers, NEW S, NEW why, Writes(w, S, why)
  PROVE  Moves(w)
<1> DEFINE c == [req[w] EXCEPT !.committed = TRUE]
           d(v) == [req[v] EXCEPT !.disturbed = @ \/ req[v].users \intersect S # {}]
<1>1. req' = [v \in Workers |-> IF v = w THEN After(c) ELSE d(v)]
  BY DEF Writes
<1>2. ASSUME NEW v \in Workers PROVE Same(req[v], d(v))
  BY HandlerTyped DEF Typed, Handlers, Same
<1>3. /\ c.todo = req[w].todo /\ c.users = req[w].users /\ c.op = req[w].op
      /\ c.committed /\ c.disturbed = req[w].disturbed /\ c \in Handlers
      /\ c.arg = req[w].arg
  BY HandlerTyped DEF Typed, Handlers
<1>4. CASE Len(c.todo) <= 1
  <2>1. After(c) = Idle
    BY <1>4 DEF After
  <2>2. QED
    BY <1>1, <1>2, <1>3, <1>4, <2>1 DEF Moves
<1>5. CASE ~(Len(c.todo) <= 1)
  <2>1. /\ After(c).todo = Tail(c.todo) /\ After(c).users = c.users /\ After(c).op = c.op
        /\ After(c).committed = c.committed /\ After(c).disturbed = c.disturbed
        /\ After(c).arg = c.arg
    BY <1>3, <1>5 DEF After, Handlers
  <2>2. GoneOn(req[w], After(c))
    BY <1>3, <2>1 DEF GoneOn
  <2>3. QED
    BY <1>1, <1>2, <2>2 DEF Moves
<1>6. QED
  BY <1>4, <1>5

LEMMA CallMoves ==
  ASSUME Inv, NEW w \in Workers, Call(w) \/ Fail(w)
  PROVE  Moves(w)
<1>1. req[w] \in Handlers /\ Sane(req[w]) /\ req[w].todo # <<>>
  BY HandlerTyped DEF Typed, Call, FetchOld, Find, CheckConflict, Reread, Validate,
     RevokeAllUserSessions, Open, Record, Insert, UpdateRow, DeleteRow, DeleteMany, Fail, At
<1>2. PICK u \in req[w].users : u \in Users
  BY <1>1, SomeUser
<1>3. ASSUME Goes(w, req[w]) \/ Throw(w) PROVE Moves(w)
  BY <1>1, <1>3, GoesMoves, ThrowMoves, SameSelf
<1>4. CASE FetchOld(w)
  <2> DEFINE old == [x \in req[w].users |-> View(row[x])]
             r == [req[w] EXCEPT !.old = old]
  <2>1. old \in Olds
    <3>1. req[w].users \in SUBSET Users
      BY <1>1 DEF Handlers
    <3>2. old \in [req[w].users -> Views]
      BY <3>1, ViewTyped DEF Inv, TypeOK
    <3>3. QED
      BY <3>1, <3>2 DEF Olds
  <2>2. r \in Handlers /\ Same(req[w], r)
    BY <1>1, <2>1 DEF Handlers, Same
  <2>3. QED
    BY <1>4, <2>2, GoesMoves DEF FetchOld
<1>5. CASE Find(w)
  <2> DEFINE skip == [req[w] EXCEPT !.todo = Tail(@)]
  <2>1. \/ Goes(w, skip) /\ req[w].op \in {"update", "edit"}
        \/ Goes(w, req[w]) \/ Throw(w)
    BY <1>2, <1>5 DEF Find
  <2>2. ASSUME Goes(w, skip), req[w].op \in {"update", "edit"} PROVE Moves(w)
    <3>1. /\ \A v \in Workers \ {w} : req'[v] = req[v]
          /\ req'[w] = After(skip)
      BY <2>2 DEF Goes, Inv, TypeOK
    <3>2. /\ skip \in Handlers /\ skip.todo = Tail(req[w].todo)
          /\ skip.users = req[w].users /\ skip.op = req[w].op
          /\ skip.committed = req[w].committed /\ skip.disturbed = req[w].disturbed
          /\ skip.arg = req[w].arg
      BY <1>1, TailSane DEF Handlers
    <3> HIDE DEF skip
    <3>3. CASE Len(skip.todo) <= 1
      BY <2>2, <3>1, <3>3, SameSelf DEF Moves, After
    <3>4. CASE ~(Len(skip.todo) <= 1)
      <4>1. /\ After(skip).todo = Tail(skip.todo) /\ After(skip).users = skip.users
            /\ After(skip).op = skip.op /\ After(skip).committed = skip.committed
            /\ After(skip).disturbed = skip.disturbed
            /\ After(skip).arg = skip.arg
        BY <3>2, <3>4 DEF After, Handlers
      <4>2. Len(req[w].todo) > 1
        <5>1. req[w].todo \in Seq(Calls)
          BY <1>1 DEF Handlers
        <5>2. QED
          BY <1>1, <3>2, <3>4, <5>1
      <4>3. GoneOn(req[w], req'[w])
        BY <2>2, <3>1, <3>2, <4>1, <4>2 DEF GoneOn
      <4>4. QED
        BY <3>1, <4>3, SameSelf DEF Moves
    <3>5. QED
      BY <3>3, <3>4
  <2>3. QED
    BY <1>3, <2>1, <2>2
<1>6. CASE Reread(w)
  <2> DEFINE r == [req[w] EXCEPT !.result = {View(row[u])}]
  <2>1. View(row[u]) \in Views
    BY <1>2, ViewTyped DEF Inv, TypeOK
  <2>2. r \in Handlers /\ Same(req[w], r)
    BY <1>1, <2>1 DEF Handlers, Same
  <2>3. Goes(w, r) \/ Throw(w)
    BY <1>2, <1>6 DEF Reread
  <2>4. QED
    BY <1>3, <2>2, <2>3, GoesMoves
<1>7. CASE Validate(w) \/ CheckConflict(w)
  BY <1>2, <1>3, <1>7 DEF Validate, CheckConflict
<1>8. CASE RevokeAllUserSessions(w) \/ Open(w) \/ Record(w) \/ Fail(w)
  BY <1>3, <1>8 DEF RevokeAllUserSessions, Open, Record, Fail
<1>9. CASE Insert(w) \/ UpdateRow(w) \/ DeleteRow(w) \/ DeleteMany(w)
  <2>1. Throw(w) \/ \E S, why : Writes(w, S, why)
    BY <1>2, <1>9 DEF Insert, UpdateRow, DeleteRow, DeleteMany
  <2>2. QED
    BY <2>1, ThrowMoves, WritesMoves
<1>10. QED
  BY <1>4, <1>5, <1>6, <1>7, <1>8, <1>9 DEF Call

(* A call that is still to be made was so before, and was not the last one *)
(* made.                                                                   *)
LEMMA MovesAwaits ==
  ASSUME Inv, NEW w \in Workers, Moves(w), req[w].todo # <<>>, NEW call,
         Awaits(req'[w], call)
  PROVE  /\ GoneOn(req[w], req'[w])
         /\ Awaits(req[w], call) /\ req[w].todo[1] # call
<1>1. GoneOn(req[w], req'[w])
  <2>1. ~Awaits(Idle, call)
    BY IdleTyped DEF Awaits
  <2>2. Throw(w) => req'[w] = Idle
    BY DEF Throw, Inv, TypeOK
  <2>3. QED
    BY <2>1, <2>2 DEF Moves
<1>2. SaneTodo(req[w].op, req[w].todo) /\ req[w].todo \in Seq(Calls)
  BY HandlerTyped DEF Typed, Handlers, Sane
<1>3. PICK k \in 2..Len(req[w].todo) : req[w].todo[k] = call
  <2>1. CASE req'[w].todo = Tail(req[w].todo)
    <3>1. PICK i \in 1..Len(Tail(req[w].todo)) : Tail(req[w].todo)[i] = call
      BY <2>1 DEF Awaits
    <3>2. i + 1 \in 2..Len(req[w].todo) /\ req[w].todo[i + 1] = call
      BY <1>2, <3>1
    <3>3. QED
      BY <3>2
  <2>2. CASE req'[w].todo = Tail(Tail(req[w].todo)) /\ Len(req[w].todo) > 1
    <3>1. PICK i \in 1..Len(Tail(Tail(req[w].todo))) :
             Tail(Tail(req[w].todo))[i] = call
      BY <2>2 DEF Awaits
    <3>2. /\ Tail(req[w].todo) \in Seq(Calls)
          /\ Len(Tail(req[w].todo)) = Len(req[w].todo) - 1
      BY <1>2, <2>2
    <3>3. /\ i + 1 \in 1..Len(Tail(req[w].todo))
          /\ Tail(Tail(req[w].todo))[i] = Tail(req[w].todo)[i + 1]
      BY <1>2, <2>2, <3>1, <3>2
    <3>4. i + 2 \in 2..Len(req[w].todo) /\ Tail(req[w].todo)[i + 1] = req[w].todo[i + 2]
      BY <1>2, <2>2, <3>2, <3>3
    <3>5. QED
      BY <3>1, <3>3, <3>4
  <2>3. QED
    BY <1>1, <2>1, <2>2 DEF GoneOn
<1>4. k \in 1..Len(req[w].todo) /\ 1 \in 1..Len(req[w].todo) /\ k # 1
  BY <1>2, <1>3
<1>5. QED
  BY <1>1, <1>2, <1>3, <1>4 DEF SaneTodo, Awaits

\* The rows that are not there are left alone.
NothingBorn ==
  \A u \in Users : row[u].status = "absent" => row'[u].status = "absent"

LEMMA KeepsReserved ==
  ASSUME Inv, Reserved, NothingBorn, NEW w \in Workers, Call(w) \/ Fail(w)
  PROVE  Reserved'
<1>1. Moves(w) /\ req[w].todo # <<>>
  BY CallMoves DEF Call, FetchOld, Find, CheckConflict, Reread, Validate,
     RevokeAllUserSessions, Open, Record, Insert, UpdateRow, DeleteRow, DeleteMany, Fail, At
<1>2. ASSUME NEW v \in Workers PROVE req'[v].users \subseteq req[v].users
  <2>1. Throw(w) => req'[w] = Idle
    BY DEF Throw, Inv, TypeOK
  <2>2. QED
    BY <1>1, <2>1, IdleTyped DEF Moves, Same, GoneOn
<1>3. ASSUME NEW v \in Workers, Awaits(req'[v], "insert") PROVE Awaits(req[v], "insert")
  <2>1. CASE v = w
    BY <1>1, <1>3, <2>1, MovesAwaits
  <2>2. CASE v # w
    BY <1>1, <1>3, <2>2 DEF Moves, Same, Awaits
  <2>3. QED
    BY <2>1, <2>2
<1>4. SUFFICES ASSUME NEW x \in Workers, Awaits(req'[x], "insert"),
                      NEW u \in req'[x].users
               PROVE  /\ row'[u].status = "absent"
                      /\ \A v \in Workers \ {x} : u \notin req'[v].users
  BY DEF Reserved, Awaits
<1>5. Awaits(req[x], "insert") /\ u \in req[x].users /\ u \in Users
  BY <1>2, <1>3, <1>4, HandlerTyped DEF Typed, Handlers
<1>6. QED
  BY <1>2, <1>5 DEF Reserved, NothingBorn

(* A request takes up accounts that are there, or an id nobody has.        *)
LEMMA RequestReserved ==
  ASSUME Inv, Reserved, NEW w \in Workers, Request(w)
  PROVE  Reserved'
<1>1. ASSUME NEW op, NEW S, NEW arg, NEW guess, NEW todo, Begin(w, op, S, arg, guess, todo)
      PROVE  /\ \A v \in Workers \ {w} : req'[v] = req[v]
             /\ req'[w].users = S /\ req'[w].todo = todo /\ UNCHANGED row
  <2> DEFINE r == [Idle EXCEPT !.op = op, !.users = S, !.arg = arg, !.guess = guess,
                               !.todo = todo]
  <2>1. r.users = S /\ r.todo = todo
    BY DEF Idle
  <2>2. req' = [req EXCEPT ![w] = r] /\ UNCHANGED row
    BY <1>1 DEF Begin
  <2>3. QED
    BY <2>1, <2>2 DEF Inv, TypeOK
<1>2. ASSUME NEW op, NEW S, NEW arg, NEW guess, NEW todo, Begin(w, op, S, arg, guess, todo),
             \A u \in S : Known(u), \A i \in 1..Len(todo) : todo[i] # "insert"
      PROVE  Reserved'
  <2>1. SUFFICES ASSUME NEW x \in Workers, Awaits(req'[x], "insert"),
                        NEW u \in req'[x].users
                 PROVE  /\ row'[u].status = "absent"
                        /\ \A v \in Workers \ {x} : u \notin req'[v].users
    BY DEF Reserved, Awaits
  <2>2. x # w
    BY <1>1, <1>2, <2>1 DEF Awaits
  <2>3. /\ row[u].status = "absent"
        /\ \A v \in Workers \ {x} : u \notin req[v].users
    BY <1>1, <1>2, <2>1, <2>2 DEF Reserved, Awaits
  <2>4. u \notin S
    BY <1>2, <2>3 DEF Known
  <2>5. QED
    BY <1>1, <1>2, <2>3, <2>4
<1>3. ASSUME NEW u \in Users, NEW n \in Names, NEW p \in Passwords, Create(w, u, n, p)
      PROVE  Reserved'
  <2>1. /\ \A v \in Workers \ {w} : req'[v] = req[v]
        /\ req'[w].users = {u} /\ UNCHANGED row
    BY <1>1, <1>3 DEF Create
  <2>2. row[u].status = "absent" /\ \A v \in Workers : u \notin req[v].users
    BY <1>3 DEF Create
  <2>3. QED
    BY <2>1, <2>2 DEF Reserved, Awaits
<1>4. ASSUME NEW u \in Users, Remove(w, u) \/ VerifyUser(w, u) PROVE Reserved'
  BY <1>2, <1>4 DEF Remove, VerifyUser
<1>5. ASSUME NEW u \in Users, NEW n \in Names, NEW b,
             Update(w, u, n, b) \/ UpdateProfile(w, u, n)
      PROVE  Reserved'
  BY <1>2, <1>5 DEF Update, UpdateProfile
<1>6. ASSUME NEW u \in Users, NEW b, UpdateUserStatus(w, u, b) PROVE Reserved'
  BY <1>2, <1>6 DEF UpdateUserStatus
<1>7. ASSUME NEW u \in Users, NEW p, ResetUserPassword(w, u, p) \/ Login(w, u, p)
      PROVE  Reserved'
  BY <1>2, <1>7 DEF ResetUserPassword, Login
<1>8. ASSUME NEW u \in Users, NEW g, NEW p, ChangePassword(w, u, g, p) PROVE Reserved'
  BY <1>2, <1>8 DEF ChangePassword
<1>9. ASSUME NEW S \in SUBSET Users, BatchDelete(w, S) PROVE Reserved'
  BY <1>2, <1>9 DEF BatchDelete
<1>10. QED
  BY <1>3, <1>4, <1>5, <1>6, <1>7, <1>8, <1>9 DEF Request

(* An insert that goes through uses up what its handler reserved.          *)
LEMMA InsertReserved ==
  ASSUME Inv, Reserved, NEW w \in Workers, Insert(w)
  PROVE  Reserved'
<1>1. /\ req[w].todo # <<>> /\ req[w].todo[1] = "insert" /\ Awaits(req[w], "insert")
      /\ Call(w) /\ Moves(w)
  BY AtAwaits, CallMoves DEF Insert, At, Call
<1>2. PICK u \in req[w].users : u \in Users
  BY <1>1, SomeUser
<1>3. CASE UNCHANGED row
  <2>1. NothingBorn
    BY <1>3 DEF NothingBorn
  <2>2. QED
    BY <1>1, <2>1, KeepsReserved
<1>4. CASE row' = [row EXCEPT ![u] = req[w].arg]
  <2>1. ~Awaits(req'[w], "insert")
    BY <1>1, MovesAwaits
  <2>2. \A x \in Users : x # u => row'[x] = row[x]
    BY <1>4 DEF Inv, TypeOK
  <2>3. SUFFICES ASSUME NEW x \in Workers, Awaits(req'[x], "insert"),
                        NEW t \in req'[x].users
                 PROVE  /\ row'[t].status = "absent"
                        /\ \A v \in Workers \ {x} : t \notin req'[v].users
    BY DEF Reserved, Awaits
  <2>4. x # w /\ Awaits(req[x], "insert") /\ t \in req[x].users /\ t \in Users
    BY <1>1, <2>1, <2>3, HandlerTyped DEF Moves, Same, Awaits, Typed, Handlers
  <2>5. row[t].status = "absent" /\ \A v \in Workers \ {x} : t \notin req[v].users
    BY <2>4 DEF Reserved
  <2>6. t # u
    BY <1>2, <2>4, <2>5
  <2>7. ASSUME NEW v \in Workers \ {x} PROVE t \notin req'[v].users
    <3>1. Throw(w) => req'[w] = Idle
      BY DEF Throw, Inv, TypeOK
    <3>2. req'[v].users \subseteq req[v].users
      BY <1>1, <3>1, IdleTyped DEF Moves, Same, GoneOn
    <3>3. QED
      BY <2>5, <3>2
  <2>8. QED
    BY <2>2, <2>4, <2>5, <2>6, <2>7
<1>5. QED
  BY <1>2, <1>3, <1>4 DEF Insert

(* Updates and deletions reach live rows only.                             *)
LEMMA LiveRowsOnly ==
  ASSUME Inv, NEW w \in Workers, UpdateRow(w) \/ DeleteRow(w) \/ DeleteMany(w)
  PROVE  \A u \in Users : ~Live(u) => row'[u] = row[u]
<1>1. CASE UpdateRow(w)
  BY <1>1, UpdateWrites DEF Inv, TypeOK
<1>2. CASE DeleteRow(w) \/ DeleteMany(w)
  BY <1>2, DeleteWrites DEF Without
<1>3. QED
  BY <1>1, <1>2

LEMMA NextReserved == Inv /\ Reserved /\ [Next]_vars => Reserved'
<1> SUFFICES ASSUME Inv, Reserved, [Next]_vars PROVE Reserved'
  OBVIOUS
<1>1. ASSUME UNCHANGED row, UNCHANGED req PROVE Reserved'
  BY <1>1 DEF Reserved
<1>2. ASSUME NEW w \in Workers, Call(w) \/ Fail(w), ~Insert(w) PROVE Reserved'
  <2>1. NothingBorn
    BY <1>2, QuietCalls, LiveRowsOnly DEF NothingBorn, Live, Call
  <2>2. QED
    BY <1>2, <2>1, KeepsReserved
<1>3. ASSUME NEW r, WriteRecord(r) \/ LoseRecord(r) PROVE Reserved'
  BY <1>1, <1>3 DEF WriteRecord, LoseRecord
<1>4. CASE UNCHANGED vars
  BY <1>1, <1>4 DEF vars
<1>5. QED
  BY <1>2, <1>3, <1>4, RequestReserved, InsertReserved DEF Next

LEMMA NextDeleted ==
  Inv /\ Reserved /\ [Next]_vars
    => \A u \in Users : row[u].status = "deleted" => row'[u] = row[u]
<1> SUFFICES ASSUME Inv, Reserved, [Next]_vars, NEW u \in Users, row[u].status = "deleted"
             PROVE  row'[u] = row[u]
  OBVIOUS
<1>1. ASSUME NEW w \in Workers, Insert(w) PROVE row'[u] = row[u]
  <2>1. u \notin req[w].users
    BY <1>1, AtAwaits DEF Insert, Reserved
  <2>2. QED
    BY <1>1, <2>1, InsertWrites DEF Inv, TypeOK
<1>2. QED
  BY <1>1, LiveRowsOnly, OtherSteps DEF Live

(* Whatever is in flight when an account is deleted, no handler changes    *)
(* its row afterwards: every write is addressed to rows that are not       *)
(* deleted, and an insert to an id nobody else knows.                      *)
THEOREM StaysDeleted == Spec => DeletedForGood
<1> DEFINE IInv == Inv /\ Reserved
           Kept == \A u \in Users : row[u].status = "deleted" => row'[u] = row[u]
<1>1. Init => IInv
  BY InitInv, InitReserved
<1>2. IInv /\ [Next]_vars => IInv'
  BY NextInv, NextReserved
<1>3. IInv /\ [Next]_vars => [Kept]_vars
  BY NextDeleted
<1> HIDE DEF IInv, Kept
<1>4. Spec => [][Kept]_vars
  BY <1>1, <1>2, <1>3, PTL DEF Spec
<1>5. QED
  BY <1>4 DEF DeletedForGood, Kept

-----------------------------------------------------------------------------
(* What a step leaves behind for others.                                   *)

Busy(w) == req[w].todo # <<>>

LEMMA CallBusy ==
  ASSUME NEW w \in Workers, Call(w) \/ Fail(w)
  PROVE  Busy(w)
BY DEF Busy, Call, FetchOld, Find, CheckConflict, Reread, Validate,
   RevokeAllUserSessions, Open, Record, Insert, UpdateRow, DeleteRow, DeleteMany, Fail, At

\* The call a handler makes is the first of those it awaits.
LEMMA HeadFirst ==
  ASSUME Inv, NEW w \in Workers, Busy(w)
  PROVE  Head(req[w].todo) = req[w].todo[1] /\ req[w].todo \in Seq(Calls)
BY HandlerTyped DEF Typed, Handlers, Busy

LEMMA CallCause ==
  ASSUME Inv, NEW w \in Workers, Call(w) \/ Fail(w)
  PROVE  UNCHANGED cause \/ Throw(w) \/ \E S, why : Writes(w, S, why)
<1>1. PICK u \in req[w].users : u \in Users
  BY CallBusy, SomeUser DEF Busy
<1>2. QED
  BY <1>1 DEF Call, FetchOld, Find, CheckConflict, Reread, Validate,
     RevokeAllUserSessions, Open, Record, Insert, UpdateRow, DeleteRow, DeleteMany, Fail

LEMMA CauseGrows ==
  ASSUME Inv, [Next]_vars, NEW u \in Users
  PROVE  cause[u] \subseteq cause'[u]
<1>1. ASSUME NEW w \in Workers, Request(w) PROVE UNCHANGED cause
  BY <1>1 DEF Request, Remove, VerifyUser, Update, UpdateProfile, UpdateUserStatus,
              ResetUserPassword, Login, ChangePassword, Create, BatchDelete, Begin
<1>2. ASSUME NEW w \in Workers, Throw(w) PROVE cause[u] \subseteq cause'[u]
  BY <1>2 DEF Throw
<1>3. ASSUME NEW w \in Workers, NEW S, NEW why, Writes(w, S, why)
      PROVE  cause[u] \subseteq cause'[u]
  BY <1>3 DEF Writes
<1>4. ASSUME NEW q, WriteRecord(q) \/ LoseRecord(q) PROVE cause[u] \subseteq cause'[u]
  BY <1>4 DEF WriteRecord, LoseRecord
<1>5. CASE UNCHANGED vars
  BY <1>5 DEF vars
<1>6. QED
  BY <1>1, <1>2, <1>3, <1>4, <1>5, CallCause DEF Next

\* Who works with a row learns that another has written to it.
LEMMA WriteMarks ==
  ASSUME Inv, NEW w \in Workers, Call(w), NEW u \in Users, row'[u] # row[u],
         NEW v \in Workers, v # w, u \in req[v].users
  PROVE  req'[v].disturbed
<1>1. PICK t \in req[w].users : t \in Users
  BY CallBusy, SomeUser DEF Busy
<1>2. ASSUME NEW S, NEW why, u \in S, Writes(w, S, why) PROVE req'[v].disturbed
  <2> DEFINE d == [req[v] EXCEPT !.disturbed = @ \/ req[v].users \intersect S # {}]
  <2>1. req'[v] = d
    BY <1>2 DEF Writes
  <2>2. d.disturbed = (req[v].disturbed \/ req[v].users \intersect S # {})
    BY HandlerTyped DEF Typed, Handlers
  <2>3. req[v].users \intersect S # {}
    BY <1>2
  <2>4. QED
    BY <2>1, <2>2, <2>3
<1>3. CASE Insert(w)
  <2>1. row' = [row EXCEPT ![t] = req[w].arg] /\ Writes(w, {t}, {})
    BY <1>1, <1>3 DEF Insert
  <2>2. u = t
    BY <2>1 DEF Inv, TypeOK
  <2>3. QED
    BY <1>2, <2>1, <2>2
<1>4. CASE UpdateRow(w)
  <2>1. /\ row' = [row EXCEPT ![t] = Written(req[w], @)]
        /\ \E why : Writes(w, {t}, why)
    BY <1>1, <1>4 DEF UpdateRow
  <2>2. u = t
    BY <2>1 DEF Inv, TypeOK
  <2>3. QED
    BY <1>2, <2>1, <2>2
<1>5. CASE DeleteRow(w)
  <2>1. row' = [row EXCEPT ![t].status = "deleted"] /\ Writes(w, {t}, {})
    BY <1>1, <1>5 DEF DeleteRow
  <2>2. u = t
    BY <2>1 DEF Inv, TypeOK
  <2>3. QED
    BY <1>2, <2>1, <2>2
<1>6. CASE DeleteMany(w)
  <2> DEFINE S == {x \in req[w].users : Live(x)}
  <2>1. /\ row' = [x \in Users |-> IF x \in S THEN [row[x] EXCEPT !.status = "deleted"]
                                             ELSE row[x]]
        /\ Writes(w, S, {"batch"})
    BY <1>6 DEF DeleteMany
  <2>2. u \in S
    BY <2>1
  <2>3. QED
    BY <1>2, <2>1, <2>2
<1>7. QED
  BY <1>3, <1>4, <1>5, <1>6, QuietCalls DEF Call

-----------------------------------------------------------------------------
(* Accounts deleted while active.                                          *)

\* A registration inserts an account that is not deleted.
Newborn == \A w \in Workers : req[w].op = "create" => req[w].arg.status = "live"

\* A removal that has looked the row up found it inactive, and knows if another
\* handler has written to it since.
Past(r) == Awaits(r, "delete") /\ ~Awaits(r, "find")
Checked ==
  \A w \in Workers : Past(req[w]) =>
    \A u \in req[w].users : Live(u) /\ row[u].active => req[w].disturbed

LEMMA InitChecked == Init => Newborn /\ Checked /\ ActiveDeletedHasCause
<1> SUFFICES ASSUME Init PROVE Newborn /\ Checked /\ ActiveDeletedHasCause
  OBVIOUS
<1>1. Idle.op = "none" /\ Idle.todo = <<>>
  BY DEF Idle
<1>2. Newborn /\ Checked
  BY <1>1 DEF Init, Newborn, Checked, Past, Awaits
<1>3. NoRow.status # "deleted"
  BY DEF NoRow
<1>4. Account(NoRow.name, NoRow.password).status # "deleted"
  BY DEF Account, NoRow
<1>5. \A u \in Users : row[u].status # "deleted"
  BY <1>3, <1>4 DEF Init
<1>6. QED
  BY <1>2, <1>5 DEF ActiveDeletedHasCause

(* What a request is when it has been admitted.                            *)
LEMMA BeginShape ==
  ASSUME Inv, NEW w \in Workers, NEW op, NEW S, NEW arg, NEW guess, NEW todo,
         Begin(w, op, S, arg, guess, todo)
  PROVE  /\ \A v \in Workers \ {w} : req'[v] = req[v]
         /\ req'[w].op = op /\ req'[w].users = S /\ req'[w].todo = todo
         /\ req'[w].arg = arg /\ req[w] = Idle
         /\ UNCHANGED <<row, session, cause>>
<1> DEFINE r == [Idle EXCEPT !.op = op, !.users = S, !.arg = arg, !.guess = guess,
                             !.todo = todo]
<1>1. r.users = S /\ r.todo = todo /\ r.op = op /\ r.arg = arg
  BY DEF Idle
<1>2. req' = [req EXCEPT ![w] = r] /\ req[w] = Idle
  BY DEF Begin
<1>3. QED
  BY <1>1, <1>2 DEF Begin, Inv, TypeOK

LEMMA RequestShape ==
  ASSUME Inv, NEW w \in Workers, Request(w)
  PROVE  /\ \A v \in Workers \ {w} : req'[v] = req[v]
         /\ req[w] = Idle /\ UNCHANGED <<row, session, cause>>
         /\ req'[w].op = "create" => req'[w].arg.status = "live"
         /\ ~Past(req'[w])
         /\ Awaits(req'[w], "open") => \A u \in req'[w].users : Known(u)
<1>0. \A n, p : Account(n, p).status = "live"
  BY DEF Account, NoRow
<1>1. ASSUME NEW u \in Users, Remove(w, u)
      PROVE  /\ \A v \in Workers \ {w} : req'[v] = req[v]
             /\ req[w] = Idle /\ UNCHANGED <<row, session, cause>>
             /\ req'[w].op = "remove"
             /\ req'[w].todo = <<"old", "find", "delete", "record">>
  BY <1>1, BeginShape DEF Remove
<1>2. CASE \E u \in Users : Remove(w, u)
  <2>1. req'[w].todo = <<"old", "find", "delete", "record">>
    BY <1>1, <1>2
  <2>2. Awaits(req'[w], "find") /\ ~Awaits(req'[w], "open")
    BY <2>1 DEF Awaits
  <2>3. QED
    BY <1>1, <1>2, <2>2 DEF Past
<1>3. ASSUME NEW op \in Operations \ {"create", "login"}, NEW S, NEW arg, NEW guess, NEW todo,
             Begin(w, op, S, arg, guess, todo),
             \A i \in 1..Len(todo) : todo[i] \notin {"delete", "open"}
      PROVE  /\ \A v \in Workers \ {w} : req'[v] = req[v]
             /\ req[w] = Idle /\ UNCHANGED <<row, session, cause>>
             /\ req'[w].op = "create" => req'[w].arg.status = "live"
             /\ ~Past(req'[w])
             /\ Awaits(req'[w], "open") => \A u \in req'[w].users : Known(u)
  BY <1>3, BeginShape DEF Past, Awaits
<1>4. CASE \E u \in Users : VerifyUser(w, u)
  BY <1>3, <1>4 DEF VerifyUser, Operations
<1>5. CASE \E u \in Users, n \in Names :
             UpdateProfile(w, u, n) \/ \E b \in BOOLEAN : Update(w, u, n, b)
  <2>1. CASE \E u \in Users, n \in Names : UpdateProfile(w, u, n)
    BY <1>3, <2>1 DEF UpdateProfile, Operations
  <2>2. CASE \E u \in Users, n \in Names, b \in BOOLEAN : Update(w, u, n, b)
    <3>1. PICK u \in Users, n \in Names, b \in BOOLEAN : Update(w, u, n, b)
      BY <2>2
    <3> DEFINE naming == <<"old", "find", "conflict", "update", "reread", "record">>
               enabling == <<"old", "find", "update", "reread", "record">>
    <3>2. /\ \A i \in 1..Len(naming) : naming[i] \notin {"delete", "open"}
          /\ \A i \in 1..Len(enabling) : enabling[i] \notin {"delete", "open"}
      OBVIOUS
    <3>3. {"update", "edit", "activate"} \subseteq Operations \ {"create", "login"}
      BY DEF Operations
    <3>4. \/ Begin(w, "update", {u}, [NoRow EXCEPT !.name = n], NoRow.password, naming)
          \/ Begin(w, "edit", {u}, [NoRow EXCEPT !.name = n, !.active = b], NoRow.password,
                   naming)
          \/ Begin(w, "activate", {u}, [NoRow EXCEPT !.active = b], NoRow.password, enabling)
      BY <3>1 DEF Update
    <3> HIDE DEF naming, enabling
    <3>5. QED
      BY <1>3, <3>2, <3>3, <3>4
  <2>3. QED
    BY <1>5, <2>1, <2>2
<1>6. CASE \E u \in Users, b \in BOOLEAN : UpdateUserStatus(w, u, b)
  BY <1>3, <1>6 DEF UpdateUserStatus, Operations
<1>7. CASE \E u \in Users, p \in Passwords : ResetUserPassword(w, u, p)
  BY <1>3, <1>7 DEF ResetUserPassword, Operations
<1>8. CASE \E u \in Users, g \in Passwords, p \in Passwords : ChangePassword(w, u, g, p)
  BY <1>3, <1>8 DEF ChangePassword, Operations
<1>9. CASE \E S \in SUBSET Users : BatchDelete(w, S)
  BY <1>3, <1>9 DEF BatchDelete, Operations
<1>10. CASE \E u \in Users, p \in Passwords : Login(w, u, p)
  <2>1. PICK u \in Users : /\ Known(u) /\ req'[w].users = {u} /\ req'[w].op = "login"
                           /\ req'[w].todo = <<"validate", "open">>
                           /\ \A v \in Workers \ {w} : req'[v] = req[v]
                           /\ req[w] = Idle /\ UNCHANGED <<row, session, cause>>
    BY <1>10, BeginShape DEF Login
  <2>2. ~Past(req'[w])
    BY <2>1 DEF Past, Awaits
  <2>3. QED
    BY <2>1, <2>2
<1>11. CASE \E u \in Users, n \in Names, p \in Passwords : Create(w, u, n, p)
  <2>1. PICK n \in Names, p \in Passwords :
          /\ req'[w].op = "create" /\ req'[w].arg = Account(n, p)
          /\ req'[w].todo = <<"conflict", "insert", "reread", "record">>
          /\ \A v \in Workers \ {w} : req'[v] = req[v]
          /\ req[w] = Idle /\ UNCHANGED <<row, session, cause>>
    BY <1>11, BeginShape DEF Create
  <2>2. ~Awaits(req'[w], "delete") /\ ~Awaits(req'[w], "open")
    BY <2>1 DEF Awaits
  <2>3. QED
    BY <1>0, <2>1, <2>2 DEF Past
<1>12. QED
  BY <1>2, <1>4, <1>5, <1>6, <1>7, <1>8, <1>9, <1>10, <1>11 DEF Request

LEMMA ThrowIdle ==
  ASSUME Inv, NEW w \in Workers, Throw(w)
  PROVE  req'[w] = Idle
BY DEF Throw, Inv, TypeOK

\* Steps that concern no handler.
LEMMA OtherStep ==
  ASSUME [Next]_vars, ~ \E w \in Workers : Request(w) \/ Call(w) \/ Fail(w)
  PROVE  UNCHANGED <<row, session, req>>
BY DEF Next, WriteRecord, LoseRecord, vars

LEMMA NextNewborn == Inv /\ Newborn /\ [Next]_vars => Newborn'
<1> SUFFICES ASSUME Inv, Newborn, [Next]_vars, NEW v \in Workers, req'[v].op = "create"
             PROVE  req'[v].arg.status = "live"
  BY DEF Newborn
<1>1. ASSUME NEW w \in Workers, Request(w) PROVE req'[v].arg.status = "live"
  BY <1>1, RequestShape DEF Newborn
<1>2. ASSUME NEW w \in Workers, Call(w) \/ Fail(w) PROVE req'[v].arg.status = "live"
  <2>1. Moves(w) /\ Idle.op = "none"
    BY <1>2, CallMoves DEF Idle
  <2>2. QED
    BY <2>1, ThrowIdle DEF Moves, Same, GoneOn, Newborn
<1>3. QED
  BY <1>1, <1>2, OtherStep DEF Newborn

(* Of the handler that moves: the row it is about to delete is inactive    *)
(* still, or it knows better.                                              *)
LEMMA OwnChecked ==
  ASSUME Inv, Reserved, Checked, NEW w \in Workers, Call(w) \/ Fail(w), Past(req'[w]),
         NEW u \in req'[w].users, row'[u].status = "live", row'[u].active
  PROVE  req'[w].disturbed
<1>1. Busy(w) /\ Moves(w)
  BY CallBusy, CallMoves
<1>2. /\ GoneOn(req[w], req'[w]) /\ Awaits(req[w], "delete")
      /\ req[w].todo[1] # "delete"
  BY <1>1, MovesAwaits DEF Past, Busy
<1>3. /\ SaneTodo(req[w].op, req[w].todo) /\ req[w] \in Handlers
      /\ req[w].op = "remove"
  BY <1>2, HandlerTyped DEF Typed, Sane, SaneTodo, Fitting, Awaits
<1>4. u \in req[w].users /\ u \in Users
  BY <1>2, <1>3 DEF GoneOn, Handlers
<1>5. req'[w].todo = Tail(req[w].todo)
  BY <1>2, <1>3 DEF GoneOn
<1>6. row'[u] = row[u]
  <2>1. ~Insert(w) /\ ~UpdateRow(w) /\ ~DeleteRow(w)
    <3>1. ~At(w, "delete")
      BY <1>1, <1>2, HeadFirst DEF At
    <3>2. ~At(w, "update") /\ ~At(w, "insert")
      BY <1>3, AtAwaits DEF SaneTodo, Fitting, Awaits, Updaters
    <3>3. QED
      BY <3>1, <3>2 DEF Insert, UpdateRow, DeleteRow
  <2>2. CASE DeleteMany(w)
    <3>1. PICK S \in SUBSET Users : row' = Without(S)
      BY <2>2, DeleteWrites
    <3>2. u \notin S
      <4>1. row[u] \in Rows
        BY <1>4 DEF Inv, TypeOK
      <4>2. [row[u] EXCEPT !.status = "deleted"].status = "deleted"
        BY <4>1 DEF Rows
      <4>3. QED
        BY <1>4, <3>1, <4>2 DEF Without
    <3>3. QED
      BY <1>4, <3>1, <3>2 DEF Without
  <2>3. CASE ~DeleteMany(w)
    BY <2>1, <2>3, QuietCalls DEF Call
  <2>4. QED
    BY <2>2, <2>3
<1>7. CASE ~Awaits(req[w], "find")
  <2>1. req[w].disturbed
    BY <1>2, <1>4, <1>6, <1>7 DEF Past, Checked, Live
  <2>2. QED
    BY <1>2, <2>1 DEF GoneOn
<1>8. CASE Awaits(req[w], "find")
  <2>1. req[w].todo[1] = "find"
    <3>1. PICK k \in 1..Len(req[w].todo) : req[w].todo[k] = "find"
      BY <1>8 DEF Awaits
    <3>2. ASSUME k # 1 PROVE FALSE
      <4>1. req[w].todo \in Seq(Calls) /\ req[w].todo # <<>>
        BY <1>1, HeadFirst DEF Busy
      <4>2. k - 1 \in 1..Len(Tail(req[w].todo)) /\ Tail(req[w].todo)[k - 1] = "find"
        BY <3>1, <3>2, <4>1
      <4>3. Awaits(req'[w], "find")
        BY <1>5, <4>2 DEF Awaits
      <4>4. QED
        BY <4>3 DEF Past
    <3>3. QED
      BY <3>1, <3>2
  <2>2. Head(req[w].todo) = "find"
    BY <1>1, <2>1, HeadFirst
  <2>3. ~Throw(w)
    <3>1. ~Awaits(Idle, "delete")
      BY IdleTyped DEF Awaits
    <3>2. QED
      BY <3>1, ThrowIdle DEF Past
  <2>4. Find(w)
    BY <2>2, <2>3 DEF Call, Fail, FetchOld, CheckConflict, Insert, UpdateRow, DeleteRow,
       DeleteMany, Reread, RevokeAllUserSessions, Validate, Open, Record, At
  <2>5. ~Refuses(req[w], row[u])
    BY <1>4, <2>3, <2>4 DEF Find
  <2>6. ~row[u].active
    BY <1>3, <2>5 DEF Refuses
  <2>7. QED
    BY <1>6, <2>6
<1>9. QED
  BY <1>7, <1>8

LEMMA NextChecked == Inv /\ Reserved /\ Checked /\ [Next]_vars => Checked'
<1> SUFFICES ASSUME Inv, Reserved, Checked, [Next]_vars, NEW v \in Workers, Past(req'[v]),
                    NEW u \in req'[v].users, row'[u].status = "live", row'[u].active
             PROVE  req'[v].disturbed
  BY DEF Checked, Past, Awaits, Live
<1>1. ASSUME NEW w \in Workers, Request(w) PROVE req'[v].disturbed
  BY <1>1, RequestShape DEF Checked, Live
<1>2. ASSUME NEW w \in Workers, Call(w) \/ Fail(w), v # w PROVE req'[v].disturbed
  <2>1. Same(req[v], req'[v])
    BY <1>2, CallMoves DEF Moves
  <2>2. Past(req[v]) /\ u \in req[v].users /\ u \in Users
    BY <2>1, HandlerTyped DEF Same, Past, Awaits, Typed, Handlers
  <2>3. CASE row'[u] = row[u]
    BY <2>1, <2>2, <2>3 DEF Checked, Same, Live
  <2>4. CASE row'[u] # row[u]
    <3>1. Call(w)
      BY <1>2, <2>4 DEF Fail
    <3>2. QED
      BY <1>2, <2>2, <2>4, <3>1, WriteMarks
  <2>5. QED
    BY <2>3, <2>4
<1>3. ASSUME NEW w \in Workers, Call(w) \/ Fail(w), v = w PROVE req'[v].disturbed
  BY <1>3, OwnChecked
<1>4. CASE ~ \E w \in Workers : Request(w) \/ Call(w) \/ Fail(w)
  BY <1>4, OtherStep DEF Checked, Live
<1>5. QED
  BY <1>1, <1>2, <1>3, <1>4

(* Who deletes an active account leaves the reason.                        *)
LEMMA DeletionCaused ==
  ASSUME Inv, Checked, NEW w \in Workers, DeleteRow(w) \/ DeleteMany(w),
         NEW u \in Users, Live(u), row'[u].status = "deleted", row[u].active
  PROVE  cause'[u] \intersect {"batch", "overlap"} # {}
<1>1. CASE DeleteRow(w)
  <2>1. PICK t \in req[w].users : t \in Users
    BY <1>1, CallBusy, SomeUser DEF Busy, Call
  <2>2. UNCHANGED row \/ (row' = [row EXCEPT ![t].status = "deleted"] /\ Writes(w, {t}, {}))
    BY <1>1, <2>1 DEF DeleteRow
  <2>3. u = t /\ Writes(w, {u}, {})
    BY <2>2 DEF Inv, TypeOK, Live
  <2>4. At(w, "delete")
    BY <1>1 DEF DeleteRow
  <2>5. Past(req[w])
    <3>1. Awaits(req[w], "delete") /\ Len(req[w].todo) >= 1 /\ req[w].todo[1] = "delete"
      BY <2>4, AtAwaits
    <3>2. SaneTodo(req[w].op, req[w].todo)
      BY HandlerTyped DEF Typed, Sane
    <3>3. 1 \in 1..Len(req[w].todo) /\ Len(req[w].todo) \in Nat
      BY <3>1, <3>2 DEF SaneTodo
    <3>4. ~Awaits(req[w], "find")
      <4>1. \A j \in 1..Len(req[w].todo) : req[w].todo[j] = "find" => j < 1
        BY <3>1, <3>2, <3>3 DEF SaneTodo
      <4>2. \A j \in 1..Len(req[w].todo) : ~(j < 1)
        BY <3>3
      <4>3. QED
        BY <4>1, <4>2 DEF Awaits
    <3>5. QED
      BY <3>1, <3>4 DEF Past
  <2>6. req[w].disturbed
    BY <2>1, <2>3, <2>5 DEF Checked
  <2>7. "overlap" \in cause'[u]
    BY <2>3, <2>6 DEF Writes
  <2>8. QED
    BY <2>7
<1>2. CASE DeleteMany(w)
  <2> DEFINE S == {x \in req[w].users : Live(x)}
  <2>1. UNCHANGED row
        \/ (/\ row' = [x \in Users |-> IF x \in S THEN [row[x] EXCEPT !.status = "deleted"]
                                                 ELSE row[x]]
            /\ Writes(w, S, {"batch"}))
    BY <1>2 DEF DeleteMany
  <2>2. u \in S /\ Writes(w, S, {"batch"})
    BY <2>1 DEF Live
  <2>3. "batch" \in cause'[u]
    BY <2>2 DEF Writes
  <2>4. QED
    BY <2>3
<1>3. QED
  BY <1>1, <1>2

LEMMA NextActiveDeleted ==
  Inv /\ Reserved /\ Newborn /\ Checked /\ ActiveDeletedHasCause /\ [Next]_vars
    => ActiveDeletedHasCause'
<1> SUFFICES ASSUME Inv, Reserved, Newborn, Checked, ActiveDeletedHasCause, [Next]_vars,
                    NEW u \in Users, row'[u].status = "deleted", row'[u].active
             PROVE  cause'[u] \intersect {"batch", "overlap"} # {}
  BY DEF ActiveDeletedHasCause
<1>1. CASE row[u].status = "deleted"
  <2>1. row'[u] = row[u]
    BY <1>1, NextDeleted
  <2>2. QED
    BY <1>1, <2>1, CauseGrows DEF ActiveDeletedHasCause
<1>2. CASE row[u].status # "deleted"
  <2>1. PICK w \in Workers : Insert(w) \/ UpdateRow(w) \/ DeleteRow(w) \/ DeleteMany(w)
    BY <1>2, OtherSteps
  <2>2. ~Insert(w)
    <3>1. ASSUME Insert(w), row'[u] # row[u] PROVE FALSE
      <4>1. row'[u] = req[w].arg
        BY <3>1, InsertWrites DEF Inv, TypeOK
      <4>2. req[w].op = "create"
        BY <3>1, AtAwaits, HandlerTyped
           DEF Insert, Typed, Sane, SaneTodo, Fitting, Awaits
      <4>3. QED
        BY <4>1, <4>2 DEF Newborn
    <3>2. QED
      BY <1>2, <3>1
  <2>3. ~UpdateRow(w)
    <3>1. ASSUME UpdateRow(w), row'[u] # row[u] PROVE FALSE
      <4>1. row'[u] = Written(req[w], row[u])
        BY <3>1, UpdateWrites DEF Inv, TypeOK
      <4>2. QED
        BY <1>2, <3>1, <4>1, UpdateTyped DEF UpdateRow
    <3>2. QED
      BY <1>2, <3>1
  <2>4. Live(u) /\ row'[u].active = row[u].active
    <3>1. PICK S \in SUBSET Users : (\A x \in S : Live(x)) /\ row' = Without(S)
      BY <2>1, <2>2, <2>3, DeleteWrites
    <3>2. u \in S
      BY <1>2, <3>1 DEF Without
    <3>3. row[u] \in Rows
      BY DEF Inv, TypeOK
    <3>4. QED
      BY <3>1, <3>2, <3>3 DEF Without, Rows
  <2>5. QED
    BY <2>1, <2>2, <2>3, <2>4, DeletionCaused
<1>3. QED
  BY <1>1, <1>2

(* An account is deleted while it is active by a batch deletion only, or   *)
(* because it was activated between the check of remove and its deletion,  *)
(* by however many handlers.                                               *)
THEOREM ActiveDeletedCaused == Spec => []ActiveDeletedHasCause
<1> DEFINE IInv == Inv /\ Reserved /\ Newborn /\ Checked /\ ActiveDeletedHasCause
<1>1. Init => IInv
  BY InitInv, InitReserved, InitChecked
<1>2. IInv /\ [Next]_vars => IInv'
  BY NextInv, NextReserved, NextNewborn, NextChecked, NextActiveDeleted
<1>3. QED
  BY <1>1, <1>2, PTL DEF Spec

-----------------------------------------------------------------------------
(* Sessions opened with an old password.                                   *)

\* Sessions are opened for accounts that exist.
SessionsKnown ==
  /\ \A s \in session : Known(s.user)
  /\ \A w \in Workers : Awaits(req[w], "open") => \A u \in req[w].users : Known(u)

LEMMA KnownStays ==
  ASSUME Inv, Newborn, [Next]_vars, NEW u \in Users, Known(u)
  PROVE  row'[u].status # "absent"
<1>1. CASE UNCHANGED row
  BY <1>1 DEF Known
<1>2. ASSUME NEW w \in Workers, Insert(w), row'[u] # row[u] PROVE row'[u].status # "absent"
  <2>1. row'[u] = req[w].arg
    BY <1>2, InsertWrites DEF Inv, TypeOK
  <2>2. req[w].op = "create"
    BY <1>2, AtAwaits, HandlerTyped DEF Insert, Typed, Sane, SaneTodo, Fitting, Awaits
  <2>3. QED
    BY <2>1, <2>2 DEF Newborn
<1>3. ASSUME NEW w \in Workers, UpdateRow(w), row'[u] # row[u]
      PROVE  row'[u].status # "absent"
  <2>1. row'[u] = Written(req[w], row[u])
    BY <1>3, UpdateWrites DEF Inv, TypeOK
  <2>2. QED
    BY <1>3, <2>1, UpdateTyped DEF UpdateRow, Known
<1>4. ASSUME NEW w \in Workers, DeleteRow(w) \/ DeleteMany(w)
      PROVE  row'[u].status # "absent"
  <2>1. PICK S \in SUBSET Users : row' = Without(S)
    BY <1>4, DeleteWrites
  <2>2. row[u] \in Rows
    BY DEF Inv, TypeOK
  <2>3. QED
    BY <2>1, <2>2 DEF Without, Rows, Known
<1>5. QED
  BY <1>1, <1>2, <1>3, <1>4, OtherSteps DEF Known

\* What each step does to the sessions.
LEMMA CallSession ==
  ASSUME NEW w \in Workers, Call(w) \/ Fail(w)
  PROVE  UNCHANGED session \/ RevokeAllUserSessions(w) \/ Open(w)
BY DEF Call, FetchOld, Find, CheckConflict, Reread, Validate,
   Record, Insert, UpdateRow, DeleteRow, DeleteMany, Fail

LEMMA NextSessionsKnown == Inv /\ Newborn /\ SessionsKnown /\ [Next]_vars => SessionsKnown'
<1> SUFFICES ASSUME Inv, Newborn, SessionsKnown, [Next]_vars PROVE SessionsKnown'
  OBVIOUS
<1>1. \A s \in session : s.user \in Users
  BY DEF Inv, TypeOK, Sessions
<1>2. \A s \in session : row'[s.user].status # "absent"
  BY <1>1, KnownStays DEF SessionsKnown
<1>3. ASSUME NEW w \in Workers, Request(w) PROVE SessionsKnown'
  BY <1>3, RequestShape DEF SessionsKnown, Known
<1>4. ASSUME NEW w \in Workers, Call(w) \/ Fail(w) PROVE SessionsKnown'
  <2>1. Busy(w) /\ Moves(w) /\ req[w].users \subseteq Users
    BY <1>4, CallBusy, CallMoves, SomeUser DEF Busy
  <2>2. ASSUME NEW v \in Workers, Awaits(req'[v], "open")
        PROVE  Awaits(req[v], "open") /\ req'[v].users = req[v].users
    <3>1. CASE v = w
      BY <2>1, <2>2, <3>1, MovesAwaits DEF GoneOn, Busy
    <3>2. CASE v # w
      BY <2>1, <2>2, <3>2 DEF Moves, Same, Awaits
    <3>3. QED
      BY <3>1, <3>2
  <2>3. ASSUME NEW v \in Workers, Awaits(req'[v], "open"), NEW u \in req'[v].users
        PROVE  row'[u].status # "absent"
    <3>1. u \in Users /\ Known(u)
      BY <2>2, <2>3, HandlerTyped DEF SessionsKnown, Typed, Handlers
    <3>2. QED
      BY <3>1, KnownStays
  <2>4. ASSUME NEW s \in session', s \notin session PROVE row'[s.user].status # "absent"
    <3>1. Open(w)
      BY <1>4, <2>4, CallSession DEF RevokeAllUserSessions
    <3>2. s.user \in req[w].users
      BY <2>4, <3>1 DEF Open
    <3>3. Awaits(req[w], "open")
      BY <3>1, AtAwaits DEF Open
    <3>4. QED
      BY <2>1, <3>2, <3>3, KnownStays DEF SessionsKnown
  <2>5. QED
    BY <1>2, <2>3, <2>4 DEF SessionsKnown, Known, Awaits
<1>5. CASE ~ \E w \in Workers : Request(w) \/ Call(w) \/ Fail(w)
  BY <1>5, OtherStep DEF SessionsKnown, Known, Awaits
<1>6. QED
  BY <1>3, <1>4, <1>5

\* A handler that has written a password and will revoke the sessions.
Pending(r, u) == u \in r.users /\ r.committed /\ Awaits(r, "revoke")

Explained(s) ==
  \/ s.password = row[s.user].password
  \/ s.late
  \/ "unrevoked" \in cause[s.user]
  \/ \E w \in Workers : Pending(req[w], s.user)

AllExplained == \A s \in session : Explained(s)

(* A revocation that is due is made, or stays due, or is known to be lost. *)
LEMMA PendingStays ==
  ASSUME Inv, NEW w \in Workers, Call(w) \/ Fail(w), NEW v \in Workers, NEW u \in Users,
         Pending(req[v], u)
  PROVE  \/ Pending(req'[v], u)
         \/ "unrevoked" \in cause'[u]
         \/ RevokeAllUserSessions(w) /\ u \in req[w].users
<1>1. Busy(w) /\ Moves(w)
  BY CallBusy, CallMoves
<1>2. CASE v # w
  BY <1>1, <1>2 DEF Moves, Same, Pending, Awaits
<1>3. CASE v = w /\ Throw(w)
  <2>1. "unrevoked" \in Ended(req[w])
    BY <1>3 DEF Ended, Pending, Awaits
  <2>2. QED
    BY <1>3, <2>1 DEF Throw, Pending
<1>4. CASE v = w /\ ~Throw(w) /\ req[w].todo[1] = "revoke"
  <2>1. Head(req[w].todo) = "revoke"
    BY <1>1, <1>4, HeadFirst
  <2>2. RevokeAllUserSessions(w)
    BY <1>4, <2>1 DEF Call, Fail, FetchOld, CheckConflict, Insert, UpdateRow, DeleteRow,
       DeleteMany, Reread, Find, Validate, Open, Record, At
  <2>3. QED
    BY <1>4, <2>2 DEF Pending
<1>5. CASE v = w /\ ~Throw(w) /\ req[w].todo[1] # "revoke"
  <2>1. req[w].op \notin {"update", "edit"}
    BY <1>5, HandlerTyped DEF Pending, Awaits, Typed, Sane, SaneTodo, Fitting
  <2>2. PICK k \in 1..Len(req[w].todo) : req[w].todo[k] = "revoke"
    BY <1>5 DEF Pending, Awaits
  <2>3. req[w].todo \in Seq(Calls) /\ req[w].todo # <<>> /\ k # 1
    BY <1>1, <1>5, <2>2, HeadFirst DEF Busy
  <2>4. Len(req[w].todo) > 1
    BY <2>2, <2>3
  <2>5. GoneOn(req[w], req'[w]) /\ req'[w].todo = Tail(req[w].todo)
    BY <1>1, <1>5, <2>1, <2>3, <2>4 DEF Moves, GoneOn
  <2>6. k - 1 \in 1..Len(Tail(req[w].todo)) /\ Tail(req[w].todo)[k - 1] = "revoke"
    BY <2>2, <2>3
  <2>7. Awaits(req'[w], "revoke")
    BY <2>5, <2>6 DEF Awaits
  <2>8. QED
    BY <1>5, <2>5, <2>7 DEF Pending, GoneOn
<1>6. QED
  BY <1>2, <1>3, <1>4, <1>5

(* Who writes a password has the revocation still to make.                 *)
LEMMA PasswordPends ==
  ASSUME Inv, NEW w \in Workers, UpdateRow(w), NEW u \in Users,
         row'[u].password # row[u].password
  PROVE  Pending(req'[w], u)
<1>1. At(w, "update") /\ Busy(w)
  BY DEF UpdateRow, At, Busy
<1>2. PICK t \in req[w].users : t \in Users
  BY <1>1, SomeUser DEF Busy
<1>3. /\ row' = [row EXCEPT ![t] = Written(req[w], @)]
      /\ \E why : Writes(w, {t}, why)
  BY <1>2 DEF UpdateRow
<1>4. u = t /\ row'[u] = Written(req[w], row[u])
  BY <1>3 DEF Inv, TypeOK
<1>5. req[w] \in Handlers /\ SaneTodo(req[w].op, req[w].todo)
  BY HandlerTyped DEF Typed, Sane
<1>6. Awaits(req[w], "update") /\ Len(req[w].todo) >= 1 /\ req[w].todo[1] = "update"
  BY <1>1, AtAwaits
<1>7. req[w].op \in Updaters
  BY <1>5, <1>6 DEF SaneTodo, Fitting, Awaits
<1>8. req[w].op \in {"change", "reset"}
  <2>1. row[u] \in Rows
    BY DEF Inv, TypeOK
  <2>2. req[w].op \notin {"update", "edit", "activate", "status", "verify"}
    BY <1>4, <2>1 DEF Written, Rows
  <2>3. QED
    BY <1>7, <2>2 DEF Updaters
<1>9. PICK k \in 1..Len(req[w].todo) : 1 < k /\ req[w].todo[k] = "revoke"
  <2>1. 1 \in 1..Len(req[w].todo)
    BY <1>5, <1>6 DEF SaneTodo
  <2>2. QED
    BY <1>5, <1>6, <1>8, <2>1 DEF SaneTodo
<1> DEFINE c == [req[w] EXCEPT !.committed = TRUE]
<1>10. c.todo = req[w].todo /\ c.users = req[w].users /\ c.committed /\ c \in Handlers
  BY <1>5 DEF Handlers
<1>11. req'[w] = After(c)
  BY <1>3 DEF Writes
<1>12. req[w].todo \in Seq(Calls) /\ ~(Len(c.todo) <= 1)
  BY <1>5, <1>9, <1>10 DEF SaneTodo
<1>13. /\ After(c).todo = Tail(c.todo) /\ After(c).users = c.users
       /\ After(c).committed = c.committed
  BY <1>10, <1>12 DEF After, Handlers
<1>14. k - 1 \in 1..Len(Tail(req[w].todo)) /\ Tail(req[w].todo)[k - 1] = "revoke"
  BY <1>9, <1>12
<1>15. QED
  BY <1>2, <1>4, <1>10, <1>11, <1>13, <1>14 DEF Pending, Awaits

LEMMA CallExplained ==
  ASSUME Inv, Reserved, SessionsKnown, AllExplained, [Next]_vars,
         NEW w \in Workers, Call(w) \/ Fail(w), NEW s \in session, s \in session'
  PROVE  \/ s.password = row'[s.user].password
         \/ s.late \/ "unrevoked" \in cause'[s.user]
         \/ \E v \in Workers : Pending(req'[v], s.user)
<1>1. s.user \in Users /\ Known(s.user)
  BY DEF Inv, TypeOK, Sessions, SessionsKnown
<1>2. CASE s.late
  BY <1>2
<1>3. CASE "unrevoked" \in cause[s.user]
  BY <1>1, <1>3, CauseGrows
<1>4. ASSUME NEW v \in Workers, Pending(req[v], s.user)
      PROVE  "unrevoked" \in cause'[s.user] \/ Pending(req'[v], s.user)
  <2>1. ~(RevokeAllUserSessions(w) /\ s.user \in req[w].users)
    BY DEF RevokeAllUserSessions
  <2>2. QED
    BY <1>1, <1>4, <2>1, PendingStays
<1>5. CASE s.password = row[s.user].password /\ row'[s.user].password # row[s.user].password
  <2>1. UpdateRow(w)
    <3>1. ~Insert(w)
      <4>1. ASSUME Insert(w) PROVE FALSE
        <5>1. s.user \notin req[w].users
          BY <1>1, <4>1, AtAwaits DEF Insert, Reserved, Known
        <5>2. row' = row \/ \E u \in req[w].users : row' = [row EXCEPT ![u] = req[w].arg]
          BY <4>1, InsertWrites
        <5>3. row \in [Users -> Rows]
          BY DEF Inv, TypeOK
        <5>4. row'[s.user] = row[s.user]
          BY <1>1, <5>1, <5>2, <5>3
        <5>5. QED
          BY <1>5, <5>4
      <4>2. QED
        BY <4>1
    <3>2. ~DeleteRow(w) /\ ~DeleteMany(w)
      <4>1. row[s.user] \in Rows
        BY <1>1 DEF Inv, TypeOK
      <4>2. QED
        BY <1>1, <1>5, <4>1, DeleteWrites DEF Without, Rows
    <3>3. QED
      BY <1>5, <3>1, <3>2, QuietCalls DEF Call
  <2>2. QED
    BY <1>1, <1>5, <2>1, PasswordPends
<1>6. QED
  BY <1>2, <1>3, <1>4, <1>5 DEF AllExplained, Explained

LEMMA NextExplained ==
  Inv /\ Reserved /\ SessionsKnown /\ AllExplained /\ [Next]_vars => AllExplained'
<1> SUFFICES ASSUME Inv, Reserved, SessionsKnown, AllExplained, [Next]_vars,
                    NEW s \in session'
             PROVE  \/ s.password = row'[s.user].password
                    \/ s.late \/ "unrevoked" \in cause'[s.user]
                    \/ \E v \in Workers : Pending(req'[v], s.user)
  BY DEF AllExplained, Explained, Pending, Awaits
<1>1. ASSUME NEW w \in Workers, Request(w)
      PROVE  \/ s.password = row'[s.user].password
             \/ s.late \/ "unrevoked" \in cause'[s.user]
             \/ \E v \in Workers : Pending(req'[v], s.user)
  <2>1. /\ \A v \in Workers \ {w} : req'[v] = req[v]
        /\ req[w] = Idle /\ UNCHANGED <<row, session, cause>>
    BY <1>1, RequestShape
  <2>2. ~Pending(req[w], s.user)
    BY <2>1, IdleTyped DEF Pending
  <2>3. Explained(s)
    BY <2>1 DEF AllExplained
  <2>4. QED
    BY <2>1, <2>2, <2>3 DEF Explained
<1>2. ASSUME NEW w \in Workers, Call(w) \/ Fail(w), s \notin session
      PROVE  s.password = row'[s.user].password \/ s.late
  <2>1. Open(w)
    BY <1>2, CallSession DEF RevokeAllUserSessions
  <2>2. PICK u \in req[w].users :
          s = [user |-> u, password |-> req[w].guess,
               late |-> row[u].password # req[w].guess]
    BY <1>2, <2>1 DEF Open
  <2>3. s.user = u /\ s.password = req[w].guess
        /\ s.late = (row[u].password # req[w].guess)
    BY <2>2
  <2>4. QED
    BY <2>1, <2>3 DEF Open
<1>3. ASSUME NEW w \in Workers, Call(w) \/ Fail(w), s \in session
      PROVE  \/ s.password = row'[s.user].password
             \/ s.late \/ "unrevoked" \in cause'[s.user]
             \/ \E v \in Workers : Pending(req'[v], s.user)
  BY <1>3, CallExplained
<1>4. CASE ~ \E w \in Workers : Request(w) \/ Call(w) \/ Fail(w)
  <2>1. UNCHANGED <<row, session, req>>
    BY <1>4, OtherStep
  <2>2. s \in session /\ s.user \in Users
    BY <2>1 DEF Inv, TypeOK, Sessions
  <2>3. cause[s.user] \subseteq cause'[s.user]
    BY <2>2, CauseGrows
  <2>4. QED
    BY <2>1, <2>2, <2>3 DEF AllExplained, Explained
<1>5. QED
  BY <1>1, <1>2, <1>3, <1>4

(* However password changes, resets and logins overlap and fail, a session *)
(* opened with another password than today's has one of these reasons      *)
(* (changePassword and resetUserPassword revoke after they have written).  *)
THEOREM OldPasswordCaused == Spec => []OldPasswordSessionHasCause
<1> DEFINE IInv == /\ Inv /\ Reserved /\ Newborn
                   /\ SessionsKnown /\ AllExplained
<1>1. Init => SessionsKnown /\ AllExplained
  BY IdleTyped DEF Init, SessionsKnown, AllExplained, Awaits
<1>2. Init => IInv
  BY <1>1, InitInv, InitReserved, InitChecked
<1>3. IInv /\ [Next]_vars => IInv'
  BY NextInv, NextReserved, NextNewborn, NextSessionsKnown, NextExplained
<1>4. IInv => OldPasswordSessionHasCause
  BY DEF AllExplained, Explained, Pending, Awaits, OldPasswordSessionHasCause
<1>5. QED
  BY <1>2, <1>3, <1>4, PTL DEF Spec

-----------------------------------------------------------------------------
(* The audit trail.                                                        *)

\* The methods that leave a record, and those whose record says what the row
\* has become.
Audited == {"create", "update", "edit", "activate", "remove", "change", "verify", "batch"}
Edits == {"create", "update", "edit", "activate", "verify"}

Writing == {"insert", "update", "delete", "deleteMany"}
Closing == {"reread", "revoke", "record"}

Belongs(op, call) ==
  /\ Fitting(op, call)
  /\ call = "deleteMany" => op = "batch"
  /\ call = "old" => op \in Audited \ {"create"}
  /\ call = "record" => op \in Audited
  /\ call = "reread" => op \in Edits \union {"status"}

Follows(a, b) ==
  /\ a # "record" /\ b # "old"
  /\ a \in Writing \union Closing => b \in Closing
  /\ a = "reread" => b = "record"

\* The old value comes first, a written row is read again, and the record is
\* the last call of all.
Scripted(op, todo) ==
  /\ todo \in Seq(Calls)
  /\ \A i \in 1..Len(todo) : Belongs(op, todo[i])
  /\ \A i, j \in 1..Len(todo) : i < j => Follows(todo[i], todo[j])
  /\ \A i \in 1..Len(todo) :
       todo[i] \in Writing /\ op \in Edits
         => \E j \in 1..Len(todo) : i < j /\ todo[j] = "reread"
  /\ op \in Audited /\ todo # <<>> => \E i \in 1..Len(todo) : todo[i] = "record"
  /\ \A i \in 1..Len(todo) : todo[i] = "find" /\ op \in {"update", "edit"}
       => i + 1 \in 1..Len(todo) /\ todo[i + 1] = "conflict"

\* What a handler holds, by the calls it has still to make.
Progress(r) ==
  /\ r.committed => r.todo # <<>> /\ \A i \in 1..Len(r.todo) : r.todo[i] \in Closing
  /\ r.result # {} => r.committed /\ ~Awaits(r, "reread")
  /\ r.op \in Audited \ {"create"} /\ ~Awaits(r, "old") => DOMAIN r.old = r.users
  /\ r.op = "create" => r.old = <<>>
  /\ r.todo # <<>> /\ r.op # "login"
       => r.committed \/ \E c \in Writing : Awaits(r, c)

OnScript(r) == Scripted(r.op, r.todo) /\ Progress(r)
AllOnScript == \A w \in Workers : OnScript(req[w])

\* The records that are written or about to be.
AllRecords == trail \union queue

\* Records, and handlers, are about accounts that exist.
Named ==
  /\ \A t \in AllRecords : \A u \in t.users : Known(u)
  /\ \A w \in Workers : \A u \in req[w].users :
       req[w].op # "create" \/ req[w].committed => Known(u)

\* A handler has left v in the row that is now, and its record will say so.
Leaves(r, u, now, v) ==
  /\ u \in r.users /\ r.committed /\ r.op \in Edits
  /\ v \in r.result \/ (v = now /\ Awaits(r, "reread"))

\* v is what a record of R says an operation left, or what the record of a
\* handler of q will say.
Made(R, q, u, now, v) ==
  \/ \E t \in R : u \in t.users /\ v \in t.new
  \/ \E w \in Workers : Leaves(q[w], u, now, v)

Deletes(r, u) == u \in r.users /\ r.committed /\ r.op \in {"remove", "batch"}

Gone(R, q, u) ==
  \/ \E t \in R : u \in t.users /\ t.op \in {"remove", "batch"}
  \/ \E w \in Workers : Deletes(q[w], u)

Followed(u) == cause[u] \intersect {"unaudited", "aborted", "lost"} = {}

Recorded ==
  \A u \in Users : Known(u) /\ Followed(u)
    => IF Live(u) THEN Made(AllRecords, req, u, View(row[u]), View(row[u]))
                  ELSE Gone(AllRecords, req, u)

\* A handler began with v, and its record will say so.
Began(r, u, v) ==
  u \in r.users /\ r.committed /\ r.op \in Audited \ {"create"} /\ r.old[u] = v

\* v is what a record of R says an operation began with, or what the record
\* of a handler of q will say.
Left(R, q, u, v) ==
  \/ \E t \in R : u \in t.users /\ t.op # "create" /\ t.old[u] = v
  \/ \E w \in Workers : Began(q[w], u, v)

Clean(u) == cause[u] \subseteq {"batch", "unrevoked"}

\* Whatever an operation began with, another one left.
BeginsMade(u) ==
  /\ \A t \in AllRecords : u \in t.users /\ t.op # "create"
       => Made(AllRecords, req, u, View(row[u]), t.old[u])
  /\ \A w \in Workers : u \in req[w].users /\ u \in DOMAIN req[w].old
       => Made(AllRecords, req, u, View(row[u]), req[w].old[u])
  /\ Known(u) => Made(AllRecords, req, u, View(row[u]), View(row[u]))

\* What an operation left is there, or another one began with it.
EndsLeft(u) ==
  /\ \A t \in AllRecords : u \in t.users =>
       \A v \in t.new : v = View(row[u]) \/ Left(AllRecords, req, u, v)
  /\ \A w \in Workers : u \in req[w].users =>
       \A v \in req[w].result : v = View(row[u]) \/ Left(AllRecords, req, u, v)

\* Who was not disturbed holds what the row is.
OldHolds(u) ==
  \A w \in Workers :
    /\ u \in req[w].users /\ u \in DOMAIN req[w].old
    /\ ~req[w].committed /\ ~req[w].disturbed
    => req[w].old[u] = View(row[u])

Chained == \A u \in Users : Clean(u) => BeginsMade(u) /\ EndsLeft(u) /\ OldHolds(u)

-----------------------------------------------------------------------------
(* What is left of a script after a call.                                  *)

LEMMA NotEmpty == ASSUME NEW t \in Seq(Calls) PROVE t # <<>> <=> Len(t) >= 1
OBVIOUS

LEMMA TodoReplaced ==
  ASSUME NEW m \in Handlers, NEW t \in Seq(Calls), NEW s, s = [m EXCEPT !.todo = t]
  PROVE  /\ s \in Handlers /\ s.todo = t /\ s.op = m.op /\ s.users = m.users
         /\ s.old = m.old /\ s.result = m.result
         /\ s.committed = m.committed /\ s.disturbed = m.disturbed
BY DEF Handlers

\* A call that comes after the next one.
Later(r, call) == \E j \in 2..Len(r.todo) : r.todo[j] = call

LEMMA TailScripted ==
  ASSUME NEW op, NEW todo, Scripted(op, todo), todo # <<>>
  PROVE  Scripted(op, Tail(todo))
<1> DEFINE t == Tail(todo)
<1>1. todo \in Seq(Calls) /\ t \in Seq(Calls) /\ Len(todo) \in Nat /\ Len(todo) >= 1
  BY DEF Scripted
<1>2. /\ Len(t) = Len(todo) - 1
      /\ \A i \in 1..Len(t) : i + 1 \in 1..Len(todo) /\ t[i] = todo[i + 1]
  BY <1>1
<1>3. \A k \in 2..Len(todo) : k - 1 \in 1..Len(t) /\ t[k - 1] = todo[k]
  BY <1>1, <1>2
<1> HIDE DEF t
<1>4. \A i \in 1..Len(t) : Belongs(op, t[i])
  BY <1>2 DEF Scripted
<1>5. ASSUME NEW i \in 1..Len(t), NEW j \in 1..Len(t), i < j PROVE Follows(t[i], t[j])
  <2>1. i + 1 \in 1..Len(todo) /\ j + 1 \in 1..Len(todo) /\ i + 1 < j + 1
    BY <1>2, <1>5
  <2>2. Follows(todo[i + 1], todo[j + 1])
    BY <2>1 DEF Scripted
  <2>3. QED
    BY <1>2, <2>2
<1>6. ASSUME NEW i \in 1..Len(t), t[i] \in Writing, op \in Edits
      PROVE  \E j \in 1..Len(t) : i < j /\ t[j] = "reread"
  <2>1. PICK k \in 1..Len(todo) : i + 1 < k /\ todo[k] = "reread"
    BY <1>2, <1>6 DEF Scripted
  <2>2. k \in 2..Len(todo) /\ i < k - 1
    BY <1>1, <1>2, <2>1
  <2>3. QED
    BY <1>3, <2>1, <2>2
<1>7. ASSUME op \in Audited, t # <<>> PROVE \E i \in 1..Len(t) : t[i] = "record"
  <2>1. PICK k \in 1..Len(todo) : todo[k] = "record"
    BY <1>1, <1>7 DEF Scripted
  <2>2. Len(t) >= 1
    BY <1>1, <1>7, NotEmpty
  <2>3. k # 1
    <3>1. 1 \in 1..Len(todo) /\ 2 \in 1..Len(todo) /\ 1 < 2
      BY <1>1, <1>2, <2>2
    <3>2. Follows(todo[1], todo[2])
      BY <3>1 DEF Scripted
    <3>3. QED
      BY <2>1, <3>2 DEF Follows
  <2>4. k \in 2..Len(todo)
    BY <1>1, <2>1, <2>3
  <2>5. QED
    BY <1>3, <2>1, <2>4
<1>8. ASSUME NEW i \in 1..Len(t), t[i] = "find", op \in {"update", "edit"}
      PROVE  i + 1 \in 1..Len(t) /\ t[i + 1] = "conflict"
  <2>1. (i + 1) + 1 \in 1..Len(todo) /\ todo[(i + 1) + 1] = "conflict"
    BY <1>2, <1>8 DEF Scripted
  <2>2. i + 1 \in 1..Len(t)
    BY <1>1, <1>2, <2>1
  <2>3. QED
    BY <1>2, <2>1, <2>2
<1>9. Scripted(op, t)
  BY <1>1, <1>4, <1>5, <1>6, <1>7, <1>8 DEF Scripted, t
<1>10. QED
  BY <1>9 DEF t

(* The first call and those after it.                                      *)
LEMMA FirstAndLater ==
  ASSUME NEW r \in Handlers, r.todo # <<>>
  PROVE  /\ 1 \in 1..Len(r.todo) /\ Head(r.todo) = r.todo[1] /\ r.todo[1] \in Calls
         /\ \A call : Awaits(r, call) <=> call = r.todo[1] \/ Later(r, call)
<1>1. r.todo \in Seq(Calls) /\ Len(r.todo) \in Nat /\ Len(r.todo) >= 1
  BY DEF Handlers
<1>2. 1 \in 1..Len(r.todo) /\ Head(r.todo) = r.todo[1] /\ r.todo[1] \in Calls
  BY <1>1
<1>3. \A i : i \in 1..Len(r.todo) <=> i = 1 \/ i \in 2..Len(r.todo)
  BY <1>1
<1>4. ASSUME NEW call PROVE Awaits(r, call) <=> call = r.todo[1] \/ Later(r, call)
  BY <1>2, <1>3 DEF Awaits, Later
<1>5. QED
  BY <1>2, <1>4

(* What a script says of the next call and of those after it.              *)
LEMMA ScriptedFirst ==
  ASSUME NEW r \in Handlers, r.todo # <<>>, Scripted(r.op, r.todo)
  PROVE  /\ \A call : Later(r, call) => Follows(r.todo[1], call)
         /\ \A call : Awaits(r, call) => Belongs(r.op, call)
         /\ r.todo[1] \in Writing /\ r.op \in Edits => Later(r, "reread")
         /\ r.op \in Audited => Awaits(r, "record")
         /\ r.op \in Audited /\ r.todo[1] # "record" => Later(r, "record")
<1>1. r.todo \in Seq(Calls) /\ Len(r.todo) \in Nat /\ 1 \in 1..Len(r.todo)
  BY FirstAndLater DEF Handlers
<1>2. ASSUME NEW call, Later(r, call) PROVE Follows(r.todo[1], call)
  <2>1. PICK j \in 2..Len(r.todo) : r.todo[j] = call
    BY <1>2 DEF Later
  <2>2. j \in 1..Len(r.todo) /\ 1 < j
    BY <1>1, <2>1
  <2>3. QED
    BY <1>1, <2>1, <2>2 DEF Scripted
<1>3. ASSUME NEW call, Awaits(r, call) PROVE Belongs(r.op, call)
  BY <1>3 DEF Awaits, Scripted
<1>4. ASSUME r.todo[1] \in Writing, r.op \in Edits PROVE Later(r, "reread")
  <2>1. PICK j \in 1..Len(r.todo) : 1 < j /\ r.todo[j] = "reread"
    BY <1>1, <1>4 DEF Scripted
  <2>2. j \in 2..Len(r.todo)
    BY <1>1, <2>1
  <2>3. QED
    BY <2>1, <2>2 DEF Later
<1>5. r.op \in Audited => Awaits(r, "record")
  BY DEF Scripted, Awaits
<1>6. r.op \in Audited /\ r.todo[1] # "record" => Later(r, "record")
  BY <1>5, FirstAndLater
<1>7. QED
  BY <1>2, <1>3, <1>4, <1>5, <1>6

(* A handler that goes on still makes its later calls, but for a check it  *)
(* can skip, and makes no others.                                          *)
LEMMA Onward ==
  ASSUME NEW r \in Handlers, r.todo # <<>>, Scripted(r.op, r.todo), NEW m \in Handlers,
         \/ m.todo = r.todo
         \/ r.op \in {"update", "edit"} /\ r.todo[1] = "find" /\ m.todo = Tail(r.todo)
  PROVE  /\ \A call : Awaits(After(m), call) => Later(r, call)
         /\ \A call : Later(r, call) /\ call # "conflict" => Awaits(After(m), call)
         /\ \/ After(m) = Idle /\ After(m).todo = <<>>
            \/ /\ After(m).todo # <<>> /\ Scripted(r.op, After(m).todo)
               /\ After(m) \in Handlers
               /\ After(m).op = m.op /\ After(m).users = m.users
               /\ After(m).old = m.old /\ After(m).result = m.result
               /\ After(m).committed = m.committed
               /\ After(m).disturbed = m.disturbed
<1>1. r.todo \in Seq(Calls) /\ Len(r.todo) \in Nat /\ 1 \in 1..Len(r.todo)
  BY FirstAndLater DEF Handlers
<1>2. Len(m.todo) \in Nat /\ m.todo \in Seq(Calls)
  BY DEF Handlers
<1> DEFINE s == After(m)
<1>3. CASE Len(m.todo) <= 1
  <2>1. s = Idle /\ s.todo = <<>>
    BY <1>3, IdleTyped DEF After
  <2>2. \A call : ~Awaits(s, call)
    BY <2>1 DEF Awaits
  <2>3. \A call : Later(r, call) => call = "conflict"
    <3>1. CASE m.todo = r.todo
      BY <1>1, <1>3, <3>1 DEF Later
    <3>2. CASE r.op \in {"update", "edit"} /\ r.todo[1] = "find" /\ m.todo = Tail(r.todo)
      <4>1. r.todo[1 + 1] = "conflict"
        BY <1>1, <3>2 DEF Scripted
      <4>2. Len(r.todo) <= 2
        BY <1>1, <1>3, <3>2
      <4>3. ASSUME NEW j \in 2..Len(r.todo) PROVE r.todo[j] = "conflict"
        <5>1. j = 1 + 1
          BY <1>1, <4>2
        <5>2. QED
          BY <4>1, <5>1
      <4>4. QED
        BY <4>3 DEF Later
    <3>3. QED
      BY <3>1, <3>2
  <2>4. QED
    BY <2>1, <2>2, <2>3
<1>4. CASE ~(Len(m.todo) <= 1)
  <2>1. s = [m EXCEPT !.todo = Tail(m.todo)]
    BY <1>4 DEF After
  <2>2. /\ s.todo = Tail(m.todo) /\ s.op = m.op /\ s.users = m.users
        /\ s.old = m.old /\ s.result = m.result
        /\ s.committed = m.committed /\ s.disturbed = m.disturbed
        /\ s \in Handlers
    <3>1. Tail(m.todo) \in Seq(Calls)
      BY <1>2, <1>4
    <3> DEFINE t == Tail(m.todo)
    <3>2. t \in Seq(Calls) /\ s = [m EXCEPT !.todo = t]
      BY <2>1, <3>1
    <3> HIDE DEF s, t
    <3>3. /\ s \in Handlers /\ s.todo = t /\ s.op = m.op /\ s.users = m.users
          /\ s.old = m.old /\ s.result = m.result
          /\ s.committed = m.committed /\ s.disturbed = m.disturbed
      BY <3>2, TodoReplaced
    <3>4. QED
      BY <3>3 DEF t
  <2>3. s.todo # <<>> /\ m.todo # <<>> /\ Len(s.todo) = Len(m.todo) - 1
        /\ \A i \in 1..Len(s.todo) : s.todo[i] = m.todo[i + 1]
    <3> HIDE DEF s
    <3>1. /\ Len(Tail(m.todo)) = Len(m.todo) - 1 /\ Tail(m.todo) \in Seq(Calls)
          /\ \A i \in 1..Len(Tail(m.todo)) : Tail(m.todo)[i] = m.todo[i + 1]
      BY <1>2, <1>4
    <3>2. Len(Tail(m.todo)) >= 1 /\ Len(m.todo) >= 1
      BY <1>2, <1>4, <3>1
    <3>3. QED
      BY <1>2, <2>2, <3>1, <3>2, NotEmpty
  <2> HIDE DEF s
  <2>4. Scripted(r.op, m.todo)
    BY TailScripted
  <2>5. Scripted(r.op, s.todo)
    BY <2>2, <2>3, <2>4, TailScripted
  <2>6. CASE m.todo = r.todo
    <3>1. ASSUME NEW call, Awaits(s, call) PROVE Later(r, call)
      <4>1. PICK i \in 1..Len(s.todo) : s.todo[i] = call
        BY <3>1 DEF Awaits
      <4>2. i + 1 \in 2..Len(r.todo) /\ r.todo[i + 1] = call
        BY <1>1, <2>3, <2>6, <4>1
      <4>3. QED
        BY <4>2 DEF Later
    <3>2. ASSUME NEW call, Later(r, call) PROVE Awaits(s, call)
      <4>1. PICK j \in 2..Len(r.todo) : r.todo[j] = call
        BY <3>2 DEF Later
      <4>2. j - 1 \in 1..Len(s.todo) /\ (j - 1) + 1 = j
        BY <1>1, <2>3, <2>6, <4>1
      <4>3. s.todo[j - 1] = call
        BY <2>3, <2>6, <4>1, <4>2
      <4>4. QED
        BY <4>2, <4>3 DEF Awaits
    <3>3. QED
      BY <2>2, <2>3, <2>5, <3>1, <3>2 DEF s
  <2>7. CASE r.op \in {"update", "edit"} /\ r.todo[1] = "find" /\ m.todo = Tail(r.todo)
    <3>1. r.todo[1 + 1] = "conflict"
      BY <1>1, <2>7 DEF Scripted
    <3>2. Len(m.todo) = Len(r.todo) - 1 /\ \A i \in 1..Len(m.todo) : m.todo[i] = r.todo[i + 1]
      BY <1>1, <2>7
    <3>3. ASSUME NEW call, Awaits(s, call) PROVE Later(r, call)
      <4>1. PICK i \in 1..Len(s.todo) : s.todo[i] = call
        BY <3>3 DEF Awaits
      <4>2. i + 1 \in 1..Len(m.todo) /\ m.todo[i + 1] = call
        BY <1>2, <2>3, <4>1
      <4>3. (i + 1) + 1 \in 2..Len(r.todo) /\ r.todo[(i + 1) + 1] = call
        BY <1>1, <3>2, <4>2
      <4>4. QED
        BY <4>3 DEF Later
    <3>4. ASSUME NEW call, Later(r, call), call # "conflict" PROVE Awaits(s, call)
      <4>1. PICK j \in 2..Len(r.todo) : r.todo[j] = call
        BY <3>4 DEF Later
      <4>2. j # 2
        BY <3>1, <3>4, <4>1
      <4>3. j - 1 \in 1..Len(m.todo) /\ (j - 1) + 1 = j
        BY <1>1, <3>2, <4>1
      <4>4. m.todo[j - 1] = call
        BY <3>2, <4>1, <4>3
      <4>5. j - 2 \in 1..Len(s.todo) /\ (j - 2) + 1 = j - 1
        BY <1>1, <2>3, <3>2, <4>1, <4>2
      <4>6. s.todo[j - 2] = call
        BY <2>3, <4>4, <4>5
      <4>7. QED
        BY <4>5, <4>6 DEF Awaits
    <3>5. QED
      BY <2>2, <2>3, <2>5, <3>3, <3>4 DEF s
  <2>8. QED
    BY <2>6, <2>7
<1>5. QED
  BY <1>2, <1>3, <1>4

-----------------------------------------------------------------------------
(* What a call does to the handlers.                                       *)

LEMMA AfterKeeps ==
  ASSUME NEW m \in Handlers, After(m).todo # <<>>
  PROVE  After(m).result = m.result
<1>1. ~(Len(m.todo) <= 1)
  BY IdleTyped DEF After
<1>2. After(m) = [m EXCEPT !.todo = Tail(@)]
  BY <1>1 DEF After
<1>3. QED
  BY <1>2 DEF Handlers

\* Another handler learns at most that it was disturbed.
Alike(r, s) ==
  /\ s.todo = r.todo /\ s.users = r.users /\ s.op = r.op
  /\ s.old = r.old /\ s.result = r.result
  /\ s.committed = r.committed
  /\ r.disturbed => s.disturbed

\* The handler of w as its next call has left it, before it goes on.
Middle(w, m) ==
  /\ m \in Handlers /\ m.users = req[w].users /\ m.op = req[w].op
  /\ \/ m.todo = req[w].todo
     \/ req[w].op \in {"update", "edit"} /\ req[w].todo[1] = "find" /\ m.todo = Tail(req[w].todo)
  /\ IF req[w].todo[1] = "old"
       THEN m.old = [u \in req[w].users |-> View(row[u])]
       ELSE m.old = req[w].old
  /\ IF req[w].todo[1] = "reread"
       THEN \A u \in req[w].users :
              Live(u) /\ (After(m).todo # <<>> => m.result = {View(row[u])})
       ELSE m.result = req[w].result
  /\ m.committed <=> (req[w].committed \/ req[w].todo[1] \in Writing)
  /\ req[w].disturbed => m.disturbed

LEMMA AlikeSelf == \A r : Alike(r, r)
BY DEF Alike

LEMMA GoesOthers ==
  ASSUME Inv, NEW w \in Workers, NEW r, Goes(w, r) \/ Throw(w), NEW v \in Workers, v # w
  PROVE  Alike(req[v], req'[v])
BY AlikeSelf DEF Goes, Throw, Inv, TypeOK

LEMMA WritesShape ==
  ASSUME Inv, NEW w \in Workers, NEW S, NEW why, Writes(w, S, why)
  PROVE  /\ req'[w] = After([req[w] EXCEPT !.committed = TRUE])
         /\ \A v \in Workers \ {w} :
              /\ Alike(req[v], req'[v])
              /\ req[v].users \intersect S # {} => req'[v].disturbed
<1> DEFINE d(v) == [req[v] EXCEPT !.disturbed = @ \/ req[v].users \intersect S # {}]
<1>1. /\ req'[w] = After([req[w] EXCEPT !.committed = TRUE])
      /\ \A v \in Workers \ {w} : req'[v] = d(v)
  BY DEF Writes
<1>2. ASSUME NEW v \in Workers
      PROVE  /\ Alike(req[v], d(v))
             /\ req[v].users \intersect S # {} => d(v).disturbed
  BY HandlerTyped DEF Typed, Handlers, Alike
<1>3. QED
  BY <1>1, <1>2

\* The writing calls: a handler throws, or it writes.
LEMMA WritingCalls ==
  ASSUME Inv, NEW w \in Workers,
         Insert(w) \/ UpdateRow(w) \/ DeleteRow(w) \/ DeleteMany(w)
  PROVE  /\ UNCHANGED <<queue, trail>> /\ req[w].todo[1] \in Writing
         /\ \/ Throw(w) /\ UNCHANGED row
            \/ \E S, why : Writes(w, S, why)
<1>1. req[w].todo[1] \in Writing
  BY AtAwaits DEF Insert, UpdateRow, DeleteRow, DeleteMany, Writing
<1>2. PICK u \in req[w].users : u \in Users
  BY SomeUser DEF Insert, UpdateRow, DeleteRow, DeleteMany, At
<1>3. QED
  BY <1>1, <1>2 DEF Insert, UpdateRow, DeleteRow, DeleteMany

LEMMA CallOthers ==
  ASSUME Inv, NEW w \in Workers, Call(w) \/ Fail(w), NEW v \in Workers, v # w
  PROVE  Alike(req[v], req'[v])
<1>1. PICK u \in req[w].users : u \in Users
  BY CallBusy, SomeUser DEF Busy
<1>2. CASE Insert(w) \/ UpdateRow(w) \/ DeleteRow(w) \/ DeleteMany(w)
  BY <1>2, WritingCalls, WritesShape, GoesOthers
<1>3. CASE ~(Insert(w) \/ UpdateRow(w) \/ DeleteRow(w) \/ DeleteMany(w))
  <2>1. Throw(w) \/ \E r : Goes(w, r)
    BY <1>1, <1>3 DEF Call, FetchOld, Find, CheckConflict, Reread, Validate,
       RevokeAllUserSessions, Open, Record, Fail
  <2>2. QED
    BY <2>1, GoesOthers
<1>4. QED
  BY <1>2, <1>3

LEMMA GoesOwn ==
  ASSUME Inv, NEW w \in Workers, NEW r, Goes(w, r)
  PROVE  req'[w] = After(r)
BY DEF Goes, Inv, TypeOK

LEMMA CallShape ==
  ASSUME Inv, NEW w \in Workers, Call(w) \/ Fail(w)
  PROVE  \/ Throw(w) /\ UNCHANGED <<row, queue, trail>>
         \/ \E m : Middle(w, m) /\ req'[w] = After(m)
<1> DEFINE r == req[w]
<1>1. r \in Handlers /\ Sane(r) /\ r.todo # <<>> /\ Busy(w)
  BY CallBusy, HandlerTyped DEF Busy, Typed
<1>2. PICK u \in r.users : u \in Users
  BY <1>1, SomeUser
<1>3. r.committed \in BOOLEAN /\ r.disturbed \in BOOLEAN
  BY <1>1 DEF Handlers
<1>4. ASSUME Goes(w, r), r.todo[1] \notin {"old", "reread"} \union Writing
      PROVE  \E m : Middle(w, m) /\ req'[w] = After(m)
  <2>1. Middle(w, r)
    BY <1>1, <1>4 DEF Middle
  <2>2. QED
    BY <1>4, <2>1, GoesOwn
<1>5. CASE FetchOld(w)
  <2> DEFINE old == [x \in r.users |-> View(row[x])]
             m == [r EXCEPT !.old = old]
  <2>1. old \in Olds
    <3>1. r.users \in SUBSET Users
      BY <1>1 DEF Handlers
    <3>2. old \in [r.users -> Views]
      BY <3>1, ViewTyped DEF Inv, TypeOK
    <3>3. QED
      BY <3>1, <3>2 DEF Olds
  <2>2. /\ m \in Handlers /\ m.old = old /\ m.todo = r.todo /\ m.users = r.users
        /\ m.op = r.op /\ m.result = r.result /\ m.committed = r.committed
        /\ m.disturbed = r.disturbed
    BY <1>1, <2>1 DEF Handlers
  <2>3. r.todo[1] = "old" /\ req'[w] = After(m)
    BY <1>5, AtAwaits, GoesOwn DEF FetchOld
  <2> HIDE DEF m
  <2>4. Middle(w, m)
    BY <1>3, <2>2, <2>3 DEF Middle, Writing
  <2>5. QED
    BY <2>3, <2>4
<1>6. CASE Find(w)
  <2> DEFINE skip == [r EXCEPT !.todo = Tail(@)]
  <2>1. r.todo[1] = "find"
    BY <1>6, AtAwaits DEF Find
  <2>2. \/ Goes(w, skip) /\ r.op \in {"update", "edit"}
        \/ Goes(w, r)
        \/ Throw(w) /\ UNCHANGED <<row, queue, trail>>
    BY <1>2, <1>6 DEF Find
  <2>3. ASSUME Goes(w, skip), r.op \in {"update", "edit"}
        PROVE  \E m : Middle(w, m) /\ req'[w] = After(m)
    <3>1. skip \in Handlers
      BY <1>1, TailSane
    <3>2. /\ skip.old = r.old /\ skip.todo = Tail(r.todo) /\ skip.users = r.users
          /\ skip.op = r.op /\ skip.result = r.result /\ skip.committed = r.committed
          /\ skip.disturbed = r.disturbed
      BY <1>1 DEF Handlers
    <3>3. req'[w] = After(skip)
      BY <2>3, GoesOwn
    <3> HIDE DEF skip
    <3>4. Middle(w, skip)
      BY <1>3, <2>1, <2>3, <3>1, <3>2 DEF Middle, Writing
    <3>5. QED
      BY <3>3, <3>4
  <2>4. QED
    BY <1>4, <2>1, <2>2, <2>3 DEF Writing
<1>7. CASE Reread(w)
  <2> DEFINE m == [r EXCEPT !.result = {View(row[u])}]
  <2>1. View(row[u]) \in Views
    BY <1>2, ViewTyped DEF Inv, TypeOK
  <2>2. /\ m \in Handlers /\ m.old = r.old /\ m.todo = r.todo /\ m.users = r.users
        /\ m.op = r.op /\ m.result = {View(row[u])} /\ m.committed = r.committed
        /\ m.disturbed = r.disturbed
    BY <1>1, <2>1 DEF Handlers
  <2>3. r.todo[1] = "reread"
    BY <1>7, AtAwaits DEF Reread
  <2>4. CASE Throw(w)
    BY <1>7, <2>4 DEF Reread
  <2>5. CASE ~Throw(w)
    <3>1. \A x \in r.users : Live(x) /\ Goes(w, [r EXCEPT !.result = {View(row[x])}])
      BY <1>7, <2>5 DEF Reread
    <3>2. req'[w] = After(m)
      BY <1>2, <3>1, GoesOwn
    <3>3. ASSUME NEW x \in r.users, After(m).todo # <<>> PROVE m.result = {View(row[x])}
      <4> DEFINE n == [r EXCEPT !.result = {View(row[x])}]
      <4>1. After(n) = After(m)
        BY <3>1, <3>2, GoesOwn
      <4>2. x \in Users /\ View(row[x]) \in Views
        BY <1>1, ViewTyped DEF Handlers, Inv, TypeOK
      <4>3. n \in Handlers /\ n.result = {View(row[x])}
        BY <1>1, <4>2 DEF Handlers
      <4> HIDE DEF m, n
      <4>4. After(m).result = m.result /\ After(n).result = n.result
        BY <2>2, <3>3, <4>1, <4>3, AfterKeeps
      <4>5. QED
        BY <2>2, <4>1, <4>3, <4>4
    <3> HIDE DEF m
    <3>4. Middle(w, m)
      BY <1>3, <2>2, <2>3, <3>1, <3>3 DEF Middle, Writing
    <3>5. QED
      BY <3>2, <3>4
  <2>6. QED
    BY <2>4, <2>5
<1>8. CASE Validate(w) \/ CheckConflict(w)
  <2>1. r.todo[1] \in {"validate", "conflict"}
    BY <1>8, AtAwaits DEF Validate, CheckConflict
  <2>2. Goes(w, r) \/ (Throw(w) /\ UNCHANGED <<row, queue, trail>>)
    BY <1>2, <1>8 DEF Validate, CheckConflict
  <2>3. QED
    BY <1>4, <2>1, <2>2 DEF Writing
<1>9. CASE RevokeAllUserSessions(w) \/ Open(w) \/ Record(w)
  <2>1. r.todo[1] \in {"revoke", "open", "record"}
    BY <1>9, AtAwaits DEF RevokeAllUserSessions, Open, Record
  <2>2. Goes(w, r)
    BY <1>9 DEF RevokeAllUserSessions, Open, Record
  <2>3. QED
    BY <1>4, <2>1, <2>2 DEF Writing
<1>10. CASE Insert(w) \/ UpdateRow(w) \/ DeleteRow(w) \/ DeleteMany(w)
  <2>1. /\ r.todo[1] \in Writing
        /\ \/ Throw(w) /\ UNCHANGED <<row, queue, trail>>
           \/ \E S, why : Writes(w, S, why)
    BY <1>10, WritingCalls
  <2> DEFINE m == [r EXCEPT !.committed = TRUE]
  <2>2. /\ m \in Handlers /\ m.old = r.old /\ m.todo = r.todo /\ m.users = r.users
        /\ m.op = r.op /\ m.result = r.result /\ m.committed
        /\ m.disturbed = r.disturbed
    BY <1>1 DEF Handlers
  <2>3. ASSUME NEW S, NEW why, Writes(w, S, why) PROVE req'[w] = After(m)
    BY <2>3, WritesShape
  <2> HIDE DEF m
  <2>4. Middle(w, m)
    BY <1>3, <2>1, <2>2 DEF Middle, Writing
  <2>5. QED
    BY <2>1, <2>3, <2>4
<1>11. CASE Fail(w)
  BY <1>11 DEF Fail
<1>12. QED
  BY <1>5, <1>6, <1>7, <1>8, <1>9, <1>10, <1>11 DEF Call

-----------------------------------------------------------------------------
(* Every handler is on its script.                                         *)

LEMMA IdleOnScript == OnScript(Idle) /\ Idle.op = "none" /\ ~Idle.committed
                      /\ Idle.result = {} /\ Idle.old = <<>>
<1>1. /\ Idle.op = "none" /\ ~Idle.committed /\ Idle.result = {} /\ Idle.old = <<>>
      /\ Idle.todo = <<>>
  BY DEF Idle
<1>2. Scripted("none", <<>>)
  BY DEF Scripted, Audited
<1>3. Progress(Idle)
  BY <1>1 DEF Progress, Audited
<1>4. QED
  BY <1>1, <1>2, <1>3 DEF OnScript

\* A request that has just been admitted.
Fresh(r, op, S, todo) ==
  /\ r.op = op /\ r.users = S /\ r.todo = todo
  /\ r.old = <<>> /\ r.result = {} /\ ~r.committed

\* A script that begins with the old value, if that is recorded, and writes.
WholeScript(op, todo) ==
  /\ Scripted(op, todo)
  /\ op \in Audited \ {"create"} => \E i \in 1..Len(todo) : todo[i] = "old"
  /\ op # "login" => \E i \in 1..Len(todo) : todo[i] \in Writing

LEMMA Scripts ==
  /\ WholeScript("remove", <<"old", "find", "delete", "record">>)
  /\ WholeScript("verify", <<"old", "find", "update", "reread", "record">>)
  /\ WholeScript("update", <<"old", "find", "conflict", "update", "reread", "record">>)
  /\ WholeScript("edit", <<"old", "find", "conflict", "update", "reread", "record">>)
  /\ WholeScript("activate", <<"old", "find", "update", "reread", "record">>)
  /\ WholeScript("status", <<"find", "update", "reread">>)
  /\ WholeScript("reset", <<"find", "update", "revoke">>)
  /\ WholeScript("login", <<"validate", "open">>)
  /\ WholeScript("change", <<"old", "find", "update", "revoke", "record">>)
  /\ WholeScript("create", <<"conflict", "insert", "reread", "record">>)
  /\ WholeScript("batch", <<"old", "deleteMany", "record">>)
<1>1. WholeScript("remove", <<"old", "find", "delete", "record">>)
  <2> DEFINE todo == <<"old", "find", "delete", "record">>
  <2>1. Scripted("remove", todo)
    BY DEF Scripted, Calls, Belongs, Fitting, Updaters, Follows, Writing, Closing, Edits,
           Audited
  <2>2. (\E i \in 1..Len(todo) : todo[i] = "old") /\ \E i \in 1..Len(todo) : todo[i] \in Writing
    BY DEF Writing
  <2>3. QED
    BY <2>1, <2>2 DEF WholeScript, Audited
<1>2. WholeScript("verify", <<"old", "find", "update", "reread", "record">>)
  <2> DEFINE todo == <<"old", "find", "update", "reread", "record">>
  <2>1. Scripted("verify", todo)
    BY DEF Scripted, Calls, Belongs, Fitting, Updaters, Follows, Writing, Closing, Edits,
           Audited
  <2>2. (\E i \in 1..Len(todo) : todo[i] = "old") /\ \E i \in 1..Len(todo) : todo[i] \in Writing
    BY DEF Writing
  <2>3. QED
    BY <2>1, <2>2 DEF WholeScript, Audited
<1>3. WholeScript("update", <<"old", "find", "conflict", "update", "reread", "record">>)
  <2> DEFINE todo == <<"old", "find", "conflict", "update", "reread", "record">>
  <2>1. Scripted("update", todo)
    BY DEF Scripted, Calls, Belongs, Fitting, Updaters, Follows, Writing, Closing, Edits,
           Audited
  <2>2. (\E i \in 1..Len(todo) : todo[i] = "old") /\ \E i \in 1..Len(todo) : todo[i] \in Writing
    BY DEF Writing
  <2>3. QED
    BY <2>1, <2>2 DEF WholeScript, Audited
<1>4. WholeScript("status", <<"find", "update", "reread">>)
  <2> DEFINE todo == <<"find", "update", "reread">>
  <2>1. Scripted("status", todo)
    BY DEF Scripted, Calls, Belongs, Fitting, Updaters, Follows, Writing, Closing, Edits,
           Audited
  <2>2. \E i \in 1..Len(todo) : todo[i] \in Writing
    BY DEF Writing
  <2>3. QED
    BY <2>1, <2>2 DEF WholeScript, Audited
<1>5. WholeScript("reset", <<"find", "update", "revoke">>)
  <2> DEFINE todo == <<"find", "update", "revoke">>
  <2>1. Scripted("reset", todo)
    BY DEF Scripted, Calls, Belongs, Fitting, Updaters, Follows, Writing, Closing, Edits,
           Audited
  <2>2. \E i \in 1..Len(todo) : todo[i] \in Writing
    BY DEF Writing
  <2>3. QED
    BY <2>1, <2>2 DEF WholeScript, Audited
<1>6. WholeScript("change", <<"old", "find", "update", "revoke", "record">>)
  <2> DEFINE todo == <<"old", "find", "update", "revoke", "record">>
  <2>1. Scripted("change", todo)
    BY DEF Scripted, Calls, Belongs, Fitting, Updaters, Follows, Writing, Closing, Edits,
           Audited
  <2>2. (\E i \in 1..Len(todo) : todo[i] = "old") /\ \E i \in 1..Len(todo) : todo[i] \in Writing
    BY DEF Writing
  <2>3. QED
    BY <2>1, <2>2 DEF WholeScript, Audited
<1>7. WholeScript("create", <<"conflict", "insert", "reread", "record">>)
  <2> DEFINE todo == <<"conflict", "insert", "reread", "record">>
  <2>1. Scripted("create", todo)
    BY DEF Scripted, Calls, Belongs, Fitting, Updaters, Follows, Writing, Closing, Edits,
           Audited
  <2>2. \E i \in 1..Len(todo) : todo[i] \in Writing
    BY DEF Writing
  <2>3. QED
    BY <2>1, <2>2 DEF WholeScript, Audited
<1>8. WholeScript("batch", <<"old", "deleteMany", "record">>)
  <2> DEFINE todo == <<"old", "deleteMany", "record">>
  <2>1. Scripted("batch", todo)
    BY DEF Scripted, Calls, Belongs, Fitting, Updaters, Follows, Writing, Closing, Edits,
           Audited
  <2>2. (\E i \in 1..Len(todo) : todo[i] = "old") /\ \E i \in 1..Len(todo) : todo[i] \in Writing
    BY DEF Writing
  <2>3. QED
    BY <2>1, <2>2 DEF WholeScript, Audited
<1>9. WholeScript("login", <<"validate", "open">>)
  BY DEF WholeScript, Scripted, Calls, Belongs, Fitting, Updaters, Follows, Writing, Closing,
         Edits, Audited
<1>10. WholeScript("edit", <<"old", "find", "conflict", "update", "reread", "record">>)
  <2> DEFINE todo == <<"old", "find", "conflict", "update", "reread", "record">>
  <2>1. Scripted("edit", todo)
    BY DEF Scripted, Calls, Belongs, Fitting, Updaters, Follows, Writing, Closing, Edits,
           Audited
  <2>2. (\E i \in 1..Len(todo) : todo[i] = "old") /\ \E i \in 1..Len(todo) : todo[i] \in Writing
    BY DEF Writing
  <2>3. QED
    BY <2>1, <2>2 DEF WholeScript, Audited
<1>11. WholeScript("activate", <<"old", "find", "update", "reread", "record">>)
  <2> DEFINE todo == <<"old", "find", "update", "reread", "record">>
  <2>1. Scripted("activate", todo)
    BY DEF Scripted, Calls, Belongs, Fitting, Updaters, Follows, Writing, Closing, Edits,
           Audited
  <2>2. (\E i \in 1..Len(todo) : todo[i] = "old") /\ \E i \in 1..Len(todo) : todo[i] \in Writing
    BY DEF Writing
  <2>3. QED
    BY <2>1, <2>2 DEF WholeScript, Audited
<1>12. QED
  BY <1>1, <1>2, <1>3, <1>4, <1>5, <1>6, <1>7, <1>8, <1>9, <1>10, <1>11

LEMMA BeginFresh ==
  ASSUME Inv, NEW w \in Workers, NEW op, NEW S, NEW arg, NEW guess, NEW todo,
         Begin(w, op, S, arg, guess, todo)
  PROVE  /\ Fresh(req'[w], op, S, todo) /\ req[w] = Idle
         /\ \A v \in Workers \ {w} : req'[v] = req[v]
         /\ UNCHANGED <<row, session, queue, trail, cause>>
<1> DEFINE r == [Idle EXCEPT !.op = op, !.users = S, !.arg = arg, !.guess = guess,
                             !.todo = todo]
<1>1. Fresh(r, op, S, todo)
  BY DEF Idle, Fresh
<1>2. req' = [req EXCEPT ![w] = r] /\ req[w] = Idle
  BY DEF Begin
<1>3. QED
  BY <1>1, <1>2 DEF Begin, Inv, TypeOK

LEMMA FreshOnScript ==
  ASSUME NEW r, NEW op, NEW S, NEW todo, Fresh(r, op, S, todo), WholeScript(op, todo)
  PROVE  OnScript(r)
<1>1. op # "login" => \E c \in Writing : Awaits(r, c)
  BY DEF Fresh, Awaits, WholeScript
<1>2. op \in Audited \ {"create"} => Awaits(r, "old")
  BY DEF Fresh, Awaits, WholeScript
<1>3. QED
  BY <1>1, <1>2 DEF Fresh, OnScript, Progress, WholeScript

\* What a request is: whom it is about, and its script.
LEMMA RequestFresh ==
  ASSUME Inv, NEW w \in Workers, Request(w)
  PROVE  /\ \A v \in Workers \ {w} : req'[v] = req[v]
         /\ req[w] = Idle /\ UNCHANGED <<row, session, queue, trail, cause>>
         /\ OnScript(req'[w]) /\ req'[w].old = <<>> /\ req'[w].result = {}
         /\ ~req'[w].committed
         /\ req'[w].op # "create" => \A u \in req'[w].users : Known(u)
<1> DEFINE Admitted ==
      /\ \A v \in Workers \ {w} : req'[v] = req[v]
      /\ req[w] = Idle /\ UNCHANGED <<row, session, queue, trail, cause>>
      /\ OnScript(req'[w]) /\ req'[w].old = <<>> /\ req'[w].result = {}
      /\ ~req'[w].committed
      /\ req'[w].op # "create" => \A u \in req'[w].users : Known(u)
<1>1. ASSUME NEW op, NEW S, NEW arg, NEW guess, NEW todo,
             Begin(w, op, S, arg, guess, todo), WholeScript(op, todo),
             op # "create" => \A u \in S : Known(u)
      PROVE  Admitted
  <2>1. /\ Fresh(req'[w], op, S, todo) /\ req[w] = Idle
        /\ \A v \in Workers \ {w} : req'[v] = req[v]
        /\ UNCHANGED <<row, session, queue, trail, cause>>
    BY <1>1, BeginFresh
  <2>2. OnScript(req'[w])
    BY <1>1, <2>1, FreshOnScript
  <2>3. QED
    BY <1>1, <2>1, <2>2 DEF Fresh
<1> HIDE DEF Admitted
<1>2. ASSUME NEW u \in Users, Remove(w, u) PROVE Admitted
  BY <1>1, <1>2, Scripts DEF Remove
<1>3. ASSUME NEW u \in Users, VerifyUser(w, u) PROVE Admitted
  BY <1>1, <1>3, Scripts DEF VerifyUser
<1>4. ASSUME NEW u \in Users, NEW n, NEW b, Update(w, u, n, b) \/ UpdateProfile(w, u, n)
      PROVE  Admitted
  BY <1>1, <1>4, Scripts DEF Update, UpdateProfile
<1>5. ASSUME NEW u \in Users, NEW b, UpdateUserStatus(w, u, b) PROVE Admitted
  BY <1>1, <1>5, Scripts DEF UpdateUserStatus
<1>6. ASSUME NEW u \in Users, NEW p, ResetUserPassword(w, u, p) PROVE Admitted
  BY <1>1, <1>6, Scripts DEF ResetUserPassword
<1>7. ASSUME NEW u \in Users, NEW p, Login(w, u, p) PROVE Admitted
  BY <1>1, <1>7, Scripts DEF Login
<1>8. ASSUME NEW u \in Users, NEW g, NEW p, ChangePassword(w, u, g, p) PROVE Admitted
  BY <1>1, <1>8, Scripts DEF ChangePassword
<1>9. ASSUME NEW u \in Users, NEW n, NEW p, Create(w, u, n, p) PROVE Admitted
  BY <1>1, <1>9, Scripts DEF Create
<1>10. ASSUME NEW S \in SUBSET Users, BatchDelete(w, S) PROVE Admitted
  BY <1>1, <1>10, Scripts DEF BatchDelete
<1>11. Admitted
  BY <1>2, <1>3, <1>4, <1>5, <1>6, <1>7, <1>8, <1>9, <1>10 DEF Request
<1>12. QED
  BY <1>11 DEF Admitted

(* A handler that has made a call is on its script still.                  *)
LEMMA AfterOnScript ==
  ASSUME Inv, AllOnScript, NEW w \in Workers, Busy(w), NEW m, Middle(w, m)
  PROVE  OnScript(After(m))
<1> DEFINE r == req[w]
           s == After(m)
           f == r.todo[1]
<1>1. /\ r \in Handlers /\ r.todo # <<>> /\ Scripted(r.op, r.todo) /\ Progress(r)
      /\ m \in Handlers /\ m.op = r.op /\ m.users = r.users
  BY HandlerTyped DEF Typed, Busy, AllOnScript, OnScript, Middle
<1>2. CASE s = Idle
  BY <1>2, IdleOnScript
<1>3. CASE s # Idle
  <2>1. /\ \A call : Awaits(s, call) => Later(r, call)
        /\ \A call : Later(r, call) /\ call # "conflict" => Awaits(s, call)
    BY <1>1, Onward DEF Middle
  <2>2. /\ s.todo # <<>> /\ Scripted(r.op, s.todo) /\ s \in Handlers
        /\ s.op = r.op /\ s.users = r.users /\ s.old = m.old /\ s.result = m.result
        /\ s.committed = m.committed
    BY <1>1, <1>3, Onward DEF Middle
  <2>3. \A call : Later(r, call) => Follows(f, call)
    BY <1>1, ScriptedFirst
  <2>4. \A call : Awaits(r, call) <=> call = f \/ Later(r, call)
    BY <1>1, FirstAndLater
  <2>5. s.committed <=> r.committed \/ f \in Writing
    BY <2>2 DEF Middle
  <2> HIDE DEF s, f
  <2>6. ASSUME NEW i \in 1..Len(s.todo), s.committed PROVE s.todo[i] \in Closing
    <3>1. Awaits(s, s.todo[i])
      BY DEF Awaits
    <3>2. Later(r, s.todo[i]) /\ Awaits(r, s.todo[i])
      BY <2>1, <2>4, <3>1
    <3>3. CASE r.committed
      BY <1>1, <3>2, <3>3 DEF Progress, Awaits
    <3>4. CASE f \in Writing
      BY <2>3, <3>2, <3>4 DEF Follows
    <3>5. QED
      BY <2>5, <2>6, <3>3, <3>4
  <2>7. ASSUME s.result # {} PROVE s.committed /\ ~Awaits(s, "reread")
    <3>1. CASE f = "reread"
      <4>1. ~Later(r, "reread")
        BY <2>3, <3>1 DEF Follows
      <4>2. r.op # "login"
        <5>1. Belongs(r.op, "reread")
          BY <1>1, <2>4, <3>1, ScriptedFirst
        <5>2. QED
          BY <5>1 DEF Belongs, Edits
      <4>3. \A c \in Writing : ~Awaits(r, c)
        BY <2>3, <2>4, <3>1 DEF Follows, Writing
      <4>4. r.committed
        BY <1>1, <4>2, <4>3 DEF Progress
      <4>5. QED
        BY <2>1, <2>5, <4>1, <4>4
    <3>2. CASE f # "reread"
      <4>1. r.result # {}
        BY <2>2, <2>7, <3>2 DEF Middle, f
      <4>2. r.committed /\ ~Awaits(r, "reread")
        BY <1>1, <4>1 DEF Progress
      <4>3. QED
        BY <2>1, <2>4, <2>5, <4>2
    <3>3. QED
      BY <3>1, <3>2
  <2>8. ASSUME s.op \in Audited \ {"create"} PROVE DOMAIN s.old = s.users
    <3>1. CASE f = "old"
      BY <2>2, <3>1 DEF Middle, f
    <3>2. CASE f # "old"
      <4>1. ~Awaits(r, "old")
        BY <2>3, <2>4, <3>2 DEF Follows
      <4>2. DOMAIN r.old = r.users
        BY <1>1, <2>2, <2>8, <4>1 DEF Progress
      <4>3. QED
        BY <2>2, <3>2, <4>2 DEF Middle, f
    <3>3. QED
      BY <3>1, <3>2
  <2>9. ASSUME s.op = "create" PROVE s.old = <<>>
    <3>1. f # "old"
      <4>1. Belongs(r.op, f)
        BY <1>1, <2>4, ScriptedFirst
      <4>2. QED
        BY <2>2, <2>9, <4>1 DEF Belongs
    <3>2. QED
      BY <1>1, <2>2, <2>9, <3>1 DEF Progress, Middle, f
  <2>10. ASSUME s.op # "login" PROVE s.committed \/ \E c \in Writing : Awaits(s, c)
    <3>1. r.committed \/ \E c \in Writing : Awaits(r, c)
      BY <1>1, <2>2, <2>10 DEF Progress
    <3>2. QED
      BY <2>1, <2>4, <2>5, <3>1 DEF Writing
  <2>11. Progress(s)
    BY <2>2, <2>6, <2>7, <2>8, <2>9, <2>10 DEF Progress
  <2>12. QED
    BY <2>2, <2>11 DEF OnScript, s
<1>4. QED
  BY <1>2, <1>3

LEMMA AlikeOnScript ==
  ASSUME NEW r, NEW s, Alike(r, s), OnScript(r)
  PROVE  OnScript(s)
BY DEF Alike, OnScript, Progress, Awaits

LEMMA InitOnScript == Init => AllOnScript
BY IdleOnScript DEF Init, AllOnScript

LEMMA NextOnScript == Inv /\ AllOnScript /\ [Next]_vars => AllOnScript'
<1> SUFFICES ASSUME Inv, AllOnScript, [Next]_vars, NEW v \in Workers PROVE OnScript(req'[v])
  BY DEF AllOnScript, OnScript, Progress, Awaits
<1>1. OnScript(req[v])
  BY DEF AllOnScript
<1>2. ASSUME NEW w \in Workers, Request(w) PROVE OnScript(req'[v])
  BY <1>1, <1>2, RequestFresh
<1>3. ASSUME NEW w \in Workers, Call(w) \/ Fail(w) PROVE OnScript(req'[v])
  <2>1. CASE v # w
    BY <1>1, <1>3, <2>1, CallOthers, AlikeOnScript
  <2>2. CASE v = w
    BY <1>3, <2>2, CallBusy, CallShape, AfterOnScript, ThrowIdle, IdleOnScript
  <2>3. QED
    BY <2>1, <2>2
<1>4. CASE ~ \E w \in Workers : Request(w) \/ Call(w) \/ Fail(w)
  BY <1>1, <1>4, OtherStep
<1>5. QED
  BY <1>2, <1>3, <1>4

-----------------------------------------------------------------------------
(* What a step does to the records.                                        *)

LEMMA WhichCall ==
  ASSUME Inv, NEW w \in Workers, Call(w)
  PROVE  /\ req[w].todo[1] = "insert" => Insert(w)
         /\ req[w].todo[1] = "update" => UpdateRow(w)
         /\ req[w].todo[1] = "delete" => DeleteRow(w)
         /\ req[w].todo[1] = "deleteMany" => DeleteMany(w)
         /\ req[w].todo[1] = "record" => Record(w)
<1>1. Head(req[w].todo) = req[w].todo[1]
  BY CallBusy, HeadFirst
<1>2. QED
  BY <1>1 DEF Call, FetchOld, Find, CheckConflict, Insert, UpdateRow, DeleteRow,
     DeleteMany, Reread, RevokeAllUserSessions, Validate, Open, Record, At

RecordOf(r) == [op |-> Action(r.op), users |-> r.users, old |-> r.old, new |-> r.result]

LEMMA CallRecords ==
  ASSUME Inv, NEW w \in Workers, Call(w) \/ Fail(w)
  PROVE  \/ AllRecords' = AllRecords
         \/ Record(w) /\ AllRecords' = AllRecords \union {RecordOf(req[w])}
BY DEF Call, FetchOld, Find, CheckConflict, Insert, UpdateRow, DeleteRow,
   DeleteMany, Reread, RevokeAllUserSessions, Validate, Open, Record, Fail,
   AllRecords, RecordOf

LEMMA OtherRecords ==
  ASSUME Inv, [Next]_vars, ~ \E w \in Workers : Call(w) \/ Fail(w)
  PROVE  /\ AllRecords' \subseteq AllRecords
         /\ \A t \in AllRecords : \A u \in Users :
              u \in t.users /\ "lost" \notin cause'[u] => t \in AllRecords'
<1>1. ASSUME NEW w \in Workers, Request(w) PROVE UNCHANGED AllRecords
  BY <1>1, RequestFresh DEF AllRecords
<1>2. ASSUME NEW r \in queue, WriteRecord(r) PROVE UNCHANGED AllRecords
  BY <1>2 DEF WriteRecord, AllRecords
<1>3. ASSUME NEW r \in queue, LoseRecord(r)
      PROVE  /\ AllRecords' \subseteq AllRecords
             /\ \A t \in AllRecords : t # r => t \in AllRecords'
             /\ \A u \in Users : u \in r.users => "lost" \in cause'[u]
  BY <1>3 DEF LoseRecord, AllRecords
<1>4. CASE UNCHANGED vars
  BY <1>4 DEF vars, AllRecords
<1>5. QED
  BY <1>1, <1>2, <1>3, <1>4 DEF Next

(* No record is lost but one the code loses.                               *)
LEMMA RecordsKept ==
  ASSUME Inv, [Next]_vars, NEW u \in Users, "lost" \notin cause'[u],
         NEW t \in AllRecords, u \in t.users
  PROVE  t \in AllRecords'
BY CallRecords, OtherRecords

(* A record is made by its handler.                                        *)
LEMMA RecordsMade ==
  ASSUME Inv, [Next]_vars, NEW t \in AllRecords', t \notin AllRecords
  PROVE  \E w \in Workers : Record(w) /\ t = RecordOf(req[w])
BY CallRecords, OtherRecords

(* What a handler is when it makes its record.                             *)
LEMMA Recording ==
  ASSUME Inv, AllOnScript, NEW w \in Workers, Record(w)
  PROVE  /\ req[w].todo[1] = "record" /\ Busy(w) /\ req[w].op \in Audited
         /\ req[w].committed
         /\ \A call : ~Later(req[w], call)
         /\ req[w].op # "create" => DOMAIN req[w].old = req[w].users
<1> DEFINE r == req[w]
<1>1. /\ r.todo[1] = "record" /\ r.todo # <<>> /\ Awaits(r, "record")
  BY AtAwaits DEF Record, At
<1>2. r \in Handlers /\ Scripted(r.op, r.todo) /\ Progress(r)
  BY HandlerTyped DEF Typed, AllOnScript, OnScript
<1>3. \A call : ~Later(r, call)
  BY <1>1, <1>2, ScriptedFirst DEF Follows
<1>4. r.op \in Audited
  <2>1. Belongs(r.op, "record")
    BY <1>1, <1>2, ScriptedFirst
  <2>2. QED
    BY <2>1 DEF Belongs
<1>5. \A call : call # "record" => ~Awaits(r, call)
  BY <1>1, <1>2, <1>3, FirstAndLater
<1>6. QED
  BY <1>1, <1>2, <1>3, <1>4, <1>5 DEF Progress, Audited, Writing, Busy

(* A handler is about accounts that exist once it has created them.        *)
LEMMA OwnNamed ==
  ASSUME Inv, AllOnScript, Newborn, Named, [Next]_vars, NEW w \in Workers,
         Call(w) \/ Fail(w), NEW u \in req'[w].users,
         req'[w].op # "create" \/ req'[w].committed
  PROVE  row'[u].status # "absent"
<1> DEFINE r == req[w]
<1>1. /\ Busy(w) /\ r \in Handlers /\ r.todo # <<>> /\ Scripted(r.op, r.todo)
  BY CallBusy, HandlerTyped DEF Busy, Typed, AllOnScript, OnScript
<1>2. req'[w] # Idle /\ ~Throw(w)
  BY IdleTyped, ThrowIdle
<1>3. PICK m : Middle(w, m) /\ req'[w] = After(m)
  BY <1>2, CallShape
<1>4. req'[w].users = r.users /\ req'[w].op = r.op /\ req'[w].committed = m.committed
  BY <1>1, <1>2, <1>3, Onward DEF Middle
<1>5. u \in Users
  BY <1>1, <1>4 DEF Handlers
<1>6. CASE r.op # "create" \/ r.committed
  BY <1>4, <1>5, <1>6, KnownStays DEF Named
<1>7. CASE r.op = "create" /\ ~r.committed
  <2>1. r.todo[1] \in Writing
    BY <1>3, <1>4, <1>7 DEF Middle
  <2>2. Belongs(r.op, r.todo[1])
    BY <1>1, FirstAndLater, ScriptedFirst
  <2>3. r.todo[1] = "insert"
    BY <1>7, <2>1, <2>2 DEF Writing, Belongs, Fitting, Updaters
  <2>4. Insert(w)
    BY <1>2, <2>3, WhichCall DEF Fail
  <2>5. row' = [row EXCEPT ![u] = r.arg]
    BY <1>2, <1>4, <2>4 DEF Insert
  <2>6. row'[u] = r.arg
    BY <1>5, <2>5 DEF Inv, TypeOK
  <2>7. QED
    BY <1>7, <2>6 DEF Newborn
<1>8. QED
  BY <1>6, <1>7

LEMMA InitNamed == Init => Named
<1> SUFFICES ASSUME Init PROVE Named
  OBVIOUS
<1>1. \A w \in Workers : req[w].users = {}
  BY IdleTyped DEF Init
<1>2. \A t \in AllRecords : \A u \in t.users : Known(u)
  <2>1. CASE trail = {}
    BY <2>1 DEF Init, AllRecords
  <2>2. ASSUME NEW u \in Users,
               row = [v \in Users |-> IF v = u THEN Account(NoRow.name, NoRow.password)
                                                 ELSE NoRow],
               trail = {Created(u)}
        PROVE  \A t \in AllRecords : \A v \in t.users : Known(v)
    <3>1. row[u].status = "live"
      BY <2>2 DEF Account, NoRow
    <3>2. AllRecords = {Created(u)} /\ Created(u).users = {u}
      BY <2>2 DEF Init, AllRecords, Created
    <3>3. QED
      BY <3>1, <3>2 DEF Known
  <2>3. QED
    BY <2>1, <2>2 DEF Init
<1>3. QED
  BY <1>1, <1>2 DEF Named

LEMMA RecordUsers ==
  ASSUME Inv, NEW t \in AllRecords
  PROVE  t.users \subseteq Users
BY DEF Inv, TypeOK, AllRecords, Records

LEMMA NextNamed == Inv /\ AllOnScript /\ Newborn /\ Named /\ [Next]_vars => Named'
<1> SUFFICES ASSUME Inv, AllOnScript, Newborn, Named, [Next]_vars PROVE Named'
  OBVIOUS
<1>1. ASSUME NEW t \in AllRecords', NEW u \in t.users PROVE row'[u].status # "absent"
  <2>1. CASE t \in AllRecords
    BY <1>1, <2>1, RecordUsers, KnownStays DEF Named
  <2>2. CASE t \notin AllRecords
    <3>1. PICK w \in Workers : Record(w) /\ t = RecordOf(req[w])
      BY <2>2, RecordsMade
    <3>2. u \in req[w].users /\ req[w].committed
      BY <3>1, Recording DEF RecordOf
    <3>3. u \in Users /\ Known(u)
      BY <3>2, HandlerTyped DEF Named, Typed, Handlers
    <3>4. QED
      BY <3>3, KnownStays
  <2>3. QED
    BY <2>1, <2>2
<1>2. ASSUME NEW v \in Workers, NEW u \in req'[v].users,
             req'[v].op # "create" \/ req'[v].committed
      PROVE  row'[u].status # "absent"
  <2>1. CASE Alike(req[v], req'[v])
    <3>1. u \in Users /\ Known(u)
      BY <1>2, <2>1, HandlerTyped DEF Alike, Named, Typed, Handlers
    <3>2. QED
      BY <3>1, KnownStays
  <2>2. ASSUME NEW w \in Workers, Request(w) PROVE row'[u].status # "absent"
    BY <1>2, <2>1, <2>2, RequestFresh, AlikeSelf DEF Known
  <2>3. ASSUME NEW w \in Workers, Call(w) \/ Fail(w) PROVE row'[u].status # "absent"
    BY <1>2, <2>1, <2>3, CallOthers, OwnNamed
  <2>4. CASE ~ \E w \in Workers : Request(w) \/ Call(w) \/ Fail(w)
    BY <2>1, <2>4, OtherStep, AlikeSelf
  <2>5. QED
    BY <2>2, <2>3, <2>4
<1>3. QED
  BY <1>1, <1>2 DEF Named, Known

-----------------------------------------------------------------------------
(* A handler that has written, until its record.                           *)

\* The handler goes on to a later call.
LEMMA NotLast ==
  ASSUME Inv, AllOnScript, NEW w \in Workers, Busy(w), NEW m, Middle(w, m),
         req[w].op \in Audited, req[w].todo[1] # "record"
  PROVE  /\ After(m).todo # <<>>
         /\ After(m).op = req[w].op /\ After(m).users = req[w].users
         /\ After(m).old = m.old /\ After(m).result = m.result
         /\ After(m).committed = m.committed
         /\ \A call : Later(req[w], call) /\ call # "conflict" => Awaits(After(m), call)
<1> DEFINE r == req[w]
<1>1. r \in Handlers /\ r.todo # <<>> /\ Scripted(r.op, r.todo)
  BY HandlerTyped DEF Busy, Typed, AllOnScript, OnScript
<1>2. Awaits(After(m), "record")
  BY <1>1, ScriptedFirst, Onward DEF Middle
<1>3. After(m) # Idle
  BY <1>2, IdleTyped DEF Awaits
<1>4. QED
  BY <1>1, <1>3, Onward DEF Middle

\* It reads the row it has written, or revokes the sessions.
Closes(r, s) ==
  /\ s.todo # <<>> /\ s.users = r.users /\ s.op = r.op /\ s.committed /\ s.old = r.old
  /\ \/ r.todo[1] = "reread" /\ \A u \in r.users : s.result = {View(row[u])}
     \/ r.todo[1] = "revoke" /\ r.op \notin Edits /\ s.result = r.result

LEMMA CommittedGoesOn ==
  ASSUME Inv, AllOnScript, [Next]_vars, NEW x \in Workers, NEW u \in req[x].users,
         req[x].committed, req[x].op \in Audited, "aborted" \notin cause'[u]
  PROVE  \/ Alike(req[x], req'[x])
         \/ Record(x) /\ RecordOf(req[x]) \in AllRecords'
         \/ Closes(req[x], req'[x])
<1> DEFINE r == req[x]
<1>1. r \in Handlers /\ Scripted(r.op, r.todo) /\ Progress(r) /\ u \in Users
  BY HandlerTyped DEF Typed, AllOnScript, OnScript, Handlers
<1>2. ASSUME NEW w \in Workers, Request(w) PROVE Alike(req[x], req'[x])
  <2>1. x # w
    BY <1>2, RequestFresh, IdleOnScript
  <2>2. QED
    BY <1>2, <2>1, RequestFresh, AlikeSelf
<1>3. ASSUME NEW w \in Workers, Call(w) \/ Fail(w), w # x PROVE Alike(req[x], req'[x])
  BY <1>3, CallOthers
<1>4. ASSUME Call(x) \/ Fail(x)
      PROVE  \/ Record(x) /\ RecordOf(req[x]) \in AllRecords'
             \/ Closes(req[x], req'[x])
  <2>1. ~Throw(x)
    <3>1. "aborted" \in Ended(r)
      BY <1>1 DEF Ended, Audited
    <3>2. Throw(x) => "aborted" \in cause'[u]
      BY <1>1, <3>1 DEF Throw
    <3>3. QED
      BY <3>2
  <2>2. Call(x) /\ Busy(x) /\ r.todo # <<>>
    BY <1>4, <2>1, CallBusy DEF Fail, Busy
  <2>3. r.todo[1] \in Closing
    BY <1>1, <2>2, FirstAndLater DEF Progress
  <2>4. CASE r.todo[1] = "record"
    BY <2>2, <2>4, WhichCall, CallRecords DEF Record, AllRecords, RecordOf
  <2>5. CASE r.todo[1] # "record"
    <3>1. PICK m : Middle(x, m) /\ req'[x] = After(m)
      BY <2>1, <2>2, CallShape
    <3>2. /\ After(m).todo # <<>> /\ After(m).op = r.op /\ After(m).users = r.users
          /\ After(m).old = m.old /\ After(m).result = m.result
          /\ After(m).committed = m.committed
      BY <2>2, <2>5, <3>1, NotLast
    <3>3. m.old = r.old /\ m.committed
      BY <2>3, <3>1 DEF Middle, Closing
    <3>4. CASE r.todo[1] = "reread"
      BY <3>1, <3>2, <3>3, <3>4 DEF Closes, Middle
    <3>5. CASE r.todo[1] = "revoke"
      <4>1. Belongs(r.op, "revoke")
        BY <1>1, <2>2, <3>5, FirstAndLater, ScriptedFirst
      <4>2. r.op \notin Edits
        BY <4>1 DEF Belongs, Fitting, Edits
      <4>3. QED
        BY <3>1, <3>2, <3>3, <3>5, <4>2 DEF Closes, Middle
    <3>6. QED
      BY <2>3, <2>5, <3>4, <3>5 DEF Closing
  <2>6. QED
    BY <2>4, <2>5
<1>5. CASE ~ \E w \in Workers : Request(w) \/ Call(w) \/ Fail(w)
  BY <1>5, OtherStep, AlikeSelf
<1>6. QED
  BY <1>2, <1>3, <1>4, <1>5

\* Unless a handler was stopped between its write and its record, or a record
\* was lost, what is said of an account stays said.
LEMMA MadeKept ==
  ASSUME Inv, AllOnScript, [Next]_vars, NEW u \in Users,
         cause'[u] \intersect {"aborted", "lost"} = {},
         View(row'[u]) = View(row[u]), NEW v,
         Made(AllRecords, req, u, View(row[u]), v)
  PROVE  Made(AllRecords', req', u, View(row'[u]), v)
<1>1. ASSUME NEW t \in AllRecords, u \in t.users, v \in t.new
      PROVE  Made(AllRecords', req', u, View(row'[u]), v)
  <2>1. t \in AllRecords'
    BY <1>1, RecordsKept
  <2>2. QED
    BY <1>1, <2>1 DEF Made
<1>2. ASSUME NEW x \in Workers, Leaves(req[x], u, View(row[u]), v)
      PROVE  Made(AllRecords', req', u, View(row'[u]), v)
  <2>1. req[x].committed /\ u \in req[x].users /\ req[x].op \in Edits
    BY <1>2 DEF Leaves
  <2>2. req[x].op \in Audited
    BY <2>1 DEF Audited, Edits
  <2>3. CASE Alike(req[x], req'[x])
    <3>1. Leaves(req'[x], u, View(row'[u]), v)
      BY <1>2, <2>3 DEF Alike, Leaves, Awaits
    <3>2. QED
      BY <3>1 DEF Made
  <2>4. CASE Record(x) /\ RecordOf(req[x]) \in AllRecords'
    <3>1. ~Awaits(req[x], "reread")
      BY <2>4, Recording, HandlerTyped, FirstAndLater DEF Typed, Busy
    <3>2. v \in RecordOf(req[x]).new /\ u \in RecordOf(req[x]).users
      BY <1>2, <2>1, <3>1 DEF Leaves, RecordOf
    <3>3. QED
      BY <2>4, <3>2 DEF Made
  <2>5. CASE Closes(req[x], req'[x])
    <3>1. req[x].todo[1] = "reread" /\ req'[x].result = {View(row[u])}
      BY <2>1, <2>5 DEF Closes
    <3>2. Awaits(req[x], "reread")
      <4>1. req[x] \in Handlers /\ req[x].todo # <<>> /\ Progress(req[x])
        BY <2>1, HandlerTyped DEF Typed, AllOnScript, OnScript, Progress
      <4>2. QED
        BY <3>1, <4>1, FirstAndLater
    <3>3. req[x].result = {}
      BY <3>2 DEF AllOnScript, OnScript, Progress
    <3>4. v = View(row[u])
      BY <1>2, <3>3 DEF Leaves
    <3>5. Leaves(req'[x], u, View(row'[u]), v)
      BY <2>1, <2>5, <3>1, <3>4 DEF Closes, Leaves
    <3>6. QED
      BY <3>5 DEF Made
  <2>6. QED
    BY <2>1, <2>2, <2>3, <2>4, <2>5, CommittedGoesOn
<1>3. QED
  BY <1>1, <1>2 DEF Made

LEMMA GoneKept ==
  ASSUME Inv, AllOnScript, [Next]_vars, NEW u \in Users,
         cause'[u] \intersect {"aborted", "lost"} = {}, Gone(AllRecords, req, u)
  PROVE  Gone(AllRecords', req', u)
<1>1. ASSUME NEW t \in AllRecords, u \in t.users, t.op \in {"remove", "batch"}
      PROVE  Gone(AllRecords', req', u)
  <2>1. t \in AllRecords'
    BY <1>1, RecordsKept
  <2>2. QED
    BY <1>1, <2>1 DEF Gone
<1>2. ASSUME NEW x \in Workers, Deletes(req[x], u) PROVE Gone(AllRecords', req', u)
  <2>1. /\ req[x].committed /\ u \in req[x].users /\ req[x].op \in {"remove", "batch"}
        /\ req[x].op \in Audited
    BY <1>2 DEF Deletes, Audited
  <2>2. CASE Alike(req[x], req'[x]) \/ Closes(req[x], req'[x])
    <3>1. Deletes(req'[x], u)
      BY <2>1, <2>2 DEF Alike, Closes, Deletes
    <3>2. QED
      BY <3>1 DEF Gone
  <2>3. CASE Record(x) /\ RecordOf(req[x]) \in AllRecords'
    <3>1. u \in RecordOf(req[x]).users /\ RecordOf(req[x]).op \in {"remove", "batch"}
      BY <2>1 DEF RecordOf, Action
    <3>2. QED
      BY <2>3, <3>1 DEF Gone
  <2>4. QED
    BY <2>1, <2>2, <2>3, CommittedGoesOn
<1>3. QED
  BY <1>1, <1>2 DEF Gone

LEMMA LeftKept ==
  ASSUME Inv, AllOnScript, [Next]_vars, NEW u \in Users,
         cause'[u] \intersect {"aborted", "lost"} = {}, NEW v, Left(AllRecords, req, u, v)
  PROVE  Left(AllRecords', req', u, v)
<1>1. ASSUME NEW t \in AllRecords, u \in t.users, t.op # "create", t.old[u] = v
      PROVE  Left(AllRecords', req', u, v)
  <2>1. t \in AllRecords'
    BY <1>1, RecordsKept
  <2>2. QED
    BY <1>1, <2>1 DEF Left
<1>2. ASSUME NEW x \in Workers, Began(req[x], u, v) PROVE Left(AllRecords', req', u, v)
  <2>1. /\ req[x].committed /\ u \in req[x].users /\ req[x].op \in Audited \ {"create"}
        /\ req[x].old[u] = v
    BY <1>2 DEF Began
  <2>2. CASE Alike(req[x], req'[x]) \/ Closes(req[x], req'[x])
    <3>1. Began(req'[x], u, v)
      BY <2>1, <2>2 DEF Alike, Closes, Began
    <3>2. QED
      BY <3>1 DEF Left
  <2>3. CASE Record(x) /\ RecordOf(req[x]) \in AllRecords'
    <3>1. /\ u \in RecordOf(req[x]).users /\ RecordOf(req[x]).op # "create"
          /\ RecordOf(req[x]).old[u] = v
      BY <2>1 DEF RecordOf, Action
    <3>2. QED
      BY <2>3, <3>1 DEF Left
  <2>4. QED
    BY <2>1, <2>2, <2>3, CommittedGoesOn
<1>3. QED
  BY <1>1, <1>2 DEF Left

-----------------------------------------------------------------------------
(* What an account is can be read off the records.                         *)

\* A handler that has just written and will leave a record.
LEMMA JustWritten ==
  ASSUME Inv, AllOnScript, NEW w \in Workers, Call(w), req[w].todo[1] \in Writing,
         row' # row, req[w].op \in Audited
  PROVE  /\ req'[w].committed /\ ~req[w].committed
         /\ req'[w].op = req[w].op /\ req'[w].users = req[w].users
         /\ req'[w].old = req[w].old /\ req'[w].result = {} /\ req[w].result = {}
         /\ req[w].op \in Edits => Awaits(req'[w], "reread")
         /\ req[w].op # "create" => DOMAIN req[w].old = req[w].users
<1> DEFINE r == req[w]
<1>1. Busy(w) /\ r \in Handlers /\ r.todo # <<>> /\ Scripted(r.op, r.todo) /\ Progress(r)
  BY CallBusy, HandlerTyped DEF Busy, Typed, AllOnScript, OnScript
<1>2. PICK m : Middle(w, m) /\ req'[w] = After(m)
  BY CallShape
<1>3. r.todo[1] \notin {"record", "old", "reread"} \union Closing
  BY DEF Writing, Closing
<1>4. /\ After(m).op = r.op /\ After(m).users = r.users
      /\ After(m).old = m.old /\ After(m).result = m.result
      /\ After(m).committed = m.committed
      /\ \A call : Later(r, call) /\ call # "conflict" => Awaits(After(m), call)
  BY <1>1, <1>2, <1>3, NotLast
<1>5. m.committed /\ m.old = r.old /\ m.result = r.result
  BY <1>2, <1>3 DEF Middle
<1>6. ~r.committed /\ r.result = {}
  <2>1. 1 \in 1..Len(r.todo)
    BY <1>1, FirstAndLater
  <2>2. QED
    BY <1>1, <1>3, <2>1 DEF Progress
<1>7. r.op \in Edits => Later(r, "reread")
  BY <1>1, ScriptedFirst
<1>8. ~Awaits(r, "old")
  BY <1>1, <1>3, ScriptedFirst, FirstAndLater DEF Follows
<1>9. r.op # "create" => DOMAIN r.old = r.users
  BY <1>1, <1>8 DEF Progress
<1>10. QED
  BY <1>2, <1>4, <1>5, <1>6, <1>7, <1>9

\* How a row changes: it is created, given another view, another password,
\* changed by an administrator, or deleted.
Change(w, u) ==
  \/ /\ req[w].op = "create" /\ ~Known(u) /\ row'[u].status = "live"
     /\ \A v \in Workers \ {w} : u \notin req[v].users
  \/ req[w].op \in {"update", "edit", "activate", "verify"} /\ Live(u) /\ row'[u].status = "live"
  \/ /\ req[w].op = "change" /\ Live(u) /\ row'[u].status = "live"
     /\ View(row'[u]) = View(row[u])
  \/ req[w].op \in {"status", "reset"} /\ "unaudited" \in cause'[u]
  \/ /\ req[w].op \in {"remove", "batch"} /\ Live(u) /\ row'[u].status = "deleted"
     /\ View(row'[u]) = View(row[u])

LEMMA InsertChange ==
  ASSUME Inv, Reserved, Newborn, NEW w \in Workers, Insert(w), NEW u \in Users,
         row'[u] # row[u]
  PROVE  u \in req[w].users /\ Change(w, u)
<1>1. PICK t \in req[w].users : t \in Users /\ row' = [row EXCEPT ![t] = req[w].arg]
  BY InsertWrites
<1>2. u = t /\ row'[u] = req[w].arg
  BY <1>1 DEF Inv, TypeOK
<1>3. Awaits(req[w], "insert")
  BY AtAwaits DEF Insert
<1>4. req[w].op = "create"
  BY <1>3, HandlerTyped DEF Typed, Sane, SaneTodo, Fitting, Awaits
<1>5. ~Known(u) /\ \A v \in Workers \ {w} : u \notin req[v].users
  BY <1>1, <1>2, <1>3 DEF Reserved, Known
<1>6. QED
  BY <1>1, <1>2, <1>4, <1>5 DEF Change, Newborn

LEMMA UpdateChange ==
  ASSUME Inv, NEW w \in Workers, UpdateRow(w), NEW u \in Users, row'[u] # row[u]
  PROVE  u \in req[w].users /\ Change(w, u)
<1>1. PICK t \in req[w].users :
        t \in Users /\ Live(t) /\ row' = [row EXCEPT ![t] = Written(req[w], @)]
  BY UpdateWrites
<1>2. u = t /\ row'[u] = Written(req[w], row[u]) /\ Live(u)
  BY <1>1 DEF Inv, TypeOK
<1>3. row'[u].status = "live" /\ row[u] \in Rows
  BY <1>2, UpdateTyped DEF UpdateRow, Live, Inv, TypeOK
<1>4. req[w].op \in Updaters
  BY AtAwaits, HandlerTyped DEF UpdateRow, Typed, Sane, SaneTodo, Fitting, Awaits
<1>5. ASSUME req[w].op = "change" PROVE View(row'[u]) = View(row[u])
  BY <1>2, <1>3, <1>5 DEF Written, View, Rows
<1>6. ASSUME req[w].op \in {"status", "reset"} PROVE "unaudited" \in cause'[u]
  <2>1. Writes(w, {u}, {"unaudited"})
    BY <1>1, <1>2, <1>6 DEF UpdateRow
  <2>2. QED
    BY <2>1 DEF Writes
<1>7. QED
  BY <1>1, <1>2, <1>3, <1>4, <1>5, <1>6 DEF Change, Updaters

LEMMA DeleteChange ==
  ASSUME Inv, NEW w \in Workers, DeleteRow(w) \/ DeleteMany(w), NEW u \in Users,
         row'[u] # row[u], AllOnScript
  PROVE  u \in req[w].users /\ Change(w, u)
<1>1. PICK S \in SUBSET Users : (\A x \in S : Live(x)) /\ row' = Without(S)
  BY DeleteWrites
<1>2. u \in S /\ Live(u) /\ row'[u] = [row[u] EXCEPT !.status = "deleted"]
  BY <1>1 DEF Without
<1>3. row'[u].status = "deleted" /\ View(row'[u]) = View(row[u])
  <2>1. row[u] \in Rows
    BY DEF Inv, TypeOK
  <2>2. QED
    BY <1>2, <2>1 DEF View, Rows
<1>4. u \in req[w].users
  <2>1. CASE DeleteRow(w)
    <3>1. PICK t \in req[w].users : t \in Users
      BY <2>1, SomeUser DEF DeleteRow, At
    <3>2. row' = [row EXCEPT ![t].status = "deleted"]
      BY <2>1, <3>1 DEF DeleteRow
    <3>3. QED
      BY <3>1, <3>2 DEF Inv, TypeOK
  <2>2. CASE DeleteMany(w)
    <3> DEFINE D == {x \in req[w].users : Live(x)}
    <3>1. row' = [x \in Users |-> IF x \in D THEN [row[x] EXCEPT !.status = "deleted"]
                                             ELSE row[x]]
      BY <2>2 DEF DeleteMany
    <3>2. QED
      BY <3>1
  <2>3. QED
    BY <2>1, <2>2
<1>5. req[w].op \in {"remove", "batch"}
  <2>1. Awaits(req[w], "delete") \/ Awaits(req[w], "deleteMany")
    BY AtAwaits DEF DeleteRow, DeleteMany
  <2>2. Belongs(req[w].op, "delete") \/ Belongs(req[w].op, "deleteMany")
    BY <2>1 DEF AllOnScript, OnScript, Scripted, Awaits
  <2>3. QED
    BY <2>2 DEF Belongs, Fitting
<1>6. QED
  BY <1>2, <1>3, <1>4, <1>5 DEF Change

LEMMA RowChange ==
  ASSUME Inv, AllOnScript, Reserved, Newborn, [Next]_vars, NEW u \in Users,
         row'[u] # row[u]
  PROVE  \E w \in Workers : /\ Call(w) /\ req[w].todo[1] \in Writing
                            /\ u \in req[w].users /\ Change(w, u)
<1>1. PICK w \in Workers : Insert(w) \/ UpdateRow(w) \/ DeleteRow(w) \/ DeleteMany(w)
  BY OtherSteps
<1>2. Call(w) /\ req[w].todo[1] \in Writing
  BY <1>1, WritingCalls DEF Call
<1>3. u \in req[w].users /\ Change(w, u)
  BY <1>1, InsertChange, UpdateChange, DeleteChange
<1>4. QED
  BY <1>2, <1>3

LEMMA InitRecorded == Init => Recorded
<1> SUFFICES ASSUME Init, NEW x \in Users, Known(x), Followed(x)
             PROVE  IF Live(x) THEN Made(AllRecords, req, x, View(row[x]), View(row[x]))
                               ELSE Gone(AllRecords, req, x)
  BY DEF Recorded
<1>1. NoRow.status = "absent"
  BY DEF NoRow
<1> DEFINE a == Account(NoRow.name, NoRow.password)
<1>2. PICK u \in Users : /\ row = [v \in Users |-> IF v = u THEN a ELSE NoRow]
                         /\ trail = {Created(u)}
  BY <1>1 DEF Init, Known
<1>3. x = u
  BY <1>1, <1>2 DEF Known
<1>4. a.status = "live" /\ row[u] = a
  BY <1>2 DEF Account, NoRow
<1>5. Created(u) \in AllRecords /\ u \in Created(u).users /\ View(a) \in Created(u).new
  BY <1>2 DEF AllRecords, Created
<1>6. QED
  BY <1>3, <1>4, <1>5 DEF Made, Live

LEMMA NextRecorded ==
  Inv /\ AllOnScript /\ Reserved /\ Newborn /\ Recorded /\ [Next]_vars => Recorded'
<1> SUFFICES ASSUME Inv, AllOnScript, Reserved, Newborn, Recorded, [Next]_vars,
                    NEW u \in Users, row'[u].status # "absent",
                    cause'[u] \intersect {"unaudited", "aborted", "lost"} = {}
             PROVE  IF row'[u].status = "live"
                      THEN Made(AllRecords', req', u, View(row'[u]), View(row'[u]))
                      ELSE Gone(AllRecords', req', u)
  BY DEF Recorded, Known, Followed, Live
<1>1. Followed(u) /\ cause'[u] \intersect {"aborted", "lost"} = {}
  BY CauseGrows DEF Followed
<1>2. ASSUME Known(u), Live(u), row'[u].status = "live", View(row'[u]) = View(row[u])
      PROVE  Made(AllRecords', req', u, View(row'[u]), View(row'[u]))
  <2>1. Made(AllRecords, req, u, View(row[u]), View(row[u]))
    BY <1>1, <1>2 DEF Recorded
  <2>2. QED
    BY <1>1, <1>2, <2>1, MadeKept
<1>3. CASE row'[u] = row[u]
  <2>1. CASE Live(u)
    BY <1>2, <1>3, <2>1 DEF Live, Known
  <2>2. CASE ~Live(u)
    <3>1. Gone(AllRecords, req, u) /\ row'[u].status # "live"
      BY <1>1, <1>3, <2>2 DEF Recorded, Known, Live
    <3>2. QED
      BY <1>1, <3>1, GoneKept
  <2>3. QED
    BY <2>1, <2>2
<1>4. CASE row'[u] # row[u]
  <2>1. PICK w \in Workers : /\ Call(w) /\ req[w].todo[1] \in Writing
                             /\ u \in req[w].users /\ Change(w, u)
    BY <1>4, RowChange
  <2>2. req[w].op \notin {"status", "reset"}
    BY <2>1 DEF Change
  <2>3. /\ req[w].op \in Audited
        /\ req[w].op \in Edits \union {"change", "remove", "batch"}
    BY <2>1, <2>2 DEF Change, Audited, Edits
  <2>4. /\ req'[w].committed /\ req'[w].op = req[w].op /\ req'[w].users = req[w].users
        /\ req[w].op \in Edits => Awaits(req'[w], "reread")
    BY <1>4, <2>1, <2>3, JustWritten
  <2>5. CASE req[w].op \in Edits
    <3>1. row'[u].status = "live"
      BY <2>1, <2>5 DEF Change, Edits
    <3>2. Leaves(req'[w], u, View(row'[u]), View(row'[u]))
      BY <2>1, <2>4, <2>5 DEF Leaves
    <3>3. QED
      BY <3>1, <3>2 DEF Made
  <2>6. CASE req[w].op = "change"
    BY <1>2, <2>1, <2>6 DEF Change, Live, Known
  <2>7. CASE req[w].op \in {"remove", "batch"}
    <3>1. row'[u].status = "deleted" /\ Deletes(req'[w], u)
      BY <2>1, <2>4, <2>7 DEF Change, Deletes
    <3>2. QED
      BY <3>1 DEF Gone
  <2>8. QED
    BY <2>3, <2>5, <2>6, <2>7 DEF Edits
<1>5. QED
  BY <1>3, <1>4

\* What both invariants of the trail are built on.
TrailInv == Inv /\ Reserved /\ Newborn /\ AllOnScript /\ Named

LEMMA TrailInvariant == Spec => []TrailInv
<1>1. Init => TrailInv
  BY InitInv, InitReserved, InitChecked, InitOnScript, InitNamed DEF TrailInv
<1>2. TrailInv /\ [Next]_vars => TrailInv'
  BY NextInv, NextReserved, NextNewborn, NextOnScript, NextNamed DEF TrailInv
<1>3. QED
  BY <1>1, <1>2, PTL DEF Spec

\* Of a settled account no handler has anything to say.
LEMMA SettledMade ==
  ASSUME NEW u \in Users, Settled(u), NEW now, NEW v, Made(AllRecords, req, u, now, v)
  PROVE  \E t \in RecordsOf(u) : v \in t.new
BY DEF Settled, Made, Leaves, AllRecords, RecordsOf

LEMMA SettledGone ==
  ASSUME NEW u \in Users, Settled(u), Gone(AllRecords, req, u)
  PROVE  \E t \in RecordsOf(u) : t.op \in {"remove", "batch"}
BY DEF Settled, Gone, Deletes, AllRecords, RecordsOf

(* However registrations, updates and deletions overlap and fail, what an  *)
(* account is, or that it was deleted, is in a record of the trail, unless *)
(* the code does not record the change or lost the record (@AuditLog       *)
(* around the methods of users.service).                                   *)
THEOREM RowRecorded == Spec => []RowHasRecord
<1>1. Recorded => RowHasRecord
  <2> SUFFICES ASSUME Recorded, NEW u \in Users, Known(u), Settled(u),
                      cause[u] \intersect {"unaudited", "aborted", "lost"} = {}
               PROVE  \E t \in RecordsOf(u) : IF Live(u) THEN View(row[u]) \in t.new
                                              ELSE t.op \in {"remove", "batch"}
    BY DEF RowHasRecord
  <2>1. IF Live(u) THEN Made(AllRecords, req, u, View(row[u]), View(row[u]))
                   ELSE Gone(AllRecords, req, u)
    BY DEF Recorded, Followed
  <2>2. QED
    BY <2>1, SettledMade, SettledGone
<1>2. TrailInv /\ Recorded /\ [Next]_vars => Recorded'
  BY NextRecorded DEF TrailInv
<1>3. QED
  BY <1>1, <1>2, InitRecorded, TrailInvariant, PTL DEF Spec

-----------------------------------------------------------------------------
(* The records of an account form a chain.                                 *)

\* What a handler of an account holds after a step, by what it held before.
LEMMA HandlerPast ==
  ASSUME TrailInv, [Next]_vars, NEW v \in Workers, NEW u \in req'[v].users
  PROVE  \/ req'[v].old = <<>> /\ req'[v].result = {}
         \/ /\ u \in req[v].users /\ u \in Users
            /\ req[v].committed => req'[v].committed
            /\ req[v].disturbed => req'[v].disturbed
            /\ \/ req'[v].old = req[v].old
               \/ Known(u) /\ req'[v].old[u] = View(row[u])
            /\ req'[v].result = req[v].result \/ req'[v].result = {View(row[u])}
<1> USE DEF TrailInv
<1>1. ASSUME Alike(req[v], req'[v])
      PROVE  /\ u \in req[v].users /\ u \in Users
             /\ req[v].committed => req'[v].committed
             /\ req[v].disturbed => req'[v].disturbed
             /\ req'[v].old = req[v].old /\ req'[v].result = req[v].result
  BY <1>1, HandlerTyped DEF Alike, Typed, Handlers
<1>2. ASSUME NEW w \in Workers, Request(w)
      PROVE  Alike(req[v], req'[v]) \/ (req'[v].old = <<>> /\ req'[v].result = {})
  BY <1>2, RequestFresh, AlikeSelf
<1>3. ASSUME NEW w \in Workers, Call(w) \/ Fail(w), w # v PROVE Alike(req[v], req'[v])
  BY <1>3, CallOthers
<1>4. ASSUME Call(v) \/ Fail(v)
      PROVE  /\ u \in req[v].users /\ u \in Users
             /\ req[v].committed => req'[v].committed
             /\ req[v].disturbed => req'[v].disturbed
             /\ \/ req'[v].old = req[v].old
                \/ Known(u) /\ req'[v].old[u] = View(row[u])
             /\ req'[v].result = req[v].result \/ req'[v].result = {View(row[u])}
  <2>1. req'[v] # Idle
    BY IdleTyped
  <2>2. PICK m : Middle(v, m) /\ req'[v] = After(m)
    BY <1>4, <2>1, CallShape, ThrowIdle
  <2>3. /\ req[v] \in Handlers /\ req[v].todo # <<>>
        /\ Scripted(req[v].op, req[v].todo)
    BY <1>4, CallBusy, HandlerTyped DEF Busy, Typed, AllOnScript, OnScript
  <2>4. /\ After(m).todo # <<>>
        /\ After(m).users = req[v].users
        /\ After(m).old = m.old /\ After(m).result = m.result
        /\ After(m).committed = m.committed /\ After(m).disturbed = m.disturbed
    BY <2>1, <2>2, <2>3, Onward DEF Middle
  <2>5. u \in req[v].users /\ u \in Users
    BY <2>2, <2>3, <2>4 DEF Handlers
  <2>6. m.old = req[v].old \/ (Known(u) /\ m.old[u] = View(row[u]))
    <3>1. CASE req[v].todo[1] = "old"
      <4>1. Belongs(req[v].op, "old")
        BY <2>3, <3>1, FirstAndLater, ScriptedFirst
      <4>2. Known(u)
        BY <2>5, <4>1 DEF Belongs, Named
      <4>3. QED
        BY <2>2, <2>5, <3>1, <4>2 DEF Middle
    <3>2. CASE req[v].todo[1] # "old"
      BY <2>2, <3>2 DEF Middle
    <3>3. QED
      BY <3>1, <3>2
  <2>7. m.result = req[v].result \/ m.result = {View(row[u])}
    BY <2>2, <2>4, <2>5 DEF Middle
  <2>8. QED
    BY <2>2, <2>4, <2>5, <2>6, <2>7 DEF Middle
<1>5. ASSUME ~ \E w \in Workers : Request(w) \/ Call(w) \/ Fail(w)
      PROVE  Alike(req[v], req'[v])
  BY <1>5, OtherStep, AlikeSelf
<1>6. QED
  BY <1>1, <1>2, <1>3, <1>4, <1>5

\* A step that leaves the view of an account, or does not touch it.
LEMMA ChainKept ==
  ASSUME TrailInv, [Next]_vars, NEW u \in Users, View(row'[u]) = View(row[u]),
         row'[u].status # "absent" => Known(u),
         cause'[u] \intersect {"aborted", "lost"} = {},
         BeginsMade(u), EndsLeft(u), OldHolds(u)
  PROVE  BeginsMade(u)' /\ EndsLeft(u)' /\ OldHolds(u)'
<1> USE DEF TrailInv
<1> DEFINE Here(v) == Made(AllRecords', req', u, View(row'[u]), v)
           Went(v) == Left(AllRecords', req', u, v)
<1>1. \A v : Made(AllRecords, req, u, View(row[u]), v) => Here(v)
  BY MadeKept
<1>2. \A v : Left(AllRecords, req, u, v) => Went(v)
  BY LeftKept
<1>3. Known(u) => Here(View(row[u]))
  BY <1>1 DEF BeginsMade
<1> HIDE DEF Here, Went
<1>4. DOMAIN <<>> = {}
  OBVIOUS
<1>5. ASSUME NEW t \in AllRecords', u \in t.users, t.op # "create" PROVE Here(t.old[u])
  <2>1. CASE t \in AllRecords
    BY <1>1, <1>5, <2>1 DEF BeginsMade
  <2>2. CASE t \notin AllRecords
    <3>1. PICK w \in Workers : Record(w) /\ t = RecordOf(req[w])
      BY <2>2, RecordsMade
    <3>2. t.users = req[w].users /\ req[w].op # "create" /\ t.old = req[w].old
      BY <1>5, <3>1 DEF RecordOf, Action
    <3>3. u \in DOMAIN req[w].old
      BY <1>5, <3>1, <3>2, Recording
    <3>4. QED
      BY <1>1, <1>5, <3>2, <3>3 DEF BeginsMade
  <2>3. QED
    BY <2>1, <2>2
<1>6. ASSUME NEW v \in Workers, u \in req'[v].users, u \in DOMAIN req'[v].old
      PROVE  Here(req'[v].old[u])
  BY <1>1, <1>3, <1>4, <1>6, HandlerPast DEF BeginsMade
<1>7. BeginsMade(u)'
  BY <1>3, <1>5, <1>6 DEF BeginsMade, Here, Known
<1>8. ASSUME NEW t \in AllRecords', u \in t.users, NEW v \in t.new
      PROVE  v = View(row'[u]) \/ Went(v)
  <2>1. CASE t \in AllRecords
    BY <1>2, <1>8, <2>1 DEF EndsLeft
  <2>2. CASE t \notin AllRecords
    <3>1. PICK w \in Workers : Record(w) /\ t = RecordOf(req[w])
      BY <2>2, RecordsMade
    <3>2. t.users = req[w].users /\ t.new = req[w].result
      BY <3>1 DEF RecordOf
    <3>3. QED
      BY <1>2, <1>8, <3>2 DEF EndsLeft
  <2>3. QED
    BY <2>1, <2>2
<1>9. ASSUME NEW w \in Workers, u \in req'[w].users, NEW v \in req'[w].result
      PROVE  v = View(row'[u]) \/ Went(v)
  BY <1>2, <1>9, HandlerPast DEF EndsLeft
<1>10. EndsLeft(u)'
  BY <1>8, <1>9 DEF EndsLeft, Went
<1>11. ASSUME NEW w \in Workers, u \in req'[w].users, u \in DOMAIN req'[w].old,
              ~req'[w].committed, ~req'[w].disturbed
       PROVE  req'[w].old[u] = View(row'[u])
  BY <1>4, <1>11, HandlerPast DEF OldHolds
<1>12. OldHolds(u)'
  BY <1>11 DEF OldHolds
<1>13. QED
  BY <1>7, <1>10, <1>12

\* A row that was written while nobody else was between its write and its
\* answer, and nobody had written to it since the writer came.
LEMMA EditAlone ==
  ASSUME TrailInv, NEW w \in Workers, Call(w), req[w].todo[1] \in Writing,
         req[w].op \in Edits, NEW u \in Users, row'[u] # row[u], "overlap" \notin cause'[u]
  PROVE  /\ ~req[w].disturbed
         /\ \A v \in Workers \ {w} : ~(req[v].committed /\ u \in req[v].users)
<1> USE DEF TrailInv
<1>1. Belongs(req[w].op, req[w].todo[1])
  BY CallBusy, HandlerTyped, FirstAndLater, ScriptedFirst
     DEF Busy, Typed, AllOnScript, OnScript
<1>2. Insert(w) \/ UpdateRow(w)
  <2>1. req[w].todo[1] \in {"insert", "update"}
    BY <1>1 DEF Belongs, Fitting, Writing, Edits
  <2>2. QED
    BY <2>1, WhichCall
<1>3. PICK t \in req[w].users : t \in Users
  BY <1>2, SomeUser DEF Insert, UpdateRow, At
<1>4. \E why : Writes(w, {u}, why)
  <2>1. CASE Insert(w)
    <3>1. row' = [row EXCEPT ![t] = req[w].arg] /\ Writes(w, {t}, {})
      BY <1>3, <2>1 DEF Insert
    <3>2. u = t
      BY <3>1 DEF Inv, TypeOK
    <3>3. QED
      BY <3>1, <3>2
  <2>2. CASE UpdateRow(w)
    <3>1. row' = [row EXCEPT ![t] = Written(req[w], @)] /\ \E why : Writes(w, {t}, why)
      BY <1>3, <2>2 DEF UpdateRow
    <3>2. u = t
      BY <3>1 DEF Inv, TypeOK
    <3>3. QED
      BY <3>1, <3>2
  <2>3. QED
    BY <1>2, <2>1, <2>2
<1>5. QED
  BY <1>4 DEF Writes

LEMMA ChainEdited ==
  ASSUME TrailInv, [Next]_vars, NEW w \in Workers, Call(w), req[w].todo[1] \in Writing,
         NEW u \in Users, u \in req[w].users, row'[u] # row[u], "overlap" \notin cause'[u],
         req[w].op \in Edits, Change(w, u),
         BeginsMade(u), EndsLeft(u), OldHolds(u)
  PROVE  BeginsMade(u)' /\ EndsLeft(u)' /\ OldHolds(u)'
<1> USE DEF TrailInv
<1> DEFINE Here(v) == Made(AllRecords', req', u, View(row'[u]), v)
           Went(v) == Left(AllRecords', req', u, v)
<1>1. /\ req'[w].committed /\ ~req[w].committed
      /\ req'[w].op = req[w].op /\ req'[w].users = req[w].users
      /\ req'[w].old = req[w].old /\ req'[w].result = {}
      /\ Awaits(req'[w], "reread")
      /\ req[w].op # "create" => DOMAIN req[w].old = req[w].users
  BY JustWritten DEF Audited, Edits
<1>2. /\ ~req[w].disturbed
      /\ \A v \in Workers : ~(req[v].committed /\ u \in req[v].users)
  BY <1>1, EditAlone
<1>3. \A v \in Workers \ {w} : Alike(req[v], req'[v]) /\ (u \in req[v].users => req'[v].disturbed)
  BY CallOthers, WriteMarks
<1>4. AllRecords' = AllRecords
  <2>1. ~Record(w)
    BY Recording DEF Writing
  <2>2. QED
    BY <2>1, CallRecords
<1>5. \A v : Made(AllRecords, req, u, View(row[u]), v) => Here(v)
  BY <1>2, <1>4 DEF Made, Leaves
<1>6. \A v : Left(AllRecords, req, u, v) => Went(v)
  BY <1>2, <1>4 DEF Left, Began
<1>7. Here(View(row'[u]))
  <2>1. Leaves(req'[w], u, View(row'[u]), View(row'[u]))
    BY <1>1 DEF Leaves
  <2>2. QED
    BY <2>1 DEF Made
<1> HIDE DEF Here, Went
<1>8. \A v \in Workers : u \in req'[v].users => req'[v].result = {}
  <2>1. ASSUME NEW v \in Workers \ {w}, u \in req'[v].users PROVE req'[v].result = {}
    <3>1. ~req[v].committed /\ req'[v].result = req[v].result
      BY <1>2, <1>3, <2>1 DEF Alike
    <3>2. QED
      BY <3>1 DEF AllOnScript, OnScript, Progress
  <2>2. QED
    BY <1>1, <2>1
<1>9. OldHolds(u)'
  <2>1. ASSUME NEW v \in Workers, u \in req'[v].users
        PROVE  req'[v].committed \/ req'[v].disturbed
    BY <1>1, <1>3, <2>1 DEF Alike
  <2>2. QED
    BY <2>1 DEF OldHolds
<1>10. CASE ~Known(u) /\ \A v \in Workers \ {w} : u \notin req[v].users
  <2>1. \A t \in AllRecords : u \notin t.users
    BY <1>10 DEF Named
  <2>2. \A v \in Workers \ {w} : u \notin req'[v].users
    BY <1>3, <1>10 DEF Alike
  <2>3. req[w].op = "create" /\ DOMAIN req'[w].old = {}
    <3>1. req[w].op = "create"
      BY <1>10 DEF Named
    <3>2. req[w].old = <<>>
      BY <3>1 DEF AllOnScript, OnScript, Progress
    <3>3. QED
      BY <1>1, <3>1, <3>2
  <2>4. BeginsMade(u)'
    BY <1>4, <1>7, <2>1, <2>2, <2>3 DEF BeginsMade, Here
  <2>5. EndsLeft(u)'
    BY <1>4, <1>8, <2>1 DEF EndsLeft
  <2>6. QED
    BY <1>9, <2>4, <2>5
<1>11. CASE req[w].op \in {"update", "edit", "activate", "verify"}
  <2>1. \A v \in Workers : u \in req'[v].users =>
          u \in req[v].users /\ req'[v].old = req[v].old
    BY <1>1, <1>3 DEF Alike
  <2>2. ASSUME NEW v \in Workers, u \in req'[v].users, u \in DOMAIN req'[v].old
        PROVE  Here(req'[v].old[u])
    BY <1>5, <2>1, <2>2 DEF BeginsMade
  <2>3. BeginsMade(u)'
    BY <1>4, <1>5, <1>7, <2>2 DEF BeginsMade, Here
  <2>4. req[w].old[u] = View(row[u])
    BY <1>1, <1>2, <1>11 DEF OldHolds
  <2>5. Went(View(row[u]))
    <3>1. Began(req'[w], u, View(row[u]))
      BY <1>1, <1>11, <2>4 DEF Began, Audited
    <3>2. QED
      BY <3>1 DEF Left, Went
  <2>6. ASSUME NEW t \in AllRecords, u \in t.users, NEW v \in t.new PROVE Went(v)
    BY <1>6, <2>5, <2>6 DEF EndsLeft
  <2>7. EndsLeft(u)'
    BY <1>4, <1>8, <2>6 DEF EndsLeft, Went
  <2>8. QED
    BY <1>9, <2>3, <2>7
<1>12. QED
  BY <1>10, <1>11 DEF Change, Edits

LEMMA InitChained == Init => Chained
<1> SUFFICES ASSUME Init, NEW x \in Users, Clean(x)
             PROVE  BeginsMade(x) /\ EndsLeft(x) /\ OldHolds(x)
  BY DEF Chained
<1>1. \A w \in Workers : req[w].users = {}
  BY IdleTyped DEF Init
<1>2. Known(x) => Live(x)
  <2>1. NoRow.status = "absent" /\ Account(NoRow.name, NoRow.password).status = "live"
    BY DEF Account, NoRow
  <2>2. row[x] = NoRow \/ row[x] = Account(NoRow.name, NoRow.password)
    BY DEF Init
  <2>3. QED
    BY <2>1, <2>2 DEF Known, Live
<1>3. Known(x) => Made(AllRecords, req, x, View(row[x]), View(row[x]))
  <2>1. Followed(x)
    BY DEF Clean, Followed
  <2>2. QED
    BY <1>2, <2>1, InitRecorded DEF Recorded
<1>4. \A t \in AllRecords : t.op = "create"
  BY DEF Init, AllRecords, Created
<1>5. ASSUME NEW t \in AllRecords, x \in t.users, NEW v \in t.new PROVE v = View(row[x])
  <2> DEFINE a == Account(NoRow.name, NoRow.password)
  <2>1. PICK u \in Users : /\ row = [y \in Users |-> IF y = u THEN a ELSE NoRow]
                           /\ trail = {Created(u)}
    BY <1>5 DEF Init, AllRecords
  <2>2. x = u /\ v = View(a)
    BY <1>5, <2>1 DEF Init, AllRecords, Created
  <2>3. QED
    BY <2>1, <2>2
<1>6. QED
  BY <1>1, <1>3, <1>4, <1>5 DEF BeginsMade, EndsLeft, OldHolds

LEMMA NextChained == TrailInv /\ Chained /\ [Next]_vars => Chained'
<1> SUFFICES ASSUME TrailInv, Chained, [Next]_vars, NEW u \in Users,
                    cause'[u] \subseteq {"batch", "unrevoked"}
             PROVE  BeginsMade(u)' /\ EndsLeft(u)' /\ OldHolds(u)'
  BY DEF Chained, Clean
<1>1. BeginsMade(u) /\ EndsLeft(u) /\ OldHolds(u)
  <2>1. Clean(u)
    BY CauseGrows DEF Clean, TrailInv
  <2>2. QED
    BY <2>1 DEF Chained
<1>2. /\ cause'[u] \intersect {"aborted", "lost"} = {}
      /\ "overlap" \notin cause'[u] /\ "unaudited" \notin cause'[u]
  OBVIOUS
<1>3. CASE row'[u] = row[u]
  BY <1>1, <1>2, <1>3, ChainKept DEF Known
<1>4. CASE row'[u] # row[u]
  <2>1. PICK w \in Workers : /\ Call(w) /\ req[w].todo[1] \in Writing
                             /\ u \in req[w].users /\ Change(w, u)
    BY <1>4, RowChange DEF TrailInv
  <2>2. CASE View(row'[u]) = View(row[u]) /\ Known(u)
    BY <1>1, <1>2, <2>2, ChainKept
  <2>3. CASE ~(View(row'[u]) = View(row[u]) /\ Known(u))
    <3>1. req[w].op \in Edits
      BY <1>2, <2>1, <2>3 DEF Change, Edits, Live, Known
    <3>2. QED
      BY <1>1, <1>2, <1>4, <2>1, <3>1, ChainEdited
  <2>4. QED
    BY <2>2, <2>3
<1>5. QED
  BY <1>3, <1>4

LEMMA SettledLeft ==
  ASSUME NEW u \in Users, Settled(u), NEW v, Left(AllRecords, req, u, v)
  PROVE  \E t \in RecordsOf(u) : t.op # "create" /\ t.old[u] = v
BY DEF Settled, Left, Began, AllRecords, RecordsOf

(* Of an account whose handlers never overlapped, and whose records were   *)
(* all written, each record begins with what another ended with, and ends  *)
(* with what another began with or with the row of today, although the old *)
(* value is read before the method and the record is written after the     *)
(* response (fetchOldData and createAuditLogAsync of the interceptor).     *)
THEOREM RecordsChained == Spec => []ChainOfRecords
<1>1. Chained => ChainOfRecords
  <2> SUFFICES ASSUME Chained, NEW u \in Users, Settled(u),
                      cause[u] \subseteq {"batch", "unrevoked"}, NEW t \in RecordsOf(u)
               PROVE  /\ t.op # "create" => \E s \in RecordsOf(u) : t.old[u] \in s.new
                      /\ \A v \in t.new : v = View(row[u])
                           \/ \E s \in RecordsOf(u) : s.op # "create" /\ s.old[u] = v
    BY DEF ChainOfRecords
  <2>1. BeginsMade(u) /\ EndsLeft(u) /\ t \in AllRecords /\ u \in t.users
    BY DEF Chained, Clean, RecordsOf, AllRecords
  <2>2. QED
    BY <2>1, SettledMade, SettledLeft DEF BeginsMade, EndsLeft
<1>2. QED
  BY <1>1, InitChained, NextChained, TrailInvariant, PTL DEF Spec
=============================================================================
