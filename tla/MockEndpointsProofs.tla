------------------------ MODULE MockEndpointsProofs ------------------------
(* What MockEndpoints promises for every table, set of clients and of      *)
(* administrators, every TTL and every bound.                              *)
EXTENDS MockEndpoints, TLAPS

-----------------------------------------------------------------------------
(* Types. *)

(* What is read from the table are endpoints. *)
LEMMA EnabledTyped ==
    ASSUME TypeOK
    PROVE  Enabled \in SUBSET Endpoint
BY DEF TypeOK, Enabled, As, Exists, Row, Endpoint

(* Whichever way a request goes on with a list, it stays a request. *)
LEMMA GoTyped ==
    ASSUME NEW r \in Request, NEW rows \in SUBSET Endpoint,
           NEW excused \in BOOLEAN, NEW next \in Go(r, rows, excused)
    PROVE  next \in Request
<1>1. Idle \in Request
  BY MockAssumption DEF Idle, Request
<1>2. CASE Found(r, rows) = {}
  BY <1>1, <1>2 DEF Go
<1>3. CASE Found(r, rows) # {}
  <2>1. PICK e \in Found(r, rows) :
           next = [r EXCEPT !.pc = "writeExact", !.rows = {e},
                            !.excused = excused]
    BY <1>3 DEF Go
  <2>2. e \in Endpoint
    BY <2>1 DEF Found
  <2>3. QED
    BY <2>1, <2>2 DEF Request
<1>4. QED
  BY <1>2, <1>3

(* A committed change keeps everything typed. *)
LEMMA CommitTyped ==
    ASSUME TypeOK, NEW a \in Admins, NEW id \in Ids, NEW new \in Row,
           NEW keys \in SUBSET Targets, Commit(a, id, new, keys)
    PROVE  TypeOK'
<1>1. row' \in [Ids -> Row] /\ list' \in Entry(ListTTL)
  BY DEF Commit, TypeOK
<1>2. changes' \in 0..MaxChanges /\ touched' \in [Ids -> 0..Horizon]
  BY MockAssumption DEF Commit, TypeOK, Horizon
<1>3. adm' \in [Admins -> Debt]
  <2>1. Owe(keys) \in Debt
    BY DEF Owe, Rest, Debt
  <2>2. QED
    BY <2>1 DEF Commit, TypeOK
<1>4. req' \in [Clients -> Request]
  <2>1. \A c \in Clients : Overtaken(req[c]) \in Request
    BY DEF TypeOK, Overtaken, Request
  <2>2. QED
    BY <2>1 DEF Commit
<1>5. exact' \in [Targets -> Entry(ExactTTL)]
  <2>1. \A t \in Targets : Uncovered(exact[t], t, id, keys) \in Entry(ExactTTL)
    BY DEF TypeOK, Uncovered, Entry
  <2>2. QED
    BY <2>1 DEF Commit
<1>6. QED
  BY <1>1, <1>2, <1>3, <1>4, <1>5 DEF TypeOK

(* A deletion that was lost leaves typed entries. *)
LEMMA ExcuseTyped ==
    ASSUME TypeOK, NEW keys
    PROVE  Excuse(keys) \in [Targets -> Entry(ExactTTL)]
<1>1. \A t \in Targets : [exact[t] EXCEPT !.excused = TRUE] \in Entry(ExactTTL)
  BY DEF TypeOK, Entry
<1>2. QED
  BY <1>1 DEF Excuse, TypeOK

LEMMA AbsentTyped ==
    ASSUME NEW ttl \in Nat
    PROVE  Absent \in Entry(ttl)
BY DEF Absent, Entry

(* Every step of a proxied request keeps the types. *)
LEMMA ServeTyped ==
    ASSUME TypeOK, NEW c \in Clients, Serve(c)
    PROVE  TypeOK'
<1>0. Idle \in Request
  BY MockAssumption DEF Idle, Request
<1>1. CASE \E t \in Targets : Miss(c, t)
  <2>1. PICK t \in Targets : Miss(c, t)
    BY <1>1
  <2>2. [Idle EXCEPT !.pc = "list", !.target = t] \in Request
    BY <1>0 DEF Request
  <2>3. QED
    BY <2>1, <2>2 DEF Miss, TypeOK
<1>2. CASE Preload(c)
  <2>1. [Idle EXCEPT !.pc = "writeList", !.rows = Enabled] \in Request
    BY <1>0, EnabledTyped DEF Request
  <2>2. QED
    BY <1>2, <2>1 DEF Preload, TypeOK
<1>3. CASE ReadList(c)
  <2>1. CASE Present(list)
    <3>1. PICK next \in Go(req[c], list.rows, list.excused \/ ListDoomed) :
             req' = [req EXCEPT ![c] = next]
      BY <1>3, <2>1 DEF ReadList
    <3>2. /\ list.rows \in SUBSET Endpoint
          /\ (list.excused \/ ListDoomed) \in BOOLEAN
      BY DEF TypeOK, Entry
    <3>3. next \in Request
      BY <3>1, <3>2, GoTyped DEF TypeOK
    <3>4. QED
      BY <1>3, <3>1, <3>3 DEF ReadList, TypeOK
  <2>2. CASE ~Present(list)
    <3>1. [req[c] EXCEPT !.pc = "query"] \in Request
      BY DEF TypeOK, Request
    <3>2. QED
      BY <1>3, <2>2, <3>1 DEF ReadList, TypeOK
  <2>3. QED
    BY <2>1, <2>2
<1>4. CASE Query(c)
  <2>1. [req[c] EXCEPT !.pc = "writeList", !.rows = Enabled] \in Request
    BY EnabledTyped DEF TypeOK, Request
  <2>2. req' = [req EXCEPT ![c] =
                   [req[c] EXCEPT !.pc = "writeList", !.rows = Enabled]]
    BY <1>4 DEF Query, TypeOK, Request
  <2>3. QED
    BY <1>4, <2>1, <2>2 DEF Query, TypeOK
<1>5. CASE WriteList(c)
  <2>1. PICK next \in Go(req[c], req[c].rows, req[c].excused) :
           req' = [req EXCEPT ![c] = next]
    BY <1>5 DEF WriteList
  <2>2. next \in Request
    BY <2>1, GoTyped DEF TypeOK, Request
  <2>3. ListEntry(req[c]) \in Entry(ListTTL)
    BY MockAssumption DEF TypeOK, Request, ListEntry, Entry
  <2>4. QED
    BY <1>5, <2>1, <2>2, <2>3 DEF WriteList, TypeOK
<1>6. CASE WriteExact(c)
  <2>1. ExactEntry(req[c]) \in Entry(ExactTTL)
    BY MockAssumption DEF TypeOK, Request, ExactEntry, Entry
  <2>2. QED
    BY <1>6, <1>0, <2>1 DEF WriteExact, TypeOK
<1>7. CASE Fail(c)
  BY <1>7, <1>0 DEF Fail, TypeOK
<1>8. QED
  BY <1>1, <1>2, <1>3, <1>4, <1>5, <1>6, <1>7 DEF Serve

(* Every step of an administrator is a change that commits, or one of      *)
(* those that do not touch the table.                                      *)
LEMMA Administration ==
    ASSUME TypeOK, NEW a \in Admins, Administer(a)
    PROVE  \/ \E id \in Ids, new \in Row, keys \in SUBSET Targets :
                 Commit(a, id, new, keys)
           \/ UNCHANGED <<row, list, exact, req, changes, touched>>
                /\ adm[a].pc \in {"rest", "remove"}
                /\ \E d \in Debt : adm' = [adm EXCEPT ![a] = d]
           \/ DeleteList(a) \/ FindKeys(a) \/ DropKeys(a)
<1>1. ASSUME NEW id \in Ids, NEW route \in Routes, NEW on \in BOOLEAN,
             Rewrite(a, id, route, on)
      PROVE  \E new \in Row, keys \in SUBSET Targets : Commit(a, id, new, keys)
  <2>1. [route |-> route, enabled |-> on, version |-> row[id].version + 1] \in Row
    BY DEF TypeOK, Row
  <2>2. Covers[route] \in SUBSET Targets
    BY MockAssumption
  <2>3. QED
    BY <1>1, <2>1, <2>2 DEF Rewrite
<1>2. CASE \E id \in Ids, route \in Routes : Update(a, id, route)
  BY <1>1, <1>2 DEF Update, TypeOK, Row
<1>3. CASE \E id \in Ids, route \in Routes, on \in BOOLEAN :
              Create(a, id, route, on)
  BY <1>3 DEF Create, FirstRow, Row
<1>4. CASE \E id \in Ids : Enable(a, id) \/ Disable(a, id)
  <2>1. PICK id \in Ids : Enable(a, id) \/ Disable(a, id)
    BY <1>4
  <2>2. row[id].route \in Routes
    BY <2>1 DEF Enable, Disable, Rewrite, Exists, TypeOK, Row
  <2>3. QED
    BY <1>1, <2>1, <2>2 DEF Enable, Disable
<1>5. CASE \E id \in Ids : RemoveFind(a, id)
  <2>1. PICK id \in Ids : RemoveFind(a, id)
    BY <1>5
  <2>2. row[id].route \in Routes
    BY <2>1 DEF RemoveFind, Exists, TypeOK, Row
  <2>3. [pc |-> "remove", id |-> id, keys |-> Covers[row[id].route]] \in Debt
    BY <2>2, MockAssumption DEF Debt
  <2>4. adm[a].pc = "rest"
    BY <2>1 DEF RemoveFind, Rest
  <2>5. QED
    BY <2>1, <2>3, <2>4 DEF RemoveFind
<1>6. CASE RemoveDelete(a)
  <2>1. adm[a].keys \in SUBSET Targets /\ Rest \in Debt
    BY DEF TypeOK, Debt, Rest
  <2>2. CASE ~ \E id \in Ids : Commit(a, id, [row[id] EXCEPT !.route = NoRoute],
                                      adm[a].keys)
    <3>1. UNCHANGED <<row, list, exact, req, changes, touched>>
            /\ adm' = [adm EXCEPT ![a] = Rest] /\ adm[a].pc = "remove"
      BY <1>6, <2>2 DEF RemoveDelete, Exists, TypeOK, Debt
    <3>2. QED
      BY <2>1, <3>1
  <2>3. CASE \E id \in Ids : Commit(a, id, [row[id] EXCEPT !.route = NoRoute],
                                    adm[a].keys)
    <3>1. \A id \in Ids : [row[id] EXCEPT !.route = NoRoute] \in Row
      BY DEF TypeOK, Row
    <3>2. QED
      BY <2>1, <2>3, <3>1
  <2>4. QED
    BY <2>2, <2>3
<1>7. CASE ClearCache(a)
  <2>1. Owe(Targets) \in Debt
    BY DEF Owe, Rest, Debt
  <2>2. adm[a].pc = "rest"
    BY <1>7 DEF ClearCache, Rest
  <2>3. QED
    BY <1>7, <2>1, <2>2 DEF ClearCache
<1>8. QED
  BY <1>2, <1>3, <1>4, <1>5, <1>6, <1>7 DEF Administer

(* An administrator's steps keep the types. *)
LEMMA AdministerTyped ==
    ASSUME TypeOK, NEW a \in Admins, Administer(a)
    PROVE  TypeOK'
<1>1. CASE \E id \in Ids, new \in Row, keys \in SUBSET Targets :
              Commit(a, id, new, keys)
  BY <1>1, CommitTyped
<1>2. CASE /\ UNCHANGED <<row, list, exact, req, changes, touched>>
           /\ \E d \in Debt : adm' = [adm EXCEPT ![a] = d]
  BY <1>2 DEF TypeOK
<1>3. CASE DeleteList(a)
  <2>1. list' \in Entry(ListTTL)
    BY <1>3, MockAssumption, AbsentTyped DEF DeleteList, TypeOK, Entry
  <2>2. [adm[a] EXCEPT !.pc = "keys"] \in Debt
    BY <1>3 DEF DeleteList, TypeOK, Debt
  <2>3. QED
    BY <1>3, <2>1, <2>2 DEF DeleteList, TypeOK
<1>4. CASE FindKeys(a)
  <2> DEFINE seen == {t \in adm[a].keys : Honest /\ Present(exact[t])}
  <2>1. [adm[a] EXCEPT !.pc = "drop", !.keys = seen] \in Debt
    BY <1>4 DEF FindKeys, TypeOK, Debt
  <2>2. adm' = [adm EXCEPT ![a] =
                   [adm[a] EXCEPT !.pc = "drop", !.keys = seen]]
    BY <1>4 DEF FindKeys, TypeOK, Debt
  <2>3. exact' \in [Targets -> Entry(ExactTTL)]
    BY <1>4, ExcuseTyped DEF FindKeys
  <2>4. QED
    BY <1>4, <2>1, <2>2, <2>3 DEF FindKeys, TypeOK
<1>5. CASE DropKeys(a)
  <2>1. exact' \in [Targets -> Entry(ExactTTL)]
    BY <1>5, MockAssumption, ExcuseTyped, AbsentTyped DEF DropKeys, TypeOK
  <2>2. Rest \in Debt
    BY DEF Rest, Debt
  <2>3. QED
    BY <1>5, <2>1, <2>2 DEF DropKeys, TypeOK
<1>6. QED
  BY <1>1, <1>2, <1>3, <1>4, <1>5, Administration

LEMMA AgedTyped ==
    ASSUME NEW ttl \in Nat, NEW entry \in Entry(ttl)
    PROVE  Aged(entry) \in Entry(ttl)
<1>1. CASE entry.left > 1
  BY <1>1 DEF Aged, Entry
<1>2. CASE ~(entry.left > 1)
  BY <1>2, AbsentTyped DEF Aged
<1>3. QED
  BY <1>1, <1>2

LEMMA TickTyped ==
    ASSUME TypeOK, Tick
    PROVE  TypeOK'
<1>1. list' \in Entry(ListTTL) /\ exact' \in [Targets -> Entry(ExactTTL)]
  BY MockAssumption, AgedTyped DEF Tick, TypeOK
<1>2. ASSUME NEW r \in Request, r.held < Hold
      PROVE  [r EXCEPT !.held = @ + 1] \in Request
  <2>1. r.held + 1 \in 0..Hold
    BY <1>2, MockAssumption DEF Request
  <2>2. QED
    BY <2>1 DEF Request
<1>3. req' \in [Clients -> Request]
  BY <1>2 DEF Tick, TypeOK
<1>4. touched' \in [Ids -> 0..Horizon]
  BY MockAssumption DEF Tick, TypeOK, Horizon
<1>5. QED
  BY <1>1, <1>3, <1>4 DEF Tick, TypeOK

LEMMA NextTyped ==
    ASSUME TypeOK, [Next]_vars
    PROVE  TypeOK'
<1>1. CASE UNCHANGED vars
  BY <1>1 DEF vars, TypeOK
<1>2. CASE Next
  BY <1>2, ServeTyped, AdministerTyped, TickTyped DEF Next
<1>3. QED
  BY <1>1, <1>2

LEMMA InitTyped ==
    ASSUME Init
    PROVE  TypeOK
<1>1. NeverRow \in Row /\ \A route \in Routes : FirstRow(route, TRUE) \in Row
  BY DEF NeverRow, FirstRow, Row
<1>2. row \in [Ids -> Row]
  BY <1>1 DEF Init
<1>3. /\ Absent \in Entry(ListTTL) /\ Absent \in Entry(ExactTTL)
      /\ Idle \in Request /\ Rest \in Debt
  BY MockAssumption, AbsentTyped DEF Idle, Request, Rest, Debt
<1>4. changes \in 0..MaxChanges /\ Horizon \in 0..Horizon
  BY MockAssumption DEF Init, Horizon
<1>5. list \in Entry(ListTTL) /\ exact \in [Targets -> Entry(ExactTTL)]
  BY <1>3 DEF Init
<1>6. req \in [Clients -> Request] /\ adm \in [Admins -> Debt]
  BY <1>3 DEF Init
<1>7. touched \in [Ids -> 0..Horizon]
  BY <1>4 DEF Init
<1>8. QED
  BY <1>2, <1>4, <1>5, <1>6, <1>7 DEF TypeOK

(* Table, cache, requests and deletions keep their types, for every table, *)
(* every matching of paths and every TTL (the whole of mock.service).      *)
THEOREM TypeCorrect == Spec => []TypeOK
<1>1. Init => TypeOK
  BY InitTyped
<1>2. TypeOK /\ [Next]_vars => TypeOK'
  BY NextTyped
<1>3. QED
  BY <1>1, <1>2, PTL DEF Spec

-----------------------------------------------------------------------------
(* Ages.  An entry carries no age: what bounds it is that the row of an    *)
(* endpoint that differs was touched after the entry was read, and that    *)
(* the rest of the TTL and the ticks since then never add up to more than  *)
(* they did when it was written.                                           *)

Differing(rows) == (rows \ Enabled) \cup (Enabled \ rows)

RequestAges ==
    \A c \in Clients :
        /\ req[c].pc = "writeList" =>
              \A e \in Differing(req[c].rows) : touched[e.id] <= req[c].held
        /\ req[c].pc = "writeExact" =>
              \A e \in req[c].rows \ Enabled :
                  touched[e.id] <= ListTTL + Hold - 1 + req[c].held

ListAges ==
    Present(list) => \A e \in Differing(list.rows) :
        touched[e.id] + list.left <= ListTTL + Hold

ExactAges ==
    \A t \in Targets : Present(exact[t]) =>
        \A e \in exact[t].rows \ Enabled :
            touched[e.id] + exact[t].left
                <= ListTTL + ExactTTL + 2 * Hold - 1

Ages == TypeOK /\ RequestAges /\ ListAges /\ ExactAges

(* With the table as it is, nothing starts or ceases to differ. *)
LEMMA SameTable ==
    ASSUME UNCHANGED row
    PROVE  Enabled' = Enabled /\ \A rows : Differing(rows)' = Differing(rows)
BY DEF Differing, Enabled, As, Exists

(* A change of one row leaves the endpoints of the others as they were.    *)
LEMMA OtherRows ==
    ASSUME TypeOK, NEW id \in Ids, NEW new, row' = [row EXCEPT ![id] = new]
    PROVE  \A e : e.id # id => (e \in Enabled' <=> e \in Enabled)
<1>1. \A i \in Ids : i # id => row'[i] = row[i]
  BY DEF TypeOK
<1>2. TAKE e
<1>3. HAVE e.id # id
<1>4. ASSUME e \in Enabled PROVE e \in Enabled'
  <2>1. PICK i \in Ids : Exists(i) /\ row[i].enabled /\ e = As(i)
    BY <1>4 DEF Enabled
  <2>2. i # id
    BY <1>3, <2>1 DEF As
  <2>3. QED
    BY <1>1, <2>1, <2>2 DEF Enabled, As, Exists
<1>5. ASSUME e \in Enabled' PROVE e \in Enabled
  <2>1. PICK i \in Ids : Exists(i)' /\ row'[i].enabled /\ e = As(i)'
    BY <1>5 DEF Enabled
  <2>2. i # id
    BY <1>3, <2>1 DEF As
  <2>3. QED
    BY <1>1, <2>1, <2>2 DEF Enabled, As, Exists
<1>6. QED
  BY <1>4, <1>5

(* What differs after a change did so before, or has just been touched.    *)
LEMMA CommitDiffers ==
    ASSUME TypeOK, NEW a \in Admins, NEW id \in Ids, NEW new \in Row,
           NEW keys \in SUBSET Targets, Commit(a, id, new, keys)
    PROVE  \A rows \in SUBSET Endpoint :
               /\ \A e \in Differing(rows)' :
                     \/ touched'[e.id] = 0
                     \/ /\ e \in Differing(rows)
                        /\ touched'[e.id] = touched[e.id]
               /\ \A e \in rows \ Enabled' :
                     \/ touched'[e.id] = 0
                     \/ e \in rows \ Enabled /\ touched'[e.id] = touched[e.id]
<1>1. TypeOK'
  BY CommitTyped
<1>2. Enabled \in SUBSET Endpoint /\ Enabled' \in SUBSET Endpoint
  BY <1>1, EnabledTyped DEF TypeOK, Enabled, As, Exists, Row, Endpoint
<1>3. /\ \A e : e.id # id => (e \in Enabled' <=> e \in Enabled)
      /\ touched'[id] = 0
      /\ \A i \in Ids : i # id => touched'[i] = touched[i]
  BY OtherRows DEF Commit, TypeOK
<1>4. \A e \in Endpoint : e.id \in Ids
  BY DEF Endpoint
<1>5. QED
  BY <1>2, <1>3, <1>4 DEF Differing

LEMMA CommitAges ==
    ASSUME Ages, NEW a \in Admins, NEW id \in Ids, NEW new \in Row,
           NEW keys \in SUBSET Targets, Commit(a, id, new, keys)
    PROVE  RequestAges' /\ ListAges' /\ ExactAges'
<1>1. TypeOK
  BY DEF Ages
<1>2. ListAges'
  <2>1. list' = list /\ list.rows \in SUBSET Endpoint /\ list.left \in 0..ListTTL
    BY <1>1 DEF Commit, TypeOK, Entry
  <2>2. QED
    BY <1>1, <2>1, CommitDiffers, MockAssumption DEF Ages, ListAges, Present
<1>3. ExactAges'
  <2>1. \A t \in Targets :
           /\ exact'[t].rows = exact[t].rows /\ exact'[t].left = exact[t].left
           /\ exact[t].rows \in SUBSET Endpoint
           /\ exact[t].left \in 0..ExactTTL
    BY <1>1 DEF Commit, Uncovered, TypeOK, Entry
  <2>2. QED
    BY <1>1, <2>1, CommitDiffers, MockAssumption DEF Ages, ExactAges, Present
<1>4. RequestAges'
  <2>1. \A c \in Clients :
           /\ req'[c].rows = req[c].rows /\ req'[c].held = req[c].held
           /\ req'[c].pc = req[c].pc
           /\ req[c].rows \in SUBSET Endpoint /\ req[c].held \in 0..Hold
    BY <1>1 DEF Commit, Overtaken, TypeOK, Request
  <2>2. ASSUME NEW c \in Clients, req'[c].pc = "writeList",
               NEW e \in Differing(req[c].rows)'
        PROVE  touched'[e.id] <= req'[c].held
    BY <1>1, <2>1, <2>2, CommitDiffers DEF Ages, RequestAges
  <2>3. ASSUME NEW c \in Clients, req'[c].pc = "writeExact",
               NEW e \in req'[c].rows \ Enabled'
        PROVE  touched'[e.id] <= ListTTL + Hold - 1 + req'[c].held
    BY <1>1, <2>1, <2>3, CommitDiffers, MockAssumption DEF Ages, RequestAges
  <2>4. QED
    BY <2>2, <2>3 DEF RequestAges
<1>5. QED
  BY <1>2, <1>3, <1>4

(* Deletions, done or lost, leave rows and TTL or nothing. *)
LEMMA DeletionAges ==
    ASSUME Ages, UNCHANGED <<row, touched, req>>,
           \/ UNCHANGED list
           \/ list' = Absent
           \/ list'.rows = list.rows /\ list'.left = list.left,
           \A t \in Targets :
               \/ exact'[t] = exact[t]
               \/ exact'[t] = Absent
               \/ exact'[t].rows = exact[t].rows /\ exact'[t].left = exact[t].left
    PROVE  RequestAges' /\ ListAges' /\ ExactAges'
<1>1. Enabled' = Enabled /\ \A rows : Differing(rows)' = Differing(rows)
  BY SameTable
<1>2. ~(Absent.left > 0)
  BY DEF Absent
<1>3. ListAges'
  BY <1>1, <1>2 DEF Ages, ListAges, Present
<1>4. ExactAges'
  BY <1>1, <1>2 DEF Ages, ExactAges, Present
<1>5. RequestAges'
  BY <1>1 DEF Ages, RequestAges
<1>6. QED
  BY <1>3, <1>4, <1>5

(* Where a request with a list goes on, its endpoint is one of the list's. *)
LEMMA GoFound ==
    ASSUME NEW r \in Request, NEW rows \in SUBSET Endpoint,
           NEW excused \in BOOLEAN, NEW next \in Go(r, rows, excused)
    PROVE  \/ next.pc = "idle"
           \/ /\ next.pc = "writeExact" /\ next.rows \subseteq rows
              /\ next.held = r.held /\ next.excused = excused
              /\ next.target = r.target
<1>1. CASE Found(r, rows) = {}
  BY <1>1 DEF Go, Idle
<1>2. CASE Found(r, rows) # {}
  <2>1. PICK e \in Found(r, rows) :
           next = [r EXCEPT !.pc = "writeExact", !.rows = {e},
                            !.excused = excused]
    BY <1>2 DEF Go
  <2>2. e \in rows
    BY <2>1 DEF Found
  <2>3. QED
    BY <2>1, <2>2 DEF Request
<1>3. QED
  BY <1>1, <1>2

(* A request that does not write an entry: only its own ages can change.   *)
LEMMA RequestStep ==
    ASSUME Ages, NEW c \in Clients, NEW r, req' = [req EXCEPT ![c] = r],
           UNCHANGED <<row, touched>>,
           r.pc = "writeList" =>
               \A e \in Differing(r.rows) : touched[e.id] <= r.held,
           r.pc = "writeExact" =>
               \A e \in r.rows \ Enabled :
                   touched[e.id] <= ListTTL + Hold - 1 + r.held
    PROVE  RequestAges'
<1>1. Enabled' = Enabled /\ \A rows : Differing(rows)' = Differing(rows)
  BY SameTable
<1>2. \A d \in Clients : req'[d] = IF d = c THEN r ELSE req[d]
  BY DEF Ages, TypeOK
<1>3. ASSUME NEW d \in Clients, req'[d].pc = "writeList",
             NEW e \in Differing(req'[d].rows)
      PROVE  touched[e.id] <= req'[d].held
  BY <1>2, <1>3 DEF Ages, RequestAges
<1>4. ASSUME NEW d \in Clients, req'[d].pc = "writeExact",
             NEW e \in req'[d].rows \ Enabled
      PROVE  touched[e.id] <= ListTTL + Hold - 1 + req'[d].held
  BY <1>2, <1>4 DEF Ages, RequestAges
<1>5. QED
  BY <1>1, <1>3, <1>4 DEF RequestAges

LEMMA ServeAges ==
    ASSUME Ages, NEW c \in Clients, Serve(c)
    PROVE  RequestAges' /\ ListAges' /\ ExactAges'
<1>0. TypeOK
  BY DEF Ages
<1>1. /\ req[c] \in Request /\ req[c].held \in 0..Hold
      /\ req[c].rows \in SUBSET Endpoint /\ req[c].excused \in BOOLEAN
      /\ list.rows \in SUBSET Endpoint /\ list.left \in 0..ListTTL
      /\ \A e \in Endpoint : touched[e.id] \in Nat
      /\ UNCHANGED <<row, touched>>
  <2>1. \A e \in Endpoint : e.id \in Ids
    BY DEF Endpoint
  <2>2. UNCHANGED <<row, touched>>
    BY DEF Serve, Miss, Preload, ReadList, Query, WriteList, WriteExact, Fail
  <2>3. QED
    BY <1>0, <2>1, <2>2, MockAssumption DEF TypeOK, Request, Entry, Horizon
<1>2. /\ Enabled' = Enabled /\ \A rows : Differing(rows)' = Differing(rows)
      /\ Differing(Enabled) = {}
  BY <1>1, SameTable DEF Differing
<1>3. /\ UNCHANGED list => ListAges'
      /\ UNCHANGED exact => ExactAges'
  BY <1>1, <1>2 DEF Ages, ListAges, ExactAges, Present
<1>4. CASE ReadList(c) /\ Present(list)
  <2>1. PICK next \in Go(req[c], list.rows, list.excused \/ ListDoomed) :
           req' = [req EXCEPT ![c] = next]
    BY <1>4 DEF ReadList
  <2>2. (list.excused \/ ListDoomed) \in BOOLEAN
    BY <1>0 DEF TypeOK, Entry
  <2>3. \/ next.pc = "idle"
        \/ next.pc = "writeExact" /\ next.rows \subseteq list.rows
             /\ next.held = req[c].held
    <3>1. PICK x \in BOOLEAN : next \in Go(req[c], list.rows, x)
      BY <2>1, <2>2
    <3>2. QED
      BY <1>1, <3>1, GoFound
  <2>4. \A e \in list.rows \ Enabled : touched[e.id] <= ListTTL + Hold - 1
    BY <1>1, <1>4, MockAssumption DEF Ages, ListAges, Present, Differing
  <2>5. next.pc = "writeExact" => \A e \in next.rows \ Enabled :
            touched[e.id] <= ListTTL + Hold - 1 + next.held
    BY <1>1, <2>3, <2>4, MockAssumption
  <2>6. RequestAges'
    BY <1>1, <2>1, <2>3, <2>5, RequestStep
  <2>7. QED
    BY <1>3, <1>4, <2>6 DEF ReadList
<1>5. CASE \/ \E t \in Targets : Miss(c, t)
           \/ ReadList(c) /\ ~Present(list)
           \/ Fail(c)
  <2>1. PICK r : req' = [req EXCEPT ![c] = r] /\ r.pc \in {"idle", "list", "query"}
    <3>1. CASE \E t \in Targets : Miss(c, t)
      <4>1. PICK t \in Targets : Miss(c, t)
        BY <3>1
      <4> DEFINE r == [Idle EXCEPT !.pc = "list", !.target = t]
      <4>2. req' = [req EXCEPT ![c] = r] /\ r.pc = "list"
        BY <4>1 DEF Miss, Idle
      <4>3. QED
        BY <4>2
    <3>2. CASE ReadList(c) /\ ~Present(list)
      <4> DEFINE r == [req[c] EXCEPT !.pc = "query"]
      <4>1. req' = [req EXCEPT ![c] = r] /\ r.pc = "query"
        BY <1>0, <1>1, <3>2 DEF ReadList, TypeOK, Request
      <4>2. QED
        BY <4>1
    <3>3. CASE Fail(c)
      <4>1. req' = [req EXCEPT ![c] = Idle]
        BY <3>3 DEF Fail
      <4>2. Idle.pc = "idle"
        BY DEF Idle
      <4>3. QED
        BY <4>1, <4>2
    <3>4. QED
      BY <1>5, <3>1, <3>2, <3>3
  <2>2. RequestAges'
    BY <1>1, <2>1, RequestStep
  <2>3. QED
    BY <1>3, <1>5, <2>2 DEF Miss, ReadList, Fail
<1>6. CASE Preload(c) \/ Query(c)
  <2>1. PICK r : /\ req' = [req EXCEPT ![c] = r]
                 /\ r.pc = "writeList" /\ r.rows = Enabled
    <3>1. CASE Preload(c)
      <4> DEFINE r == [Idle EXCEPT !.pc = "writeList", !.rows = Enabled]
      <4>1. req' = [req EXCEPT ![c] = r]
        BY <3>1 DEF Preload
      <4>2. r.pc = "writeList" /\ r.rows = Enabled
        BY DEF Idle
      <4>3. QED
        BY <4>1, <4>2
    <3>2. CASE Query(c)
      <4> DEFINE r == [req[c] EXCEPT !.pc = "writeList", !.rows = Enabled]
      <4>1. req' = [req EXCEPT ![c] = r]
        BY <1>0, <3>2 DEF Query, TypeOK, Request
      <4>2. r.pc = "writeList" /\ r.rows = Enabled
        BY <1>1 DEF Request
      <4>3. QED
        BY <4>1, <4>2
    <3>3. QED
      BY <1>6, <3>1, <3>2
  <2>2. RequestAges'
    BY <1>1, <1>2, <2>1, RequestStep
  <2>3. QED
    BY <1>3, <1>6, <2>2 DEF Preload, Query
<1>7. CASE WriteList(c)
  <2>1. PICK next \in Go(req[c], req[c].rows, req[c].excused) :
           req' = [req EXCEPT ![c] = next]
    BY <1>7 DEF WriteList
  <2>2. \/ next.pc = "idle"
        \/ next.pc = "writeExact" /\ next.rows \subseteq req[c].rows
             /\ next.held = req[c].held
    BY <1>1, <2>1, GoFound
  <2>3. \A e \in Differing(req[c].rows) : touched[e.id] <= req[c].held
    BY <1>7 DEF WriteList, Ages, RequestAges
  <2>4. next.pc = "writeExact" => \A e \in next.rows \ Enabled :
            /\ touched[e.id] <= next.held
            /\ touched[e.id] \in Nat /\ next.held \in Nat
    BY <1>1, <2>2, <2>3 DEF Differing
  <2>5. RequestAges'
    <3>1. next.pc = "writeExact" => \A e \in next.rows \ Enabled :
              touched[e.id] <= ListTTL + Hold - 1 + next.held
      BY <2>4, MockAssumption
    <3>2. QED
      BY <1>1, <2>1, <2>2, <3>1, RequestStep
  <2>6. list'.rows = req[c].rows /\ list'.left = ListTTL
    BY <1>7 DEF WriteList, ListEntry
  <2>7. \A e \in Differing(req[c].rows) : touched[e.id] \in Nat
    BY <1>0, <1>1, EnabledTyped DEF Differing
  <2>8. ListAges'
    BY <1>1, <1>2, <2>3, <2>6, <2>7, MockAssumption DEF ListAges
  <2>9. QED
    BY <1>3, <1>7, <2>5, <2>8 DEF WriteList
<1>8. CASE WriteExact(c)
  <2>1. Idle.pc = "idle"
    BY DEF Idle
  <2>2. RequestAges'
    BY <1>1, <1>8, <2>1, RequestStep DEF WriteExact
  <2>3. \A e \in req[c].rows \ Enabled :
            touched[e.id] + ExactTTL <= ListTTL + ExactTTL + 2 * Hold - 1
    BY <1>1, <1>8, MockAssumption DEF WriteExact, Ages, RequestAges
  <2>4. \A t \in Targets :
            exact'[t] = IF t = req[c].target THEN ExactEntry(req[c]) ELSE exact[t]
    BY <1>0, <1>8 DEF WriteExact, TypeOK
  <2>5. ExactEntry(req[c]).rows = req[c].rows /\ ExactEntry(req[c]).left = ExactTTL
    BY DEF ExactEntry
  <2>6. ExactAges'
    BY <1>1, <1>2, <2>3, <2>4, <2>5 DEF Ages, ExactAges, Present
  <2>7. QED
    BY <1>3, <1>8, <2>2, <2>6 DEF WriteExact
<1>9. QED
  BY <1>4, <1>5, <1>6, <1>7, <1>8 DEF Serve

LEMMA AdministerAges ==
    ASSUME Ages, NEW a \in Admins, Administer(a)
    PROVE  RequestAges' /\ ListAges' /\ ExactAges'
<1>0. TypeOK
  BY DEF Ages
<1>1. CASE \E id \in Ids, new \in Row, keys \in SUBSET Targets :
              Commit(a, id, new, keys)
  BY <1>1, CommitAges
<1>2. CASE UNCHANGED <<row, list, exact, req, changes, touched>>
  BY <1>2, DeletionAges
<1>3. CASE DeleteList(a)
  <2>1. \/ list' = Absent
        \/ list'.rows = list.rows /\ list'.left = list.left
    BY <1>0, <1>3 DEF DeleteList, TypeOK, Entry
  <2>2. QED
    BY <1>3, <2>1, DeletionAges DEF DeleteList
<1>4. CASE FindKeys(a) \/ DropKeys(a)
  <2>1. \A keys : \A t \in Targets :
            /\ Excuse(keys)[t].rows = exact[t].rows
            /\ Excuse(keys)[t].left = exact[t].left
    BY <1>0 DEF Excuse, TypeOK, Entry
  <2>2. \A t \in Targets :
            \/ exact'[t] = exact[t]
            \/ exact'[t] = Absent
            \/ exact'[t].rows = exact[t].rows /\ exact'[t].left = exact[t].left
    BY <1>4, <2>1 DEF FindKeys, DropKeys
  <2>3. QED
    BY <1>4, <2>2, DeletionAges DEF FindKeys, DropKeys
<1>5. QED
  BY <1>0, <1>1, <1>2, <1>3, <1>4, Administration

(* Time: what is left of a TTL falls by as much as the rows grow older.    *)
LEMMA AgedEntry ==
    ASSUME NEW ttl \in Nat, NEW entry \in Entry(ttl), Present(Aged(entry))
    PROVE  /\ Present(entry) /\ Aged(entry).rows = entry.rows
           /\ Aged(entry).left = entry.left - 1 /\ entry.left \in Nat
           /\ Aged(entry).excused = entry.excused
<1>1. ~ Present(Absent)
  BY DEF Present, Absent
<1>2. entry.left > 1
  BY <1>1 DEF Aged
<1>3. QED
  BY <1>2 DEF Aged, Entry, Present

LEMMA TickAges ==
    ASSUME Ages, Tick
    PROVE  RequestAges' /\ ListAges' /\ ExactAges'
<1>0. TypeOK /\ UNCHANGED row
  BY DEF Ages, Tick
<1>1. Enabled' = Enabled /\ \A rows : Differing(rows)' = Differing(rows)
  BY <1>0, SameTable
<1>2. \A e \in Endpoint : /\ touched[e.id] \in Nat /\ touched'[e.id] \in Nat
                          /\ touched'[e.id] <= touched[e.id] + 1
  <2>1. \A e \in Endpoint : e.id \in Ids
    BY DEF Endpoint
  <2>2. Horizon \in Nat
    BY MockAssumption DEF Horizon
  <2>3. QED
    BY <1>0, <2>1, <2>2 DEF Tick, TypeOK
<1>3. Enabled \in SUBSET Endpoint
  BY <1>0, EnabledTyped
<1>4. ListAges'
  <2>1. SUFFICES ASSUME Present(list'), NEW e \in Differing(list'.rows)
                 PROVE  touched'[e.id] + list'.left <= ListTTL + Hold
    BY <1>1 DEF ListAges, Present
  <2>2. /\ Present(list) /\ list'.rows = list.rows
        /\ list'.left = list.left - 1 /\ list.left \in Nat
    BY <1>0, <2>1, AgedEntry, MockAssumption DEF Tick, TypeOK
  <2>3. e \in Endpoint
    BY <1>0, <1>3, <2>1, <2>2 DEF Differing, TypeOK, Entry
  <2>4. touched[e.id] + list.left <= ListTTL + Hold
    BY <2>1, <2>2 DEF Ages, ListAges
  <2>5. QED
    BY <1>2, <2>2, <2>3, <2>4, MockAssumption
<1>5. ExactAges'
  <2>1. SUFFICES ASSUME NEW t \in Targets, Present(exact'[t]),
                        NEW e \in exact'[t].rows \ Enabled
                 PROVE  touched'[e.id] + exact'[t].left
                            <= ListTTL + ExactTTL + 2 * Hold - 1
    BY <1>1 DEF ExactAges, Present
  <2>2. exact'[t] = Aged(exact[t]) /\ exact[t] \in Entry(ExactTTL)
    BY <1>0 DEF Tick, TypeOK
  <2>3. /\ Present(exact[t]) /\ exact'[t].rows = exact[t].rows
        /\ exact'[t].left = exact[t].left - 1 /\ exact[t].left \in Nat
    BY <2>1, <2>2, AgedEntry, MockAssumption
  <2>4. e \in Endpoint
    BY <2>1, <2>2, <2>3 DEF Entry
  <2>5. touched[e.id] + exact[t].left <= ListTTL + ExactTTL + 2 * Hold - 1
    BY <2>1, <2>3 DEF Ages, ExactAges
  <2>6. QED
    BY <1>2, <2>3, <2>4, <2>5, MockAssumption
<1>6. RequestAges'
  <2>1. \A c \in Clients :
           /\ req'[c].pc = req[c].pc /\ req'[c].rows = req[c].rows
           /\ req[c].rows \in SUBSET Endpoint /\ req[c].held \in Nat
           /\ req[c].pc # "idle" => req'[c].held = req[c].held + 1
    BY <1>0, MockAssumption DEF Tick, TypeOK, Request
  <2>2. ASSUME NEW c \in Clients, req'[c].pc = "writeList",
               NEW e \in Differing(req'[c].rows)
        PROVE  touched'[e.id] <= req'[c].held
    <3>1. e \in Endpoint /\ touched[e.id] <= req[c].held
      BY <1>3, <2>1, <2>2 DEF Differing, Ages, RequestAges
    <3>2. QED
      BY <1>2, <2>1, <2>2, <3>1
  <2>3. ASSUME NEW c \in Clients, req'[c].pc = "writeExact",
               NEW e \in req'[c].rows \ Enabled
        PROVE  touched'[e.id] <= ListTTL + Hold - 1 + req'[c].held
    <3>1. e \in Endpoint /\ touched[e.id] <= ListTTL + Hold - 1 + req[c].held
      BY <2>1, <2>3 DEF Ages, RequestAges
    <3>2. QED
      BY <1>2, <2>1, <2>3, <3>1, MockAssumption
  <2>4. QED
    BY <1>1, <2>2, <2>3 DEF RequestAges
<1>7. QED
  BY <1>4, <1>5, <1>6

LEMMA AgesInvariant == Spec => []Ages
<1>1. Init => Ages
  <2>1. SUFFICES ASSUME Init PROVE Ages
    OBVIOUS
  <2>2. ~ Present(Absent) /\ Idle.pc = "idle"
    BY DEF Present, Absent, Idle
  <2>3. RequestAges /\ ListAges /\ ExactAges
    BY <2>1, <2>2 DEF Init, RequestAges, ListAges, ExactAges
  <2>4. QED
    BY <2>1, <2>3, InitTyped DEF Ages
<1>2. Ages /\ [Next]_vars => Ages'
  <2>1. SUFFICES ASSUME Ages, [Next]_vars PROVE Ages'
    OBVIOUS
  <2>2. TypeOK'
    BY <2>1, NextTyped DEF Ages
  <2>3. RequestAges' /\ ListAges' /\ ExactAges'
    <3>1. CASE UNCHANGED vars
      BY <2>1, <3>1, DeletionAges DEF vars
    <3>2. CASE Next
      BY <2>1, <3>2, ServeAges, AdministerAges, TickAges DEF Next
    <3>3. QED
      BY <2>1, <3>1, <3>2
  <2>4. QED
    BY <2>2, <2>3 DEF Ages
<1>3. QED
  BY <1>1, <1>2, PTL DEF Spec

(* The list (findMatchingEndpoint 298-315) differs from the table only for *)
(* endpoints changed within its TTL, for any number of clients and         *)
(* administrators, whatever deletions are lost.                            *)
THEOREM ListBounded == Spec => []StaleListBound
<1>1. Ages => StaleListBound
  <2>1. SUFFICES ASSUME Ages, Present(list), NEW e \in Differing(list.rows)
                 PROVE  touched[e.id] < ListTTL + Hold
    BY DEF StaleListBound, Differing
  <2>2. touched[e.id] + list.left <= ListTTL + Hold /\ list.left > 0
    BY <2>1 DEF Ages, ListAges, Present
  <2>3. list.left \in Nat /\ touched[e.id] \in Nat
    <3>1. TypeOK /\ e.id \in Ids
      BY <2>1, EnabledTyped DEF Ages, TypeOK, Entry, Differing, Endpoint
    <3>2. QED
      BY <3>1, MockAssumption DEF TypeOK, Entry, Horizon
  <2>4. QED
    BY <2>2, <2>3, MockAssumption
<1>2. QED
  BY <1>1, AgesInvariant, PTL

(* An exact entry (327) answers with an endpoint that has changed for at   *)
(* most both TTLs together, whatever deletions are lost.                   *)
THEOREM AnswerBounded == Spec => []StaleAnswerBound
<1>1. Ages => StaleAnswerBound
  <2>1. SUFFICES ASSUME Ages, NEW t \in Targets, Present(exact[t]),
                        NEW e \in exact[t].rows \ Enabled
                 PROVE  touched[e.id] < ListTTL + ExactTTL + 2 * Hold - 1
    BY DEF StaleAnswerBound
  <2>2. /\ touched[e.id] + exact[t].left <= ListTTL + ExactTTL + 2 * Hold - 1
        /\ exact[t].left > 0
    BY <2>1 DEF Ages, ExactAges, Present
  <2>3. exact[t].left \in Nat /\ touched[e.id] \in Nat
    <3>1. TypeOK /\ e.id \in Ids
      BY <2>1 DEF Ages, TypeOK, Entry, Endpoint
    <3>2. QED
      BY <3>1, MockAssumption DEF TypeOK, Entry, Horizon
  <2>4. QED
    BY <2>2, <2>3, MockAssumption
<1>2. QED
  BY <1>1, AgesInvariant, PTL

-----------------------------------------------------------------------------
(* Causes.  A stale entry comes from a fill, and a fill that holds         *)
(* endpoints holds those of the table unless a change has overtaken it, so *)
(* whatever is stale when it is written is already excused; an entry that  *)
(* is made stale later has its deletion owed by the one who changed the    *)
(* table, or lies under a key that deletion does not cover.                *)

Owed(t) ==
    \E a \in Admins : adm[a].pc \in {"list", "keys", "drop"}
                        /\ t \in adm[a].keys

FillCauses ==
    \A c \in Clients :
        /\ req[c].pc = "writeList" =>
              req[c].rows = Enabled \/ req[c].excused
        /\ req[c].pc = "writeExact" =>
              req[c].rows \subseteq Enabled \/ req[c].excused

ListCauses == Present(list) => list.rows = Enabled \/ list.excused \/ ListDoomed

ExactCauses ==
    \A t \in Targets :
        exact[t].rows \subseteq Enabled \/ exact[t].excused \/ Owed(t)

(* An entry that has expired or been deleted holds nothing. *)
ExactEmpty == \A t \in Targets : ~Present(exact[t]) => exact[t].rows = {}

Causes == TypeOK /\ FillCauses /\ ListCauses /\ ExactCauses /\ ExactEmpty

(* The types of the parts, as the proofs below use them. *)
LEMMA EntryParts ==
    ASSUME TypeOK
    PROVE  /\ list.rows \in SUBSET Endpoint /\ list.excused \in BOOLEAN
           /\ \A t \in Targets : /\ exact[t].rows \in SUBSET Endpoint
                                 /\ exact[t].excused \in BOOLEAN
           /\ \A c \in Clients : /\ req[c] \in Request
                                 /\ req[c].rows \in SUBSET Endpoint
                                 /\ req[c].excused \in BOOLEAN
BY DEF TypeOK, Entry, Request

(* Only an administrator who owes nothing changes the table. *)
LEMMA CommitFree ==
    ASSUME TypeOK, NEW a \in Admins, Administer(a),
           NEW id, NEW new, NEW keys, Commit(a, id, new, keys)
    PROVE  adm[a].pc \in {"rest", "remove"}
<1>1. adm' = [adm EXCEPT ![a] = Owe(keys)] /\ changes' = changes + 1
  BY DEF Commit
<1>2. changes \in Nat /\ changes' # changes
  BY <1>1, MockAssumption DEF TypeOK
<1>3. Rest.pc = "rest"
  BY DEF Rest
<1>4. CASE adm[a] = Rest
  BY <1>3, <1>4
<1>5. CASE adm[a].pc = "remove"
  BY <1>5
<1>6. CASE adm[a] # Rest /\ adm[a].pc # "remove"
  BY <1>2, <1>6 DEF Administer, Update, Enable, Disable, Rewrite, Create,
     RemoveFind, RemoveDelete, ClearCache, DeleteList, FindKeys, DropKeys
<1>7. QED
  BY <1>4, <1>5, <1>6

LEMMA CommitCauses ==
    ASSUME Causes, NEW a \in Admins, adm[a].pc \in {"rest", "remove"},
           NEW id \in Ids, NEW new \in Row, NEW keys \in SUBSET Targets,
           Commit(a, id, new, keys)
    PROVE  FillCauses' /\ ListCauses' /\ ExactCauses' /\ ExactEmpty'
<1>0. TypeOK
  BY DEF Causes
<1>1. /\ adm'[a].pc = "list" /\ adm'[a].keys = keys
      /\ \A b \in Admins : b # a => adm'[b] = adm[b]
  BY <1>0 DEF Commit, Owe, Rest, TypeOK
<1>2. FillCauses'
  <2>1. \A c \in Clients :
           /\ req'[c].pc = req[c].pc
           /\ req'[c].pc \in {"writeList", "writeExact"} => req'[c].excused
    BY <1>0 DEF Commit, Overtaken, TypeOK, Request
  <2>2. QED
    BY <2>1 DEF FillCauses
<1>3. ListCauses'
  BY <1>1 DEF ListCauses, ListDoomed
<1>4. ASSUME NEW t \in Targets
      PROVE  /\ \/ exact'[t].rows \subseteq Enabled'
                \/ exact'[t].excused
                \/ Owed(t)'
             /\ ~Present(exact'[t]) => exact'[t].rows = {}
  <2>1. /\ exact'[t].rows = exact[t].rows /\ exact'[t].left = exact[t].left
        /\ exact[t].excused => exact'[t].excused
        /\ t \notin keys /\ (\E e \in exact[t].rows : e.id = id)
              => exact'[t].excused
    BY <1>0 DEF Commit, Uncovered, TypeOK, Entry
  <2>2. ~Present(exact'[t]) => exact'[t].rows = {}
    BY <2>1 DEF Causes, ExactEmpty, Present
  <2>3. CASE t \in keys
    BY <1>1, <2>2, <2>3 DEF Owed
  <2>4. CASE t \notin keys /\ \A e \in exact[t].rows : e.id # id
    <3>1. \A e : e.id # id => (e \in Enabled' <=> e \in Enabled)
      BY <1>0, OtherRows DEF Commit
    <3>2. CASE exact[t].rows \subseteq Enabled
      BY <2>1, <2>2, <2>4, <3>1, <3>2
    <3>3. CASE exact[t].excused
      BY <2>1, <2>2, <3>3
    <3>4. CASE Owed(t)
      BY <1>1, <2>2, <3>4 DEF Owed
    <3>5. QED
      BY <3>2, <3>3, <3>4 DEF Causes, ExactCauses
  <2>5. QED
    BY <2>1, <2>2, <2>3, <2>4
<1>5. QED
  BY <1>2, <1>3, <1>4 DEF ExactCauses, ExactEmpty

(* A step that leaves the table and the debts alone or adds to them.       *)
LEMMA StillCaused ==
    ASSUME Causes, UNCHANGED row,
           \A a \in Admins :
               \/ adm[a].pc \in {"rest", "remove"} \/ adm'[a] = adm[a]
    PROVE  /\ Enabled' = Enabled
           /\ ListDoomed => ListDoomed'
           /\ \A t \in Targets : Owed(t) => Owed(t)'
           /\ UNCHANGED req => FillCauses'
           /\ UNCHANGED list => ListCauses'
           /\ UNCHANGED exact => ExactCauses' /\ ExactEmpty'
<1>1. Enabled' = Enabled
  BY SameTable
<1>2. ListDoomed => ListDoomed'
  BY DEF ListDoomed
<1>3. \A t \in Targets : Owed(t) => Owed(t)'
  BY DEF Owed
<1>4. QED
  BY <1>1, <1>2, <1>3 DEF Causes, FillCauses, ListCauses, ExactCauses,
     ExactEmpty, Present

(* One request goes on: only what it now holds needs a cause.              *)
LEMMA FillStep ==
    ASSUME Causes, NEW c \in Clients, NEW r, req' = [req EXCEPT ![c] = r],
           UNCHANGED row,
           r.pc = "writeList" => r.rows = Enabled \/ r.excused,
           r.pc = "writeExact" => r.rows \subseteq Enabled \/ r.excused
    PROVE  FillCauses'
<1>1. Enabled' = Enabled
  BY SameTable
<1>2. \A d \in Clients : req'[d] = IF d = c THEN r ELSE req[d]
  BY DEF Causes, TypeOK
<1>3. QED
  BY <1>1, <1>2 DEF Causes, FillCauses

LEMMA ServeCauses ==
    ASSUME Causes, NEW c \in Clients, Serve(c)
    PROVE  FillCauses' /\ ListCauses' /\ ExactCauses' /\ ExactEmpty'
<1>0. TypeOK /\ UNCHANGED <<row, adm>>
  BY DEF Causes, Serve, Miss, Preload, ReadList, Query, WriteList, WriteExact,
     Fail
<1>1. /\ Enabled' = Enabled
      /\ \A t \in Targets : Owed(t) => Owed(t)'
      /\ UNCHANGED list => ListCauses'
      /\ UNCHANGED exact => ExactCauses' /\ ExactEmpty'
  BY <1>0, StillCaused
<1>2. /\ list.rows \in SUBSET Endpoint /\ list.excused \in BOOLEAN
      /\ req[c] \in Request /\ req[c].rows \in SUBSET Endpoint
      /\ req[c].excused \in BOOLEAN
  BY <1>0, EntryParts
<1>3. CASE ReadList(c) /\ Present(list)
  <2>1. PICK next \in Go(req[c], list.rows, list.excused \/ ListDoomed) :
           req' = [req EXCEPT ![c] = next]
    BY <1>3 DEF ReadList
  <2>2. (list.excused \/ ListDoomed) \in BOOLEAN
    BY <1>2
  <2>3. \/ next.pc = "idle"
        \/ /\ next.pc = "writeExact" /\ next.rows \subseteq list.rows
           /\ list.excused \/ ListDoomed => next.excused
    <3>1. PICK x \in BOOLEAN :
             /\ list.excused \/ ListDoomed => x
             /\ next \in Go(req[c], list.rows, x)
      BY <2>1, <2>2
    <3>2. \/ next.pc = "idle"
          \/ /\ next.pc = "writeExact" /\ next.rows \subseteq list.rows
             /\ next.excused = x
      BY <1>2, <3>1, GoFound
    <3>3. QED
      BY <3>1, <3>2
  <2>4. next.pc = "writeExact" => next.rows \subseteq Enabled \/ next.excused
    BY <1>3, <2>3 DEF Causes, ListCauses
  <2>5. FillCauses'
    BY <1>0, <2>1, <2>3, <2>4, FillStep
  <2>6. UNCHANGED <<list, exact>>
    BY <1>3 DEF ReadList
  <2>7. QED
    BY <1>1, <2>5, <2>6
<1>4. CASE \E t \in Targets : Miss(c, t)
  <2>1. PICK t \in Targets : Miss(c, t)
    BY <1>4
  <2> DEFINE r == [Idle EXCEPT !.pc = "list", !.target = t]
  <2>2. req' = [req EXCEPT ![c] = r] /\ r.pc = "list"
    BY <2>1 DEF Miss, Idle
  <2>3. FillCauses'
    BY <1>0, <2>2, FillStep
  <2>4. QED
    BY <1>1, <2>1, <2>3 DEF Miss
<1>5. CASE ReadList(c) /\ ~Present(list)
  <2> DEFINE r == [req[c] EXCEPT !.pc = "query"]
  <2>1. req' = [req EXCEPT ![c] = r] /\ r.pc = "query"
    BY <1>0, <1>2, <1>5 DEF ReadList, TypeOK, Request
  <2>2. FillCauses'
    BY <1>0, <2>1, FillStep
  <2>3. QED
    BY <1>1, <1>5, <2>2 DEF ReadList
<1>6. CASE Fail(c)
  <2>1. req' = [req EXCEPT ![c] = Idle] /\ Idle.pc = "idle"
    BY <1>6 DEF Fail, Idle
  <2>2. FillCauses'
    BY <1>0, <2>1, FillStep
  <2>3. QED
    BY <1>1, <1>6, <2>2 DEF Fail
<1>7. CASE Preload(c)
  <2> DEFINE r == [Idle EXCEPT !.pc = "writeList", !.rows = Enabled]
  <2>1. req' = [req EXCEPT ![c] = r]
    BY <1>7 DEF Preload
  <2>2. r.pc = "writeList" /\ r.rows = Enabled
    BY DEF Idle
  <2>3. FillCauses'
    BY <1>0, <2>1, <2>2, FillStep
  <2>4. QED
    BY <1>1, <1>7, <2>3 DEF Preload
<1>8. CASE Query(c)
  <2> DEFINE r == [req[c] EXCEPT !.pc = "writeList", !.rows = Enabled]
  <2>1. req' = [req EXCEPT ![c] = r]
    BY <1>0, <1>8 DEF Query, TypeOK, Request
  <2>2. r.pc = "writeList" /\ r.rows = Enabled
    BY <1>2 DEF Request
  <2>3. FillCauses'
    BY <1>0, <2>1, <2>2, FillStep
  <2>4. QED
    BY <1>1, <1>8, <2>3 DEF Query
<1>9. CASE WriteList(c)
  <2>1. PICK next \in Go(req[c], req[c].rows, req[c].excused) :
           req' = [req EXCEPT ![c] = next]
    BY <1>9 DEF WriteList
  <2>2. \/ next.pc = "idle"
        \/ /\ next.pc = "writeExact" /\ next.rows \subseteq req[c].rows
           /\ next.excused = req[c].excused
    BY <1>2, <2>1, GoFound
  <2>3. req[c].rows = Enabled \/ req[c].excused
    BY <1>9 DEF WriteList, Causes, FillCauses
  <2>4. FillCauses'
    BY <1>0, <2>1, <2>2, <2>3, FillStep
  <2>5. list'.rows = req[c].rows /\ list'.excused = req[c].excused
    BY <1>9 DEF WriteList, ListEntry
  <2>6. ListCauses'
    BY <1>1, <2>3, <2>5 DEF ListCauses
  <2>7. QED
    BY <1>1, <1>9, <2>4, <2>6 DEF WriteList
<1>10. CASE WriteExact(c)
  <2>1. Idle.pc = "idle"
    BY DEF Idle
  <2>2. FillCauses'
    BY <1>0, <1>10, <2>1, FillStep DEF WriteExact
  <2>3. req[c].rows \subseteq Enabled \/ req[c].excused
    BY <1>10 DEF WriteExact, Causes, FillCauses
  <2>4. \A t \in Targets :
           exact'[t] = IF t = req[c].target THEN ExactEntry(req[c]) ELSE exact[t]
    BY <1>0, <1>10 DEF WriteExact, TypeOK
  <2>5. /\ ExactEntry(req[c]).rows = req[c].rows
        /\ ExactEntry(req[c]).excused = req[c].excused
        /\ Present(ExactEntry(req[c]))
    BY MockAssumption DEF ExactEntry, Present
  <2>6. ExactCauses' /\ ExactEmpty'
    BY <1>1, <2>3, <2>4, <2>5 DEF Causes, ExactCauses, ExactEmpty, Present
  <2>7. QED
    BY <1>1, <1>10, <2>2, <2>6 DEF WriteExact
<1>11. QED
  BY <1>3, <1>4, <1>5, <1>6, <1>7, <1>8, <1>9, <1>10 DEF Serve

(* The deletions of an administrator: the list goes, or is excused; then   *)
(* the exact entries found go, or are excused.                             *)
LEMMA DeletionCauses ==
    ASSUME Causes, NEW a \in Admins,
           DeleteList(a) \/ FindKeys(a) \/ DropKeys(a)
    PROVE  FillCauses' /\ ListCauses' /\ ExactCauses' /\ ExactEmpty'
<1>0. /\ TypeOK /\ UNCHANGED <<row, req>>
      /\ \A b \in Admins : b # a => adm'[b] = adm[b]
  BY DEF Causes, TypeOK, DeleteList, FindKeys, DropKeys
<1>1. Enabled' = Enabled
  BY <1>0, SameTable
<1>2. FillCauses'
  BY <1>0, <1>1 DEF Causes, FillCauses
<1>3. \A keys : \A t \in Targets :
         /\ Excuse(keys)[t].rows = exact[t].rows
         /\ Excuse(keys)[t].left = exact[t].left
         /\ exact[t].excused => Excuse(keys)[t].excused
         /\ t \in keys /\ Present(exact[t]) => Excuse(keys)[t].excused
  BY <1>0 DEF Excuse, TypeOK, Entry
<1>4. /\ Absent.rows = {} /\ ~Present(Absent)
      /\ Rest.pc = "rest"
  BY DEF Absent, Present, Rest
<1>5. CASE DeleteList(a)
  <2>1. adm'[a].pc = "keys" /\ adm'[a].keys = adm[a].keys
    BY <1>0, <1>5 DEF DeleteList, TypeOK, Debt
  <2>2. \/ list' = Absent
        \/ list'.excused
    BY <1>0, <1>5 DEF DeleteList, TypeOK, Entry
  <2>3. ListCauses'
    BY <1>4, <2>2 DEF ListCauses
  <2>4. \A t \in Targets : Owed(t) => Owed(t)'
    BY <1>0, <2>1 DEF Owed
  <2>5. ExactCauses' /\ ExactEmpty'
    BY <1>1, <1>5, <2>4 DEF DeleteList, Causes, ExactCauses, ExactEmpty, Present
  <2>6. QED
    BY <1>2, <2>3, <2>5
<1>6. CASE FindKeys(a)
  <2> DEFINE seen == {t \in adm[a].keys : Honest /\ Present(exact[t])}
  <2>1. adm'[a].pc = "drop" /\ adm'[a].keys = seen
    BY <1>0, <1>6 DEF FindKeys, TypeOK, Debt
  <2>2. exact' = Excuse(adm[a].keys \ seen) /\ list' = list
    BY <1>6 DEF FindKeys
  <2>3. ListCauses'
    BY <1>0, <1>1, <1>6, <2>2 DEF FindKeys, Causes, ListCauses, ListDoomed
  <2>4. ASSUME NEW t \in Targets
        PROVE  /\ \/ exact'[t].rows \subseteq Enabled'
                  \/ exact'[t].excused
                  \/ Owed(t)'
               /\ ~Present(exact'[t]) => exact'[t].rows = {}
    <3> DEFINE keys == adm[a].keys \ seen
    <3>1. /\ exact'[t].rows = exact[t].rows /\ exact'[t].left = exact[t].left
          /\ exact[t].excused => exact'[t].excused
          /\ t \in keys /\ Present(exact[t]) => exact'[t].excused
      BY <1>3, <2>2
    <3>2. ~Present(exact[t]) => exact[t].rows = {}
      BY DEF Causes, ExactEmpty
    <3>3. ~Present(exact'[t]) => exact'[t].rows = {}
      BY <3>1, <3>2 DEF Present
    <3>4. CASE t \in adm[a].keys /\ Present(exact[t])
      BY <2>1, <3>1, <3>3, <3>4 DEF Owed
    <3>5. CASE ~Present(exact[t])
      BY <3>1, <3>2, <3>3, <3>5
    <3>6. CASE t \notin adm[a].keys
      <4>1. Owed(t) => Owed(t)'
        BY <1>0, <3>6 DEF Owed
      <4>2. QED
        BY <1>1, <3>1, <3>3, <4>1 DEF Causes, ExactCauses
    <3>7. QED
      BY <3>4, <3>5, <3>6
  <2>5. QED
    BY <1>2, <2>3, <2>4 DEF ExactCauses, ExactEmpty
<1>7. CASE DropKeys(a)
  <2>1. /\ adm'[a] = Rest /\ list' = list
        /\ \A t \in Targets : t \notin adm[a].keys /\ Owed(t) => Owed(t)'
    <3>1. adm'[a] = Rest /\ list' = list
      BY <1>0, <1>7 DEF DropKeys, TypeOK
    <3>2. QED
      BY <1>0, <3>1 DEF Owed
  <2>2. ListCauses'
    BY <1>0, <1>1, <1>7, <2>1 DEF DropKeys, Causes, ListCauses, ListDoomed
  <2>3. ASSUME NEW t \in Targets
        PROVE  /\ \/ exact'[t].rows \subseteq Enabled'
                  \/ exact'[t].excused
                  \/ Owed(t)'
               /\ ~Present(exact'[t]) => exact'[t].rows = {}
    <3>1. \/ exact'[t] = Absent
          \/ t \notin adm[a].keys /\ exact'[t] = exact[t]
          \/ exact'[t] = Excuse(adm[a].keys)[t]
      BY <1>7 DEF DropKeys
    <3>2. ~Present(exact[t]) => exact[t].rows = {}
      BY DEF Causes, ExactEmpty
    <3>3. CASE exact'[t] = Absent
      BY <1>4, <3>3
    <3>4. CASE t \notin adm[a].keys /\ exact'[t] = exact[t]
      BY <1>1, <2>1, <3>2, <3>4 DEF Causes, ExactCauses
    <3>5. CASE exact'[t] = Excuse(adm[a].keys)[t]
      <4>1. /\ exact'[t].rows = exact[t].rows
            /\ exact'[t].left = exact[t].left
            /\ exact[t].excused => exact'[t].excused
            /\ t \in adm[a].keys /\ Present(exact[t]) => exact'[t].excused
        BY <1>3, <3>5
      <4>2. ~Present(exact'[t]) => exact'[t].rows = {}
        BY <3>2, <4>1 DEF Present
      <4>3. CASE t \in adm[a].keys
        BY <3>2, <4>1, <4>2, <4>3
      <4>4. CASE t \notin adm[a].keys
        BY <1>1, <2>1, <4>1, <4>2, <4>4 DEF Causes, ExactCauses
      <4>5. QED
        BY <4>3, <4>4
    <3>6. QED
      BY <3>1, <3>3, <3>4, <3>5
  <2>4. QED
    BY <1>2, <2>2, <2>3 DEF ExactCauses, ExactEmpty
<1>8. QED
  BY <1>5, <1>6, <1>7

LEMMA AdministerCauses ==
    ASSUME Causes, NEW a \in Admins, Administer(a)
    PROVE  FillCauses' /\ ListCauses' /\ ExactCauses' /\ ExactEmpty'
<1>0. TypeOK
  BY DEF Causes
<1>1. CASE \E id \in Ids, new \in Row, keys \in SUBSET Targets :
              Commit(a, id, new, keys)
  <2>1. PICK id \in Ids, new \in Row, keys \in SUBSET Targets :
           Commit(a, id, new, keys)
    BY <1>1
  <2>2. adm[a].pc \in {"rest", "remove"}
    BY <1>0, <2>1, CommitFree
  <2>3. QED
    BY <2>1, <2>2, CommitCauses
<1>2. CASE /\ UNCHANGED <<row, list, exact, req, changes, touched>>
           /\ adm[a].pc \in {"rest", "remove"}
           /\ \E d \in Debt : adm' = [adm EXCEPT ![a] = d]
  <2>1. \A b \in Admins : adm[b].pc \in {"rest", "remove"} \/ adm'[b] = adm[b]
    BY <1>0, <1>2 DEF TypeOK
  <2>2. QED
    BY <1>2, <2>1, StillCaused
<1>3. CASE DeleteList(a) \/ FindKeys(a) \/ DropKeys(a)
  BY <1>3, DeletionCauses
<1>4. QED
  BY <1>0, <1>1, <1>2, <1>3, Administration

LEMMA TickCauses ==
    ASSUME Causes, Tick
    PROVE  FillCauses' /\ ListCauses' /\ ExactCauses' /\ ExactEmpty'
<1>0. TypeOK /\ UNCHANGED <<row, adm>>
  BY DEF Causes, Tick
<1>1. /\ Enabled' = Enabled
      /\ ListDoomed => ListDoomed'
      /\ \A t \in Targets : Owed(t) => Owed(t)'
  BY <1>0, StillCaused
<1>2. FillCauses'
  <2>1. \A c \in Clients :
           /\ req'[c].pc = req[c].pc /\ req'[c].rows = req[c].rows
           /\ req'[c].excused = req[c].excused
    BY <1>0 DEF Tick, TypeOK, Request
  <2>2. QED
    BY <1>1, <2>1 DEF Causes, FillCauses
<1>3. ListCauses'
  <2>1. Present(list') => /\ Present(list) /\ list'.rows = list.rows
                          /\ list'.excused = list.excused
    BY <1>0, AgedEntry, MockAssumption DEF Tick, TypeOK
  <2>2. QED
    BY <1>1, <2>1 DEF Causes, ListCauses, Present
<1>4. ASSUME NEW t \in Targets
      PROVE  /\ \/ exact'[t].rows \subseteq Enabled'
                \/ exact'[t].excused
                \/ Owed(t)'
             /\ ~Present(exact'[t]) => exact'[t].rows = {}
  <2>1. exact'[t] = Aged(exact[t]) /\ exact[t] \in Entry(ExactTTL)
    BY <1>0 DEF Tick, TypeOK
  <2>2. CASE exact[t].left > 1
    <3>1. /\ Aged(exact[t]).rows = exact[t].rows
          /\ Aged(exact[t]).excused = exact[t].excused
          /\ Present(Aged(exact[t]))
      BY <2>1, <2>2, MockAssumption DEF Aged, Entry, Present
    <3>2. QED
      BY <1>1, <2>1, <3>1 DEF Causes, ExactCauses
  <2>3. CASE ~(exact[t].left > 1)
    BY <2>1, <2>3 DEF Aged, Absent, Present
  <2>4. QED
    BY <2>2, <2>3
<1>5. QED
  BY <1>2, <1>3, <1>4 DEF ExactCauses, ExactEmpty

LEMMA CausesInvariant == Spec => []Causes
<1>1. Init => Causes
  <2>1. SUFFICES ASSUME Init PROVE Causes
    OBVIOUS
  <2>2. ~Present(Absent) /\ Absent.rows = {} /\ Idle.pc = "idle"
    BY DEF Present, Absent, Idle
  <2>3. FillCauses /\ ListCauses /\ ExactCauses /\ ExactEmpty
    BY <2>1, <2>2
    DEF Init, FillCauses, ListCauses, ExactCauses, ExactEmpty
  <2>4. QED
    BY <2>1, <2>3, InitTyped DEF Causes
<1>2. Causes /\ [Next]_vars => Causes'
  <2>1. SUFFICES ASSUME Causes, [Next]_vars PROVE Causes'
    OBVIOUS
  <2>2. TypeOK'
    BY <2>1, NextTyped DEF Causes
  <2>3. FillCauses' /\ ListCauses' /\ ExactCauses' /\ ExactEmpty'
    <3>1. CASE UNCHANGED vars
      BY <2>1, <3>1, StillCaused DEF vars
    <3>2. CASE Next
      BY <2>1, <3>2, ServeCauses, AdministerCauses, TickCauses DEF Next
    <3>3. QED
      BY <2>1, <3>1, <3>2
  <2>4. QED
    BY <2>2, <2>3 DEF Causes
<1>3. QED
  BY <1>1, <1>2, PTL DEF Spec

(* A stale list or exact entry (mock.service 298-327) is one whose deletion *)
(* is still owed or was lost, or one that a request overtaken by the change *)
(* wrote: for any number of clients and administrators, whatever the paths  *)
(* match and cover, in whatever order fills and deletions interleave.       *)
THEOREM StaleExplained == Spec => []StaleHasCause
<1>1. Causes => StaleHasCause
  BY DEF Causes, ListCauses, ExactCauses, Owed, StaleHasCause
<1>2. QED
  BY <1>1, CausesInvariant, PTL
=============================================================================
