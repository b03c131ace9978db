--------------------------- MODULE MockEndpoints ---------------------------
(***************************************************************************)
(* Mock endpoints: MockService keeps them in a table, caches the list of   *)
(* the enabled ones and, per requested path and method, the endpoint that  *)
(* answered it; MockProxyGuard answers requests from those.                *)
(*                                                                         *)
(* A route is what an endpoint declares (path pattern and method), a       *)
(* target what a request asks for (path and method).  A target's cache key *)
(* is mock:endpoint:exact:<path>:<method>.  Clients and administrators     *)
(* yield at every await of the database and of the cache.                  *)
(***************************************************************************)
EXTENDS Integers, FiniteSets

CONSTANTS
    Ids, Routes, Targets, NoRoute, NoTarget,
    Matches,     \* Matches[r]: the targets PathMatcher and the method accept
    Covers,      \* Covers[r]: the targets whose key r's own path deletes
    Clients, Admins,
    ListTTL,     \* 60 seconds, in ticks
    ExactTTL,    \* 300 seconds, in ticks
    Hold,        \* bound: ticks a request may take from its first await on
    MaxChanges,  \* bound: changes to the table in a behaviour
    Honest,      \* does KEYS see the keys it is asked for (no keyPrefix)?
    Failures     \* may an await throw, or its process die?

ASSUME MockAssumption ==
    /\ NoRoute \notin Routes /\ NoTarget \notin Targets
    /\ Matches \in [Routes -> SUBSET Targets]
    /\ Covers \in [Routes -> SUBSET Targets]
    /\ ListTTL \in Nat \ {0} /\ ExactTTL \in Nat \ {0}
    /\ Hold \in Nat /\ MaxChanges \in Nat
    /\ Honest \in BOOLEAN /\ Failures \in BOOLEAN

VARIABLES
    row,     \* mock_endpoints: [route, enabled, version] of every id
    list,    \* mock:endpoints:all
    exact,   \* exact[t]: the entry of target t
    req,     \* req[c]: the proxied request (or the preload) c is serving
    adm,     \* adm[a]: the deletions administrator a's request still owes
    changes, \* how often the table has changed
    touched  \* history: ticks since the row of each id last changed, capped

vars == <<row, list, exact, req, adm, changes, touched>>

Endpoint == [id : Ids, route : Routes, version : Nat]

(* An entry of the cache: endpoints as they were read, the rest of its TTL, *)
(* and, as history, whether it is excused: its reader was overtaken by a    *)
(* change or a deletion of it has been lost.                                *)
Absent == [rows |-> {}, left |-> 0, excused |-> FALSE]
Idle == [pc |-> "idle", target |-> NoTarget, rows |-> {}, held |-> 0,
         excused |-> FALSE]
Rest == [pc |-> "rest", id |-> NoRoute, keys |-> {}]
Present(entry) == entry.left > 0

As(id) == [id |-> id, route |-> row[id].route, version |-> row[id].version]
Exists(id) == row[id].route # NoRoute
Enabled == {As(id) : id \in {i \in Ids : Exists(i) /\ row[i].enabled}}

(* @@unique([path, method]) *)
Unique(table) ==
    \A i, j \in Ids : i # j /\ table[i].route # NoRoute
                        => table[i].route # table[j].route

Horizon == ListTTL + ExactTTL + 2 * Hold
NeverRow == [route |-> NoRoute, enabled |-> FALSE, version |-> 0]
FirstRow(route, on) == [route |-> route, enabled |-> on, version |-> 1]

(* A process starts with whatever is in the table. *)
Init ==
    /\ row \in {t \in [Ids -> {NeverRow} \cup
                    {FirstRow(route, TRUE) : route \in Routes}] : Unique(t)}
    /\ list = Absent
    /\ exact = [t \in Targets |-> Absent]
    /\ req = [c \in Clients |-> Idle]
    /\ adm = [a \in Admins |-> Rest]
    /\ changes = 0
    /\ touched = [id \in Ids |-> Horizon]

-----------------------------------------------------------------------------
(* findMatchingEndpoint.  A hit of the exact entry answers and changes     *)
(* nothing; these are the steps of a miss.                                 *)

Miss(c, t) ==
    /\ req[c] = Idle
    /\ ~Present(exact[t])
    /\ req' = [req EXCEPT ![c] = [Idle EXCEPT !.pc = "list", !.target = t]]
    /\ UNCHANGED <<row, list, exact, adm, changes, touched>>

(* The list has no order: the first endpoint that matches may be any.      *)
Found(r, rows) == {e \in rows : r.target \in Matches[e.route]}

(* Go on with the list: without a match the request ends with 404.         *)
Go(r, rows, excused) ==
    IF Found(r, rows) = {} THEN {Idle}
    ELSE {[r EXCEPT !.pc = "writeExact", !.rows = {e}, !.excused = excused] :
             e \in Found(r, rows)}

(* Somebody has changed the table and not yet deleted the list. *)
ListDoomed == \E a \in Admins : adm[a].pc = "list"

ReadList(c) ==
    LET r == req[c] IN
    /\ r.pc = "list"
    /\ IF Present(list)
         THEN \E next \in Go(r, list.rows, list.excused \/ ListDoomed) :
                 req' = [req EXCEPT ![c] = next]
         ELSE req' = [req EXCEPT ![c].pc = "query"]
    /\ UNCHANGED <<row, list, exact, adm, changes, touched>>

Query(c) ==
    /\ req[c].pc = "query"
    /\ req' = [req EXCEPT ![c].pc = "writeList", ![c].rows = Enabled]
    /\ UNCHANGED <<row, list, exact, adm, changes, touched>>

(* onModuleInit of a process that starts; an empty table is not cached.    *)
Preload(c) ==
    /\ req[c] = Idle
    /\ Enabled # {}
    /\ req' = [req EXCEPT ![c] = [Idle EXCEPT !.pc = "writeList",
                                              !.rows = Enabled]]
    /\ UNCHANGED <<row, list, exact, adm, changes, touched>>

(* Mutated forms: a second longer each. *)
ListLonger(r) == [rows |-> r.rows, left |-> ListTTL + 1, excused |-> r.excused]
ExactLonger(r) == [rows |-> r.rows, left |-> ExactTTL + 1,
                   excused |-> r.excused]

ListEntry(r) == [rows |-> r.rows, left |-> ListTTL, excused |-> r.excused]
ExactEntry(r) == [rows |-> r.rows, left |-> ExactTTL, excused |-> r.excused]

WriteList(c) ==
    LET r == req[c] IN
    /\ r.pc = "writeList"
    /\ list' = ListEntry(r)
    /\ \E next \in Go(r, r.rows, r.excused) : req' = [req EXCEPT ![c] = next]
    /\ UNCHANGED <<row, exact, adm, changes, touched>>

WriteExact(c) ==
    LET r == req[c] IN
    /\ r.pc = "writeExact"
    /\ exact' = [exact EXCEPT ![r.target] = ExactEntry(r)]
    /\ req' = [req EXCEPT ![c] = Idle]
    /\ UNCHANGED <<row, list, adm, changes, touched>>

(* An await throws: the request, or its last write, is given up. *)
Fail(c) ==
    /\ Failures
    /\ req[c] # Idle
    /\ req' = [req EXCEPT ![c] = Idle]
    /\ UNCHANGED <<row, list, exact, adm, changes, touched>>

-----------------------------------------------------------------------------
(* Administration.  The list is deleted first, then the exact entries of   *)
(* the endpoint's path; batches and imports are these operations in a loop *)
(* that carries on after an error.                                         *)

(* Mutated form: the list is not deleted. *)
OweKeysOnly(keys) == [Rest EXCEPT !.pc = "keys", !.keys = keys]

Owe(keys) == [Rest EXCEPT !.pc = "list", !.keys = keys]

(* Who holds endpoints when a change commits may write them after it.      *)
Overtaken(r) ==
    IF r.pc \in {"writeList", "writeExact"} THEN [r EXCEPT !.excused = TRUE]
                                            ELSE r

(* An entry of the changed endpoint under a key its path does not cover    *)
(* (another path before the change, or a pattern) is not deleted.          *)
Uncovered(entry, t, id, keys) ==
    IF t \notin keys /\ \E e \in entry.rows : e.id = id
      THEN [entry EXCEPT !.excused = TRUE] ELSE entry

Commit(a, id, new, keys) ==
    /\ changes < MaxChanges
    /\ changes' = changes + 1
    /\ row' = [row EXCEPT ![id] = new]
    /\ Unique(row')
    /\ touched' = [touched EXCEPT ![id] = 0]
    /\ adm' = [adm EXCEPT ![a] = Owe(keys)]
    /\ req' = [c \in Clients |-> Overtaken(req[c])]
    /\ exact' = [t \in Targets |-> Uncovered(exact[t], t, id, keys)]
    /\ UNCHANGED list

(* A uuid is new: no id is used twice.  Only the list is deleted.          *)
Create(a, id, route, on) ==
    /\ adm[a] = Rest
    /\ row[id] = NeverRow
    /\ Commit(a, id, FirstRow(route, on), {})

Rewrite(a, id, route, on) ==
    /\ adm[a] = Rest
    /\ Exists(id)
    /\ Commit(a, id, [route |-> route, enabled |-> on,
                      version |-> row[id].version + 1], Covers[route])

(* update: any field, also path, method and enabled. *)
Update(a, id, route) == Rewrite(a, id, route, row[id].enabled)
Enable(a, id) == Rewrite(a, id, row[id].route, TRUE)
Disable(a, id) == Rewrite(a, id, row[id].route, FALSE)

(* remove reads the row, then deletes it; one deleted meanwhile is a 404.  *)
RemoveFind(a, id) ==
    /\ adm[a] = Rest
    /\ Exists(id)
    /\ changes < MaxChanges
    /\ adm' = [adm EXCEPT ![a] = [pc |-> "remove", id |-> id,
                                  keys |-> Covers[row[id].route]]]
    /\ UNCHANGED <<row, list, exact, req, changes, touched>>

RemoveDelete(a) ==
    LET id == adm[a].id IN
    /\ adm[a].pc = "remove"
    /\ \/ Exists(id) /\ Commit(a, id, [row[id] EXCEPT !.route = NoRoute],
                               adm[a].keys)
       \/ /\ ~Exists(id) \/ changes = MaxChanges
          /\ adm' = [adm EXCEPT ![a] = Rest]
          /\ UNCHANGED <<row, list, exact, req, changes, touched>>

ClearCache(a) ==
    /\ adm[a] = Rest
    /\ adm' = [adm EXCEPT ![a] = Owe(Targets)]
    /\ UNCHANGED <<row, list, exact, req, changes, touched>>

(* Every deletion swallows its error: it may not have happened.            *)
DeleteList(a) ==
    /\ adm[a].pc = "list"
    /\ adm' = [adm EXCEPT ![a].pc = "keys"]
    /\ \/ list' = Absent
       \/ Failures /\ Present(list) /\ list' = [list EXCEPT !.excused = TRUE]
    /\ UNCHANGED <<row, exact, req, changes, touched>>

Excuse(keys) ==
    [t \in Targets |-> IF t \in keys /\ Present(exact[t])
                         THEN [exact[t] EXCEPT !.excused = TRUE]
                         ELSE exact[t]]

(* delPattern: KEYS, then DEL of what it returned.  With a keyPrefix it    *)
(* returns nothing.                                                        *)
FindKeys(a) ==
    LET seen == {t \in adm[a].keys : Honest /\ Present(exact[t])} IN
    /\ adm[a].pc = "keys"
    /\ adm' = [adm EXCEPT ![a].pc = "drop", ![a].keys = seen]
    /\ exact' = Excuse(adm[a].keys \ seen)
    /\ UNCHANGED <<row, list, req, changes, touched>>

DropKeys(a) ==
    /\ adm[a].pc = "drop"
    /\ adm' = [adm EXCEPT ![a] = Rest]
    /\ \/ exact' = [t \in Targets |-> IF t \in adm[a].keys THEN Absent
                                                           ELSE exact[t]]
       \/ Failures /\ exact' = Excuse(adm[a].keys)
    /\ UNCHANGED <<row, list, req, changes, touched>>

-----------------------------------------------------------------------------
Aged(entry) == IF entry.left > 1 THEN [entry EXCEPT !.left = @ - 1] ELSE Absent

Tick ==
    /\ \A c \in Clients : req[c].pc # "idle" => req[c].held < Hold
    /\ list' = Aged(list)
    /\ exact' = [t \in Targets |-> Aged(exact[t])]
    /\ req' = [c \in Clients |-> IF req[c].pc = "idle" THEN req[c]
                                   ELSE [req[c] EXCEPT !.held = @ + 1]]
    /\ touched' = [id \in Ids |-> IF touched[id] < Horizon
                                    THEN touched[id] + 1 ELSE Horizon]
    /\ UNCHANGED <<row, adm, changes>>

Serve(c) ==
    \/ \E t \in Targets : Miss(c, t)
    \/ Preload(c) \/ ReadList(c) \/ Query(c) \/ WriteList(c) \/ WriteExact(c)
    \/ Fail(c)

Administer(a) ==
    \/ \E id \in Ids, route \in Routes :
          Update(a, id, route) \/ \E on \in BOOLEAN : Create(a, id, route, on)
    \/ \E id \in Ids : Enable(a, id) \/ Disable(a, id) \/ RemoveFind(a, id)
    \/ RemoveDelete(a) \/ ClearCache(a)
    \/ DeleteList(a) \/ FindKeys(a) \/ DropKeys(a)

Next ==
    \/ \E c \in Clients : Serve(c)
    \/ \E a \in Admins : Administer(a)
    \/ Tick

Spec == Init /\ [][Next]_vars

-----------------------------------------------------------------------------
Row == [route : Routes \cup {NoRoute}, enabled : BOOLEAN, version : Nat]
Entry(ttl) == [rows : SUBSET Endpoint, left : 0..ttl, excused : BOOLEAN]
Request == [pc : {"idle", "list", "query", "writeList", "writeExact"},
            target : Targets \cup {NoTarget}, rows : SUBSET Endpoint,
            held : 0..Hold, excused : BOOLEAN]
Debt == [pc : {"remove"}, id : Ids, keys : SUBSET Targets]
          \cup [pc : {"rest", "list", "keys", "drop"}, id : {NoRoute},
                keys : SUBSET Targets]

(* Table, entries, requests and deletions keep their types: no TTL is      *)
(* exceeded and nothing but endpoints is cached.                           *)
TypeOK ==
    /\ row \in [Ids -> Row]
    /\ list \in Entry(ListTTL)
    /\ exact \in [Targets -> Entry(ExactTTL)]
    /\ req \in [Clients -> Request]
    /\ adm \in [Admins -> Debt]
    /\ changes \in 0..MaxChanges
    /\ touched \in [Ids -> 0..Horizon]

(* However changes, fills and lost deletions interleave, the list differs  *)
(* from the table (findMatchingEndpoint 298-315) only for an endpoint that *)
(* changed less than its 60 seconds ago, not counting the filling request: *)
(* a new endpoint is a 404, and a deleted one an answer, no longer.        *)
StaleListBound ==
    Present(list) =>
        \A e \in (list.rows \ Enabled) \cup (Enabled \ list.rows) :
            touched[e.id] < ListTTL + Hold

(* The two caches are filled one from the other, so their ages add up: an  *)
(* exact entry (327) answers with an endpoint that has been changed,       *)
(* disabled or removed for at most 60 + 300 seconds, not counting the two  *)
(* requests that filled the two, and no deletion need ever succeed.        *)
StaleAnswerBound ==
    \A t \in Targets : Present(exact[t]) =>
        \A e \in exact[t].rows \ Enabled :
            touched[e.id] < ListTTL + ExactTTL + 2 * Hold - 1

(* The deletions do their work: a stale entry is one whose deletion is     *)
(* still owed, or excused.  A fill that read after the change, or an entry *)
(* the endpoint's path covers, never stays stale, although list and exact  *)
(* entries are deleted one after the other.                                *)
StaleHasCause ==
    /\ Present(list) => list.rows = Enabled \/ list.excused \/ ListDoomed
    /\ \A t \in Targets :
          \/ exact[t].rows \subseteq Enabled
          \/ exact[t].excused
          \/ \E a \in Admins : adm[a].pc \in {"list", "keys", "drop"}
                                 /\ t \in adm[a].keys
=============================================================================
