--------------------------- MODULE RbacCacheProofs ---------------------------
(***************************************************************************)
(* Type correctness of RbacCache, and the cause of every stale entry, for  *)
(* any sets of users, roles, permissions and requests.                     *)
(***************************************************************************)
EXTENDS RbacCache, TLAPS

-----------------------------------------------------------------------------
(* Requests stay well formed. *)

LEMMA FirstIn ==
  ASSUME NEW K \in SUBSET Kinds, K # {}
  PROVE  First(K) \in K /\ First(K) \in Kinds
  BY DEF First, Kinds

LEMMA IdleOK == Idle \in Request /\ WellFormed(Idle)
  <1>1. Idle \in Request
    BY DEF Idle, Request, Kinds
  <1>2. WellFormed(Idle)
    BY DEF Idle, WellFormed, Kinds
  <1> QED  BY <1>1, <1>2

LEMMA FlushOK == ThenFlush \in Request /\ WellFormed(ThenFlush)
  <1>1. ThenFlush \in Request
    BY DEF ThenFlush, Idle, Request, Kinds
  <1>2. WellFormed(ThenFlush)
    BY DEF ThenFlush, Idle, WellFormed, Kinds
  <1> QED  BY <1>1, <1>2

LEMMA DeleteOK ==
  ASSUME NEW u \in Users
  PROVE  ThenDelete(u) \in Request /\ WellFormed(ThenDelete(u))
  <1>1. ThenDelete(u) \in Request
    BY DEF ThenDelete, Idle, Request, Kinds
  <1>2. WellFormed(ThenDelete(u))
    BY DEF ThenDelete, Idle, WellFormed, Kinds
  <1> QED  BY <1>1, <1>2

LEMMA WithoutOK ==
  ASSUME NEW r \in Request, WellFormed(r), NEW k \in Kinds
  PROVE  Without(r, k) \in Request /\ WellFormed(Without(r, k))
  <1>1. CASE r.left \ {k} = {}
    BY <1>1, IdleOK DEF Without
  <1>2. CASE r.left \ {k} # {}
    <2>1. Without(r, k) = [r EXCEPT !.left = @ \ {k}, !.listed = {}]
      BY <1>2 DEF Without
    <2>2. Without(r, k) \in Request
      BY <2>1 DEF Request
    <2>3. WellFormed(Without(r, k))
      BY <1>2, <2>1 DEF Request, WellFormed
    <2> QED  BY <2>2, <2>3
  <1> QED  BY <1>1, <1>2

\* A handler that moves on leaves the others as they are.
LEMMA BecomesOK ==
  ASSUME RequestsOK, NEW w \in Requests, NEW r \in Request, WellFormed(r),
         Becomes(w, r)
  PROVE  RequestsOK'
  <1>1. req' = [req EXCEPT ![w] = r]
    BY DEF Becomes
  <1>2. req' \in [Requests -> Request]
    BY <1>1 DEF RequestsOK
  <1>3. \A v \in Requests : req'[v] = r \/ req'[v] = req[v]
    BY <1>1 DEF RequestsOK
  <1>4. \A v \in Requests : WellFormed(req'[v])
    BY <1>3 DEF RequestsOK
  <1> QED
    BY <1>2, <1>4 DEF RequestsOK, WellFormed

LEMMA ChangedOK == Changed \in [Users -> SUBSET Kinds]
  BY DEF Changed

LEMMA OvertakenOK ==
  ASSUME NEW r \in Request, WellFormed(r), NEW K \in SUBSET Kinds
  PROVE  Overtaken(r, K) \in Request /\ WellFormed(Overtaken(r, K))
  <1>1. Overtaken(r, K) \in Request
    BY DEF Request, Overtaken
  <1>2. WellFormed(Overtaken(r, K))
    BY DEF Request, Overtaken, WellFormed
  <1> QED  BY <1>1, <1>2

LEMMA CommitsOK ==
  ASSUME RequestsOK, NEW w \in Requests, NEW after \in Request,
         WellFormed(after), Commits(w, after)
  PROVE  RequestsOK'
  <1>1. \A v \in Requests :
          req'[v] = IF v = w THEN after
                    ELSE IF req[v].pc \in {"query", "store"}
                    THEN Overtaken(req[v], Changed[req[v].user]) ELSE req[v]
    BY DEF Commits
  <1>2. ASSUME NEW v \in Requests, req[v].pc \in {"query", "store"}
        PROVE  /\ Overtaken(req[v], Changed[req[v].user]) \in Request
               /\ WellFormed(Overtaken(req[v], Changed[req[v].user]))
    <2>1. req[v] \in Request /\ WellFormed(req[v])
      BY DEF RequestsOK
    <2>2. req[v].user \in Users
      BY <1>2, <2>1 DEF WellFormed
    <2>3. Changed[req[v].user] \in SUBSET Kinds
      BY <2>2, ChangedOK
    <2> QED  BY <2>1, <2>3, OvertakenOK
  <1>3. \A v \in Requests : req'[v] \in Request /\ WellFormed(req'[v])
    BY <1>1, <1>2 DEF RequestsOK
  <1>4. req' \in [Requests -> Request]
    BY <1>3 DEF Commits
  <1> QED
    BY <1>3, <1>4 DEF RequestsOK, WellFormed

-----------------------------------------------------------------------------
(* The database and the cache stay typed. *)

\* A database query returns codes of the kind asked for.
LEMMA ViewOK ==
  ASSUME DatabaseOK, NEW u \in Users
  PROVE  /\ View("roles", u) \subseteq Roles
         /\ View("permissions", u) \subseteq Perms
         /\ Held("roles", u) \subseteq Roles
         /\ Held("permissions", u) \subseteq Perms
  BY DEF View, Held, ActiveRoles, DatabaseOK

\* An entry written with codes of its kind leaves the cache typed.
LEMMA EntryOK ==
  ASSUME CacheOK, NEW k \in Kinds, NEW u \in Users, NEW e \in Entry,
         k = "roles" => e.codes \subseteq Roles,
         k = "permissions" => e.codes \subseteq Perms,
         cache' = [cache EXCEPT ![k][u] = e]
  PROVE  CacheOK'
  <1>1. cache' \in [Kinds -> [Users -> Entry]]
    BY DEF CacheOK
  <1>2. ASSUME NEW v \in Users
        PROVE  /\ cache'["roles"][v].codes \subseteq Roles
               /\ cache'["permissions"][v].codes \subseteq Perms
    <2>1. \A l \in Kinds : cache'[l][v] = IF l = k /\ v = u THEN e ELSE cache[l][v]
      BY <1>2 DEF CacheOK
    <2>2. "roles" \in Kinds /\ "permissions" \in Kinds
      BY DEF Kinds
    <2> QED  BY <1>2, <2>1, <2>2 DEF CacheOK
  <1> QED  BY <1>1, <1>2 DEF CacheOK

LEMMA NoEntryOK == NoEntry \in Entry /\ NoEntry.codes = {}
  BY DEF NoEntry, Entry

LEMMA StoreOK ==
  ASSUME TypeOK, NEW w \in Requests, Store(w)
  PROVE  TypeOK'
  <1> DEFINE k == First(req[w].left)
             e == [present |-> TRUE, codes |-> req[w].read[k],
                   excused |-> k \in req[w].overtaken]
  <1>1. req[w] \in Request /\ WellFormed(req[w]) /\ req[w].pc = "store"
    BY DEF TypeOK, RequestsOK, Store
  <1>2. req[w].left \in SUBSET Kinds /\ req[w].left # {} /\ req[w].user \in Users
    BY <1>1 DEF Request, WellFormed
  <1>3. k \in Kinds
    BY <1>2, FirstIn
  <1>4. e \in Entry
    BY <1>1, <1>3 DEF Entry, Request
  <1>5. /\ k = "roles" => e.codes \subseteq Roles
        /\ k = "permissions" => e.codes \subseteq Perms
    BY <1>1 DEF WellFormed
  <1>6. cache' = [cache EXCEPT ![k][req[w].user] = e]
    BY DEF Store
  <1>7. CacheOK'
    <2> HIDE DEF k, e
    <2> QED  BY <1>2, <1>3, <1>4, <1>5, <1>6, EntryOK DEF TypeOK
  <1>8. RequestsOK'
    BY <1>1, <1>3, WithoutOK, BecomesOK DEF Store, TypeOK
  <1> QED
    BY <1>7, <1>8 DEF Store, TypeOK, DatabaseOK, database

LEMMA DeleteEntryOK ==
  ASSUME TypeOK, NEW w \in Requests, DeleteEntry(w)
  PROVE  TypeOK'
  <1> DEFINE k == First(req[w].left)
  <1>1. req[w] \in Request /\ WellFormed(req[w]) /\ req[w].pc = "delete"
    BY DEF TypeOK, RequestsOK, DeleteEntry
  <1>2. req[w].left \in SUBSET Kinds /\ req[w].left # {} /\ req[w].user \in Users
    BY <1>1 DEF Request, WellFormed
  <1>3. k \in Kinds
    BY <1>2, FirstIn
  <1>4. cache' = [cache EXCEPT ![k][req[w].user] = NoEntry]
    BY DEF DeleteEntry
  <1>5. CacheOK'
    <2> HIDE DEF k
    <2> QED  BY <1>2, <1>3, <1>4, NoEntryOK, EntryOK DEF TypeOK
  <1>6. RequestsOK'
    BY <1>1, <1>3, WithoutOK, BecomesOK DEF DeleteEntry, TypeOK
  <1> QED
    BY <1>5, <1>6 DEF DeleteEntry, TypeOK, DatabaseOK, database

LEMMA FlushKeysOK ==
  ASSUME TypeOK, NEW w \in Requests, FlushKeys(w)
  PROVE  TypeOK'
  <1> DEFINE k == First(req[w].left)
             listing == [req[w] EXCEPT !.pc = "drop", !.listed = Matching(k)]
  <1>1. req[w] \in Request /\ WellFormed(req[w]) /\ req[w].pc = "flush"
    BY DEF TypeOK, RequestsOK, FlushKeys
  <1>2. req[w].left \in SUBSET Kinds /\ req[w].left # {}
    BY <1>1 DEF Request, WellFormed
  <1>3. k \in Kinds
    BY <1>2, FirstIn
  <1>4. listing \in Request
    BY <1>1 DEF Request, Matching
  <1>5. WellFormed(listing)
    BY <1>1, <1>2 DEF Request, WellFormed, Matching
  <1>6. Becomes(w, IF Matching(k) = {} THEN Without(req[w], k) ELSE listing)
    BY DEF FlushKeys
  <1>7. RequestsOK'
    <2> HIDE DEF k, listing
    <2> QED  BY <1>1, <1>3, <1>4, <1>5, <1>6, WithoutOK, BecomesOK DEF TypeOK
  <1> QED
    BY <1>7 DEF FlushKeys, TypeOK, DatabaseOK, CacheOK, database

LEMMA FlushDropOK ==
  ASSUME TypeOK, NEW w \in Requests, FlushDrop(w)
  PROVE  TypeOK'
  <1> DEFINE k == First(req[w].left)
             dropped == [u \in Users |-> IF u \in req[w].listed THEN NoEntry
                                         ELSE cache[k][u]]
             rest == [Without(req[w], k) EXCEPT !.pc = "flush"]
  <1>1. req[w] \in Request /\ WellFormed(req[w]) /\ req[w].pc = "drop"
    BY DEF TypeOK, RequestsOK, FlushDrop
  <1>2. req[w].left \in SUBSET Kinds /\ req[w].left # {}
    BY <1>1 DEF Request, WellFormed
  <1>3. k \in Kinds
    BY <1>2, FirstIn
  <1>4. CacheOK'
    <2>1. cache' = [cache EXCEPT ![k] = dropped]
      BY DEF FlushDrop
    <2>2. dropped \in [Users -> Entry]
      BY <1>3, NoEntryOK DEF TypeOK, CacheOK
    <2>3. cache' \in [Kinds -> [Users -> Entry]]
      BY <2>1, <2>2, <1>3 DEF TypeOK, CacheOK
    <2>4. \A l \in Kinds, v \in Users :
            cache'[l][v] = NoEntry \/ cache'[l][v] = cache[l][v]
      BY <2>1, <1>3 DEF TypeOK, CacheOK
    <2>5. "roles" \in Kinds /\ "permissions" \in Kinds
      BY DEF Kinds
    <2> QED  BY <2>3, <2>4, <2>5, NoEntryOK DEF TypeOK, CacheOK
  <1>5. RequestsOK'
    <2>1. CASE req[w].left = {k}
      BY <2>1, IdleOK, BecomesOK DEF FlushDrop, TypeOK
    <2>2. CASE req[w].left # {k}
      <3>1. req[w].left \ {k} # {}
        BY <1>2, <2>2
      <3>2. Without(req[w], k) \in Request /\ WellFormed(Without(req[w], k))
        BY <1>1, <1>3, WithoutOK
      <3>3. Without(req[w], k) = [req[w] EXCEPT !.left = @ \ {k}, !.listed = {}]
        BY <3>1 DEF Without
      <3>4. Without(req[w], k).left # {}
        BY <3>1, <3>3, <1>1 DEF Request
      <3>5. rest \in Request
        BY <3>2 DEF Request
      <3>6. WellFormed(rest)
        BY <3>2, <3>4 DEF Request, WellFormed
      <3>7. Becomes(w, rest)
        BY <2>2 DEF FlushDrop
      <3> QED  BY <3>5, <3>6, <3>7, BecomesOK DEF TypeOK
    <2> QED  BY <2>1, <2>2
  <1> QED
    BY <1>4, <1>5 DEF FlushDrop, TypeOK, DatabaseOK, database

\* Marking entries excused changes nothing else of them.
LEMMA ExcusedOK ==
  ASSUME CacheOK, NEW w \in Requests, cache' = Excused(w)
  PROVE  CacheOK'
  <1> DEFINE marked(k, u) == [cache[k][u] EXCEPT !.excused = TRUE]
  <1>1. \A k \in Kinds, u \in Users :
          marked(k, u) \in Entry /\ marked(k, u).codes = cache[k][u].codes
    <2>1. \A e \in Entry : /\ [e EXCEPT !.excused = TRUE] \in Entry
                           /\ [e EXCEPT !.excused = TRUE].codes = e.codes
      BY DEF Entry
    <2>2. \A k \in Kinds, u \in Users : cache[k][u] \in Entry
      BY DEF CacheOK
    <2> QED  BY <2>1, <2>2
  <1>2. \A k \in Kinds, u \in Users :
          cache'[k][u] = marked(k, u) \/ cache'[k][u] = cache[k][u]
    BY DEF Excused
  <1>3. cache' = [k \in Kinds |-> [u \in Users |-> cache'[k][u]]]
    BY DEF Excused
  <1> HIDE DEF marked
  <1>4. \A k \in Kinds, u \in Users :
          cache'[k][u] \in Entry /\ cache'[k][u].codes = cache[k][u].codes
    BY <1>1, <1>2 DEF CacheOK
  <1>5. cache' \in [Kinds -> [Users -> Entry]]
    BY <1>3, <1>4
  <1>6. "roles" \in Kinds /\ "permissions" \in Kinds
    BY DEF Kinds
  <1> QED  BY <1>4, <1>5, <1>6 DEF CacheOK

LEMMA FailOK ==
  ASSUME TypeOK, NEW w \in Requests, Fail(w)
  PROVE  TypeOK'
  <1>1. CacheOK'
    BY ExcusedOK DEF Fail, TypeOK
  <1>2. RequestsOK'
    BY IdleOK, BecomesOK DEF Fail, TypeOK
  <1> QED  BY <1>1, <1>2 DEF Fail, TypeOK, DatabaseOK, database

\* A request for user u that has read S as the codes of kind k.
LEMMA FillOK ==
  ASSUME NEW r \in Request, WellFormed(r), NEW u \in Users, r.user = u,
         NEW k \in Kinds, NEW S \in SUBSET Codes,
         k = "roles" => S \subseteq Roles,
         k = "permissions" => S \subseteq Perms,
         NEW K \in SUBSET Kinds, K # {}, NEW late \in SUBSET Kinds
  PROVE  LET q == [r EXCEPT !.pc = "store", !.left = K, !.overtaken = late,
                            !.read[k] = S]
         IN q \in Request /\ WellFormed(q)
  <1> DEFINE q == [r EXCEPT !.pc = "store", !.left = K, !.overtaken = late,
                            !.read[k] = S]
  <1>1. q.read = [r.read EXCEPT ![k] = S] /\ q.user = u /\ q.left = K
    BY DEF Request
  <1>2. q.read \in [Kinds -> SUBSET Codes]
    BY <1>1 DEF Request
  <1>3. q \in Request
    BY <1>2 DEF Request
  <1>4. q.read["roles"] \subseteq Roles /\ q.read["permissions"] \subseteq Perms
    BY <1>1 DEF Request, WellFormed, Kinds
  <1>5. WellFormed(q)
    BY <1>1, <1>4 DEF WellFormed
  <1> QED  BY <1>3, <1>5

LEMMA GuardOK ==
  ASSUME TypeOK, NEW w \in Requests,
         GuardQuery(w) \/ \E k \in Kinds, u \in Users : GuardMiss(w, k, u)
  PROVE  TypeOK'
  <1>1. CASE GuardQuery(w)
    <2> DEFINE k == First(req[w].left)
               S == View(k, req[w].user)
               q == [req[w] EXCEPT !.pc = "store", !.left = {k},
                                   !.overtaken = {}, !.read[k] = S]
    <2>1. req[w] \in Request /\ WellFormed(req[w]) /\ req[w].pc = "query"
      BY <1>1 DEF TypeOK, RequestsOK, GuardQuery
    <2>2. /\ req[w].left \in SUBSET Kinds /\ req[w].left # {}
          /\ req[w].user \in Users
      BY <2>1 DEF Request, WellFormed
    <2>3. k \in Kinds
      BY <2>2, FirstIn
    <2>4. /\ k = "roles" => S \subseteq Roles
          /\ k = "permissions" => S \subseteq Perms
      BY <2>2, ViewOK DEF TypeOK
    <2>5. S \in SUBSET Codes
      BY <2>3, <2>4 DEF Kinds, Codes
    <2>6. q \in Request /\ WellFormed(q)
      <3> HIDE DEF k, S
      <3> QED  BY <2>1, <2>2, <2>3, <2>4, <2>5, FillOK
    <2>7. Becomes(w, q)
      BY <1>1 DEF GuardQuery
    <2>8. RequestsOK'
      <3> HIDE DEF q
      <3> QED  BY <2>6, <2>7, BecomesOK DEF TypeOK
    <2> QED  BY <1>1, <2>8 DEF GuardQuery, TypeOK, DatabaseOK, CacheOK, database
  <1>2. ASSUME NEW k \in Kinds, NEW u \in Users, GuardMiss(w, k, u)
        PROVE  TypeOK'
    <2> DEFINE q == [Idle EXCEPT !.pc = "query", !.op = "guard", !.user = u,
                                 !.left = {k}]
    <2>1. q \in Request
      BY IdleOK DEF Idle, Request
    <2>2. WellFormed(q)
      BY DEF Idle, WellFormed, Kinds
    <2>3. Becomes(w, q)
      BY <1>2 DEF GuardMiss
    <2>4. RequestsOK'
      <3> HIDE DEF q
      <3> QED  BY <2>1, <2>2, <2>3, BecomesOK DEF TypeOK
    <2> QED  BY <1>2, <2>4 DEF GuardMiss, TypeOK, DatabaseOK, CacheOK, database
  <1> QED  BY <1>1, <1>2

LEMMA LoginOK ==
  ASSUME TypeOK, NEW w \in Requests, NEW u \in Users,
         LoginQuery(w, u) \/ RefreshRoles(w, u)
  PROVE  TypeOK'
  <1>1. Held("roles", u) \subseteq Roles /\ Held("permissions", u) \subseteq Perms
    BY ViewOK DEF TypeOK
  <1>2. CASE LoginQuery(w, u)
    <2> DEFINE seen == [k \in Kinds |-> Held(k, u)]
               q == [Idle EXCEPT !.pc = "store", !.op = "login", !.user = u,
                                 !.left = Kinds, !.overtaken = Differs(u),
                                 !.read = seen]
    <2>1. seen \in [Kinds -> SUBSET Codes] /\ Differs(u) \in SUBSET Kinds
      BY <1>1 DEF Kinds, Codes, Differs
    <2>2. seen["roles"] \subseteq Roles /\ seen["permissions"] \subseteq Perms
      BY <1>1 DEF Kinds
    <2>3. q \in Request
      <3> HIDE DEF seen
      <3> QED  BY <2>1, IdleOK DEF Idle, Request
    <2>4. WellFormed(q)
      <3> HIDE DEF seen
      <3> QED  BY <2>2 DEF Idle, WellFormed, Kinds
    <2>5. Becomes(w, q)
      BY <1>2 DEF LoginQuery
    <2>6. RequestsOK'
      <3> HIDE DEF q
      <3> QED  BY <2>3, <2>4, <2>5, BecomesOK DEF TypeOK
    <2> QED  BY <1>2, <2>6 DEF LoginQuery, TypeOK, DatabaseOK, CacheOK, database
  <1>3. CASE RefreshRoles(w, u)
    <2> DEFINE S == Held("roles", u)
               seen == [Idle.read EXCEPT !["roles"] = S]
               q == [Idle EXCEPT !.pc = "query", !.op = "refresh", !.user = u,
                                 !.left = {"permissions"},
                                 !.overtaken = Differs(u) \ {"permissions"},
                                 !.read = seen]
    <2>1. /\ seen \in [Kinds -> SUBSET Codes]
          /\ Differs(u) \ {"permissions"} \in SUBSET Kinds
      BY <1>1 DEF Kinds, Codes, Idle, Differs
    <2>2. seen["roles"] \subseteq Roles /\ seen["permissions"] \subseteq Perms
      BY <1>1 DEF Kinds, Idle
    <2>3. q \in Request
      <3> HIDE DEF seen
      <3> QED  BY <2>1, IdleOK DEF Idle, Request, Kinds
    <2>4. WellFormed(q)
      <3> HIDE DEF seen
      <3> QED  BY <2>2 DEF Idle, WellFormed, Kinds
    <2>5. Becomes(w, q)
      BY <1>3 DEF RefreshRoles, Idle
    <2>6. RequestsOK'
      <3> HIDE DEF q
      <3> QED  BY <2>3, <2>4, <2>5, BecomesOK DEF TypeOK
    <2> QED  BY <1>3, <2>6 DEF RefreshRoles, TypeOK, DatabaseOK, CacheOK, database
  <1> QED  BY <1>2, <1>3

LEMMA RefreshOK ==
  ASSUME TypeOK, NEW w \in Requests, RefreshPermissions(w)
  PROVE  TypeOK'
  <1> DEFINE S == View("permissions", req[w].user)
             q == [req[w] EXCEPT !.pc = "store", !.left = Kinds,
                     !.overtaken = req[w].overtaken \ {"permissions"},
                     !.read["permissions"] = S]
  <1>1. req[w] \in Request /\ WellFormed(req[w]) /\ req[w].pc = "query"
    BY DEF TypeOK, RequestsOK, RefreshPermissions
  <1>2. req[w].user \in Users
    BY <1>1 DEF WellFormed
  <1>3. S \subseteq Perms
    BY <1>2, ViewOK DEF TypeOK
  <1>4. S \in SUBSET Codes
    BY <1>3 DEF Codes
  <1>5. q \in Request /\ WellFormed(q)
    <2>1. req[w].overtaken \ {"permissions"} \in SUBSET Kinds
      BY <1>1 DEF Request
    <2>2. "permissions" \in Kinds /\ Kinds # {}
      BY DEF Kinds
    <2> HIDE DEF S
    <2> QED  BY <1>1, <1>2, <1>3, <1>4, <2>1, <2>2, FillOK
  <1>6. Becomes(w, q)
    BY DEF RefreshPermissions
  <1>7. RequestsOK'
    <2> HIDE DEF q
    <2> QED  BY <1>5, <1>6, BecomesOK DEF TypeOK
  <1> QED
    BY <1>7 DEF RefreshPermissions, TypeOK, DatabaseOK, CacheOK, database

\* An administrative request that passed its checks, before it commits.
LEMMA CheckedOK ==
  ASSUME TypeOK, NEW w \in Requests, NEW u \in Users \union {NoUser},
         NEW op \in {"assignRoles", "removeRole", "deleteRole",
                     "assignPermissions"},
         op \in {"assignRoles", "removeRole"} => u \in Users,
         NEW R \in SUBSET Roles, NEW P \in SUBSET Perms,
         Checked(w, op, u, R, P)
  PROVE  TypeOK'
  <1> DEFINE q == [Idle EXCEPT !.pc = "commit", !.op = op, !.user = u,
                               !.roles = R, !.perms = P]
  <1>1. q \in Request
    BY IdleOK DEF Idle, Request
  <1>2. WellFormed(q)
    BY DEF Idle, WellFormed, Kinds
  <1>3. Becomes(w, q)
    BY DEF Checked
  <1>4. RequestsOK'
    <2> HIDE DEF q
    <2> QED  BY <1>1, <1>2, <1>3, BecomesOK DEF TypeOK
  <1>5. changes' \in 0..MaxChanges
    BY RbacAssumption DEF Checked, Admitted, TypeOK
  <1> QED
    BY <1>4, <1>5 DEF Checked, TypeOK, DatabaseOK, CacheOK, database

-----------------------------------------------------------------------------
(* The steps that change grants. *)

Commit(w) ==
  \/ AssignRolesCommit(w) \/ RemoveRoleCommit(w) \/ DeleteRoleCommit(w)
  \/ AssignPermissionsCommit(w)
  \/ \E r \in Roles : \/ CreateRole(w, r)
                      \/ \E s \in {"active", "inactive"} :
                           UpdateRoleStatus(w, r, s)
  \/ \E p \in Perms : \/ DeletePermission(w, p)
                      \/ \E s \in {"active", "inactive"} :
                           UpdatePermissionStatus(w, p, s)

LEMMA CommitDatabaseOK ==
  ASSUME TypeOK, NEW w \in Requests, Commit(w)
  PROVE  DatabaseOK' /\ changes' \in 0..MaxChanges
  <1>1. req[w] \in Request /\ req[w].roles \subseteq Roles
        /\ req[w].perms \subseteq Perms
    BY DEF TypeOK, RequestsOK, Request
  <1> USE RbacAssumption DEF TypeOK, DatabaseOK, Status
  <1>2. CASE AssignRolesCommit(w)
    BY <1>1, <1>2 DEF AssignRolesCommit
  <1>3. CASE RemoveRoleCommit(w)
    BY <1>1, <1>3 DEF RemoveRoleCommit
  <1>4. CASE DeleteRoleCommit(w)
    BY <1>1, <1>4 DEF DeleteRoleCommit
  <1>5. CASE AssignPermissionsCommit(w)
    <2>1. rolePerms' \in [Roles -> SUBSET Perms]
      BY <1>1, <1>5 DEF AssignPermissionsCommit, Assigned
    <2> QED  BY <1>5, <2>1 DEF AssignPermissionsCommit
  <1>6. ASSUME NEW r \in Roles, CreateRole(w, r)
        PROVE  DatabaseOK' /\ changes' \in 0..MaxChanges
    BY <1>6 DEF CreateRole, Admitted
  <1>7. ASSUME NEW r \in Roles, NEW s \in {"active", "inactive"},
               UpdateRoleStatus(w, r, s)
        PROVE  DatabaseOK' /\ changes' \in 0..MaxChanges
    BY <1>7 DEF UpdateRoleStatus, Admitted
  <1>8. ASSUME NEW p \in Perms, DeletePermission(w, p)
        PROVE  DatabaseOK' /\ changes' \in 0..MaxChanges
    BY <1>8 DEF DeletePermission, Admitted
  <1>9. ASSUME NEW p \in Perms, NEW s \in {"active", "inactive"},
               UpdatePermissionStatus(w, p, s)
        PROVE  DatabaseOK' /\ changes' \in 0..MaxChanges
    BY <1>9 DEF UpdatePermissionStatus, Admitted
  <1> QED
    BY <1>2, <1>3, <1>4, <1>5, <1>6, <1>7, <1>8, <1>9 DEF Commit

\* What a committing request does next, and for whom its commit changes what
\* the guards read: the users whose entries it is going to delete.
CommitsFor(w, after) ==
  /\ Commits(w, after)
  /\ req[w].pc \in {"idle", "commit"}
  /\ after = Idle \/ after = ThenFlush \/ \E u \in Users : after = ThenDelete(u)
  /\ \A k \in Kinds, u \in Users :
       View(k, u)' # View(k, u) => after = ThenFlush \/ after = ThenDelete(u)

\* Changing the roles of one user leaves what others may do alone.
LEMMA OthersUnchanged ==
  ASSUME NEW u \in Users, NEW k \in Kinds, userRoles'[u] = userRoles[u],
         UNCHANGED <<roleStatus, rolePerms, permStatus>>
  PROVE  View(k, u)' = View(k, u)
  BY DEF View, ActiveRoles

LEMMA CommitShape ==
  ASSUME TypeOK, NEW w \in Requests, Commit(w)
  PROVE  \E after : CommitsFor(w, after)
  <1>1. req[w] \in Request /\ WellFormed(req[w])
    BY DEF TypeOK, RequestsOK
  <1>2. CASE AssignRolesCommit(w)
    <2>1. req[w].user \in Users
      BY <1>1, <1>2 DEF AssignRolesCommit, WellFormed
    <2>2. \A k \in Kinds, u \in Users :
            u # req[w].user => View(k, u)' = View(k, u)
      BY <1>2, OthersUnchanged DEF AssignRolesCommit, TypeOK, DatabaseOK
    <2>3. CommitsFor(w, ThenDelete(req[w].user))
      BY <1>2, <2>1, <2>2 DEF AssignRolesCommit, CommitsFor
    <2> QED  BY <2>3
  <1>3. CASE RemoveRoleCommit(w)
    <2>1. req[w].user \in Users
      BY <1>1, <1>3 DEF RemoveRoleCommit, WellFormed
    <2>2. \A k \in Kinds, u \in Users :
            u # req[w].user => View(k, u)' = View(k, u)
      BY <1>3, OthersUnchanged DEF RemoveRoleCommit, TypeOK, DatabaseOK
    <2>3. CASE userRoles' = userRoles
      <3>1. \A k \in Kinds, u \in Users : View(k, u)' = View(k, u)
        BY <1>3, <2>3, OthersUnchanged DEF RemoveRoleCommit
      <3>2. CommitsFor(w, Idle)
        BY <1>3, <2>3, <3>1 DEF RemoveRoleCommit, CommitsFor
      <3> QED  BY <3>2
    <2>4. CASE userRoles' # userRoles
      <3>1. CommitsFor(w, ThenDelete(req[w].user))
        BY <1>3, <2>1, <2>2, <2>4 DEF RemoveRoleCommit, CommitsFor
      <3> QED  BY <3>1
    <2> QED  BY <2>3, <2>4
  <1>4. CASE Commits(w, ThenFlush) /\ req[w].pc \in {"idle", "commit"}
    BY <1>4 DEF CommitsFor
  <1> QED
    BY <1>2, <1>3, <1>4 DEF Commit, DeleteRoleCommit, AssignPermissionsCommit,
       CreateRole, UpdateRoleStatus, DeletePermission, UpdatePermissionStatus,
       Called

LEMMA CommitOK ==
  ASSUME TypeOK, NEW w \in Requests, Commit(w)
  PROVE  TypeOK'
  <1>1. PICK after : CommitsFor(w, after)
    BY CommitShape
  <1>2. after \in Request /\ WellFormed(after)
    BY <1>1, IdleOK, FlushOK, DeleteOK DEF CommitsFor
  <1>3. RequestsOK'
    BY <1>1, <1>2, CommitsOK DEF CommitsFor, TypeOK
  <1>4. CacheOK'
    BY <1>1 DEF CommitsFor, Commits, TypeOK, CacheOK
  <1> QED
    BY <1>3, <1>4, CommitDatabaseOK DEF TypeOK

-----------------------------------------------------------------------------
(* Type correctness. *)

LEMMA InitTypeOK == Init => TypeOK
  <1> SUFFICES ASSUME Init PROVE TypeOK
    OBVIOUS
  <1>1. DatabaseOK
    BY DEF Init, DatabaseOK, Status
  <1>2. CacheOK
    BY NoEntryOK DEF Init, CacheOK, Kinds
  <1>3. RequestsOK
    BY IdleOK DEF Init, RequestsOK
  <1> QED
    BY <1>1, <1>2, <1>3, RbacAssumption DEF Init, TypeOK

\* Every step of the module is a commit or one of the other actions.
LEMMA StepCases ==
  ASSUME NEW w \in Requests, Step(w) \/ Arrive(w)
  PROVE  \/ Commit(w)
         \/ GuardQuery(w) \/ \E k \in Kinds, u \in Users : GuardMiss(w, k, u)
         \/ \E u \in Users : LoginQuery(w, u) \/ RefreshRoles(w, u)
         \/ RefreshPermissions(w)
         \/ QueryFails(w) \/ DeleteRoleGone(w)
         \/ \E u \in Users : Logout(w, u)
         \/ Store(w) \/ DeleteEntry(w) \/ FlushKeys(w) \/ FlushDrop(w)
         \/ \E u \in Users, R \in SUBSET Roles : AssignRoles(w, u, R)
         \/ \E u \in Users, r \in Roles : RemoveRole(w, u, r)
         \/ \E r \in Roles : DeleteRole(w, r)
         \/ \E r \in Roles, P \in SUBSET Perms : AssignPermissions(w, r, P)
  BY DEF Step, Arrive, Commit

LEMMA EndsOK ==
  ASSUME TypeOK, NEW w \in Requests,
         QueryFails(w) \/ DeleteRoleGone(w) \/ \E u \in Users : Logout(w, u)
  PROVE  TypeOK'
  <1>1. RequestsOK'
    BY IdleOK, DeleteOK, BecomesOK DEF QueryFails, DeleteRoleGone, Logout, TypeOK
  <1> QED
    BY <1>1 DEF QueryFails, DeleteRoleGone, Logout, TypeOK, DatabaseOK, CacheOK,
       database

LEMMA ExpireOK ==
  ASSUME TypeOK, NEW k \in Kinds, NEW u \in Users, Expire(k, u)
  PROVE  TypeOK'
  <1>1. CacheOK'
    BY NoEntryOK, EntryOK DEF Expire, TypeOK
  <1> QED
    BY <1>1 DEF Expire, TypeOK, DatabaseOK, RequestsOK, WellFormed, database

LEMMA AdmittedOK ==
  ASSUME TypeOK, NEW w \in Requests,
         \/ \E u \in Users, R \in SUBSET Roles : AssignRoles(w, u, R)
         \/ \E u \in Users, r \in Roles : RemoveRole(w, u, r)
         \/ \E r \in Roles : DeleteRole(w, r)
         \/ \E r \in Roles, P \in SUBSET Perms : AssignPermissions(w, r, P)
  PROVE  TypeOK'
  <1>1. ASSUME NEW u \in Users, NEW R \in SUBSET Roles, AssignRoles(w, u, R)
        PROVE  TypeOK'
    <2>1. Checked(w, "assignRoles", u, R, {})
      BY <1>1 DEF AssignRoles
    <2> QED  BY <2>1, CheckedOK
  <1>2. ASSUME NEW u \in Users, NEW r \in Roles, RemoveRole(w, u, r)
        PROVE  TypeOK'
    <2>1. Checked(w, "removeRole", u, {r}, {})
      BY <1>2 DEF RemoveRole
    <2> QED  BY <2>1, CheckedOK
  <1>3. ASSUME NEW r \in Roles, DeleteRole(w, r)
        PROVE  TypeOK'
    <2>1. Checked(w, "deleteRole", NoUser, {r}, {})
      BY <1>3 DEF DeleteRole
    <2> QED  BY <2>1, CheckedOK
  <1>4. ASSUME NEW r \in Roles, NEW P \in SUBSET Perms, AssignPermissions(w, r, P)
        PROVE  TypeOK'
    <2>1. Checked(w, "assignPermissions", NoUser, {r}, P)
      BY <1>4 DEF AssignPermissions
    <2> QED  BY <2>1, CheckedOK
  <1> QED  BY <1>1, <1>2, <1>3, <1>4

LEMMA NextTypeOK == TypeOK /\ [Next]_vars => TypeOK'
  <1> SUFFICES ASSUME TypeOK, [Next]_vars PROVE TypeOK'
    OBVIOUS
  <1>1. ASSUME NEW w \in Requests, Step(w) \/ Arrive(w)
        PROVE  TypeOK'
    BY <1>1, StepCases, CommitOK, GuardOK, LoginOK, RefreshOK, EndsOK, StoreOK,
       DeleteEntryOK, FlushKeysOK, FlushDropOK, AdmittedOK
  <1>2. ASSUME NEW w \in Requests, Fail(w)
        PROVE  TypeOK'
    BY <1>2, FailOK
  <1>3. ASSUME NEW k \in Kinds, NEW u \in Users, Expire(k, u)
        PROVE  TypeOK'
    BY <1>3, ExpireOK
  <1>4. CASE UNCHANGED vars
    BY <1>4 DEF vars, database, TypeOK, DatabaseOK, CacheOK, RequestsOK, WellFormed
  <1> QED
    BY <1>1, <1>2, <1>3, <1>4 DEF Next

\* Every reachable state is typed: entries hold codes of their own kind and
\* requests are well formed, for any users, roles, permissions and requests.
THEOREM TypeCorrect == Spec => []TypeOK
  BY InitTypeOK, NextTypeOK, PTL DEF Spec

-----------------------------------------------------------------------------
(* Why an entry can be stale. *)

\* The cache this part is about lists its keys under the names it stored them
\* by.
HonestFlush == PrefixedKeys = FALSE

StaleInv == TypeOK /\ ReadsAgree /\ StaleHasCause

LEMMA ViewSame ==
  ASSUME UNCHANGED database, NEW k \in Kinds, NEW u \in Users
  PROVE  View(k, u)' = View(k, u)
  BY DEF database, View, ActiveRoles

LEMMA OthersCover ==
  ASSUME RequestsOK, NEW w \in Requests, NEW r, Becomes(w, r),
         NEW v \in Requests, v # w, NEW k \in Kinds, NEW u \in Users
  PROVE  Covers(v, k, u)' <=> Covers(v, k, u)
  BY DEF RequestsOK, Becomes, Covers, First

\* StaleHasCause survives a step that leaves the database alone, if each entry
\* it writes is fresh, absent or excused, and so is each entry whose deletion
\* it gives up.
LEMMA CauseKept ==
  ASSUME StaleHasCause, UNCHANGED database,
         \A k \in Kinds, u \in Users :
           \/ cache'[k][u] = cache[k][u]
           \/ ~cache'[k][u].present
           \/ cache'[k][u].excused
           \/ cache'[k][u].codes = View(k, u),
         \A w \in Requests, k \in Kinds, u \in Users :
           Covers(w, k, u) => \/ Covers(w, k, u)'
                              \/ ~cache'[k][u].present
                              \/ cache'[k][u].excused
  PROVE  StaleHasCause'
  <1> SUFFICES ASSUME NEW k \in Kinds, NEW u \in Users
               PROVE  \/ cache'[k][u].present => cache'[k][u].codes = View(k, u)
                      \/ cache'[k][u].excused
                      \/ \E w \in Requests : Covers(w, k, u)'
    BY ViewSame DEF StaleHasCause, Fresh
  <1>1. CASE cache'[k][u] = cache[k][u]
    <2>1. \/ cache[k][u].present => cache[k][u].codes = View(k, u)
          \/ cache[k][u].excused
          \/ \E w \in Requests : Covers(w, k, u)
      BY DEF StaleHasCause, Fresh
    <2> QED  BY <1>1, <2>1
  <1>2. CASE cache'[k][u] # cache[k][u]
    BY <1>2
  <1> QED  BY <1>1, <1>2

\* ReadsAgree survives a step of one request that leaves the database alone,
\* if what the request holds then agrees with it.
LEMMA AgreeKept ==
  ASSUME RequestsOK, ReadsAgree, UNCHANGED database,
         NEW w \in Requests, NEW r \in Request,
         Becomes(w, r), \A u \in Users : r.user = u => Agrees(r, u)
  PROVE  ReadsAgree'
  <1>1. \A v \in Requests : req'[v] = IF v = w THEN r ELSE req[v]
    BY DEF Becomes, RequestsOK
  <1>2. \A v \in Requests : req'[v] \in Request
    BY <1>1 DEF RequestsOK
  <1>3. \A v \in Requests : req'[v].left \subseteq Kinds
    BY <1>2 DEF Request
  <1>4. ASSUME NEW v \in Requests, NEW u \in Users, req'[v].user = u
        PROVE  /\ req'[v].pc = "store"
                    => \A k \in req'[v].left \ req'[v].overtaken :
                         req'[v].read[k] = View(k, u)'
               /\ req'[v].pc = "query" /\ req'[v].op = "refresh"
                    => \/ "roles" \in req'[v].overtaken
                       \/ req'[v].read["roles"] = View("roles", u)'
    <2>1. Agrees(req'[v], u)
      BY <1>1, <1>4 DEF ReadsAgree
    <2>2. \A k \in Kinds : View(k, u)' = View(k, u)
      BY ViewSame
    <2>3. "roles" \in Kinds
      BY DEF Kinds
    <2> QED  BY <1>3, <2>1, <2>2, <2>3 DEF Agrees
  <1> QED
    BY <1>4 DEF ReadsAgree, Agrees

LEMMA QuietStep ==
  ASSUME StaleHasCause, RequestsOK, UNCHANGED <<database, cache>>,
         NEW w \in Requests, NEW r, Becomes(w, r),
         req[w].pc \notin {"delete", "flush", "drop"}
  PROVE  StaleHasCause'
  <1>1. \A v \in Requests, k \in Kinds, u \in Users :
          Covers(v, k, u) => Covers(v, k, u)'
    <2>1. \A k \in Kinds, u \in Users : ~Covers(w, k, u)
      BY DEF Covers
    <2> QED  BY <2>1, OthersCover
  <1> QED  BY <1>1, CauseKept

LEMMA IdleAgrees == \A u \in Users : Agrees(Idle, u)
  BY DEF Idle, Agrees

LEMMA DeleteAgrees == \A u, v \in Users : Agrees(ThenDelete(v), u)
  BY DEF ThenDelete, Idle, Agrees

LEMMA FlushAgrees == \A u \in Users : Agrees(ThenFlush, u)
  BY DEF ThenFlush, Idle, Agrees

LEMMA WithoutAgrees ==
  ASSUME NEW r \in Request, NEW k \in Kinds, NEW u \in Users, Agrees(r, u)
  PROVE  Agrees(Without(r, k), u)
  <1>1. CASE r.left \ {k} = {}
    BY <1>1, IdleAgrees DEF Without
  <1>2. CASE r.left \ {k} # {}
    <2>1. Without(r, k) = [r EXCEPT !.left = @ \ {k}, !.listed = {}]
      BY <1>2 DEF Without
    <2>2. /\ Without(r, k).pc = r.pc /\ Without(r, k).op = r.op
          /\ Without(r, k).left = r.left \ {k}
          /\ Without(r, k).read = r.read /\ Without(r, k).overtaken = r.overtaken
      BY <2>1 DEF Request
    <2> QED  BY <2>2 DEF Agrees
  <1> QED  BY <1>1, <1>2

LEMMA WithoutUser ==
  ASSUME NEW r \in Request, WellFormed(r), NEW k \in Kinds, NEW u \in Users,
         Without(r, k).user = u
  PROVE  r.user = u \/ Without(r, k) = Idle
  BY DEF Without, Request

LEMMA StoreStale ==
  ASSUME StaleInv, NEW w \in Requests, Store(w)
  PROVE  ReadsAgree' /\ StaleHasCause'
  <1> DEFINE k == First(req[w].left)
             x == req[w].user
  <1>1. req[w] \in Request /\ WellFormed(req[w]) /\ req[w].pc = "store"
    BY DEF StaleInv, TypeOK, RequestsOK, Store
  <1>2. req[w].left \in SUBSET Kinds /\ req[w].left # {} /\ x \in Users
    BY <1>1 DEF Request, WellFormed
  <1>3. k \in Kinds /\ k \in req[w].left
    BY <1>2, FirstIn
  <1>4. Agrees(req[w], x)
    BY <1>2 DEF StaleInv, ReadsAgree
  <1>5. ReadsAgree'
    <2>1. Without(req[w], k) \in Request
      BY <1>1, <1>3, WithoutOK
    <2>2. \A u \in Users : Without(req[w], k).user = u => Agrees(Without(req[w], k), u)
      BY <1>1, <1>3, <1>4, WithoutAgrees, WithoutUser, IdleAgrees
    <2>3. Becomes(w, Without(req[w], k)) /\ UNCHANGED database
      BY DEF Store
    <2> QED  BY <2>1, <2>2, <2>3, AgreeKept DEF StaleInv, TypeOK
  <1>6. \A l \in Kinds, u \in Users :
          \/ cache'[l][u] = cache[l][u]
          \/ cache'[l][u].excused
          \/ cache'[l][u].codes = View(l, u)
    <2> DEFINE e == [present |-> TRUE, codes |-> req[w].read[k],
                     excused |-> k \in req[w].overtaken]
    <2>1. cache' = [cache EXCEPT ![k][x] = e]
      BY DEF Store
    <2>2. e.excused \/ e.codes = View(k, x)
      BY <1>1, <1>3, <1>4 DEF Agrees
    <2> HIDE DEF k, x, e
    <2> QED  BY <1>2, <1>3, <2>1, <2>2 DEF StaleInv, TypeOK, CacheOK
  <1>7. \A v \in Requests, l \in Kinds, u \in Users :
          Covers(v, l, u) => Covers(v, l, u)'
    <2>1. \A l \in Kinds, u \in Users : ~Covers(w, l, u)
      BY <1>1 DEF Covers
    <2> QED  BY <2>1, OthersCover DEF Store, StaleInv, TypeOK
  <1> QED
    BY <1>5, <1>6, <1>7, CauseKept DEF Store, StaleInv

\* A request that goes on to its next kind still covers the kinds left.
LEMMA WithoutCovers ==
  ASSUME RequestsOK, NEW w \in Requests, req[w].pc \in {"delete", "flush"},
         NEW k \in Kinds, Becomes(w, Without(req[w], k)),
         NEW l \in Kinds, l # k, NEW u \in Users, Covers(w, l, u)
  PROVE  Covers(w, l, u)'
  <1>1. req[w] \in Request
    BY DEF RequestsOK
  <1>2. l \in req[w].left
    BY DEF Covers
  <1>3. req'[w] = [req[w] EXCEPT !.left = @ \ {k}, !.listed = {}]
    BY <1>2 DEF Without, Becomes, RequestsOK
  <1>4. /\ req'[w].pc = req[w].pc /\ req'[w].user = req[w].user
        /\ req'[w].left = req[w].left \ {k}
    BY <1>1, <1>3 DEF Request
  <1> QED  BY <1>2, <1>4 DEF Covers

LEMMA DeleteEntryStale ==
  ASSUME StaleInv, NEW w \in Requests, DeleteEntry(w)
  PROVE  ReadsAgree' /\ StaleHasCause'
  <1> DEFINE k == First(req[w].left)
             x == req[w].user
  <1>1. req[w] \in Request /\ WellFormed(req[w]) /\ req[w].pc = "delete"
    BY DEF StaleInv, TypeOK, RequestsOK, DeleteEntry
  <1>2. req[w].left \in SUBSET Kinds /\ req[w].left # {} /\ x \in Users
    BY <1>1 DEF Request, WellFormed
  <1>3. k \in Kinds
    BY <1>2, FirstIn
  <1>4. Becomes(w, Without(req[w], k)) /\ UNCHANGED database
    BY DEF DeleteEntry
  <1>5. ReadsAgree'
    <2>1. Without(req[w], k) \in Request
      BY <1>1, <1>3, WithoutOK
    <2>2. \A u \in Users : Agrees(req[w], u)
      BY <1>1 DEF Agrees
    <2>3. \A u \in Users : Agrees(Without(req[w], k), u)
      BY <1>1, <1>3, <2>2, WithoutAgrees
    <2> QED  BY <1>4, <2>1, <2>3, AgreeKept DEF StaleInv, TypeOK
  <1>6. \A l \in Kinds, u \in Users :
          IF l = k /\ u = x THEN ~cache'[l][u].present
          ELSE cache'[l][u] = cache[l][u]
    <2>1. cache' = [cache EXCEPT ![k][x] = NoEntry]
      BY DEF DeleteEntry
    <2> HIDE DEF k, x
    <2> QED  BY <1>2, <1>3, <2>1 DEF StaleInv, TypeOK, CacheOK, NoEntry
  <1>7. \A v \in Requests, l \in Kinds, u \in Users :
          Covers(v, l, u) => Covers(v, l, u)' \/ ~cache'[l][u].present
    <2>1. ASSUME NEW l \in Kinds, NEW u \in Users, Covers(w, l, u)
          PROVE  Covers(w, l, u)' \/ ~cache'[l][u].present
      <3>1. CASE l = k
        <4>1. u = x
          BY <1>1, <2>1 DEF Covers
        <4> QED  BY <3>1, <4>1, <1>6
      <3>2. CASE l # k
        BY <1>1, <1>3, <1>4, <2>1, <3>2, WithoutCovers DEF StaleInv, TypeOK
      <3> QED  BY <3>1, <3>2
    <2> QED  BY <2>1, <1>4, OthersCover DEF StaleInv, TypeOK
  <1> QED
    BY <1>4, <1>5, <1>6, <1>7, CauseKept DEF StaleInv

LEMMA FlushKeysStale ==
  ASSUME StaleInv, HonestFlush, NEW w \in Requests, FlushKeys(w)
  PROVE  ReadsAgree' /\ StaleHasCause'
  <1> DEFINE k == First(req[w].left)
             listing == [req[w] EXCEPT !.pc = "drop", !.listed = Matching(k)]
  <1>1. req[w] \in Request /\ WellFormed(req[w]) /\ req[w].pc = "flush"
    BY DEF StaleInv, TypeOK, RequestsOK, FlushKeys
  <1>2. req[w].left \in SUBSET Kinds /\ req[w].left # {}
    BY <1>1 DEF Request, WellFormed
  <1>3. k \in Kinds
    BY <1>2, FirstIn
  <1>4. UNCHANGED <<database, cache>>
    BY DEF FlushKeys
  <1>5. CASE Matching(k) = {}
    <2>1. Becomes(w, Without(req[w], k))
      BY <1>5 DEF FlushKeys
    <2>2. ReadsAgree'
      <3>1. Without(req[w], k) \in Request
        BY <1>1, <1>3, WithoutOK
      <3>2. \A u \in Users : Agrees(req[w], u)
        BY <1>1 DEF Agrees
      <3>3. \A u \in Users : Agrees(Without(req[w], k), u)
        BY <1>1, <1>3, <3>2, WithoutAgrees
      <3> QED  BY <1>4, <2>1, <3>1, <3>3, AgreeKept DEF StaleInv, TypeOK
    <2>3. \A v \in Requests, l \in Kinds, u \in Users :
            Covers(v, l, u) => Covers(v, l, u)' \/ ~cache'[l][u].present
      <3>1. \A u \in Users : ~cache'[k][u].present
        BY <1>4, <1>5 DEF Matching, HonestFlush
      <3>2. \A l \in Kinds, u \in Users : l # k /\ Covers(w, l, u) => Covers(w, l, u)'
        BY <1>1, <1>3, <2>1, WithoutCovers DEF StaleInv, TypeOK
      <3> QED  BY <3>1, <3>2, <2>1, OthersCover DEF StaleInv, TypeOK
    <2>4. \A l \in Kinds, u \in Users : cache'[l][u] = cache[l][u]
      BY <1>4
    <2> QED  BY <1>4, <2>2, <2>3, <2>4, CauseKept DEF StaleInv
  <1>6. CASE Matching(k) # {}
    <2>1. Becomes(w, listing)
      BY <1>6 DEF FlushKeys
    <2>2. /\ listing.pc = "drop" /\ listing.left = req[w].left
          /\ listing.listed = Matching(k) /\ listing \in Request
      BY <1>1 DEF Request, Matching
    <2>3. ReadsAgree'
      <3>1. \A u \in Users : Agrees(listing, u)
        BY <2>2 DEF Agrees
      <3> HIDE DEF listing
      <3> QED  BY <1>4, <2>1, <2>2, <3>1, AgreeKept DEF StaleInv, TypeOK
    <2>4. req'[w] = listing
      BY <2>1 DEF Becomes, StaleInv, TypeOK, RequestsOK
    <2>5. \A l \in Kinds, u \in Users :
            Covers(w, l, u) => Covers(w, l, u)' \/ ~cache'[l][u].present
      <3>1. ASSUME NEW l \in Kinds, NEW u \in Users, l \in req[w].left
            PROVE  Covers(w, l, u)' \/ ~cache'[l][u].present
        <4>1. CASE l # k
          BY <2>2, <2>4, <3>1, <4>1 DEF Covers
        <4>2. CASE l = k /\ u \in Matching(k)
          BY <2>2, <2>4, <4>2 DEF Covers
        <4>3. CASE l = k /\ u \notin Matching(k)
          BY <1>4, <4>3 DEF Matching, HonestFlush
        <4> QED  BY <4>1, <4>2, <4>3
      <3> QED  BY <1>1, <3>1 DEF Covers
    <2>6. \A v \in Requests, l \in Kinds, u \in Users :
            Covers(v, l, u) => Covers(v, l, u)' \/ ~cache'[l][u].present
      <3> HIDE DEF listing
      <3> QED  BY <2>1, <2>5, OthersCover DEF StaleInv, TypeOK
    <2>7. \A l \in Kinds, u \in Users : cache'[l][u] = cache[l][u]
      BY <1>4
    <2> QED  BY <1>4, <2>3, <2>6, <2>7, CauseKept DEF StaleInv
  <1> QED  BY <1>5, <1>6

LEMMA FlushDropStale ==
  ASSUME StaleInv, NEW w \in Requests, FlushDrop(w)
  PROVE  ReadsAgree' /\ StaleHasCause'
  <1> DEFINE k == First(req[w].left)
             rest == [Without(req[w], k) EXCEPT !.pc = "flush"]
             after == IF req[w].left = {k} THEN Idle ELSE rest
  <1>1. req[w] \in Request /\ WellFormed(req[w]) /\ req[w].pc = "drop"
    BY DEF StaleInv, TypeOK, RequestsOK, FlushDrop
  <1>2. req[w].left \in SUBSET Kinds /\ req[w].left # {}
    BY <1>1 DEF Request, WellFormed
  <1>3. k \in Kinds /\ k \in req[w].left
    BY <1>2, FirstIn
  <1>4. Becomes(w, after) /\ UNCHANGED database
    BY DEF FlushDrop
  <1>5. ASSUME req[w].left # {k}
        PROVE  /\ rest \in Request /\ rest.pc = "flush"
               /\ rest.left = req[w].left \ {k}
    <2>1. req[w].left \ {k} # {}
      BY <1>2, <1>5
    <2>2. Without(req[w], k) = [req[w] EXCEPT !.left = @ \ {k}, !.listed = {}]
      BY <2>1 DEF Without
    <2>3. Without(req[w], k) \in Request
      BY <1>1, <1>3, WithoutOK
    <2>4. Without(req[w], k).left = req[w].left \ {k}
      BY <1>1, <2>2 DEF Request
    <2> QED  BY <2>3, <2>4 DEF Request
  <1>6. after \in Request
    BY <1>5, IdleOK
  <1>7. ReadsAgree'
    <2>1. \A u \in Users : Agrees(after, u)
      BY <1>5, IdleAgrees DEF Agrees
    <2> HIDE DEF after
    <2> QED  BY <1>4, <1>6, <2>1, AgreeKept DEF StaleInv, TypeOK
  <1>8. \A l \in Kinds, u \in Users :
          IF l = k /\ u \in req[w].listed THEN ~cache'[l][u].present
          ELSE cache'[l][u] = cache[l][u]
    BY <1>3 DEF FlushDrop, NoEntry, StaleInv, TypeOK, CacheOK
  <1>9. ASSUME NEW l \in Kinds, NEW u \in Users, Covers(w, l, u)
        PROVE  Covers(w, l, u)' \/ ~cache'[l][u].present
    <2>1. CASE l \in req[w].left \ {k}
      <3>1. req[w].left # {k}
        BY <2>1
      <3>2. req'[w] = rest
        BY <1>4, <3>1 DEF Becomes, StaleInv, TypeOK, RequestsOK
      <3> QED  BY <1>5, <2>1, <3>1, <3>2 DEF Covers
    <2>2. CASE l = k /\ u \in req[w].listed
      BY <1>8, <2>2
    <2> QED  BY <1>1, <1>9, <2>1, <2>2 DEF Covers
  <1>10. \A v \in Requests, l \in Kinds, u \in Users :
           Covers(v, l, u) => Covers(v, l, u)' \/ ~cache'[l][u].present
    <2> HIDE DEF after
    <2> QED  BY <1>4, <1>9, OthersCover DEF StaleInv, TypeOK
  <1> QED
    BY <1>4, <1>7, <1>8, <1>10, CauseKept DEF StaleInv

\* An entry whose deletion a failure gives up is absent or excused afterwards.
LEMMA ExcusedEntry ==
  ASSUME CacheOK, NEW w \in Requests, cache' = Excused(w),
         NEW k \in Kinds, NEW u \in Users
  PROVE  /\ cache'[k][u].excused \/ cache'[k][u] = cache[k][u]
         /\ Covers(w, k, u) => ~cache'[k][u].present \/ cache'[k][u].excused
  <1>1. cache'[k][u] = IF Covers(w, k, u) /\ cache[k][u].present
                       THEN [cache[k][u] EXCEPT !.excused = TRUE]
                       ELSE cache[k][u]
    BY DEF Excused
  <1>2. \A e \in Entry : [e EXCEPT !.excused = TRUE].excused
    BY DEF Entry
  <1>3. cache[k][u] \in Entry
    BY DEF CacheOK
  <1> QED  BY <1>1, <1>2, <1>3

LEMMA FailStale ==
  ASSUME StaleInv, NEW w \in Requests, Fail(w)
  PROVE  ReadsAgree' /\ StaleHasCause'
  <1> USE DEF StaleInv, TypeOK
  <1>1. Becomes(w, Idle) /\ UNCHANGED database /\ cache' = Excused(w)
    BY DEF Fail
  <1>2. ReadsAgree'
    BY <1>1, IdleOK, IdleAgrees, AgreeKept
  <1>3. \A l \in Kinds, u \in Users :
          /\ cache'[l][u].excused \/ cache'[l][u] = cache[l][u]
          /\ Covers(w, l, u) => ~cache'[l][u].present \/ cache'[l][u].excused
    BY <1>1, ExcusedEntry
  <1>4. \A v \in Requests, l \in Kinds, u \in Users :
          Covers(v, l, u) => \/ Covers(v, l, u)'
                             \/ ~cache'[l][u].present \/ cache'[l][u].excused
    BY <1>1, <1>3, OthersCover
  <1> QED  BY <1>1, <1>2, <1>3, <1>4, CauseKept

-----------------------------------------------------------------------------
(* What a fill reads. *)

LEMMA FillStale ==
  ASSUME StaleInv, NEW w \in Requests,
         \/ GuardQuery(w)
         \/ \E k \in Kinds, u \in Users : GuardMiss(w, k, u)
         \/ RefreshPermissions(w)
  PROVE  ReadsAgree' /\ StaleHasCause'
  <1> USE DEF StaleInv, TypeOK
  <1>1. req[w] \in Request /\ WellFormed(req[w])
    BY DEF RequestsOK
  <1>2. CASE GuardQuery(w)
    <2> DEFINE k == First(req[w].left)
               S == View(k, req[w].user)
               q == [req[w] EXCEPT !.pc = "store", !.left = {k},
                                   !.overtaken = {}, !.read[k] = S]
    <2>1. /\ req[w].left \in SUBSET Kinds /\ req[w].left # {}
          /\ req[w].user \in Users
      BY <1>1, <1>2 DEF Request, WellFormed, GuardQuery
    <2>2. k \in Kinds
      BY <2>1, FirstIn
    <2>3. /\ Becomes(w, q) /\ UNCHANGED <<database, cache>>
          /\ req[w].pc = "query"
      BY <1>2 DEF GuardQuery
    <2>4. /\ q.pc = "store" /\ q.left = {k} /\ q.user = req[w].user
          /\ q.read[k] = S
      BY <1>1, <2>2 DEF Request
    <2>5. \A u \in Users : q.user = u => Agrees(q, u)
      BY <2>4 DEF Agrees
    <2>6. q = req'[w]
      BY <2>3 DEF Becomes, RequestsOK
    <2>7. q \in Request
      <3>1. TypeOK'
        BY <1>2, GuardOK
      <3> HIDE DEF q
      <3> QED  BY <3>1, <2>6 DEF RequestsOK
    <2> HIDE DEF q
    <2> QED  BY <2>3, <2>5, <2>7, QuietStep, AgreeKept
  <1>3. ASSUME NEW k \in Kinds, NEW u \in Users, GuardMiss(w, k, u)
        PROVE  ReadsAgree' /\ StaleHasCause'
    <2> DEFINE q == [Idle EXCEPT !.pc = "query", !.op = "guard", !.user = u,
                                 !.left = {k}]
    <2>1. q \in Request
      BY IdleOK DEF Idle, Request
    <2>2. \A v \in Users : Agrees(q, v)
      BY DEF Idle, Agrees
    <2>3. Becomes(w, q) /\ UNCHANGED <<database, cache>> /\ req[w].pc = "idle"
      BY <1>3 DEF GuardMiss, Called
    <2> HIDE DEF q
    <2> QED  BY <2>1, <2>2, <2>3, QuietStep, AgreeKept
  <1>4. CASE RefreshPermissions(w)
    <2> DEFINE S == View("permissions", req[w].user)
               q == [req[w] EXCEPT !.pc = "store", !.left = Kinds,
                       !.overtaken = @ \ {"permissions"},
                       !.read["permissions"] = S]
    <2>1. /\ Becomes(w, q) /\ UNCHANGED <<database, cache>>
          /\ req[w].pc = "query" /\ req[w].op = "refresh"
      BY <1>4 DEF RefreshPermissions
    <2>2. req[w].user \in Users
      BY <1>1, <2>1 DEF WellFormed
    <2>3. /\ q.pc = "store" /\ q.left = Kinds /\ q.user = req[w].user
          /\ q.read["permissions"] = S /\ q.read["roles"] = req[w].read["roles"]
          /\ q.overtaken = req[w].overtaken \ {"permissions"}
      BY <1>1 DEF Request, Kinds
    <2>4. Agrees(req[w], req[w].user)
      BY <2>2 DEF ReadsAgree
    <2>5. Agrees(q, req[w].user)
      BY <2>1, <2>3, <2>4 DEF Agrees, Kinds
    <2>6. q = req'[w]
      BY <2>1 DEF Becomes, RequestsOK
    <2>7. q \in Request
      <3>1. TypeOK'
        BY <1>4, RefreshOK
      <3> HIDE DEF q
      <3> QED  BY <3>1, <2>6 DEF RequestsOK
    <2>8. \A u \in Users : q.user = u => Agrees(q, u)
      BY <2>3, <2>5
    <2> HIDE DEF q
    <2> QED  BY <2>1, <2>7, <2>8, QuietStep, AgreeKept
  <1> QED  BY <1>2, <1>3, <1>4

LEMMA LoginStale ==
  ASSUME StaleInv, NEW w \in Requests, NEW u \in Users,
         LoginQuery(w, u) \/ RefreshRoles(w, u)
  PROVE  ReadsAgree' /\ StaleHasCause'
  <1> USE DEF StaleInv, TypeOK
  <1>1. req[w].pc = "idle"
    BY DEF LoginQuery, RefreshRoles, Called
  <1>2. \A k \in Kinds \ Differs(u) : Held(k, u) = View(k, u)
    BY DEF Differs
  <1>3. req'[w] \in Request
    <2>1. TypeOK'
      BY LoginOK
    <2> QED  BY <2>1 DEF RequestsOK
  <1>4. UNCHANGED <<database, cache>>
    BY DEF LoginQuery, RefreshRoles
  <1>5. CASE LoginQuery(w, u)
    <2> DEFINE q == [Idle EXCEPT !.pc = "store", !.op = "login", !.user = u,
                       !.left = Kinds, !.overtaken = Differs(u),
                       !.read = [k \in Kinds |-> Held(k, u)]]
    <2>1. Becomes(w, q)
      BY <1>5 DEF LoginQuery
    <2>2. /\ q.pc = "store" /\ q.left = Kinds /\ q.user = u
          /\ q.overtaken = Differs(u)
          /\ \A k \in Kinds : q.read[k] = Held(k, u)
      BY DEF Idle
    <2>3. \A v \in Users : q.user = v => Agrees(q, v)
      BY <1>2, <2>2 DEF Agrees
    <2>4. q = req'[w]
      BY <2>1 DEF Becomes, RequestsOK
    <2> HIDE DEF q
    <2> QED  BY <1>1, <1>3, <1>4, <2>1, <2>3, <2>4, QuietStep, AgreeKept
  <1>6. CASE RefreshRoles(w, u)
    <2> DEFINE q == [Idle EXCEPT !.pc = "query", !.op = "refresh", !.user = u,
                       !.left = {"permissions"},
                       !.overtaken = Differs(u) \ {"permissions"},
                       !.read["roles"] = Held("roles", u)]
    <2>1. Becomes(w, q)
      BY <1>6 DEF RefreshRoles
    <2>2. /\ q.pc = "query" /\ q.user = u
          /\ q.overtaken = Differs(u) \ {"permissions"}
          /\ q.read["roles"] = Held("roles", u)
      BY DEF Idle, Kinds
    <2>3. \A v \in Users : q.user = v => Agrees(q, v)
      BY <1>2, <2>2 DEF Agrees, Kinds
    <2>4. q = req'[w]
      BY <2>1 DEF Becomes, RequestsOK
    <2> HIDE DEF q
    <2> QED  BY <1>1, <1>3, <1>4, <2>1, <2>3, <2>4, QuietStep, AgreeKept
  <1> QED  BY <1>5, <1>6

\* Steps that neither read grants nor touch the cache.
LEMMA EndsStale ==
  ASSUME StaleInv, NEW w \in Requests,
         QueryFails(w) \/ DeleteRoleGone(w) \/ \E u \in Users : Logout(w, u)
  PROVE  ReadsAgree' /\ StaleHasCause'
  <1> USE DEF StaleInv, TypeOK
  <1>1. PICK r \in Request : Becomes(w, r) /\ \A u \in Users : Agrees(r, u)
    BY IdleOK, DeleteOK, IdleAgrees, DeleteAgrees
       DEF QueryFails, DeleteRoleGone, Logout
  <1>2. /\ UNCHANGED <<database, cache>>
        /\ req[w].pc \notin {"delete", "flush", "drop"}
    BY DEF QueryFails, DeleteRoleGone, Logout, Called
  <1> QED  BY <1>1, <1>2, QuietStep, AgreeKept

LEMMA CheckedStale ==
  ASSUME StaleInv, TypeOK', NEW w \in Requests, NEW u, NEW op, NEW R, NEW P,
         Checked(w, op, u, R, P)
  PROVE  ReadsAgree' /\ StaleHasCause'
  <1> USE DEF StaleInv, TypeOK
  <1> DEFINE q == [Idle EXCEPT !.pc = "commit", !.op = op, !.user = u,
                               !.roles = R, !.perms = P]
  <1>1. /\ Becomes(w, q) /\ UNCHANGED <<database, cache>>
        /\ req[w].pc = "idle"
    BY DEF Checked, Called
  <1>2. q.pc = "commit"
    BY DEF Idle
  <1>3. \A v \in Users : Agrees(q, v)
    BY <1>2 DEF Agrees
  <1>4. q = req'[w]
    BY <1>1 DEF Becomes, RequestsOK
  <1>5. q \in Request
    <2> HIDE DEF q
    <2> QED  BY <1>4 DEF RequestsOK
  <1> HIDE DEF q
  <1> QED  BY <1>1, <1>3, <1>5, QuietStep, AgreeKept

LEMMA AdmittedStale ==
  ASSUME StaleInv, NEW w \in Requests,
         \/ \E u \in Users, R \in SUBSET Roles : AssignRoles(w, u, R)
         \/ \E u \in Users, r \in Roles : RemoveRole(w, u, r)
         \/ \E r \in Roles : DeleteRole(w, r)
         \/ \E r \in Roles, P \in SUBSET Perms : AssignPermissions(w, r, P)
  PROVE  ReadsAgree' /\ StaleHasCause'
  <1>1. TypeOK'
    BY AdmittedOK DEF StaleInv
  <1>2. \E u, op, R, P : Checked(w, op, u, R, P)
    BY DEF AssignRoles, RemoveRole, DeleteRole, AssignPermissions
  <1> QED  BY <1>1, <1>2, CheckedStale

LEMMA NobodyMoves ==
  ASSUME RequestsOK, ReadsAgree, UNCHANGED <<database, req>>
  PROVE  ReadsAgree'
  <1>1. ASSUME NEW v \in Requests, NEW u \in Users, req'[v].user = u
        PROVE  /\ req'[v].pc = "store"
                    => \A k \in req'[v].left \ req'[v].overtaken :
                         req'[v].read[k] = View(k, u)'
               /\ req'[v].pc = "query" /\ req'[v].op = "refresh"
                    => \/ "roles" \in req'[v].overtaken
                       \/ req'[v].read["roles"] = View("roles", u)'
    <2>1. Agrees(req[v], u) /\ req'[v] = req[v]
      BY <1>1 DEF ReadsAgree
    <2>2. \A k \in Kinds : View(k, u)' = View(k, u)
      BY ViewSame
    <2>3. req[v].left \subseteq Kinds /\ "roles" \in Kinds
      BY DEF RequestsOK, Request, Kinds
    <2> QED  BY <2>1, <2>2, <2>3 DEF Agrees
  <1> QED  BY <1>1 DEF ReadsAgree, Agrees

LEMMA ExpireStale ==
  ASSUME StaleInv, NEW x \in Kinds, NEW y \in Users, Expire(x, y)
  PROVE  ReadsAgree' /\ StaleHasCause'
  <1> USE DEF StaleInv, TypeOK
  <1>1. ReadsAgree'
    BY NobodyMoves DEF Expire
  <1>2. \A k \in Kinds, u \in Users :
          cache'[k][u] = cache[k][u] \/ ~cache'[k][u].present
    BY DEF Expire, CacheOK, NoEntry
  <1>3. \A w \in Requests, k \in Kinds, u \in Users :
          Covers(w, k, u) => Covers(w, k, u)'
    BY DEF Expire, Covers
  <1>4. UNCHANGED database
    BY DEF Expire
  <1> QED  BY <1>1, <1>2, <1>3, <1>4, CauseKept

\* A commit: whoever has read what it changes is overtaken, and the entries it
\* makes stale are the ones the request goes on to delete.
LEMMA CommitStale ==
  ASSUME StaleInv, NEW w \in Requests, Commit(w)
  PROVE  ReadsAgree' /\ StaleHasCause'
  <1> USE DEF StaleInv, TypeOK
  <1>1. PICK after : CommitsFor(w, after)
    BY CommitShape
  <1>2. after \in Request /\ \A u \in Users : Agrees(after, u)
    BY <1>1, IdleOK, FlushOK, DeleteOK, IdleAgrees, FlushAgrees, DeleteAgrees
       DEF CommitsFor
  <1>3. \A v \in Requests :
          req'[v] = IF v = w THEN after
                    ELSE IF req[v].pc \in {"query", "store"}
                    THEN Overtaken(req[v], Changed[req[v].user]) ELSE req[v]
    BY <1>1 DEF CommitsFor, Commits
  <1>4. \A k \in Kinds, u \in Users : k \in Changed[u] \/ View(k, u)' = View(k, u)
    BY DEF Changed
  <1>5. ASSUME NEW v \in Requests, NEW u \in Users, req'[v].user = u
        PROVE  /\ req'[v].pc = "store"
                    => \A k \in req'[v].left \ req'[v].overtaken :
                         req'[v].read[k] = View(k, u)'
               /\ req'[v].pc = "query" /\ req'[v].op = "refresh"
                    => \/ "roles" \in req'[v].overtaken
                       \/ req'[v].read["roles"] = View("roles", u)'
    <2>1. CASE v = w
      <3>1. after.pc \notin {"store", "query"}
        <4>1. Idle.pc = "idle" /\ ThenFlush.pc = "flush"
          BY DEF Idle, ThenFlush
        <4>2. \A x \in Users : ThenDelete(x).pc = "delete"
          BY DEF Idle, ThenDelete
        <4> QED  BY <1>1, <4>1, <4>2 DEF CommitsFor
      <3> QED  BY <1>3, <2>1, <3>1
    <2>2. CASE v # w /\ req[v].pc \in {"query", "store"}
      <3> DEFINE r == req[v]
                 q == Overtaken(r, Changed[r.user])
      <3>1. req'[v] = q
        BY <1>3, <2>2
      <3>2. r \in Request
        BY DEF RequestsOK
      <3>3. /\ q.pc = r.pc /\ q.op = r.op /\ q.user = r.user
            /\ q.left = r.left /\ q.read = r.read
            /\ q.overtaken = r.overtaken \union Changed[r.user]
        BY <3>2 DEF Request, Overtaken
      <3>4. r.user = u /\ Agrees(r, u)
        BY <1>5, <3>1, <3>3 DEF ReadsAgree
      <3>5. r.left \subseteq Kinds /\ "roles" \in Kinds
        BY <3>2 DEF Request, Kinds
      <3> HIDE DEF r, q
      <3> QED  BY <1>4, <3>1, <3>3, <3>4, <3>5 DEF Agrees
    <2>3. CASE v # w /\ req[v].pc \notin {"query", "store"}
      BY <1>3, <2>3
    <2> QED  BY <2>1, <2>2, <2>3
  <1>6. ReadsAgree'
    BY <1>5 DEF ReadsAgree, Agrees
  <1>7. ASSUME NEW k \in Kinds, NEW u \in Users, NEW v \in Requests,
               Covers(v, k, u)
        PROVE  Covers(v, k, u)'
    <2>1. req[v].pc \notin {"idle", "commit", "query", "store"}
      BY <1>7 DEF Covers
    <2>2. req'[v] = req[v]
      BY <1>1, <1>3, <2>1 DEF CommitsFor
    <2> QED  BY <1>7, <2>2 DEF Covers
  <1>8. ASSUME NEW k \in Kinds, NEW u \in Users, View(k, u)' # View(k, u)
        PROVE  Covers(w, k, u)'
    <2>1. after = ThenFlush \/ after = ThenDelete(u)
      BY <1>1, <1>8 DEF CommitsFor
    <2> QED  BY <1>3, <2>1 DEF Covers, ThenFlush, ThenDelete, Idle, Kinds
  <1>9. cache' = cache
    BY <1>1 DEF CommitsFor, Commits
  <1>10. ASSUME NEW k \in Kinds, NEW u \in Users
         PROVE  \/ cache'[k][u].present => cache'[k][u].codes = View(k, u)'
                \/ cache'[k][u].excused
                \/ \E v \in Requests : Covers(v, k, u)'
    <2>1. CASE View(k, u)' = View(k, u)
      BY <1>7, <1>9, <2>1 DEF StaleHasCause, Fresh
    <2>2. CASE View(k, u)' # View(k, u)
      BY <1>8, <2>2
    <2> QED  BY <2>1, <2>2
  <1>11. StaleHasCause'
    BY <1>10 DEF StaleHasCause, Fresh
  <1> QED  BY <1>6, <1>11

LEMMA NextStale ==
  ASSUME HonestFlush, StaleInv, [Next]_vars
  PROVE  StaleInv'
  <1>1. TypeOK'
    BY NextTypeOK DEF StaleInv
  <1>3. ASSUME NEW w \in Requests, Step(w) \/ Arrive(w)
        PROVE  ReadsAgree' /\ StaleHasCause'
    BY <1>3, StepCases, CommitStale, FillStale, LoginStale, EndsStale, StoreStale,
       DeleteEntryStale, FlushKeysStale, FlushDropStale, AdmittedStale
  <1>4. ASSUME NEW w \in Requests, Fail(w)
        PROVE  ReadsAgree' /\ StaleHasCause'
    BY <1>4, FailStale
  <1>5. ASSUME NEW k \in Kinds, NEW u \in Users, Expire(k, u)
        PROVE  ReadsAgree' /\ StaleHasCause'
    BY <1>5, ExpireStale
  <1>6. CASE UNCHANGED vars
    <2>1. UNCHANGED <<database, req>> /\ UNCHANGED database
          /\ cache' = cache /\ req' = req
      BY <1>6 DEF vars
    <2>2. ReadsAgree'
      BY <2>1, NobodyMoves DEF StaleInv, TypeOK
    <2>3. \A w \in Requests, k \in Kinds, u \in Users :
            Covers(w, k, u) => Covers(w, k, u)'
      BY <2>1 DEF Covers
    <2>4. \A k \in Kinds, u \in Users : cache'[k][u] = cache[k][u]
      BY <2>1
    <2>5. StaleHasCause'
      BY <2>1, <2>3, <2>4, CauseKept DEF StaleInv
    <2> QED  BY <1>1, <2>2, <2>5 DEF StaleInv
  <1>7. CASE Next
    <2>1. \/ \E w \in Requests : Step(w) \/ Arrive(w)
          \/ \E w \in Requests : Fail(w)
          \/ \E k \in Kinds, u \in Users : Expire(k, u)
      BY <1>7 DEF Next
    <2>2. ReadsAgree' /\ StaleHasCause'
      BY <2>1, <1>3, <1>4, <1>5
    <2> QED  BY <1>1, <2>2 DEF StaleInv
  <1> QED  BY <1>6, <1>7

LEMMA InitStale == Init => StaleInv
  <1> SUFFICES ASSUME Init PROVE StaleInv
    OBVIOUS
  <1>1. TypeOK
    BY InitTypeOK
  <1>3. ReadsAgree
    BY DEF Init, ReadsAgree, Agrees, Idle
  <1>4. StaleHasCause
    BY DEF Init, StaleHasCause, Fresh, NoEntry
  <1> QED  BY <1>1, <1>3, <1>4 DEF StaleInv

\* With a cache that lists its keys by the names it stored them under, an entry
\* is stale only while its deletion is pending, or because a fill was overtaken
\* or read deactivated rows, or a deletion lost: whatever the users, roles,
\* permissions and requests.
THEOREM StaleCaused == HonestFlush => (Spec => []StaleHasCause)
  <1> SUFFICES ASSUME HonestFlush PROVE Spec => []StaleHasCause
    OBVIOUS
  <1>1. Init => StaleInv
    BY InitStale
  <1>2. StaleInv /\ [Next]_vars => StaleInv'
    BY NextStale
  <1>3. StaleInv => StaleHasCause
    BY DEF StaleInv
  <1> QED  BY <1>1, <1>2, <1>3, PTL DEF Spec
=============================================================================
