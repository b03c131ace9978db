------------------------ MODULE AuthSessionsProofs ------------------------
(***************************************************************************)
(* Proofs about AuthSessions for every set of users and workers, every     *)
(* session limit, every bound and every TTL.                               *)
(***************************************************************************)
EXTENDS AuthSessions, FiniteSetTheorems, TLAPS

-----------------------------------------------------------------------------
(* Facts about the helpers. *)

(* The age bound is one of the three lifetimes, so a natural number. *)
LEMMA MaxAgeNat == MaxAge \in Nat \ {0}
BY SessionAssumption DEF MaxAge, Longer

(* The idle record is a request. *)
LEMMA IdleTyped == Idle \in Request
BY SessionAssumption DEF Idle, Request

(* Entering a list keeps a request well formed. *)
LEMMA EnterTyped ==
    ASSUME NEW r \in Request, NEW todo \in SUBSET Snapshots
    PROVE  Enter(r, todo) \in Request
BY DEF Enter, Request, Afterwards

(* The step after blacklisting keeps a request well formed. *)
LEMMA AfterBlacklistingTyped ==
    ASSUME NEW r \in Request, NEW v \in r.todo
    PROVE  AfterBlacklisting(r, v) \in Request
<1>1. /\ r.todo \ {v} \in SUBSET Snapshots
      /\ r.marked \cup {v} \in SUBSET Snapshots
  BY DEF Request
<1>2. CASE r.op \in PerSession
  BY <1>2 DEF AfterBlacklisting, Request, PerSession
<1>3. CASE r.op \notin PerSession /\ r.todo \ {v} # {}
  BY <1>1, <1>3 DEF AfterBlacklisting, Request
<1>4. CASE r.op \notin PerSession /\ r.todo \ {v} = {} /\ r.op = "all"
  BY <1>1, <1>4 DEF AfterBlacklisting, Afterwards, Request
<1>5. CASE r.op \notin PerSession /\ r.todo \ {v} = {} /\ r.op # "all"
  BY <1>1, <1>5 DEF AfterBlacklisting, Request
<1>6. QED
  BY <1>2, <1>3, <1>4, <1>5

(* A set of rows as a list names rows and pairs in bounds. *)
LEMMA SnapshotTyped ==
    ASSUME TypeOK, NEW s \in Sids
    PROVE  Snapshot(s) \in Snapshots
BY DEF TypeOK, Snapshot, Snapshots, Sids

(* A blacklist stays a map of remaining TTLs. *)
LEMMA BanTyped ==
    ASSUME NEW ttl \in Nat, NEW bl \in [Pairs -> 0..ttl], NEW p
    PROVE  Ban(bl, p, ttl) \in [Pairs -> 0..ttl]
<1>1. ttl \in 0..ttl
  OBVIOUS
<1>2. QED
  BY <1>1, Zenon DEF Ban

(* Signing keeps the pairs well formed and signs a pair in bounds. *)
LEMMA SignTyped ==
    ASSUME TypeOK, NEW u \in Users \cup {NoUser}, NEW p \in Pairs, Sign(u, p)
    PROVE  /\ pair' \in [Pairs -> [owner : Users \cup {NoUser}, age : 0..MaxAge]]
           /\ signed' \in 0..MaxPairs
BY MaxAgeNat, SessionAssumption DEF Sign, TypeOK, Pairs

-----------------------------------------------------------------------------
LEMMA InitTypeOK == Init => TypeOK
<1>1. Init => req \in [Workers -> Request]
  BY IdleTyped DEF Init
<1>2. QED
  BY <1>1, MaxAgeNat, SessionAssumption DEF Init, TypeOK, Sids, Pairs

(* Every step keeps the types. *)
LEMMA NextTypeOK == TypeOK /\ [Next]_vars => TypeOK'
<1> SUFFICES ASSUME TypeOK, [Next]_vars PROVE TypeOK'
  OBVIOUS
<1> USE SessionAssumption
<1> USE DEF rowVars, tokenVars, cacheVars, history
<1>0. /\ req \in [Workers -> Request]
      /\ session \in [Sids -> [user : Users \cup {NoUser}, pair : 0..MaxPairs,
                               status : {"absent", "active", "revoked"}]]
      /\ Idle \in Request
  BY IdleTyped DEF TypeOK
<1>a. ASSUME NEW w \in Workers, Finish(w)
      PROVE  req' \in [Workers -> Request]
  BY <1>0, <1>a DEF Finish
<1>1. ASSUME NEW w \in Workers, BlacklistAccess(w) PROVE TypeOK'
  <2>1. PICK v \in req[w].todo :
            /\ blAccess' = Ban(blAccess, v.pair, AccessBlacklistTTL)
            /\ burntAccess' = burntAccess \cup {v.pair}
    BY <1>1 DEF BlacklistAccess
  <2>2. v.pair \in 0..MaxPairs
    BY <1>0 DEF Request, Snapshots
  <2>3. blAccess' \in [Pairs -> 0..AccessBlacklistTTL]
    BY <2>1, BanTyped DEF TypeOK
  <2>4. req' \in [Workers -> Request]
    BY <1>0, <1>1 DEF BlacklistAccess, Request
  <2>5. QED
    BY <1>1, <2>1, <2>2, <2>3, <2>4 DEF BlacklistAccess, TypeOK
<1>2. ASSUME NEW w \in Workers, BlacklistRefresh(w) PROVE TypeOK'
  <2>1. PICK v \in req[w].todo :
            /\ blRefresh' = Ban(blRefresh, v.pair, RefreshBlacklistTTL)
            /\ burntRefresh' = burntRefresh \cup {v.pair}
            /\ req' = [req EXCEPT ![w] = AfterBlacklisting(req[w], v)]
    BY <1>2 DEF BlacklistRefresh
  <2>2. v.pair \in 0..MaxPairs
    BY <1>0 DEF Request, Snapshots
  <2>3. blRefresh' \in [Pairs -> 0..RefreshBlacklistTTL]
    BY <2>1, BanTyped DEF TypeOK
  <2>4. req' \in [Workers -> Request]
    BY <1>0, <2>1, AfterBlacklistingTyped
  <2>5. QED
    BY <1>2, <2>1, <2>2, <2>3, <2>4 DEF BlacklistRefresh, TypeOK
<1>3. ASSUME NEW w \in Workers, Deactivate(w) PROVE TypeOK'
  <2>1. PICK v \in req[w].todo :
            /\ session' = [session EXCEPT ![v.sid].status = "revoked"]
            /\ req' = [req EXCEPT ![w] =
                 IF req[w].op = "others" /\ req[w].todo \ {v} # {}
                   THEN [req[w] EXCEPT !.todo = req[w].todo \ {v}]
                   ELSE Enter(req[w], req[w].todo \ {v})]
    BY <1>3 DEF Deactivate
  <2>2. req[w].todo \ {v} \in SUBSET Snapshots
    BY <1>0 DEF Request
  <2>3. req' \in [Workers -> Request]
    <3>1. [req[w] EXCEPT !.todo = req[w].todo \ {v}] \in Request
      BY <1>0, <2>2 DEF Request
    <3>2. Enter(req[w], req[w].todo \ {v}) \in Request
      BY <1>0, <2>2, EnterTyped
    <3>3. QED
      BY <1>0, <2>1, <3>1, <3>2
  <2>4. session' \in [Sids -> [user : Users \cup {NoUser}, pair : 0..MaxPairs,
                               status : {"absent", "active", "revoked"}]]
    BY <1>0, <2>1
  <2>5. QED
    BY <1>3, <2>3, <2>4 DEF Deactivate, TypeOK
<1>4. ASSUME NEW w \in Workers, Done(w) PROVE TypeOK'
  <2>1. req[w].pair \in 0..MaxPairs
    BY <1>0 DEF Request
  <2>2. QED
    BY <1>0, <1>4, <2>1 DEF Done, TypeOK
<1>5. ASSUME NEW w \in Workers, LoginCreate(w) PROVE TypeOK'
  <2>1. /\ req[w].user \in Users \cup {NoUser}
        /\ req[w].new \in 0..MaxPairs
        /\ created + 1 \in Sids
    BY <1>0, <1>5 DEF Request, LoginCreate
  <2>2. /\ req' = [req EXCEPT ![w].pc = "respond"]
        /\ session' = [session EXCEPT ![created + 1] =
              [user |-> req[w].user, pair |-> req[w].new, status |-> "active"]]
        /\ issuedFor' = issuedFor \cup {<<req[w].new, created + 1>>}
        /\ created' = created + 1
    BY <1>5 DEF LoginCreate
  <2>3. req' \in [Workers -> Request]
    BY <1>0, <2>2 DEF Request
  <2>4. session' \in [Sids -> [user : Users \cup {NoUser}, pair : 0..MaxPairs,
                               status : {"absent", "active", "revoked"}]]
    BY <1>0, <2>1, <2>2
  <2>5. issuedFor' \subseteq (0..MaxPairs) \X (0..MaxLogins)
    BY <2>1, <2>2 DEF TypeOK, Sids
  <2>6. created' \in 0..MaxLogins
    BY <2>1, <2>2 DEF TypeOK, Sids
  <2>7. QED
    BY <1>5, <2>3, <2>4, <2>5, <2>6 DEF LoginCreate, TypeOK
<1>6. ASSUME NEW w \in Workers, Respond(w) PROVE TypeOK'
  <2>1. req[w].new \in 0..MaxPairs
    BY <1>0 DEF Request
  <2>2. QED
    BY <1>0, <1>6, <2>1 DEF Respond, TypeOK
<1>7. ASSUME NEW w \in Workers, RefreshUser(w) PROVE TypeOK'
  <2>1. req' \in [Workers -> Request]
    BY <1>0, <1>7 DEF RefreshUser, Finish, Request
  <2>2. QED
    BY <1>7, <2>1 DEF RefreshUser, TypeOK
<1>8. ASSUME NEW w \in Workers, RefreshSession(w) PROVE TypeOK'
  <2>1. CASE Finish(w)
    BY <1>8, <1>a, <2>1 DEF RefreshSession, TypeOK
  <2>2. ASSUME NEW s \in RowsOf(req[w].pair),
               req' = [req EXCEPT ![w] = [req[w] EXCEPT !.pc = "rotate", !.sid = s]]
        PROVE  TypeOK'
    <3>1. s \in 0..MaxLogins
      BY DEF RowsOf, TypeOK
    <3>2. [req[w] EXCEPT !.pc = "rotate", !.sid = s] \in Request
      BY <1>0, <3>1 DEF Request
    <3>5. req' \in [Workers -> Request]
      BY <1>0, <2>2, <3>2
    <3>3. QED
      BY <1>8, <3>5 DEF RefreshSession, TypeOK
  <2>3. QED
    BY <1>8, <2>1, <2>2 DEF RefreshSession
<1>9. ASSUME NEW w \in Workers, RefreshRotate(w) PROVE TypeOK'
  <2>1. PICK p \in Pairs :
            /\ Sign(req[w].user, p)
            /\ req' = [req EXCEPT ![w] = [req[w] EXCEPT !.pc = "store", !.new = p]]
    BY <1>9 DEF RefreshRotate
  <2>2. /\ req[w].user \in Users \cup {NoUser}
        /\ req[w].pair \in 0..MaxPairs
    BY <1>0 DEF Request
  <2>3. /\ pair' \in [Pairs -> [owner : Users \cup {NoUser}, age : 0..MaxAge]]
        /\ signed' \in 0..MaxPairs
    BY <2>1, <2>2, SignTyped
  <2>9. p \in 0..MaxPairs
    BY DEF Pairs
  <2>8. [req[w] EXCEPT !.pc = "store", !.new = p] \in Request
    BY <1>0, <2>9 DEF Request
  <2>4. req' \in [Workers -> Request]
    BY <1>0, <2>1, <2>8
  <2>5. /\ blRefresh' = Ban(blRefresh, req[w].pair, RefreshBlacklistTTL)
        /\ burntRefresh' = burntRefresh \cup {req[w].pair}
    BY <1>9 DEF RefreshRotate
  <2>6. blRefresh' \in [Pairs -> 0..RefreshBlacklistTTL]
    BY <2>5, BanTyped DEF TypeOK
  <2>7. QED
    BY <1>9, <2>2, <2>3, <2>4, <2>5, <2>6 DEF RefreshRotate, TypeOK
<1>10. ASSUME NEW w \in Workers, RefreshStore(w) PROVE TypeOK'
  <2>1. /\ req' = [req EXCEPT ![w].pc = "respond"]
        /\ session' = [session EXCEPT ![req[w].sid] = Rotated(@, req[w].new)]
        /\ issuedFor' = issuedFor \cup {<<req[w].new, req[w].sid>>}
    BY <1>10 DEF RefreshStore
  <2>2. req[w].new \in 0..MaxPairs /\ req[w].sid \in 0..MaxLogins
    BY <1>0 DEF Request
  <2>3. req' \in [Workers -> Request]
    BY <1>0, <2>1 DEF Request
  <2>4. session' \in [Sids -> [user : Users \cup {NoUser}, pair : 0..MaxPairs,
                               status : {"absent", "active", "revoked"}]]
    BY <1>0, <2>1, <2>2 DEF Rotated
  <2>5. issuedFor' \subseteq (0..MaxPairs) \X (0..MaxLogins)
    BY <2>1, <2>2 DEF TypeOK
  <2>6. QED
    BY <1>10, <2>3, <2>4, <2>5 DEF RefreshStore, TypeOK
<1>11. ASSUME NEW w \in Workers, LogoutSession(w) PROVE TypeOK'
  <2>1. req' \in [Workers -> Request]
    <3>1. [req[w] EXCEPT !.pc = "done"] \in Request
      BY <1>0 DEF Request
    <3>2. CASE req' = [req EXCEPT ![w] = [req[w] EXCEPT !.pc = "done"]]
      BY <1>0, <3>1, <3>2
    <3>3. ASSUME NEW s \in RowsOf(req[w].pair),
                 req' = [req EXCEPT ![w] = Enter(req[w], {Snapshot(s)})]
          PROVE  req' \in [Workers -> Request]
      <4>1. s \in Sids
        BY DEF RowsOf, TypeOK, Sids
      <4>2. Enter(req[w], {Snapshot(s)}) \in Request
        BY <1>0, <4>1, SnapshotTyped, EnterTyped
      <4>3. QED
        BY <1>0, <3>3, <4>2
    <3>4. QED
      BY <1>11, <3>2, <3>3 DEF LogoutSession
  <2>2. QED
    BY <1>11, <2>1 DEF LogoutSession, TypeOK
<1>12. ASSUME NEW w \in Workers, OthersCurrent(w) PROVE TypeOK'
  <2>1. req' \in [Workers -> Request]
    <3>1. CASE Finish(w)
      BY <3>1, <1>a
    <3>2. ASSUME NEW s \in RowsOf(req[w].pair) \cap ActiveOf(req[w].user),
                 req' = [req EXCEPT ![w] = [req[w] EXCEPT !.pc = "list",
                                                          !.sid = s]]
          PROVE  req' \in [Workers -> Request]
      <4>1. s \in 0..MaxLogins
        BY DEF ActiveOf, Sids
      <4>2. [req[w] EXCEPT !.pc = "list", !.sid = s] \in Request
        BY <1>0, <4>1 DEF Request
      <4>3. QED
        BY <1>0, <3>2, <4>2
    <3>3. QED
      BY <1>12, <3>1, <3>2 DEF OthersCurrent
  <2>2. QED
    BY <1>12, <2>1 DEF OthersCurrent, TypeOK
<1>13. ASSUME NEW w \in Workers, OthersList(w) PROVE TypeOK'
  <2>1. {Snapshot(s) : s \in ActiveOf(req[w].user) \ {req[w].sid}}
            \in SUBSET Snapshots
    BY SnapshotTyped DEF ActiveOf
  <2>2. Enter(req[w], {Snapshot(s) : s \in ActiveOf(req[w].user) \ {req[w].sid}})
            \in Request
    BY <1>0, <2>1, EnterTyped
  <2>3. req' \in [Workers -> Request]
    BY <1>0, <1>13, <2>2 DEF OthersList
  <2>4. QED
    BY <1>13, <2>3 DEF OthersList, TypeOK
<1>14. ASSUME NEW w \in Workers, RevokeAllUpdateMany(w) PROVE TypeOK'
  <2>1. req' \in [Workers -> Request]
    <3>1. [req[w] EXCEPT !.pc = "done"] \in Request
      BY <1>0 DEF Request
    <3>2. QED
      BY <1>0, <1>14, <3>1 DEF RevokeAllUpdateMany
  <2>2. session' \in [Sids -> [user : Users \cup {NoUser}, pair : 0..MaxPairs,
                               status : {"absent", "active", "revoked"}]]
    BY <1>0, <1>14 DEF RevokeAllUpdateMany
  <2>3. QED
    BY <1>14, <2>1, <2>2 DEF RevokeAllUpdateMany, TypeOK
<1>15. ASSUME NEW w \in Workers, NEW u \in Users, LoginLookup(w, u) PROVE TypeOK'
  <2>1. PICK p \in Pairs :
            /\ Sign(u, p)
            /\ req' = [req EXCEPT ![w] =
                 Enter([Idle EXCEPT !.op = "login", !.user = u, !.new = p],
                       Evicted(u))]
    BY <1>15 DEF LoginLookup
  <2>2. /\ pair' \in [Pairs -> [owner : Users \cup {NoUser}, age : 0..MaxAge]]
        /\ signed' \in 0..MaxPairs
    BY <2>1, SignTyped
  <2>7. p \in 0..MaxPairs
    BY DEF Pairs
  <2>3. [Idle EXCEPT !.op = "login", !.user = u, !.new = p] \in Request
    BY <1>0, <2>7 DEF Request
  <2>4. Evicted(u) \in SUBSET Snapshots
    BY SnapshotTyped DEF Evicted, LiveOf, ActiveOf
  <2>5. req' \in [Workers -> Request]
    BY <1>0, <2>1, <2>3, <2>4, EnterTyped
  <2>6. QED
    BY <1>15, <2>2, <2>5 DEF LoginLookup, TypeOK
<1>16. ASSUME NEW w \in Workers, NEW u \in Users, RevokeAllList(w, u)
       PROVE  TypeOK'
  <2>1. [Idle EXCEPT !.op = "all", !.user = u] \in Request
    BY <1>0 DEF Request
  <2>2. {Snapshot(s) : s \in ActiveOf(u)} \in SUBSET Snapshots
    BY SnapshotTyped DEF ActiveOf
  <2>3. req' \in [Workers -> Request]
    BY <1>0, <1>16, <2>1, <2>2, EnterTyped DEF RevokeAllList
  <2>4. QED
    BY <1>16, <2>3 DEF RevokeAllList, TypeOK
<1>17. ASSUME NEW w \in Workers, NEW p \in Pairs,
              RefreshCheck(w, p) \/ Logout(w, p) \/ LogoutOthers(w, p)
       PROVE  TypeOK'
  <2>1. pair[p].owner \in Users \cup {NoUser} /\ p \in 0..MaxPairs
    BY DEF TypeOK, Pairs
  <2>2. CASE RefreshCheck(w, p)
    <3>1. Dead(p) \in BOOLEAN
      BY DEF Dead
    <3>2. [Idle EXCEPT !.op = "refresh", !.pc = "user",
                       !.user = pair[p].owner, !.pair = p, !.late = Dead(p)]
              \in Request
      BY <1>0, <2>1, <3>1 DEF Request
    <3>3. req' \in [Workers -> Request]
      BY <1>0, <2>2, <3>2 DEF RefreshCheck
    <3>4. QED
      BY <2>2, <3>3 DEF RefreshCheck, TypeOK
  <2>3. ASSUME NEW kind \in {"logout", "others"}, Authenticated(w, p, kind)
        PROVE  TypeOK'
    <3>1. [Idle EXCEPT !.op = kind, !.pc = "session",
                       !.user = pair[p].owner, !.pair = p] \in Request
      BY <1>0, <2>1 DEF Request
    <3>2. req' \in [Workers -> Request]
      BY <1>0, <2>3, <3>1 DEF Authenticated
    <3>3. QED
      BY <2>3, <3>2 DEF Authenticated, TypeOK
  <2>4. QED
    BY <1>17, <2>2, <2>3 DEF Logout, LogoutOthers
<1>18. ASSUME NEW w \in Workers, NEW s \in Sids, RevokeOneLookup(w, s)
       PROVE  TypeOK'
  <2>1. [Idle EXCEPT !.op = "one", !.user = session[s].user] \in Request
    BY <1>0 DEF Request
  <2>2. req' \in [Workers -> Request]
    BY <1>0, <1>18, <2>1, SnapshotTyped, EnterTyped DEF RevokeOneLookup
  <2>3. QED
    BY <1>18, <2>2 DEF RevokeOneLookup, TypeOK
<1>19. ASSUME NEW w \in Workers, Fail(w) PROVE TypeOK'
  BY <1>19, <1>a DEF Fail, TypeOK
<1>20. ASSUME NEW u \in Users, NEW active \in BOOLEAN, SetUserStatus(u, active)
       PROVE  TypeOK'
  BY <1>20 DEF SetUserStatus, TypeOK
<1>21. CASE LoseCache
  <2>1. /\ blAccess' \in [Pairs -> 0..AccessBlacklistTTL]
        /\ blRefresh' \in [Pairs -> 0..RefreshBlacklistTTL]
    BY <1>21 DEF LoseCache
  <2>2. QED
    BY <1>21, <2>1 DEF LoseCache, TypeOK
<1>22. CASE Tick
  <2>1. pair' \in [Pairs -> [owner : Users \cup {NoUser}, age : 0..MaxAge]]
    BY <1>22, MaxAgeNat DEF Tick, TypeOK
  <2>2. blAccess' \in [Pairs -> 0..AccessBlacklistTTL]
    BY <1>22 DEF Tick, TypeOK, Countdown
  <2>3. blRefresh' \in [Pairs -> 0..RefreshBlacklistTTL]
    BY <1>22 DEF Tick, TypeOK, Countdown
  <2>4. QED
    BY <1>22, <2>1, <2>2, <2>3 DEF Tick, TypeOK
<1>23. CASE UNCHANGED vars
  BY <1>23 DEF vars, TypeOK
<1>24. QED
  BY <1>1, <1>2, <1>3, <1>4, <1>5, <1>6, <1>7, <1>8, <1>9, <1>10, <1>11,
     <1>12, <1>13, <1>14, <1>15, <1>16, <1>17, <1>18, <1>19, <1>20, <1>21,
     <1>22, <1>23
     DEF Next, Arrive, Proceed

(* TypeOK holds in every reachable state: rows, tokens, blacklist TTLs and *)
(* requests in flight stay well formed under every interleaving of the     *)
(* handlers of AuthService, with failures and cache losses or without.     *)
THEOREM TypeCorrect == Spec => []TypeOK
<1>1. Init => TypeOK
  BY InitTypeOK
<1>2. TypeOK /\ [Next]_vars => TypeOK'
  BY NextTypeOK
<1>3. QED
  BY <1>1, <1>2, PTL DEF Spec

-----------------------------------------------------------------------------
(* Which pairs a request can name. *)

(* With n pairs signed: the pairs of a request that will be stored, handed *)
(* out or blacklisted are signed ones.                                     *)
Named(r, n) ==
    /\ r.op = "refresh" => r.pair \in 1..n
    /\ r.pc \in {"user", "rotate", "store"} => r.op = "refresh"
    /\ r.pc = "create" => r.op = "login"
    /\ r.pc = "list" => r.op = "others"
    /\ r.op = "login" \/ r.pc \in {"store", "respond"} => r.new \in 1..n
    /\ \A v \in r.todo \cup r.marked : v.pair \in 1..n

(* Rows, clients and blacklist know signed pairs only. *)
PairsSigned ==
    /\ held \subseteq 1..signed
    /\ burntAccess \subseteq 1..signed /\ burntRefresh \subseteq 1..signed
    /\ \A s \in Sids : Active(s) => session[s].pair \in 1..signed
    /\ \A w \in Workers : Named(req[w], signed)

PInv == TypeOK /\ PairsSigned

(* Signing adds the next pair, or repeats one. *)
LEMMA SignShape ==
    ASSUME TypeOK, NEW u, NEW p \in Pairs, Sign(u, p)
    PROVE  /\ signed' \in Nat /\ signed <= signed' /\ p \in 1..signed'
           /\ \A q \in 1..signed : pair'[q] = pair[q]
<1>1. signed \in 0..MaxPairs /\ p \in 1..MaxPairs /\ MaxPairs \in Nat
  BY SessionAssumption DEF TypeOK, Pairs
<1>2. CASE p = signed + 1
  BY <1>1, <1>2 DEF Sign, TypeOK, Pairs
<1>3. ASSUME p \in Pairs, p <= signed, pair[p].owner = u, pair[p].age = 0
      PROVE  signed' = signed /\ pair' = pair
  <2>1. signed' = signed
    BY <1>1, <1>3 DEF Sign
  <2>2. pair[p] = [owner |-> u, age |-> 0]
    BY <1>3 DEF TypeOK
  <2>3. QED
    BY <1>3, <2>1, <2>2 DEF Sign, TypeOK
<1>4. QED
  BY <1>1, <1>2, <1>3 DEF Sign, Signable

(* What was named among n pairs is named among more. *)
LEMMA NamedGrows ==
    ASSUME NEW r, NEW m \in Nat, NEW n \in Nat, m <= n, Named(r, m)
    PROVE  Named(r, n)
BY DEF Named

LEMMA IdleNamed == ASSUME NEW n \in Nat PROVE Named(Idle, n)
BY DEF Idle, Named

LEMMA EnterNamed ==
    ASSUME NEW n \in Nat, NEW r \in Request, NEW todo \in SUBSET Snapshots,
           \A v \in todo \cup r.marked : v.pair \in 1..n,
           r.op = "refresh" => r.pair \in 1..n,
           r.op = "login" => r.new \in 1..n
    PROVE  Named(Enter(r, todo), n)
BY DEF Named, Enter, Request, Afterwards

LEMMA AfterBlacklistingNamed ==
    ASSUME NEW n \in Nat, NEW r \in Request, NEW v \in r.todo, Named(r, n)
    PROVE  Named(AfterBlacklisting(r, v), n)
<1>1. CASE r.op \in PerSession
  <2>1. AfterBlacklisting(r, v) = [r EXCEPT !.pc = "deactivate"]
    BY <1>1 DEF AfterBlacklisting, PerSession
  <2>2. QED
    BY <2>1 DEF Request, Named
<1>2. CASE r.op \notin PerSession /\ r.todo \ {v} # {}
  <2>1. AfterBlacklisting(r, v) = [r EXCEPT !.todo = r.todo \ {v},
                                            !.marked = r.marked \cup {v},
                                            !.pc = "blacklistAccess"]
    BY <1>2 DEF AfterBlacklisting
  <2>2. QED
    BY <1>2, <2>1 DEF Request, Named
<1>3. CASE r.op \notin PerSession /\ r.todo \ {v} = {} /\ r.op = "all"
  BY <1>3 DEF AfterBlacklisting, Request, Named, Afterwards
<1>4. CASE r.op \notin PerSession /\ r.todo \ {v} = {} /\ r.op # "all"
  BY <1>4 DEF AfterBlacklisting, Request, Named
<1>5. QED
  BY <1>1, <1>2, <1>3, <1>4

(* An active row is listed with a signed pair. *)
LEMMA ListNamed ==
    ASSUME PInv, NEW S \in SUBSET Sids, \A s \in S : Active(s)
    PROVE  \A v \in {Snapshot(s) : s \in S} : v.pair \in 1..signed
BY DEF PInv, PairsSigned, Snapshot

(* Another request's step leaves a request alone. *)
LEMMA OnlyOwn ==
    ASSUME TypeOK, NEW w \in Workers, Arrive(w) \/ Proceed(w) \/ Fail(w)
    PROVE  \A v \in Workers \ {w} : req'[v] = req[v]
BY DEF TypeOK, Arrive, Proceed, Fail, Finish, LoginLookup, RevokeAllList, RefreshCheck,
       Logout, LogoutOthers, Authenticated, RevokeOneLookup, BlacklistAccess,
       BlacklistRefresh, Deactivate, Done, LoginCreate, Respond, RefreshUser,
       RefreshSession, RefreshRotate, RefreshStore, LogoutSession, OthersCurrent,
       OthersList, RevokeAllUpdateMany

(* The steps that sign. *)
LEMMA OnlySigned ==
    ASSUME PInv, [Next]_vars
    PROVE  /\ signed \in Nat /\ signed' \in Nat /\ signed <= signed'
           /\ \A p \in 1..signed : pair'[p] = pair[p] \/ Tick
           /\ signed' = signed \/ \E w \in Workers :
                RefreshRotate(w) \/ \E u \in Users : LoginLookup(w, u)
<1>1. signed \in Nat
  BY SessionAssumption DEF PInv, TypeOK
<1>2. ASSUME NEW w \in Workers, NEW u \in Users, LoginLookup(w, u)
      PROVE  signed' \in Nat /\ signed <= signed' /\ \A p \in 1..signed : pair'[p] = pair[p]
  BY <1>2, SignShape DEF PInv, LoginLookup
<1>3. ASSUME NEW w \in Workers, RefreshRotate(w)
      PROVE  signed' \in Nat /\ signed <= signed' /\ \A p \in 1..signed : pair'[p] = pair[p]
  BY <1>3, SignShape DEF PInv, RefreshRotate
<1>4. ASSUME NEW w \in Workers, Arrive(w), ~\E u \in Users : LoginLookup(w, u)
      PROVE  signed' = signed /\ pair' = pair
  BY <1>4 DEF tokenVars, Arrive, RevokeAllList, RefreshCheck, Logout, LogoutOthers,
       Authenticated, RevokeOneLookup
<1>5. ASSUME NEW w \in Workers, Proceed(w), ~RefreshRotate(w)
      PROVE  signed' = signed /\ pair' = pair
  BY <1>5 DEF tokenVars, Proceed, BlacklistAccess, BlacklistRefresh, Deactivate, Done,
       LoginCreate, Respond, RefreshUser, RefreshSession, RefreshStore, LogoutSession,
       OthersCurrent, OthersList, RevokeAllUpdateMany
<1>6. ASSUME ~\E w \in Workers : Arrive(w) \/ Proceed(w)
      PROVE  signed' = signed /\ (Tick \/ pair' = pair)
  BY <1>6 DEF Next, vars, tokenVars, Fail, SetUserStatus, LoseCache, Tick
<1>7. QED
  BY <1>1, <1>2, <1>3, <1>4, <1>5, <1>6

(* Rows: an active row was active with the same pair, or has got the new   *)
(* pair of a request that stores one.                                      *)
LEMMA RowShape ==
    ASSUME TypeOK, [Next]_vars, NEW s \in Sids, session'[s].status = "active"
    PROVE  \/ Active(s) /\ session'[s].pair = session[s].pair
           \/ \E w \in Workers : /\ LoginCreate(w) \/ RefreshStore(w)
                                 /\ session'[s].pair = req[w].new
<1>1. session \in [Sids -> [user : Users \cup {NoUser}, pair : 0..MaxPairs,
                            status : {"absent", "active", "revoked"}]]
  BY DEF TypeOK
<1>2. ASSUME NEW w \in Workers, LoginCreate(w)
      PROVE  \/ Active(s) /\ session'[s].pair = session[s].pair
             \/ session'[s].pair = req[w].new
  BY <1>1, <1>2 DEF LoginCreate, Active
<1>3. ASSUME NEW w \in Workers, RefreshStore(w)
      PROVE  \/ Active(s) /\ session'[s].pair = session[s].pair
             \/ session'[s].pair = req[w].new
  <2>1. CASE s = req[w].sid
    BY <1>1, <1>3, <2>1 DEF RefreshStore, Rotated
  <2>2. CASE s # req[w].sid
    BY <1>1, <1>3, <2>2 DEF RefreshStore, Active
  <2>3. QED
    BY <2>1, <2>2
<1>4. ASSUME NEW w \in Workers, Deactivate(w)
      PROVE  Active(s) /\ session'[s].pair = session[s].pair
  <2>1. PICK v \in req[w].todo :
            session' = [session EXCEPT ![v.sid].status = "revoked"]
    BY <1>4 DEF Deactivate
  <2>2. s # v.sid
    BY <1>1, <2>1
  <2>3. QED
    BY <1>1, <2>1, <2>2 DEF Active
<1>5. ASSUME NEW w \in Workers, RevokeAllUpdateMany(w)
      PROVE  Active(s) /\ session'[s].pair = session[s].pair
  BY <1>1, <1>5 DEF RevokeAllUpdateMany, Active
<1>6. ASSUME ~\E w \in Workers : LoginCreate(w) \/ RefreshStore(w) \/ Deactivate(w)
                                   \/ RevokeAllUpdateMany(w)
      PROVE  session' = session
  BY <1>6 DEF Next, vars, rowVars, tokenVars, cacheVars, history, Arrive, Proceed, Fail,
       Finish, LoginLookup, RevokeAllList, RefreshCheck, Logout, LogoutOthers,
       Authenticated, RevokeOneLookup, BlacklistAccess, BlacklistRefresh, Done, Respond,
       RefreshUser, RefreshSession, RefreshRotate, LogoutSession, OthersCurrent,
       OthersList, SetUserStatus, LoseCache, Tick
<1>7. QED
  BY <1>2, <1>3, <1>4, <1>5, <1>6 DEF Active

(* The acting request names signed pairs after its step. *)
LEMMA OwnNamed ==
    ASSUME PInv, [Next]_vars, NEW w \in Workers, Arrive(w) \/ Proceed(w) \/ Fail(w)
    PROVE  Named(req'[w], signed')
<1>1. /\ req \in [Workers -> Request] /\ req[w] \in Request /\ Idle \in Request
      /\ Named(req[w], signed) /\ held \subseteq 1..signed
      /\ \A s \in Sids : Active(s) => session[s].pair \in 1..signed
  BY IdleTyped DEF PInv, PairsSigned, TypeOK
<1>2. signed \in Nat /\ signed' \in Nat /\ signed <= signed'
  BY OnlySigned
<1>3. Named(req[w], signed') /\ Named(Idle, signed')
  BY <1>1, <1>2, NamedGrows, IdleNamed
<1>4. CASE Fail(w) \/ Done(w) \/ Respond(w)
  BY <1>1, <1>3, <1>4 DEF Fail, Finish, Done, Respond
<1>5. CASE BlacklistAccess(w)
  BY <1>1, <1>3, <1>5 DEF BlacklistAccess, Named, Request
<1>6. CASE BlacklistRefresh(w)
  BY <1>1, <1>2, <1>3, <1>6, AfterBlacklistingNamed DEF BlacklistRefresh
<1>7. CASE Deactivate(w)
  <2>1. PICK v \in req[w].todo :
            req' = [req EXCEPT ![w] =
                 IF req[w].op = "others" /\ req[w].todo \ {v} # {}
                   THEN [req[w] EXCEPT !.todo = req[w].todo \ {v}]
                   ELSE Enter(req[w], req[w].todo \ {v})]
    BY <1>7 DEF Deactivate
  <2>2. req[w].todo \ {v} \in SUBSET Snapshots
    BY <1>1 DEF Request
  <2>3. Named([req[w] EXCEPT !.todo = req[w].todo \ {v}], signed')
    BY <1>1, <1>3 DEF Named, Request
  <2>4. Named(Enter(req[w], req[w].todo \ {v}), signed')
    BY <1>1, <1>2, <1>3, <2>2, EnterNamed DEF Named
  <2>5. QED
    BY <1>1, <2>1, <2>3, <2>4
<1>8. CASE LoginCreate(w) \/ RefreshStore(w)
  BY <1>1, <1>3, <1>8 DEF LoginCreate, RefreshStore, Named, Request
<1>9. CASE RefreshUser(w)
  BY <1>1, <1>3, <1>9 DEF RefreshUser, Finish, Named, Request
<1>10. CASE RefreshSession(w)
  <2>1. ASSUME NEW s, req' = [req EXCEPT ![w] = [req[w] EXCEPT !.pc = "rotate", !.sid = s]]
        PROVE  Named(req'[w], signed')
    BY <1>1, <1>3, <1>10, <2>1 DEF RefreshSession, Named, Request
  <2>2. QED
    BY <1>1, <1>3, <1>10, <2>1 DEF RefreshSession, Finish
<1>11. CASE RefreshRotate(w)
  <2>1. PICK p \in Pairs :
            /\ Sign(req[w].user, p)
            /\ req' = [req EXCEPT ![w] = [req[w] EXCEPT !.pc = "store", !.new = p]]
    BY <1>11 DEF RefreshRotate
  <2>2. p \in 1..signed'
    BY <2>1, SignShape DEF PInv
  <2>3. req[w].op = "refresh"
    BY <1>1, <1>11 DEF RefreshRotate, Named
  <2>4. QED
    BY <1>1, <1>3, <2>1, <2>2, <2>3 DEF Named, Request
<1>12. CASE LogoutSession(w)
  <2>1. ASSUME NEW s \in RowsOf(req[w].pair), Active(s),
               req' = [req EXCEPT ![w] = Enter(req[w], {Snapshot(s)})]
        PROVE  Named(req'[w], signed')
    <3>1. s \in Sids
      BY SessionAssumption DEF RowsOf, Sids, PInv, TypeOK
    <3>2. Snapshot(s).pair \in 1..signed'
      BY <1>1, <1>2, <2>1, <3>1 DEF Snapshot
    <3>3. {Snapshot(s)} \in SUBSET Snapshots
      BY <3>1, SnapshotTyped DEF PInv
    <3>4. Named(Enter(req[w], {Snapshot(s)}), signed')
      BY <1>1, <1>2, <1>3, <3>2, <3>3, EnterNamed DEF Named
    <3>5. QED
      BY <1>1, <2>1, <3>4
  <2>2. CASE req' = [req EXCEPT ![w] = [req[w] EXCEPT !.pc = "done"]]
    BY <1>1, <1>3, <2>2 DEF Named, Request
  <2>3. QED
    BY <1>12, <2>1, <2>2 DEF LogoutSession
<1>13. CASE OthersCurrent(w)
  <2>1. ASSUME NEW s, req' = [req EXCEPT ![w] = [req[w] EXCEPT !.pc = "list", !.sid = s]]
        PROVE  Named(req'[w], signed')
    BY <1>1, <1>3, <1>13, <2>1 DEF OthersCurrent, Named, Request
  <2>2. QED
    BY <1>1, <1>3, <1>13, <2>1 DEF OthersCurrent, Finish
<1>14. ASSUME NEW S \in SUBSET Sids, \A s \in S : Active(s)
       PROVE  /\ {Snapshot(s) : s \in S} \in SUBSET Snapshots
              /\ \A v \in {Snapshot(s) : s \in S} : v.pair \in 1..signed'
  <2>1. \A v \in {Snapshot(s) : s \in S} : v.pair \in 1..signed
    BY <1>14, ListNamed
  <2>2. QED
    BY <1>2, <2>1, SnapshotTyped DEF PInv
<1>15. CASE OthersList(w)
  <2>1. ActiveOf(req[w].user) \ {req[w].sid} \in SUBSET Sids
    BY DEF ActiveOf
  <2>2. \A s \in ActiveOf(req[w].user) \ {req[w].sid} : Active(s)
    BY DEF ActiveOf
  <2> DEFINE todo == {Snapshot(s) : s \in ActiveOf(req[w].user) \ {req[w].sid}}
  <2>3. todo \in SUBSET Snapshots /\ \A v \in todo : v.pair \in 1..signed'
    BY <1>14, <2>1, <2>2
  <2>4. req' = [req EXCEPT ![w] = Enter(req[w], todo)]
    BY <1>15 DEF OthersList
  <2> HIDE DEF todo
  <2>5. Named(Enter(req[w], todo), signed')
    BY <1>1, <1>2, <1>3, <2>3, EnterNamed DEF Named
  <2>6. QED
    BY <1>1, <2>4, <2>5
<1>16. CASE RevokeAllUpdateMany(w)
  BY <1>1, <1>3, <1>16 DEF RevokeAllUpdateMany, Named, Request
<1>17. ASSUME NEW u \in Users, LoginLookup(w, u) PROVE Named(req'[w], signed')
  <2> DEFINE r(p) == [Idle EXCEPT !.op = "login", !.user = u, !.new = p]
  <2>1. PICK p \in Pairs :
            Sign(u, p) /\ req' = [req EXCEPT ![w] = Enter(r(p), Evicted(u))]
    BY <1>17 DEF LoginLookup
  <2>2. p \in 1..signed' /\ p \in 0..MaxPairs
    BY <2>1, SignShape DEF PInv, Pairs
  <2>3. r(p) \in Request /\ r(p).marked = {} /\ r(p).new = p /\ r(p).op = "login"
    BY <1>1, <2>2 DEF Request, Idle
  <2> HIDE DEF r
  <2> DEFINE S == {s \in LiveOf(u) : Cardinality({t \in LiveOf(u) : t < s}) < Excess(u)}
  <2>4. Evicted(u) = {Snapshot(s) : s \in S}
    BY DEF Evicted
  <2>5. S \in SUBSET Sids /\ \A s \in S : Active(s)
    BY DEF LiveOf, ActiveOf
  <2> HIDE DEF S
  <2>6. Evicted(u) \in SUBSET Snapshots /\ \A v \in Evicted(u) : v.pair \in 1..signed'
    BY <1>14, <2>4, <2>5
  <2>7. Named(Enter(r(p), Evicted(u)), signed')
    BY <1>2, <2>2, <2>3, <2>6, EnterNamed
  <2>8. QED
    BY <1>1, <2>1, <2>7
<1>18. ASSUME NEW u \in Users, RevokeAllList(w, u) PROVE Named(req'[w], signed')
  <2> DEFINE todo == {Snapshot(s) : s \in ActiveOf(u)}
  <2> DEFINE r == [Idle EXCEPT !.op = "all", !.user = u]
  <2>1. ActiveOf(u) \in SUBSET Sids /\ \A s \in ActiveOf(u) : Active(s)
    BY DEF ActiveOf
  <2>2. todo \in SUBSET Snapshots /\ \A v \in todo : v.pair \in 1..signed'
    BY <1>14, <2>1
  <2>3. req' = [req EXCEPT ![w] = Enter(r, todo)]
    BY <1>18 DEF RevokeAllList
  <2>4. r \in Request /\ r.marked = {} /\ r.op = "all"
    BY <1>1 DEF Request, Idle
  <2> HIDE DEF todo, r
  <2>5. Named(Enter(r, todo), signed')
    BY <1>2, <2>2, <2>4, EnterNamed
  <2>6. QED
    BY <1>1, <2>3, <2>5
<1>19. ASSUME NEW s \in Sids, RevokeOneLookup(w, s) PROVE Named(req'[w], signed')
  <2> DEFINE r == [Idle EXCEPT !.op = "one", !.user = session[s].user]
  <2>1. req' = [req EXCEPT ![w] = Enter(r, {Snapshot(s)})] /\ Active(s)
    BY <1>19 DEF RevokeOneLookup
  <2>2. Snapshot(s) \in Snapshots /\ Snapshot(s).pair \in 1..signed'
    BY <1>1, <1>2, <2>1, SnapshotTyped DEF Snapshot, PInv
  <2>3. r \in Request /\ r.marked = {} /\ r.op = "one"
    BY <1>1 DEF Request, Idle, PInv, TypeOK
  <2> HIDE DEF r
  <2>4. Named(Enter(r, {Snapshot(s)}), signed')
    BY <1>2, <2>2, <2>3, EnterNamed
  <2>5. QED
    BY <1>1, <2>1, <2>4
<1>20. ASSUME NEW p \in Pairs, RefreshCheck(w, p) PROVE Named(req'[w], signed')
  <2>1. p \in 1..signed'
    BY <1>1, <1>2, <1>20 DEF RefreshCheck
  <2>2. QED
    BY <1>1, <1>20, <2>1 DEF RefreshCheck, Idle, Named
<1>21. ASSUME NEW p \in Pairs, NEW kind \in {"logout", "others"}, Authenticated(w, p, kind)
       PROVE  Named(req'[w], signed')
  BY <1>1, <1>21 DEF Authenticated, Idle, Named
<1>22. QED
  BY <1>4, <1>5, <1>6, <1>7, <1>8, <1>9, <1>10, <1>11, <1>12, <1>13, <1>15, <1>16, <1>17,
     <1>18, <1>19, <1>20, <1>21 DEF Arrive, Proceed, Logout, LogoutOthers

(* Who writes the history of clients and blacklist. *)
LEMMA HistoryShape ==
    ASSUME PInv, [Next]_vars
    PROVE  /\ held' = held \/ \E w \in Workers : Respond(w) /\ held' = held \cup {req[w].new}
           /\ UNCHANGED <<burntAccess, blAccess>> \/ LoseCache \/ Tick
                \/ \E w \in Workers : BlacklistAccess(w)
           /\ UNCHANGED <<burntRefresh, blRefresh>> \/ LoseCache \/ Tick
                \/ \E w \in Workers : BlacklistRefresh(w) \/ RefreshRotate(w)
<1>1. ASSUME NEW w \in Workers, Arrive(w)
      PROVE  UNCHANGED <<held, burntAccess, blAccess, burntRefresh, blRefresh>>
  BY <1>1 DEF cacheVars, history, Arrive, LoginLookup, RevokeAllList, RefreshCheck, Logout,
       LogoutOthers, Authenticated, RevokeOneLookup
<1>2. ASSUME NEW w \in Workers, Proceed(w)
      PROVE  /\ held' = held \/ (Respond(w) /\ held' = held \cup {req[w].new})
             /\ UNCHANGED <<burntAccess, blAccess>> \/ BlacklistAccess(w)
             /\ UNCHANGED <<burntRefresh, blRefresh>> \/ BlacklistRefresh(w) \/ RefreshRotate(w)
  BY <1>2 DEF cacheVars, history, Proceed, BlacklistAccess, BlacklistRefresh, Deactivate,
       Done, LoginCreate, Respond, RefreshUser, RefreshSession, RefreshRotate, RefreshStore,
       LogoutSession, OthersCurrent, OthersList, RevokeAllUpdateMany
<1>3. ASSUME ~\E w \in Workers : Arrive(w) \/ Proceed(w)
      PROVE  /\ held' = held
             /\ UNCHANGED <<burntAccess, blAccess, burntRefresh, blRefresh>>
                  \/ LoseCache \/ Tick
  BY <1>3 DEF Next, vars, cacheVars, history, Fail, SetUserStatus, LoseCache, Tick
<1>4. QED
  BY <1>1, <1>2, <1>3

(* Losing the cache and time leave the history alone. *)
LEMMA HistoryKept ==
    LoseCache \/ Tick => UNCHANGED <<rowVars, signed, req, history>>
BY DEF LoseCache, Tick, rowVars, tokenVars, history

LEMMA NextPairsSigned == PInv /\ [Next]_vars => PairsSigned'
<1> SUFFICES ASSUME PInv, [Next]_vars PROVE PairsSigned'
  OBVIOUS
<1>1. /\ signed \in Nat /\ signed' \in Nat /\ signed <= signed'
      /\ \A n \in 1..signed : n \in 1..signed'
  BY OnlySigned
<1>2. \A w \in Workers : Named(req[w], signed) /\ req[w] \in Request
  BY DEF PInv, PairsSigned, TypeOK
<1>3. held' \subseteq 1..signed'
  <2>1. ASSUME NEW w \in Workers, Respond(w) PROVE req[w].new \in 1..signed
    BY <1>2, <2>1 DEF Respond, Named
  <2>2. held \subseteq 1..signed
    BY DEF PInv, PairsSigned
  <2>3. held' = held \/ \E w \in Workers : Respond(w) /\ held' = held \cup {req[w].new}
    BY HistoryShape
  <2>4. ASSUME NEW w \in Workers, Respond(w), held' = held \cup {req[w].new}
        PROVE  held' \subseteq 1..signed'
    <3>1. req[w].new \in 1..signed
      BY <2>1, <2>4
    <3>2. held' \subseteq 1..signed
      BY <2>2, <2>4, <3>1
    <3>3. QED
      BY <1>1, <3>2
  <2>5. held \subseteq 1..signed'
    BY <1>1, <2>2
  <2>6. QED
    BY <2>3, <2>4, <2>5
<1>4. burntAccess' \subseteq 1..signed'
  <2>1. ASSUME NEW w \in Workers, BlacklistAccess(w)
        PROVE  \E p \in 1..signed : burntAccess' = burntAccess \cup {p}
    BY <1>2, <2>1 DEF BlacklistAccess, Named
  <2>2. QED
    BY <1>1, <2>1, HistoryShape, HistoryKept DEF PInv, PairsSigned, history
<1>5. burntRefresh' \subseteq 1..signed'
  <2>1. ASSUME NEW w \in Workers, BlacklistRefresh(w)
        PROVE  \E p \in 1..signed : burntRefresh' = burntRefresh \cup {p}
    BY <1>2, <2>1 DEF BlacklistRefresh, Named
  <2>2. ASSUME NEW w \in Workers, RefreshRotate(w)
        PROVE  \E p \in 1..signed : burntRefresh' = burntRefresh \cup {p}
    BY <1>2, <2>2 DEF RefreshRotate, Named
  <2>3. QED
    BY <1>1, <2>1, <2>2, HistoryShape, HistoryKept DEF PInv, PairsSigned, history
<1>6. ASSUME NEW s \in Sids, session'[s].status = "active"
      PROVE  session'[s].pair \in 1..signed'
  <2>1. ASSUME NEW w \in Workers, LoginCreate(w) \/ RefreshStore(w)
        PROVE  req[w].new \in 1..signed
    BY <1>2, <2>1 DEF LoginCreate, RefreshStore, Named
  <2>2. QED
    BY <1>1, <1>6, <2>1, RowShape DEF PInv, PairsSigned
<1>7. ASSUME NEW w \in Workers PROVE Named(req'[w], signed')
  <2>1. Named(req[w], signed')
    BY <1>1, <1>2, NamedGrows
  <2>2. ASSUME NEW v \in Workers, Arrive(v) \/ Proceed(v) \/ Fail(v)
        PROVE  Named(req'[w], signed')
    <3>1. CASE v = w
      BY <2>2, <3>1, OwnNamed
    <3>2. CASE v # w
      BY <2>1, <2>2, <3>2, OnlyOwn DEF PInv
    <3>3. QED
      BY <3>1, <3>2
  <2>3. ASSUME ~\E v \in Workers : Arrive(v) \/ Proceed(v) \/ Fail(v)
        PROVE  req' = req
    BY <2>3 DEF Next, vars, SetUserStatus, LoseCache, Tick
  <2>4. QED
    BY <2>1, <2>2, <2>3
<1>8. QED
  BY <1>3, <1>4, <1>5, <1>6, <1>7 DEF PairsSigned, Active

-----------------------------------------------------------------------------
(* The blacklist outlives the tokens.                                      *)

(* The hard-coded 15 minutes and 7 days are no shorter than the lifetimes  *)
(* of jwt.config, and the cache keeps what it is given.                    *)
BlacklistLongEnough ==
    ~CacheLoss /\ AccessBlacklistTTL >= AccessTTL /\ RefreshBlacklistTTL >= RefreshTTL

(* What has passed of a banned token and what is left of its entry make at *)
(* least the token's lifetime.                                             *)
AccessCovered == \A p \in burntAccess : pair[p].age + blAccess[p] >= AccessTTL
RefreshCovered == \A p \in burntRefresh : pair[p].age + blRefresh[p] >= RefreshTTL

BInv == PInv /\ AccessCovered /\ RefreshCovered

LEMMA LifetimesNat ==
    /\ AccessTTL \in Nat /\ RefreshTTL \in Nat /\ MaxAge \in Nat
    /\ AccessTTL <= MaxAge /\ RefreshTTL <= MaxAge
BY SessionAssumption DEF MaxAge, Longer

(* A signed pair's age and entries are numbers, and a tick moves both.     *)
LEMMA TickMoves ==
    ASSUME PInv, Tick, NEW p \in 1..signed
    PROVE  /\ pair'[p].age \in Nat
           /\ pair'[p].age = (IF pair[p].age < MaxAge THEN pair[p].age + 1 ELSE pair[p].age)
           /\ blAccess'[p] = Countdown(blAccess[p])
           /\ blRefresh'[p] = Countdown(blRefresh[p])
<1>1. p \in Pairs /\ p <= signed
  BY SessionAssumption DEF PInv, TypeOK, Pairs
<1>2. pair[p] \in [owner : Users \cup {NoUser}, age : 0..MaxAge]
  BY <1>1 DEF PInv, TypeOK
<1>3. pair'[p] = IF pair[p].age < MaxAge THEN [pair[p] EXCEPT !.age = @ + 1] ELSE pair[p]
  BY <1>1 DEF Tick
<1>4. QED
  BY <1>1, <1>2, <1>3, MaxAgeNat DEF Tick

LEMMA PairNumbers ==
    ASSUME PInv, NEW p \in 1..signed
    PROVE  /\ p \in Pairs /\ pair[p].age \in 0..MaxAge
           /\ blAccess[p] \in Nat /\ blRefresh[p] \in Nat
BY SessionAssumption DEF PInv, TypeOK, Pairs

LEMMA NextAccessCovered ==
    BlacklistLongEnough /\ PInv /\ AccessCovered /\ [Next]_vars => AccessCovered'
<1> SUFFICES ASSUME BlacklistLongEnough, PInv, AccessCovered, [Next]_vars,
                    NEW p \in burntAccess'
             PROVE  pair'[p].age + blAccess'[p] >= AccessTTL
  BY DEF AccessCovered
<1>1. burntAccess \subseteq 1..signed
  BY DEF PInv, PairsSigned
<1>2. CASE Tick
  <2>1. p \in burntAccess /\ p \in 1..signed
    BY <1>1, <1>2, HistoryKept DEF history
  <2>2. QED
    BY <1>2, <2>1, TickMoves, PairNumbers, LifetimesNat DEF AccessCovered, Countdown
<1>3. CASE ~Tick
  <2>1. \A q \in 1..signed : pair'[q] = pair[q]
    BY <1>3, OnlySigned
  <2>2. ASSUME NEW w \in Workers, BlacklistAccess(w)
        PROVE  pair'[p].age + blAccess'[p] >= AccessTTL
    <3>1. PICK v \in req[w].todo :
              /\ blAccess' = Ban(blAccess, v.pair, AccessBlacklistTTL)
              /\ burntAccess' = burntAccess \cup {v.pair}
      BY <2>2 DEF BlacklistAccess
    <3>2. v.pair \in 1..signed
      BY DEF PInv, PairsSigned, Named
    <3>a. p \in 1..signed
      BY <1>1, <3>1, <3>2
    <3>3. p \in 1..signed /\ p \in Pairs /\ pair[p].age \in Nat /\ pair'[p] = pair[p]
      BY <2>1, <3>a, PairNumbers
    <3>4. blAccess' = [blAccess EXCEPT ![v.pair] = AccessBlacklistTTL]
      BY <3>1 DEF Ban
    <3>5. CASE p = v.pair
      <4>1. blAccess'[p] = AccessBlacklistTTL
        BY <3>3, <3>4, <3>5 DEF PInv, TypeOK
      <4>2. QED
        BY <3>3, <4>1, LifetimesNat, SessionAssumption DEF BlacklistLongEnough
    <3>6. CASE p # v.pair
      <4>1. blAccess'[p] = blAccess[p] /\ p \in burntAccess
        BY <3>1, <3>3, <3>4, <3>6 DEF PInv, TypeOK
      <4>2. QED
        BY <3>3, <4>1 DEF AccessCovered
    <3>7. QED
      BY <3>5, <3>6
  <2>3. CASE UNCHANGED <<burntAccess, blAccess>>
    BY <1>1, <2>1, <2>3 DEF AccessCovered
  <2>4. QED
    BY <1>3, <2>2, <2>3, HistoryShape DEF BlacklistLongEnough, LoseCache
<1>4. QED
  BY <1>2, <1>3

LEMMA NextRefreshCovered ==
    BlacklistLongEnough /\ PInv /\ RefreshCovered /\ [Next]_vars => RefreshCovered'
<1> SUFFICES ASSUME BlacklistLongEnough, PInv, RefreshCovered, [Next]_vars,
                    NEW p \in burntRefresh'
             PROVE  pair'[p].age + blRefresh'[p] >= RefreshTTL
  BY DEF RefreshCovered
<1>1. burntRefresh \subseteq 1..signed
  BY DEF PInv, PairsSigned
<1>2. CASE Tick
  <2>1. p \in burntRefresh /\ p \in 1..signed
    BY <1>1, <1>2, HistoryKept DEF history
  <2>2. QED
    BY <1>2, <2>1, TickMoves, PairNumbers, LifetimesNat DEF RefreshCovered, Countdown
<1>3. CASE ~Tick
  <2>1. \A q \in 1..signed : pair'[q] = pair[q]
    BY <1>3, OnlySigned
  <2>2. ASSUME NEW q \in 1..signed,
               blRefresh' = Ban(blRefresh, q, RefreshBlacklistTTL),
               burntRefresh' = burntRefresh \cup {q}
        PROVE  pair'[p].age + blRefresh'[p] >= RefreshTTL
    <3>a. p \in 1..signed
      BY <1>1, <2>2
    <3>1. p \in 1..signed /\ p \in Pairs /\ pair[p].age \in Nat /\ pair'[p] = pair[p]
      BY <2>1, <3>a, PairNumbers
    <3>2. blRefresh' = [blRefresh EXCEPT ![q] = RefreshBlacklistTTL]
      BY <2>2 DEF Ban
    <3>3. CASE p = q
      <4>1. blRefresh'[p] = RefreshBlacklistTTL
        BY <3>1, <3>2, <3>3 DEF PInv, TypeOK
      <4>2. QED
        BY <3>1, <4>1, LifetimesNat, SessionAssumption DEF BlacklistLongEnough
    <3>4. CASE p # q
      <4>1. blRefresh'[p] = blRefresh[p] /\ p \in burntRefresh
        BY <2>2, <3>1, <3>2, <3>4 DEF PInv, TypeOK
      <4>2. QED
        BY <3>1, <4>1 DEF RefreshCovered
    <3>5. QED
      BY <3>3, <3>4
  <2>3. ASSUME NEW w \in Workers, BlacklistRefresh(w)
        PROVE  pair'[p].age + blRefresh'[p] >= RefreshTTL
    <3>1. PICK v \in req[w].todo :
              /\ blRefresh' = Ban(blRefresh, v.pair, RefreshBlacklistTTL)
              /\ burntRefresh' = burntRefresh \cup {v.pair}
      BY <2>3 DEF BlacklistRefresh
    <3>2. v.pair \in 1..signed
      BY DEF PInv, PairsSigned, Named
    <3>3. QED
      BY <2>2, <3>1, <3>2
  <2>4. ASSUME NEW w \in Workers, RefreshRotate(w)
        PROVE  pair'[p].age + blRefresh'[p] >= RefreshTTL
    <3>1. req[w].pair \in 1..signed
      BY <2>4 DEF RefreshRotate, PInv, PairsSigned, Named
    <3>2. QED
      BY <2>2, <2>4, <3>1 DEF RefreshRotate
  <2>5. CASE UNCHANGED <<burntRefresh, blRefresh>>
    BY <1>1, <2>1, <2>5 DEF RefreshCovered
  <2>6. QED
    BY <1>3, <2>3, <2>4, <2>5, HistoryShape DEF BlacklistLongEnough, LoseCache
<1>4. QED
  BY <1>2, <1>3

(* Whatever requests overlap and fail: a token once blacklisted is never   *)
(* accepted again (addTokenToBlacklist, JwtStrategy.validate), as long as  *)
(* the configured lifetimes stay within the two hard-coded TTLs.           *)
THEOREM BanOutlivesToken == BlacklistLongEnough => (Spec => []BlacklistOutlivesToken)
<1> SUFFICES ASSUME BlacklistLongEnough PROVE Spec => []BlacklistOutlivesToken
  OBVIOUS
<1>1. Init => BInv
  <2>1. Init => PairsSigned
    BY IdleNamed DEF Init, PairsSigned, Active
  <2>2. QED
    BY <2>1, InitTypeOK DEF Init, BInv, PInv, AccessCovered, RefreshCovered
<1>2. BInv /\ [Next]_vars => BInv'
  BY NextTypeOK, NextPairsSigned, NextAccessCovered, NextRefreshCovered DEF BInv, PInv
<1>3. BInv => BlacklistOutlivesToken
  <2> SUFFICES ASSUME BInv PROVE BlacklistOutlivesToken
    OBVIOUS
  <2>1. burntAccess \subseteq 1..signed /\ burntRefresh \subseteq 1..signed
    BY DEF BInv, PInv, PairsSigned
  <2>2. ASSUME NEW p \in burntAccess PROVE ~AcceptsAccess(p)
    BY <2>1, PairNumbers, LifetimesNat DEF BInv, AccessCovered, AcceptsAccess, AccessAlive
  <2>3. ASSUME NEW p \in burntRefresh, RefreshAlive(p) PROVE blRefresh[p] > 0
    BY <2>1, <2>3, PairNumbers, LifetimesNat DEF BInv, RefreshCovered, RefreshAlive
  <2>4. QED
    BY <2>2, <2>3 DEF BlacklistOutlivesToken
<1>4. QED
  BY <1>1, <1>2, <1>3, PTL DEF Spec

-----------------------------------------------------------------------------
(* Dead tokens.                                                            *)

(* The pair a request has signed is in no client's hands and no other      *)
(* request's.                                                              *)
Unshared ==
    /\ \A w \in Workers : req[w].new # 0 => req[w].new \in 1..signed /\ req[w].new \notin held
    /\ \A v, w \in Workers : v # w /\ req[v].new # 0 => req[v].new # req[w].new

(* A refresh that started with a dead token has not got past the session   *)
(* check, and the token is still dead.                                     *)
LateStaysDead ==
    \A w \in Workers : req[w].late =>
        /\ req[w].op = "refresh" /\ req[w].pc \in {"user", "session"}
        /\ req[w].pair \in held /\ Dead(req[w].pair)

DInv == PInv /\ Unshared /\ LateStaysDead

(* What a request does to its new pair: keeps or drops it, signs the next  *)
(* one, or hands it out.                                                   *)
LEMMA NewShape ==
    ASSUME ~SameSecond, PInv, NEW w \in Workers, Arrive(w) \/ Proceed(w) \/ Fail(w)
    PROVE  \/ /\ req'[w].new \in {req[w].new, 0} /\ UNCHANGED <<signed, held>>
           \/ /\ req'[w].new = signed + 1 /\ signed' = signed + 1 /\ held' = held
           \/ /\ req'[w].new = 0 /\ signed' = signed /\ held' = held \cup {req[w].new}
<1>1. req \in [Workers -> Request] /\ req[w] \in Request /\ Idle.new = 0
  BY DEF PInv, TypeOK, Idle
<1>2. \A r, todo : r \in Request => Enter(r, todo).new = r.new
  BY DEF Enter, Request
<1>3. ASSUME NEW p \in Pairs, NEW u, Sign(u, p) PROVE p = signed + 1 /\ signed' = signed + 1
  <2>1. signed \in Nat
    BY SessionAssumption DEF PInv, TypeOK
  <2>2. QED
    BY <1>3, <2>1 DEF Sign, Signable
<1>4. CASE Fail(w) \/ Done(w) \/ BlacklistAccess(w) \/ LoginCreate(w) \/ RefreshUser(w)
             \/ RefreshStore(w) \/ RevokeAllUpdateMany(w)
  BY <1>1, <1>4 DEF Fail, Finish, Done, BlacklistAccess, LoginCreate, RefreshUser,
     RefreshStore, RevokeAllUpdateMany, tokenVars, history, Request
<1>5. CASE Respond(w)
  BY <1>1, <1>5 DEF Respond, tokenVars
<1>6. CASE BlacklistRefresh(w)
  <2>1. ASSUME NEW v PROVE AfterBlacklisting(req[w], v).new = req[w].new
    BY <1>1 DEF AfterBlacklisting, Request
  <2>2. QED
    BY <1>1, <1>6, <2>1 DEF BlacklistRefresh, tokenVars
<1>7. CASE Deactivate(w)
  BY <1>1, <1>2, <1>7 DEF Deactivate, tokenVars, history, Request
<1>8. CASE RefreshSession(w) \/ OthersCurrent(w)
  <2>1. UNCHANGED <<signed, held>>
    BY <1>8 DEF RefreshSession, OthersCurrent, tokenVars, history
  <2>2. \/ req'[w] = Idle
        \/ \E s : req'[w] = [req[w] EXCEPT !.pc = "rotate", !.sid = s]
        \/ \E s : req'[w] = [req[w] EXCEPT !.pc = "list", !.sid = s]
    BY <1>1, <1>8 DEF RefreshSession, OthersCurrent, Finish
  <2>3. QED
    BY <1>1, <2>1, <2>2 DEF Request
<1>9. CASE LogoutSession(w) \/ OthersList(w)
  <2>1. UNCHANGED <<signed, held>>
    BY <1>9 DEF LogoutSession, OthersList, tokenVars, history
  <2>2. \/ req'[w] = [req[w] EXCEPT !.pc = "done"]
        \/ \E todo : req'[w] = Enter(req[w], todo)
    BY <1>1, <1>9 DEF LogoutSession, OthersList
  <2>3. QED
    BY <1>1, <1>2, <2>1, <2>2 DEF Request
<1>10. CASE RefreshRotate(w)
  <2>1. PICK p \in Pairs :
            /\ Sign(req[w].user, p)
            /\ req' = [req EXCEPT ![w] = [req[w] EXCEPT !.pc = "store", !.new = p]]
    BY <1>10 DEF RefreshRotate
  <2>2. p = signed + 1 /\ signed' = signed + 1
    BY <1>3, <2>1
  <2>3. req'[w].new = p
    BY <1>1, <2>1 DEF Request
  <2>4. QED
    BY <1>10, <2>2, <2>3 DEF RefreshRotate
<1>11. ASSUME NEW u \in Users, LoginLookup(w, u)
       PROVE  req'[w].new = signed + 1 /\ signed' = signed + 1 /\ held' = held
  <2> DEFINE r(p) == [Idle EXCEPT !.op = "login", !.user = u, !.new = p]
  <2>1. PICK p \in Pairs :
            Sign(u, p) /\ req' = [req EXCEPT ![w] = Enter(r(p), Evicted(u))]
    BY <1>11 DEF LoginLookup
  <2>a. p \in 0..MaxPairs
    BY DEF Pairs
  <2>2. r(p) \in Request /\ r(p).new = p
    BY <2>a, IdleTyped DEF Request, Idle
  <2>3. req'[w].new = p
    BY <1>1, <1>2, <2>1, <2>2
  <2>4. QED
    BY <1>3, <1>11, <2>1, <2>3 DEF LoginLookup, history
<1>12. ASSUME NEW r \in Request, NEW todo, r.new = 0, req' = [req EXCEPT ![w] = Enter(r, todo)]
       PROVE  req'[w].new = 0
  BY <1>1, <1>2, <1>12
<1>13. ASSUME NEW u \in Users, RevokeAllList(w, u)
       PROVE  req'[w].new = 0 /\ UNCHANGED <<signed, held>>
  <2> DEFINE r == [Idle EXCEPT !.op = "all", !.user = u]
  <2>1. r \in Request /\ r.new = 0
    BY IdleTyped DEF Request, Idle
  <2>2. QED
    BY <1>12, <1>13, <2>1 DEF RevokeAllList, tokenVars, history
<1>14. ASSUME NEW s \in Sids, RevokeOneLookup(w, s)
       PROVE  req'[w].new = 0 /\ UNCHANGED <<signed, held>>
  <2> DEFINE r == [Idle EXCEPT !.op = "one", !.user = session[s].user]
  <2>1. r \in Request /\ r.new = 0
    BY IdleTyped DEF Request, Idle, PInv, TypeOK
  <2>2. QED
    BY <1>12, <1>14, <2>1 DEF RevokeOneLookup, tokenVars, history
<1>15. ASSUME NEW p \in Pairs, RefreshCheck(w, p) \/ Logout(w, p) \/ LogoutOthers(w, p)
       PROVE  req'[w].new = 0 /\ UNCHANGED <<signed, held>>
  BY <1>1, <1>15 DEF RefreshCheck, Logout, LogoutOthers, Authenticated, Idle, tokenVars, history
<1>16. QED
  BY <1>4, <1>5, <1>6, <1>7, <1>8, <1>9, <1>10, <1>11, <1>13, <1>14, <1>15
     DEF Arrive, Proceed

LEMMA ArrivesIdle == ASSUME NEW w \in Workers, Arrive(w) PROVE req[w] = Idle
BY DEF Arrive, Admit, LoginLookup, RevokeAllList, RefreshCheck, Logout, LogoutOthers,
   Authenticated, RevokeOneLookup

(* The steps of no request. *)
LEMMA OtherSteps ==
    ASSUME [Next]_vars, ~\E w \in Workers : Arrive(w) \/ Proceed(w) \/ Fail(w)
    PROVE  UNCHANGED <<req, held, signed, session>>
BY DEF Next, vars, rowVars, tokenVars, history, SetUserStatus, LoseCache, Tick

LEMMA NextUnshared ==
    ~SameSecond /\ PInv /\ Unshared /\ [Next]_vars => Unshared'
<1> SUFFICES ASSUME ~SameSecond, PInv, Unshared, [Next]_vars PROVE Unshared'
  OBVIOUS
<1>1. /\ signed \in Nat /\ held \subseteq 1..signed
      /\ \A w \in Workers : req[w].new # 0 => req[w].new \in 1..signed /\ req[w].new \notin held
      /\ \A v, w \in Workers : v # w /\ req[v].new # 0 => req[v].new # req[w].new
  BY SessionAssumption DEF PInv, TypeOK, PairsSigned, Unshared
<1>2. ASSUME NEW w \in Workers, Arrive(w) \/ Proceed(w) \/ Fail(w) PROVE Unshared'
  <2>1. \A v \in Workers \ {w} : req'[v] = req[v]
    BY <1>2, OnlyOwn DEF PInv
  <2>2. CASE req'[w].new \in {req[w].new, 0} /\ UNCHANGED <<signed, held>>
    BY <1>1, <2>1, <2>2 DEF Unshared
  <2>3. CASE req'[w].new = signed + 1 /\ signed' = signed + 1 /\ held' = held
    BY <1>1, <2>1, <2>3 DEF Unshared
  <2>4. CASE req'[w].new = 0 /\ signed' = signed /\ held' = held \cup {req[w].new}
    BY <1>1, <2>1, <2>4 DEF Unshared
  <2>5. QED
    BY <1>2, <2>2, <2>3, <2>4, NewShape
<1>3. CASE ~\E w \in Workers : Arrive(w) \/ Proceed(w) \/ Fail(w)
  BY <1>3, OtherSteps DEF Unshared
<1>4. QED
  BY <1>2, <1>3

(* A token in a client's hands that no active row stores is never stored   *)
(* again.                                                                  *)
LEMMA DeadStays ==
    ASSUME PInv, Unshared, [Next]_vars, NEW p \in held, Dead(p)
    PROVE  Dead(p)'
<1> SUFFICES ASSUME NEW s \in Sids, session'[s].status = "active", session'[s].pair = p
             PROVE  FALSE
  BY DEF Dead, Active
<1>1. ~(Active(s) /\ session[s].pair = p)
  BY DEF Dead
<1>2. PICK w \in Workers : (LoginCreate(w) \/ RefreshStore(w)) /\ p = req[w].new
  BY <1>1, RowShape DEF PInv
<1>3. p \in 1..signed /\ signed \in Nat
  BY SessionAssumption DEF PInv, TypeOK, PairsSigned
<1>4. QED
  BY <1>2, <1>3 DEF Unshared

(* A late request makes only the first two steps of refreshToken. *)
LEMMA LateStep ==
    ASSUME PInv, LateStaysDead, NEW w \in Workers, Arrive(w) \/ Proceed(w) \/ Fail(w),
           req'[w].late
    PROVE  /\ req'[w].op = "refresh" /\ req'[w].pc \in {"user", "session"}
           /\ req'[w].pair \in held /\ Dead(req'[w].pair)
<1>1. req \in [Workers -> Request] /\ req[w] \in Request /\ ~Idle.late
  BY DEF PInv, TypeOK, Idle
<1>2. \A r, todo : r \in Request => Enter(r, todo).late = r.late
  BY DEF Enter, Request
<1>3. CASE req[w].late
  <2>1. /\ req[w].op = "refresh" /\ req[w].pc \in {"user", "session"}
        /\ req[w].pair \in held /\ Dead(req[w].pair)
    BY <1>3 DEF LateStaysDead
  <2>2. RefreshUser(w) \/ RefreshSession(w) \/ Fail(w)
    BY <1>1, <1>3, <2>1 DEF Arrive, Proceed, Admit, LoginLookup, RevokeAllList, RefreshCheck,
       Logout, LogoutOthers, Authenticated, RevokeOneLookup, BlacklistAccess,
       BlacklistRefresh, Deactivate, Done, LoginCreate, Respond, RefreshRotate, RefreshStore,
       LogoutSession, OthersCurrent, OthersList, RevokeAllUpdateMany
  <2>3. ~Fail(w)
    BY <1>1 DEF Fail, Finish
  <2>4. CASE RefreshUser(w)
    BY <1>1, <2>1, <2>4 DEF RefreshUser, Finish, Request
  <2>5. ~RefreshSession(w)
    <3>1. ASSUME NEW s \in RowsOf(req[w].pair), SessionValid(s, req[w]) PROVE FALSE
      <4>1. s \in Sids /\ session[s].pair = req[w].pair /\ Active(s)
        BY <3>1, SessionAssumption DEF RowsOf, SessionValid, PInv, TypeOK, Sids
      <4>2. QED
        BY <2>1, <4>1 DEF Dead
    <3>2. QED
      BY <1>1, <3>1 DEF RefreshSession, Finish
  <2>6. QED
    BY <2>2, <2>3, <2>4, <2>5
<1>4. CASE ~req[w].late
  <2>1. ~(Proceed(w) \/ Fail(w))
    <3>1. \A v : AfterBlacklisting(req[w], v).late = req[w].late
      BY <1>1 DEF AfterBlacklisting, Request
    <3>2. ~BlacklistRefresh(w)
      BY <1>1, <1>4, <3>1 DEF BlacklistRefresh
    <3>3. ~Deactivate(w)
      <4> SUFFICES ASSUME Deactivate(w) PROVE FALSE
        OBVIOUS
      <4>1. \E todo : \/ req'[w] = [req[w] EXCEPT !.todo = todo]
                       \/ req'[w] = Enter(req[w], todo)
        BY <1>1 DEF Deactivate
      <4>2. QED
        BY <1>1, <1>2, <1>4, <4>1 DEF Request
    <3>4. ASSUME LogoutSession(w) \/ OthersList(w) PROVE FALSE
      <4>1. \/ req'[w] = [req[w] EXCEPT !.pc = "done"]
            \/ \E todo : req'[w] = Enter(req[w], todo)
        BY <1>1, <3>4 DEF LogoutSession, OthersList
      <4>2. QED
        BY <1>1, <1>2, <1>4, <4>1 DEF Request
    <3>5. ~(\/ BlacklistAccess(w) \/ Done(w) \/ LoginCreate(w) \/ Respond(w)
            \/ RefreshUser(w) \/ RefreshStore(w) \/ RevokeAllUpdateMany(w) \/ Fail(w))
      BY <1>1, <1>4 DEF BlacklistAccess, Done, LoginCreate, Respond, RefreshUser, RefreshStore,
         RevokeAllUpdateMany, Fail, Finish, Request
    <3>6. ~(RefreshSession(w) \/ RefreshRotate(w) \/ OthersCurrent(w))
      <4> SUFFICES ASSUME RefreshSession(w) \/ RefreshRotate(w) \/ OthersCurrent(w)
                   PROVE  FALSE
        OBVIOUS
      <4>1. \/ req'[w] = Idle
            \/ \E s : req'[w] = [req[w] EXCEPT !.pc = "rotate", !.sid = s]
            \/ \E s : req'[w] = [req[w] EXCEPT !.pc = "list", !.sid = s]
            \/ \E p : req'[w] = [req[w] EXCEPT !.pc = "store", !.new = p]
        BY <1>1 DEF RefreshSession, RefreshRotate, OthersCurrent, Finish
      <4>2. QED
        BY <1>1, <1>4, <4>1 DEF Request
    <3>7. QED
      BY <3>2, <3>3, <3>4, <3>5, <3>6 DEF Proceed
  <2>2. ASSUME NEW u \in Users PROVE ~LoginLookup(w, u) /\ ~RevokeAllList(w, u)
    <3>1. ASSUME NEW p \in Pairs
          PROVE  /\ [Idle EXCEPT !.op = "login", !.user = u, !.new = p] \in Request
                 /\ ~[Idle EXCEPT !.op = "login", !.user = u, !.new = p].late
      <4>1. p \in 0..MaxPairs
        BY DEF Pairs
      <4>2. QED
        BY <4>1, IdleTyped DEF Request, Idle
    <3>2. /\ [Idle EXCEPT !.op = "all", !.user = u] \in Request
          /\ ~[Idle EXCEPT !.op = "all", !.user = u].late
      BY IdleTyped DEF Request, Idle
    <3>3. ~LoginLookup(w, u)
      <4> SUFFICES ASSUME LoginLookup(w, u) PROVE FALSE
        OBVIOUS
      <4> DEFINE r(p) == [Idle EXCEPT !.op = "login", !.user = u, !.new = p]
      <4>1. PICK p \in Pairs : req' = [req EXCEPT ![w] = Enter(r(p), Evicted(u))]
        BY DEF LoginLookup
      <4>2. r(p) \in Request /\ ~r(p).late
        BY <3>1
      <4> HIDE DEF r
      <4>3. QED
        BY <1>1, <1>2, <4>1, <4>2
    <3>4. ~RevokeAllList(w, u)
      BY <1>1, <1>2, <3>2 DEF RevokeAllList
    <3>5. QED
      BY <3>3, <3>4
  <2>3. ASSUME NEW s \in Sids PROVE ~RevokeOneLookup(w, s)
    <3>1. /\ [Idle EXCEPT !.op = "one", !.user = session[s].user] \in Request
          /\ ~[Idle EXCEPT !.op = "one", !.user = session[s].user].late
      BY IdleTyped DEF Request, Idle, PInv, TypeOK
    <3>2. QED
      BY <1>1, <1>2, <3>1 DEF RevokeOneLookup
  <2>4. \A p \in Pairs : ~Logout(w, p) /\ ~LogoutOthers(w, p)
    BY <1>1 DEF Logout, LogoutOthers, Authenticated, Idle
  <2>5. PICK p \in Pairs : RefreshCheck(w, p)
    BY <2>1, <2>2, <2>3, <2>4 DEF Arrive
  <2>6. QED
    BY <1>1, <2>5 DEF RefreshCheck, Idle
<1>5. QED
  BY <1>3, <1>4

LEMMA NextLateStaysDead ==
    PInv /\ Unshared /\ LateStaysDead /\ [Next]_vars => LateStaysDead'
<1> SUFFICES ASSUME PInv, Unshared, LateStaysDead, [Next]_vars, NEW w \in Workers, req'[w].late
             PROVE  /\ req'[w].op = "refresh" /\ req'[w].pc \in {"user", "session"}
                    /\ req'[w].pair \in held'
                    /\ \A s \in Sids : ~(/\ session'[s].status = "active"
                                        /\ session'[s].pair = req'[w].pair)
  BY DEF LateStaysDead, Dead, Active
<1>1. /\ req'[w].op = "refresh" /\ req'[w].pc \in {"user", "session"}
      /\ req'[w].pair \in held /\ Dead(req'[w].pair)
  <2>1. CASE Arrive(w) \/ Proceed(w) \/ Fail(w)
    BY <2>1, LateStep
  <2>2. CASE req'[w] = req[w]
    BY <2>2 DEF LateStaysDead
  <2>3. QED
    BY <2>1, <2>2, OnlyOwn, OtherSteps DEF PInv
<1>2. held \subseteq held'
  BY HistoryShape
<1>3. QED
  BY <1>1, <1>2, DeadStays DEF Dead, Active

(* A refresh that starts when its token is dead is refused (refreshToken   *)
(* 319-352), whatever the cache has lost and whatever fails, as long as no *)
(* two tokens of a user are signed alike within a second.                  *)
THEOREM DeadRefused == ~SameSecond => (Spec => []DeadTokenNeverGranted)
<1> SUFFICES ASSUME ~SameSecond PROVE Spec => []DeadTokenNeverGranted
  OBVIOUS
<1>1. Init => DInv
  <2>1. Init => PairsSigned
    BY IdleNamed DEF Init, PairsSigned, Active
  <2>2. QED
    BY <2>1, InitTypeOK DEF Init, Idle, DInv, PInv, Unshared, LateStaysDead
<1>2. DInv /\ [Next]_vars => DInv'
  BY NextTypeOK, NextPairsSigned, NextUnshared, NextLateStaysDead DEF DInv, PInv
<1>3. DInv => DeadTokenNeverGranted
  BY DEF DInv, LateStaysDead, DeadTokenNeverGranted
<1>4. QED
  BY <1>1, <1>2, <1>3, PTL DEF Spec

-----------------------------------------------------------------------------
(* Stranded sessions.                                                      *)

Owners == [s \in Sids |-> session[s].user]
ActiveRows == {s \in Sids : Active(s)}

(* What request r has on its list was issued for the row it names, and is  *)
(* inactive once r is through with it; issued, owners and active say what  *)
(* the rows are.                                                           *)
Listed(r, issued, owners, active) ==
    /\ r.pc \in {"rotate", "store"} => <<r.pair, r.sid>> \in issued
    /\ \A v \in r.todo \cup r.marked : <<v.pair, v.sid>> \in issued
    /\ r.op = "all" => \A v \in r.todo \cup r.marked : owners[v.sid] = r.user
    /\ r.pc = "updateMany" => r.op = "all"
    /\ r.op \in PerSession \/ r.pc = "deactivate" => r.marked = {}
    /\ r.pc \in {"idle", "user", "session", "rotate", "store", "list"}
         => r.todo = {} /\ r.marked = {}
    /\ r.pc \notin Looping => \A v \in r.todo \cup r.marked : v.sid \notin active

(* A pair is issued for one row, after it was signed and stored.           *)
Issued ==
    /\ \A p, s : <<p, s>> \in issuedFor => p \in 1..signed /\ s \in 1..created
    /\ \A p, s, t : <<p, s>> \in issuedFor /\ <<p, t>> \in issuedFor => s = t
    /\ \A s \in ActiveRows : <<session[s].pair, s>> \in issuedFor
    /\ \A p \in Pairs : blRefresh[p] > 0 => \E s : <<p, s>> \in issuedFor
    /\ \A w \in Workers : req[w].new # 0 /\ req[w].pc # "respond"
                            => ~\E s : <<req[w].new, s>> \in issuedFor

AllListed == \A w \in Workers : Listed(req[w], issuedFor, Owners, ActiveRows)

LEMMA ListedKept ==
    ASSUME NEW r, NEW i, NEW j, NEW o, NEW q, NEW a, NEW b, Listed(r, i, o, a), i \subseteq j,
           \A p, s : <<p, s>> \in i => q[s] = o[s] /\ (s \in b => s \in a)
    PROVE  Listed(r, j, q, b)
BY DEF Listed

LEMMA IdleListed == \A i, o, a : Listed(Idle, i, o, a)
BY DEF Listed, Idle, Looping

LEMMA EnterListed ==
    ASSUME NEW r \in Request, NEW todo \in SUBSET Snapshots, NEW i, NEW o, NEW a,
           r.marked = {},
           \A v \in todo : <<v.pair, v.sid>> \in i,
           r.op = "all" => \A v \in todo : o[v.sid] = r.user
    PROVE  Listed(Enter(r, todo), i, o, a)
<1>1. CASE todo = {}
  <2>1. Enter(r, todo).todo = {} /\ Enter(r, todo).marked = {} /\ Enter(r, todo).op = r.op
    BY <1>1 DEF Enter, Request
  <2>2. Enter(r, todo).pc = Afterwards(r.op)
    BY <1>1 DEF Enter, Request
  <2>3. /\ Afterwards(r.op) \in {"create", "updateMany", "done"}
        /\ Afterwards(r.op) = "updateMany" => r.op = "all"
    BY DEF Afterwards
  <2>4. QED
    BY <2>1, <2>2, <2>3 DEF Listed
<1>2. CASE todo # {}
  BY <1>2 DEF Listed, Enter, Request, Looping
<1>3. QED
  BY <1>1, <1>2

LEMMA AfterBlacklistingListed ==
    ASSUME NEW r \in Request, NEW v \in r.todo, r.pc = "blacklistRefresh", NEW i, NEW o, NEW a,
           Listed(r, i, o, a)
    PROVE  Listed(AfterBlacklisting(r, v), i, o, a)
<1>1. CASE r.op \in PerSession
  <2>1. AfterBlacklisting(r, v) = [r EXCEPT !.pc = "deactivate"]
    BY <1>1 DEF AfterBlacklisting, PerSession
  <2>2. QED
    BY <1>1, <2>1 DEF Request, Listed, Looping
<1>2. CASE r.op \notin PerSession /\ r.todo \ {v} # {}
  <2>1. AfterBlacklisting(r, v) = [r EXCEPT !.todo = r.todo \ {v},
                                            !.marked = r.marked \cup {v},
                                            !.pc = "blacklistAccess"]
    BY <1>2 DEF AfterBlacklisting
  <2>2. QED
    BY <1>2, <2>1 DEF Request, Listed, Looping
<1>3. CASE r.op \notin PerSession /\ r.todo \ {v} = {} /\ r.op = "all"
  <2>1. AfterBlacklisting(r, v) = [r EXCEPT !.todo = {}, !.marked = r.marked \cup {v},
                                            !.pc = "updateMany"]
    BY <1>3 DEF AfterBlacklisting, Afterwards
  <2>2. QED
    BY <1>3, <2>1 DEF Request, Listed, Looping
<1>4. CASE r.op \notin PerSession /\ r.todo \ {v} = {} /\ r.op # "all"
  <2>1. AfterBlacklisting(r, v) = [r EXCEPT !.todo = r.marked \cup {v}, !.marked = {},
                                            !.pc = "deactivate"]
    BY <1>4 DEF AfterBlacklisting
  <2>2. QED
    BY <1>4, <2>1 DEF Request, Listed, Looping
<1>5. QED
  BY <1>1, <1>2, <1>3, <1>4

(* Rows that exist keep their owner and are not activated.                 *)
LEMMA RowsKept ==
    ASSUME TypeOK, [Next]_vars, NEW s \in 1..created
    PROVE  Owners'[s] = Owners[s] /\ (s \in ActiveRows' => s \in ActiveRows)
<1>1. /\ session \in [Sids -> [user : Users \cup {NoUser}, pair : 0..MaxPairs,
                               status : {"absent", "active", "revoked"}]]
      /\ s \in Sids /\ created \in Nat
  BY SessionAssumption DEF TypeOK, Sids
<1>2. Owners[s] = session[s].user /\ Owners'[s] = session'[s].user
  BY <1>1 DEF Owners
<1>3. ASSUME NEW w \in Workers, LoginCreate(w) PROVE session'[s] = session[s]
  BY <1>1, <1>3 DEF LoginCreate
<1>4. ASSUME NEW w \in Workers, RefreshStore(w)
      PROVE  session'[s].user = session[s].user /\ session'[s].status = session[s].status
  BY <1>1, <1>4 DEF RefreshStore, Rotated
<1>5. ASSUME NEW w \in Workers, Deactivate(w)
      PROVE  /\ session'[s].user = session[s].user
             /\ session'[s].status \in {session[s].status, "revoked"}
  <2>1. PICK v \in req[w].todo :
            session' = [session EXCEPT ![v.sid].status = "revoked"]
    BY <1>5 DEF Deactivate
  <2>2. QED
    BY <1>1, <2>1
<1>6. ASSUME NEW w \in Workers, RevokeAllUpdateMany(w)
      PROVE  /\ session'[s].user = session[s].user
             /\ session'[s].status \in {session[s].status, "revoked"}
  BY <1>1, <1>6 DEF RevokeAllUpdateMany
<1>7. ASSUME ~\E w \in Workers : LoginCreate(w) \/ RefreshStore(w) \/ Deactivate(w)
                                   \/ RevokeAllUpdateMany(w)
      PROVE  session' = session
  BY <1>7 DEF Next, vars, rowVars, Arrive, Proceed, Fail, LoginLookup, RevokeAllList,
     RefreshCheck, Logout, LogoutOthers, Authenticated, RevokeOneLookup, BlacklistAccess,
     BlacklistRefresh, Done, Respond, RefreshUser, RefreshSession, RefreshRotate,
     LogoutSession, OthersCurrent, OthersList, SetUserStatus, LoseCache, Tick
<1>8. QED
  BY <1>2, <1>3, <1>4, <1>5, <1>6, <1>7 DEF ActiveRows, Active

LEMMA IssuedGrows ==
    ASSUME [Next]_vars
    PROVE  \/ issuedFor' = issuedFor /\ created' = created
           \/ \E w \in Workers : \/ LoginCreate(w) /\ created' = created + 1
                                      /\ issuedFor' = issuedFor \cup {<<req[w].new, created + 1>>}
                                 \/ RefreshStore(w) /\ created' = created
                                      /\ issuedFor' = issuedFor \cup {<<req[w].new, req[w].sid>>}
<1>1. ASSUME NEW w \in Workers, Arrive(w) \/ Fail(w)
      PROVE  issuedFor' = issuedFor /\ created' = created
  BY <1>1 DEF Arrive, Fail, rowVars, history, LoginLookup, RevokeAllList, RefreshCheck, Logout,
     LogoutOthers, Authenticated, RevokeOneLookup
<1>2. ASSUME NEW w \in Workers, Proceed(w), ~LoginCreate(w), ~RefreshStore(w)
      PROVE  issuedFor' = issuedFor /\ created' = created
  BY <1>2 DEF Proceed, rowVars, history, BlacklistAccess, BlacklistRefresh, Deactivate, Done,
     Respond, RefreshUser, RefreshSession, RefreshRotate, LogoutSession, OthersCurrent,
     OthersList, RevokeAllUpdateMany
<1>3. ASSUME ~\E w \in Workers : Arrive(w) \/ Proceed(w) \/ Fail(w)
      PROVE  issuedFor' = issuedFor /\ created' = created
  BY <1>3 DEF Next, vars, rowVars, history, SetUserStatus, LoseCache, Tick
<1>4. QED
  BY <1>1, <1>2, <1>3 DEF LoginCreate, RefreshStore

IInv == PInv /\ Unshared /\ Issued /\ AllListed

(* The acting request's list stays in order. *)
LEMMA OwnListed ==
    ASSUME IInv, [Next]_vars, NEW w \in Workers, Arrive(w) \/ Proceed(w)
    PROVE  Listed(req'[w], issuedFor', Owners', ActiveRows')
<1> DEFINE i == issuedFor'
           o == Owners'
           a == ActiveRows'
<1>1. /\ req \in [Workers -> Request] /\ req[w] \in Request /\ Idle \in Request
      /\ Listed(req[w], issuedFor, Owners, ActiveRows)
  BY IdleTyped DEF IInv, PInv, TypeOK, AllListed
<1>2. issuedFor \subseteq i
  BY IssuedGrows
<1>3. \A p, s : <<p, s>> \in issuedFor => o[s] = Owners[s] /\ (s \in a => s \in ActiveRows)
  BY RowsKept DEF IInv, PInv, Issued
<1> HIDE DEF i, o, a
<1>4. Listed(req[w], i, o, a)
  BY <1>1, <1>2, <1>3, ListedKept
<1>5. \A r, todo : req' = [req EXCEPT ![w] = Enter(r, todo)] => req'[w] = Enter(r, todo)
  BY <1>1
<1>6. ASSUME NEW S \in SUBSET ActiveRows
      PROVE  /\ {Snapshot(s) : s \in S} \in SUBSET Snapshots
             /\ \A v \in {Snapshot(s) : s \in S} : <<v.pair, v.sid>> \in i
             /\ \A v \in {Snapshot(s) : s \in S} : v.sid \in S /\ o[v.sid] = session[v.sid].user
  <2>1. ASSUME NEW s \in S
        PROVE  /\ Snapshot(s) \in Snapshots /\ Snapshot(s).sid = s
               /\ <<Snapshot(s).pair, s>> \in i /\ o[s] = session[s].user
    <3>1. s \in Sids
      BY DEF ActiveRows
    <3>2. Snapshot(s) \in Snapshots /\ Snapshot(s).sid = s /\ Snapshot(s).pair = session[s].pair
      BY <3>1, SnapshotTyped DEF IInv, PInv, Snapshot
    <3>3. <<session[s].pair, s>> \in issuedFor
      BY DEF IInv, Issued
    <3>4. Owners[s] = session[s].user
      BY <3>1 DEF Owners
    <3>5. QED
      BY <1>2, <1>3, <3>2, <3>3, <3>4
  <2>2. QED
    BY <2>1
<1>7. CASE Done(w) \/ Respond(w)
  BY <1>1, <1>7, IdleListed DEF Done, Respond, i, o, a
<1>8. CASE BlacklistAccess(w)
  <2>1. req'[w] = [req[w] EXCEPT !.pc = "blacklistRefresh"] /\ req[w].pc = "blacklistAccess"
    BY <1>1, <1>8 DEF BlacklistAccess
  <2>2. Listed(req'[w], i, o, a)
    BY <1>1, <1>4, <2>1 DEF Listed, Request, Looping
  <2>3. QED
    BY <2>2 DEF i, o, a
<1>9. CASE BlacklistRefresh(w)
  <2>1. PICK v \in req[w].todo : req'[w] = AfterBlacklisting(req[w], v)
    BY <1>1, <1>9 DEF BlacklistRefresh
  <2>2. Listed(req'[w], i, o, a)
    BY <1>1, <1>4, <1>9, <2>1, AfterBlacklistingListed DEF BlacklistRefresh
  <2>3. QED
    BY <2>2 DEF i, o, a
<1>10. CASE Deactivate(w)
  <2>1. PICK v \in req[w].todo :
            req' = [req EXCEPT ![w] =
                 IF req[w].op = "others" /\ req[w].todo \ {v} # {}
                   THEN [req[w] EXCEPT !.todo = req[w].todo \ {v}]
                   ELSE Enter(req[w], req[w].todo \ {v})]
    BY <1>10 DEF Deactivate
  <2>2. req[w].pc = "deactivate" /\ req[w].marked = {}
    BY <1>4, <1>10 DEF Deactivate, Listed
  <2>3. req[w].todo \ {v} \in SUBSET Snapshots
    BY <1>1 DEF Request
  <2>4. Listed([req[w] EXCEPT !.todo = req[w].todo \ {v}], i, o, a)
    BY <1>1, <1>4, <2>2 DEF Listed, Request, Looping
  <2>5. Listed(Enter(req[w], req[w].todo \ {v}), i, o, a)
    <3>1. \A x \in req[w].todo \ {v} : <<x.pair, x.sid>> \in i
      BY <1>4 DEF Listed
    <3>2. req[w].op = "all" => \A x \in req[w].todo \ {v} : o[x.sid] = req[w].user
      BY <1>4 DEF Listed
    <3>3. QED
      BY <1>1, <2>2, <2>3, <3>1, <3>2, EnterListed
  <2>6. Listed(req'[w], i, o, a)
    BY <1>1, <2>1, <2>4, <2>5
  <2>7. QED
    BY <2>6 DEF i, o, a
<1>11. CASE LoginCreate(w)
  <2>1. req'[w] = [req[w] EXCEPT !.pc = "respond"] /\ req[w].pc = "create"
    BY <1>1, <1>11 DEF LoginCreate
  <2>2. Listed(req'[w], i, o, a)
    BY <1>1, <1>4, <2>1 DEF Listed, Request, Looping
  <2>3. QED
    BY <2>2 DEF i, o, a
<1>12. CASE RefreshStore(w)
  <2>1. req'[w] = [req[w] EXCEPT !.pc = "respond"] /\ req[w].pc = "store"
    BY <1>1, <1>12 DEF RefreshStore
  <2>2. Listed(req'[w], i, o, a)
    BY <1>1, <1>4, <2>1 DEF Listed, Request, Looping
  <2>3. QED
    BY <2>2 DEF i, o, a
<1>13. CASE RefreshUser(w)
  <2>1. /\ req'[w] = [req[w] EXCEPT !.pc = "session"] \/ req'[w] = Idle
        /\ req[w].pc = "user"
    BY <1>1, <1>13 DEF RefreshUser, Finish
  <2>2. Listed([req[w] EXCEPT !.pc = "session"], i, o, a)
    BY <1>1, <1>4, <2>1 DEF Listed, Request, Looping
  <2>3. QED
    BY <2>1, <2>2, IdleListed DEF i, o, a
<1>14. CASE RefreshSession(w)
  <2>1. CASE Finish(w)
    BY <1>1, <2>1, IdleListed DEF Finish
  <2>2. ASSUME NEW s \in RowsOf(req[w].pair), Active(s),
               req' = [req EXCEPT ![w] = [req[w] EXCEPT !.pc = "rotate", !.sid = s]]
        PROVE  Listed(req'[w], issuedFor', Owners', ActiveRows')
    <3>1. s \in ActiveRows /\ session[s].pair = req[w].pair
      BY <2>2, SessionAssumption DEF RowsOf, ActiveRows, Sids, IInv, PInv, TypeOK
    <3>2. <<req[w].pair, s>> \in i
      BY <1>2, <3>1 DEF IInv, Issued
    <3>3. req[w].pc = "session" /\ req[w].op = "refresh"
      BY <1>14 DEF RefreshSession
    <3>4. req[w].todo = {} /\ req[w].marked = {}
      BY <1>4, <3>3 DEF Listed
    <3>5. req'[w] = [req[w] EXCEPT !.pc = "rotate", !.sid = s]
      BY <1>1, <2>2
    <3>6. Listed(req'[w], i, o, a)
      BY <1>1, <3>2, <3>3, <3>4, <3>5 DEF Listed, Request
    <3>7. QED
      BY <3>6 DEF i, o, a
  <2>3. QED
    BY <1>14, <2>1, <2>2 DEF RefreshSession, SessionValid
<1>15. CASE RefreshRotate(w)
  <2>1. PICK p \in Pairs :
            req' = [req EXCEPT ![w] = [req[w] EXCEPT !.pc = "store", !.new = p]]
    BY <1>15 DEF RefreshRotate
  <2>2. req[w].pc = "rotate"
    BY <1>15 DEF RefreshRotate
  <2>3. req'[w] = [req[w] EXCEPT !.pc = "store", !.new = p]
    BY <1>1, <2>1
  <2>4. Listed(req'[w], i, o, a)
    BY <1>1, <1>4, <2>2, <2>3 DEF Listed, Request, Looping
  <2>5. QED
    BY <2>4 DEF i, o, a
<1>16. CASE LogoutSession(w)
  <2>1. /\ req[w].pc = "session" /\ req[w].op = "logout"
        /\ req[w].todo = {} /\ req[w].marked = {}
    BY <1>4, <1>16 DEF LogoutSession, Listed
  <2>2. Listed([req[w] EXCEPT !.pc = "done"], i, o, a)
    BY <1>1, <1>4, <2>1 DEF Listed, Request
  <2>3. ASSUME NEW s \in RowsOf(req[w].pair), Active(s),
               req' = [req EXCEPT ![w] = Enter(req[w], {Snapshot(s)})]
        PROVE  Listed(req'[w], i, o, a)
    <3>1. s \in ActiveRows
      BY <2>3, SessionAssumption DEF RowsOf, ActiveRows, Sids, IInv, PInv, TypeOK
    <3>2. {s} \in SUBSET ActiveRows /\ {Snapshot(t) : t \in {s}} = {Snapshot(s)}
      BY <3>1
    <3>3. /\ {Snapshot(s)} \in SUBSET Snapshots
          /\ \A v \in {Snapshot(s)} : <<v.pair, v.sid>> \in i
      BY <1>6, <3>2
    <3>4. Listed(Enter(req[w], {Snapshot(s)}), i, o, a)
      BY <1>1, <2>1, <3>3, EnterListed
    <3>5. QED
      BY <1>5, <2>3, <3>4
  <2>4. req' = [req EXCEPT ![w] = [req[w] EXCEPT !.pc = "done"]]
          => req'[w] = [req[w] EXCEPT !.pc = "done"]
    BY <1>1
  <2>5. Listed(req'[w], i, o, a)
    BY <1>16, <2>2, <2>3, <2>4 DEF LogoutSession
  <2>6. QED
    BY <2>5 DEF i, o, a
<1>17. CASE OthersCurrent(w)
  <2>1. /\ req[w].pc = "session" /\ req[w].op = "others"
        /\ req[w].todo = {} /\ req[w].marked = {}
    BY <1>4, <1>17 DEF OthersCurrent, Listed
  <2>2. \/ req'[w] = Idle
        \/ \E s : req'[w] = [req[w] EXCEPT !.pc = "list", !.sid = s]
    BY <1>1, <1>17 DEF OthersCurrent, Finish
  <2>3. Listed(req'[w], i, o, a)
    BY <1>1, <2>1, <2>2, IdleListed DEF Listed, Request
  <2>4. QED
    BY <2>3 DEF i, o, a
<1>18. CASE OthersList(w)
  <2> DEFINE S == ActiveOf(req[w].user) \ {req[w].sid}
             todo == {Snapshot(s) : s \in S}
  <2>1. S \in SUBSET ActiveRows
    BY DEF ActiveOf, ActiveRows
  <2>2. req' = [req EXCEPT ![w] = Enter(req[w], todo)]
    BY <1>18 DEF OthersList
  <2>3. /\ todo \in SUBSET Snapshots /\ \A v \in todo : <<v.pair, v.sid>> \in i
        /\ \A v \in todo : o[v.sid] = req[w].user
    BY <1>6, <2>1 DEF ActiveOf
  <2> HIDE DEF S, todo
  <2>4. req[w].marked = {}
    BY <1>4, <1>18 DEF OthersList, Listed
  <2>5. Listed(Enter(req[w], todo), i, o, a)
    BY <1>1, <2>3, <2>4, EnterListed
  <2>6. Listed(req'[w], i, o, a)
    BY <1>5, <2>2, <2>5
  <2>7. QED
    BY <2>6 DEF i, o, a
<1>19. CASE RevokeAllUpdateMany(w)
  <2>1. req'[w] = [req[w] EXCEPT !.pc = "done"] /\ req[w].pc = "updateMany"
    BY <1>1, <1>19 DEF RevokeAllUpdateMany
  <2>2. req[w].op = "all"
    BY <1>4, <2>1 DEF Listed
  <2>3. ASSUME NEW v \in req[w].todo \cup req[w].marked PROVE v.sid \notin a
    <3>1. Owners[v.sid] = req[w].user /\ <<v.pair, v.sid>> \in issuedFor
      BY <1>1, <2>2 DEF Listed
    <3>2. v.sid \in Sids
      BY <3>1, SessionAssumption DEF IInv, Issued, PInv, TypeOK, Sids
    <3>3. ~(v.sid \in ActiveRows /\ v.sid \notin ActiveOf(req[w].user))
      BY <3>1, <3>2 DEF ActiveRows, ActiveOf, Owners
    <3>4. v.sid \in a => v.sid \in ActiveRows
      BY <1>3, <3>1
    <3>5. v.sid \in ActiveOf(req[w].user) => session'[v.sid].status # "active"
      BY <1>19, <3>2 DEF RevokeAllUpdateMany, IInv, PInv, TypeOK
    <3>6. QED
      BY <3>3, <3>4, <3>5 DEF a, ActiveRows, Active
  <2>4. Listed(req'[w], i, o, a)
    BY <1>1, <1>4, <2>1, <2>2, <2>3 DEF Listed, Request, PerSession
  <2>5. QED
    BY <2>4 DEF i, o, a
<1>20. ASSUME NEW u \in Users, LoginLookup(w, u)
       PROVE  Listed(req'[w], issuedFor', Owners', ActiveRows')
  <2> DEFINE r(p) == [Idle EXCEPT !.op = "login", !.user = u, !.new = p]
             S == {s \in LiveOf(u) : Cardinality({t \in LiveOf(u) : t < s}) < Excess(u)}
  <2>1. PICK p \in Pairs : req' = [req EXCEPT ![w] = Enter(r(p), Evicted(u))]
    BY <1>20 DEF LoginLookup
  <2>2. p \in 0..MaxPairs
    BY DEF Pairs
  <2>3. r(p) \in Request /\ r(p).marked = {} /\ r(p).op = "login"
    BY <1>1, <2>2 DEF Request, Idle
  <2>4. Evicted(u) = {Snapshot(s) : s \in S} /\ S \in SUBSET ActiveRows
    BY DEF Evicted, LiveOf, ActiveOf, ActiveRows
  <2> HIDE DEF r, S
  <2>5. Evicted(u) \in SUBSET Snapshots /\ \A v \in Evicted(u) : <<v.pair, v.sid>> \in i
    BY <1>6, <2>4
  <2>6. Listed(Enter(r(p), Evicted(u)), i, o, a)
    BY <2>3, <2>5, EnterListed
  <2>7. Listed(req'[w], i, o, a)
    BY <1>5, <2>1, <2>6
  <2>8. QED
    BY <2>7 DEF i, o, a
<1>21. ASSUME NEW u \in Users, RevokeAllList(w, u)
       PROVE  Listed(req'[w], issuedFor', Owners', ActiveRows')
  <2> DEFINE r == [Idle EXCEPT !.op = "all", !.user = u]
             todo == {Snapshot(s) : s \in ActiveOf(u)}
  <2>1. req' = [req EXCEPT ![w] = Enter(r, todo)]
    BY <1>21 DEF RevokeAllList
  <2>2. r \in Request /\ r.marked = {} /\ r.user = u
    BY <1>1 DEF Request, Idle
  <2>3. ActiveOf(u) \in SUBSET ActiveRows
    BY DEF ActiveOf, ActiveRows
  <2>4. /\ todo \in SUBSET Snapshots /\ \A v \in todo : <<v.pair, v.sid>> \in i
        /\ \A v \in todo : o[v.sid] = u
    BY <1>6, <2>3 DEF ActiveOf
  <2> HIDE DEF r, todo
  <2>5. Listed(Enter(r, todo), i, o, a)
    BY <2>2, <2>4, EnterListed
  <2>6. Listed(req'[w], i, o, a)
    BY <1>5, <2>1, <2>5
  <2>7. QED
    BY <2>6 DEF i, o, a
<1>22. ASSUME NEW s \in Sids, RevokeOneLookup(w, s)
       PROVE  Listed(req'[w], issuedFor', Owners', ActiveRows')
  <2> DEFINE r == [Idle EXCEPT !.op = "one", !.user = session[s].user]
  <2>1. req' = [req EXCEPT ![w] = Enter(r, {Snapshot(s)})] /\ {s} \in SUBSET ActiveRows
    BY <1>22 DEF RevokeOneLookup, ActiveRows
  <2>2. r \in Request /\ r.marked = {} /\ r.op = "one"
    BY <1>1 DEF Request, Idle, IInv, PInv, TypeOK
  <2>3. {Snapshot(t) : t \in {s}} = {Snapshot(s)}
    OBVIOUS
  <2>4. {Snapshot(s)} \in SUBSET Snapshots /\ \A v \in {Snapshot(s)} : <<v.pair, v.sid>> \in i
    BY <1>6, <2>1, <2>3
  <2> HIDE DEF r
  <2>5. Listed(Enter(r, {Snapshot(s)}), i, o, a)
    BY <2>2, <2>4, EnterListed
  <2>6. Listed(req'[w], i, o, a)
    BY <1>5, <2>1, <2>5
  <2>7. QED
    BY <2>6 DEF i, o, a
<1>23. ASSUME NEW p \in Pairs, RefreshCheck(w, p) \/ Logout(w, p) \/ LogoutOthers(w, p)
       PROVE  Listed(req'[w], issuedFor', Owners', ActiveRows')
  <2>1. /\ req'[w].pc \in {"user", "session"}
        /\ req'[w].op \in {"refresh", "logout", "others"}
        /\ req'[w].todo = {} /\ req'[w].marked = {}
    BY <1>1, <1>23 DEF RefreshCheck, Logout, LogoutOthers, Authenticated, Idle
  <2>2. QED
    BY <2>1 DEF Listed
<1>24. QED
  BY <1>7, <1>8, <1>9, <1>10, <1>11, <1>12, <1>13, <1>14, <1>15, <1>16, <1>17, <1>18, <1>19,
     <1>20, <1>21, <1>22, <1>23 DEF Arrive, Proceed

LEMMA NextAllListed == ~Failures /\ IInv /\ [Next]_vars => AllListed'
<1> SUFFICES ASSUME ~Failures, IInv, [Next]_vars, NEW w \in Workers
             PROVE  Listed(req'[w], issuedFor', Owners', ActiveRows')
  BY DEF AllListed
<1>1. Listed(req[w], issuedFor', Owners', ActiveRows')
  <2>1. \A p, s : <<p, s>> \in issuedFor
           => Owners'[s] = Owners[s] /\ (s \in ActiveRows' => s \in ActiveRows)
    BY RowsKept DEF IInv, PInv, Issued
  <2>2. issuedFor \subseteq issuedFor'
    BY IssuedGrows
  <2>3. Listed(req[w], issuedFor, Owners, ActiveRows)
    BY DEF IInv, AllListed
  <2>4. QED
    BY <2>1, <2>2, <2>3, ListedKept
<1>2. CASE Arrive(w) \/ Proceed(w)
  BY <1>2, OwnListed
<1>3. CASE req'[w] = req[w]
  BY <1>1, <1>3
<1>4. QED
  BY <1>2, <1>3, OnlyOwn, OtherSteps DEF IInv, PInv, Fail

(* The steps after which a pair can be banned. *)
LEMMA BanShape ==
    ASSUME IInv, [Next]_vars, NEW p \in Pairs, blRefresh'[p] > 0
    PROVE  \/ blRefresh[p] > 0
           \/ \E w \in Workers : \/ RefreshRotate(w) /\ req[w].pair = p
                                 \/ /\ BlacklistRefresh(w)
                                    /\ \E v \in req[w].todo :
                                         /\ v.pair = p
                                         /\ req'[w] = AfterBlacklisting(req[w], v)
<1>1. blRefresh \in [Pairs -> 0..RefreshBlacklistTTL] /\ req \in [Workers -> Request]
  BY DEF IInv, PInv, TypeOK
<1>2. ASSUME NEW w \in Workers, BlacklistRefresh(w), ~(blRefresh[p] > 0)
      PROVE  \E v \in req[w].todo : v.pair = p /\ req'[w] = AfterBlacklisting(req[w], v)
  <2>1. PICK v \in req[w].todo : /\ blRefresh' = Ban(blRefresh, v.pair, RefreshBlacklistTTL)
                                 /\ req'[w] = AfterBlacklisting(req[w], v)
    BY <1>1, <1>2 DEF BlacklistRefresh
  <2>2. QED
    BY <1>1, <1>2, <2>1 DEF Ban
<1>3. ASSUME NEW w \in Workers, RefreshRotate(w), ~(blRefresh[p] > 0)
      PROVE  req[w].pair = p
  BY <1>1, <1>3 DEF RefreshRotate, Ban
<1>4. CASE LoseCache
  BY <1>4 DEF LoseCache
<1>5. CASE Tick
  BY <1>1, <1>5, SessionAssumption DEF Tick, Countdown
<1>6. QED
  BY <1>2, <1>3, <1>4, <1>5, HistoryShape DEF IInv

(* Whoever stores a pair, it was signed and not yet stored. *)
LEMMA StoresFresh ==
    ASSUME IInv, NEW w \in Workers, LoginCreate(w) \/ RefreshStore(w)
    PROVE  /\ req[w].new \in 1..signed /\ req[w].new \in Pairs /\ req[w].new # 0
           /\ req[w].pc # "respond" /\ ~\E s : <<req[w].new, s>> \in issuedFor
           /\ req'[w] = [req[w] EXCEPT !.pc = "respond"]
<1>1. Named(req[w], signed) /\ req \in [Workers -> Request]
  BY DEF IInv, PInv, PairsSigned, TypeOK
<1>2. req[w].new \in 1..signed /\ req[w].pc # "respond"
  BY <1>1 DEF LoginCreate, RefreshStore, Named
<1>3. req[w].new \in Pairs /\ req[w].new # 0
  BY <1>2, PairNumbers, SessionAssumption DEF IInv, PInv, TypeOK
<1>4. QED
  BY <1>1, <1>2, <1>3 DEF IInv, Issued, LoginCreate, RefreshStore

LEMMA NextIssued == ~SameSecond /\ IInv /\ [Next]_vars => Issued'
<1> SUFFICES ASSUME ~SameSecond, IInv, [Next]_vars PROVE Issued'
  OBVIOUS
<1>1. /\ signed \in Nat /\ created \in Nat /\ signed' \in Nat /\ signed <= signed'
      /\ \A n \in 1..signed : n \in 1..signed'
  BY OnlySigned, SessionAssumption DEF IInv, PInv, TypeOK
<1>2. /\ \A p, s : <<p, s>> \in issuedFor => p \in 1..signed /\ s \in 1..created
      /\ \A p, s, t : <<p, s>> \in issuedFor /\ <<p, t>> \in issuedFor => s = t
  BY DEF IInv, Issued
<1>3. \/ issuedFor' = issuedFor /\ created' = created
      \/ \E w \in Workers, s \in 1..created + 1 :
           /\ LoginCreate(w) \/ RefreshStore(w)
           /\ s = created + 1 => created' = created + 1
           /\ created' \in {created, created + 1}
           /\ issuedFor' = issuedFor \cup {<<req[w].new, s>>}
  <2>1. ASSUME NEW w \in Workers, RefreshStore(w) PROVE req[w].sid \in 1..created
    BY <1>2, <2>1 DEF IInv, AllListed, Listed, RefreshStore
  <2>2. created + 1 \in 1..created + 1 /\ \A n \in 1..created : n \in 1..created + 1 /\ n # created + 1
    BY <1>1
  <2>3. QED
    BY <2>1, <2>2, IssuedGrows
<1>4. /\ \A p, s : <<p, s>> \in issuedFor' => p \in 1..signed' /\ s \in 1..created'
      /\ \A p, s, t : <<p, s>> \in issuedFor' /\ <<p, t>> \in issuedFor' => s = t
  <2>1. CASE issuedFor' = issuedFor /\ created' = created
    BY <1>1, <1>2, <2>1
  <2>2. ASSUME NEW w \in Workers, NEW s \in 1..created + 1, LoginCreate(w) \/ RefreshStore(w),
               s = created + 1 => created' = created + 1,
               created' \in {created, created + 1},
               issuedFor' = issuedFor \cup {<<req[w].new, s>>}
        PROVE  /\ \A p, t : <<p, t>> \in issuedFor' => p \in 1..signed' /\ t \in 1..created'
               /\ \A p, t, u : <<p, t>> \in issuedFor' /\ <<p, u>> \in issuedFor' => t = u
    <3>1. req[w].new \in 1..signed' /\ ~\E t : <<req[w].new, t>> \in issuedFor
      BY <1>1, <2>2, StoresFresh
    <3>2. s \in 1..created' /\ \A t \in 1..created : t \in 1..created'
      BY <1>1, <2>2
    <3>3. \A p, t : <<p, t>> \in issuedFor' => <<p, t>> \in issuedFor \/ (p = req[w].new /\ t = s)
      BY <2>2
    <3>4. ASSUME NEW p, NEW t, <<p, t>> \in issuedFor' PROVE p \in 1..signed' /\ t \in 1..created'
      BY <1>1, <1>2, <3>1, <3>2, <3>3, <3>4
    <3>5. ASSUME NEW p, NEW t, NEW u, <<p, t>> \in issuedFor', <<p, u>> \in issuedFor'
          PROVE  t = u
      <4>1. <<p, t>> \in issuedFor \/ (p = req[w].new /\ t = s)
        BY <3>3, <3>5
      <4>2. <<p, u>> \in issuedFor \/ (p = req[w].new /\ u = s)
        BY <3>3, <3>5
      <4>3. QED
        BY <1>2, <3>1, <4>1, <4>2
    <3>6. QED
      BY <3>4, <3>5
  <2>3. QED
    BY <1>3, <2>1, <2>2
<1>5. ASSUME NEW s \in ActiveRows' PROVE <<session'[s].pair, s>> \in issuedFor'
  <2>1. s \in Sids /\ session'[s].status = "active"
    BY DEF ActiveRows, Active
  <2>2. session \in [Sids -> [user : Users \cup {NoUser}, pair : 0..MaxPairs,
                              status : {"absent", "active", "revoked"}]]
    BY DEF IInv, PInv, TypeOK
  <2>3. CASE Active(s) /\ session'[s].pair = session[s].pair
    BY <2>1, <2>3, IssuedGrows DEF IInv, Issued, ActiveRows
  <2>4. ASSUME NEW w \in Workers, LoginCreate(w) \/ RefreshStore(w),
               ~(Active(s) /\ session'[s].pair = session[s].pair)
        PROVE  <<session'[s].pair, s>> \in issuedFor'
    <3>1. CASE LoginCreate(w)
      <4>1. s = created + 1 /\ session'[s].pair = req[w].new
        BY <2>1, <2>2, <2>4, <3>1 DEF LoginCreate, Active
      <4>2. QED
        BY <3>1, <4>1 DEF LoginCreate
    <3>2. CASE RefreshStore(w)
      <4>1. s = req[w].sid
        BY <2>1, <2>2, <2>4, <3>2 DEF RefreshStore, Active
      <4>2. session'[s].pair = req[w].new
        BY <2>1, <2>2, <3>2, <4>1 DEF RefreshStore, Rotated
      <4>3. QED
        BY <3>2, <4>1, <4>2 DEF RefreshStore
    <3>3. QED
      BY <2>4, <3>1, <3>2
  <2>5. QED
    BY <2>1, <2>3, <2>4, RowShape DEF IInv, PInv
<1>6. ASSUME NEW p \in Pairs, blRefresh'[p] > 0 PROVE \E s : <<p, s>> \in issuedFor'
  <2>1. issuedFor \subseteq issuedFor'
    BY IssuedGrows
  <2>3. ASSUME NEW w \in Workers, RefreshRotate(w), req[w].pair = p
        PROVE  \E s : <<p, s>> \in issuedFor
    BY <2>3 DEF RefreshRotate, IInv, AllListed, Listed
  <2>4. ASSUME NEW w \in Workers, NEW v \in req[w].todo, v.pair = p
        PROVE  \E s : <<p, s>> \in issuedFor
    BY <2>4 DEF IInv, AllListed, Listed
  <2>5. \E s : <<p, s>> \in issuedFor
    <3>1. CASE blRefresh[p] > 0
      BY <3>1 DEF IInv, Issued
    <3>2. CASE \E w \in Workers : RefreshRotate(w) /\ req[w].pair = p
      BY <2>3, <3>2
    <3>3. CASE \E w \in Workers : \E v \in req[w].todo : v.pair = p
      BY <2>4, <3>3
    <3>4. QED
      BY <1>6, <3>1, <3>2, <3>3, BanShape
  <2>6. QED
    BY <2>1, <2>5
<1>7. ASSUME NEW w \in Workers, req'[w].new # 0, req'[w].pc # "respond",
             NEW s, <<req'[w].new, s>> \in issuedFor'
      PROVE  FALSE
  <2>1. PInv
    BY DEF IInv
  <2>2. req \in [Workers -> Request]
    BY DEF IInv, PInv, TypeOK
  <2>3. <<req'[w].new, s>> \notin issuedFor
    <3>1. ASSUME <<req'[w].new, s>> \in issuedFor PROVE FALSE
      <4>1. req'[w].new \in 1..signed
        BY <1>2, <3>1
      <4>2. req'[w].new = req[w].new
        BY <1>1, <1>7, <2>1, <4>1, NewShape, OnlyOwn, OtherSteps DEF PInv
      <4>3. req[w].pc = "respond"
        BY <1>7, <3>1, <4>2 DEF IInv, Issued
      <4>4. Respond(w) \/ Fail(w) \/ req'[w] = req[w]
        <5>1. ~Arrive(w)
          BY <4>3, ArrivesIdle DEF Idle
        <5>2. Proceed(w) => Respond(w)
          BY <4>3 DEF Proceed, BlacklistAccess, BlacklistRefresh, Deactivate, Done,
             LoginCreate, RefreshUser, RefreshSession, RefreshRotate, RefreshStore,
             LogoutSession, OthersCurrent, OthersList, RevokeAllUpdateMany
        <5>3. QED
          BY <2>1, <5>1, <5>2, OnlyOwn, OtherSteps DEF PInv
      <4>5. QED
        BY <1>7, <2>2, <4>3, <4>4 DEF Respond, Fail, Finish, Idle
    <3>2. QED
      BY <3>1
  <2>4. PICK v \in Workers : /\ LoginCreate(v) \/ RefreshStore(v)
                             /\ req'[w].new = req[v].new
    BY <1>3, <1>7, <2>3
  <2>5. v # w
    <3>1. req'[v] = [req[v] EXCEPT !.pc = "respond"] /\ req[v] \in Request
      BY <2>2, <2>4, StoresFresh
    <3>2. req'[v].pc = "respond"
      BY <3>1 DEF Request
    <3>3. QED
      BY <1>7, <3>2
  <2>6. req'[w] = req[w]
    BY <2>1, <2>4, <2>5, OnlyOwn DEF PInv, Proceed
  <2>7. QED
    BY <1>7, <2>4, <2>5, <2>6 DEF IInv, Unshared
<1>8. QED
  BY <1>4, <1>5, <1>6, <1>7 DEF Issued

(* Nothing leaves a request's list by being blacklisted. *)
LEMMA KeptOnList ==
    ASSUME NEW r \in Request, NEW x \in r.todo, NEW v \in r.todo \cup r.marked
    PROVE  LET c == AfterBlacklisting(r, x) IN v \in c.todo \cup c.marked
<1>1. CASE r.op \in PerSession
  <2>1. AfterBlacklisting(r, x) = [r EXCEPT !.pc = "deactivate"]
    BY <1>1 DEF AfterBlacklisting, PerSession
  <2>2. QED
    BY <2>1 DEF Request
<1>2. CASE r.op \notin PerSession /\ r.todo \ {x} # {}
  BY <1>2 DEF AfterBlacklisting, Request
<1>3. CASE r.op \notin PerSession /\ r.todo \ {x} = {}
  BY <1>3 DEF AfterBlacklisting, Request
<1>4. QED
  BY <1>1, <1>2, <1>3

(* A row that stays active with a banned token stays in the hands of the   *)
(* request that is about to rotate or to revoke it.                        *)
LEMMA PendingStays ==
    ASSUME IInv, AllListed', ~Failures, [Next]_vars, NEW s \in Sids,
           session'[s].status = "active", Active(s),
           NEW w \in Workers, Pending(w, s), ~(RefreshStore(w) /\ req[w].sid = s)
    PROVE  Pending(w, s)'
<1>1. /\ req \in [Workers -> Request] /\ req[w] \in Request
      /\ session \in [Sids -> [user : Users \cup {NoUser}, pair : 0..MaxPairs,
                               status : {"absent", "active", "revoked"}]]
  BY DEF IInv, PInv, TypeOK
<1>2. CASE req'[w] = req[w]
  BY <1>2 DEF Pending
<1>3. ASSUME Arrive(w) \/ Proceed(w) PROVE Pending(w, s)'
  <2>1. CASE req[w].op = "refresh" /\ req[w].pc = "store" /\ req[w].sid = s
    <3>1. ~Arrive(w)
      BY <2>1, ArrivesIdle DEF Idle
    <3>2. QED
      BY <1>3, <2>1, <3>1 DEF Proceed, BlacklistAccess, BlacklistRefresh, Deactivate, Done,
         LoginCreate, Respond, RefreshUser, RefreshSession, RefreshRotate,
         LogoutSession, OthersCurrent, OthersList, RevokeAllUpdateMany
  <2>2. ASSUME NEW v \in req[w].todo \cup req[w].marked, v.sid = s PROVE Pending(w, s)'
    <3>1. req[w].pc \in Looping /\ s \in ActiveRows
      BY <2>2 DEF IInv, AllListed, Listed, ActiveRows
    <3>2. v \in req'[w].todo \cup req'[w].marked
      <4>1. CASE BlacklistAccess(w)
        BY <1>1, <2>2, <4>1 DEF BlacklistAccess, Request
      <4>2. CASE BlacklistRefresh(w)
        <5>1. PICK x \in req[w].todo : req'[w] = AfterBlacklisting(req[w], x)
          BY <1>1, <4>2 DEF BlacklistRefresh
        <5>2. QED
          BY <1>1, <2>2, <5>1, KeptOnList
      <4>3. CASE Deactivate(w)
        <5>1. PICK x \in req[w].todo :
                  /\ session' = [session EXCEPT ![x.sid].status = "revoked"]
                  /\ \/ req'[w] = [req[w] EXCEPT !.todo = req[w].todo \ {x}]
                     \/ req'[w] = Enter(req[w], req[w].todo \ {x})
          BY <1>1, <4>3 DEF Deactivate
        <5>2. x # v
          BY <1>1, <2>2, <5>1
        <5>3. \A r, todo : r \in Request => /\ Enter(r, todo).todo = todo
                                            /\ Enter(r, todo).marked = r.marked
          BY DEF Enter, Request
        <5>4. QED
          BY <1>1, <2>2, <5>1, <5>2, <5>3 DEF Request
      <4>4. CASE RevokeAllUpdateMany(w)
        BY <1>1, <2>2, <4>4 DEF RevokeAllUpdateMany, Request
      <4>5. ~Arrive(w)
        BY <3>1, ArrivesIdle DEF Idle, Looping
      <4>6. QED
        BY <1>3, <3>1, <4>1, <4>2, <4>3, <4>4, <4>5 DEF Proceed, Looping, Done, LoginCreate,
           Respond, RefreshUser, RefreshSession, RefreshRotate, RefreshStore, LogoutSession,
           OthersCurrent, OthersList
    <3>3. QED
      BY <2>2, <3>2 DEF Pending
  <2>3. QED
    BY <2>1, <2>2 DEF Pending
<1>4. QED
  BY <1>2, <1>3, OnlyOwn, OtherSteps DEF IInv, PInv, Fail

LEMMA NextStrandless ==
    ~Failures /\ IInv /\ Issued' /\ AllListed' /\ NoStrandedSession /\ [Next]_vars
      => NoStrandedSession'
<1> SUFFICES ASSUME ~Failures, IInv, Issued', AllListed', NoStrandedSession, [Next]_vars,
                    NEW s \in Sids, session'[s].status = "active",
                    blRefresh'[session'[s].pair] > 0
             PROVE  \E w \in Workers : Pending(w, s)'
  BY DEF NoStrandedSession, Active
<1>1. req \in [Workers -> Request]
  BY DEF IInv, PInv, TypeOK
<1>2. ASSUME NEW w \in Workers, LoginCreate(w) \/ RefreshStore(w),
             session'[s].pair = req[w].new
      PROVE  FALSE
  <2>1. req[w].new \in Pairs /\ ~\E t : <<req[w].new, t>> \in issuedFor
    BY <1>2, StoresFresh
  <2>2. blRefresh' = blRefresh
    BY <1>2 DEF LoginCreate, RefreshStore, cacheVars
  <2>3. QED
    BY <1>2, <2>1, <2>2 DEF IInv, Issued
<1>3. Active(s) /\ session'[s].pair = session[s].pair
  BY <1>2, RowShape DEF IInv, PInv
<1> DEFINE p == session[s].pair
<1>4. p \in Pairs /\ <<p, s>> \in issuedFor
  <2>1. <<p, s>> \in issuedFor
    BY <1>3 DEF IInv, Issued, ActiveRows
  <2>2. QED
    BY <2>1, PairNumbers DEF IInv, Issued
<1>5. CASE blRefresh[p] > 0
  <2>1. PICK w \in Workers : Pending(w, s)
    BY <1>3, <1>5 DEF NoStrandedSession
  <2>2. ~(RefreshStore(w) /\ req[w].sid = s)
    <3>1. ASSUME RefreshStore(w), req[w].sid = s PROVE FALSE
      <4>1. session'[s].pair = req[w].new
        BY <3>1 DEF RefreshStore, Rotated, IInv, PInv, TypeOK
      <4>2. QED
        BY <1>2, <3>1, <4>1
    <3>2. QED
      BY <3>1
  <2>3. QED
    BY <1>3, <2>1, <2>2, PendingStays
<1>6. ASSUME NEW w \in Workers, RefreshRotate(w), req[w].pair = p PROVE Pending(w, s)'
  <2>1. <<p, req[w].sid>> \in issuedFor /\ req[w].op = "refresh"
    BY <1>6 DEF RefreshRotate, IInv, AllListed, Listed, PInv, PairsSigned, Named
  <2>2. req[w].sid = s
    BY <1>4, <2>1 DEF IInv, Issued
  <2>3. PICK q \in Pairs : req'[w] = [req[w] EXCEPT !.pc = "store", !.new = q]
    BY <1>1, <1>6 DEF RefreshRotate
  <2>4. req[w] \in Request
    BY <1>1
  <2>5. QED
    BY <2>1, <2>2, <2>3, <2>4 DEF Pending, Request
<1>7. ASSUME NEW w \in Workers, BlacklistRefresh(w),
             NEW v \in req[w].todo, v.pair = p, req'[w] = AfterBlacklisting(req[w], v)
      PROVE  Pending(w, s)'
  <2>1. <<p, v.sid>> \in issuedFor
    BY <1>7 DEF IInv, AllListed, Listed
  <2>2. v.sid = s
    BY <1>4, <2>1 DEF IInv, Issued
  <2>3. v \in req'[w].todo \cup req'[w].marked
    BY <1>1, <1>7, KeptOnList
  <2>4. QED
    BY <2>2, <2>3 DEF Pending
<1>8. QED
  BY <1>3, <1>4, <1>5, <1>6, <1>7, BanShape

(* Between any two handlers and whatever the cache loses: an active        *)
(* session with a blacklisted refresh token is in the hands of a request   *)
(* that will rotate or revoke it, unless an await fails or two tokens are  *)
(* signed alike within a second (refreshToken 381-395, auth.service        *)
(* 198-249).                                                               *)
THEOREM NothingStranded ==
    ~Failures /\ ~SameSecond => (Spec => []NoStrandedSession)
<1> SUFFICES ASSUME ~Failures, ~SameSecond PROVE Spec => []NoStrandedSession
  OBVIOUS
<1>1. Init => IInv /\ NoStrandedSession
  <2>1. Init => PairsSigned
    BY IdleNamed DEF Init, PairsSigned, Active
  <2>2. Init => AllListed
    BY IdleListed DEF Init, AllListed
  <2>3. QED
    BY <2>1, <2>2, InitTypeOK
       DEF Init, Idle, IInv, PInv, Unshared, Issued, ActiveRows, Active, NoStrandedSession
<1>2. IInv /\ NoStrandedSession /\ [Next]_vars => (IInv /\ NoStrandedSession)'
  BY NextTypeOK, NextPairsSigned, NextUnshared, NextIssued, NextAllListed, NextStrandless
     DEF IInv, PInv
<1>3. QED
  BY <1>1, <1>2, PTL DEF Spec

-----------------------------------------------------------------------------
(* The rows live as SessionLifecycle says.                                 *)

(* A login is for a user, and lists name rows that exist. *)
Ordered(r, n) ==
    /\ r.op = "login" => r.user \in Users
    /\ \A v \in r.todo \cup r.marked : v.sid \in 1..n

RowsOrdered ==
    /\ \A s \in Sids : IF s > created THEN session[s].status = "absent"
                                      ELSE session[s].status # "absent"
    /\ \A s \in ActiveRows : session[s].user \in Users
    /\ \A w \in Workers : Ordered(req[w], created)

OInv == PInv /\ RowsOrdered

LEMMA CreatedGrows ==
    ASSUME OInv, [Next]_vars
    PROVE  created \in Nat /\ created' \in Nat /\ created <= created'
BY IssuedGrows, SessionAssumption DEF OInv, PInv, TypeOK

LEMMA EnterOrdered ==
    ASSUME NEW n \in Nat, NEW r \in Request, NEW todo \in SUBSET Snapshots,
           r.op = "login" => r.user \in Users,
           \A v \in todo \cup r.marked : v.sid \in 1..n
    PROVE  Ordered(Enter(r, todo), n)
BY DEF Ordered, Enter, Request

LEMMA AfterBlacklistingOrdered ==
    ASSUME NEW n \in Nat, NEW r \in Request, NEW v \in r.todo, Ordered(r, n)
    PROVE  Ordered(AfterBlacklisting(r, v), n)
<1>1. CASE r.op \in PerSession
  <2>1. AfterBlacklisting(r, v) = [r EXCEPT !.pc = "deactivate"]
    BY <1>1 DEF AfterBlacklisting, PerSession
  <2>2. QED
    BY <2>1 DEF Request, Ordered
<1>2. CASE r.op \notin PerSession /\ r.todo \ {v} # {}
  <2>1. AfterBlacklisting(r, v) = [r EXCEPT !.todo = r.todo \ {v},
                                            !.marked = r.marked \cup {v},
                                            !.pc = "blacklistAccess"]
    BY <1>2 DEF AfterBlacklisting
  <2>2. QED
    BY <2>1 DEF Request, Ordered
<1>3. CASE r.op \notin PerSession /\ r.todo \ {v} = {} /\ r.op = "all"
  <2>1. AfterBlacklisting(r, v) = [r EXCEPT !.todo = {}, !.marked = r.marked \cup {v},
                                            !.pc = "updateMany"]
    BY <1>3 DEF AfterBlacklisting, Afterwards
  <2>2. QED
    BY <2>1 DEF Request, Ordered
<1>4. CASE r.op \notin PerSession /\ r.todo \ {v} = {} /\ r.op # "all"
  <2>1. AfterBlacklisting(r, v) = [r EXCEPT !.todo = r.marked \cup {v}, !.marked = {},
                                            !.pc = "deactivate"]
    BY <1>4 DEF AfterBlacklisting
  <2>2. QED
    BY <2>1 DEF Request, Ordered
<1>5. QED
  BY <1>1, <1>2, <1>3, <1>4

LEMMA OwnOrdered ==
    ASSUME OInv, [Next]_vars, NEW w \in Workers, Arrive(w) \/ Proceed(w) \/ Fail(w)
    PROVE  Ordered(req'[w], created')
<1> DEFINE n == created'
<1>1. /\ req \in [Workers -> Request] /\ req[w] \in Request /\ Idle \in Request
      /\ Ordered(req[w], created)
  BY IdleTyped DEF OInv, PInv, TypeOK, RowsOrdered
<1>2. created \in Nat /\ n \in Nat /\ created <= n
  BY CreatedGrows
<1> HIDE DEF n
<1>3. Ordered(req[w], n) /\ Ordered(Idle, n)
  BY <1>1, <1>2 DEF Ordered, Idle
<1>4. \A r, todo : req' = [req EXCEPT ![w] = Enter(r, todo)] => req'[w] = Enter(r, todo)
  BY <1>1
<1>5. ASSUME NEW S \in SUBSET ActiveRows
      PROVE  /\ {Snapshot(s) : s \in S} \in SUBSET Snapshots
             /\ \A v \in {Snapshot(s) : s \in S} : v.sid \in 1..n
  <2>1. ASSUME NEW s \in S PROVE Snapshot(s) \in Snapshots /\ Snapshot(s).sid \in 1..n
    <3>1. s \in Sids /\ s \in Nat /\ 1 <= s /\ session[s].status # "absent"
      BY SessionAssumption DEF ActiveRows, Active, Sids
    <3>2. s <= created
      BY <1>2, <3>1 DEF OInv, RowsOrdered
    <3>3. QED
      BY <1>2, <3>1, <3>2, SnapshotTyped DEF OInv, PInv, Snapshot
  <2>2. QED
    BY <2>1
<1>6. CASE Fail(w) \/ Done(w) \/ Respond(w)
  BY <1>1, <1>3, <1>6 DEF Fail, Finish, Done, Respond, n
<1>7. CASE \/ BlacklistAccess(w) \/ LoginCreate(w) \/ RefreshStore(w)
           \/ RevokeAllUpdateMany(w)
  <2>1. \E c : req'[w] = [req[w] EXCEPT !.pc = c]
    BY <1>1, <1>7 DEF BlacklistAccess, LoginCreate, RefreshStore, RevokeAllUpdateMany
  <2>2. Ordered(req'[w], n)
    BY <1>1, <1>3, <2>1 DEF Ordered, Request
  <2>3. QED
    BY <2>2 DEF n
<1>8. CASE \/ RefreshUser(w) \/ RefreshSession(w) \/ RefreshRotate(w) \/ OthersCurrent(w)
  <2>1. \/ req'[w] = Idle
        \/ req'[w] = [req[w] EXCEPT !.pc = "session"]
        \/ \E s : req'[w] = [req[w] EXCEPT !.pc = "rotate", !.sid = s]
        \/ \E s : req'[w] = [req[w] EXCEPT !.pc = "list", !.sid = s]
        \/ \E p : req'[w] = [req[w] EXCEPT !.pc = "store", !.new = p]
    BY <1>1, <1>8 DEF RefreshUser, RefreshSession, RefreshRotate, OthersCurrent, Finish
  <2>2. Ordered(req'[w], n)
    BY <1>1, <1>3, <2>1 DEF Ordered, Request
  <2>3. QED
    BY <2>2 DEF n
<1>9. CASE BlacklistRefresh(w)
  <2>1. PICK v \in req[w].todo : req'[w] = AfterBlacklisting(req[w], v)
    BY <1>1, <1>9 DEF BlacklistRefresh
  <2>2. Ordered(req'[w], n)
    BY <1>1, <1>2, <1>3, <2>1, AfterBlacklistingOrdered
  <2>3. QED
    BY <2>2 DEF n
<1>10. CASE Deactivate(w)
  <2>1. PICK v \in req[w].todo :
            \/ req'[w] = [req[w] EXCEPT !.todo = req[w].todo \ {v}]
            \/ req'[w] = Enter(req[w], req[w].todo \ {v})
    BY <1>1, <1>10 DEF Deactivate
  <2>2. req[w].todo \ {v} \in SUBSET Snapshots
    BY <1>1 DEF Request
  <2>3. Ordered(Enter(req[w], req[w].todo \ {v}), n)
    BY <1>1, <1>2, <1>3, <2>2, EnterOrdered DEF Ordered
  <2>4. Ordered([req[w] EXCEPT !.todo = req[w].todo \ {v}], n)
    BY <1>1, <1>3 DEF Ordered, Request
  <2>5. QED
    BY <2>1, <2>3, <2>4 DEF n
<1>11. ASSUME NEW S \in SUBSET ActiveRows, OthersList(w) \/ LogoutSession(w),
              req' = [req EXCEPT ![w] = Enter(req[w], {Snapshot(s) : s \in S})]
       PROVE  Ordered(req'[w], n)
  <2> DEFINE todo == {Snapshot(s) : s \in S}
  <2>1. todo \in SUBSET Snapshots /\ \A v \in todo : v.sid \in 1..n
    BY <1>5
  <2>2. req'[w] = Enter(req[w], todo)
    BY <1>4, <1>11
  <2> HIDE DEF todo
  <2>3. QED
    BY <1>1, <1>2, <1>3, <2>1, <2>2, EnterOrdered DEF Ordered
<1>12. CASE OthersList(w)
  <2>1. ActiveOf(req[w].user) \ {req[w].sid} \in SUBSET ActiveRows
    BY DEF ActiveOf, ActiveRows
  <2>2. Ordered(req'[w], n)
    BY <1>11, <1>12, <2>1 DEF OthersList
  <2>3. QED
    BY <2>2 DEF n
<1>13. CASE LogoutSession(w)
  <2>1. ASSUME NEW s \in RowsOf(req[w].pair), Active(s),
               req' = [req EXCEPT ![w] = Enter(req[w], {Snapshot(s)})]
        PROVE  Ordered(req'[w], n)
    <3>1. {s} \in SUBSET ActiveRows /\ {Snapshot(t) : t \in {s}} = {Snapshot(s)}
      BY <2>1, SessionAssumption DEF RowsOf, ActiveRows, Sids, OInv, PInv, TypeOK
    <3>2. QED
      BY <1>11, <1>13, <2>1, <3>1
  <2>2. req' = [req EXCEPT ![w] = [req[w] EXCEPT !.pc = "done"]] => Ordered(req'[w], n)
    BY <1>1, <1>3 DEF Ordered, Request
  <2>3. QED
    BY <1>13, <2>1, <2>2 DEF LogoutSession, n
<1>14. ASSUME NEW S \in SUBSET ActiveRows, NEW r \in Request, r.marked = {},
              r.op = "login" => r.user \in Users,
              req' = [req EXCEPT ![w] = Enter(r, {Snapshot(s) : s \in S})]
       PROVE  Ordered(req'[w], n)
  <2> DEFINE todo == {Snapshot(s) : s \in S}
  <2>1. todo \in SUBSET Snapshots /\ \A v \in todo : v.sid \in 1..n
    BY <1>5
  <2>2. req'[w] = Enter(r, todo)
    BY <1>4, <1>14
  <2> HIDE DEF todo
  <2>3. QED
    BY <1>2, <1>14, <2>1, <2>2, EnterOrdered
<1>15. ASSUME NEW u \in Users, LoginLookup(w, u) PROVE Ordered(req'[w], n)
  <2> DEFINE r(p) == [Idle EXCEPT !.op = "login", !.user = u, !.new = p]
             S == {s \in LiveOf(u) : Cardinality({t \in LiveOf(u) : t < s}) < Excess(u)}
  <2>1. PICK p \in Pairs : req' = [req EXCEPT ![w] = Enter(r(p), Evicted(u))]
    BY <1>15 DEF LoginLookup
  <2>2. p \in 0..MaxPairs
    BY DEF Pairs
  <2>3. r(p) \in Request /\ r(p).marked = {} /\ r(p).user = u
    BY <1>1, <2>2 DEF Request, Idle
  <2>4. Evicted(u) = {Snapshot(s) : s \in S} /\ S \in SUBSET ActiveRows
    BY DEF Evicted, LiveOf, ActiveOf, ActiveRows
  <2> HIDE DEF r, S
  <2>5. QED
    BY <1>14, <2>1, <2>3, <2>4
<1>16. ASSUME NEW u \in Users, RevokeAllList(w, u) PROVE Ordered(req'[w], n)
  <2> DEFINE r == [Idle EXCEPT !.op = "all", !.user = u]
  <2>1. r \in Request /\ r.marked = {} /\ r.op = "all"
    BY <1>1 DEF Request, Idle
  <2>2. ActiveOf(u) \in SUBSET ActiveRows
    BY DEF ActiveOf, ActiveRows
  <2>3. req' = [req EXCEPT ![w] = Enter(r, {Snapshot(s) : s \in ActiveOf(u)})]
    BY <1>16 DEF RevokeAllList
  <2> HIDE DEF r
  <2>4. QED
    BY <1>14, <2>1, <2>2, <2>3
<1>17. ASSUME NEW s \in Sids, RevokeOneLookup(w, s) PROVE Ordered(req'[w], n)
  <2> DEFINE r == [Idle EXCEPT !.op = "one", !.user = session[s].user]
  <2>1. req' = [req EXCEPT ![w] = Enter(r, {Snapshot(s)})] /\ {s} \in SUBSET ActiveRows
    BY <1>17 DEF RevokeOneLookup, ActiveRows
  <2>2. r \in Request /\ r.marked = {} /\ r.op = "one"
    BY <1>1 DEF Request, Idle, OInv, PInv, TypeOK
  <2>3. {Snapshot(t) : t \in {s}} = {Snapshot(s)}
    OBVIOUS
  <2> HIDE DEF r
  <2>4. QED
    BY <1>14, <2>1, <2>2, <2>3
<1>18. ASSUME NEW p \in Pairs, RefreshCheck(w, p) \/ Logout(w, p) \/ LogoutOthers(w, p)
       PROVE  Ordered(req'[w], n)
  BY <1>1, <1>18 DEF RefreshCheck, Logout, LogoutOthers, Authenticated, Idle, Ordered
<1>19. QED
  BY <1>6, <1>7, <1>8, <1>9, <1>10, <1>12, <1>13, <1>15, <1>16, <1>17, <1>18
     DEF Arrive, Proceed, n

LEMMA NextRowsOrdered == OInv /\ [Next]_vars => RowsOrdered'
<1> SUFFICES ASSUME OInv, [Next]_vars PROVE RowsOrdered'
  OBVIOUS
<1>1. created \in Nat /\ created' \in Nat /\ created <= created'
  BY CreatedGrows
<1>2. /\ session \in [Sids -> [user : Users \cup {NoUser}, pair : 0..MaxPairs,
                               status : {"absent", "active", "revoked"}]]
      /\ Sids \subseteq Nat
      /\ \A s \in Sids : IF s > created THEN session[s].status = "absent"
                                        ELSE session[s].status # "absent"
      /\ \A s \in Sids : Active(s) => session[s].user \in Users
      /\ \A w \in Workers : Ordered(req[w], created) /\ Named(req[w], signed)
  BY SessionAssumption DEF OInv, PInv, PairsSigned, TypeOK, RowsOrdered, Sids, ActiveRows
<1>3. ASSUME NEW s \in Sids
      PROVE  /\ IF s > created' THEN session'[s].status = "absent"
                                ELSE session'[s].status # "absent"
             /\ session'[s].status = "active" => session'[s].user \in Users
  <2>1. ASSUME NEW w \in Workers, LoginCreate(w)
        PROVE  /\ IF s > created' THEN session'[s].status = "absent"
                                  ELSE session'[s].status # "absent"
               /\ session'[s].status = "active" => session'[s].user \in Users
    <3>1. created' = created + 1 /\ req[w].user \in Users
      BY <1>2, <2>1 DEF LoginCreate, Ordered, Named
    <3>2. CASE s = created + 1
      BY <1>2, <2>1, <3>1, <3>2 DEF LoginCreate
    <3>3. CASE s # created + 1
      <4>1. session'[s] = session[s]
        BY <1>2, <2>1, <3>3 DEF LoginCreate
      <4>2. s \in Nat /\ (s > created' <=> s > created)
        BY <1>1, <1>2, <3>1, <3>3
      <4>3. QED
        BY <1>2, <4>1, <4>2 DEF Active
    <3>4. QED
      BY <3>2, <3>3
  <2>2. ASSUME NEW w \in Workers, RefreshStore(w)
        PROVE  /\ session'[s].status = session[s].status /\ session'[s].user = session[s].user
               /\ created' = created
    BY <1>2, <2>2 DEF RefreshStore, Rotated
  <2>3. ASSUME NEW w \in Workers, Deactivate(w)
        PROVE  /\ \/ session'[s].status = session[s].status
                  \/ session'[s].status = "revoked" /\ s \in 1..created
               /\ session'[s].user = session[s].user /\ created' = created
    <3>1. PICK v \in req[w].todo :
              session' = [session EXCEPT ![v.sid].status = "revoked"]
      BY <2>3 DEF Deactivate
    <3>2. v.sid \in 1..created
      BY <1>2 DEF Ordered
    <3>3. QED
      BY <1>2, <2>3, <3>1, <3>2 DEF Deactivate
  <2>4. ASSUME NEW w \in Workers, RevokeAllUpdateMany(w)
        PROVE  /\ \/ session'[s].status = session[s].status
                  \/ session'[s].status = "revoked" /\ session[s].status = "active"
               /\ session'[s].user = session[s].user /\ created' = created
    BY <1>2, <2>4 DEF RevokeAllUpdateMany, ActiveOf, Active
  <2>5. ASSUME ~\E w \in Workers : \/ LoginCreate(w) \/ RefreshStore(w) \/ Deactivate(w)
                                   \/ RevokeAllUpdateMany(w)
        PROVE  session' = session /\ created' = created
    BY <2>5 DEF Next, vars, rowVars, Arrive, Proceed, Fail, LoginLookup, RevokeAllList,
       RefreshCheck, Logout, LogoutOthers, Authenticated, RevokeOneLookup, BlacklistAccess,
       BlacklistRefresh, Done, Respond, RefreshUser, RefreshSession, RefreshRotate,
       LogoutSession, OthersCurrent, OthersList, SetUserStatus, LoseCache, Tick
  <2>6. QED
    BY <1>1, <1>2, <2>1, <2>2, <2>3, <2>4, <2>5 DEF Active
<1>4. ASSUME NEW w \in Workers PROVE Ordered(req'[w], created')
  <2>1. Ordered(req[w], created')
    BY <1>1, <1>2 DEF Ordered
  <2>2. CASE Arrive(w) \/ Proceed(w) \/ Fail(w)
    BY <2>2, OwnOrdered
  <2>3. CASE req'[w] = req[w]
    BY <2>1, <2>3
  <2>4. QED
    BY <2>2, <2>3, OnlyOwn, OtherSteps DEF OInv, PInv
<1>5. QED
  BY <1>3, <1>4 DEF RowsOrdered, ActiveRows, Active

(* Every step creates one row, or revokes active rows of one user, or      *)
(* leaves what SessionLifecycle sees of the rows alone.                    *)
LEMMA StepLives ==
    ASSUME OInv, [Next]_vars
    PROVE  [Lifecycle!Next]_(Lifecycle!lifecycleVars)
<1> DEFINE st == [s \in Sids |-> session[s].status]
           ow == [s \in Sids |-> session[s].user]
<1>1. /\ session \in [Sids -> [user : Users \cup {NoUser}, pair : 0..MaxPairs,
                               status : {"absent", "active", "revoked"}]]
      /\ created \in Nat /\ Sids \subseteq Nat
      /\ \A s \in Sids : IF s > created THEN session[s].status = "absent"
                                        ELSE session[s].status # "absent"
      /\ \A s \in Sids : Active(s) => session[s].user \in Users
      /\ \A w \in Workers : Ordered(req[w], created) /\ Named(req[w], signed)
  BY SessionAssumption DEF OInv, PInv, PairsSigned, TypeOK, RowsOrdered, Sids, ActiveRows
<1>2. ASSUME \A s \in Sids : /\ session'[s].status = session[s].status
                             /\ session'[s].user = session[s].user
      PROVE  UNCHANGED Lifecycle!lifecycleVars
  BY <1>2 DEF Lifecycle!lifecycleVars
<1>3. ASSUME NEW w \in Workers, LoginCreate(w)
      PROVE  Lifecycle!Next
  <2>1. PICK n \in Sids : n = created + 1
    BY <1>3 DEF LoginCreate
  <2>2. PICK u \in Users : u = req[w].user
    BY <1>1, <1>3 DEF LoginCreate, Ordered, Named
  <2>3. session' = [session EXCEPT ![n] = [user |-> u, pair |-> req[w].new,
                                           status |-> "active"]]
    BY <1>3, <2>1, <2>2 DEF LoginCreate
  <2>4. st[n] = "absent"
    BY <1>1, <2>1
  <2>5. st' = [st EXCEPT ![n] = "active"]
    BY <1>1, <2>3
  <2>6. ow' = [ow EXCEPT ![n] = u]
    BY <1>1, <2>3
  <2>7. Lifecycle!Create(n, u)
    BY <2>4, <2>5, <2>6 DEF Lifecycle!Create
  <2>8. QED
    BY <2>7 DEF Lifecycle!Next
<1>4. ASSUME NEW w \in Workers, RefreshStore(w)
      PROVE  UNCHANGED Lifecycle!lifecycleVars
  <2>1. \A s \in Sids : /\ session'[s].status = session[s].status
                        /\ session'[s].user = session[s].user
    BY <1>1, <1>4 DEF RefreshStore, Rotated
  <2>2. QED
    BY <1>2, <2>1
<1>5. ASSUME NEW S \in SUBSET Sids, NEW u \in Users, S # {},
             \A s \in S : Active(s) /\ session[s].user = u,
             session' = [s \in Sids |-> IF s \in S THEN [session[s] EXCEPT !.status = "revoked"]
                                                   ELSE session[s]]
      PROVE  Lifecycle!Next
  <2>1. st' = [s \in Sids |-> IF s \in S THEN "revoked" ELSE st[s]]
    BY <1>1, <1>5
  <2>2. ow' = ow
    BY <1>1, <1>5
  <2>3. \A s \in S : st[s] = "active" /\ ow[s] = u
    BY <1>5 DEF Active
  <2>4. Lifecycle!Revoke(S, u)
    BY <1>5, <2>1, <2>2, <2>3 DEF Lifecycle!Revoke
  <2>5. QED
    BY <1>5, <2>4 DEF Lifecycle!Next
<1>6. ASSUME NEW w \in Workers, Deactivate(w)
      PROVE  Lifecycle!Next \/ UNCHANGED Lifecycle!lifecycleVars
  <2>1. PICK v \in req[w].todo : session' = [session EXCEPT ![v.sid].status = "revoked"]
    BY <1>6 DEF Deactivate
  <2>2. v.sid \in 1..created
    BY <1>1 DEF Ordered
  <2>3. v.sid \in Sids
    BY <2>2, SessionAssumption DEF Sids, OInv, PInv, TypeOK
  <2>4. CASE Active(v.sid)
    <3>1. {v.sid} \in SUBSET Sids /\ session[v.sid].user \in Users
      BY <1>1, <2>3, <2>4
    <3>2. session' = [s \in Sids |-> IF s \in {v.sid}
                                       THEN [session[s] EXCEPT !.status = "revoked"]
                                       ELSE session[s]]
      BY <1>1, <2>1, <2>3
    <3>3. \A s \in {v.sid} : Active(s) /\ session[s].user = session[v.sid].user
      BY <2>4
    <3>4. QED
      BY <1>5, <3>1, <3>2, <3>3
  <2>5. CASE ~Active(v.sid)
    <3>1. session[v.sid].status = "revoked"
      BY <1>1, <2>2, <2>3, <2>5 DEF Active
    <3>2. \A s \in Sids : /\ session'[s].status = session[s].status
                          /\ session'[s].user = session[s].user
      BY <1>1, <2>1, <3>1
    <3>3. QED
      BY <1>2, <3>2
  <2>6. QED
    BY <2>4, <2>5
<1>7. ASSUME NEW w \in Workers, RevokeAllUpdateMany(w)
      PROVE  Lifecycle!Next \/ UNCHANGED Lifecycle!lifecycleVars
  <2> DEFINE S == ActiveOf(req[w].user)
  <2>1. S \in SUBSET Sids /\ \A s \in S : Active(s) /\ session[s].user = req[w].user
    BY DEF ActiveOf
  <2>2. session' = [s \in Sids |-> IF s \in S THEN [session[s] EXCEPT !.status = "revoked"]
                                              ELSE session[s]]
    BY <1>7 DEF RevokeAllUpdateMany
  <2> HIDE DEF S
  <2>3. CASE S = {}
    <3>1. \A s \in Sids : /\ session'[s].status = session[s].status
                          /\ session'[s].user = session[s].user
      BY <2>2, <2>3
    <3>2. QED
      BY <1>2, <3>1
  <2>4. CASE S # {}
    <3>1. req[w].user \in Users
      BY <1>1, <2>1, <2>4
    <3>2. QED
      BY <1>5, <2>1, <2>2, <2>4, <3>1
  <2>5. QED
    BY <2>3, <2>4
<1>8. ASSUME ~\E w \in Workers : \/ LoginCreate(w) \/ RefreshStore(w) \/ Deactivate(w)
                                 \/ RevokeAllUpdateMany(w)
      PROVE  session' = session
  BY <1>8 DEF Next, vars, rowVars, Arrive, Proceed, Fail, LoginLookup, RevokeAllList,
     RefreshCheck, Logout, LogoutOthers, Authenticated, RevokeOneLookup, BlacklistAccess,
     BlacklistRefresh, Done, Respond, RefreshUser, RefreshSession, RefreshRotate,
     LogoutSession, OthersCurrent, OthersList, SetUserStatus, LoseCache, Tick
<1>9. QED
  BY <1>2, <1>3, <1>4, <1>6, <1>7, <1>8

(* Whatever requests overlap and fail, the rows of user_sessions only go   *)
(* from absent to active to revoked, and never change their owner: the     *)
(* handlers of AuthService implement SessionLifecycle.                     *)
THEOREM RefinesLifecycle == Spec => LifecycleSpec
<1>1. Init => Lifecycle!Init
  BY DEF Init, Lifecycle!Init
<1>2. Init => OInv
  <2>1. Init => PairsSigned
    BY IdleNamed DEF Init, PairsSigned, Active
  <2>2. Init => RowsOrdered
    BY SessionAssumption DEF Init, Idle, RowsOrdered, Ordered, ActiveRows, Active, Sids
  <2>3. QED
    BY <2>1, <2>2, InitTypeOK DEF OInv, PInv
<1>3. OInv /\ [Next]_vars => OInv'
  BY NextTypeOK, NextPairsSigned, NextRowsOrdered DEF OInv, PInv
<1>4. OInv /\ [Next]_vars => [Lifecycle!Next]_(Lifecycle!lifecycleVars)
  BY StepLives
<1>5. QED
  BY <1>1, <1>2, <1>3, <1>4, PTL DEF Spec, LifecycleSpec, Lifecycle!Spec

-----------------------------------------------------------------------------
(* Overlapping revocations.  A request bans the access tokens of its list  *)
(* before it clears isActive, and a row that is rotated or created         *)
(* meanwhile is crossed.                                                   *)

Listing == {"blacklistAccess", "blacklistRefresh", "deactivate", "updateMany",
            "done"}

(* While request r works through its list, the list names rows as they     *)
(* still are or crossed ones (rows, burnt, cr: the rows, the access tokens *)
(* ever banned and the crossed rows); whoever is about to lose isActive    *)
(* has had its token banned; revokeAllUserSessions has every active row    *)
(* that is not crossed on its list, those it is through with included.     *)
Backed(r, rows, burnt, cr) ==
    /\ r.pc \in Looping => \A v \in r.todo \cup r.marked :
                                rows[v.sid].pair = v.pair \/ v.sid \in cr
    /\ \A v, x \in r.todo \cup r.marked : v.sid = x.sid => v = x
    /\ \A v \in r.marked : v.pair \in burnt
    /\ r.pc = "blacklistRefresh" \/ (r.pc = "deactivate" /\ r.op # "others")
         => \A v \in r.todo : IsNext(v, r) => v.pair \in burnt
    /\ r.pc = "deactivate" /\ r.op = "others"
         => \A v \in r.todo : v.pair \in burnt
    /\ r.op = "all" /\ r.pc \in Looping =>
         \A s \in Sids : rows[s].status = "active" /\ rows[s].user = r.user
            => s \in cr \/ \E v \in r.todo \cup r.marked : v.sid = s
    /\ r.pc = "updateMany" => r.op = "all" /\ r.todo = {}
    /\ r.pc = "deactivate" => r.op # "all" /\ r.marked = {}
    /\ r.op \in PerSession => r.marked = {}
    /\ r.pc = "list" => r.op # "all"
    /\ r.pc \notin Listing => r.todo = {} /\ r.marked = {}

AllBacked == \A w \in Workers : Backed(req[w], session, burntAccess, crossed)

RInv == PInv /\ RevokedWasBanned /\ AllBacked

LEMMA IdleBacked == \A rows, burnt, cr : Backed(Idle, rows, burnt, cr)
BY DEF Backed, Idle, Listing, Looping, PerSession

(* A request that has no list and is not about to store is backed. *)
LEMMA EmptyBacked ==
    ASSUME NEW r, NEW rows, NEW burnt, NEW cr,
           r.todo = {}, r.marked = {}, r.pc = "list" => r.op # "all",
           r.pc \notin Looping
    PROVE  Backed(r, rows, burnt, cr)
BY DEF Backed, Looping

LEMMA EnterBacked ==
    ASSUME NEW r \in Request, NEW todo \in SUBSET Snapshots, NEW rows, NEW burnt, NEW cr,
           r.marked = {},
           \A v \in todo : rows[v.sid].pair = v.pair \/ v.sid \in cr,
           \A v, x \in todo : v.sid = x.sid => v = x,
           r.op = "all" =>
               \A s \in Sids : rows[s].status = "active" /\ rows[s].user = r.user
                  => s \in cr \/ \E v \in todo : v.sid = s
    PROVE  Backed(Enter(r, todo), rows, burnt, cr)
<1>1. /\ Enter(r, todo).todo = todo /\ Enter(r, todo).marked = {}
      /\ Enter(r, todo).op = r.op /\ Enter(r, todo).user = r.user
  BY DEF Enter, Request
<1>2. CASE todo = {}
  <2>1. Enter(r, todo).pc = Afterwards(r.op)
    BY <1>2 DEF Enter, Request
  <2>2. /\ Afterwards(r.op) \in {"create", "updateMany", "done"}
        /\ Afterwards(r.op) = "updateMany" => r.op = "all"
    BY DEF Afterwards
  <2>3. QED
    BY <1>1, <1>2, <2>1, <2>2 DEF Backed, Listing
<1>3. CASE todo # {}
  <2>1. Enter(r, todo).pc = "blacklistAccess"
    BY <1>3 DEF Enter, Request
  <2>2. QED
    BY <1>1, <2>1 DEF Backed, Listing
<1>4. QED
  BY <1>2, <1>3

(* Only one row of a list is its next. *)
LEMMA OneNext ==
    ASSUME NEW r \in Request, NEW v \in r.todo, NEW x \in r.todo,
           \A y, z \in r.todo : y.sid = z.sid => y = z,
           IsNext(v, r), IsNext(x, r)
    PROVE  x = v
<1>1. v \in Snapshots /\ x \in Snapshots
  BY DEF Request
<1>2. v.sid \in Int /\ x.sid \in Int
  BY <1>1 DEF Snapshots
<1>3. v.sid = x.sid
  BY <1>2 DEF IsNext
<1>4. QED
  BY <1>3

LEMMA AfterBlacklistingBacked ==
    ASSUME NEW r \in Request, NEW rows, NEW burnt, NEW cr, NEW v \in r.todo,
           IsNext(v, r), r.pc = "blacklistRefresh", Backed(r, rows, burnt, cr)
    PROVE  Backed(AfterBlacklisting(r, v), rows, burnt, cr)
<1>1. /\ \A x \in r.todo \cup r.marked : rows[x.sid].pair = x.pair \/ x.sid \in cr
      /\ \A x, y \in r.todo \cup r.marked : x.sid = y.sid => x = y
      /\ \A x \in r.marked : x.pair \in burnt
      /\ v.pair \in burnt
      /\ \A x \in r.todo : IsNext(x, r) => x.pair \in burnt
      /\ r.op = "all" =>
           \A s \in Sids : rows[s].status = "active" /\ rows[s].user = r.user
              => s \in cr \/ \E x \in r.todo \cup r.marked : x.sid = s
      /\ r.op \in PerSession => r.marked = {}
  BY DEF Backed, Looping
<1>2. CASE r.op \in PerSession
  <2>1. AfterBlacklisting(r, v) = [r EXCEPT !.pc = "deactivate"]
    BY <1>2 DEF AfterBlacklisting, PerSession
  <2> DEFINE q == [r EXCEPT !.pc = "deactivate"]
  <2>2. /\ q.todo = r.todo /\ q.marked = r.marked /\ q.op = r.op
        /\ q.pc = "deactivate" /\ r.op # "all" /\ r.op # "others"
    BY <1>2 DEF Request, PerSession
  <2>3. \A x : IsNext(x, q) => IsNext(x, r)
    BY <2>2 DEF IsNext
  <2> HIDE DEF q
  <2>4. Backed(q, rows, burnt, cr)
    BY <1>1, <1>2, <2>2, <2>3 DEF Backed, Listing
  <2>5. QED
    BY <2>1, <2>4 DEF q
<1>3. CASE r.op \notin PerSession /\ r.todo \ {v} # {}
  <2> DEFINE q == AfterBlacklisting(r, v)
  <2>1. q = [r EXCEPT !.todo = r.todo \ {v}, !.marked = r.marked \cup {v},
                      !.pc = "blacklistAccess"]
    BY <1>3 DEF AfterBlacklisting
  <2>2. /\ q.todo = r.todo \ {v} /\ q.marked = r.marked \cup {v}
        /\ q.op = r.op /\ q.user = r.user /\ q.pc = "blacklistAccess"
    BY <2>1 DEF Request
  <2> HIDE DEF q
  <2>3. Backed(q, rows, burnt, cr)
    BY <1>1, <1>3, <2>2 DEF Backed, Listing
  <2>4. QED
    BY <2>3 DEF q
<1>4. CASE r.op \notin PerSession /\ r.todo \ {v} = {} /\ r.op = "all"
  <2> DEFINE q == AfterBlacklisting(r, v)
  <2>1. q = [r EXCEPT !.todo = {}, !.marked = r.marked \cup {v},
                      !.pc = "updateMany"]
    BY <1>4 DEF AfterBlacklisting, Afterwards
  <2>2. /\ q.todo = {} /\ q.marked = r.marked \cup {v}
        /\ q.op = r.op /\ q.user = r.user /\ q.pc = "updateMany"
    BY <2>1 DEF Request
  <2> HIDE DEF q
  <2>3. Backed(q, rows, burnt, cr)
    BY <1>1, <1>4, <2>2 DEF Backed, Listing
  <2>4. QED
    BY <2>3 DEF q
<1>5. CASE r.op \notin PerSession /\ r.todo \ {v} = {} /\ r.op # "all"
  <2> DEFINE q == AfterBlacklisting(r, v)
  <2>1. q = [r EXCEPT !.todo = r.marked \cup {v}, !.marked = {},
                      !.pc = "deactivate"]
    BY <1>5 DEF AfterBlacklisting
  <2>2. /\ q.todo = r.marked \cup {v} /\ q.marked = {}
        /\ q.op = r.op /\ q.user = r.user /\ q.pc = "deactivate"
    BY <2>1 DEF Request
  <2> HIDE DEF q
  <2>3. Backed(q, rows, burnt, cr)
    BY <1>1, <1>5, <2>2 DEF Backed, Listing
  <2>4. QED
    BY <2>3 DEF q
<1>6. QED
  BY <1>2, <1>3, <1>4, <1>5

(* Lists read from the rows are backed by them. *)
LEMMA SnapshotBacked ==
    ASSUME TypeOK, NEW S \in SUBSET Sids
    PROVE  /\ {Snapshot(s) : s \in S} \in SUBSET Snapshots
           /\ \A v \in {Snapshot(s) : s \in S} : session[v.sid].pair = v.pair
           /\ \A v, x \in {Snapshot(s) : s \in S} : v.sid = x.sid => v = x
           /\ \A s \in S : \E v \in {Snapshot(t) : t \in S} : v.sid = s
<1>1. \A s \in S : /\ Snapshot(s) \in Snapshots /\ Snapshot(s).sid = s
                   /\ Snapshot(s).pair = session[s].pair
  BY SnapshotTyped DEF Snapshot
<1>2. QED
  BY <1>1

(* The rows change under no list but the one that changes them. *)
LEMMA SteadyRows ==
    ASSUME NEW w \in Workers, Arrive(w) \/ Proceed(w) \/ Fail(w),
           ~(\/ LoginCreate(w) \/ RefreshStore(w) \/ Deactivate(w)
             \/ RevokeAllUpdateMany(w) \/ BlacklistAccess(w))
    PROVE  session' = session /\ burntAccess' = burntAccess /\ crossed' = crossed
BY DEF rowVars, history, Arrive, Proceed, Fail, LoginLookup, RevokeAllList,
   RefreshCheck, Logout, LogoutOthers, Authenticated, RevokeOneLookup, Done,
   BlacklistRefresh, Respond, RefreshUser, RefreshSession, RefreshRotate,
   LogoutSession, OthersCurrent, OthersList

LEMMA ReadBacked ==
    ASSUME RInv, [Next]_vars, NEW w \in Workers, Arrive(w) \/ Proceed(w) \/ Fail(w),
           ~(\/ LoginCreate(w) \/ RefreshStore(w) \/ Deactivate(w)
             \/ RevokeAllUpdateMany(w) \/ BlacklistAccess(w))
    PROVE  Backed(req'[w], session, burntAccess, crossed)
<1> DEFINE b == burntAccess
<1>1. /\ req \in [Workers -> Request] /\ req[w] \in Request /\ Idle \in Request
      /\ Backed(req[w], session, b, crossed) /\ TypeOK
  BY IdleTyped DEF RInv, PInv, TypeOK, AllBacked
<1> HIDE DEF b
<1>2. \A r, todo : req' = [req EXCEPT ![w] = Enter(r, todo)] => req'[w] = Enter(r, todo)
  BY <1>1
<1>3. CASE Fail(w) \/ Done(w) \/ Respond(w)
  BY <1>1, <1>3, IdleBacked DEF Fail, Finish, Done, Respond
<1>4. CASE BlacklistRefresh(w)
  <2>1. PICK v \in req[w].todo :
           IsNext(v, req[w]) /\ req'[w] = AfterBlacklisting(req[w], v)
    BY <1>1, <1>4 DEF BlacklistRefresh
  <2>2. req[w].pc = "blacklistRefresh"
    BY <1>4 DEF BlacklistRefresh
  <2>3. QED
    BY <1>1, <2>1, <2>2, AfterBlacklistingBacked DEF b
<1>5. req[w].pc \notin Listing => req[w].todo = {} /\ req[w].marked = {}
  BY <1>1 DEF Backed
<1>6. CASE RefreshUser(w)
  <2>1. /\ req'[w] = [req[w] EXCEPT !.pc = "session"] \/ req'[w] = Idle
        /\ req[w].pc = "user"
    BY <1>1, <1>6 DEF RefreshUser, Finish
  <2> DEFINE q == [req[w] EXCEPT !.pc = "session"]
  <2>2. q.todo = {} /\ q.marked = {} /\ q.pc = "session"
    BY <1>1, <1>5, <2>1 DEF Request, Listing
  <2> HIDE DEF q
  <2>3. Backed(q, session, b, crossed)
    BY <2>2, EmptyBacked DEF Looping
  <2>4. QED
    BY <2>1, <2>3, IdleBacked DEF q, b
<1>7. CASE RefreshSession(w)
  <2>1. CASE Finish(w)
    BY <1>1, <2>1, IdleBacked DEF Finish
  <2>2. ASSUME NEW s \in RowsOf(req[w].pair), Active(s),
               req' = [req EXCEPT ![w] = [req[w] EXCEPT !.pc = "rotate", !.sid = s]]
        PROVE  Backed(req'[w], session, b, crossed)
    <3>1. /\ req'[w].pc = "rotate" /\ req[w].pc = "session"
          /\ req'[w].todo = req[w].todo /\ req'[w].marked = req[w].marked
      BY <1>1, <1>7, <2>2 DEF RefreshSession, Request
    <3>2. QED
      BY <1>5, <3>1, EmptyBacked DEF Listing, Looping
  <2>3. QED
    BY <1>7, <2>1, <2>2 DEF RefreshSession, SessionValid, b
<1>8. CASE RefreshRotate(w)
  <2>1. PICK p \in Pairs :
            req' = [req EXCEPT ![w] = [req[w] EXCEPT !.pc = "store", !.new = p]]
    BY <1>8 DEF RefreshRotate
  <2>2. /\ req'[w].pc = "store"
        /\ req'[w].todo = req[w].todo /\ req'[w].marked = req[w].marked
        /\ req[w].pc = "rotate"
    BY <1>1, <1>8, <2>1 DEF RefreshRotate, Request
  <2>3. QED
    BY <1>5, <2>2, EmptyBacked DEF Listing, Looping
<1>9. CASE LogoutSession(w)
  <2>1. /\ req[w].pc = "session" /\ req[w].op = "logout"
        /\ req[w].todo = {} /\ req[w].marked = {}
    BY <1>5, <1>9 DEF LogoutSession, Listing
  <2>2. ASSUME NEW s \in RowsOf(req[w].pair),
               req' = [req EXCEPT ![w] = Enter(req[w], {Snapshot(s)})]
        PROVE  Backed(req'[w], session, b, crossed)
    <3>1. {s} \in SUBSET Sids /\ {Snapshot(t) : t \in {s}} = {Snapshot(s)}
      BY <1>1, SessionAssumption DEF RowsOf, Sids, TypeOK
    <3>2. /\ {Snapshot(s)} \in SUBSET Snapshots
          /\ \A v \in {Snapshot(s)} : session[v.sid].pair = v.pair
      BY <1>1, <3>1, SnapshotBacked
    <3>3. Backed(Enter(req[w], {Snapshot(s)}), session, b, crossed)
      BY <1>1, <2>1, <3>2, EnterBacked
    <3>4. QED
      BY <1>2, <2>2, <3>3
  <2>3. CASE req' = [req EXCEPT ![w] = [req[w] EXCEPT !.pc = "done"]]
    <3>1. req'[w].pc = "done" /\ req'[w].todo = {} /\ req'[w].marked = {}
      BY <1>1, <2>1, <2>3 DEF Request
    <3>2. QED
      BY <3>1, EmptyBacked DEF Looping
  <2>4. QED
    BY <1>9, <2>2, <2>3 DEF LogoutSession, b
<1>10. CASE OthersCurrent(w)
  <2>1. req[w].pc = "session" /\ req[w].todo = {} /\ req[w].marked = {}
    BY <1>5, <1>10 DEF OthersCurrent, Listing
  <2>2. CASE Finish(w)
    BY <1>1, <2>2, IdleBacked DEF Finish
  <2>3. ASSUME NEW s, req' = [req EXCEPT ![w] = [req[w] EXCEPT !.pc = "list", !.sid = s]]
        PROVE  Backed(req'[w], session, b, crossed)
    <3>1. /\ req'[w].pc = "list" /\ req'[w].op = "others"
          /\ req'[w].todo = {} /\ req'[w].marked = {}
      BY <1>1, <1>10, <2>1, <2>3 DEF OthersCurrent, Request
    <3>2. QED
      BY <3>1, EmptyBacked DEF Looping
  <2>4. QED
    BY <1>10, <2>2, <2>3 DEF OthersCurrent, b
<1>11. CASE OthersList(w)
  <2> DEFINE S == ActiveOf(req[w].user) \ {req[w].sid}
             todo == {Snapshot(s) : s \in S}
  <2>1. S \in SUBSET Sids
    BY DEF ActiveOf
  <2>2. req' = [req EXCEPT ![w] = Enter(req[w], todo)] /\ req[w].pc = "list"
    BY <1>11 DEF OthersList
  <2>3. /\ todo \in SUBSET Snapshots
        /\ \A v \in todo : session[v.sid].pair = v.pair
        /\ \A v, x \in todo : v.sid = x.sid => v = x
    BY <1>1, <2>1, SnapshotBacked
  <2>4. req[w].op # "all"
    BY <1>1, <2>2 DEF Backed
  <2> HIDE DEF S, todo
  <2>5. Backed(Enter(req[w], todo), session, b, crossed)
    BY <1>1, <1>5, <2>2, <2>3, <2>4, EnterBacked DEF Listing
  <2>6. QED
    BY <1>2, <2>2, <2>5 DEF b
<1>12. ASSUME NEW u \in Users, LoginLookup(w, u)
       PROVE  Backed(req'[w], session, b, crossed)
  <2> DEFINE r(p) == [Idle EXCEPT !.op = "login", !.user = u, !.new = p]
             S == {s \in LiveOf(u) : Cardinality({t \in LiveOf(u) : t < s}) < Excess(u)}
  <2>1. PICK p \in Pairs : req' = [req EXCEPT ![w] = Enter(r(p), Evicted(u))]
    BY <1>12 DEF LoginLookup
  <2>2. p \in 0..MaxPairs
    BY DEF Pairs
  <2>3. r(p) \in Request /\ r(p).marked = {} /\ r(p).op = "login"
    BY <1>1, <2>2 DEF Request, Idle
  <2>4. Evicted(u) = {Snapshot(s) : s \in S} /\ S \in SUBSET Sids
    BY DEF Evicted, LiveOf, ActiveOf
  <2> HIDE DEF r, S
  <2>5. /\ Evicted(u) \in SUBSET Snapshots
        /\ \A v \in Evicted(u) : session[v.sid].pair = v.pair
        /\ \A v, x \in Evicted(u) : v.sid = x.sid => v = x
    BY <1>1, <2>4, SnapshotBacked
  <2>6. Backed(Enter(r(p), Evicted(u)), session, b, crossed)
    BY <2>3, <2>5, EnterBacked
  <2>7. QED
    BY <1>2, <2>1, <2>6
<1>13. ASSUME NEW u \in Users, RevokeAllList(w, u)
       PROVE  Backed(req'[w], session, b, crossed)
  <2> DEFINE r == [Idle EXCEPT !.op = "all", !.user = u]
             todo == {Snapshot(s) : s \in ActiveOf(u)}
  <2>1. req' = [req EXCEPT ![w] = Enter(r, todo)]
    BY <1>13 DEF RevokeAllList
  <2>2. r \in Request /\ r.marked = {} /\ r.user = u
    BY <1>1 DEF Request, Idle
  <2>3. ActiveOf(u) \in SUBSET Sids
    BY DEF ActiveOf
  <2>4. /\ todo \in SUBSET Snapshots
        /\ \A v \in todo : session[v.sid].pair = v.pair
        /\ \A v, x \in todo : v.sid = x.sid => v = x
        /\ \A s \in ActiveOf(u) : \E v \in todo : v.sid = s
    BY <1>1, <2>3, SnapshotBacked
  <2>5. \A s \in Sids : session[s].status = "active" /\ session[s].user = u
           => s \in ActiveOf(u)
    BY DEF ActiveOf, Active
  <2> HIDE DEF r, todo
  <2>6. Backed(Enter(r, todo), session, b, crossed)
    BY <2>2, <2>4, <2>5, EnterBacked
  <2>7. QED
    BY <1>2, <2>1, <2>6
<1>14. ASSUME NEW s \in Sids, RevokeOneLookup(w, s)
       PROVE  Backed(req'[w], session, b, crossed)
  <2> DEFINE r == [Idle EXCEPT !.op = "one", !.user = session[s].user]
  <2>1. req' = [req EXCEPT ![w] = Enter(r, {Snapshot(s)})]
    BY <1>14 DEF RevokeOneLookup
  <2>2. r \in Request /\ r.marked = {} /\ r.op = "one"
    BY <1>1 DEF Request, Idle, TypeOK
  <2>3. {s} \in SUBSET Sids /\ {Snapshot(t) : t \in {s}} = {Snapshot(s)}
    OBVIOUS
  <2>4. /\ {Snapshot(s)} \in SUBSET Snapshots
        /\ \A v \in {Snapshot(s)} : session[v.sid].pair = v.pair
    BY <1>1, <2>3, SnapshotBacked
  <2> HIDE DEF r
  <2>5. Backed(Enter(r, {Snapshot(s)}), session, b, crossed)
    BY <2>2, <2>4, EnterBacked
  <2>6. QED
    BY <1>2, <2>1, <2>5
<1>15. ASSUME NEW p \in Pairs, RefreshCheck(w, p) \/ Logout(w, p) \/ LogoutOthers(w, p)
       PROVE  Backed(req'[w], session, b, crossed)
  <2>1. /\ req'[w].pc \in {"user", "session"}
        /\ req'[w].todo = {} /\ req'[w].marked = {}
    BY <1>1, <1>15 DEF RefreshCheck, Logout, LogoutOthers, Authenticated, Idle
  <2>2. QED
    BY <2>1, EmptyBacked DEF Looping
<1>16. QED
  BY <1>3, <1>4, <1>6, <1>7, <1>8, <1>9, <1>10, <1>11, <1>12, <1>13, <1>14, <1>15
     DEF Arrive, Proceed, b

(* The steps that ban an access token or write a row. *)
LEMMA WriteBacked ==
    ASSUME RInv, [Next]_vars, NEW w \in Workers,
           \/ LoginCreate(w) \/ RefreshStore(w) \/ Deactivate(w)
           \/ RevokeAllUpdateMany(w) \/ BlacklistAccess(w)
    PROVE  Backed(req'[w], session', burntAccess', crossed') /\ RevokedWasBanned'
<1>1. /\ req \in [Workers -> Request] /\ req[w] \in Request
      /\ Backed(req[w], session, burntAccess, crossed) /\ TypeOK /\ RevokedWasBanned
      /\ session \in [Sids -> [user : Users \cup {NoUser}, pair : 0..MaxPairs,
                               status : {"absent", "active", "revoked"}]]
  BY DEF RInv, PInv, TypeOK, AllBacked
<1>2. /\ \A v \in req[w].todo \cup req[w].marked : v.sid \in Sids
      /\ \A v, x \in req[w].todo \cup req[w].marked : v.sid = x.sid => v = x
      /\ req[w].pc \notin Listing => req[w].todo = {} /\ req[w].marked = {}
      /\ req[w].pc \in Looping => \A v \in req[w].todo \cup req[w].marked :
                                     session[v.sid].pair = v.pair \/ v.sid \in crossed
  BY <1>1 DEF Backed, Request, Snapshots, Sids
<1>3. CASE BlacklistAccess(w)
  <2>1. PICK v \in req[w].todo : /\ IsNext(v, req[w])
                                 /\ burntAccess' = burntAccess \cup {v.pair}
    BY <1>3 DEF BlacklistAccess
  <2>2. /\ req'[w].pc = "blacklistRefresh" /\ req'[w].todo = req[w].todo
        /\ req'[w].marked = req[w].marked /\ req'[w].op = req[w].op
        /\ req'[w].user = req[w].user
        /\ session' = session /\ req[w].pc = "blacklistAccess" /\ crossed' = crossed
    BY <1>1, <1>3 DEF BlacklistAccess, Request, rowVars
  <2>3. \A x \in req'[w].todo : IsNext(x, req'[w]) => x = v
    <3>1. \A x : IsNext(x, req'[w]) => IsNext(x, req[w])
      BY <2>2 DEF IsNext
    <3>2. QED
      BY <1>1, <1>2, <2>1, <2>2, <3>1, OneNext
  <2>4. RevokedWasBanned'
    BY <1>1, <2>1, <2>2 DEF RevokedWasBanned
  <2>5. Backed(req'[w], session', burntAccess', crossed')
    BY <1>1, <2>1, <2>2, <2>3 DEF Backed, Listing, Looping
  <2>6. QED
    BY <2>4, <2>5
<1>4. CASE LoginCreate(w) \/ RefreshStore(w)
  <2>1. /\ req'[w].pc = "respond" /\ req[w].pc \in {"create", "store"}
        /\ req'[w].todo = req[w].todo /\ req'[w].marked = req[w].marked
        /\ burntAccess' = burntAccess
    BY <1>1, <1>4 DEF LoginCreate, RefreshStore, Request
  <2>2. Backed(req'[w], session', burntAccess', crossed')
    BY <1>2, <2>1, EmptyBacked DEF Listing, Looping
  <2>3. ASSUME NEW s \in Sids, session'[s].status = "revoked", s \notin crossed'
        PROVE  session'[s] = session[s] /\ s \notin crossed
    <3>1. CASE LoginCreate(w)
      <4>1. /\ session' = [session EXCEPT ![created + 1] =
                  [user |-> req[w].user, pair |-> req[w].new, status |-> "active"]]
            /\ crossed \subseteq crossed'
        BY <3>1 DEF LoginCreate
      <4>2. QED
        BY <1>1, <2>3, <4>1
    <3>2. CASE RefreshStore(w)
      <4>1. /\ session' = [session EXCEPT ![req[w].sid] =
                              [session[req[w].sid] EXCEPT !.pair = req[w].new]]
            /\ \/ crossed' = crossed \cup {req[w].sid}
               \/ Active(req[w].sid) /\ crossed' = crossed \ {req[w].sid}
        BY <3>2 DEF RefreshStore, Rotated
      <4>2. CASE s = req[w].sid
        <5>1. session'[s].status = session[s].status
          BY <1>1, <4>1, <4>2
        <5>2. ~Active(req[w].sid)
          BY <2>3, <4>2, <5>1 DEF Active
        <5>3. QED
          BY <2>3, <4>1, <4>2, <5>2
      <4>3. CASE s # req[w].sid
        BY <1>1, <2>3, <4>1, <4>3
      <4>4. QED
        BY <4>2, <4>3
    <3>3. QED
      BY <1>4, <3>1, <3>2
  <2>4. RevokedWasBanned'
    BY <1>1, <2>1, <2>3 DEF RevokedWasBanned
  <2>5. QED
    BY <2>2, <2>4
<1>5. CASE Deactivate(w)
  <2>1. PICK v \in req[w].todo :
            /\ IsNext(v, req[w])
            /\ session' = [session EXCEPT ![v.sid].status = "revoked"]
            /\ req' = [req EXCEPT ![w] =
                 IF req[w].op = "others" /\ req[w].todo \ {v} # {}
                   THEN [req[w] EXCEPT !.todo = req[w].todo \ {v}]
                   ELSE Enter(req[w], req[w].todo \ {v})]
    BY <1>5 DEF Deactivate
  <2>2. req[w].pc = "deactivate" /\ burntAccess' = burntAccess /\ crossed' = crossed
    BY <1>5 DEF Deactivate, history
  <2>3. /\ v.pair \in burntAccess /\ req[w].op # "all" /\ req[w].marked = {}
        /\ v.sid \in Sids
        /\ session[v.sid].pair = v.pair \/ v.sid \in crossed
    BY <1>1, <1>2, <2>1, <2>2 DEF Backed, Looping
  <2>4. /\ \A s \in Sids : session'[s].pair = session[s].pair
        /\ \A s \in Sids : s # v.sid => session'[s] = session[s]
    BY <1>1, <1>2, <2>1
  <2>5. RevokedWasBanned'
    BY <1>1, <2>2, <2>3, <2>4 DEF RevokedWasBanned
  <2>6. CASE req[w].op = "others" /\ req[w].todo \ {v} # {}
    <3>1. /\ req'[w].todo = req[w].todo \ {v} /\ req'[w].marked = {}
          /\ req'[w].pc = "deactivate" /\ req'[w].op = "others"
      BY <1>1, <2>1, <2>2, <2>3, <2>6 DEF Request
    <3>2. \A x \in req[w].todo : x.pair \in burntAccess
      BY <1>1, <2>2, <2>6 DEF Backed
    <3>3. \A x \in req'[w].todo \cup req'[w].marked :
             session'[x.sid].pair = x.pair \/ x.sid \in crossed'
      BY <1>2, <2>2, <2>4, <3>1 DEF Looping
    <3>4. Backed(req'[w], session', burntAccess', crossed')
      BY <1>2, <2>2, <3>1, <3>2, <3>3 DEF Backed, Listing, PerSession
    <3>5. QED
      BY <2>5, <3>4
  <2>7. CASE ~(req[w].op = "others" /\ req[w].todo \ {v} # {})
    <3> DEFINE todo == req[w].todo \ {v}
    <3>1. req'[w] = Enter(req[w], todo)
      BY <1>1, <2>1, <2>7
    <3>2. /\ todo \in SUBSET Snapshots
          /\ \A x \in todo : session'[x.sid].pair = x.pair \/ x.sid \in crossed'
          /\ \A x, y \in todo : x.sid = y.sid => x = y
      BY <1>1, <1>2, <2>2, <2>4 DEF Request, Looping
    <3> HIDE DEF todo
    <3>3. Backed(Enter(req[w], todo), session', burntAccess', crossed')
      BY <1>1, <2>3, <3>2, EnterBacked
    <3>4. QED
      BY <2>5, <3>1, <3>3
  <2>8. QED
    BY <2>6, <2>7
<1>6. CASE RevokeAllUpdateMany(w)
  <2>1. /\ req'[w].pc = "done" /\ req'[w].todo = req[w].todo
        /\ req'[w].marked = req[w].marked /\ req'[w].op = req[w].op
        /\ req[w].pc = "updateMany" /\ burntAccess' = burntAccess /\ crossed' = crossed
    BY <1>1, <1>6 DEF RevokeAllUpdateMany, Request, history
  <2>2. /\ req[w].op = "all" /\ req[w].todo = {}
        /\ \A v \in req[w].marked : v.pair \in burntAccess
        /\ \A s \in ActiveOf(req[w].user) :
             s \in crossed \/ \E v \in req[w].marked : v.sid = s
    BY <1>1, <2>1 DEF Backed, ActiveOf, Active, Looping
  <2>3. /\ \A s \in Sids : session'[s].pair = session[s].pair
        /\ \A s \in Sids : s \notin ActiveOf(req[w].user) => session'[s] = session[s]
    BY <1>1, <1>6 DEF RevokeAllUpdateMany
  <2>4. \A s \in ActiveOf(req[w].user) : s \in crossed \/ session[s].pair \in burntAccess
    BY <1>2, <2>1, <2>2 DEF Looping
  <2>5. RevokedWasBanned'
    BY <1>1, <2>1, <2>3, <2>4 DEF RevokedWasBanned
  <2>6. Backed(req'[w], session', burntAccess', crossed')
    BY <1>2, <2>1, <2>2 DEF Backed, Listing, Looping, PerSession
  <2>7. QED
    BY <2>5, <2>6
<1>7. QED
  BY <1>3, <1>4, <1>5, <1>6

(* What others may do to the rows while r works through its list.          *)
LEMMA BackedKept ==
    ASSUME NEW r \in Request, NEW rows, NEW burnt, NEW cr,
           NEW rows2, NEW burnt2, NEW cr2,
           Backed(r, rows, burnt, cr), burnt \subseteq burnt2,
           r.pc \in Looping => \A x \in r.todo \cup r.marked :
               \/ x.sid \in cr2
               \/ rows2[x.sid].pair = rows[x.sid].pair /\ x.sid \notin cr,
           r.op = "all" /\ r.pc \in Looping =>
               \A s \in Sids : rows2[s].status = "active" /\ rows2[s].user = r.user
                  => \/ s \in cr2
                     \/ /\ rows[s].status = "active" /\ rows[s].user = r.user
                        /\ s \notin cr
    PROVE  Backed(r, rows2, burnt2, cr2)
<1>1. r.pc \in Looping => \A v \in r.todo \cup r.marked :
                             rows2[v.sid].pair = v.pair \/ v.sid \in cr2
  BY DEF Backed
<1>2. r.op = "all" /\ r.pc \in Looping =>
         \A s \in Sids : rows2[s].status = "active" /\ rows2[s].user = r.user
            => s \in cr2 \/ \E v \in r.todo \cup r.marked : v.sid = s
  BY DEF Backed
<1>3. QED
  BY <1>1, <1>2 DEF Backed

(* A row that another request owes and that is created or rotated is       *)
(* crossed, and stays so.                                                  *)
LEMMA OthersBacked ==
    ASSUME RInv, NEW w \in Workers, NEW v \in Workers \ {w},
           \/ LoginCreate(w) \/ RefreshStore(w) \/ Deactivate(w)
           \/ RevokeAllUpdateMany(w) \/ BlacklistAccess(w)
    PROVE  Backed(req[v], session', burntAccess', crossed')
<1> DEFINE r == req[v]
<1>1. /\ r \in Request /\ req[w] \in Request
      /\ Backed(r, session, burntAccess, crossed)
      /\ session \in [Sids -> [user : Users \cup {NoUser}, pair : 0..MaxPairs,
                               status : {"absent", "active", "revoked"}]]
      /\ \A x \in r.todo \cup r.marked : x.sid \in Sids
  BY DEF RInv, PInv, TypeOK, AllBacked, Request, Snapshots, Sids
<1>2. \A u, s : /\ r.pc \in Looping
                /\ \/ \E x \in r.todo \cup r.marked : x.sid = s
                   \/ r.op = "all" /\ r.user = u
                => Owed(w, u, s)
  BY DEF Owed
<1> HIDE DEF r
<1>3. CASE BlacklistAccess(w)
  <2>1. /\ session' = session /\ crossed' = crossed
        /\ burntAccess \subseteq burntAccess'
    BY <1>3 DEF BlacklistAccess, rowVars
  <2>2. Backed(r, session', burntAccess', crossed')
    BY <1>1, <2>1 DEF Backed
  <2>3. QED
    BY <2>2 DEF r
<1>4. CASE Deactivate(w) \/ RevokeAllUpdateMany(w)
  <2>1. burntAccess' = burntAccess /\ crossed' = crossed
    BY <1>4 DEF Deactivate, RevokeAllUpdateMany, history
  <2>2. \A s \in Sids : /\ session'[s].pair = session[s].pair
                        /\ session'[s].user = session[s].user
                        /\ session'[s].status = "active" => session[s].status = "active"
    <3>1. CASE Deactivate(w)
      <4>1. PICK x \in req[w].todo :
                session' = [session EXCEPT ![x.sid].status = "revoked"]
        BY <3>1 DEF Deactivate
      <4>2. QED
        BY <1>1, <4>1
    <3>2. CASE RevokeAllUpdateMany(w)
      BY <1>1, <3>2 DEF RevokeAllUpdateMany
    <3>3. QED
      BY <1>4, <3>1, <3>2
  <2>3. Backed(r, session', burntAccess', crossed')
    BY <1>1, <2>1, <2>2 DEF Backed
  <2>4. QED
    BY <2>3 DEF r
<1>5. CASE LoginCreate(w)
  <2> DEFINE n == created + 1
             u == req[w].user
  <2>1. /\ session' = [session EXCEPT ![n] =
                [user |-> u, pair |-> req[w].new, status |-> "active"]]
        /\ n \in Sids /\ burntAccess' = burntAccess
        /\ crossed' = IF Owed(w, u, n) THEN crossed \cup {n} ELSE crossed
    BY <1>5 DEF LoginCreate
  <2> HIDE DEF n, u
  <2>2. /\ session'[n].user = u
        /\ \A s \in Sids : s # n => session'[s] = session[s]
    BY <1>1, <2>1
  <2>3. r.pc \in Looping => \A x \in r.todo \cup r.marked :
               \/ x.sid \in crossed'
               \/ session'[x.sid].pair = session[x.sid].pair /\ x.sid \notin crossed
    BY <1>1, <1>2, <2>1, <2>2
  <2>4. r.op = "all" /\ r.pc \in Looping =>
               \A s \in Sids : session'[s].status = "active" /\ session'[s].user = r.user
                  => \/ s \in crossed'
                     \/ /\ session[s].status = "active" /\ session[s].user = r.user
                        /\ s \notin crossed
    BY <1>1, <1>2, <2>1, <2>2
  <2>5. Backed(r, session', burntAccess', crossed')
    <3>1. burntAccess \subseteq burntAccess'
      BY <2>1
    <3>2. QED
      BY <1>1, <2>3, <2>4, <3>1, BackedKept, Zenon
  <2>6. QED
    BY <2>5 DEF r
<1>6. CASE RefreshStore(w)
  <2> DEFINE n == req[w].sid
             u == session[n].user
  <2>1. /\ session' = [session EXCEPT ![n] = [session[n] EXCEPT !.pair = req[w].new]]
        /\ burntAccess' = burntAccess
        /\ crossed' = IF ~Active(n) \/ Owed(w, u, n)
                        THEN crossed \cup {n} ELSE crossed \ {n}
    BY <1>6 DEF RefreshStore, Rotated
  <2> HIDE DEF n
  <2>2. /\ \A s \in Sids : s # n => session'[s] = session[s]
        /\ \A s \in Sids : session'[s].user = session[s].user
        /\ \A s \in Sids : session'[s].status = session[s].status
    BY <1>1, <2>1
  <2> HIDE DEF u
  <2>3. r.pc \in Looping => \A x \in r.todo \cup r.marked :
               \/ x.sid \in crossed'
               \/ session'[x.sid].pair = session[x.sid].pair /\ x.sid \notin crossed
    BY <1>1, <1>2, <2>1, <2>2
  <2>4. r.op = "all" /\ r.pc \in Looping =>
               \A s \in Sids : session'[s].status = "active" /\ session'[s].user = r.user
                  => \/ s \in crossed'
                     \/ /\ session[s].status = "active" /\ session[s].user = r.user
                        /\ s \notin crossed
    BY <1>1, <1>2, <2>1, <2>2 DEF u
  <2>5. Backed(r, session', burntAccess', crossed')
    <3>1. burntAccess \subseteq burntAccess'
      BY <2>1
    <3>2. QED
      BY <1>1, <2>3, <2>4, <3>1, BackedKept, Zenon
  <2>6. QED
    BY <2>5 DEF r
<1>7. QED
  BY <1>3, <1>4, <1>5, <1>6

LEMMA NextRevokedWasBanned == RInv /\ [Next]_vars => RevokedWasBanned' /\ AllBacked'
<1> SUFFICES ASSUME RInv, [Next]_vars
             PROVE  RevokedWasBanned' /\ AllBacked'
  OBVIOUS
<1>1. ASSUME NEW w \in Workers, Arrive(w) \/ Proceed(w) \/ Fail(w)
      PROVE  RevokedWasBanned' /\ AllBacked'
  <2> DEFINE writes == \/ LoginCreate(w) \/ RefreshStore(w) \/ Deactivate(w)
                       \/ RevokeAllUpdateMany(w) \/ BlacklistAccess(w)
  <2>1. RevokedWasBanned' /\ Backed(req'[w], session', burntAccess', crossed')
    <3>1. CASE writes
      BY <3>1, WriteBacked
    <3>2. CASE ~writes
      BY <1>1, <3>2, SteadyRows, ReadBacked DEF RInv, RevokedWasBanned
    <3>3. QED
      BY <3>1, <3>2
  <2>2. ASSUME NEW v \in Workers, v # w
        PROVE  Backed(req'[v], session', burntAccess', crossed')
    <3>1. req'[v] = req[v]
      BY <1>1, <2>2, OnlyOwn DEF RInv, PInv
    <3>2. CASE writes
      BY <2>2, <3>1, <3>2, OthersBacked
    <3>3. CASE ~writes
      BY <1>1, <3>1, <3>3, SteadyRows DEF RInv, AllBacked
    <3>4. QED
      BY <3>2, <3>3
  <2>3. QED
    BY <2>1, <2>2 DEF AllBacked
<1>2. ASSUME ~\E w \in Workers : Arrive(w) \/ Proceed(w) \/ Fail(w)
      PROVE  RevokedWasBanned' /\ AllBacked'
  <2>1. UNCHANGED <<req, session, burntAccess, crossed>>
    BY <1>2 DEF Next, vars, rowVars, history, SetUserStatus, LoseCache, Tick
  <2>2. QED
    BY <2>1 DEF RInv, RevokedWasBanned, AllBacked
<1>3. QED
  BY <1>1, <1>2

LEMMA InitRInv == Init => RInv
<1>1. Init => PairsSigned
  BY IdleNamed DEF Init, PairsSigned, Active
<1>2. Init => RevokedWasBanned /\ AllBacked
  BY IdleBacked DEF Init, RevokedWasBanned, AllBacked
<1>3. QED
  BY <1>1, <1>2, InitTypeOK DEF RInv, PInv

(* The eviction of a login, logout, logoutOtherSessions, revokeUserSession *)
(* and revokeAllUserSessions, in any number at once, beside logins and     *)
(* refreshes and whatever fails half way: a row that is revoked has had    *)
(* its access token banned, unless it got it across the revocation.        *)
THEOREM BannedBeforeRevoked == Spec => []RevokedWasBanned
<1>1. RInv /\ [Next]_vars => RInv'
  BY NextTypeOK, NextPairsSigned, NextRevokedWasBanned DEF RInv, PInv
<1>2. RInv => RevokedWasBanned
  BY DEF RInv
<1>3. QED
  BY <1>1, <1>2, InitRInv, PTL DEF Spec

-----------------------------------------------------------------------------
(* One request at a time: no row is ever crossed, for nothing is under way *)
(* but the refresh that stores a pair, and it has found its row active.    *)

OneWorker == \A v, w \in Workers : v = w

Uncrossed ==
    /\ crossed = {}
    /\ \A w \in Workers : req[w].pc \in {"rotate", "store"} =>
          req[w].sid \in Sids /\ Active(req[w].sid)

(* Only RefreshSession and RefreshRotate lead to rotating and storing.     *)
LEMMA StoresLate ==
    ASSUME PInv, NEW w \in Workers, Arrive(w) \/ Proceed(w) \/ Fail(w),
           ~RefreshSession(w), ~RefreshRotate(w)
    PROVE  req'[w].pc \notin {"rotate", "store"}
<1> SUFFICES ASSUME req'[w].pc \in {"rotate", "store"} PROVE FALSE
  OBVIOUS
<1>1. req \in [Workers -> Request] /\ req[w] \in Request /\ Idle.pc = "idle"
  BY DEF PInv, TypeOK, Idle
<1>2. \A r, todo : r \in Request => Enter(r, todo).pc \notin {"rotate", "store"}
  BY DEF Enter, Request, Afterwards
<1>3. \A r, todo : r \in Request /\ req' = [req EXCEPT ![w] = Enter(r, todo)] => FALSE
  BY <1>1, <1>2
<1>4. CASE Arrive(w)
  <2>1. ASSUME NEW u \in Users, LoginLookup(w, u) PROVE FALSE
    <3> DEFINE r(p) == [Idle EXCEPT !.op = "login", !.user = u, !.new = p]
    <3>1. PICK p \in Pairs : req' = [req EXCEPT ![w] = Enter(r(p), Evicted(u))]
      BY <2>1 DEF LoginLookup
    <3>2. p \in 0..MaxPairs
      BY DEF Pairs
    <3>3. r(p) \in Request
      BY <3>2, IdleTyped DEF Request
    <3>4. QED
      BY <1>3, <3>1, <3>3
  <2>2. ASSUME NEW u \in Users, RevokeAllList(w, u) PROVE FALSE
    <3>1. [Idle EXCEPT !.op = "all", !.user = u] \in Request
      BY IdleTyped DEF Request
    <3>2. QED
      BY <1>3, <2>2, <3>1 DEF RevokeAllList
  <2>3. ASSUME NEW s \in Sids, RevokeOneLookup(w, s) PROVE FALSE
    <3>1. [Idle EXCEPT !.op = "one", !.user = session[s].user] \in Request
      BY IdleTyped DEF Request, PInv, TypeOK
    <3>2. QED
      BY <1>3, <2>3, <3>1 DEF RevokeOneLookup
  <2>4. ASSUME NEW p \in Pairs, RefreshCheck(w, p) \/ Logout(w, p) \/ LogoutOthers(w, p)
        PROVE  FALSE
    BY <1>1, <2>4 DEF RefreshCheck, Logout, LogoutOthers, Authenticated, Idle
  <2>5. QED
    BY <1>4, <2>1, <2>2, <2>3, <2>4 DEF Arrive
<1>5. CASE Deactivate(w)
  <2>1. PICK v \in req[w].todo :
            \/ req'[w] = [req[w] EXCEPT !.todo = req[w].todo \ {v}]
            \/ req'[w] = Enter(req[w], req[w].todo \ {v})
    BY <1>1, <1>5 DEF Deactivate
  <2>2. QED
    BY <1>1, <1>2, <1>5, <2>1 DEF Deactivate, Request
<1>6. CASE LogoutSession(w) \/ OthersList(w)
  <2>1. \/ req'[w] = [req[w] EXCEPT !.pc = "done"]
        \/ \E todo : req' = [req EXCEPT ![w] = Enter(req[w], todo)]
    BY <1>1, <1>6 DEF LogoutSession, OthersList
  <2>2. QED
    BY <1>1, <1>3, <2>1 DEF Request
<1>7. CASE OthersCurrent(w)
  <2>1. \/ req'[w] = Idle
        \/ \E s : req'[w] = [req[w] EXCEPT !.pc = "list", !.sid = s]
    BY <1>1, <1>7 DEF OthersCurrent, Finish
  <2>2. QED
    BY <1>1, <2>1 DEF Request
<1>8. CASE BlacklistRefresh(w)
  <2>1. PICK v \in req[w].todo : req'[w] = AfterBlacklisting(req[w], v)
    BY <1>1, <1>8 DEF BlacklistRefresh
  <2>2. AfterBlacklisting(req[w], v).pc \notin {"rotate", "store"}
    BY <1>1 DEF AfterBlacklisting, Afterwards, Request
  <2>3. QED
    BY <2>1, <2>2
<1>9. CASE \/ Fail(w) \/ Done(w) \/ Respond(w) \/ BlacklistAccess(w) \/ LoginCreate(w)
            \/ RefreshUser(w) \/ RefreshStore(w) \/ RevokeAllUpdateMany(w)
  BY <1>1, <1>9 DEF Fail, Finish, Done, Respond, BlacklistAccess, LoginCreate,
     RefreshUser, RefreshStore, RevokeAllUpdateMany, Request
<1>10. QED
  BY <1>4, <1>5, <1>6, <1>7, <1>8, <1>9 DEF Proceed

LEMMA NextUncrossed == OneWorker /\ PInv /\ Uncrossed /\ [Next]_vars => Uncrossed'
<1> SUFFICES ASSUME OneWorker, PInv, Uncrossed, [Next]_vars PROVE Uncrossed'
  OBVIOUS
<1>0. req \in [Workers -> Request] /\ Idle \in Request /\ created \in 0..MaxLogins
  BY IdleTyped DEF PInv, TypeOK
<1>1. ASSUME NEW w \in Workers, Arrive(w) \/ Proceed(w) \/ Fail(w) PROVE Uncrossed'
  <2>1. \A v \in Workers : v = w
    BY DEF OneWorker
  <2>2. \A u, s : ~Owed(w, u, s)
    BY <2>1 DEF Owed
  <2>3. crossed' = {}
    <3>1. CASE RefreshStore(w)
      BY <2>2, <3>1 DEF RefreshStore, Uncrossed
    <3>2. CASE LoginCreate(w)
      BY <2>2, <3>2 DEF LoginCreate, Uncrossed
    <3>3. CASE ~RefreshStore(w) /\ ~LoginCreate(w)
      <4>1. crossed' = crossed
        BY <1>1, <3>3 DEF Arrive, Proceed, Fail, history, LoginLookup, RevokeAllList,
           RefreshCheck, Logout, LogoutOthers, Authenticated, RevokeOneLookup, Done,
           BlacklistAccess, BlacklistRefresh, Respond, RefreshUser, RefreshSession,
           RefreshRotate, LogoutSession, OthersCurrent, OthersList, Deactivate,
           RevokeAllUpdateMany
      <4>2. QED
        BY <4>1 DEF Uncrossed
    <3>4. QED
      BY <3>1, <3>2, <3>3
  <2>4. req'[w].pc \in {"rotate", "store"} => req'[w].sid \in Sids /\ session'[req'[w].sid].status = "active"
    <3>1. CASE RefreshRotate(w)
      <4>1. PICK p \in Pairs :
                req' = [req EXCEPT ![w] = [req[w] EXCEPT !.pc = "store", !.new = p]]
        BY <3>1 DEF RefreshRotate
      <4>2. req'[w].sid = req[w].sid /\ session' = session /\ req[w].pc = "rotate"
        BY <1>0, <3>1, <4>1 DEF RefreshRotate, rowVars, Request
      <4>3. QED
        BY <4>2 DEF Uncrossed, Active
    <3>2. CASE RefreshSession(w)
      <4>1. session' = session
        BY <3>2 DEF RefreshSession, rowVars
      <4>2. CASE Finish(w)
        BY <1>0, <4>2 DEF Finish, Idle
      <4>3. ASSUME NEW s \in RowsOf(req[w].pair), Active(s),
                   req' = [req EXCEPT ![w] = [req[w] EXCEPT !.pc = "rotate", !.sid = s]]
            PROVE  req'[w].sid \in Sids /\ session'[req'[w].sid].status = "active"
        <5>1. s \in Sids /\ req'[w].sid = s
          BY <1>0, <4>3, SessionAssumption DEF RowsOf, Sids, Request
        <5>2. QED
          BY <4>1, <4>3, <5>1 DEF Active
      <4>4. QED
        BY <3>2, <4>2, <4>3 DEF RefreshSession, SessionValid
    <3>3. CASE ~RefreshRotate(w) /\ ~RefreshSession(w)
      BY <1>0, <1>1, <3>3, StoresLate
    <3>4. QED
      BY <3>1, <3>2, <3>3
  <2>5. ASSUME NEW v \in Workers, req'[v].pc \in {"rotate", "store"}
        PROVE  req'[v].sid \in Sids /\ session'[req'[v].sid].status = "active"
    <3>1. v = w
      BY <2>1
    <3>2. QED
      BY <2>4, <2>5, <3>1
  <2>6. QED
    BY <2>3, <2>5 DEF Uncrossed, Active
<1>2. ASSUME ~\E w \in Workers : Arrive(w) \/ Proceed(w) \/ Fail(w) PROVE Uncrossed'
  <2>1. UNCHANGED <<req, session, crossed>>
    BY <1>2 DEF Next, vars, rowVars, history, SetUserStatus, LoseCache, Tick
  <2>2. QED
    BY <2>1 DEF Uncrossed, Active
<1>3. QED
  BY <1>1, <1>2

(* One request at a time, whatever fails half way and however often a pair *)
(* is signed twice: the access token in a revoked row is rejected          *)
(* (login 198-249, logout, revokeAllUserSessions, revokeUserSession), as   *)
(* long as the blacklist keeps its entries for a token's lifetime.         *)
THEOREM RevokedRejected ==
    OneWorker /\ BlacklistLongEnough => (Spec => []RevokedRowRejected)
<1> SUFFICES ASSUME OneWorker, BlacklistLongEnough
             PROVE  Spec => []RevokedRowRejected
  OBVIOUS
<1> DEFINE OneInv == RInv /\ AccessCovered /\ Uncrossed
<1>1. Init => OneInv
  BY InitRInv DEF Init, Idle, AccessCovered, Uncrossed
<1>2. OneInv /\ [Next]_vars => OneInv'
  BY NextTypeOK, NextPairsSigned, NextAccessCovered, NextRevokedWasBanned, NextUncrossed
     DEF RInv, PInv
<1>3. OneInv => RevokedRowRejected
  <2> SUFFICES ASSUME OneInv, NEW s \in Sids, session[s].status = "revoked"
               PROVE  ~AcceptsAccess(session[s].pair)
    BY DEF RevokedRowRejected
  <2>1. session[s].pair \in burntAccess /\ burntAccess \subseteq 1..signed
    BY DEF RInv, RevokedWasBanned, Uncrossed, PInv, PairsSigned
  <2>2. ASSUME NEW p \in burntAccess PROVE ~AcceptsAccess(p)
    BY <2>1, PairNumbers, LifetimesNat
       DEF RInv, AccessCovered, AcceptsAccess, AccessAlive
  <2>3. QED
    BY <2>1, <2>2
<1>4. QED
  BY <1>1, <1>2, <1>3, PTL DEF Spec

-----------------------------------------------------------------------------
(* The limit on sessions.                                                  *)

(* A row counts while its pair lives, and also while a refresh that has    *)
(* found it valid may still give it a fresh one.                           *)
Refreshing(s) ==
    \E w \in Workers : req[w].pc \in {"rotate", "store"} /\ req[w].sid = s
Standing(u) == {s \in ActiveOf(u) : Unexpired(s) \/ Refreshing(s)}

(* Logins of u about to create their row, and those still evicting; what a *)
(* set of these has on its lists (q: the requests).                        *)
Evicting == {"blacklistAccess", "blacklistRefresh", "deactivate"}
Creators(q, u) == {w \in Workers : q[w].pc = "create" /\ q[w].user = u}
Evictors(q, u) ==
    {w \in Workers : q[w].op = "login" /\ q[w].user = u /\ q[w].pc \in Evicting}
Doomed(q, X) == {v.sid : v \in UNION {q[w].todo : w \in X}}

(* Whichever of the evicting logins get as far as creating their row: the  *)
(* rows then left and those then created stay within the bound.            *)
Room ==
    \A u \in Users : \A X \in SUBSET Evictors(req, u) :
        Cardinality(Standing(u) \ Doomed(req, X))
          + Cardinality(Creators(req, u)) + Cardinality(X)
            <= MaxConcurrentSessions + Cardinality(Workers) - 1

BoundInv == PInv /\ Room

(* Three disjoint sets of workers are no more than all. *)
LEMMA Disjoint3 ==
    ASSUME NEW W, IsFiniteSet(W), NEW A \in SUBSET W, NEW B \in SUBSET W,
           NEW C \in SUBSET W, A \cap B = {}, A \cap C = {}, B \cap C = {}
    PROVE  /\ Cardinality(A) \in Nat /\ Cardinality(B) \in Nat
           /\ Cardinality(C) \in Nat /\ Cardinality(W) \in Nat
           /\ Cardinality(A) + Cardinality(B) + Cardinality(C) <= Cardinality(W)
<1>1. /\ IsFiniteSet(A) /\ IsFiniteSet(B) /\ IsFiniteSet(C)
      /\ Cardinality({}) = 0
  BY FS_Subset, FS_EmptySet
<1>2. /\ Cardinality(A) \in Nat /\ Cardinality(B) \in Nat
      /\ Cardinality(C) \in Nat /\ Cardinality(W) \in Nat
  BY <1>1, FS_CardinalityType
<1>3. /\ IsFiniteSet(A \cup B)
      /\ Cardinality(A \cup B) = Cardinality(A) + Cardinality(B)
  <2>1. /\ IsFiniteSet(A \cup B)
        /\ Cardinality(A \cup B)
             = Cardinality(A) + Cardinality(B) - Cardinality(A \cap B)
    BY <1>1, FS_Union
  <2>2. Cardinality(A \cap B) = 0
    BY <1>1
  <2>3. QED
    BY <1>2, <2>1, <2>2
<1>4. (A \cup B) \cap C = {} /\ ((A \cup B) \cup C) \in SUBSET W
  OBVIOUS
<1>5. Cardinality((A \cup B) \cup C)
         = Cardinality(A) + Cardinality(B) + Cardinality(C)
  <2>1. Cardinality((A \cup B) \cup C)
           = Cardinality(A \cup B) + Cardinality(C) - Cardinality((A \cup B) \cap C)
    BY <1>1, <1>3, FS_Union
  <2>2. Cardinality((A \cup B) \cap C) = 0
    BY <1>1, <1>4
  <2>3. QED
    BY <1>2, <1>3, <2>1, <2>2
<1>6. Cardinality((A \cup B) \cup C) <= Cardinality(W)
  BY <1>4, FS_Subset
<1>7. QED
  BY <1>2, <1>5, <1>6

(* The rows of a user are finitely many. *)
LEMMA RowsFinite ==
    ASSUME NEW S \in SUBSET Sids
    PROVE  /\ IsFiniteSet(S) /\ Cardinality(S) \in Nat
           /\ S \in SUBSET Nat
           /\ S # {} => \E m \in S : \A s \in S : m <= s
<1>1. IsFiniteSet(Sids) /\ Sids \in SUBSET Nat
  BY SessionAssumption, FS_Interval DEF Sids
<1>2. IsFiniteSet(S) /\ Cardinality(S) \in Nat /\ S \in SUBSET Nat
  BY <1>1, FS_Subset, FS_CardinalityType
<1>3. ASSUME S # {} PROVE \E m \in S : \A s \in S : m <= s
  <2> DEFINE R == OpToRel(<, Nat)
  <2>1. IsWellFoundedOn(R, Nat)
    BY NatLessThanWellFounded
  <2>2. PICK m \in S : \A s \in S : ~(<<s, m>> \in R)
    BY <1>2, <1>3, <2>1, WFMin
  <2>3. \A s \in S : m <= s
    <3>1. \A s \in S : s \in Nat /\ m \in Nat
      BY <1>2
    <3>2. \A s \in S : ~(s < m)
      BY <2>2, <3>1 DEF R, OpToRel
    <3>3. QED
      BY <3>1, <3>2
  <2>4. QED
    BY <2>3
<1>4. QED
  BY <1>2, <1>3

(* What login keeps of the live sessions leaves room for one more. *)
LEMMA KeptSessions ==
    ASSUME NEW u
    PROVE  Cardinality(LiveOf(u) \ {s \in LiveOf(u) :
               Cardinality({t \in LiveOf(u) : t < s}) < Excess(u)})
             <= MaxConcurrentSessions - 1
<1> DEFINE live == LiveOf(u)
           kept == live \ {s \in live : Cardinality({t \in live : t < s}) < Excess(u)}
<1>1. /\ live \in SUBSET Sids /\ kept \in SUBSET Sids
      /\ Excess(u) = Cardinality(live) - MaxConcurrentSessions + 1
  BY DEF LiveOf, ActiveOf, Excess
<1> HIDE DEF live
<1>2. /\ IsFiniteSet(live) /\ Cardinality(live) \in Nat
      /\ Cardinality(kept) \in Nat /\ MaxConcurrentSessions \in Nat \ {0}
  BY <1>1, RowsFinite, SessionAssumption
<1>3. CASE kept = {}
  <2>1. Cardinality(kept) = 0
    BY <1>3, FS_EmptySet
  <2>2. QED
    BY <1>2, <2>1 DEF live
<1>4. CASE kept # {}
  <2>1. PICK m \in kept : \A s \in kept : m <= s
    BY <1>1, <1>4, RowsFinite
  <2> DEFINE below == {t \in live : t < m}
  <2>2. ~(Cardinality(below) < Excess(u))
    BY <2>1
  <2>3. below \in SUBSET live /\ kept \in SUBSET live /\ m \in Nat
    BY <1>1, <2>1, RowsFinite
  <2>4. below \cap kept = {} /\ {} \in SUBSET live
    <3>1. \A s \in kept : s \in Nat /\ m <= s
      BY <1>1, <2>1, RowsFinite
    <3> HIDE DEF kept
    <3>2. \A s \in below : ~(m <= s)
      BY <2>3, RowsFinite, <1>1
    <3>3. QED
      BY <2>3, <3>1, <3>2
  <2>5. Cardinality(below) \in Nat
    BY <1>2, <2>3, FS_Subset, FS_CardinalityType
  <2> HIDE DEF below, kept
  <2>6. Cardinality(below) + Cardinality(kept) <= Cardinality(live)
    <3>1. Cardinality({}) = 0
      BY FS_EmptySet
    <3>2. Cardinality(below) + Cardinality(kept) + Cardinality({}) <= Cardinality(live)
      BY <1>2, <2>3, <2>4, Disjoint3
    <3>3. QED
      BY <1>2, <2>5, <3>1, <3>2
  <2>7. Cardinality(kept) <= MaxConcurrentSessions - 1
    BY <1>1, <1>2, <2>2, <2>5, <2>6
  <2>8. QED
    BY <2>7 DEF kept, live
<1>5. QED
  BY <1>3, <1>4

(* Rows that stand only for a refresh are no more than the refreshes.      *)
Refreshers(q) == {w \in Workers : q[w].pc \in {"rotate", "store"}}

LEMMA FewRefreshed ==
    ASSUME NEW u, IsFiniteSet(Workers)
    PROVE  Cardinality(Standing(u) \ LiveOf(u)) <= Cardinality(Refreshers(req))
<1> DEFINE S == Standing(u) \ LiveOf(u)
           T == Refreshers(req)
           f == [s \in S |-> CHOOSE w \in Workers :
                    req[w].pc \in {"rotate", "store"} /\ req[w].sid = s]
<1>1. \A s \in S : \E w \in Workers :
          req[w].pc \in {"rotate", "store"} /\ req[w].sid = s
  BY DEF Standing, LiveOf, Refreshing
<1>2. \A s \in S : f[s] \in T /\ req[f[s]].sid = s
  BY <1>1 DEF Refreshers
<1> HIDE DEF f, S, T
<1>3. f \in Injection(S, T)
  <2>1. f \in [S -> T]
    BY <1>2 DEF f
  <2>2. \A a, b \in S : f[a] = f[b] => a = b
    BY <1>2
  <2>3. QED
    BY <2>1, <2>2 DEF Injection, IsInjective
<1>4. IsFiniteSet(T)
  BY FS_Subset DEF T, Refreshers
<1>5. QED
  BY <1>3, <1>4, FS_Injection DEF S, T

(* Only a request that found its row valid gets to rotate it. *)
LEMMA WindowShape ==
    ASSUME PInv, NEW w \in Workers, Arrive(w) \/ Proceed(w) \/ Fail(w),
           req'[w].pc \in {"rotate", "store"}
    PROVE  \/ req[w].pc \in {"rotate", "store"} /\ req[w].sid = req'[w].sid
           \/ Unexpired(req'[w].sid)
<1>1. req \in [Workers -> Request] /\ req[w] \in Request /\ Idle.pc = "idle"
  BY DEF PInv, TypeOK, Idle
<1>2. CASE RefreshSession(w)
  <2>1. PICK s : /\ SessionValid(s, req[w])
                 /\ req' = [req EXCEPT ![w] = [req[w] EXCEPT !.pc = "rotate", !.sid = s]]
    BY <1>1, <1>2 DEF RefreshSession, Finish
  <2>2. req'[w].sid = s
    BY <1>1, <2>1 DEF Request
  <2>3. QED
    BY <2>1, <2>2 DEF SessionValid
<1>3. CASE RefreshRotate(w)
  <2>1. PICK p \in Pairs :
            req' = [req EXCEPT ![w] = [req[w] EXCEPT !.pc = "store", !.new = p]]
    BY <1>3 DEF RefreshRotate
  <2>2. QED
    BY <1>1, <1>3, <2>1 DEF RefreshRotate, Request
<1>4. QED
  BY <1>2, <1>3, StoresLate

(* A row that stands stood before, or is the one a login has just created. *)
LEMMA StandingShape ==
    ASSUME PInv, [Next]_vars, NEW u, NEW s \in Standing(u)'
    PROVE  \/ s \in Standing(u)
           \/ \E w \in Workers : LoginCreate(w) /\ s = created + 1 /\ req[w].user = u
<1>1. /\ s \in Sids /\ session'[s].status = "active" /\ session'[s].user = u
      /\ \/ pair'[session'[s].pair].age < SessionTTL
         \/ \E w \in Workers : req'[w].pc \in {"rotate", "store"} /\ req'[w].sid = s
  BY DEF Standing, ActiveOf, Active, Unexpired, Refreshing
<1>2. /\ session \in [Sids -> [user : Users \cup {NoUser}, pair : 0..MaxPairs,
                               status : {"absent", "active", "revoked"}]]
      /\ req \in [Workers -> Request]
      /\ \A t \in Sids : Active(t) => session[t].pair \in 1..signed
  BY DEF PInv, TypeOK, PairsSigned
<1>3. ASSUME NEW w \in Workers, RefreshStore(w), req[w].sid = s PROVE s \in Standing(u)
  <2>1. Active(s) /\ session[s].user = u
    BY <1>1, <1>2, <1>3 DEF RefreshStore, Rotated, Active
  <2>2. Refreshing(s)
    BY <1>3 DEF RefreshStore, Refreshing
  <2>3. QED
    BY <1>1, <2>1, <2>2 DEF Standing, ActiveOf
<1>4. ASSUME NEW w \in Workers, LoginCreate(w), s = created + 1
      PROVE  req[w].user = u
  BY <1>1, <1>2, <1>4 DEF LoginCreate
<1>5. ASSUME \A w \in Workers : /\ RefreshStore(w) => req[w].sid # s
                                /\ LoginCreate(w) => s # created + 1
      PROVE  session'[s] = session[s]
  <2>1. ASSUME NEW w \in Workers, RefreshStore(w) \/ LoginCreate(w)
        PROVE  session'[s] = session[s]
    BY <1>1, <1>2, <1>5, <2>1 DEF RefreshStore, LoginCreate
  <2>2. ASSUME NEW w \in Workers, Deactivate(w) PROVE session'[s] = session[s]
    BY <1>1, <1>2, <2>2 DEF Deactivate
  <2>3. ASSUME NEW w \in Workers, RevokeAllUpdateMany(w) PROVE session'[s] = session[s]
    BY <1>1, <1>2, <2>3 DEF RevokeAllUpdateMany
  <2>4. ASSUME ~\E w \in Workers : LoginCreate(w) \/ RefreshStore(w) \/ Deactivate(w)
                                     \/ RevokeAllUpdateMany(w)
        PROVE  session' = session
    <3>1. ASSUME NEW w \in Workers, BlacklistAccess(w) PROVE session' = session
      BY <3>1 DEF BlacklistAccess, rowVars
    <3>2. QED
      BY <2>4, <3>1, SteadyRows, OtherSteps
  <2>5. QED
    BY <2>1, <2>2, <2>3, <2>4
<1>6. ASSUME session'[s] = session[s] PROVE s \in Standing(u)
  <2>1. /\ Active(s) /\ session[s].user = u /\ s \in ActiveOf(u)
        /\ session[s].pair \in 1..signed
    BY <1>1, <1>2, <1>6 DEF Active, ActiveOf
  <2>2. CASE pair'[session[s].pair].age < SessionTTL
    <3>1. pair'[session[s].pair] = pair[session[s].pair] => Unexpired(s)
      BY <2>2 DEF Unexpired
    <3>2. CASE Tick
      <4> DEFINE p == session[s].pair
      <4>1. /\ pair'[p].age = (IF pair[p].age < MaxAge THEN pair[p].age + 1
                                                      ELSE pair[p].age)
            /\ pair[p].age \in 0..MaxAge /\ MaxAge \in Nat /\ SessionTTL \in Nat
        BY <2>1, <3>2, TickMoves, PairNumbers, LifetimesNat, SessionAssumption
      <4>2. pair'[p].age < SessionTTL
        BY <2>2
      <4> HIDE DEF p
      <4>3. pair[p].age < SessionTTL
        BY <4>1, <4>2
      <4>4. QED
        BY <2>1, <4>3 DEF Standing, Unexpired, p
    <3>3. QED
      BY <1>6, <2>1, <3>1, <3>2, OnlySigned DEF Standing
  <2>3. ASSUME NEW w \in Workers, req'[w].pc \in {"rotate", "store"}, req'[w].sid = s
        PROVE  Unexpired(s) \/ Refreshing(s)
    <3>1. CASE req'[w] = req[w]
      BY <2>3, <3>1 DEF Refreshing
    <3>2. CASE req'[w] # req[w]
      <4>1. Arrive(w) \/ Proceed(w) \/ Fail(w)
        BY <3>2, OnlyOwn, OtherSteps DEF PInv
      <4>2. QED
        BY <2>3, <4>1, WindowShape DEF Refreshing
    <3>3. QED
      BY <3>1, <3>2
  <2>4. QED
    BY <1>1, <1>6, <2>1, <2>2, <2>3 DEF Standing
<1>7. QED
  BY <1>3, <1>4, <1>5, <1>6

(* A login on its way: it still had more sessions to evict, and what it    *)
(* has dropped from its list is active no more.                            *)
LEMMA LoginShape ==
    ASSUME PInv, [Next]_vars, NEW w \in Workers, Arrive(w) \/ Proceed(w) \/ Fail(w),
           ~\E u \in Users : LoginLookup(w, u),
           req'[w].op = "login", req'[w].pc \in Evicting \cup {"create"}
    PROVE  /\ req[w].op = "login" /\ req[w].pc \in Evicting
           /\ req'[w].user = req[w].user
           /\ req'[w].pc = "create" => req'[w].todo = {}
           /\ \A v \in req[w].todo \ req'[w].todo :
                 v.sid \in Sids => session'[v.sid].status = "revoked"
<1>1. /\ req \in [Workers -> Request] /\ req[w] \in Request /\ Idle.op = "idle"
      /\ req[w].pc \in {"user", "rotate", "store"} => req[w].op = "refresh"
      /\ req[w].pc = "list" => req[w].op = "others"
      /\ session \in [Sids -> [user : Users \cup {NoUser}, pair : 0..MaxPairs,
                               status : {"absent", "active", "revoked"}]]
  BY DEF PInv, PairsSigned, Named, TypeOK, Idle
<1>2. \A r, todo : r \in Request =>
          /\ Enter(r, todo).op = r.op /\ Enter(r, todo).user = r.user
          /\ Enter(r, todo).todo = todo
          /\ Enter(r, todo).pc = "create" => todo = {}
  BY DEF Enter, Request, Afterwards
<1>3. \A r, todo : r \in Request /\ req' = [req EXCEPT ![w] = Enter(r, todo)]
                      => r.op = "login"
  BY <1>1, <1>2
<1>4. CASE Arrive(w)
  <2>1. ASSUME NEW u \in Users, RevokeAllList(w, u) PROVE FALSE
    <3> DEFINE r == [Idle EXCEPT !.op = "all", !.user = u]
    <3>1. r \in Request /\ r.op = "all"
      BY IdleTyped DEF Request, Idle
    <3>2. req' = [req EXCEPT ![w] = Enter(r, {Snapshot(s) : s \in ActiveOf(u)})]
      BY <2>1 DEF RevokeAllList
    <3> HIDE DEF r
    <3>3. QED
      BY <1>3, <3>1, <3>2
  <2>2. ASSUME NEW s \in Sids, RevokeOneLookup(w, s) PROVE FALSE
    <3> DEFINE r == [Idle EXCEPT !.op = "one", !.user = session[s].user]
    <3>1. r \in Request /\ r.op = "one"
      BY IdleTyped DEF Request, PInv, TypeOK, Idle
    <3>2. req' = [req EXCEPT ![w] = Enter(r, {Snapshot(s)})]
      BY <2>2 DEF RevokeOneLookup
    <3> HIDE DEF r
    <3>3. QED
      BY <1>3, <3>1, <3>2
  <2>3. ASSUME NEW p \in Pairs, RefreshCheck(w, p) \/ Logout(w, p) \/ LogoutOthers(w, p)
        PROVE  FALSE
    BY <1>1, <2>3 DEF RefreshCheck, Logout, LogoutOthers, Authenticated, Idle
  <2>4. QED
    BY <1>4, <2>1, <2>2, <2>3 DEF Arrive
<1>5. CASE Deactivate(w)
  <2>1. PICK v \in req[w].todo :
            /\ session' = [session EXCEPT ![v.sid].status = "revoked"]
            /\ req' = [req EXCEPT ![w] =
                 IF req[w].op = "others" /\ req[w].todo \ {v} # {}
                   THEN [req[w] EXCEPT !.todo = req[w].todo \ {v}]
                   ELSE Enter(req[w], req[w].todo \ {v})]
    BY <1>5 DEF Deactivate
  <2>2. req[w].op = "login"
    <3>1. [req[w] EXCEPT !.todo = req[w].todo \ {v}].op = req[w].op
      BY <1>1 DEF Request
    <3>2. Enter(req[w], req[w].todo \ {v}).op = req[w].op
      BY <1>1, <1>2
    <3>3. \/ req'[w] = [req[w] EXCEPT !.todo = req[w].todo \ {v}]
          \/ req'[w] = Enter(req[w], req[w].todo \ {v})
      BY <1>1, <2>1
    <3>4. QED
      BY <3>1, <3>2, <3>3
  <2>3. req'[w] = Enter(req[w], req[w].todo \ {v})
    BY <1>1, <2>1, <2>2
  <2>4. \A x \in req[w].todo \ req'[w].todo : x = v
    BY <1>1, <1>2, <2>3
  <2>5. v.sid \in Sids => session'[v.sid].status = "revoked"
    BY <1>1, <2>1
  <2>6. req'[w].user = req[w].user /\ (req'[w].pc = "create" => req'[w].todo = {})
    BY <1>1, <1>2, <2>3
  <2>7. req[w].pc \in Evicting
    BY <1>5 DEF Deactivate, Evicting
  <2>8. QED
    BY <2>2, <2>4, <2>5, <2>6, <2>7
<1>6. CASE LogoutSession(w) \/ OthersList(w)
  <2>1. /\ req[w].op # "login"
        /\ \/ req'[w] = [req[w] EXCEPT !.pc = "done"]
           \/ \E todo : req' = [req EXCEPT ![w] = Enter(req[w], todo)]
    BY <1>1, <1>6 DEF LogoutSession, OthersList
  <2>2. QED
    BY <1>1, <1>3, <2>1 DEF Request
<1>7. CASE OthersCurrent(w) \/ RefreshSession(w)
  <2>1. \/ req'[w] = Idle
        \/ \E s : req'[w] = [req[w] EXCEPT !.pc = "list", !.sid = s]
        \/ \E s : req'[w] = [req[w] EXCEPT !.pc = "rotate", !.sid = s]
    BY <1>1, <1>7 DEF OthersCurrent, RefreshSession, Finish
  <2>2. QED
    BY <1>1, <2>1 DEF Request, Evicting
<1>8. CASE BlacklistRefresh(w)
  <2>1. PICK v \in req[w].todo : req'[w] = AfterBlacklisting(req[w], v)
    BY <1>1, <1>8 DEF BlacklistRefresh
  <2>2. AfterBlacklisting(req[w], v).op = req[w].op
    BY <1>1 DEF AfterBlacklisting, Request
  <2>3. AfterBlacklisting(req[w], v) = [req[w] EXCEPT !.pc = "deactivate"]
    BY <2>1, <2>2 DEF AfterBlacklisting, PerSession
  <2>4. QED
    BY <1>1, <1>8, <2>1, <2>2, <2>3 DEF BlacklistRefresh, Request, Evicting
<1>9. CASE RefreshRotate(w)
  <2>1. PICK p \in Pairs :
            req' = [req EXCEPT ![w] = [req[w] EXCEPT !.pc = "store", !.new = p]]
    BY <1>9 DEF RefreshRotate
  <2>2. QED
    BY <1>1, <2>1 DEF Request, Evicting
<1>10. CASE BlacklistAccess(w)
  <2>1. req'[w] = [req[w] EXCEPT !.pc = "blacklistRefresh"] /\ req[w].pc = "blacklistAccess"
    BY <1>1, <1>10 DEF BlacklistAccess
  <2>2. QED
    BY <1>1, <2>1 DEF Request, Evicting
<1>11. CASE \/ Fail(w) \/ Done(w) \/ Respond(w) \/ LoginCreate(w)
            \/ RefreshUser(w) \/ RefreshStore(w) \/ RevokeAllUpdateMany(w)
  <2>1. \/ req'[w] = Idle
        \/ \E c \in {"respond", "session", "done"} : req'[w] = [req[w] EXCEPT !.pc = c]
    BY <1>1, <1>11 DEF Fail, Finish, Done, Respond, LoginCreate, RefreshUser, RefreshStore,
       RevokeAllUpdateMany
  <2>2. QED
    BY <1>1, <2>1 DEF Request, Evicting
<1>12. QED
  BY <1>4, <1>5, <1>6, <1>7, <1>8, <1>9, <1>10, <1>11 DEF Proceed

(* One worker more, or fewer. *)
LEMMA AddOne ==
    ASSUME NEW W, IsFiniteSet(W), NEW A \in SUBSET W, NEW x \in W \ A
    PROVE  /\ Cardinality(A) \in Nat
           /\ Cardinality(A \cup {x}) = Cardinality(A) + 1
<1>1. IsFiniteSet(A) /\ Cardinality(A) \in Nat
  BY FS_Subset, FS_CardinalityType
<1>2. QED
  BY <1>1, FS_AddElement

LEMMA Smaller ==
    ASSUME NEW W, IsFiniteSet(W), NEW B \in SUBSET W, NEW A \in SUBSET B
    PROVE  /\ Cardinality(A) \in Nat /\ Cardinality(B) \in Nat
           /\ Cardinality(A) <= Cardinality(B)
<1>1. IsFiniteSet(B)
  BY FS_Subset
<1>2. IsFiniteSet(A) /\ Cardinality(A) <= Cardinality(B)
  BY <1>1, FS_Subset
<1>3. QED
  BY <1>1, <1>2, FS_CardinalityType

(* Rows are created by whoever acts. *)
LEMMA OnlyCreator ==
    ASSUME TypeOK, NEW w \in Workers, Arrive(w) \/ Proceed(w) \/ Fail(w),
           NEW v \in Workers, LoginCreate(v)
    PROVE  v = w
<1>1. req \in [Workers -> Request] /\ req[v] \in Request
  BY DEF TypeOK
<1>2. req[v].pc = "create" /\ req'[v].pc = "respond"
  BY <1>1 DEF LoginCreate, Request
<1>3. QED
  BY <1>2, OnlyOwn

(* A request that is not a login that has just looked up its sessions: a   *)
(* login that gets to create its row was counted among those evicting.     *)
LEMMA RoomStep ==
    ASSUME IsFiniteSet(Workers), BoundInv, [Next]_vars, NEW w \in Workers,
           Arrive(w) \/ Proceed(w) \/ Fail(w), ~\E u \in Users : LoginLookup(w, u),
           NEW u \in Users, NEW X \in SUBSET Evictors(req', u)
    PROVE  Cardinality(Standing(u)' \ Doomed(req', X))
             + Cardinality(Creators(req', u)) + Cardinality(X)
               <= MaxConcurrentSessions + Cardinality(Workers) - 1
<1> DEFINE Y == X \cup ({w} \cap Creators(req', u))
           C == Creators(req, u)
           CN == Creators(req', u)
           S == Standing(u) \ Doomed(req, Y)
           SN == Standing(u)' \ Doomed(req', X)
           Makes == LoginCreate(w) /\ req[w].user = u
<1>0. /\ PInv /\ TypeOK /\ Named(req'[w], signed')
      /\ req \in [Workers -> Request] /\ req[w] \in Request
  BY NextPairsSigned DEF BoundInv, PInv, PairsSigned, TypeOK
<1>1. \A v \in Workers \ {w} : req'[v] = req[v]
  BY <1>0, OnlyOwn
<1>2. ASSUME w \in X \cup CN
      PROVE  /\ req[w].op = "login" /\ req[w].pc \in Evicting /\ req[w].user = u
             /\ req'[w].pc = "create" => req'[w].todo = {}
             /\ \A v \in req[w].todo \ req'[w].todo :
                   v.sid \in Sids => session'[v.sid].status = "revoked"
  <2>1. /\ req'[w].op = "login" /\ req'[w].pc \in Evicting \cup {"create"}
        /\ req'[w].user = u
    BY <1>0, <1>2 DEF Evictors, Creators, Named
  <2>2. QED
    BY <1>0, <2>1, LoginShape
<1>3. Y \in SUBSET Evictors(req, u) /\ X \in SUBSET Workers /\ Y \in SUBSET Workers
      /\ C \in SUBSET Workers /\ CN \in SUBSET Workers
  BY <1>1, <1>2 DEF Evictors, Creators
<1>4. w \in CN => w \notin X /\ w \notin C /\ ~Makes
  <2>1. w \in CN => req'[w].pc = "create" /\ req[w].pc \in Evicting
    BY <1>2 DEF Creators
  <2>2. QED
    BY <2>1 DEF Evicting, Evictors, Creators, LoginCreate
<1>5. \A v \in Workers \ {w} : v \in CN <=> v \in C
  BY <1>1 DEF Creators
<1>6. Makes => w \in C
  BY DEF Creators, LoginCreate
<1>7. S \in SUBSET Sids /\ SN \in SUBSET Sids /\ IsFiniteSet(Sids)
  BY RowsFinite DEF Standing, ActiveOf, Sids
<1>8. SN \subseteq S \cup (IF Makes THEN {created + 1} ELSE {})
  <2> SUFFICES ASSUME NEW s \in SN
               PROVE  s \in S \/ (Makes /\ s = created + 1)
    BY Zenon
  <2>1. s \in Standing(u) \/ (Makes /\ s = created + 1)
    BY <1>0, StandingShape, OnlyCreator
  <2>2. ASSUME NEW y \in Y, NEW v \in req[y].todo, v.sid = s PROVE FALSE
    <3>1. ASSUME NEW x \in X, v \in req'[x].todo PROVE FALSE
      BY <2>2, <3>1 DEF Doomed
    <3>2. CASE y # w
      <4>1. y \in X /\ y \in Workers
        BY <1>3, <3>2
      <4>2. QED
        BY <1>1, <3>1, <3>2, <4>1
    <3>3. CASE y = w
      <4>1. w \in X \cup CN
        BY <3>3
      <4>2. session'[s].status # "revoked" /\ s \in Sids
        BY DEF Standing, ActiveOf, Active
      <4>3. v \in req'[w].todo
        BY <1>2, <2>2, <3>3, <4>1, <4>2
      <4>4. w \in X
        <5>1. w \in CN => req'[w].pc = "create"
          BY DEF Creators
        <5>2. ~(req'[w].pc = "create")
          BY <1>2, <4>1, <4>3
        <5>3. QED
          BY <4>1, <5>1, <5>2
      <4>5. QED
        BY <3>1, <4>3, <4>4
    <3>4. QED
      BY <3>2, <3>3
  <2>3. s \notin Doomed(req, Y)
    BY <2>2 DEF Doomed
  <2>4. QED
    BY <2>1, <2>3
<1>9. Cardinality(S) + Cardinality(C) + Cardinality(Y)
        <= MaxConcurrentSessions + Cardinality(Workers) - 1
  BY <1>3 DEF BoundInv, Room
<1> HIDE DEF Y, C, CN, S, SN, Makes
<1>10. /\ Cardinality(X) \in Nat /\ Cardinality(Y) \in Nat /\ Cardinality(C) \in Nat
       /\ Cardinality(CN) \in Nat /\ Cardinality(Workers) \in Nat
       /\ Cardinality(S) \in Nat /\ Cardinality(SN) \in Nat
       /\ MaxConcurrentSessions \in Nat
  BY <1>3, <1>7, Smaller, SessionAssumption
<1>11. CASE w \in CN
  <2>1. Y = X \cup {w} /\ CN = C \cup {w}
    BY <1>3, <1>5, <1>11 DEF Y, CN
  <2>2. Cardinality(Y) = Cardinality(X) + 1
    BY <1>3, <1>4, <1>11, <2>1, AddOne
  <2>3. Cardinality(CN) = Cardinality(C) + 1
    BY <1>3, <1>4, <1>11, <2>1, AddOne
  <2>4. Cardinality(SN) <= Cardinality(S)
    BY <1>4, <1>7, <1>8, <1>11, Smaller
  <2>5. Cardinality(SN) + Cardinality(CN) + Cardinality(X)
          <= MaxConcurrentSessions + Cardinality(Workers) - 1
    BY <1>9, <1>10, <2>2, <2>3, <2>4
  <2>6. QED
    BY <2>5 DEF SN, CN
<1>12. CASE w \notin CN /\ ~Makes
  <2>1. Y = X /\ CN \in SUBSET C
    BY <1>3, <1>5, <1>12 DEF Y, CN
  <2>2. Cardinality(SN) <= Cardinality(S) /\ Cardinality(CN) <= Cardinality(C)
    BY <1>3, <1>7, <1>8, <1>12, <2>1, Smaller
  <2>3. Cardinality(SN) + Cardinality(CN) + Cardinality(X)
          <= MaxConcurrentSessions + Cardinality(Workers) - 1
    BY <1>9, <1>10, <2>1, <2>2
  <2>4. QED
    BY <2>3 DEF SN, CN
<1>13. CASE w \notin CN /\ Makes
  <2> DEFINE s == created + 1
             D == C \ {w}
  <2>1. Y = X /\ CN \in SUBSET D /\ D \in SUBSET Workers /\ C = D \cup {w} /\ w \in Workers \ D
    BY <1>3, <1>5, <1>6, <1>13 DEF Y, CN
  <2>2. IsFiniteSet(S)
    BY <1>7, FS_Subset
  <2>3. IsFiniteSet(S \cup {s}) /\ Cardinality(S \cup {s}) <= Cardinality(S) + 1
    <3>1. /\ IsFiniteSet(S \cup {s})
          /\ \/ Cardinality(S \cup {s}) = Cardinality(S)
             \/ Cardinality(S \cup {s}) = Cardinality(S) + 1
      BY <2>2, FS_AddElement, Zenon
    <3>2. QED
      BY <1>10, <3>1
  <2>4. Cardinality(SN) <= Cardinality(S \cup {s})
    BY <1>8, <1>13, <2>3, Smaller
  <2>5. Cardinality(CN) <= Cardinality(D) /\ Cardinality(D) \in Nat
        /\ Cardinality(C) = Cardinality(D) + 1
    BY <2>1, Smaller, AddOne
  <2>6. Cardinality(S \cup {s}) \in Nat
    BY <2>3, FS_CardinalityType
  <2> HIDE DEF D
  <2>7. Cardinality(SN) + Cardinality(CN) + Cardinality(X)
          <= MaxConcurrentSessions + Cardinality(Workers) - 1
    BY <1>9, <1>10, <2>1, <2>3, <2>4, <2>5, <2>6
  <2>8. QED
    BY <2>7 DEF SN, CN
<1>14. QED
  BY <1>11, <1>12, <1>13

(* A login that looks up the sessions makes room for its own whatever the  *)
(* other requests are at: each of those can stand for one row at most.     *)
LEMMA RoomLookup ==
    ASSUME IsFiniteSet(Workers), BoundInv, [Next]_vars, NEW w \in Workers,
           NEW a \in Users, LoginLookup(w, a),
           NEW u \in Users, NEW X \in SUBSET Evictors(req', u)
    PROVE  Cardinality(Standing(u)' \ Doomed(req', X))
             + Cardinality(Creators(req', u)) + Cardinality(X)
               <= MaxConcurrentSessions + Cardinality(Workers) - 1
<1> DEFINE CN == Creators(req', u)
           SN == Standing(u)' \ Doomed(req', X)
           R == Refreshers(req)
           r(p) == [Idle EXCEPT !.op = "login", !.user = a, !.new = p]
<1>0. /\ PInv /\ TypeOK /\ req \in [Workers -> Request] /\ Arrive(w)
      /\ req[w] = Idle
  BY ArrivesIdle DEF BoundInv, PInv, TypeOK, Arrive
<1>1. \A v \in Workers \ {w} : req'[v] = req[v]
  BY <1>0, OnlyOwn
<1>2. PICK p \in Pairs : req' = [req EXCEPT ![w] = Enter(r(p), Evicted(a))]
  BY DEF LoginLookup
<1>3. /\ req'[w].op = "login" /\ req'[w].user = a /\ req'[w].todo = Evicted(a)
      /\ req'[w].pc \in Evicting \cup {"create"}
      /\ req'[w].pc = "create" => Evicted(a) = {}
  <2>1. p \in 0..MaxPairs
    BY DEF Pairs
  <2>2. r(p) \in Request /\ r(p).op = "login" /\ r(p).user = a
    BY <2>1, IdleTyped DEF Request, Idle
  <2> HIDE DEF r
  <2>3. req'[w] = Enter(r(p), Evicted(a))
    BY <1>0, <1>2
  <2>4. QED
    BY <2>2, <2>3 DEF Enter, Request, Afterwards, Evicting
<1>4. X \in SUBSET Workers /\ CN \in SUBSET Workers /\ R \in SUBSET Workers
  BY DEF Evictors, Creators, Refreshers
<1>5. SN \in SUBSET Sids /\ IsFiniteSet(Sids) /\ Standing(u) \in SUBSET Sids
      /\ Standing(u)' \subseteq Standing(u)
  <2>1. ASSUME NEW v \in Workers, LoginCreate(v) PROVE FALSE
    <3>1. v = w
      BY <1>0, <2>1, OnlyCreator
    <3>2. QED
      BY <1>0, <2>1, <3>1 DEF LoginCreate, Idle
  <2>2. QED
    BY <1>0, <2>1, StandingShape, RowsFinite DEF Standing, ActiveOf, Sids
<1>6. /\ Cardinality(X) \in Nat /\ Cardinality(CN) \in Nat
      /\ Cardinality(R) \in Nat /\ Cardinality(Workers) \in Nat
      /\ Cardinality(SN) \in Nat /\ MaxConcurrentSessions \in Nat
  BY <1>4, <1>5, Smaller, SessionAssumption
<1>7. CASE w \in X \cup CN
  <2> DEFINE live == LiveOf(u)
             old == {s \in live : Cardinality({t \in live : t < s}) < Excess(u)}
             kept == live \ old
             back == Standing(u) \ live
  <2>1. u = a
    BY <1>3, <1>7 DEF Evictors, Creators
  <2>2. Cardinality(kept) <= MaxConcurrentSessions - 1
    BY KeptSessions
  <2>3. Cardinality(back) <= Cardinality(R)
    BY FewRefreshed
  <2>4. Evicted(u) = {Snapshot(s) : s \in old}
    BY DEF Evicted
  <2> HIDE DEF old
  <2>5. SN \subseteq kept \cup back
    <3> SUFFICES ASSUME NEW s \in SN, s \in old PROVE FALSE
      BY <1>5
    <3>1. Snapshot(s) \in Evicted(u) /\ Snapshot(s).sid = s
      BY <2>4 DEF Snapshot
    <3>2. w \in X
      BY <1>3, <1>7, <2>1, <3>1 DEF Creators
    <3>3. s \in Doomed(req', X)
      BY <1>3, <2>1, <3>1, <3>2 DEF Doomed
    <3>4. QED
      BY <3>3
  <2>6. /\ kept \in SUBSET Sids /\ back \in SUBSET Sids
        /\ kept \cap back = {}
    BY <1>5 DEF LiveOf, ActiveOf
  <2> HIDE DEF kept, back, live, CN, SN
  <2>7. /\ Cardinality(kept) \in Nat /\ Cardinality(back) \in Nat
        /\ Cardinality(SN) <= Cardinality(kept) + Cardinality(back)
    <3>1. IsFiniteSet(kept) /\ IsFiniteSet(back)
      BY <1>5, <2>6, FS_Subset
    <3>2. Cardinality(kept) \in Nat /\ Cardinality(back) \in Nat /\ Cardinality({}) = 0
      BY <3>1, FS_CardinalityType, FS_EmptySet
    <3>3. /\ IsFiniteSet(kept \cup back)
          /\ Cardinality(kept \cup back)
               = Cardinality(kept) + Cardinality(back) - Cardinality(kept \cap back)
      BY <3>1, FS_Union
    <3>4. Cardinality(kept \cup back) = Cardinality(kept) + Cardinality(back)
      BY <2>6, <3>2, <3>3
    <3>5. Cardinality(SN) <= Cardinality(kept \cup back)
      BY <2>5, <3>3, Smaller
    <3>6. QED
      BY <3>2, <3>4, <3>5
  <2>8. Cardinality(R) + Cardinality(CN) + Cardinality(X) <= Cardinality(Workers)
    <3>1. R \cap CN = {} /\ R \cap X = {} /\ CN \cap X = {}
      <4>1. w \notin R
        BY <1>0 DEF Refreshers, Idle
      <4>2. \A v \in R : req'[v].pc \in {"rotate", "store"}
        BY <1>1, <4>1 DEF Refreshers
      <4>3. /\ \A v \in CN : req'[v].pc = "create"
            /\ \A v \in X : req'[v].pc \in Evicting
        BY DEF CN, Creators, Evictors
      <4>4. QED
        BY <4>2, <4>3 DEF Evicting
    <3>2. QED
      BY <1>4, <3>1, Disjoint3
  <2>9. Cardinality(SN) + Cardinality(CN) + Cardinality(X)
          <= MaxConcurrentSessions + Cardinality(Workers) - 1
    BY <1>6, <2>2, <2>3, <2>7, <2>8
  <2>10. QED
    BY <2>9 DEF SN, CN
<1>8. CASE w \notin X \cup CN
  <2> DEFINE C == Creators(req, u)
             S == Standing(u) \ Doomed(req, X)
  <2>1. X \in SUBSET Evictors(req, u)
    BY <1>1, <1>4, <1>8 DEF Evictors
  <2>2. CN \in SUBSET C
    BY <1>1, <1>8 DEF Creators
  <2>3. Doomed(req', X) = Doomed(req, X)
    BY <1>1, <1>4, <1>8 DEF Doomed
  <2>4. SN \in SUBSET S /\ S \in SUBSET Sids /\ C \in SUBSET Workers
    BY <1>5, <2>3 DEF Creators
  <2>5. Cardinality(S) + Cardinality(C) + Cardinality(X)
          <= MaxConcurrentSessions + Cardinality(Workers) - 1
    BY <2>1 DEF BoundInv, Room
  <2> HIDE DEF S, C, SN, CN
  <2>6. /\ Cardinality(SN) <= Cardinality(S) /\ Cardinality(CN) <= Cardinality(C)
        /\ Cardinality(S) \in Nat /\ Cardinality(C) \in Nat
    BY <1>5, <2>2, <2>4, Smaller
  <2>7. Cardinality(SN) + Cardinality(CN) + Cardinality(X)
          <= MaxConcurrentSessions + Cardinality(Workers) - 1
    BY <1>6, <2>5, <2>6
  <2>8. QED
    BY <2>7 DEF SN, CN
<1>9. QED
  BY <1>7, <1>8

LEMMA NextRoom == IsFiniteSet(Workers) /\ BoundInv /\ [Next]_vars => Room'
<1> SUFFICES ASSUME IsFiniteSet(Workers), BoundInv, [Next]_vars,
                    NEW u \in Users, NEW X \in SUBSET Evictors(req', u)
             PROVE  Cardinality(Standing(u)' \ Doomed(req', X))
                      + Cardinality(Creators(req', u)) + Cardinality(X)
                        <= MaxConcurrentSessions + Cardinality(Workers) - 1
  BY DEF Room
<1>1. ASSUME NEW w \in Workers, Arrive(w) \/ Proceed(w) \/ Fail(w)
      PROVE  Cardinality(Standing(u)' \ Doomed(req', X))
               + Cardinality(Creators(req', u)) + Cardinality(X)
                 <= MaxConcurrentSessions + Cardinality(Workers) - 1
  <2>1. CASE \E a \in Users : LoginLookup(w, a)
    BY <2>1, RoomLookup
  <2>2. CASE ~\E a \in Users : LoginLookup(w, a)
    BY <1>1, <2>2, RoomStep
  <2>3. QED
    BY <2>1, <2>2
<1>2. ASSUME ~\E w \in Workers : Arrive(w) \/ Proceed(w) \/ Fail(w)
      PROVE  Cardinality(Standing(u)' \ Doomed(req', X))
               + Cardinality(Creators(req', u)) + Cardinality(X)
                 <= MaxConcurrentSessions + Cardinality(Workers) - 1
  <2> DEFINE S == Standing(u) \ Doomed(req, X)
             SN == Standing(u)' \ Doomed(req', X)
  <2>1. req' = req /\ PInv
    BY <1>2, OtherSteps DEF BoundInv
  <2>2. Standing(u)' \subseteq Standing(u)
    BY <1>2, <2>1, StandingShape DEF Proceed
  <2>3. SN \in SUBSET S /\ S \in SUBSET Sids /\ X \in SUBSET Evictors(req, u)
    BY <2>1, <2>2 DEF Standing, ActiveOf
  <2>4. Cardinality(S) + Cardinality(Creators(req, u)) + Cardinality(X)
          <= MaxConcurrentSessions + Cardinality(Workers) - 1
    BY <2>3 DEF BoundInv, Room
  <2>5. X \in SUBSET Workers /\ Creators(req, u) \in SUBSET Workers /\ IsFiniteSet(Sids)
    BY <2>3, RowsFinite DEF Evictors, Creators, Sids
  <2> HIDE DEF S, SN
  <2>6. /\ Cardinality(SN) <= Cardinality(S) /\ Cardinality(SN) \in Nat
        /\ Cardinality(S) \in Nat /\ Cardinality(X) \in Nat
        /\ Cardinality(Creators(req, u)) \in Nat /\ Cardinality(Workers) \in Nat
        /\ MaxConcurrentSessions \in Nat
    BY <2>3, <2>5, Smaller, SessionAssumption
  <2>7. Cardinality(SN) + Cardinality(Creators(req, u)) + Cardinality(X)
          <= MaxConcurrentSessions + Cardinality(Workers) - 1
    BY <2>4, <2>6
  <2>8. QED
    BY <2>1, <2>7 DEF SN
<1>3. QED
  BY <1>1, <1>2

(* However many logins and refreshes of a user overlap, and whatever fails *)
(* half way, login's eviction (198-249) keeps the user's live sessions at  *)
(* the limit plus one for every other request in flight.                   *)
THEOREM BoundedSessions ==
    IsFiniteSet(Workers) => (Spec => []SessionBound)
<1> SUFFICES ASSUME IsFiniteSet(Workers) PROVE Spec => []SessionBound
  OBVIOUS
<1>1. /\ Cardinality(Workers) \in Nat /\ MaxConcurrentSessions \in Nat \ {0}
      /\ Cardinality({}) = 0
  BY FS_CardinalityType, FS_EmptySet, SessionAssumption
<1>2. Init => BoundInv
  <2> SUFFICES ASSUME Init PROVE BoundInv
    OBVIOUS
  <2>1. PairsSigned
    BY IdleNamed DEF Init, PairsSigned, Active
  <2>2. ASSUME NEW u \in Users, NEW X \in SUBSET Evictors(req, u)
        PROVE  Standing(u) \ Doomed(req, X) = {} /\ Creators(req, u) = {} /\ X = {}
    BY DEF Init, Standing, ActiveOf, Active, Creators, Evictors, Idle
  <2>3. Room
    <3> SUFFICES ASSUME NEW u \in Users, NEW X \in SUBSET Evictors(req, u)
                 PROVE  Cardinality(Standing(u) \ Doomed(req, X))
                          + Cardinality(Creators(req, u)) + Cardinality(X)
                            <= MaxConcurrentSessions + Cardinality(Workers) - 1
      BY DEF Room
    <3>1. /\ Cardinality(Standing(u) \ Doomed(req, X)) = 0
          /\ Cardinality(Creators(req, u)) = 0 /\ Cardinality(X) = 0
      BY <1>1, <2>2
    <3>2. QED
      BY <1>1, <3>1
  <2>4. QED
    BY <2>1, <2>3, InitTypeOK DEF BoundInv, PInv
<1>3. BoundInv /\ [Next]_vars => BoundInv'
  BY NextTypeOK, NextPairsSigned, NextRoom DEF BoundInv, PInv
<1>4. BoundInv => SessionBound
  <2> SUFFICES ASSUME BoundInv, NEW u \in Users
               PROVE  Cardinality(LiveOf(u))
                        <= MaxConcurrentSessions + Cardinality(Workers) - 1
    BY DEF SessionBound
  <2>1. {} \in SUBSET Evictors(req, u) /\ Doomed(req, {}) = {}
    BY DEF Doomed
  <2>2. Cardinality(Standing(u)) + Cardinality(Creators(req, u)) + Cardinality({})
          <= MaxConcurrentSessions + Cardinality(Workers) - 1
    <3>1. Standing(u) \ Doomed(req, {}) = Standing(u)
      BY <2>1
    <3>2. QED
      BY <2>1, <3>1 DEF BoundInv, Room
  <2>3. LiveOf(u) \in SUBSET Standing(u) /\ Standing(u) \in SUBSET Sids
        /\ Creators(req, u) \in SUBSET Workers /\ IsFiniteSet(Sids)
    BY RowsFinite DEF LiveOf, Standing, ActiveOf, Creators, Sids
  <2>4. /\ Cardinality(LiveOf(u)) <= Cardinality(Standing(u))
        /\ Cardinality(LiveOf(u)) \in Nat /\ Cardinality(Standing(u)) \in Nat
        /\ Cardinality(Creators(req, u)) \in Nat
    BY <2>3, Smaller
  <2>5. QED
    BY <1>1, <2>2, <2>4
<1>5. QED
  BY <1>2, <1>3, <1>4, PTL DEF Spec
=============================================================================
