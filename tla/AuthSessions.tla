--------------------------- MODULE AuthSessions ---------------------------
(***************************************************************************)
(* Login sessions and tokens: AuthService.login, refreshToken, logout,     *)
(* logoutOtherSessions, revokeAllUserSessions and revokeUserSession, the   *)
(* session repository they write to, the token blacklist they keep in the  *)
(* cache, and the check JwtStrategy.validate makes of an access token.     *)
(*                                                                         *)
(* Every request runs in a worker.  A handler is split where it awaits the *)
(* database or the cache, so requests interleave there and only there.     *)
(* One sign of the handler makes an access token and a refresh token; the  *)
(* row of a session always stores the two of one sign, so a token is named *)
(* by its pair.  Time is the age of each pair and the rest of each         *)
(* blacklist entry's TTL, both in ticks.                                   *)
(***************************************************************************)
EXTENDS Integers, FiniteSets

CONSTANTS
    Users, Workers, NoUser,
    MaxConcurrentSessions,  \* security.session.maxConcurrentSessions
    MaxLogins,              \* bound: rows of user_sessions in a behaviour
    MaxPairs,               \* bound: token pairs signed in a behaviour
    AccessTTL, RefreshTTL,  \* JWT lifetimes (jwt.config), in ticks
    SessionTTL,             \* expiresAt, 7 days after signing
    AccessBlacklistTTL,     \* 15 * 60
    RefreshBlacklistTTL,    \* 7 * 24 * 60 * 60
    SameSecond,   \* may two signs for one user carry the same iat second?
    Failures,     \* may an await of a handler throw (or its process die)?
    CacheLoss,    \* may the cache lose the blacklist (restart, eviction)?
    Ops           \* the kinds of request that arrive in this instance

ASSUME SessionAssumption ==
    /\ NoUser \notin Users
    /\ MaxConcurrentSessions \in Nat \ {0}
    /\ MaxLogins \in Nat
    /\ MaxPairs \in Nat
    /\ AccessTTL \in Nat \ {0}
    /\ RefreshTTL \in Nat \ {0}
    /\ SessionTTL \in Nat \ {0}
    /\ AccessBlacklistTTL \in Nat
    /\ RefreshBlacklistTTL \in Nat
    /\ SameSecond \in BOOLEAN
    /\ Failures \in BOOLEAN
    /\ CacheLoss \in BOOLEAN

VARIABLES
    session,    \* rows of user_sessions: [user, pair, status]
    pair,       \* signed token pairs: [owner, age]
    signed,     \* how many pairs have been signed
    created,    \* how many rows have been created (ids follow createdAt)
    blAccess,   \* TTL left of token:blacklist:<access token>, 0 when absent
    blRefresh,  \* TTL left of token:blacklist:<refresh token>
    userActive, \* users.isActive
    req,        \* req[w]: the request worker w is serving
    held,       \* history: pairs a client has received in a response
    issuedFor,  \* history: <<p, s>>, pair p was stored in the row of s
    burntAccess,  \* history: access tokens ever put on the blacklist
    burntRefresh, \* history: refresh tokens ever put on the blacklist
    crossed       \* history: rows that got their pair across a revocation

history == <<held, issuedFor, burntAccess, burntRefresh, crossed>>
tokenVars == <<pair, signed>>
rowVars == <<session, created>>
cacheVars == <<blAccess, blRefresh>>
vars == <<rowVars, tokenVars, cacheVars, userActive, req, history>>

Sids == 1..MaxLogins
Pairs == 1..MaxPairs
Longer(a, b) == IF a > b THEN a ELSE b
MaxAge == Longer(AccessTTL, Longer(RefreshTTL, SessionTTL))

Idle == [op |-> "idle", pc |-> "idle", user |-> NoUser, pair |-> 0,
         new |-> 0, sid |-> 0, todo |-> {}, marked |-> {}, late |-> FALSE]

(* A row as findActiveByUserId returned it: its later changes are not seen. *)
Snapshot(s) == [sid |-> s, pair |-> session[s].pair]

-----------------------------------------------------------------------------
(* What the code can ask of the state. *)

Active(s) == session[s].status = "active"
Unexpired(s) == pair[session[s].pair].age < SessionTTL
ActiveOf(u) == {s \in Sids : Active(s) /\ session[s].user = u}
LiveOf(u) == {s \in ActiveOf(u) : Unexpired(s)}

AccessAlive(p) == pair[p].age < AccessTTL
RefreshAlive(p) == pair[p].age < RefreshTTL

(* JwtStrategy: the signature and exp of the access token, then the        *)
(* blacklist; neither the session nor the user is looked at.               *)
AcceptsAccess(p) == AccessAlive(p) /\ blAccess[p] = 0

(* No active session stores the refresh token: it was replaced by a        *)
(* refresh, or the session has been revoked.                               *)
Dead(p) == ~ \E s \in Sids : Active(s) /\ session[s].pair = p

-----------------------------------------------------------------------------
Init ==
    /\ session = [s \in Sids |-> [user |-> NoUser, pair |-> 0,
                                  status |-> "absent"]]
    /\ pair = [p \in Pairs |-> [owner |-> NoUser, age |-> 0]]
    /\ signed = 0
    /\ created = 0
    /\ blAccess = [p \in Pairs |-> 0]
    /\ blRefresh = [p \in Pairs |-> 0]
    /\ userActive = [u \in Users |-> TRUE]
    /\ req = [w \in Workers |-> Idle]
    /\ held = {} /\ issuedFor = {}
    /\ burntAccess = {} /\ burntRefresh = {} /\ crossed = {}

(***************************************************************************)
(* jwtService.sign is a function of the payload and of iat in seconds:     *)
(* within one second the same user gets the same two tokens again.  A tick *)
(* is longer than a second, so in the tick of an earlier sign both happen. *)
(***************************************************************************)
Signable(u) ==
    {p \in Pairs : p = signed + 1}
      \cup {p \in Pairs : /\ SameSecond
                          /\ p <= signed
                          /\ pair[p].owner = u
                          /\ pair[p].age = 0}

Sign(u, p) ==
    /\ p \in Signable(u)
    /\ signed' = IF p > signed THEN p ELSE signed
    /\ pair' = [pair EXCEPT ![p] = [owner |-> u, age |-> 0]]

(* The bounds leave room for every request already admitted. *)
PairBudget ==
    signed + Cardinality({w \in Workers :
                 req[w].op = "refresh" /\ req[w].new = 0}) < MaxPairs
LoginBudget ==
    created + Cardinality({w \in Workers :
                 req[w].op = "login" /\ req[w].pc # "respond"}) < MaxLogins

Admit(w, kind) == req[w] = Idle /\ kind \in Ops

-----------------------------------------------------------------------------
(* The loops that revoke a list of sessions. *)

(* login revokes the oldest first; the other lists come newest first.      *)
IsNext(v, r) ==
    /\ v \in r.todo
    /\ \A x \in r.todo : IF r.op = "login" THEN v.sid <= x.sid
                                          ELSE v.sid >= x.sid

(* Requests that clear isActive of each session right after blacklisting   *)
(* its tokens, and those that blacklist the whole list first.              *)
PerSession == {"login", "logout", "one"}

(* Mutated form: revokeAllUserSessions forgets revokeAllByUserId. *)
AfterwardsNoUpdateMany(op) == IF op = "login" THEN "create" ELSE "done"

(* What a request does when its list is exhausted. *)
Afterwards(op) ==
    CASE op = "login" -> "create"
      [] op = "all" -> "updateMany"
      [] OTHER -> "done"

(* Mutated form: isActive is cleared without the tokens being blacklisted. *)
EnterWithoutBlacklist(r, todo) ==
    [r EXCEPT !.todo = todo,
              !.pc = IF todo = {} THEN Afterwards(r.op) ELSE "deactivate"]

(* Take a list to revoke; an empty one is done with at once. *)
Enter(r, todo) ==
    [r EXCEPT !.todo = todo,
              !.pc = IF todo = {} THEN Afterwards(r.op) ELSE "blacklistAccess"]

(* Mutated form: the entry expires one tick before the token. *)
BanTooShort(blacklist, p, ttl) == [blacklist EXCEPT ![p] = ttl - 1]

(* addTokenToBlacklist; a second entry for a token renews the TTL. *)
Ban(blacklist, p, ttl) == [blacklist EXCEPT ![p] = ttl]

BlacklistAccess(w) ==
    /\ req[w].pc = "blacklistAccess"
    /\ \E v \in req[w].todo :
          /\ IsNext(v, req[w])
          /\ blAccess' = Ban(blAccess, v.pair, AccessBlacklistTTL)
          /\ burntAccess' = burntAccess \cup {v.pair}
    /\ req' = [req EXCEPT ![w].pc = "blacklistRefresh"]
    /\ UNCHANGED <<rowVars, tokenVars, blRefresh, userActive, held, issuedFor,
                   burntRefresh, crossed>>

(* login, logout and revokeUserSession deactivate the session before the   *)
(* next one; logoutOtherSessions has a second loop over the same list;     *)
(* revokeAllUserSessions ends with one updateMany.                         *)
AfterBlacklisting(r, v) ==
    LET rest == r.todo \ {v}
        marked == r.marked \cup {v}
    IN CASE r.op \in PerSession -> [r EXCEPT !.pc = "deactivate"]
         [] r.op \notin PerSession /\ rest # {} ->
              [r EXCEPT !.todo = rest, !.marked = marked,
                        !.pc = "blacklistAccess"]
         [] r.op = "all" /\ rest = {} ->
              [r EXCEPT !.todo = {}, !.marked = marked,
                        !.pc = Afterwards("all")]
         [] OTHER -> [r EXCEPT !.todo = marked, !.marked = {},
                               !.pc = "deactivate"]

BlacklistRefresh(w) ==
    /\ req[w].pc = "blacklistRefresh"
    /\ \E v \in req[w].todo :
          /\ IsNext(v, req[w])
          /\ blRefresh' = Ban(blRefresh, v.pair, RefreshBlacklistTTL)
          /\ burntRefresh' = burntRefresh \cup {v.pair}
          /\ req' = [req EXCEPT ![w] = AfterBlacklisting(req[w], v)]
    /\ UNCHANGED <<rowVars, tokenVars, blAccess, userActive, held, issuedFor,
                   burntAccess, crossed>>

(* Mutated form: revokeAllByUserId in place of the rows of the list. *)
DeactivateAll(w) ==
    /\ req[w].pc = "deactivate"
    /\ session' = [s \in Sids |-> IF s \in ActiveOf(req[w].user)
                                    THEN [session[s] EXCEPT !.status = "revoked"]
                                    ELSE session[s]]
    /\ req' = [req EXCEPT ![w] = Enter(@, {})]
    /\ UNCHANGED <<created, tokenVars, cacheVars, userActive, history>>

(* sessionRepository.update(id, {isActive: false}), unconditional. *)
Deactivate(w) ==
    LET r == req[w] IN
    /\ r.pc = "deactivate"
    /\ \E v \in r.todo :
          /\ IsNext(v, r)
          /\ session' = [session EXCEPT ![v.sid].status = "revoked"]
          /\ LET rest == r.todo \ {v} IN
             req' = [req EXCEPT ![w] =
                IF r.op = "others" /\ rest # {} THEN [r EXCEPT !.todo = rest]
                                                ELSE Enter(r, rest)]
    /\ UNCHANGED <<created, tokenVars, cacheVars, userActive, history>>

(* The rest of logout, logoutOtherSessions, revokeUserSession: respond.    *)
Done(w) ==
    /\ req[w].pc = "done"
    /\ req' = [req EXCEPT ![w] = Idle]
    /\ UNCHANGED <<rowVars, tokenVars, cacheVars, userActive, history>>

(* A request ends before it changed anything, with or without an error. *)
Finish(w) == req' = [req EXCEPT ![w] = Idle]

-----------------------------------------------------------------------------
(* login, entered with a user whose credentials LocalStrategy checked.     *)

(* A request other than w has read its list and has still to revoke row s  *)
(* of u: the row is on the list, or updateMany will take what is active.   *)
Looping == {"blacklistAccess", "blacklistRefresh", "deactivate", "updateMany"}
Owed(w, u, s) ==
    \E v \in Workers \ {w} :
       /\ req[v].pc \in Looping
       /\ \/ \E x \in req[v].todo \cup req[v].marked : x.sid = s
          \/ req[v].op = "all" /\ req[v].user = u

(* Mutated form: off by one, the new session is not counted. *)
ExcessWithoutNew(u) == Cardinality(LiveOf(u)) - MaxConcurrentSessions

(* How many sessions have to go so that with the new one the limit holds. *)
Excess(u) == Cardinality(LiveOf(u)) - MaxConcurrentSessions + 1

Evicted(u) ==
    LET live == LiveOf(u)
        oldest == {s \in live : Cardinality({t \in live : t < s}) < Excess(u)}
    IN {Snapshot(s) : s \in oldest}

(* Sign both tokens, read the active sessions, choose those to revoke. *)
LoginLookup(w, u) ==
    /\ Admit(w, "login")
    /\ userActive[u]
    /\ LoginBudget /\ PairBudget
    /\ \E p \in Pairs :
          /\ Sign(u, p)
          /\ req' = [req EXCEPT ![w] =
                 Enter([Idle EXCEPT !.op = "login", !.user = u, !.new = p],
                       Evicted(u))]
    /\ UNCHANGED <<rowVars, cacheVars, userActive, history>>

LoginCreate(w) ==
    LET s == created + 1 IN
    /\ req[w].pc = "create"
    /\ s \in Sids
    /\ created' = s
    /\ session' = [session EXCEPT ![s] = [user |-> req[w].user,
                                          pair |-> req[w].new,
                                          status |-> "active"]]
    /\ issuedFor' = issuedFor \cup {<<req[w].new, s>>}
    /\ crossed' = IF Owed(w, req[w].user, s) THEN crossed \cup {s} ELSE crossed
    /\ req' = [req EXCEPT ![w].pc = "respond"]
    /\ UNCHANGED <<tokenVars, cacheVars, userActive, held, burntAccess, burntRefresh>>

(* Everything after the row is written, up to the response. *)
Respond(w) ==
    /\ req[w].pc = "respond"
    /\ held' = held \cup {req[w].new}
    /\ req' = [req EXCEPT ![w] = Idle]
    /\ UNCHANGED <<rowVars, tokenVars, cacheVars, userActive, issuedFor,
                   burntAccess, burntRefresh, crossed>>

-----------------------------------------------------------------------------
(* refreshToken.  A check that fails ends the request with 401.            *)

RefreshCheck(w, p) ==
    /\ Admit(w, "refresh")
    /\ PairBudget
    /\ p \in held
    /\ RefreshAlive(p) /\ blRefresh[p] = 0
    /\ req' = [req EXCEPT ![w] = [Idle EXCEPT !.op = "refresh", !.pc = "user",
                                              !.user = pair[p].owner,
                                              !.pair = p,
                                              !.late = Dead(p)]]
    /\ UNCHANGED <<rowVars, tokenVars, cacheVars, userActive, history>>

RefreshUser(w) ==
    /\ req[w].pc = "user"
    /\ IF userActive[req[w].user] THEN req' = [req EXCEPT ![w].pc = "session"]
                                  ELSE Finish(w)
    /\ UNCHANGED <<rowVars, tokenVars, cacheVars, userActive, history>>

(* findFirst by token: any row that stores it. *)
RowsOf(p) == {s \in 1..created : session[s].pair = p}

(* Mutated form: isActive is not looked at. *)
SessionUnexpired(s, r) == Unexpired(s) /\ session[s].user = r.user

SessionValid(s, r) == Active(s) /\ Unexpired(s) /\ session[s].user = r.user

RefreshSession(w) ==
    LET r == req[w] IN
    /\ r.op = "refresh" /\ r.pc = "session"
    /\ \/ RowsOf(r.pair) = {} /\ Finish(w)
       \/ \E s \in RowsOf(r.pair) :
            IF SessionValid(s, r)
              THEN req' = [req EXCEPT ![w] = [r EXCEPT !.pc = "rotate",
                                                    !.sid = s]]
              ELSE Finish(w)
    /\ UNCHANGED <<rowVars, tokenVars, cacheVars, userActive, history>>

(* Sign the new tokens and blacklist the old refresh token; the old access *)
(* token is not blacklisted.                                               *)
RefreshRotate(w) ==
    LET r == req[w] IN
    /\ r.pc = "rotate"
    /\ \E p \in Pairs :
          /\ Sign(r.user, p)
          /\ req' = [req EXCEPT ![w] = [r EXCEPT !.pc = "store", !.new = p]]
    /\ blRefresh' = Ban(blRefresh, r.pair, RefreshBlacklistTTL)
    /\ burntRefresh' = burntRefresh \cup {r.pair}
    /\ UNCHANGED <<rowVars, blAccess, userActive, held, issuedFor,
                   burntAccess, crossed>>

(* Mutated form: the update sets isActive. *)
RotatedActive(row, p) == [row EXCEPT !.pair = p, !.status = "active"]

(* The update does not look at isActive and does not set it. *)
Rotated(row, p) == [row EXCEPT !.pair = p]

RefreshStore(w) ==
    LET r == req[w] IN
    /\ r.pc = "store"
    /\ session' = [session EXCEPT ![r.sid] = Rotated(@, r.new)]
    /\ issuedFor' = issuedFor \cup {<<r.new, r.sid>>}
    /\ crossed' = IF ~Active(r.sid) \/ Owed(w, session[r.sid].user, r.sid)
                    THEN crossed \cup {r.sid} ELSE crossed \ {r.sid}
    /\ req' = [req EXCEPT ![w].pc = "respond"]
    /\ UNCHANGED <<created, tokenVars, cacheVars, userActive, held, burntAccess, burntRefresh>>

-----------------------------------------------------------------------------
(* logout and logoutOtherSessions come through JwtAuthGuard.               *)

Authenticated(w, p, kind) ==
    /\ Admit(w, kind)
    /\ p \in held
    /\ AcceptsAccess(p)
    /\ req' = [req EXCEPT ![w] = [Idle EXCEPT !.op = kind, !.pc = "session",
                                              !.user = pair[p].owner,
                                              !.pair = p]]
    /\ UNCHANGED <<rowVars, tokenVars, cacheVars, userActive, history>>

Logout(w, p) == Authenticated(w, p, "logout")
LogoutOthers(w, p) == Authenticated(w, p, "others")

(* With no active row for the token logout returns at once, successfully.  *)
LogoutSession(w) ==
    LET r == req[w] IN
    /\ r.op = "logout" /\ r.pc = "session"
    /\ \/ RowsOf(r.pair) = {} /\ req' = [req EXCEPT ![w].pc = "done"]
       \/ \E s \in RowsOf(r.pair) :
            req' = [req EXCEPT ![w] =
                IF Active(s) /\ session[s].user = r.user
                  THEN Enter(r, {Snapshot(s)})
                  ELSE [r EXCEPT !.pc = "done"]]
    /\ UNCHANGED <<rowVars, tokenVars, cacheVars, userActive, history>>

(* users.service looks the kept session up by the access token. *)
OthersCurrent(w) ==
    LET r == req[w]
        current == RowsOf(r.pair) \cap ActiveOf(r.user)
    IN
    /\ r.op = "others" /\ r.pc = "session"
    /\ \/ current = {} /\ Finish(w)
       \/ \E s \in current :
            req' = [req EXCEPT ![w] = [r EXCEPT !.pc = "list", !.sid = s]]
    /\ UNCHANGED <<rowVars, tokenVars, cacheVars, userActive, history>>

OthersList(w) ==
    LET r == req[w] IN
    /\ r.pc = "list"
    /\ req' = [req EXCEPT ![w] =
          Enter(r, {Snapshot(s) : s \in ActiveOf(r.user) \ {r.sid}})]
    /\ UNCHANGED <<rowVars, tokenVars, cacheVars, userActive, history>>

-----------------------------------------------------------------------------
(* revokeAllUserSessions, after a changed or reset password, and           *)
(* revokeUserSession, an administrator's.                                  *)

RevokeAllList(w, u) ==
    /\ Admit(w, "all")
    /\ req' = [req EXCEPT ![w] =
          Enter([Idle EXCEPT !.op = "all", !.user = u],
                {Snapshot(s) : s \in ActiveOf(u)})]
    /\ UNCHANGED <<rowVars, tokenVars, cacheVars, userActive, history>>

(* revokeAllByUserId: every row active now, also one the list had not. *)
RevokeAllUpdateMany(w) ==
    LET u == req[w].user IN
    /\ req[w].pc = "updateMany"
    /\ session' = [s \in Sids |-> IF s \in ActiveOf(u)
                                    THEN [session[s] EXCEPT !.status = "revoked"]
                                    ELSE session[s]]
    /\ req' = [req EXCEPT ![w].pc = "done"]
    /\ UNCHANGED <<created, tokenVars, cacheVars, userActive, history>>

RevokeOneLookup(w, s) ==
    /\ Admit(w, "one")
    /\ Active(s)
    /\ req' = [req EXCEPT ![w] =
          Enter([Idle EXCEPT !.op = "one", !.user = session[s].user],
                {Snapshot(s)})]
    /\ UNCHANGED <<rowVars, tokenVars, cacheVars, userActive, history>>

-----------------------------------------------------------------------------
(* updateUserStatus touches no session and no token. *)
SetUserStatus(u, active) ==
    /\ "status" \in Ops
    /\ userActive[u] # active
    /\ userActive' = [userActive EXCEPT ![u] = active]
    /\ UNCHANGED <<rowVars, tokenVars, cacheVars, req, history>>

(* An await rejects, or the process dies: what was written stays. *)
Fail(w) ==
    /\ Failures
    /\ req[w] # Idle
    /\ Finish(w)
    /\ UNCHANGED <<rowVars, tokenVars, cacheVars, userActive, history>>

LoseCache ==
    /\ CacheLoss
    /\ blAccess' = [p \in Pairs |-> 0]
    /\ blRefresh' = [p \in Pairs |-> 0]
    /\ UNCHANGED <<rowVars, tokenVars, userActive, req, history>>

Countdown(ttl) == IF ttl > 0 THEN ttl - 1 ELSE 0

Tick ==
    /\ pair' = [p \in Pairs |->
          IF p <= signed /\ pair[p].age < MaxAge
            THEN [pair[p] EXCEPT !.age = @ + 1] ELSE pair[p]]
    /\ blAccess' = [p \in Pairs |-> Countdown(blAccess[p])]
    /\ blRefresh' = [p \in Pairs |-> Countdown(blRefresh[p])]
    /\ UNCHANGED <<rowVars, signed, userActive, req, history>>

-----------------------------------------------------------------------------
(* The awaited steps of a request that has been admitted. *)
Proceed(w) ==
    \/ BlacklistAccess(w) \/ BlacklistRefresh(w) \/ Deactivate(w) \/ Done(w)
    \/ LoginCreate(w) \/ Respond(w)
    \/ RefreshUser(w) \/ RefreshSession(w) \/ RefreshRotate(w)
    \/ RefreshStore(w)
    \/ LogoutSession(w) \/ OthersCurrent(w) \/ OthersList(w)
    \/ RevokeAllUpdateMany(w)

Arrive(w) ==
    \/ \E u \in Users : LoginLookup(w, u) \/ RevokeAllList(w, u)
    \/ \E p \in Pairs : RefreshCheck(w, p) \/ Logout(w, p) \/ LogoutOthers(w, p)
    \/ \E s \in Sids : RevokeOneLookup(w, s)

Next ==
    \/ \E w \in Workers : Arrive(w) \/ Proceed(w) \/ Fail(w)
    \/ \E u \in Users, active \in BOOLEAN : SetUserStatus(u, active)
    \/ LoseCache
    \/ Tick

Spec == Init /\ [][Next]_vars

-----------------------------------------------------------------------------
Snapshots == [sid : 1..MaxLogins, pair : 0..MaxPairs]

Request ==
    [op : {"idle", "login", "refresh", "logout", "others", "all", "one"},
     pc : {"idle", "blacklistAccess", "blacklistRefresh", "deactivate",
           "create", "updateMany", "done", "respond", "user", "session",
           "rotate", "store", "list"},
     user : Users \cup {NoUser}, pair : 0..MaxPairs, new : 0..MaxPairs,
     sid : 0..MaxLogins, todo : SUBSET Snapshots, marked : SUBSET Snapshots,
     late : BOOLEAN]

(* Every variable keeps its type: no TTL goes below zero, no id leaves its *)
(* bound.                                                                  *)
TypeOK ==
    /\ session \in [Sids -> [user : Users \cup {NoUser}, pair : 0..MaxPairs,
                             status : {"absent", "active", "revoked"}]]
    /\ pair \in [Pairs -> [owner : Users \cup {NoUser}, age : 0..MaxAge]]
    /\ signed \in 0..MaxPairs
    /\ created \in 0..MaxLogins
    /\ blAccess \in [Pairs -> 0..AccessBlacklistTTL]
    /\ blRefresh \in [Pairs -> 0..RefreshBlacklistTTL]
    /\ userActive \in [Users -> BOOLEAN]
    /\ req \in [Workers -> Request]
    /\ held \subseteq 0..MaxPairs
    /\ burntAccess \subseteq 0..MaxPairs
    /\ burntRefresh \subseteq 0..MaxPairs
    /\ issuedFor \subseteq (0..MaxPairs) \X (0..MaxLogins)
    /\ crossed \subseteq 0..MaxLogins

(* login's eviction (auth.service 198-249) keeps the unexpired active      *)
(* sessions of a user at the limit up to the logins and refreshes that     *)
(* overlap: each request in flight can add one session too many, and the   *)
(* next login takes the surplus away again.                                *)
SessionBound ==
    \A u \in Users : Cardinality(LiveOf(u))
                        <= MaxConcurrentSessions + Cardinality(Workers) - 1

(* Blacklisting and the row agree: an active session whose refresh token   *)
(* is blacklisted is one that a request in flight is about to rotate       *)
(* (refreshToken 381-395) or to deactivate.  So when nothing is in flight  *)
(* no active session is stranded with a token nobody can use.              *)
Pending(w, s) ==
    \/ req[w].op = "refresh" /\ req[w].pc = "store" /\ req[w].sid = s
    \/ \E v \in req[w].todo \cup req[w].marked : v.sid = s

NoStrandedSession ==
    \A s \in Sids :
        Active(s) /\ blRefresh[session[s].pair] > 0
            => \E w \in Workers : Pending(w, s)

(* A refresh that starts when its token is dead, replaced in its row or of *)
(* a revoked session, is refused by the session check even if the cache    *)
(* has lost the blacklist or requests failed half way.                     *)
DeadTokenNeverGranted ==
    \A w \in Workers : req[w].late => req[w].pc \notin {"rotate", "store", "respond"}

(* The hard-coded blacklist TTLs (15 minutes, 7 days) outlive the tokens   *)
(* they ban: a token once blacklisted is never accepted again.             *)
BlacklistOutlivesToken ==
    /\ \A p \in burntAccess : ~AcceptsAccess(p)
    /\ \A p \in burntRefresh : RefreshAlive(p) => blRefresh[p] > 0

(* One request at a time, whatever fails in the middle: the access token   *)
(* stored in a revoked row is rejected, since every revocation blacklists  *)
(* before it clears isActive.                                              *)
RevokedRowRejected ==
    \A s \in Sids :
        session[s].status = "revoked" => ~AcceptsAccess(session[s].pair)

(* Rows only go from absent to active to revoked and keep their owner.     *)
Lifecycle == INSTANCE SessionLifecycle WITH
    status <- [s \in Sids |-> session[s].status],
    owner <- [s \in Sids |-> session[s].user]
LifecycleSpec == Lifecycle!Spec

(* However logins, refreshes and revocations overlap, a row is not revoked *)
(* before the access token it stores has been put on the blacklist: the    *)
(* exception is a row that a login created or a refresh rewrote while a    *)
(* request that had already read its list was about to revoke it, or       *)
(* after it had (revokeAllUserSessions 530-547, refreshToken 391).         *)
RevokedWasBanned ==
    \A s \in Sids \ crossed :
        session[s].status = "revoked" => session[s].pair \in burntAccess

-----------------------------------------------------------------------------
(* What the documentation says and the code does not do.                   *)

Quiescent == \A w \in Workers : req[w] = Idle

(* docs/modules/authentication.md, on a device that is pushed out: all its *)
(* tokens are revoked at once and blacklisted.  The access token it held   *)
(* before its last refresh is not (refreshToken 381-385).                  *)
RevokedDeviceRejected ==
    Quiescent => \A p \in Pairs, s \in Sids :
        <<p, s>> \in issuedFor /\ session[s].status = "revoked"
            => ~AcceptsAccess(p)
=============================================================================
