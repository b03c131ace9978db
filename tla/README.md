# Enterprise NestJS backend: verification project

TLA+ modules, TLC runs and TLAPS proofs about the backend in `src/`. The repository is
a NestJS service (Express, Prisma on MySQL, Redis or an in-memory cache, JWT). It runs as
several processes in production (PM2 cluster, `CACHE_TYPE=redis`) and as one in tests
(`CACHE_TYPE=memory`). Node runs a handler without interruption up to its next `await`, so
requests interleave exactly at the awaits of the database, the cache and bcrypt; a module
here has one action per stretch of code between two awaits that matter.

Contents: 1 inventory, 2 plan, 3 the modules, 4 what each run shows, 5 bounds, 6 fairness,
7 proofs, 8 where code and documents disagree, 9 what is not modelled, 10 how to run.

## 1. Inventory

| Component | State it keeps | Operations | Talks to |
|---|---|---|---|
| Auth sessions and tokens (`auth.service.ts`, `jwt.strategy.ts`, `session.repository.ts`) | rows of `user_sessions`; blacklist entries in the cache; the JWTs clients hold | login, refresh, logout, log the others out, revoke all, revoke one, validate an access token | cache, database, RBAC cache, user accounts |
| Account lockout (`account-lockout.service.ts`, `AuthService.validateUser`) | a counter and a lock per user, both cache keys with TTL | check, record a failure, reset, unlock | cache, login |
| Cache: breaker, Redis adapter, memory driver, choice of driver (`circuit-breaker.service.ts`, `redis-cache.service.ts`, `memory-cache.service.ts`, `cache.module.ts`) | state and statistics of a circuit; an LRU of 10000 entries; Redis | get, set, del, delPattern, exists, ttl, each through the breaker or in memory; start and restart of a process | Redis, all users of the cache |
| RBAC cache and guards (`rbac-cache.service.ts`, `roles.guard.ts`, `permissions.guard.ts`) | two cache entries per user | check roles or permissions, fill, delete, flush | cache, database, login, refresh, logout, administration |
| Roles and permissions, seed script (`roles.service.ts`, `permissions.service.ts`, `prisma/seed.ts`) | rows of roles, permissions and the tables that link them to each other and to users | create, update, activate, delete one or many, assign, remove, list by page; seed | database, RBAC cache |
| User accounts and audit log (`users.service.ts`, `user.repository.ts`, `audit-log.service.ts`) | rows of `users` and `audit_logs` | create, update, activate, verify, change and reset passwords, delete one or many; old value, operation, record that is not awaited | sessions, RBAC cache |
| Mock endpoints (`mock.service.ts`, `mock-proxy.guard.ts`) | endpoint rows; a list entry and one exact-match entry per path and method | create, update, remove, enable, disable, batches, import, match a request | cache, database |
| Request pipeline (`main.ts`, `app.module.ts`, CSRF and throttler guards, interceptors, exception filter) | cookies of the browser, counters of calls, request ids | admit, refuse, handle, answer, log | every controller |
| Routes (the controllers) | none | which handler serves a path, behind which guards | pipeline |
| Log tables (`logs.service.ts`) | rows of `api_logs` and `error_logs` | insert without waiting, list by page | pipeline |
| Retries (`retryable.decorator.ts`) | none | repeat an idempotent read with geometric waits inside a total timeout | the repositories' reads |
| Templates, mock call log, health, configuration, uploads, DTOs, utilities | none that matters between requests | | |

Which behaviours are hard, and what makes each part correct:

* **Sessions.** Several requests of one user overlap; a revocation is a loop of awaits over
  a list read earlier; a refresh rewrites a row it checked three awaits before; the
  blacklist has TTLs of its own; the cache can lose it; JWTs signed in one second are equal.
  Correct: a revoked row never comes back to life, a dead refresh token never gets a new
  pair, the number of sessions stays near the limit, revoked tokens stop working.
* **Lockout.** Read-modify-write on a counter across awaits. Correct: it refines "T wrong
  passwords lock for a while"; guesses before a lock are bounded; locks end; nothing is left
  behind that locks again at once.
* **Cache.** Calls settle in other states than they began in, replies come late or never, a
  process restarts with the other driver. Correct: what was confirmed holds; the circuit
  moves only as the three-state automaton allows and closes again when Redis is back.
* **RBAC cache.** Cache-aside with deletion after commit: fills race with deletions, flushes
  fail or match nothing, several writers disagree on what they cache. Correct: a stale entry
  has one of a few known causes and does not stay for ever.
* **Catalogue.** Checks and writes are calls apart and nothing but the code ties a link to its rows; listings count and
  read in two queries; the seed script may be killed and run again. Correct: links are orphaned and used roles deleted by
  one known race only, a walk of the pages sees every row, the script repairs what it finds.
* **Accounts and audit.** Old value read outside the operation's transaction, record written after the
  answer; two handlers check and then write the same row. Correct: what the trail says explains the row; a
  deleted row stays as it is; an old password opens nothing, for listed reasons only.
* **Mock endpoints.** Cache-aside with two levels and pattern keys. Correct: staleness is bounded and has causes.
* **Pipeline.** Cookies arrive in the order of answers; guards, interceptors and filter each see a part of a request;
  the rows that tell of it are written later or never, and one route lists them. Correct: what is refused
  has changed nothing (but for three known kinds of request), the log tells what was answered, a client that walks the log sees all of it and ends.
* **Retries.** Timeout looked at between attempts only.

`PROJECT.json` lists every component and every hazard with its line and the properties that are about it.

## 2. Plan

Order: what protects accounts first, then what only affects answers. All of it is written:
`AuthSessions` with `SessionLifecycle`, `AccountLockout` with `LockoutPolicy`, `CircuitBreaker` with `BreakerAutomaton`,
`RbacCache`, `MockEndpoints`, `UserAccounts` (audit trail and sessions of a password included), `CacheDrivers` on top of
`CircuitBreaker`, `RoleCatalog` with `SeedData` and `RoleGrants`, and `RequestPipeline`, composed of `ApiRoutes`, `SeedData` and
`RetryableCall`, with `ApiTour` and `RoleGrants` on top.

Left: an abstract specification of the cache that both drivers implement as far as they do, so that `AuthSessions`,
`RbacCache` and `MockEndpoints` can assume it in place of their own idea of a cache.

Every module takes its parameters as CONSTANTS with a named assumption and contains no
RECURSIVE operator, so that it can be proved about.

## 3. The modules

Each module has, in this order: constants and the assumption on them, variables with the row,
cache key or field they stand for, actions named after the code, `Next`, `Spec`, and
properties. Definitions under "Mutated form" change one action the way a slip in the
code would; they are used by no specification and serve to show that each property can fail.
`MC*` modules add symmetry and tuples for TLC. History variables are marked as such and are
read by no guard.

### AuthSessions, SessionLifecycle

`session` are the rows, numbered in order of creation (`orderBy createdAt`); `pair` the token
pairs signed so far with owner and age. A row always stores the access and refresh token of one
sign, so a token is named by its pair. `blAccess`, `blRefresh` hold the rest of the TTL of each
blacklist entry. `crossed` is history: rows a login created or a refresh rewrote while a revocation that had read its list was
still to revoke them, or after it had. `req[w]` is the request that worker `w` serves: operation, position, the row and
pair it read, the list it works through. A worker is one concurrent request, in whichever process.

| Code | Actions |
|---|---|
| `login` 159-293 | `LoginLookup` (sign, read active sessions, choose the oldest to evict), the revocation loop, `LoginCreate`, `Respond` |
| `refreshToken` 302-426 | `RefreshCheck`, `RefreshUser`, `RefreshSession`, `RefreshRotate`, `RefreshStore`, `Respond` |
| `logout`, `logoutOtherSessions` behind `JwtStrategy.validate` | `Logout`, `LogoutSession`; `LogoutOthers`, `OthersCurrent`, `OthersList`; loop; `Done` |
| `revokeAllUserSessions`, `revokeUserSession` | `RevokeAllList`, loop, `RevokeAllUpdateMany`; `RevokeOneLookup`, loop |
| the loops | `BlacklistAccess`, `BlacklistRefresh`, `Deactivate`, one entry of the list at a time in the order of the list |
| an await that rejects, a process that dies | `Fail` (only with `Failures`) |
| a memory cache that restarts empty, an eviction | `LoseCache` (only with `CacheLoss`) |

Abstractions. The key `user:session:<id>` is written and never read, and is left out. What login and
refresh write to the RBAC cache belongs to `RbacCache`. `expiresAt` is the age of the row's pair:
both are set in the same stretch. The blacklist lookup and the verification of a refresh
token are one step: neither writes. The reads of roles before a sign change nothing. The pre-check of
`revokeUserSessionByAdmin` is merged with the lookup that follows it. With `SameSecond`, a sign in
the tick of an earlier sign of the same user may return the earlier pair, since the payload and
`iat` are the same and there is no `jti`.

`SessionLifecycle` is the abstract specification: a row is created once, active, then revoked for
good, always of one user.

### AccountLockout, LockoutPolicy

One account. `count` and `countLeft` are the failures key and its TTL, `lockLeft` the lock key's.
`att[w]` is an attempt: it checks the lock, compares the password, then resets, or re-checks the
lock, reads the counter, writes it (`GetCount`, `SetCount` are two awaits), locks, and clears.
`UnlockAccount` is the administrator's. A tick may be as long as an await. Attempts for disabled or
unknown accounts end without a change and are left out. The assumption asks for as many durations
as thresholds, in rising order. `LockoutPolicy` is the abstract specification: an attempt is one step.

### CircuitBreaker, BreakerAutomaton, CacheDrivers

One circuit. A call is `Execute` (up to the await of the operation; throws at once as `Reject` when
open) and `OnSuccess` or `OnFailure`. `quiet` is the time since the last failure, up to the timeout. The
counts that an open or half-open circuit does not read stop at the bound (`More`), so it may be tried for ever.
`Flip` takes Redis down and up. `Reset` is called by tests only and bounded. `BreakerAutomaton` is the
abstract specification.

`CacheDrivers` extends it to `CacheService` of one process. `driver` is what `CACHE_SERVICE` was when the process
started, `store` what Redis holds, `mem` and `behind` the LRU and its order of use; an entry is the time it has left. `word` is history: what
the process was last told about a key.

| Code | Actions |
|---|---|
| `RedisCacheService` 31-170 through `execute` | `Send`; `ListKeys` (KEYS before DEL), `Perform` (Redis executes the command), `Resolve` (the reply arrives), `Break` (it does not); `Refuse` when the circuit is open |
| `MemoryCacheService` | `MemGet`, `MemSet`, `MemDel`, each without an await |
| `REDIS_CLIENT`, `CACHE_SERVICE` of `cache.module.ts` | `DriversInit`, `Restart` |
| time | `Pass` |

`Perform` and `Resolve` are two steps, so a command may take effect although its caller is told that it failed. The adapter's
fallback looks for a text that the breaker does not throw: `FallsBack` is FALSE, and `ConfirmedHolds` holds because of it.

### RbacCache

`userRoles`, `roleStatus`, `rolePerms`, `permStatus` are the rows; `cache[kind][user]` the entries
`rbac:roles:<user>` and `rbac:permissions:<user>`. `req[q]` is a guard check, a login or
refresh that fills both entries, a logout, or an administrative operation.

| Code | Actions |
|---|---|
| `RolesGuard`, `PermissionsGuard` | `GuardMiss`, `GuardQuery`, `Store` |
| login, refresh | `LoginQuery`, `RefreshRoles`, `RefreshPermissions`, `Store` |
| user, role and permission administration | check, commit and invalidate are steps of their own: `AssignRoles` and `AssignRolesCommit`, `RemoveRole`, `CreateRole`, `UpdateRoleStatus`, `DeleteRole`, `AssignPermissions`, `UpdatePermissionStatus`, `DeletePermission` |
| `deleteUserCache`, `flushAllRbacCache` | `DeleteEntry` per key; `FlushKeys` and `FlushDrop` per pattern (KEYS and DEL are two commands) |
| TTL of an entry | `Expire` |
| an await that throws | `Fail` (only with `CacheFaults`) |

`PrefixedKeys` says that the Redis client is configured with a `keyPrefix`, which it adds to every
command except the pattern of KEYS. Two flags of ghost state say why an entry may be stale:
`overtaken` (a commit changed the user's grants between the query of a fill and its write) and
`excused` (such a fill wrote the entry, or its deletion was lost).

Abstractions. The reverse indexes `rbac:role:*` are read by methods nobody calls and are omitted, as
are the reads of `deleteUserCache` that clean them. Changes of names and codes and the batch
deletions use the same commit-then-flush and are not repeated; their rows are in `RoleCatalog`. A new permission reaches no user, and
the code does not flush. With `relationMode = "prisma"` the database has no foreign keys: the
cascade of a role's deletion is emulated from a snapshot, so an assignment committed meanwhile may
survive it as a dangling row, on which later queries throw (`QueryFails`).

### MockEndpoints

`row` are the endpoints, `list` the key `mock:endpoints:all`, `exact[t]` the key
`mock:endpoint:exact:<path>:<method>` of target `t`. `req[c]` is a proxied request or the preload of a
starting process, `adm[a]` the deletions an operation still owes. An entry keeps the rows it was filled from
and the rest of its TTL; `touched` is history: how long ago each row last changed.

| Code | Actions |
|---|---|
| `findMatchingEndpoint` behind `MockProxyGuard`, `onModuleInit` | `Miss`, `ReadList`, `Query`, `WriteList`, `WriteExact`; `Preload`, `WriteList` |
| `create`, `update`, `enable`, `disable`, `remove`, `clearCache` | `Create`, `Update`, `Enable`, `Disable` commit; `RemoveFind`, `RemoveDelete`; `ClearCache`; each then owes `DeleteList`, `FindKeys`, `DropKeys` |
| an await that throws; a deletion whose error is swallowed | `Fail`; the second disjunct of `DeleteList` and of `DropKeys` (only with `Failures`) |

What an endpoint answers is its `version`, which every update raises. `Matches` and `Covers` stand for
path-to-regexp and for the glob that the deletion of an endpoint's own path is: the glob of a pattern
(`/users/:id`) covers none of the concrete paths it answered. The list is read without ORDER BY, so the first match may be any.
`Honest = FALSE` is a client with a `keyPrefix`, for which KEYS finds nothing. `excused` marks what a change overtook,
what no deletion was aimed at, and what a failed one left. The second pattern that `update` and `remove` delete
(`mock:endpoint:<path>:*`) names keys nobody writes. Batches and the import
repeat these operations and carry on after an error. Rendering, delay and the call log change none of this state.

### UserAccounts

`row` are the rows of `users`, `session` the active sessions by user and by the password that opened them, `trail` the rows of
`audit_logs`, `queue` the records nobody awaits. A handler is the sequence of calls its method awaits: an action per method gives
`Begin` that sequence, and each call is an action.

| Code | Actions |
|---|---|
| `create`, `update`, `updateProfile`, `remove`, `changePassword`, `resetUserPassword`, `updateUserStatus`, `verifyUser`, `batchDelete` | `Create`, `Update`, `UpdateProfile`, `Remove`, `ChangePassword`, `ResetUserPassword`, `UpdateUserStatus`, `VerifyUser`, `BatchDelete` |
| the awaits in them | `Find`, `CheckConflict`, `Insert`, `UpdateRow`, `DeleteRow`, `DeleteMany`, `Reread`, `RevokeAllUserSessions` |
| `@AuditLog` | `FetchOld` before the method, `Record` after it; `WriteRecord` or `LoseRecord` later |
| `validateUser` and the row of the session at a login | `Login`, `Validate`, `Open` |
| an await that throws, a process that dies | `Fail` (only with `Failures`) |

One unique column stands for email, username and phone: one query checks them and each has its own index. The body of `PATCH /users/:id`
may name that column, `isActive` or both (`update-user.dto.ts` 70-76): the operations "update", "activate" and "edit" of `Update`, of which the second checks no conflict; the trail records each as an update (`Action`). `cause` is history: what
happened to an account (a change that is not audited, a handler that ended early, a lost record, a batch, an overlap, a failed revocation).
The sessions are those of `AuthSessions` seen from afar: revoking all is one step here, since its inside is modelled there.

### RoleCatalog, SeedData, RoleGrants

`role`, `perm`, `grants`, `holders` are the four tables. Requests are sequences of calls as in `UserAccounts`; a transaction is a
snapshot read and a commit. `SeedData` are the lists of `prisma/seed.ts`, `RoleGrants` what an assignment of permissions makes of the links.

| Code | Actions |
|---|---|
| `RolesService`, `PermissionsService`, role assignment of `UsersService` | `CreateRole`, `UpdateRole`, `UpdateRoleStatus`, `RemoveRole`, `BatchDeleteRoles`, `AssignPermissions`, `GetRolePermissions`, `AssignRoles`, `RemoveUserRole`, `CreatePermission`, `UpdatePermission`, `UpdatePermissionStatus`, `RemovePermission`, `BatchDeletePermissions` |
| the awaits in them | `FindRole`, `InsertRole`, `WriteRole`, `CheckUnused`, `DeleteRoles`, `CountPerms`, `GrantPerms`, `ReadLinks`, `ReadPerms`, `CountRoles`, `GiveRoles`, `TakeRole`, `InsertPerm`, `FindPerm`, `WritePerm`, `DeletePerms` |
| `findAll` with pages, taken one after the other by a client | `WalkRoles`, `WalkPermissions`; `CountRows`, `FindRows` |
| `prisma/seed.ts` | `Seed`; `UpsertPerms`, `UpsertRoles`, `UpsertGrants`, `UpsertHolders`, row after row |
| an await that throws, a script that is killed | `Fail` (only with `Failures`) |

`torn` is history: links written after one of their rows, looked up before, had been deleted.

### RequestPipeline, ApiRoutes, RetryableCall

`ApiRoutes` has every route: verb, path, guards, permission, log switch and throttling, in the order of registration, and `Serves`,
the route that Express finds for a path. `RetryableCall` is `@Retryable` as operators on a record of attempts and elapsed time.
In `RequestPipeline` `req[w]` is the request on connection `w`; its `stage` says how far it has come. `jar` are the
browser's `sid` and CSRF token (the token is the `sid` it was made for), `hits` the throttlers' counters, `apiLog`, `errorLog`,
`writes`, `lost` the log rows written, handed over and lost, `walk` what a script has seen that goes through the pages of `GET logs/api`, and `tied`
the rows of the log with the `createdAt` of the row before. `gone` is whether the one role that requests name has been deleted; `committed` (the requests that have
written something) and `undercut` (the assignments that had looked the role up when it was deleted) are history.

| Code | Actions |
|---|---|
| `main.ts` 184-234 and body parser; `ThrottlerGuard`, `CsrfGuard` | `Enter` (`WithSid`, `WithToken`, `Throttled`, `CsrfRefuses`) |
| local (password), JWT, roles and permissions guards of the route | `Authorize` |
| a handler that writes: its first read through `@Retryable`, its business errors, its write, what follows the write | `Find`, `Write`; `Reread` (`findOne` at the end of `assignPermissions`) |
| `findApiLogs` | `FindRows`, `CountRows`, in either order; `OnPage`: rows of one instant fall on either side of a page's end |
| logging and transform interceptors, exception filter | `Finish`, and `Fails` and `Throws` wherever a step ends the request |
| the browser | `Browse`, `Deliver` (`Cookies`), `Restart`, `TokenExpires` |
| `createApiLog` | `CreateApiLog`, `LoseLog` |

A 404 stands for any business error of a handler and for the validation pipe, whatever their status (a `BusinessException` is a 400), and so is told from the 400 of
the body parser; a body that is too large is a 500. Which handlers write before they know what they answer is `WritesFirst`: a login counts or forgets failures in its guard
(`auth.service.ts` 113-124) and creates its session before its last update, a refresh turns any later error into a 401 (420). A log row is taken to become visible in the order of `createdAt`. What a granted permission is comes from `SeedData`; that the guards
read it through a cache is `RbacCache`. The three windows of the throttlers (20 a second, 200 a minute, 2000 an hour) are one
counter per url within one minute, `PerMinute`. `createErrorLog` is taken as done when it is called, since nothing reads its rows.

### ApiTour

`RequestPipeline` driven by one administrator with a new browser who calls each of the routes in order and notes which do
not answer as their decorators declare. At the end, with a token that is good, come the errands: a role with two permissions is assigned one of them
(`links`, by `RoleGrants`), an account is created and deleted (`account`).

## 4. What each run shows

Passing runs:

| Run | Properties | Shows |
|---|---|---|
| `sessions_races` | SessionBound, DeadTokenNeverGranted, NoStrandedSession, RevokedWasBanned, LifecycleSpec | logins, refreshes and revocations of one session, of the others and of all overlap and the cache may lose the blacklist (a logout takes the steps of the revocation of one; `sessions_sequential` has it): at most limit + 1 live sessions with two workers, the row check alone refuses dead refresh tokens, an active row whose refresh token is blacklisted is in the hands of a request, a revoked row's access token was banned unless the row is crossed, rows never revive |
| `sessions_sequential` | RevokedRowRejected, BlacklistOutlivesToken | one request at a time, failures at each await, signs in the same second: blacklist first, deactivate second, TTLs at least as long as lifetimes |
| `lockout_race` | NoOrphanCount, GuessBound, LockExpires, PolicySpec | two workers that never stop trying, an await that may throw: while attempts come one after the other the policy of the first threshold is implemented, although two are configured; until an await throws no reached count is left and at most 1 + ... + (T+1) guesses precede a lock; a lock always ends |
| `cache_drivers` | DriversTypeOK, ConfirmedHolds, MemoryKeeps, AutomatonSpec, Recovers | Redis fails between command and reply, the process restarts with either driver: what Redis confirmed holds for its time, memory keeps an entry for its time unless full and longer if it is read, the circuit moves as the automaton allows and closes for good once Redis stays up, if only callers keep asking while it is not closed |
| `rbac_cache` | StaleHasCause, StalenessEnds | every administrative operation against guards, login, refresh and logout, with deletions and transactions that fail: a stale entry has one of the known causes and ends with its TTL |
| `mock_cache` | StaleListBound, StaleAnswerBound, StaleHasCause | two requests and two administrators on an endpoint that moves between a static path and a pattern, awaits that throw: how long an answer can be stale, and from which causes |
| `accounts` | RowHasRecord, ChainOfRecords, OldPasswordSessionHasCause, ActiveDeletedHasCause, NamesUnique, DeletedForGood | two handlers on two accounts, call by call: the trail explains each row and forms a chain unless handlers overlapped; sessions of an old password and deleted accounts that are active have the listed reasons only; names stay unique; a deleted row is never touched again |
| `catalog` | TypeOK, OrphansHaveCause, SeedCompletes, WalkComplete, UsedRoleKept | two requests out of all operations, listings and the seed script: orphaned links and used roles that are deleted come from one race, a walk of the pages misses a row for the listed reasons only, a seed that ends well has repaired what a killed one left |
| `pipeline` | AstrayHasCause, RefusedChangesNothing, LogTellsAnswer, FailureRecorded, RetryInTime, WalkSeesAll, WalkEnds | a browser and a walking script on two connections: a token that no longer fits has one of three causes, a 4xx has written nothing but for logins, refreshes and an assignment whose role was deleted after its look-up, log rows tell the status that was sent, each error is recorded, a retried read ends less than one attempt or late wake after its timeout, and the walk sees every row with a `createdAt` of its own and ends although each page it reads adds a row, if a page has more than one |

The runs that find a violation are in section 8.

## 5. Bounds

Names of bounds: `MaxLogins` and `MaxPairs` (rows and signs), `MaxCount`, `MaxGuesses` and `MaxFailures`
(lockout), `MaxRequests` and `MaxResets` (breaker; resets and restarts together in `CacheDrivers`), `MaxChanges` (administrative operations
admitted; changes to the table in `MockEndpoints`), `Hold` (ticks a proxied request may take from its first await on), `MaxOps` (requests admitted in
`UserAccounts` and `RoleCatalog`), `MaxBrowsed`, `MaxBeside`, `MaxSent` (requests of the browser, the same while the script walks, and all requests and rows of the
pipeline). A bound on admission leaves room for what was admitted, so no request is stuck half way because of it.

* One user suffices for sessions: no operation reads or writes the rows of two users, and a pair
  belongs to one user. Two workers give every pairwise race; the hazards listed are all between two
  requests. `sessions_races` has three logins and a limit of one, so that the limit is reached,
  overrun and corrected.
* TTLs of one or two ticks keep the order of the events "access token dies", "refresh token dies",
  "entry dies", which is all the code distinguishes.
* Lockout thresholds of 3 and 4 instead of 5 and 10 keep their order; the bound on guesses with threshold
  3 and two workers is 10, which is reached with lost updates.
* Cache drivers: three requests open the circuit, two successes close it; four requests in a closed period, any number of trials while it is open or
  half open, and one restart let it open, be tried, fail and be tried again. One key besides `Other`, which stands for all others, and room for two fill the LRU.
* Two requests and two changes let a fill of the RBAC cache be overtaken, a deletion be lost and a second change follow; one user, one role
  and one permission are enough for a grant to appear and to go by each way there is.
* Mock endpoints: one endpoint, for the two bounds and the causes speak of one endpoint and one key at a time; two
  requests let one fill the list from which the other fills the exact entry, each after its own delay; two changes
  let the second fall between the deletions of the first. The two bounds are tight: one tick less and TLC finds a
  state beyond them. The proofs remove the restriction to one endpoint and to these TTLs.
* Accounts: two accounts, names, passwords and handlers, three requests: two that overlap and one before or after them.
* Catalogue: ids 1 to 3 for two seeded rows and one made up; two requests, since each race is between a check and one write; pages of one row.
* Pipeline: the sample is a login, which is not logged, the assignment of permissions to a role and the deletion of that role, so that the deletion may fall before, inside or
  after the assignment, and every kind of refusal occurs; the browser makes two requests, or one while the script walks; two old rows, pages of two and six serials let a row be
  inserted between the two queries of a page and a walk have three pages; any rows may share their instant with the row before; one call a minute lets the second be throttled. A retry is one, with
  delays and attempts of 0 or 2 against a timeout of 3.
* The tour is one behaviour up to the handlers' stages: each of the routes once, those with a limit of 5 or 10 once more than it, those that
  skip the throttlers once more than `PerMinute`, then the four errands.
* Symmetry is used on workers, users, roles, permissions, clients and administrators only in runs without liveness properties, and
  never where a CHOOSE depends on them.
* Deadlock is not checked where `MaxOps` or `MaxSent` ends all behaviours: `accounts`, `catalog`, `pipeline`, `api_tour`.

## 6. Fairness

Weak fairness on the steps of an admitted request (the event loop resumes a settled await; a promise
that never settles is outside these runs, except that Redis' reply may be lost, which the client reports in the end) and on `Tick`, `Pass` or `Expire` (time passes; Redis drops expired
keys). Nothing obliges a client to send anything, an administrator to act or Redis to recover: where a property
needs that, it is the antecedent of the property: `Recovers` asks that Redis stays up and that callers keep asking while the circuit is not closed (`KeepAsking`). In the pipeline the walking script goes on by itself while it is told that there is a next page; nothing obliges it to begin, and
the insert of a log row may stay away. `Expire` is fair although a write restarts the TTL:
after the last change of grants every write stores what is in the database, so an entry that is re-armed
is a fresh one. `MockEndpoints` has no liveness property: its bounds count the ticks. Both are the expiry of Redis; the memory driver restarts the age at
every read (`MemoryKeeps`). `UserAccounts` and `RoleCatalog` have safety properties only.

## 7. Proofs

Checked with tlapm, for all values of the constants that satisfy the named assumption. The type invariants of sessions, lockout, RBAC cache, mock
endpoints, accounts and pipeline are theorems and no run repeats them; that of the catalogue, which contains its unique indexes, is checked as well.

* `AuthSessionsProofs`. `TypeCorrect` is inductive as it stands. The rest needs `PairsSigned`: rows, clients, blacklist and requests know
  signed pairs only.
  * `BanOutlivesToken`, when the cache keeps its entries and the TTLs are no shorter than the lifetimes (`BlacklistLongEnough`): what has
    passed of a banned token and what is left of its entry make at least a lifetime (`AccessCovered`, `RefreshCovered`).
  * `DeadRefused`, without `SameSecond`: two rows never share a pair (`Unshared`), and a refresh that began with a dead pair holds
    a pair that stays dead (`LateStaysDead`), so no row it finds has that pair.
  * `NothingStranded`, without failures and `SameSecond`: whoever blacklists a refresh token has its row on its list (`AllListed`), in the order in which it works through it.
  * `RefinesLifecycle`: `Spec => LifecycleSpec`, with failures. Rows are created in order (`RowsOrdered`), so that a login inserts where nothing was.
  * `BannedBeforeRevoked`: `[]RevokedWasBanned` for any number of overlapping requests and with failures. The rows on a list are as they were read or
    crossed, whoever is about to lose `isActive` has been banned, and the list of `revokeAllUserSessions` holds every active row that is not crossed,
    those it is through with included (`Backed`).
  * `RevokedRejected`, for one worker as the property says, failures included: with one worker no row is ever crossed (`Uncrossed`).
  * `BoundedSessions`, for any finite set of workers: whichever of the evicting logins get as far as creating their row, the rows then left and
    those created stay within the bound (`Room`). A row counts while its pair lives or a refresh may still give it a fresh one.
* `AccountLockoutProofs!TypeCorrect` and
  * `OrphanFree`: `[]NoOrphanCount`, which speaks of the time until an await throws.
    The strengthening is TypeOK with "a count at a threshold belongs to a worker at lock or clear": a
    write that reaches a threshold moves its worker to lock, and only that worker's own clear leaves it, deleting the count.
  * `FollowsPolicy`: `Spec => PolicySpec`. Until two requests overlap or an await throws, one worker at most is busy and a count is written on an open
    account only (`PolicyInv`), so the count written but not acted upon belongs to the policy's step that locks.
  * `GuessesBounded`, for two workers as the property says, with the lockout enabled: the guesses made and those either worker may still make, from the counts both
    hold, stay within the bound (`Budget`). The lockout run reaches it.
* `CacheDriversProofs`, about the breaker alone and with the drivers around it.
  * `RefinesAutomaton`, `Spec => AutomatonSpec`, and `DriversRefineAutomaton`, `DriversSpec => AutomatonSpec`, a restart included. Each action maps to
    a step of the automaton or a stutter; the invariant needed is only the shape of `state` and `quiet`.
  * `DriversTypeCorrect`: a call begins and ends in the breaker and in the driver at once, so a closed circuit has room for it among those it counts (`CountsOK`, `InBudget`).
  * `ConfirmedIsTrue`: two writes under way that meet at a key both know of it, one that is alone has left its key as it will report, and of a key
    being written nothing is confirmed (`MeetingKnown`, `PerformedStays`, `WordsOpen`).
  * `MemoryIsTrue`: in memory nothing is ever under way (`MemoryIdle`), so an entry and what is known of it age together.
* `RbacCacheProofs!TypeCorrect` and `StaleCaused`: with KEYS patterns that match (`HonestFlush`), `[]StaleHasCause`. It is not inductive alone: a request
  that has read but not written carries a value which is right or marked as overtaken; the invariant
  adds that (`ReadsAgree`). The central lemma,
  on the shape of commits: each commit schedules the deletion of the entries of every user whose
  view of the rows it changes.
* `MockEndpointsProofs!TypeCorrect`, `ListBounded` and `AnswerBounded`: `[]StaleListBound` and `[]StaleAnswerBound`, with any
  `Honest` and any `Failures`, so for caches whose deletions never happen. Neither bound is inductive: the strengthening
  follows a stale row from the request that read it to the list and on to the exact entry, and says for each
  holder that the time since the change plus the time the copy has left stays below what both sum to when it is written
  (`RequestAges`, `ListAges`, `ExactAges`). Ticks move time from one summand to the other; commits reset the first to zero.
  `StaleExplained`: a fill that is stale is excused before it is written (`FillCauses`), and an administrator changes the table only when he owes no deletion.
* `UserAccountsProofs`. `TypeCorrect` with `HandlersSane`: the calls a handler has still to make belong to its method, each once and in order.
  `NamesStayUnique` from it; `StaysDeleted` proves `DeletedForGood`, with `Reserved`: an absent row that a handler is about to insert is its own.
  `ActiveDeletedCaused` (updates and changes of status activate) adds what a row that was just inserted is like (`Newborn`) and what a removal that has looked the row up knows (`Checked`);
  `OldPasswordCaused` adds where sessions come from (`SessionsKnown`) and that an old one has its reason already while its handler is under way (`AllExplained`).
  `RowRecorded` and `RecordsChained` follow a value from the read before a method to the row and the trail: every handler is on its script
  (`AllOnScript`), nobody but it works on a new account (`Named`), what a row holds is the result of a handler or of a record that is written or queued
  (`Recorded`), and of accounts nobody disturbed, whatever an operation began with another one left and the other way round (`Chained`).
* `RequestPipelineProofs`: `TypeCorrect`, `AstrayCaused`, `RefusalsHarmless`, `FailuresRecorded`, from one invariant. `Requests` says that a request in
  flight has a serial number of its own and that it is given cookies only for what it lacked; `Pending` that a request without an answer has no status and no row in the error
  log. Every step of a handler then either takes a request on (`MoveKeeps`) or answers it (`AnswerKeeps`).
  `RefusalsHarmless`, `LogTruthful`, `RetryBounded` and `WalkSees` add `Whole`: before its answer a request that does not write first has written nothing unless it is done or
  about to read the role again, which only an assignment does, and an assignment that is past its look-up while the role is gone is undercut (`Settled`); a request is unknown to the log until it is answered (`Told`), a call that is made again
  has had time left (`Timely`), the script has one request at a time, and of the rows that were there when the walk began it has seen those behind
  the pages it read, which new rows only push further back (`Sweeping`); a row with an instant of its own is on the page its rank names, however the others change places. They rest on two facts of the route table that TLC evaluates: a route that shadows another is logged
  as the other is (`ServedAlike`), and the script's route is none that the browser of the model asks for (`PipelineAssumption`).
* `RoleCatalogProofs`: `TypeCorrect`, `OrphansCaused`, `UsedKept`, from one invariant. What a request has still to call is known
  from its next call (`Planned`), and with it what it has looked up (`Looked`): every id it is about to link is there or was deleted under its eyes
  (`RolesKnown`, `PermsKnown`), and every holder of a role about to be deleted was recorded since the check (`HoldersSeen`). `Told` says what a step must
  tell the other requests for that to stay so. Ids start at 1 and suffice for the rows of the script (`CatalogAssumption`).

  `SeedDone` and `WalkDone` add `Complete`, of the script and of the walks (`Fine`), and what any other request can do to them (`Steps`, `Touches`): it marks
  them, deletes rows it names as gone, or inserts rows. The script has, after each of its statements, what the next one builds on (`Sown`): permissions are
  counted by their codes while they are upserted (`Counted`), every sampled code has a row (`AllPerms`, `RoleIdOf`), and only what is linked already is left out. A walk has
  seen the rows whose rank, the number of newer rows, lies before its page (`Through`); ranks only grow where nothing is deleted, and
  a page of rank k holds the row of rank k where no two rows share createdAt. Finitely many rows were ever inserted (`Finite`), or nothing could be counted.

Only model-checked: the liveness properties `LockExpires`, `Recovers`, `StalenessEnds` and `WalkEnds`, which are outside
the prover's reach. Every safety property of the passing runs has its theorem.

## 8. Where the code and what is said of it disagree

Three runs end with a counterexample; `PROJECT.json` quotes the line of the document or comment for each of the nine findings.

| Run | Property | Counterexample in short |
|---|---|---|
| `sessions_left_behind` | RevokedDeviceRejected | refresh, then be evicted: the access token from before the refresh is in no row and is not blacklisted (`docs/modules/authentication.md` 331) |
| `rbac_prefix` | FreshWhenQuiet | KEYS without the key prefix: the flush deletes nothing (`permissions.service.ts` 155) |
| `api_tour` | AnswersAsDeclared | `GET /users/profile/sessions` and `DELETE /mock-endpoints/logs` are served by routes registered before them (`users.controller.ts` 427, `mock.controller.ts` 190); an administrator lacks permissions no seed writes (`permissions.controller.ts` 81); the CSRF token of the first answer is for no session (`main.ts` 217); `@Throttle` and `@SkipThrottle` name a throttler that does not exist (`auth.controller.ts` 72); an assignment of permissions takes none away (`roles.controller.ts` 215); an account that was created cannot be deleted (`test/users.e2e-spec.ts` 346) |

Met while modelling, as behaviours of the modules above and without a run of their own:

* Logout with an access token that a refresh has replaced answers success and revokes nothing (`auth.service.ts` 438-454).
* Simultaneous logins read the sessions before either inserts its own and exceed `MAX_CONCURRENT_SESSIONS`;
  `SessionBound` says by how much.
* A session that is created or refreshed between the list and the `updateMany` of `revokeAllUserSessions` is revoked with an access token nobody bans
  (`auth.service.ts` 547, 391); `RevokedWasBanned` says that it happens to no other.
* A refresh in the second of the last sign returns the refresh token it has just blacklisted, and two logins in one second share their tokens,
  so that logging the other device out ends the kept session too (no `jti`; 180-193, 381).
* The blacklist TTL of access tokens is the literal 15 * 60: a longer configured lifetime outlives the entry (228).
* The lock is not progressive as its comment says (`account-lockout.service.ts` 9): the first lock deletes the counter, so
  attempts one after the other never reach a second threshold. `PolicySpec` holds with the first threshold and duration only.
* Failures in parallel are counted once although the comment claims an atomic INCR (`account-lockout.service.ts` 10, 117-128);
  a counter read before a lock may be written after it.
* A half-open circuit lets any number of calls through, and late successes of calls begun before the outage
  count towards closing it (`circuit-breaker.service.ts` 40, 129).
* The Redis adapter looks for "Circuit breaker is open" in the error, and the breaker throws "Circuit breaker '<name>' is OPEN":
  the fallback is never taken (`redis-cache.service.ts` 31, `circuit-breaker.service.ts` 72).
* A guard's fill that is overtaken by a removal caches the removed grant (`permissions.guard.ts` 111); login caches
  grants of deactivated roles and permissions (`auth.service.ts` 161-171).
* `assignPermissions` deletes the links to the permissions it is given and adds the same: the comment above (`roles.service.ts` 425), `docs/modules/cache.md` 419-424 and the test
  at `test/roles.e2e-spec.ts` 434, which looks at the status only, take it to replace all. Its answer is a 400 after the commit when the role is deleted before `findOne` (446). A role
  assigned between the in-use check and the delete is deleted all the same (327; `UsedRoleKept` names that race).
* A change of status by an administrator leaves no audit record, a record that cannot be written is lost, and two overlapping changes
  record the same old value (`RowHasRecord`, `ChainOfRecords` list these).
* A batch deletes active accounts, which a single deletion refuses (`ActiveDeletedHasCause`); no account is created inactive, so the e2e test of the
  single deletion cannot pass as it stands. A login that had compared the password before it was
  changed opens a session after all others were revoked (`OldPasswordSessionHasCause`).
* An endpoint that changes its path, or whose path is a pattern, goes on answering from exact-match entries that its deletion
  does not cover (`mock.service.ts` 201), for up to 60 + 300 seconds since the two TTLs add up (311, 327). With a `keyPrefix`,
  which the configuration has by default, that holds for every endpoint.
* A client may send its own request id; the second row with one id is not written (`Taken`), and an answer whose value cannot be serialized is
  logged as a success and sent as a 500 (`LogTellsAnswer`).
* The listings of the logs are ordered by `createdAt` alone (`logs.service.ts` 110): rows of one millisecond may be missed or seen twice by a client that takes page
  after page, with no insertion in between (`Sole` excuses them in `WalkSeesAll`).
* `pageSize` has no minimum (`query-logs.dto.ts` 21-25). With `pageSize=1` each page of the API log that is read adds a page, and a client that goes on
  while there is a next one never ends; `WalkEnds` is stated for larger pages. With `pageSize=2` it gains one row a page and ends.

## 9. Not modelled

`PROJECT.json` has every component with its reason. In short:

* Template engines, utilities, formatting, time zones, truncation of long texts: text in, text out.
* Configuration, upload options, DTOs, error codes, OpenAPI declarations: read or built once, no state. The values that matter are constants.
* Health checks and the Prisma client's hooks: reads and connections. Example services and scripts: not part of the program.
* The mock call log (append only, and the route that would clear it is not reached), statistics (counts), `cleanOldLogs` and `OwnerOrAdminGuard` (no caller, guards no route), the
  listings of the other log tables (the query of `findApiLogs`).
* Of the cache: counters, `expire` and sets. Nothing calls the first two; the sets hold the reverse indexes that `RbacCache` omits.
* No property is about how many calls a half-open circuit lets through, about the counters of its failure rate that include everything since the last
  reset, or about thresholds and durations of different number: the first two have no stated promise, the last is excluded by an assumption.

## 10. Running

```
tlc -workers 2 -config sessions_races.cfg MCAuthSessions
tlapm RbacCacheProofs.tla
```

Each `.cfg` belongs to one MC module: `sessions_*` MCAuthSessions, `lockout_race` MCAccountLockout, `cache_drivers` MCCacheDrivers, `rbac_*`
MCRbacCache, `mock_cache` MCMockEndpoints, `accounts` MCUserAccounts, `catalog` MCRoleCatalog, `pipeline` MCRequestPipeline, `api_tour` MCApiTour.
