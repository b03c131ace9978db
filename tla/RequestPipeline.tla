--------------------------- MODULE RequestPipeline ---------------------------
(***************************************************************************)
(* The way of a request through main.ts and app.module: cookies and body,  *)
(* request id, throttler, CSRF guard, the route's guards, its handler, the *)
(* interceptors and the exception filter; and the log tables, which are    *)
(* written after the answer and read by one of the routes.                 *)
(*                                                                         *)
(* One browser sends its cookies and echoes the token it finds in them.  A *)
(* script of an administrator walks the pages of the API log.  A handler   *)
(* that writes reads a row first, through @Retryable.  The sampled routes  *)
(* that name a role by its id name the same one.                           *)
(***************************************************************************)
EXTENDS ApiRoutes, SeedData, RetryableCall, FiniteSets

CONSTANTS
  Workers,       \* connections, by number
  Sampled,       \* the positions in Routes that the browser asks for
  Walked,        \* the position of GET logs/api, which only the script asks for
  Callers,       \* who the browser may be: "anonymous" or a seeded role
  CsrfEnabled,   \* CSRF_ENABLED
  TokenSurvives, \* CSRF_COOKIE_MAXAGE: the token outlives the browser
  DbLog,         \* LOG_ENABLE_DATABASE
  PerMinute,     \* what the throttlers let through per url and minute
  PageSize, OldRows,
  Slow,          \* how long an attempt of a read may last
  MaxBrowsed,    \* bound on the requests of the browser
  MaxBeside,     \* the same when the script walks as well
  MaxSent        \* bound on all requests and rows

ASSUME PipelineAssumption ==
  /\ Workers \subseteq Nat
  /\ Sampled \subseteq DOMAIN Routes /\ Walked \in DOMAIN Routes \ Sampled
  /\ CsrfEnabled \in BOOLEAN /\ TokenSurvives \in BOOLEAN /\ DbLog \in BOOLEAN
  /\ PerMinute \in Nat \ {0} /\ PageSize \in Nat \ {0} /\ OldRows \in Nat \ {0}
  /\ Slow # {} /\ Slow \subseteq Nat
  /\ MaxBrowsed \in Nat /\ MaxBeside \in Nat /\ MaxSent \in Nat
  /\ OldRows <= MaxSent

VARIABLES
  jar,       \* the browser's cookies: sid, 0 when it has none, and the sid its
             \* token was made for, 0 for the empty one
  astray,    \* history: why the token in the jar is not for the sid in it
  hits,      \* calls by url; the model follows one minute, and none is forgotten
  req,       \* the request on each connection
  sent,      \* serial number of the last request or row
  browsed,
  answered,  \* the answers sent: their status, 0 before, and route
  committed, \* the requests that have written something
  gone,      \* the role the requests name is deleted
  undercut,  \* history: assignments to the role that were past their look-up then
  apiLog,    \* rows of api_logs, oldest first
  tied,      \* the positions of rows with the createdAt of the row before them
  errorLog,  \* rows handed to createErrorLog: nothing here reads them
  writes,    \* rows for api_logs whose inserts nobody awaits
  lost,      \* rows whose insert failed
  walk       \* what the script has seen, and the rows there were when it began

role == <<gone, undercut>>
vars == <<jar, astray, hits, req, sent, browsed, answered, committed, role,
          apiLog, tied, errorLog, writes, lost, walk>>

Serials == 1..MaxSent
Free == [stage |-> "free", aim |-> 0, caller |-> "anonymous", serial |-> 0,
         id |-> 0, sid |-> 0, token |-> {}, setSid |-> 0, setToken |-> {},
         served |-> 0, call |-> NewCall, rows |-> {}, total |-> 0, status |-> 0]

Row(r, id, status) == [serial |-> r.serial, id |-> id, status |-> status]
ErrorRow(r, id, status, by) ==
  [serial |-> r.serial, id |-> id, status |-> status, by |-> by]

OldRow(n) == [serial |-> n, id |-> n, status |-> 200]

\* A browser without cookies, or one that has got a token for its sid.
Init ==
  /\ jar \in {[sid |-> 0, token |-> {}], [sid |-> 1, token |-> {1}]}
  /\ astray = {}
  /\ hits = [u \in Sampled |-> 0]
  /\ req = [w \in Workers |-> Free]
  /\ sent = OldRows /\ browsed = 0
  /\ answered = [s \in Serials |-> [status |-> IF s <= OldRows THEN 200 ELSE 0, aim |-> Walked]]
  /\ committed = {}
  /\ gone = FALSE /\ undercut = {}
  /\ apiLog = [n \in 1..OldRows |-> OldRow(n)] /\ tied \in SUBSET (2..OldRows)
  /\ errorLog = {} /\ writes = {} /\ lost = {}
  /\ walk = [state |-> "idle", page |-> 1, seen |-> {}, there |-> 0,
             slipped |-> FALSE]

-----------------------------------------------------------------------------
(* The clients.  A request id may come from the client, which repeats it.  *)
\* Connections are alike: the first free one is taken.
Send(w, r) ==
  /\ \A v \in Workers : req[v].stage = "free" => w <= v
  /\ req[w].stage = "free" /\ sent < MaxSent
  /\ sent' = sent + 1
  /\ req' = [req EXCEPT ![w] = [r EXCEPT !.stage = "sent", !.serial = sent + 1]]
  /\ UNCHANGED <<hits, answered, committed, role, apiLog, tied, errorLog, writes, lost>>

\* The browser is not at its bound.
Active == browsed < (IF walk.state = "idle" THEN MaxBrowsed ELSE MaxBeside)

Browse(w, n, caller, repeats) ==
  /\ Active
  /\ browsed' = browsed + 1
  /\ \E id \in {sent + 1} \union {s \in {sent} : repeats} :
       Send(w, [Free EXCEPT !.aim = n, !.caller = caller, !.id = id,
                            !.sid = jar.sid, !.token = jar.token])
  /\ UNCHANGED <<jar, astray, walk>>

\* Who calls an open route, or logs in, makes no difference.
Asking(n) == IF Routes[n].auth \in {"open", "local"} THEN {"anonymous"} ELSE Callers

\* GET logs/api, the first page or the next one.
Walk(w) ==
  /\ (walk.state = "idle" /\ browsed < MaxBeside) \/ walk.state = "turning"
  /\ Send(w, [Free EXCEPT !.aim = Walked, !.caller = "admin", !.id = sent + 1])
  /\ walk' = [walk EXCEPT !.state = "waiting",
                          !.there = IF walk.state = "idle" THEN Len(apiLog) ELSE @]
  /\ UNCHANGED <<jar, astray, browsed>>

\* The browser is closed and opened again, or the token's age is over.
Restart ==
  /\ jar.sid # 0 /\ Active
  /\ jar' = [sid |-> 0, token |-> IF TokenSurvives THEN jar.token ELSE {}]
  /\ astray' = IF jar'.token = {} THEN {} ELSE astray \union {"restart"}
  /\ UNCHANGED <<hits, req, sent, browsed, answered, committed, role, apiLog, tied,
                 errorLog, writes, lost, walk>>

TokenExpires ==
  /\ TokenSurvives /\ jar.token # {} /\ Active
  /\ jar' = [jar EXCEPT !.token = {}]
  /\ astray' = {}
  /\ UNCHANGED <<hits, req, sent, browsed, answered, committed, role, apiLog, tied,
                 errorLog, writes, lost, walk>>

-----------------------------------------------------------------------------
(* main.ts and the global guards.                                          *)
Path(r) == Aimed(r.aim).path
Verb(r) == Aimed(r.aim).verb

\* isExempt: the prefixes /health and /mock, and so /mock-endpoints too.
Exempt(r) == Path(r)[1] \in {"health", "mock", "mock-endpoints"}
Cookied(r) == CsrfEnabled /\ ~Exempt(r)

\* Mutated form: every answer brings a new sid.
WithSidAlways(r) == IF Cookied(r) THEN [r EXCEPT !.setSid = r.serial] ELSE r

\* A request without the sid cookie is answered with a new one.
WithSid(r) == IF Cookied(r) /\ r.sid = 0 THEN [r EXCEPT !.setSid = r.serial] ELSE r

\* A request without the token cookie is answered with a token for the sid the
\* request brought, not for the one it is being given.
WithToken(r) == IF Cookied(r) /\ r.token = {} THEN [r EXCEPT !.setToken = {r.sid}] ELSE r

ValidToken(r) == r.token = {r.sid}

CsrfRefuses(r) ==
  /\ CsrfEnabled /\ ~Exempt(r)
  /\ Verb(r) \in {"POST", "PUT", "DELETE"}
  /\ ~ValidToken(r)

\* @Throttle and @SkipThrottle speak of a throttler named "default"; those of
\* app.module are "short", "medium" and "long" and take no notice.  Calls are
\* counted by url with its query: the pages of the walk are an url each.
Counted(r) == r.aim # Walked
Throttled(r) == Counted(r) /\ hits[r.aim] >= PerMinute

\* Mutated form: the filter heeds @DisableDatabaseLog.
FilteredWhenLogged(r, id, status) ==
  IF DbLog /\ Routes[r.aim].logged THEN {ErrorRow(r, id, status, "filter")} ELSE {}

\* AllExceptionsFilter: an answer and, whatever the route says, a row.
Filtered(r, id, status) ==
  IF DbLog THEN {ErrorRow(r, id, status, "filter")} ELSE {}

Fails(w, r, id, status, rows, errors) ==
  /\ req' = [req EXCEPT ![w] = [r EXCEPT !.stage = "answered", !.status = status]]
  /\ answered' = [answered EXCEPT ![r.serial] = [status |-> status, aim |-> r.aim]]
  /\ writes' = writes \union rows
  /\ errorLog' = errorLog \union errors \union Filtered(r, id, status)

Passes(w, r) ==
  /\ req' = [req EXCEPT ![w] = r]
  /\ UNCHANGED <<answered, writes, errorLog>>

\* The body is refused before there is a request id, one that is too large as a
\* 500: the filter's row says "unknown", which is 0 here.
Enter(w) ==
  /\ req[w].stage = "sent"
  /\ LET r == WithToken(WithSid(req[w]))
         next == [r EXCEPT !.stage = "admitted", !.served = Serves[r.aim]] IN
     \/ /\ Verb(r) # "GET"
        /\ \E status \in {400, 500} : Fails(w, r, 0, status, {}, {})
        /\ UNCHANGED hits
     \/ /\ hits' = IF Counted(r) /\ ~Throttled(r) THEN [hits EXCEPT ![r.aim] = @ + 1]
                                                 ELSE hits
        /\ IF Throttled(r) THEN Fails(w, next, r.id, 429, {}, {})
           ELSE IF CsrfRefuses(r) THEN Fails(w, next, r.id, 403, {}, {})
           ELSE Passes(w, next)
  /\ UNCHANGED <<jar, astray, sent, browsed, committed, role, apiLog, tied, lost, walk>>

-----------------------------------------------------------------------------
(* The guards of the route and its handler.                                *)
Granted(caller) == DefaultGrants(caller, SeededPermissions)

\* The handlers that write before they know what they answer: a login counts or
\* forgets failures in its guard and makes a session before its last update, a
\* refresh turns whatever it meets into a 401.
WritesFirst(n) == Routes[n].auth = "local" \/ Routes[n].path = <<"auth", "refresh">>

\* POST roles/:id/permissions, and the routes that delete a role.
Amends(n) == Routes[n].verb = "POST" /\ Routes[n].path = <<"roles", ":id", "permissions">>
Deletes(n) ==
  \/ Routes[n].verb = "DELETE" /\ Routes[n].path = <<"roles", ":id">>
  \/ Routes[n].verb = "POST" /\ Routes[n].path = <<"roles", "batch-delete">>

\* 0 when the guards let the request pass; a password may be right or wrong.
GuardStatuses(r) ==
  LET route == Routes[r.served] IN
  IF route.auth = "open" THEN {0}
  ELSE IF route.auth = "local" THEN {0, 401}
  ELSE IF r.caller = "anonymous" THEN {401}
  ELSE IF route.auth = "admin" /\ r.caller # "admin" THEN {403}
  ELSE IF route.auth = "permission" /\ route.needs \notin Granted(r.caller) THEN {403}
  ELSE {0}

\* The password check leaves its mark either way, or none.
Authorize(w) ==
  /\ req[w].stage = "admitted"
  /\ \E status \in GuardStatuses(req[w]) :
       IF status = 0
         THEN Passes(w, [req[w] EXCEPT !.stage =
                IF req[w].aim = Walked THEN "reading"
                ELSE IF Verb(req[w]) = "GET" THEN "done" ELSE "finding"])
         ELSE Fails(w, req[w], req[w].id, status, {}, {})
  /\ \/ UNCHANGED committed
     \/ /\ Routes[req[w].served].auth = "local"
        /\ committed' = committed \union {req[w].serial}
  /\ UNCHANGED <<jar, astray, hits, sent, browsed, role, apiLog, tied, lost, walk>>

\* shouldLogToDatabase: the method's or the class's decorator, else the setting.
Logs(r) == DbLog /\ Routes[r.served].logged

\* Mutated form: the status is read before the filter sets it.
RowOfTooEarly(r, status) == IF Logs(r) THEN {Row(r, r.id, 200)} ELSE {}

\* The interceptor writes a row of each kind before the filter writes its own.
RowOf(r, status) == IF Logs(r) THEN {Row(r, r.id, status)} ELSE {}
Caught(r, status) ==
  IF Logs(r) THEN {ErrorRow(r, r.id, status, "interceptor")} ELSE {}

Throws(w, r, status) == Fails(w, r, r.id, status, RowOf(r, status), Caught(r, status))

\* An attempt of the handler's first read.
Find(w) ==
  /\ req[w].stage = "finding"
  /\ LET r == req[w]
         c == Attempt(r.call) IN
     IF c.state = "timedOut" THEN Throws(w, [r EXCEPT !.call = c], 500)
     ELSE \E d \in Slow :
          \/ \E late \in Slow : LET f == AfterFailure(c, d, late) IN
               IF f.state = "thrown" THEN Throws(w, [r EXCEPT !.call = f], 500)
                                     ELSE Passes(w, [r EXCEPT !.call = f])
          \/ IF gone /\ (Amends(r.served) \/ Deletes(r.served))
               THEN Throws(w, [r EXCEPT !.call = NewCall], 404)
               ELSE Passes(w, [r EXCEPT !.call = NewCall, !.stage = "writing"])
  /\ UNCHANGED <<jar, astray, hits, sent, browsed, committed, role, apiLog, tied, lost, walk>>

\* 404 stands for every business error, to tell it from a refused body.
Errors(n) == {404, 500} \union (IF WritesFirst(n) THEN {401} ELSE {})

\* The assignments to the role that have looked it up.
Amending ==
  {req[v].serial : v \in {u \in Workers : /\ req[u].stage \in {"writing", "rereading"}
                                         /\ Amends(req[u].served)}}

\* The handler's write.  A deletion looks the role up again inside of it.
Commits(r) ==
  /\ committed' = committed \union {r.serial}
  /\ IF Deletes(r.served)
       THEN ~gone /\ gone' = TRUE /\ undercut' = undercut \union Amending
       ELSE UNCHANGED role

\* Mutated form: the write is made before the handler has found fault.
WriteFirst(w) ==
  /\ req[w].stage = "writing"
  /\ Commits(req[w])
  /\ \/ \E status \in Errors(req[w].served) : Throws(w, req[w], status)
     \/ Passes(w, [req[w] EXCEPT !.stage = "done"])
  /\ UNCHANGED <<jar, astray, hits, sent, browsed, apiLog, tied, lost, walk>>

\* An error before the write; or the write, and an error of what follows it.
Write(w) ==
  /\ req[w].stage = "writing"
  /\ LET r == req[w] IN
     \/ /\ \E status \in Errors(r.served) : Throws(w, r, status)
        /\ UNCHANGED <<committed, role>>
     \/ /\ Commits(r)
        /\ \/ \E status \in (IF WritesFirst(r.served) THEN Errors(r.served) ELSE {500}) :
                Throws(w, r, status)
           \/ Passes(w, [r EXCEPT !.stage = IF Amends(r.served) THEN "rereading" ELSE "done"])
  /\ UNCHANGED <<jar, astray, hits, sent, browsed, apiLog, tied, lost, walk>>

\* findOne after the transaction of assignPermissions, which asks no role.
Reread(w) ==
  /\ req[w].stage = "rereading"
  /\ \/ Throws(w, req[w], 500)
     \/ IF gone THEN Throws(w, req[w], 404) ELSE Passes(w, [req[w] EXCEPT !.stage = "done"])
  /\ UNCHANGED <<jar, astray, hits, sent, browsed, committed, role, apiLog, tied, lost, walk>>

-----------------------------------------------------------------------------
(* findApiLogs: the rows of a page and the number of all, in either order. *)
\* Mutated form: skip is a page too many.
WindowSkipping(k) == {n \in DOMAIN apiLog :
  LET newer == Len(apiLog) - n IN
  k * PageSize <= newer /\ newer < (k + 1) * PageSize}

Window(k) == {n \in DOMAIN apiLog :
  LET newer == Len(apiLog) - n IN
  (k - 1) * PageSize <= newer /\ newer < k * PageSize}

\* createdAt alone orders the rows: those of one instant change places freely
\* from one query to the next.
SameInstant(m, n) == \A k \in ((m + 1)..n) \union ((n + 1)..m) : k \in tied
OnPage(k) == {S \in SUBSET (DOMAIN apiLog) : \A n \in DOMAIN apiLog :
  Cardinality({m \in S : SameInstant(m, n)})
    = Cardinality({m \in Window(k) : SameInstant(m, n)})}

FindRows(w) ==
  /\ req[w].stage \in {"reading", "counted"}
  /\ \E S \in OnPage(walk.page) : Passes(w, [req[w] EXCEPT
       !.rows = {apiLog[n].serial : n \in S},
       !.stage = IF req[w].stage = "counted" THEN "done" ELSE "found"])
  /\ UNCHANGED <<jar, astray, hits, sent, browsed, committed, role, apiLog, tied, lost, walk>>

CountRows(w) ==
  /\ req[w].stage \in {"reading", "found"}
  /\ Passes(w, [req[w] EXCEPT
       !.total = Len(apiLog),
       !.stage = IF req[w].stage = "found" THEN "done" ELSE "counted"])
  /\ UNCHANGED <<jar, astray, hits, sent, browsed, committed, role, apiLog, tied, lost, walk>>

-----------------------------------------------------------------------------
(* The answer.                                                             *)
Succeeds(w, r) ==
  /\ req' = [req EXCEPT ![w] = [r EXCEPT !.stage = "answered", !.status = 200]]
  /\ answered' = [answered EXCEPT ![r.serial] = [status |-> 200, aim |-> r.aim]]
  /\ writes' = writes \union RowOf(r, 200)
  /\ UNCHANGED errorLog

\* tap, then map, then the serialization.  The value may be one that JSON does
\* not take: the tap throws when it logs, the serialization when it does not.
Finish(w) ==
  /\ req[w].stage = "done"
  /\ \/ Succeeds(w, req[w])
     \/ Throws(w, req[w], 500)
     \/ Fails(w, req[w], req[w].id, 500, RowOf(req[w], 200), {})
  /\ UNCHANGED <<jar, astray, hits, sent, browsed, committed, role, apiLog, tied, lost, walk>>

\* Mutated form: there is a next page whenever there are several.
TurnedAgain(r) ==
  [walk EXCEPT !.seen = @ \union r.rows,
               !.page = IF PageSize < r.total THEN @ + 1 ELSE @,
               !.state = IF PageSize < r.total THEN "turning" ELSE "over"]

\* The script takes the next page while there is one.
Turned(r) ==
  [walk EXCEPT !.seen = @ \union r.rows,
               !.page = IF walk.page * PageSize < r.total THEN @ + 1 ELSE @,
               !.state = IF walk.page * PageSize < r.total THEN "turning" ELSE "over"]

\* The browser takes the cookies it is given, in the order answers arrive.
Cookies(r) ==
  LET sid == IF r.setSid = 0 THEN jar.sid ELSE r.setSid
      token == IF r.setToken = {} THEN jar.token ELSE r.setToken IN
  /\ jar' = [sid |-> sid, token |-> token]
  /\ astray' = IF token \in {{}, {sid}} THEN {}
               ELSE astray
                 \union (IF r.setToken = {0} THEN {"firstContact"} ELSE {})
                 \union (IF r.setSid # 0 /\ r.sid = 0 THEN {"overtaken"} ELSE {})
                 \union (IF r.setToken # {} /\ r.sid # jar.sid THEN {"overtaken"} ELSE {})

Deliver(w) ==
  /\ req[w].stage = "answered"
  /\ IF req[w].aim = Walked
       THEN walk' = IF req[w].status = 200 THEN Turned(req[w])
                                           ELSE [walk EXCEPT !.state = "failed"]
       ELSE UNCHANGED walk
  /\ IF req[w].aim = Walked THEN UNCHANGED <<jar, astray>> ELSE Cookies(req[w])
  /\ req' = [req EXCEPT ![w] = Free]
  /\ UNCHANGED <<hits, sent, browsed, answered, committed, role, apiLog, tied,
                 errorLog, writes, lost>>

-----------------------------------------------------------------------------
(* createApiLog and createErrorLog: an insert that fails is only printed.  *)
\* requestId is unique among the rows of api_logs.
Taken(row) == \E n \in DOMAIN apiLog : apiLog[n].id = row.id

CreateApiLog(row) ==
  /\ row \in writes
  /\ writes' = writes \ {row}
  /\ IF Taken(row)
       THEN lost' = lost \union {row} /\ UNCHANGED <<apiLog, tied, walk>>
       ELSE /\ apiLog' = Append(apiLog, row)
            /\ tied' \in {tied, tied \union {Len(apiLog) + 1 : n \in DOMAIN apiLog}}
            /\ walk' = [walk EXCEPT !.slipped =
                           @ \/ \E w \in Workers : req[w].stage = "counted"]
            /\ UNCHANGED lost
  /\ UNCHANGED <<jar, astray, hits, req, sent, browsed, answered, committed, role, errorLog>>

LoseLog(row) ==
  /\ row \in writes
  /\ writes' = writes \ {row} /\ lost' = lost \union {row}
  /\ UNCHANGED <<jar, astray, hits, req, sent, browsed, answered, committed, role,
                 apiLog, tied, errorLog, walk>>

-----------------------------------------------------------------------------
Proceed(w) ==
  \/ Enter(w) \/ Authorize(w) \/ Find(w) \/ Write(w) \/ Reread(w)
  \/ FindRows(w) \/ CountRows(w) \/ Finish(w) \/ Deliver(w)

Next ==
  \/ \E w \in Workers :
       \/ Proceed(w)
       \/ Walk(w)
       \/ \E n \in Sampled : \E caller \in Asking(n) : Browse(w, n, caller, TRUE)
  \/ Restart \/ TokenExpires
  \/ \E row \in writes : CreateApiLog(row) \/ LoseLog(row)

\* The event loop serves every connection, and the script goes on.
Fairness ==
  /\ \A w \in Workers : WF_vars(Proceed(w))
  /\ WF_vars(walk.state = "turning" /\ \E w \in Workers : Walk(w))

Spec == Init /\ [][Next]_vars /\ Fairness

-----------------------------------------------------------------------------
Statuses == {0, 200, 400, 401, 403, 404, 429, 500}
Rows == [serial : Serials, id : Serials, status : Statuses]
ErrorRows == [serial : Serials, id : 0..MaxSent, status : Statuses,
              by : {"interceptor", "filter"}]

Jars == [sid : 0..MaxSent, token : {{}} \union {{n} : n \in 0..MaxSent}]
Walks == [state : {"idle", "waiting", "turning", "over", "failed"},
          page : Nat, seen : SUBSET Serials, there : Nat, slipped : BOOLEAN]

(* Cookies, counters, answers, rows and the walk have their types, and the *)
(* rows of the API log differ in their request ids.                        *)
TypeOK ==
  /\ jar \in Jars
  /\ hits \in [Sampled -> 0..PerMinute]
  /\ sent \in Serials /\ browsed \in Nat
  /\ answered \in [Serials -> [status : Statuses, aim : Sampled \union {Walked}]]
  /\ committed \union undercut \subseteq Serials /\ gone \in BOOLEAN
  /\ tied \subseteq 2..Len(apiLog)
  /\ apiLog \in Seq(Rows) /\ writes \union lost \subseteq Rows /\ errorLog \subseteq ErrorRows
  /\ \A m, n \in DOMAIN apiLog : apiLog[m].id = apiLog[n].id => m = n
  /\ walk \in Walks

(* main.ts 184-234.  A browser whose token is not for its sid, and that is *)
(* refused until the token goes, got the token with its very first answer, *)
(* or was restarted, or an answer to an earlier request brought a cookie.  *)
AstrayHasCause ==
  jar.token \notin {{}, {jar.sid}} => astray # {}

(* A request answered with a 4xx has written nothing and may be repeated,  *)
(* but for logins and refreshes, which write before they know, and for an  *)
(* assignment of permissions (roles.service 424-446) whose role was        *)
(* deleted after it was looked up: its answer says there is no such role.  *)
RefusedChangesNothing ==
  \A s \in committed : answered[s].status \in 400..499 =>
    LET n == Serves[answered[s].aim] IN
    WritesFirst(n) \/ (Amends(n) /\ s \in undercut)

Handed == {apiLog[n] : n \in DOMAIN apiLog} \union writes \union lost
RowsOf(rows, s) == {row \in rows : row.serial = s}

(* With the database log on, every answer of a handler whose route is      *)
(* logged has one row on its way to the API log, and the row tells the     *)
(* status the client was answered with, unless the answer failed behind    *)
(* the interceptor (a 500 after all).                                      *)
LogTellsAnswer ==
  DbLog => \A s \in Serials : s > OldRows /\ answered[s].status # 0 =>
    LET rows == RowsOf(Handed, s) IN
    /\ answered[s].status \in {200, 404} /\ Routes[answered[s].aim].logged
         => Cardinality(rows) = 1
    /\ \A row \in rows : row.status \in {answered[s].status} \union
                            (IF answered[s].status = 500 THEN {200} ELSE {})

(* With the database log on, every refusal and error leaves a row of the   *)
(* filter for the error log, wherever it happened; a success leaves none.  *)
FailureRecorded ==
  DbLog => \A s \in Serials :
    /\ answered[s].status >= 400
         => \E row \in RowsOf(errorLog, s) : row.by = "filter" /\ row.status = answered[s].status
    /\ answered[s].status = 200 => RowsOf(errorLog, s) = {}

(* retryable.decorator 121-186.  The time is looked at between attempts    *)
(* only and timers may wake late: still a call is over less than one       *)
(* attempt, or one late wake, after its time.                              *)
RetryInTime ==
  \A w \in Workers : \E d \in Slow : req[w].call.elapsed < Timeout + d

(* The walk adds a row with every page it reads; a walk that ends has seen *)
(* every row that was there when it began and shares its createdAt with no *)
(* other, unless a row was inserted after the count and before the rows of *)
(* one page were read.  Rows of one instant may be missed: logs.service    *)
(* 110 orders by createdAt alone.                                          *)
Sole(n) == n \notin tied /\ n + 1 \notin tied
WalkSeesAll ==
  walk.state = "over" /\ ~walk.slipped =>
    \A n \in 1..walk.there : Sole(n) => apiLog[n].serial \in walk.seen

(* And it ends once the browser is quiet, in spite of those rows, if its   *)
(* pages have more than one: with one row to a page, which the query       *)
(* accepts, every page that is read adds a page.                           *)
WalkEnds ==
  PageSize > 1 /\ walk.state = "waiting" ~> walk.state \in {"over", "failed"}
=============================================================================
