------------------------ MODULE RequestPipelineProofs ------------------------
(***************************************************************************)
(* Proofs about RequestPipeline for any routes sampled, any number of      *)
(* connections, any settings of CSRF, log and throttler and any bounds.    *)
(***************************************************************************)
EXTENDS RequestPipeline, Integers, FiniteSetTheorems, TLAPS

Fields == {"stage", "aim", "caller", "serial", "id", "sid", "token", "setSid",
           "setToken", "served", "call", "rows", "total", "status"}
Handled == {"admitted", "finding", "writing", "rereading", "reading", "found", "counted"}
Unanswered == Handled \union {"sent", "done"}
Stages == Unanswered \union {"answered", "free"}
Aims == Sampled \union {Walked}
Tokens == {{}} \union {{n} : n \in 0..MaxSent}

\* A request has its fields.  Cookies are given to a request that lacks them,
\* a token for its own sid.
Shaped(r) == DOMAIN r = Fields
Sane(r) ==
  /\ Shaped(r) /\ r.stage \in Stages
  /\ r.sid \in 0..MaxSent /\ r.token \in Tokens
  /\ r.setSid \in 0..MaxSent /\ r.setToken \in {{}, {r.sid}}
  /\ r.setSid # 0 => r.sid = 0
  /\ r.stage = "sent" => r.setSid = 0 /\ r.setToken = {}
  /\ r.rows \subseteq Serials
  /\ r.stage # "free" => r.serial \in Serials /\ r.id \in Serials /\ r.aim \in Aims

\* Nothing is known of a request that has not been sent or answered yet.
Silent(answers, rows, s) == answers[s].status = 0 /\ \A row \in rows : row.serial # s
NoAnswer(s) == Silent(answered, errorLog, s)

Requests ==
  /\ DOMAIN req = Workers /\ req = [w \in Workers |-> req[w]]
  /\ \A w \in Workers : Sane(req[w]) /\ (req[w].stage # "free" => req[w].serial <= sent)
  /\ \A v, w \in Workers :
       req[v].stage # "free" /\ req[w].stage # "free" /\ req[v].serial = req[w].serial
         => v = w

Pending ==
  /\ \A w \in Workers : req[w].stage \in Unanswered => NoAnswer(req[w].serial)
  /\ \A s \in Serials : s > sent => NoAnswer(s)

Inv == TypeOK /\ Requests /\ Pending

-----------------------------------------------------------------------------
(* What is written to a request leaves its other fields alone.             *)
Same(r, c) ==
  /\ Shaped(c) /\ c.serial = r.serial /\ c.aim = r.aim /\ c.sid = r.sid
  /\ c.id = r.id /\ c.token = r.token
Kept(r, c) == Same(r, c) /\ c.setSid = r.setSid /\ c.setToken = r.setToken

Staged(r, x) == [r EXCEPT !.stage = x]
AnsweredWith(r, y) == [r EXCEPT !.stage = "answered", !.status = y]
Called(r, y) == [r EXCEPT !.call = y]
CalledOn(r, y, x) == [r EXCEPT !.call = y, !.stage = x]
Paged(r, y, x) == [r EXCEPT !.rows = y, !.stage = x]
Totalled(r, y, x) == [r EXCEPT !.total = y, !.stage = x]
ServedOn(r, y) == [r EXCEPT !.stage = "admitted", !.served = y]
SentAs(r, y) == [r EXCEPT !.stage = "sent", !.serial = y]

LEMMA StagedKept ==
  ASSUME NEW r, Shaped(r), NEW x
  PROVE  /\ Kept(r, Staged(r, x))
         /\ Staged(r, x).stage = x /\ Staged(r, x).rows = r.rows
BY DEF Shaped, Kept, Same, Fields, Staged

LEMMA AnsweredWithKept ==
  ASSUME NEW r, Shaped(r), NEW y
  PROVE  /\ Kept(r, AnsweredWith(r, y))
         /\ AnsweredWith(r, y).stage = "answered" /\ AnsweredWith(r, y).rows = r.rows
BY DEF Shaped, Kept, Same, Fields, AnsweredWith

LEMMA CalledKept ==
  ASSUME NEW r, Shaped(r), NEW y
  PROVE  /\ Kept(r, Called(r, y))
         /\ Called(r, y).stage = r.stage /\ Called(r, y).rows = r.rows
BY DEF Shaped, Kept, Same, Fields, Called

LEMMA CalledOnKept ==
  ASSUME NEW r, Shaped(r), NEW x, NEW y
  PROVE  /\ Kept(r, CalledOn(r, y, x))
         /\ CalledOn(r, y, x).stage = x /\ CalledOn(r, y, x).rows = r.rows
BY DEF Shaped, Kept, Same, Fields, CalledOn

LEMMA PagedKept ==
  ASSUME NEW r, Shaped(r), NEW x, NEW y
  PROVE  /\ Kept(r, Paged(r, y, x))
         /\ Paged(r, y, x).stage = x /\ Paged(r, y, x).rows = y
BY DEF Shaped, Kept, Same, Fields, Paged

LEMMA TotalledKept ==
  ASSUME NEW r, Shaped(r), NEW x, NEW y
  PROVE  /\ Kept(r, Totalled(r, y, x))
         /\ Totalled(r, y, x).stage = x /\ Totalled(r, y, x).rows = r.rows
BY DEF Shaped, Kept, Same, Fields, Totalled

LEMMA ServedOnKept ==
  ASSUME NEW r, Shaped(r), NEW y
  PROVE  /\ Kept(r, ServedOn(r, y))
         /\ ServedOn(r, y).stage = "admitted" /\ ServedOn(r, y).rows = r.rows
BY DEF Shaped, Kept, Same, Fields, ServedOn

LEMMA SentAsKept ==
  ASSUME NEW r, Shaped(r), NEW y
  PROVE  LET c == SentAs(r, y) IN
         /\ Shaped(c) /\ c.stage = "sent" /\ c.serial = y /\ c.aim = r.aim /\ c.id = r.id
         /\ c.sid = r.sid /\ c.token = r.token /\ c.setSid = r.setSid
         /\ c.setToken = r.setToken /\ c.rows = r.rows
BY DEF Shaped, Fields, SentAs

LEMMA SidGiven ==
  ASSUME NEW r, Shaped(r), NEW x, NEW c, c = [r EXCEPT !.setSid = x]
  PROVE  /\ Same(r, c) /\ c.setSid = x /\ c.setToken = r.setToken /\ c.rows = r.rows
BY DEF Shaped, Same, Fields

LEMMA TokenGiven ==
  ASSUME NEW r, Shaped(r), NEW x, NEW c, c = [r EXCEPT !.setToken = x]
  PROVE  /\ Same(r, c) /\ c.setToken = x /\ c.setSid = r.setSid /\ c.rows = r.rows
BY DEF Shaped, Same, Fields

\* A request that has come gets at most the cookies it lacks.
LEMMA Admitted ==
  ASSUME NEW r, Shaped(r), r.setSid = 0, r.setToken = {}
  PROVE  LET c == WithToken(WithSid(r)) IN
         /\ Same(r, c) /\ c.rows = r.rows /\ c.setSid \in {0, r.serial}
         /\ c.setSid # 0 => c.sid = 0
         /\ c.setToken \in {{}, {r.sid}}
<1> DEFINE b == WithSid(r)
           c == WithToken(b)
<1>1. /\ Same(r, b) /\ b.rows = r.rows /\ b.setToken = {}
      /\ b.setSid \in {0, r.serial} /\ (b.setSid # 0 => b.sid = 0)
  <2>1. CASE b = r
    BY <2>1 DEF Same
  <2>2. CASE b = [r EXCEPT !.setSid = r.serial] /\ r.sid = 0
    BY <2>2, SidGiven DEF Same
  <2>3. QED
    BY <2>1, <2>2 DEF WithSid
<1>2. c = b \/ c = [b EXCEPT !.setToken = {b.sid}]
  BY DEF WithToken
<1> HIDE DEF b, c
<1>3. /\ Same(b, c) /\ c.rows = b.rows /\ c.setSid = b.setSid
      /\ c.setToken \in {{}, {b.sid}}
  <2>1. CASE c = b
    BY <1>1, <2>1 DEF Same
  <2>2. CASE c = [b EXCEPT !.setToken = {b.sid}]
    BY <1>1, <2>2, TokenGiven DEF Same
  <2>3. QED
    BY <1>2, <2>1, <2>2
<1>4. QED
  BY <1>1, <1>3 DEF Same, b, c

-----------------------------------------------------------------------------
(* A handler's step takes the request on, or answers it.                   *)
Fits(r, c) ==
  /\ Same(r, c) /\ c.rows \subseteq Serials
  /\ c.setSid \in 0..MaxSent /\ c.setToken \in {{}, {r.sid}}
  /\ c.setSid # 0 => r.sid = 0
Continues(r, c) == Fits(r, c) /\ c.stage \in Stages \ {"free", "sent"}

\* Writes of requests there are, whatever they did to the role.
Written == committed' \union undercut' \subseteq Serials /\ gone' \in BOOLEAN
Beside ==
  /\ UNCHANGED <<jar, astray, sent, browsed, apiLog, tied, lost, walk>>
  /\ hits' \in [Sampled -> 0..PerMinute] /\ Written

Moves(w, c) ==
  /\ Continues(req[w], c) /\ c.stage # "answered"
  /\ req' = [req EXCEPT ![w] = c]
  /\ UNCHANGED <<answered, writes, errorLog>>

Answers(w, c, status, rows, errors) ==
  /\ Continues(req[w], c) /\ c.stage = "answered"
  /\ req' = [req EXCEPT ![w] = c]
  /\ answered' = [answered EXCEPT ![req[w].serial] = [status |-> status, aim |-> req[w].aim]]
  /\ writes' = writes \union rows
  /\ errorLog' = errorLog \union errors

\* The rows handed to createErrorLog tell of this request.
Telling(w, status, errors) ==
  /\ errors \subseteq ErrorRows /\ \A row \in errors : row.serial = req[w].serial
  /\ status = 200 => errors = {}
  /\ DbLog /\ status >= 400 => \E row \in errors : row.by = "filter" /\ row.status = status

Goals == AstrayHasCause /\ FailureRecorded

LEMMA GoesOnSane ==
  ASSUME Inv, NEW w \in Workers, req[w].stage \in Unanswered, NEW c,
         Continues(req[w], c), req' = [req EXCEPT ![w] = c], sent' = sent
  PROVE  /\ Requests'
         /\ \A v \in Workers \ {w} : req'[v] = req[v]
         /\ req'[w] = c /\ c.serial = req[w].serial /\ req[w].serial \in Serials
         /\ req[w].serial <= sent /\ req[w].aim \in Aims
         /\ \A v \in Workers \ {w} :
              req[v].stage # "free" => req[v].serial # req[w].serial
<1>1. /\ \A v \in Workers : req'[v] = IF v = w THEN c ELSE req[v]
      /\ DOMAIN req' = Workers /\ req' = [v \in Workers |-> req'[v]]
  BY DEF Inv, Requests
<1>2. Sane(req[w]) /\ req[w].stage # "free"
  BY DEF Inv, Requests, Unanswered, Handled
<1>3. Sane(c)
  <2>1. Shaped(c) /\ c.stage \in Stages /\ c.stage # "free" /\ c.stage # "sent"
    BY DEF Continues, Fits, Same
  <2>2. c.sid = req[w].sid /\ c.token = req[w].token /\ c.serial = req[w].serial
        /\ c.id = req[w].id /\ c.aim = req[w].aim
    BY DEF Continues, Fits, Same
  <2>3. /\ c.setSid \in 0..MaxSent /\ c.setToken \in {{}, {c.sid}}
        /\ (c.setSid # 0 => c.sid = 0) /\ c.rows \subseteq Serials
    BY <2>2 DEF Continues, Fits
  <2>4. /\ c.sid \in 0..MaxSent /\ c.token \in Tokens /\ c.serial \in Serials
        /\ c.id \in Serials /\ c.aim \in Aims
    BY <1>2, <2>2 DEF Sane
  <2>5. QED
    BY <2>1, <2>3, <2>4 DEF Sane
<1>5. \A v \in Workers : Sane(req'[v])
  BY <1>1, <1>3 DEF Inv, Requests
<1>6. c.serial = req[w].serial /\ c.stage # "free"
  BY DEF Continues, Fits, Same
<1>7. Requests'
  BY <1>1, <1>2, <1>5, <1>6 DEF Inv, Requests
<1>8. QED
  BY <1>1, <1>2, <1>6, <1>7 DEF Inv, Requests, Sane

LEMMA MoveKeeps ==
  ASSUME Inv, Goals, NEW w \in Workers, req[w].stage \in Handled \union {"sent"},
         NEW c, Moves(w, c), Beside
  PROVE  Inv' /\ Goals'
<1>1. req[w].stage \in Unanswered /\ Continues(req[w], c) /\ sent' = sent
  BY DEF Unanswered, Moves, Beside
<1>2. /\ Requests'
      /\ \A v \in Workers \ {w} : req'[v] = req[v]
      /\ req'[w] = c /\ c.serial = req[w].serial /\ req[w].serial \in Serials
      /\ req[w].serial <= sent
      /\ \A v \in Workers \ {w} :
           req[v].stage # "free" => req[v].serial # req[w].serial
  BY <1>1, GoesOnSane DEF Moves
<1>3. browsed' = browsed /\ writes' \union lost' = writes \union lost
  BY DEF Moves, Beside
<1>5. TypeOK'
  BY <1>2, <1>3 DEF TypeOK, Inv, Moves, Beside, Written
<1>6. \A s \in Serials : NoAnswer(s)' <=> NoAnswer(s)
  BY DEF NoAnswer, Moves
<1>7. NoAnswer(req[w].serial)
  BY <1>1 DEF Inv, Pending
<1>8. \A v \in Workers : req'[v].stage \in Unanswered => Silent(answered', errorLog', req'[v].serial)
  <2>1. SUFFICES ASSUME NEW v \in Workers, req'[v].stage \in Unanswered
                 PROVE  Silent(answered', errorLog', req'[v].serial)
    OBVIOUS
  <2>2. CASE v = w
    BY <1>2, <1>6, <1>7, <2>2 DEF NoAnswer
  <2>3. CASE v # w
    <3>1. req'[v] = req[v] /\ req[v].serial \in Serials /\ NoAnswer(req[v].serial)
      BY <1>2, <2>1, <2>3 DEF Inv, Requests, Pending, Sane, Unanswered, Handled
    <3>2. QED
      BY <1>6, <3>1 DEF NoAnswer
  <2>4. QED
    BY <2>2, <2>3
<1>10. \A s \in Serials : s > sent' => NoAnswer(s)'
  BY <1>1, <1>6 DEF Inv, Pending
<1>12. AstrayHasCause' /\ FailureRecorded'
  BY DEF Goals, AstrayHasCause, FailureRecorded, RowsOf, Moves, Beside
<1>13. QED
  BY <1>2, <1>5, <1>8, <1>10, <1>12 DEF Inv, Pending, NoAnswer, Goals

LEMMA AnswerKeeps ==
  ASSUME Inv, Goals, NEW w \in Workers, req[w].stage \in Unanswered,
         NEW c, NEW status \in Statuses \ {0}, NEW rows \in SUBSET Rows, NEW errors,
         Answers(w, c, status, rows, errors), Telling(w, status, errors), Beside
  PROVE  Inv' /\ Goals'
<1>1. Continues(req[w], c) /\ sent' = sent
  BY DEF Answers, Beside
<1>2. /\ Requests'
      /\ \A v \in Workers \ {w} : req'[v] = req[v]
      /\ req'[w] = c /\ c.serial = req[w].serial /\ req[w].serial \in Serials
      /\ req[w].serial <= sent /\ req[w].aim \in Aims
      /\ \A v \in Workers \ {w} :
           req[v].stage # "free" => req[v].serial # req[w].serial
  BY <1>1, GoesOnSane DEF Answers
<1>4. TypeOK'
  <2>1. answered' \in [Serials -> [status : Statuses, aim : Sampled \union {Walked}]]
    BY <1>2 DEF Inv, TypeOK, Answers, Aims
  <2>2. writes' \union lost' \subseteq Rows /\ errorLog' \subseteq ErrorRows
    BY DEF Inv, TypeOK, Answers, Telling, Beside
  <2>4. QED
    BY <2>1, <2>2 DEF Inv, TypeOK, Beside, Written
<1>5. answered'[req[w].serial].status = status
  BY <1>2 DEF Inv, TypeOK, Answers
<1>6. \A s \in Serials \ {req[w].serial} :
        answered'[s] = answered[s] /\ RowsOf(errorLog, s)' = RowsOf(errorLog, s)
  <2>1. SUFFICES ASSUME NEW s \in Serials \ {req[w].serial}
                 PROVE  answered'[s] = answered[s] /\ RowsOf(errorLog', s) = RowsOf(errorLog, s)
    BY DEF RowsOf
  <2>2. answered'[s] = answered[s]
    BY DEF Inv, TypeOK, Answers
  <2>3. \A row \in errorLog' : row.serial = s => row \in errorLog
    BY DEF Answers, Telling
  <2>4. errorLog \subseteq errorLog'
    BY DEF Answers
  <2>5. QED
    BY <2>2, <2>3, <2>4 DEF RowsOf
<1>7. \A s \in Serials \ {req[w].serial} : NoAnswer(s) => NoAnswer(s)'
  <2>1. SUFFICES ASSUME NEW s \in Serials \ {req[w].serial}, NoAnswer(s)
                 PROVE  Silent(answered', errorLog', s)
    BY DEF NoAnswer
  <2>2. QED
    BY <1>6, <2>1 DEF NoAnswer, Silent, Answers, Telling
<1>8. c.stage = "answered"
  BY DEF Answers
<1>9. \A v \in Workers : req'[v].stage \in Unanswered => Silent(answered', errorLog', req'[v].serial)
  <2>1. SUFFICES ASSUME NEW v \in Workers, req'[v].stage \in Unanswered
                 PROVE  Silent(answered', errorLog', req'[v].serial)
    OBVIOUS
  <2>2. v # w
    BY <1>2, <1>8, <2>1 DEF Unanswered, Handled
  <2>3. req'[v] = req[v] /\ req[v].serial \in Serials /\ NoAnswer(req[v].serial)
    BY <1>2, <2>1, <2>2 DEF Inv, Requests, Pending, Sane, Unanswered, Handled
  <2>4. req[v].serial # req[w].serial
    BY <1>2, <2>1, <2>2, <2>3 DEF Unanswered, Handled
  <2>5. QED
    BY <1>7, <2>3, <2>4 DEF NoAnswer
<1>11. \A s \in Serials : s > sent' => NoAnswer(s)'
  <2>1. SUFFICES ASSUME NEW s \in Serials, s > sent PROVE NoAnswer(s)'
    BY <1>1
  <2>2. s # req[w].serial /\ NoAnswer(s)
    BY <1>2, <2>1 DEF Inv, Pending, TypeOK, Serials
  <2>3. QED
    BY <1>7, <2>2
<1>13. FailureRecorded'
  <2>1. SUFFICES ASSUME DbLog, NEW s \in Serials
                 PROVE  /\ answered'[s].status >= 400
                             => \E row \in RowsOf(errorLog', s) :
                                   row.by = "filter" /\ row.status = answered'[s].status
                        /\ answered'[s].status = 200 => RowsOf(errorLog', s) = {}
    BY DEF FailureRecorded, RowsOf
  <2>2. CASE s # req[w].serial
    BY <1>6, <2>1, <2>2 DEF Goals, FailureRecorded, RowsOf
  <2>3. CASE s = req[w].serial
    <3>1. ASSUME status >= 400
          PROVE  \E row \in RowsOf(errorLog', s) : row.by = "filter" /\ row.status = status
      <4>1. PICK row \in errors : row.by = "filter" /\ row.status = status
        BY <2>1, <3>1 DEF Telling
      <4>2. row \in RowsOf(errorLog', s)
        BY <2>3 DEF Telling, Answers, RowsOf
      <4>3. QED
        BY <4>1, <4>2
    <3>2. ASSUME status = 200
          PROVE  RowsOf(errorLog', s) = {}
      <4>1. errorLog' = errorLog /\ NoAnswer(s)
        BY <2>3, <3>2 DEF Answers, Telling, Inv, Pending
      <4>2. QED
        BY <4>1 DEF NoAnswer, Silent, RowsOf
    <3>3. QED
      BY <1>5, <2>3, <3>1, <3>2
  <2>4. QED
    BY <2>2, <2>3
<1>14. AstrayHasCause'
  BY DEF Goals, AstrayHasCause, Beside
<1>15. QED
  BY <1>2, <1>4, <1>9, <1>11, <1>13, <1>14 DEF Inv, Pending, NoAnswer, Goals

-----------------------------------------------------------------------------
(* The handlers' steps.                                                    *)
LEMMA SaneFits == ASSUME NEW r, Sane(r) PROVE Fits(r, r)
BY DEF Sane, Fits, Same

LEMMA KeptFits ==
  ASSUME NEW q, NEW r, Fits(q, r), NEW c, Kept(r, c), c.rows = r.rows
  PROVE  Fits(q, c)
BY DEF Fits, Kept, Same

LEMMA AnsweredWithContinues ==
  ASSUME NEW q, NEW r, Fits(q, r), NEW y
  PROVE  Continues(q, AnsweredWith(r, y)) /\ AnsweredWith(r, y).stage = "answered"
<1> DEFINE c == AnsweredWith(r, y)
<1>1. Shaped(r)
  BY DEF Fits, Same
<1>2. Kept(r, c) /\ c.stage = "answered" /\ c.rows = r.rows
  BY <1>1, AnsweredWithKept
<1> HIDE DEF c
<1>3. Fits(q, c)
  BY <1>2, KeptFits
<1>4. QED
  BY <1>2, <1>3 DEF Continues, Stages, c

LEMMA StagedFits ==
  ASSUME NEW r, Sane(r), NEW x
  PROVE  Fits(r, Staged(r, x)) /\ Staged(r, x).stage = x
<1> DEFINE c == Staged(r, x)
<1>1. Shaped(r) /\ Fits(r, r)
  BY SaneFits DEF Sane
<1>2. Kept(r, c) /\ c.stage = x /\ c.rows = r.rows
  BY <1>1, StagedKept
<1> HIDE DEF c
<1>3. Fits(r, c)
  BY <1>1, <1>2, KeptFits
<1>4. QED
  BY <1>2, <1>3 DEF c

LEMMA CalledFits ==
  ASSUME NEW r, Sane(r), NEW y
  PROVE  Fits(r, Called(r, y)) /\ Called(r, y).stage = r.stage
<1> DEFINE c == Called(r, y)
<1>1. Shaped(r) /\ Fits(r, r)
  BY SaneFits DEF Sane
<1>2. Kept(r, c) /\ c.stage = r.stage /\ c.rows = r.rows
  BY <1>1, CalledKept
<1> HIDE DEF c
<1>3. Fits(r, c)
  BY <1>1, <1>2, KeptFits
<1>4. QED
  BY <1>2, <1>3 DEF c

LEMMA CalledOnFits ==
  ASSUME NEW r, Sane(r), NEW x, NEW y
  PROVE  Fits(r, CalledOn(r, y, x)) /\ CalledOn(r, y, x).stage = x
<1> DEFINE c == CalledOn(r, y, x)
<1>1. Shaped(r) /\ Fits(r, r)
  BY SaneFits DEF Sane
<1>2. Kept(r, c) /\ c.stage = x /\ c.rows = r.rows
  BY <1>1, CalledOnKept
<1> HIDE DEF c
<1>3. Fits(r, c)
  BY <1>1, <1>2, KeptFits
<1>4. QED
  BY <1>2, <1>3 DEF c

LEMMA TotalledFits ==
  ASSUME NEW r, Sane(r), NEW x, NEW y
  PROVE  Fits(r, Totalled(r, y, x)) /\ Totalled(r, y, x).stage = x
<1> DEFINE c == Totalled(r, y, x)
<1>1. Shaped(r) /\ Fits(r, r)
  BY SaneFits DEF Sane
<1>2. Kept(r, c) /\ c.stage = x /\ c.rows = r.rows
  BY <1>1, TotalledKept
<1> HIDE DEF c
<1>3. Fits(r, c)
  BY <1>1, <1>2, KeptFits
<1>4. QED
  BY <1>2, <1>3 DEF c

LEMMA PagedFits ==
  ASSUME NEW r, Sane(r), NEW x, NEW y, y \subseteq Serials
  PROVE  Fits(r, Paged(r, y, x)) /\ Paged(r, y, x).stage = x
<1> DEFINE c == Paged(r, y, x)
<1>1. Shaped(r) /\ Fits(r, r)
  BY SaneFits DEF Sane
<1>2. Kept(r, c) /\ c.stage = x /\ c.rows = y
  BY <1>1, PagedKept
<1> HIDE DEF c
<1>3. Fits(r, c)
  BY <1>1, <1>2 DEF Fits, Kept, Same
<1>4. QED
  BY <1>2, <1>3 DEF c

LEMMA ServedOnFits ==
  ASSUME NEW q, NEW r, Fits(q, r), NEW y
  PROVE  Fits(q, ServedOn(r, y)) /\ ServedOn(r, y).stage = "admitted"
<1> DEFINE c == ServedOn(r, y)
<1>1. Shaped(r)
  BY DEF Fits, Same
<1>2. Kept(r, c) /\ c.stage = "admitted" /\ c.rows = r.rows
  BY <1>1, ServedOnKept
<1> HIDE DEF c
<1>3. Fits(q, c)
  BY <1>2, KeptFits
<1>4. QED
  BY <1>2, <1>3 DEF c

LEMMA AdmittedFits ==
  ASSUME NEW r, Sane(r), r.stage = "sent"
  PROVE  Fits(r, WithToken(WithSid(r)))
<1> DEFINE c == WithToken(WithSid(r))
<1>1. /\ Shaped(r) /\ r.setSid = 0 /\ r.setToken = {} /\ r.rows \subseteq Serials
      /\ r.serial \in Serials
  BY DEF Sane
<1>2. /\ Same(r, c) /\ c.rows = r.rows /\ c.setSid \in {0, r.serial}
      /\ c.setSid # 0 => c.sid = 0
      /\ c.setToken \in {{}, {r.sid}}
  BY <1>1, Admitted
<1> HIDE DEF c
<1>3. c.setSid \in 0..MaxSent
  BY <1>1, <1>2, PipelineAssumption DEF Serials
<1>4. Fits(r, c)
  BY <1>1, <1>2, <1>3 DEF Fits, Same
<1>5. QED
  BY <1>4 DEF c

LEMMA FailsKeeps ==
  ASSUME Inv, Goals, NEW w \in Workers, req[w].stage \in Unanswered,
         NEW r, Fits(req[w], r), NEW id \in 0..MaxSent, NEW status \in Statuses \ {0, 200},
         NEW rows \in SUBSET Rows, NEW errors \in SUBSET ErrorRows,
         \A row \in errors : row.serial = req[w].serial,
         Fails(w, r, id, status, rows, errors), Beside
  PROVE  Inv' /\ Goals'
<1> DEFINE c == AnsweredWith(r, status)
           all == errors \union Filtered(r, id, status)
<1>1. Shaped(r) /\ r.rows \subseteq Serials /\ r.serial = req[w].serial /\ r.aim = req[w].aim
  BY DEF Fits, Same
<1>2. req[w].serial \in Serials
  BY DEF Inv, Requests, Sane, Unanswered, Handled
<1>3. Continues(req[w], c) /\ c.stage = "answered"
  BY AnsweredWithContinues
<1>4. c = [r EXCEPT !.stage = "answered", !.status = status]
  BY DEF AnsweredWith
<1> HIDE DEF c
<1>5. Answers(w, c, status, rows, all)
  BY <1>1, <1>3, <1>4 DEF Answers, Fails
<1>6. Telling(w, status, all)
  <2> DEFINE row == ErrorRow(r, id, status, "filter")
  <2>1. row \in ErrorRows /\ row.serial = req[w].serial /\ row.by = "filter"
        /\ row.status = status
    BY <1>1, <1>2 DEF ErrorRow, ErrorRows
  <2> HIDE DEF row
  <2>2. Filtered(r, id, status) = IF DbLog THEN {row} ELSE {}
    BY DEF Filtered, row
  <2>3. all \subseteq ErrorRows /\ \A e \in all : e.serial = req[w].serial
    BY <2>1, <2>2
  <2>4. DbLog => row \in all
    BY <2>2
  <2>5. QED
    BY <2>1, <2>3, <2>4 DEF Telling
<1> HIDE DEF all
<1>7. QED
  BY <1>5, <1>6, AnswerKeeps

LEMMA PassesKeeps ==
  ASSUME Inv, Goals, NEW w \in Workers, req[w].stage \in Handled \union {"sent"},
         NEW c, Fits(req[w], c), c.stage \in Handled \union {"done"}, Passes(w, c), Beside
  PROVE  Inv' /\ Goals'
<1>1. Continues(req[w], c) /\ c.stage # "answered"
  BY DEF Continues, Stages, Handled, Unanswered
<1>2. Moves(w, c)
  BY <1>1 DEF Moves, Passes
<1>3. QED
  BY <1>2, MoveKeeps

LEMMA ThrowsKeeps ==
  ASSUME Inv, Goals, NEW w \in Workers, req[w].stage \in Unanswered,
         NEW r, Fits(req[w], r), NEW status \in {401, 404, 500},
         Throws(w, r, status), Beside
  PROVE  Inv' /\ Goals'
<1>1. r.serial = req[w].serial /\ r.id = req[w].id
  BY DEF Fits, Same
<1>2. r.serial \in Serials /\ r.id \in Serials
  BY <1>1 DEF Inv, Requests, Sane, Unanswered, Handled
<1>3. r.id \in 0..MaxSent /\ status \in Statuses \ {0, 200}
  BY <1>2 DEF Serials, Statuses
<1>4. RowOf(r, status) \in SUBSET Rows
  BY <1>2, <1>3 DEF RowOf, Row, Rows
<1>5. /\ Caught(r, status) \in SUBSET ErrorRows
      /\ \A row \in Caught(r, status) : row.serial = req[w].serial
  <2> DEFINE row == ErrorRow(r, r.id, status, "interceptor")
  <2>1. row \in ErrorRows /\ row.serial = req[w].serial
    BY <1>1, <1>2, <1>3 DEF ErrorRow, ErrorRows
  <2> HIDE DEF row
  <2>2. Caught(r, status) \subseteq {row}
    BY DEF Caught, row
  <2>3. QED
    BY <2>1, <2>2
<1>6. Fails(w, r, r.id, status, RowOf(r, status), Caught(r, status))
  BY DEF Throws
<1>7. QED
  BY <1>3, <1>4, <1>5, <1>6, FailsKeeps

LEMMA Rests ==
  ASSUME Inv, UNCHANGED <<jar, astray, sent, browsed, apiLog, tied, lost, walk>>, hits' = hits,
         Written
  PROVE  Beside
BY DEF Inv, TypeOK, Beside

LEMMA NothingWritten ==
  ASSUME Inv, UNCHANGED <<committed, role>>
  PROVE  Written
BY DEF Inv, TypeOK, Written, role

LEMMA EnterKeeps ==
  ASSUME Inv, Goals, NEW w \in Workers, Enter(w)
  PROVE  Inv' /\ Goals'
<1> DEFINE r == WithToken(WithSid(req[w]))
           next == [r EXCEPT !.stage = "admitted", !.served = Serves[r.aim]]
<1>1. Sane(req[w]) /\ req[w].stage = "sent" /\ Written
  BY NothingWritten DEF Inv, Requests, Enter
<1>2. req[w].stage \in Unanswered
      /\ req[w].stage \in Handled \union {"sent"}
  BY <1>1 DEF Unanswered
<1>3. Fits(req[w], r)
  BY <1>1, AdmittedFits
<1>4. next = ServedOn(r, Serves[r.aim])
  BY DEF ServedOn
<1>5. \/ (\E status \in {400, 500} : Fails(w, r, 0, status, {}, {})) /\ hits' = hits
      \/ /\ hits' = IF Counted(r) /\ ~Throttled(r) THEN [hits EXCEPT ![r.aim] = @ + 1]
                                                    ELSE hits
         /\ \/ Fails(w, next, r.id, 429, {}, {})
            \/ Fails(w, next, r.id, 403, {}, {})
            \/ Passes(w, next)
  BY DEF Enter
<1>6. UNCHANGED <<jar, astray, sent, browsed, apiLog, tied, lost, walk>>
  BY DEF Enter
<1> HIDE DEF r
<1>7. Fits(req[w], next) /\ next.stage = "admitted"
  BY <1>3, <1>4, ServedOnFits
<1>8. r.aim \in Aims /\ r.id \in 0..MaxSent
  BY <1>1, <1>3 DEF Fits, Same, Sane, Serials
<1> HIDE DEF next
<1>9. hits' \in [Sampled -> 0..PerMinute]
  <2>1. CASE hits' = hits
    BY <2>1 DEF Inv, TypeOK
  <2>2. CASE hits' = [hits EXCEPT ![r.aim] = @ + 1] /\ Counted(r) /\ ~Throttled(r)
    <3>1. r.aim \in Sampled /\ ~(hits[r.aim] >= PerMinute)
      BY <1>8, <2>2 DEF Counted, Throttled, Aims
    <3>2. hits \in [Sampled -> 0..PerMinute] /\ PerMinute \in Nat
      BY PipelineAssumption DEF Inv, TypeOK
    <3>3. hits[r.aim] + 1 \in 0..PerMinute
      BY <3>1, <3>2
    <3>4. QED
      BY <2>2, <3>2, <3>3
  <2>3. QED
    BY <1>5, <2>1, <2>2
<1>10. Beside
  BY <1>1, <1>6, <1>9 DEF Beside
<1>11. /\ {400, 403, 429, 500} \subseteq Statuses \ {0, 200} /\ 0 \in 0..MaxSent
       /\ {} \in SUBSET Rows /\ {} \in SUBSET ErrorRows
  BY PipelineAssumption DEF Statuses
<1>12. ASSUME NEW status \in {400, 500}, Fails(w, r, 0, status, {}, {})
       PROVE  Inv' /\ Goals'
  BY <1>2, <1>3, <1>10, <1>11, <1>12, FailsKeeps
<1>13. CASE Fails(w, next, r.id, 429, {}, {})
  BY <1>1, <1>2, <1>7, <1>8, <1>10, <1>11, <1>13, FailsKeeps
<1>14. CASE Fails(w, next, r.id, 403, {}, {})
  BY <1>1, <1>2, <1>7, <1>8, <1>10, <1>11, <1>14, FailsKeeps
<1>15. CASE Passes(w, next)
  <2>1. next.stage \in Handled \union {"done"}
    BY <1>7 DEF Handled
  <2>2. QED
    BY <1>1, <1>2, <1>7, <1>10, <1>15, <2>1, PassesKeeps
<1>16. QED
  BY <1>5, <1>12, <1>13, <1>14, <1>15

LEMMA AuthorizeKeeps ==
  ASSUME Inv, Goals, NEW w \in Workers, Authorize(w)
  PROVE  Inv' /\ Goals'
<1> DEFINE stage == IF req[w].aim = Walked THEN "reading"
                    ELSE IF Verb(req[w]) = "GET" THEN "done" ELSE "finding"
           next == [req[w] EXCEPT !.stage = stage]
<1>1. Sane(req[w]) /\ req[w].stage = "admitted" /\ req[w].serial \in Serials
  BY DEF Inv, Requests, Sane, Authorize
<1>2. req[w].stage \in Unanswered /\ req[w].stage \in Handled \union {"sent"}
  BY <1>1 DEF Unanswered, Handled
<1>3. Beside
  <2>1. committed' \in {committed, committed \union {req[w].serial}} /\ UNCHANGED role
    BY DEF Authorize
  <2>2. Written
    BY <1>1, <2>1 DEF Inv, TypeOK, Written, role
  <2>3. QED
    BY <2>2, Rests DEF Authorize
<1>7. PICK status \in GuardStatuses(req[w]) :
        IF status = 0 THEN Passes(w, next)
                      ELSE Fails(w, req[w], req[w].id, status, {}, {})
  BY DEF Authorize
<1>8. status \in {0, 401, 403}
  BY DEF GuardStatuses
<1>4. CASE status = 0
  <2>1. Passes(w, next)
    BY <1>4, <1>7
  <2>2. next = Staged(req[w], stage)
    BY DEF Staged
  <2>3. stage \in Handled \union {"done"}
    BY DEF Handled
  <2> HIDE DEF stage
  <2>4. Fits(req[w], next) /\ next.stage = stage
    BY <1>1, <2>2, StagedFits
  <2> HIDE DEF next
  <2>5. QED
    BY <1>1, <1>2, <1>3, <2>1, <2>3, <2>4, PassesKeeps
<1>5. CASE status # 0
  <2>1. Fails(w, req[w], req[w].id, status, {}, {})
    BY <1>5, <1>7
  <2>2. status \in Statuses \ {0, 200}
    BY <1>5, <1>8 DEF Statuses
  <2>3. req[w].id \in 0..MaxSent /\ {} \in SUBSET Rows /\ {} \in SUBSET ErrorRows
    BY <1>1 DEF Sane, Serials
  <2>4. Fits(req[w], req[w])
    BY <1>1, SaneFits
  <2>5. QED
    BY <1>1, <1>2, <1>3, <2>1, <2>2, <2>3, <2>4, FailsKeeps
<1>6. QED
  BY <1>4, <1>5

\* The ways an attempt of the first read ends.
RoleMissed(r) == gone /\ (Amends(r.served) \/ Deletes(r.served))
Failed(w, f) == Throws(w, Called(req[w], f), 500) \/ Passes(w, Called(req[w], f))
LEMMA FindEnds ==
  ASSUME NEW w, Find(w), NEW a, a = Attempt(req[w].call)
  PROVE  \/ a.state = "timedOut" /\ Throws(w, Called(req[w], a), 500)
         \/ /\ a.state # "timedOut"
            /\ \E d \in Slow : \E late \in Slow : Failed(w, AfterFailure(a, d, late))
         \/ RoleMissed(req[w]) /\ Throws(w, Called(req[w], NewCall), 404)
         \/ ~RoleMissed(req[w]) /\ Passes(w, CalledOn(req[w], NewCall, "writing"))
<1>1. CASE a.state = "timedOut"
  BY <1>1 DEF Find, Called
<1>2. CASE a.state # "timedOut"
  <2>1. PICK d \in Slow :
          \/ \E late \in Slow : LET f == AfterFailure(a, d, late) IN
               IF f.state = "thrown" THEN Throws(w, [req[w] EXCEPT !.call = f], 500)
                                     ELSE Passes(w, [req[w] EXCEPT !.call = f])
          \/ IF gone /\ (Amends(req[w].served) \/ Deletes(req[w].served))
               THEN Throws(w, [req[w] EXCEPT !.call = NewCall], 404)
               ELSE Passes(w, [req[w] EXCEPT !.call = NewCall, !.stage = "writing"])
    BY <1>2, Zenon DEF Find
  <2>2. CASE \E late \in Slow : LET f == AfterFailure(a, d, late) IN
               IF f.state = "thrown" THEN Throws(w, [req[w] EXCEPT !.call = f], 500)
                                     ELSE Passes(w, [req[w] EXCEPT !.call = f])
    <3>1. \E late \in Slow : Failed(w, AfterFailure(a, d, late))
      BY <2>2, Zenon DEF Failed, Called
    <3>2. QED
      BY <1>2, <3>1
  <2>3. QED
    BY <2>1, <2>2, Zenon DEF RoleMissed, Called, CalledOn
<1>3. QED
  BY <1>1, <1>2

LEMMA FindKeeps ==
  ASSUME Inv, Goals, NEW w \in Workers, Find(w)
  PROVE  Inv' /\ Goals'
<1>1. Sane(req[w]) /\ req[w].stage = "finding" /\ Written
  BY NothingWritten DEF Inv, Requests, Find
<1>2. req[w].stage \in Unanswered
      /\ req[w].stage \in Handled \union {"sent"}
      /\ req[w].stage \in Handled \union {"done"}
  BY <1>1 DEF Unanswered, Handled
<1>3. Beside
  BY <1>1, Rests DEF Find
<1>4. \/ \E c : \/ \E status \in {404, 500} : Throws(w, Called(req[w], c), status)
               \/ Passes(w, Called(req[w], c))
      \/ Passes(w, CalledOn(req[w], NewCall, "writing"))
  <2> DEFINE a == Attempt(req[w].call)
  <2>1. \/ Throws(w, Called(req[w], a), 500)
        \/ \E d \in Slow : \E late \in Slow : Failed(w, AfterFailure(a, d, late))
        \/ Throws(w, Called(req[w], NewCall), 404)
        \/ Passes(w, CalledOn(req[w], NewCall, "writing"))
    BY FindEnds
  <2> HIDE DEF a
  <2>2. QED
    BY <2>1 DEF Failed
<1>5. ASSUME NEW c, NEW status \in {404, 500}, Throws(w, Called(req[w], c), status)
      PROVE  Inv' /\ Goals'
  <2>1. Fits(req[w], Called(req[w], c))
    BY <1>1, CalledFits
  <2>2. QED
    BY <1>1, <1>2, <1>3, <1>5, <2>1, ThrowsKeeps
<1>6. ASSUME NEW c, Passes(w, Called(req[w], c))
      PROVE  Inv' /\ Goals'
  <2>1. Fits(req[w], Called(req[w], c)) /\ Called(req[w], c).stage = req[w].stage
    BY <1>1, CalledFits
  <2>2. QED
    BY <1>1, <1>2, <1>3, <1>6, <2>1, PassesKeeps
<1>7. CASE Passes(w, CalledOn(req[w], NewCall, "writing"))
  <2> DEFINE c == CalledOn(req[w], NewCall, "writing")
  <2>1. Fits(req[w], c) /\ c.stage = "writing"
    BY <1>1, CalledOnFits
  <2>2. c.stage \in Handled \union {"done"}
    BY <2>1 DEF Handled
  <2> HIDE DEF c
  <2>3. Passes(w, c)
    BY <1>7 DEF c
  <2>4. QED
    BY <1>1, <1>2, <1>3, <2>1, <2>2, <2>3, PassesKeeps
<1>8. QED
  BY <1>4, <1>5, <1>6, <1>7

LEMMA CommitWritten ==
  ASSUME Inv, NEW w \in Workers, req[w].stage = "writing",
         Commits(req[w]) \/ UNCHANGED <<committed, role>>
  PROVE  Written
<1>1. req[w].serial \in Serials
  BY DEF Inv, Requests, Sane
<1>2. Amending \subseteq Serials
  <2>1. \A v \in Workers : req[v].stage \in {"writing", "rereading"} => req[v].serial \in Serials
    BY DEF Inv, Requests, Sane
  <2>2. QED
    BY <2>1 DEF Amending
<1>3. CASE Commits(req[w])
  <2>1. committed' = committed \union {req[w].serial}
        /\ \/ gone' = TRUE /\ undercut' = undercut \union Amending
           \/ gone' = gone /\ undercut' = undercut
    BY <1>3 DEF Commits, role
  <2>2. QED
    BY <1>1, <1>2, <2>1 DEF Inv, TypeOK, Written
<1>4. QED
  BY <1>3, NothingWritten

LEMMA WriteKeeps ==
  ASSUME Inv, Goals, NEW w \in Workers, Write(w)
  PROVE  Inv' /\ Goals'
<1> DEFINE stage == IF Amends(req[w].served) THEN "rereading" ELSE "done"
           next == [req[w] EXCEPT !.stage = stage]
<1>1. Sane(req[w]) /\ req[w].stage = "writing"
  BY DEF Inv, Requests, Write
<1>2. req[w].stage \in Unanswered /\ req[w].stage \in Handled \union {"sent"}
  BY <1>1 DEF Unanswered, Handled
<1>3. Beside
  <2>1. Commits(req[w]) \/ UNCHANGED <<committed, role>>
    BY DEF Write
  <2>2. Written
    BY <1>1, <2>1, CommitWritten
  <2>3. QED
    BY <2>2, Rests DEF Write
<1>4. Fits(req[w], req[w])
  BY <1>1, SaneFits
<1>5. ASSUME NEW status \in {401, 404, 500}, Throws(w, req[w], status)
      PROVE  Inv' /\ Goals'
  BY <1>2, <1>3, <1>4, <1>5, ThrowsKeeps
<1>6. CASE Passes(w, next)
  <2>1. next = Staged(req[w], stage) /\ stage \in Handled \union {"done"}
    BY DEF Staged, Handled
  <2> HIDE DEF stage
  <2>2. Fits(req[w], next) /\ next.stage = stage
    BY <1>1, <2>1, StagedFits
  <2> HIDE DEF next
  <2>3. QED
    BY <1>2, <1>3, <1>6, <2>1, <2>2, PassesKeeps
<1>7. (\E status \in {401, 404, 500} : Throws(w, req[w], status)) \/ Passes(w, next)
  BY DEF Write, Errors
<1>8. QED
  BY <1>5, <1>6, <1>7

LEMMA RereadKeeps ==
  ASSUME Inv, Goals, NEW w \in Workers, Reread(w)
  PROVE  Inv' /\ Goals'
<1> DEFINE next == [req[w] EXCEPT !.stage = "done"]
<1>1. Sane(req[w]) /\ req[w].stage = "rereading" /\ Written
  BY NothingWritten DEF Inv, Requests, Reread
<1>2. req[w].stage \in Unanswered /\ req[w].stage \in Handled \union {"sent"}
  BY <1>1 DEF Unanswered, Handled
<1>3. Beside
  BY <1>1, Rests DEF Reread
<1>4. Fits(req[w], req[w])
  BY <1>1, SaneFits
<1>5. ASSUME NEW status \in {401, 404, 500}, Throws(w, req[w], status)
      PROVE  Inv' /\ Goals'
  BY <1>2, <1>3, <1>4, <1>5, ThrowsKeeps
<1>6. CASE Passes(w, next)
  <2>1. next = Staged(req[w], "done")
    BY DEF Staged
  <2>2. Fits(req[w], next) /\ next.stage = "done"
    BY <1>1, <2>1, StagedFits
  <2> HIDE DEF next
  <2>3. QED
    BY <1>2, <1>3, <1>6, <2>2, PassesKeeps
<1>7. QED
  BY <1>5, <1>6 DEF Reread

LEMMA FindRowsKeeps ==
  ASSUME Inv, Goals, NEW w \in Workers, FindRows(w)
  PROVE  Inv' /\ Goals'
<1>1. /\ Sane(req[w]) /\ Written
      /\ req[w].stage \in Handled \union {"sent"}
  BY NothingWritten DEF Inv, Requests, FindRows, Handled
<1>2. Beside
  BY <1>1, Rests DEF FindRows
<1> DEFINE stage == IF req[w].stage = "counted" THEN "done" ELSE "found"
           page(S) == {apiLog[n].serial : n \in S}
<1>3. PICK S \in OnPage(walk.page) : Passes(w, Paged(req[w], page(S), stage))
  BY DEF FindRows, Paged
<1>4. page(S) \subseteq Serials
  <2>1. \A n \in DOMAIN apiLog : apiLog[n] \in Rows
    BY DEF Inv, TypeOK
  <2>2. \A n \in DOMAIN apiLog : apiLog[n].serial \in Serials
    BY <2>1 DEF Rows
  <2>3. S \subseteq DOMAIN apiLog
    BY DEF OnPage
  <2>4. QED
    BY <2>2, <2>3
<1>5. stage \in Handled \union {"done"}
  BY DEF Handled
<1> DEFINE rows == page(S)
           next == Paged(req[w], rows, stage)
<1> HIDE DEF stage, page, rows
<1>6. Fits(req[w], next) /\ next.stage = stage
  BY <1>1, <1>4, PagedFits DEF rows
<1>8. Passes(w, next)
  BY <1>3 DEF rows
<1> HIDE DEF next
<1>7. QED
  BY <1>1, <1>2, <1>5, <1>6, <1>8, PassesKeeps

LEMMA CountRowsKeeps ==
  ASSUME Inv, Goals, NEW w \in Workers, CountRows(w)
  PROVE  Inv' /\ Goals'
<1> DEFINE stage == IF req[w].stage = "found" THEN "done" ELSE "counted"
           next == Totalled(req[w], Len(apiLog), stage)
<1>1. /\ Sane(req[w]) /\ Written
      /\ req[w].stage \in Handled \union {"sent"}
  BY NothingWritten DEF Inv, Requests, CountRows, Handled
<1>2. Beside
  BY <1>1, Rests DEF CountRows
<1>3. Passes(w, next)
  BY DEF CountRows, Totalled
<1>4. stage \in Handled \union {"done"}
  BY DEF Handled
<1> HIDE DEF stage
<1>5. Fits(req[w], next) /\ next.stage = stage
  BY <1>1, TotalledFits
<1> HIDE DEF next
<1>6. QED
  BY <1>1, <1>2, <1>3, <1>4, <1>5, PassesKeeps

LEMMA FinishKeeps ==
  ASSUME Inv, Goals, NEW w \in Workers, Finish(w)
  PROVE  Inv' /\ Goals'
<1>1. Sane(req[w]) /\ req[w].stage = "done" /\ Written
  BY NothingWritten DEF Inv, Requests, Finish
<1>2. req[w].stage \in Unanswered
  BY <1>1 DEF Unanswered
<1>3. Beside
  BY <1>1, Rests DEF Finish
<1>4. Fits(req[w], req[w])
  BY <1>1, SaneFits
<1>5. req[w].serial \in Serials /\ req[w].id \in Serials /\ req[w].id \in 0..MaxSent
  BY <1>1 DEF Sane, Serials
<1>6. RowOf(req[w], 200) \in SUBSET Rows
  BY <1>5 DEF RowOf, Row, Rows, Statuses
<1>7. CASE Succeeds(w, req[w])
  <2> DEFINE c == AnsweredWith(req[w], 200)
  <2>1. Continues(req[w], c) /\ c.stage = "answered"
    BY <1>4, AnsweredWithContinues
  <2>2. c = [req[w] EXCEPT !.stage = "answered", !.status = 200]
    BY DEF AnsweredWith
  <2> HIDE DEF c
  <2>3. Answers(w, c, 200, RowOf(req[w], 200), {})
    BY <1>7, <2>1, <2>2 DEF Answers, Succeeds
  <2>4. Telling(w, 200, {}) /\ 200 \in Statuses \ {0}
    BY DEF Telling, Statuses
  <2>5. QED
    BY <1>1, <1>2, <1>3, <1>6, <2>3, <2>4, AnswerKeeps
<1>8. CASE Throws(w, req[w], 500)
  BY <1>1, <1>2, <1>3, <1>4, <1>8, ThrowsKeeps
<1>9. CASE Fails(w, req[w], req[w].id, 500, RowOf(req[w], 200), {})
  <2>1. 500 \in Statuses \ {0, 200} /\ {} \in SUBSET ErrorRows
    BY DEF Statuses
  <2>2. QED
    BY <1>1, <1>2, <1>3, <1>4, <1>5, <1>6, <1>9, <2>1, FailsKeeps
<1>10. QED
  BY <1>7, <1>8, <1>9 DEF Finish

-----------------------------------------------------------------------------
(* The clients, and the rows of the log.                                   *)
LEMMA FreeSane == Sane(Free) /\ Free.stage = "free" /\ Free.setSid = 0 /\ Free.setToken = {}
<1>1. Shaped(Free)
  BY DEF Free, Shaped, Fields
<1>2. /\ Free.stage = "free" /\ Free.sid = 0 /\ Free.token = {} /\ Free.setSid = 0
      /\ Free.setToken = {} /\ Free.rows = {}
  BY DEF Free
<1>3. 0 \in 0..MaxSent /\ {} \in Tokens
  BY PipelineAssumption DEF Tokens
<1>4. QED
  BY <1>1, <1>2, <1>3 DEF Sane, Stages

\* A request that Browse or Walk sends.
Sendable(r) ==
  /\ Sane(r) /\ r.id \in Serials /\ r.aim \in Aims
  /\ r.setSid = 0 /\ r.setToken = {}

LEMMA SendKeeps ==
  ASSUME Inv, Goals, NEW w \in Workers, NEW r, Sendable(r), Send(w, r),
         jar' = jar, astray' = astray, browsed' \in Nat,
         walk' \in Walks
  PROVE  Inv' /\ Goals'
<1> DEFINE c == SentAs(r, sent + 1)
<1>1. req[w].stage = "free" /\ sent < MaxSent /\ sent' = sent + 1
  BY DEF Send
<1>2. sent \in Nat /\ MaxSent \in Nat /\ sent' \in Serials /\ sent < sent'
  BY <1>1, PipelineAssumption DEF Inv, TypeOK, Serials
<1>3. req' = [req EXCEPT ![w] = c]
  BY DEF Send, SentAs
<1>4. /\ Shaped(c) /\ c.stage = "sent" /\ c.serial = sent' /\ c.aim = r.aim /\ c.id = r.id
      /\ c.sid = r.sid /\ c.token = r.token /\ c.setSid = r.setSid
      /\ c.setToken = r.setToken /\ c.rows = r.rows
  <2>1. Shaped(r)
    BY DEF Sendable, Sane
  <2>2. QED
    BY <1>1, <2>1, SentAsKept
<1> HIDE DEF c
<1>5. Sane(c)
  BY <1>2, <1>4 DEF Sane, Sendable, Stages, Unanswered
<1>6. /\ DOMAIN req' = Workers /\ req' = [v \in Workers |-> req'[v]]
      /\ \A v \in Workers : req'[v] = IF v = w THEN c ELSE req[v]
  BY <1>3 DEF Inv, Requests
<1>7. \A v \in Workers \ {w} : req[v].stage # "free" =>
        req[v].serial \in Serials /\ req[v].serial <= sent /\ req[v].serial # sent'
  BY <1>2 DEF Inv, Requests, Sane, Serials
<1>8. Requests'
  <2>1. \A v \in Workers : Sane(req'[v])
    BY <1>5, <1>6 DEF Inv, Requests
  <2>2. \A v \in Workers : req'[v].stage # "free" => req'[v].serial <= sent'
    <3>1. \A v \in Workers \ {w} : req[v].stage # "free" => req[v].serial <= sent'
      BY <1>1, <1>2, <1>7 DEF Serials
    <3>2. sent' <= sent'
      BY <1>1, <1>2
    <3>3. QED
      BY <1>4, <1>6, <3>1, <3>2
  <2>3. \A u, v \in Workers :
          req'[u].stage # "free" /\ req'[v].stage # "free" /\ req'[u].serial = req'[v].serial
            => u = v
    BY <1>4, <1>6, <1>7 DEF Inv, Requests
  <2>4. QED
    BY <1>6, <2>1, <2>2, <2>3 DEF Requests
<1>9. TypeOK'
  BY <1>2 DEF Inv, TypeOK, Send, role
<1>10. UNCHANGED <<answered, errorLog>>
  BY DEF Send
<1>11. NoAnswer(sent')
  BY <1>2 DEF Inv, Pending
<1>12. \A v \in Workers : req'[v].stage \in Unanswered =>
         Silent(answered', errorLog', req'[v].serial)
  BY <1>4, <1>6, <1>10, <1>11 DEF Inv, Pending, NoAnswer
<1>14. \A s \in Serials : s > sent' => Silent(answered', errorLog', s)
  <2>1. \A s \in Serials : s > sent' => s > sent
    BY <1>1, <1>2 DEF Serials
  <2>2. QED
    BY <1>10, <2>1 DEF Inv, Pending, NoAnswer
<1>15. Goals'
  BY <1>10 DEF Goals, AstrayHasCause, FailureRecorded, RowsOf
<1>16. QED
  BY <1>8, <1>9, <1>12, <1>14, <1>15 DEF Inv, Pending, NoAnswer

LEMMA NextSerial ==
  ASSUME Inv, sent < MaxSent
  PROVE  sent + 1 \in Serials /\ sent \in Serials
BY PipelineAssumption DEF Inv, TypeOK, Serials

LEMMA BrowseKeeps ==
  ASSUME Inv, Goals, NEW w \in Workers, NEW n \in Sampled, NEW caller, NEW repeats,
         Browse(w, n, caller, repeats)
  PROVE  Inv' /\ Goals'
<1>1. PICK id \in {sent + 1} \union {s \in {sent} : repeats} :
        Send(w, [Free EXCEPT !.aim = n, !.caller = caller, !.id = id,
                             !.sid = jar.sid, !.token = jar.token])
  BY DEF Browse
<1> DEFINE r == [Free EXCEPT !.aim = n, !.caller = caller, !.id = id,
                             !.sid = jar.sid, !.token = jar.token]
<1>2. id \in Serials
  BY <1>1, NextSerial DEF Send
<1>3. Shaped(r)
  BY FreeSane DEF Sane, Shaped
<1>4. /\ r.stage = "free" /\ r.aim = n /\ r.id = id /\ r.sid = jar.sid
      /\ r.token = jar.token /\ r.setSid = 0 /\ r.setToken = {} /\ r.rows = {}
  BY DEF Free
<1>5. Send(w, r)
  BY <1>1
<1> HIDE DEF r
<1>6. jar.sid \in 0..MaxSent /\ jar.token \in Tokens /\ 0 \in 0..MaxSent
  BY PipelineAssumption DEF Inv, TypeOK, Jars, Tokens
<1>7. Sendable(r)
  BY <1>2, <1>3, <1>4, <1>6 DEF Sendable, Sane, Stages, Aims
<1>8. jar' = jar /\ astray' = astray /\ browsed' \in Nat /\ walk' = walk
  BY DEF Browse, Inv, TypeOK
<1>9. walk' \in Walks
  BY <1>8 DEF Inv, TypeOK
<1>10. QED
  BY <1>5, <1>7, <1>8, <1>9, SendKeeps

LEMMA WalkKeeps ==
  ASSUME Inv, Goals, NEW w \in Workers, Walk(w)
  PROVE  Inv' /\ Goals'
<1> DEFINE r == [Free EXCEPT !.aim = Walked, !.caller = "admin", !.id = sent + 1]
<1>1. Send(w, r)
  BY DEF Walk
<1>2. sent + 1 \in Serials
  BY <1>1, NextSerial DEF Send
<1>3. Shaped(r)
  BY FreeSane DEF Sane, Shaped
<1>4. /\ r.stage = "free" /\ r.aim = Walked /\ r.id = sent + 1 /\ r.sid = 0
      /\ r.token = {} /\ r.setSid = 0 /\ r.setToken = {} /\ r.rows = {}
  BY DEF Free
<1> HIDE DEF r
<1>5. {} \in Tokens /\ 0 \in 0..MaxSent
  BY PipelineAssumption DEF Tokens
<1>6. Sendable(r)
  BY <1>2, <1>3, <1>4, <1>5 DEF Sendable, Sane, Stages, Aims
<1>7. Len(apiLog) \in Nat
  BY DEF Inv, TypeOK
<1>8. walk' = [walk EXCEPT !.state = "waiting",
                           !.there = IF walk.state = "idle" THEN Len(apiLog) ELSE @]
  BY DEF Walk
<1>9. walk' \in Walks
  BY <1>7, <1>8 DEF Inv, TypeOK, Walks
<1>10. jar' = jar /\ astray' = astray /\ browsed' \in Nat
  BY DEF Walk, Inv, TypeOK
<1>11. QED
  BY <1>1, <1>6, <1>9, <1>10, SendKeeps

\* What leaves requests, answers, writes and the error log alone.
LEMMA AsideKeeps ==
  ASSUME Inv, Goals, UNCHANGED <<req, sent, answered, errorLog>>
  PROVE  Requests' /\ Pending' /\ FailureRecorded'
<1>1. Requests'
  BY DEF Inv, Requests
<1>2. Pending'
  BY DEF Inv, Pending, NoAnswer
<1>3. QED
  BY <1>1, <1>2 DEF Goals, FailureRecorded, RowsOf

LEMMA RestartKeeps ==
  ASSUME Inv, Goals, Restart
  PROVE  Inv' /\ Goals'
<1>1. Requests' /\ Pending' /\ FailureRecorded'
  BY AsideKeeps DEF Restart
<1>2. jar' = [sid |-> 0, token |-> IF TokenSurvives THEN jar.token ELSE {}]
      /\ astray' = (IF jar'.token = {} THEN {} ELSE astray \union {"restart"})
  BY DEF Restart
<1>3. jar' \in Jars
  BY <1>2, PipelineAssumption DEF Inv, TypeOK, Jars
<1>4. TypeOK'
  BY <1>3 DEF Inv, TypeOK, Restart, role
<1>5. AstrayHasCause'
  BY <1>2 DEF AstrayHasCause
<1>6. QED
  BY <1>1, <1>4, <1>5 DEF Inv, Goals

LEMMA TokenExpiresKeeps ==
  ASSUME Inv, Goals, TokenExpires
  PROVE  Inv' /\ Goals'
<1>1. Requests' /\ Pending' /\ FailureRecorded'
  BY AsideKeeps DEF TokenExpires
<1>2. jar' = [jar EXCEPT !.token = {}]
  BY DEF TokenExpires
<1>3. jar' \in Jars
      /\ jar'.token = {}
  BY <1>2 DEF Inv, TypeOK, Jars
<1>4. TypeOK'
  BY <1>3 DEF Inv, TypeOK, TokenExpires, role
<1>5. AstrayHasCause'
  BY <1>3 DEF AstrayHasCause
<1>6. QED
  BY <1>1, <1>4, <1>5 DEF Inv, Goals

LEMMA LoseLogKeeps ==
  ASSUME Inv, Goals, NEW row \in writes, LoseLog(row)
  PROVE  Inv' /\ Goals'
<1>1. Requests' /\ Pending' /\ FailureRecorded'
  BY AsideKeeps DEF LoseLog
<1>2. TypeOK'
  BY DEF Inv, TypeOK, LoseLog, role
<1>3. AstrayHasCause'
  BY DEF Goals, AstrayHasCause, LoseLog
<1>4. QED
  BY <1>1, <1>2, <1>3 DEF Inv, Goals

LEMMA CreateApiLogKeeps ==
  ASSUME Inv, Goals, NEW row \in writes, CreateApiLog(row)
  PROVE  Inv' /\ Goals'
<1>1. Requests' /\ Pending' /\ FailureRecorded'
  BY AsideKeeps DEF CreateApiLog
<1>2. row \in Rows
  BY DEF Inv, TypeOK
<1>3. writes' \union lost' \subseteq Rows
  BY <1>2 DEF Inv, TypeOK, CreateApiLog
<1>4. /\ apiLog' \in Seq(Rows) /\ tied' \subseteq 2..Len(apiLog')
      /\ \A m, n \in DOMAIN apiLog' : apiLog'[m].id = apiLog'[n].id => m = n
      /\ walk' \in Walks
  <2>1. CASE Taken(row)
    BY <2>1 DEF Inv, TypeOK, CreateApiLog
  <2>2. CASE ~Taken(row)
    <3> DEFINE slips == \E w \in Workers : req[w].stage = "counted"
    <3>1. /\ apiLog' = Append(apiLog, row)
          /\ walk' = [walk EXCEPT !.slipped = @ \/ slips]
      BY <2>2 DEF CreateApiLog
    <3>2. apiLog \in Seq(Rows)
      BY DEF Inv, TypeOK
    <3>3. apiLog' \in Seq(Rows)
      BY <1>2, <3>1, <3>2
    <3>4. /\ DOMAIN apiLog = 1..Len(apiLog) /\ DOMAIN apiLog' = 1..(Len(apiLog) + 1)
          /\ apiLog'[Len(apiLog) + 1] = row
          /\ \A n \in 1..Len(apiLog) : apiLog'[n] = apiLog[n]
          /\ Len(apiLog) \in Nat
      BY <1>2, <3>1, <3>2
    <3>5. \A n \in 1..Len(apiLog) : apiLog[n].id # row.id
      BY <2>2, <3>4 DEF Taken
    <3>6. \A m, n \in 1..Len(apiLog) : apiLog[m].id = apiLog[n].id => m = n
      BY <3>4 DEF Inv, TypeOK
    <3>7. \A m, n \in DOMAIN apiLog' : apiLog'[m].id = apiLog'[n].id => m = n
      BY <3>4, <3>5, <3>6
    <3>8. (walk.slipped \/ slips) \in BOOLEAN
      OBVIOUS
    <3> HIDE DEF slips
    <3>9. walk' \in Walks
      BY <3>1, <3>8 DEF Inv, TypeOK, Walks
    <3>11. tied' \subseteq 2..Len(apiLog')
      <4>1. Len(apiLog') = Len(apiLog) + 1 /\ tied \subseteq 2..Len(apiLog)
        BY <3>1, <3>2 DEF Inv, TypeOK
      <4>2. tied' \subseteq tied \union {Len(apiLog) + 1 : n \in 1..Len(apiLog)}
        BY <2>2, <3>4 DEF CreateApiLog
      <4>3. {Len(apiLog) + 1 : n \in 1..Len(apiLog)} \subseteq 2..(Len(apiLog) + 1)
        BY <3>4
      <4>4. QED
        BY <3>4, <4>1, <4>2, <4>3
    <3>10. QED
      BY <3>3, <3>7, <3>9, <3>11
  <2>3. QED
    BY <2>1, <2>2
<1>5. TypeOK'
  BY <1>3, <1>4 DEF Inv, TypeOK, CreateApiLog, role
<1>6. AstrayHasCause'
  BY DEF Goals, AstrayHasCause, CreateApiLog
<1>7. QED
  BY <1>1, <1>5, <1>6 DEF Inv, Goals

LEMMA CookiesKeep ==
  ASSUME Inv, Goals, NEW r, Sane(r), Cookies(r)
  PROVE  /\ jar' \in Jars
         /\ AstrayHasCause'
<1> DEFINE sid == IF r.setSid = 0 THEN jar.sid ELSE r.setSid
           token == IF r.setToken = {} THEN jar.token ELSE r.setToken
<1>1. jar' = [sid |-> sid, token |-> token]
      /\ astray' = (IF token \in {{}, {sid}} THEN {}
                   ELSE astray
                     \union (IF r.setToken = {0} THEN {"firstContact"} ELSE {})
                     \union (IF r.setSid # 0 /\ r.sid = 0 THEN {"overtaken"} ELSE {})
                     \union (IF r.setToken # {} /\ r.sid # jar.sid THEN {"overtaken"} ELSE {}))
  BY DEF Cookies
<1>2. jar.sid \in 0..MaxSent /\ jar.token \in Tokens
  BY DEF Inv, TypeOK, Jars, Tokens
<1>3. r.setSid \in 0..MaxSent /\ r.sid \in 0..MaxSent /\ r.setToken \in {{}, {r.sid}}
      /\ (r.setSid # 0 => r.sid = 0)
  BY DEF Sane
<1>4. r.setToken \in Tokens
  BY <1>3 DEF Tokens
<1>5. sid \in 0..MaxSent /\ token \in Tokens
  BY <1>2, <1>3, <1>4
<1>6. ASSUME token \notin {{}, {sid}}, astray = {}
      PROVE  \/ r.setToken = {0}
             \/ r.setSid # 0 /\ r.sid = 0
             \/ r.setToken # {} /\ r.sid # jar.sid
  <2>1. jar.token \in {{}, {jar.sid}}
    BY <1>6 DEF Goals, AstrayHasCause
  <2>2. CASE r.setToken = {}
    BY <1>3, <1>6, <2>1, <2>2
  <2>3. CASE r.setToken = {r.sid}
    BY <1>3, <1>6, <2>3
  <2>4. QED
    BY <1>3, <2>2, <2>3
<1> HIDE DEF sid, token
<1>7. jar'.sid = sid /\ jar'.token = token
      /\ jar' \in Jars
  BY <1>1, <1>5 DEF Jars, Tokens
<1>8. token \notin {{}, {sid}} => astray' # {}
  BY <1>1, <1>6
<1>9. QED
  BY <1>7, <1>8 DEF AstrayHasCause

LEMMA DeliverKeeps ==
  ASSUME Inv, Goals, NEW w \in Workers, Deliver(w)
  PROVE  Inv' /\ Goals'
<1>1. /\ req' = [req EXCEPT ![w] = Free] /\ Sane(req[w]) /\ req[w].stage = "answered"
      /\ UNCHANGED <<hits, sent, browsed, answered, committed, gone, undercut, apiLog, tied>>
      /\ UNCHANGED <<errorLog, writes, lost>>
  BY DEF Deliver, Inv, Requests, role
<1>2. /\ DOMAIN req' = Workers /\ req' = [v \in Workers |-> req'[v]]
      /\ \A v \in Workers : req'[v] = IF v = w THEN Free ELSE req[v]
  BY <1>1 DEF Inv, Requests
<1>3. Requests'
  BY <1>1, <1>2, FreeSane DEF Inv, Requests
<1>4. \A v \in Workers : req'[v].stage \in Unanswered =>
         Silent(answered', errorLog', req'[v].serial)
  BY <1>1, <1>2, FreeSane DEF Inv, Pending, NoAnswer, Unanswered, Handled
<1>6. \A s \in Serials : s > sent' => Silent(answered', errorLog', s)
  BY <1>1 DEF Inv, Pending, NoAnswer
<1>7. Pending'
  BY <1>4, <1>6 DEF Pending, NoAnswer
<1>8. jar' \in Jars
      /\ AstrayHasCause'
  <2>1. CASE req[w].aim = Walked
    BY <2>1 DEF Deliver, Inv, TypeOK, Goals, AstrayHasCause
  <2>2. CASE req[w].aim # Walked
    <3>1. Cookies(req[w])
      BY <2>2 DEF Deliver
    <3>2. QED
      BY <1>1, <3>1, CookiesKeep
  <2>3. QED
    BY <2>1, <2>2
<1>9. walk' \in Walks
  <2>1. walk \in Walks
    BY DEF Inv, TypeOK
  <2>2. CASE walk' = walk \/ walk' = [walk EXCEPT !.state = "failed"]
    BY <2>1, <2>2 DEF Walks
  <2>3. CASE walk' = Turned(req[w])
    <3> DEFINE more == walk.page * PageSize < req[w].total
               rows == req[w].rows
    <3>1. rows \subseteq Serials
      BY <1>1 DEF Sane
    <3>2. walk' = [walk EXCEPT !.seen = @ \union rows,
                               !.page = IF more THEN @ + 1 ELSE @,
                               !.state = IF more THEN "turning" ELSE "over"]
      BY <2>3 DEF Turned
    <3> HIDE DEF more, rows
    <3>3. CASE more
      <4>1. walk' = [walk EXCEPT !.seen = @ \union rows, !.page = @ + 1, !.state = "turning"]
        BY <3>2, <3>3
      <4>2. walk.page + 1 \in Nat /\ walk.seen \union rows \in SUBSET Serials
        BY <2>1, <3>1 DEF Walks
      <4>3. walk' = [state |-> "turning", page |-> walk.page + 1, seen |-> walk.seen \union rows,
                     there |-> walk.there, slipped |-> walk.slipped]
        BY <2>1, <4>1 DEF Walks
      <4>4. QED
        BY <2>1, <4>2, <4>3 DEF Walks
    <3>4. CASE ~more
      <4>1. walk' = [walk EXCEPT !.seen = @ \union rows, !.page = @, !.state = "over"]
        BY <3>2, <3>4
      <4>2. QED
        BY <2>1, <3>1, <4>1 DEF Walks
    <3>5. QED
      BY <3>3, <3>4
  <2>4. QED
    BY <2>2, <2>3 DEF Deliver
<1>10. TypeOK'
  BY <1>1, <1>8, <1>9 DEF Inv, TypeOK
<1>11. FailureRecorded'
  BY <1>1 DEF Goals, FailureRecorded, RowsOf
<1>12. QED
  BY <1>3, <1>7, <1>8, <1>10, <1>11 DEF Inv, Goals

-----------------------------------------------------------------------------
LEMMA InitInv == Init => Inv /\ Goals
<1> SUFFICES ASSUME Init PROVE Inv /\ Goals
  OBVIOUS
<1>1. OldRows \in Serials /\ OldRows \in Nat /\ 0 \in 0..MaxSent /\ 1 \in 0..MaxSent
  BY PipelineAssumption DEF Serials
<1>2. answered \in [Serials -> [status : Statuses, aim : Sampled \union {Walked}]]
  BY DEF Init, Statuses
<1>3. \A n \in 1..OldRows : OldRow(n) \in Rows /\ OldRow(n).id = n
  BY <1>1, PipelineAssumption DEF OldRow, Rows, Serials, Statuses
<1>4. apiLog \in Seq(Rows) /\ \A m, n \in DOMAIN apiLog : apiLog[m].id = apiLog[n].id => m = n
  <2>1. apiLog = [n \in 1..OldRows |-> OldRow(n)]
    BY DEF Init
  <2>2. DOMAIN apiLog = 1..OldRows /\ \A n \in 1..OldRows : apiLog[n] = OldRow(n)
    BY <2>1
  <2>3. \A n \in 1..OldRows : apiLog[n] \in Rows /\ apiLog[n].id = n
    BY <1>3, <2>2
  <2>4. apiLog \in [1..OldRows -> Rows]
    BY <2>1, <2>2, <2>3
  <2>5. apiLog \in Seq(Rows)
    BY <1>1, <2>4
  <2>6. QED
    BY <2>2, <2>3, <2>5
<1>13. tied \subseteq 2..Len(apiLog)
  <2>1. apiLog = [n \in 1..OldRows |-> OldRow(n)] /\ tied \subseteq 2..OldRows
    BY DEF Init
  <2>2. Len(apiLog) = OldRows
    BY <1>1, <2>1
  <2>3. QED
    BY <2>1, <2>2
<1>14. jar \in Jars /\ walk \in Walks /\ hits \in [Sampled -> 0..PerMinute]
  BY <1>1, PipelineAssumption DEF Init, Jars, Walks
<1>5. TypeOK
  BY <1>1, <1>2, <1>4, <1>13, <1>14 DEF Init, TypeOK
<1>6. \A w \in Workers : req[w] = Free
  BY DEF Init
<1>7. Requests
  BY <1>6, FreeSane DEF Init, Requests
<1>8. \A s \in Serials : s > sent => NoAnswer(s)
  BY <1>1 DEF Init, NoAnswer, Silent, Serials
<1>9. Pending
  BY <1>6, <1>8, FreeSane DEF Pending, Unanswered, Handled
<1>10. AstrayHasCause
  BY DEF Init, AstrayHasCause
<1>11. FailureRecorded
  <2>1. \A s \in Serials : answered[s].status \in {0, 200}
    BY DEF Init
  <2>2. errorLog = {}
    BY DEF Init
  <2>3. QED
    BY <2>1, <2>2 DEF FailureRecorded, RowsOf
<1>12. QED
  BY <1>5, <1>7, <1>9, <1>10, <1>11 DEF Inv, Goals

LEMMA NextInv == Inv /\ Goals /\ [Next]_vars => Inv' /\ Goals'
<1> SUFFICES ASSUME Inv, Goals, [Next]_vars PROVE Inv' /\ Goals'
  OBVIOUS
<1>1. ASSUME NEW w \in Workers, Proceed(w) PROVE Inv' /\ Goals'
  BY <1>1, EnterKeeps, AuthorizeKeeps, FindKeeps, WriteKeeps, RereadKeeps, FindRowsKeeps,
     CountRowsKeeps, FinishKeeps, DeliverKeeps DEF Proceed
<1>2. ASSUME NEW w \in Workers, Walk(w) PROVE Inv' /\ Goals'
  BY <1>2, WalkKeeps
<1>3. ASSUME NEW w \in Workers, NEW n \in Sampled, NEW caller \in Asking(n),
             Browse(w, n, caller, TRUE)
      PROVE  Inv' /\ Goals'
  BY <1>3, BrowseKeeps
<1>4. CASE Restart \/ TokenExpires
  BY <1>4, RestartKeeps, TokenExpiresKeeps
<1>5. ASSUME NEW row \in writes, CreateApiLog(row) \/ LoseLog(row) PROVE Inv' /\ Goals'
  BY <1>5, CreateApiLogKeeps, LoseLogKeeps
<1>6. CASE UNCHANGED vars
  <2>1. Requests' /\ Pending' /\ FailureRecorded'
    BY <1>6, AsideKeeps DEF vars
  <2>2. TypeOK' /\ AstrayHasCause'
    BY <1>6 DEF Inv, Goals, TypeOK, AstrayHasCause, vars, role
  <2>3. QED
    BY <2>1, <2>2 DEF Inv, Goals
<1>7. QED
  BY <1>1, <1>2, <1>3, <1>4, <1>5, <1>6 DEF Next

LEMMA Invariant == Spec => [](Inv /\ Goals)
  BY InitInv, NextInv, PTL DEF Spec

(* The types of cookies, counters, answers, rows and the walk.             *)
THEOREM TypeCorrect == Spec => []TypeOK
<1>1. Inv /\ Goals => TypeOK
  BY DEF Inv
<1>2. QED
  BY <1>1, Invariant, PTL

(* main.ts 184-234: whenever the browser's token is not for its sid, one   *)
(* of the three causes has happened.                                       *)
THEOREM AstrayCaused == Spec => []AstrayHasCause
<1>1. Inv /\ Goals => AstrayHasCause
  BY DEF Goals
<1>2. QED
  BY <1>1, Invariant, PTL

(* The exception filter's row is there whenever the client sees an error.  *)
THEOREM FailuresRecorded == Spec => []FailureRecorded
<1>1. Inv /\ Goals => FailureRecorded
  BY DEF Goals
<1>2. QED
  BY <1>1, Invariant, PTL

-----------------------------------------------------------------------------
(* What the writes, the API log, the retries and the walk need besides.    *)
Calls == [state : {"attempt", "timedOut", "thrown"}, tries : Nat, elapsed : Int]
Reading == {"reading", "found", "counted"}

\* A request is served by the route that its aim leads to; only the script
\* reads the log; a call is over in time.
Timely(c) == c \in Calls /\ \E d \in Slow : c.elapsed < Timeout + d
Fine(r) ==
  /\ r.stage \in Handled \union {"done"} => r.served = Serves[r.aim]
  /\ r.stage \in Reading => r.aim = Walked
  /\ r.stage \in {"finding", "writing", "rereading"} => r.aim # Walked
  /\ Timely(r.call)

\* Before its answer a request has written something only if it writes first or
\* rereads what it wrote.  One that amends the role is undercut when the role
\* goes after it was looked up.
Amender(r) == Amends(Serves[r.aim])
Settled ==
  /\ \A w \in Workers :
       /\ req[w].stage \in (Handled \union {"sent"}) \ {"rereading"} =>
            req[w].serial \notin committed \/ WritesFirst(Serves[req[w].aim])
       /\ req[w].stage = "rereading" => Amender(req[w])
       /\ gone /\ req[w].stage \in {"writing", "rereading"} /\ Amender(req[w])
            => req[w].serial \in undercut
  /\ \A s \in Serials : s > sent => s \notin committed
  /\ RefusedChangesNothing

\* What the API log says of an answer; it says nothing before there is one.
TellsOf(rows, answer) ==
  /\ answer.status \in {200, 404} /\ Routes[answer.aim].logged => Cardinality(rows) = 1
  /\ \A row \in rows : row.status \in {answer.status} \union
                          (IF answer.status = 500 THEN {200} ELSE {})
Unlogged(s) == RowsOf(Handed, s) = {}
Told ==
  /\ sent >= OldRows /\ \A w \in Workers : req[w].stage # "free" => req[w].serial > OldRows
  /\ \A w \in Workers : req[w].stage \in Unanswered => Unlogged(req[w].serial)
  /\ \A s \in Serials : s > sent => Unlogged(s)
  /\ DbLog => \A s \in Serials : s > OldRows /\ answered[s].status # 0
                                   => TellsOf(RowsOf(Handed, s), answered[s])

\* The script has one request at a time, while it waits.
Reader(r) == r.stage # "free" /\ r.aim = Walked
OneReader ==
  /\ \A w \in Workers : Reader(req[w]) => walk.state = "waiting"
  /\ \A v, w \in Workers : Reader(req[v]) /\ Reader(req[w]) => v = w

\* Of the first B rows, those behind the first L have been seen, or they share
\* their instant with another.
Swept(log, ties, seen, B, L) ==
  \A n \in 1..B : L < n /\ n \notin ties /\ n + 1 \notin ties => log[n].serial \in seen

\* What a reader has read adds a page, as long as no row came after its count.
ReadWell(log, ties, wk, B, r) ==
  /\ r.stage = "found" =>
       Swept(log, ties, wk.seen \union r.rows, B, Len(log) - wk.page * PageSize)
  /\ r.stage = "counted" => r.total = Len(log)
  /\ r.stage = "done" \/ (r.stage = "answered" /\ r.status = 200) =>
       /\ r.total \in Nat /\ r.total <= Len(log)
       /\ Swept(log, ties, wk.seen \union r.rows, B, r.total - wk.page * PageSize)

\* B rows were there when the walk began.  Rows that come push them back: the
\* pages that were read reach as far as they did, or further.
Sweeping(log, ties, wk, B) ==
  /\ wk.there = B
  /\ Swept(log, ties, wk.seen, B, Len(log) - (wk.page - 1) * PageSize)
  /\ wk.state = "over" => Swept(log, ties, wk.seen, B, 0)
OnCourse == \E B \in 0..Len(apiLog) :
  /\ Sweeping(apiLog, tied, walk, B)
  /\ \A w \in Workers : Reader(req[w]) => ReadWell(apiLog, tied, walk, B, req[w])
Walking ==
  /\ OneReader /\ walk.page \in Nat \ {0} /\ (walk.state = "idle" => walk.page = 1)
  /\ ~walk.slipped => OnCourse

AllFine == \A w \in Workers : Fine(req[w])
Whole == AllFine /\ Told /\ Walking /\ Settled

-----------------------------------------------------------------------------
\* A step of a handler: the request goes on, or it is answered.
RowsTell(c, rows) ==
  /\ \A row \in rows : row.serial = c.serial
  /\ DbLog => TellsOf(rows, [status |-> c.status, aim |-> c.aim])

\* What the step to this stage, or to this answer, may have written.
Settles(r, stage, status) ==
  /\ \/ committed' = committed
     \/ /\ committed' = committed \union {r.serial}
        /\ \/ WritesFirst(Serves[r.aim])
           \/ stage \in {"rereading", "done"}
           \/ stage = "answered" /\ status = 500
  /\ \/ gone' = gone /\ undercut' = undercut
     \/ gone' = TRUE /\ undercut' = undercut \union Amending /\ r.stage = "writing"
  /\ stage = "writing" => r.stage = "finding" /\ ~(gone /\ Amender(r))
  /\ stage = "rereading" => r.stage = "writing" /\ Amender(r)
  /\ r.stage = "rereading" =>
       \/ stage = "done"
       \/ stage = "answered" /\ (status = 500 \/ gone)
  /\ r.stage = "done" => stage = "answered" /\ status \in {200, 500}

PageNow(rows) == \E S \in OnPage(walk.page) : rows = {apiLog[n].serial : n \in S}
Reads(r, c) ==
  c.aim = Walked =>
    \/ c.stage \in {"admitted", "reading"}
    \/ c.stage = "answered" /\ c.status # 200
    \/ c.stage = "answered" /\ r.stage = "done" /\ c.rows = r.rows /\ c.total = r.total
    \/ c.stage = "found" /\ r.stage = "reading" /\ PageNow(c.rows)
    \/ c.stage = "counted" /\ r.stage = "reading" /\ c.total = Len(apiLog)
    \/ c.stage = "done" /\ r.stage = "counted" /\ PageNow(c.rows) /\ c.total = r.total
    \/ c.stage = "done" /\ r.stage = "found" /\ c.rows = r.rows /\ c.total = Len(apiLog)

Handles(w, c) ==
  /\ req[w].stage \in Unanswered
  /\ req' = [req EXCEPT ![w] = c]
  /\ c.serial = req[w].serial /\ c.aim = req[w].aim /\ Fine(c)
  /\ UNCHANGED <<sent, apiLog, tied, lost, walk>> /\ Settles(req[w], c.stage, c.status)
  /\ \/ c.stage \in Handled \union {"done"} /\ UNCHANGED <<answered, writes>>
     \/ /\ c.stage = "answered"
        /\ answered' = [answered EXCEPT ![c.serial] = [status |-> c.status, aim |-> c.aim]]
        /\ \E rows : writes' = writes \union rows /\ RowsTell(c, rows)
  /\ Reads(req[w], c)

\* The fields that Kept does not speak of.
Rest(r, c) == c.served = r.served /\ c.call = r.call /\ c.total = r.total

LEMMA AnsweredWithRest ==
  ASSUME NEW r, Shaped(r), NEW y
  PROVE  Rest(r, AnsweredWith(r, y)) /\ AnsweredWith(r, y).status = y
BY DEF Shaped, Rest, Fields, AnsweredWith

LEMMA StagedRest ==
  ASSUME NEW r, Shaped(r), NEW x
  PROVE  Rest(r, Staged(r, x))
BY DEF Shaped, Rest, Fields, Staged

LEMMA CalledRest ==
  ASSUME NEW r, Shaped(r), NEW y
  PROVE  Called(r, y).served = r.served /\ Called(r, y).call = y
BY DEF Shaped, Fields, Called

LEMMA CalledOnRest ==
  ASSUME NEW r, Shaped(r), NEW x, NEW y
  PROVE  CalledOn(r, y, x).served = r.served /\ CalledOn(r, y, x).call = y
BY DEF Shaped, Fields, CalledOn

LEMMA PagedRest ==
  ASSUME NEW r, Shaped(r), NEW x, NEW y
  PROVE  Rest(r, Paged(r, y, x))
BY DEF Shaped, Rest, Fields, Paged

LEMMA TotalledRest ==
  ASSUME NEW r, Shaped(r), NEW x, NEW y
  PROVE  /\ Totalled(r, y, x).served = r.served /\ Totalled(r, y, x).call = r.call
         /\ Totalled(r, y, x).total = y
BY DEF Shaped, Fields, Totalled

LEMMA ServedOnRest ==
  ASSUME NEW r, Shaped(r), NEW y
  PROVE  ServedOn(r, y).served = y /\ ServedOn(r, y).call = r.call
BY DEF Shaped, Fields, ServedOn

LEMMA SentAsRest ==
  ASSUME NEW r, Shaped(r), NEW y
  PROVE  Rest(r, SentAs(r, y))
BY DEF Shaped, Rest, Fields, SentAs

LEMMA AdmittedRest ==
  ASSUME NEW r, Shaped(r)
  PROVE  WithToken(WithSid(r)).call = r.call
<1> DEFINE b == WithSid(r)
<1>1. b = r \/ b = [r EXCEPT !.setSid = r.serial]
  BY DEF WithSid
<1>2. Shaped(b) /\ b.call = r.call
  BY <1>1 DEF Shaped, Fields
<1> HIDE DEF b
<1>3. WithToken(b) = b \/ WithToken(b) = [b EXCEPT !.setToken = {b.sid}]
  BY DEF WithToken
<1>4. WithToken(b).call = b.call
  BY <1>2, <1>3 DEF Shaped, Fields
<1>5. QED
  BY <1>2, <1>4 DEF b

-----------------------------------------------------------------------------
(* The time a call takes.                                                  *)
LEMMA PowerInt ==
  ASSUME NEW m \in Nat \ {0}, NEW n \in Nat
  PROVE  m ^ n \in Int
OBVIOUS

LEMMA DelayInt ==
  ASSUME NEW n \in Nat
  PROVE  Delay(n) \in Int
<1>1. Multiplier ^ n \in Int /\ InitialDelay \in Int
  BY PowerInt, RetryAssumption
<1> DEFINE p == Multiplier ^ n
<1> HIDE DEF p
<1>2. p \in Int
  BY <1>1 DEF p
<1>3. InitialDelay * p \in Int
  BY <1>1, <1>2
<1>4. QED
  BY <1>3 DEF Delay, p

Waiting(c, n, e) == [c EXCEPT !.tries = n, !.elapsed = e]
LEMMA CallMoved ==
  ASSUME NEW c \in Calls, NEW n \in Nat, NEW e \in Int
  PROVE  Waiting(c, n, e) \in Calls /\ Waiting(c, n, e).elapsed = e
<1> DEFINE g == [c EXCEPT !.tries = n]
<1>1. g \in Calls
  BY DEF Calls
<1> HIDE DEF g
<1>2. [g EXCEPT !.elapsed = e] \in Calls /\ [g EXCEPT !.elapsed = e].elapsed = e
  BY <1>1 DEF Calls
<1>3. QED
  BY <1>2 DEF g, Waiting

LEMMA NewCallTimely == Timely(NewCall)
<1>1. NewCall \in Calls /\ NewCall.elapsed = 0
  BY DEF NewCall, Calls
<1>2. PICK d \in Slow : d \in Nat
  BY PipelineAssumption
<1>3. NewCall.elapsed < Timeout + d
  BY <1>1, <1>2, RetryAssumption
<1>4. QED
  BY <1>1, <1>3 DEF Timely

\* An attempt that begins is over less than itself after the time, and a wait
\* that begins less than its delay in waking.
LEMMA AttemptTimely ==
  ASSUME NEW c, Timely(c)
  PROVE  Timely(Attempt(c))
<1>1. CASE Begins(c)
  BY <1>1 DEF Attempt
<1>2. CASE ~Begins(c)
  <2>1. Attempt(c) = [c EXCEPT !.state = "timedOut"]
    BY <1>2 DEF Attempt
  <2>2. Attempt(c) \in Calls /\ Attempt(c).elapsed = c.elapsed
    BY <2>1 DEF Timely, Calls
  <2>3. QED
    BY <2>2 DEF Timely
<1>3. QED
  BY <1>1, <1>2

LEMMA AfterFailureTimely ==
  ASSUME NEW c, Timely(c), Begins(c), NEW d \in Slow, NEW late \in Slow
  PROVE  Timely(AfterFailure(c, d, late))
<1> DEFINE failed == [c EXCEPT !.elapsed = @ + d]
           e == c.elapsed + d
<1>1. d \in Nat /\ late \in Nat /\ Timeout \in Nat /\ c \in Calls
  BY PipelineAssumption, RetryAssumption DEF Timely
<1>3. AfterFailure(c, d, late) =
        IF GivesUp(failed) THEN [failed EXCEPT !.state = "thrown"]
        ELSE [failed EXCEPT !.tries = @ + 1, !.elapsed = @ + Delay(failed.tries) + late]
  BY Zenon DEF AfterFailure
<1>2. /\ failed \in Calls /\ failed.elapsed = e /\ failed.tries = c.tries /\ e \in Int
      /\ e < Timeout + d
  BY <1>1 DEF Calls, Begins
<1> HIDE DEF failed, e
<1>4. CASE GivesUp(failed)
  <2> DEFINE f == [failed EXCEPT !.state = "thrown"]
  <2>1. f \in Calls /\ f.elapsed = e
    BY <1>2 DEF Calls
  <2>2. f.elapsed < Timeout + d
    BY <1>2, <2>1
  <2> HIDE DEF f
  <2>3. Timely(f)
    BY <2>1, <2>2 DEF Timely
  <2>4. QED
    BY <1>3, <1>4, <2>3 DEF f
<1>5. CASE ~GivesUp(failed)
  <2> DEFINE p == Delay(failed.tries)
             f == [failed EXCEPT !.tries = @ + 1, !.elapsed = @ + p + late]
  <2>1. failed.tries \in Nat
    BY <1>2 DEF Calls
  <2>2. p \in Int
    BY <2>1, DelayInt
  <2>3. ~(e + p >= Timeout)
    BY <1>2, <1>5 DEF GivesUp
  <2> HIDE DEF p
  <2>4. e + p + late \in Int /\ e + p + late < Timeout + late
    BY <1>1, <1>2, <2>2, <2>3
  <2>5. f.elapsed = e + p + late /\ f \in Calls
    <3>1. failed.tries + 1 \in Nat /\ failed.elapsed + p + late = e + p + late
      BY <1>2, <2>1
    <3>2. failed.elapsed + p + late \in Int /\ failed \in Calls
      BY <1>2, <2>4, <3>1
    <3>3. f = Waiting(failed, failed.tries + 1, failed.elapsed + p + late)
      BY Zenon DEF Waiting
    <3> HIDE DEF f
    <3>4. f \in Calls /\ f.elapsed = failed.elapsed + p + late
      BY <3>1, <3>2, <3>3, CallMoved
    <3>5. QED
      BY <3>1, <3>4
  <2> HIDE DEF f
  <2>6. Timely(f)
    BY <2>4, <2>5 DEF Timely
  <2>7. QED
    BY <1>3, <1>5, <2>6 DEF f, p
<1>6. QED
  BY <1>4, <1>5

-----------------------------------------------------------------------------
(* The rows of an answer, and what each step of a handler does.            *)
LEMMA NoRowTells ==
  ASSUME NEW c, c.status \notin {200, 404}
  PROVE  RowsTell(c, {})
BY DEF RowsTell, TellsOf

LEMMA RowTells ==
  ASSUME NEW c, NEW r, c.aim \in Aims, r.aim = c.aim, r.serial = c.serial,
         r.served = Serves[r.aim], NEW y, y = c.status \/ (c.status = 500 /\ y = 200)
  PROVE  RowsTell(c, RowOf(r, y))
<1> DEFINE row == Row(r, r.id, y)
           answer == [status |-> c.status, aim |-> c.aim]
<1>1. row.serial = c.serial /\ row.status = y
  BY DEF Row
<1>2. answer.status = c.status /\ answer.aim = c.aim
  OBVIOUS
<1> HIDE DEF answer
<1>3. RowOf(r, y) = IF Logs(r) THEN {row} ELSE {}
  BY DEF RowOf
<1> HIDE DEF row
<1>4. c.aim \in DOMAIN Routes
  BY PipelineAssumption DEF Aims
<1>5. Logs(r) <=> DbLog /\ Routes[c.aim].logged
  <2>1. Routes[Serves[c.aim]].logged = Routes[c.aim].logged
    BY <1>4, ServedAlike
  <2>2. QED
    BY <2>1 DEF Logs
<1>6. Cardinality({row}) = 1
  BY FS_Singleton
<1>7. DbLog => TellsOf(RowOf(r, y), answer)
  BY <1>1, <1>2, <1>3, <1>5, <1>6 DEF TellsOf
<1>8. QED
  BY <1>1, <1>3, <1>7 DEF RowsTell, answer

Leaves == UNCHANGED <<sent, apiLog, tied, lost, walk>>

\* A step that has written nothing, from a stage that has not either.
LEMMA SettlesIdly ==
  ASSUME NEW r, NEW stage, NEW status, UNCHANGED <<committed, role>>,
         r.stage \notin {"rereading", "done"}, stage \notin {"writing", "rereading"}
  PROVE  Settles(r, stage, status)
BY DEF Settles, role

LEMMA PassHandles ==
  ASSUME NEW w \in Workers, req[w].stage \in Unanswered, NEW c, Passes(w, c),
         Same(req[w], c), Fine(c), c.stage \in Handled \union {"done"},
         Reads(req[w], c), Leaves, Settles(req[w], c.stage, c.status)
  PROVE  Handles(w, c)
BY DEF Handles, Passes, Same, Leaves

LEMMA FailHandles ==
  ASSUME NEW w \in Workers, req[w].stage \in Unanswered, NEW r, Same(req[w], r),
         Timely(r.call), NEW id, NEW status, status # 200, NEW rows, NEW errors,
         Fails(w, r, id, status, rows, errors),
         \A c : c.serial = r.serial /\ c.aim = r.aim /\ c.status = status => RowsTell(c, rows),
         Leaves, Settles(req[w], "answered", status)
  PROVE  \E c : Handles(w, c)
<1> DEFINE c == AnsweredWith(r, status)
<1>1. Shaped(r) /\ r.serial = req[w].serial /\ r.aim = req[w].aim
  BY DEF Same
<1>2. Kept(r, c) /\ c.stage = "answered" /\ c.call = r.call /\ c.status = status
  BY <1>1, AnsweredWithKept, AnsweredWithRest DEF Rest
<1>3. req' = [req EXCEPT ![w] = c]
  BY DEF Fails, AnsweredWith
<1> HIDE DEF c
<1>4. c.serial = r.serial /\ c.aim = r.aim
  BY <1>2 DEF Kept, Same
<1>5. Fine(c)
  BY <1>2 DEF Fine, Handled, Reading
<1>6. RowsTell(c, rows)
  BY <1>2, <1>4
<1>7. Reads(req[w], c)
  BY <1>2 DEF Reads
<1>8. answered' = [answered EXCEPT ![c.serial] = [status |-> c.status, aim |-> c.aim]]
      /\ writes' = writes \union rows
  BY <1>2, <1>4 DEF Fails
<1>9. QED
  BY <1>1, <1>2, <1>3, <1>4, <1>5, <1>6, <1>7, <1>8 DEF Handles, Leaves

LEMMA ThrowHandles ==
  ASSUME NEW w \in Workers, req[w].stage \in Unanswered, req[w].aim \in Aims,
         NEW r, Same(req[w], r), Timely(r.call), r.served = Serves[r.aim],
         NEW status, status # 200, Throws(w, r, status), Leaves,
         Settles(req[w], "answered", status)
  PROVE  \E c : Handles(w, c)
<1>1. \A c : c.serial = r.serial /\ c.aim = r.aim /\ c.status = status
               => RowsTell(c, RowOf(r, status))
  BY RowTells DEF Same
<1>2. Fails(w, r, r.id, status, RowOf(r, status), Caught(r, status))
  BY DEF Throws
<1>3. QED
  BY <1>1, <1>2, FailHandles

LEMMA EnterHandles ==
  ASSUME Inv, AllFine, NEW w \in Workers, Enter(w)
  PROVE  \E c : Handles(w, c)
<1> DEFINE r == WithToken(WithSid(req[w]))
           next == [r EXCEPT !.stage = "admitted", !.served = Serves[r.aim]]
<1>1. Sane(req[w]) /\ req[w].stage = "sent" /\ Fine(req[w]) /\ Leaves
      /\ UNCHANGED <<committed, role>>
  BY DEF Inv, Requests, AllFine, Enter, Leaves
<1>2. req[w].stage \in Unanswered
      /\ \A stage, status : stage \in {"admitted", "answered"} => Settles(req[w], stage, status)
  BY <1>1, SettlesIdly DEF Unanswered
<1>3. Same(req[w], r)
  BY <1>1, AdmittedFits DEF Fits
<1>4. r.call = req[w].call
  BY <1>1, AdmittedRest DEF Sane
<1>5. next = ServedOn(r, Serves[r.aim])
  BY DEF ServedOn
<1>6. \/ \E status \in {400, 500} : Fails(w, r, 0, status, {}, {})
      \/ Fails(w, next, r.id, 429, {}, {})
      \/ Fails(w, next, r.id, 403, {}, {})
      \/ Passes(w, next)
  BY DEF Enter
<1> HIDE DEF r
<1>7. Kept(r, next) /\ next.stage = "admitted" /\ next.served = Serves[r.aim]
      /\ next.call = r.call
  BY <1>3, <1>5, ServedOnKept, ServedOnRest DEF Same
<1> HIDE DEF next
<1>8. Same(req[w], next)
  BY <1>3, <1>7 DEF Kept, Same
<1>9. Timely(r.call) /\ Timely(next.call)
  BY <1>1, <1>4, <1>7 DEF Fine
<1>10. \A c : c.status \in {400, 403, 429, 500} => RowsTell(c, {})
  BY NoRowTells
<1>11. ASSUME NEW status \in {400, 500}, Fails(w, r, 0, status, {}, {})
       PROVE  \E c : Handles(w, c)
  BY <1>1, <1>2, <1>3, <1>9, <1>10, <1>11, FailHandles
<1>12. CASE Fails(w, next, r.id, 429, {}, {})
  BY <1>1, <1>2, <1>8, <1>9, <1>10, <1>12, FailHandles
<1>13. CASE Fails(w, next, r.id, 403, {}, {})
  BY <1>1, <1>2, <1>8, <1>9, <1>10, <1>13, FailHandles
<1>14. CASE Passes(w, next)
  <2>1. next.aim = r.aim
    BY <1>7 DEF Kept, Same
  <2>2. Fine(next)
    BY <1>7, <1>9, <2>1 DEF Fine, Handled, Reading
  <2>3. Reads(req[w], next)
    BY <1>7 DEF Reads
  <2>4. next.stage \in Handled \union {"done"}
    BY <1>7 DEF Handled
  <2>7. Settles(req[w], next.stage, next.status)
    BY <1>2, <1>7
  <2>5. Handles(w, next)
    BY <1>1, <1>2, <1>8, <1>14, <2>2, <2>3, <2>4, <2>7, PassHandles
  <2>6. QED
    BY <2>5
<1>15. QED
  BY <1>6, <1>11, <1>12, <1>13, <1>14

LEMMA AuthorizeHandles ==
  ASSUME Inv, AllFine, NEW w \in Workers, Authorize(w)
  PROVE  \E c : Handles(w, c)
<1> DEFINE stage == IF req[w].aim = Walked THEN "reading"
                    ELSE IF Verb(req[w]) = "GET" THEN "done" ELSE "finding"
           next == [req[w] EXCEPT !.stage = stage]
<1>1. Sane(req[w]) /\ req[w].stage = "admitted" /\ Fine(req[w]) /\ Leaves
  BY DEF Inv, Requests, AllFine, Authorize, Leaves
<1>2. req[w].stage \in Unanswered /\ req[w].served = Serves[req[w].aim]
  BY <1>1 DEF Unanswered, Handled, Fine
<1>6. \A x, y : x \in {"reading", "done", "finding", "answered"} => Settles(req[w], x, y)
  <2>1. \/ committed' = committed
        \/ committed' = committed \union {req[w].serial} /\ WritesFirst(Serves[req[w].aim])
    BY <1>2 DEF Authorize, WritesFirst
  <2>2. gone' = gone /\ undercut' = undercut
    BY DEF Authorize, role
  <2>3. QED
    BY <1>1, <2>1, <2>2 DEF Settles
<1>7. PICK status \in GuardStatuses(req[w]) :
        IF status = 0 THEN Passes(w, next)
                      ELSE Fails(w, req[w], req[w].id, status, {}, {})
  BY DEF Authorize
<1>8. status \in {0, 401, 403}
  BY DEF GuardStatuses
<1>3. CASE status = 0
  <2>1. Passes(w, next)
    BY <1>3, <1>7
  <2>2. next = Staged(req[w], stage)
    BY DEF Staged
  <2>3. stage \in {"reading", "done", "finding"} /\ (stage = "reading" <=> req[w].aim = Walked)
    OBVIOUS
  <2> HIDE DEF stage
  <2>4. Kept(req[w], next) /\ next.stage = stage /\ Rest(req[w], next)
    BY <1>1, <2>2, StagedKept, StagedRest DEF Sane
  <2> HIDE DEF next
  <2>5. Same(req[w], next) /\ next.aim = req[w].aim
    BY <2>4 DEF Kept, Same
  <2>6. Fine(next)
    BY <1>1, <1>2, <2>3, <2>4, <2>5 DEF Fine, Rest, Handled, Reading
  <2>7. Reads(req[w], next)
    BY <2>3, <2>4, <2>5 DEF Reads
  <2>8. next.stage \in Handled \union {"done"}
    BY <2>3, <2>4 DEF Handled
  <2>11. Settles(req[w], next.stage, next.status)
    BY <1>6, <2>3, <2>4
  <2>9. Handles(w, next)
    BY <1>1, <1>2, <2>1, <2>5, <2>6, <2>7, <2>8, <2>11, PassHandles
  <2>10. QED
    BY <2>9
<1>4. CASE status # 0
  <2>1. Fails(w, req[w], req[w].id, status, {}, {})
    BY <1>4, <1>7
  <2>2. status \in {401, 403}
    BY <1>4, <1>8
  <2>3. \A c : c.status = status => RowsTell(c, {})
    BY <2>2, NoRowTells
  <2>4. Same(req[w], req[w]) /\ Timely(req[w].call) /\ Settles(req[w], "answered", status)
    BY <1>1, <1>6 DEF Same, Sane, Fine
  <2>5. QED
    BY <1>1, <1>2, <2>1, <2>2, <2>3, <2>4, FailHandles
<1>5. QED
  BY <1>3, <1>4

LEMMA FindHandles ==
  ASSUME Inv, AllFine, NEW w \in Workers, Find(w)
  PROVE  \E c : Handles(w, c)
<1>1. Sane(req[w]) /\ req[w].stage = "finding" /\ Fine(req[w]) /\ Leaves
      /\ UNCHANGED <<committed, role>>
  BY DEF Inv, Requests, AllFine, Find, Leaves
<1>2. req[w].stage \in Unanswered /\ req[w].served = Serves[req[w].aim]
      /\ req[w].aim # Walked /\ req[w].aim \in Aims /\ Shaped(req[w])
  BY <1>1 DEF Unanswered, Handled, Fine, Sane
<1>9. \A x, y : x \in {"finding", "answered"} => Settles(req[w], x, y)
  BY <1>1, SettlesIdly
<1> DEFINE a == Attempt(req[w].call)
<1>3. Timely(a) /\ (a.state # "timedOut" => Begins(a))
  <2>1. Timely(req[w].call)
    BY <1>1 DEF Fine
  <2>2. Timely(a)
    BY <2>1, AttemptTimely
  <2>3. CASE Begins(req[w].call)
    BY <2>2, <2>3 DEF Attempt
  <2>4. CASE ~Begins(req[w].call)
    <3>1. a.state = "timedOut"
      BY <2>1, <2>4 DEF Attempt, Timely, Calls
    <3>2. QED
      BY <2>2, <3>1
  <2>5. QED
    BY <2>3, <2>4
<1>4. \/ \E c : /\ Timely(c)
               /\ \/ \E status \in {404, 500} : Throws(w, Called(req[w], c), status)
                  \/ Passes(w, Called(req[w], c))
      \/ ~RoleMissed(req[w]) /\ Passes(w, CalledOn(req[w], NewCall, "writing"))
  <2>1. \/ a.state = "timedOut" /\ Throws(w, Called(req[w], a), 500)
        \/ /\ a.state # "timedOut"
           /\ \E d \in Slow : \E late \in Slow : Failed(w, AfterFailure(a, d, late))
        \/ RoleMissed(req[w]) /\ Throws(w, Called(req[w], NewCall), 404)
        \/ ~RoleMissed(req[w]) /\ Passes(w, CalledOn(req[w], NewCall, "writing"))
    BY FindEnds
  <2> HIDE DEF a
  <2>2. CASE a.state # "timedOut" /\ \E d \in Slow : \E late \in Slow : Failed(w, AfterFailure(a, d, late))
    <3>1. PICK d \in Slow : \E late \in Slow : Failed(w, AfterFailure(a, d, late))
      BY <2>2
    <3>2. PICK late \in Slow : Failed(w, AfterFailure(a, d, late))
      BY <3>1
    <3> DEFINE f == AfterFailure(a, d, late)
    <3>3. Timely(f) /\ Failed(w, f)
      BY <1>3, <2>2, <3>2, AfterFailureTimely
    <3> HIDE DEF f
    <3>4. QED
      BY <3>3 DEF Failed
  <2>3. QED
    BY <1>3, <2>1, <2>2, NewCallTimely
<1> HIDE DEF a
<1>5. ASSUME NEW c, Timely(c), NEW status \in {404, 500}, Throws(w, Called(req[w], c), status)
      PROVE  \E d : Handles(w, d)
  <2> DEFINE r == Called(req[w], c)
  <2>1. Kept(req[w], r) /\ r.call = c /\ r.served = req[w].served
    BY <1>2, CalledKept, CalledRest
  <2>2. Throws(w, r, status) /\ Settles(req[w], "answered", status)
    BY <1>5, <1>9
  <2> HIDE DEF r
  <2>3. Same(req[w], r) /\ r.served = Serves[r.aim] /\ Timely(r.call)
    BY <1>2, <1>5, <2>1 DEF Kept, Same
  <2>4. QED
    BY <1>1, <1>2, <2>2, <2>3, ThrowHandles
<1>6. ASSUME NEW c, Timely(c), Passes(w, Called(req[w], c))
      PROVE  \E d : Handles(w, d)
  <2> DEFINE r == Called(req[w], c)
  <2>1. Kept(req[w], r) /\ r.call = c /\ r.served = req[w].served /\ r.stage = "finding"
    BY <1>1, <1>2, CalledKept, CalledRest
  <2>2. Passes(w, r) /\ Settles(req[w], r.stage, r.status)
    BY <1>6, <1>9, <2>1
  <2> HIDE DEF r
  <2>3. Same(req[w], r) /\ r.aim = req[w].aim
    BY <2>1 DEF Kept, Same
  <2>4. Fine(r) /\ r.stage \in Handled \union {"done"}
    BY <1>2, <1>6, <2>1, <2>3 DEF Fine, Handled, Reading
  <2>5. Reads(req[w], r)
    BY <1>2, <2>3 DEF Reads
  <2>6. Handles(w, r)
    BY <1>1, <1>2, <2>2, <2>3, <2>4, <2>5, PassHandles
  <2>7. QED
    BY <2>6
<1>7. CASE ~RoleMissed(req[w]) /\ Passes(w, CalledOn(req[w], NewCall, "writing"))
  <2> DEFINE r == CalledOn(req[w], NewCall, "writing")
  <2>1. Kept(req[w], r) /\ r.call = NewCall /\ r.served = req[w].served /\ r.stage = "writing"
    BY <1>2, CalledOnKept, CalledOnRest
  <2>2. Passes(w, r)
    BY <1>7
  <2> HIDE DEF r
  <2>8. Settles(req[w], r.stage, r.status)
    BY <1>1, <1>2, <1>7, <2>1 DEF Settles, RoleMissed, Amender, role
  <2>3. Same(req[w], r) /\ r.aim = req[w].aim
    BY <2>1 DEF Kept, Same
  <2>4. Fine(r) /\ r.stage \in Handled \union {"done"}
    BY <1>2, <2>1, <2>3, NewCallTimely DEF Fine, Handled, Reading
  <2>5. Reads(req[w], r)
    BY <1>2, <2>3 DEF Reads
  <2>6. Handles(w, r)
    BY <1>1, <1>2, <2>2, <2>3, <2>4, <2>5, <2>8, PassHandles
  <2>7. QED
    BY <2>6
<1>8. QED
  BY <1>4, <1>5, <1>6, <1>7

LEMMA WriteHandles ==
  ASSUME Inv, AllFine, NEW w \in Workers, Write(w)
  PROVE  \E c : Handles(w, c)
<1> DEFINE stage == IF Amends(req[w].served) THEN "rereading" ELSE "done"
           next == Staged(req[w], stage)
<1>1. Sane(req[w]) /\ req[w].stage = "writing" /\ Fine(req[w]) /\ Leaves
  BY DEF Inv, Requests, AllFine, Write, Leaves
<1>2. req[w].stage \in Unanswered /\ req[w].served = Serves[req[w].aim]
      /\ req[w].aim # Walked /\ req[w].aim \in Aims /\ Shaped(req[w])
      /\ Same(req[w], req[w]) /\ Timely(req[w].call)
  BY <1>1 DEF Unanswered, Handled, Fine, Sane, Same
<1>3. \/ /\ \E status \in {401, 404, 500} : Throws(w, req[w], status)
         /\ UNCHANGED <<committed, role>>
      \/ /\ Commits(req[w])
         /\ \/ \E status \in {401, 404, 500} :
                 /\ Throws(w, req[w], status)
                 /\ WritesFirst(req[w].served) \/ status = 500
            \/ Passes(w, next)
  BY DEF Write, Errors, Staged
<1>4. ASSUME UNCHANGED <<committed, role>>, NEW status \in {401, 404, 500}, Throws(w, req[w], status)
      PROVE  \E c : Handles(w, c)
  <2>1. Settles(req[w], "answered", status)
    BY <1>1, <1>4, SettlesIdly
  <2>2. QED
    BY <1>1, <1>2, <1>4, <2>1, ThrowHandles
<1>5. ASSUME Commits(req[w])
      PROVE  /\ committed' = committed \union {req[w].serial}
             /\ \/ gone' = gone /\ undercut' = undercut
                \/ gone' = TRUE /\ undercut' = undercut \union Amending
  BY <1>5 DEF Commits, role
<1>6. ASSUME Commits(req[w]), NEW status \in {401, 404, 500}, Throws(w, req[w], status),
             WritesFirst(req[w].served) \/ status = 500
      PROVE  \E c : Handles(w, c)
  <2>1. Settles(req[w], "answered", status)
    BY <1>1, <1>2, <1>5, <1>6 DEF Settles
  <2>2. QED
    BY <1>1, <1>2, <1>6, <2>1, ThrowHandles
<1>7. CASE Commits(req[w]) /\ Passes(w, next)
  <2>1. stage \in {"rereading", "done"} /\ (stage = "rereading" => Amender(req[w]))
    BY <1>2 DEF Amender
  <2> HIDE DEF stage
  <2>2. Kept(req[w], next) /\ next.stage = stage /\ Rest(req[w], next)
    BY <1>2, StagedKept, StagedRest
  <2>3. Settles(req[w], next.stage, next.status)
    BY <1>1, <1>5, <1>7, <2>1, <2>2 DEF Settles
  <2> HIDE DEF next
  <2>4. Same(req[w], next) /\ next.aim = req[w].aim
    BY <2>2 DEF Kept, Same
  <2>5. Fine(next) /\ Reads(req[w], next) /\ next.stage \in Handled \union {"done"}
    BY <1>2, <2>1, <2>2, <2>4 DEF Fine, Rest, Handled, Reading, Reads
  <2>6. Handles(w, next)
    BY <1>1, <1>2, <1>7, <2>3, <2>4, <2>5, PassHandles
  <2>7. QED
    BY <2>6
<1>8. QED
  BY <1>3, <1>4, <1>6, <1>7

LEMMA RereadHandles ==
  ASSUME Inv, AllFine, NEW w \in Workers, Reread(w)
  PROVE  \E c : Handles(w, c)
<1> DEFINE next == Staged(req[w], "done")
<1>1. Sane(req[w]) /\ req[w].stage = "rereading" /\ Fine(req[w]) /\ Leaves
      /\ UNCHANGED <<committed, role>>
  BY DEF Inv, Requests, AllFine, Reread, Leaves
<1>2. req[w].stage \in Unanswered /\ req[w].served = Serves[req[w].aim]
      /\ req[w].aim # Walked /\ req[w].aim \in Aims /\ Shaped(req[w])
      /\ Same(req[w], req[w]) /\ Timely(req[w].call)
  BY <1>1 DEF Unanswered, Handled, Fine, Sane, Same
<1>3. \/ \E status \in {404, 500} : (Throws(w, req[w], status) /\ (status = 500 \/ gone))
      \/ Passes(w, next)
  BY DEF Reread, Staged
<1>4. ASSUME NEW status \in {404, 500}, Throws(w, req[w], status), status = 500 \/ gone
      PROVE  \E c : Handles(w, c)
  <2>1. Settles(req[w], "answered", status)
    BY <1>1, <1>4 DEF Settles, role
  <2>2. QED
    BY <1>1, <1>2, <1>4, <2>1, ThrowHandles
<1>5. CASE Passes(w, next)
  <2>1. Kept(req[w], next) /\ next.stage = "done" /\ Rest(req[w], next)
    BY <1>2, StagedKept, StagedRest
  <2> HIDE DEF next
  <2>2. Same(req[w], next) /\ next.aim = req[w].aim
    BY <2>1 DEF Kept, Same
  <2>3. Fine(next) /\ Reads(req[w], next)
    BY <1>2, <2>1, <2>2 DEF Fine, Rest, Handled, Reading, Reads
  <2>4. Settles(req[w], next.stage, next.status)
    BY <1>1, <2>1 DEF Settles, role
  <2>5. Handles(w, next)
    BY <1>1, <1>2, <1>5, <2>1, <2>2, <2>3, <2>4, PassHandles
  <2>6. QED
    BY <2>5
<1>6. QED
  BY <1>3, <1>4, <1>5

LEMMA FindRowsHandles ==
  ASSUME Inv, AllFine, NEW w \in Workers, FindRows(w)
  PROVE  \E c : Handles(w, c)
<1> DEFINE stage == IF req[w].stage = "counted" THEN "done" ELSE "found"
<1>1. Sane(req[w]) /\ req[w].stage \in {"reading", "counted"} /\ Fine(req[w]) /\ Leaves
      /\ UNCHANGED <<committed, role>>
  BY DEF Inv, Requests, AllFine, FindRows, Leaves
<1>2. req[w].stage \in Unanswered /\ req[w].served = Serves[req[w].aim]
      /\ req[w].aim = Walked /\ Shaped(req[w]) /\ Timely(req[w].call)
  BY <1>1 DEF Unanswered, Handled, Fine, Sane, Reading
<1>3. \E rows : PageNow(rows) /\ Passes(w, Paged(req[w], rows, stage))
  <2>1. PICK S \in OnPage(walk.page) :
          Passes(w, Paged(req[w], {apiLog[n].serial : n \in S}, stage))
    BY DEF FindRows, Paged
  <2> DEFINE rows == {apiLog[n].serial : n \in S}
  <2>2. PageNow(rows)
    BY DEF PageNow
  <2> HIDE DEF stage
  <2>3. QED
    BY <2>1, <2>2
<1>4. stage = (IF req[w].stage = "counted" THEN "done" ELSE "found")
  OBVIOUS
<1> HIDE DEF stage
<1>5. PICK rows : PageNow(rows) /\ Passes(w, Paged(req[w], rows, stage))
  BY <1>3
<1> DEFINE next == Paged(req[w], rows, stage)
<1>6. Kept(req[w], next) /\ next.stage = stage /\ Rest(req[w], next) /\ next.rows = rows
  BY <1>2, PagedKept, PagedRest
<1>12. Passes(w, next)
  BY <1>5
<1> HIDE DEF next
<1>7. Same(req[w], next) /\ next.aim = req[w].aim
  BY <1>6 DEF Kept, Same
<1>8. Fine(next)
  BY <1>2, <1>4, <1>6, <1>7 DEF Fine, Rest, Handled, Reading
<1>9. Reads(req[w], next)
  BY <1>1, <1>4, <1>5, <1>6 DEF Reads, Rest
<1>10. next.stage \in Handled \union {"done"} /\ Settles(req[w], next.stage, next.status)
  BY <1>1, <1>4, <1>6, SettlesIdly DEF Handled
<1>11. Handles(w, next)
  BY <1>1, <1>2, <1>7, <1>8, <1>9, <1>10, <1>12, PassHandles
<1>13. QED
  BY <1>11

LEMMA CountRowsHandles ==
  ASSUME Inv, AllFine, NEW w \in Workers, CountRows(w)
  PROVE  \E c : Handles(w, c)
<1> DEFINE stage == IF req[w].stage = "found" THEN "done" ELSE "counted"
           next == Totalled(req[w], Len(apiLog), stage)
<1>1. Sane(req[w]) /\ req[w].stage \in {"reading", "found"} /\ Fine(req[w]) /\ Leaves
      /\ UNCHANGED <<committed, role>>
  BY DEF Inv, Requests, AllFine, CountRows, Leaves
<1>2. req[w].stage \in Unanswered /\ req[w].served = Serves[req[w].aim]
      /\ req[w].aim = Walked /\ Shaped(req[w]) /\ Timely(req[w].call)
  BY <1>1 DEF Unanswered, Handled, Fine, Sane, Reading
<1>3. Passes(w, next)
  BY DEF CountRows, Totalled
<1>4. stage = (IF req[w].stage = "found" THEN "done" ELSE "counted")
  OBVIOUS
<1> HIDE DEF stage
<1>5. Kept(req[w], next) /\ next.stage = stage /\ next.rows = req[w].rows
      /\ next.served = req[w].served /\ next.call = req[w].call /\ next.total = Len(apiLog)
  BY <1>2, TotalledKept, TotalledRest
<1> HIDE DEF next
<1>6. Same(req[w], next) /\ next.aim = req[w].aim
  BY <1>5 DEF Kept, Same
<1>7. Fine(next)
  BY <1>2, <1>4, <1>5, <1>6 DEF Fine, Handled, Reading
<1>8. Reads(req[w], next)
  BY <1>1, <1>4, <1>5 DEF Reads
<1>9. next.stage \in Handled \union {"done"} /\ Settles(req[w], next.stage, next.status)
  BY <1>1, <1>4, <1>5, SettlesIdly DEF Handled
<1>10. Handles(w, next)
  BY <1>1, <1>2, <1>3, <1>6, <1>7, <1>8, <1>9, PassHandles
<1>11. QED
  BY <1>10

LEMMA FinishHandles ==
  ASSUME Inv, AllFine, NEW w \in Workers, Finish(w)
  PROVE  \E c : Handles(w, c)
<1>1. Sane(req[w]) /\ req[w].stage = "done" /\ Fine(req[w]) /\ Leaves
  BY DEF Inv, Requests, AllFine, Finish, Leaves
<1>7. Settles(req[w], "answered", 200) /\ Settles(req[w], "answered", 500)
  BY <1>1 DEF Settles, Finish, role
<1>2. req[w].stage \in Unanswered /\ req[w].served = Serves[req[w].aim]
      /\ req[w].aim \in Aims /\ Shaped(req[w])
      /\ Same(req[w], req[w]) /\ Timely(req[w].call)
  BY <1>1 DEF Unanswered, Handled, Fine, Sane, Same
<1>3. CASE Succeeds(w, req[w])
  <2> DEFINE c == AnsweredWith(req[w], 200)
  <2>1. /\ Kept(req[w], c) /\ c.stage = "answered" /\ c.rows = req[w].rows
        /\ Rest(req[w], c) /\ c.status = 200
    BY <1>2, AnsweredWithKept, AnsweredWithRest
  <2>2. req' = [req EXCEPT ![w] = c]
    BY <1>3 DEF Succeeds, AnsweredWith
  <2> HIDE DEF c
  <2>3. c.serial = req[w].serial /\ c.aim = req[w].aim
    BY <2>1 DEF Kept, Same
  <2>4. Fine(c)
    BY <1>2, <2>1 DEF Fine, Rest, Handled, Reading
  <2>5. RowsTell(c, RowOf(req[w], 200))
    BY <1>2, <2>1, <2>3, RowTells
  <2>6. Reads(req[w], c)
    BY <1>1, <2>1 DEF Reads, Rest
  <2>7. /\ answered' = [answered EXCEPT ![c.serial] = [status |-> c.status, aim |-> c.aim]]
        /\ writes' = writes \union RowOf(req[w], 200)
    BY <1>3, <2>1, <2>3 DEF Succeeds
  <2>8. Handles(w, c)
    BY <1>1, <1>2, <1>7, <2>1, <2>2, <2>3, <2>4, <2>5, <2>6, <2>7 DEF Handles, Leaves
  <2>9. QED
    BY <2>8
<1>4. CASE Throws(w, req[w], 500)
  BY <1>1, <1>2, <1>4, <1>7, ThrowHandles
<1>5. CASE Fails(w, req[w], req[w].id, 500, RowOf(req[w], 200), {})
  <2>1. \A c : c.serial = req[w].serial /\ c.aim = req[w].aim /\ c.status = 500
                 => RowsTell(c, RowOf(req[w], 200))
    BY <1>2, RowTells
  <2>2. QED
    BY <1>1, <1>2, <1>5, <1>7, <2>1, FailHandles
<1>6. QED
  BY <1>3, <1>4, <1>5 DEF Finish

-----------------------------------------------------------------------------
(* One handler's step, and the four of them.                               *)
LEMMA Stepped ==
  ASSUME Inv, NEW w \in Workers, NEW c, req' = [req EXCEPT ![w] = c]
  PROVE  req'[w] = c /\ \A v \in Workers : v # w => req'[v] = req[v]
BY DEF Inv, Requests

LEMMA StepFine ==
  ASSUME Inv, AllFine, NEW w \in Workers, NEW c, Fine(c), req' = [req EXCEPT ![w] = c]
  PROVE  AllFine'
<1>1. req'[w] = c /\ \A v \in Workers : v # w => req'[v] = req[v]
  BY Stepped
<1>2. \A v \in Workers : Fine(req'[v])
  BY <1>1 DEF AllFine
<1>3. QED
  BY <1>2 DEF AllFine

LEMMA FreeFine == Fine(Free)
<1>1. Free.stage = "free" /\ Free.call = NewCall
  BY DEF Free
<1>2. QED
  BY <1>1, NewCallTimely DEF Fine, Handled, Reading

\* What is handed over is never taken back: only an answer adds to it.
LEMMA HandsOn ==
  ASSUME NEW rows, writes' = writes \union rows, UNCHANGED <<apiLog, lost>>
  PROVE  Handed' = Handed \union rows
BY DEF Handed

LEMMA HandlesTold ==
  ASSUME Inv, Told, NEW w \in Workers, NEW c, Handles(w, c)
  PROVE  Told'
<1>1. req'[w] = c /\ \A v \in Workers : v # w => req'[v] = req[v]
  BY Stepped DEF Handles
<1>2. /\ c.serial = req[w].serial /\ c.aim = req[w].aim
      /\ req[w].stage \in Unanswered /\ req[w].stage # "free"
      /\ UNCHANGED <<sent, apiLog, lost, walk>>
  BY DEF Handles, Unanswered, Handled
<1>3. /\ req[w].serial \in Serials /\ req[w].serial > OldRows /\ Unlogged(req[w].serial)
      /\ req[w].serial <= sent
  BY <1>2 DEF Told, Inv, Requests, Sane
<1>4. sent' >= OldRows /\ \A v \in Workers : req'[v].stage # "free" => req'[v].serial > OldRows
  <2>1. \A v \in Workers : v # w => (req'[v].stage # "free" => req'[v].serial > OldRows)
    BY <1>1 DEF Told
  <2>2. QED
    BY <1>1, <1>2, <1>3, <2>1 DEF Told
<1>5. CASE c.stage \in Handled \union {"done"} /\ UNCHANGED <<answered, writes>>
  <2>1. Handed' = Handed
    BY <1>2, <1>5 DEF Handed
  <2>2. \A s : Unlogged(s)' <=> Unlogged(s)
    BY <2>1 DEF Unlogged, RowsOf
  <2>3. \A v \in Workers : req'[v].stage \in Unanswered => RowsOf(Handed', req'[v].serial) = {}
    BY <1>1, <1>2, <1>3, <2>1 DEF Told, Unlogged
  <2>4. \A s \in Serials : s > sent' => RowsOf(Handed', s) = {}
    BY <1>2, <2>1 DEF Told, Unlogged
  <2>5. DbLog => \A s \in Serials : s > OldRows /\ answered'[s].status # 0
                                   => TellsOf(RowsOf(Handed', s), answered'[s])
    BY <1>5, <2>1 DEF Told
  <2>6. QED
    BY <1>4, <2>3, <2>4, <2>5 DEF Told, Unlogged, RowsOf
<1>6. CASE c.stage = "answered"
  <2>1. PICK rows : writes' = writes \union rows /\ RowsTell(c, rows)
    BY <1>6 DEF Handles, Handled
  <2>2. answered' = [answered EXCEPT ![c.serial] = [status |-> c.status, aim |-> c.aim]]
    BY <1>6 DEF Handles, Handled
  <2>3. Handed' = Handed \union rows
    BY <1>2, <2>1, HandsOn
  <2>4. \A row \in rows : row.serial = req[w].serial
    BY <1>2, <2>1 DEF RowsTell
  <2>5. \A s : s # req[w].serial => RowsOf(Handed', s) = RowsOf(Handed, s)
    BY <2>3, <2>4 DEF RowsOf
  <2>6. RowsOf(Handed', req[w].serial) = rows
    BY <1>3, <2>3, <2>4 DEF Unlogged, RowsOf
  <2>7. ASSUME NEW v \in Workers, req'[v].stage \in Unanswered
        PROVE  RowsOf(Handed', req'[v].serial) = {}
    <3>1. v # w
      BY <1>1, <1>6, <2>7 DEF Unanswered, Handled
    <3>2. req'[v] = req[v] /\ req[v].serial # req[w].serial
      BY <1>1, <1>2, <2>7, <3>1 DEF Inv, Requests, Unanswered, Handled
    <3>3. QED
      BY <2>5, <2>7, <3>2 DEF Told, Unlogged
  <2>8. ASSUME NEW s \in Serials, s > sent'
        PROVE  RowsOf(Handed', s) = {}
    <3>1. s # req[w].serial
      BY <1>2, <1>3, <2>8 DEF Serials, Inv, TypeOK
    <3>2. QED
      BY <1>2, <2>5, <2>8, <3>1 DEF Told, Unlogged
  <2>9. ASSUME DbLog, NEW s \in Serials, s > OldRows, answered'[s].status # 0
        PROVE  TellsOf(RowsOf(Handed', s), answered'[s])
    <3>1. CASE s = req[w].serial
      <4>1. answered'[s] = [status |-> c.status, aim |-> c.aim]
        BY <1>2, <2>2, <3>1 DEF Inv, TypeOK
      <4>2. QED
        BY <2>1, <2>6, <2>9, <3>1, <4>1 DEF RowsTell
    <3>2. CASE s # req[w].serial
      <4>1. answered'[s] = answered[s]
        BY <1>2, <2>2, <3>2 DEF Inv, TypeOK
      <4>2. QED
        BY <2>5, <2>9, <3>2, <4>1 DEF Told
    <3>3. QED
      BY <3>1, <3>2
  <2>10. QED
    BY <1>4, <2>7, <2>8, <2>9 DEF Told, Unlogged, RowsOf
<1>7. QED
  BY <1>5, <1>6 DEF Handles

LEMMA HandlesSettled ==
  ASSUME Inv, AllFine, Settled, NEW w \in Workers, NEW c, Handles(w, c)
  PROVE  Settled'
<1>1. req'[w] = c /\ \A v \in Workers : v # w => req'[v] = req[v]
  BY Stepped DEF Handles
<1>2. /\ c.serial = req[w].serial /\ c.aim = req[w].aim
      /\ req[w].stage \in Unanswered /\ req[w].stage # "free"
      /\ sent' = sent /\ c.stage \in Handled \union {"done", "answered"}
  BY DEF Handles, Unanswered, Handled
<1>3. /\ req[w].serial \in Serials /\ req[w].serial <= sent /\ NoAnswer(req[w].serial)
      /\ \A v \in Workers : v # w /\ req[v].stage # "free" => req[v].serial # req[w].serial
  BY <1>2 DEF Inv, Requests, Pending, Sane
<1> DEFINE first == WritesFirst(Serves[req[w].aim])
<1>4. Settles(req[w], c.stage, c.status)
  BY DEF Handles
<1>5. /\ committed' \subseteq committed \union {req[w].serial}
      /\ committed \subseteq committed' /\ undercut \subseteq undercut'
  BY <1>4 DEF Settles
<1>6. req[w].serial \in committed' =>
        \/ req[w].serial \in committed
        \/ first \/ c.stage \in {"rereading", "done"} \/ (c.stage = "answered" /\ c.status = 500)
  BY <1>4 DEF Settles
<1>7. req[w].serial \in committed => first \/ req[w].stage \in {"rereading", "done"}
  BY <1>2 DEF Settled, Unanswered
<1>8. /\ req[w].stage = "rereading" => c.stage \in {"done", "answered"}
      /\ req[w].stage = "done" => c.stage = "answered"
  BY <1>4 DEF Settles
<1>9. \A v \in Workers : req'[v].stage \in (Handled \union {"sent"}) \ {"rereading"} =>
        req'[v].serial \notin committed' \/ WritesFirst(Serves[req'[v].aim])
  <2>1. ASSUME NEW v \in Workers, v # w,
               req'[v].stage \in (Handled \union {"sent"}) \ {"rereading"}
        PROVE  req'[v].serial \notin committed' \/ WritesFirst(Serves[req'[v].aim])
    <3>1. req'[v] = req[v] /\ req[v].stage # "free"
      BY <1>1, <2>1 DEF Handled
    <3>2. req[v].serial # req[w].serial
      BY <1>3, <2>1, <3>1
    <3>3. QED
      BY <1>5, <2>1, <3>1, <3>2 DEF Settled
  <2>2. ASSUME c.stage \in (Handled \union {"sent"}) \ {"rereading"}
        PROVE  c.serial \notin committed' \/ WritesFirst(Serves[c.aim])
    <3>1. c.stage \notin {"rereading", "done", "answered"}
      BY <2>2 DEF Handled
    <3>2. QED
      BY <1>2, <1>6, <1>7, <1>8, <3>1
  <2>3. QED
    BY <1>1, <2>1, <2>2
<1>10. \A v \in Workers : req'[v].stage = "rereading" => Amender(req'[v])
  <2>1. c.stage = "rereading" => Amender(c)
    BY <1>2, <1>4 DEF Settles, Amender
  <2>2. QED
    BY <1>1, <2>1 DEF Settled
<1>11. \A v \in Workers : gone' /\ req'[v].stage \in {"writing", "rereading"} /\ Amender(req'[v])
         => req'[v].serial \in undercut'
  <2>1. ASSUME NEW v \in Workers, req[v].stage \in {"writing", "rereading"}, Amender(req[v]), gone'
        PROVE  req[v].serial \in undercut'
    <3>1. req[v].serial \in Amending
      <4>1. Amends(req[v].served)
        BY <2>1 DEF AllFine, Fine, Handled, Amender
      <4>2. QED
        BY <2>1, <4>1 DEF Amending
    <3>2. CASE gone
      BY <1>5, <2>1, <3>2 DEF Settled
    <3>3. CASE ~gone
      <4>1. undercut' = undercut \union Amending
        BY <1>4, <2>1, <3>3 DEF Settles
      <4>2. QED
        BY <3>1, <4>1
    <3>4. QED
      BY <3>2, <3>3
  <2>2. ASSUME gone', c.stage \in {"writing", "rereading"}, Amender(c)
        PROVE  c.serial \in undercut'
    <3>1. Amender(req[w])
      BY <1>2, <2>2 DEF Amender
    <3>2. CASE c.stage = "writing"
      BY <1>4, <2>2, <3>1, <3>2 DEF Settles
    <3>3. CASE c.stage = "rereading"
      <4>1. req[w].stage = "writing"
        BY <1>4, <3>3 DEF Settles
      <4>2. QED
        BY <1>2, <2>1, <2>2, <3>1, <4>1
    <3>4. QED
      BY <2>2, <3>2, <3>3
  <2>3. QED
    BY <1>1, <2>1, <2>2
<1>12. \A s \in Serials : s > sent' => s \notin committed'
  <2>1. ASSUME NEW s \in Serials, s > sent
        PROVE  s # req[w].serial
    BY <1>3, <2>1 DEF Inv, TypeOK, Serials
  <2>2. QED
    BY <1>2, <1>5, <2>1 DEF Settled
<1>13. ASSUME NEW s \in committed', answered'[s].status \in 400..499
       PROVE  \/ WritesFirst(Serves[answered'[s].aim])
              \/ Amends(Serves[answered'[s].aim]) /\ s \in undercut'
  <2>1. CASE s = req[w].serial
    <3>1. c.stage = "answered"
          /\ answered' = [answered EXCEPT ![c.serial] = [status |-> c.status, aim |-> c.aim]]
      <4>1. answered[s].status = 0
        BY <1>3, <2>1 DEF NoAnswer, Silent
      <4>2. answered' # answered
        BY <1>13, <4>1
      <4>3. QED
        BY <4>2 DEF Handles
    <3>2. answered'[s] = [status |-> c.status, aim |-> req[w].aim]
      BY <1>2, <1>3, <2>1, <3>1 DEF Inv, TypeOK
    <3>3. c.status \in 400..499
      BY <1>13, <3>2
    <3>4. CASE first
      BY <3>2, <3>4
    <3>5. CASE ~first
      <4>1. req[w].serial \in committed
        BY <1>6, <1>13, <2>1, <3>1, <3>3, <3>5
      <4>2. req[w].stage = "rereading" /\ gone
        BY <1>4, <1>7, <3>1, <3>3, <3>5, <4>1 DEF Settles
      <4>3. Amender(req[w]) /\ req[w].serial \in undercut'
        BY <1>5, <4>2 DEF Settled
      <4>4. QED
        BY <2>1, <3>2, <4>3 DEF Amender
    <3>6. QED
      BY <3>4, <3>5
  <2>2. CASE s # req[w].serial
    <3>1. s \in committed /\ s \in Serials
      BY <1>5, <1>13, <2>2 DEF Inv, TypeOK
    <3>2. answered'[s] = answered[s]
      BY <1>2, <2>2, <3>1 DEF Handles, Inv, TypeOK
    <3>3. QED
      BY <1>5, <1>13, <3>1, <3>2 DEF Settled, RefusedChangesNothing
  <2>3. QED
    BY <2>1, <2>2
<1>14. RefusedChangesNothing'
  BY <1>13 DEF RefusedChangesNothing
<1>15. QED
  BY <1>9, <1>10, <1>11, <1>12, <1>14 DEF Settled, Amender

LEMMA SweptOn ==
  ASSUME NEW log, NEW S, NEW T, S \subseteq T, NEW B \in Nat, NEW L \in Int, NEW M \in Int,
         L <= M, NEW ties, Swept(log, ties, S, B, L)
  PROVE  Swept(log, ties, T, B, M)
BY DEF Swept

\* Before the pages: where they lie, in whole numbers.
Ahead == (walk.page - 1) * PageSize
Past == walk.page * PageSize
LEMMA Pages ==
  ASSUME walk.page \in Nat \ {0}
  PROVE  /\ Ahead \in Nat /\ Past \in Nat /\ Past = Ahead + PageSize
         /\ PageSize \in Nat
BY PipelineAssumption DEF Ahead, Past

\* A page has the rows of its window that share their instant with no other.
LEMMA SoleOnPage ==
  ASSUME apiLog \in Seq(Rows), NEW k, NEW S \in OnPage(k), NEW n \in Window(k), Sole(n)
  PROVE  n \in S
<1>1. n \in DOMAIN apiLog /\ DOMAIN apiLog = 1..Len(apiLog) /\ S \subseteq DOMAIN apiLog
      /\ Window(k) \subseteq DOMAIN apiLog
  BY DEF Window, OnPage
<1>2. \A m \in DOMAIN apiLog : SameInstant(m, n) <=> m = n
  <2>1. ASSUME NEW m \in DOMAIN apiLog, SameInstant(m, n), m < n
        PROVE  FALSE
    <3>1. n \in (m + 1)..n
      BY <1>1, <2>1
    <3>2. QED
      BY <2>1, <3>1 DEF SameInstant, Sole
  <2>2. ASSUME NEW m \in DOMAIN apiLog, SameInstant(m, n), n < m
        PROVE  FALSE
    <3>1. n + 1 \in (n + 1)..m
      BY <1>1, <2>2
    <3>2. QED
      BY <2>2, <3>1 DEF SameInstant, Sole
  <2>3. SameInstant(n, n)
    <3>1. (n + 1)..n = {}
      BY <1>1
    <3>2. QED
      BY <3>1 DEF SameInstant
  <2>4. QED
    BY <1>1, <2>1, <2>2, <2>3
<1> DEFINE found == {m \in S : SameInstant(m, n)}
           due == {m \in Window(k) : SameInstant(m, n)}
<1>3. due = {n}
  BY <1>1, <1>2
<1>4. Cardinality(found) = Cardinality(due)
  BY <1>1, Zenon DEF OnPage
<1>5. found \subseteq {n} /\ found \subseteq S
  BY <1>1, <1>2
<1> HIDE DEF found, due
<1>6. found # {}
  BY <1>3, <1>4, FS_Singleton, FS_EmptySet
<1>7. QED
  BY <1>5, <1>6

\* What is found now reaches a page further than what was seen.
LEMMA PageRead ==
  ASSUME walk.page \in Nat \ {0}, apiLog \in Seq(Rows), NEW B \in 0..Len(apiLog),
         Sweeping(apiLog, tied, walk, B), NEW rows, PageNow(rows)
  PROVE  Swept(apiLog, tied, walk.seen \union rows, B, Len(apiLog) - Past)
<1>1. Ahead \in Nat /\ Past \in Nat /\ Past = Ahead + PageSize /\ PageSize \in Nat
  BY Pages
<1>2. Len(apiLog) \in Nat /\ DOMAIN apiLog = 1..Len(apiLog)
  OBVIOUS
<1>3. Swept(apiLog, tied, walk.seen, B, Len(apiLog) - Ahead)
  BY DEF Sweeping, Ahead
<1>4. ASSUME NEW n \in 1..B, Len(apiLog) - Past < n, n \notin tied, n + 1 \notin tied
      PROVE  apiLog[n].serial \in walk.seen \union rows
  <2>1. CASE Len(apiLog) - Ahead < n
    BY <1>3, <1>4, <2>1 DEF Swept
  <2>2. CASE ~(Len(apiLog) - Ahead < n)
    <3>1. n \in DOMAIN apiLog
      BY <1>2
    <3>2. Ahead <= Len(apiLog) - n /\ Len(apiLog) - n < Past
      BY <1>1, <1>2, <1>4, <2>2
    <3>3. n \in Window(walk.page)
      BY <3>1, <3>2 DEF Window, Ahead, Past
    <3>4. PICK S \in OnPage(walk.page) : rows = {apiLog[m].serial : m \in S}
      BY DEF PageNow
    <3>5. n \in S
      BY <1>4, <3>3, SoleOnPage DEF Sole
    <3>6. QED
      BY <3>4, <3>5
  <2>3. QED
    BY <2>1, <2>2
<1>5. QED
  BY <1>4 DEF Swept

\* A step of the reader keeps what it has read well.
LEMMA ReadsWell ==
  ASSUME walk.page \in Nat \ {0}, apiLog \in Seq(Rows), NEW B \in 0..Len(apiLog),
         Sweeping(apiLog, tied, walk, B), NEW r, NEW c, c.aim = Walked,
         ReadWell(apiLog, tied, walk, B, r), Reads(r, c)
  PROVE  ReadWell(apiLog, tied, walk, B, c)
<1>1. PageNow(c.rows) => Swept(apiLog, tied, walk.seen \union c.rows, B, Len(apiLog) - Past)
  BY PageRead
<1>2. Len(apiLog) \in Nat /\ Past \in Nat /\ B \in Nat
  BY Pages
<1>3. CASE c.stage \in {"admitted", "reading"} \/ (c.stage = "answered" /\ c.status # 200)
  BY <1>3 DEF ReadWell
<1>4. CASE c.stage = "answered" /\ r.stage = "done" /\ c.rows = r.rows /\ c.total = r.total
  BY <1>4 DEF ReadWell
<1>5. CASE c.stage = "found" /\ r.stage = "reading" /\ PageNow(c.rows)
  BY <1>1, <1>5 DEF ReadWell, Past
<1>6. CASE c.stage = "counted" /\ r.stage = "reading" /\ c.total = Len(apiLog)
  BY <1>6 DEF ReadWell
<1>7. CASE c.stage = "done" /\ r.stage = "counted" /\ PageNow(c.rows) /\ c.total = r.total
  <2>1. c.total = Len(apiLog)
    BY <1>7 DEF ReadWell
  <2>2. QED
    BY <1>1, <1>2, <1>7, <2>1 DEF ReadWell, Past
<1>8. CASE c.stage = "done" /\ r.stage = "found" /\ c.rows = r.rows /\ c.total = Len(apiLog)
  BY <1>2, <1>8 DEF ReadWell
<1>9. QED
  BY <1>3, <1>4, <1>5, <1>6, <1>7, <1>8 DEF Reads

LEMMA HandlesWalking ==
  ASSUME Inv, Walking, NEW w \in Workers, NEW c, Handles(w, c)
  PROVE  Walking'
<1>1. req'[w] = c /\ \A v \in Workers : v # w => req'[v] = req[v]
  BY Stepped DEF Handles
<1>2. /\ c.aim = req[w].aim /\ req[w].stage # "free" /\ c.stage # "free"
      /\ walk' = walk /\ apiLog' = apiLog /\ tied' = tied /\ Reads(req[w], c)
  BY DEF Handles, Unanswered, Handled
<1>3. \A v \in Workers : Reader(req'[v]) <=> Reader(req[v])
  BY <1>1, <1>2 DEF Reader
<1>4. OneReader'
  BY <1>2, <1>3 DEF Walking, OneReader
<1>5. walk.page \in Nat \ {0} /\ (walk.state = "idle" => walk.page = 1)
  BY DEF Walking
<1>6. ASSUME ~walk.slipped PROVE OnCourse'
  <2>1. PICK B \in 0..Len(apiLog) :
          /\ Sweeping(apiLog, tied, walk, B)
          /\ \A v \in Workers : Reader(req[v]) => ReadWell(apiLog, tied, walk, B, req[v])
    BY <1>6 DEF Walking, OnCourse
  <2>2. apiLog \in Seq(Rows)
    BY DEF Inv, TypeOK
  <2>3. ASSUME NEW v \in Workers, Reader(req'[v])
        PROVE  ReadWell(apiLog, tied, walk, B, req'[v])
    <3>1. CASE v = w
      <4>1. Reader(req[w]) /\ c.aim = Walked
        BY <1>1, <1>2, <2>3, <3>1 DEF Reader
      <4>2. ReadWell(apiLog, tied, walk, B, req[w])
        BY <2>1, <4>1
      <4>3. ReadWell(apiLog, tied, walk, B, c)
        BY <1>2, <1>5, <2>1, <2>2, <4>1, <4>2, ReadsWell
      <4>4. QED
        BY <1>1, <3>1, <4>3
    <3>2. CASE v # w
      BY <1>1, <2>1, <2>3, <3>2
    <3>3. QED
      BY <3>1, <3>2
  <2>4. \E b \in 0..Len(apiLog') :
          /\ Sweeping(apiLog', tied', walk', b)
          /\ \A v \in Workers : Reader(req'[v]) => ReadWell(apiLog', tied', walk', b, req'[v])
    BY <1>2, <2>1, <2>3
  <2>5. QED
    BY <2>4 DEF OnCourse
<1>7. QED
  BY <1>2, <1>4, <1>5, <1>6 DEF Walking

LEMMA HandlesWhole ==
  ASSUME Inv, Whole, NEW w \in Workers, NEW c, Handles(w, c)
  PROVE  Whole'
<1>1. AllFine'
  BY StepFine DEF Whole, Handles
<1>2. QED
  BY <1>1, HandlesTold, HandlesWalking, HandlesSettled DEF Whole

-----------------------------------------------------------------------------
(* The clients.                                                            *)
LEMMA SendTold ==
  ASSUME Inv, Inv', Told, NEW w \in Workers, NEW c, req' = [req EXCEPT ![w] = c],
         c.serial = sent + 1, sent' = sent + 1, sent < MaxSent,
         UNCHANGED <<answered, apiLog, writes, lost>>
  PROVE  Told'
<1>1. req'[w] = c /\ \A v \in Workers : v # w => req'[v] = req[v]
  BY Stepped
<1>2. sent \in Nat /\ OldRows \in Nat /\ sent' = sent + 1 /\ sent >= OldRows
      /\ sent' \in Serials /\ sent + 1 \in Serials
  BY PipelineAssumption DEF Inv, TypeOK, Serials, Told
<1>3. Handed' = Handed
  BY DEF Handed
<1>4. sent' >= OldRows /\ \A v \in Workers : req'[v].stage # "free" => req'[v].serial > OldRows
  <2>1. \A v \in Workers : v # w => (req'[v].stage # "free" => req'[v].serial > OldRows)
    BY <1>1 DEF Told
  <2>2. c.serial > OldRows /\ sent' >= OldRows
    BY <1>2
  <2>3. QED
    BY <1>1, <2>1, <2>2
<1>5. Unlogged(sent + 1)
  <2>1. sent + 1 > sent
    BY <1>2
  <2>2. QED
    BY <1>2, <2>1 DEF Told
<1>6. \A v \in Workers : req'[v].stage \in Unanswered => RowsOf(Handed', req'[v].serial) = {}
  BY <1>1, <1>3, <1>5 DEF Told, Unlogged
<1>7. \A s \in Serials : s > sent' => RowsOf(Handed', s) = {}
  <2>1. \A s \in Serials : s > sent' => s > sent
    BY <1>2 DEF Serials
  <2>2. QED
    BY <1>3, <2>1 DEF Told, Unlogged
<1>8. DbLog => \A s \in Serials : s > OldRows /\ answered'[s].status # 0
                                 => TellsOf(RowsOf(Handed', s), answered'[s])
  BY <1>3 DEF Told
<1>9. QED
  BY <1>4, <1>6, <1>7, <1>8 DEF Told, Unlogged, RowsOf

\* A request that has been sent has fields a new one has.
LEMMA SendFresh ==
  ASSUME NEW r, Shaped(r), r.call = NewCall
  PROVE  LET c == SentAs(r, sent + 1) IN
         /\ Fine(c) /\ c.stage = "sent" /\ c.aim = r.aim /\ c.serial = sent + 1
<1> DEFINE c == SentAs(r, sent + 1)
<1>1. c.stage = "sent" /\ c.aim = r.aim /\ c.serial = sent + 1 /\ c.call = NewCall
  BY SentAsKept, SentAsRest DEF Rest
<1> HIDE DEF c
<1>2. Fine(c)
  BY <1>1, NewCallTimely DEF Fine, Handled, Reading
<1>3. QED
  BY <1>1, <1>2 DEF c

LEMMA SendSettled ==
  ASSUME Inv, Inv', Settled, NEW w \in Workers, NEW c, req' = [req EXCEPT ![w] = c],
         c.serial = sent + 1, c.stage = "sent", sent' = sent + 1, sent < MaxSent,
         UNCHANGED <<answered, committed, role>>
  PROVE  Settled'
<1>1. req'[w] = c /\ \A v \in Workers : v # w => req'[v] = req[v]
  BY Stepped
<1>2. sent \in Nat /\ sent + 1 \in Serials /\ sent + 1 > sent
  BY PipelineAssumption DEF Inv, TypeOK, Serials
<1>3. gone' = gone /\ undercut' = undercut
  BY DEF role
<1>4. c.serial \notin committed
  BY <1>2 DEF Settled
<1>5. \A s \in Serials : s > sent' => s > sent
  BY <1>2 DEF Serials
<1>6. RefusedChangesNothing'
  BY <1>3 DEF Settled, RefusedChangesNothing
<1>7. QED
  BY <1>1, <1>3, <1>4, <1>5, <1>6 DEF Settled, Amender

LEMMA BrowseWhole ==
  ASSUME Inv, Inv', Whole, NEW w \in Workers, NEW n \in Sampled, NEW caller, NEW repeats,
         Browse(w, n, caller, repeats)
  PROVE  Whole'
<1>1. PICK id \in {sent + 1} \union {s \in {sent} : repeats} :
        Send(w, [Free EXCEPT !.aim = n, !.caller = caller, !.id = id,
                             !.sid = jar.sid, !.token = jar.token])
  BY DEF Browse
<1> DEFINE r == [Free EXCEPT !.aim = n, !.caller = caller, !.id = id,
                             !.sid = jar.sid, !.token = jar.token]
           c == SentAs(r, sent + 1)
<1>2. Shaped(r)
  BY FreeSane DEF Sane, Shaped
<1>3. r.aim = n /\ r.call = NewCall
  BY DEF Free
<1>4. Send(w, r) /\ walk' = walk
  BY <1>1 DEF Browse
<1> HIDE DEF r
<1>5. /\ req' = [req EXCEPT ![w] = c] /\ sent < MaxSent /\ sent' = sent + 1
      /\ UNCHANGED <<answered, apiLog, tied, writes, lost, committed, role>>
  BY <1>4 DEF Send, SentAs
<1>6. Fine(c) /\ c.stage = "sent" /\ c.aim = n /\ c.serial = sent + 1
  BY <1>2, <1>3, SendFresh
<1> HIDE DEF c
<1>7. AllFine' /\ Told' /\ Settled'
  BY <1>5, <1>6, StepFine, SendTold, SendSettled DEF Whole
<1>8. req'[w] = c /\ \A v \in Workers : v # w => req'[v] = req[v]
  BY <1>5, Stepped
<1>9. ~Reader(c)
  BY <1>6, PipelineAssumption DEF Reader
<1>10. \A v \in Workers : Reader(req'[v]) => Reader(req[v]) /\ req'[v] = req[v]
  BY <1>8, <1>9
<1>11. OneReader'
  BY <1>4, <1>10 DEF Whole, Walking, OneReader
<1>12. ~walk.slipped => OnCourse'
  BY <1>4, <1>5, <1>10 DEF Whole, Walking, OnCourse
<1>13. QED
  BY <1>4, <1>7, <1>11, <1>12 DEF Whole, Walking

LEMMA WalkWhole ==
  ASSUME Inv, Inv', Whole, NEW w \in Workers, Walk(w)
  PROVE  Whole'
<1> DEFINE r == [Free EXCEPT !.aim = Walked, !.caller = "admin", !.id = sent + 1]
           c == SentAs(r, sent + 1)
<1>1. Send(w, r) /\ walk.state \in {"idle", "turning"}
      /\ walk' = [walk EXCEPT !.state = "waiting",
                              !.there = IF walk.state = "idle" THEN Len(apiLog) ELSE @]
  BY DEF Walk
<1>2. Shaped(r)
  BY FreeSane DEF Sane, Shaped
<1>3. r.aim = Walked /\ r.call = NewCall
  BY DEF Free
<1> HIDE DEF r
<1>5. /\ req' = [req EXCEPT ![w] = c] /\ sent < MaxSent /\ sent' = sent + 1
      /\ UNCHANGED <<answered, apiLog, tied, writes, lost, committed, role>>
  BY <1>1 DEF Send, SentAs
<1>6. Fine(c) /\ c.stage = "sent" /\ c.aim = Walked /\ c.serial = sent + 1
  BY <1>2, <1>3, SendFresh
<1> HIDE DEF c
<1>7. AllFine' /\ Told' /\ Settled'
  BY <1>5, <1>6, StepFine, SendTold, SendSettled DEF Whole
<1>8. req'[w] = c /\ \A v \in Workers : v # w => req'[v] = req[v]
  BY <1>5, Stepped
<1>9. /\ walk'.state = "waiting" /\ walk'.page = walk.page /\ walk'.seen = walk.seen
      /\ walk'.slipped = walk.slipped
      /\ walk'.there = IF walk.state = "idle" THEN Len(apiLog) ELSE walk.there
  BY <1>1 DEF Inv, TypeOK, Walks
<1>10. \A v \in Workers : ~Reader(req[v])
  BY <1>1 DEF Whole, Walking, OneReader
<1>11. OneReader'
  BY <1>8, <1>9, <1>10 DEF OneReader
<1>12. walk'.page \in Nat \ {0} /\ (walk'.state = "idle" => walk'.page = 1)
  BY <1>9 DEF Whole, Walking
<1>13. \A log, ties, wk, b : ReadWell(log, ties, wk, b, c)
  BY <1>6 DEF ReadWell
<1>14. Len(apiLog) \in Nat /\ DOMAIN apiLog = 1..Len(apiLog)
  BY DEF Inv, TypeOK
<1>15. ASSUME ~walk.slipped
       PROVE  \E B \in 0..Len(apiLog) : Sweeping(apiLog, tied, walk', B)
  <2>1. CASE walk.state = "idle"
    <3> DEFINE B == Len(apiLog)
    <3>1. walk.page = 1
      BY <2>1 DEF Whole, Walking
    <3>2. Ahead = 0
      BY <3>1, PipelineAssumption DEF Ahead
    <3>3. walk'.there = B
      BY <1>9, <2>1
    <3>4. Swept(apiLog, tied, walk.seen, B, Len(apiLog) - Ahead)
      BY <1>14, <3>2 DEF Swept
    <3>5. Swept(apiLog, tied, walk'.seen, B, Len(apiLog) - (walk'.page - 1) * PageSize)
      BY <1>9, <3>4 DEF Ahead
    <3>6. Sweeping(apiLog, tied, walk', B)
      BY <1>9, <3>3, <3>5 DEF Sweeping
    <3>7. QED
      BY <1>14, <3>6
  <2>2. CASE walk.state # "idle"
    <3>1. PICK B \in 0..Len(apiLog) : Sweeping(apiLog, tied, walk, B)
      BY <1>15 DEF Whole, Walking, OnCourse
    <3>2. Sweeping(apiLog, tied, walk', B)
      BY <1>9, <2>2, <3>1 DEF Sweeping
    <3>3. QED
      BY <3>2
  <2>3. QED
    BY <2>1, <2>2
<1>16. ASSUME ~walk.slipped PROVE OnCourse'
  <2>1. PICK B \in 0..Len(apiLog) : Sweeping(apiLog, tied, walk', B)
    BY <1>15, <1>16
  <2>2. \A v \in Workers : Reader(req'[v]) => ReadWell(apiLog, tied, walk', B, req'[v])
    BY <1>8, <1>10, <1>13
  <2>3. QED
    BY <1>5, <2>1, <2>2 DEF OnCourse
<1>17. QED
  BY <1>7, <1>9, <1>11, <1>12, <1>16 DEF Whole, Walking

-----------------------------------------------------------------------------
(* The answer reaches the client.                                          *)
LEMMA FreedTold ==
  ASSUME Inv, Told, NEW w \in Workers, req' = [req EXCEPT ![w] = Free],
         UNCHANGED <<sent, answered, apiLog, writes, lost>>
  PROVE  Told'
<1>1. req'[w] = Free /\ \A v \in Workers : v # w => req'[v] = req[v]
  BY Stepped
<1>2. Handed' = Handed
  BY DEF Handed
<1>3. Free.stage = "free" /\ Free.stage \notin Unanswered
  BY FreeSane DEF Unanswered, Handled
<1>4. sent' >= OldRows /\ \A v \in Workers : req'[v].stage # "free" => req'[v].serial > OldRows
  BY <1>1, <1>3 DEF Told
<1>5. \A v \in Workers : req'[v].stage \in Unanswered => RowsOf(Handed', req'[v].serial) = {}
  BY <1>1, <1>2, <1>3 DEF Told, Unlogged
<1>6. \A s \in Serials : s > sent' => RowsOf(Handed', s) = {}
  BY <1>2 DEF Told, Unlogged
<1>7. DbLog => \A s \in Serials : s > OldRows /\ answered'[s].status # 0
                                 => TellsOf(RowsOf(Handed', s), answered'[s])
  BY <1>2 DEF Told
<1>8. QED
  BY <1>4, <1>5, <1>6, <1>7 DEF Told, Unlogged, RowsOf

\* A page that was read well, added to what has been seen.
LEMMA TurnedWell ==
  ASSUME Inv, walk.page \in Nat \ {0}, NEW B \in 0..Len(apiLog),
         Sweeping(apiLog, tied, walk, B), NEW r, ReadWell(apiLog, tied, walk, B, r),
         r.stage = "answered", r.status = 200
  PROVE  /\ Sweeping(apiLog, tied, Turned(r), B)
         /\ Turned(r).page \in Nat \ {0} /\ Turned(r).state \in {"turning", "over"}
         /\ Turned(r).slipped = walk.slipped
<1> DEFINE more == Past < r.total
           wk == Turned(r)
           seen == walk.seen \union r.rows
<1>1. /\ Ahead \in Nat /\ Past \in Nat /\ Past = Ahead + PageSize
      /\ Len(apiLog) \in Nat /\ B \in Nat
  BY Pages DEF Inv, TypeOK
<1>2. /\ r.total \in Nat /\ r.total <= Len(apiLog)
      /\ Swept(apiLog, tied, seen, B, r.total - Past)
  BY DEF ReadWell, Past
<1>3. /\ wk.seen = seen /\ wk.there = walk.there /\ wk.slipped = walk.slipped
      /\ wk.page = IF more THEN walk.page + 1 ELSE walk.page
      /\ wk.state = IF more THEN "turning" ELSE "over"
  BY DEF Turned, Inv, TypeOK, Walks, Past
<1> HIDE DEF wk, seen
<1>4. CASE more
  <2>1. (wk.page - 1) * PageSize = Past
    BY <1>3, <1>4 DEF Past
  <2>2. Swept(apiLog, tied, seen, B, Len(apiLog) - Past)
    <3>1. r.total - Past <= Len(apiLog) - Past
      BY <1>1, <1>2
    <3>2. QED
      BY <1>1, <1>2, <3>1, SweptOn
  <2>3. Swept(apiLog, tied, wk.seen, B, Len(apiLog) - (wk.page - 1) * PageSize)
    BY <1>3, <2>1, <2>2
  <2>4. Sweeping(apiLog, tied, wk, B)
    BY <1>3, <1>4, <2>3 DEF Sweeping
  <2>5. QED
    BY <1>3, <1>4, <2>4 DEF wk
<1>5. CASE ~more
  <2>1. Swept(apiLog, tied, seen, B, 0)
    <3>1. r.total - Past <= 0
      BY <1>1, <1>2, <1>5
    <3>2. QED
      BY <1>1, <1>2, <3>1, SweptOn
  <2>2. Swept(apiLog, tied, seen, B, Len(apiLog) - Ahead)
    <3>1. r.total - Past <= Len(apiLog) - Ahead
      BY <1>1, <1>2, PipelineAssumption
    <3>2. QED
      BY <1>1, <1>2, <3>1, SweptOn
  <2>3. Swept(apiLog, tied, wk.seen, B, Len(apiLog) - (wk.page - 1) * PageSize)
    BY <1>3, <1>5, <2>2 DEF Ahead
  <2>4. Sweeping(apiLog, tied, wk, B)
    BY <1>3, <2>1, <2>3 DEF Sweeping
  <2>5. QED
    BY <1>3, <1>5, <2>4 DEF wk
<1>6. QED
  BY <1>4, <1>5

LEMMA FreedSettled ==
  ASSUME Inv, Settled, NEW w \in Workers, req' = [req EXCEPT ![w] = Free],
         UNCHANGED <<sent, answered, committed, role>>
  PROVE  Settled'
<1>1. req'[w].stage = "free" /\ \A v \in Workers : v # w => req'[v] = req[v]
  BY Stepped, FreeSane
<1>2. gone' = gone /\ undercut' = undercut
  BY DEF role
<1>3. RefusedChangesNothing'
  BY <1>2 DEF Settled, RefusedChangesNothing
<1>4. QED
  BY <1>1, <1>2, <1>3 DEF Settled, Amender, Handled

LEMMA DeliverWhole ==
  ASSUME Inv, Inv', Whole, NEW w \in Workers, Deliver(w)
  PROVE  Whole'
<1>1. /\ req' = [req EXCEPT ![w] = Free] /\ req[w].stage = "answered"
      /\ UNCHANGED <<sent, answered, apiLog, tied, writes, lost, committed, role>>
  BY DEF Deliver
<1>2. AllFine' /\ Told' /\ Settled'
  BY <1>1, StepFine, FreeFine, FreedTold, FreedSettled DEF Whole
<1>3. req'[w] = Free /\ \A v \in Workers : v # w => req'[v] = req[v]
  BY <1>1, Stepped
<1>4. ~Reader(Free)
  BY FreeSane DEF Reader
<1>5. \A v \in Workers : Reader(req'[v]) => v # w /\ Reader(req[v]) /\ req'[v] = req[v]
  BY <1>3, <1>4
<1>6. CASE ~Reader(req[w])
  <2>1. walk' = walk
    BY <1>1, <1>6 DEF Deliver, Reader
  <2>2. OneReader'
    BY <1>5, <2>1 DEF Whole, Walking, OneReader
  <2>3. ~walk.slipped => OnCourse'
    BY <1>1, <1>5, <2>1 DEF Whole, Walking, OnCourse
  <2>4. QED
    BY <1>2, <2>1, <2>2, <2>3 DEF Whole, Walking
<1>7. CASE Reader(req[w])
  <2>1. \A v \in Workers : ~Reader(req'[v])
    BY <1>5, <1>7 DEF Whole, Walking, OneReader
  <2>2. OneReader'
    BY <2>1 DEF OneReader
  <2>3. walk.state = "waiting" /\ walk.page \in Nat \ {0}
    BY <1>7 DEF Whole, Walking, OneReader
  <2>4. CASE req[w].status = 200
    <3>1. walk' = Turned(req[w])
      BY <1>7, <2>4 DEF Deliver, Reader
    <3>2. walk'.slipped = walk.slipped /\ walk'.page \in Nat \ {0}
          /\ walk'.state \in {"turning", "over"}
      <4>1. walk'.slipped = walk.slipped /\ walk'.state \in {"turning", "over"}
        BY <3>1 DEF Turned, Inv, TypeOK, Walks
      <4>2. walk'.page \in {walk.page, walk.page + 1}
        BY <3>1 DEF Turned, Inv, TypeOK, Walks
      <4>3. QED
        BY <2>3, <4>1, <4>2
    <3>3. ASSUME ~walk.slipped PROVE OnCourse'
      <4>1. PICK B \in 0..Len(apiLog) :
              /\ Sweeping(apiLog, tied, walk, B)
              /\ \A v \in Workers : Reader(req[v]) => ReadWell(apiLog, tied, walk, B, req[v])
        BY <3>3 DEF Whole, Walking, OnCourse
      <4>2. ReadWell(apiLog, tied, walk, B, req[w])
        BY <1>7, <4>1
      <4>3. Sweeping(apiLog, tied, walk', B)
        BY <1>1, <2>3, <2>4, <3>1, <4>1, <4>2, TurnedWell
      <4>4. QED
        BY <1>1, <2>1, <4>3 DEF OnCourse
    <3>4. QED
      BY <1>2, <2>2, <3>2, <3>3 DEF Whole, Walking
  <2>5. CASE req[w].status # 200
    <3>1. walk' = [walk EXCEPT !.state = "failed"]
      BY <1>7, <2>5 DEF Deliver, Reader
    <3>2. /\ walk'.state = "failed" /\ walk'.page = walk.page /\ walk'.seen = walk.seen
          /\ walk'.there = walk.there /\ walk'.slipped = walk.slipped
      BY <3>1 DEF Inv, TypeOK, Walks
    <3>3. ASSUME ~walk.slipped PROVE OnCourse'
      <4>1. PICK B \in 0..Len(apiLog) : Sweeping(apiLog, tied, walk, B)
        BY <3>3 DEF Whole, Walking, OnCourse
      <4>2. Sweeping(apiLog, tied, walk', B)
        BY <3>2, <4>1 DEF Sweeping
      <4>3. QED
        BY <1>1, <2>1, <4>2 DEF OnCourse
    <3>4. QED
      BY <1>2, <2>2, <2>3, <3>2, <3>3 DEF Whole, Walking
  <2>6. QED
    BY <2>4, <2>5
<1>8. QED
  BY <1>6, <1>7

-----------------------------------------------------------------------------
(* The rows of the log, and what leaves all of this alone.                 *)
LEMMA HandedTold ==
  ASSUME Told, UNCHANGED <<req, sent, answered>>, Handed' = Handed
  PROVE  Told'
BY DEF Told, Unlogged, RowsOf

LEMMA AsideSettled ==
  ASSUME Settled, UNCHANGED <<req, sent, answered, committed, role>>
  PROVE  Settled'
BY DEF Settled, RefusedChangesNothing, Amender, role

LEMMA LoseLogWhole ==
  ASSUME Whole, NEW row \in writes, LoseLog(row)
  PROVE  Whole'
<1>1. Handed' = Handed
  BY DEF Handed, LoseLog
<1>2. AllFine'
  BY DEF Whole, AllFine, LoseLog
<1>3. Told'
  BY <1>1, HandedTold DEF Whole, LoseLog
<1>4. Walking'
  BY DEF Whole, Walking, OneReader, OnCourse, LoseLog
<1>6. Settled'
  BY AsideSettled DEF Whole, LoseLog
<1>5. QED
  BY <1>2, <1>3, <1>4, <1>6 DEF Whole

\* A row at the end of the log pushes the others back.
LEMMA RowAdded ==
  ASSUME apiLog \in Seq(Rows), walk.page \in Nat \ {0}, NEW B \in 0..Len(apiLog),
         NEW log, DOMAIN log = 1..(Len(apiLog) + 1), Len(log) = Len(apiLog) + 1,
         \A n \in 1..Len(apiLog) : log[n] = apiLog[n],
         NEW ties, tied \subseteq ties
  PROVE  /\ \A S, L : Swept(apiLog, tied, S, B, L) => Swept(log, ties, S, B, L)
         /\ Sweeping(apiLog, tied, walk, B) => Sweeping(log, ties, walk, B)
<1>1. Len(apiLog) \in Nat /\ B \in Nat /\ \A n \in 1..B : log[n] = apiLog[n]
  OBVIOUS
<1>2. \A S, L : Swept(apiLog, tied, S, B, L) => Swept(log, ties, S, B, L)
  BY <1>1 DEF Swept
<1>3. ASSUME Sweeping(apiLog, tied, walk, B) PROVE Sweeping(log, ties, walk, B)
  <2>1. walk.there = B
    BY <1>3 DEF Sweeping
  <2>2. Swept(log, ties, walk.seen, B, Len(apiLog) - Ahead)
    BY <1>2, <1>3 DEF Sweeping, Ahead
  <2>3. Len(apiLog) - Ahead <= Len(log) - Ahead /\ Ahead \in Nat /\ Len(log) \in Nat
    BY <1>1, Pages
  <2>4. Swept(log, ties, walk.seen, B, Len(log) - Ahead)
    BY <1>1, <2>2, <2>3, SweptOn
  <2>5. walk.state = "over" => Swept(log, ties, walk.seen, B, 0)
    BY <1>2, <1>3 DEF Sweeping
  <2>6. QED
    BY <2>1, <2>4, <2>5 DEF Sweeping, Ahead
<1>4. QED
  BY <1>2, <1>3

LEMMA CreateApiLogWhole ==
  ASSUME Inv, Whole, NEW row \in writes, CreateApiLog(row)
  PROVE  Whole'
<1>1. row \in Rows /\ apiLog \in Seq(Rows)
      /\ UNCHANGED <<req, sent, answered>> /\ writes' = writes \ {row}
  BY DEF Inv, TypeOK, CreateApiLog
<1>2. AllFine' /\ Settled'
  BY <1>1, AsideSettled DEF Whole, AllFine, CreateApiLog
<1>3. CASE Taken(row)
  <2>1. lost' = lost \union {row} /\ apiLog' = apiLog /\ walk' = walk /\ tied' = tied
    BY <1>3 DEF CreateApiLog
  <2>2. Handed' = Handed
    BY <1>1, <2>1 DEF Handed
  <2>3. Told'
    BY <1>1, <2>2, HandedTold DEF Whole
  <2>4. Walking'
    BY <1>1, <2>1 DEF Whole, Walking, OneReader, OnCourse
  <2>5. QED
    BY <1>2, <2>3, <2>4 DEF Whole
<1>4. CASE ~Taken(row)
  <2> DEFINE slips == \E v \in Workers : req[v].stage = "counted"
  <2>1. /\ apiLog' = Append(apiLog, row) /\ lost' = lost /\ tied \subseteq tied'
        /\ walk' = [walk EXCEPT !.slipped = @ \/ slips]
    BY <1>4 DEF CreateApiLog
  <2>2. /\ DOMAIN apiLog = 1..Len(apiLog) /\ DOMAIN apiLog' = 1..(Len(apiLog) + 1)
        /\ Len(apiLog') = Len(apiLog) + 1 /\ Len(apiLog) \in Nat
        /\ apiLog'[Len(apiLog) + 1] = row
        /\ \A n \in 1..Len(apiLog) : apiLog'[n] = apiLog[n]
    BY <1>1, <2>1
  <2>3. Handed' = Handed
    <3>1. {apiLog'[n] : n \in DOMAIN apiLog'} = {apiLog[n] : n \in DOMAIN apiLog} \union {row}
      BY <2>2
    <3>2. QED
      BY <1>1, <2>1, <3>1 DEF Handed
  <2>4. Told'
    BY <1>1, <2>3, HandedTold DEF Whole
  <2>5. /\ walk'.state = walk.state /\ walk'.page = walk.page /\ walk'.seen = walk.seen
        /\ walk'.there = walk.there /\ (~walk'.slipped => ~walk.slipped /\ ~slips)
    BY <2>1 DEF Inv, TypeOK, Walks
  <2>6. OneReader'
    BY <1>1, <2>5 DEF Whole, Walking, OneReader
  <2>7. walk'.page \in Nat \ {0} /\ (walk'.state = "idle" => walk'.page = 1)
    BY <2>5 DEF Whole, Walking
  <2>8. ASSUME ~walk'.slipped PROVE OnCourse'
    <3>1. PICK B \in 0..Len(apiLog) :
            /\ Sweeping(apiLog, tied, walk, B)
            /\ \A v \in Workers : Reader(req[v]) => ReadWell(apiLog, tied, walk, B, req[v])
      BY <2>5, <2>8 DEF Whole, Walking, OnCourse
    <3>2. /\ \A S, L : Swept(apiLog, tied, S, B, L) => Swept(apiLog', tied', S, B, L)
          /\ Sweeping(apiLog', tied', walk, B)
      BY <1>1, <2>1, <2>2, <2>7, <2>5, <3>1, RowAdded
    <3>3. Sweeping(apiLog', tied', walk', B)
      BY <2>5, <3>2 DEF Sweeping
    <3>4. ASSUME NEW v \in Workers, Reader(req[v])
          PROVE  ReadWell(apiLog', tied', walk', B, req[v])
      <4>1. ReadWell(apiLog, tied, walk, B, req[v]) /\ req[v].stage # "counted"
        BY <2>5, <2>8, <3>1, <3>4
      <4>2. Len(apiLog) - Past <= Len(apiLog') - Past /\ Past \in Nat /\ B \in Nat
            /\ Len(apiLog) - Past \in Int /\ Len(apiLog') - Past \in Int
        BY <2>2, <2>5, <2>7, Pages
      <4>3. CASE req[v].stage = "found"
        <5>1. Swept(apiLog', tied', walk.seen \union req[v].rows, B, Len(apiLog) - Past)
          BY <3>2, <4>1, <4>3 DEF ReadWell, Past
        <5>2. Swept(apiLog', tied', walk.seen \union req[v].rows, B, Len(apiLog') - Past)
          BY <4>2, <5>1, SweptOn
        <5>3. QED
          BY <2>5, <4>3, <5>2 DEF ReadWell, Past
      <4>4. CASE req[v].stage = "done" \/ (req[v].stage = "answered" /\ req[v].status = 200)
        <5>1. /\ req[v].total \in Nat /\ req[v].total <= Len(apiLog)
              /\ Swept(apiLog', tied', walk.seen \union req[v].rows, B, req[v].total - Past)
          BY <3>2, <4>1, <4>4 DEF ReadWell, Past
        <5>2. req[v].total <= Len(apiLog')
          BY <2>2, <5>1
        <5>3. QED
          BY <2>5, <4>4, <5>1, <5>2 DEF ReadWell, Past
      <4>5. QED
        BY <4>1, <4>3, <4>4 DEF ReadWell
    <3>5. B \in 0..Len(apiLog')
      BY <2>2
    <3>6. QED
      BY <1>1, <3>3, <3>4, <3>5 DEF OnCourse
  <2>9. QED
    BY <1>2, <2>4, <2>6, <2>7, <2>8 DEF Whole, Walking
<1>5. QED
  BY <1>3, <1>4

LEMMA AsideWhole ==
  ASSUME Whole, UNCHANGED <<req, sent, answered, apiLog, tied, writes, lost, walk>>,
         UNCHANGED <<committed, role>>
  PROVE  Whole'
<1>1. AllFine'
  BY DEF Whole, AllFine
<1>2. Handed' = Handed
  BY DEF Handed
<1>3. Told'
  BY <1>2, HandedTold DEF Whole
<1>4. Walking'
  BY DEF Whole, Walking, OneReader, OnCourse
<1>6. Settled'
  BY AsideSettled DEF Whole
<1>5. QED
  BY <1>1, <1>3, <1>4, <1>6 DEF Whole

-----------------------------------------------------------------------------
LEMMA InitWhole == Init => Whole
<1> SUFFICES ASSUME Init PROVE Whole
  OBVIOUS
<1>1. \A w \in Workers : req[w] = Free
  BY DEF Init
<1>2. AllFine
  BY <1>1, FreeFine DEF AllFine
<1>3. sent = OldRows /\ OldRows \in Nat /\ MaxSent \in Nat
  BY PipelineAssumption DEF Init
<1>4. \A row \in Handed : row.serial \in 1..OldRows
  <2>1. apiLog = [n \in 1..OldRows |-> OldRow(n)] /\ writes = {} /\ lost = {}
    BY DEF Init
  <2>2. \A n \in 1..OldRows : OldRow(n).serial = n
    BY DEF OldRow
  <2>3. QED
    BY <2>1, <2>2 DEF Handed
<1>5. \A s \in Serials : s > OldRows => Unlogged(s)
  BY <1>3, <1>4 DEF Unlogged, RowsOf, Serials
<1>6. \A s \in Serials : s > OldRows => answered[s].status = 0
  <2>1. \A s \in Serials : answered[s].status = IF s <= OldRows THEN 200 ELSE 0
    BY DEF Init
  <2>2. QED
    BY <1>3, <2>1 DEF Serials
<1>7. Told
  <2>1. \A w \in Workers : req[w].stage = "free"
    BY <1>1, FreeSane
  <2>2. sent >= OldRows
    BY <1>3
  <2>3. QED
    BY <1>3, <1>5, <1>6, <2>1, <2>2 DEF Told, Unanswered, Handled
<1>8. Walking
  <2>1. \A w \in Workers : ~Reader(req[w])
    BY <1>1, FreeSane DEF Reader
  <2>2. /\ walk.state = "idle" /\ walk.page = 1 /\ walk.there = 0
    BY DEF Init
  <2>3. Len(apiLog) \in Nat /\ 0 \in 0..Len(apiLog)
    <3>1. apiLog = [n \in 1..OldRows |-> OldRow(n)]
      BY DEF Init
    <3>2. Len(apiLog) = OldRows
      BY <1>3, <3>1
    <3>3. QED
      BY <1>3, <3>2
  <2>4. \A S, L : Swept(apiLog, tied, S, 0, L)
    BY DEF Swept
  <2>5. Sweeping(apiLog, tied, walk, 0)
    BY <2>2, <2>4 DEF Sweeping
  <2>6. OnCourse
    BY <2>1, <2>3, <2>5 DEF OnCourse
  <2>7. QED
    BY <2>1, <2>2, <2>6 DEF Walking, OneReader
<1>10. Settled
  <2>1. committed = {} /\ \A w \in Workers : req[w].stage = "free"
    BY <1>1, FreeSane DEF Init
  <2>2. QED
    BY <2>1 DEF Settled, RefusedChangesNothing, Handled
<1>9. QED
  BY <1>2, <1>7, <1>8, <1>10 DEF Whole

LEMMA NextWhole == Inv /\ Inv' /\ Whole /\ [Next]_vars => Whole'
<1> SUFFICES ASSUME Inv, Inv', Whole, [Next]_vars PROVE Whole'
  OBVIOUS
<1>1. ASSUME NEW w \in Workers, Proceed(w) PROVE Whole'
  <2>1. CASE Deliver(w)
    BY <2>1, DeliverWhole
  <2>2. CASE ~Deliver(w)
    <3>1. AllFine
      BY DEF Whole
    <3>2. \E c : Handles(w, c)
      BY <1>1, <2>2, <3>1, EnterHandles, AuthorizeHandles, FindHandles, WriteHandles,
         RereadHandles, FindRowsHandles, CountRowsHandles, FinishHandles DEF Proceed
    <3>3. QED
      BY <3>2, HandlesWhole
  <2>3. QED
    BY <2>1, <2>2
<1>2. ASSUME NEW w \in Workers, Walk(w) PROVE Whole'
  BY <1>2, WalkWhole
<1>3. ASSUME NEW w \in Workers, NEW n \in Sampled, NEW caller \in Asking(n),
             Browse(w, n, caller, TRUE)
      PROVE  Whole'
  BY <1>3, BrowseWhole
<1>4. CASE Restart \/ TokenExpires
  BY <1>4, AsideWhole DEF Restart, TokenExpires
<1>5. ASSUME NEW row \in writes, CreateApiLog(row) \/ LoseLog(row) PROVE Whole'
  BY <1>5, CreateApiLogWhole, LoseLogWhole
<1>6. CASE UNCHANGED vars
  BY <1>6, AsideWhole DEF vars
<1>7. QED
  BY <1>1, <1>2, <1>3, <1>4, <1>5, <1>6 DEF Next

LEMMA AllInvariant == Spec => [](Inv /\ Goals /\ Whole)
<1>1. Init => Inv /\ Goals /\ Whole
  BY InitInv, InitWhole
<1>2. Inv /\ Goals /\ Whole /\ [Next]_vars => Inv' /\ Goals' /\ Whole'
  BY NextInv, NextWhole
<1>3. QED
  BY <1>1, <1>2, PTL DEF Spec

(* For any routes and roles of the callers, a 4xx means that nothing has   *)
(* been written, but for logins and refreshes (auth.service 113-121), and  *)
(* but for an assignment of permissions (roles.service 391-447) when the   *)
(* role was deleted between its two look-ups.                              *)
THEOREM RefusalsHarmless == Spec => []RefusedChangesNothing
<1>1. Whole => RefusedChangesNothing
  BY DEF Whole, Settled
<1>2. QED
  BY <1>1, AllInvariant, PTL

(* log.interceptor 55-150 with the exception filter: what the API log has, *)
(* or was to have, of an answer is one row that tells the status, for the  *)
(* handlers of logged routes; only of an answer that failed behind the     *)
(* interceptor may the row say 200.                                        *)
THEOREM LogTruthful == Spec => []LogTellsAnswer
<1>1. Whole => LogTellsAnswer
  <2>1. SUFFICES ASSUME Whole, DbLog, NEW s \in Serials, s > OldRows, answered[s].status # 0
                 PROVE  TellsOf(RowsOf(Handed, s), answered[s])
    BY DEF LogTellsAnswer, TellsOf
  <2>2. QED
    BY <2>1 DEF Whole, Told
<1>2. QED
  BY <1>1, AllInvariant, PTL

(* retryable.decorator 121-186: for any delays and any number of retries,  *)
(* a call is never later than its time and one attempt or one late wake.   *)
THEOREM RetryBounded == Spec => []RetryInTime
<1>1. Whole => RetryInTime
  BY DEF Whole, AllFine, Fine, Timely, RetryInTime
<1>2. QED
  BY <1>1, AllInvariant, PTL

(* logs.service findApiLogs: for any size of page, any rows that come and  *)
(* any order of the rows of one instant, a walk over the pages misses a    *)
(* row with an instant of its own only if another row came between the     *)
(* count and the rows of one page.                                         *)
THEOREM WalkSees == Spec => []WalkSeesAll
<1>1. Inv /\ Whole => WalkSeesAll
  <2>1. SUFFICES ASSUME Inv, Whole, walk.state = "over", ~walk.slipped,
                        NEW n \in 1..walk.there, Sole(n)
                 PROVE  apiLog[n].serial \in walk.seen
    BY DEF WalkSeesAll
  <2>2. PICK B \in 0..Len(apiLog) : Sweeping(apiLog, tied, walk, B)
    BY <2>1 DEF Whole, Walking, OnCourse
  <2>3. n \in 1..B /\ Swept(apiLog, tied, walk.seen, B, 0)
    BY <2>1, <2>2 DEF Sweeping
  <2>4. QED
    BY <2>1, <2>3 DEF Swept, Sole
<1>2. QED
  BY <1>1, AllInvariant, PTL
=============================================================================
