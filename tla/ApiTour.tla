------------------------------- MODULE ApiTour -------------------------------
(***************************************************************************)
(* An administrator with a new browser goes through the whole API, route   *)
(* after route, one request at a time, and sends nothing but good requests *)
(* to a service that is well: what is refused is refused by the pipeline.  *)
(* A route with a declared limit is called once more than the limit, one   *)
(* that is to be left alone by the throttlers once more than they allow.   *)
(*                                                                         *)
(* When the token of the first contact is of age, and another one has been *)
(* fetched, the tour ends with errands: a shorter list of permissions for  *)
(* a role, a new account, and the deletion of that account.                *)
(***************************************************************************)
EXTENDS RequestPipeline, RoleGrants

VARIABLES
  at,       \* position of the stop, 0 for the first contact
  left,     \* calls of it that are left
  links,    \* the role's permissions
  account,  \* the account of the errands: "none" before, or "active"
  diverged  \* history: the routes that did not answer as declared, and why

tourVars == <<vars, at, left, links, account, diverged>>

Tourist == 1
Stop(verb, path) == CHOOSE n \in DOMAIN Routes : Routes[n].verb = verb /\ Routes[n].path = path
FirstContact == Stop("GET", <<"api">>)
Assignment == Stop("POST", <<"roles", ":id", "permissions">>)
Creation == Stop("POST", <<"users">>)
Deletion == Stop("DELETE", <<"users", ":id">>)

Errands == <<Stop("GET", <<"roles", ":id", "permissions">>), Assignment, Creation, Deletion>>
Ends == Len(Routes) + Len(Errands)
Aim == IF at = 0 THEN FirstContact
       ELSE IF at <= Len(Routes) THEN at ELSE Errands[at - Len(Routes)]

\* The role has two permissions; the list of the errand names one of them.
TheRole == "role"
Full == {TheRole} \X {"read", "write"}
Listed == {"read"}

Calls(n) ==
  IF n > Len(Routes) THEN 1
  ELSE IF Routes[n].perMinute > 0 THEN Routes[n].perMinute + 1
  ELSE IF Routes[n].skips THEN PerMinute + 1 ELSE 1

TourInit ==
  /\ Init /\ jar.sid = 0 /\ tied = {}
  /\ at = 0 /\ left = 1
  /\ links = Full /\ account = "none"
  /\ diverged = {}

Ask ==
  /\ left > 0
  /\ left' = left - 1
  /\ Browse(Tourist, Aim, "admin", FALSE)
  /\ UNCHANGED <<at, links, account, diverged>>

Rests == left = 0 /\ req[Tourist].stage = "free"

TurnTo ==
  /\ Rests /\ at < Ends
  /\ at = Len(Routes) => jar.token = {}
  /\ at' = at + 1 /\ left' = Calls(at + 1)
  /\ UNCHANGED <<vars, links, account, diverged>>

ComeOfAge ==
  /\ Rests /\ at = Len(Routes)
  /\ TokenExpires
  /\ UNCHANGED <<at, left, links, account, diverged>>

\* remove: an account that is active is not deleted.
DeletionRefused(r) == r.served = Deletion /\ account = "active"

\* Why the answer is not the one the declarations of the route speak of.
Reasons(r) ==
  LET route == Routes[r.aim] IN
  {why \in {"shadowed", "csrf", "forbidden", "throttled", "unthrottled", "notReplaced", "notDeleted"} :
     CASE why = "shadowed" -> Serves[r.aim] # r.aim
       [] why = "csrf" -> r.status = 403 /\ CsrfRefuses(r)
       [] why = "forbidden" -> r.status = 403 /\ ~CsrfRefuses(r)
       [] why = "throttled" -> r.status = 429 /\ (route.skips \/ left > 0)
       [] why = "unthrottled" -> r.status # 429 /\ left = 0 /\ route.perMinute > 0
       [] why = "notReplaced" -> r.served = Assignment /\ r.status = 200
                                   /\ links # {TheRole} \X Listed
       [] why = "notDeleted" -> DeletionRefused(r)}

\* create makes an active account.
Effects(r) ==
  /\ links' = IF r.served = Assignment THEN Regranted(links, TheRole, Listed) ELSE links
  /\ account' = IF r.served = Creation THEN "active" ELSE account

\* Nothing goes wrong but what the pipeline refuses, or the handler must.
Step ==
  /\ Proceed(Tourist)
  /\ LET r == req[Tourist]
         s == req'[Tourist] IN
     /\ s.call = NewCall
     /\ s.status \notin {400, 401, 500}
     /\ s.status = 404 <=> r.stage = "writing" /\ DeletionRefused(r)
     /\ IF committed' # committed /\ r.stage = "writing"
          THEN Effects(r) ELSE UNCHANGED <<links, account>>
     /\ diverged' = IF r.stage = "answered" /\ at > 0
                      THEN diverged \union {<<at, why>> : why \in Reasons(r)}
                      ELSE diverged
  /\ UNCHANGED <<at, left>>

TourNext == Ask \/ TurnTo \/ ComeOfAge \/ Step
TourSpec == TourInit /\ [][TourNext]_tourVars

-----------------------------------------------------------------------------
Over == at = Ends /\ Rests

(* What the decorators of the controllers, the seed, main.ts and the tests *)
(* say of the routes: each is reached under its own path, an administrator *)
(* may call it, the token of the first answer is good for what follows, a  *)
(* declared limit is the limit, what skips the throttlers is never         *)
(* throttled, an assignment replaces the permissions of the role, and an   *)
(* account that was created can be deleted.  Stated of the whole tour, so  *)
(* that a behaviour shows all that differs.                                *)
AnswersAsDeclared == Over => diverged = {}
=============================================================================
