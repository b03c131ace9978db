-------------------------- MODULE MCRequestPipeline --------------------------
(* RequestPipeline for TLC: a login, which is not logged, the assignment of *)
(* permissions to a role and the deletion of that role.                     *)
EXTENDS RequestPipeline

Position(verb, path) == CHOOSE n \in DOMAIN Routes : Routes[n].verb = verb /\ Routes[n].path = path

TheSample == {Position("POST", <<"auth", "login">>),
              Position("POST", <<"roles", ":id", "permissions">>),
              Position("DELETE", <<"roles", ":id">>)}
TheWalk == Position("GET", <<"logs", "api">>)
=============================================================================
