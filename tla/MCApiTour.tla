------------------------------ MODULE MCApiTour ------------------------------
(* ApiTour for TLC: every route, and throttlers that allow a little more   *)
(* than the highest limit a route declares.                                *)
EXTENDS ApiTour

TheWalk == CHOOSE n \in DOMAIN Routes : Routes[n].path = <<"logs", "api">>

\* The tour asks for the route of the walk as well, whose calls are not counted.
OtherRoutes == DOMAIN Routes \ {TheWalk}

=============================================================================
