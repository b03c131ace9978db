-------------------------- MODULE BreakerAutomaton --------------------------
(***************************************************************************)
(* The three states of a circuit breaker and what may move it between      *)
(* them: an open circuit is tried again only after a quiet period without  *)
(* failures, and closes by way of the half-open state or by hand.          *)
(***************************************************************************)
EXTENDS Naturals

CONSTANT Timeout

VARIABLES
    state,  \* "CLOSED", "OPEN" or "HALF_OPEN"
    quiet,  \* ticks since the last failure, up to Timeout
    resets  \* how often the circuit was reset by hand

breakerVars == <<state, quiet, resets>>

Init == state = "CLOSED" /\ quiet = Timeout /\ resets = 0

(* Trip or trip again; a late failure of an open circuit prolongs it. *)
FailureSeen ==
    /\ quiet' = 0
    /\ state' \in IF state = "CLOSED" THEN {"CLOSED", "OPEN"} ELSE {"OPEN"}
    /\ UNCHANGED resets

Try ==
    /\ state = "OPEN" /\ quiet = Timeout
    /\ state' = "HALF_OPEN"
    /\ UNCHANGED <<quiet, resets>>

Recover ==
    /\ state = "HALF_OPEN"
    /\ state' = "CLOSED"
    /\ quiet' = Timeout
    /\ UNCHANGED resets

Reset ==
    /\ resets' = resets + 1
    /\ state' = "CLOSED"
    /\ quiet' = Timeout

Pass == quiet' = quiet + 1 /\ quiet < Timeout /\ UNCHANGED <<state, resets>>

Next == FailureSeen \/ Try \/ Recover \/ Reset \/ Pass

Spec == Init /\ [][Next]_breakerVars
=============================================================================
