-------------------------- MODULE CircuitBreaker --------------------------
(***************************************************************************)
(* CircuitBreakerService.execute for the circuit 'redis', called by the    *)
(* operations of RedisCacheService for several requests at once.  The      *)
(* breaker is synchronous up to the await of the operation and after it,   *)
(* so a call is two steps, and other calls start and end between them.     *)
(* Redis may go down and come back.                                        *)
(***************************************************************************)
EXTENDS Integers, FiniteSets

CONSTANTS
    Workers,           \* requests that call execute
    ThresholdPercent,  \* failureThreshold, 50 percent
    SuccessThreshold,  \* successThreshold, 3
    Timeout,           \* timeout, 60000 ms, in ticks
    MinimumRequests,   \* minimumRequests, 10
    MaxRequests,       \* bound: requests of a closed circuit between two resets
    MaxResets          \* bound: calls of reset

ASSUME BreakerAssumption ==
    /\ ThresholdPercent \in 1..100
    /\ SuccessThreshold \in Nat \ {0}
    /\ Timeout \in Nat \ {0}
    /\ MinimumRequests \in Nat \ {0}
    /\ MaxRequests \in Nat /\ MaxResets \in Nat

VARIABLES
    state,     \* circuits.get(name)
    stats,     \* stats.get(name)
    quiet,     \* age of lastFailureTime up to Timeout; Timeout when undefined
    call,      \* call[w]: "idle", "closed" or "trial", by the state it began in
    doomed,    \* callers whose operation will fail whatever happens now
    up,        \* is Redis up?
    resets,    \* how often reset was called
    asked      \* history: flips with every call of execute

callVars == <<call, doomed>>
vars == <<state, stats, quiet, callVars, up, resets, asked>>

NoStats == [requests |-> 0, failures |-> 0, consecutiveSuccesses |-> 0]

Init ==
    /\ state = "CLOSED"
    /\ stats = NoStats
    /\ quiet = Timeout
    /\ call = [w \in Workers |-> "idle"]
    /\ doomed = {}
    /\ up = TRUE
    /\ resets = 0
    /\ asked = FALSE

InFlight == {w \in Workers : call[w] # "idle"}

(* While the circuit is closed every request counts, and the bound leaves  *)
(* room for the calls in flight; otherwise it bounds only these.           *)
Counted == IF state = "CLOSED" THEN stats.requests ELSE 0
Budget == Counted + Cardinality(InFlight) < MaxRequests

(* n + 1, up to the bound.  A closed circuit never reaches it; an open or  *)
(* half-open one does not read its requests and failures.                  *)
More(n) == IF n < MaxRequests THEN n + 1 ELSE n

ShouldAttemptReset == quiet = Timeout

Start(w, kind) ==
    /\ call' = [call EXCEPT ![w] = kind]
    /\ doomed' = IF up THEN doomed ELSE doomed \cup {w}

(* execute up to the await of the operation. *)
Execute(w) ==
    /\ call[w] = "idle"
    /\ Budget
    /\ state # "OPEN" \/ ShouldAttemptReset
    /\ state' = IF state = "OPEN" THEN "HALF_OPEN" ELSE state
    /\ Start(w, IF state = "CLOSED" THEN "closed" ELSE "trial")
    /\ asked' = ~asked
    /\ UNCHANGED <<stats, quiet, up, resets>>

(* An open circuit refuses at once.  The state does not move; that is what *)
(* an asking client can do to a circuit without leave of the timeout.      *)
Reject(w) ==
    /\ call[w] = "idle"
    /\ state = "OPEN" /\ ~ShouldAttemptReset
    /\ asked' = ~asked
    /\ UNCHANGED <<state, stats, quiet, callVars, up, resets>>

End(w) ==
    /\ call' = [call EXCEPT ![w] = "idle"]
    /\ doomed' = doomed \ {w}

(* Mutated form: a half-open circuit looks for successes of a closed one. *)
ClosesWhenClosed(counted) ==
    state = "CLOSED" /\ counted.consecutiveSuccesses >= SuccessThreshold

(* Mutated form: any state closes once there are enough successes. *)
ClosesFromOpen(counted) == counted.consecutiveSuccesses >= SuccessThreshold

Closes(counted) ==
    /\ state = "HALF_OPEN"
    /\ counted.consecutiveSuccesses >= SuccessThreshold

(* The operation resolves: onSuccess, whatever the state is by now. *)
OnSuccess(w) ==
    LET counted == [stats EXCEPT !.requests = More(@),
                                 !.consecutiveSuccesses = More(@)]
    IN
    /\ w \in InFlight
    /\ w \notin doomed
    /\ IF Closes(counted)
         THEN state' = "CLOSED" /\ stats' = NoStats /\ quiet' = Timeout
         ELSE stats' = counted /\ UNCHANGED <<state, quiet>>
    /\ End(w)
    /\ UNCHANGED <<up, resets, asked>>

Opens(counted) ==
    \/ state = "HALF_OPEN"
    \/ /\ state = "CLOSED"
       /\ counted.requests >= MinimumRequests
       /\ 100 * counted.failures >= ThresholdPercent * counted.requests

FailureCounted(s) ==
    [requests |-> More(s.requests), failures |-> More(s.failures),
     consecutiveSuccesses |-> 0]

(* The operation rejects: onFailure, whatever the state is by now. *)
OnFailure(w) ==
    LET counted == FailureCounted(stats) IN
    /\ w \in InFlight
    /\ w \in doomed \/ ~up
    /\ stats' = counted
    /\ quiet' = 0
    /\ state' = IF Opens(counted) THEN "OPEN" ELSE state
    /\ End(w)
    /\ UNCHANGED <<up, resets, asked>>

Tick ==
    /\ quiet < Timeout
    /\ quiet' = quiet + 1
    /\ UNCHANGED <<state, stats, callVars, up, resets, asked>>

Flip ==
    /\ up' = ~up
    /\ UNCHANGED <<state, stats, quiet, callVars, resets, asked>>

Reset ==
    /\ resets < MaxResets
    /\ resets' = resets + 1
    /\ state' = "CLOSED" /\ stats' = NoStats /\ quiet' = Timeout
    /\ UNCHANGED <<callVars, up, asked>>

Settle(w) == OnSuccess(w) \/ OnFailure(w)

Next ==
    \/ \E w \in Workers : Execute(w) \/ Reject(w) \/ Settle(w)
    \/ Tick
    \/ Flip
    \/ Reset

Spec == Init /\ [][Next]_vars

(* Operations settle and time passes; nobody is obliged to call.           *)
FairSpec == Spec /\ (\A w \in Workers : WF_vars(Settle(w))) /\ WF_vars(Tick)

-----------------------------------------------------------------------------
(* The counts of a closed circuit are exact: a request is counted once, as *)
(* a failure or perhaps as one of the last successes.                      *)
CountsOK ==
    state = "CLOSED" =>
      /\ stats.failures + stats.consecutiveSuccesses <= stats.requests
      /\ stats.requests + Cardinality(InFlight) <= MaxRequests

(* Counters stay in bounds, those of a closed circuit add up, and only     *)
(* calls in flight are doomed.                                             *)
TypeOK ==
    /\ state \in {"CLOSED", "OPEN", "HALF_OPEN"}
    /\ stats \in [requests : 0..MaxRequests, failures : 0..MaxRequests,
                  consecutiveSuccesses : 0..MaxRequests]
    /\ CountsOK
    /\ quiet \in 0..Timeout
    /\ call \in [Workers -> {"idle", "closed", "trial"}]
    /\ doomed \subseteq InFlight
    /\ up \in BOOLEAN /\ asked \in BOOLEAN
    /\ resets \in 0..MaxResets

(* Whatever calls overlap, the circuit moves as the automaton does: it is  *)
(* tried only after Timeout without a failure, late failures of an open    *)
(* circuit included, and late successes never close an open circuit.       *)
Automaton == INSTANCE BreakerAutomaton
AutomatonSpec == Automaton!Spec

(* Callers ask again and again for as long as the circuit is not closed.   *)
KeepAsking == []<>(asked \/ state = "CLOSED") /\ []<>(~asked \/ state = "CLOSED")

(* Once the resource stays up the circuit closes and stays closed, if only *)
(* callers keep asking: late failures, rejected calls and any number of    *)
(* trials keep it neither open nor half-open.                              *)
Recovers == (<>[]up /\ KeepAsking) => <>[](state = "CLOSED")
=============================================================================
