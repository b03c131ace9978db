---------------------------- MODULE RetryableCall ----------------------------
(***************************************************************************)
(* @Retryable around an idempotent read: a call is a record that is moved  *)
(* on by its attempts, with the time since its first attempt.              *)
(***************************************************************************)
EXTENDS Naturals

CONSTANTS MaxRetries, InitialDelay, Multiplier, Timeout

ASSUME RetryAssumption ==
  /\ MaxRetries \in Nat /\ InitialDelay \in Nat \ {0}
  /\ Multiplier \in Nat \ {0} /\ Timeout \in Nat \ {0}

NewCall == [state |-> "attempt", tries |-> 0, elapsed |-> 0]

Delay(n) == InitialDelay * Multiplier ^ n

\* The attempt fails after d: the last error is thrown, or the call waits as
\* long as its delay, and late longer than asked for.
GivesUp(c) == c.tries = MaxRetries \/ c.elapsed + Delay(c.tries) >= Timeout
AfterFailure(c, d, late) ==
  LET failed == [c EXCEPT !.elapsed = @ + d] IN
  IF GivesUp(failed) THEN [failed EXCEPT !.state = "thrown"]
  ELSE [failed EXCEPT !.tries = @ + 1,
                      !.elapsed = @ + Delay(failed.tries) + late]

\* Mutated form: the time is looked at on a failure only.
BeginsLate(c) == c.elapsed < Timeout + Timeout

\* The check at the top of the loop; the error it throws is caught by the same
\* loop, which finds that no time is left.
Begins(c) == c.elapsed < Timeout
Attempt(c) == IF Begins(c) THEN c ELSE [c EXCEPT !.state = "timedOut"]
=============================================================================
