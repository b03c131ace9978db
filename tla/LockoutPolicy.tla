--------------------------- MODULE LockoutPolicy ---------------------------
(***************************************************************************)
(* What account lockout promises for one account, with every login attempt *)
(* one atomic step: the Threshold-th wrong password in a row locks the     *)
(* account for Duration and starts the count anew, a locked account takes  *)
(* no password at all, and only time or an administrator opens it again.   *)
(***************************************************************************)
EXTENDS Naturals

CONSTANTS Threshold, Duration

VARIABLES
    failures,  \* wrong passwords counted against the account
    lockLeft   \* ticks the account stays locked, 0 when it is open

policyVars == <<failures, lockLeft>>

Init == failures = 0 /\ lockLeft = 0

WrongPassword ==
    /\ lockLeft = 0
    /\ IF failures + 1 < Threshold
         THEN failures' = failures + 1 /\ UNCHANGED lockLeft
         ELSE failures' = 0 /\ lockLeft' = Duration

(* A right password forgets the failures. *)
RightPassword == failures' = 0 /\ UNCHANGED lockLeft

Unlock == lockLeft' = 0 /\ UNCHANGED failures

(* Time passes for the lock; the count may be given up after a while. *)
Pass ==
    /\ lockLeft' = IF lockLeft > 0 THEN lockLeft - 1 ELSE 0
    /\ failures' \in {0, failures}

Next == WrongPassword \/ RightPassword \/ Unlock \/ Pass

Spec == Init /\ [][Next]_policyVars
=============================================================================
