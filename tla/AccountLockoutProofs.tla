----------------------- MODULE AccountLockoutProofs -----------------------
(***************************************************************************)
(* Proofs about AccountLockout for every set of workers, every list of     *)
(* thresholds and durations, and attempts and counts without bound.        *)
(***************************************************************************)
EXTENDS AccountLockout, TLAPS

(* The empty attempt is well typed. *)
LEMMA QuietTyped == Quiet \in [pc : Pcs, seen : Nat]
BY DEF Quiet, Pcs

(* The initial state is well typed. *)
LEMMA InitTypeOK == Init => TypeOK
<1>1. CountTTL \in Nat
  BY LockoutAssumption DEF CountTTL
<1>2. ASSUME Init PROVE att \in [Workers -> [pc : Pcs, seen : Nat]]
  BY <1>2, QuietTyped DEF Init
<1>3. ASSUME Init
      PROVE  /\ count = 0 /\ countLeft = 0 /\ lockLeft = 0
             /\ guesses = 0 /\ failed = 0 /\ overlapped \in BOOLEAN
  BY <1>3 DEF Init
<1>4. QED
  BY <1>1, <1>2, <1>3, LockoutAssumption DEF TypeOK

(* Every step keeps the types, and the counter and its TTL together. *)
LEMMA NextTypeOK == TypeOK /\ [Next]_vars => TypeOK'
<1> SUFFICES ASSUME TypeOK, [Next]_vars PROVE TypeOK'
  OBVIOUS
<1> USE LockoutAssumption
<1>0. /\ CountTTL \in Nat \ {0}
      /\ Quiet \in [pc : Pcs, seen : Nat]
      /\ att \in [Workers -> [pc : Pcs, seen : Nat]]
  BY QuietTyped DEF CountTTL, TypeOK
<1>1. ASSUME NEW w \in Workers, End(w)
      PROVE  att' \in [Workers -> [pc : Pcs, seen : Nat]]
  BY <1>0, <1>1 DEF End
<1>2. ASSUME NEW w \in Workers, NEW pc \in Pcs, Goto(w, pc)
      PROVE  att' \in [Workers -> [pc : Pcs, seen : Nat]]
  BY <1>0, <1>2 DEF Goto
<1>3. ASSUME NEW w \in Workers, CheckLockStatus(w) PROVE TypeOK'
  BY <1>2, <1>3 DEF CheckLockStatus, Admit, TypeOK, Pcs
<1>4. ASSUME NEW w \in Workers, ValidatePassword(w) PROVE TypeOK'
  <2>1. att' \in [Workers -> [pc : Pcs, seen : Nat]]
    BY <1>2, <1>4 DEF ValidatePassword, Pcs
  <2>2. guesses' \in 0..MaxGuesses
    BY <1>4 DEF ValidatePassword, TypeOK, Capped
  <2>3. QED
    BY <1>4, <2>1, <2>2 DEF ValidatePassword, TypeOK
<1>5. ASSUME NEW w \in Workers, ResetFailureCount(w) PROVE TypeOK'
  BY <1>0, <1>1, <1>5 DEF ResetFailureCount, TypeOK
<1>6. ASSUME NEW w \in Workers, RecordFailedAttempt(w) PROVE TypeOK'
  <2>1. att' \in [Workers -> [pc : Pcs, seen : Nat]]
    BY <1>1, <1>2, <1>6 DEF RecordFailedAttempt, Pcs
  <2>2. QED
    BY <1>6, <2>1 DEF RecordFailedAttempt, TypeOK
<1>7. ASSUME NEW w \in Workers, GetCount(w) PROVE TypeOK'
  <2>1. att' \in [Workers -> [pc : Pcs, seen : Nat]]
    BY <1>0, <1>7 DEF GetCount, TypeOK, Pcs
  <2>2. QED
    BY <1>7, <2>1 DEF GetCount, TypeOK
<1>8. ASSUME NEW w \in Workers, SetCount(w) PROVE TypeOK'
  <2>1. Incremented(att[w].seen) \in Nat \ {0}
    BY <1>0 DEF Incremented
  <2>2. att' \in [Workers -> [pc : Pcs, seen : Nat]]
    <3>1. [pc |-> "lock", seen |-> Incremented(att[w].seen)]
             \in [pc : Pcs, seen : Nat]
      BY <2>1 DEF Pcs
    <3>2. CASE End(w)
      BY <1>1, <3>2
    <3>3. CASE att' = [att EXCEPT ![w] =
                 [pc |-> "lock", seen |-> Incremented(att[w].seen)]]
      BY <1>0, <3>1, <3>3
    <3>4. QED
      BY <1>8, <3>2, <3>3 DEF SetCount
  <2>3. QED
    BY <1>0, <1>8, <2>1, <2>2 DEF SetCount, TypeOK
<1>9. ASSUME NEW w \in Workers, SetLock(w) PROVE TypeOK'
  <2>1. att' \in [Workers -> [pc : Pcs, seen : Nat]]
    BY <1>2, <1>9 DEF SetLock, Pcs
  <2>2. PICK i \in Tiers : lockLeft' = LockDurations[i]
    BY <1>9 DEF SetLock, FirstFound, Reached
  <2>3. lockLeft' \in 0..Longest
    BY <2>2 DEF Tiers
  <2>4. QED
    BY <1>9, <2>1, <2>3 DEF SetLock, TypeOK
<1>10. ASSUME NEW w \in Workers, ClearCount(w) PROVE TypeOK'
  BY <1>0, <1>1, <1>10 DEF ClearCount, AfterLock, TypeOK
<1>11. ASSUME NEW w \in Workers, UnlockAccount(w) PROVE TypeOK'
  BY <1>2, <1>11 DEF UnlockAccount, Admit, TypeOK, Pcs
<1>12. ASSUME NEW w \in Workers, UnlockCount(w) PROVE TypeOK'
  BY <1>0, <1>1, <1>12 DEF UnlockCount, TypeOK
<1>13. ASSUME NEW w \in Workers, Fail(w) PROVE TypeOK'
  BY <1>1, <1>13 DEF Fail, TypeOK
<1>14. CASE Tick
  BY <1>0, <1>14 DEF Tick, TypeOK
<1>15. CASE UNCHANGED vars
  BY <1>15 DEF vars, TypeOK
<1>16. QED
  BY <1>3, <1>4, <1>5, <1>6, <1>7, <1>8, <1>9, <1>10, <1>11, <1>12, <1>13,
     <1>14, <1>15 DEF Next, Proceed

(* TypeOK holds in every reachable state, and with it that the failure     *)
(* counter never outlives its TTL nor the TTL the counter.                 *)
THEOREM TypeCorrect == Spec => []TypeOK
<1>1. Init => TypeOK
  BY InitTypeOK
<1>2. TypeOK /\ [Next]_vars => TypeOK'
  BY NextTypeOK
<1>3. QED
  BY <1>1, <1>2, PTL DEF Spec

-----------------------------------------------------------------------------
(* A count of zero reaches no threshold, since thresholds are positive. *)
LEMMA ZeroReachesNothing == Reached(0) = {}
BY LockoutAssumption DEF Reached, Tiers

(* While no await has thrown nobody leaves a count at a threshold. *)
LEMMA NextNoOrphan ==
    ASSUME TypeOK, NoOrphanCount, [Next]_vars
    PROVE  NoOrphanCount'
<1> DEFINE Clears(w) == att[w].pc \in {"lock", "clear"}
<1>0. att \in [Workers -> [pc : Pcs, seen : Nat]]
  BY DEF TypeOK
<1>1. ASSUME UNCHANGED <<count, failed>>,
             \A w \in Workers : Clears(w) => att'[w].pc \in {"lock", "clear"}
      PROVE  NoOrphanCount'
  BY <1>1 DEF NoOrphanCount, Reached
<1>2. ASSUME count' = 0 PROVE NoOrphanCount'
  BY <1>2, ZeroReachesNothing DEF NoOrphanCount, Reached
<1>3. ASSUME NEW w \in Workers,
             \/ CheckLockStatus(w) \/ ValidatePassword(w)
             \/ RecordFailedAttempt(w) \/ GetCount(w) \/ UnlockAccount(w)
      PROVE  NoOrphanCount'
  <2>1. ~Clears(w) /\ UNCHANGED <<count, failed>>
    BY <1>3 DEF CheckLockStatus, ValidatePassword, RecordFailedAttempt,
                GetCount, UnlockAccount, Quiet
  <2>2. \A x \in Workers \ {w} : att'[x] = att[x]
    BY <1>0, <1>3 DEF CheckLockStatus, ValidatePassword, RecordFailedAttempt,
                      GetCount, UnlockAccount, Goto, End
  <2>3. QED
    BY <1>1, <2>1, <2>2
<1>4. ASSUME NEW w \in Workers, ResetFailureCount(w) PROVE NoOrphanCount'
  <2>1. \A x \in Workers \ {w} : att'[x] = att[x]
    BY <1>0, <1>4 DEF ResetFailureCount, End
  <2>2. ~Clears(w)
    BY <1>4 DEF ResetFailureCount
  <2>3. QED
    BY <1>1, <1>2, <1>4, <2>1, <2>2 DEF ResetFailureCount
<1>5. ASSUME NEW w \in Workers, SetCount(w) PROVE NoOrphanCount'
  <2>1. CASE Reached(count') # {}
    <3>1. att'[w].pc = "lock"
      BY <1>0, <1>5, <2>1 DEF SetCount
    <3>2. QED
      BY <3>1 DEF NoOrphanCount
  <2>2. CASE Reached(count') = {}
    BY <2>2 DEF NoOrphanCount, Reached
  <2>3. QED
    BY <2>1, <2>2
<1>6. ASSUME NEW w \in Workers, SetLock(w) PROVE NoOrphanCount'
  <2>1. /\ att'[w].pc = "clear"
        /\ \A x \in Workers \ {w} : att'[x] = att[x]
    BY <1>0, <1>6 DEF SetLock, Goto
  <2>2. QED
    BY <1>1, <1>6, <2>1 DEF SetLock
<1>7. ASSUME NEW w \in Workers, ClearCount(w) \/ UnlockCount(w)
      PROVE  NoOrphanCount'
  BY <1>2, <1>7 DEF ClearCount, UnlockCount, AfterLock
<1>8. ASSUME NEW w \in Workers, Fail(w) PROVE NoOrphanCount'
  <2>1. failed' # 0
    BY <1>8 DEF Fail, TypeOK
  <2>2. QED
    BY <2>1 DEF NoOrphanCount
<1>9. CASE Tick
  BY <1>1, <1>2, <1>9 DEF Tick
<1>10. CASE UNCHANGED vars
  BY <1>1, <1>10 DEF vars
<1>11. QED
  BY <1>3, <1>4, <1>5, <1>6, <1>7, <1>8, <1>9, <1>10 DEF Next, Proceed

(* Until an await throws NoOrphanCount holds for any number of attempts in      *)
(* parallel and any thresholds: who writes a count that reaches one locks  *)
(* the account and deletes the count (recordFailedAttempt, checkAndLock).  *)
THEOREM OrphanFree == Spec => []NoOrphanCount
<1> DEFINE IInv == TypeOK /\ NoOrphanCount
<1>1. Init => IInv
  BY InitTypeOK, ZeroReachesNothing DEF Init, NoOrphanCount
<1>2. IInv /\ [Next]_vars => IInv'
  BY NextTypeOK, NextNoOrphan
<1>3. QED
  BY <1>1, <1>2, PTL DEF Spec

-----------------------------------------------------------------------------
(* The policy.  While no two requests have overlapped and no await has     *)
(* thrown, at most one worker is busy, a count is written on an open       *)
(* account only, and the count it stands for never passes the threshold.   *)
First == MaxAttempts[1]

OneAtATime ==
    \A v, w \in Workers : att[v] # Quiet /\ att[w] # Quiet => v = w

PolicyInv ==
    /\ TypeOK
    /\ \A w \in Workers : att[w].pc = "idle" => att[w] = Quiet
    /\ ~overlapped /\ failed = 0 =>
         /\ OneAtATime
         /\ \A w \in Workers :
              /\ att[w].pc \in {"get", "set", "lock"} => lockLeft = 0
              /\ att[w].pc = "set" => att[w].seen < First
              /\ att[w].pc = "lock" => att[w].seen = First
         /\ count < First \/ InPc("lock") \/ InPc("clear")

LEMMA FirstThreshold ==
    /\ 1 \in Tiers /\ First \in Nat \ {0} /\ LockDurations[1] \in Nat \ {0}
    /\ \A n \in Nat : n < First => Reached(n) = {}
    /\ \A n \in Nat : n >= First => Reached(n) # {}
    /\ FirstFound(First) = {1}
<1> USE LockoutAssumption
<1>1. 1 \in Tiers /\ First \in Nat \ {0} /\ LockDurations[1] \in Nat \ {0}
  BY DEF Tiers, First
<1>2. \A i \in Tiers : MaxAttempts[i] \in Nat \ {0} /\ (i # 1 => First < MaxAttempts[i])
  BY <1>1 DEF Tiers, First
<1>3. \A n \in Nat : n < First => Reached(n) = {}
  BY <1>1, <1>2 DEF Reached, First
<1>4. \A n \in Nat : n >= First => 1 \in Reached(n)
  BY <1>1 DEF Reached, First
<1>5. Reached(First) = {1}
  BY <1>1, <1>2 DEF Reached, First
<1>6. FirstFound(First) = {1}
  BY <1>5 DEF FirstFound
<1>7. QED
  BY <1>1, <1>3, <1>4, <1>6

(* What the count stands for, when w is the only worker that is busy.      *)
CountAt(w) ==
    CASE att[w].pc = "clear" -> 0
      [] att[w].pc = "lock" -> att[w].seen - 1
      [] att[w].pc = "set" -> att[w].seen
      [] OTHER -> count

LEMMA PolicyCountAt ==
    \A w \in Workers : (\A v \in Workers \ {w} : att[v] = Quiet) => PolicyCount = CountAt(w)
<1> SUFFICES ASSUME NEW w \in Workers, \A v \in Workers \ {w} : att[v] = Quiet
             PROVE  PolicyCount = CountAt(w)
  OBVIOUS
<1>1. \A v \in Workers : att[v].pc # "idle" => v = w
  BY DEF Quiet
<1>2. ASSUME NEW pc, pc # "idle"
      PROVE  /\ InPc(pc) <=> att[w].pc = pc
             /\ InPc(pc) => Seen(pc) = att[w].seen
  <2>1. InPc(pc) <=> att[w].pc = pc
    BY <1>1, <1>2 DEF InPc
  <2>2. ASSUME InPc(pc) PROVE (CHOOSE x \in Workers : att[x].pc = pc) = w
    BY <1>1, <1>2, <2>1, <2>2
  <2>3. QED
    BY <2>1, <2>2 DEF Seen
<1>3. QED
  BY <1>2 DEF PolicyCount, CountAt

LEMMA PolicyCountNext ==
    (\A w \in Workers : (\A v \in Workers \ {w} : att[v] = Quiet) => PolicyCount = CountAt(w))'
BY PolicyCountAt, PTL

(* The step of one worker, the others at rest.                             *)
Act(w) ==
    CheckLockStatus(w) \/ UnlockAccount(w) \/ Proceed(w) \/ Fail(w)

LEMMA OthersRest ==
    ASSUME PolicyInv, NEW w \in Workers, Act(w), ~overlapped', failed' = 0
    PROVE  /\ ~overlapped /\ failed = 0
           /\ \A v \in Workers \ {w} : att[v] = Quiet /\ att'[v] = Quiet
           /\ CheckLockStatus(w) \/ UnlockAccount(w) \/ Proceed(w)
<1>0. att \in [Workers -> [pc : Pcs, seen : Nat]] /\ failed \in Nat
  BY LockoutAssumption DEF PolicyInv, TypeOK
<1>1. ~Fail(w)
  BY <1>0 DEF Fail
<1>2. ~overlapped /\ failed = 0
  <2>1. overlapped \in BOOLEAN
    BY DEF PolicyInv, TypeOK
  <2>2. (overlapped => overlapped') /\ failed' = failed
    BY <1>1, <2>1 DEF Act, Proceed, CheckLockStatus, UnlockAccount, Admit, ValidatePassword,
       ResetFailureCount, RecordFailedAttempt, GetCount, SetCount, SetLock, ClearCount,
       UnlockCount
  <2>3. QED
    BY <2>2
<1>3. \A v \in Workers \ {w} : att'[v] = att[v]
  BY <1>0, <1>1 DEF Act, Proceed, CheckLockStatus, UnlockAccount, ValidatePassword,
     ResetFailureCount, RecordFailedAttempt, GetCount, SetCount, SetLock, ClearCount,
     UnlockCount, Goto, End
<1>4. \A v \in Workers \ {w} : att[v] = Quiet
  <2>1. CASE CheckLockStatus(w) \/ UnlockAccount(w)
    BY <2>1 DEF CheckLockStatus, UnlockAccount, Admit
  <2>2. CASE Proceed(w)
    <3>1. att[w] # Quiet
      BY <2>2 DEF Proceed, ValidatePassword, ResetFailureCount, RecordFailedAttempt,
         GetCount, SetCount, SetLock, ClearCount, UnlockCount, Quiet
    <3>2. QED
      BY <1>2, <3>1 DEF PolicyInv, OneAtATime
  <2>3. QED
    BY <1>1, <2>1, <2>2 DEF Act
<1>5. QED
  BY <1>1, <1>2, <1>3, <1>4 DEF Act

(* What w's step does to the count it stands for: nothing, or what the      *)
(* policy does in one step.                                                *)
LEMMA ActFollows ==
    ASSUME PolicyInv, NEW w \in Workers, Act(w), ~overlapped', failed' = 0
    PROVE  Policy!Next \/ UNCHANGED <<PolicyCount, lockLeft>>
<1>0. /\ att \in [Workers -> [pc : Pcs, seen : Nat]] /\ count \in Nat
      /\ lockLeft \in Nat /\ Enabled \in BOOLEAN
  BY LockoutAssumption DEF PolicyInv, TypeOK
<1>1. PolicyCount = CountAt(w)
  BY OthersRest, PolicyCountAt
<1>2. PolicyCount' = CountAt(w)'
  BY OthersRest, PolicyCountNext
<1>3. /\ att[w].pc \in {"get", "set", "lock"} => lockLeft = 0
      /\ att[w].pc = "set" => att[w].seen < First
      /\ att[w].pc = "lock" => att[w].seen = First
  BY OthersRest DEF PolicyInv
<1>4. ASSUME UNCHANGED lockLeft, CountAt(w)' = CountAt(w)
      PROVE  UNCHANGED <<PolicyCount, lockLeft>>
  BY <1>1, <1>2, <1>4
<1>5. ASSUME UNCHANGED lockLeft, CountAt(w)' = 0 PROVE Policy!Next
  BY <1>2, <1>5 DEF Policy!Next, Policy!RightPassword
<1>6. CASE CheckLockStatus(w)
  BY <1>0, <1>4, <1>6 DEF CheckLockStatus, Goto, CountAt, Quiet
<1>7. CASE UnlockAccount(w)
  <2>1. CountAt(w)' = CountAt(w) /\ lockLeft' = 0
    BY <1>0, <1>7 DEF UnlockAccount, Goto, CountAt, Quiet
  <2>2. QED
    BY <1>1, <1>2, <2>1 DEF Policy!Next, Policy!Unlock
<1>8. CASE ValidatePassword(w)
  BY <1>0, <1>4, <1>8 DEF ValidatePassword, Goto, CountAt
<1>9. CASE ResetFailureCount(w)
  BY <1>0, <1>4, <1>5, <1>9 DEF ResetFailureCount, End, CountAt, Quiet
<1>10. CASE RecordFailedAttempt(w)
  BY <1>0, <1>4, <1>10 DEF RecordFailedAttempt, Goto, End, CountAt, Quiet
<1>11. CASE GetCount(w)
  BY <1>0, <1>4, <1>11 DEF GetCount, CountAt
<1>12. CASE SetCount(w)
  <2> DEFINE n == att[w].seen + 1
  <2>1. n \in Nat /\ count' = n /\ UNCHANGED lockLeft
    BY <1>0, <1>12 DEF SetCount, Incremented
  <2>2. CASE Reached(n) # {}
    <3>1. att'[w] = [pc |-> "lock", seen |-> n]
      BY <1>0, <1>12, <2>2 DEF SetCount, Incremented
    <3>2. CountAt(w)' = CountAt(w)
      BY <1>0, <1>12, <3>1 DEF SetCount, CountAt
    <3>3. QED
      BY <1>4, <2>1, <3>2
  <2>3. CASE Reached(n) = {}
    <3>1. att'[w] = Quiet
      BY <1>0, <1>12, <2>3 DEF SetCount, Incremented, End
    <3>2. CountAt(w)' = n /\ CountAt(w) = att[w].seen
      BY <1>12, <2>1, <3>1 DEF SetCount, CountAt, Quiet
    <3>3. n < First
      BY <2>1, <2>3, FirstThreshold
    <3>4. lockLeft = 0
      BY <1>3, <1>12 DEF SetCount
    <3>5. QED
      BY <1>1, <1>2, <2>1, <3>2, <3>3, <3>4
         DEF Policy!Next, Policy!WrongPassword, First
  <2>4. QED
    BY <2>2, <2>3
<1>13. CASE SetLock(w)
  <2>1. lockLeft' = LockDurations[1] /\ att[w].seen = First /\ lockLeft = 0
    BY <1>3, <1>13, FirstThreshold DEF SetLock
  <2>2. att'[w].pc = "clear"
    BY <1>0, <1>13 DEF SetLock, Goto
  <2>3. CountAt(w)' = 0 /\ CountAt(w) = First - 1
    BY <1>13, <2>1, <2>2 DEF SetLock, CountAt
  <2>4. QED
    BY <1>1, <1>2, <2>1, <2>3, FirstThreshold
       DEF Policy!Next, Policy!WrongPassword, First
<1>14. CASE ClearCount(w)
  BY <1>0, <1>4, <1>14 DEF ClearCount, AfterLock, End, CountAt, Quiet
<1>15. CASE UnlockCount(w)
  BY <1>0, <1>5, <1>15 DEF UnlockCount, End, CountAt, Quiet
<1>16. QED
  BY OthersRest, <1>6, <1>7, <1>8, <1>9, <1>10, <1>11, <1>12, <1>13, <1>14, <1>15
     DEF Proceed

(* A tick of the clock is one of the policy.                               *)
LEMMA TickFollows ==
    ASSUME PolicyInv, Tick, ~overlapped', failed' = 0
    PROVE  Policy!Next
<1>0. PolicyInv /\ count \in Nat /\ ~overlapped /\ failed = 0
  BY DEF PolicyInv, TypeOK, Tick
<1>1. att' = att /\ count' \in {0, count}
  BY DEF Tick
<1>2. PolicyCount' \in {0, PolicyCount}
  BY <1>1 DEF PolicyCount, InPc, Seen
<1>3. QED
  BY <1>2 DEF Tick, Policy!Next, Policy!Pass

(* The invariant of the policy is kept.                                    *)
LEMMA NextPolicyInv == PolicyInv /\ [Next]_vars => PolicyInv'
<1> SUFFICES ASSUME PolicyInv, [Next]_vars PROVE PolicyInv'
  OBVIOUS
<1>0. /\ att \in [Workers -> [pc : Pcs, seen : Nat]] /\ count \in Nat
      /\ lockLeft \in Nat /\ Enabled \in BOOLEAN
  BY LockoutAssumption DEF PolicyInv, TypeOK
<1>1. TypeOK'
  BY NextTypeOK DEF PolicyInv
<1>2. \A w \in Workers : att'[w].pc = "idle" => att'[w] = Quiet
  <2>1. ASSUME NEW w \in Workers, Act(w) PROVE \A v \in Workers : att'[v].pc = "idle" => att'[v] = Quiet
    <3>1. \A v \in Workers \ {w} : att'[v] = att[v]
      BY <1>0, <2>1 DEF Act, Proceed, CheckLockStatus, UnlockAccount, ValidatePassword,
         ResetFailureCount, RecordFailedAttempt, GetCount, SetCount, SetLock, ClearCount,
         UnlockCount, Fail, Goto, End
    <3>2. att'[w].pc = "idle" => att'[w] = Quiet
      BY <1>0, <2>1 DEF Act, Proceed, CheckLockStatus, UnlockAccount, ValidatePassword,
         ResetFailureCount, RecordFailedAttempt, GetCount, SetCount, SetLock, ClearCount,
         UnlockCount, Fail, Goto, End
    <3>3. QED
      BY <3>1, <3>2 DEF PolicyInv
  <2>2. QED
    BY <2>1 DEF PolicyInv, Act, Next, Tick, vars
<1>3. ASSUME ~overlapped', failed' = 0
      PROVE  /\ OneAtATime'
             /\ \A w \in Workers :
                  /\ att'[w].pc \in {"get", "set", "lock"} => lockLeft' = 0
                  /\ att'[w].pc = "set" => att'[w].seen < First
                  /\ att'[w].pc = "lock" => att'[w].seen = First
             /\ count' < First \/ InPc("lock")' \/ InPc("clear")'
  <2>1. ASSUME NEW w \in Workers, Act(w)
        PROVE  /\ att'[w].pc \in {"get", "set", "lock"} => lockLeft' = 0
               /\ att'[w].pc = "set" => att'[w].seen < First
               /\ att'[w].pc = "lock" => att'[w].seen = First
               /\ count' < First \/ att'[w].pc \in {"lock", "clear"}
    <3>1. /\ att[w].pc \in {"get", "set", "lock"} => lockLeft = 0
          /\ att[w].pc = "set" => att[w].seen < First
          /\ att[w].pc = "lock" => att[w].seen = First
          /\ count < First \/ att[w].pc \in {"lock", "clear"}
      BY <1>3, <2>1, OthersRest DEF PolicyInv, InPc, Quiet
    <3>2. CASE CheckLockStatus(w) \/ UnlockAccount(w)
      BY <1>0, <3>1, <3>2 DEF CheckLockStatus, UnlockAccount, Goto, Quiet
    <3>3. CASE ValidatePassword(w) \/ GetCount(w)
      BY <1>0, <3>1, <3>3 DEF ValidatePassword, GetCount, Goto
    <3>4. CASE RecordFailedAttempt(w)
      BY <1>0, <3>1, <3>4 DEF RecordFailedAttempt, Goto, End, Locked, Quiet
    <3>5. CASE ResetFailureCount(w) \/ UnlockCount(w) \/ ClearCount(w)
      BY <1>0, <3>1, <3>5, FirstThreshold
         DEF ResetFailureCount, UnlockCount, ClearCount, AfterLock, End, Quiet
    <3>6. CASE SetCount(w)
      <4> DEFINE n == att[w].seen + 1
      <4>1. n \in Nat /\ n <= First /\ count' = n /\ lockLeft' = 0
        BY <1>0, <3>1, <3>6, FirstThreshold DEF SetCount, Incremented
      <4>2. CASE Reached(n) # {}
        <5>1. att'[w] = [pc |-> "lock", seen |-> n]
          BY <1>0, <3>6, <4>2 DEF SetCount, Incremented
        <5>2. QED
          BY <4>1, <4>2, <5>1, FirstThreshold
      <4>3. CASE Reached(n) = {}
        <5>1. att'[w] = Quiet
          BY <1>0, <3>6, <4>3 DEF SetCount, Incremented, End
        <5>2. QED
          BY <4>1, <4>3, <5>1, FirstThreshold DEF Quiet
      <4>4. QED
        BY <4>2, <4>3
    <3>7. CASE SetLock(w)
      BY <1>0, <3>1, <3>7 DEF SetLock, Goto
    <3>8. QED
      BY <1>3, <2>1, OthersRest, <3>2, <3>3, <3>4, <3>5, <3>6, <3>7 DEF Proceed
  <2>2. ASSUME NEW w \in Workers, Act(w)
        PROVE  OneAtATime' /\ \A v \in Workers \ {w} : att'[v] = Quiet
    BY <1>3, <2>2, OthersRest DEF OneAtATime
  <2>3. CASE \E w \in Workers : Act(w)
    BY <2>1, <2>2, <2>3 DEF InPc, Quiet
  <2>4. CASE Tick \/ UNCHANGED vars
    <3>1. /\ att' = att /\ count' \in {0, count} /\ (lockLeft = 0 => lockLeft' = 0)
          /\ ~overlapped /\ failed = 0
      BY <1>3, <2>4 DEF Tick, vars
    <3>2. QED
      BY <1>0, <3>1, FirstThreshold DEF PolicyInv, OneAtATime, InPc
  <2>5. QED
    BY <2>3, <2>4 DEF Next, Act
<1>4. QED
  BY <1>1, <1>2, <1>3 DEF PolicyInv

(* Until two requests overlap or an await throws the service is the policy *)
(* (account-lockout.service.ts as validateUser calls it): the count that    *)
(* has been written but not acted upon belongs to the step that locks.     *)
THEOREM FollowsPolicy == Spec => PolicySpec
<1>1. Init => PolicyInv /\ Policy!Init
  BY InitTypeOK, FirstThreshold
     DEF Init, PolicyInv, OneAtATime, PolicyCount, InPc, Quiet, Policy!Init
<1>2. ASSUME PolicyInv, [Next]_vars
      PROVE  [Policy!Next \/ overlapped' \/ failed' > 0]_<<PolicyCount, lockLeft>>
  <2> SUFFICES ASSUME ~overlapped', ~(failed' > 0)
               PROVE  Policy!Next \/ UNCHANGED <<PolicyCount, lockLeft>>
    OBVIOUS
  <2>1. failed' = 0
    BY <1>2, NextTypeOK, LockoutAssumption DEF PolicyInv, TypeOK
  <2>2. CASE UNCHANGED vars
    BY <2>2 DEF vars, PolicyCount, InPc, Seen
  <2>3. QED
    BY <1>2, <2>1, <2>2, ActFollows, TickFollows DEF Next, Act
<1>3. PolicyInv /\ [Next]_vars => PolicyInv'
  BY NextPolicyInv
<1>4. QED
  BY <1>1, <1>2, <1>3, PTL DEF Spec, PolicySpec

-----------------------------------------------------------------------------
(* The guesses of two workers.  Each worker that has not yet decided to    *)
(* lock has a place among the counts: what it has read, or what it will    *)
(* read.  From a place n, K(n) bounds the guesses still to come from both. *)
TwoWorkers == \E v, w : v # w /\ Workers = {v, w}

K(n) == ((First - n) * (First - n + 1)) \div 2
Rise(n) == IF n < First THEN First - 1 - n ELSE 0
Most == ((First + 1) * (First + 2)) \div 2

Clears(w) == att[w].pc = "clear"
Decided(w) == att[w].pc = "lock" \/ (att[w].pc = "set" /\ att[w].seen + 1 >= First)
Plain(w) == ~Clears(w) /\ ~Decided(w)

Place(w) == IF att[w].pc = "set" THEN att[w].seen ELSE count

(* How many guesses w may make before it reads the count.                  *)
Own(w) ==
    CASE att[w].pc \in {"set", "get"} -> 0
      [] att[w].pc = "record" -> IF lockLeft > 0 THEN 1 ELSE 0
      [] att[w].pc = "password" -> IF lockLeft > 0 THEN 2 ELSE 1
      [] OTHER -> 1

Budget(v, w) ==
    /\ Plain(v) /\ Plain(w) /\ Place(v) <= Place(w) =>
         guesses + Own(v) + Own(w) + Rise(Place(w)) + K(Place(v) + 1) <= Most
    /\ Plain(v) /\ Decided(w) => guesses + Own(v) + Rise(Place(v)) <= Most
    /\ Plain(v) /\ Clears(w) => guesses + Own(v) + Rise(Place(v)) + K(0) <= Most
    /\ Decided(v) /\ Clears(w) => guesses + First <= Most
    /\ Clears(v) /\ Clears(w) => guesses + K(0) + First <= Most

GuessInv ==
    /\ TypeOK /\ NoOrphanCount
    /\ failed = 0 =>
         /\ \A v, w \in Workers : v # w => Budget(v, w)
         /\ lockLeft > 0 => \E w \in Workers : att[w].pc \in {"clear", "idle"}
         /\ guesses <= Most

Guarded == lockLeft > 0 => \E w \in Workers : att[w].pc \in {"clear", "idle"}

(* The product of two neighbours is even.                                  *)
LEMMA Neighbours == \A n \in Nat : \E k \in Nat : n * (n + 1) = 2 * k
<1> SUFFICES ASSUME NEW n \in Nat PROVE \E k \in Nat : n * (n + 1) = 2 * k
  OBVIOUS
<1>1. PICK q \in Nat : n = 2 * q \/ n = 2 * q + 1
  <2>1. n \div 2 \in Nat /\ (n = 2 * (n \div 2) \/ n = 2 * (n \div 2) + 1)
    OBVIOUS
  <2>2. QED
    BY <2>1
<1>2. CASE n = 2 * q
  <2>1. n * (n + 1) = 2 * (q * (2 * q + 1)) /\ q * (2 * q + 1) \in Nat
    BY <1>2
  <2>2. QED
    BY <2>1, Zenon
<1>3. CASE n = 2 * q + 1
  <2>1. n * (n + 1) = 2 * ((2 * q + 1) * (q + 1)) /\ (2 * q + 1) * (q + 1) \in Nat
    BY <1>3
  <2>2. QED
    BY <2>1, Zenon
<1>4. QED
  BY <1>1, <1>2, <1>3

(* K sums the counts from n to the threshold.                              *)
LEMMA KFacts ==
    /\ First \in Nat \ {0} /\ Most \in Nat
    /\ \A n \in 0..First : K(n) \in Nat
    /\ \A n \in 0..First : n < First => K(n) = K(n + 1) + First - n
    /\ \A m, n \in 0..First : m <= n => K(n) <= K(m)
    /\ K(0) + First + 1 = Most
<1>0. First \in Nat \ {0}
  BY FirstThreshold
<1>1. \A n \in 0..First : K(n) \in Nat /\ 2 * K(n) = (First - n) * (First - n + 1)
  <2> TAKE n \in 0..First
  <2>0. First - n \in Nat
    BY <1>0
  <2>1. PICK k \in Nat : (First - n) * (First - n + 1) = 2 * k
    BY <2>0, Neighbours, Zenon
  <2>2. (2 * k) \div 2 = k
    OBVIOUS
  <2>3. QED
    BY <2>1, <2>2 DEF K
<1>2. Most \in Nat /\ 2 * Most = (First + 1) * (First + 2)
  <2>0. First + 1 \in Nat
    BY <1>0
  <2>1. PICK k \in Nat : (First + 1) * (First + 1 + 1) = 2 * k
    BY <2>0, Neighbours, Zenon
  <2>2. (2 * k) \div 2 = k /\ First + 1 + 1 = First + 2
    BY <1>0
  <2>3. QED
    BY <2>1, <2>2 DEF Most
<1>3. \A n \in 0..First : n < First => K(n) = K(n + 1) + First - n
  <2> SUFFICES ASSUME NEW n \in 0..First, n < First
               PROVE  K(n) = K(n + 1) + First - n
    OBVIOUS
  <2> DEFINE d == First - n
  <2>1. d \in Nat /\ n + 1 \in 0..First /\ First - (n + 1) = d - 1
    BY <1>0
  <2>2. 2 * K(n) = d * (d + 1) /\ 2 * K(n + 1) = (d - 1) * (d - 1 + 1)
    BY <1>1, <2>1
  <2>3. K(n) \in Nat /\ K(n + 1) \in Nat
    BY <1>1, <2>1
  <2> HIDE DEF d
  <2>4. d * (d + 1) = (d - 1) * (d - 1 + 1) + 2 * d
    BY <2>1
  <2>5. 2 * K(n) = 2 * K(n + 1) + 2 * d
    BY <2>2, <2>4
  <2>6. QED
    BY <1>0, <2>1, <2>3, <2>5 DEF d
<1>4. \A m, n \in 0..First : m <= n => K(n) <= K(m)
  <2> SUFFICES ASSUME NEW m \in 0..First, NEW n \in 0..First, m <= n
               PROVE  K(n) <= K(m)
    OBVIOUS
  <2> DEFINE a == First - m
             b == First - n
  <2>1. a \in Nat /\ b \in Nat /\ b <= a
    BY <1>0
  <2>2. 2 * K(m) = a * (a + 1) /\ 2 * K(n) = b * (b + 1) /\ K(m) \in Nat /\ K(n) \in Nat
    BY <1>1
  <2> HIDE DEF a, b
  <2>3. b * (b + 1) <= a * (a + 1)
    BY <2>1
  <2>4. QED
    BY <2>2, <2>3
<1>5. K(0) + First + 1 = Most
  <2>1. 2 * K(0) = First * (First + 1) /\ K(0) \in Nat
    BY <1>0, <1>1
  <2>2. (First + 1) * (First + 2) = First * (First + 1) + 2 * (First + 1)
    BY <1>0
  <2>3. QED
    BY <1>0, <1>2, <2>1, <2>2
<1>6. QED
  BY <1>0, <1>1, <1>2, <1>3, <1>4, <1>5

LEMMA KInteger == \A n \in Nat : K(n) \in Int
<1> SUFFICES ASSUME NEW n \in Nat PROVE K(n) \in Int
  OBVIOUS
<1> DEFINE p == (First - n) * (First - n + 1)
<1>1. p \in Int
  BY FirstThreshold
<1> HIDE DEF p
<1>2. p \div 2 \in Int
  BY <1>1
<1>3. QED
  BY <1>2 DEF K, p

(* The range of a worker's place and of its guesses.                       *)
OwnRange ==
    \A w \in Workers :
      /\ Own(w) \in 0..2 /\ Place(w) \in Nat
      /\ lockLeft = 0 \/ att[w].pc \in {"clear", "idle"} => Own(w) <= 1

LEMMA TypedRange == TypeOK => OwnRange
<1> SUFFICES ASSUME TypeOK, NEW w \in Workers
             PROVE  /\ Own(w) \in 0..2 /\ Place(w) \in Nat
                    /\ lockLeft = 0 \/ att[w].pc \in {"clear", "idle"} => Own(w) <= 1
  BY DEF OwnRange
<1>1. count \in Nat /\ lockLeft \in Nat /\ att[w] \in [pc : Pcs, seen : Nat]
  BY LockoutAssumption DEF TypeOK
<1>2. QED
  BY <1>1 DEF Own, Place

(* While no one decides to lock, every place is below the threshold.       *)
LowPlaces ==
    \A v, w \in Workers :
      v # w /\ Plain(v) /\ Plain(w) => Place(v) < First /\ Place(w) < First

LEMMA PlacesLow ==
    TwoWorkers /\ TypeOK /\ NoOrphanCount /\ failed = 0 => LowPlaces
<1> SUFFICES ASSUME TwoWorkers, TypeOK, NoOrphanCount, failed = 0,
                    NEW v \in Workers, NEW w \in Workers, v # w, Plain(v), Plain(w)
             PROVE  Place(v) < First /\ Place(w) < First
  BY DEF LowPlaces
<1>1. \A x \in Workers : att[x].pc \notin {"lock", "clear"}
  BY DEF TwoWorkers, Plain, Clears, Decided
<1>2. count \in Nat /\ att \in [Workers -> [pc : Pcs, seen : Nat]]
  BY DEF TypeOK
<1>3. count < First
  BY <1>1, <1>2, FirstThreshold DEF NoOrphanCount
<1>4. QED
  BY <1>2, <1>3, FirstThreshold DEF Place, Plain, Decided

(* When the history starts anew there is room for all guesses to come.     *)
AllBudget == \A v, w \in Workers : v # w => Budget(v, w)

LEMMA FreshBudget ==
    OwnRange /\ LowPlaces /\ TwoWorkers /\ Guarded /\ TypeOK /\ guesses = 0
      => AllBudget /\ guesses <= Most
<1> SUFFICES ASSUME OwnRange, LowPlaces, TwoWorkers, Guarded, TypeOK, guesses = 0,
                    NEW v \in Workers, NEW w \in Workers, v # w
             PROVE  Budget(v, w)
  BY KFacts DEF AllBudget
<1>1. /\ Own(v) \in 0..2 /\ Own(w) \in 0..2 /\ Place(v) \in Nat /\ Place(w) \in Nat
      /\ Own(v) + Own(w) <= 3
      /\ Clears(w) => Own(w) <= 1
  <2>1. Workers = {v, w} /\ lockLeft \in Nat
    BY LockoutAssumption DEF TwoWorkers, TypeOK
  <2>2. QED
    BY <2>1 DEF OwnRange, Guarded, Clears
<1>2. First \in Nat \ {0} /\ Most \in Nat /\ K(0) \in Nat /\ K(0) + First + 1 = Most
  BY KFacts
<1>3. /\ Rise(Place(v)) \in 0..First - 1 /\ Rise(Place(w)) \in 0..First - 1
  BY <1>1, <1>2 DEF Rise
<1>4. ASSUME Plain(v), Plain(w), Place(v) <= Place(w)
      PROVE  guesses + Own(v) + Own(w) + Rise(Place(w)) + K(Place(v) + 1) <= Most
  <2>1. Place(v) + 1 \in 0..First /\ 1 \in 0..First /\ 0 \in 0..First
    BY <1>1, <1>2, <1>4 DEF LowPlaces
  <2>2. K(Place(v) + 1) \in Nat /\ K(Place(v) + 1) <= K(1) /\ K(1) \in Nat
    BY <1>1, <2>1, KFacts
  <2>3. K(0) = K(1) + First
    BY <1>2, <2>1, KFacts
  <2>4. QED
    BY <1>1, <1>2, <1>3, <2>2, <2>3
<1>5. QED
  BY <1>1, <1>2, <1>3, <1>4 DEF Budget

LEMMA Less == \A a, b, c, d \in Int : a <= b /\ b + c <= d => a + c <= d
OBVIOUS

(* A step that moves no place leaves the budget whole when guesses made    *)
(* and guesses to be made together do not grow.                            *)
LEMMA Spend ==
    ASSUME NEW v \in Workers, NEW w \in Workers, Budget(v, w),
           OwnRange, OwnRange', guesses \in Nat, guesses' \in Nat,
           Place(v)' = Place(v), Place(w)' = Place(w),
           (Clears(v)' <=> Clears(v)) /\ (Clears(w)' <=> Clears(w)),
           (Decided(v)' <=> Decided(v)) /\ (Decided(w)' <=> Decided(w)),
           guesses' + Own(v)' + Own(w)' <= guesses + Own(v) + Own(w),
           guesses' + Own(v)' <= guesses + Own(v) \/ Plain(w),
           guesses' <= guesses \/ Plain(v) \/ Plain(w)
    PROVE  Budget(v, w)'
<1>1. /\ Own(v) \in 0..2 /\ Own(w) \in 0..2 /\ Own(v)' \in 0..2 /\ Own(w)' \in 0..2
  BY DEF OwnRange
<1>2. First \in Nat \ {0} /\ Most \in Nat /\ K(0) \in Nat
  BY KFacts
<1>3. (Plain(v)' <=> Plain(v)) /\ (Plain(w)' <=> Plain(w))
  BY DEF Plain
<1>4. Rise(Place(v)) \in Int /\ Rise(Place(w)) \in Int /\ K(Place(v) + 1) \in Int
  <2>1. Place(v) \in Nat /\ Place(w) \in Nat /\ Place(v) + 1 \in Nat
    BY DEF OwnRange
  <2>2. QED
    BY <1>2, <2>1, KInteger DEF Rise
<1>5. ASSUME Plain(v), Plain(w), Place(v)' <= Place(w)'
      PROVE  guesses' + Own(v)' + Own(w)' + Rise(Place(w)') + K(Place(v)' + 1) <= Most
  BY <1>1, <1>2, <1>4, <1>5 DEF Budget
<1>6. ASSUME Plain(v), Decided(w)
      PROVE  guesses' + Own(v)' + Rise(Place(v)') <= Most
  <2>1. guesses' + Own(v)' <= guesses + Own(v)
    BY <1>6 DEF Plain
  <2>2. QED
    BY <1>1, <1>2, <1>4, <1>6, <2>1 DEF Budget
<1>7. ASSUME Plain(v), Clears(w)
      PROVE  guesses' + Own(v)' + Rise(Place(v)') + K(0) <= Most
  <2>1. guesses' + Own(v)' <= guesses + Own(v)
    BY <1>7 DEF Plain
  <2>2. QED
    BY <1>1, <1>2, <1>4, <1>7, <2>1 DEF Budget
<1>8. ASSUME Decided(v), Clears(w) PROVE guesses' + First <= Most
  <2>1. guesses' <= guesses
    BY <1>8 DEF Plain
  <2>2. guesses + First <= Most
    BY <1>8, Zenon DEF Budget
  <2>3. guesses \in Int /\ guesses' \in Int /\ First \in Int /\ Most \in Int
    BY <1>2
  <2>4. QED
    BY <2>1, <2>2, <2>3, Less, Zenon
<1>9. ASSUME Clears(v), Clears(w) PROVE guesses' + K(0) + First <= Most
  <2>1. guesses' <= guesses
    BY <1>9 DEF Plain
  <2>2. guesses + K(0) + First <= Most
    BY <1>9, Zenon DEF Budget
  <2>3. QED
    BY <1>2, <2>1, <2>2
<1>10. QED
  BY <1>3, <1>5, <1>6, <1>7, <1>8, <1>9, Zenon DEF Budget, Rise

(* The steps of w that move no place: admission, the comparison of the     *)
(* password, the second look at the lock, and the deletion of a lock.      *)
LEMMA StillSteps ==
    ASSUME Enabled, GuessInv, failed = 0, OwnRange', NEW v \in Workers, NEW w \in Workers, v # w,
           \/ CheckLockStatus(w) \/ ValidatePassword(w)
           \/ UnlockAccount(w) \/ RecordFailedAttempt(w)
    PROVE  Budget(v, w)' /\ Budget(w, v)'
<1>0. /\ att \in [Workers -> [pc : Pcs, seen : Nat]] /\ count \in Nat /\ guesses \in Nat
      /\ lockLeft \in Nat /\ MaxGuesses \in Nat /\ OwnRange
      /\ Budget(v, w) /\ Budget(w, v)
  BY LockoutAssumption, TypedRange DEF GuessInv, TypeOK
<1>1. att'[v] = att[v] /\ count' = count
  BY <1>0 DEF CheckLockStatus, ValidatePassword, UnlockAccount, RecordFailedAttempt, Goto, End
<1>2. /\ att[w].pc \in {"idle", "password", "record"}
      /\ att'[w].pc \in {"idle", "password", "reset", "record", "get", "unlock"}
  BY <1>0 DEF CheckLockStatus, ValidatePassword, UnlockAccount, RecordFailedAttempt, Goto,
     End, Quiet
<1>3. /\ Place(v)' = Place(v) /\ Place(w)' = Place(w) /\ Plain(w)
      /\ (Clears(v)' <=> Clears(v)) /\ (Clears(w)' <=> Clears(w))
      /\ (Decided(v)' <=> Decided(v)) /\ (Decided(w)' <=> Decided(w))
  <2>1. Place(v)' = Place(v) /\ Place(w)' = Place(w)
    BY <1>1, <1>2 DEF Place
  <2>2. /\ (Clears(v)' <=> Clears(v)) /\ (Clears(w)' <=> Clears(w))
        /\ (Decided(v)' <=> Decided(v)) /\ (Decided(w)' <=> Decided(w))
    BY <1>1, <1>2 DEF Clears, Decided
  <2>3. Plain(w)
    BY <1>2 DEF Plain, Clears, Decided
  <2>4. QED
    BY <2>1, <2>2, <2>3
<1>4. Own(v)' <= Own(v) /\ guesses' + Own(w)' <= guesses + Own(w)
  <2>1. CASE CheckLockStatus(w)
    BY <1>0, <1>1, <2>1, LockoutAssumption DEF CheckLockStatus, Goto, Quiet, Own, Locked
  <2>2. CASE ValidatePassword(w)
    <3>1. lockLeft' = lockLeft
      BY <2>2 DEF ValidatePassword
    <3>2. CASE Goto(w, "reset") /\ UNCHANGED guesses
      BY <1>0, <1>1, <2>2, <3>1, <3>2 DEF ValidatePassword, Goto, Own
    <3>3. CASE Goto(w, "record") /\ guesses' = Capped(guesses, MaxGuesses)
      BY <1>0, <1>1, <2>2, <3>1, <3>3 DEF ValidatePassword, Goto, Own, Capped
    <3>4. QED
      BY <2>2, <3>2, <3>3 DEF ValidatePassword
  <2>3. CASE UnlockAccount(w)
    BY <1>0, <1>1, <2>3 DEF UnlockAccount, Goto, Quiet, Own
  <2>4. CASE RecordFailedAttempt(w)
    BY <1>0, <1>1, <2>4 DEF RecordFailedAttempt, Goto, End, Quiet, Own, Locked
  <2>5. QED
    BY <2>1, <2>2, <2>3, <2>4
<1>5. /\ guesses' \in Nat /\ guesses' + Own(v)' + Own(w)' <= guesses + Own(v) + Own(w)
  BY <1>0, <1>4
     DEF CheckLockStatus, ValidatePassword, UnlockAccount, RecordFailedAttempt, Capped, OwnRange
<1>6. Budget(v, w)'
  BY <1>0, <1>3, <1>5, Spend
<1>7. Budget(w, v)'
  BY <1>0, <1>3, <1>4, <1>5, Spend DEF OwnRange
<1>8. QED
  BY <1>6, <1>7

(* From any place the counts still to come are at least the way up.        *)
LEMMA RiseBound ==
    /\ \A n \in Nat : Rise(n) \in 0..First - 1
    /\ \A n \in 0..First - 1 : Rise(n) <= K(n + 1)
    /\ \A n \in Nat : n + 1 < First =>
         /\ Rise(n) = Rise(n + 1) + 1
         /\ K(n + 1) = 1 + Rise(n + 1) + K(n + 2)
         /\ K(n + 1) \in Nat /\ K(n + 2) \in Nat
<1>0. First \in Nat \ {0}
  BY KFacts
<1>1. \A n \in Nat : Rise(n) \in 0..First - 1
  BY <1>0 DEF Rise
<1>2. ASSUME NEW n \in 0..First - 1 PROVE Rise(n) <= K(n + 1)
  <2>0. n + 1 \in 0..First /\ Rise(n) = First - 1 - n
    BY <1>0 DEF Rise
  <2>1. CASE n + 1 = First
    BY <1>0, <2>0, <2>1, KFacts
  <2>2. CASE n + 1 < First
    <3>1. n + 2 \in 0..First /\ n + 1 + 1 = n + 2
      BY <1>0, <2>2
    <3>2. K(n + 1) = K(n + 1 + 1) + First - (n + 1)
      BY <2>0, <2>2, KFacts
    <3>3. K(n + 2) \in Nat
      BY <3>1, KFacts
    <3>4. QED
      BY <1>0, <2>0, <3>1, <3>2, <3>3
  <2>3. QED
    BY <1>0, <2>1, <2>2
<1>3. ASSUME NEW n \in Nat, n + 1 < First
      PROVE  /\ Rise(n) = Rise(n + 1) + 1
             /\ K(n + 1) = 1 + Rise(n + 1) + K(n + 2)
             /\ K(n + 1) \in Nat /\ K(n + 2) \in Nat
  <2>1. n + 1 \in 0..First /\ n + 2 \in 0..First /\ n + 1 + 1 = n + 2
    BY <1>0, <1>3
  <2>2. K(n + 1) = K(n + 1 + 1) + First - (n + 1)
    BY <1>3, <2>1, KFacts
  <2>3. K(n + 1) \in Nat /\ K(n + 2) \in Nat
    BY <2>1, KFacts
  <2>4. Rise(n) = First - 1 - n /\ Rise(n + 1) = First - 1 - (n + 1)
    BY <1>0, <1>3 DEF Rise
  <2>5. QED
    BY <1>0, <2>1, <2>2, <2>3, <2>4
<1>4. QED
  BY <1>1, <1>2, <1>3

(* w reads the count: its place is the same, unless it now has to lock.    *)
LEMMA GetStep ==
    ASSUME TwoWorkers, GuessInv, failed = 0, OwnRange',
           NEW v \in Workers, NEW w \in Workers, v # w, GetCount(w)
    PROVE  Budget(v, w)' /\ Budget(w, v)'
<1>0. /\ att \in [Workers -> [pc : Pcs, seen : Nat]] /\ count \in Nat /\ guesses \in Nat
      /\ OwnRange /\ LowPlaces /\ Budget(v, w) /\ Budget(w, v)
  BY TypedRange, PlacesLow DEF GuessInv, TypeOK
<1>1. /\ att'[v] = att[v] /\ UNCHANGED <<count, guesses, lockLeft>>
      /\ att[w].pc = "get" /\ att'[w].pc = "set" /\ att'[w].seen = count
  BY <1>0 DEF GetCount
<1>2. /\ Place(v)' = Place(v) /\ Place(w)' = Place(w) /\ Place(w) = count
      /\ Own(v)' = Own(v) /\ Own(w)' = 0 /\ Own(w) = 0
  BY <1>1 DEF Place, Own
<1>3. /\ (Clears(v)' <=> Clears(v)) /\ (Clears(w)' <=> Clears(w))
      /\ (Decided(v)' <=> Decided(v)) /\ Plain(w) /\ ~Clears(w)'
      /\ (Decided(w)' <=> count + 1 >= First)
  BY <1>1 DEF Clears, Decided, Plain
<1>4. Own(v) \in 0..2 /\ Place(v) \in Nat
  BY <1>0 DEF OwnRange
<1>5. CASE ~Decided(w)'
  <2>1. Decided(w)' <=> Decided(w)
    BY <1>3, <1>5 DEF Plain
  <2>2. guesses' \in Nat
    BY <1>0, <1>1
  <2>3. /\ guesses' + Own(v)' + Own(w)' <= guesses + Own(v) + Own(w)
        /\ guesses' + Own(w)' + Own(v)' <= guesses + Own(w) + Own(v)
        /\ guesses' + Own(w)' <= guesses + Own(w)
    BY <1>0, <1>1, <1>2, <1>4
  <2>4. Budget(v, w)'
    BY <1>0, <1>2, <1>3, <2>1, <2>2, <2>3, Spend
  <2>5. Budget(w, v)'
    BY <1>0, <1>2, <1>3, <2>1, <2>2, <2>3, Spend
  <2>6. QED
    BY <2>4, <2>5
<1>6. CASE Decided(w)'
  <2>0. First \in Nat \ {0} /\ Most \in Nat /\ K(0) \in Nat /\ First <= K(0)
    <3>1. K(0) = K(0 + 1) + First - 0 /\ K(0 + 1) \in Nat
      BY KFacts
    <3>2. QED
      BY <3>1, KFacts
  <2>1. ASSUME Plain(v) PROVE guesses + Own(v) + Rise(Place(v)) <= Most
    <3>1. Place(v) \in 0..First - 1 /\ count = First - 1
      BY <1>0, <1>2, <1>3, <1>4, <1>6, <2>0, <2>1 DEF LowPlaces
    <3>2. Rise(Place(v)) \in Nat /\ Rise(Place(v)) <= K(Place(v) + 1) /\ Rise(count) = 0
      BY <2>0, <3>1, RiseBound DEF Rise
    <3>3. guesses + Own(v) + Own(w) + Rise(Place(w)) + K(Place(v) + 1) <= Most
      BY <1>0, <1>2, <1>3, <2>0, <2>1, <3>1 DEF Budget
    <3>4. K(Place(v) + 1) \in Nat
      BY <2>0, <3>1, KFacts
    <3>5. QED
      BY <1>0, <1>2, <1>4, <2>0, <3>2, <3>3, <3>4
  <2>2. ASSUME Clears(v) PROVE guesses + First <= Most
    <3>1. guesses + Own(w) + Rise(Place(w)) + K(0) <= Most
      BY <1>0, <1>3, <2>2, Zenon DEF Budget
    <3>2. Rise(Place(w)) \in Nat
      BY <1>0, <1>2, RiseBound
    <3>3. QED
      BY <1>0, <1>2, <2>0, <3>1, <3>2
  <2>3. /\ Plain(v)' <=> Plain(v)
        /\ ~Plain(w)' /\ guesses' = guesses
    BY <1>1, <1>3, <1>6 DEF Plain
  <2>4. Budget(v, w)'
    BY <1>1, <1>2, <1>3, <1>6, <2>1, <2>3, Zenon DEF Budget, Rise
  <2>5. Budget(w, v)'
    BY <1>1, <1>2, <1>3, <1>6, <2>2, <2>3, Zenon DEF Budget, Rise
  <2>6. QED
    BY <2>4, <2>5
<1>7. QED
  BY <1>5, <1>6

(* w writes a count that reaches the threshold: it is about to lock.       *)
LEMMA SetToLock ==
    ASSUME GuessInv, failed = 0, OwnRange',
           NEW v \in Workers, NEW w \in Workers, v # w, SetCount(w), Decided(w)
    PROVE  Budget(v, w)' /\ Budget(w, v)'
<1>0. /\ att \in [Workers -> [pc : Pcs, seen : Nat]] /\ count \in Nat /\ guesses \in Nat
      /\ OwnRange /\ Budget(v, w) /\ Budget(w, v)
      /\ First \in Nat \ {0} /\ Most \in Nat
  BY TypedRange, KFacts DEF GuessInv, TypeOK
<1>1. /\ att'[v] = att[v] /\ UNCHANGED <<guesses, lockLeft>>
      /\ att[w].pc = "set" /\ count' = att[w].seen + 1 /\ count' \in Nat
  BY <1>0 DEF SetCount, Incremented, End
<1>2. count' >= First
  BY <1>1 DEF Decided
<1>3. att'[w].pc = "lock"
  BY <1>0, <1>1, <1>2, FirstThreshold DEF SetCount, Incremented
<1>4. /\ (Clears(v)' <=> Clears(v)) /\ ~Clears(w)'
      /\ (Decided(v)' <=> Decided(v)) /\ Decided(w)' /\ ~Plain(w)'
      /\ (Plain(v)' <=> Plain(v)) /\ guesses' = guesses
  BY <1>1, <1>3 DEF Clears, Decided, Plain
<1>5. ASSUME Plain(v) PROVE guesses' + Own(v)' + Rise(Place(v)') <= Most
  <2>1. guesses + Own(v) + Rise(Place(v)) <= Most
    BY <1>0, <1>5, Zenon DEF Budget
  <2>2. Own(v)' = Own(v) /\ Own(v) \in 0..2 /\ Place(v) \in Nat
    BY <1>0, <1>1 DEF Own, OwnRange
  <2>3. Rise(Place(v)) \in Nat
    BY <2>2, RiseBound
  <2>4. CASE att[v].pc = "set"
    <3>1. Place(v)' = Place(v)
      BY <1>1, <2>4 DEF Place
    <3>2. QED
      BY <1>4, <2>1, <2>2, <3>1
  <2>5. CASE att[v].pc # "set"
    <3>1. Place(v)' = count'
      BY <1>1, <2>5 DEF Place
    <3>2. Rise(count') = 0
      BY <1>0, <1>1, <1>2 DEF Rise
    <3>3. QED
      BY <1>0, <1>4, <2>1, <2>2, <2>3, <3>1, <3>2
  <2>6. QED
    BY <2>4, <2>5
<1>6. ASSUME Clears(v) PROVE guesses' + First <= Most
  BY <1>0, <1>4, <1>6, Zenon DEF Budget
<1>7. Budget(v, w)' /\ Budget(w, v)'
  BY <1>4, <1>5, <1>6, Zenon DEF Budget, Rise
<1>8. QED
  BY <1>7

(* w writes a count below the threshold: the other's place falls to it at  *)
(* most, and w may guess again one higher up.                              *)
LEMMA SetBelow ==
    ASSUME TwoWorkers, GuessInv, failed = 0, OwnRange',
           NEW v \in Workers, NEW w \in Workers, v # w, SetCount(w), ~Decided(w)
    PROVE  Budget(v, w)' /\ Budget(w, v)'
<1> DEFINE s == att[w].seen
           p == Place(v)
           q == Place(v)'
<1>0. /\ att \in [Workers -> [pc : Pcs, seen : Nat]] /\ count \in Nat /\ guesses \in Nat
      /\ OwnRange /\ LowPlaces /\ Budget(v, w) /\ Budget(w, v)
      /\ First \in Nat \ {0} /\ Most \in Nat /\ K(0) \in Nat
  BY TypedRange, PlacesLow, KFacts DEF GuessInv, TypeOK
<1>1. /\ att'[v] = att[v] /\ UNCHANGED <<guesses, lockLeft>>
      /\ att[w].pc = "set" /\ s \in Nat /\ count' = s + 1 /\ count' \in Nat
  BY <1>0 DEF SetCount, Incremented, End
<1>2. s + 1 < First
  BY <1>0, <1>1 DEF Decided
<1>3. att'[w] = Quiet
  <2>1. Reached(s + 1) = {}
    BY <1>1, <1>2, FirstThreshold
  <2>2. QED
    BY <1>0, <2>1 DEF SetCount, Incremented, End
<1>4. /\ (Clears(v)' <=> Clears(v)) /\ ~Clears(w)' /\ ~Clears(w)
      /\ (Decided(v)' <=> Decided(v)) /\ ~Decided(w)' /\ Plain(w)' /\ Plain(w)
      /\ (Plain(v)' <=> Plain(v)) /\ guesses' = guesses
  BY <1>1, <1>3 DEF Clears, Decided, Plain, Quiet
<1>5. /\ Place(w) = s /\ Place(w)' = s + 1 /\ Own(w) = 0 /\ Own(w)' = 1
      /\ Own(v)' = Own(v) /\ Own(v) \in 0..2 /\ p \in Nat
      /\ q = IF att[v].pc = "set" THEN p ELSE s + 1
  BY <1>0, <1>1, <1>3 DEF Place, Own, OwnRange, Quiet
<1>6. /\ Rise(s) = Rise(s + 1) + 1 /\ Rise(s + 1) \in Nat
      /\ K(s + 1) = 1 + Rise(s + 1) + K(s + 2)
      /\ K(s + 1) \in Nat /\ K(s + 2) \in Nat /\ s + 1 + 1 = s + 2
  BY <1>1, <1>2, RiseBound
<1>7. ASSUME Plain(v)
      PROVE  /\ q <= s + 1 => guesses + Own(v) + 1 + Rise(s + 1) + K(q + 1) <= Most
             /\ s + 1 <= q => guesses + Own(v) + 1 + Rise(q) + K(s + 2) <= Most
  <2>1. p < First /\ p + 1 \in 0..First /\ s + 1 \in 0..First
    BY <1>0, <1>1, <1>2, <1>4, <1>5, <1>7 DEF LowPlaces
  <2>2. /\ p <= s => guesses + Own(v) + Rise(s) + K(p + 1) <= Most
        /\ s <= p => guesses + Own(v) + Rise(p) + K(s + 1) <= Most
    <3>1. p <= s => guesses + Own(v) + Own(w) + Rise(s) + K(p + 1) <= Most
      BY <1>0, <1>4, <1>5, <1>7 DEF Budget
    <3>2. s <= p => guesses + Own(w) + Own(v) + Rise(p) + K(s + 1) <= Most
      BY <1>0, <1>4, <1>5, <1>7 DEF Budget
    <3>3. Rise(p) \in Nat /\ K(p + 1) \in Nat
      BY <1>5, <2>1, KFacts, RiseBound
    <3>4. QED
      BY <1>0, <1>5, <1>6, <3>1, <3>2, <3>3
  <2>3. Rise(p) \in Nat /\ K(p + 1) \in Nat
    BY <1>5, <2>1, KFacts, RiseBound
  <2>4. CASE att[v].pc = "set"
    <3>1. q = p
      BY <1>5, <2>4
    <3>2. CASE p <= s
      BY <1>0, <1>1, <1>5, <1>6, <2>2, <2>3, <3>1, <3>2
    <3>3. CASE s + 1 <= p
      <4>1. p = s + 1 => Rise(p) = Rise(s + 1) /\ K(p + 1) = K(s + 2)
        BY <1>6
      <4>2. guesses + Own(v) + Rise(p) + 1 + Rise(s + 1) + K(s + 2) <= Most
        BY <1>0, <1>1, <1>5, <1>6, <2>2, <2>3, <3>3
      <4>3. QED
        BY <1>0, <1>1, <1>5, <1>6, <2>3, <3>1, <3>3, <4>1, <4>2
    <3>4. QED
      BY <1>1, <1>5, <3>2, <3>3
  <2>5. CASE att[v].pc # "set"
    <3>1. q = s + 1
      BY <1>5, <2>5
    <3>2. guesses + Own(v) + K(s + 1) <= Most
      <4>1. p <= s => K(s + 1) <= K(p + 1)
        BY <1>1, <1>5, <2>1, KFacts
      <4>2. QED
        BY <1>0, <1>1, <1>5, <1>6, <2>2, <2>3, <4>1
    <3>3. guesses + Own(v) + 1 + Rise(s + 1) + K(s + 2) <= Most
      BY <1>0, <1>5, <1>6, <3>2
    <3>4. QED
      BY <1>6, <3>1, <3>3
  <2>6. QED
    BY <2>4, <2>5
<1>8. ASSUME Decided(v) PROVE guesses + 1 + Rise(s + 1) <= Most
  <2>1. guesses + Own(w) + Rise(s) <= Most
    BY <1>0, <1>4, <1>5, <1>8, Zenon DEF Budget
  <2>2. QED
    BY <1>0, <1>5, <1>6, <2>1
<1>9. ASSUME Clears(v) PROVE guesses + 1 + Rise(s + 1) + K(0) <= Most
  <2>1. guesses + Own(w) + Rise(s) + K(0) <= Most
    BY <1>0, <1>4, <1>5, <1>9, Zenon DEF Budget
  <2>2. QED
    BY <1>0, <1>5, <1>6, <2>1
<1>10. q \in Nat /\ guesses + 1 + Own(v) = guesses + Own(v) + 1
  BY <1>0, <1>1, <1>5
<1> HIDE DEF p, s
<1>11. Budget(v, w)'
  BY <1>4, <1>5, <1>6, <1>7, Zenon DEF Budget, Rise
<1>12. Budget(w, v)'
  BY <1>4, <1>5, <1>6, <1>7, <1>8, <1>9, <1>10, Zenon DEF Budget, Rise
<1>13. QED
  BY <1>11, <1>12

(* w deletes the count after its lock: both may start again from nothing.  *)
LEMMA ClearStep ==
    ASSUME TwoWorkers, GuessInv, failed = 0, OwnRange',
           NEW v \in Workers, NEW w \in Workers, v # w, ClearCount(w)
    PROVE  Budget(v, w)' /\ Budget(w, v)'
<1> DEFINE p == Place(v)
           q == Place(v)'
<1>0. /\ att \in [Workers -> [pc : Pcs, seen : Nat]] /\ count \in Nat /\ guesses \in Nat
      /\ OwnRange /\ Budget(v, w) /\ Budget(w, v)
      /\ First \in Nat \ {0} /\ Most \in Nat /\ K(0) \in Nat
  BY TypedRange, KFacts DEF GuessInv, TypeOK
<1>1. /\ att'[v] = att[v] /\ UNCHANGED <<guesses, lockLeft>>
      /\ att[w].pc = "clear" /\ count' = 0 /\ att'[w] = Quiet
  BY <1>0 DEF ClearCount, AfterLock, End
<1>2. /\ (Clears(v)' <=> Clears(v)) /\ ~Clears(w)' /\ Clears(w)
      /\ (Decided(v)' <=> Decided(v)) /\ ~Decided(w)' /\ Plain(w)'
      /\ (Plain(v)' <=> Plain(v)) /\ guesses' = guesses
  BY <1>1 DEF Clears, Decided, Plain, Quiet
<1>3. /\ Place(w)' = 0 /\ Own(w)' = 1
      /\ Own(v)' = Own(v) /\ Own(v) \in 0..2 /\ p \in Nat
      /\ q = IF att[v].pc = "set" THEN p ELSE 0
  BY <1>0, <1>1 DEF Place, Own, OwnRange, Quiet
<1>4. /\ K(0) = K(1) + First /\ K(1) \in Nat /\ Rise(0) = First - 1 /\ 0 + 1 = 1
  <2>1. 0 \in 0..First /\ 1 \in 0..First /\ 0 + 1 = 1
    BY <1>0
  <2>2. K(0) = K(0 + 1) + First - 0 /\ K(1) \in Nat
    BY <1>0, <2>1, KFacts
  <2>3. QED
    BY <1>0, <2>1, <2>2 DEF Rise
<1>5. ASSUME Plain(v)
      PROVE  guesses + Own(v) + 1 + Rise(q) + K(1) <= Most
  <2>1. guesses + Own(v) + Rise(p) + K(0) <= Most
    BY <1>0, <1>2, <1>5, Zenon DEF Budget
  <2>2. q \in Nat
    BY <1>3
  <2>3. Rise(q) \in 0..First - 1 /\ Rise(p) \in Nat
    BY <1>3, <2>2, RiseBound
  <2>4. QED
    BY <1>0, <1>3, <1>4, <2>1, <2>3
<1>6. ASSUME Decided(v) PROVE guesses + 1 + Rise(0) <= Most
  <2>1. guesses + First <= Most
    BY <1>0, <1>2, <1>6, Zenon DEF Budget
  <2>2. QED
    BY <1>0, <1>4, <2>1
<1>7. ASSUME Clears(v) PROVE guesses + 1 + Rise(0) + K(0) <= Most
  <2>1. guesses + K(0) + First <= Most
    BY <1>0, <1>2, <1>7, Zenon DEF Budget
  <2>2. QED
    BY <1>0, <1>4, <2>1
<1>8. q \in Nat /\ guesses + 1 + Own(v) = guesses + Own(v) + 1 /\ (q <= 0 => q = 0)
  BY <1>0, <1>1, <1>3
<1> HIDE DEF p
<1>9. Budget(v, w)'
  BY <1>2, <1>3, <1>4, <1>5, <1>8, Zenon DEF Budget, Rise
<1>10. Budget(w, v)'
  BY <1>2, <1>3, <1>4, <1>5, <1>6, <1>7, <1>8, Zenon DEF Budget, Rise
<1>11. QED
  BY <1>9, <1>10

(* Time opens the account and lets the count expire, and nothing else.     *)
LEMMA TickStep ==
    ASSUME GuessInv, failed = 0, OwnRange', Tick, countLeft # 1,
           NEW v \in Workers, NEW w \in Workers, v # w
    PROVE  Budget(v, w)'
<1>0. /\ att \in [Workers -> [pc : Pcs, seen : Nat]] /\ count \in Nat /\ guesses \in Nat
      /\ countLeft \in Nat /\ lockLeft \in Nat
      /\ OwnRange /\ Budget(v, w) /\ (countLeft = 0 <=> count = 0)
  BY LockoutAssumption, TypedRange DEF GuessInv, TypeOK, CountTTL
<1>1. UNCHANGED <<att, count, guesses>> /\ (lockLeft = 0 => lockLeft' = 0)
      /\ lockLeft' \in Nat
  BY <1>0 DEF Tick
<1>2. /\ Place(v)' = Place(v) /\ Place(w)' = Place(w)
      /\ (Clears(v)' <=> Clears(v)) /\ (Clears(w)' <=> Clears(w))
      /\ (Decided(v)' <=> Decided(v)) /\ (Decided(w)' <=> Decided(w))
  BY <1>1 DEF Place, Clears, Decided
<1>3. Own(v)' <= Own(v) /\ Own(w)' <= Own(w)
  BY <1>0, <1>1 DEF Own
<1>4. /\ guesses' \in Nat
      /\ guesses' + Own(v)' + Own(w)' <= guesses + Own(v) + Own(w)
      /\ guesses' + Own(v)' <= guesses + Own(v) /\ guesses' <= guesses
  BY <1>0, <1>1, <1>3 DEF OwnRange
<1>5. QED
  BY <1>0, <1>2, <1>4, Spend

(* Where an account is locked, someone has just locked it or is waiting    *)
(* for it to open.                                                         *)
LEMMA StillGuarded ==
    ASSUME Enabled, TypeOK, Guarded, [Next]_vars, failed' = 0
    PROVE  Guarded'
<1>0. att \in [Workers -> [pc : Pcs, seen : Nat]] /\ lockLeft \in Nat /\ failed \in Nat
  BY LockoutAssumption DEF TypeOK
<1>1. CASE Tick \/ UNCHANGED vars
  BY <1>0, <1>1 DEF Tick, vars, Guarded
<1>2. ASSUME NEW w \in Workers, Act(w) PROVE Guarded'
  <2>1. \A v \in Workers \ {w} : att'[v] = att[v]
    BY <1>0, <1>2 DEF Act, Proceed, CheckLockStatus, UnlockAccount, ValidatePassword,
       ResetFailureCount, RecordFailedAttempt, GetCount, SetCount, SetLock, ClearCount,
       UnlockCount, Fail, Goto, End
  <2>2. CASE SetLock(w)
    BY <1>0, <2>2 DEF SetLock, Goto, Guarded
  <2>3. CASE UnlockAccount(w)
    BY <2>3 DEF UnlockAccount, Guarded
  <2>4. CASE CheckLockStatus(w)
    BY <1>0, <2>4 DEF CheckLockStatus, Locked, Guarded
  <2>5. CASE \/ ValidatePassword(w) \/ ResetFailureCount(w) \/ RecordFailedAttempt(w)
             \/ GetCount(w) \/ SetCount(w) \/ ClearCount(w) \/ UnlockCount(w) \/ Fail(w)
    <3>1. lockLeft' = lockLeft
      BY <2>5 DEF ValidatePassword, ResetFailureCount, RecordFailedAttempt, GetCount,
         SetCount, ClearCount, UnlockCount, Fail
    <3>2. att[w].pc = "clear" => att'[w] = Quiet
      BY <1>0, <2>5 DEF ValidatePassword, ResetFailureCount, RecordFailedAttempt, GetCount,
         SetCount, ClearCount, UnlockCount, Fail, End
    <3>3. att[w].pc # "idle"
      BY <1>0, <2>5 DEF ValidatePassword, ResetFailureCount, RecordFailedAttempt, GetCount,
         SetCount, ClearCount, UnlockCount, Fail, Quiet
    <3>4. QED
      BY <2>1, <3>1, <3>2, <3>3 DEF Guarded, Quiet
  <2>6. QED
    BY <1>2, <2>2, <2>3, <2>4, <2>5 DEF Act, Proceed
<1>3. QED
  BY <1>1, <1>2 DEF Next, Act

(* The facts of the next state that no budget is needed for.               *)
LEMMA NextFrame ==
    ASSUME TwoWorkers, Enabled, GuessInv, [Next]_vars, failed' = 0
    PROVE  /\ failed = 0 /\ Guarded /\ AllBudget /\ guesses <= Most
           /\ TypeOK' /\ NoOrphanCount' /\ OwnRange' /\ LowPlaces' /\ Guarded'
<1>1. TypeOK' /\ NoOrphanCount'
  BY NextTypeOK, NextNoOrphan DEF GuessInv
<1>2. failed = 0
  BY LockoutAssumption DEF GuessInv, TypeOK, Next, vars, Proceed, CheckLockStatus,
     UnlockAccount, ValidatePassword, ResetFailureCount, RecordFailedAttempt, GetCount,
     SetCount, SetLock, ClearCount, UnlockCount, Fail, Tick
<1>3. Guarded /\ AllBudget /\ guesses <= Most
  BY <1>2 DEF GuessInv, Guarded, AllBudget
<1>4. Guarded'
  BY <1>3, StillGuarded DEF GuessInv
<1>5. (TypeOK => OwnRange)'
  BY TypedRange, PTL
<1>6. (TwoWorkers /\ TypeOK /\ NoOrphanCount /\ failed = 0 => LowPlaces)'
  BY PlacesLow, PTL
<1>7. QED
  BY <1>1, <1>2, <1>3, <1>4, <1>5, <1>6 DEF TwoWorkers

LEMMA NextFresh ==
    ASSUME TwoWorkers, Enabled, GuessInv, [Next]_vars, failed' = 0, guesses' = 0
    PROVE  AllBudget' /\ guesses' <= Most
<1>1. (OwnRange /\ LowPlaces /\ TwoWorkers /\ Guarded /\ TypeOK /\ guesses = 0
         => AllBudget /\ guesses <= Most)'
  BY FreshBudget, PTL
<1>2. QED
  BY <1>1, NextFrame DEF TwoWorkers

(* With no guess to come the budget alone bounds those that were made.     *)
PlainBound == \A v, w \in Workers : v # w /\ Plain(v) => guesses <= Most

LEMMA BudgetBounds ==
    OwnRange /\ LowPlaces /\ AllBudget /\ guesses \in Nat => PlainBound
<1> SUFFICES ASSUME OwnRange, LowPlaces, AllBudget, guesses \in Nat,
                    NEW v \in Workers, NEW w \in Workers, v # w, Plain(v)
             PROVE  guesses <= Most
  BY DEF PlainBound
<1>0. /\ Budget(v, w) /\ Budget(w, v) /\ First \in Nat \ {0} /\ Most \in Nat /\ K(0) \in Nat
      /\ Own(v) \in 0..2 /\ Own(w) \in 0..2 /\ Place(v) \in Nat /\ Place(w) \in Nat
  BY KFacts DEF AllBudget, OwnRange
<1>1. Rise(Place(v)) \in Nat /\ Rise(Place(w)) \in Nat
  BY <1>0, RiseBound
<1>2. CASE Plain(w)
  <2>1. Place(v) + 1 \in 0..First /\ Place(w) + 1 \in 0..First
    BY <1>0, <1>2 DEF LowPlaces
  <2>2. K(Place(v) + 1) \in Nat /\ K(Place(w) + 1) \in Nat
    BY <2>1, KFacts
  <2>3. CASE Place(v) <= Place(w)
    <3>1. guesses + Own(v) + Own(w) + Rise(Place(w)) + K(Place(v) + 1) <= Most
      BY <1>0, <1>2, <2>3, Zenon DEF Budget
    <3>2. QED
      BY <1>0, <1>1, <2>2, <3>1
  <2>4. CASE Place(w) <= Place(v)
    <3>1. guesses + Own(w) + Own(v) + Rise(Place(v)) + K(Place(w) + 1) <= Most
      BY <1>0, <1>2, <2>4, Zenon DEF Budget
    <3>2. QED
      BY <1>0, <1>1, <2>2, <3>1
  <2>5. QED
    BY <1>0, <2>3, <2>4
<1>3. CASE Decided(w)
  <2>1. guesses + Own(v) + Rise(Place(v)) <= Most
    BY <1>0, <1>3, Zenon DEF Budget
  <2>2. QED
    BY <1>0, <1>1, <2>1
<1>4. CASE Clears(w)
  <2>1. guesses + Own(v) + Rise(Place(v)) + K(0) <= Most
    BY <1>0, <1>4, Zenon DEF Budget
  <2>2. QED
    BY <1>0, <1>1, <2>1
<1>5. QED
  BY <1>2, <1>3, <1>4 DEF Plain

(* The budget is kept by every step of one of the two workers.             *)
LEMMA NextGuessInv ==
    ASSUME TwoWorkers, Enabled, GuessInv, [Next]_vars
    PROVE  GuessInv'
<1>1. TypeOK' /\ NoOrphanCount'
  BY NextTypeOK, NextNoOrphan DEF GuessInv
<1>2. ASSUME failed' = 0 PROVE AllBudget' /\ Guarded' /\ guesses' <= Most
  <2>0. /\ failed = 0 /\ AllBudget /\ guesses <= Most
        /\ OwnRange' /\ LowPlaces' /\ Guarded' /\ guesses' \in Nat /\ guesses \in Nat
        /\ countLeft \in Nat /\ (countLeft = 0 <=> count = 0)
    BY <1>1, <1>2, NextFrame, LockoutAssumption DEF GuessInv, TypeOK, CountTTL
  <2>1. ASSUME NEW w \in Workers, ResetFailureCount(w) \/ SetLock(w) \/ UnlockCount(w)
        PROVE  AllBudget' /\ guesses' <= Most
    BY <1>2, <2>1, NextFresh DEF ResetFailureCount, SetLock, UnlockCount
  <2>2. ASSUME NEW w \in Workers,
               \/ CheckLockStatus(w) \/ ValidatePassword(w) \/ UnlockAccount(w)
               \/ RecordFailedAttempt(w) \/ GetCount(w) \/ SetCount(w) \/ ClearCount(w)
        PROVE  AllBudget' /\ guesses' <= Most
    <3>1. PICK v \in Workers : v # w /\ Workers = {v, w}
      BY DEF TwoWorkers
    <3>2. Budget(v, w)' /\ Budget(w, v)'
      BY <2>0, <2>2, <3>1, StillSteps, GetStep, SetToLock, SetBelow, ClearStep
    <3>3. AllBudget'
      BY <3>1, <3>2, Zenon DEF AllBudget
    <3>4. guesses' <= Most
      <4>1. CASE ~ValidatePassword(w)
        BY <2>0, <2>2, <4>1 DEF CheckLockStatus, UnlockAccount, RecordFailedAttempt,
           GetCount, SetCount, ClearCount
      <4>2. CASE ValidatePassword(w)
        <5>1. Plain(w)'
          BY <4>2 DEF ValidatePassword, Goto, Plain, Clears, Decided, GuessInv, TypeOK
        <5>2. (OwnRange /\ LowPlaces /\ AllBudget /\ guesses \in Nat => PlainBound)'
          BY BudgetBounds, PTL
        <5>3. PlainBound'
          BY <2>0, <3>3, <5>2
        <5>4. QED
          BY <3>1, <5>1, <5>3, Zenon DEF PlainBound
      <4>3. QED
        BY <4>1, <4>2
    <3>5. QED
      BY <3>3, <3>4
  <2>3. ASSUME NEW w \in Workers, Fail(w) PROVE FALSE
    <3>1. failed = 0 /\ failed' = 0 /\ failed' = failed + 1
      BY <1>2, <2>0, <2>3, Zenon DEF Fail
    <3>2. QED
      BY <3>1
  <2>4. CASE Tick
    <3>1. CASE countLeft = 1
      <4>1. guesses' = 0
        BY <2>4, <3>1 DEF Tick
      <4>2. AllBudget' /\ guesses' <= Most
        BY <1>2, <4>1, NextFresh
      <4>3. QED
        BY <2>0, <4>2
    <3>2. CASE countLeft # 1
      <4>1. AllBudget'
        <5>1. \A v, w \in Workers : v # w => Budget(v, w)'
          BY <2>0, <2>4, <3>2, TickStep
        <5>2. QED
          BY <5>1, Zenon DEF AllBudget
      <4>2. QED
        BY <2>0, <2>4, <3>2, <4>1 DEF Tick
    <3>3. QED
      BY <3>1, <3>2
  <2>5. CASE UNCHANGED vars
    <3>1. AllBudget'
      BY <2>0, <2>5 DEF vars, AllBudget, Budget, Plain, Clears, Decided, Place, Own
    <3>2. QED
      BY <2>0, <2>5, <3>1 DEF vars
  <2>6. QED
    BY <2>0, <2>1, <2>2, <2>3, <2>4, <2>5 DEF Next, Proceed
<1>3. QED
  BY <1>1, <1>2 DEF GuessInv, AllBudget, Guarded

(* Two attempts at a time get at most 1 + 2 + ... + (T+1) wrong passwords   *)
(* in between two locks, resets or expiries of the count, for every         *)
(* threshold T and every lock (incrementFailureCount reads the counter and *)
(* writes it back in two awaits).                                          *)
THEOREM GuessesBounded == TwoWorkers /\ Enabled => (Spec => []GuessBound)
<1> SUFFICES ASSUME TwoWorkers, Enabled PROVE Spec => []GuessBound
  OBVIOUS
<1>1. Init => GuessInv
  <2> SUFFICES ASSUME Init PROVE GuessInv
    OBVIOUS
  <2>1. TypeOK /\ NoOrphanCount /\ failed = 0 /\ guesses = 0 /\ Guarded
    BY InitTypeOK, ZeroReachesNothing DEF Init, NoOrphanCount, Guarded
  <2>2. AllBudget /\ guesses <= Most
    BY <2>1, TypedRange, PlacesLow, FreshBudget
  <2>3. QED
    BY <2>1, <2>2 DEF GuessInv, AllBudget, Guarded
<1>2. GuessInv /\ [Next]_vars => GuessInv'
  BY NextGuessInv
<1>3. GuessInv => GuessBound
  BY DEF GuessInv, GuessBound, Most, First
<1>4. QED
  BY <1>1, <1>2, <1>3, PTL DEF Spec
=============================================================================
