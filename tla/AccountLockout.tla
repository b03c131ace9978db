-------------------------- MODULE AccountLockout --------------------------
(***************************************************************************)
(* AccountLockoutService and the part of AuthService.validateUser that     *)
(* calls it, for one account: the counter and the lock of two accounts are *)
(* different cache keys and share nothing.  Each worker serves one login   *)
(* attempt, or one unlockAccount, and yields at every await.               *)
(***************************************************************************)
EXTENDS Integers, Sequences

CONSTANTS
    Workers,
    Enabled,        \* security.accountLockout.enabled
    MaxAttempts,    \* thresholds, [5, 10] by default
    LockDurations,  \* lock per threshold, [900, 3600] by default, in ticks
    Buffer,         \* 300: the counter outlives the longest lock
    MaxFailures,    \* bound: awaits that throw (cache down, process dying)
    MaxCount,       \* bound: no attempt is admitted with a count beyond it
    MaxGuesses      \* bound: where the history of guesses stops counting

Tiers == 1..Len(MaxAttempts)
Longest == CHOOSE d \in {LockDurations[i] : i \in Tiers} :
              \A i \in Tiers : LockDurations[i] <= d

CountTTL == Longest + Buffer

ASSUME LockoutAssumption ==
    /\ Enabled \in BOOLEAN
    /\ MaxFailures \in Nat /\ MaxCount \in Nat /\ MaxGuesses \in Nat
    /\ MaxAttempts \in Seq(Nat \ {0})
    /\ Len(MaxAttempts) > 0
    /\ LockDurations \in Seq(Nat \ {0})
    /\ Len(LockDurations) = Len(MaxAttempts)
    /\ \A i, j \in Tiers : i < j => MaxAttempts[i] < MaxAttempts[j]
    /\ Longest \in Nat \ {0} /\ \A i \in Tiers : LockDurations[i] <= Longest
    /\ Buffer \in Nat

VARIABLES
    count,      \* account:lockout:failures:<user>, 0 when absent
    countLeft,  \* its TTL
    lockLeft,   \* TTL of account:lockout:locked:<user>, 0 when absent
    att,        \* att[w]: the attempt worker w is serving
    failed,     \* how many awaits have thrown
    guesses,    \* history: wrong passwords since the count last started anew
    overlapped  \* history: two requests have been in flight together

vars == <<count, countLeft, lockLeft, att, failed, guesses, overlapped>>

Quiet == [pc |-> "idle", seen |-> 0]

-----------------------------------------------------------------------------
Init ==
    /\ count = 0 /\ countLeft = 0 /\ lockLeft = 0
    /\ att = [w \in Workers |-> Quiet]
    /\ guesses = 0 /\ failed = 0 /\ overlapped = FALSE

(* Mutated form: the lock key is not looked at. *)
NeverLocked == FALSE

Locked == Enabled /\ lockLeft > 0

Goto(w, pc) == att' = [att EXCEPT ![w].pc = pc]
End(w) == att' = [att EXCEPT ![w] = Quiet]

Admit(w) == overlapped' = (overlapped \/ \E x \in Workers \ {w} : att[x] # Quiet)

(* checkLockStatus of an account that exists, then isActive: either ends   *)
(* the attempt with 401.  The row's isActive was read before.              *)
CheckLockStatus(w) ==
    /\ att[w] = Quiet
    /\ ~Locked
    /\ count < MaxCount /\ \A x \in Workers : att[x].seen < MaxCount
    /\ Goto(w, "password")
    /\ Admit(w)
    /\ UNCHANGED <<count, countLeft, lockLeft, failed, guesses>>

Capped(n, cap) == IF n < cap THEN n + 1 ELSE n

(* bcrypt compares; a wrong password is one more guess the client made. *)
ValidatePassword(w) ==
    /\ att[w].pc = "password"
    /\ \/ /\ Goto(w, "reset")
          /\ UNCHANGED guesses
       \/ /\ Goto(w, "record")
          /\ guesses' = Capped(guesses, MaxGuesses)
    /\ UNCHANGED <<count, countLeft, lockLeft, failed, overlapped>>

(* resetFailureCount, and the login goes on. *)
ResetFailureCount(w) ==
    /\ att[w].pc = "reset"
    /\ count' = IF Enabled THEN 0 ELSE count
    /\ countLeft' = IF Enabled THEN 0 ELSE countLeft
    /\ guesses' = 0
    /\ End(w)
    /\ UNCHANGED <<lockLeft, failed, overlapped>>

(* recordFailedAttempt: a locked account is not counted against. *)
RecordFailedAttempt(w) ==
    /\ att[w].pc = "record"
    /\ IF Enabled /\ ~Locked THEN Goto(w, "get") ELSE End(w)
    /\ UNCHANGED <<count, countLeft, lockLeft, failed, guesses, overlapped>>

(* incrementFailureCount reads the counter, awaits, and writes it back. *)
GetCount(w) ==
    /\ att[w].pc = "get"
    /\ att' = [att EXCEPT ![w] = [pc |-> "set", seen |-> count]]
    /\ UNCHANGED <<count, countLeft, lockLeft, failed, guesses, overlapped>>

(* Mutated forms: one failure too many is allowed; the count stands still. *)
ReachedLate(n) == {i \in Tiers : n > MaxAttempts[i]}
Unchanged(n) == n

Reached(n) == {i \in Tiers : n >= MaxAttempts[i]}
Incremented(n) == n + 1

SetCount(w) ==
    LET n == Incremented(att[w].seen) IN
    /\ att[w].pc = "set"
    /\ count' = n
    /\ countLeft' = CountTTL
    /\ IF Reached(n) # {}
         THEN att' = [att EXCEPT ![w] = [pc |-> "lock", seen |-> n]]
         ELSE End(w)
    /\ UNCHANGED <<lockLeft, failed, guesses, overlapped>>

(* checkAndLock goes through the thresholds from the last to the first. *)
FirstFound(n) == {i \in Reached(n) : \A j \in Reached(n) : j <= i}

SetLock(w) ==
    /\ att[w].pc = "lock"
    /\ \E i \in FirstFound(att[w].seen) : lockLeft' = LockDurations[i]
    /\ guesses' = 0
    /\ Goto(w, "clear")
    /\ UNCHANGED <<count, countLeft, failed, overlapped>>

(* Mutated form: the count is left in place by a lock. *)
Kept(n) == n

AfterLock(n) == 0

ClearCount(w) ==
    /\ att[w].pc = "clear"
    /\ count' = AfterLock(count)
    /\ countLeft' = AfterLock(countLeft)
    /\ End(w)
    /\ UNCHANGED <<lockLeft, failed, guesses, overlapped>>

-----------------------------------------------------------------------------
(* unlockAccount deletes the lock, then the counter. *)
UnlockAccount(w) ==
    /\ att[w] = Quiet
    /\ lockLeft' = 0
    /\ Goto(w, "unlock")
    /\ Admit(w)
    /\ UNCHANGED <<count, countLeft, failed, guesses>>

UnlockCount(w) ==
    /\ att[w].pc = "unlock"
    /\ count' = 0 /\ countLeft' = 0
    /\ guesses' = 0
    /\ End(w)
    /\ UNCHANGED <<lockLeft, failed, overlapped>>

(* An await throws, or the process dies: what was written stays. *)
Fail(w) ==
    /\ failed < MaxFailures
    /\ failed' = failed + 1
    /\ att[w] # Quiet
    /\ End(w)
    /\ UNCHANGED <<count, countLeft, lockLeft, guesses, overlapped>>

Tick ==
    /\ lockLeft' = IF lockLeft > 0 THEN lockLeft - 1 ELSE 0
    /\ countLeft' = IF countLeft > 0 THEN countLeft - 1 ELSE 0
    /\ count' = IF countLeft > 1 THEN count ELSE 0
    /\ guesses' = IF countLeft = 1 THEN 0 ELSE guesses
    /\ UNCHANGED <<att, failed, overlapped>>

Proceed(w) ==
    \/ ValidatePassword(w) \/ ResetFailureCount(w) \/ RecordFailedAttempt(w)
    \/ GetCount(w) \/ SetCount(w) \/ SetLock(w) \/ ClearCount(w)
    \/ UnlockCount(w)

Next ==
    \/ \E w \in Workers : \/ CheckLockStatus(w) \/ UnlockAccount(w)
                          \/ Proceed(w) \/ Fail(w)
    \/ Tick

Spec == Init /\ [][Next]_vars

(* Admitted attempts are served and time passes; nobody has to try.        *)
FairSpec == Spec /\ (\A w \in Workers : WF_vars(Proceed(w))) /\ WF_vars(Tick)

-----------------------------------------------------------------------------
Pcs == {"idle", "password", "reset", "record", "get", "set", "lock", "clear",
        "unlock"}

(* Counter, lock and attempts keep their types, and the counter and its TTL *)
(* are there together or absent together.                                   *)
TypeOK ==
    /\ count \in Nat /\ failed \in 0..MaxFailures
    /\ guesses \in 0..MaxGuesses
    /\ countLeft \in 0..CountTTL
    /\ lockLeft \in 0..Longest
    /\ att \in [Workers -> [pc : Pcs, seen : Nat]]
    /\ countLeft = 0 <=> count = 0
    /\ overlapped \in BOOLEAN

(* While no await has thrown nobody leaves a count at a threshold           *)
(* behind (recordFailedAttempt 54-58): whoever wrote it is about to lock    *)
(* the account and to delete it.  So an account that is open with no        *)
(* attempt in flight is never one wrong password away from a second lock.   *)
NoOrphanCount ==
    failed = 0 /\ Reached(count) # {} =>
        \E w \in Workers : att[w].pc \in {"lock", "clear"}

(* The counter is read and written back in two awaits (117-128), so         *)
(* attempts in parallel get more guesses than the threshold T.  But every   *)
(* write is one above what was read, so the smallest count anyone still     *)
(* holds only grows: two workers get at most 1 + 2 + ... + (T+1) guesses    *)
(* before the account is locked, 21 with the default threshold of 5.        *)
GuessBound ==
    LET T == MaxAttempts[1] IN
    failed = 0 => guesses <= ((T + 1) * (T + 2)) \div 2

(* Until two requests overlap or an await throws the service implements the *)
(* policy: the count that has been written but not yet acted upon belongs   *)
(* to the abstract step that locks.  Only the first threshold and the       *)
(* first duration appear in it: the first lock deletes the counter, so no   *)
(* second threshold is ever reached.                                        *)
InPc(pc) == \E w \in Workers : att[w].pc = pc
Seen(pc) == att[CHOOSE w \in Workers : att[w].pc = pc].seen
PolicyCount ==
    IF InPc("clear") THEN 0
    ELSE IF InPc("lock") THEN Seen("lock") - 1
    ELSE IF InPc("set") THEN Seen("set")
    ELSE count

Policy == INSTANCE LockoutPolicy WITH
    Threshold <- MaxAttempts[1], Duration <- LockDurations[1],
    failures <- PolicyCount, lockLeft <- lockLeft
PolicySpec ==
    /\ Policy!Init
    /\ [][Policy!Next \/ overlapped' \/ failed' > 0]_<<PolicyCount, lockLeft>>

(* Attempts cannot prolong a lock for ever: whatever clients send, failing  *)
(* handlers included, a locked account is open again later, because a       *)
(* locked account counts no attempt (checkLockStatus, recordFailedAttempt). *)
LockExpires == lockLeft > 0 ~> lockLeft = 0
=============================================================================
