------------------------ MODULE CacheDriversProofs ------------------------
(***************************************************************************)
(* Proofs about CircuitBreaker and about CacheDrivers, whose operations go  *)
(* through it, for any number of callers and keys, any thresholds, any     *)
(* timeout and any size of the memory cache.                               *)
(***************************************************************************)
EXTENDS CacheDrivers, FiniteSetTheorems, TLAPS

(* The circuit is in one of its states and the age of the last failure in  *)
(* its range: all the refinement needs to know.                            *)
Shape ==
    /\ state \in {"CLOSED", "OPEN", "HALF_OPEN"}
    /\ quiet \in 0..Timeout

(* Initially the shape holds. *)
LEMMA InitShape == Init => Shape
BY BreakerAssumption DEF Init, Shape

(* Every step keeps the shape. *)
LEMMA NextShape == Shape /\ [Next]_vars => Shape'
<1> SUFFICES ASSUME Shape, [Next]_vars PROVE Shape'
  OBVIOUS
<1> USE BreakerAssumption
<1>1. ASSUME NEW w \in Workers, Execute(w) PROVE Shape'
  BY <1>1 DEF Execute, Shape
<1>2. ASSUME NEW w \in Workers, Reject(w) PROVE Shape'
  BY <1>2 DEF Reject, Shape
<1>3. ASSUME NEW w \in Workers, OnSuccess(w) PROVE Shape'
  BY <1>3 DEF OnSuccess, Shape
<1>4. ASSUME NEW w \in Workers, OnFailure(w) PROVE Shape'
  BY <1>4 DEF OnFailure, Shape
<1>5. CASE Tick
  BY <1>5 DEF Tick, Shape
<1>6. CASE Flip
  BY <1>6 DEF Flip, Shape
<1>7. CASE Reset
  BY <1>7 DEF Reset, Shape
<1>8. CASE UNCHANGED vars
  BY <1>8 DEF vars, Shape
<1>9. QED
  BY <1>1, <1>2, <1>3, <1>4, <1>5, <1>6, <1>7, <1>8 DEF Next, Settle

(* Every step of the service is a step of the automaton or none. *)
LEMMA StepRefines ==
    ASSUME Shape, [Next]_vars
    PROVE  [Automaton!Next]_(Automaton!breakerVars)
<1> USE BreakerAssumption
<1>1. ASSUME NEW w \in Workers, Execute(w)
      PROVE  Automaton!Try \/ UNCHANGED Automaton!breakerVars
  <2>1. CASE state = "OPEN"
    BY <1>1, <2>1 DEF Execute, ShouldAttemptReset, Automaton!Try
  <2>2. CASE state # "OPEN"
    BY <1>1, <2>2 DEF Execute, Automaton!breakerVars
  <2>3. QED
    BY <2>1, <2>2
<1>2. ASSUME NEW w \in Workers, Reject(w)
      PROVE  UNCHANGED Automaton!breakerVars
  BY <1>2 DEF Reject, Automaton!breakerVars
<1>3. ASSUME NEW w \in Workers, OnSuccess(w)
      PROVE  Automaton!Recover \/ UNCHANGED Automaton!breakerVars
  BY <1>3 DEF OnSuccess, Closes, Automaton!Recover, Automaton!breakerVars
<1>4. ASSUME NEW w \in Workers, OnFailure(w) PROVE Automaton!FailureSeen
  BY <1>4 DEF OnFailure, Opens, Shape, Automaton!FailureSeen
<1>5. CASE Tick
  BY <1>5 DEF Tick, Shape, Automaton!Pass, Automaton!Next
<1>6. CASE Flip
  BY <1>6 DEF Flip, Automaton!breakerVars
<1>7. CASE Reset
  BY <1>7 DEF Reset, Automaton!Reset, Automaton!Next
<1>8. CASE UNCHANGED vars
  BY <1>8 DEF vars, Automaton!breakerVars
<1>9. QED
  BY <1>1, <1>2, <1>3, <1>4, <1>5, <1>6, <1>7, <1>8
     DEF Next, Settle, Automaton!Next

(* Whatever calls overlap, succeed late or fail late, execute moves the    *)
(* circuit only as the automaton allows: from open to half open after a    *)
(* full timeout without failures, and to closed only from half open or by  *)
(* reset (CircuitBreakerService.execute, onSuccess, onFailure).            *)
THEOREM RefinesAutomaton == Spec => AutomatonSpec
<1>1. Init => Automaton!Init
  BY DEF Init, Automaton!Init
<1>2. Init => Shape
  BY InitShape
<1>3. Shape /\ [Next]_vars => Shape'
  BY NextShape
<1>4. Shape /\ [Next]_vars => [Automaton!Next]_(Automaton!breakerVars)
  BY StepRefines
<1>5. QED
  BY <1>1, <1>2, <1>3, <1>4, PTL DEF Spec, AutomatonSpec, Automaton!Spec

-----------------------------------------------------------------------------
(* The drivers of the cache.                                               *)

(* The steps of the drivers that move the breaker are the breaker's own,    *)
(* but for the two of the process: time and a restart.                     *)
LEMMA BreakerSteps ==
    ASSUME [DriversNext]_allVars
    PROVE  [Next]_vars \/ Pass \/ Restart
BY DEF DriversNext, allVars, Send, Refuse, Settles, ListKeys, Perform, Resolve, Break,
   MemGet, MemSet, MemDel, DriversFlip, DriversReset, Next, Settle

(* The circuit of a running cache service, its reset by a new process       *)
(* included, moves as the automaton does (CircuitBreakerService.execute     *)
(* as RedisCacheService calls it).                                          *)
THEOREM DriversRefineAutomaton == DriversSpec => AutomatonSpec
<1>1. DriversInit => Automaton!Init /\ Shape
  BY InitShape DEF DriversInit, Init, Automaton!Init
<1>2. Shape /\ [DriversNext]_allVars => Shape' /\ [Automaton!Next]_(Automaton!breakerVars)
  <2> SUFFICES ASSUME Shape, [DriversNext]_allVars
               PROVE  Shape' /\ [Automaton!Next]_(Automaton!breakerVars)
    OBVIOUS
  <2>1. CASE [Next]_vars
    BY <2>1, NextShape, StepRefines
  <2>2. CASE Pass
    BY <2>2, BreakerAssumption
       DEF Pass, Shape, Automaton!Pass, Automaton!Next, Automaton!breakerVars
  <2>3. CASE Restart
    BY <2>3, BreakerAssumption
       DEF Restart, Shape, Automaton!Reset, Automaton!Next, Automaton!breakerVars
  <2>4. QED
    BY <2>1, <2>2, <2>3, BreakerSteps
<1>3. QED
  BY <1>1, <1>2, PTL DEF DriversSpec, AutomatonSpec, Automaton!Spec

-----------------------------------------------------------------------------
(* Types.  A call in flight of a closed circuit has its place among the     *)
(* requests it counts.                                                      *)

InBudget == IsFiniteSet(InFlight) /\ Cardinality(InFlight) <= MaxRequests

CallsOK == TypeOK /\ InBudget

(* One more, unless the count is at the bound. *)
LEMMA MoreIn ==
    \A n \in 0..MaxRequests :
      /\ More(n) \in 0..MaxRequests
      /\ n < MaxRequests => More(n) = n + 1
BY BreakerAssumption DEF More

(* Starting and ending a call move one caller. *)
LEMMA OneInFlight ==
    ASSUME CallsOK, NEW w \in Workers, NEW k \in {"idle", "closed", "trial"},
           call' = [call EXCEPT ![w] = k]
    PROVE  /\ InFlight' = IF k = "idle" THEN InFlight \ {w} ELSE InFlight \cup {w}
           /\ IsFiniteSet(InFlight') /\ Cardinality(InFlight) \in Nat
           /\ Cardinality(InFlight') \in Nat
           /\ k = "idle" /\ w \in InFlight
                => Cardinality(InFlight') = Cardinality(InFlight) - 1
           /\ Cardinality(InFlight') <= Cardinality(InFlight) + 1
<1>1. InFlight' = IF k = "idle" THEN InFlight \ {w} ELSE InFlight \cup {w}
  BY DEF CallsOK, TypeOK, InFlight
<1>2. IsFiniteSet(InFlight) /\ Cardinality(InFlight) \in Nat
  BY FS_CardinalityType DEF CallsOK, InBudget
<1> DEFINE F == InFlight
<1> HIDE DEF F
<1>3. /\ IsFiniteSet(F \ {w})
      /\ w \in F => Cardinality(F \ {w}) = Cardinality(F) - 1
      /\ w \notin F => Cardinality(F \ {w}) = Cardinality(F)
  BY <1>2, FS_RemoveElement, Zenon DEF F
<1>4. /\ IsFiniteSet(F \cup {w})
      /\ w \in F => Cardinality(F \cup {w}) = Cardinality(F)
      /\ w \notin F => Cardinality(F \cup {w}) = Cardinality(F) + 1
  BY <1>2, FS_AddElement, Zenon DEF F
<1>5. CASE k = "idle"
  <2>1. InFlight' = F \ {w}
    BY <1>1, <1>5 DEF F
  <2>2. Cardinality(F) \in Nat /\ Cardinality(F \ {w}) \in Nat
    BY <1>2, <1>3, FS_CardinalityType DEF F
  <2>3. QED
    BY <1>1, <1>2, <1>3, <1>5, <2>1, <2>2 DEF F
<1>6. CASE k # "idle"
  <2>1. InFlight' = F \cup {w}
    BY <1>1, <1>6 DEF F
  <2>2. Cardinality(F) \in Nat /\ Cardinality(F \cup {w}) \in Nat
    BY <1>2, <1>4, FS_CardinalityType DEF F
  <2>3. QED
    BY <1>1, <1>2, <1>4, <1>6, <2>1, <2>2 DEF F
<1>7. QED
  BY <1>5, <1>6

(* The same callers, the same count of the same state or none. *)
LEMMA SameCalls ==
    ASSUME CallsOK, UNCHANGED callVars,
           \/ UNCHANGED <<stats, state>>
           \/ stats' = NoStats
    PROVE  InBudget' /\ CountsOK' /\ doomed' \subseteq InFlight' /\ InFlight' = InFlight
<1>1. InFlight' = InFlight
  BY DEF callVars, InFlight
<1>2. Cardinality(InFlight) \in Nat /\ Cardinality(InFlight) <= MaxRequests
  BY FS_CardinalityType DEF CallsOK, InBudget
<1>3. /\ Cardinality(InFlight') = Cardinality(InFlight)
      /\ IsFiniteSet(InFlight')
  BY <1>1 DEF CallsOK, InBudget
<1>4. InBudget'
  BY <1>2, <1>3 DEF InBudget
<1>5. CASE UNCHANGED <<stats, state>>
  <2>1. CountsOK'
    BY <1>3, <1>5 DEF CallsOK, TypeOK, CountsOK
  <2>2. QED
    BY <1>1, <1>4, <2>1 DEF CallsOK, TypeOK, callVars
<1>6. CASE stats' = NoStats
  <2>1. stats'.failures = 0 /\ stats'.consecutiveSuccesses = 0 /\ stats'.requests = 0
    BY <1>6 DEF NoStats
  <2>2. CountsOK'
    BY <1>2, <1>3, <2>1 DEF CountsOK
  <2>3. QED
    BY <1>1, <1>4, <2>2 DEF CallsOK, TypeOK, callVars
<1>7. QED
  BY <1>5, <1>6

LEMMA NextCallsOK == CallsOK /\ [Next]_vars => CallsOK'
<1> SUFFICES ASSUME CallsOK, [Next]_vars PROVE CallsOK'
  OBVIOUS
<1> USE BreakerAssumption
<1>0. /\ TypeOK /\ CountsOK
      /\ Cardinality(InFlight) \in Nat /\ Cardinality(InFlight) <= MaxRequests
      /\ stats.requests \in 0..MaxRequests /\ stats.failures \in 0..MaxRequests
      /\ stats.consecutiveSuccesses \in 0..MaxRequests
  BY FS_CardinalityType DEF CallsOK, InBudget, TypeOK
<1>1. ASSUME NEW w \in Workers, Execute(w) PROVE CallsOK'
  <2>1. PICK k \in {"closed", "trial"} : call' = [call EXCEPT ![w] = k]
    BY <1>1 DEF Execute, Start
  <2>2. /\ InFlight' = InFlight \cup {w} /\ IsFiniteSet(InFlight')
        /\ Cardinality(InFlight') <= Cardinality(InFlight) + 1
        /\ Cardinality(InFlight') \in Nat
    BY <2>1, OneInFlight
  <2>3. /\ Counted + Cardinality(InFlight) < MaxRequests /\ stats' = stats
        /\ state' = "CLOSED" => state = "CLOSED"
    BY <1>1 DEF Execute, Budget
  <2>4. Counted \in Nat /\ (state = "CLOSED" => Counted = stats.requests)
    BY <1>0 DEF Counted
  <2>5. InBudget'
    BY <1>0, <2>2, <2>3, <2>4 DEF InBudget
  <2>6. CountsOK'
    BY <1>0, <2>2, <2>3, <2>4 DEF CountsOK
  <2>7. TypeOK'
    BY <1>0, <1>1, <2>1, <2>2, <2>6 DEF Execute, Start, TypeOK
  <2>8. QED
    BY <2>5, <2>7 DEF CallsOK
<1>2. ASSUME NEW w \in Workers, OnSuccess(w) PROVE CallsOK'
  <2> DEFINE counted == [stats EXCEPT !.requests = More(@), !.consecutiveSuccesses = More(@)]
  <2>1. /\ w \in InFlight /\ call' = [call EXCEPT ![w] = "idle"] /\ doomed' = doomed \ {w}
        /\ UNCHANGED <<up, resets, asked>>
        /\ \/ stats' = NoStats /\ state' = "CLOSED" /\ quiet' = Timeout
           \/ stats' = counted /\ UNCHANGED <<state, quiet>>
    BY <1>2, Zenon DEF OnSuccess, End
  <2>2. /\ InFlight' = InFlight \ {w} /\ IsFiniteSet(InFlight')
        /\ Cardinality(InFlight') = Cardinality(InFlight) - 1
        /\ Cardinality(InFlight') \in Nat
    BY <2>1, OneInFlight
  <2>3. /\ counted.requests = More(stats.requests)
        /\ counted.failures = stats.failures
        /\ counted.consecutiveSuccesses = More(stats.consecutiveSuccesses)
        /\ counted \in [requests : 0..MaxRequests, failures : 0..MaxRequests,
                        consecutiveSuccesses : 0..MaxRequests]
    <3> DEFINE R == 0..MaxRequests
    <3>1. stats \in [requests : R, failures : R, consecutiveSuccesses : R]
      BY DEF CallsOK, TypeOK
    <3>2. More(stats.requests) \in R /\ More(stats.consecutiveSuccesses) \in R
      BY <1>0, MoreIn
    <3> HIDE DEF R
    <3>3. \A x, y \in R :
            /\ [stats EXCEPT !.requests = x, !.consecutiveSuccesses = y]
                  \in [requests : R, failures : R, consecutiveSuccesses : R]
            /\ [stats EXCEPT !.requests = x, !.consecutiveSuccesses = y].requests = x
            /\ [stats EXCEPT !.requests = x, !.consecutiveSuccesses = y].failures
                  = stats.failures
            /\ [stats EXCEPT !.requests = x, !.consecutiveSuccesses = y]
                  .consecutiveSuccesses = y
      BY <3>1
    <3>4. QED
      BY <3>2, <3>3 DEF R
  <2> HIDE DEF counted
  <2>4. InBudget'
    BY <1>0, <2>2 DEF InBudget
  <2>5. CASE stats' = NoStats /\ state' = "CLOSED" /\ quiet' = Timeout
    <3>1. stats'.failures = 0 /\ stats'.consecutiveSuccesses = 0 /\ stats'.requests = 0
          /\ stats' \in [requests : 0..MaxRequests, failures : 0..MaxRequests,
                         consecutiveSuccesses : 0..MaxRequests]
      BY <2>5 DEF NoStats
    <3>2. CountsOK'
      BY <1>0, <2>2, <3>1 DEF CountsOK
    <3>3. TypeOK'
      BY <1>0, <2>1, <2>2, <2>5, <3>1, <3>2 DEF TypeOK
    <3>4. QED
      BY <2>4, <3>3 DEF CallsOK
  <2>6. CASE stats' = counted /\ UNCHANGED <<state, quiet>>
    <3>1. state = "CLOSED" => /\ stats.requests < MaxRequests
                              /\ stats.consecutiveSuccesses < MaxRequests
      BY <1>0, <2>2 DEF CountsOK
    <3>2. state = "CLOSED" => /\ counted.requests = stats.requests + 1
                              /\ counted.consecutiveSuccesses = stats.consecutiveSuccesses + 1
      BY <1>0, <2>3, <3>1, MoreIn
    <3>3. CountsOK'
      BY <1>0, <2>2, <2>3, <2>6, <3>2 DEF CountsOK
    <3>4. TypeOK'
      BY <1>0, <2>1, <2>2, <2>3, <2>6, <3>3 DEF TypeOK
    <3>5. QED
      BY <2>4, <3>4 DEF CallsOK
  <2>7. QED
    BY <2>1, <2>5, <2>6
<1>3. ASSUME NEW w \in Workers, OnFailure(w) PROVE CallsOK'
  <2>1. /\ w \in InFlight /\ call' = [call EXCEPT ![w] = "idle"] /\ doomed' = doomed \ {w}
        /\ UNCHANGED <<up, resets, asked>> /\ quiet' = 0
        /\ stats' = [requests |-> More(stats.requests), failures |-> More(stats.failures),
                     consecutiveSuccesses |-> 0]
        /\ state' \in {"OPEN", state}
    BY <1>3 DEF OnFailure, End, FailureCounted
  <2>2. /\ InFlight' = InFlight \ {w} /\ IsFiniteSet(InFlight')
        /\ Cardinality(InFlight') = Cardinality(InFlight) - 1
        /\ Cardinality(InFlight') \in Nat
    BY <2>1, OneInFlight
  <2>3. InBudget'
    BY <1>0, <2>2 DEF InBudget
  <2>4. state' = "CLOSED" => /\ state = "CLOSED"
                             /\ stats.requests < MaxRequests
                             /\ stats.failures < MaxRequests
                             /\ stats.failures <= stats.requests
    BY <1>0, <2>1, <2>2 DEF CountsOK
  <2>5. /\ More(stats.requests) \in 0..MaxRequests /\ More(stats.failures) \in 0..MaxRequests
        /\ state' = "CLOSED" => /\ More(stats.requests) = stats.requests + 1
                                /\ More(stats.failures) = stats.failures + 1
    BY <1>0, <2>4, MoreIn
  <2>6. CountsOK'
    <3>1. stats'.requests = More(stats.requests) /\ stats'.failures = More(stats.failures)
          /\ stats'.consecutiveSuccesses = 0
      BY <2>1
    <3>2. QED
      BY <1>0, <2>2, <2>4, <2>5, <3>1 DEF CountsOK
  <2>7. TypeOK'
    BY <1>0, <2>1, <2>2, <2>5, <2>6 DEF TypeOK
  <2>8. QED
    BY <2>3, <2>7 DEF CallsOK
<1>4. ASSUME NEW w \in Workers, Reject(w) PROVE CallsOK'
  BY <1>0, <1>4, SameCalls DEF Reject, CallsOK, TypeOK, callVars
<1>5. CASE Tick
  BY <1>0, <1>5, SameCalls DEF Tick, CallsOK, TypeOK, callVars
<1>6. CASE Flip
  BY <1>0, <1>6, SameCalls DEF Flip, CallsOK, TypeOK, callVars
<1>7. CASE Reset
  BY <1>0, <1>7, SameCalls DEF Reset, CallsOK, TypeOK, callVars, NoStats
<1>8. CASE UNCHANGED vars
  BY <1>0, <1>8, SameCalls DEF vars, CallsOK, TypeOK, callVars
<1>9. QED
  BY <1>1, <1>2, <1>3, <1>4, <1>5, <1>6, <1>7, <1>8 DEF Next, Settle

(* The range of the drivers' own variables.                                *)
DriverTypes ==
    /\ driver \in {"redis", "memory"}
    /\ store \in [Keys -> 0..TTL] /\ mem \in [Keys -> 0..TTL]
    /\ behind \in [Keys -> 0..MaxItems - 1]
    /\ task \in [Workers -> [op : Operations \union {"none"}, keys : SUBSET Keys,
                            done : BOOLEAN, left : 0..TTL, alone : BOOLEAN]]
    /\ word \in [Keys -> Words]

DInv == CallsOK /\ DriverTypes

Task == [op : Operations \union {"none"}, keys : SUBSET Keys,
         done : BOOLEAN, left : 0..TTL, alone : BOOLEAN]

LEMMA Marks ==
    /\ NoTask \in Task /\ Unknown \in Words /\ Gone \in Words /\ Put \in Words
    /\ NoTask.op = "none" /\ NoTask.done = FALSE /\ NoTask.alone = TRUE
    /\ Unknown.is = "unknown" /\ Gone.is = "gone" /\ Put.is = "set"
    /\ Gone.left = 0 /\ Put.left = TTL /\ TTL \in Nat \ {0} /\ MaxItems \in Nat \ {0}
<1>1. TTL \in Nat \ {0} /\ MaxItems \in Nat \ {0} /\ 0 \in 0..TTL /\ TTL \in 0..TTL
  BY DriversAssumption
<1>2. NoTask \in Task /\ NoTask.op = "none" /\ NoTask.done = FALSE /\ NoTask.alone = TRUE
  BY <1>1 DEF NoTask, Task
<1>3. Unknown \in Words /\ Unknown.is = "unknown" /\ Unknown.left = 0
  BY <1>1 DEF Unknown, Words
<1>4. Gone \in Words /\ Gone.is = "gone" /\ Gone.left = 0
  BY <1>3 DEF Gone, Words
<1>5. Put \in Words /\ Put.is = "set" /\ Put.left = TTL
  BY <1>1, <1>3 DEF Put, Words
<1>6. QED
  BY <1>1, <1>2, <1>3, <1>4, <1>5

LEMMA OlderIn ==
    /\ \A n \in 0..TTL : Older(n) \in 0..TTL
    /\ \A m, n \in 0..TTL : m >= n => Older(m) >= Older(n)
    /\ \A m, n \in 0..TTL : Older(m) > Older(n) => m > n
    /\ Older(0) = 0
BY DriversAssumption DEF Older

(* Every step of the drivers keeps the calls of the breaker in order.      *)
LEMMA DriversCallsOK == CallsOK /\ [DriversNext]_allVars => CallsOK'
<1> SUFFICES ASSUME CallsOK, [DriversNext]_allVars PROVE CallsOK'
  OBVIOUS
<1> USE BreakerAssumption
<1>1. CASE [Next]_vars
  BY <1>1, NextCallsOK
<1>2. CASE Pass
  <2>1. InBudget' /\ CountsOK' /\ doomed' \subseteq InFlight'
    BY <1>2, SameCalls DEF Pass
  <2>2. quiet' \in 0..Timeout
    BY <1>2 DEF Pass, CallsOK, TypeOK
  <2>3. TypeOK'
    BY <1>2, <2>1, <2>2 DEF Pass, CallsOK, TypeOK, callVars
  <2>4. QED
    BY <2>1, <2>3 DEF CallsOK
<1>3. CASE Restart
  <2>1. InFlight' = {} /\ Cardinality({}) = 0 /\ IsFiniteSet({})
    BY <1>3, FS_EmptySet DEF Restart, InFlight
  <2>2. InBudget'
    BY <2>1 DEF InBudget
  <2>3. CountsOK'
    BY <1>3, <2>1 DEF Restart, CountsOK, NoStats
  <2>4. TypeOK'
    BY <1>3, <2>3 DEF Restart, CallsOK, TypeOK, NoStats
  <2>5. QED
    BY <2>2, <2>4 DEF CallsOK
<1>4. QED
  BY <1>1, <1>2, <1>3, BreakerSteps

(* Using an entry sets no other further back than the cache is long.       *)
LEMMA UsedIn ==
    ASSUME DriverTypes, NEW k \in Keys \union {Other}
    PROVE  /\ \A j \in Keys : Used(k)[j] \in 0..MaxItems
           /\ k \in Keys /\ mem[k] > 0 => Used(k) \in [Keys -> 0..MaxItems - 1]
<1>1. /\ \A j \in Keys : behind[j] \in 0..MaxItems - 1 /\ mem[j] \in 0..TTL
      /\ MaxItems \in Nat \ {0}
  BY Marks DEF DriverTypes
<1>2. \A j \in Keys : Used(k)[j] =
          IF j = k \/ mem[j] = 0 THEN 0
          ELSE behind[j] + (IF Overtakes(k, j) THEN 1 ELSE 0)
  BY DEF Used
<1>3. \A j \in Keys : Used(k)[j] \in 0..MaxItems
  BY <1>1, <1>2
<1>4. ASSUME k \in Keys, mem[k] > 0, NEW j \in Keys PROVE Used(k)[j] \in 0..MaxItems - 1
  <2>1. Overtakes(k, j) => behind[k] > behind[j]
    BY <1>1, <1>4 DEF Overtakes
  <2>2. QED
    BY <1>1, <1>2, <1>4, <2>1
<1>5. k \in Keys /\ mem[k] > 0 => Used(k) \in [Keys -> 0..MaxItems - 1]
  BY <1>4 DEF Used
<1>6. QED
  BY <1>3, <1>5

LEMMA NextDriverTypes == DriverTypes /\ [DriversNext]_allVars => DriverTypes'
<1> SUFFICES ASSUME DriverTypes, [DriversNext]_allVars PROVE DriverTypes'
  OBVIOUS
<1>0. /\ task \in [Workers -> Task] /\ word \in [Keys -> Words]
      /\ store \in [Keys -> 0..TTL] /\ mem \in [Keys -> 0..TTL]
      /\ behind \in [Keys -> 0..MaxItems - 1]
      /\ driver \in {"redis", "memory"}
      /\ TTL \in Nat \ {0} /\ MaxItems \in Nat \ {0}
  BY Marks DEF DriverTypes, Task
<1>s. ASSUME NEW S, NEW what \in Words, Say(S, what) PROVE word' \in [Keys -> Words]
  BY <1>0, <1>s DEF Say
<1>1. ASSUME NEW w \in Workers, Send(w) PROVE DriverTypes'
  <2>0. PICK op \in Operations : \E S \in Targets(op) :
            IF op = "read"
              THEN /\ task' = [task EXCEPT ![w] = [NoTask EXCEPT !.op = op, !.keys = S]]
                   /\ UNCHANGED word
              ELSE /\ task' = [v \in Workers |->
                        IF v = w
                          THEN [NoTask EXCEPT !.op = op, !.keys = S,
                                              !.alone = \A x \in Workers : ~Meets(x, S)]
                          ELSE [task[v] EXCEPT !.alone = task[v].alone /\ ~Meets(v, S)]]
                   /\ Say(S, Unknown)
    BY <1>1, Zenon DEF Send
  <2>1. PICK S \in Targets(op) :
            IF op = "read"
              THEN /\ task' = [task EXCEPT ![w] = [NoTask EXCEPT !.op = op, !.keys = S]]
                   /\ UNCHANGED word
              ELSE /\ task' = [v \in Workers |->
                        IF v = w
                          THEN [NoTask EXCEPT !.op = op, !.keys = S,
                                              !.alone = \A x \in Workers : ~Meets(x, S)]
                          ELSE [task[v] EXCEPT !.alone = task[v].alone /\ ~Meets(v, S)]]
                   /\ Say(S, Unknown)
    BY <2>0, Zenon
  <2>2. S \in SUBSET Keys
    BY DEF Targets
  <2>3. /\ [NoTask EXCEPT !.op = op, !.keys = S] \in Task
        /\ \A a \in BOOLEAN : [NoTask EXCEPT !.op = op, !.keys = S, !.alone = a] \in Task
        /\ \A v \in Workers : \A a \in BOOLEAN : [task[v] EXCEPT !.alone = a] \in Task
    BY <1>0, <2>2, Marks DEF Task
  <2>4. task' \in [Workers -> Task]
    <3>1. CASE op = "read"
      BY <1>0, <2>1, <2>3, <3>1
    <3>2. CASE op # "read"
      <4>1. (\A x \in Workers : ~Meets(x, S)) \in BOOLEAN
        OBVIOUS
      <4>2. \A v \in Workers : (task[v].alone /\ ~Meets(v, S)) \in BOOLEAN
        OBVIOUS
      <4>3. task' = [v \in Workers |->
                        IF v = w
                          THEN [NoTask EXCEPT !.op = op, !.keys = S,
                                              !.alone = \A x \in Workers : ~Meets(x, S)]
                          ELSE [task[v] EXCEPT !.alone = task[v].alone /\ ~Meets(v, S)]]
        BY <2>1, <3>2
      <4>4. \A v \in Workers : task'[v] \in Task
        BY <2>3, <4>1, <4>2, <4>3, Zenon
      <4>5. QED
        BY <4>3, <4>4, Zenon
    <3>3. QED
      BY <3>1, <3>2
  <2>5. word' \in [Keys -> Words]
    BY <1>0, <1>s, <2>1, Marks
  <2>6. QED
    BY <1>0, <1>1, <2>4, <2>5 DEF Send, DriverTypes, Task
<1>2. ASSUME NEW w \in Workers, Refuse(w) PROVE DriverTypes'
  BY <1>0, <1>2 DEF Refuse, FallsBack, DriverTypes
<1>3. ASSUME NEW w \in Workers, ListKeys(w) PROVE DriverTypes'
  <2>1. PICK S \in SUBSET Keys :
            task' = [task EXCEPT ![w] = [task[w] EXCEPT !.op = "del", !.keys = S]]
    BY <1>3 DEF ListKeys
  <2>2. task' \in [Workers -> Task]
    BY <1>0, <2>1 DEF Task, Operations
  <2>3. QED
    BY <1>0, <1>3, <2>2 DEF ListKeys, DriverTypes, Task
<1>4. ASSUME NEW w \in Workers, Perform(w) PROVE DriverTypes'
  <2>1. task' = [task EXCEPT ![w] = [task[w] EXCEPT !.done = TRUE, !.left = TTL]]
    BY <1>0, <1>4 DEF Perform
  <2>2. task' \in [Workers -> Task]
    <3>1. TTL \in 0..TTL
      BY <1>0
    <3>2. [task[w] EXCEPT !.done = TRUE, !.left = TTL] \in Task
      BY <1>0, <3>1 DEF Task
    <3>3. QED
      BY <1>0, <2>1, <3>2
  <2>3. store' \in [Keys -> 0..TTL]
    BY <1>0, <1>4 DEF Perform
  <2>4. QED
    BY <1>0, <1>4, <2>2, <2>3 DEF Perform, DriverTypes, Task
<1>5. ASSUME NEW w \in Workers, Resolve(w) PROVE DriverTypes'
  <2>1. task' \in [Workers -> Task]
    BY <1>0, <1>5, Marks DEF Resolve
  <2>2. task[w].left \in 0..TTL
    BY <1>0 DEF Task
  <2>3. [Put EXCEPT !.left = task[w].left] \in Words
    BY <2>2, Marks DEF Words
  <2>4. word' \in [Keys -> Words]
    BY <1>0, <1>5, <2>3, Marks DEF Resolve
  <2>5. QED
    BY <1>0, <1>5, <2>1, <2>4 DEF Resolve, DriverTypes, Task
<1>6. ASSUME NEW w \in Workers, Break(w) PROVE DriverTypes'
  <2>1. task' \in [Workers -> Task]
    BY <1>0, <1>6, Marks DEF Break
  <2>2. QED
    BY <1>0, <1>6, <2>1 DEF Break, DriverTypes, Task
<1>7. ASSUME NEW w \in Workers, MemGet(w) PROVE DriverTypes'
  <2>1. PICK k \in Keys : /\ mem[k] > 0
                          /\ mem' = [mem EXCEPT ![k] = TTL]
                          /\ behind' = Used(k)
                          /\ word' = [word EXCEPT ![k] = [word[k] EXCEPT !.read = TRUE]]
    BY <1>0, <1>7 DEF MemGet
  <2>2. word' \in [Keys -> Words]
    BY <1>0, <2>1 DEF Words
  <2>3. behind' \in [Keys -> 0..MaxItems - 1]
    BY <2>1, UsedIn
  <2>4. mem' \in [Keys -> 0..TTL]
    BY <1>0, <2>1
  <2>5. QED
    BY <1>0, <1>7, <2>2, <2>3, <2>4 DEF MemGet, DriverTypes
<1>8. ASSUME NEW w \in Workers, MemSet(w) PROVE DriverTypes'
  <2>1. PICK k \in Keys \union {Other} :
         /\ mem' = [j \in Keys |-> IF j = k THEN TTL
                                   ELSE IF j \in Evicted(k) THEN 0 ELSE mem[j]]
         /\ behind' = [j \in Keys |-> IF j \in Evicted(k) THEN 0 ELSE Used(k)[j]]
         /\ word' = [j \in Keys |-> IF j = k THEN Put
                                    ELSE IF j \in Evicted(k) THEN Unknown ELSE word[j]]
    BY <1>8 DEF MemSet
  <2>2. ASSUME NEW j \in Keys, j \notin Evicted(k) PROVE Used(k)[j] \in 0..MaxItems - 1
    <3>1. Used(k)[j] \in 0..MaxItems
      BY UsedIn
    <3>2. CASE j = k \/ mem[j] = 0
      <4>1. Used(k)[j] = 0
        BY <3>2 DEF Used
      <4>2. QED
        BY <1>0, <4>1
    <3>3. CASE j # k /\ mem[j] # 0
      <4>1. ~(Used(k)[j] >= MaxItems)
        BY <1>0, <2>2, <3>3 DEF Evicted
      <4>2. QED
        BY <1>0, <3>1, <4>1
    <3>4. QED
      BY <3>2, <3>3
  <2>3. behind' \in [Keys -> 0..MaxItems - 1]
    BY <1>0, <2>1, <2>2
  <2>4. mem' \in [Keys -> 0..TTL]
    BY <1>0, <2>1
  <2>5. word' \in [Keys -> Words]
    BY <1>0, <2>1, Marks
  <2>6. QED
    BY <1>0, <1>8, <2>3, <2>4, <2>5 DEF MemSet, DriverTypes
<1>9. ASSUME NEW w \in Workers, MemDel(w) PROVE DriverTypes'
  <2>1. PICK S :
         /\ mem' = [k \in Keys |-> IF k \in S THEN 0 ELSE mem[k]]
         /\ behind' = [k \in Keys |-> IF mem'[k] = 0 THEN 0 ELSE behind[k]]
         /\ Say(S, Gone)
    BY <1>9 DEF MemDel, Matched
  <2>2. mem' \in [Keys -> 0..TTL] /\ behind' \in [Keys -> 0..MaxItems - 1]
    BY <1>0, <2>1
  <2>3. word' \in [Keys -> Words]
    BY <1>s, <2>1, Marks
  <2>4. QED
    BY <1>0, <1>9, <2>2, <2>3 DEF MemDel, DriverTypes
<1>10. CASE Pass
  <2>1. /\ store' \in [Keys -> 0..TTL] /\ mem' \in [Keys -> 0..TTL]
        /\ behind' \in [Keys -> 0..MaxItems - 1]
    BY <1>0, <1>10, OlderIn DEF Pass
  <2>2. task' \in [Workers -> Task]
    <3>1. \A w \in Workers : Older(task[w].left) \in 0..TTL
      BY <1>0, OlderIn DEF Task
    <3>2. \A w \in Workers : [task[w] EXCEPT !.left = Older(task[w].left)] \in Task
      BY <1>0, <3>1 DEF Task
    <3>3. QED
      BY <1>10, <3>2 DEF Pass
  <2>3. word' \in [Keys -> Words]
    <3>1. \A k \in Keys : Older(word[k].left) \in 0..TTL
      BY <1>0, OlderIn DEF Words
    <3>2. \A k \in Keys : [word[k] EXCEPT !.left = Older(word[k].left)] \in Words
      BY <1>0, <3>1 DEF Words
    <3>3. QED
      BY <1>10, <3>2 DEF Pass
  <2>4. QED
    BY <1>0, <1>10, <2>1, <2>2, <2>3 DEF Pass, DriverTypes, Task
<1>11. CASE Restart
  <2>1. task' \in [Workers -> Task] /\ word' \in [Keys -> Words]
    BY <1>0, <1>11, Marks DEF Restart
  <2>2. QED
    BY <1>0, <1>11, <2>1 DEF Restart, DriverTypes, Task, Choice, Empty
<1>12. CASE DriversFlip \/ DriversReset \/ UNCHANGED allVars
  BY <1>12 DEF DriversFlip, DriversReset, allVars, driverVars, DriverTypes
<1>13. QED
  BY <1>1, <1>2, <1>3, <1>4, <1>5, <1>6, <1>7, <1>8, <1>9, <1>10, <1>11, <1>12
     DEF DriversNext, Settles

(* Nothing is under way and nothing is cached when the service starts.     *)
LEMMA InitDInv == DriversInit => DInv
<1> SUFFICES ASSUME DriversInit PROVE DInv
  OBVIOUS
<1>1. InFlight = {} /\ IsFiniteSet({}) /\ Cardinality({}) = 0
  BY FS_EmptySet DEF DriversInit, Init, InFlight
<1>2. CallsOK
  <2>1. InBudget
    BY <1>1, BreakerAssumption DEF InBudget
  <2>2. TypeOK
    <3>1. /\ stats = NoStats /\ quiet = Timeout /\ doomed = {} /\ resets = 0
          /\ call = [w \in Workers |-> "idle"]
          /\ state = "CLOSED" /\ up = TRUE /\ asked = FALSE
      BY DEF DriversInit, Init
    <3>2. /\ stats \in [requests : 0..MaxRequests, failures : 0..MaxRequests,
                        consecutiveSuccesses : 0..MaxRequests]
          /\ CountsOK
      BY <1>1, <3>1, BreakerAssumption DEF NoStats, CountsOK
    <3>3. quiet \in 0..Timeout /\ resets \in 0..MaxResets
      BY <3>1, BreakerAssumption
    <3>4. call \in [Workers -> {"idle", "closed", "trial"}] /\ doomed \subseteq InFlight
      BY <3>1
    <3>5. up \in BOOLEAN /\ asked \in BOOLEAN
      BY <3>1
    <3>6. QED
      BY <3>1, <3>2, <3>3, <3>4, <3>5 DEF TypeOK
  <2>3. QED
    BY <2>1, <2>2 DEF CallsOK
<1>3. DriverTypes
  BY Marks DEF DriversInit, DriverTypes, Task, Choice, Empty
<1>4. QED
  BY <1>2, <1>3 DEF DInv

(* The bounds of the breaker hold with it, and the drivers keep theirs: no *)
(* entry lives longer than its ttl, and the memory cache never holds more  *)
(* than MAX_ITEMS entries ahead of one it keeps.                           *)
THEOREM DriversTypeCorrect == DriversSpec => []DriversTypeOK
<1>1. DriversInit => DInv
  BY InitDInv
<1>2. DInv /\ [DriversNext]_allVars => DInv'
  BY DriversCallsOK, NextDriverTypes DEF DInv
<1>3. DInv => DriversTypeOK
  BY DEF DInv, CallsOK, DriverTypes, DriversTypeOK
<1>4. QED
  BY <1>1, <1>2, <1>3, PTL DEF DriversSpec

-----------------------------------------------------------------------------
(* What Redis has confirmed.                                               *)

(* Writes under way that meet at a key both know of it; one that is alone  *)
(* and performed has left its key as it will report it; nothing is known   *)
(* of a key while it is being written; a pattern covers all keys until it   *)
(* is resolved to those there are.                                         *)
MeetingKnown ==
    \A v, w \in Workers : v # w /\ Writing(v) /\ Meets(w, task[v].keys)
        => ~task[v].alone
PerformedStays ==
    \A w \in Workers : Writing(w) /\ task[w].done /\ task[w].alone =>
        \A k \in task[w].keys :
            store[k] = IF task[w].op = "set" THEN task[w].left ELSE 0
WordsOpen ==
    driver = "redis" => \A w \in Workers : Writing(w) =>
        \A k \in task[w].keys : word[k].is = "unknown"
PatternsWhole ==
    \A w \in Workers : task[w].op = "delPattern" => task[w].keys = Keys

CInv ==
    DInv /\ PatternsWhole /\ MeetingKnown /\ PerformedStays /\ WordsOpen /\ ConfirmedHolds

LEMMA DIShape ==
    ASSUME DInv
    PROVE  /\ task \in [Workers -> Task] /\ word \in [Keys -> Words]
           /\ store \in [Keys -> 0..TTL] /\ mem \in [Keys -> 0..TTL]
BY DEF DInv, DriverTypes, Task

LEMMA NextDInv == ASSUME DInv, [DriversNext]_allVars PROVE DInv'
BY DriversCallsOK, NextDriverTypes DEF DInv

(* What an operation sent to Redis does to the others and to what is known. *)
LEMMA SendShape ==
    ASSUME DInv, NEW w \in Workers, Send(w)
    PROVE  \E op \in Operations : \E S \in Targets(op) :
              /\ task'[w].op = op /\ task'[w].keys = S /\ task'[w].done = FALSE
              /\ \A v \in Workers \ {w} :
                    /\ task'[v].op = task[v].op /\ task'[v].keys = task[v].keys
                    /\ task'[v].done = task[v].done /\ task'[v].left = task[v].left
                    /\ task'[v].alone => task[v].alone
              /\ op = "read" => word' = word
              /\ op # "read" =>
                    /\ task'[w].alone => \A x \in Workers : ~Meets(x, S)
                    /\ \A v \in Workers \ {w} : task'[v].alone => ~Meets(v, S)
                    /\ \A k \in Keys : word'[k] = IF k \in S THEN Unknown ELSE word[k]
<1>0. task \in [Workers -> Task]
  BY DIShape
<1>1. PICK op \in Operations : \E S \in Targets(op) :
          IF op = "read"
            THEN /\ task' = [task EXCEPT ![w] = [NoTask EXCEPT !.op = op, !.keys = S]]
                 /\ UNCHANGED word
            ELSE /\ task' = [v \in Workers |->
                      IF v = w
                        THEN [NoTask EXCEPT !.op = op, !.keys = S,
                                            !.alone = \A x \in Workers : ~Meets(x, S)]
                        ELSE [task[v] EXCEPT !.alone = task[v].alone /\ ~Meets(v, S)]]
                 /\ Say(S, Unknown)
  BY Zenon DEF Send
<1>2. PICK S \in Targets(op) :
          IF op = "read"
            THEN /\ task' = [task EXCEPT ![w] = [NoTask EXCEPT !.op = op, !.keys = S]]
                 /\ UNCHANGED word
            ELSE /\ task' = [v \in Workers |->
                      IF v = w
                        THEN [NoTask EXCEPT !.op = op, !.keys = S,
                                            !.alone = \A x \in Workers : ~Meets(x, S)]
                        ELSE [task[v] EXCEPT !.alone = task[v].alone /\ ~Meets(v, S)]]
                 /\ Say(S, Unknown)
  BY <1>1, Zenon
<1>3. CASE op = "read"
  <2>1. task'[w] = [NoTask EXCEPT !.op = op, !.keys = S]
    BY <1>0, <1>2, <1>3
  <2>2. task'[w].op = op /\ task'[w].keys = S /\ task'[w].done = FALSE
    BY <2>1 DEF NoTask
  <2>3. word' = word /\ \A v \in Workers \ {w} : task'[v] = task[v]
    BY <1>0, <1>2, <1>3
  <2>4. QED
    BY <1>3, <2>2, <2>3
<1>4. CASE op # "read"
  <2>1. ASSUME NEW v \in Workers \ {w}
        PROVE  /\ task'[v].op = task[v].op /\ task'[v].keys = task[v].keys
               /\ task'[v].done = task[v].done /\ task'[v].left = task[v].left
               /\ task'[v].alone => task[v].alone /\ ~Meets(v, S)
    <3> DEFINE b == task[v].alone /\ ~Meets(v, S)
    <3>1. b \in BOOLEAN
      OBVIOUS
    <3>2. task'[v] = [task[v] EXCEPT !.alone = b]
      BY <1>2, <1>4
    <3>3. b => task[v].alone /\ ~Meets(v, S)
      OBVIOUS
    <3> HIDE DEF b
    <3>4. task[v] \in Task
      BY <1>0
    <3>5. /\ task'[v].op = task[v].op /\ task'[v].keys = task[v].keys
          /\ task'[v].done = task[v].done /\ task'[v].left = task[v].left
          /\ task'[v].alone = b
      BY <3>2, <3>4 DEF Task
    <3>6. QED
      BY <3>3, <3>5, Zenon
  <2>2. /\ task'[w].op = op /\ task'[w].keys = S /\ task'[w].done = FALSE
        /\ task'[w].alone => \A x \in Workers : ~Meets(x, S)
    <3> DEFINE a == \A x \in Workers : ~Meets(x, S)
    <3>1. a \in BOOLEAN
      OBVIOUS
    <3>2. task'[w] = [NoTask EXCEPT !.op = op, !.keys = S, !.alone = a]
      BY <1>2, <1>4
    <3> HIDE DEF a
    <3>3. /\ task'[w].op = op /\ task'[w].keys = S /\ task'[w].done = FALSE
          /\ task'[w].alone => a
      BY <3>1, <3>2, Marks DEF Task
    <3>4. QED
      BY <3>3 DEF a
  <2>3. \A k \in Keys : word'[k] = IF k \in S THEN Unknown ELSE word[k]
    BY <1>2, <1>4 DEF Say
  <2>4. QED
    BY <1>4, <2>1, <2>2, <2>3
<1>5. QED
  BY <1>3, <1>4

(* A new write is known to all it meets, and makes its keys unknown.       *)
LEMMA SendConfirmed ==
    ASSUME CInv, NEW w \in Workers, Send(w)
    PROVE  /\ MeetingKnown' /\ PerformedStays' /\ WordsOpen' /\ ConfirmedHolds'
           /\ PatternsWhole'
<1>0. /\ task \in [Workers -> Task] /\ DInv /\ UNCHANGED <<driver, store>>
      /\ \A v \in Workers : task[v].keys \in SUBSET Keys
  BY DIShape DEF CInv, Send, Task
<1>1. PICK op \in Operations : \E S \in Targets(op) :
          /\ task'[w].op = op /\ task'[w].keys = S /\ task'[w].done = FALSE
          /\ \A v \in Workers \ {w} :
                /\ task'[v].op = task[v].op /\ task'[v].keys = task[v].keys
                /\ task'[v].done = task[v].done /\ task'[v].left = task[v].left
                /\ task'[v].alone => task[v].alone
          /\ op = "read" => word' = word
          /\ op # "read" =>
                /\ task'[w].alone => \A x \in Workers : ~Meets(x, S)
                /\ \A v \in Workers \ {w} : task'[v].alone => ~Meets(v, S)
                /\ \A k \in Keys : word'[k] = IF k \in S THEN Unknown ELSE word[k]
  BY <1>0, SendShape, Zenon
<1>2. PICK S \in Targets(op) :
          /\ task'[w].op = op /\ task'[w].keys = S /\ task'[w].done = FALSE
          /\ \A v \in Workers \ {w} :
                /\ task'[v].op = task[v].op /\ task'[v].keys = task[v].keys
                /\ task'[v].done = task[v].done /\ task'[v].left = task[v].left
                /\ task'[v].alone => task[v].alone
          /\ op = "read" => word' = word
          /\ op # "read" =>
                /\ task'[w].alone => \A x \in Workers : ~Meets(x, S)
                /\ \A v \in Workers \ {w} : task'[v].alone => ~Meets(v, S)
                /\ \A k \in Keys : word'[k] = IF k \in S THEN Unknown ELSE word[k]
  BY <1>1, Zenon
<1>3. S \in SUBSET Keys /\ (op = "delPattern" => S = Keys)
  BY DEF Targets
<1>4. Writing(w)' => op # "read"
  BY <1>2 DEF Writing
<1>5. MeetingKnown'
  <2> SUFFICES ASSUME NEW v \in Workers, NEW x \in Workers, v # x, Writing(v)',
                      Writing(x)', task'[x].keys \intersect task'[v].keys # {}
               PROVE  ~task'[v].alone
    BY DEF MeetingKnown, Meets
  <2>1. CASE v = w
    BY <1>2, <1>4, <2>1 DEF Writing, Meets
  <2>2. CASE x = w
    <3>1. Meets(v, S)
      BY <1>2, <2>2 DEF Writing, Meets
    <3>2. QED
      BY <1>2, <1>4, <2>2, <3>1
  <2>3. CASE v # w /\ x # w
    BY <1>2, <2>3 DEF CInv, MeetingKnown, Meets, Writing
  <2>4. QED
    BY <2>1, <2>2, <2>3
<1>6. PerformedStays'
  <2> SUFFICES ASSUME NEW v \in Workers, Writing(v)', task'[v].done, task'[v].alone,
                      NEW k \in task'[v].keys
               PROVE  store'[k] = IF task'[v].op = "set" THEN task'[v].left ELSE 0
    BY DEF PerformedStays
  <2>1. v # w
    BY <1>2
  <2>2. QED
    BY <1>0, <1>2, <2>1 DEF CInv, PerformedStays, Writing
<1>7. WordsOpen' /\ ConfirmedHolds'
  <2>1. CASE op = "read"
    <3>1. word' = word /\ ~Writing(w)'
      BY <1>2, <1>4, <2>1
    <3>2. QED
      BY <1>0, <1>2, <3>1 DEF CInv, WordsOpen, ConfirmedHolds, Writing
  <2>2. CASE op # "read"
    <3>1. WordsOpen'
      BY <1>0, <1>2, <1>3, <2>2, Marks DEF CInv, WordsOpen, Writing
    <3>2. ConfirmedHolds'
      BY <1>0, <1>2, <2>2, Marks DEF CInv, ConfirmedHolds
    <3>3. QED
      BY <3>1, <3>2
  <2>3. QED
    BY <2>1, <2>2
<1>8. PatternsWhole'
  BY <1>2, <1>3 DEF CInv, PatternsWhole
<1>9. QED
  BY <1>5, <1>6, <1>7, <1>8

(* Redis performs a write while nothing is known of its keys.              *)
LEMMA PerformConfirmed ==
    ASSUME CInv, NEW w \in Workers, Perform(w)
    PROVE  MeetingKnown' /\ PerformedStays' /\ WordsOpen' /\ ConfirmedHolds'
<1>0. /\ task \in [Workers -> Task] /\ DInv /\ TTL \in Nat
      /\ UNCHANGED <<driver, word>>
      /\ task[w].op \in {"read", "set", "del"}
  BY DIShape, Marks DEF CInv, Perform
<1>1. /\ \A k \in Keys : store'[k] =
            IF k \notin task[w].keys \/ task[w].op = "read" THEN store[k]
            ELSE IF task[w].op = "set" THEN TTL ELSE 0
      /\ \A v \in Workers \ {w} : task'[v] = task[v]
      /\ task'[w] = [task[w] EXCEPT !.done = TRUE, !.left = TTL]
  BY <1>0 DEF Perform
<1>2. /\ task'[w].op = task[w].op /\ task'[w].keys = task[w].keys
      /\ task'[w].left = TTL /\ task'[w].alone = task[w].alone
  BY <1>0, <1>1 DEF Task
<1>3. \A v \in Workers : /\ task'[v].op = task[v].op /\ task'[v].keys = task[v].keys
                         /\ task'[v].alone = task[v].alone
                         /\ task[v].keys \in SUBSET Keys
  BY <1>0, <1>1, <1>2 DEF Task
<1>4. MeetingKnown' /\ WordsOpen'
  BY <1>0, <1>3 DEF CInv, MeetingKnown, WordsOpen, Writing, Meets
<1>5. PerformedStays'
  <2> SUFFICES ASSUME NEW v \in Workers, Writing(v)', task'[v].done, task'[v].alone,
                      NEW k \in task'[v].keys
               PROVE  store'[k] = IF task'[v].op = "set" THEN task'[v].left ELSE 0
    BY DEF PerformedStays
  <2>1. CASE v = w
    BY <1>0, <1>1, <1>2, <1>3, <2>1 DEF Writing
  <2>2. CASE v # w
    <3>1. store[k] = IF task[v].op = "set" THEN task[v].left ELSE 0
      BY <1>1, <2>2 DEF CInv, PerformedStays, Writing
    <3>2. task[w].op \in {"set", "del"} => k \notin task[w].keys
      BY <1>1, <1>3, <2>2 DEF CInv, MeetingKnown, Writing, Meets
    <3>3. QED
      BY <1>0, <1>1, <1>3, <2>2, <3>1, <3>2
  <2>3. QED
    BY <2>1, <2>2
<1>6. ConfirmedHolds'
  BY <1>0, <1>1 DEF CInv, ConfirmedHolds, WordsOpen, Writing
<1>7. QED
  BY <1>4, <1>5, <1>6

(* What the caller of a write that met no other is told is what is there.  *)
LEMMA ResolveConfirmed ==
    ASSUME CInv, NEW w \in Workers, Resolve(w)
    PROVE  MeetingKnown' /\ PerformedStays' /\ WordsOpen' /\ ConfirmedHolds'
<1>0. /\ task \in [Workers -> Task] /\ DInv
      /\ UNCHANGED <<driver, store>> /\ task[w].done
  BY DIShape DEF CInv, Resolve
<1>1. /\ \A v \in Workers \ {w} : task'[v] = task[v]
      /\ task'[w] = NoTask
      /\ \A k \in Keys : word'[k] =
            IF ~Writing(w) \/ k \notin task[w].keys THEN word[k]
            ELSE IF ~task[w].alone THEN Unknown
            ELSE IF task[w].op = "set" THEN [Put EXCEPT !.left = task[w].left]
                                       ELSE Gone
  BY <1>0 DEF Resolve
<1>2. /\ MeetingKnown' /\ PerformedStays'
  BY <1>0, <1>1, Marks DEF CInv, MeetingKnown, PerformedStays, Writing, Meets
<1>3. WordsOpen'
  <2> SUFFICES ASSUME driver = "redis", NEW v \in Workers, Writing(v)',
                      NEW k \in task'[v].keys
               PROVE  word'[k].is = "unknown"
    BY <1>0 DEF WordsOpen
  <2>1. v # w /\ Writing(v) /\ task'[v] = task[v] /\ k \in Keys
    BY <1>0, <1>1, Marks DEF Writing, Task
  <2>2. word[k].is = "unknown"
    BY <2>1 DEF CInv, WordsOpen
  <2>3. Writing(w) /\ k \in task[w].keys => ~task[w].alone
    BY <2>1 DEF CInv, MeetingKnown, Meets
  <2>4. QED
    BY <1>1, <2>1, <2>2, <2>3, Marks
<1>4. ConfirmedHolds'
  <2> SUFFICES ASSUME driver = "redis", NEW k \in Keys, word'[k].is # "unknown"
               PROVE  store[k] = word'[k].left
    BY <1>0 DEF ConfirmedHolds
  <2>1. CASE ~Writing(w) \/ k \notin task[w].keys
    BY <1>1, <2>1 DEF CInv, ConfirmedHolds
  <2>2. CASE Writing(w) /\ k \in task[w].keys
    <3>1. task[w].alone
      BY <1>1, <2>2, Marks
    <3>2. store[k] = IF task[w].op = "set" THEN task[w].left ELSE 0
      BY <1>0, <2>2, <3>1 DEF CInv, PerformedStays
    <3>3. [Put EXCEPT !.left = task[w].left].left = task[w].left
      BY Marks DEF Words
    <3>4. QED
      BY <1>1, <2>2, <3>1, <3>2, <3>3, Marks
  <2>3. QED
    BY <2>1, <2>2
<1>5. QED
  BY <1>2, <1>3, <1>4

(* Time changes nothing of a word or a task but the time it has left.      *)
LEMMA AgedWord ==
    ASSUME NEW r \in Words, NEW n, NEW q, q = [r EXCEPT !.left = n]
    PROVE  q.is = r.is /\ q.read = r.read /\ q.left = n /\ r.left \in 0..TTL
BY DEF Words

LEMMA AgedTask ==
    ASSUME NEW r \in Task, NEW n, NEW q, q = [r EXCEPT !.left = n]
    PROVE  /\ q.op = r.op /\ q.keys = r.keys /\ q.done = r.done
           /\ q.alone = r.alone /\ q.left = n /\ r.keys \in SUBSET Keys
BY DEF Task

LEMMA NextConfirmed ==
    ASSUME CInv, [DriversNext]_allVars
    PROVE  MeetingKnown' /\ PerformedStays' /\ WordsOpen' /\ ConfirmedHolds'
<1>0. /\ task \in [Workers -> Task] /\ word \in [Keys -> Words]
      /\ store \in [Keys -> 0..TTL] /\ DInv
  BY DIShape DEF CInv
<1>a. ASSUME UNCHANGED <<task, store, driver, word>>
      PROVE  MeetingKnown' /\ PerformedStays' /\ WordsOpen' /\ ConfirmedHolds'
  BY <1>a DEF CInv, MeetingKnown, PerformedStays, WordsOpen, ConfirmedHolds, Writing, Meets
<1>b. ASSUME driver = "memory", UNCHANGED <<task, store, driver>>
      PROVE  MeetingKnown' /\ PerformedStays' /\ WordsOpen' /\ ConfirmedHolds'
  BY <1>b DEF CInv, MeetingKnown, PerformedStays, WordsOpen, ConfirmedHolds, Writing, Meets
<1>1. ASSUME NEW w \in Workers, ListKeys(w)
      PROVE  MeetingKnown' /\ PerformedStays' /\ WordsOpen' /\ ConfirmedHolds'
  <2>1. PICK S \in SUBSET Keys :
            task' = [task EXCEPT ![w] = [task[w] EXCEPT !.op = "del", !.keys = S]]
    BY <1>1 DEF ListKeys
  <2>2. /\ task'[w].op = "del" /\ task'[w].keys = S
        /\ task'[w].done = task[w].done /\ task'[w].alone = task[w].alone
        /\ \A v \in Workers \ {w} : task'[v] = task[v]
    BY <1>0, <2>1 DEF Task
  <2>3. task[w].op = "delPattern" /\ S \subseteq task[w].keys /\ Writing(w)
    BY <1>1 DEF ListKeys, CInv, PatternsWhole, Writing
  <2>4. \A v \in Workers : /\ Writing(v)' => Writing(v)
                           /\ task'[v].keys \subseteq task[v].keys
                           /\ task'[v].alone = task[v].alone
                           /\ task'[v].done = task[v].done
    BY <2>2, <2>3 DEF Writing
  <2>5. MeetingKnown'
    BY <2>4 DEF CInv, MeetingKnown, Meets
  <2>6. PerformedStays'
    BY <1>1, <2>2, <2>3, <2>4 DEF CInv, PerformedStays, ListKeys
  <2>7. WordsOpen' /\ ConfirmedHolds'
    BY <1>1, <2>4 DEF CInv, WordsOpen, ConfirmedHolds, ListKeys
  <2>8. QED
    BY <2>5, <2>6, <2>7
<1>2. ASSUME NEW w \in Workers, Break(w)
      PROVE  MeetingKnown' /\ PerformedStays' /\ WordsOpen' /\ ConfirmedHolds'
  <2>1. /\ \A v \in Workers \ {w} : task'[v] = task[v]
        /\ task'[w] = NoTask /\ UNCHANGED <<driver, store, word>>
    BY <1>0, <1>2 DEF Break
  <2>2. QED
    BY <2>1, Marks DEF CInv, MeetingKnown, PerformedStays, WordsOpen, ConfirmedHolds,
       Writing, Meets
<1>3. ASSUME NEW w \in Workers, Send(w) \/ Perform(w) \/ Resolve(w)
      PROVE  MeetingKnown' /\ PerformedStays' /\ WordsOpen' /\ ConfirmedHolds'
  BY <1>3, SendConfirmed, PerformConfirmed, ResolveConfirmed
<1>4. ASSUME NEW w \in Workers, Refuse(w)
      PROVE  MeetingKnown' /\ PerformedStays' /\ WordsOpen' /\ ConfirmedHolds'
  BY <1>4, <1>a DEF Refuse, FallsBack
<1>5. ASSUME NEW w \in Workers, MemGet(w) \/ MemSet(w) \/ MemDel(w)
      PROVE  MeetingKnown' /\ PerformedStays' /\ WordsOpen' /\ ConfirmedHolds'
  BY <1>5, <1>b DEF MemGet, MemSet, MemDel, InMemory
<1>6. CASE Pass
  <2>1. /\ driver' = driver
        /\ \A k \in Keys : /\ store'[k] = Older(store[k])
                           /\ word'[k].is = word[k].is
                           /\ word'[k].left = Older(word[k].left)
        /\ \A w \in Workers : /\ task'[w].op = task[w].op
                              /\ task'[w].keys = task[w].keys
                              /\ task'[w].done = task[w].done
                              /\ task'[w].alone = task[w].alone
                              /\ task'[w].left = Older(task[w].left)
                              /\ task[w].keys \in SUBSET Keys
    <3>1. \A k \in Keys : word'[k] = [word[k] EXCEPT !.left = Older(word[k].left)]
      BY <1>6 DEF Pass
    <3>2. \A w \in Workers : task'[w] = [task[w] EXCEPT !.left = Older(task[w].left)]
      BY <1>6 DEF Pass
    <3>5. \A k \in Keys : store'[k] = Older(store[k])
      BY <1>6 DEF Pass
    <3>6. driver' = driver
      BY <1>6 DEF Pass
    <3>7. ASSUME NEW k \in Keys
          PROVE  word'[k].is = word[k].is /\ word'[k].left = Older(word[k].left)
      <4>1. word[k] \in Words
        BY <1>0
      <4>2. word'[k] = [word[k] EXCEPT !.left = Older(word[k].left)]
        BY <3>1
      <4>3. QED
        BY <4>1, <4>2, AgedWord
    <3>8. ASSUME NEW w \in Workers
          PROVE  /\ task'[w].op = task[w].op
                 /\ task'[w].keys = task[w].keys
                 /\ task'[w].done = task[w].done
                 /\ task'[w].alone = task[w].alone
                 /\ task'[w].left = Older(task[w].left)
                 /\ task[w].keys \in SUBSET Keys
      <4>1. task[w] \in Task
        BY <1>0
      <4>2. task'[w] = [task[w] EXCEPT !.left = Older(task[w].left)]
        BY <3>2
      <4>3. QED
        BY <4>1, <4>2, AgedTask
    <3>9. QED
      BY <3>5, <3>6, <3>7, <3>8
  <2>2. MeetingKnown'
    BY <2>1 DEF CInv, MeetingKnown, Writing, Meets
  <2>3. PerformedStays'
    BY <2>1, OlderIn DEF CInv, PerformedStays, Writing
  <2>4. WordsOpen' /\ ConfirmedHolds'
    BY <2>1 DEF CInv, WordsOpen, ConfirmedHolds, Writing
  <2>5. QED
    BY <2>2, <2>3, <2>4
<1>7. CASE Restart
  <2>1. /\ \A w \in Workers : task'[w].op = "none" /\ ~task'[w].done
        /\ store' = store
        /\ \A k \in Keys : word'[k] = IF driver = "redis" /\ driver' = "redis"
                                        THEN word[k] ELSE Unknown
    BY <1>7, Marks DEF Restart
  <2>2. MeetingKnown' /\ PerformedStays' /\ WordsOpen'
    BY <2>1 DEF MeetingKnown, PerformedStays, WordsOpen, Writing
  <2>3. ConfirmedHolds'
    BY <2>1, Marks DEF CInv, ConfirmedHolds
  <2>4. QED
    BY <2>2, <2>3
<1>8. CASE DriversFlip \/ DriversReset \/ UNCHANGED allVars
  BY <1>8, <1>a DEF DriversFlip, DriversReset, allVars, driverVars
<1>9. QED
  BY <1>1, <1>2, <1>3, <1>4, <1>5, <1>6, <1>7, <1>8 DEF DriversNext, Settles

(* Whatever an operation aims at, a pattern aims at all keys.              *)
LEMMA NextPatterns == ASSUME CInv, [DriversNext]_allVars PROVE PatternsWhole'
<1>0. /\ task \in [Workers -> Task] /\ PatternsWhole
  BY DIShape DEF CInv
<1>1. ASSUME NEW w \in Workers, Send(w) PROVE PatternsWhole'
  BY <1>1, SendConfirmed
<1>2. ASSUME NEW w \in Workers, ListKeys(w) PROVE PatternsWhole'
  <2>1. PICK S : task' = [task EXCEPT ![w] = [task[w] EXCEPT !.op = "del", !.keys = S]]
    BY <1>2 DEF ListKeys
  <2>2. QED
    BY <1>0, <2>1 DEF PatternsWhole, Task
<1>3. ASSUME NEW w \in Workers, Perform(w) PROVE PatternsWhole'
  <2>1. task' = [task EXCEPT ![w] = [task[w] EXCEPT !.done = TRUE, !.left = TTL]]
    BY <1>0, <1>3 DEF Perform
  <2>2. QED
    BY <1>0, <2>1 DEF PatternsWhole, Task
<1>4. ASSUME NEW w \in Workers, Resolve(w) \/ Break(w) PROVE PatternsWhole'
  BY <1>0, <1>4, Marks DEF Resolve, Break, PatternsWhole
<1>5. ASSUME task' = task PROVE PatternsWhole'
  BY <1>0, <1>5 DEF PatternsWhole
<1>6. CASE Pass
  <2>1. \A w \in Workers : task'[w] = [task[w] EXCEPT !.left = Older(task[w].left)]
    BY <1>6 DEF Pass
  <2>2. \A w \in Workers : task'[w].op = task[w].op /\ task'[w].keys = task[w].keys
    BY <1>0, <2>1 DEF Task
  <2>3. QED
    BY <1>0, <2>2 DEF PatternsWhole
<1>7. CASE Restart
  BY <1>7, Marks DEF Restart, PatternsWhole
<1>8. QED
  BY <1>1, <1>2, <1>3, <1>4, <1>5, <1>6, <1>7
     DEF DriversNext, Settles, Refuse, MemGet, MemSet, MemDel, DriversFlip, DriversReset,
         allVars, driverVars

(* What Redis has confirmed to a process holds, whatever operations meet,  *)
(* fail late or are refused, and through restarts (RedisCacheService, its  *)
(* breaker's fallback included, which never answers).                      *)
THEOREM ConfirmedIsTrue == DriversSpec => []ConfirmedHolds
<1>1. DriversInit => CInv
  <2> SUFFICES ASSUME DriversInit PROVE CInv
    OBVIOUS
  <2>1. DInv
    BY InitDInv
  <2>2. /\ \A w \in Workers : task[w] = NoTask
        /\ \A k \in Keys : word[k] = Gone /\ store[k] = 0
    BY DEF DriversInit, Empty
  <2>3. QED
    BY <2>1, <2>2, Marks DEF CInv, PatternsWhole, MeetingKnown, PerformedStays,
       WordsOpen, ConfirmedHolds, Writing
<1>2. CInv /\ [DriversNext]_allVars => CInv'
  BY NextDInv, NextConfirmed, NextPatterns DEF CInv
<1>3. CInv => ConfirmedHolds
  BY DEF CInv
<1>4. QED
  BY <1>1, <1>2, <1>3, PTL DEF DriversSpec

-----------------------------------------------------------------------------
(* The memory cache.                                                       *)

MemoryIdle ==
    driver = "memory" => \A w \in Workers : task[w].op = "none" /\ ~task[w].done

MInv == DInv /\ MemoryIdle /\ MemoryKeeps

LEMMA NextMemoryKeeps == ASSUME MInv, [DriversNext]_allVars PROVE MemoryKeeps'
<1>0. /\ word \in [Keys -> Words] /\ mem \in [Keys -> 0..TTL] /\ TTL \in Nat \ {0}
      /\ DInv /\ MemoryKeeps
  BY DIShape, Marks DEF MInv
<1>1. ASSUME UNCHANGED <<driver, mem, word>> PROVE MemoryKeeps'
  BY <1>0, <1>1 DEF MemoryKeeps
<1>2. ASSUME driver = "redis", driver' = driver PROVE MemoryKeeps'
  BY <1>2 DEF MemoryKeeps
<1>3. ASSUME NEW w \in Workers, MemGet(w) PROVE MemoryKeeps'
  <2>1. PICK k \in Keys : /\ mem[k] > 0
                          /\ mem' = [mem EXCEPT ![k] = TTL]
                          /\ word' = [word EXCEPT ![k] = [word[k] EXCEPT !.read = TRUE]]
    BY <1>0, <1>3 DEF MemGet
  <2>2. /\ \A j \in Keys \ {k} : word'[j] = word[j] /\ mem'[j] = mem[j]
        /\ word'[k].is = word[k].is /\ word'[k].left = word[k].left
        /\ word'[k].read = TRUE /\ mem'[k] = TTL /\ mem[k] # 0
        /\ word[k].left <= TTL
    BY <1>0, <2>1 DEF Words
  <2>3. driver = "memory" /\ driver' = driver
    BY <1>3 DEF MemGet, InMemory
  <2>4. QED
    BY <1>0, <2>2, <2>3 DEF MemoryKeeps
<1>4. ASSUME NEW w \in Workers, MemSet(w) PROVE MemoryKeeps'
  <2>1. PICK k \in Keys \union {Other} :
         /\ mem' = [j \in Keys |-> IF j = k THEN TTL
                                   ELSE IF j \in Evicted(k) THEN 0 ELSE mem[j]]
         /\ word' = [j \in Keys |-> IF j = k THEN Put
                                    ELSE IF j \in Evicted(k) THEN Unknown ELSE word[j]]
    BY <1>4 DEF MemSet
  <2>2. driver = "memory" /\ driver' = driver
    BY <1>4 DEF MemSet, InMemory
  <2>3. QED
    BY <1>0, <2>1, <2>2, Marks DEF MemoryKeeps
<1>5. ASSUME NEW w \in Workers, MemDel(w) PROVE MemoryKeeps'
  <2>1. PICK S : /\ mem' = [k \in Keys |-> IF k \in S THEN 0 ELSE mem[k]]
                 /\ word' = [k \in Keys |-> IF k \in S THEN Gone ELSE word[k]]
    BY <1>5 DEF MemDel, Matched, Say
  <2>2. driver = "memory" /\ driver' = driver
    BY <1>5 DEF MemDel, InMemory
  <2>3. QED
    BY <1>0, <2>1, <2>2, Marks DEF MemoryKeeps
<1>6. CASE Pass
  <2>1. \A k \in Keys : /\ mem'[k] = Older(mem[k])
                        /\ word'[k] = [word[k] EXCEPT !.left = Older(word[k].left)]
    BY <1>6 DEF Pass
  <2>2. \A k \in Keys : /\ word'[k].is = word[k].is /\ word'[k].read = word[k].read
                        /\ word'[k].left = Older(word[k].left)
                        /\ word[k].left \in 0..TTL /\ mem[k] \in 0..TTL
    <3> TAKE k \in Keys
    <3>1. word[k] \in Words /\ mem[k] \in 0..TTL
      BY <1>0
    <3>2. word'[k] = [word[k] EXCEPT !.left = Older(word[k].left)]
      BY <2>1
    <3>3. QED
      BY <3>1, <3>2, AgedWord
  <2>3. driver' = driver
    BY <1>6 DEF Pass
  <2> SUFFICES ASSUME driver = "memory", NEW k \in Keys
               PROVE  /\ word'[k].is = "gone" => mem'[k] = 0
                      /\ word'[k].is = "set" => /\ mem'[k] >= word'[k].left
                                                /\ mem'[k] > word'[k].left => word'[k].read
    BY <2>3 DEF MemoryKeeps
  <2>4. /\ word[k].is = "gone" => mem[k] = 0
        /\ word[k].is = "set" => /\ mem[k] >= word[k].left
                                 /\ mem[k] > word[k].left => word[k].read
    BY <1>0 DEF MemoryKeeps
  <2>5. QED
    BY <2>1, <2>2, <2>4, OlderIn
<1>7. CASE Restart
  <2>1. driver' = "memory" => \A k \in Keys : word'[k] = Unknown
    BY <1>7 DEF Restart
  <2>2. QED
    BY <2>1, Marks DEF MemoryKeeps
<1>8. ASSUME NEW w \in Workers, Send(w) \/ Refuse(w) PROVE MemoryKeeps'
  BY <1>2, <1>8 DEF Send, Refuse
<1>9. ASSUME NEW w \in Workers, Settles(w) PROVE MemoryKeeps'
  <2>1. CASE Resolve(w)
    <3>1. driver # "memory" /\ driver' = driver
      BY <2>1 DEF Resolve, MInv, MemoryIdle
    <3>2. QED
      BY <3>1 DEF MemoryKeeps
  <2>2. CASE ~Resolve(w)
    BY <1>1, <1>9, <2>2 DEF Settles, ListKeys, Perform, Break
  <2>3. QED
    BY <2>1, <2>2
<1>10. CASE DriversFlip \/ DriversReset \/ UNCHANGED allVars
  BY <1>1, <1>10 DEF DriversFlip, DriversReset, allVars, driverVars
<1>11. QED
  BY <1>3, <1>4, <1>5, <1>6, <1>7, <1>8, <1>9, <1>10 DEF DriversNext

(* Nothing is ever under way with Redis while the driver is the memory.    *)
LEMMA NextMemoryIdle == ASSUME MInv, [DriversNext]_allVars PROVE MemoryIdle'
<1>0. task \in [Workers -> Task] /\ MemoryIdle
  BY DIShape DEF MInv
<1>1. ASSUME UNCHANGED <<driver, task>> PROVE MemoryIdle'
  BY <1>0, <1>1 DEF MemoryIdle
<1>2. ASSUME driver = "redis", driver' = driver PROVE MemoryIdle'
  BY <1>2 DEF MemoryIdle
<1>3. ASSUME NEW w \in Workers, ListKeys(w) \/ Perform(w) PROVE MemoryIdle'
  BY <1>0, <1>3 DEF ListKeys, Perform, MemoryIdle
<1>4. ASSUME NEW w \in Workers, Resolve(w) \/ Break(w) PROVE MemoryIdle'
  BY <1>0, <1>4, Marks DEF Resolve, Break, MemoryIdle
<1>5. CASE Pass
  <2>1. \A w \in Workers : task'[w] = [task[w] EXCEPT !.left = Older(task[w].left)]
    BY <1>5 DEF Pass
  <2>2. \A w \in Workers : task'[w].op = task[w].op /\ task'[w].done = task[w].done
    BY <1>0, <2>1 DEF Task
  <2>3. driver' = driver
    BY <1>5 DEF Pass
  <2>4. QED
    BY <1>0, <2>2, <2>3 DEF MemoryIdle
<1>6. CASE Restart
  BY <1>6, Marks DEF Restart, MemoryIdle
<1>7. QED
  BY <1>1, <1>2, <1>3, <1>4, <1>5, <1>6
     DEF DriversNext, Settles, Send, Refuse, MemGet, MemSet, MemDel, DriversFlip,
         DriversReset, allVars, driverVars

(* The LRU in memory forgets nothing it was told to keep but what a full   *)
(* cache drops, keeps nothing it was told to delete, and prolongs only     *)
(* what is read (MemoryCacheService).                                      *)
THEOREM MemoryIsTrue == DriversSpec => []MemoryKeeps
<1>1. DriversInit => MInv
  <2> SUFFICES ASSUME DriversInit PROVE MInv
    OBVIOUS
  <2>1. DInv
    BY InitDInv
  <2>2. /\ \A k \in Keys : word[k] = Gone /\ mem[k] = 0
        /\ \A w \in Workers : task[w] = NoTask
    BY DEF DriversInit, Empty
  <2>3. QED
    BY <2>1, <2>2, Marks DEF MInv, MemoryKeeps, MemoryIdle
<1>2. MInv /\ [DriversNext]_allVars => MInv'
  BY NextDInv, NextMemoryKeeps, NextMemoryIdle DEF MInv
<1>3. MInv => MemoryKeeps
  BY DEF MInv
<1>4. QED
  BY <1>1, <1>2, <1>3, PTL DEF DriversSpec
=============================================================================
