---------------------------- MODULE CacheDrivers ----------------------------
(***************************************************************************)
(* CacheService of one process.  When the process starts, CacheModule      *)
(* takes Redis if it can connect and an LRU in memory if it cannot; it     *)
(* never changes its mind until the next start.  An operation of           *)
(* RedisCacheService goes through the circuit breaker and awaits Redis; an *)
(* operation of MemoryCacheService is done at once.  Values do not matter: *)
(* an entry is the time it has left.                                       *)
(***************************************************************************)
EXTENDS CircuitBreaker

CONSTANTS
    Keys, Other,
    TTL,        \* the ttl given to set, in ticks
    MaxItems,   \* MAX_ITEMS, 10000
    Honest      \* does KEYS see the keys it is asked for (no keyPrefix)?

ASSUME DriversAssumption ==
    /\ Other \notin Keys
    /\ TTL \in Nat \ {0} /\ MaxItems \in Nat \ {0}
    /\ Honest \in BOOLEAN

VARIABLES
    driver,     \* what CACHE_SERVICE is: "redis" or "memory"
    store,      \* Redis: the time each key has left, 0 when absent
    mem,        \* the LRUCache of the process, likewise
    behind,     \* how many entries have been used since each key was
    task,       \* task[w]: the operation w has under way with Redis
    word        \* history: what the process was last told about each key

driverVars == <<driver, store, mem, behind, task, word>>
allVars == <<vars, driverVars>>

NoTask == [op |-> "none", keys |-> {}, done |-> FALSE, left |-> 0, alone |-> TRUE]

\* Nothing is known of a key while an operation on it is under way, nor after
\* one that failed.
Unknown == [is |-> "unknown", left |-> 0, read |-> FALSE]
Gone == [Unknown EXCEPT !.is = "gone"]
Put == [Unknown EXCEPT !.is = "set", !.left = TTL]

Empty == [k \in Keys |-> 0]

(* REDIS_CLIENT: connect() decides. *)
Choice == IF up THEN "redis" ELSE "memory"

DriversInit ==
    /\ Init
    /\ driver = Choice
    /\ store = Empty /\ mem = Empty /\ behind = Empty
    /\ task = [w \in Workers |-> NoTask]
    /\ word = [k \in Keys |-> Gone]

-----------------------------------------------------------------------------
(* RedisCacheService: get, exists and ttl read; set, del and delPattern     *)
(* write.                                                                   *)
Operations == {"read", "set", "del", "delPattern"}
Targets(op) == IF op = "delPattern" THEN {Keys} ELSE {{k} : k \in Keys}
Writing(w) == task[w].op \in {"set", "del", "delPattern"}

Say(S, what) == word' = [k \in Keys |-> IF k \in S THEN what ELSE word[k]]

\* A write of v to one of the keys of S is under way.
Meets(v, S) == Writing(v) /\ task[v].keys \intersect S # {}

Send(w) ==
    /\ driver = "redis"
    /\ Execute(w)
    /\ \E op \in Operations : \E S \in Targets(op) :
         /\ IF op = "read"
              THEN /\ task' = [task EXCEPT ![w] = [NoTask EXCEPT !.op = op, !.keys = S]]
                   /\ UNCHANGED word
              ELSE /\ task' = [v \in Workers |->
                        IF v = w
                          THEN [NoTask EXCEPT !.op = op, !.keys = S,
                                              !.alone = \A x \in Workers : ~Meets(x, S)]
                          ELSE [task[v] EXCEPT !.alone = @ /\ ~Meets(v, S)]]
                   /\ Say(S, Unknown)
    /\ UNCHANGED <<driver, store, mem, behind>>

(* Mutated form: the text the adapter looks for is the text of the error.  *)
FallsBackWhenOpen == TRUE

(* The adapter looks for "Circuit breaker is open" in an error that says   *)
(* "Circuit breaker 'redis' is OPEN": it never falls back, and the error   *)
(* goes to the caller.                                                     *)
FallsBack == FALSE

(* A rejected operation.  The fallback of set and del answers as if the    *)
(* operation had been performed.                                           *)
Refuse(w) ==
    /\ driver = "redis"
    /\ Reject(w)
    /\ IF FallsBack THEN \E k \in Keys, what \in {Put, Gone} : Say({k}, what)
                    ELSE UNCHANGED word
    /\ UNCHANGED <<driver, store, mem, behind, task>>

(* delPattern asks for the keys and then deletes those it was given: a key *)
(* set between the two stays.                                              *)
ListKeys(w) ==
    /\ up /\ w \notin doomed
    /\ task[w].op = "delPattern"
    /\ task' = [task EXCEPT ![w] =
         [@ EXCEPT !.op = "del",
                   !.keys = IF Honest THEN {k \in Keys : store[k] > 0} ELSE {}]]
    /\ UNCHANGED <<vars, driver, store, mem, behind, word>>

(* Redis performs the command; the reply is still to come. *)
Perform(w) ==
    /\ up /\ w \notin doomed
    /\ task[w].op \in {"read", "set", "del"} /\ ~task[w].done
    /\ store' = [k \in Keys |->
         IF k \notin task[w].keys \/ task[w].op = "read" THEN store[k]
         ELSE IF task[w].op = "set" THEN TTL ELSE 0]
    /\ task' = [task EXCEPT ![w].done = TRUE, ![w].left = TTL]
    /\ UNCHANGED <<vars, driver, mem, behind, word>>

(* The caller is told.  Where two writes to a key overlapped the answer     *)
(* says nothing about the order of the two.                                 *)
Resolve(w) ==
    /\ task[w].done
    /\ OnSuccess(w)
    /\ task' = [task EXCEPT ![w] = NoTask]
    /\ word' = [k \in Keys |->
         IF ~Writing(w) \/ k \notin task[w].keys THEN word[k]
         ELSE IF ~task[w].alone THEN Unknown
         ELSE IF task[w].op = "set" THEN [Put EXCEPT !.left = task[w].left]
                                    ELSE Gone]
    /\ UNCHANGED <<driver, store, mem, behind>>

Break(w) ==
    /\ OnFailure(w)
    /\ task' = [task EXCEPT ![w] = NoTask]
    /\ UNCHANGED <<driver, store, mem, behind, word>>

-----------------------------------------------------------------------------
(* MemoryCacheService.                                                     *)
InMemory(w) == driver = "memory" /\ call[w] = "idle"

(* Using k puts it ahead of every entry it was behind; k = Other stands for *)
(* an entry under a key that is none of Keys.                               *)
Overtakes(k, j) == k \notin Keys \/ mem[k] = 0 \/ behind[k] > behind[j]
Used(k) == [j \in Keys |-> IF j = k \/ mem[j] = 0 THEN 0
                          ELSE behind[j] + (IF Overtakes(k, j) THEN 1 ELSE 0)]

(* updateAgeOnGet: reading an entry starts its time anew.                  *)
MemGet(w) ==
    /\ InMemory(w)
    /\ \E k \in Keys :
         /\ mem[k] > 0
         /\ mem' = [mem EXCEPT ![k] = TTL]
         /\ behind' = Used(k)
         /\ word' = [word EXCEPT ![k].read = TRUE]
    /\ UNCHANGED <<vars, driver, store, task>>

(* Mutated form: one entry too many is kept. *)
EvictedLate(k) == {j \in Keys \ {k} : mem[j] > 0 /\ Used(k)[j] > MaxItems}

(* set takes a place; beyond MaxItems the least recently used entry goes,   *)
(* whatever it says.                                                        *)
Evicted(k) == {j \in Keys \ {k} : mem[j] > 0 /\ Used(k)[j] >= MaxItems}

MemSet(w) ==
    /\ InMemory(w)
    /\ \E k \in Keys \union {Other} :
         /\ mem' = [j \in Keys |-> IF j = k THEN TTL
                                   ELSE IF j \in Evicted(k) THEN 0 ELSE mem[j]]
         /\ behind' = [j \in Keys |-> IF j \in Evicted(k) THEN 0 ELSE Used(k)[j]]
         /\ word' = [j \in Keys |-> IF j = k THEN Put
                                    ELSE IF j \in Evicted(k) THEN Unknown ELSE word[j]]
    /\ UNCHANGED <<vars, driver, store, task>>

(* Mutated form: a pattern is compared as if it were a key. *)
MatchedExactly(op, S) == IF op = "delPattern" THEN {} ELSE S

(* delPattern goes through all keys with a regular expression. *)
Matched(op, S) == S

MemDel(w) ==
    /\ InMemory(w)
    /\ \E op \in {"del", "delPattern"} : \E S \in Targets(op) :
         /\ mem' = [k \in Keys |-> IF k \in Matched(op, S) THEN 0 ELSE mem[k]]
         /\ behind' = [k \in Keys |-> IF mem'[k] = 0 THEN 0 ELSE behind[k]]
         /\ Say(S, Gone)
    /\ UNCHANGED <<vars, driver, store, task>>

-----------------------------------------------------------------------------
(* The process dies and starts again: its calls, its breaker and its memory *)
(* are gone, and the driver is chosen anew.  What it was told counts no     *)
(* more if it is told by another driver, or was kept in memory.             *)
Restart ==
    /\ resets < MaxResets /\ resets' = resets + 1
    /\ state' = "CLOSED" /\ stats' = NoStats /\ quiet' = Timeout
    /\ call' = [w \in Workers |-> "idle"] /\ doomed' = {}
    /\ driver' = Choice
    /\ mem' = Empty /\ behind' = Empty
    /\ task' = [w \in Workers |-> NoTask]
    /\ word' = [k \in Keys |-> IF driver = "redis" /\ driver' = "redis"
                                 THEN word[k] ELSE Unknown]
    /\ UNCHANGED <<store, up, asked>>

Older(n) == IF n > 0 THEN n - 1 ELSE 0

Pass ==
    /\ quiet' = IF quiet < Timeout THEN quiet + 1 ELSE quiet
    /\ store' = [k \in Keys |-> Older(store[k])]
    /\ mem' = [k \in Keys |-> Older(mem[k])]
    /\ behind' = [k \in Keys |-> IF mem'[k] = 0 THEN 0 ELSE behind[k]]
    /\ task' = [w \in Workers |-> [task[w] EXCEPT !.left = Older(@)]]
    /\ word' = [k \in Keys |-> [word[k] EXCEPT !.left = Older(@)]]
    /\ UNCHANGED <<state, stats, callVars, up, resets, asked, driver>>

DriversFlip == Flip /\ UNCHANGED driverVars
DriversReset == Reset /\ UNCHANGED driverVars

Settles(w) == ListKeys(w) \/ Perform(w) \/ Resolve(w) \/ Break(w)

DriversNext ==
    \/ \E w \in Workers : \/ Send(w) \/ Refuse(w) \/ Settles(w)
                          \/ MemGet(w) \/ MemSet(w) \/ MemDel(w)
    \/ Pass \/ DriversFlip \/ DriversReset \/ Restart

(* Redis answers or the connection fails, and time passes. *)
DriversSpec ==
    /\ DriversInit /\ [][DriversNext]_allVars
    /\ \A w \in Workers : WF_allVars(Settles(w))
    /\ WF_allVars(Pass)

-----------------------------------------------------------------------------
Words == [is : {"unknown", "gone", "set"}, left : 0..TTL, read : BOOLEAN]

DriversTypeOK ==
    /\ TypeOK
    /\ driver \in {"redis", "memory"}
    /\ store \in [Keys -> 0..TTL] /\ mem \in [Keys -> 0..TTL]
    /\ behind \in [Keys -> 0..MaxItems - 1]
    /\ task \in [Workers -> [op : Operations \union {"none"}, keys : SUBSET Keys,
                            done : BOOLEAN, left : 0..TTL, alone : BOOLEAN]]
    /\ word \in [Keys -> Words]

(* What Redis has confirmed holds: a key whose deletion was confirmed is    *)
(* not there, and one whose set was confirmed is there for just its time;   *)
(* failed commands, the open circuit, restarts and late replies included.   *)
(* It holds because the adapter never falls back: an answer made up while   *)
(* the circuit is open would confirm what never happened.                   *)
ConfirmedHolds ==
    driver = "redis" =>
      \A k \in Keys : word[k].is # "unknown" => store[k] = word[k].left

(* In memory a deleted key is gone; an entry is there for the time it was    *)
(* set for unless a full cache had to drop it, and longer only if it has     *)
(* been read: unlike Redis, reading an entry prolongs it.                    *)
MemoryKeeps ==
    driver = "memory" =>
      \A k \in Keys :
        /\ word[k].is = "gone" => mem[k] = 0
        /\ word[k].is = "set" => /\ mem[k] >= word[k].left
                                 /\ mem[k] > word[k].left => word[k].read
=============================================================================
