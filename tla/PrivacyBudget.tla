--------------------------- MODULE PrivacyBudget ---------------------------
(***************************************************************************)
(* PrivacyBudgetAccountant: the epsilon that one user's analyses may spend *)
(* in an epoch, kept in a Redis hash that a Lua script reads and charges   *)
(* atomically, with a process-local dictionary as the fallback.            *)
(*                                                                         *)
(* Amounts are integers, as in the script (epsilon * 10^6).  Only the      *)
(* current epoch is kept: keys carry the epoch, and a new epoch starts     *)
(* from keys that do not exist.                                            *)
(***************************************************************************)
EXTENDS Integers

CONSTANTS
    User,
    TotalEpsilon,       \* dp_total_epsilon
    ReservedEpsilon,    \* dp_reserved_epsilon
    Cost,               \* dp_epsilon_per_analysis
    MaxEpochs,          \* bound: epochs
    MaxOutages,         \* bound: times that Redis stops
    MaxStarts           \* bound: engine restarts in an epoch

ASSUME BudgetAssumption ==
    /\ TotalEpsilon \in Nat
    /\ ReservedEpsilon \in 0..TotalEpsilon
    /\ Cost \in Nat \ {0}
    /\ MaxEpochs \in Nat /\ MaxOutages \in Nat /\ MaxStarts \in Nat

VARIABLES
    consumed,       \* field "consumed" of the hash in Redis; 0 when there is no key
    local,          \* "consumed" of cls._local_budget
    released,       \* history: epsilon granted in this epoch
    redisUp,
    loaded,         \* the script is in Redis' script cache
    hashCached,     \* cls._script_hash is set
    available,      \* cls.redis_available
    lastSecond,     \* less than a second of the epoch is left
    epoch, outages,
    starts,         \* engine restarts in this epoch
    losses          \* history: times in this epoch that Redis came back with less

process == <<local, hashCached, available>>
clock == <<lastSecond, epoch, outages, starts, losses>>
budgetVars == <<consumed, released, redisUp, loaded, process, clock>>

BudgetInit ==
    /\ consumed = [u \in User |-> 0]
    /\ local = [u \in User |-> 0]
    /\ released = [u \in User |-> 0]
    /\ redisUp \in BOOLEAN
    /\ loaded = FALSE
    /\ hashCached = FALSE
    /\ available = TRUE
    /\ lastSecond = FALSE
    /\ epoch = 0 /\ outages = 0 /\ starts = 0 /\ losses = 0

\* Mutant: the reserve is not looked at.
Admits_NoReserve(spent, class) == TotalEpsilon - spent >= Cost

\* The test of the script and of _in_memory_consume.
Admits(spent, class) ==
    TotalEpsilon - spent - (IF class = "PERIODIC" THEN ReservedEpsilon ELSE 0) >= Cost

(***************************************************************************)
(* EVALSHA raises NOSCRIPT, a RedisError, when Redis has restarted since   *)
(* the hash was cached.                                                    *)
(***************************************************************************)
RedisAnswers == available /\ redisUp /\ (hashCached => loaded)

\* The script.  A new key gets the seconds left in the epoch as its time to
\* live, rounded down: in the last second that is 0, which deletes the key.
RunScript(u, class) ==
    /\ consumed' = [consumed EXCEPT ![u] =
                      IF ~Admits(@, class) \/ (lastSecond /\ @ = 0) THEN @ ELSE @ + Cost]
    /\ loaded' = TRUE
    /\ hashCached' = TRUE

\* Mutant: the dictionary is not written.
InMemoryConsume_NotStored(u, granted) ==
    /\ available' = FALSE
    /\ UNCHANGED local

\* After any RedisError, now and for the rest of the process.
InMemoryConsume(u, granted) ==
    /\ local' = [local EXCEPT ![u] = IF granted THEN @ + Cost ELSE @]
    /\ available' = FALSE

\* consume_budget with an analysis id that was not seen before (every caller
\* draws a new one); not granted is PrivacyBudgetExhausted.  The script may
\* have run although its answer misses the socket timeout.
ConsumeBudget(u, class, granted) ==
    /\ \/ /\ RedisAnswers
          /\ granted = Admits(consumed[u], class)
          /\ RunScript(u, class)
          /\ UNCHANGED <<local, available>>
       \/ /\ granted = Admits(local[u], class)
          /\ InMemoryConsume(u, granted)
          /\ \/ ~RedisAnswers /\ UNCHANGED <<consumed, loaded, hashCached>>
             \/ RedisAnswers /\ RunScript(u, class)
    /\ released' = [released EXCEPT ![u] = IF granted THEN @ + Cost ELSE @]
    /\ UNCHANGED <<redisUp, clock>>

\* get_budget_status asks Redis whatever redis_available says.
ConsumedStatus(u) == IF redisUp THEN consumed[u] ELSE local[u]

-----------------------------------------------------------------------------
(***************************************************************************)
(* The environment.  docker-compose.yml runs redis:alpine with neither an  *)
(* append-only file nor a volume: a restart keeps the data, takes it back  *)
(* to an earlier snapshot, or loses it.  The script cache is never kept,   *)
(* and the engine keeps nothing.                                           *)
(***************************************************************************)
RedisStops ==
    /\ redisUp
    /\ outages < MaxOutages
    /\ redisUp' = FALSE
    /\ outages' = outages + 1
    /\ UNCHANGED <<consumed, released, loaded, process, lastSecond, epoch, starts, losses>>

\* What a field of the hash may have held before: fewer charges, or no key.
Earlier(amount) == {n \in 0..amount : n % Cost = 0}

RedisStarts ==
    /\ ~redisUp
    /\ redisUp' = TRUE
    /\ loaded' = FALSE
    /\ \E kept \in [User -> 0..TotalEpsilon] :
          /\ \A u \in User : kept[u] \in Earlier(consumed[u])
          /\ consumed' = kept
          /\ losses' = IF kept = consumed THEN losses ELSE losses + 1
    /\ UNCHANGED <<released, process, lastSecond, epoch, outages, starts>>

EngineRestart ==
    /\ starts < MaxStarts
    /\ starts' = starts + 1
    /\ local' = [u \in User |-> 0]
    /\ hashCached' = FALSE
    /\ available' = TRUE
    /\ UNCHANGED <<consumed, released, redisUp, loaded, lastSecond, epoch, outages, losses>>

LastSecond ==
    /\ ~lastSecond
    /\ lastSecond' = TRUE
    /\ UNCHANGED <<consumed, released, redisUp, loaded, process, epoch, outages, starts, losses>>

\* A time to live that was rounded down ends before the epoch does.
Expire(u) ==
    /\ lastSecond
    /\ consumed[u] > 0
    /\ consumed' = [consumed EXCEPT ![u] = 0]
    /\ UNCHANGED <<released, redisUp, loaded, process, clock>>

NewEpoch ==
    /\ lastSecond
    /\ epoch < MaxEpochs
    /\ epoch' = epoch + 1
    /\ lastSecond' = FALSE
    /\ starts' = 0
    /\ losses' = 0
    /\ consumed' = [u \in User |-> 0]
    /\ local' = [u \in User |-> 0]
    /\ released' = [u \in User |-> 0]
    /\ UNCHANGED <<redisUp, loaded, hashCached, available, outages>>

RedisStep == RedisStops \/ RedisStarts \/ LastSecond \/ NewEpoch \/ \E u \in User : Expire(u)

-----------------------------------------------------------------------------
AmountsOK ==
    /\ consumed \in [User -> Nat]
    /\ local \in [User -> Nat]
    /\ released \in [User -> Nat]
    /\ epoch \in Nat /\ outages \in Nat /\ starts \in Nat /\ losses \in Nat

SwitchesOK ==
    /\ redisUp \in BOOLEAN /\ loaded \in BOOLEAN
    /\ hashCached \in BOOLEAN /\ available \in BOOLEAN
    /\ lastSecond \in BOOLEAN

BudgetTypeOK == AmountsOK /\ SwitchesOK

\* What PERIODIC analyses may take from one store.
Ceiling == TotalEpsilon - ReservedEpsilon

\* How much outages can cost: until the last second of an epoch, a user is
\* granted at most one budget from Redis, one more for each time that Redis
\* came back without charges of the epoch, and one from the dictionary of every
\* process that ran in it, however often Redis stops, loses its script cache
\* or answers late.  An outage that loses nothing costs nothing more.
OutageBound ==
    ~lastSecond => \A u \in User : released[u] <= (2 + starts + losses) * Ceiling

\* Analyses of transfers are all PERIODIC, the first one too, so no store is
\* ever charged into the reserve, whatever the outages.
ReserveUntouched == \A u \in User : consumed[u] <= Ceiling /\ local[u] <= Ceiling

\* The budget of an epoch is never exceeded (test_dp_reserve_concurrency.py,
\* test_e: "Prove the final total never exceeds the epoch budget").
EpochBudgetHolds == \A u \in User : released[u] <= TotalEpsilon

\* The inductive invariant behind OutageBound: each store holds at most the
\* ceiling, and what was granted is in a store or was lost, with a dictionary
\* in a restart of the engine or by Redis.
BudgetInv ==
    /\ BudgetTypeOK
    /\ ReserveUntouched
    /\ ~lastSecond => \A u \in User :
          released[u] <= consumed[u] + local[u] + (starts + losses) * Ceiling
=============================================================================
