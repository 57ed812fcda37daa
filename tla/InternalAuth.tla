---------------------------- MODULE InternalAuth ----------------------------
(***************************************************************************)
(* verify_internal_token of the engine, for the tokens the Node backend    *)
(* signs (getInternalServiceToken).  Calls run in the thread pools of      *)
(* several worker processes; the identifiers of tokens already seen are    *)
(* kept in Redis, or, in development, in a dictionary of the process.      *)
(* Redis may be unreachable, answer too late, or restart without its data. *)
(***************************************************************************)
EXTENDS Naturals, FiniteSets

CONSTANTS
    Call, Token, Worker,
    Nobody,         \* neither a token nor a worker
    TokenLife,      \* expiresIn of a token (30 s)
    RecordLife,     \* life of a record of its identifier (60 s)
    SlowestCall,    \* longest time a call takes (socket_timeout of Redis is 1 s)
    MaxClock        \* bound: time

ASSUME AuthAssumption ==
    /\ TokenLife \in Nat \ {0} /\ RecordLife \in Nat /\ SlowestCall \in Nat /\ MaxClock \in Nat
    /\ TokenLife + SlowestCall <= RecordLife

VARIABLES
    env,        \* ENVIRONMENT of the engine, "development" unless it is set
    clock,
    issued,     \* when each token was signed, Never before
    redis,      \* reachable or not, the records with their expiry, the epoch
    local,      \* local_jti_cache of each worker: expiry of each record
    call

vars == <<env, clock, issued, redis, local, call>>

Never == MaxClock + 1           \* later than any time of the model
Absent == 0                     \* no record; a record expires at a later time
\* via, epoch and after are history: the store that let a call pass, and the
\* calls that had written the token when this one looked it up.
NewCall == [pc |-> "idle", token |-> Nobody, worker |-> Nobody,
            now |-> 0, stale |-> {}, via |-> "none", epoch |-> 0, after |-> {}]

Init ==
    /\ env \in {"development", "production"}
    /\ clock = 0
    /\ issued = [t \in Token |-> Never]
    /\ redis = [up |-> TRUE, epoch |-> 0, record |-> [t \in Token |-> Absent]]
    /\ local = [w \in Worker |-> [t \in Token |-> Absent]]
    /\ call = [c \in Call |-> NewCall]

SetCall(c, r) == call' = [call EXCEPT ![c] = r]
End(c, result) == SetCall(c, [call[c] EXCEPT !.pc = result])

\* Mutant: a record that lives as long as the token, counted from its use.
Expiry_Short(at) == at + 1
Expiry(at) == at + RecordLife
\* jwt.decode refuses a token from the second in which it expires.
Expired(t) == clock >= issued[t] + TokenLife

-----------------------------------------------------------------------------
Issue(t) ==
    /\ issued[t] = Never
    /\ issued' = [issued EXCEPT ![t] = clock]
    /\ UNCHANGED <<env, clock, redis, local, call>>

\* jwt.decode, time.time(), then the list of the records of this process
\* that are over; a thread that changes the dictionary meanwhile makes the
\* iteration raise.
Decode(c, t, w) ==
    /\ call[c].pc = "idle" /\ issued[t] # Never
    /\ \E pc \in IF Expired(t) THEN {"expired"}
                 ELSE {"purge"} \cup {"error" : d \in {d \in Call : call[d].worker = w
                                                        /\ call[d].pc \in {"purge", "record"}}} :
           SetCall(c, [call[c] EXCEPT
                         !.pc = pc, !.token = t, !.worker = w, !.now = clock,
                         !.stale = {s \in Token : local[w][s] # Absent /\ clock > local[w][s]}])
    /\ UNCHANGED <<env, clock, issued, redis, local>>

\* The listed records are deleted; one that another thread has deleted in
\* the meantime is a KeyError.
Purge(c) ==
    LET w == call[c].worker
    IN  /\ call[c].pc = "purge"
        /\ local' = [local EXCEPT ![w] = [t \in Token |-> IF t \in call[c].stale THEN Absent ELSE @[t]]]
        /\ IF \E t \in call[c].stale : local[w][t] = Absent
           THEN End(c, "error") ELSE SetCall(c, [call[c] EXCEPT !.pc = "store", !.stale = {}])
        /\ UNCHANGED <<env, clock, issued, redis>>

(***************************************************************************)
(* SET NX EX: the answer tells whether the identifier is new.  When Redis  *)
(* is unreachable, or the answer is late although the command has run, the *)
(* client raises RedisError: production refuses, development looks into    *)
(* the dictionary of the process.                                          *)
(***************************************************************************)
Recorded(t) == redis.record[t] > clock

StoreRedis(c) ==
    LET t == call[c].token
    IN  /\ call[c].pc = "store" /\ redis.up
        /\ IF Recorded(t)
           THEN End(c, "replayed") /\ UNCHANGED redis
           ELSE /\ redis' = [redis EXCEPT !.record[t] = Expiry(clock)]
                /\ SetCall(c, [call[c] EXCEPT !.pc = "context", !.via = "redis", !.epoch = redis.epoch])
        /\ UNCHANGED <<env, clock, issued, local>>

\* Mutant: the dictionary is used whatever the environment.
AfterRedisError_AlwaysLocal(c) == SetCall(c, [call[c] EXCEPT !.pc = "lookup"])
AfterRedisError(c) ==
    IF env = "development" THEN SetCall(c, [call[c] EXCEPT !.pc = "lookup"]) ELSE End(c, "unavailable")

RedisError(c) ==
    /\ call[c].pc = "store"
    /\ \/ UNCHANGED redis
       \/ /\ redis.up /\ ~Recorded(call[c].token)
          /\ redis' = [redis EXCEPT !.record[call[c].token] = Expiry(clock)]
    /\ AfterRedisError(c)
    /\ UNCHANGED <<env, clock, issued, local>>

LocallyPassed(t, w) == {d \in Call : call[d].via = "local" /\ call[d].token = t /\ call[d].worker = w}

\* "jti in local_jti_cache", and the assignment that follows.
Lookup(c) ==
    /\ call[c].pc = "lookup"
    /\ IF local[call[c].worker][call[c].token] # Absent
       THEN End(c, "replayed")
       ELSE SetCall(c, [call[c] EXCEPT !.pc = "record", !.after = LocallyPassed(call[c].token, call[c].worker)])
    /\ UNCHANGED <<env, clock, issued, redis, local>>

Record(c) ==
    /\ call[c].pc = "record"
    /\ local' = [local EXCEPT ![call[c].worker][call[c].token] = Expiry(call[c].now)]
    /\ SetCall(c, [call[c] EXCEPT !.pc = "context", !.via = "local"])
    /\ UNCHANGED <<env, clock, issued, redis>>

\* Service, method and path of the token, after its identifier is used up.
Context(c) ==
    /\ call[c].pc = "context"
    /\ \/ End(c, "accepted")
       \/ End(c, "mismatch")
    /\ UNCHANGED <<env, clock, issued, redis, local>>

-----------------------------------------------------------------------------
RedisFails == redis.up /\ redis' = [redis EXCEPT !.up = FALSE]
              /\ UNCHANGED <<env, clock, issued, local, call>>

\* The container has no volume: what it held is lost with it.
RedisReturns ==
    /\ ~redis.up
    /\ \/ redis' = [redis EXCEPT !.up = TRUE]
       \/ /\ redis.epoch = 0           \* bound: one loss
          /\ redis' = [up |-> TRUE, epoch |-> 1, record |-> [t \in Token |-> Absent]]
    /\ UNCHANGED <<env, clock, issued, local, call>>

Running(c) == call[c].pc \in {"purge", "store", "lookup", "record"}

\* Time does not leave a running call behind by more than SlowestCall.
Tick ==
    /\ clock < MaxClock /\ clock' = clock + 1
    /\ \A c \in Call : Running(c) => clock < call[c].now + SlowestCall
    /\ UNCHANGED <<env, issued, redis, local, call>>

CallStep(c) ==
    \/ Purge(c) \/ StoreRedis(c) \/ RedisError(c) \/ Lookup(c) \/ Record(c) \/ Context(c)

Next ==
    \/ \E t \in Token : Issue(t)
    \/ \E c \in Call, t \in Token, w \in Worker : Decode(c, t, w)
    \/ \E c \in Call : CallStep(c)
    \/ RedisFails \/ RedisReturns \/ Tick

Spec == Init /\ [][Next]_vars

-----------------------------------------------------------------------------
AuthTypeOK ==
    /\ env \in {"development", "production"}
    /\ clock \in 0..MaxClock
    /\ issued \in [Token -> 0..Never]
    /\ redis \in [up : BOOLEAN, epoch : {0, 1}, record : [Token -> Nat]]
    /\ local \in [Worker -> [Token -> Nat]]
    /\ call \in [Call -> [pc : {"idle", "purge", "store", "lookup", "record", "context", "expired", "error",
                                "replayed", "unavailable", "accepted", "mismatch"},
                          token : Token \cup {Nobody}, worker : Worker \cup {Nobody}, now : 0..MaxClock, stale : SUBSET Token,
                          via : {"none", "redis", "local"}, epoch : {0, 1}, after : SUBSET Call]]

\* The calls whose token has been found new.
Passed(c) == call[c].via # "none"
Replay(c, d) == c # d /\ Passed(c) /\ Passed(d) /\ call[c].token = call[d].token

(***************************************************************************)
(* A token passes a second time only where another store is asked: Redis   *)
(* once and a dictionary once, Redis before and after it lost its data,    *)
(* the dictionaries of two workers; or in one dictionary, when neither of  *)
(* the two look-ups came after the other's assignment.  In particular no   *)
(* record is over, and none is purged, while its token can still be used.  *)
(***************************************************************************)
ReplayNeedsAnotherStore ==
    \A c, d \in Call : Replay(c, d) =>
        \/ call[c].via # call[d].via
        \/ call[c].via = "redis" /\ call[c].epoch # call[d].epoch
        \/ call[c].via = "local" /\ call[c].worker # call[d].worker
        \/ call[c].via = "local" /\ d \notin call[c].after /\ c \notin call[d].after

\* In production only a Redis that lost its data lets a token pass twice,
\* however often it fails and whatever answers come too late.
ProductionReplayNeedsLoss ==
    env = "production" => \A c, d \in Call : Replay(c, d) => call[c].epoch # call[d].epoch
=============================================================================
