------------------------- MODULE InternalAuthProofs -------------------------
(***************************************************************************)
(* Proofs about InternalAuth for any number of calls, tokens and workers,  *)
(* and any lives of tokens and records that leave a call its time.         *)
(***************************************************************************)
EXTENDS InternalAuth, TLAPS

(***************************************************************************)
(* The strengthening.  A call that runs is about a token that was valid    *)
(* when it was decoded, at most SlowestCall ago; every record outlives     *)
(* that; and what is purged cannot be used any more.                       *)
(***************************************************************************)
Decoded(c) == call[c].pc \notin {"idle", "expired"}

Timely(c) ==
    /\ call[c].now <= clock
    /\ Decoded(c) => /\ call[c].token \in Token /\ call[c].worker \in Worker
                     /\ issued[call[c].token] <= call[c].now
                     /\ call[c].now < issued[call[c].token] + TokenLife
    /\ Running(c) => clock <= call[c].now + SlowestCall
    /\ Passed(c) => Decoded(c) /\ ~Running(c)

CallTimes == \A c \in Call : Timely(c)

IssuedEarlier == \A t \in Token : issued[t] # Never => issued[t] <= clock

StaleIsOver(c) ==
    \A t \in Token : t \in call[c].stale /\ call[c].pc = "purge" =>
        call[c].now > issued[t] + RecordLife

RecordTimes ==
    /\ \A t \in Token : redis.record[t] # Absent => redis.record[t] >= issued[t] + RecordLife
    /\ \A w \in Worker, t \in Token :
          local[w][t] # Absent => local[w][t] >= issued[t] + RecordLife
    /\ \A c \in Call : StaleIsOver(c)

KeptInRedis(c) ==
    call[c].via = "redis" =>
        /\ call[c].epoch <= redis.epoch
        /\ call[c].epoch = redis.epoch => redis.record[call[c].token] # Absent

KeptLocally(c) ==
    call[c].via = "local" =>
        \/ local[call[c].worker][call[c].token] # Absent
        \/ clock > issued[call[c].token] + RecordLife

PassedIsRecorded == \A c \in Call : KeptInRedis(c) /\ KeptLocally(c)

NothingSeenAfter == \A c \in Call : call[c].after = {}

OneStore ==
    \A c, d \in Call :
        Replay(c, d) /\ call[c].via = "redis" /\ call[d].via = "redis" =>
            call[c].epoch # call[d].epoch

Closed ==
    env = "production" => \A c \in Call : /\ call[c].via # "local"
                                          /\ call[c].pc \notin {"lookup", "record"}

AuthInv ==
    /\ AuthTypeOK
    /\ CallTimes
    /\ IssuedEarlier
    /\ RecordTimes
    /\ PassedIsRecorded
    /\ NothingSeenAfter
    /\ OneStore
    /\ Closed
-----------------------------------------------------------------------------
CallRecord ==
    [pc : {"idle", "purge", "store", "lookup", "record", "context", "expired", "error",
           "replayed", "unavailable", "accepted", "mismatch"},
     token : Token \cup {Nobody}, worker : Worker \cup {Nobody}, now : 0..MaxClock, stale : SUBSET Token,
     via : {"none", "redis", "local"}, epoch : {0, 1}, after : SUBSET Call]

\* The initial state satisfies the invariant.
LEMMA AuthInit == Init => AuthInv
  <1> SUFFICES ASSUME Init PROVE AuthInv
    OBVIOUS
  <1>0. MaxClock \in Nat /\ 0 \in 0..MaxClock /\ Never \in 0..Never /\ Absent = 0
    BY AuthAssumption DEF Never, Absent
  <1>1. NewCall \in CallRecord
    BY <1>0 DEF NewCall, CallRecord
  <1>2. \A c \in Call : call[c] = NewCall
    BY DEF Init
  <1>3. call \in [Call -> CallRecord]
    BY <1>1 DEF Init
  <1>4. AuthTypeOK
    BY <1>0, <1>3 DEF AuthTypeOK, Init, CallRecord
  <1>5. /\ NewCall.pc = "idle" /\ NewCall.now = 0 /\ NewCall.via = "none"
        /\ NewCall.after = {} /\ NewCall.stale = {}
    BY DEF NewCall
  <1> QED
    BY <1>0, <1>2, <1>4, <1>5 DEF AuthInv, CallTimes, Timely, IssuedEarlier, RecordTimes, StaleIsOver,
       PassedIsRecorded, KeptInRedis, KeptLocally, NothingSeenAfter, OneStore, Closed, Decoded, Running, Passed, Replay, Init

\* A running call is about a token that no purge and no expiry has freed.
LEMMA RunningIsRecent ==
    ASSUME AuthInv, NEW c \in Call, Running(c)
    PROVE  /\ call[c].token \in Token /\ call[c].worker \in Worker
           /\ issued[call[c].token] \in Nat
           /\ clock < issued[call[c].token] + RecordLife
  <1>1. /\ clock \in Nat /\ call[c].now \in Nat /\ issued \in [Token -> 0..Never]
    BY AuthAssumption DEF AuthInv, AuthTypeOK
  <1>2. Decoded(c)
    BY DEF Running, Decoded
  <1>3. /\ call[c].token \in Token /\ call[c].worker \in Worker
        /\ issued[call[c].token] <= call[c].now
        /\ call[c].now < issued[call[c].token] + TokenLife
        /\ clock <= call[c].now + SlowestCall
    BY <1>2 DEF AuthInv, CallTimes, Timely
  <1>4. issued[call[c].token] \in Nat
    BY <1>1, <1>3, AuthAssumption DEF Never
  <1> QED
    BY <1>1, <1>3, <1>4, AuthAssumption

\* A token is signed once.
LEMMA IssueStep ==
    ASSUME AuthInv, NEW t \in Token, Issue(t)
    PROVE  AuthInv'
  <1>0. /\ clock \in Nat /\ issued \in [Token -> 0..Never] /\ Never \in Nat /\ RecordLife \in Nat
        /\ TokenLife \in Nat \ {0} /\ SlowestCall \in Nat /\ MaxClock \in Nat
        /\ \A d \in Call : call[d] \in CallRecord
    BY AuthAssumption DEF AuthInv, AuthTypeOK, Never, CallRecord
  <1>1. AuthTypeOK'
    BY <1>0 DEF AuthInv, AuthTypeOK, CallRecord, Issue, Never, Absent
  <1>2. CallTimes'
    BY <1>0 DEF AuthInv, AuthTypeOK, CallRecord, CallTimes, Timely, Decoded, Running, Passed, Issue, Never, Absent
  <1>3. IssuedEarlier'
    BY <1>0 DEF AuthInv, AuthTypeOK, CallRecord, IssuedEarlier, Issue, Never, Absent
  <1>4. RecordTimes'
    BY <1>0 DEF AuthInv, AuthTypeOK, CallRecord, RecordTimes, StaleIsOver, Issue, Never, Absent
  <1>5. PassedIsRecorded'
    BY <1>0 DEF AuthInv, AuthTypeOK, CallRecord, PassedIsRecorded, KeptInRedis, KeptLocally, CallTimes, Timely, Decoded, Passed, Issue, Never, Absent
  <1>6. NothingSeenAfter'
    BY <1>0 DEF AuthInv, AuthTypeOK, CallRecord, NothingSeenAfter, Issue, Never, Absent
  <1>7. OneStore'
    BY <1>0 DEF AuthInv, AuthTypeOK, CallRecord, OneStore, Replay, Passed, Issue, Never, Absent
  <1>8. Closed'
    BY <1>0 DEF AuthInv, AuthTypeOK, CallRecord, Closed, Issue, Never, Absent
  <1> QED
    BY <1>1, <1>2, <1>3, <1>4, <1>5, <1>6, <1>7, <1>8 DEF AuthInv


\* Redis fails, and returns with or without its data.
LEMMA RedisStep ==
    ASSUME AuthInv, RedisFails \/ RedisReturns
    PROVE  AuthInv'
  <1>0. /\ clock \in Nat /\ issued \in [Token -> 0..Never] /\ Never \in Nat /\ RecordLife \in Nat
        /\ TokenLife \in Nat \ {0} /\ SlowestCall \in Nat /\ MaxClock \in Nat
        /\ \A d \in Call : call[d] \in CallRecord
    BY AuthAssumption DEF AuthInv, AuthTypeOK, Never, CallRecord
  <1>1. AuthTypeOK'
    <2>1. redis' \in [up : BOOLEAN, epoch : {0, 1}, record : [Token -> Nat]]
      <3>1. CASE redis' = [redis EXCEPT !.up = FALSE] \/ redis' = [redis EXCEPT !.up = TRUE]
        BY <3>1 DEF AuthInv, AuthTypeOK
      <3>2. CASE redis' = [up |-> TRUE, epoch |-> 1, record |-> [t \in Token |-> Absent]]
        BY <3>2 DEF Absent
      <3> QED
        BY <3>1, <3>2 DEF RedisFails, RedisReturns
    <2> QED
      BY <2>1 DEF AuthInv, AuthTypeOK, RedisFails, RedisReturns
  <1>2. CallTimes'
    BY <1>0 DEF AuthInv, AuthTypeOK, CallRecord, CallTimes, Timely, Decoded, Running, Passed, RedisFails, RedisReturns, Absent
  <1>3. IssuedEarlier'
    BY <1>0 DEF AuthInv, AuthTypeOK, CallRecord, IssuedEarlier, RedisFails, RedisReturns, Absent
  <1>4. RecordTimes'
    BY <1>0 DEF AuthInv, AuthTypeOK, CallRecord, RecordTimes, StaleIsOver, RedisFails, RedisReturns, Absent
  <1>5. PassedIsRecorded'
    BY <1>0 DEF AuthInv, AuthTypeOK, CallRecord, PassedIsRecorded, KeptInRedis, KeptLocally, CallTimes, Timely, Decoded, Passed, RedisFails, RedisReturns, Absent
  <1>6. NothingSeenAfter'
    BY <1>0 DEF AuthInv, AuthTypeOK, CallRecord, NothingSeenAfter, RedisFails, RedisReturns, Absent
  <1>7. OneStore'
    BY <1>0 DEF AuthInv, AuthTypeOK, CallRecord, OneStore, Replay, Passed, RedisFails, RedisReturns, Absent
  <1>8. Closed'
    BY <1>0 DEF AuthInv, AuthTypeOK, CallRecord, Closed, RedisFails, RedisReturns, Absent
  <1> QED
    BY <1>1, <1>2, <1>3, <1>4, <1>5, <1>6, <1>7, <1>8 DEF AuthInv


\* Time passes, but not for longer than a call takes.
LEMMA TickStep ==
    ASSUME AuthInv, Tick
    PROVE  AuthInv'
  <1>0. /\ clock \in Nat /\ issued \in [Token -> 0..Never] /\ Never \in Nat /\ RecordLife \in Nat
        /\ TokenLife \in Nat \ {0} /\ SlowestCall \in Nat /\ MaxClock \in Nat
        /\ \A d \in Call : call[d] \in CallRecord
    BY AuthAssumption DEF AuthInv, AuthTypeOK, Never, CallRecord
  <1>1. AuthTypeOK'
    BY <1>0 DEF AuthInv, AuthTypeOK, CallRecord, Tick
  <1>2. CallTimes'
    BY <1>0 DEF AuthInv, AuthTypeOK, CallRecord, CallTimes, Timely, Decoded, Running, Passed, Tick
  <1>3. IssuedEarlier'
    BY <1>0 DEF AuthInv, AuthTypeOK, CallRecord, IssuedEarlier, Tick
  <1>4. RecordTimes'
    BY <1>0 DEF AuthInv, AuthTypeOK, CallRecord, RecordTimes, StaleIsOver, Tick
  <1>5. PassedIsRecorded'
    BY <1>0 DEF AuthInv, AuthTypeOK, CallRecord, PassedIsRecorded, KeptInRedis, KeptLocally, CallTimes, Timely, Decoded, Passed, Tick
  <1>6. NothingSeenAfter'
    BY <1>0 DEF AuthInv, AuthTypeOK, CallRecord, NothingSeenAfter, Tick
  <1>7. OneStore'
    BY <1>0 DEF AuthInv, AuthTypeOK, CallRecord, OneStore, Replay, Passed, Tick
  <1>8. Closed'
    BY <1>0 DEF AuthInv, AuthTypeOK, CallRecord, Closed, Tick
  <1> QED
    BY <1>1, <1>2, <1>3, <1>4, <1>5, <1>6, <1>7, <1>8 DEF AuthInv


CallPc == {"idle", "purge", "store", "lookup", "record", "context", "expired", "error",
           "replayed", "unavailable", "accepted", "mismatch"}

\* What a call may hold after it has been given a new state.
LEMMA CallSet ==
    ASSUME AuthTypeOK, NEW c \in Call, NEW r \in CallRecord, SetCall(c, r)
    PROVE  /\ call' \in [Call -> CallRecord] /\ call'[c] = r
           /\ \A d \in Call : d # c => call'[d] = call[d]
  BY DEF AuthTypeOK, CallRecord, SetCall


\* A call that passed ends.
LEMMA ContextStep ==
    ASSUME AuthInv, NEW c \in Call, Context(c)
    PROVE  AuthInv'
  <1>0. /\ clock \in Nat /\ issued \in [Token -> 0..Never] /\ Never \in Nat /\ RecordLife \in Nat
        /\ TokenLife \in Nat \ {0} /\ SlowestCall \in Nat /\ MaxClock \in Nat
        /\ \A d \in Call : call[d] \in CallRecord
    BY AuthAssumption DEF AuthInv, AuthTypeOK, Never, CallRecord
  <1>a. /\ call[c].pc = "context"
        /\ call[c].token \in Token /\ call[c].worker \in Worker
        /\ call[c].now \in Nat /\ call[c] \in CallRecord
    BY <1>0 DEF Context, AuthInv, CallTimes, Timely, Decoded, Running, Passed, CallRecord
  <1>b. /\ call' \in [Call -> CallRecord]
        /\ \A d \in Call : d # c => call'[d] = call[d]
        /\ call'[c].pc \in {"accepted", "mismatch"}
        /\ call'[c].token = call[c].token
        /\ call'[c].worker = call[c].worker
        /\ call'[c].now = call[c].now
        /\ call'[c].stale = call[c].stale
        /\ call'[c].via = call[c].via
        /\ call'[c].epoch = call[c].epoch
        /\ call'[c].after = call[c].after
    <2>1. PICK p \in {"accepted", "mismatch"} : SetCall(c, [call[c] EXCEPT !.pc = p])
      BY <1>a DEF Context, End
    <2>2. /\ p \in CallPc /\ redis.epoch \in {0, 1}
          /\ call[c] \in CallRecord
      BY <1>0 DEF CallPc, AuthInv, AuthTypeOK
    <2>3. [call[c] EXCEPT !.pc = p] \in CallRecord
      BY <2>2 DEF CallRecord, CallPc
    <2>4. /\ call' \in [Call -> CallRecord] /\ call'[c] = [call[c] EXCEPT !.pc = p]
          /\ \A d \in Call : d # c => call'[d] = call[d]
      BY <2>1, <2>3, CallSet DEF AuthInv
    <2> QED
      BY <2>2, <2>4 DEF CallRecord
  <1>c. /\ env' = env /\ clock' = clock /\ issued' = issued
        /\ redis' = redis /\ local' = local
    BY DEF Context
  <1>1. AuthTypeOK'
    BY <1>b, <1>c DEF AuthInv, AuthTypeOK, CallRecord
  <1>2. CallTimes'
    <2> SUFFICES ASSUME NEW d \in Call PROVE Timely(d)'
      BY DEF CallTimes
    <2>1. CASE d # c
      BY <1>b, <1>c, <2>1 DEF AuthInv, CallTimes, Timely, Decoded, Running, Passed
    <2>2. CASE d = c
      BY <1>0, <1>a, <1>b, <1>c, <2>2 DEF AuthInv, CallTimes, Timely, Decoded, Running, Passed
    <2> QED
      BY <2>1, <2>2
  <1>3. IssuedEarlier'
    BY <1>c DEF AuthInv, IssuedEarlier
  <1>4. RecordTimes'
    <2>1. /\ \A t \in Token : redis.record[t] # Absent => redis.record[t] >= issued[t] + RecordLife
          /\ \A w \in Worker, t \in Token :
                local[w][t] # Absent => local[w][t] >= issued[t] + RecordLife
      BY DEF AuthInv, RecordTimes
    <2>2. \A t \in Token : redis'.record[t] # Absent => redis'.record[t] >= issued[t] + RecordLife
      BY <1>0, <1>a, <1>c, <2>1
    <2>3. \A w \in Worker, t \in Token :
             local'[w][t] # Absent => local'[w][t] >= issued[t] + RecordLife
      BY <1>0, <1>a, <1>c, <2>1
    <2>4. ASSUME NEW d \in Call PROVE StaleIsOver(d)'
      <3>1. CASE d # c
        BY <1>b, <1>c, <3>1 DEF AuthInv, RecordTimes, StaleIsOver
      <3>2. CASE d = c
        BY <1>0, <1>a, <1>b, <1>c, <3>2, <2>1 DEF StaleIsOver
      <3> QED
        BY <3>1, <3>2
    <2> QED
      BY <1>c, <2>2, <2>3, <2>4 DEF RecordTimes
  <1>5. PassedIsRecorded'
    <2> SUFFICES ASSUME NEW d \in Call PROVE KeptInRedis(d)' /\ KeptLocally(d)'
      BY DEF PassedIsRecorded
    <2>0. /\ KeptInRedis(d) /\ KeptLocally(d) /\ Timely(d)
          /\ Passed(d) => call[d].token \in Token /\ call[d].worker \in Worker
      BY DEF AuthInv, PassedIsRecorded, CallTimes, Timely
    <2>1. KeptInRedis(d)'
      <3>1. CASE d # c
        BY <1>0, <1>a, <1>b, <1>c, <2>0, <3>1 DEF KeptInRedis, Passed
      <3>2. CASE d = c
        BY <1>0, <1>a, <1>b, <1>c, <2>0, <3>2 DEF KeptInRedis, Passed
      <3> QED
        BY <3>1, <3>2
    <2>2. KeptLocally(d)'
      <3>1. CASE d # c
        <4> SUFFICES ASSUME call[d].via = "local" PROVE KeptLocally(d)'
          BY <1>b, <3>1 DEF KeptLocally
        <4>1. /\ call[d].token \in Token /\ call[d].worker \in Worker
              /\ issued[call[d].token] \in Nat
          BY <1>0, <2>0 DEF Passed
        <4>2. \/ local'[call[d].worker][call[d].token] # Absent
              \/ clock > issued[call[d].token] + RecordLife
          BY <1>0, <1>a, <1>c, <2>0, <4>1 DEF KeptLocally
        <4> QED
          BY <1>b, <1>c, <3>1, <4>2 DEF KeptLocally
      <3>2. CASE d = c
        BY <1>0, <1>a, <1>b, <1>c, <2>0, <3>2 DEF KeptLocally, Passed
      <3> QED
        BY <3>1, <3>2
    <2> QED
      BY <2>1, <2>2
  <1>6. NothingSeenAfter'
    BY <1>a, <1>b DEF AuthInv, NothingSeenAfter
  <1>7. OneStore'
    <2> SUFFICES ASSUME NEW d \in Call, NEW e \in Call, Replay(d, e)',
                        call'[d].via = "redis", call'[e].via = "redis"
                 PROVE  call'[d].epoch # call'[e].epoch
      BY DEF OneStore
    <2> QED
      BY <1>a, <1>b DEF AuthInv, OneStore, Replay, Passed
  <1>8. Closed'
    BY <1>a, <1>b, <1>c DEF AuthInv, Closed
  <1> QED
    BY <1>1, <1>2, <1>3, <1>4, <1>5, <1>6, <1>7, <1>8 DEF AuthInv


\* A token found new in a dictionary has not passed there before.
LEMMA LookupStep ==
    ASSUME AuthInv, NEW c \in Call, Lookup(c)
    PROVE  AuthInv'
  <1>0. /\ clock \in Nat /\ issued \in [Token -> 0..Never] /\ Never \in Nat /\ RecordLife \in Nat
        /\ TokenLife \in Nat \ {0} /\ SlowestCall \in Nat /\ MaxClock \in Nat
        /\ \A d \in Call : call[d] \in CallRecord
    BY AuthAssumption DEF AuthInv, AuthTypeOK, Never, CallRecord
  <1>a. /\ call[c].pc = "lookup"
        /\ call[c].token \in Token /\ call[c].worker \in Worker
        /\ call[c].now \in Nat /\ call[c] \in CallRecord
        /\ call[c].via = "none"
        /\ issued[call[c].token] \in Nat
        /\ clock < issued[call[c].token] + RecordLife
        /\ LocallyPassed(call[c].token, call[c].worker) \subseteq Call
        /\ local[call[c].worker][call[c].token] = Absent => LocallyPassed(call[c].token, call[c].worker) = {}
    <2>1. /\ call[c].pc = "lookup" /\ Running(c)
      BY DEF Lookup, Running
    <2>2. /\ call[c].token \in Token /\ call[c].worker \in Worker
          /\ issued[call[c].token] \in Nat /\ clock < issued[call[c].token] + RecordLife
      BY <2>1, RunningIsRecent
    <2>3. call[c].via = "none"
      BY <1>0, <2>1 DEF AuthInv, CallTimes, Timely, Passed
    <2>4. ASSUME local[call[c].worker][call[c].token] = Absent,
                 NEW d \in LocallyPassed(call[c].token, call[c].worker)
          PROVE  FALSE
      <3>1. d \in Call /\ call[d].via = "local"
            /\ call[d].token = call[c].token /\ call[d].worker = call[c].worker
        BY DEF LocallyPassed
      <3>2. KeptLocally(d)
        BY <3>1 DEF AuthInv, PassedIsRecorded
      <3> QED
        BY <1>0, <2>2, <2>4, <3>1, <3>2 DEF KeptLocally
    <2>5. call[c].now \in Nat /\ call[c] \in CallRecord
      BY <1>0 DEF CallRecord
    <2> QED
      BY <2>1, <2>2, <2>3, <2>4, <2>5 DEF LocallyPassed
  <1>b. /\ call' \in [Call -> CallRecord]
        /\ \A d \in Call : d # c => call'[d] = call[d]
        /\ call'[c].pc \in {"replayed", "record"}
        /\ call'[c].after = {}
        /\ call'[c].token = call[c].token
        /\ call'[c].worker = call[c].worker
        /\ call'[c].now = call[c].now
        /\ call'[c].stale = call[c].stale
        /\ call'[c].via = call[c].via
        /\ call'[c].epoch = call[c].epoch
    <2>1. call[c].after = {}
      BY DEF AuthInv, NothingSeenAfter
    <2>2. PICK p \in {"replayed", "record"} : SetCall(c, [call[c] EXCEPT !.pc = p, !.after = {}])
      <3>1. [call[c] EXCEPT !.pc = "replayed"] = [call[c] EXCEPT !.pc = "replayed", !.after = {}]
        BY <1>0, <2>1 DEF CallRecord
      <3> QED
        BY <1>a, <3>1 DEF Lookup, End
    <2>3. [call[c] EXCEPT !.pc = p, !.after = {}] \in CallRecord
      BY <1>0 DEF CallRecord
    <2>4. /\ call' \in [Call -> CallRecord]
          /\ call'[c] = [call[c] EXCEPT !.pc = p, !.after = {}]
          /\ \A d \in Call : d # c => call'[d] = call[d]
      BY <2>2, <2>3, CallSet DEF AuthInv
    <2> QED
      BY <1>0, <2>4 DEF CallRecord
  <1>c. /\ env' = env /\ clock' = clock /\ issued' = issued
        /\ redis' = redis /\ local' = local
    BY DEF Lookup
  <1>1. AuthTypeOK'
    BY <1>b, <1>c DEF AuthInv, AuthTypeOK, CallRecord
  <1>2. CallTimes'
    <2> SUFFICES ASSUME NEW d \in Call PROVE Timely(d)'
      BY DEF CallTimes
    <2>1. CASE d # c
      BY <1>b, <1>c, <2>1 DEF AuthInv, CallTimes, Timely, Decoded, Running, Passed
    <2>2. CASE d = c
      BY <1>0, <1>a, <1>b, <1>c, <2>2 DEF AuthInv, CallTimes, Timely, Decoded, Running, Passed
    <2> QED
      BY <2>1, <2>2
  <1>3. IssuedEarlier'
    BY <1>c DEF AuthInv, IssuedEarlier
  <1>4. RecordTimes'
    <2>1. /\ \A t \in Token : redis.record[t] # Absent => redis.record[t] >= issued[t] + RecordLife
          /\ \A w \in Worker, t \in Token :
                local[w][t] # Absent => local[w][t] >= issued[t] + RecordLife
      BY DEF AuthInv, RecordTimes
    <2>2. \A t \in Token : redis'.record[t] # Absent => redis'.record[t] >= issued[t] + RecordLife
      BY <1>0, <1>a, <1>c, <2>1
    <2>3. \A w \in Worker, t \in Token :
             local'[w][t] # Absent => local'[w][t] >= issued[t] + RecordLife
      BY <1>0, <1>a, <1>c, <2>1
    <2>4. ASSUME NEW d \in Call PROVE StaleIsOver(d)'
      <3>1. CASE d # c
        BY <1>b, <1>c, <3>1 DEF AuthInv, RecordTimes, StaleIsOver
      <3>2. CASE d = c
        BY <1>0, <1>a, <1>b, <1>c, <3>2, <2>1 DEF StaleIsOver
      <3> QED
        BY <3>1, <3>2
    <2> QED
      BY <1>c, <2>2, <2>3, <2>4 DEF RecordTimes
  <1>5. PassedIsRecorded'
    <2> SUFFICES ASSUME NEW d \in Call PROVE KeptInRedis(d)' /\ KeptLocally(d)'
      BY DEF PassedIsRecorded
    <2>0. /\ KeptInRedis(d) /\ KeptLocally(d) /\ Timely(d)
          /\ Passed(d) => call[d].token \in Token /\ call[d].worker \in Worker
      BY DEF AuthInv, PassedIsRecorded, CallTimes, Timely
    <2>1. KeptInRedis(d)'
      <3>1. CASE d # c
        BY <1>0, <1>a, <1>b, <1>c, <2>0, <3>1 DEF KeptInRedis, Passed
      <3>2. CASE d = c
        BY <1>0, <1>a, <1>b, <1>c, <2>0, <3>2 DEF KeptInRedis, Passed
      <3> QED
        BY <3>1, <3>2
    <2>2. KeptLocally(d)'
      <3>1. CASE d # c
        <4> SUFFICES ASSUME call[d].via = "local" PROVE KeptLocally(d)'
          BY <1>b, <3>1 DEF KeptLocally
        <4>1. /\ call[d].token \in Token /\ call[d].worker \in Worker
              /\ issued[call[d].token] \in Nat
          BY <1>0, <2>0 DEF Passed
        <4>2. \/ local'[call[d].worker][call[d].token] # Absent
              \/ clock > issued[call[d].token] + RecordLife
          BY <1>0, <1>a, <1>c, <2>0, <4>1 DEF KeptLocally
        <4> QED
          BY <1>b, <1>c, <3>1, <4>2 DEF KeptLocally
      <3>2. CASE d = c
        BY <1>0, <1>a, <1>b, <1>c, <2>0, <3>2 DEF KeptLocally, Passed
      <3> QED
        BY <3>1, <3>2
    <2> QED
      BY <2>1, <2>2
  <1>6. NothingSeenAfter'
    BY <1>a, <1>b DEF AuthInv, NothingSeenAfter
  <1>7. OneStore'
    <2> SUFFICES ASSUME NEW d \in Call, NEW e \in Call, Replay(d, e)',
                        call'[d].via = "redis", call'[e].via = "redis"
                 PROVE  call'[d].epoch # call'[e].epoch
      BY DEF OneStore
    <2> QED
      BY <1>a, <1>b DEF AuthInv, OneStore, Replay, Passed
  <1>8. Closed'
    BY <1>a, <1>b, <1>c DEF AuthInv, Closed
  <1> QED
    BY <1>1, <1>2, <1>3, <1>4, <1>5, <1>6, <1>7, <1>8 DEF AuthInv


\* A dictionary's record outlives the token it is about.
LEMMA RecordStep ==
    ASSUME AuthInv, NEW c \in Call, Record(c)
    PROVE  AuthInv'
  <1>0. /\ clock \in Nat /\ issued \in [Token -> 0..Never] /\ Never \in Nat /\ RecordLife \in Nat
        /\ TokenLife \in Nat \ {0} /\ SlowestCall \in Nat /\ MaxClock \in Nat
        /\ \A d \in Call : call[d] \in CallRecord
    BY AuthAssumption DEF AuthInv, AuthTypeOK, Never, CallRecord
  <1>a. /\ call[c].pc = "record"
        /\ call[c].token \in Token /\ call[c].worker \in Worker
        /\ call[c].now \in Nat /\ call[c] \in CallRecord
        /\ call[c].via = "none"
        /\ issued[call[c].token] \in Nat
        /\ clock < issued[call[c].token] + RecordLife
    BY <1>0, RunningIsRecent DEF Record, AuthInv, CallTimes, Timely, Decoded, Running, Passed, CallRecord
  <1>b. /\ call' \in [Call -> CallRecord]
        /\ \A d \in Call : d # c => call'[d] = call[d]
        /\ call'[c].pc = "context"
        /\ call'[c].via = "local"
        /\ call'[c].token = call[c].token
        /\ call'[c].worker = call[c].worker
        /\ call'[c].now = call[c].now
        /\ call'[c].stale = call[c].stale
        /\ call'[c].epoch = call[c].epoch
        /\ call'[c].after = call[c].after
    BY <1>0, <1>a DEF Record, SetCall, AuthInv, AuthTypeOK, CallRecord
  <1>c. /\ env' = env /\ clock' = clock /\ issued' = issued
        /\ redis' = redis
        /\ local' \in [Worker -> [Token -> Nat]]
        /\ \A w \in Worker, t \in Token : \/ local'[w][t] = local[w][t]
                                          \/ /\ w = call[c].worker /\ t = call[c].token
                                             /\ local'[w][t] = call[c].now + RecordLife
        /\ local'[call[c].worker][call[c].token] = call[c].now + RecordLife
        /\ issued[call[c].token] <= call[c].now
        /\ Absent = 0 /\ RecordLife > 0
    BY <1>0, <1>a, AuthAssumption DEF Record, Expiry, Absent, AuthInv, AuthTypeOK, CallTimes, Timely, Decoded
  <1>1. AuthTypeOK'
    BY <1>b, <1>c DEF AuthInv, AuthTypeOK, CallRecord
  <1>2. CallTimes'
    <2> SUFFICES ASSUME NEW d \in Call PROVE Timely(d)'
      BY DEF CallTimes
    <2>1. CASE d # c
      BY <1>b, <1>c, <2>1 DEF AuthInv, CallTimes, Timely, Decoded, Running, Passed
    <2>2. CASE d = c
      BY <1>0, <1>a, <1>b, <1>c, <2>2 DEF AuthInv, CallTimes, Timely, Decoded, Running, Passed
    <2> QED
      BY <2>1, <2>2
  <1>3. IssuedEarlier'
    BY <1>c DEF AuthInv, IssuedEarlier
  <1>4. RecordTimes'
    <2>1. /\ \A t \in Token : redis.record[t] # Absent => redis.record[t] >= issued[t] + RecordLife
          /\ \A w \in Worker, t \in Token :
                local[w][t] # Absent => local[w][t] >= issued[t] + RecordLife
      BY DEF AuthInv, RecordTimes
    <2>2. \A t \in Token : redis'.record[t] # Absent => redis'.record[t] >= issued[t] + RecordLife
      BY <1>0, <1>a, <1>c, <2>1
    <2>3. \A w \in Worker, t \in Token :
             local'[w][t] # Absent => local'[w][t] >= issued[t] + RecordLife
      BY <1>0, <1>a, <1>c, <2>1
    <2>4. ASSUME NEW d \in Call PROVE StaleIsOver(d)'
      <3>1. CASE d # c
        BY <1>b, <1>c, <3>1 DEF AuthInv, RecordTimes, StaleIsOver
      <3>2. CASE d = c
        BY <1>0, <1>a, <1>b, <1>c, <3>2, <2>1 DEF StaleIsOver
      <3> QED
        BY <3>1, <3>2
    <2> QED
      BY <1>c, <2>2, <2>3, <2>4 DEF RecordTimes
  <1>5. PassedIsRecorded'
    <2> SUFFICES ASSUME NEW d \in Call PROVE KeptInRedis(d)' /\ KeptLocally(d)'
      BY DEF PassedIsRecorded
    <2>0. /\ KeptInRedis(d) /\ KeptLocally(d) /\ Timely(d)
          /\ Passed(d) => call[d].token \in Token /\ call[d].worker \in Worker
      BY DEF AuthInv, PassedIsRecorded, CallTimes, Timely
    <2>1. KeptInRedis(d)'
      <3>1. CASE d # c
        BY <1>0, <1>a, <1>b, <1>c, <2>0, <3>1 DEF KeptInRedis, Passed
      <3>2. CASE d = c
        BY <1>0, <1>a, <1>b, <1>c, <2>0, <3>2 DEF KeptInRedis, Passed
      <3> QED
        BY <3>1, <3>2
    <2>2. KeptLocally(d)'
      <3>1. CASE d # c
        <4> SUFFICES ASSUME call[d].via = "local" PROVE KeptLocally(d)'
          BY <1>b, <3>1 DEF KeptLocally
        <4>1. /\ call[d].token \in Token /\ call[d].worker \in Worker
              /\ issued[call[d].token] \in Nat
          BY <1>0, <2>0 DEF Passed
        <4>2. \/ local'[call[d].worker][call[d].token] # Absent
              \/ clock > issued[call[d].token] + RecordLife
          BY <1>0, <1>a, <1>c, <2>0, <4>1 DEF KeptLocally
        <4> QED
          BY <1>b, <1>c, <3>1, <4>2 DEF KeptLocally
      <3>2. CASE d = c
        BY <1>0, <1>a, <1>b, <1>c, <2>0, <3>2 DEF KeptLocally, Passed
      <3> QED
        BY <3>1, <3>2
    <2> QED
      BY <2>1, <2>2
  <1>6. NothingSeenAfter'
    BY <1>a, <1>b DEF AuthInv, NothingSeenAfter
  <1>7. OneStore'
    <2> SUFFICES ASSUME NEW d \in Call, NEW e \in Call, Replay(d, e)',
                        call'[d].via = "redis", call'[e].via = "redis"
                 PROVE  call'[d].epoch # call'[e].epoch
      BY DEF OneStore
    <2> QED
      BY <1>a, <1>b DEF AuthInv, OneStore, Replay, Passed
  <1>8. Closed'
    BY <1>a, <1>b, <1>c DEF AuthInv, Closed
  <1> QED
    BY <1>1, <1>2, <1>3, <1>4, <1>5, <1>6, <1>7, <1>8 DEF AuthInv


\* A token whose identifier Redis holds is refused.
LEMMA ReplayedStep ==
    ASSUME AuthInv, NEW c \in Call, StoreRedis(c), Recorded(call[c].token)
    PROVE  AuthInv'
  <1>0. /\ clock \in Nat /\ issued \in [Token -> 0..Never] /\ Never \in Nat /\ RecordLife \in Nat
        /\ TokenLife \in Nat \ {0} /\ SlowestCall \in Nat /\ MaxClock \in Nat
        /\ \A d \in Call : call[d] \in CallRecord
    BY AuthAssumption DEF AuthInv, AuthTypeOK, Never, CallRecord
  <1>a. /\ call[c].pc = "store"
        /\ call[c].token \in Token /\ call[c].worker \in Worker
        /\ call[c].now \in Nat /\ call[c] \in CallRecord
        /\ call[c].via = "none"
        /\ issued[call[c].token] \in Nat
        /\ clock < issued[call[c].token] + RecordLife
    BY <1>0, RunningIsRecent DEF StoreRedis, AuthInv, CallTimes, Timely, Decoded, Running, Passed, CallRecord
  <1>b. /\ call' \in [Call -> CallRecord]
        /\ \A d \in Call : d # c => call'[d] = call[d]
        /\ call'[c].pc = "replayed"
        /\ call'[c].token = call[c].token
        /\ call'[c].worker = call[c].worker
        /\ call'[c].now = call[c].now
        /\ call'[c].stale = call[c].stale
        /\ call'[c].via = call[c].via
        /\ call'[c].epoch = call[c].epoch
        /\ call'[c].after = call[c].after
    <2>1. PICK p \in {"replayed"} : SetCall(c, [call[c] EXCEPT !.pc = p])
      BY <1>a DEF StoreRedis, End
    <2>2. /\ p \in CallPc /\ redis.epoch \in {0, 1}
          /\ call[c] \in CallRecord
      BY <1>0 DEF CallPc, AuthInv, AuthTypeOK
    <2>3. [call[c] EXCEPT !.pc = p] \in CallRecord
      BY <2>2 DEF CallRecord, CallPc
    <2>4. /\ call' \in [Call -> CallRecord] /\ call'[c] = [call[c] EXCEPT !.pc = p]
          /\ \A d \in Call : d # c => call'[d] = call[d]
      BY <2>1, <2>3, CallSet DEF AuthInv
    <2> QED
      BY <2>2, <2>4 DEF CallRecord
  <1>c. /\ env' = env /\ clock' = clock /\ issued' = issued
        /\ redis' = redis /\ local' = local
    BY DEF StoreRedis
  <1>1. AuthTypeOK'
    BY <1>b, <1>c DEF AuthInv, AuthTypeOK, CallRecord
  <1>2. CallTimes'
    <2> SUFFICES ASSUME NEW d \in Call PROVE Timely(d)'
      BY DEF CallTimes
    <2>1. CASE d # c
      BY <1>b, <1>c, <2>1 DEF AuthInv, CallTimes, Timely, Decoded, Running, Passed
    <2>2. CASE d = c
      BY <1>0, <1>a, <1>b, <1>c, <2>2 DEF AuthInv, CallTimes, Timely, Decoded, Running, Passed
    <2> QED
      BY <2>1, <2>2
  <1>3. IssuedEarlier'
    BY <1>c DEF AuthInv, IssuedEarlier
  <1>4. RecordTimes'
    <2>1. /\ \A t \in Token : redis.record[t] # Absent => redis.record[t] >= issued[t] + RecordLife
          /\ \A w \in Worker, t \in Token :
                local[w][t] # Absent => local[w][t] >= issued[t] + RecordLife
      BY DEF AuthInv, RecordTimes
    <2>2. \A t \in Token : redis'.record[t] # Absent => redis'.record[t] >= issued[t] + RecordLife
      BY <1>0, <1>a, <1>c, <2>1
    <2>3. \A w \in Worker, t \in Token :
             local'[w][t] # Absent => local'[w][t] >= issued[t] + RecordLife
      BY <1>0, <1>a, <1>c, <2>1
    <2>4. ASSUME NEW d \in Call PROVE StaleIsOver(d)'
      <3>1. CASE d # c
        BY <1>b, <1>c, <3>1 DEF AuthInv, RecordTimes, StaleIsOver
      <3>2. CASE d = c
        BY <1>0, <1>a, <1>b, <1>c, <3>2, <2>1 DEF StaleIsOver
      <3> QED
        BY <3>1, <3>2
    <2> QED
      BY <1>c, <2>2, <2>3, <2>4 DEF RecordTimes
  <1>5. PassedIsRecorded'
    <2> SUFFICES ASSUME NEW d \in Call PROVE KeptInRedis(d)' /\ KeptLocally(d)'
      BY DEF PassedIsRecorded
    <2>0. /\ KeptInRedis(d) /\ KeptLocally(d) /\ Timely(d)
          /\ Passed(d) => call[d].token \in Token /\ call[d].worker \in Worker
      BY DEF AuthInv, PassedIsRecorded, CallTimes, Timely
    <2>1. KeptInRedis(d)'
      <3>1. CASE d # c
        BY <1>0, <1>a, <1>b, <1>c, <2>0, <3>1 DEF KeptInRedis, Passed
      <3>2. CASE d = c
        BY <1>0, <1>a, <1>b, <1>c, <2>0, <3>2 DEF KeptInRedis, Passed
      <3> QED
        BY <3>1, <3>2
    <2>2. KeptLocally(d)'
      <3>1. CASE d # c
        <4> SUFFICES ASSUME call[d].via = "local" PROVE KeptLocally(d)'
          BY <1>b, <3>1 DEF KeptLocally
        <4>1. /\ call[d].token \in Token /\ call[d].worker \in Worker
              /\ issued[call[d].token] \in Nat
          BY <1>0, <2>0 DEF Passed
        <4>2. \/ local'[call[d].worker][call[d].token] # Absent
              \/ clock > issued[call[d].token] + RecordLife
          BY <1>0, <1>a, <1>c, <2>0, <4>1 DEF KeptLocally
        <4> QED
          BY <1>b, <1>c, <3>1, <4>2 DEF KeptLocally
      <3>2. CASE d = c
        BY <1>0, <1>a, <1>b, <1>c, <2>0, <3>2 DEF KeptLocally, Passed
      <3> QED
        BY <3>1, <3>2
    <2> QED
      BY <2>1, <2>2
  <1>6. NothingSeenAfter'
    BY <1>a, <1>b DEF AuthInv, NothingSeenAfter
  <1>7. OneStore'
    <2> SUFFICES ASSUME NEW d \in Call, NEW e \in Call, Replay(d, e)',
                        call'[d].via = "redis", call'[e].via = "redis"
                 PROVE  call'[d].epoch # call'[e].epoch
      BY DEF OneStore
    <2> QED
      BY <1>a, <1>b DEF AuthInv, OneStore, Replay, Passed
  <1>8. Closed'
    BY <1>a, <1>b, <1>c DEF AuthInv, Closed
  <1> QED
    BY <1>1, <1>2, <1>3, <1>4, <1>5, <1>6, <1>7, <1>8 DEF AuthInv


\* A token found new in Redis has not passed there since Redis lost its data.
LEMMA NewTokenStep ==
    ASSUME AuthInv, NEW c \in Call, StoreRedis(c), ~Recorded(call[c].token)
    PROVE  AuthInv'
  <1>0. /\ clock \in Nat /\ issued \in [Token -> 0..Never] /\ Never \in Nat /\ RecordLife \in Nat
        /\ TokenLife \in Nat \ {0} /\ SlowestCall \in Nat /\ MaxClock \in Nat
        /\ \A d \in Call : call[d] \in CallRecord
    BY AuthAssumption DEF AuthInv, AuthTypeOK, Never, CallRecord
  <1>a. /\ call[c].pc = "store"
        /\ call[c].token \in Token /\ call[c].worker \in Worker
        /\ call[c].now \in Nat /\ call[c] \in CallRecord
        /\ call[c].via = "none"
        /\ issued[call[c].token] \in Nat
        /\ clock < issued[call[c].token] + RecordLife
    BY <1>0, RunningIsRecent DEF StoreRedis, AuthInv, CallTimes, Timely, Decoded, Running, Passed, CallRecord
  <1>b. /\ call' \in [Call -> CallRecord]
        /\ \A d \in Call : d # c => call'[d] = call[d]
        /\ call'[c].pc = "context"
        /\ call'[c].via = "redis"
        /\ call'[c].epoch = redis.epoch
        /\ call'[c].token = call[c].token
        /\ call'[c].worker = call[c].worker
        /\ call'[c].now = call[c].now
        /\ call'[c].stale = call[c].stale
        /\ call'[c].after = call[c].after
    <2>1. PICK p \in {"context"} : SetCall(c, [call[c] EXCEPT !.pc = p, !.via = "redis", !.epoch = redis.epoch])
      BY <1>a DEF StoreRedis, End
    <2>2. /\ p \in CallPc /\ redis.epoch \in {0, 1}
          /\ call[c] \in CallRecord
      BY <1>0 DEF CallPc, AuthInv, AuthTypeOK
    <2>3. [call[c] EXCEPT !.pc = p, !.via = "redis", !.epoch = redis.epoch] \in CallRecord
      BY <2>2 DEF CallRecord, CallPc
    <2>4. /\ call' \in [Call -> CallRecord] /\ call'[c] = [call[c] EXCEPT !.pc = p, !.via = "redis", !.epoch = redis.epoch]
          /\ \A d \in Call : d # c => call'[d] = call[d]
      BY <2>1, <2>3, CallSet DEF AuthInv
    <2> QED
      BY <2>2, <2>4 DEF CallRecord
  <1>c. /\ env' = env /\ clock' = clock /\ issued' = issued
        /\ redis'.epoch = redis.epoch /\ local' = local
        /\ redis' \in [up : BOOLEAN, epoch : {0, 1}, record : [Token -> Nat]]
        /\ \A t \in Token : t # call[c].token => redis'.record[t] = redis.record[t]
        /\ redis'.record[call[c].token] = clock + RecordLife
        /\ issued[call[c].token] <= clock
        /\ Absent = 0 /\ RecordLife > 0
        /\ redis.epoch \in {0, 1}
    <2>1. redis' = [redis EXCEPT !.record[call[c].token] = clock + RecordLife]
      BY DEF StoreRedis, Expiry
    <2>2. redis \in [up : BOOLEAN, epoch : {0, 1}, record : [Token -> Nat]]
      BY DEF AuthInv, AuthTypeOK
    <2>3. Absent = 0 /\ RecordLife > 0
      BY <1>0, AuthAssumption DEF Absent
    <2>4. issued[call[c].token] <= clock
      BY <1>0, <1>a DEF AuthInv, CallTimes, Timely, Decoded
    <2>5. env' = env /\ clock' = clock /\ issued' = issued /\ local' = local
      BY DEF StoreRedis
    <2> QED
      BY <1>0, <1>a, <2>1, <2>2, <2>3, <2>4, <2>5
  <1>1. AuthTypeOK'
    BY <1>b, <1>c DEF AuthInv, AuthTypeOK, CallRecord
  <1>2. CallTimes'
    <2> SUFFICES ASSUME NEW d \in Call PROVE Timely(d)'
      BY DEF CallTimes
    <2>1. CASE d # c
      BY <1>b, <1>c, <2>1 DEF AuthInv, CallTimes, Timely, Decoded, Running, Passed
    <2>2. CASE d = c
      BY <1>0, <1>a, <1>b, <1>c, <2>2 DEF AuthInv, CallTimes, Timely, Decoded, Running, Passed
    <2> QED
      BY <2>1, <2>2
  <1>3. IssuedEarlier'
    BY <1>c DEF AuthInv, IssuedEarlier
  <1>4. RecordTimes'
    <2>1. /\ \A t \in Token : redis.record[t] # Absent => redis.record[t] >= issued[t] + RecordLife
          /\ \A w \in Worker, t \in Token :
                local[w][t] # Absent => local[w][t] >= issued[t] + RecordLife
      BY DEF AuthInv, RecordTimes
    <2>2. \A t \in Token : redis'.record[t] # Absent => redis'.record[t] >= issued[t] + RecordLife
      BY <1>0, <1>a, <1>c, <2>1
    <2>3. \A w \in Worker, t \in Token :
             local'[w][t] # Absent => local'[w][t] >= issued[t] + RecordLife
      BY <1>0, <1>a, <1>c, <2>1
    <2>4. ASSUME NEW d \in Call PROVE StaleIsOver(d)'
      <3>1. CASE d # c
        BY <1>b, <1>c, <3>1 DEF AuthInv, RecordTimes, StaleIsOver
      <3>2. CASE d = c
        BY <1>0, <1>a, <1>b, <1>c, <3>2, <2>1 DEF StaleIsOver
      <3> QED
        BY <3>1, <3>2
    <2> QED
      BY <1>c, <2>2, <2>3, <2>4 DEF RecordTimes
  <1>5. PassedIsRecorded'
    <2> SUFFICES ASSUME NEW d \in Call PROVE KeptInRedis(d)' /\ KeptLocally(d)'
      BY DEF PassedIsRecorded
    <2>0. /\ KeptInRedis(d) /\ KeptLocally(d) /\ Timely(d)
          /\ Passed(d) => call[d].token \in Token /\ call[d].worker \in Worker
      BY DEF AuthInv, PassedIsRecorded, CallTimes, Timely
    <2>1. KeptInRedis(d)'
      <3>1. CASE d # c
        BY <1>0, <1>a, <1>b, <1>c, <2>0, <3>1 DEF KeptInRedis, Passed
      <3>2. CASE d = c
        BY <1>0, <1>a, <1>b, <1>c, <2>0, <3>2 DEF KeptInRedis, Passed
      <3> QED
        BY <3>1, <3>2
    <2>2. KeptLocally(d)'
      <3>1. CASE d # c
        <4> SUFFICES ASSUME call[d].via = "local" PROVE KeptLocally(d)'
          BY <1>b, <3>1 DEF KeptLocally
        <4>1. /\ call[d].token \in Token /\ call[d].worker \in Worker
              /\ issued[call[d].token] \in Nat
          BY <1>0, <2>0 DEF Passed
        <4>2. \/ local'[call[d].worker][call[d].token] # Absent
              \/ clock > issued[call[d].token] + RecordLife
          BY <1>0, <1>a, <1>c, <2>0, <4>1 DEF KeptLocally
        <4> QED
          BY <1>b, <1>c, <3>1, <4>2 DEF KeptLocally
      <3>2. CASE d = c
        BY <1>0, <1>a, <1>b, <1>c, <2>0, <3>2 DEF KeptLocally, Passed
      <3> QED
        BY <3>1, <3>2
    <2> QED
      BY <2>1, <2>2
  <1>6. NothingSeenAfter'
    BY <1>a, <1>b DEF AuthInv, NothingSeenAfter
  <1>7. OneStore'
    <2>1. ASSUME NEW d \in Call, d # c, call[d].via = "redis", call[d].token = call[c].token
          PROVE  call[d].epoch # redis.epoch
      <3>1. KeptInRedis(d)
        BY DEF AuthInv, PassedIsRecorded
      <3>2. redis.record[call[c].token] # Absent =>
               redis.record[call[c].token] >= issued[call[c].token] + RecordLife
        BY <1>a DEF AuthInv, RecordTimes
      <3>3. ~(redis.record[call[c].token] > clock)
        BY DEF Recorded
      <3>4. redis.record[call[c].token] \in Nat
        BY <1>a DEF AuthInv, AuthTypeOK
      <3> QED
        BY <1>0, <1>a, <2>1, <3>1, <3>2, <3>3, <3>4 DEF KeptInRedis
    <2> SUFFICES ASSUME NEW d \in Call, NEW e \in Call, Replay(d, e)',
                        call'[d].via = "redis", call'[e].via = "redis"
                 PROVE  call'[d].epoch # call'[e].epoch
      BY DEF OneStore
    <2> QED
      BY <1>a, <1>b, <2>1 DEF AuthInv, OneStore, Replay, Passed
  <1>8. Closed'
    BY <1>a, <1>b, <1>c DEF AuthInv, Closed
  <1> QED
    BY <1>1, <1>2, <1>3, <1>4, <1>5, <1>6, <1>7, <1>8 DEF AuthInv


\* A store whose answer does not come may still record the identifier.
LEMMA RedisErrorStep ==
    ASSUME AuthInv, NEW c \in Call, RedisError(c)
    PROVE  AuthInv'
  <1>0. /\ clock \in Nat /\ issued \in [Token -> 0..Never] /\ Never \in Nat /\ RecordLife \in Nat
        /\ TokenLife \in Nat \ {0} /\ SlowestCall \in Nat /\ MaxClock \in Nat
        /\ \A d \in Call : call[d] \in CallRecord
    BY AuthAssumption DEF AuthInv, AuthTypeOK, Never, CallRecord
  <1>a. /\ call[c].pc = "store"
        /\ call[c].token \in Token /\ call[c].worker \in Worker
        /\ call[c].now \in Nat /\ call[c] \in CallRecord
        /\ call[c].via = "none"
        /\ issued[call[c].token] \in Nat
        /\ clock < issued[call[c].token] + RecordLife
    BY <1>0, RunningIsRecent DEF RedisError, AuthInv, CallTimes, Timely, Decoded, Running, Passed, CallRecord
  <1>b. /\ call' \in [Call -> CallRecord]
        /\ \A d \in Call : d # c => call'[d] = call[d]
        /\ \/ call'[c].pc = "unavailable"
           \/ call'[c].pc = "lookup" /\ env = "development"
        /\ call'[c].token = call[c].token
        /\ call'[c].worker = call[c].worker
        /\ call'[c].now = call[c].now
        /\ call'[c].stale = call[c].stale
        /\ call'[c].via = call[c].via
        /\ call'[c].epoch = call[c].epoch
        /\ call'[c].after = call[c].after
    BY <1>0, <1>a DEF RedisError, AfterRedisError, SetCall, End, AuthInv, AuthTypeOK, CallRecord
  <1>c. /\ env' = env /\ clock' = clock /\ issued' = issued
        /\ redis'.epoch = redis.epoch /\ local' = local
        /\ redis' \in [up : BOOLEAN, epoch : {0, 1}, record : [Token -> Nat]]
        /\ \A t \in Token : t # call[c].token => redis'.record[t] = redis.record[t]
        /\ \/ redis'.record[call[c].token] = redis.record[call[c].token]
           \/ redis'.record[call[c].token] = clock + RecordLife
        /\ issued[call[c].token] <= clock
        /\ Absent = 0 /\ RecordLife > 0
    BY <1>0, <1>a, AuthAssumption DEF RedisError, Expiry, Absent, AuthInv, AuthTypeOK, CallTimes, Timely, Decoded, CallRecord
  <1>1. AuthTypeOK'
    BY <1>b, <1>c DEF AuthInv, AuthTypeOK, CallRecord
  <1>2. CallTimes'
    <2> SUFFICES ASSUME NEW d \in Call PROVE Timely(d)'
      BY DEF CallTimes
    <2>1. CASE d # c
      BY <1>b, <1>c, <2>1 DEF AuthInv, CallTimes, Timely, Decoded, Running, Passed
    <2>2. CASE d = c
      BY <1>0, <1>a, <1>b, <1>c, <2>2 DEF AuthInv, CallTimes, Timely, Decoded, Running, Passed
    <2> QED
      BY <2>1, <2>2
  <1>3. IssuedEarlier'
    BY <1>c DEF AuthInv, IssuedEarlier
  <1>4. RecordTimes'
    <2>1. /\ \A t \in Token : redis.record[t] # Absent => redis.record[t] >= issued[t] + RecordLife
          /\ \A w \in Worker, t \in Token :
                local[w][t] # Absent => local[w][t] >= issued[t] + RecordLife
      BY DEF AuthInv, RecordTimes
    <2>2. \A t \in Token : redis'.record[t] # Absent => redis'.record[t] >= issued[t] + RecordLife
      BY <1>0, <1>a, <1>c, <2>1
    <2>3. \A w \in Worker, t \in Token :
             local'[w][t] # Absent => local'[w][t] >= issued[t] + RecordLife
      BY <1>0, <1>a, <1>c, <2>1
    <2>4. ASSUME NEW d \in Call PROVE StaleIsOver(d)'
      <3>1. CASE d # c
        BY <1>b, <1>c, <3>1 DEF AuthInv, RecordTimes, StaleIsOver
      <3>2. CASE d = c
        BY <1>0, <1>a, <1>b, <1>c, <3>2, <2>1 DEF StaleIsOver
      <3> QED
        BY <3>1, <3>2
    <2> QED
      BY <1>c, <2>2, <2>3, <2>4 DEF RecordTimes
  <1>5. PassedIsRecorded'
    <2> SUFFICES ASSUME NEW d \in Call PROVE KeptInRedis(d)' /\ KeptLocally(d)'
      BY DEF PassedIsRecorded
    <2>0. /\ KeptInRedis(d) /\ KeptLocally(d) /\ Timely(d)
          /\ Passed(d) => call[d].token \in Token /\ call[d].worker \in Worker
      BY DEF AuthInv, PassedIsRecorded, CallTimes, Timely
    <2>1. KeptInRedis(d)'
      <3>1. CASE d # c
        BY <1>0, <1>a, <1>b, <1>c, <2>0, <3>1 DEF KeptInRedis, Passed
      <3>2. CASE d = c
        BY <1>0, <1>a, <1>b, <1>c, <2>0, <3>2 DEF KeptInRedis, Passed
      <3> QED
        BY <3>1, <3>2
    <2>2. KeptLocally(d)'
      <3>1. CASE d # c
        <4> SUFFICES ASSUME call[d].via = "local" PROVE KeptLocally(d)'
          BY <1>b, <3>1 DEF KeptLocally
        <4>1. /\ call[d].token \in Token /\ call[d].worker \in Worker
              /\ issued[call[d].token] \in Nat
          BY <1>0, <2>0 DEF Passed
        <4>2. \/ local'[call[d].worker][call[d].token] # Absent
              \/ clock > issued[call[d].token] + RecordLife
          BY <1>0, <1>a, <1>c, <2>0, <4>1 DEF KeptLocally
        <4> QED
          BY <1>b, <1>c, <3>1, <4>2 DEF KeptLocally
      <3>2. CASE d = c
        BY <1>0, <1>a, <1>b, <1>c, <2>0, <3>2 DEF KeptLocally, Passed
      <3> QED
        BY <3>1, <3>2
    <2> QED
      BY <2>1, <2>2
  <1>6. NothingSeenAfter'
    BY <1>a, <1>b DEF AuthInv, NothingSeenAfter
  <1>7. OneStore'
    <2> SUFFICES ASSUME NEW d \in Call, NEW e \in Call, Replay(d, e)',
                        call'[d].via = "redis", call'[e].via = "redis"
                 PROVE  call'[d].epoch # call'[e].epoch
      BY DEF OneStore
    <2> QED
      BY <1>a, <1>b DEF AuthInv, OneStore, Replay, Passed
  <1>8. Closed'
    BY <1>a, <1>b, <1>c DEF AuthInv, Closed
  <1> QED
    BY <1>1, <1>2, <1>3, <1>4, <1>5, <1>6, <1>7, <1>8 DEF AuthInv


\* What a call purges is about tokens that have expired.
LEMMA PurgeStep ==
    ASSUME AuthInv, NEW c \in Call, Purge(c)
    PROVE  AuthInv'
  <1>0. /\ clock \in Nat /\ issued \in [Token -> 0..Never] /\ Never \in Nat /\ RecordLife \in Nat
        /\ TokenLife \in Nat \ {0} /\ SlowestCall \in Nat /\ MaxClock \in Nat
        /\ \A d \in Call : call[d] \in CallRecord
    BY AuthAssumption DEF AuthInv, AuthTypeOK, Never, CallRecord
  <1>a. /\ call[c].pc = "purge"
        /\ call[c].token \in Token /\ call[c].worker \in Worker
        /\ call[c].now \in Nat /\ call[c] \in CallRecord
        /\ call[c].via = "none"
        /\ issued[call[c].token] \in Nat
        /\ clock < issued[call[c].token] + RecordLife
        /\ \A t \in Token : t \in call[c].stale => call[c].now > issued[t] + RecordLife
        /\ call[c].now <= clock
    BY <1>0, RunningIsRecent DEF Purge, AuthInv, CallTimes, Timely, Decoded, Running, Passed, CallRecord, RecordTimes, StaleIsOver
  <1>b. /\ call' \in [Call -> CallRecord]
        /\ \A d \in Call : d # c => call'[d] = call[d]
        /\ call'[c].pc \in {"error", "store"}
        /\ call'[c].token = call[c].token
        /\ call'[c].worker = call[c].worker
        /\ call'[c].now = call[c].now
        /\ call'[c].via = call[c].via
        /\ call'[c].epoch = call[c].epoch
        /\ call'[c].after = call[c].after
    <2>1. PICK p \in {"error", "store"}, x \in {{}, call[c].stale} : SetCall(c, [call[c] EXCEPT !.pc = p, !.stale = x])
      BY <1>a DEF Purge, End
    <2>2. /\ p \in CallPc /\ redis.epoch \in {0, 1}
          /\ call[c] \in CallRecord
      BY <1>0 DEF CallPc, AuthInv, AuthTypeOK
    <2>3. [call[c] EXCEPT !.pc = p, !.stale = x] \in CallRecord
      BY <2>2 DEF CallRecord, CallPc
    <2>4. /\ call' \in [Call -> CallRecord] /\ call'[c] = [call[c] EXCEPT !.pc = p, !.stale = x]
          /\ \A d \in Call : d # c => call'[d] = call[d]
      BY <2>1, <2>3, CallSet DEF AuthInv
    <2> QED
      BY <2>2, <2>4 DEF CallRecord
  <1>c. /\ env' = env /\ clock' = clock /\ issued' = issued
        /\ redis' = redis
        /\ local' \in [Worker -> [Token -> Nat]]
        /\ \A w \in Worker, t \in Token : \/ local'[w][t] = local[w][t]
                                          \/ t \in call[c].stale /\ local'[w][t] = Absent
    <2>1. local' = [local EXCEPT ![call[c].worker] =
                              [t \in Token |-> IF t \in call[c].stale THEN Absent ELSE @[t]]]
      BY DEF Purge
    <2>2. local \in [Worker -> [Token -> Nat]] /\ Absent \in Nat
      BY DEF AuthInv, AuthTypeOK, Absent
    <2>3. env' = env /\ clock' = clock /\ issued' = issued /\ redis' = redis
      BY DEF Purge
    <2> QED
      BY <1>a, <2>1, <2>2, <2>3
  <1>1. AuthTypeOK'
    BY <1>b, <1>c DEF AuthInv, AuthTypeOK, CallRecord
  <1>2. CallTimes'
    <2> SUFFICES ASSUME NEW d \in Call PROVE Timely(d)'
      BY DEF CallTimes
    <2>1. CASE d # c
      BY <1>b, <1>c, <2>1 DEF AuthInv, CallTimes, Timely, Decoded, Running, Passed
    <2>2. CASE d = c
      BY <1>0, <1>a, <1>b, <1>c, <2>2 DEF AuthInv, CallTimes, Timely, Decoded, Running, Passed
    <2> QED
      BY <2>1, <2>2
  <1>3. IssuedEarlier'
    BY <1>c DEF AuthInv, IssuedEarlier
  <1>4. RecordTimes'
    <2>1. /\ \A t \in Token : redis.record[t] # Absent => redis.record[t] >= issued[t] + RecordLife
          /\ \A w \in Worker, t \in Token :
                local[w][t] # Absent => local[w][t] >= issued[t] + RecordLife
      BY DEF AuthInv, RecordTimes
    <2>2. \A t \in Token : redis'.record[t] # Absent => redis'.record[t] >= issued[t] + RecordLife
      BY <1>0, <1>a, <1>c, <2>1
    <2>3. \A w \in Worker, t \in Token :
             local'[w][t] # Absent => local'[w][t] >= issued[t] + RecordLife
      BY <1>0, <1>a, <1>c, <2>1
    <2>4. ASSUME NEW d \in Call PROVE StaleIsOver(d)'
      <3>1. CASE d # c
        BY <1>b, <1>c, <3>1 DEF AuthInv, RecordTimes, StaleIsOver
      <3>2. CASE d = c
        BY <1>0, <1>a, <1>b, <1>c, <3>2, <2>1 DEF StaleIsOver
      <3> QED
        BY <3>1, <3>2
    <2> QED
      BY <1>c, <2>2, <2>3, <2>4 DEF RecordTimes
  <1>5. PassedIsRecorded'
    <2> SUFFICES ASSUME NEW d \in Call PROVE KeptInRedis(d)' /\ KeptLocally(d)'
      BY DEF PassedIsRecorded
    <2>0. /\ KeptInRedis(d) /\ KeptLocally(d) /\ Timely(d)
          /\ Passed(d) => call[d].token \in Token /\ call[d].worker \in Worker
      BY DEF AuthInv, PassedIsRecorded, CallTimes, Timely
    <2>1. KeptInRedis(d)'
      <3>1. CASE d # c
        BY <1>0, <1>a, <1>b, <1>c, <2>0, <3>1 DEF KeptInRedis, Passed
      <3>2. CASE d = c
        BY <1>0, <1>a, <1>b, <1>c, <2>0, <3>2 DEF KeptInRedis, Passed
      <3> QED
        BY <3>1, <3>2
    <2>2. KeptLocally(d)'
      <3>1. CASE d # c
        <4> SUFFICES ASSUME call[d].via = "local" PROVE KeptLocally(d)'
          BY <1>b, <3>1 DEF KeptLocally
        <4>1. /\ call[d].token \in Token /\ call[d].worker \in Worker
              /\ issued[call[d].token] \in Nat
          BY <1>0, <2>0 DEF Passed
        <4>2. \/ local'[call[d].worker][call[d].token] # Absent
              \/ clock > issued[call[d].token] + RecordLife
          BY <1>0, <1>a, <1>c, <2>0, <4>1 DEF KeptLocally
        <4> QED
          BY <1>b, <1>c, <3>1, <4>2 DEF KeptLocally
      <3>2. CASE d = c
        BY <1>0, <1>a, <1>b, <1>c, <2>0, <3>2 DEF KeptLocally, Passed
      <3> QED
        BY <3>1, <3>2
    <2> QED
      BY <2>1, <2>2
  <1>6. NothingSeenAfter'
    BY <1>a, <1>b DEF AuthInv, NothingSeenAfter
  <1>7. OneStore'
    <2> SUFFICES ASSUME NEW d \in Call, NEW e \in Call, Replay(d, e)',
                        call'[d].via = "redis", call'[e].via = "redis"
                 PROVE  call'[d].epoch # call'[e].epoch
      BY DEF OneStore
    <2> QED
      BY <1>a, <1>b DEF AuthInv, OneStore, Replay, Passed
  <1>8. Closed'
    BY <1>a, <1>b, <1>c DEF AuthInv, Closed
  <1> QED
    BY <1>1, <1>2, <1>3, <1>4, <1>5, <1>6, <1>7, <1>8 DEF AuthInv


\* A call decodes a token and lists the records that are over.
LEMMA DecodeStep ==
    ASSUME AuthInv, NEW c \in Call, NEW t \in Token, NEW w \in Worker, Decode(c, t, w)
    PROVE  AuthInv'
  <1>0. /\ clock \in Nat /\ issued \in [Token -> 0..Never] /\ Never \in Nat /\ RecordLife \in Nat
        /\ TokenLife \in Nat \ {0} /\ SlowestCall \in Nat /\ MaxClock \in Nat
        /\ \A d \in Call : call[d] \in CallRecord
    BY AuthAssumption DEF AuthInv, AuthTypeOK, Never, CallRecord
  <1>a. /\ call[c].pc = "idle" /\ issued[t] # Never /\ issued[t] \in Nat /\ issued[t] <= clock
        /\ call[c].via = "none" /\ call[c] \in CallRecord
    BY <1>0 DEF Decode, AuthInv, IssuedEarlier, CallTimes, Timely, Decoded, Passed
  <1>b. /\ call' \in [Call -> CallRecord]
        /\ \A d \in Call : d # c => call'[d] = call[d]
        /\ call'[c].pc \in {"expired", "purge", "error"}
        /\ call'[c].pc # "expired" => clock < issued[t] + TokenLife
        /\ call'[c].token = t /\ call'[c].worker = w /\ call'[c].now = clock
        /\ \A x \in Token : x \in call'[c].stale => local[w][x] # Absent /\ clock > local[w][x]
        /\ call'[c].via = call[c].via
        /\ call'[c].epoch = call[c].epoch
        /\ call'[c].after = call[c].after
    <2>1. PICK pc \in {"expired", "purge", "error"} :
             /\ pc # "expired" => ~Expired(t)
             /\ SetCall(c, [call[c] EXCEPT
                         !.pc = pc, !.token = t, !.worker = w, !.now = clock,
                         !.stale = {x \in Token : local[w][x] # Absent /\ clock > local[w][x]}])
      BY DEF Decode
    <2>2. pc # "expired" => clock < issued[t] + TokenLife
      BY <1>0, <1>a, <2>1 DEF Expired
    <2>3. clock \in 0..MaxClock
      BY DEF AuthInv, AuthTypeOK
    <2> QED
      BY <1>0, <1>a, <2>1, <2>2, <2>3 DEF SetCall, AuthInv, AuthTypeOK, CallRecord
  <1>c. /\ env' = env /\ clock' = clock /\ issued' = issued
        /\ redis' = redis /\ local' = local
        /\ \A x \in Token : local[w][x] \in Nat /\ issued[x] \in Nat
    BY <1>0 DEF Decode, AuthInv, AuthTypeOK
  <1>1. AuthTypeOK'
    BY <1>b, <1>c DEF AuthInv, AuthTypeOK, CallRecord
  <1>2. CallTimes'
    <2> SUFFICES ASSUME NEW d \in Call PROVE Timely(d)'
      BY DEF CallTimes
    <2>1. CASE d # c
      BY <1>b, <1>c, <2>1 DEF AuthInv, CallTimes, Timely, Decoded, Running, Passed
    <2>2. CASE d = c
      BY <1>0, <1>a, <1>b, <1>c, <2>2 DEF AuthInv, CallTimes, Timely, Decoded, Running, Passed
    <2> QED
      BY <2>1, <2>2
  <1>3. IssuedEarlier'
    BY <1>c DEF AuthInv, IssuedEarlier
  <1>4. RecordTimes'
    <2>1. /\ \A x \in Token : redis.record[x] # Absent => redis.record[x] >= issued[x] + RecordLife
          /\ \A v \in Worker, x \in Token :
                local[v][x] # Absent => local[v][x] >= issued[x] + RecordLife
      BY DEF AuthInv, RecordTimes
    <2>2. \A x \in Token : redis'.record[x] # Absent => redis'.record[x] >= issued[x] + RecordLife
      BY <1>0, <1>a, <1>c, <2>1
    <2>3. \A v \in Worker, x \in Token :
             local'[v][x] # Absent => local'[v][x] >= issued[x] + RecordLife
      BY <1>0, <1>a, <1>c, <2>1
    <2>4. ASSUME NEW d \in Call PROVE StaleIsOver(d)'
      <3>1. CASE d # c
        BY <1>b, <1>c, <3>1 DEF AuthInv, RecordTimes, StaleIsOver
      <3>2. CASE d = c
        BY <1>0, <1>a, <1>b, <1>c, <3>2, <2>1 DEF StaleIsOver
      <3> QED
        BY <3>1, <3>2
    <2> QED
      BY <1>c, <2>2, <2>3, <2>4 DEF RecordTimes
  <1>5. PassedIsRecorded'
    <2> SUFFICES ASSUME NEW d \in Call PROVE KeptInRedis(d)' /\ KeptLocally(d)'
      BY DEF PassedIsRecorded
    <2>0. /\ KeptInRedis(d) /\ KeptLocally(d) /\ Timely(d)
          /\ Passed(d) => call[d].token \in Token /\ call[d].worker \in Worker
      BY DEF AuthInv, PassedIsRecorded, CallTimes, Timely
    <2>1. KeptInRedis(d)'
      <3>1. CASE d # c
        BY <1>0, <1>a, <1>b, <1>c, <2>0, <3>1 DEF KeptInRedis, Passed
      <3>2. CASE d = c
        BY <1>0, <1>a, <1>b, <1>c, <2>0, <3>2 DEF KeptInRedis, Passed
      <3> QED
        BY <3>1, <3>2
    <2>2. KeptLocally(d)'
      <3>1. CASE d # c
        <4> SUFFICES ASSUME call[d].via = "local" PROVE KeptLocally(d)'
          BY <1>b, <3>1 DEF KeptLocally
        <4>1. /\ call[d].token \in Token /\ call[d].worker \in Worker
              /\ issued[call[d].token] \in Nat
          BY <1>0, <2>0 DEF Passed
        <4>2. \/ local'[call[d].worker][call[d].token] # Absent
              \/ clock > issued[call[d].token] + RecordLife
          BY <1>0, <1>a, <1>c, <2>0, <4>1 DEF KeptLocally
        <4> QED
          BY <1>b, <1>c, <3>1, <4>2 DEF KeptLocally
      <3>2. CASE d = c
        BY <1>0, <1>a, <1>b, <1>c, <2>0, <3>2 DEF KeptLocally, Passed
      <3> QED
        BY <3>1, <3>2
    <2> QED
      BY <2>1, <2>2
  <1>6. NothingSeenAfter'
    BY <1>a, <1>b DEF AuthInv, NothingSeenAfter
  <1>7. OneStore'
    <2> SUFFICES ASSUME NEW d \in Call, NEW e \in Call, Replay(d, e)',
                        call'[d].via = "redis", call'[e].via = "redis"
                 PROVE  call'[d].epoch # call'[e].epoch
      BY DEF OneStore
    <2> QED
      BY <1>a, <1>b DEF AuthInv, OneStore, Replay, Passed
  <1>8. Closed'
    BY <1>a, <1>b, <1>c DEF AuthInv, Closed
  <1> QED
    BY <1>1, <1>2, <1>3, <1>4, <1>5, <1>6, <1>7, <1>8 DEF AuthInv


-----------------------------------------------------------------------------
\* Every step preserves the invariant.
LEMMA AuthInvStep == AuthInv /\ [Next]_vars => AuthInv'
  <1> SUFFICES ASSUME AuthInv, [Next]_vars PROVE AuthInv'
    OBVIOUS
  <1>1. CASE \E t \in Token : Issue(t)
    BY <1>1, IssueStep
  <1>2. CASE \E c \in Call, t \in Token, w \in Worker : Decode(c, t, w)
    BY <1>2, DecodeStep
  <1>3. ASSUME NEW c \in Call, CallStep(c) PROVE AuthInv'
    <2>1. CASE StoreRedis(c)
      BY <2>1, ReplayedStep, NewTokenStep
    <2> QED
      BY <1>3, <2>1, PurgeStep, RedisErrorStep, LookupStep, RecordStep, ContextStep DEF CallStep
  <1>4. CASE RedisFails \/ RedisReturns
    BY <1>4, RedisStep
  <1>5. CASE Tick
    BY <1>5, TickStep
  <1>6. CASE UNCHANGED vars
    BY <1>6 DEF vars, AuthInv, AuthTypeOK, CallTimes, Timely, IssuedEarlier, RecordTimes, StaleIsOver,
       PassedIsRecorded, KeptInRedis, KeptLocally, NothingSeenAfter, OneStore, Replay, Closed,
       Decoded, Running, Passed
  <1> QED
    BY <1>1, <1>2, <1>3, <1>4, <1>5, <1>6 DEF Next

LEMMA AuthAlways == Spec => []AuthInv
  <1>1. Init => AuthInv
    BY AuthInit
  <1>2. AuthInv /\ [Next]_vars => AuthInv'
    BY AuthInvStep
  <1> QED
    BY <1>1, <1>2, PTL DEF Spec

\* The invariant rules out a replay within one store, but for the window
\* between a dictionary's look-up and its assignment.
LEMMA InvRulesOutReplay == AuthInv => ReplayNeedsAnotherStore /\ ProductionReplayNeedsLoss
  <1> SUFFICES ASSUME AuthInv, NEW c \in Call, NEW d \in Call, Replay(c, d)
               PROVE  /\ \/ call[c].via # call[d].via
                         \/ call[c].via = "redis" /\ call[c].epoch # call[d].epoch
                         \/ call[c].via = "local" /\ call[c].worker # call[d].worker
                         \/ call[c].via = "local" /\ d \notin call[c].after /\ c \notin call[d].after
                      /\ env = "production" => call[c].epoch # call[d].epoch
    BY DEF ReplayNeedsAnotherStore, ProductionReplayNeedsLoss
  <1>1. call[c].via \in {"redis", "local"} /\ call[d].via \in {"redis", "local"}
    BY DEF AuthInv, AuthTypeOK, Replay, Passed
  <1>2. call[c].via = "redis" /\ call[d].via = "redis" => call[c].epoch # call[d].epoch
    BY DEF AuthInv, OneStore
  <1>3. call[c].after = {} /\ call[d].after = {}
    BY DEF AuthInv, NothingSeenAfter
  <1>4. env = "production" => call[c].via # "local" /\ call[d].via # "local"
    BY DEF AuthInv, Closed
  <1> QED
    BY <1>1, <1>2, <1>3, <1>4

\* verify_internal_token keeps its state in range.
THEOREM AuthTypes == Spec => []AuthTypeOK
  <1>1. AuthInv => AuthTypeOK
    BY DEF AuthInv
  <1> QED
    BY <1>1, AuthAlways, PTL

\* internal_auth.py:57-91: a token passes twice only through two stores, a
\* store that lost its data, or the window of one dictionary.
THEOREM ReplayNeedsTwoStores == Spec => []ReplayNeedsAnotherStore
  <1>1. AuthInv => ReplayNeedsAnotherStore
    BY InvRulesOutReplay
  <1> QED
    BY <1>1, AuthAlways, PTL

\* internal_auth.py:79-91: production refuses what Redis does not confirm, so
\* that only a Redis that lost its data lets a token pass twice.
THEOREM ProductionFailsClosed == Spec => []ProductionReplayNeedsLoss
  <1>1. AuthInv => ProductionReplayNeedsLoss
    BY InvRulesOutReplay
  <1> QED
    BY <1>1, AuthAlways, PTL

=============================================================================
