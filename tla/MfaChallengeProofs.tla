------------------------- MODULE MfaChallengeProofs -------------------------
(***************************************************************************)
(* The challenge life cycle for any number of handlers in flight, any      *)
(* number of challenges and any limits.                                    *)
(***************************************************************************)
EXTENDS MfaChallenge, FiniteSetTheorems, WellFoundedInduction, TLAPS

\* What a handler does to one document: the fields that other handlers rely
\* on survive every save of verifyMfa, resendMfa and the clock.
Saved(old, new) ==
    /\ new \in Challenge
    /\ old.consumed => new.consumed
    /\ new.failed >= MaxAttempts => new.consumed
    /\ new.resends = old.resends
    /\ new.parent = old.parent

\* A step changes no document beyond Saved, or creates one.
LEMMA StepSaves ==
    ASSUME MfaInv, MfaNext
    PROVE  \/ /\ Len(challenges') = Len(challenges)
              /\ challenges' \in Seq(Challenge)
              /\ \A c \in DOMAIN challenges : Saved(challenges[c], challenges'[c])
           \/ \E resends \in 0..MaxResends, parent \in Nat :
                /\ challenges' = Append(challenges, NewChallenge(resends, parent))
                /\ IF parent = 0 THEN req' = req
                   ELSE \E r \in Request : /\ Reached(r, "create") /\ Reply(r)
                                           /\ parent = req[r].c
                                           /\ resends = req[r].resends + 1
  <1> USE MfaAssumption
  <1>0. /\ challenges \in Seq(Challenge) /\ req \in [Request -> Handler]
        /\ \A c \in DOMAIN challenges : challenges[c] \in Challenge
        /\ \A c \in DOMAIN challenges : Saved(challenges[c], challenges[c])
    BY DEF MfaInv, MfaTypeOK, LockedIsConsumed, Saved
  <1>1. ASSUME NEW c \in DOMAIN challenges, NEW d \in Challenge,
               challenges' = [challenges EXCEPT ![c] = d], Saved(challenges[c], d)
        PROVE  /\ Len(challenges') = Len(challenges)
               /\ challenges' \in Seq(Challenge)
               /\ \A k \in DOMAIN challenges : Saved(challenges[k], challenges'[k])
    BY <1>0, <1>1
  <1>2. CASE UNCHANGED challenges
    BY <1>0, <1>2
  <1>3. CASE Login
    <2>1. challenges' = Append(challenges, NewChallenge(0, 0)) /\ req' = req
      BY <1>3 DEF Login
    <2>2. 0 \in 0..MaxResends
      OBVIOUS
    <2> QED BY <2>1, <2>2
  <1>4. ASSUME NEW r \in Request, CreateNext(r)
        PROVE  \E resends \in 0..MaxResends, parent \in Nat :
                /\ challenges' = Append(challenges, NewChallenge(resends, parent))
                /\ IF parent = 0 THEN req' = req
                   ELSE \E q \in Request : /\ Reached(q, "create") /\ Reply(q)
                                           /\ parent = req[q].c
                                           /\ resends = req[q].resends + 1
    <2>1. /\ req[r].c \in DOMAIN challenges /\ req[r].resends \in Nat
          /\ req[r].resends < MaxResends
      BY <1>0, <1>4 DEF MfaInv, MfaTypeOK, ResendInFlight, CreateNext, Reached, Handler
    <2>2. /\ req[r].c \in Nat /\ req[r].c # 0 /\ req[r].resends + 1 \in 0..MaxResends
      BY <1>0, <2>1
    <2>3. /\ challenges' = Append(challenges, NewChallenge(req[r].resends + 1, req[r].c))
          /\ Reached(r, "create") /\ Reply(r)
      BY <1>4 DEF CreateNext
    <2> QED BY <2>2, <2>3
  <1>5. ASSUME NEW r \in Request, WrongCode(r)
        PROVE  \E c \in DOMAIN challenges, d \in Challenge :
                 challenges' = [challenges EXCEPT ![c] = d] /\ Saved(challenges[c], d)
    <2> DEFINE c == req[r].c
               v == challenges[c].consumed \/ req[r].failed + 1 >= MaxAttempts
               d == [challenges[c] EXCEPT !.failed = req[r].failed + 1,
                                          !.consumed = v, !.wrong = @ + 1]
    <2>1. c \in DOMAIN challenges /\ challenges[c] \in Challenge /\ req[r].failed \in Nat
      BY <1>0, <1>5 DEF MfaInv, MfaTypeOK, WrongCode, Reached, Handler
    <2>2. challenges' = [challenges EXCEPT ![c] = d]
      BY <1>0, <1>5, <2>1 DEF WrongCode
    <2>3. /\ v \in BOOLEAN
          /\ challenges[c].consumed => v
          /\ req[r].failed + 1 >= MaxAttempts => v
      BY Zenon
    <2>4. d \in Challenge /\ Saved(challenges[c], d)
      <3> HIDE DEF v
      <3>1. req[r].failed + 1 \in Nat
        BY <2>1
      <3>2. /\ d \in Challenge
            /\ d.failed = req[r].failed + 1 /\ d.consumed = v
            /\ d.resends = challenges[c].resends /\ d.parent = challenges[c].parent
        <4> DEFINE old == challenges[c]
                   n == req[r].failed + 1
        <4>1. old \in Challenge /\ n \in Nat /\ v \in BOOLEAN
          BY <2>1, <2>3, <3>1
        <4>2. d = [old EXCEPT !.failed = n, !.consumed = v, !.wrong = @ + 1]
          OBVIOUS
        <4> HIDE DEF old, n, d
        <4>3. d = [failed |-> n, consumed |-> v, expired |-> old.expired,
                   cooling |-> old.cooling, resends |-> old.resends,
                   parent |-> old.parent, wrong |-> old.wrong + 1, tokens |-> old.tokens]
          BY <4>1, <4>2 DEF Challenge
        <4>4. /\ old.expired \in BOOLEAN /\ old.cooling \in BOOLEAN /\ old.resends \in Nat
              /\ old.parent \in Nat /\ old.wrong + 1 \in Nat /\ old.tokens \in Nat
          BY <4>1 DEF Challenge
        <4>5. d \in Challenge
          BY <4>1, <4>3, <4>4, Zenon DEF Challenge
        <4> QED BY <4>3, <4>5 DEF old, n
      <3> HIDE DEF c, d
      <3> QED BY <2>3, <3>2, Zenon DEF Saved, c
    <2> QED BY <2>1, <2>2, <2>4
  <1>6. ASSUME NEW r \in Request, SaveConsumed(r)
        PROVE  \E c \in DOMAIN challenges, d \in Challenge :
                 challenges' = [challenges EXCEPT ![c] = d] /\ Saved(challenges[c], d)
    <2> DEFINE c == req[r].c
               d == [challenges[c] EXCEPT !.consumed = TRUE]
    <2>1. c \in DOMAIN challenges /\ challenges[c] \in Challenge
      BY <1>0, <1>6 DEF MfaInv, MfaTypeOK, SaveConsumed, Reached
    <2>2. challenges' = [challenges EXCEPT ![c] = d]
      BY <1>0, <1>6, <2>1 DEF SaveConsumed
    <2>3. d \in Challenge /\ Saved(challenges[c], d)
      BY <2>1 DEF Challenge, Saved
    <2> QED BY <2>1, <2>2, <2>3
  <1>7. ASSUME NEW r \in Request, SendToken(r)
        PROVE  \E c \in DOMAIN challenges, d \in Challenge :
                 challenges' = [challenges EXCEPT ![c] = d] /\ Saved(challenges[c], d)
    <2> DEFINE c == req[r].c
               d == [challenges[c] EXCEPT !.tokens = @ + 1]
    <2>1. c \in DOMAIN challenges /\ challenges[c] \in Challenge
          /\ (challenges[c].failed >= MaxAttempts => challenges[c].consumed)
      BY <1>0, <1>7 DEF MfaInv, MfaTypeOK, LockedIsConsumed, SendToken, Reached
    <2>2. challenges' = [challenges EXCEPT ![c] = d]
      BY <1>0, <1>7, <2>1 DEF SendToken
    <2>3. d \in Challenge /\ Saved(challenges[c], d)
      BY <2>1 DEF Challenge, Saved
    <2> QED BY <2>1, <2>2, <2>3
  <1>8. ASSUME NEW c \in DOMAIN challenges, Expires(c) \/ CooledDown(c)
        PROVE  \E k \in DOMAIN challenges, d \in Challenge :
                 challenges' = [challenges EXCEPT ![k] = d] /\ Saved(challenges[k], d)
    <2>1. /\ challenges[c] \in Challenge
          /\ challenges[c].failed >= MaxAttempts => challenges[c].consumed
      BY <1>0 DEF MfaInv, LockedIsConsumed
    <2>2. CASE Expires(c)
      <3> DEFINE d == [challenges[c] EXCEPT !.expired = TRUE]
      <3>1. challenges' = [challenges EXCEPT ![c] = d]
        BY <1>0, <2>2 DEF Expires
      <3>2. d \in Challenge /\ Saved(challenges[c], d)
        BY <2>1 DEF Challenge, Saved
      <3> QED BY <3>1, <3>2
    <2>3. CASE CooledDown(c)
      <3> DEFINE d == [challenges[c] EXCEPT !.cooling = FALSE]
      <3>1. challenges' = [challenges EXCEPT ![c] = d]
        BY <1>0, <2>3 DEF CooledDown
      <3>2. d \in Challenge /\ Saved(challenges[c], d)
        BY <2>1 DEF Challenge, Saved
      <3> QED BY <3>1, <3>2
    <2> QED BY <1>8, <2>2, <2>3
  <1>9. ASSUME NEW c, NEW r, VerifyRead(r, c) \/ ResendRead(r, c) \/ RightCode(r) \/ Fail(r)
        PROVE  UNCHANGED challenges
    BY <1>9 DEF VerifyRead, ResendRead, RightCode, Fail
  <1> QED
    BY <1>1, <1>2, <1>3, <1>4, <1>5, <1>6, <1>7, <1>8, <1>9 DEF MfaNext

\* Handlers in flight stay well typed and point at documents that exist.
LEMMA StepHandlers ==
    ASSUME MfaInv, MfaNext
    PROVE  req' \in [Request -> Handler]
  <1>0. /\ req \in [Request -> Handler] /\ challenges \in Seq(Challenge)
        /\ \A c \in DOMAIN challenges : c \in Nat /\ challenges[c] \in Challenge
    BY DEF MfaInv, MfaTypeOK
  <1>1. NoRequest \in Handler
    BY DEF NoRequest, Handler
  <1>2. ASSUME NEW r \in Request, NEW h \in Handler, req' = [req EXCEPT ![r] = h]
        PROVE  req' \in [Request -> Handler]
    BY <1>0, <1>2
  <1>3. ASSUME NEW r \in Request, Reply(r)
        PROVE  req' \in [Request -> Handler]
    BY <1>1, <1>2, <1>3 DEF Reply
  <1>4. ASSUME NEW r \in Request, NEW c \in DOMAIN challenges,
               VerifyRead(r, c) \/ ResendRead(r, c)
        PROVE  req' \in [Request -> Handler]
    <2> DEFINE v == [pc |-> IF challenges[c].failed >= MaxAttempts THEN "lock" ELSE "compare",
                     c |-> c, failed |-> challenges[c].failed, resends |-> 0]
               s == [pc |-> "invalidate", c |-> c, failed |-> 0,
                     resends |-> challenges[c].resends]
    <2>1. v \in Handler /\ s \in Handler
      BY <1>0 DEF Handler, Challenge
    <2>2. req' = [req EXCEPT ![r] = v] \/ req' = [req EXCEPT ![r] = s]
      BY <1>4 DEF VerifyRead, ResendRead
    <2> HIDE DEF v, s
    <2> QED BY <1>2, <2>1, <2>2
  <1>5. ASSUME NEW r \in Request, RightCode(r) \/ SaveConsumed(r)
        PROVE  req' \in [Request -> Handler]
    <2> DEFINE a == [req[r] EXCEPT !.pc = "accept"]
               t == [req[r] EXCEPT !.pc = "token"]
               n == [req[r] EXCEPT !.pc = "create"]
    <2>1. a \in Handler /\ t \in Handler /\ n \in Handler
      BY <1>0 DEF Handler
    <2>2. \/ req' = [req EXCEPT ![r] = a] \/ req' = [req EXCEPT ![r] = t]
          \/ req' = [req EXCEPT ![r] = n] \/ Reply(r)
      BY <1>5 DEF RightCode, SaveConsumed
    <2> HIDE DEF a, t, n
    <2> QED BY <1>2, <1>3, <2>1, <2>2
  <1>6. ASSUME NEW r \in Request,
               WrongCode(r) \/ SendToken(r) \/ CreateNext(r) \/ Fail(r)
        PROVE  Reply(r)
    BY <1>6 DEF WrongCode, SendToken, CreateNext, Fail
  <1>7. ASSUME Login \/ \E c \in DOMAIN challenges : Expires(c) \/ CooledDown(c)
        PROVE  req' = req
    BY <1>7 DEF Login, Expires, CooledDown
  <1> QED BY <1>0, <1>3, <1>4, <1>5, <1>6, <1>7 DEF MfaNext

\* Every handler either keeps what it knows about its challenge, ends, or has
\* just read it; a resend reaches "create" only by consuming the challenge.
LEMMA StepProgress ==
    ASSUME MfaInv, MfaNext, NEW r \in Request
    PROVE  \/ req'[r] = req[r]
           \/ req'[r] = NoRequest
           \/ /\ req'[r].c \in DOMAIN challenges
              /\ req'[r].pc \in {"lock", "compare", "invalidate"}
              /\ req'[r].pc = "invalidate" =>
                    /\ req'[r].resends = challenges[req'[r].c].resends
                    /\ req'[r].resends < MaxResends
           \/ /\ req[r].pc # "idle" /\ req'[r].c = req[r].c
              /\ req'[r].pc \in {"accept", "token"}
           \/ /\ req[r].pc = "invalidate" /\ req'[r].pc = "create"
              /\ req'[r].c = req[r].c /\ req'[r].resends = req[r].resends
              /\ challenges' = [challenges EXCEPT ![req[r].c].consumed = TRUE]
  <1>0. req \in [Request -> Handler]
    BY DEF MfaInv, MfaTypeOK
  <1>1. ASSUME NEW q \in Request, Reply(q)
        PROVE  req'[r] = req[r] \/ req'[r] = NoRequest
    BY <1>0, <1>1 DEF Reply
  <1>2. CASE \E q \in Request, c \in DOMAIN challenges : VerifyRead(q, c) \/ ResendRead(q, c)
    BY <1>0, <1>2 DEF VerifyRead, ResendRead, NoRequest
  <1>3. CASE \E q \in Request : RightCode(q)
    BY <1>0, <1>3 DEF RightCode, Reached, Handler
  <1>4. CASE \E q \in Request : SaveConsumed(q)
    <2>1. PICK q \in Request : SaveConsumed(q)
      BY <1>4
    <2>2. CASE Reply(q)
      BY <1>1, <2>2
    <2>3. CASE Reached(q, "accept") /\ req' = [req EXCEPT ![q].pc = "token"]
      BY <1>0, <2>3 DEF Reached, Handler
    <2>4. CASE Reached(q, "invalidate") /\ req' = [req EXCEPT ![q].pc = "create"]
      BY <1>0, <2>1, <2>4 DEF SaveConsumed, Reached, Handler
    <2> QED BY <2>1, <2>2, <2>3, <2>4 DEF SaveConsumed
  <1>5. CASE \E q \in Request : WrongCode(q) \/ SendToken(q) \/ CreateNext(q) \/ Fail(q)
    BY <1>1, <1>5 DEF WrongCode, SendToken, CreateNext, Fail
  <1>6. CASE Login \/ \E c \in DOMAIN challenges : Expires(c) \/ CooledDown(c)
    BY <1>6 DEF Login, Expires, CooledDown
  <1> QED BY <1>2, <1>3, <1>4, <1>5, <1>6 DEF MfaNext

\* The inductive invariant of the life cycle.
THEOREM MfaInvariant == MfaSpec => []MfaInv
  <1>1. MfaInit => MfaInv
    BY DEF MfaInit, MfaInv, MfaTypeOK, LockedIsConsumed, ResendReplaces, ResendInFlight,
           Reached, NoRequest, Handler
  <1>2. MfaInv /\ [MfaNext]_mfaVars => MfaInv'
    <2> SUFFICES ASSUME MfaInv, MfaNext PROVE MfaInv'
      <3>1. CASE UNCHANGED mfaVars
        BY <3>1 DEF MfaInv, MfaTypeOK, LockedIsConsumed, ResendReplaces, ResendInFlight,
                    Reached, mfaVars
      <3> QED BY <3>1
    <2>0. /\ challenges \in Seq(Challenge) /\ req \in [Request -> Handler]
          /\ DOMAIN challenges = 1..Len(challenges) /\ Len(challenges) \in Nat
          /\ \A c \in DOMAIN challenges : challenges[c] \in Challenge
      BY DEF MfaInv, MfaTypeOK
    <2>1. req' \in [Request -> Handler]
      BY StepHandlers
    <2>2. CASE /\ Len(challenges') = Len(challenges)
               /\ challenges' \in Seq(Challenge)
               /\ \A c \in DOMAIN challenges : Saved(challenges[c], challenges'[c])
      <3>1. DOMAIN challenges' = DOMAIN challenges
        BY <2>0, <2>2
      <3>2. MfaTypeOK'
        <4>1. ASSUME NEW r \in Request, req'[r].pc # "idle"
              PROVE  req'[r].c \in DOMAIN challenges
          <5>1. CASE req'[r] = req[r] \/ (req[r].pc # "idle" /\ req'[r].c = req[r].c)
            BY <4>1, <5>1 DEF MfaInv, MfaTypeOK, Reached
          <5>2. req'[r] # NoRequest
            BY <4>1 DEF NoRequest
          <5> QED BY <5>1, <5>2, StepProgress
        <4> QED BY <2>1, <2>2, <3>1, <4>1 DEF MfaTypeOK, Reached
      <3>3. LockedIsConsumed'
        BY <2>2, <3>1 DEF LockedIsConsumed, Saved
      <3>4. ResendReplaces'
        BY <2>2, <3>1 DEF MfaInv, ResendReplaces, Saved
      <3>5. ResendInFlight'
        <4> SUFFICES ASSUME NEW r \in Request, req'[r].pc \in {"invalidate", "create"}
                     PROVE  /\ req'[r].resends < MaxResends
                            /\ challenges'[req'[r].c].resends = req'[r].resends
                            /\ req'[r].pc = "create" => challenges'[req'[r].c].consumed
          BY DEF ResendInFlight, Reached
        <4>1. CASE req'[r] = req[r]
          BY <2>2, <4>1 DEF MfaInv, MfaTypeOK, ResendInFlight, Reached, Saved
        <4>2. CASE req'[r] # req[r] /\ req'[r].pc = "invalidate"
          <5>1. req'[r] # NoRequest /\ req'[r].pc # "accept" /\ req'[r].pc # "token"
                /\ req'[r].pc # "create"
            BY <4>2 DEF NoRequest
          <5>2. /\ req'[r].c \in DOMAIN challenges
                /\ req'[r].resends = challenges[req'[r].c].resends
                /\ req'[r].resends < MaxResends
            BY <4>2, <5>1, StepProgress
          <5>3. challenges'[req'[r].c].resends = challenges[req'[r].c].resends
            BY <2>2, <5>2 DEF Saved
          <5> QED BY <4>2, <5>2, <5>3
        <4>3. CASE req'[r] # req[r] /\ req'[r].pc = "create"
          <5>1. /\ req[r].pc = "invalidate" /\ req'[r].c = req[r].c
                /\ req'[r].resends = req[r].resends
                /\ challenges' = [challenges EXCEPT ![req[r].c].consumed = TRUE]
            BY <4>3, StepProgress DEF NoRequest
          <5>2. req[r].c \in DOMAIN challenges
            BY <5>1 DEF MfaInv, MfaTypeOK, Reached
          <5>3. challenges'[req[r].c].consumed = TRUE
            BY <2>0, <5>1, <5>2 DEF Challenge
          <5>4. challenges'[req[r].c].resends = challenges[req[r].c].resends
            BY <2>2, <5>2 DEF Saved
          <5>5. /\ req[r].resends < MaxResends
                /\ challenges[req[r].c].resends = req[r].resends
            BY <5>1 DEF MfaInv, ResendInFlight
          <5> QED BY <5>1, <5>3, <5>4, <5>5
        <4> QED BY <4>1, <4>2, <4>3
      <3> QED BY <3>2, <3>3, <3>4, <3>5 DEF MfaInv
    <2>3. CASE \E resends \in 0..MaxResends, parent \in Nat :
                 /\ challenges' = Append(challenges, NewChallenge(resends, parent))
                 /\ IF parent = 0 THEN req' = req
                    ELSE \E r \in Request : /\ Reached(r, "create") /\ Reply(r)
                                            /\ parent = req[r].c
                                            /\ resends = req[r].resends + 1
      <3>1. PICK resends \in 0..MaxResends, parent \in Nat :
                 /\ challenges' = Append(challenges, NewChallenge(resends, parent))
                 /\ IF parent = 0 THEN req' = req
                    ELSE \E r \in Request : /\ Reached(r, "create") /\ Reply(r)
                                            /\ parent = req[r].c
                                            /\ resends = req[r].resends + 1
        BY <2>3
      <3> DEFINE d == NewChallenge(resends, parent)
      <3>2. /\ d \in Challenge /\ d.failed = 0
            /\ d.resends = resends /\ d.parent = parent
        BY <3>1, MfaAssumption DEF NewChallenge, Challenge
      <3> HIDE DEF d
      <3>3. /\ challenges' \in Seq(Challenge)
            /\ DOMAIN challenges' = DOMAIN challenges \cup {Len(challenges) + 1}
            /\ challenges'[Len(challenges) + 1] = d
            /\ \A c \in DOMAIN challenges : challenges'[c] = challenges[c]
        BY <2>0, <3>1, <3>2 DEF d
      <3>4. \A r \in Request : req'[r] = req[r] \/ req'[r] = NoRequest
        BY <2>0, <3>1 DEF Reply
      <3>5. MfaTypeOK'
        BY <2>1, <3>3, <3>4 DEF MfaInv, MfaTypeOK, Reached, NoRequest
      <3>6. LockedIsConsumed'
        BY <3>2, <3>3, MfaAssumption DEF MfaInv, LockedIsConsumed
      <3>7. parent # 0 => /\ parent \in DOMAIN challenges
                          /\ challenges[parent].consumed
                          /\ resends = challenges[parent].resends + 1
        BY <3>1 DEF MfaInv, MfaTypeOK, ResendInFlight, Reached
      <3>8. ResendReplaces'
        <4> SUFFICES ASSUME NEW c \in DOMAIN challenges'
                     PROVE  /\ challenges'[c].resends <= MaxResends
                            /\ challenges'[c].parent # 0 =>
                                 /\ challenges'[c].parent \in DOMAIN challenges'
                                 /\ challenges'[challenges'[c].parent].consumed
                                 /\ challenges'[c].resends =
                                      challenges'[challenges'[c].parent].resends + 1
          BY DEF ResendReplaces
        <4>1. CASE c \in DOMAIN challenges
          BY <3>3, <4>1 DEF MfaInv, ResendReplaces
        <4>2. CASE c = Len(challenges) + 1
          BY <3>2, <3>3, <3>7, <4>2, MfaAssumption
        <4> QED BY <3>3, <4>1, <4>2
      <3>9. ResendInFlight'
        BY <3>3, <3>4 DEF MfaInv, MfaTypeOK, ResendInFlight, Reached, NoRequest
      <3> QED BY <3>5, <3>6, <3>8, <3>9 DEF MfaInv
    <2> QED BY <2>2, <2>3, StepSaves
  <1> QED BY <1>1, <1>2, PTL DEF MfaSpec

\* Type correctness of the collection and of the handlers in flight.
THEOREM MfaTypeCorrect == MfaSpec => []MfaTypeOK
  <1>1. MfaInv => MfaTypeOK
    BY DEF MfaInv
  <1> QED BY <1>1, MfaInvariant, PTL

\* The attempt counter never reaches MFA_MAX_ATTEMPTS on a usable challenge.
THEOREM LockedChallengeIsConsumed == MfaSpec => []LockedIsConsumed
  <1>1. MfaInv => LockedIsConsumed
    BY DEF MfaInv
  <1> QED BY <1>1, MfaInvariant, PTL

\* A resend replaces a challenge that is consumed already, and resends of a
\* login are limited, for any number of concurrent resends.
THEOREM ResendReplacesChallenge == MfaSpec => []ResendReplaces
  <1>1. MfaInv => ResendReplaces
    BY DEF MfaInv
  <1> QED BY <1>1, MfaInvariant, PTL

\* No save of a stale document makes a consumed challenge usable again.
THEOREM ConsumptionIsFinal == MfaSpec => ConsumedForever
  <1>1. ASSUME MfaInv, [MfaNext]_mfaVars
        PROVE  [\A c \in DOMAIN challenges :
                  challenges[c].consumed => challenges'[c].consumed]_challenges
    <2>1. CASE UNCHANGED challenges
      BY <2>1
    <2>2. CASE MfaNext
      <3>1. challenges \in Seq(Challenge)
        BY <1>1 DEF MfaInv, MfaTypeOK
      <3>2. CASE \A c \in DOMAIN challenges : Saved(challenges[c], challenges'[c])
        BY <3>2 DEF Saved
      <3>3. CASE \E d : challenges' = Append(challenges, d)
        BY <3>1, <3>3
      <3> QED BY <1>1, <2>2, <3>2, <3>3, StepSaves
    <2> QED BY <1>1, <2>1, <2>2 DEF mfaVars
  <1> QED BY <1>1, MfaInvariant, PTL DEF MfaSpec, ConsumedForever

-----------------------------------------------------------------------------
(***************************************************************************)
(* Tokens.  Once a challenge is consumed no handler begins to verify it,   *)
(* so the handlers that hold it and the tokens they have turned into are   *)
(* together never more than the handlers.                                  *)
(***************************************************************************)
Holds(r, c) == req[r].c = c /\ req[r].pc \in {"compare", "accept", "token"}
Holding(c) == {r \in Request : Holds(r, c)}

TokenInv ==
    /\ \A r \in Request : Reached(r, "token") => challenges[req[r].c].consumed
    /\ \A c \in DOMAIN challenges :
          /\ ~challenges[c].consumed => challenges[c].tokens = 0
          /\ challenges[c].tokens + Cardinality(Holding(c)) <= Cardinality(Request)

LEMMA HoldingIs ==
    ASSUME NEW S \in SUBSET Request, NEW T \in SUBSET S
    PROVE  /\ Cardinality(S) \in Nat /\ Cardinality(T) \in Nat /\ Cardinality(Request) \in Nat
           /\ Cardinality(T) <= Cardinality(S) /\ Cardinality(S) <= Cardinality(Request)
           /\ \A r \in S : Cardinality(S \ {r}) = Cardinality(S) - 1
  <1>1. IsFiniteSet(Request)
    BY MfaAssumption
  <1>2. IsFiniteSet(S) /\ Cardinality(S) <= Cardinality(Request)
    BY <1>1, FS_Subset
  <1>3. IsFiniteSet(T) /\ Cardinality(T) <= Cardinality(S)
    BY <1>2, FS_Subset
  <1>4. \A r \in S : Cardinality(S \ {r}) = Cardinality(S) - 1
    BY <1>2, FS_RemoveElement
  <1> QED
    BY <1>1, <1>2, <1>3, <1>4, FS_CardinalityType

LEMMA Documents ==
    ASSUME MfaInv
    PROVE  /\ challenges \in Seq(Challenge) /\ req \in [Request -> Handler]
           /\ \A c \in DOMAIN challenges : challenges[c] \in Challenge /\ challenges[c].tokens \in Nat
           /\ \A r \in Request : ~Reached(r, "idle") => req[r].c \in DOMAIN challenges
  <1>1. /\ challenges \in Seq(Challenge) /\ req \in [Request -> Handler]
        /\ \A r \in Request : ~Reached(r, "idle") => req[r].c \in DOMAIN challenges
    BY DEF MfaInv, MfaTypeOK
  <1>2. \A c \in DOMAIN challenges : challenges[c] \in Challenge
    BY <1>1
  <1>3. \A d \in Challenge : d.tokens \in Nat
    BY DEF Challenge
  <1> QED
    BY <1>1, <1>2, <1>3

\* A handler is given its token place by the save that consumes.
LEMMA TokenByConsuming ==
    ASSUME MfaInv, MfaNext, NEW r \in Request, Reached(r, "token")'
    PROVE  /\ req'[r].c = req[r].c
           /\ \/ Reached(r, "token")
              \/ /\ Reached(r, "accept")
                 /\ challenges' = [challenges EXCEPT ![req[r].c].consumed = TRUE]
  <1>0. req \in [Request -> Handler]
    BY Documents
  <1>1. ASSUME NEW q \in Request, Reply(q) PROVE Reached(r, "token") /\ req'[r].c = req[r].c
    BY <1>0, <1>1 DEF Reply, NoRequest, Reached
  <1>2. CASE \E q \in Request, k \in DOMAIN challenges : VerifyRead(q, k) \/ ResendRead(q, k)
    BY <1>0, <1>2 DEF VerifyRead, ResendRead, Reached
  <1>3. CASE \E q \in Request : RightCode(q)
    BY <1>0, <1>3 DEF RightCode, Reached, Handler
  <1>4. CASE \E q \in Request : SaveConsumed(q)
    <2>1. PICK q \in Request : SaveConsumed(q)
      BY <1>4
    <2>2. CASE Reply(q)
      BY <1>1, <2>2
    <2>3. CASE Reached(q, "accept") /\ req' = [req EXCEPT ![q].pc = "token"]
      BY <1>0, <2>1, <2>3 DEF SaveConsumed, Reached, Handler
    <2>4. CASE Reached(q, "invalidate") /\ req' = [req EXCEPT ![q].pc = "create"]
      BY <1>0, <2>4 DEF Reached, Handler
    <2> QED BY <2>1, <2>2, <2>3, <2>4 DEF SaveConsumed
  <1>5. CASE \E q \in Request : WrongCode(q) \/ SendToken(q) \/ CreateNext(q) \/ Fail(q)
    BY <1>1, <1>5 DEF WrongCode, SendToken, CreateNext, Fail
  <1>6. CASE Login \/ \E k \in DOMAIN challenges : Expires(k) \/ CooledDown(k)
    BY <1>6 DEF Login, Expires, CooledDown, Reached
  <1> QED BY <1>2, <1>3, <1>4, <1>5, <1>6 DEF MfaNext

\* Who holds a challenge after a step held it before, or it was live.
LEMMA HoldersOnlyLeave ==
    ASSUME MfaInv, MfaNext, NEW r \in Request, NEW c, Holds(r, c)'
    PROVE  Holds(r, c) \/ (c \in DOMAIN challenges /\ ~challenges[c].consumed)
  <1>0. req \in [Request -> Handler]
    BY DEF MfaInv, MfaTypeOK
  <1>1. ASSUME NEW q \in Request, Reply(q) PROVE Holds(r, c)
    BY <1>0, <1>1 DEF Reply, NoRequest, Holds
  <1>2. CASE \E q \in Request, k \in DOMAIN challenges : VerifyRead(q, k) \/ ResendRead(q, k)
    BY <1>0, <1>2 DEF VerifyRead, ResendRead, Live, Holds
  <1>3. CASE \E q \in Request : RightCode(q)
    BY <1>0, <1>3 DEF RightCode, Reached, Handler, Holds
  <1>4. CASE \E q \in Request : SaveConsumed(q)
    <2>1. PICK q \in Request : SaveConsumed(q)
      BY <1>4
    <2>2. CASE Reply(q)
      BY <1>1, <2>2
    <2>3. CASE Reached(q, "accept") /\ req' = [req EXCEPT ![q].pc = "token"]
      BY <1>0, <2>3 DEF Reached, Handler, Holds
    <2>4. CASE Reached(q, "invalidate") /\ req' = [req EXCEPT ![q].pc = "create"]
      BY <1>0, <2>4 DEF Reached, Handler, Holds
    <2> QED BY <2>1, <2>2, <2>3, <2>4 DEF SaveConsumed
  <1>5. CASE \E q \in Request : WrongCode(q) \/ SendToken(q) \/ CreateNext(q) \/ Fail(q)
    BY <1>1, <1>5 DEF WrongCode, SendToken, CreateNext, Fail
  <1>6. CASE Login \/ \E k \in DOMAIN challenges : Expires(k) \/ CooledDown(k)
    BY <1>6 DEF Login, Expires, CooledDown, Holds
  <1> QED BY <1>2, <1>3, <1>4, <1>5, <1>6 DEF MfaNext

\* What a step does to the tokens of a challenge.
LEMMA StepTokens ==
    ASSUME MfaInv, MfaNext, NEW c \in DOMAIN challenges
    PROVE  \/ challenges'[c].tokens = challenges[c].tokens
           \/ \E r \in Request : /\ Reached(r, "token") /\ req[r].c = c /\ Reply(r)
                                 /\ challenges'[c].tokens = challenges[c].tokens + 1
  <1>0. /\ challenges \in Seq(Challenge)
        /\ \A k \in DOMAIN challenges : challenges[k] \in Challenge
        /\ \A r \in Request : ~Reached(r, "idle") => req[r].c \in DOMAIN challenges
    BY Documents
  <1>1. CASE UNCHANGED challenges
    BY <1>1
  <1>2. CASE \E d : challenges' = Append(challenges, d)
    BY <1>0, <1>2
  <1>a. ASSUME NEW k \in DOMAIN challenges, NEW d, challenges' = [challenges EXCEPT ![k] = d],
               d.tokens = challenges[k].tokens
        PROVE  challenges'[c].tokens = challenges[c].tokens
    BY <1>0, <1>a
  <1>3. ASSUME NEW r \in Request, WrongCode(r) \/ SaveConsumed(r)
        PROVE  challenges'[c].tokens = challenges[c].tokens
    <2>1. PICK k \in DOMAIN challenges : k = req[r].c
      BY <1>0, <1>3 DEF WrongCode, SaveConsumed, Reached
    <2>o. PICK old \in Challenge : old = challenges[k]
      BY <1>0
    <2>2. CASE WrongCode(r)
      <3>1. PICK d : /\ challenges' = [challenges EXCEPT ![k] = d]
                     /\ d = [old EXCEPT !.failed = req[r].failed + 1,
                               !.consumed = @ \/ req[r].failed + 1 >= MaxAttempts,
                               !.wrong = @ + 1]
        BY <1>0, <2>1, <2>2, <2>o DEF WrongCode
      <3>2. d.tokens = old.tokens
        BY <3>1 DEF Challenge
      <3> QED
        BY <1>a, <2>o, <3>1, <3>2
    <2>3. CASE SaveConsumed(r)
      <3>1. PICK d : /\ challenges' = [challenges EXCEPT ![k] = d]
                     /\ d = [old EXCEPT !.consumed = TRUE]
        BY <1>0, <2>1, <2>3, <2>o DEF SaveConsumed
      <3>2. d.tokens = old.tokens
        BY <3>1 DEF Challenge
      <3> QED
        BY <1>a, <2>o, <3>1, <3>2
    <2> QED
      BY <1>3, <2>2, <2>3
  <1>4. ASSUME NEW r \in Request, SendToken(r)
        PROVE  \/ challenges'[c].tokens = challenges[c].tokens
               \/ /\ Reached(r, "token") /\ req[r].c = c /\ Reply(r)
                  /\ challenges'[c].tokens = challenges[c].tokens + 1
    BY <1>0, <1>4 DEF SendToken, Challenge
  <1>5. ASSUME NEW k \in DOMAIN challenges, Expires(k) \/ CooledDown(k)
        PROVE  challenges'[c].tokens = challenges[c].tokens
    <2>o. PICK old \in Challenge : old = challenges[k]
      BY <1>0
    <2>1. PICK d : /\ challenges' = [challenges EXCEPT ![k] = d]
                   /\ d = [old EXCEPT !.expired = TRUE] \/ d = [old EXCEPT !.cooling = FALSE]
      BY <1>0, <1>5, <2>o DEF Expires, CooledDown
    <2>2. d.tokens = old.tokens
      BY <2>1 DEF Challenge
    <2> QED
      BY <1>a, <2>o, <2>1, <2>2
  <1> QED
    BY <1>1, <1>2, <1>3, <1>4, <1>5
    DEF MfaNext, Login, VerifyRead, ResendRead, RightCode, CreateNext, Fail

LEMMA TokenInvKept == MfaInv /\ TokenInv /\ [MfaNext]_mfaVars => TokenInv'
  <1> SUFFICES ASSUME MfaInv, TokenInv, MfaNext PROVE TokenInv'
    BY DEF TokenInv, Reached, Holding, Holds, mfaVars
  <1>0. /\ challenges \in Seq(Challenge) /\ req \in [Request -> Handler]
        /\ \A c \in DOMAIN challenges : challenges[c] \in Challenge /\ challenges[c].tokens \in Nat
        /\ \A r \in Request : ~Reached(r, "idle") => req[r].c \in DOMAIN challenges
    BY Documents
  <1>1. \A c \in DOMAIN challenges :
           c \in DOMAIN challenges' /\ (challenges[c].consumed => challenges'[c].consumed)
    BY <1>0, StepSaves DEF Saved
  <1>2. ASSUME NEW c \in DOMAIN challenges', c \notin DOMAIN challenges
        PROVE  challenges'[c].tokens = 0
    <2>1. CASE Len(challenges') = Len(challenges) /\ challenges' \in Seq(Challenge)
      BY <1>0, <1>2, <2>1
    <2>2. ASSUME NEW resends, NEW parent,
                 challenges' = Append(challenges, NewChallenge(resends, parent))
          PROVE  challenges'[c].tokens = 0
      <3>1. PICK d : d = NewChallenge(resends, parent)
        OBVIOUS
      <3>2. d.tokens = 0
        BY <3>1 DEF NewChallenge
      <3>3. challenges'[c] = d
        BY <1>0, <1>2, <2>2, <3>1
      <3> QED
        BY <3>2, <3>3
    <2> QED
      BY <2>1, <2>2, StepSaves
  <1>3. ASSUME NEW r \in Request, Reached(r, "token")' PROVE challenges'[req'[r].c].consumed
    <2>1. req'[r].c = req[r].c
      BY <1>3, TokenByConsuming
    <2>2. CASE Reached(r, "token")
      BY <1>0, <1>1, <2>1, <2>2 DEF TokenInv, Reached
    <2>3. CASE Reached(r, "accept") /\ challenges' = [challenges EXCEPT ![req[r].c].consumed = TRUE]
      <3>1. PICK k \in DOMAIN challenges : k = req[r].c
        BY <1>0, <2>3 DEF Reached
      <3>2. PICK old \in Challenge : old = challenges[k]
        BY <1>0
      <3>3. challenges'[k] = [old EXCEPT !.consumed = TRUE]
        BY <1>0, <2>3, <3>1, <3>2
      <3> QED
        BY <2>1, <3>1, <3>3 DEF Challenge
    <2> QED
      BY <1>3, <2>2, <2>3, TokenByConsuming
  <1>4. ASSUME NEW c \in DOMAIN challenges'
        PROVE  /\ ~challenges'[c].consumed => challenges'[c].tokens = 0
               /\ challenges'[c].tokens + Cardinality(Holding(c)') <= Cardinality(Request)
    <2> DEFINE S == Holding(c)
               T == Holding(c)'
    <2>1. S \in SUBSET Request /\ T \in SUBSET Request
      BY DEF Holding
    <2>2. Cardinality(T) \in Nat /\ Cardinality(T) <= Cardinality(Request)
          /\ Cardinality(Request) \in Nat /\ Cardinality(S) \in Nat
      <3> HIDE DEF S, T
      <3> QED BY <2>1, HoldingIs
    <2>3. CASE c \notin DOMAIN challenges
      BY <1>2, <2>2, <2>3
    <2>4. CASE c \in DOMAIN challenges
      <3>1. /\ challenges[c].tokens \in Nat
            /\ ~challenges[c].consumed => challenges[c].tokens = 0
            /\ challenges[c].tokens + Cardinality(S) <= Cardinality(Request)
        BY <1>0, <2>4 DEF TokenInv
      <3>2. challenges[c].consumed => T \subseteq S
        BY HoldersOnlyLeave DEF Holding
      <3>3. CASE challenges'[c].tokens = challenges[c].tokens
        <4>1. CASE ~challenges[c].consumed
          BY <2>2, <3>1, <3>3, <4>1
        <4>2. CASE challenges[c].consumed
          <5>1. Cardinality(T) <= Cardinality(S)
            <6> HIDE DEF S, T
            <6> QED BY <2>1, <3>2, <4>2, HoldingIs
          <5> HIDE DEF S, T
          <5>2. challenges[c].tokens + Cardinality(T) <= Cardinality(Request)
            BY <2>2, <3>1, <5>1
          <5> QED
            BY <1>1, <2>4, <3>3, <4>2, <5>2 DEF T
        <4> QED BY <4>1, <4>2
      <3>4. ASSUME NEW r \in Request, Reached(r, "token"), req[r].c = c, Reply(r),
                   challenges'[c].tokens = challenges[c].tokens + 1
            PROVE  /\ ~challenges'[c].consumed => challenges'[c].tokens = 0
                   /\ challenges'[c].tokens + Cardinality(T) <= Cardinality(Request)
        <4>1. challenges[c].consumed /\ r \in S
          BY <3>4 DEF TokenInv, Reached, Holding, Holds
        <4>2. T \subseteq S \ {r}
          <5>1. r \notin T
            BY <1>0, <3>4 DEF Holding, Holds, Reply, NoRequest
          <5> HIDE DEF S, T
          <5> QED BY <3>2, <4>1, <5>1
        <4> HIDE DEF S, T
        <4>3. Cardinality(S \ {r}) = Cardinality(S) - 1
          BY <2>1, <4>1, HoldingIs
        <4>4. S \ {r} \in SUBSET Request /\ T \in SUBSET (S \ {r})
          BY <2>1, <4>2
        <4>5. Cardinality(T) <= Cardinality(S \ {r})
          BY <4>4, HoldingIs
        <4>6. challenges[c].tokens + 1 + Cardinality(T) <= Cardinality(Request)
          BY <2>2, <3>1, <4>3, <4>5
        <4> QED
          BY <1>1, <2>4, <3>4, <4>1, <4>6
      <3> QED
        BY <2>4, <3>3, <3>4, StepTokens
    <2> QED BY <2>3, <2>4
  <1> QED
    BY <1>3, <1>4 DEF TokenInv, Reached

\* A challenge yields at most one token for each handler that was in flight
\* when it was consumed, and none before.
THEOREM TokensAreBounded == MfaSpec => []TokensBounded
  <1>1. MfaInit => TokenInv
    BY DEF MfaInit, TokenInv, Reached, NoRequest
  <1>2. MfaInv /\ TokenInv => TokensBounded
    <2> SUFFICES ASSUME MfaInv, TokenInv, NEW c \in DOMAIN challenges
                 PROVE  /\ challenges[c].tokens <= Cardinality(Request)
                        /\ challenges[c].tokens > 0 => challenges[c].consumed
      BY DEF TokensBounded
    <2>1. challenges[c].tokens \in Nat
      BY Documents
    <2>2. Holding(c) \in SUBSET Request
      BY DEF Holding
    <2>3. Cardinality(Holding(c)) \in Nat /\ Cardinality(Request) \in Nat
      BY <2>2, HoldingIs
    <2> QED
      BY <2>1, <2>3 DEF TokenInv
  <1> QED
    BY <1>1, <1>2, TokenInvKept, MfaInvariant, PTL DEF MfaSpec

-----------------------------------------------------------------------------
(***************************************************************************)
(* Arithmetic for the count of wrong answers.  The induction theorems of   *)
(* the library take an operator as a parameter, so induction is stated     *)
(* here of a set of numbers.                                               *)
(***************************************************************************)
LEMMA Induction ==
    ASSUME NEW S \in SUBSET Nat, 0 \in S, \A n \in S : n + 1 \in S
    PROVE  S = Nat
  <1> DEFINE T == Nat \ S
  <1> SUFFICES ASSUME T # {} PROVE FALSE
    OBVIOUS
  <1>1. \E R : /\ \E x \in T : \A y \in T : ~(<<y, x>> \in R)
               /\ R = {ss \in Nat \X Nat : ss[1] < ss[2]}
    <2>1. IsWellFoundedOn({ss \in Nat \X Nat : ss[1] < ss[2]}, Nat)
      BY NatLessThanWellFounded DEF OpToRel
    <2> DEFINE R == {ss \in Nat \X Nat : ss[1] < ss[2]}
    <2>2. IsWellFoundedOn(R, Nat)
      BY <2>1
    <2> HIDE DEF R
    <2>3. T \subseteq Nat
      OBVIOUS
    <2> HIDE DEF T
    <2>4. \E x \in T : \A y \in T : ~(<<y, x>> \in R)
      BY <2>2, <2>3, WFMin
    <2> QED
      BY <2>4 DEF R
  <1>2. PICK x \in T : \A y \in T : ~(y < x)
    BY <1>1
  <1>3. x # 0 /\ x - 1 \in Nat /\ x - 1 < x
    BY <1>2
  <1> QED
    BY <1>2, <1>3

Unfolds(g, n) ==
    /\ g \in [0..n -> Nat \ {0}]
    /\ g[0] = 1
    /\ \A i \in 1..n : g[i] = i * g[i - 1]

LEMMA FactorialUnfolds ==
    ASSUME NEW n \in Nat
    PROVE  \E g : Unfolds(g, n)
  <1> DEFINE S == {k \in Nat : \E g : Unfolds(g, k)}
  <1>1. 0 \in S
    <2>1. Unfolds([i \in 0..0 |-> 1], 0)
      BY DEF Unfolds
    <2> QED
      BY <2>1
  <1>2. ASSUME NEW k \in S PROVE k + 1 \in S
    <2>1. PICK g : Unfolds(g, k)
      BY <1>2
    <2>2. g[k] \in Nat \ {0} /\ k \in Nat
      BY <2>1 DEF Unfolds
    <2>3. PICK v \in Nat \ {0} : v = (k + 1) * g[k]
      <3>1. \A a, b \in Nat \ {0} : a * b \in Nat \ {0}
        OBVIOUS
      <3>2. k + 1 \in Nat \ {0}
        BY <2>2
      <3> QED
        BY <2>2, <3>1, <3>2
    <2> DEFINE h == [i \in 0..(k + 1) |-> IF i = k + 1 THEN v ELSE g[i]]
    <2>4. h \in [0..(k + 1) -> Nat \ {0}] /\ h[0] = 1
      BY <2>1, <2>2 DEF Unfolds
    <2>5. \A i \in 1..(k + 1) : h[i] = i * h[i - 1]
      <3>1. h[k + 1] = (k + 1) * h[k]
        BY <2>2, <2>3
      <3>2. \A i \in 1..k : h[i] = i * h[i - 1]
        BY <2>1, <2>2 DEF Unfolds
      <3>3. \A i \in 1..(k + 1) : i = k + 1 \/ i \in 1..k
        BY <2>2
      <3>4. (k + 1) - 1 = k
        BY <2>2
      <3> HIDE DEF h
      <3> QED
        BY <3>1, <3>2, <3>3, <3>4
    <2>6. Unfolds(h, k + 1)
      BY <2>4, <2>5 DEF Unfolds
    <2> QED
      BY <2>2, <2>6
  <1>3. S = Nat
    <2> HIDE DEF S
    <2>1. S \subseteq Nat
      BY DEF S
    <2> QED
      BY <1>1, <1>2, <2>1, Induction
  <1> QED
    BY <1>3

LEMMA UnfoldsOnce ==
    ASSUME NEW n \in Nat, NEW g, Unfolds(g, n), NEW m \in Nat, NEW h, Unfolds(h, m), m <= n
    PROVE  g[m] = h[m]
  <1> DEFINE S == {i \in Nat : i <= m => g[i] = h[i]}
  <1>1. 0 \in S
    BY DEF Unfolds
  <1>2. ASSUME NEW k \in S PROVE k + 1 \in S
    <2>1. k \in Nat /\ (k <= m => g[k] = h[k])
      OBVIOUS
    <2>2. ASSUME k + 1 <= m PROVE g[k + 1] = h[k + 1]
      <3>1. k + 1 \in 1..n /\ k + 1 \in 1..m /\ (k + 1) - 1 = k /\ k <= m
        BY <2>1, <2>2
      <3>2. g[k + 1] = (k + 1) * g[k] /\ h[k + 1] = (k + 1) * h[k]
        BY <3>1 DEF Unfolds
      <3> QED
        BY <2>1, <3>1, <3>2
    <2> QED
      BY <2>1, <2>2
  <1>3. S = Nat
    <2> HIDE DEF S
    <2>1. S \subseteq Nat
      BY DEF S
    <2> QED
      BY <1>1, <1>2, <2>1, Induction
  <1> QED
    BY <1>3

LEMMA Factorial ==
    /\ factorial[0] = 1
    /\ \A n \in Nat : factorial[n] \in Nat \ {0} /\ factorial[n + 1] = (n + 1) * factorial[n]
  <1> DEFINE f == [n \in Nat |-> (CHOOSE g : Unfolds(g, n))[n]]
  <1>1. ASSUME NEW n \in Nat PROVE Unfolds(CHOOSE g : Unfolds(g, n), n)
    BY FactorialUnfolds
  <1>2. f[0] = 1
    BY <1>1 DEF Unfolds
  <1>3. ASSUME NEW n \in Nat PROVE f[n] \in Nat \ {0} /\ f[n + 1] = (n + 1) * f[n]
    <2>1. PICK g : Unfolds(g, n) /\ f[n] = g[n]
      BY <1>1
    <2>2. n + 1 \in Nat
      OBVIOUS
    <2>3. PICK h : Unfolds(h, n + 1) /\ f[n + 1] = h[n + 1]
      BY <1>1, <2>2
    <2>4. h[n] = g[n]
      BY <2>1, <2>2, <2>3, UnfoldsOnce
    <2>5. g[n] \in Nat \ {0}
      BY <2>1 DEF Unfolds
    <2>6. h[n + 1] = (n + 1) * h[n]
      BY <2>3 DEF Unfolds
    <2> HIDE DEF f
    <2> QED
      BY <2>1, <2>3, <2>4, <2>5, <2>6
  <1>4. f = [n \in Nat |-> IF n = 0 THEN 1 ELSE n * f[n - 1]]
    <2>1. ASSUME NEW n \in Nat PROVE f[n] = IF n = 0 THEN 1 ELSE n * f[n - 1]
      <3>1. CASE n = 0
        BY <1>2, <3>1
      <3>2. CASE n # 0
        <4>1. n - 1 \in Nat /\ (n - 1) + 1 = n
          BY <3>2
        <4>2. f[(n - 1) + 1] = ((n - 1) + 1) * f[n - 1]
          BY <1>3, <4>1
        <4> HIDE DEF f
        <4> QED
          BY <3>2, <4>1, <4>2
      <3> QED
        BY <3>1, <3>2
    <2>2. f = [n \in Nat |-> f[n]]
      OBVIOUS
    <2> HIDE DEF f
    <2> QED
      BY <2>1, <2>2
  <1>5. factorial = [n \in Nat |-> IF n = 0 THEN 1 ELSE n * factorial[n - 1]]
    <2> HIDE DEF f
    <2> QED
      BY <1>4 DEF factorial
  <1>6. factorial[0] = 1
    BY <1>5
  <1>7. ASSUME NEW n \in Nat PROVE factorial[n + 1] = (n + 1) * factorial[n]
    <2>1. n + 1 \in Nat /\ n + 1 # 0 /\ (n + 1) - 1 = n
      OBVIOUS
    <2> QED
      BY <1>5, <2>1
  <1> DEFINE S == {n \in Nat : factorial[n] \in Nat \ {0}}
  <1>8. \A n \in S : n + 1 \in S
    <2>1. \A a, b \in Nat \ {0} : a * b \in Nat \ {0}
      OBVIOUS
    <2>2. ASSUME NEW n \in S PROVE factorial[n + 1] \in Nat \ {0}
      <3>1. n + 1 \in Nat \ {0} /\ factorial[n] \in Nat \ {0}
        OBVIOUS
      <3> QED
        BY <1>7, <2>1, <3>1
    <2> QED
      BY <2>2
  <1>9. S = Nat
    <2>1. S \subseteq Nat /\ 0 \in S
      BY <1>6
    <2> HIDE DEF S
    <2> QED
      BY <1>8, <2>1, Induction
  <1> QED
    BY <1>6, <1>7, <1>9

-----------------------------------------------------------------------------
Curves(m, n) == {f \in [1..m -> 0..n] : \A x, y \in 1..m : x <= y => f[x] <= f[y]}

LEMMA CurvesOfNothing ==
    ASSUME NEW m \in Nat, NEW n \in Nat, m = 0 \/ n = 0
    PROVE  IsFiniteSet(Curves(m, n)) /\ Cardinality(Curves(m, n)) = 1
  <1> DEFINE flat == [x \in 1..m |-> 0]
  <1>1. flat \in Curves(m, n)
    BY DEF Curves
  <1>2. ASSUME NEW f \in Curves(m, n) PROVE f = flat
    <2>1. f \in [1..m -> 0..n]
      BY DEF Curves
    <2>2. \A x \in 1..m : f[x] = 0
      BY <2>1
    <2> QED
      BY <2>1, <2>2
  <1>3. Curves(m, n) = {flat}
    BY <1>1, <1>2
  <1> QED
    BY <1>3, FS_Singleton

LEMMA CurvesSplit ==
    ASSUME NEW m \in Nat \ {0}, NEW n \in Nat \ {0},
           IsFiniteSet(Curves(m - 1, n)), IsFiniteSet(Curves(m, n - 1))
    PROVE  /\ IsFiniteSet(Curves(m, n))
           /\ Cardinality(Curves(m, n)) =
                Cardinality(Curves(m - 1, n)) + Cardinality(Curves(m, n - 1))
  <1> DEFINE Top == {f \in Curves(m, n) : f[m] = n}
             Low == Curves(m, n - 1)
             Raised(g) == [x \in 1..m |-> IF x = m THEN n ELSE g[x]]
             raise == [g \in Curves(m - 1, n) |-> Raised(g)]
  <1>0. /\ 1..m = 1..(m - 1) \cup {m} /\ m \notin 1..(m - 1) /\ m - 1 \in Nat
        /\ 0..n = 0..(n - 1) \cup {n} /\ n \notin 0..(n - 1) /\ n - 1 \in Nat
    OBVIOUS
  <1>1. Curves(m, n) = Top \cup Low
    <2>1. ASSUME NEW f \in Curves(m, n), f[m] # n PROVE f \in Low
      <3>1. f \in [1..m -> 0..n] /\ \A x, y \in 1..m : x <= y => f[x] <= f[y]
        BY DEF Curves
      <3>2. ASSUME NEW x \in 1..m PROVE f[x] \in 0..(n - 1)
        <4>1. m \in 1..m /\ x <= m
          OBVIOUS
        <4>2. f[x] <= f[m] /\ f[m] \in 0..n /\ f[x] \in 0..n
          BY <3>1, <4>1
        <4> QED
          BY <2>1, <4>2
      <3>3. f \in [1..m -> 0..(n - 1)]
        BY <3>1, <3>2
      <3> QED
        BY <3>1, <3>3 DEF Curves
    <2>2. ASSUME NEW f \in Low PROVE f \in Curves(m, n)
      <3>1. f \in [1..m -> 0..(n - 1)] /\ \A x, y \in 1..m : x <= y => f[x] <= f[y]
        BY DEF Curves
      <3>2. f \in [1..m -> 0..n]
        BY <1>0, <3>1
      <3> QED
        BY <3>1, <3>2 DEF Curves
    <2> QED
      BY <2>1, <2>2
  <1>2. Top \cap Low = {}
    <2>1. ASSUME NEW f \in Low PROVE f[m] # n
      <3>1. f \in [1..m -> 0..(n - 1)] /\ m \in 1..m
        BY DEF Curves
      <3> QED
        BY <1>0, <3>1
    <2> QED
      BY <2>1
  <1>3. ASSUME NEW g \in Curves(m - 1, n)
        PROVE  Raised(g) \in Top
    <2>1. g \in [1..(m - 1) -> 0..n] /\ \A x, y \in 1..(m - 1) : x <= y => g[x] <= g[y]
      BY DEF Curves
    <2>2. Raised(g) \in [1..m -> 0..n] /\ Raised(g)[m] = n
      BY <1>0, <2>1
    <2>3. ASSUME NEW x \in 1..m, NEW y \in 1..m, x <= y
          PROVE  Raised(g)[x] <= Raised(g)[y]
      <3>1. CASE y = m
        BY <2>2, <3>1
      <3>2. CASE y # m
        <4>1. x \in 1..(m - 1) /\ y \in 1..(m - 1) /\ x # m
          BY <2>3, <3>2
        <4> QED
          BY <2>1, <2>3, <3>2, <4>1
      <3> QED
        BY <3>1, <3>2
    <2> QED
      BY <2>2, <2>3 DEF Curves
  <1>4. ASSUME NEW f \in Top
        PROVE  \E g \in Curves(m - 1, n) : Raised(g) = f
    <2>1. /\ f \in [1..m -> 0..n] /\ f[m] = n
          /\ \A x, y \in 1..m : x <= y => f[x] <= f[y]
      BY DEF Curves
    <2> DEFINE g == [x \in 1..(m - 1) |-> f[x]]
    <2>2. g \in [1..(m - 1) -> 0..n]
      BY <1>0, <2>1
    <2>3. \A x, y \in 1..(m - 1) : x <= y => g[x] <= g[y]
      BY <1>0, <2>1
    <2>4. g \in Curves(m - 1, n)
      BY <2>2, <2>3 DEF Curves
    <2>5. \A x \in 1..m : Raised(g)[x] = f[x]
      BY <1>0, <2>1
    <2>6. Raised(g) = f
      BY <2>1, <2>5
    <2> QED
      BY <2>4, <2>6
  <1>5. ASSUME NEW g \in Curves(m - 1, n), NEW h \in Curves(m - 1, n), Raised(g) = Raised(h)
        PROVE  g = h
    <2>1. g \in [1..(m - 1) -> 0..n] /\ h \in [1..(m - 1) -> 0..n]
      BY DEF Curves
    <2>2. ASSUME NEW x \in 1..(m - 1) PROVE g[x] = h[x]
      <3>1. x \in 1..m /\ x # m
        BY <1>0
      <3>2. Raised(g)[x] = Raised(h)[x]
        BY <1>5
      <3> QED
        BY <3>1, <3>2
    <2> QED
      BY <2>1, <2>2
  <1>6. ExistsBijection(Curves(m - 1, n), Top)
    <2> HIDE DEF Raised, Top
    <2>1. raise \in [Curves(m - 1, n) -> Top]
      BY <1>3
    <2>2. \A f \in Top : \E g \in Curves(m - 1, n) : raise[g] = f
      BY <1>4
    <2>3. \A g, h \in Curves(m - 1, n) : raise[g] = raise[h] => g = h
      BY <1>5
    <2> HIDE DEF raise
    <2>4. raise \in Bijection(Curves(m - 1, n), Top)
      BY <2>1, <2>2, <2>3 DEF Bijection, Injection, Surjection, IsInjective
    <2> QED
      BY <2>4 DEF ExistsBijection
  <1>7. IsFiniteSet(Top) /\ Cardinality(Top) = Cardinality(Curves(m - 1, n))
    <2> HIDE DEF Top
    <2> QED
      BY <1>6, FS_Bijection
  <1> HIDE DEF Top, Low
  <1>8. /\ IsFiniteSet(Top \cup Low)
        /\ Cardinality(Top \cup Low) = Cardinality(Top) + Cardinality(Low) - Cardinality({})
    BY <1>2, <1>7, FS_Union DEF Low
  <1>9. Cardinality(Top) \in Nat /\ Cardinality(Low) \in Nat
    BY <1>7, FS_CardinalityType DEF Low
  <1>10. Cardinality(Top \cup Low) = Cardinality(Top) + Cardinality(Low)
    BY <1>8, <1>9, FS_EmptySet
  <1> QED
    BY <1>1, <1>7, <1>8, <1>10 DEF Low

Counted(m, n) ==
    /\ IsFiniteSet(Curves(m, n))
    /\ Cardinality(Curves(m, n)) * (factorial[m] * factorial[n]) = factorial[m + n]

LEMMA Pascal ==
    ASSUME NEW a \in Nat, NEW b \in Nat, NEW p \in Nat, NEW q \in Nat, NEW m \in Nat, NEW n \in Nat,
           NEW F \in Nat, a * (p * (n * q)) = F, b * ((m * p) * q) = F
    PROVE  (a + b) * ((m * p) * (n * q)) = (m + n) * F
  <1>1. a * ((m * p) * (n * q)) = m * (a * (p * (n * q)))
    OBVIOUS
  <1>2. b * ((m * p) * (n * q)) = n * (b * ((m * p) * q))
    OBVIOUS
  <1>3. (a + b) * ((m * p) * (n * q)) = a * ((m * p) * (n * q)) + b * ((m * p) * (n * q))
    OBVIOUS
  <1>4. (a + b) * ((m * p) * (n * q)) = m * F + n * F
    BY <1>1, <1>2, <1>3
  <1>5. m * F + n * F = (m + n) * F
    OBVIOUS
  <1> QED
    BY <1>4, <1>5

LEMMA CurvesCounted ==
    ASSUME NEW m \in Nat, NEW n \in Nat
    PROVE  Counted(m, n)
  <1>1. ASSUME NEW i \in Nat, NEW j \in Nat, i = 0 \/ j = 0
        PROVE  Counted(i, j)
    <2>1. IsFiniteSet(Curves(i, j)) /\ Cardinality(Curves(i, j)) = 1
      BY <1>1, CurvesOfNothing
    <2>2. factorial[0] = 1 /\ factorial[i] \in Nat /\ factorial[j] \in Nat
      BY Factorial
    <2>3. factorial[i] * factorial[j] = factorial[i + j]
      <3>1. CASE i = 0
        <4>1. i + j = j
          BY <3>1
        <4> QED
          BY <2>2, <3>1, <4>1
      <3>2. CASE j = 0
        <4>1. i + j = i
          BY <3>2
        <4> QED
          BY <2>2, <3>2, <4>1
      <3> QED
        BY <1>1, <3>1, <3>2
    <2>4. \A a \in Nat : 1 * a = a
      OBVIOUS
    <2>5. i + j \in Nat /\ factorial[i + j] \in Nat
      BY Factorial
    <2> QED
      BY <2>1, <2>3, <2>4, <2>5 DEF Counted
  <1>2. ASSUME NEW i \in Nat \ {0}, NEW j \in Nat \ {0}, Counted(i - 1, j), Counted(i, j - 1)
        PROVE  Counted(i, j)
    <2> DEFINE F == factorial[i + j - 1]
               p == factorial[i - 1]
               q == factorial[j - 1]
               a == Cardinality(Curves(i - 1, j))
               b == Cardinality(Curves(i, j - 1))
    <2>0. /\ i - 1 \in Nat /\ (i - 1) + 1 = i /\ j - 1 \in Nat /\ (j - 1) + 1 = j
          /\ i + j - 1 \in Nat /\ (i + j - 1) + 1 = i + j
          /\ (i - 1) + j = i + j - 1 /\ i + (j - 1) = i + j - 1
      OBVIOUS
    <2>1. /\ factorial[i] = i * p /\ factorial[j] = j * q /\ factorial[i + j] = (i + j) * F
          /\ p \in Nat /\ q \in Nat /\ F \in Nat
      <3>1. \A k \in Nat : factorial[k] \in Nat /\ factorial[k + 1] = (k + 1) * factorial[k]
        BY Factorial
      <3>2. factorial[(i - 1) + 1] = ((i - 1) + 1) * p /\ factorial[(j - 1) + 1] = ((j - 1) + 1) * q
        BY <2>0, <3>1
      <3>3. factorial[(i + j - 1) + 1] = ((i + j - 1) + 1) * F
        BY <2>0, <3>1
      <3>4. p \in Nat /\ q \in Nat /\ F \in Nat
        BY <2>0, <3>1
      <3> HIDE DEF F, p, q
      <3> QED
        BY <2>0, <3>2, <3>3, <3>4
    <2>2. a \in Nat /\ b \in Nat
      BY <1>2, FS_CardinalityType DEF Counted
    <2>3. a * (p * factorial[j]) = F /\ b * (factorial[i] * q) = F
      BY <1>2, <2>0 DEF Counted
    <2>4. IsFiniteSet(Curves(i, j)) /\ Cardinality(Curves(i, j)) = a + b
      BY <1>2, CurvesSplit DEF Counted
    <2> HIDE DEF F, p, q, a, b
    <2>5. (a + b) * ((i * p) * (j * q)) = (i + j) * F
      BY <2>1, <2>2, <2>3, Pascal
    <2> QED
      BY <2>1, <2>4, <2>5 DEF Counted
  <1> DEFINE S == {s \in Nat : \A i \in 0..s : Counted(i, s - i)}
  <1>3. 0 \in S
    BY <1>1
  <1>4. ASSUME NEW s \in S PROVE s + 1 \in S
    <2>1. s \in Nat /\ \A i \in 0..s : Counted(i, s - i)
      OBVIOUS
    <2>2. ASSUME NEW i \in 0..(s + 1) PROVE Counted(i, (s + 1) - i)
      <3>1. CASE i = 0 \/ i = s + 1
        BY <1>1, <2>1, <3>1
      <3>2. CASE i # 0 /\ i # s + 1
        <4> DEFINE j == (s + 1) - i
        <4>1. /\ i \in Nat \ {0} /\ j \in Nat \ {0} /\ i - 1 \in 0..s /\ i \in 0..s
              /\ s - (i - 1) = j /\ s - i = j - 1
          BY <2>1, <3>2
        <4>2. Counted(i - 1, j) /\ Counted(i, j - 1)
          <5> HIDE DEF j
          <5> QED
            BY <2>1, <4>1
        <4> HIDE DEF j
        <4>3. Counted(i, j)
          BY <1>2, <4>1, <4>2
        <4> QED
          BY <4>3 DEF j
      <3> QED
        BY <3>1, <3>2
    <2> QED
      BY <2>1, <2>2
  <1>5. S = Nat
    <2>1. S \subseteq Nat
      OBVIOUS
    <2> HIDE DEF S
    <2> QED
      BY <1>3, <1>4, <2>1, Induction
  <1>6. m + n \in Nat /\ m \in 0..(m + n) /\ (m + n) - m = n
    OBVIOUS
  <1>7. Counted(m, (m + n) - m)
    BY <1>5, <1>6
  <1> QED
    BY <1>6, <1>7

LEMMA Quotient ==
    ASSUME NEW a \in Nat, NEW b \in Nat, b > 0
    PROVE  (a * b) \div b = a
  OBVIOUS

LEMMA CurvesAreChosen ==
    ASSUME NEW m \in Nat, NEW n \in Nat
    PROVE  /\ IsFiniteSet(Curves(m, n))
           /\ choose(m + n, n) = Cardinality(Curves(m, n))
  <1> DEFINE p == factorial[m]
             q == factorial[n]
             k == Cardinality(Curves(m, n))
  <1>1. IsFiniteSet(Curves(m, n)) /\ k * (p * q) = factorial[m + n]
    BY CurvesCounted DEF Counted
  <1>2. p \in Nat \ {0} /\ q \in Nat \ {0} /\ k \in Nat
    BY <1>1, Factorial, FS_CardinalityType
  <1>3. (m + n) - n = m
    OBVIOUS
  <1>4. choose(m + n, n) = (k * (p * q)) \div (q * p)
    BY <1>1, <1>3 DEF choose
  <1> HIDE DEF p, q, k
  <1>5. q * p = p * q /\ p * q \in Nat /\ p * q > 0
    BY <1>2
  <1>6. (k * (p * q)) \div (p * q) = k
    BY <1>2, <1>5, Quotient
  <1> QED
    BY <1>1, <1>4, <1>5, <1>6 DEF k

-----------------------------------------------------------------------------
(***************************************************************************)
(* The wrong answers of a challenge.  A handler stands at the counter it   *)
(* read, if it still compares and the counter has not fallen below that    *)
(* value, and else at the counter itself, which it can read again.  The    *)
(* heights of the handlers, sorted, are a curve; a wrong answer moves to a *)
(* curve that lies below in the order of the lowest difference, all other  *)
(* steps keep the curve or lower it.  So a challenge that is not consumed  *)
(* has no more wrong answers than there are curves, less one.              *)
(***************************************************************************)
Profiles == Curves(MaxAttempts - 1, Cardinality(Request))

\* For each value of the counter, how many handlers stand below it.
Heights(P) ==
    [x \in 1..(MaxAttempts - 1) |-> Cardinality({r \in Request : P[r] < x})]

Below(p, q) ==
    \E x \in 1..(MaxAttempts - 1) : p[x] < q[x] /\ \A y \in 1..(x - 1) : p[y] <= q[y]

\* The curves that cannot be reached again once p is.
Passed(p) == {q \in Profiles : q = p \/ Below(p, q)}

LEMMA ProfilesCounted ==
    /\ IsFiniteSet(Profiles)
    /\ Cardinality(Profiles) \in Nat
    /\ Cardinality(Profiles) = choose(MaxAttempts + Cardinality(Request) - 1, Cardinality(Request))
  <1> DEFINE n == Cardinality(Request)
             m == MaxAttempts - 1
  <1>1. m \in Nat /\ n \in Nat
    BY MfaAssumption, FS_CardinalityType
  <1>2. m + n = MaxAttempts + n - 1
    BY <1>1, MfaAssumption
  <1> HIDE DEF m, n
  <1>3. IsFiniteSet(Curves(m, n)) /\ choose(m + n, n) = Cardinality(Curves(m, n))
    BY <1>1, CurvesAreChosen
  <1> QED
    BY <1>2, <1>3, FS_CardinalityType DEF Profiles, m, n

LEMMA BelowIsAnOrder ==
    ASSUME NEW p \in Profiles, NEW q \in Profiles
    PROVE  /\ ~Below(p, p)
           /\ \A s \in Profiles : Below(p, q) /\ Below(q, s) => Below(p, s)
  <1> DEFINE D == 1..(MaxAttempts - 1)
  <1>1. \A s \in Profiles : \A x \in D : s[x] \in Int
    BY MfaAssumption, FS_CardinalityType DEF Profiles, Curves
  <1>2. ~Below(p, p)
    BY <1>1 DEF Below
  <1>3. ASSUME NEW s \in Profiles, Below(p, q), Below(q, s)
        PROVE  Below(p, s)
    <2>1. PICK x \in D : p[x] < q[x] /\ \A y \in 1..(x - 1) : p[y] <= q[y]
      BY <1>3 DEF Below
    <2>2. PICK z \in D : q[z] < s[z] /\ \A y \in 1..(z - 1) : q[y] <= s[y]
      BY <1>3 DEF Below
    <2>3. CASE x <= z
      <3>1. p[x] < s[x]
        BY <1>1, <2>1, <2>2, <2>3
      <3>2. ASSUME NEW y \in 1..(x - 1) PROVE p[y] <= s[y]
        <4>1. y \in D /\ y \in 1..(z - 1)
          BY <2>3, MfaAssumption
        <4>2. p[y] <= q[y] /\ q[y] <= s[y]
          BY <2>1, <2>2, <4>1
        <4> QED
          BY <1>1, <4>1, <4>2
      <3> QED
        BY <3>1, <3>2 DEF Below
    <2>4. CASE z < x
      <3>1. p[z] < s[z]
        <4>1. p[z] <= q[z]
          BY <2>1, <2>4
        <4> QED
          BY <1>1, <2>2, <4>1
      <3>2. ASSUME NEW y \in 1..(z - 1) PROVE p[y] <= s[y]
        <4>1. y \in D /\ y \in 1..(x - 1)
          BY <2>4, MfaAssumption
        <4>2. p[y] <= q[y] /\ q[y] <= s[y]
          BY <2>1, <2>2, <4>1
        <4> QED
          BY <1>1, <4>1, <4>2
      <3> QED
        BY <3>1, <3>2 DEF Below
    <2> QED
      BY <2>3, <2>4
  <1> QED
    BY <1>2, <1>3

\* A step downwards passes one curve at least.
LEMMA PassedGrows ==
    ASSUME NEW p \in Profiles, NEW q \in Profiles
    PROVE  /\ Cardinality(Passed(p)) \in 1..Cardinality(Profiles)
           /\ Below(p, q) => Cardinality(Passed(q)) + 1 <= Cardinality(Passed(p))
  <1>1. \A s \in Profiles : /\ Passed(s) \in SUBSET Profiles /\ s \in Passed(s)
                            /\ IsFiniteSet(Passed(s))
                            /\ Cardinality(Passed(s)) \in Nat
                            /\ Cardinality(Passed(s)) <= Cardinality(Profiles)
    <2> SUFFICES ASSUME NEW s \in Profiles
                 PROVE  /\ Passed(s) \in SUBSET Profiles /\ s \in Passed(s)
                        /\ IsFiniteSet(Passed(s))
                        /\ Cardinality(Passed(s)) \in Nat
                        /\ Cardinality(Passed(s)) <= Cardinality(Profiles)
      OBVIOUS
    <2>1. Passed(s) \in SUBSET Profiles /\ s \in Passed(s)
      BY DEF Passed
    <2>2. IsFiniteSet(Passed(s)) /\ Cardinality(Passed(s)) <= Cardinality(Profiles)
      BY <2>1, ProfilesCounted, FS_Subset
    <2> QED
      BY <2>1, <2>2, FS_CardinalityType
  <1>2. Cardinality(Passed(p)) # 0
    BY <1>1, FS_EmptySet
  <1>3. ASSUME Below(p, q)
        PROVE  Cardinality(Passed(q)) + 1 <= Cardinality(Passed(p))
    <2>1. p \notin Passed(q)
      <3>1. ~Below(p, p) /\ (Below(p, q) /\ Below(q, p) => Below(p, p))
        BY BelowIsAnOrder
      <3> QED
        BY <1>3, <3>1 DEF Passed
    <2>2. Passed(q) \subseteq Passed(p)
      <3>1. \A s \in Profiles : Below(p, q) /\ Below(q, s) => Below(p, s)
        BY BelowIsAnOrder
      <3> QED
        BY <1>3, <3>1 DEF Passed
    <2>3. Passed(q) \cup {p} \in SUBSET Passed(p)
      BY <1>1, <2>2
    <2>4. Cardinality(Passed(q) \cup {p}) = Cardinality(Passed(q)) + 1
      BY <1>1, <2>1, FS_AddElement
    <2>5. Cardinality(Passed(q) \cup {p}) <= Cardinality(Passed(p))
      BY <1>1, <2>3, FS_Subset
    <2> QED
      BY <2>4, <2>5
  <1> QED
    BY <1>1, <1>2, <1>3, ProfilesCounted

LEMMA HeightsAreProfiles ==
    ASSUME NEW P \in [Request -> Nat]
    PROVE  Heights(P) \in Profiles
  <1> DEFINE D == 1..(MaxAttempts - 1)
             U(x) == {r \in Request : P[r] < x}
  <1>1. \A x \in D : U(x) \in SUBSET Request
    OBVIOUS
  <1>2. ASSUME NEW x \in D PROVE Cardinality(U(x)) \in 0..Cardinality(Request)
    <2>1. U(x) \in SUBSET Request
      OBVIOUS
    <2> HIDE DEF U
    <2> QED
      BY <2>1, HoldingIs
  <1>3. ASSUME NEW x \in D, NEW y \in D, x <= y
        PROVE  Cardinality(U(x)) <= Cardinality(U(y))
    <2>1. U(x) \in SUBSET U(y) /\ U(y) \in SUBSET Request
      BY <1>3
    <2> HIDE DEF U
    <2> QED
      BY <2>1, HoldingIs
  <1> HIDE DEF U
  <1>4. Heights(P) = [x \in D |-> Cardinality(U(x))]
    BY DEF Heights, U
  <1> QED
    BY <1>2, <1>3, <1>4 DEF Profiles, Curves

\* Handlers that rise leave fewer below every value.
LEMMA HeightsFall ==
    ASSUME NEW P \in [Request -> Nat], NEW Q \in [Request -> Nat],
           \A r \in Request : P[r] <= Q[r]
    PROVE  Heights(Q) = Heights(P) \/ Below(Heights(Q), Heights(P))
  <1> DEFINE D == 1..(MaxAttempts - 1)
  <1>1. ASSUME NEW x \in D PROVE Heights(Q)[x] <= Heights(P)[x]
    <2> DEFINE S == {r \in Request : Q[r] < x}
               T == {r \in Request : P[r] < x}
    <2>1. S \in SUBSET T /\ T \in SUBSET Request
      OBVIOUS
    <2>2. Heights(Q)[x] = Cardinality(S) /\ Heights(P)[x] = Cardinality(T)
      BY DEF Heights
    <2> HIDE DEF S, T
    <2> QED
      BY <2>1, <2>2, HoldingIs
  <1>2. \A x \in D : Heights(Q)[x] \in Int /\ Heights(P)[x] \in Int
    BY HeightsAreProfiles, MfaAssumption, FS_CardinalityType DEF Profiles, Curves
  <1>3. CASE \A x \in D : Heights(Q)[x] = Heights(P)[x]
    BY <1>3 DEF Heights
  <1>4. CASE \E x \in D : Heights(Q)[x] # Heights(P)[x]
    <2>1. PICK x \in D : Heights(Q)[x] # Heights(P)[x]
      BY <1>4
    <2>2. Heights(Q)[x] < Heights(P)[x]
      BY <1>1, <1>2, <2>1
    <2>3. \A y \in 1..(x - 1) : y \in D
      BY MfaAssumption
    <2> QED
      BY <1>1, <2>2, <2>3 DEF Below
  <1> QED
    BY <1>3, <1>4

\* A handler that rises past x, where nobody falls below a value up to x.
LEMMA HeightsDrop ==
    ASSUME NEW P \in [Request -> Nat], NEW Q \in [Request -> Nat],
           NEW x \in 1..(MaxAttempts - 1), NEW s \in Request, P[s] < x, ~(Q[s] < x),
           \A r \in Request : \A y \in 1..x : Q[r] < y => P[r] < y
    PROVE  Below(Heights(Q), Heights(P))
  <1> DEFINE S(y) == {r \in Request : Q[r] < y}
             T(y) == {r \in Request : P[r] < y}
  <1>1. \A y \in 1..x : S(y) \in SUBSET T(y) /\ T(y) \in SUBSET Request
    OBVIOUS
  <1>2. s \in T(x) /\ s \notin S(x) /\ x \in 1..x
    OBVIOUS
  <1>3. \A y \in 1..x : Heights(Q)[y] = Cardinality(S(y)) /\ Heights(P)[y] = Cardinality(T(y))
    <2>1. \A y \in 1..x : y \in 1..(MaxAttempts - 1)
      BY MfaAssumption
    <2> QED
      BY <2>1 DEF Heights
  <1> HIDE DEF S, T
  <1>4. \A y \in 1..(x - 1) : y \in 1..x
    OBVIOUS
  <1>5. \A y \in 1..(x - 1) : Heights(Q)[y] <= Heights(P)[y]
    BY <1>1, <1>3, <1>4, HoldingIs
  <1>6. Cardinality(S(x)) < Cardinality(T(x))
    <2>1. S(x) \in SUBSET (T(x) \ {s}) /\ T(x) \ {s} \in SUBSET Request
      BY <1>1, <1>2
    <2>2. Cardinality(S(x)) <= Cardinality(T(x) \ {s})
      BY <2>1, HoldingIs
    <2>3. Cardinality(T(x) \ {s}) = Cardinality(T(x)) - 1
      BY <1>1, <1>2, HoldingIs
    <2>4. Cardinality(T(x)) \in Nat /\ Cardinality(S(x)) \in Nat
      BY <1>1, <1>2, HoldingIs
    <2> QED
      BY <2>2, <2>3, <2>4
  <1> QED
    BY <1>2, <1>3, <1>5, <1>6 DEF Below

-----------------------------------------------------------------------------
Comparing(r, c) == Reached(r, "compare") /\ req[r].c = c

\* What a step does to the answers of a challenge: it counts one, from the
\* value its handler read, or it counts none and at most lets a handler read.
LEMMA StepAnswers ==
    ASSUME MfaInv, MfaNext, NEW c \in DOMAIN challenges
    PROVE  \/ /\ challenges'[c].wrong = challenges[c].wrong
              /\ challenges'[c].failed = challenges[c].failed
              /\ \A r \in Request : Comparing(r, c)' =>
                    \/ Comparing(r, c) /\ req'[r].failed = req[r].failed
                    \/ /\ ~challenges[c].consumed /\ challenges'[c].consumed = challenges[c].consumed
                       /\ req'[r].failed = challenges[c].failed
                       /\ challenges[c].failed < MaxAttempts
           \/ \E r \in Request :
                 /\ Comparing(r, c)
                 /\ challenges'[c].wrong = challenges[c].wrong + 1
                 /\ challenges'[c].failed = req[r].failed + 1
                 /\ challenges'[c].consumed <=>
                      (challenges[c].consumed \/ req[r].failed + 1 >= MaxAttempts)
                 /\ ~Comparing(r, c)'
                 /\ \A q \in Request : q # r => req'[q] = req[q]
  <1>0. /\ challenges \in Seq(Challenge) /\ req \in [Request -> Handler]
        /\ \A k \in DOMAIN challenges : challenges[k] \in Challenge
        /\ \A r \in Request : ~Reached(r, "idle") => req[r].c \in DOMAIN challenges
        /\ \A k \in DOMAIN challenges : challenges[k].failed \in Nat
    <2>1. \A d \in Challenge : d.failed \in Nat
      BY DEF Challenge
    <2> QED
      BY <2>1, Documents
  <1>a. ASSUME NEW k \in DOMAIN challenges, NEW d, challenges' = [challenges EXCEPT ![k] = d],
               d.wrong = challenges[k].wrong, d.failed = challenges[k].failed
        PROVE  /\ challenges'[c].wrong = challenges[c].wrong
               /\ challenges'[c].failed = challenges[c].failed
    BY <1>0, <1>a
  <1>b. ASSUME NEW r \in Request, Reply(r) PROVE  ~Comparing(r, c)' /\
                                 \A q \in Request : q # r => req'[q] = req[q]
    BY <1>0, <1>b DEF Reply, NoRequest, Comparing, Reached
  <1>c. ASSUME NEW r \in Request, Reply(r), NEW q \in Request, Comparing(q, c)'
        PROVE  Comparing(q, c) /\ req'[q].failed = req[q].failed
    BY <1>b, <1>c DEF Comparing, Reached
  <1>1. ASSUME NEW r \in Request, WrongCode(r), req[r].c = c
        PROVE  /\ Comparing(r, c)
               /\ challenges'[c].wrong = challenges[c].wrong + 1
               /\ challenges'[c].failed = req[r].failed + 1
               /\ challenges'[c].consumed <=>
                    (challenges[c].consumed \/ req[r].failed + 1 >= MaxAttempts)
               /\ ~Comparing(r, c)'
               /\ \A q \in Request : q # r => req'[q] = req[q]
    <2>1. Comparing(r, c) /\ Reply(r)
      BY <1>1 DEF WrongCode, Comparing
    <2> DEFINE v == challenges[c].consumed \/ req[r].failed + 1 >= MaxAttempts
               d == [challenges[c] EXCEPT !.failed = req[r].failed + 1,
                                          !.consumed = v, !.wrong = @ + 1]
    <2>2. challenges' = [challenges EXCEPT ![c] = d]
      BY <1>0, <1>1 DEF WrongCode
    <2>3. /\ d.failed = req[r].failed + 1 /\ d.wrong = challenges[c].wrong + 1
          /\ d.consumed = v
      <3> HIDE DEF v
      <3> QED BY <1>0 DEF Challenge
    <2>4. challenges'[c] = d
      BY <1>0, <2>2
    <2>5. d.consumed <=> v
      <3> HIDE DEF v, d
      <3> QED BY <2>3, Zenon
    <2> HIDE DEF d
    <2> QED
      BY <1>b, <2>1, <2>3, <2>4, <2>5
  <1>2. ASSUME NEW r \in Request, WrongCode(r) /\ req[r].c # c
        PROVE  /\ challenges'[c].wrong = challenges[c].wrong
               /\ challenges'[c].failed = challenges[c].failed /\ Reply(r)
    BY <1>0, <1>2 DEF WrongCode
  <1>3. ASSUME NEW r \in Request, SaveConsumed(r) \/ SendToken(r)
        PROVE  /\ challenges'[c].wrong = challenges[c].wrong
               /\ challenges'[c].failed = challenges[c].failed
    <2>1. PICK k \in DOMAIN challenges : k = req[r].c
      BY <1>0, <1>3 DEF SaveConsumed, SendToken, Reached
    <2>2. PICK old \in Challenge : old = challenges[k]
      BY <1>0
    <2>3. PICK d : /\ challenges' = [challenges EXCEPT ![k] = d]
                   /\ d = [old EXCEPT !.consumed = TRUE] \/ d = [old EXCEPT !.tokens = @ + 1]
      BY <1>0, <1>3, <2>1, <2>2 DEF SaveConsumed, SendToken
    <2>4. d.wrong = old.wrong /\ d.failed = old.failed
      BY <2>3 DEF Challenge
    <2> QED
      BY <1>a, <2>2, <2>3, <2>4
  <1>4. ASSUME NEW r \in Request, SaveConsumed(r), NEW q \in Request, Comparing(q, c)'
        PROVE  Comparing(q, c) /\ req'[q].failed = req[q].failed
    <2>1. CASE Reply(r)
      BY <1>4, <1>c, <2>1
    <2>2. CASE req' = [req EXCEPT ![r].pc = "token"] \/ req' = [req EXCEPT ![r].pc = "create"]
      BY <1>0, <1>4, <2>2 DEF Comparing, Reached, Handler
    <2> QED BY <1>4, <2>1, <2>2 DEF SaveConsumed
  <1>5. ASSUME NEW k \in DOMAIN challenges, Expires(k) \/ CooledDown(k)
        PROVE  /\ challenges'[c].wrong = challenges[c].wrong
               /\ challenges'[c].failed = challenges[c].failed /\ req' = req
    <2>1. PICK old \in Challenge : old = challenges[k]
      BY <1>0
    <2>2. PICK d : /\ challenges' = [challenges EXCEPT ![k] = d]
                   /\ d = [old EXCEPT !.expired = TRUE] \/ d = [old EXCEPT !.cooling = FALSE]
      BY <1>0, <1>5, <2>1 DEF Expires, CooledDown
    <2>3. d.wrong = old.wrong /\ d.failed = old.failed
      BY <2>2 DEF Challenge
    <2> QED
      BY <1>5, <1>a, <2>1, <2>2, <2>3 DEF Expires, CooledDown
  <1>6. ASSUME NEW r \in Request, NEW k \in DOMAIN challenges,
               VerifyRead(r, k) \/ ResendRead(r, k), NEW q \in Request, Comparing(q, c)'
        PROVE  \/ Comparing(q, c) /\ req'[q].failed = req[q].failed
               \/ /\ ~challenges[c].consumed
                  /\ req'[q].failed = challenges[c].failed
                  /\ challenges[c].failed < MaxAttempts
    <2>1. CASE q # r
      <3>1. req'[q] = req[q]
        BY <1>0, <1>6, <2>1 DEF VerifyRead, ResendRead
      <3> QED
        BY <1>6, <3>1 DEF Comparing, Reached
    <2>2. CASE q = r /\ ResendRead(r, k)
      BY <1>0, <1>6, <2>2 DEF ResendRead, Comparing, Reached
    <2>3. CASE q = r /\ VerifyRead(r, k)
      <3>1. /\ ~challenges[k].consumed
            /\ req'[r] = [pc |-> IF challenges[k].failed >= MaxAttempts THEN "lock"
                                                                      ELSE "compare",
                          c |-> k, failed |-> challenges[k].failed, resends |-> 0]
        BY <1>0, <2>3 DEF VerifyRead, Live
      <3>2. k = c /\ ~(challenges[k].failed >= MaxAttempts)
        BY <1>6, <2>3, <3>1 DEF Comparing, Reached
      <3>3. challenges[c].failed < MaxAttempts
        BY <1>0, <3>2, MfaAssumption
      <3> QED
        BY <2>3, <3>1, <3>2, <3>3
    <2> QED BY <1>6, <2>1, <2>2, <2>3
  <1>7. ASSUME NEW r \in Request, RightCode(r), NEW q \in Request, Comparing(q, c)'
        PROVE  Comparing(q, c) /\ req'[q].failed = req[q].failed
    BY <1>0, <1>7 DEF RightCode, Comparing, Reached, Handler
  <1>8. CASE Login \/ \E r \in Request : CreateNext(r)
    <2>1. \E d : challenges' = Append(challenges, d)
      BY <1>8 DEF Login, CreateNext
    <2>2. challenges'[c] = challenges[c]
      BY <1>0, <2>1
    <2>3. req' = req \/ \E r \in Request : Reply(r)
      BY <1>8 DEF Login, CreateNext
    <2> QED
      BY <1>c, <2>2, <2>3 DEF Comparing, Reached
  <1>9. CASE \E r \in Request, k \in DOMAIN challenges : VerifyRead(r, k) \/ ResendRead(r, k)
    <2>1. challenges' = challenges
      BY <1>9 DEF VerifyRead, ResendRead
    <2> QED BY <1>6, <1>9, <2>1
  <1>10. CASE \E r \in Request : WrongCode(r)
    BY <1>1, <1>2, <1>c, <1>10
  <1>11. CASE \E r \in Request : SaveConsumed(r)
    BY <1>3, <1>4, <1>11
  <1>12. CASE \E r \in Request : SendToken(r)
    BY <1>3, <1>c, <1>12 DEF SendToken
  <1>13. CASE \E r \in Request : RightCode(r) \/ Fail(r)
    <2>1. challenges' = challenges
      BY <1>13 DEF RightCode, Fail
    <2> QED BY <1>7, <1>c, <1>13, <2>1 DEF Fail
  <1>14. CASE \E k \in DOMAIN challenges : Expires(k) \/ CooledDown(k)
    BY <1>5, <1>14 DEF Comparing, Reached
  <1> QED
    BY <1>8, <1>9, <1>10, <1>11, <1>12, <1>13, <1>14 DEF MfaNext

\* A challenge that a step creates has no answers and nobody compares for it.
LEMMA NewIsUntouched ==
    ASSUME MfaInv, MfaNext, NEW c \in DOMAIN challenges', c \notin DOMAIN challenges
    PROVE  /\ challenges'[c].wrong = 0 /\ challenges'[c].failed = 0
           /\ ~challenges'[c].consumed
           /\ \A r \in Request : ~Comparing(r, c)'
  <1>0. /\ challenges \in Seq(Challenge) /\ req \in [Request -> Handler]
        /\ \A r \in Request : ~Reached(r, "idle") => req[r].c \in DOMAIN challenges
    BY Documents
  <1>1. CASE Len(challenges') = Len(challenges) /\ challenges' \in Seq(Challenge)
    BY <1>0, <1>1
  <1>2. ASSUME NEW resends \in 0..MaxResends, NEW parent \in Nat,
               challenges' = Append(challenges, NewChallenge(resends, parent))
        PROVE  challenges'[c].wrong = 0 /\ challenges'[c].failed = 0
               /\ ~challenges'[c].consumed
    <2>1. PICK d : d = NewChallenge(resends, parent)
      OBVIOUS
    <2>2. d.wrong = 0 /\ d.failed = 0 /\ d.consumed = FALSE
      BY <2>1 DEF NewChallenge
    <2>3. challenges'[c] = d
      BY <1>0, <1>1, <1>2, <2>1
    <2> QED
      BY <2>2, <2>3
  <1>3. ASSUME NEW r \in Request, Comparing(r, c)'
        PROVE  FALSE
    <2>1. req'[r] # NoRequest /\ req'[r].pc = "compare" /\ req'[r].c = c
      BY <1>3 DEF Comparing, Reached, NoRequest
    <2>2. CASE req'[r] = req[r]
      BY <1>0, <2>1, <2>2 DEF Reached
    <2> QED
      BY <2>1, <2>2, StepProgress
  <1> QED
    BY <1>1, <1>2, <1>3, StepSaves

\* A document is not consumed as long as its counter is below the limit.
LEMMA Counters ==
    ASSUME MfaInv, NEW c \in DOMAIN challenges
    PROVE  /\ challenges[c].failed \in Nat /\ challenges[c].wrong \in Nat
           /\ challenges[c].consumed \in BOOLEAN
           /\ ~challenges[c].consumed => challenges[c].failed \in 0..(MaxAttempts - 1)
           /\ \A r \in Request : req[r].failed \in Nat
  <1>1. challenges[c] \in Challenge /\ req \in [Request -> Handler]
    BY Documents
  <1>2. /\ challenges[c].failed \in Nat /\ challenges[c].wrong \in Nat
        /\ challenges[c].consumed \in BOOLEAN
    BY <1>1 DEF Challenge
  <1>3. \A r \in Request : req[r].failed \in Nat
    BY <1>1 DEF Handler
  <1>4. ~challenges[c].consumed => ~(challenges[c].failed >= MaxAttempts)
    BY DEF MfaInv, LockedIsConsumed
  <1> QED
    BY <1>2, <1>3, <1>4, MfaAssumption

-----------------------------------------------------------------------------
Comparers(c) == {r \in Request : Comparing(r, c)}
Smaller(a, b) == IF a < b THEN a ELSE b
Position(r, c) == IF Comparing(r, c) THEN Smaller(req[r].failed, challenges[c].failed)
                                     ELSE challenges[c].failed
Positions(c) == [r \in Request |-> Position(r, c)]

WrongInv ==
    \A c \in DOMAIN challenges :
        IF challenges[c].consumed
        THEN challenges[c].wrong + 1 + Cardinality(Comparers(c))
               <= Cardinality(Profiles) + Cardinality(Request)
        ELSE challenges[c].wrong + 1 <= Cardinality(Passed(Heights(Positions(c))))

LEMMA PositionsAreCounters ==
    ASSUME MfaInv, NEW c \in DOMAIN challenges
    PROVE  Positions(c) \in [Request -> Nat]
  BY Counters DEF Positions, Position, Smaller

\* A step in which no answer is counted: handlers rise to the counter, and
\* when the challenge is consumed nobody begins to compare.
LEMMA QuietStep ==
    ASSUME MfaInv, MfaInv', WrongInv, NEW c \in DOMAIN challenges, c \in DOMAIN challenges',
           challenges[c].consumed => challenges'[c].consumed,
           challenges'[c].wrong = challenges[c].wrong,
           challenges'[c].failed = challenges[c].failed,
           \A r \in Request : Comparing(r, c)' =>
              \/ Comparing(r, c) /\ req'[r].failed = req[r].failed
              \/ ~challenges[c].consumed /\ req'[r].failed = challenges[c].failed
    PROVE  IF challenges'[c].consumed
           THEN challenges'[c].wrong + 1 + Cardinality(Comparers(c)')
                  <= Cardinality(Profiles) + Cardinality(Request)
           ELSE challenges'[c].wrong + 1 <= Cardinality(Passed(Heights(Positions(c)')))
  <1> DEFINE P == Positions(c)
             Q == Positions(c)'
             k == Cardinality(Profiles)
             n == Cardinality(Request)
             w == challenges[c].wrong
  <1>1. /\ P \in [Request -> Nat] /\ Q \in [Request -> Nat]
        /\ w \in Nat /\ challenges[c].failed \in Nat /\ \A r \in Request : req[r].failed \in Nat
    <2>1. Q \in [Request -> Nat]
      <3>1. /\ challenges'[c].failed \in Nat
            /\ \A r \in Request : req'[r].failed \in Nat
        <4>1. challenges' \in Seq(Challenge) /\ req' \in [Request -> Handler]
          BY DEF MfaInv, MfaTypeOK
        <4>2. challenges'[c] \in Challenge
          BY <4>1
        <4> QED
          BY <4>1, <4>2 DEF Challenge, Handler
      <3> QED
        BY <3>1 DEF Positions, Position, Smaller
    <2> QED
      BY <2>1, Counters, PositionsAreCounters
  <1>2. Comparers(c) \in SUBSET Request /\ Comparers(c)' \in SUBSET Request
    BY DEF Comparers
  <1>3. /\ Cardinality(Comparers(c)) \in Nat /\ Cardinality(Comparers(c)') \in Nat /\ n \in Nat
        /\ Cardinality(Comparers(c)') <= n
    BY <1>2, HoldingIs
  <1>4. k \in Nat
    BY ProfilesCounted
  <1>5. CASE challenges[c].consumed
    <2>1. Comparers(c)' \in SUBSET Comparers(c)
      BY <1>5 DEF Comparers
    <2>2. Cardinality(Comparers(c)') <= Cardinality(Comparers(c))
      BY <1>2, <2>1, HoldingIs
    <2>3. w + 1 + Cardinality(Comparers(c)) <= k + n
      BY <1>5 DEF WrongInv
    <2> HIDE DEF k, n, w
    <2>4. w + 1 + Cardinality(Comparers(c)') <= k + n
      BY <1>1, <1>3, <1>4, <2>2, <2>3
    <2> QED
      BY <1>5, <2>4 DEF k, n, w
  <1>6. CASE ~challenges[c].consumed
    <2>1. Heights(P) \in Profiles /\ Heights(Q) \in Profiles
      <3> HIDE DEF P, Q
      <3> QED
        BY <1>1, HeightsAreProfiles
    <2>2. /\ Cardinality(Passed(Heights(P))) \in 1..k
          /\ Cardinality(Passed(Heights(Q))) \in 1..k
      <3> HIDE DEF P, Q
      <3> QED
        BY <2>1, PassedGrows
    <2>3. w + 1 <= Cardinality(Passed(Heights(P)))
      BY <1>6 DEF WrongInv
    <2>4. CASE challenges'[c].consumed
      <3> HIDE DEF k, n, P, Q
      <3>1. w + 1 + Cardinality(Comparers(c)') <= k + n
        <4> HIDE DEF w
        <4> QED
          BY <1>1, <1>3, <1>4, <2>2, <2>3
      <3> QED
        BY <2>4, <3>1 DEF k, n
    <2>5. CASE ~challenges'[c].consumed
      <3>1. \A r \in Request : P[r] <= Q[r]
        BY <1>1 DEF Positions, Position, Smaller
      <3>2. Heights(Q) = Heights(P) \/ Below(Heights(Q), Heights(P))
        <4> HIDE DEF P, Q
        <4> QED
          BY <1>1, <3>1, HeightsFall
      <3>3. Cardinality(Passed(Heights(P))) <= Cardinality(Passed(Heights(Q)))
        <4> HIDE DEF P, Q, k
        <4> QED
          BY <1>4, <2>1, <2>2, <3>2, PassedGrows
      <3>4. w + 1 <= Cardinality(Passed(Heights(Q)))
        <4> HIDE DEF P, Q, k, w
        <4> QED
          BY <1>1, <1>4, <2>2, <2>3, <3>3
      <3> QED
        BY <2>5, <3>4
    <2> QED
      BY <2>4, <2>5
  <1> QED
    BY <1>5, <1>6

\* A wrong answer of r: the counter is put to one more than r has read, which
\* may take back what others have counted, but r does not stand so low again.
LEMMA WrongStep ==
    ASSUME MfaInv, MfaInv', WrongInv, NEW c \in DOMAIN challenges, c \in DOMAIN challenges',
           NEW r \in Request, Comparing(r, c), ~Comparing(r, c)',
           challenges'[c].wrong = challenges[c].wrong + 1,
           challenges'[c].failed = req[r].failed + 1,
           challenges'[c].consumed <=>
             (challenges[c].consumed \/ req[r].failed + 1 >= MaxAttempts),
           \A q \in Request : q # r => req'[q] = req[q]
    PROVE  IF challenges'[c].consumed
           THEN challenges'[c].wrong + 1 + Cardinality(Comparers(c)')
                  <= Cardinality(Profiles) + Cardinality(Request)
           ELSE challenges'[c].wrong + 1 <= Cardinality(Passed(Heights(Positions(c)')))
  <1> DEFINE P == Positions(c)
             Q == Positions(c)'
             k == Cardinality(Profiles)
             n == Cardinality(Request)
             w == challenges[c].wrong
  <1>1. /\ P \in [Request -> Nat]
        /\ w \in Nat /\ challenges[c].failed \in Nat /\ \A q \in Request : req[q].failed \in Nat
    BY Counters, PositionsAreCounters
  <1>2. Comparers(c) \in SUBSET Request /\ r \in Comparers(c)
    BY DEF Comparers
  <1>3. Comparers(c)' = Comparers(c) \ {r}
    BY DEF Comparers, Comparing, Reached
  <1>4. /\ Cardinality(Comparers(c)) \in Nat /\ n \in Nat /\ k \in Nat
        /\ Cardinality(Comparers(c)) <= n
        /\ Cardinality(Comparers(c)') = Cardinality(Comparers(c)) - 1
    BY <1>2, <1>3, HoldingIs, ProfilesCounted
  <1>5. CASE challenges[c].consumed
    <2>1. w + 1 + Cardinality(Comparers(c)) <= k + n
      BY <1>5 DEF WrongInv
    <2> HIDE DEF k, n, w
    <2>2. (w + 1) + 1 + Cardinality(Comparers(c)') <= k + n
      BY <1>1, <1>4, <2>1
    <2> QED
      BY <1>5, <2>2 DEF k, n, w
  <1>6. CASE ~challenges[c].consumed
    <2>1. Heights(P) \in Profiles
      <3> HIDE DEF P
      <3> QED
        BY <1>1, HeightsAreProfiles
    <2>2. Cardinality(Passed(Heights(P))) \in 1..k
      <3> HIDE DEF P
      <3> QED
        BY <2>1, PassedGrows
    <2>3. w + 1 <= Cardinality(Passed(Heights(P)))
      BY <1>6 DEF WrongInv
    <2>4. CASE challenges'[c].consumed
      <3> HIDE DEF k, n, P, Q
      <3>1. (w + 1) + 1 + Cardinality(Comparers(c)') <= k + n
        <4> HIDE DEF w
        <4> QED
          BY <1>1, <1>4, <2>2, <2>3
      <3> QED
        BY <2>4, <3>1 DEF k, n, w
    <2>5. CASE ~challenges'[c].consumed
      <3> DEFINE v == req[r].failed
                 f == challenges[c].failed
                 x == Smaller(v, f) + 1
      <3>1. /\ v \in Nat /\ f \in Nat /\ v + 1 < MaxAttempts
            /\ x \in 1..(MaxAttempts - 1) /\ x <= v + 1
        <4>1. ~(v + 1 >= MaxAttempts)
          BY <2>5
        <4> QED
          BY <1>1, <4>1, MfaAssumption DEF Smaller
      <3>2. P[r] = Smaller(v, f)
        BY DEF Positions, Position
      <3>3. Q[r] = v + 1
        BY DEF Positions, Position
      <3>4. \A q \in Request : q # r =>
               IF Comparing(q, c)
               THEN P[q] = Smaller(req[q].failed, f) /\ Q[q] = Smaller(req[q].failed, v + 1)
               ELSE P[q] = f /\ Q[q] = v + 1
        BY DEF Positions, Position, Comparing, Reached
      <3>5. Q \in [Request -> Nat]
        <4>1. Q = [q \in Request |-> Q[q]]
          BY DEF Positions
        <4>2. \A q \in Request : Q[q] \in Nat
          <5> HIDE DEF Q, P
          <5> QED
            BY <1>1, <3>1, <3>3, <3>4 DEF Smaller
        <4> HIDE DEF Q
        <4> QED
          BY <4>1, <4>2
      <3> HIDE DEF P, Q
      <3>6. P[r] < x /\ ~(Q[r] < x)
        BY <3>1, <3>2, <3>3 DEF Smaller
      <3>7. ASSUME NEW q \in Request, NEW y \in 1..x, Q[q] < y
            PROVE  P[q] < y
        <4>1. q # r
          BY <3>1, <3>3, <3>7
        <4> HIDE DEF x, v, f
        <4>2. CASE Comparing(q, c)
          BY <1>1, <3>1, <3>4, <3>7, <4>1, <4>2 DEF Smaller
        <4>3. CASE ~Comparing(q, c)
          BY <3>1, <3>4, <3>7, <4>1, <4>3
        <4> QED
          BY <4>2, <4>3
      <3>8. Below(Heights(Q), Heights(P))
        <4> HIDE DEF x
        <4> QED
          BY <1>1, <3>1, <3>5, <3>6, <3>7, HeightsDrop
      <3>9. Heights(Q) \in Profiles
        BY <3>5, HeightsAreProfiles
      <3>10. /\ Cardinality(Passed(Heights(P))) + 1 <= Cardinality(Passed(Heights(Q)))
             /\ Cardinality(Passed(Heights(Q))) \in 1..k
        BY <2>1, <3>8, <3>9, PassedGrows
      <3>11. (w + 1) + 1 <= Cardinality(Passed(Heights(Q)))
        <4> HIDE DEF k, w
        <4> QED
          BY <1>1, <1>4, <2>2, <2>3, <3>10
      <3> QED
        BY <2>5, <3>11 DEF Q, w
    <2> QED
      BY <2>4, <2>5
  <1> QED
    BY <1>5, <1>6

LEMMA WrongInvKept == MfaInv /\ MfaInv' /\ WrongInv /\ [MfaNext]_mfaVars => WrongInv'
  <1>1. ASSUME UNCHANGED mfaVars, WrongInv PROVE WrongInv'
    BY <1>1 DEF WrongInv, Comparers, Positions, Position, Comparing, Reached, mfaVars
  <1>2. ASSUME MfaInv, MfaInv', WrongInv, MfaNext PROVE WrongInv'
    <2> SUFFICES ASSUME NEW c \in DOMAIN challenges'
                 PROVE  IF challenges'[c].consumed
                        THEN challenges'[c].wrong + 1 + Cardinality(Comparers(c)')
                               <= Cardinality(Profiles) + Cardinality(Request)
                        ELSE challenges'[c].wrong + 1 <= Cardinality(Passed(Heights(Positions(c)')))
      BY DEF WrongInv
    <2>1. CASE c \notin DOMAIN challenges
      <3>1. /\ challenges'[c].wrong = 0 /\ challenges'[c].failed = 0
            /\ ~challenges'[c].consumed /\ \A r \in Request : ~Comparing(r, c)'
        BY <1>2, <2>1, NewIsUntouched
      <3>2. Positions(c)' \in [Request -> Nat]
        BY <3>1 DEF Positions, Position
      <3>3. Cardinality(Passed(Heights(Positions(c)'))) \in 1..Cardinality(Profiles)
        BY <3>2, HeightsAreProfiles, PassedGrows
      <3> QED
        BY <3>1, <3>3, ProfilesCounted
    <2>2. CASE c \in DOMAIN challenges
      <3>1. challenges[c].consumed => challenges'[c].consumed
        <4>1. challenges \in Seq(Challenge)
          BY <1>2, Documents
        <4> QED
          BY <1>2, <2>2, <4>1, StepSaves DEF Saved
      <3> QED
        BY <1>2, <2>2, <3>1, StepAnswers, QuietStep, WrongStep
    <2> QED
      BY <2>1, <2>2
  <1> QED
    BY <1>1, <1>2

\* However many handlers are in flight and whatever the limits are, the
\* updates of failed_attempts that verifyMfa loses let a live challenge be
\* answered wrong less often than there are curves; once it is consumed, each
\* handler that was comparing answers once more at most.
THEOREM WrongAnswersAreBounded == MfaSpec => []WrongAnswersBounded
  <1>1. MfaInit => WrongInv
    BY DEF MfaInit, WrongInv
  <1>2. MfaInv /\ WrongInv => WrongAnswersBounded
    <2> DEFINE n == Cardinality(Request)
               k == Cardinality(Profiles)
    <2> SUFFICES ASSUME MfaInv, WrongInv, NEW c \in DOMAIN challenges
                 PROVE  challenges[c].wrong <= choose(MaxAttempts + n - 1, n) + n - 1
      BY DEF WrongAnswersBounded
    <2>1. challenges[c].wrong \in Nat /\ n \in Nat /\ k \in Nat /\ k = choose(MaxAttempts + n - 1, n)
      BY Counters, ProfilesCounted, MfaAssumption, FS_CardinalityType
    <2> DEFINE w == challenges[c].wrong
    <2>2. CASE challenges[c].consumed
      <3>1. w + 1 + Cardinality(Comparers(c)) <= k + n
        BY <2>2 DEF WrongInv
      <3>2. Comparers(c) \in SUBSET Request
        BY DEF Comparers
      <3>3. Cardinality(Comparers(c)) \in Nat
        BY <3>2, HoldingIs
      <3> HIDE DEF w, k, n
      <3>4. w <= k + n - 1
        BY <2>1, <3>1, <3>3 DEF w
      <3> QED
        BY <2>1, <3>4 DEF w
    <2>3. CASE ~challenges[c].consumed
      <3>1. w + 1 <= Cardinality(Passed(Heights(Positions(c))))
        BY <2>3 DEF WrongInv
      <3>2. Cardinality(Passed(Heights(Positions(c)))) \in 1..k
        BY PositionsAreCounters, HeightsAreProfiles, PassedGrows
      <3> HIDE DEF w, k, n
      <3>3. w <= k + n - 1
        BY <2>1, <3>1, <3>2 DEF w
      <3> QED
        BY <2>1, <3>3 DEF w
    <2> QED
      BY <2>2, <2>3
  <1> QED
    BY <1>1, <1>2, WrongInvKept, MfaInvariant, PTL DEF MfaSpec

-----------------------------------------------------------------------------
(***************************************************************************)
(* Resends.  A challenge has no successor before it is consumed; then      *)
(* nobody begins to resend it, so its successors and the handlers that     *)
(* still make one are together never more than the handlers.               *)
(***************************************************************************)
Successors(c) == {k \in DOMAIN challenges : challenges[k].parent = c}
Resends(r, c) == req[r].c = c /\ req[r].pc \in {"invalidate", "create"}
Resending(c) == {r \in Request : Resends(r, c)}

ForkInv ==
    \A c \in DOMAIN challenges :
        challenges[c].consumed =>
            Cardinality(Successors(c)) + Cardinality(Resending(c)) <= Cardinality(Request)

LEMMA SuccessorsAreFinite ==
    ASSUME MfaInv, NEW c \in DOMAIN challenges
    PROVE  /\ IsFiniteSet(Successors(c)) /\ Cardinality(Successors(c)) \in Nat
           /\ ~challenges[c].consumed => Cardinality(Successors(c)) = 0
  <1>1. challenges \in Seq(Challenge)
    BY Documents
  <1>2. Successors(c) \in SUBSET (1..Len(challenges))
    BY <1>1 DEF Successors
  <1>3. IsFiniteSet(1..Len(challenges))
    BY <1>1, FS_Interval
  <1>4. IsFiniteSet(Successors(c))
    BY <1>2, <1>3, FS_Subset
  <1>5. ASSUME ~challenges[c].consumed PROVE Successors(c) = {}
    <2>1. c # 0
      BY <1>1
    <2> QED
      BY <1>5, <2>1 DEF Successors, MfaInv, ResendReplaces
  <1> QED
    BY <1>4, <1>5, FS_CardinalityType, FS_EmptySet

\* Who resends a challenge after a step did so before it, or it was live.
LEMMA ResendersOnlyLeave ==
    ASSUME MfaInv, MfaNext, NEW r \in Request, NEW c, Resends(r, c)'
    PROVE  Resends(r, c) \/ (c \in DOMAIN challenges /\ ~challenges[c].consumed)
  <1>0. req \in [Request -> Handler]
    BY DEF MfaInv, MfaTypeOK
  <1>1. ASSUME NEW q \in Request, Reply(q) PROVE Resends(r, c)
    BY <1>0, <1>1 DEF Reply, NoRequest, Resends
  <1>2. CASE \E q \in Request, k \in DOMAIN challenges : VerifyRead(q, k) \/ ResendRead(q, k)
    BY <1>0, <1>2 DEF VerifyRead, ResendRead, Live, Resends
  <1>3. CASE \E q \in Request : RightCode(q)
    BY <1>0, <1>3 DEF RightCode, Reached, Handler, Resends
  <1>4. CASE \E q \in Request : SaveConsumed(q)
    <2>1. PICK q \in Request : SaveConsumed(q)
      BY <1>4
    <2>2. CASE Reply(q)
      BY <1>1, <2>2
    <2>3. CASE Reached(q, "accept") /\ req' = [req EXCEPT ![q].pc = "token"]
      BY <1>0, <2>3 DEF Reached, Handler, Resends
    <2>4. CASE Reached(q, "invalidate") /\ req' = [req EXCEPT ![q].pc = "create"]
      BY <1>0, <2>4 DEF Reached, Handler, Resends
    <2> QED BY <2>1, <2>2, <2>3, <2>4 DEF SaveConsumed
  <1>5. CASE \E q \in Request : WrongCode(q) \/ SendToken(q) \/ CreateNext(q) \/ Fail(q)
    BY <1>1, <1>5 DEF WrongCode, SendToken, CreateNext, Fail
  <1>6. CASE Login \/ \E k \in DOMAIN challenges : Expires(k) \/ CooledDown(k)
    BY <1>6 DEF Login, Expires, CooledDown, Resends
  <1> QED BY <1>2, <1>3, <1>4, <1>5, <1>6 DEF MfaNext

\* A challenge gains a successor from a handler that has consumed it.
LEMMA StepSuccessors ==
    ASSUME MfaInv, MfaNext, NEW c \in DOMAIN challenges
    PROVE  \/ Successors(c)' = Successors(c)
           \/ \E r \in Request : /\ Reached(r, "create") /\ req[r].c = c /\ Reply(r)
                                 /\ challenges[c].consumed
                                 /\ Successors(c)' = Successors(c) \cup {Len(challenges) + 1}
  <1>0. challenges \in Seq(Challenge) /\ c # 0
    BY Documents
  <1>1. CASE /\ Len(challenges') = Len(challenges) /\ challenges' \in Seq(Challenge)
             /\ \A k \in DOMAIN challenges : Saved(challenges[k], challenges'[k])
    <2>1. DOMAIN challenges' = DOMAIN challenges
      BY <1>0, <1>1
    <2> QED
      BY <1>1, <2>1 DEF Successors, Saved
  <1>2. ASSUME NEW resends \in 0..MaxResends, NEW parent \in Nat,
               challenges' = Append(challenges, NewChallenge(resends, parent))
        PROVE  Successors(c)' = IF parent = c THEN Successors(c) \cup {Len(challenges) + 1}
                                             ELSE Successors(c)
    <2>1. PICK d : d = NewChallenge(resends, parent)
      OBVIOUS
    <2>2. d.parent = parent
      BY <2>1 DEF NewChallenge
    <2>3. /\ DOMAIN challenges' = DOMAIN challenges \cup {Len(challenges) + 1}
          /\ Len(challenges) + 1 \notin DOMAIN challenges
          /\ challenges'[Len(challenges) + 1] = d
          /\ \A k \in DOMAIN challenges : challenges'[k] = challenges[k]
      BY <1>0, <1>2, <2>1
    <2> QED
      BY <2>2, <2>3 DEF Successors
  <1>3. ASSUME NEW r \in Request, Reached(r, "create"), req[r].c = c
        PROVE  challenges[c].consumed
    BY <1>3 DEF MfaInv, ResendInFlight, Reached
  <1> QED
    BY <1>0, <1>1, <1>2, <1>3, StepSaves

LEMMA ForkInvKept == MfaInv /\ MfaInv' /\ ForkInv /\ [MfaNext]_mfaVars => ForkInv'
  <1> SUFFICES ASSUME MfaInv, MfaInv', ForkInv, MfaNext PROVE ForkInv'
    BY DEF ForkInv, Successors, Resending, Resends, mfaVars
  <1> SUFFICES ASSUME NEW c \in DOMAIN challenges', challenges'[c].consumed
               PROVE  Cardinality(Successors(c)') + Cardinality(Resending(c)')
                        <= Cardinality(Request)
    BY DEF ForkInv
  <1>0. c \in DOMAIN challenges
    BY NewIsUntouched
  <1> DEFINE S == Resending(c)
             T == Resending(c)'
             n == Cardinality(Request)
             a == Cardinality(Successors(c))
             b == Cardinality(Successors(c)')
  <1>1. S \in SUBSET Request /\ T \in SUBSET Request
    BY DEF Resending
  <1>2. /\ Cardinality(S) \in Nat /\ Cardinality(T) \in Nat /\ n \in Nat
        /\ Cardinality(S) <= n /\ Cardinality(T) <= n
    <2> HIDE DEF S, T
    <2> QED
      BY <1>1, HoldingIs
  <1>3. /\ IsFiniteSet(Successors(c)) /\ a \in Nat
        /\ ~challenges[c].consumed => a = 0
    BY <1>0, SuccessorsAreFinite
  <1>4. challenges[c].consumed => T \subseteq S /\ a + Cardinality(S) <= n
    BY <1>0, ResendersOnlyLeave DEF Resending, ForkInv
  <1>5. CASE Successors(c)' = Successors(c)
    <2>1. challenges[c].consumed => Cardinality(T) <= Cardinality(S)
      <3> HIDE DEF S, T
      <3> QED
        BY <1>1, <1>4, HoldingIs
    <2>2. b = a
      BY <1>5
    <2> HIDE DEF a, b, S, T, n
    <2>3. b + Cardinality(T) <= n
      BY <1>2, <1>3, <1>4, <2>1, <2>2
    <2> QED
      BY <2>3 DEF b, T, n
  <1>6. ASSUME NEW r \in Request, Reached(r, "create"), req[r].c = c, Reply(r),
               challenges[c].consumed,
               Successors(c)' = Successors(c) \cup {Len(challenges) + 1}
        PROVE  Cardinality(Successors(c)') + Cardinality(Resending(c)') <= Cardinality(Request)
    <2>1. r \in S
      BY <1>6 DEF Reached, Resending, Resends
    <2>2. r \notin T
      <3>1. req'[r].pc = "idle"
        BY <1>6, Documents DEF Reply, NoRequest
      <3> QED
        BY <3>1 DEF Resending, Resends
    <2>3. b = a \/ b = a + 1
      <3>1. \A v : Cardinality(Successors(c) \cup {v}) \in {a, a + 1}
        BY <1>3, FS_AddElement
      <3> QED
        BY <1>6, <3>1
    <2> HIDE DEF a, b, S, T, n
    <2>4. T \in SUBSET (S \ {r}) /\ S \ {r} \in SUBSET Request
      BY <1>1, <1>4, <1>6, <2>1, <2>2
    <2>5. Cardinality(T) <= Cardinality(S \ {r}) /\ Cardinality(S \ {r}) = Cardinality(S) - 1
      BY <1>1, <2>1, <2>4, HoldingIs
    <2>6. b + Cardinality(T) <= n
      BY <1>2, <1>3, <1>4, <1>6, <2>3, <2>5
    <2> QED
      BY <2>6 DEF b, T, n
  <1> QED
    BY <1>0, <1>5, <1>6, StepSuccessors

\* However resends interleave, a challenge is replaced by no more new ones
\* than there are handlers that can be in flight.
THEOREM ResendsForkBounded == MfaSpec => []ResendForksBounded
  <1>1. MfaInit => ForkInv
    BY DEF MfaInit, ForkInv
  <1>2. MfaInv /\ ForkInv => ResendForksBounded
    <2> SUFFICES ASSUME MfaInv, ForkInv, NEW c \in DOMAIN challenges
                 PROVE  Cardinality(Successors(c)) <= Cardinality(Request)
      BY DEF ResendForksBounded, Successors
    <2>1. Resending(c) \in SUBSET Request
      BY DEF Resending
    <2>2. Cardinality(Resending(c)) \in Nat /\ Cardinality(Request) \in Nat
      BY <2>1, HoldingIs
    <2>3. Cardinality(Successors(c)) \in Nat
          /\ (~challenges[c].consumed => Cardinality(Successors(c)) = 0)
      BY SuccessorsAreFinite
    <2>4. challenges[c].consumed =>
            Cardinality(Successors(c)) + Cardinality(Resending(c)) <= Cardinality(Request)
      BY DEF ForkInv
    <2> QED
      BY <2>2, <2>3, <2>4
  <1> QED
    BY <1>1, <1>2, ForkInvKept, MfaInvariant, PTL DEF MfaSpec
=============================================================================
