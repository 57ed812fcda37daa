---------------------------- MODULE MfaChallenge ----------------------------
(***************************************************************************)
(* The second factor of the Node backend: the MfaChallenge collection and  *)
(* the handlers login, verifyMfa and resendMfa of authController.          *)
(*                                                                         *)
(* Node runs one handler at a time but switches at every await, so each    *)
(* action is the code between two awaits that touch the database.  A       *)
(* handler works on the document it read at its start; Mongoose's save()   *)
(* writes only the fields the handler changed, with absolute values, and   *)
(* no version is compared for them.                                        *)
(*                                                                         *)
(* One user's challenges are modelled.  Whether a code matches is an input *)
(* of the step (bcrypt.compare); a request that is refused before it       *)
(* changes a document leaves no trace and is no step.  Mail leaves no      *)
(* trace in the database either.                                           *)
(***************************************************************************)
EXTENDS Integers, Sequences, FiniteSets, Combinatorics

CONSTANTS
    Request,        \* handlers that can be in flight at once
    MaxAttempts,    \* MFA_MAX_ATTEMPTS
    MaxResends,     \* MFA_MAX_RESENDS
    MaxLogins,      \* bound: challenges that a login creates
    MaxChallenges   \* bound: documents of the collection

ASSUME MfaAssumption ==
    /\ IsFiniteSet(Request)
    /\ MaxAttempts \in Nat \ {0}
    /\ MaxResends \in Nat
    /\ MaxLogins \in Nat /\ MaxChallenges \in Nat

VARIABLES
    challenges,     \* the collection, by creation
    req             \* the local state of every handler

mfaVars == <<challenges, req>>

(***************************************************************************)
(* cooling: less than the cooldown since last_sent_at.  parent, wrong and  *)
(* tokens are history: the challenge this one replaces, the answers        *)
(* "Invalid MFA code" given for it, the tokens issued for it.              *)
(***************************************************************************)
Challenge ==
    [failed: Nat, consumed: BOOLEAN, expired: BOOLEAN, cooling: BOOLEAN,
     resends: Nat, parent: Nat, wrong: Nat, tokens: Nat]

NewChallenge(resends, parent) ==
    [failed |-> 0, consumed |-> FALSE, expired |-> FALSE, cooling |-> TRUE,
     resends |-> resends, parent |-> parent, wrong |-> 0, tokens |-> 0]

\* pc: the await the handler has reached; c: the challenge; the rest is what
\* it read of the document and uses later.
Handler == [pc: {"idle", "compare", "lock", "accept", "token", "invalidate", "create"},
            c: Nat, failed: Nat, resends: Nat]

NoRequest == [pc |-> "idle", c |-> 0, failed |-> 0, resends |-> 0]

MfaInit ==
    /\ challenges = <<>>
    /\ req = [r \in Request |-> NoRequest]

Reached(r, pc) == req[r].pc = pc
Reply(r) == req' = [req EXCEPT ![r] = NoRequest]

-----------------------------------------------------------------------------
\* sendMfaChallenge, from login with the right password or from register.
Login ==
    /\ Cardinality({c \in DOMAIN challenges : challenges[c].parent = 0}) < MaxLogins
    /\ Len(challenges) < MaxChallenges
    /\ challenges' = Append(challenges, NewChallenge(0, 0))
    /\ UNCHANGED req

\* Mutant: consumed_at is not looked at.
Live_Expiry(doc) == ~doc.expired

\* The document is usable: neither consumed nor expired.
Live(doc) == ~doc.consumed /\ ~doc.expired

VerifyRead(r, c) ==
    /\ Reached(r, "idle")
    /\ Live(challenges[c])
    /\ req' = [req EXCEPT ![r] =
                 [pc |-> IF challenges[c].failed >= MaxAttempts THEN "lock" ELSE "compare",
                  c |-> c, failed |-> challenges[c].failed, resends |-> 0]]
    /\ UNCHANGED challenges

\* Mutants: the count is not raised; the lock is left to the next request;
\* the whole document is written back.
WrongCode_NotCounted(r) ==
    /\ Reached(r, "compare")
    /\ challenges' = [challenges EXCEPT ![req[r].c].wrong = @ + 1]
    /\ Reply(r)
WrongCode_NoLock(r) ==
    /\ Reached(r, "compare")
    /\ challenges' = [challenges EXCEPT ![req[r].c].failed = req[r].failed + 1,
                                        ![req[r].c].wrong = @ + 1]
    /\ Reply(r)
WrongCode_WholeDocument(r) ==
    /\ Reached(r, "compare")
    /\ challenges' = [challenges EXCEPT ![req[r].c].failed = req[r].failed + 1,
                                        ![req[r].c].consumed = req[r].failed + 1 >= MaxAttempts,
                                        ![req[r].c].wrong = @ + 1]
    /\ Reply(r)

\* failed_attempts is written from the value read, not incremented; the last
\* attempt allowed consumes the challenge in the same save.
WrongCode(r) ==
    /\ Reached(r, "compare")
    /\ challenges' = [challenges EXCEPT
                        ![req[r].c].failed = req[r].failed + 1,
                        ![req[r].c].consumed = @ \/ req[r].failed + 1 >= MaxAttempts,
                        ![req[r].c].wrong = @ + 1]
    /\ Reply(r)

RightCode(r) ==
    /\ Reached(r, "compare")
    /\ req' = [req EXCEPT ![r].pc = "accept"]
    /\ UNCHANGED challenges

\* consumed_at is set and saved: too many attempts, right code, or resend.
SaveConsumed(r) ==
    /\ req[r].pc \in {"lock", "accept", "invalidate"}
    /\ challenges' = [challenges EXCEPT ![req[r].c].consumed = TRUE]
    /\ \/ Reached(r, "lock") /\ Reply(r)
       \/ Reached(r, "accept") /\ req' = [req EXCEPT ![r].pc = "token"]
       \/ Reached(r, "invalidate") /\ req' = [req EXCEPT ![r].pc = "create"]

SendToken(r) ==
    /\ Reached(r, "token")
    /\ challenges' = [challenges EXCEPT ![req[r].c].tokens = @ + 1]
    /\ Reply(r)

\* Mutants: the limit is off by one; the new challenge is made first.
ResendRead_OffByOne(r, c) ==
    /\ Reached(r, "idle")
    /\ Live(challenges[c])
    /\ challenges[c].resends <= MaxResends
    /\ ~challenges[c].cooling
    /\ req' = [req EXCEPT ![r] = [pc |-> "invalidate", c |-> c, failed |-> 0,
                                  resends |-> challenges[c].resends]]
    /\ UNCHANGED challenges
ResendRead_CreateFirst(r, c) ==
    /\ Reached(r, "idle")
    /\ Live(challenges[c])
    /\ challenges[c].resends < MaxResends
    /\ ~challenges[c].cooling
    /\ req' = [req EXCEPT ![r] = [pc |-> "create", c |-> c, failed |-> 0,
                                  resends |-> challenges[c].resends]]
    /\ UNCHANGED challenges

ResendRead(r, c) ==
    /\ Reached(r, "idle")
    /\ Live(challenges[c])
    /\ challenges[c].resends < MaxResends
    /\ ~challenges[c].cooling
    /\ req' = [req EXCEPT ![r] = [pc |-> "invalidate", c |-> c, failed |-> 0,
                                  resends |-> challenges[c].resends]]
    /\ UNCHANGED challenges

CreateNext(r) ==
    /\ Reached(r, "create")
    /\ Len(challenges) < MaxChallenges
    /\ challenges' = Append(challenges, NewChallenge(req[r].resends + 1, req[r].c))
    /\ Reply(r)

\* The database or the process fails at an await: status 500 or no answer.
Fail(r) ==
    /\ ~Reached(r, "idle")
    /\ Reply(r)
    /\ UNCHANGED challenges

-----------------------------------------------------------------------------
\* Time; of a challenge that is consumed nobody looks at the clock.
Expires(c) ==
    /\ Live(challenges[c])
    /\ challenges' = [challenges EXCEPT ![c].expired = TRUE]
    /\ UNCHANGED req

CooledDown(c) ==
    /\ Live(challenges[c])
    /\ challenges[c].cooling
    /\ challenges' = [challenges EXCEPT ![c].cooling = FALSE]
    /\ UNCHANGED req

MfaNext ==
    \/ Login
    \/ \E c \in DOMAIN challenges :
          \/ \E r \in Request : VerifyRead(r, c) \/ ResendRead(r, c)
          \/ Expires(c) \/ CooledDown(c)
    \/ \E r \in Request :
          \/ WrongCode(r) \/ RightCode(r) \/ SaveConsumed(r) \/ SendToken(r)
          \/ CreateNext(r) \/ Fail(r)

MfaSpec == MfaInit /\ [][MfaNext]_mfaVars
-----------------------------------------------------------------------------
\* Type invariant: documents and handlers stay within their domains, and a
\* handler in flight works on a document that exists.
MfaTypeOK ==
    /\ challenges \in Seq(Challenge)
    /\ req \in [Request -> Handler]
    /\ \A r \in Request : ~Reached(r, "idle") => req[r].c \in DOMAIN challenges

\* A consumed challenge stays consumed: no handler that read the document
\* before makes it usable again by saving what it read.
ConsumedForever ==
    [][\A c \in DOMAIN challenges :
         challenges[c].consumed => challenges'[c].consumed]_challenges

\* A challenge whose counter has reached MFA_MAX_ATTEMPTS is consumed, so the
\* first test of the counter in verifyMfa never fires.
LockedIsConsumed ==
    \A c \in DOMAIN challenges :
        challenges[c].failed >= MaxAttempts => challenges[c].consumed

\* Handlers that read the counter before another one saves it lose updates,
\* so a challenge can be answered wrong more often than MFA_MAX_ATTEMPTS; but
\* every stale save uses up a stale read, which bounds the wrong answers by a
\* binomial in the handlers in flight (MaxAttempts when there is one).
WrongAnswersBounded ==
    LET n == Cardinality(Request)
    IN  \A c \in DOMAIN challenges :
            challenges[c].wrong <= choose(MaxAttempts + n - 1, n) + n - 1

\* Only handlers that were in flight when a challenge was consumed can still
\* issue a token for it, each at most one.
TokensBounded ==
    \A c \in DOMAIN challenges :
        /\ challenges[c].tokens <= Cardinality(Request)
        /\ challenges[c].tokens > 0 => challenges[c].consumed

\* The challenge that a resend replaces is consumed before the new one
\* exists, whatever fails in between, and a login is resent at most
\* MFA_MAX_RESENDS times in a row.
ResendReplaces ==
    \A c \in DOMAIN challenges :
        /\ challenges[c].resends <= MaxResends
        /\ challenges[c].parent # 0 =>
              /\ challenges[c].parent \in DOMAIN challenges
              /\ challenges[challenges[c].parent].consumed
              /\ challenges[c].resends = challenges[challenges[c].parent].resends + 1

\* Handlers that resend the same challenge at the same time each make a new
\* one, all of them usable and each with attempts of its own; only those that
\* read the challenge before it was consumed can, so they are no more than
\* the handlers that can be in flight.
ResendForksBounded ==
    \A c \in DOMAIN challenges :
        Cardinality({k \in DOMAIN challenges : challenges[k].parent = c})
          <= Cardinality(Request)

\* What a resend in flight knows about the challenge it replaces.
ResendInFlight ==
    \A r \in Request : req[r].pc \in {"invalidate", "create"} =>
        /\ req[r].resends < MaxResends
        /\ challenges[req[r].c].resends = req[r].resends
        /\ Reached(r, "create") => challenges[req[r].c].consumed

\* The inductive invariant of MfaChallengeProofs.
MfaInv == MfaTypeOK /\ LockedIsConsumed /\ ResendReplaces /\ ResendInFlight
=============================================================================
