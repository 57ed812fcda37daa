------------------------ MODULE UploadPipelineProofs ------------------------
(***************************************************************************)
(* The gates of internal_encrypt hold for every value of the constants:    *)
(* what is delivered passed all of them, a malicious file is isolated, and *)
(* a transfer is charged for at most dp_max_analyses_per_transfer analyses *)
(* besides those that failed after the charge.                             *)
(*                                                                         *)
(* The argument: Gated says of an upload what it has passed at its place   *)
(* in the route.  An analysis, whatever it answers, changes only its own   *)
(* fields of the upload (AnalysisOf); every other step is checked field    *)
(* by field.                                                               *)
(***************************************************************************)
EXTENDS PrivacyBudgetProofs

Refusals == {"TRANSFER_BLOCKED", "INTEGRITY_FAILURE", "AI_BLOCK",
             "PUBLIC_KEY_SUBSTITUTION_ATTEMPT", "SIGNATURE_VERIFICATION_FAILED",
             "MALWARE_DETECTED"}

\* The scan let an upload through.
Passes(r) ==
    /\ r.verdict \in {"PASSED", "SCAN_FAILED"}
    /\ ScanFailClosed => r.verdict = "PASSED" /\ r.scanned

\* An upload that was refused in any way is forced into quarantine.
Forced(r) ==
    /\ r.ext # "critical"
    /\ r.ext = "archive" => r.force
    /\ r.events \cap Refusals # {} => r.force

Open(r) == r.outcome = "none" /\ r.package = "none"
Fresh(r) ==
    /\ Open(r) /\ r.verdict = "NONE" /\ r.events = {} /\ r.samples = 0 /\ ~r.initialBlock

\* The answer is o only for an upload that deserves it.
Delivered(r, o) ==
    o = "delivered" =>
        /\ r.package = "complete"
        /\ ~r.force /\ ~r.initialBlock
        /\ r.ext \notin {"critical", "archive"}
        /\ Passes(r)
        /\ r.events \cap Refusals = {}

Isolated(r, o) ==
    r.verdict = "MALICIOUS" =>
        /\ r.package = "none"
        /\ o \in {"406", "500"}
        /\ o = "406" =>
              /\ r.vault = "recorded"
              /\ {"MALWARE_QUARANTINED", "MALWARE_DETECTED", "QUARANTINE"} \subseteq r.events

\* What an upload has passed when it comes to pc.
GatedAt(r, pc) ==
    CASE pc \in {"idle", "received"} -> Fresh(r)
      [] pc = "analyse" -> Fresh(r) /\ Forced(r)
      [] pc = "scan" -> /\ Open(r) /\ r.verdict = "NONE" /\ Forced(r)
                        /\ r.initialBlock => r.force \/ r.ai.score >= 80
      [] pc = "encrypt" -> /\ Open(r) /\ Passes(r) /\ Forced(r)
                           /\ r.initialBlock => r.force
      [] OTHER -> Delivered(r, r.outcome) /\ Isolated(r, r.outcome)
Gated(r) == GatedAt(r, r.pc)

SpendOK(r) == r.charged <= (r.samples + r.wasted) * Cost

UploadInv ==
    /\ running \in BOOLEAN /\ uploads \in 0..MaxUploads
    /\ up \in UploadRecord /\ SpendOK(up) /\ Gated(up)

Pc == {"idle", "received", "analyse", "scan", "encrypt", "done"}
Outcome == {"none", "403", "406", "500", "quarantined", "delivered"}

\* What the gates look at, the fragments done, and what the accountant is
\* charged for.
SameGates(r, s) ==
    /\ s.ext = r.ext /\ s.force = r.force /\ s.initialBlock = r.initialBlock
    /\ s.verdict = r.verdict /\ s.package = r.package /\ s.outcome = r.outcome
    /\ s.vault = r.vault /\ s.ai = r.ai /\ s.scanned = r.scanned /\ s.chunks = r.chunks
SameSpend(r, s) ==
    s.samples = r.samples /\ s.charged = r.charged /\ s.wasted = r.wasted

\* The state of the handler apart from the upload.
HandlerOK == running \in BOOLEAN /\ uploads \in 0..MaxUploads

-----------------------------------------------------------------------------
(***************************************************************************)
(* How a step moves the upload.                                            *)
(***************************************************************************)
LEMMA Moved ==
    ASSUME NEW s \in UploadRecord, SpendOK(s), Gated(s), up' = s, HandlerOK'
    PROVE  UploadInv'
  BY DEF UploadInv, SpendOK, Gated, GatedAt, HandlerOK, Fresh, Open, Forced, Delivered, Isolated

LEMMA ContinueKeeps ==
    ASSUME NEW r \in UploadRecord, NEW pc \in Pc \ {"done"}, Continue(r, pc),
           SpendOK(r), GatedAt(r, pc), HandlerOK'
    PROVE  UploadInv'
  <1>1. [r EXCEPT !.pc = pc] \in UploadRecord
    BY DEF UploadRecord, Pc
  <1>2. PICK s \in UploadRecord : s = [r EXCEPT !.pc = pc]
    BY <1>1
  <1>3. /\ s.pc = pc /\ SameGates(r, s) /\ SameSpend(r, s) /\ s.events = r.events
    BY <1>2 DEF UploadRecord, SameGates, SameSpend
  <1>4. SpendOK(s)
    BY <1>3 DEF SpendOK, SameSpend
  <1>5. Gated(s)
    BY <1>3 DEF Gated, GatedAt, SameGates, SameSpend, Pc, Fresh, Open, Forced, Passes
  <1>6. up' = s
    BY <1>2 DEF Continue
  <1> QED
    BY <1>4, <1>5, <1>6, Moved

LEMMA EndKeeps ==
    ASSUME NEW r \in UploadRecord, NEW o \in Outcome, End(r, o),
           SpendOK(r), Delivered(r, o), Isolated(r, o), HandlerOK'
    PROVE  UploadInv'
  <1> DEFINE ended == [r EXCEPT !.pc = "done", !.outcome = o, !.trusted = FALSE,
                                !.chunks = 0, !.lastChunks = 0, !.ai = NoResult]
  <1>1. ended \in UploadRecord
    <2>1. NoResult \in Result /\ 0 \in 0..MaxFragments
      BY UploadAssumption DEF NoResult, Result
    <2> QED
      BY <2>1 DEF UploadRecord, Outcome
  <1>2. PICK s \in UploadRecord : s = ended
    BY <1>1
  <1>3. /\ s.pc = "done" /\ s.outcome = o /\ SameSpend(r, s) /\ s.events = r.events
        /\ s.ext = r.ext /\ s.force = r.force /\ s.initialBlock = r.initialBlock
        /\ s.verdict = r.verdict /\ s.package = r.package /\ s.vault = r.vault
        /\ s.scanned = r.scanned
    BY <1>2 DEF UploadRecord, SameSpend
  <1>4. SpendOK(s)
    BY <1>3 DEF SpendOK, SameSpend
  <1>5. Gated(s)
    BY <1>3 DEF Gated, GatedAt, Delivered, Isolated, Passes
  <1>6. up' = s
    BY <1>2 DEF End
  <1> QED
    BY <1>4, <1>5, <1>6, Moved

\* A row of the ledger adds an event to an upload.
LEMMA LoggedIs ==
    ASSUME NEW r \in UploadRecord, NEW e \in Event, NEW raised \in BOOLEAN
    PROVE  /\ Logged(r, e, raised) \in UploadRecord
           /\ SameGates(r, Logged(r, e, raised)) /\ SameSpend(r, Logged(r, e, raised))
           /\ Logged(r, e, raised).events = r.events \cup {e}
           /\ Logged(r, e, raised).pc = r.pc
  <1>1. r.events \cup {e} \in SUBSET Event /\ (r.unanchored \/ raised) \in BOOLEAN
    BY DEF UploadRecord
  <1>2. [r EXCEPT !.events = r.events \cup {e}, !.unanchored = r.unanchored \/ raised] \in UploadRecord
    BY <1>1 DEF UploadRecord
  <1>3. Logged(r, e, raised)
          = [r EXCEPT !.events = r.events \cup {e}, !.unanchored = r.unanchored \/ raised]
    BY DEF Logged
  <1>4. PICK s \in UploadRecord : s = Logged(r, e, raised)
    BY <1>2, <1>3
  <1>5. /\ SameGates(r, s) /\ SameSpend(r, s) /\ s.events = r.events \cup {e} /\ s.pc = r.pc
    BY <1>3, <1>4 DEF UploadRecord, SameGates, SameSpend
  <1> QED
    BY <1>4, <1>5

LEMMA RaisesAre == ASSUME NEW raised \in Raises PROVE raised \in BOOLEAN
  BY DEF Raises

LEMMA RefuseKeeps ==
    ASSUME NEW r \in UploadRecord, NEW e \in Event, NEW o \in {"403", "406"}, Refuse(r, e, o),
           SpendOK(r), r.verdict # "MALICIOUS", HandlerOK'
    PROVE  UploadInv'
  <1>1. PICK raised \in Raises :
            End(Logged(r, e, raised), IF raised THEN "500" ELSE o)
    BY DEF Refuse
  <1>2. PICK s \in UploadRecord : s = Logged(r, e, raised)
    BY LoggedIs, RaisesAre
  <1>3. SameGates(r, s) /\ SameSpend(r, s)
    BY <1>2, LoggedIs, RaisesAre
  <1>4. PICK q \in {"403", "406", "500"} : q = IF raised THEN "500" ELSE o
    OBVIOUS
  <1>5. q \in Outcome /\ Delivered(s, q) /\ Isolated(s, q) /\ SpendOK(s)
    BY <1>3 DEF Outcome, Delivered, Isolated, SpendOK, SameGates, SameSpend
  <1> QED
    BY <1>1, <1>2, <1>4, <1>5, EndKeeps

-----------------------------------------------------------------------------
(***************************************************************************)
(* What an analysis makes of an upload, whatever its verdict.              *)
(***************************************************************************)
\* s is upload r after an analysis that was charged c.
AnalysisOf(r, s, c) ==
    /\ s \in UploadRecord /\ SameGates(r, s)
    /\ s.samples = r.samples + 1 /\ s.charged = r.charged + c /\ s.wasted = r.wasted
    /\ s.events \cap Refusals = r.events \cap Refusals

LEMMA ResultsAre == MediaResult \cup Overlaid(ModelVerdict, TRUE) \cup Overlaid(ModelVerdict, FALSE)
                    \cup Overlaid(FallbackVerdict, TRUE) \cup Overlaid(FallbackVerdict, FALSE)
                       \subseteq Result
  <1>1. ASSUME NEW r \in Result, NEW slow \in BOOLEAN
        PROVE  RollingHeuristics(r, slow) \in Result
    <2> DEFINE score == IF r.score > 80 THEN 100 ELSE r.score + 20
               level == IF score >= 80 THEN "high"
                        ELSE IF score >= 40 /\ r.level # "high" THEN "medium" ELSE r.level
    <2>a. r.score \in 0..100 /\ r.level \in {"", "low", "medium", "high"}
      BY DEF Result
    <2>n. PICK n \in 0..100 : n = r.score
      BY <2>a
    <2>1. score \in 0..100
      <3>1. (IF n > 80 THEN 100 ELSE n + 20) \in 0..100
        OBVIOUS
      <3> QED
        BY <2>n, <3>1
    <2>2. level \in {"", "low", "medium", "high"}
      BY <2>a
    <2>3. [score |-> score, level |-> level] \in Result
      BY <2>1, <2>2, Zenon DEF Result
    <2> QED
      BY <2>3, Zenon DEF RollingHeuristics
  <1>2. ASSUME NEW v \in [score: 0..100, anomaly: BOOLEAN], NEW trusted \in BOOLEAN
        PROVE  AnalyzeTransfer(v, trusted) \in Result
    BY DEF AnalyzeTransfer, Result
  <1>v. Verdicts \subseteq [score: 0..100, anomaly: BOOLEAN]
    BY UploadAssumption DEF Verdicts
  <1>m. ModelVerdict \subseteq [score: 0..100, anomaly: BOOLEAN]
    <2> SUFFICES ASSUME NEW v \in ModelVerdict PROVE v \in [score: 0..100, anomaly: BOOLEAN]
      OBVIOUS
    <2>1. PICK f \in Verdicts, h \in Verdicts :
            v = [score |-> IF f.score > h.score THEN f.score ELSE h.score,
                 anomaly |-> f.anomaly \/ h.anomaly]
      BY DEF ModelVerdict, ForestVerdict, DpHeuristicAssessment
    <2>2. (IF f.score > h.score THEN f.score ELSE h.score) \in 0..100
      BY <1>v
    <2>3. (f.anomaly \/ h.anomaly) \in BOOLEAN
      BY Zenon
    <2> QED
      BY <2>1, <2>2, <2>3
  <1>3. ASSUME NEW trusted \in BOOLEAN PROVE Overlaid(ModelVerdict, trusted) \subseteq Result
    BY <1>1, <1>2, <1>m DEF Overlaid
  <1>4. ASSUME NEW trusted \in BOOLEAN PROVE Overlaid(FallbackVerdict, trusted) \subseteq Result
    <2>1. FallbackVerdict \subseteq [score: 0..100, anomaly: BOOLEAN]
      BY <1>v DEF FallbackVerdict
    <2> QED
      BY <1>1, <1>2, <2>1 DEF Overlaid
  <1>5. [score |-> 15, level |-> "low"] \in Result
    BY DEF Result
  <1>6. MediaResult \subseteq Result
    BY <1>1, <1>5 DEF MediaResult
  <1> QED
    BY <1>3, <1>4, <1>6

LEMMA EvaluatedIs ==
    ASSUME NEW r \in UploadRecord, r.samples < MaxAnalyses, NEW ai, NEW s \in Evaluated(r, ai)
    PROVE  AnalysisOf(r, s, 0)
  <1> DEFINE risk == RiskLevel(ai)
             status == IF risk = "BLOCKED" THEN "BLOCKED" ELSE r.status
             counted == [r EXCEPT !.samples = @ + 1, !.lastChunks = r.chunks,
                                  !.status = IF risk = "BLOCKED" THEN "BLOCKED" ELSE @]
             event == CASE r.samples = 0 -> "AI_MONITORING_STARTED"
                        [] risk = "BLOCKED" -> "AI_TRANSFER_BLOCKED"
                        [] risk = "HIGH_RISK" /\ "AI_RISK_ELEVATED" \notin r.events
                             -> "AI_RISK_ELEVATED"
                        [] OTHER -> "none"
  <1>1. /\ r.samples \in 0..MaxAnalyses /\ r.samples + 1 \in 0..MaxAnalyses
        /\ r.chunks \in 0..MaxFragments /\ status \in {"IN_PROGRESS", "BLOCKED", "COMPLETED"}
    BY UploadAssumption DEF UploadRecord
  <1>2. counted = [r EXCEPT !.samples = r.samples + 1, !.lastChunks = r.chunks, !.status = status]
    BY DEF UploadRecord
  <1>3. counted \in UploadRecord
    BY <1>1, <1>2 DEF UploadRecord
  <1>4. PICK c \in UploadRecord : c = counted
    BY <1>3
  <1>5. /\ SameGates(r, c) /\ c.samples = r.samples + 1 /\ c.charged = r.charged + 0
        /\ c.wasted = r.wasted /\ c.events = r.events
    BY <1>1, <1>2, <1>4 DEF UploadRecord, SameGates
  <1>6. event \in {"AI_MONITORING_STARTED", "AI_TRANSFER_BLOCKED", "AI_RISK_ELEVATED", "none"}
    OBVIOUS
  <1>7. s = c \/ (event # "none" /\ \E raised \in Raises : s = Logged(c, event, raised))
    BY <1>4 DEF Evaluated
  <1>8. CASE s = c
    BY <1>5, <1>8 DEF AnalysisOf
  <1>9. CASE event # "none" /\ \E raised \in Raises : s = Logged(c, event, raised)
    <2>1. PICK raised \in BOOLEAN : s = Logged(c, event, raised)
      BY <1>9, RaisesAre
    <2>e. PICK e \in {"AI_MONITORING_STARTED", "AI_TRANSFER_BLOCKED", "AI_RISK_ELEVATED"} : e = event
      BY <1>6, <1>9
    <2>2. e \in Event /\ e \notin Refusals
      BY DEF Event, Refusals
    <2>3. /\ s \in UploadRecord /\ SameGates(c, s) /\ SameSpend(c, s)
          /\ s.events = c.events \cup {e}
      BY <2>1, <2>2, <2>e, LoggedIs
    <2>4. /\ SameGates(r, s) /\ s.samples = r.samples + 1 /\ s.charged = r.charged + 0
          /\ s.wasted = r.wasted
      BY <1>5, <2>3 DEF SameGates, SameSpend
    <2>5. s.events \cap Refusals = r.events \cap Refusals
      BY <1>5, <2>2, <2>3
    <2> QED
      BY <2>3, <2>4, <2>5 DEF AnalysisOf
  <1> QED
    BY <1>7, <1>8, <1>9

\* The charge changes nothing else.
LEMMA ChargeIs ==
    ASSUME NEW r \in UploadRecord
    PROVE  /\ Charged(r) \in UploadRecord /\ SameGates(r, Charged(r))
           /\ Charged(r).samples = r.samples /\ Charged(r).wasted = r.wasted
           /\ Charged(r).charged = r.charged + EpsilonSpent /\ Charged(r).events = r.events
           /\ Charged(r).pc = r.pc
  <1>1. r.charged \in Nat /\ r.charged + EpsilonSpent \in Nat /\ EpsilonSpent \in Nat
    BY BudgetAssumption DEF UploadRecord, EpsilonSpent
  <1>2. Charged(r) = [r EXCEPT !.charged = r.charged + EpsilonSpent]
    BY DEF Charged
  <1>3. [r EXCEPT !.charged = r.charged + EpsilonSpent] \in UploadRecord
    BY <1>1 DEF UploadRecord
  <1>4. PICK c \in UploadRecord : c = Charged(r)
    BY <1>2, <1>3
  <1>5. /\ SameGates(r, c) /\ c.samples = r.samples /\ c.wasted = r.wasted
        /\ c.charged = r.charged + EpsilonSpent /\ c.events = r.events /\ c.pc = r.pc
    BY <1>2, <1>4 DEF UploadRecord, SameGates
  <1> QED
    BY <1>4, <1>5

LEMMA ChargedIs ==
    ASSUME NEW r \in UploadRecord, r.samples < MaxAnalyses, NEW ai,
           NEW s \in Evaluated(Charged(r), ai)
    PROVE  AnalysisOf(r, s, EpsilonSpent)
  <1>1. PICK c \in UploadRecord :
          /\ c = Charged(r) /\ SameGates(r, c) /\ c.samples = r.samples /\ c.wasted = r.wasted
          /\ c.charged = r.charged + EpsilonSpent /\ c.events = r.events
    BY ChargeIs
  <1>2. AnalysisOf(c, s, 0)
    BY <1>1, EvaluatedIs
  <1>3. r.charged \in Nat /\ EpsilonSpent \in Nat
    BY BudgetAssumption DEF UploadRecord, EpsilonSpent
  <1>4. s.charged = r.charged + EpsilonSpent
    BY <1>1, <1>2, <1>3 DEF AnalysisOf
  <1> QED
    BY <1>1, <1>2, <1>4 DEF AnalysisOf, SameGates

\* One more analysis pays for what it was charged, if it is counted ...
LEMMA SpendGrows ==
    ASSUME NEW r \in UploadRecord, NEW s, NEW c \in {0, EpsilonSpent}, AnalysisOf(r, s, c), SpendOK(r)
    PROVE  SpendOK(s)
  <1>1. r.samples \in Nat /\ r.wasted \in Nat /\ r.charged \in Nat /\ Cost \in Nat
    BY BudgetAssumption, UploadAssumption DEF UploadRecord
  <1>2. PICK n \in Nat : n = r.samples + r.wasted
    BY <1>1
  <1>3. (n + 1) * Cost = n * Cost + Cost /\ n * Cost \in Nat
    BY <1>1
  <1>4. c \in Nat /\ c <= Cost
    BY <1>1 DEF EpsilonSpent
  <1>5. s.samples + s.wasted = n + 1 /\ s.charged = r.charged + c
    BY <1>1, <1>2 DEF AnalysisOf
  <1>6. r.charged <= n * Cost
    BY <1>2 DEF SpendOK
  <1>7. s.charged <= n * Cost + Cost
    BY <1>1, <1>3, <1>4, <1>5, <1>6
  <1> QED
    BY <1>3, <1>5, <1>7 DEF SpendOK

\* ... and if it fails after the charge.
LEMMA WastedIs ==
    ASSUME NEW r \in UploadRecord, SpendOK(r)
    PROVE  /\ Wasted(r) \in UploadRecord /\ SameGates(r, Wasted(r)) /\ SpendOK(Wasted(r))
           /\ Wasted(r).events = r.events
  <1>1. PICK c \in UploadRecord :
          /\ c = Charged(r) /\ SameGates(r, c) /\ c.samples = r.samples /\ c.wasted = r.wasted
          /\ c.charged = r.charged + EpsilonSpent /\ c.events = r.events
    BY ChargeIs
  <1>2. /\ r.samples \in Nat /\ r.wasted \in Nat /\ r.charged \in Nat /\ Cost \in Nat
        /\ EpsilonSpent \in Nat /\ EpsilonSpent <= Cost
    BY BudgetAssumption, UploadAssumption DEF UploadRecord, EpsilonSpent
  <1>3. PICK w \in UploadRecord : w = [c EXCEPT !.wasted = c.wasted + 1]
    <2>1. [c EXCEPT !.wasted = c.wasted + 1] \in UploadRecord
      BY <1>1, <1>2 DEF UploadRecord
    <2> QED
      BY <2>1
  <1>4. w = Wasted(r)
    BY <1>1, <1>3 DEF Wasted
  <1>5. /\ SameGates(c, w) /\ w.samples = c.samples /\ w.wasted = c.wasted + 1
        /\ w.charged = c.charged /\ w.events = c.events
    BY <1>3 DEF UploadRecord, SameGates
  <1>6. SpendOK(w)
    <2>1. PICK n \in Nat : n = r.samples + r.wasted
      BY <1>2
    <2>2. (n + 1) * Cost = n * Cost + Cost /\ n * Cost \in Nat
      BY <1>2
    <2>3. w.samples + w.wasted = n + 1 /\ w.charged = r.charged + EpsilonSpent
      BY <1>1, <1>2, <1>5, <2>1
    <2>4. r.charged <= n * Cost
      BY <2>1 DEF SpendOK
    <2>5. w.charged <= n * Cost + Cost
      BY <1>2, <2>2, <2>3, <2>4
    <2> QED
      BY <2>2, <2>3, <2>5 DEF SpendOK
  <1> QED
    BY <1>1, <1>4, <1>5, <1>6 DEF SameGates

-----------------------------------------------------------------------------
(***************************************************************************)
(* The steps of the route.                                                 *)
(***************************************************************************)
\* What the invariant says of the upload at a place.
LEMMA UploadIs ==
    ASSUME UploadInv
    PROVE  up \in UploadRecord /\ SpendOK(up) /\ GatedAt(up, up.pc) /\ HandlerOK
  BY DEF UploadInv, Gated, HandlerOK

LEMMA IdleIs ==
    /\ Idle \in UploadRecord /\ Idle.pc = "idle"
    /\ Idle.samples = 0 /\ Idle.charged = 0 /\ Idle.wasted = 0
    /\ Fresh(Idle) /\ ~Idle.force
  <1>1. (CHOOSE u \in User : TRUE) \in User /\ 0 \in 0..MaxAnalyses /\ 0 \in 0..MaxFragments
    BY UploadAssumption
  <1>2. NoResult \in Result
    BY DEF NoResult, Result
  <1> QED
    BY <1>1, <1>2 DEF Idle, UploadRecord, Extension, Fresh, Open

LEMMA FreshSpend ==
    ASSUME NEW r \in UploadRecord, r.samples = 0, r.charged = 0, r.wasted = 0
    PROVE  SpendOK(r)
  BY BudgetAssumption DEF SpendOK

LEMMA ResetKeeps == ASSUME up' = Idle, HandlerOK' PROVE UploadInv'
  <1>1. PICK s \in UploadRecord : s = Idle
    BY IdleIs
  <1> QED
    BY <1>1, IdleIs, FreshSpend, Moved DEF Gated, GatedAt

LEMMA ReceiveKeeps ==
    ASSUME UploadInv, NEW u \in User, NEW ext \in Extension, NEW trusted \in BOOLEAN,
           Receive(u, ext, trusted)
    PROVE  UploadInv'
  <1>1. HandlerOK'
    BY UploadIs, UploadAssumption DEF Receive, HandlerOK
  <1>2. [Idle EXCEPT !.pc = "received", !.user = u, !.ext = ext, !.trusted = trusted] \in UploadRecord
    BY IdleIs DEF UploadRecord
  <1>3. PICK s \in UploadRecord :
            s = [Idle EXCEPT !.pc = "received", !.user = u, !.ext = ext, !.trusted = trusted]
    BY <1>2
  <1>4. /\ s.pc = "received" /\ s.samples = 0 /\ s.charged = 0 /\ s.wasted = 0 /\ Fresh(s)
    BY <1>3, IdleIs DEF UploadRecord, Fresh, Open
  <1>5. SpendOK(s) /\ Gated(s)
    BY <1>4, FreshSpend DEF Gated, GatedAt
  <1>6. up' = s
    BY <1>3 DEF Receive
  <1> QED
    BY <1>1, <1>5, <1>6, Moved

LEMMA RefuseExtensionKeeps == ASSUME UploadInv, RefuseExtension PROVE UploadInv'
  <1>1. up.verdict # "MALICIOUS"
    BY UploadIs DEF RefuseExtension, GatedAt, Fresh
  <1>2. HandlerOK'
    BY UploadIs DEF RefuseExtension, Refuse, End, HandlerOK
  <1> QED
    BY <1>1, <1>2, UploadIs, RefuseKeeps DEF RefuseExtension, Event

LEMMA RefuseRequestKeeps == ASSUME UploadInv, RefuseRequest PROVE UploadInv'
  <1>1. up.verdict # "MALICIOUS"
    BY UploadIs DEF RefuseRequest, GatedAt, Fresh
  <1>2. HandlerOK'
    BY UploadIs DEF RefuseRequest, Refuse, End, HandlerOK
  <1>3. CASE End(up, "403")
    BY <1>1, <1>2, <1>3, UploadIs, EndKeeps DEF Outcome, Delivered, Isolated
  <1>4. CASE \E event \in {"INTEGRITY_FAILURE", "PUBLIC_KEY_SUBSTITUTION_ATTEMPT",
                           "SIGNATURE_VERIFICATION_FAILED"} : Refuse(up, event, "403")
    BY <1>1, <1>2, <1>4, UploadIs, RefuseKeeps DEF Event
  <1> QED
    BY <1>3, <1>4 DEF RefuseRequest

LEMMA AcceptKeeps == ASSUME UploadInv, Accept PROVE UploadInv'
  <1>1. HandlerOK' /\ up.pc = "received" /\ up.ext # "critical"
    BY UploadIs DEF Accept, Continue, HandlerOK
  <1>2. PICK f \in BOOLEAN : f = (up.ext = "archive")
    OBVIOUS
  <1>3. [up EXCEPT !.force = f] \in UploadRecord
    BY UploadIs DEF UploadRecord
  <1>4. PICK r \in UploadRecord : r = [up EXCEPT !.force = f]
    BY <1>3
  <1>5. SameSpend(up, r) /\ GatedAt(r, "analyse")
    BY <1>1, <1>2, <1>4, UploadIs DEF UploadRecord, SameSpend, GatedAt, Fresh, Open, Forced
  <1>6. SpendOK(r)
    BY <1>5, UploadIs DEF SpendOK, SameSpend
  <1>7. Continue(r, "analyse")
    BY <1>2, <1>4 DEF Accept
  <1> QED
    BY <1>1, <1>5, <1>6, <1>7, ContinueKeeps DEF Pc

LEMMA AnswerKeeps == ASSUME UploadInv, Answer PROVE UploadInv'
  <1>1. HandlerOK'
    BY UploadIs DEF Answer, HandlerOK
  <1> QED
    BY <1>1, ResetKeeps DEF Answer

LEMMA RestartKeeps == ASSUME UploadInv, Restart PROVE UploadInv'
  <1>1. HandlerOK'
    BY UploadIs DEF Restart, HandlerOK
  <1> QED
    BY <1>1, ResetKeeps DEF Restart

LEMMA StartupKeeps == ASSUME UploadInv, Startup PROVE UploadInv'
  <1>1. PICK s \in UploadRecord : s = up
    BY UploadIs
  <1>2. HandlerOK' /\ up' = s /\ SpendOK(s) /\ Gated(s)
    BY <1>1, UploadIs DEF Startup, HandlerOK, Gated
  <1> QED
    BY <1>2, Moved

LEMMA UncaughtKeeps == ASSUME UploadInv, Uncaught PROVE UploadInv'
  <1>1. HandlerOK' /\ End(up, "500")
    BY UploadIs DEF Uncaught, End, HandlerOK
  <1>2. up.verdict = "NONE"
    BY UploadIs DEF Uncaught, GatedAt, Fresh
  <1> QED
    BY <1>1, <1>2, UploadIs, EndKeeps DEF Outcome, Delivered, Isolated

-----------------------------------------------------------------------------
(***************************************************************************)
(* The steps with an analysis.                                             *)
(***************************************************************************)
\* A good answer, a block or a failure: what reanalyze_transfer does at its
\* first call of an upload ...
LEMMA AnalyseCases ==
    ASSUME UploadInv, Analyse
    PROVE  /\ HandlerOK'
           /\ \/ \E c \in {0, EpsilonSpent}, ai \in Result : \E s : AnalysisOf(up, s, c) /\ Analysed(s, ai)
              \/ AnalysisRaised(up) \/ AnalysisRaised(Wasted(up))
  <1>1. HandlerOK'
    <2>1. running' = running
      BY Zenon DEF Analyse, Analysis
    <2>2. uploads' = uploads
      BY Zenon DEF Analyse, Analysis, Analysed, AnalysisRaised, Continue, End
    <2> QED
      BY <2>1, <2>2, UploadIs DEF HandlerOK
  <1>2. up.samples < MaxAnalyses
    BY UploadIs, UploadAssumption DEF Analyse, GatedAt, Fresh
  <1>3. \/ \E ai \in MediaResult : \E s \in Evaluated(up, ai) : Analysed(s, ai)
        \/ \E ai \in Overlaid(ModelVerdict, up.trusted) :
             \E s \in Evaluated(Charged(up), ai) : Analysed(s, ai)
        \/ \E ai \in Overlaid(FallbackVerdict, up.trusted) :
             \E s \in Evaluated(up, ai) : Analysed(s, ai)
        \/ AnalysisRaised(up) \/ AnalysisRaised(Wasted(up))
    BY Zenon DEF Analyse, Analysis
  <1>4. up.trusted \in BOOLEAN
    BY UploadIs DEF UploadRecord
  <1>5. /\ Overlaid(ModelVerdict, up.trusted) \subseteq Result
        /\ Overlaid(FallbackVerdict, up.trusted) \subseteq Result
        /\ MediaResult \subseteq Result
    BY <1>4, ResultsAre
  <1>6. ASSUME NEW ai, NEW s \in Evaluated(up, ai) PROVE AnalysisOf(up, s, 0)
    BY <1>2, UploadIs, EvaluatedIs
  <1>7. ASSUME NEW ai, NEW s \in Evaluated(Charged(up), ai)
        PROVE  AnalysisOf(up, s, EpsilonSpent)
    BY <1>2, UploadIs, ChargedIs
  <1> QED
    BY <1>1, <1>3, <1>5, <1>6, <1>7, Zenon

\* An analysis that raised, charged or not, quarantines.
LEMMA AnalysisRaisedKeeps ==
    ASSUME NEW r \in UploadRecord, SpendOK(r), Open(r), r.verdict = "NONE", r.ext # "critical",
           AnalysisRaised(r), HandlerOK'
    PROVE  UploadInv'
  <1>1. PICK raised \in Raises :
          LET s == [Logged(r, "AI_BLOCK", raised) EXCEPT !.force = TRUE, !.initialBlock = TRUE]
          IN  IF raised THEN End(s, "500") ELSE Continue(s, "scan")
    BY DEF AnalysisRaised
  <1>2. PICK l \in UploadRecord : /\ l = Logged(r, "AI_BLOCK", raised)
                                  /\ SameGates(r, l) /\ SameSpend(r, l)
    BY LoggedIs, RaisesAre DEF Event
  <1>3. [l EXCEPT !.force = TRUE, !.initialBlock = TRUE] \in UploadRecord
    BY DEF UploadRecord
  <1>4. PICK q \in UploadRecord : q = [l EXCEPT !.force = TRUE, !.initialBlock = TRUE]
    BY <1>3
  <1>5. /\ SameSpend(l, q) /\ q.ext = l.ext /\ q.verdict = l.verdict
        /\ q.package = l.package /\ q.outcome = l.outcome /\ q.force = TRUE
    BY <1>4 DEF UploadRecord, SameSpend
  <1>6. SpendOK(q) /\ Open(q) /\ q.verdict = "NONE" /\ q.ext # "critical"
    BY <1>2, <1>5 DEF SpendOK, SameSpend, SameGates, Open
  <1>7. End(q, "500") \/ Continue(q, "scan")
    BY <1>1, <1>2, <1>4
  <1>8. CASE End(q, "500")
    BY <1>6, <1>8, EndKeeps DEF Outcome, Delivered, Isolated
  <1>9. CASE Continue(q, "scan")
    BY <1>5, <1>6, <1>9, ContinueKeeps DEF GatedAt, Pc, Forced
  <1> QED
    BY <1>7, <1>8, <1>9

LEMMA AnalyseKeeps == ASSUME UploadInv, Analyse PROVE UploadInv'
  <1>0. HandlerOK' /\ up.pc = "analyse" /\ Fresh(up) /\ Forced(up)
    BY AnalyseCases, UploadIs DEF Analyse, GatedAt
  <1>1. ASSUME NEW c \in {0, EpsilonSpent}, NEW ai \in Result, NEW s,
               AnalysisOf(up, s, c), Analysed(s, ai)
        PROVE  UploadInv'
    <2>1. s \in UploadRecord /\ SpendOK(s)
      BY <1>1, UploadIs, SpendGrows DEF AnalysisOf
    <2>f. PICK f \in BOOLEAN : f = (s.force \/ RiskLevel(ai) = "BLOCKED")
      BY <2>1 DEF UploadRecord
    <2>b. PICK b \in BOOLEAN : b = (ai.score >= 80)
      <3>1. ai.score \in 0..100
        BY DEF Result
      <3>2. (ai.score >= 80) \in BOOLEAN
        BY <3>1
      <3> QED
        BY <3>2
    <2>2. [s EXCEPT !.ai = ai, !.force = f, !.initialBlock = b] \in UploadRecord
      BY <2>1 DEF UploadRecord
    <2>3. PICK r \in UploadRecord : r = [s EXCEPT !.ai = ai, !.force = f, !.initialBlock = b]
      BY <2>2
    <2>4. /\ SameSpend(s, r) /\ r.events = s.events /\ r.ext = s.ext /\ r.verdict = s.verdict
          /\ r.package = s.package /\ r.outcome = s.outcome
          /\ r.ai = ai /\ r.initialBlock = b /\ r.force = f
      BY <2>1, <2>3 DEF UploadRecord, SameSpend
    <2>5. Continue(r, "scan")
      BY <1>1, <2>1, <2>3, <2>f, <2>b, Zenon DEF Analysed, UploadRecord
    <2>6. SpendOK(r)
      BY <2>1, <2>4 DEF SpendOK, SameSpend
    <2>7. Open(r) /\ r.verdict = "NONE" /\ (r.initialBlock => r.force \/ r.ai.score >= 80)
      BY <1>0, <1>1, <2>4, <2>b DEF AnalysisOf, SameGates, Fresh, Open
    <2>8. Forced(r)
      BY <1>0, <1>1, <2>4, <2>f DEF AnalysisOf, SameGates, Fresh, Forced
    <2> QED
      BY <1>0, <2>5, <2>6, <2>7, <2>8, ContinueKeeps DEF GatedAt, Pc
  <1>2. CASE AnalysisRaised(up)
    BY <1>0, <1>2, UploadIs, AnalysisRaisedKeeps DEF Fresh, Forced
  <1>3. CASE AnalysisRaised(Wasted(up))
    <2>1. PICK w \in UploadRecord : w = Wasted(up) /\ SameGates(up, w) /\ SpendOK(w)
      BY UploadIs, WastedIs
    <2>2. Open(w) /\ w.verdict = "NONE" /\ w.ext # "critical"
      BY <1>0, <2>1 DEF Fresh, Open, Forced, SameGates
    <2> QED
      BY <1>0, <1>3, <2>1, <2>2, AnalysisRaisedKeeps
  <1> QED
    BY <1>1, <1>2, <1>3, AnalyseCases

-----------------------------------------------------------------------------
\* ... and at the later ones, where its answer is dropped.
LEMMA FragmentCases ==
    ASSUME UploadInv, NEW elapsed \in BOOLEAN, Fragment(elapsed),
           NEW r \in UploadRecord, r = [up EXCEPT !.chunks = @ + 1]
    PROVE  /\ HandlerOK'
           /\ \/ Continue(r, "encrypt") \/ Continue(Wasted(r), "encrypt")
              \/ \E c \in {0, EpsilonSpent} : \E s : AnalysisOf(r, s, c) /\ Continue(s, "encrypt")
              \/ Abort(r)
  <1>1. HandlerOK'
    <2>1. running' = running
      BY Zenon DEF Fragment, Analysis
    <2>2. uploads' = uploads
      BY Zenon DEF Fragment, Analysis, Dropped, Swallowed, Abort, Continue, End
    <2> QED
      BY <2>1, <2>2, UploadIs DEF HandlerOK
  <1>2. \/ Continue(r, "encrypt")
        \/ ShouldReanalyse(r, elapsed) /\ Analysis(r, Dropped, Abort, Swallowed)
    BY Zenon DEF Fragment
  <1>3. CASE Continue(r, "encrypt")
    BY <1>1, <1>3
  <1>4. CASE ShouldReanalyse(r, elapsed) /\ Analysis(r, Dropped, Abort, Swallowed)
    <2>1. r.samples < MaxAnalyses
      BY <1>4, Zenon DEF ShouldReanalyse
    <2>2. \/ \E ai : \E s \in Evaluated(r, ai) : Continue(s, "encrypt")
          \/ \E ai : \E s \in Evaluated(Charged(r), ai) : Continue(s, "encrypt")
          \/ Abort(r) \/ Continue(r, "encrypt") \/ Continue(Wasted(r), "encrypt")
      BY <1>4, Zenon DEF Analysis, Dropped, Swallowed
    <2>3. ASSUME NEW ai, NEW s \in Evaluated(r, ai) PROVE AnalysisOf(r, s, 0)
      BY <2>1, EvaluatedIs
    <2>4. ASSUME NEW ai, NEW s \in Evaluated(Charged(r), ai)
          PROVE  AnalysisOf(r, s, EpsilonSpent)
      BY <2>1, ChargedIs
    <2> QED
      BY <1>1, <2>2, <2>3, <2>4, Zenon
  <1> QED
    BY <1>2, <1>3, <1>4

\* Every exception out of the fragment loop ends in quarantine.
LEMMA AbortKeeps ==
    ASSUME NEW r \in UploadRecord, SpendOK(r), r.verdict # "MALICIOUS", Abort(r), HandlerOK'
    PROVE  UploadInv'
  <1>1. PICK raised \in Raises :
          End([Logged(r, "AI_BLOCK", raised) EXCEPT !.force = TRUE],
              IF raised THEN "500" ELSE "quarantined")
    BY DEF Abort
  <1>2. PICK l \in UploadRecord : /\ l = Logged(r, "AI_BLOCK", raised)
                                  /\ SameGates(r, l) /\ SameSpend(r, l)
    BY LoggedIs, RaisesAre DEF Event
  <1>3. [l EXCEPT !.force = TRUE] \in UploadRecord
    BY DEF UploadRecord
  <1>4. PICK s \in UploadRecord : s = [l EXCEPT !.force = TRUE]
    BY <1>3
  <1>5. SameSpend(l, s) /\ s.verdict = l.verdict
    BY <1>4 DEF UploadRecord, SameSpend
  <1>6. PICK o \in {"500", "quarantined"} : o = IF raised THEN "500" ELSE "quarantined"
    OBVIOUS
  <1>7. SpendOK(s) /\ o \in Outcome /\ Delivered(s, o) /\ Isolated(s, o)
    BY <1>2, <1>5 DEF SpendOK, SameSpend, SameGates, Outcome, Delivered, Isolated
  <1> QED
    BY <1>1, <1>2, <1>4, <1>6, <1>7, EndKeeps

LEMMA FragmentKeeps ==
    ASSUME UploadInv, NEW elapsed \in BOOLEAN, Fragment(elapsed)
    PROVE  UploadInv'
  <1>1. /\ up \in UploadRecord /\ SpendOK(up) /\ GatedAt(up, "encrypt") /\ up.chunks < MaxFragments
        /\ Passes(up)
    BY UploadIs DEF Fragment, GatedAt
  <1>2. up.chunks \in 0..MaxFragments /\ up.chunks + 1 \in 0..MaxFragments
    BY <1>1, UploadAssumption DEF UploadRecord
  <1>3. [up EXCEPT !.chunks = @ + 1] \in UploadRecord
    BY <1>1, <1>2 DEF UploadRecord
  <1>4. PICK r \in UploadRecord : r = [up EXCEPT !.chunks = @ + 1]
    BY <1>3
  <1>5. /\ SameSpend(up, r) /\ r.events = up.events /\ r.ext = up.ext /\ r.force = up.force
        /\ r.initialBlock = up.initialBlock /\ r.verdict = up.verdict /\ r.scanned = up.scanned
        /\ r.package = up.package /\ r.outcome = up.outcome
    BY <1>1, <1>4 DEF UploadRecord, SameSpend
  <1>6. SpendOK(r) /\ GatedAt(r, "encrypt") /\ r.verdict # "MALICIOUS"
    BY <1>1, <1>5 DEF SpendOK, SameSpend, GatedAt, Open, Forced, Passes
  <1>7. CASE Continue(r, "encrypt")
    BY <1>4, <1>6, <1>7, FragmentCases, ContinueKeeps DEF Pc
  <1>8. ASSUME NEW c \in {0, EpsilonSpent}, NEW s, AnalysisOf(r, s, c), Continue(s, "encrypt")
        PROVE  UploadInv'
    <2>1. s \in UploadRecord /\ SpendOK(s)
      BY <1>6, <1>8, SpendGrows DEF AnalysisOf
    <2>2. GatedAt(s, "encrypt")
      BY <1>6, <1>8 DEF AnalysisOf, SameGates, GatedAt, Open, Forced, Passes
    <2> QED
      BY <1>4, <1>8, <2>1, <2>2, FragmentCases, ContinueKeeps DEF Pc
  <1>9. CASE Abort(r)
    BY <1>4, <1>6, <1>9, FragmentCases, AbortKeeps
  <1>10. CASE Continue(Wasted(r), "encrypt")
    <2>1. PICK w \in UploadRecord : /\ w = Wasted(r) /\ SameGates(r, w) /\ SpendOK(w)
                                    /\ w.events = r.events
      BY <1>6, WastedIs
    <2>2. GatedAt(w, "encrypt")
      BY <1>6, <2>1 DEF SameGates, GatedAt, Open, Forced, Passes
    <2> QED
      BY <1>4, <1>10, <2>1, <2>2, FragmentCases, ContinueKeeps DEF Pc
  <1> QED
    BY <1>4, <1>7, <1>8, <1>9, <1>10, FragmentCases

LEMMA EncryptionFailsKeeps == ASSUME UploadInv, EncryptionFails PROVE UploadInv'
  <1>1. PICK package \in {"none", "partial"} : Abort([up EXCEPT !.package = package])
    BY DEF EncryptionFails
  <1>2. /\ up \in UploadRecord /\ SpendOK(up) /\ up.verdict # "MALICIOUS" /\ HandlerOK'
    BY UploadIs DEF EncryptionFails, GatedAt, Passes, HandlerOK, Abort, End
  <1>3. [up EXCEPT !.package = package] \in UploadRecord
    BY <1>2 DEF UploadRecord
  <1>4. PICK r \in UploadRecord : r = [up EXCEPT !.package = package]
    BY <1>3
  <1>5. SameSpend(up, r) /\ r.verdict = up.verdict
    BY <1>2, <1>4 DEF UploadRecord, SameSpend
  <1> QED
    BY <1>1, <1>2, <1>4, <1>5, AbortKeeps DEF SpendOK, SameSpend

-----------------------------------------------------------------------------
\* The scan.
LEMMA ScansAre ==
    ASSUME NEW ext, NEW scan \in Scans(ext)
    PROVE  /\ scan.verdict \in {"PASSED", "SCAN_FAILED", "MALICIOUS"} /\ scan.scanned \in BOOLEAN
           /\ ScanFailClosed /\ scan.verdict = "PASSED" => scan.scanned
  <1>1. CASE scan = Locked
    BY <1>1 DEF Locked
  <1>2. CASE scan \in ScanFullFile(ext)
    <2>1. PICK clamav \in {"found", "nothing", "silent"}, score \in Predict(ext) :
            scan = [verdict |-> IF clamav = "found" \/ score = "malicious" THEN "MALICIOUS"
                                ELSE IF clamav = "silent" /\ ScanFailClosed THEN "SCAN_FAILED"
                                ELSE "PASSED",
                    scanned |-> clamav # "silent"]
      BY <1>2 DEF ScanFullFile
    <2>2. /\ scan.verdict = IF clamav = "found" \/ score = "malicious" THEN "MALICIOUS"
                            ELSE IF clamav = "silent" /\ ScanFailClosed THEN "SCAN_FAILED"
                            ELSE "PASSED"
          /\ scan.scanned = (clamav # "silent")
      BY <2>1, Zenon
    <2> QED
      BY <2>2
  <1> QED
    BY <1>1, <1>2 DEF Scans

\* What the scan writes into the upload.
LEMMA ScannedIs ==
    ASSUME NEW r \in UploadRecord, NEW ext, NEW scan \in Scans(ext)
    PROVE  \E s \in UploadRecord :
             /\ s = Scanned(r, scan) /\ SameSpend(r, s)
             /\ s.verdict = scan.verdict /\ s.scanned = scan.scanned /\ s.ext = r.ext
             /\ s.force = r.force /\ s.initialBlock = r.initialBlock /\ s.events = r.events
             /\ s.package = r.package /\ s.outcome = r.outcome
  <1>1. PICK v \in {"PASSED", "SCAN_FAILED", "MALICIOUS"}, b \in BOOLEAN :
            v = scan.verdict /\ b = scan.scanned
    BY ScansAre, Zenon
  <1>2. PICK s \in UploadRecord : s = [r EXCEPT !.verdict = v, !.scanned = b]
    <2>1. [r EXCEPT !.verdict = v, !.scanned = b] \in UploadRecord
      BY DEF UploadRecord
    <2> QED
      BY <2>1
  <1>3. /\ SameSpend(r, s) /\ s.verdict = v /\ s.scanned = b /\ s.ext = r.ext
        /\ s.force = r.force /\ s.initialBlock = r.initialBlock /\ s.events = r.events
        /\ s.package = r.package /\ s.outcome = r.outcome
    BY <1>2 DEF UploadRecord, SameSpend
  <1>4. s = Scanned(r, scan)
    BY <1>1, <1>2, Zenon DEF Scanned
  <1> QED
    BY <1>1, <1>3, <1>4, Zenon

\* A malicious upload on its way out: nothing is packaged.
Isolating(r) == r \in UploadRecord /\ SpendOK(r) /\ r.package = "none" /\ r.verdict = "MALICIOUS"

\* However far quarantine_file comes, and all the way when it returns.
LEMMA QuarantineIs ==
    ASSUME NEW r, Isolating(r)
    PROVE  \A q \in QuarantineFile(r) :
             /\ Isolating(q.raised) /\ Isolating(q.returned)
             /\ q.returned.vault = "recorded" /\ "MALWARE_QUARANTINED" \in q.returned.events
  <1>1. PICK m \in UploadRecord : m = SaveToQuarantine(r)
    <2>1. SaveToQuarantine(r) \in UploadRecord
      BY DEF Isolating, SaveToQuarantine, UploadRecord
    <2> QED
      BY <2>1
  <1>2. SameSpend(r, m) /\ m.package = r.package /\ m.verdict = r.verdict
    BY <1>1 DEF Isolating, SaveToQuarantine, UploadRecord, SameSpend
  <1>3. PICK c \in UploadRecord : c = [m EXCEPT !.vault = "recorded"]
    <2>1. [m EXCEPT !.vault = "recorded"] \in UploadRecord
      BY DEF UploadRecord
    <2> QED
      BY <2>1
  <1>4. SameSpend(m, c) /\ c.package = m.package /\ c.verdict = m.verdict /\ c.vault = "recorded"
    BY <1>3 DEF UploadRecord, SameSpend
  <1>5. PICK l \in UploadRecord : l = [c EXCEPT !.events = @ \cup {"MALWARE_QUARANTINED"}]
    <2>1. c.events \cup {"MALWARE_QUARANTINED"} \in SUBSET Event
      BY DEF UploadRecord, Event
    <2>2. [c EXCEPT !.events = @ \cup {"MALWARE_QUARANTINED"}] \in UploadRecord
      BY <2>1 DEF UploadRecord
    <2> QED
      BY <2>2
  <1>6. /\ SameSpend(c, l) /\ l.package = c.package /\ l.verdict = c.verdict
        /\ l.vault = c.vault /\ l.events = c.events \cup {"MALWARE_QUARANTINED"}
    BY <1>5 DEF UploadRecord, SameSpend
  <1>7. Isolating(r) /\ Isolating(m) /\ Isolating(c) /\ Isolating(l)
    BY <1>2, <1>4, <1>6 DEF Isolating, SpendOK, SameSpend
  <1>8. QuarantineFile(r) = [raised : {r, m, c}, returned : {l}]
    BY <1>1, <1>3, <1>5, Zenon DEF QuarantineFile
  <1> QED
    BY <1>4, <1>6, <1>7, <1>8

LEMMA MaliciousKeeps ==
    ASSUME UploadInv, NEW scan \in Scans(up.ext), Malicious(scan)
    PROVE  UploadInv'
  <1>0. /\ up \in UploadRecord /\ SpendOK(up) /\ up.package = "none" /\ HandlerOK'
    BY UploadIs DEF Malicious, GatedAt, Open, HandlerOK, Refuse, End
  <1>s. PICK f \in UploadRecord :
            /\ f = Scanned(up, scan) /\ SameSpend(up, f)
            /\ f.verdict = scan.verdict /\ f.package = up.package
    BY <1>0, ScannedIs
  <1>1. f = Scanned(up, scan) /\ Isolating(f)
    BY <1>0, <1>s DEF Malicious, Isolating, SpendOK, SameSpend
  <1>2. PICK q \in QuarantineFile(f) :
          \/ End(q.raised, "500")
          \/ \E raised \in Raises :
               LET s == Logged(q.returned, "MALWARE_DETECTED", raised)
               IN  IF raised THEN End(s, "500") ELSE Refuse(s, "QUARANTINE", "406")
    BY <1>1 DEF Malicious
  <1>3. /\ Isolating(q.raised) /\ Isolating(q.returned)
        /\ q.returned.vault = "recorded" /\ "MALWARE_QUARANTINED" \in q.returned.events
    BY <1>1, QuarantineIs
  <1>4. CASE End(q.raised, "500")
    BY <1>0, <1>3, <1>4, EndKeeps DEF Isolating, Outcome, Delivered, Isolated
  <1>5. ASSUME NEW raised \in Raises, NEW s, s = Logged(q.returned, "MALWARE_DETECTED", raised),
               End(s, "500") \/ Refuse(s, "QUARANTINE", "406")
        PROVE  UploadInv'
    <2>l. PICK l \in UploadRecord : l = q.returned
      BY <1>3 DEF Isolating
    <2>1. /\ s \in UploadRecord /\ SameGates(l, s) /\ SameSpend(l, s)
          /\ s.events = l.events \cup {"MALWARE_DETECTED"}
      BY <1>5, <2>l, LoggedIs, RaisesAre DEF Event
    <2>2. SpendOK(s) /\ s.package = "none" /\ s.verdict = "MALICIOUS" /\ s.vault = "recorded"
      BY <1>3, <2>l, <2>1 DEF Isolating, SpendOK, SameGates, SameSpend
    <2>3. CASE End(s, "500")
      BY <1>0, <2>1, <2>2, <2>3, EndKeeps DEF Outcome, Delivered, Isolated
    <2>4. CASE Refuse(s, "QUARANTINE", "406")
      <3>1. PICK r2 \in Raises :
               End(Logged(s, "QUARANTINE", r2), IF r2 THEN "500" ELSE "406")
        BY <2>4 DEF Refuse
      <3>2. PICK t \in UploadRecord : /\ t = Logged(s, "QUARANTINE", r2)
                                      /\ SameGates(s, t) /\ SameSpend(s, t)
                                      /\ t.events = s.events \cup {"QUARANTINE"}
        BY <2>1, LoggedIs, RaisesAre DEF Event
      <3>3. PICK o \in {"500", "406"} : o = IF r2 THEN "500" ELSE "406"
        OBVIOUS
      <3>4. {"MALWARE_QUARANTINED", "MALWARE_DETECTED", "QUARANTINE"} \subseteq t.events
        BY <1>3, <2>l, <2>1, <3>2
      <3>5. SpendOK(t) /\ o \in Outcome /\ Delivered(t, o) /\ Isolated(t, o)
        BY <2>2, <3>2, <3>4 DEF SpendOK, SameSpend, SameGates, Outcome, Delivered, Isolated
      <3> QED
        BY <1>0, <3>1, <3>2, <3>3, <3>5, EndKeeps
    <2> QED
      BY <1>5, <2>3, <2>4
  <1> QED
    BY <1>2, <1>4, <1>5


LEMMA NotMaliciousKeeps ==
    ASSUME UploadInv, NEW scan \in Scans(up.ext), NotMalicious(scan)
    PROVE  UploadInv'
  <1>0. /\ up \in UploadRecord /\ SpendOK(up) /\ GatedAt(up, "scan") /\ HandlerOK'
        /\ scan.verdict \in {"PASSED", "SCAN_FAILED"}
        /\ ScanFailClosed /\ scan.verdict = "PASSED" => scan.scanned
    BY UploadIs, ScansAre DEF NotMalicious, HandlerOK, Continue, End
  <1>1. PICK s \in UploadRecord :
            /\ s = Scanned(up, scan) /\ SameSpend(up, s)
            /\ s.verdict = scan.verdict /\ s.scanned = scan.scanned /\ s.ext = up.ext
            /\ s.force = up.force /\ s.initialBlock = up.initialBlock /\ s.events = up.events
            /\ s.package = up.package /\ s.outcome = up.outcome
    BY <1>0, ScannedIs
  <1>3. SpendOK(s)
    BY <1>0, <1>1 DEF SpendOK, SameSpend
  <1>4. CASE scan.verdict = "SCAN_FAILED" /\ ScanFailClosed
    <2>1. End(s, "406")
      BY <1>1, <1>4 DEF NotMalicious
    <2> QED
      BY <1>0, <1>1, <1>3, <2>1, EndKeeps DEF Outcome, Delivered, Isolated
  <1>5. CASE ~(scan.verdict = "SCAN_FAILED" /\ ScanFailClosed)
    <2>a. PICK b \in BOOLEAN : b = (up.ai.score >= 80)
      <3>1. up.ai.score \in 0..100
        BY <1>0 DEF UploadRecord, Result
      <3>2. (up.ai.score >= 80) \in BOOLEAN
        BY <3>1
      <3> QED
        BY <3>2
    <2>f. PICK f \in BOOLEAN : f = (s.force \/ b \/ up.ai.level \in {"high", "critical"})
      BY DEF UploadRecord
    <2>1. PICK r \in UploadRecord : r = [s EXCEPT !.force = f, !.ai = NoResult]
      <3>1. NoResult \in Result
        BY DEF NoResult, Result
      <3>2. [s EXCEPT !.force = f, !.ai = NoResult] \in UploadRecord
        BY <3>1 DEF UploadRecord
      <3> QED
        BY <3>2
    <2>2. /\ SameSpend(s, r) /\ r.verdict = scan.verdict /\ r.scanned = scan.scanned
          /\ r.ext = up.ext /\ r.force = f
          /\ r.initialBlock = up.initialBlock /\ r.events = up.events
          /\ r.package = up.package /\ r.outcome = up.outcome
      BY <1>1, <2>1 DEF UploadRecord, SameSpend
    <2>3. SpendOK(r)
      BY <1>3, <2>2 DEF SpendOK, SameSpend
    <2>4. up.force => f
      BY <1>1, <2>f
    <2>5. up.initialBlock => f
      BY <1>0, <2>a, <2>f, <2>4 DEF GatedAt
    <2>6. GatedAt(r, "encrypt")
      BY <1>0, <1>5, <2>2, <2>4, <2>5 DEF GatedAt, Open, Forced, Passes
    <2>7. Continue(r, "encrypt")
      BY <1>1, <1>5, <2>1, <2>f, <2>a, Zenon DEF NotMalicious, UploadRecord
    <2> QED
      BY <1>0, <2>3, <2>6, <2>7, ContinueKeeps DEF Pc
  <1> QED
    BY <1>4, <1>5

\* The package and the answer.
LEMMA PackageKeeps == ASSUME UploadInv, Package PROVE UploadInv'
  <1>0. /\ up \in UploadRecord /\ SpendOK(up) /\ GatedAt(up, "encrypt") /\ HandlerOK'
    BY UploadIs DEF Package, HandlerOK, End
  <1>1. PICK raised \in Raises :
          LET s == [Logged(up, "PFCE_SIGNATURE_CREATED", raised) EXCEPT !.package = "complete"]
          IN  \/ End(s, IF up.force THEN "quarantined" ELSE "delivered")
              \/ End([Logged(s, "AI_MONITORING_COMPLETED", raised) EXCEPT !.status = "COMPLETED"],
                     IF up.force THEN "quarantined" ELSE "delivered")
    BY DEF Package
  <1>2. PICK l \in UploadRecord : /\ l = Logged(up, "PFCE_SIGNATURE_CREATED", raised)
                                  /\ SameGates(up, l) /\ SameSpend(up, l)
                                  /\ l.events = up.events \cup {"PFCE_SIGNATURE_CREATED"}
    BY <1>0, LoggedIs, RaisesAre DEF Event
  <1>3. PICK s \in UploadRecord : s = [l EXCEPT !.package = "complete"]
    <2>1. [l EXCEPT !.package = "complete"] \in UploadRecord
      BY DEF UploadRecord
    <2> QED
      BY <2>1
  <1>4. PICK o \in {"quarantined", "delivered"} : o = IF up.force THEN "quarantined" ELSE "delivered"
    OBVIOUS
  <1> DEFINE Ready(r) == /\ SpendOK(r) /\ r.package = "complete"
                         /\ r.verdict = up.verdict /\ r.scanned = up.scanned
                         /\ r.force = up.force /\ r.initialBlock = up.initialBlock /\ r.ext = up.ext
                         /\ r.events \cap Refusals = up.events \cap Refusals
  <1>5. Ready(s)
    <2>1. /\ SameSpend(l, s) /\ s.package = "complete" /\ s.verdict = l.verdict
          /\ s.force = l.force /\ s.initialBlock = l.initialBlock /\ s.ext = l.ext
          /\ s.events = l.events /\ s.scanned = l.scanned
      BY <1>3 DEF UploadRecord, SameSpend
    <2>2. SpendOK(s)
      BY <1>0, <1>2, <2>1 DEF SpendOK, SameSpend
    <2>3. s.events \cap Refusals = up.events \cap Refusals
      BY <1>2, <2>1 DEF Refusals
    <2> QED
      BY <1>2, <2>1, <2>2, <2>3 DEF SameGates
  <1>6. ASSUME NEW r \in UploadRecord, Ready(r), End(r, o) PROVE UploadInv'
    <2>1. o \in Outcome /\ Delivered(r, o) /\ Isolated(r, o)
      <3>1. o \in Outcome /\ (o = "delivered" => ~up.force)
        BY <1>4 DEF Outcome
      <3>2. /\ r.package = "complete" /\ Passes(r) /\ r.verdict # "MALICIOUS"
            /\ r.force = up.force /\ r.initialBlock = up.initialBlock /\ r.ext = up.ext
            /\ r.events \cap Refusals = up.events \cap Refusals
        BY <1>0, <1>6 DEF GatedAt, Passes
      <3>3. Forced(up) /\ (up.initialBlock => up.force)
        BY <1>0 DEF GatedAt
      <3> QED
        BY <3>1, <3>2, <3>3 DEF Delivered, Isolated, Forced
    <2> QED
      BY <1>0, <1>6, <2>1, EndKeeps
  <1>7. CASE End(s, o)
    BY <1>5, <1>6, <1>7
  <1>8. CASE End([Logged(s, "AI_MONITORING_COMPLETED", raised) EXCEPT !.status = "COMPLETED"], o)
    <2>1. PICK t \in UploadRecord : /\ t = Logged(s, "AI_MONITORING_COMPLETED", raised)
                                    /\ SameGates(s, t) /\ SameSpend(s, t)
                                    /\ t.events = s.events \cup {"AI_MONITORING_COMPLETED"}
      BY LoggedIs, RaisesAre DEF Event
    <2>2. PICK r \in UploadRecord : r = [t EXCEPT !.status = "COMPLETED"]
      <3>1. [t EXCEPT !.status = "COMPLETED"] \in UploadRecord
        BY DEF UploadRecord
      <3> QED
        BY <3>1
    <2>3. SameGates(t, r) /\ SameSpend(t, r) /\ r.events = t.events
      BY <2>2 DEF UploadRecord, SameGates, SameSpend
    <2>4. r.events \cap Refusals = s.events \cap Refusals
      BY <2>1, <2>3 DEF Refusals
    <2>5. Ready(r)
      BY <1>5, <2>1, <2>3, <2>4 DEF SameGates, SameSpend, SpendOK
    <2> QED
      BY <1>6, <1>8, <2>1, <2>2, <2>5
  <1> QED
    BY <1>1, <1>2, <1>3, <1>4, <1>7, <1>8

-----------------------------------------------------------------------------
LEMMA UploadNextKeeps == UploadInv /\ [UploadNext]_uploadVars => UploadInv'
  <1> SUFFICES ASSUME UploadInv, [UploadNext]_uploadVars PROVE UploadInv'
    OBVIOUS
  <1>1. CASE UNCHANGED <<up, running, uploads>>
    <2>1. PICK s \in UploadRecord : s = up
      BY UploadIs
    <2>2. HandlerOK' /\ up' = s /\ SpendOK(s) /\ Gated(s)
      BY <1>1, <2>1, UploadIs DEF HandlerOK, Gated
    <2> QED
      BY <2>2, Moved
  <1>2. ASSUME NEW u \in User, NEW ext \in {"critical", "archive", "media", "other"},
               NEW trusted \in BOOLEAN, Receive(u, ext, trusted)
        PROVE  UploadInv'
    BY <1>2, ReceiveKeeps DEF Extension
  <1>3. CASE UploadStep
    <2>1. CASE RefuseExtension \/ RefuseRequest \/ Accept \/ Analyse
      BY <2>1, RefuseExtensionKeeps, RefuseRequestKeeps, AcceptKeeps, AnalyseKeeps
    <2>2. CASE Scan
      BY <2>2, MaliciousKeeps, NotMaliciousKeeps DEF Scan
    <2>3. CASE \E elapsed \in BOOLEAN : Fragment(elapsed)
      BY <2>3, FragmentKeeps
    <2>4. CASE EncryptionFails \/ Package \/ Uncaught \/ Answer
      BY <2>4, EncryptionFailsKeeps, PackageKeeps, UncaughtKeeps, AnswerKeeps
    <2> QED
      BY <1>3, <2>1, <2>2, <2>3, <2>4 DEF UploadStep
  <1>4. CASE Restart
    BY <1>4, RestartKeeps
  <1>5. CASE Startup
    BY <1>5, StartupKeeps
  <1> QED
    BY <1>1, <1>2, <1>3, <1>4, <1>5 DEF UploadNext, uploadVars, Environment

LEMMA UploadInvariant == UploadSpec => []UploadInv
  <1>1. UploadInit => UploadInv
    <2> SUFFICES ASSUME UploadInit PROVE UploadInv
      OBVIOUS
    <2>1. up = Idle /\ uploads \in 0..MaxUploads
      BY UploadAssumption DEF UploadInit
    <2>2. running \in BOOLEAN
      BY Zenon DEF UploadInit
    <2> QED
      BY <2>1, <2>2, IdleIs, FreshSpend DEF UploadInv, Gated, GatedAt
  <1> QED
    BY <1>1, UploadNextKeeps, PTL DEF UploadSpec

\* Types of the upload, and the analyses of a transfer within their limit.
THEOREM UploadTypesHold == UploadSpec => []UploadTypeOK
  <1>1. BudgetInv /\ UploadInv => UploadTypeOK
    BY DEF BudgetInv, UploadInv, UploadTypeOK
  <1> QED
    BY <1>1, BudgetInvariant, UploadInvariant, PTL

\* internal_encrypt delivers only what passed every gate.
THEOREM DeliveriesAreVetted == UploadSpec => []DeliveredIsVetted
  <1>1. UploadInv => DeliveredIsVetted
    BY DEF UploadInv, DeliveredIsVetted, Gated, GatedAt, Fresh, Open, Delivered, Passes, Refusals,
           UploadRecord
  <1> QED
    BY <1>1, UploadInvariant, PTL

\* A malicious file is isolated, whichever of the steps that isolate it fails.
THEOREM MaliciousFilesAreIsolated == UploadSpec => []MaliciousIsIsolated
  <1>1. UploadInv => MaliciousIsIsolated
    BY DEF UploadInv, MaliciousIsIsolated, Gated, GatedAt, Fresh, Open, Isolated, Passes,
           UploadRecord
  <1> QED
    BY <1>1, UploadInvariant, PTL

\* A transfer is charged for at most dp_max_analyses_per_transfer analyses
\* besides those that failed after the charge.
THEOREM TransferSpendIsBounded == UploadSpec => []TransferSpendBounded
  <1>1. UploadInv => TransferSpendBounded
    <2> SUFFICES ASSUME UploadInv PROVE up.charged <= (MaxAnalyses + up.wasted) * Cost
      BY DEF TransferSpendBounded
    <2>1. /\ up.samples \in 0..MaxAnalyses /\ up.charged \in Nat /\ MaxAnalyses \in Nat
          /\ up.wasted \in Nat /\ Cost \in Nat /\ up.charged <= (up.samples + up.wasted) * Cost
      BY BudgetAssumption, UploadAssumption DEF UploadInv, UploadRecord, SpendOK
    <2> DEFINE n == up.samples + up.wasted
               k == MaxAnalyses - up.samples
    <2>2. n \in Nat /\ k \in Nat /\ MaxAnalyses + up.wasted = n + k
      BY <2>1
    <2>3. up.charged <= n * Cost
      BY <2>1
    <2> HIDE DEF n, k
    <2>4. (n + k) * Cost = n * Cost + k * Cost /\ k * Cost \in Nat /\ n * Cost \in Nat
      BY <2>1, <2>2
    <2>5. (MaxAnalyses + up.wasted) * Cost = (n + k) * Cost
      BY <2>2
    <2> QED
      BY <2>1, <2>3, <2>4, <2>5
  <1> QED
    BY <1>1, UploadInvariant, PTL

-----------------------------------------------------------------------------
(***************************************************************************)
(* No gate and no fragment is done again.                                  *)
(***************************************************************************)
LEMMA EndIsAtDone == ASSUME NEW r, NEW o, End(r, o), up' \in UploadRecord PROVE up'.pc = "done"
  BY DEF End, UploadRecord

LEMMA ContinueIsAt ==
    ASSUME NEW r, NEW pc, Continue(r, pc), up' \in UploadRecord
    PROVE  up'.pc = pc /\ up'.chunks = r.chunks
  BY DEF Continue, UploadRecord

\* The places in the order of the route.
LEMMA RemainingFalls ==
    ASSUME up \in UploadRecord, up' \in UploadRecord,
           \/ up.pc \in {"received", "analyse", "scan", "encrypt"} /\ up'.pc = "done"
           \/ up.pc = "received" /\ up'.pc = "analyse"
           \/ up.pc = "analyse" /\ up'.pc = "scan"
           \/ up.pc = "scan" /\ up'.pc = "encrypt"
           \/ up.pc = "encrypt" /\ up'.pc = "encrypt" /\ up'.chunks = up.chunks + 1
    PROVE  Remaining(up') < Remaining(up)
  <1>1. /\ MaxFragments \in Nat /\ up.chunks \in 0..MaxFragments /\ up'.chunks \in 0..MaxFragments
    BY UploadAssumption DEF UploadRecord
  <1> QED
    BY <1>1 DEF Remaining

\* Where the steps of the route leave an upload ...
LEMMA RouteMoves ==
    ASSUME up' \in UploadRecord, RefuseExtension \/ RefuseRequest \/ Accept \/ Analyse \/ Scan
    PROVE  \/ up.pc \in {"received", "analyse", "scan"} /\ up'.pc = "done"
           \/ up.pc = "received" /\ up'.pc = "analyse"
           \/ up.pc = "analyse" /\ up'.pc = "scan"
           \/ up.pc = "scan" /\ up'.pc = "encrypt"
  <1>1. CASE RefuseExtension \/ RefuseRequest
    <2>1. up.pc = "received" /\ \E r, o : End(r, o)
      BY <1>1, Zenon DEF RefuseExtension, RefuseRequest, Refuse
    <2> QED
      BY <2>1, EndIsAtDone
  <1>2. CASE Accept
    BY <1>2, ContinueIsAt DEF Accept
  <1>3. CASE Analyse
    <2>1. up.pc = "analyse" /\ \E r, o : End(r, o) \/ Continue(r, "scan")
      BY <1>3, Zenon DEF Analyse, Analysis, Analysed, AnalysisRaised
    <2> QED
      BY <2>1, EndIsAtDone, ContinueIsAt
  <1>4. CASE Scan
    <2>1. up.pc = "scan" /\ \E r, o : End(r, o) \/ Continue(r, "encrypt")
      BY <1>4, Zenon DEF Scan, Malicious, NotMalicious, Refuse
    <2> QED
      BY <2>1, EndIsAtDone, ContinueIsAt
  <1> QED
    BY <1>1, <1>2, <1>3, <1>4

\* ... and those of the fragment loop.
LEMMA FragmentMoves ==
    ASSUME UploadInv, up' \in UploadRecord, NEW elapsed \in BOOLEAN, Fragment(elapsed)
    PROVE  /\ up.pc = "encrypt"
           /\ up'.pc = "done" \/ (up'.pc = "encrypt" /\ up'.chunks = up.chunks + 1)
  <1>1. up \in UploadRecord /\ up.pc = "encrypt" /\ up.chunks < MaxFragments
    BY UploadIs, Zenon DEF Fragment
  <1>2. PICK r \in UploadRecord : r = [up EXCEPT !.chunks = @ + 1]
    <2>1. up.chunks \in 0..MaxFragments /\ MaxFragments \in Nat
      BY <1>1, UploadAssumption DEF UploadRecord
    <2>2. up.chunks + 1 \in 0..MaxFragments
      BY <1>1, <2>1
    <2>3. [up EXCEPT !.chunks = @ + 1] \in UploadRecord
      BY <1>1, <2>2 DEF UploadRecord
    <2> QED
      BY <2>3
  <1>3. r.chunks = up.chunks + 1
    BY <1>1, <1>2 DEF UploadRecord
  <1>4. \/ Continue(r, "encrypt") \/ Continue(Wasted(r), "encrypt")
        \/ \E c \in {0, EpsilonSpent} : \E s : AnalysisOf(r, s, c) /\ Continue(s, "encrypt")
        \/ Abort(r)
    BY <1>2, FragmentCases
  <1>5. ASSUME NEW s, s.chunks = r.chunks, Continue(s, "encrypt")
        PROVE  up'.pc = "encrypt" /\ up'.chunks = up.chunks + 1
    BY <1>3, <1>5, ContinueIsAt
  <1>6. Wasted(r).chunks = r.chunks
    <2>1. Charged(r) \in UploadRecord /\ Charged(r).chunks = r.chunks
      BY ChargeIs DEF SameGates
    <2> QED
      BY <2>1 DEF Wasted, UploadRecord
  <1>7. CASE Abort(r)
    <2>1. \E s, o : End(s, o)
      BY <1>7, Zenon DEF Abort
    <2> QED
      BY <1>1, <2>1, EndIsAtDone
  <1> QED
    BY <1>1, <1>4, <1>5, <1>6, <1>7 DEF AnalysisOf, SameGates

LEMMA FailureMoves ==
    ASSUME up' \in UploadRecord, EncryptionFails \/ Package \/ Uncaught
    PROVE  up.pc \in {"received", "scan", "encrypt"} /\ up'.pc = "done"
  <1>1. up.pc \in {"received", "scan", "encrypt"} /\ \E r, o : End(r, o)
    BY Zenon DEF EncryptionFails, Package, Uncaught, Abort
  <1> QED
    BY <1>1, EndIsAtDone

\* Every step answers the upload in the engine or leaves less to do, whatever
\* fails: an upload ends unless a step of it does not return.
THEOREM UploadsComeNearer == UploadSpec => AnswerComesNearer
  <1> DEFINE Nearer == up.pc = "idle" \/ up'.pc = "idle" \/ Remaining(up') < Remaining(up)
  <1>1. UploadInv /\ UploadInv' /\ [UploadNext]_uploadVars => [Nearer]_up
    <2> SUFFICES ASSUME UploadInv, UploadInv', UploadNext, up' # up PROVE Nearer
      BY DEF uploadVars
    <2>1. up \in UploadRecord /\ up' \in UploadRecord
      BY DEF UploadInv, UploadRecord
    <2>2. ASSUME NEW u \in User, NEW ext \in {"critical", "archive", "media", "other"},
                 NEW trusted \in BOOLEAN, Receive(u, ext, trusted)
          PROVE  Nearer
      BY <2>2 DEF Receive
    <2>3. CASE RefuseExtension \/ RefuseRequest \/ Accept \/ Analyse \/ Scan
      BY <2>1, <2>3, RouteMoves, RemainingFalls
    <2>4. CASE \E elapsed \in BOOLEAN : Fragment(elapsed)
      BY <2>1, <2>4, FragmentMoves, RemainingFalls
    <2>5. CASE EncryptionFails \/ Package \/ Uncaught
      BY <2>1, <2>5, FailureMoves, RemainingFalls
    <2>6. CASE Answer \/ Restart
      BY <2>6, IdleIs DEF Answer, Restart
    <2>7. CASE Startup \/ Environment
      BY <2>7 DEF Startup, Environment
    <2> QED
      BY <2>2, <2>3, <2>4, <2>5, <2>6, <2>7 DEF UploadNext, UploadStep
  <1> QED
    BY <1>1, UploadInvariant, UploadNextKeeps, PTL DEF UploadSpec, AnswerComesNearer

=============================================================================
