--------------------------- MODULE UploadPipeline ---------------------------
(***************************************************************************)
(* One upload through the engine: the gates of internal_encrypt, the       *)
(* ContinuousTransferMonitor with the privacy accountant it spends from,   *)
(* and the fragment loop of PFCEEngine.process_upload.                     *)
(*                                                                         *)
(* From the first analysis to the answer the handler never awaits, and     *)
(* the engine runs one event loop, so uploads pass this part one at a      *)
(* time (before it they share nothing that is modelled here); what happens *)
(* between its steps is an outage of Redis or of the chain, the end of an  *)
(* epoch, or a restart.                                                    *)
(***************************************************************************)
EXTENDS PrivacyBudget

CONSTANTS
    Required,           \* BLOCKCHAIN_REQUIRED (with BLOCKCHAIN_ENABLED)
    ScanFailClosed,     \* MALWARE_SCAN_FAIL_CLOSED
    DpEnabled,          \* dp_enabled
    ExhaustionPolicy,   \* the values of dp_exhaustion_policy considered
    MaxAnalyses,        \* dp_max_analyses_per_transfer
    SoftPercent,        \* dp_soft_limit_consumed_percent
    EveryChunks,        \* ai_monitor_every_n_chunks
    Score,              \* sample of the scores of the model, in hundredths
    MaxFragments,       \* bound: fragments of a file
    MaxUploads          \* bound: uploads

ASSUME UploadAssumption ==
    /\ User # {}
    /\ Required \in BOOLEAN /\ ScanFailClosed \in BOOLEAN /\ DpEnabled \in BOOLEAN
    /\ ExhaustionPolicy \subseteq {"fail_closed", "fallback_heuristics"}
    /\ MaxAnalyses \in Nat \ {0} /\ EveryChunks \in Nat \ {0}
    /\ SoftPercent \in 0..100
    /\ Score \subseteq 0..100
    /\ MaxFragments \in Nat /\ MaxUploads \in Nat

VARIABLES
    up,         \* the upload in the engine
    running,    \* the engine has started
    uploads

uploadVars == <<budgetVars, up, running, uploads>>

-----------------------------------------------------------------------------
(***************************************************************************)
(* Risk of one analysis.  A verdict is a score and whether it is an        *)
(* anomaly: the forest calls an anomaly what it scores above 0.5, the      *)
(* heuristics what they score from 0.35 on; together they take the worse.  *)
(***************************************************************************)
Verdicts == [score: Score, anomaly: BOOLEAN]
ForestVerdict == {v \in Verdicts : v.anomaly = (v.score > 50)}
DpHeuristicAssessment == {v \in Verdicts : v.anomaly = (v.score >= 35)}
ModelVerdict ==
    {[score |-> IF f.score > h.score THEN f.score ELSE h.score,
      anomaly |-> f.anomaly \/ h.anomaly] : f \in ForestVerdict, h \in DpHeuristicAssessment}

\* deterministic_security_assessment, without the model.
FallbackVerdict == {v \in Verdicts : v.anomaly = (v.score >= 35)}

\* analyze_transfer: the level, and the discount for a trusted address.
AnalyzeTransfer(v, trusted) ==
    LET level == IF ~v.anomaly THEN "low" ELSE IF v.score >= 80 THEN "high" ELSE "medium"
        score == v.score - 20
    IN  IF ~trusted \/ v.score < 35 THEN [score |-> v.score, level |-> level]
        ELSE [score |-> score,
              level |-> IF score < 35 THEN "low" ELSE IF score < 80 THEN "medium" ELSE level]

\* _calculate_rolling_heuristics: a slow transfer of a large file adds 0.2.
RollingHeuristics(r, slow) ==
    LET score == IF r.score > 80 THEN 100 ELSE r.score + 20
    IN  IF ~slow THEN r
        ELSE [score |-> score,
              level |-> IF score >= 80 THEN "high"
                        ELSE IF score >= 40 /\ r.level # "high" THEN "medium" ELSE r.level]

RiskLevel(r) ==
    CASE r.score >= 80 \/ r.level = "critical" -> "BLOCKED"
      [] r.score >= 60 \/ r.level = "high" -> "HIGH_RISK"
      [] r.score >= 35 \/ r.level = "medium" -> "ELEVATED"
      [] OTHER -> "NORMAL"

Overlaid(verdicts, trusted) ==
    {RollingHeuristics(AnalyzeTransfer(v, trusted), slow) : v \in verdicts, slow \in BOOLEAN}

\* Media files get a fixed verdict before anything is privatised.
MediaResult == {RollingHeuristics([score |-> 15, level |-> "low"], slow) : slow \in BOOLEAN}

-----------------------------------------------------------------------------
NoResult == [score |-> 0, level |-> ""]      \* ai_result = {}

Idle ==
    [pc |-> "idle", user |-> CHOOSE u \in User : TRUE, ext |-> "other",
     trusted |-> FALSE, status |-> "IN_PROGRESS", samples |-> 0, chunks |-> 0,
     lastChunks |-> 0, charged |-> 0, wasted |-> 0, ai |-> NoResult, initialBlock |-> FALSE,
     verdict |-> "NONE", scanned |-> FALSE, force |-> FALSE, events |-> {}, unanchored |-> FALSE,
     package |-> "none", vault |-> "none", outcome |-> "none"]

UploadInit == BudgetInit /\ up = Idle /\ running = FALSE /\ uploads = 0

(***************************************************************************)
(* BlockchainService.append_block.  The row is committed before anchoring, *)
(* which raises only when it is required.  A call of the route lets the    *)
(* exception out (status 500); the monitor and the engine catch it.        *)
(***************************************************************************)
Raises == IF Required THEN BOOLEAN ELSE {FALSE}

Logged(r, event, raised) ==
    [r EXCEPT !.events = @ \cup {event}, !.unanchored = @ \/ raised]

\* What the request and its monitor held for the analyses is gone.
End(r, outcome) ==
    /\ up' = [r EXCEPT !.pc = "done", !.outcome = outcome,
                       !.trusted = FALSE, !.chunks = 0, !.lastChunks = 0, !.ai = NoResult]
    /\ UNCHANGED uploads

Refuse(r, event, outcome) ==
    \E raised \in Raises :
        End(Logged(r, event, raised), IF raised THEN "500" ELSE outcome)

Continue(r, pc) == up' = [r EXCEPT !.pc = pc] /\ UNCHANGED uploads

-----------------------------------------------------------------------------
(***************************************************************************)
(* reanalyze_transfer.  Analysis(r, good, blocked, failed): the analysis   *)
(* of upload r yields a result and the state that good makes of it, raises *)
(* TransferBlockedError, or fails: before the accountant is asked, or in   *)
(* the noise or the model after it has charged.                            *)
(***************************************************************************)
\* privatize_features: with privacy off the raw features are used for free.
PrivatizeFeatures(u, granted) ==
    IF DpEnabled THEN ConsumeBudget(u, "PERIODIC", granted)
                 ELSE granted /\ UNCHANGED budgetVars
EpsilonSpent == IF DpEnabled THEN Cost ELSE 0

Evaluated(r, ai) ==
    LET risk == RiskLevel(ai)
        counted == [r EXCEPT !.samples = @ + 1, !.lastChunks = r.chunks,
                             !.status = IF risk = "BLOCKED" THEN "BLOCKED" ELSE @]
        event == CASE r.samples = 0 -> "AI_MONITORING_STARTED"
                   [] risk = "BLOCKED" -> "AI_TRANSFER_BLOCKED"
                   [] risk = "HIGH_RISK" /\ "AI_RISK_ELEVATED" \notin r.events
                        -> "AI_RISK_ELEVATED"      \* once per transfer
                   [] OTHER -> "none"
    IN  {IF event = "none" THEN counted ELSE Logged(counted, event, raised) : raised \in Raises}

\* The accountant has charged the analysis; it has no result.
Charged(r) == [r EXCEPT !.charged = @ + EpsilonSpent]
Wasted(r) == [Charged(r) EXCEPT !.wasted = @ + 1]

Analysis(r, good(_, _), blocked(_), failed(_)) ==
    /\ UNCHANGED running
    /\ \/ /\ r.ext = "media"
          /\ \E ai \in MediaResult : \E s \in Evaluated(r, ai) : good(s, ai)
          /\ UNCHANGED budgetVars
       \/ /\ r.ext # "media"     \* memory, or a REDIS_URL that is none
          /\ failed(r)
          /\ UNCHANGED budgetVars
       \/ /\ r.ext # "media"
          /\ PrivatizeFeatures(r.user, TRUE)
          /\ \/ \E ai \in Overlaid(ModelVerdict, r.trusted) :
                  \E s \in Evaluated(Charged(r), ai) : good(s, ai)
             \/ failed(Wasted(r))
       \/ /\ r.ext # "media"
          /\ PrivatizeFeatures(r.user, FALSE)
          /\ \/ "fail_closed" \in ExhaustionPolicy /\ blocked(r)
             \/ /\ "fallback_heuristics" \in ExhaustionPolicy
                /\ \E ai \in Overlaid(FallbackVerdict, r.trusted) :
                     \E s \in Evaluated(r, ai) : good(s, ai)

-----------------------------------------------------------------------------
(***************************************************************************)
(* The route: extension, hash, key and signature.                          *)
(***************************************************************************)
Receive(u, ext, trusted) ==
    /\ running /\ up.pc = "idle"
    /\ uploads < MaxUploads
    /\ uploads' = uploads + 1
    /\ up' = [Idle EXCEPT !.pc = "received", !.user = u, !.ext = ext, !.trusted = trusted]
    /\ UNCHANGED <<budgetVars, running>>

RefuseExtension ==
    /\ up.pc = "received"
    /\ up.ext = "critical"
    /\ Refuse(up, "TRANSFER_BLOCKED", "406")
    /\ UNCHANGED <<budgetVars, running>>

\* The first thing that is wrong with the request decides.
RefuseRequest ==
    /\ up.pc = "received"
    /\ up.ext # "critical"
    /\ \/ End(up, "403")                    \* signature or public key missing
       \/ \E event \in {"INTEGRITY_FAILURE", "PUBLIC_KEY_SUBSTITUTION_ATTEMPT",
                        "SIGNATURE_VERIFICATION_FAILED"} : Refuse(up, event, "403")
    /\ UNCHANGED <<budgetVars, running>>

Accept ==
    /\ up.pc = "received"
    /\ up.ext # "critical"
    /\ Continue([up EXCEPT !.force = (up.ext = "archive")], "analyse")
    /\ UNCHANGED <<budgetVars, running>>

\* Mutant: a blocked first analysis is only logged.
Analysed_Ignored(r, ai) ==
    Continue([r EXCEPT !.initialBlock = (ai.score >= 80)], "scan")

\* The first analysis; a failure of it quarantines.
Analysed(r, ai) ==
    Continue([r EXCEPT !.ai = ai, !.force = @ \/ RiskLevel(ai) = "BLOCKED",
                       !.initialBlock = (ai.score >= 80)], "scan")

AnalysisRaised(r) ==
    \E raised \in Raises :
      LET s == [Logged(r, "AI_BLOCK", raised) EXCEPT !.force = TRUE, !.initialBlock = TRUE]
      IN  IF raised THEN End(s, "500") ELSE Continue(s, "scan")

Analyse ==
    /\ up.pc = "analyse"
    /\ Analysis(up, Analysed, AnalysisRaised, AnalysisRaised)

(***************************************************************************)
(* The scan.  ClamAV finds something, nothing, or does not answer; the     *)
(* model, which knows nothing of media files, adds its score.  A file that *)
(* is locked is not scanned.                                               *)
(***************************************************************************)
Predict(ext) == IF ext = "media" THEN {"low"} ELSE {"low", "malicious"}

ScanFullFile(ext) ==
    LET verdict(clamav, score) ==
          IF clamav = "found" \/ score = "malicious" THEN "MALICIOUS"
          ELSE IF clamav = "silent" /\ ScanFailClosed THEN "SCAN_FAILED" ELSE "PASSED"
    IN  {[verdict |-> verdict(clamav, score), scanned |-> clamav # "silent"] :
           clamav \in {"found", "nothing", "silent"}, score \in Predict(ext)}

Locked == [verdict |-> "SCAN_FAILED", scanned |-> FALSE]
Scans(ext) == ScanFullFile(ext) \cup {Locked}
Scanned(r, scan) == [r EXCEPT !.verdict = scan.verdict, !.scanned = scan.scanned]

\* The file is moved to the store; its row and a row of the store's own in
\* the ledger follow, and each of the three may raise.
SaveToQuarantine(r) == [r EXCEPT !.vault = "moved"]
QuarantineFile(r) ==
    LET recorded == [SaveToQuarantine(r) EXCEPT !.vault = "recorded"]
        logged == [recorded EXCEPT !.events = @ \cup {"MALWARE_QUARANTINED"}]
    IN  [raised : {r, SaveToQuarantine(r), recorded}, returned : {logged}]

\* Mutant: a malicious file goes on to the vault, quarantined.
Malicious_Continues(scan) ==
    /\ up.pc = "scan" /\ scan.verdict = "MALICIOUS"
    /\ Continue([Scanned(up, scan) EXCEPT !.force = TRUE], "encrypt")
    /\ UNCHANGED <<budgetVars, running>>

Malicious(scan) ==
    /\ up.pc = "scan" /\ scan.verdict = "MALICIOUS"
    /\ \E q \in QuarantineFile(Scanned(up, scan)) :
         \/ End(q.raised, "500")
         \/ \E raised \in Raises :
              LET s == Logged(q.returned, "MALWARE_DETECTED", raised)
              IN  IF raised THEN End(s, "500") ELSE Refuse(s, "QUARANTINE", "406")
    /\ UNCHANGED <<budgetVars, running>>

\* PASSED: CLEAN or SUSPICIOUS, which the route treats alike.
NotMalicious(scan) ==
    /\ up.pc = "scan" /\ scan.verdict # "MALICIOUS"
    /\ LET s == Scanned(up, scan)
       IN  IF scan.verdict = "SCAN_FAILED" /\ ScanFailClosed
           THEN End(s, "406")
           ELSE Continue([s EXCEPT !.force = @ \/ up.ai.score >= 80
                                              \/ up.ai.level \in {"high", "critical"},
                                   !.ai = NoResult],    \* not read again
                         "encrypt")
    /\ UNCHANGED <<budgetVars, running>>

-----------------------------------------------------------------------------
(***************************************************************************)
(* process_upload: one fragment after the other, each followed by the      *)
(* question whether to analyse again.  elapsed: the interval has passed.   *)
(***************************************************************************)
\* Mutant: one analysis too many.
ShouldReanalyse_OffByOne(r, elapsed) == r.samples <= MaxAnalyses /\ elapsed

ShouldReanalyse(r, elapsed) ==
    LET spent == ConsumedStatus(r.user)
        left == TotalEpsilon - spent
        soft == left > 0 /\ spent * 100 >= SoftPercent * TotalEpsilon
    IN  /\ r.samples < MaxAnalyses
        /\ ~(left > 0 /\ left <= ReservedEpsilon)
        /\ \/ r.samples = 0             \* last_evaluation_at = 0.0
           \/ elapsed
           \/ r.chunks - r.lastChunks >= (IF soft THEN 3 ELSE 1) * EveryChunks

\* Mutant: a failed fragment is tried again.
Abort_Retries(r) == Continue(r, "encrypt")

\* The handler around process_upload, for every exception out of it.
Abort(r) ==
    \E raised \in Raises :
      LET s == [Logged(r, "AI_BLOCK", raised) EXCEPT !.force = TRUE]
      IN  End(s, IF raised THEN "500" ELSE "quarantined")

\* The result of an analysis between fragments is logged and dropped, and so
\* is every exception but TransferBlockedError.
Dropped(r, ai) == Continue(r, "encrypt")
Swallowed(r) == Continue(r, "encrypt")

Fragment(elapsed) ==
    /\ up.pc = "encrypt"
    /\ up.chunks < MaxFragments
    /\ LET r == [up EXCEPT !.chunks = @ + 1]
       IN  IF ShouldReanalyse(r, elapsed)
           THEN Analysis(r, Dropped, Abort, Swallowed)
           ELSE Continue(r, "encrypt") /\ UNCHANGED <<budgetVars, running>>

\* Key material, disk or packaging fails; the package may be half written.
EncryptionFails ==
    /\ up.pc = "encrypt"
    /\ \E package \in {"none", "partial"} : Abort([up EXCEPT !.package = package])
    /\ UNCHANGED <<budgetVars, running>>

\* The package, its PFCE_SIGNATURE_CREATED row, complete_monitoring, the answer.
Package ==
    /\ up.pc = "encrypt"
    /\ \E raised \in Raises :
         LET s == [Logged(up, "PFCE_SIGNATURE_CREATED", raised) EXCEPT !.package = "complete"]
         IN  IF up.status = "BLOCKED"
             THEN End(s, IF up.force THEN "quarantined" ELSE "delivered")
             ELSE End([Logged(s, "AI_MONITORING_COMPLETED", raised)
                         EXCEPT !.status = "COMPLETED"],
                      IF up.force THEN "quarantined" ELSE "delivered")
    /\ UNCHANGED <<budgetVars, running>>

\* An exception outside every try block: the scanner, the network monitor,
\* the receiver's key pair.
Uncaught ==
    /\ up.pc \in {"received", "scan"}
    /\ End(up, "500")
    /\ UNCHANGED <<budgetVars, running>>

Answer ==
    /\ up.pc = "done"
    /\ up' = Idle
    /\ UNCHANGED <<budgetVars, running, uploads>>

\* The process dies with the upload it is working on.  It takes requests
\* again when startup has trained the model and raised nothing.
Restart == EngineRestart /\ up' = Idle /\ running' = FALSE /\ UNCHANGED uploads
Startup == ~running /\ running' = TRUE /\ UNCHANGED <<budgetVars, up, uploads>>

Scan == \E scan \in Scans(up.ext) : Malicious(scan) \/ NotMalicious(scan)

UploadStep ==
    \/ RefuseExtension \/ RefuseRequest \/ Accept
    \/ Analyse \/ Scan
    \/ \E elapsed \in BOOLEAN : Fragment(elapsed)
    \/ EncryptionFails \/ Package \/ Uncaught \/ Answer

Environment == RedisStep /\ UNCHANGED <<up, running, uploads>>

UploadNext ==
    \/ \E u \in User, ext \in {"critical", "archive", "media", "other"}, trusted \in BOOLEAN :
          Receive(u, ext, trusted)
    \/ UploadStep
    \/ Environment
    \/ Restart \/ Startup

\* The handler runs on, except that it may wait for ClamAV for ever: the socket
\* of scan_full_file has no timeout.  Redis and the chain have one, and nobody
\* promises their answers.
Proceeds == up.pc # "scan" /\ UploadStep
UploadSpec ==
    UploadInit /\ [][UploadNext]_uploadVars /\ WF_uploadVars(Proceeds)
-----------------------------------------------------------------------------
Extension == {"critical", "archive", "media", "other"}
Event == {"TRANSFER_BLOCKED", "INTEGRITY_FAILURE", "PUBLIC_KEY_SUBSTITUTION_ATTEMPT",
          "SIGNATURE_VERIFICATION_FAILED", "AI_BLOCK", "AI_MONITORING_STARTED",
          "AI_TRANSFER_BLOCKED", "AI_RISK_ELEVATED", "AI_MONITORING_COMPLETED",
          "MALWARE_QUARANTINED", "MALWARE_DETECTED", "QUARANTINE", "PFCE_SIGNATURE_CREATED"}
Result == [score: 0..100, level: {"", "low", "medium", "high"}]
UploadRecord ==
    [pc: {"idle", "received", "analyse", "scan", "encrypt", "done"},
     user: User, ext: Extension, trusted: BOOLEAN,
     status: {"IN_PROGRESS", "BLOCKED", "COMPLETED"},
     samples: 0..MaxAnalyses, chunks: 0..MaxFragments, lastChunks: 0..MaxFragments,
     charged: Nat, wasted: Nat, ai: Result, initialBlock: BOOLEAN,
     verdict: {"NONE", "PASSED", "SCAN_FAILED", "MALICIOUS"}, scanned: BOOLEAN,
     force: BOOLEAN,
     events: SUBSET Event, unanchored: BOOLEAN,
     package: {"none", "partial", "complete"}, vault: {"none", "moved", "recorded"},
     outcome: {"none", "403", "406", "500", "quarantined", "delivered"}]

\* Type invariant: the accountant and the upload stay within their domains, the
\* analyses of a transfer within dp_max_analyses_per_transfer.
UploadTypeOK ==
    /\ BudgetTypeOK
    /\ running \in BOOLEAN /\ uploads \in 0..MaxUploads
    /\ up \in UploadRecord

\* A file is offered to the receiver only as a complete package that passed
\* every gate of the route, whichever appends, analyses or Redis calls failed
\* on the way: not a critical or archive extension, not refused by a check,
\* not malicious, and seen by ClamAV when MALWARE_SCAN_FAIL_CLOSED asks for it.
DeliveredIsVetted ==
    up.outcome = "delivered" =>
        /\ up.package = "complete"
        /\ ~up.force /\ ~up.initialBlock
        /\ up.ext \notin {"critical", "archive"}
        /\ up.verdict # "MALICIOUS"
        /\ ScanFailClosed => up.verdict = "PASSED" /\ up.scanned
        /\ up.events \cap {"TRANSFER_BLOCKED", "INTEGRITY_FAILURE", "AI_BLOCK",
                           "PUBLIC_KEY_SUBSTITUTION_ATTEMPT",
                           "SIGNATURE_VERIFICATION_FAILED", "MALWARE_DETECTED"} = {}

\* A malicious file never ends in a package, and the engine reports it blocked
\* (406) only when it is in the quarantine store with its rows in the ledger,
\* whichever of the move, the store's row and the two appends fails.
MaliciousIsIsolated ==
    up.verdict = "MALICIOUS" =>
        /\ up.package = "none"
        /\ up.outcome \in {"406", "500"}
        /\ up.outcome = "406" =>
              /\ up.vault = "recorded"
              /\ {"MALWARE_QUARANTINED", "MALWARE_DETECTED", "QUARANTINE"} \subseteq up.events

\* The accountant charges a transfer for at most dp_max_analyses_per_transfer
\* analyses, the unguarded first one included, and for those that failed after
\* the charge, which samples_count misses: what such a failure costs is one
\* analysis, not the limit.
TransferSpendBounded == up.charged <= (MaxAnalyses + up.wasted) * Cost

\* The limit on the analyses of a transfer is one on what they are charged
\* (continuous_monitor.py: "Enforce max analyses per transfer").
LimitIsOnCharges == up.charged <= MaxAnalyses * Cost

\* What a handler has left to do until its answer, at most: the analysis, the
\* scan, the fragments that are still to come, the package.
Remaining(r) ==
    CASE r.pc = "received" -> MaxFragments + 4
      [] r.pc = "analyse" -> MaxFragments + 3
      [] r.pc = "scan" -> MaxFragments + 2
      [] r.pc = "encrypt" -> MaxFragments + 1 - r.chunks
      [] OTHER -> 0

\* Whatever fails in the handler, in the monitor or in the fragment loop, and
\* whichever exception is caught, no gate and no fragment is done again: every
\* step answers the upload or leaves less to do.  So an upload ends unless a
\* step of it does not return.
AnswerComesNearer ==
    [][up.pc = "idle" \/ up'.pc = "idle" \/ Remaining(up') < Remaining(up)]_up

\* The step that may not return is the scan: an upload gets an answer as long
\* as the scanner does not hold it for ever.
ScannerAnswers == []<>(up.pc # "scan")
UploadEnds == ScannerAnswers => (up.pc # "idle" ~> up.pc = "idle")

\* A transfer that the monitor blocked is not delivered
\* (System_Structural_Report.md: TransferBlockedError "terminates the HTTP
\* upload stream mid-flight, quarantines the data").
BlockedIsNotDelivered == ~(up.outcome = "delivered" /\ up.status = "BLOCKED")

\* With the chain unreachable, transfers are hard-blocked
\* (UPCE_System_Architecture_and_Security_Evaluation_Report.md: "if the
\* blockchain service is unreachable or down, all file transfers are
\* hard-blocked to prevent unaudited operations").
UnauditedIsNotDelivered == ~(up.outcome = "delivered" /\ up.unanchored)
=============================================================================
