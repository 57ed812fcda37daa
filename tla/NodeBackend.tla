---------------------------- MODULE NodeBackend ----------------------------
(***************************************************************************)
(* The documents the Node backend keeps for one sender, and the handlers   *)
(* that work on them: registerKeyChallenge, registerKey, transferChallenge *)
(* (cryptoController.js), the background job of uploadChunk, uploadStatus, *)
(* createShareLink, releaseQuarantinedFile and appendToBlockchain          *)
(* (fileController.js).                                                    *)
(*                                                                         *)
(* Node runs one handler at a time, but every await lets the others go on: *)
(* an action is what happens between two awaits.  UPLOAD_STATUSES lives in *)
(* the process, everything else in MongoDB, which may refuse any call.     *)
(***************************************************************************)
EXTENDS Naturals, Sequences, FiniteSets

CONSTANTS
    Handler,            \* requests being handled
    Registration,       \* registrations the browser starts: challenge and key
    Upload,             \* upload ids; each comes with a transfer challenge
    MaxLog,             \* bound: entries of the log
    MaxClock            \* bound: milliseconds

ASSUME NodeAssumption ==
    /\ Handler # {} /\ Registration \cup Upload # {} /\ Registration \cap Upload = {}
    /\ MaxLog \in Nat /\ MaxClock \in Nat

VARIABLES
    challenge,  \* SigningChallenge documents
    keys,       \* SigningKey documents of the sender, in order of creation
    transfer,   \* Transfer documents
    log,        \* BlockchainLog documents, in order of creation
    status,     \* UPLOAD_STATUSES
    req,        \* the handlers
    sent,       \* uploads whose last chunk the client has sent
    rejected,   \* uploads whose job ended in an unhandled rejection
    clock

vars == <<challenge, keys, transfer, log, status, req, sent, rejected, clock>>

Challenge == Registration \cup Upload
NoTransfer == [status |-> "none", token |-> 0]
Idle == [op |-> "none", pc |-> "idle", of |-> CHOOSE c \in Challenge : TRUE,
         archived |-> 0, key |-> 0, event |-> "none", read |-> "none", ts |-> 0, prev |-> 0, seen |-> 0]

Init ==
    /\ challenge = [c \in Challenge |-> "none"]
    /\ keys = <<>>
    /\ transfer = [u \in Upload |-> NoTransfer]
    /\ log = <<>>
    /\ status = [u \in Upload |-> "none"]
    /\ req = [h \in Handler |-> Idle]
    /\ sent = {} /\ rejected = {}
    /\ clock = 0

documents == <<challenge, keys, transfer>>
rest == <<sent, rejected, clock>>

SetReq(h, r) == req' = [req EXCEPT ![h] = r]
Goto(h, pc) == SetReq(h, [req[h] EXCEPT !.pc = pc])
Reply(h) == SetReq(h, Idle)
At(h, op, pc) == req[h].op = op /\ req[h].pc = pc
SetStatus(u, s) == status' = [status EXCEPT ![u] = s]

\* Handlers that may still log, other than shares.
Logging == {h \in Handler : req[h].op \notin {"none", "share"}}

\* A handler begins when the bounds leave room for the entry it may log;
\* read is the status of the transfer the handler has loaded.
Start(h, op, pc, of, read) ==
    /\ req[h] = Idle
    /\ op = "share" \/ Len(log) + Cardinality(Logging) < MaxLog
    /\ SetReq(h, [Idle EXCEPT !.op = op, !.pc = pc, !.of = of, !.read = read])

-----------------------------------------------------------------------------
(***************************************************************************)
(* appendToBlockchain: the latest entry by timestamp is read (any of them  *)
(* when several share a millisecond), the time is taken, and after an      *)
(* await the new entry is created.                                         *)
(***************************************************************************)
\* Mutant: the entries are sorted the wrong way round.
Latest_Ascending == {i \in DOMAIN log : \A j \in DOMAIN log : log[j].ts >= log[i].ts}
Latest == {i \in DOMAIN log : \A j \in DOMAIN log : log[j].ts <= log[i].ts}

ReadLog(h) ==
    /\ req[h].pc = "log"
    /\ \E i \in IF log = <<>> THEN {0} ELSE Latest :
         SetReq(h, [req[h] EXCEPT !.pc = "logged", !.prev = i, !.ts = clock, !.seen = Len(log)])
    /\ UNCHANGED <<documents, log, status, rest>>

LogEntry(r) == [event |-> r.event, of |-> r.of, ts |-> r.ts, prev |-> r.prev, seen |-> r.seen]

\* The handler goes on with its answer.
AppendLog(h) == log' = Append(log, LogEntry(req[h]))

-----------------------------------------------------------------------------
(***************************************************************************)
(* registerKey.  The key is new with each registration of the browser; the *)
(* same request may be delivered twice.                                    *)
(***************************************************************************)
\* registerKeyChallenge, and transferChallenge once the client is bound to a key.
IssueChallenge(c) ==
    /\ challenge[c] = "none"
    /\ c \in Upload => keys # <<>>
    /\ challenge' = [challenge EXCEPT ![c] = "open"]
    /\ UNCHANGED <<keys, transfer, log, status, req, rest>>

\* The TTL index removes a challenge past its time (one already consumed is
\* of no more use to anybody).
ExpireChallenge(c) ==
    /\ challenge[c] = "open"
    /\ challenge' = [challenge EXCEPT ![c] = "gone"]
    /\ UNCHANGED <<keys, transfer, log, status, req, rest>>

RegisterBegin(h, c) ==
    /\ challenge[c] = "open"
    /\ Start(h, "register", "consume", c, "none")
    /\ UNCHANGED <<documents, log, status, rest>>

\* challenge.save() of the document found before: unconditional, but it
\* fails when the document is gone.
RegisterConsume(h) ==
    /\ At(h, "register", "consume")
    /\ challenge[req[h].of] # "gone"
    /\ challenge' = [challenge EXCEPT ![req[h].of] = "consumed"]
    /\ Goto(h, "archive")
    /\ UNCHANGED <<keys, transfer, log, status, rest>>

\* Mutant: the old keys are left as they are.
Superseded_Kept(k) == [k EXCEPT !.status = @]
Superseded(k) == IF k.status = "ACTIVE" THEN [k EXCEPT !.status = "SUPERSEDED"] ELSE k

RegisterArchive(h) ==
    /\ At(h, "register", "archive")
    /\ keys' = [i \in DOMAIN keys |-> Superseded(keys[i])]
    /\ SetReq(h, [req[h] EXCEPT !.pc = "create", !.archived = Len(keys)])
    /\ UNCHANGED <<challenge, transfer, log, status, rest>>

FingerprintIsNew(c) == \A i \in DOMAIN keys : keys[i].fingerprint # c

\* archived (how many keys there were at the archive step) is a history field.
RegisterCreate(h) ==
    LET c == req[h].of
    IN  /\ At(h, "register", "create")
        /\ FingerprintIsNew(c)
        /\ keys' = Append(keys, [fingerprint |-> c, status |-> "ACTIVE",
                                 archived |-> req[h].archived])
        /\ SetReq(h, [req[h] EXCEPT !.pc = "log", !.event = "SIGNING_KEY_REGISTERED", !.archived = 0])
        /\ UNCHANGED <<challenge, transfer, log, status, rest>>

\* save() finds no document, or the index on the fingerprint refuses the key:
\* what was done before stays.
RegisterRefused(h) ==
    /\ \/ At(h, "register", "consume") /\ challenge[req[h].of] = "gone"
       \/ At(h, "register", "create") /\ ~FingerprintIsNew(req[h].of)
    /\ Reply(h)
    /\ UNCHANGED <<documents, log, status, rest>>

RegisterReply(h) ==
    /\ At(h, "register", "logged")
    /\ AppendLog(h) /\ Reply(h)
    /\ UNCHANGED <<documents, status, rest>>

-----------------------------------------------------------------------------
(***************************************************************************)
(* The background job that the last chunk of an upload starts.             *)
(***************************************************************************)
ActiveKeys == {i \in DOMAIN keys : keys[i].status = "ACTIVE"}

\* The client has signed with the key of its browser, a registered one.  That
\* the last chunk of an upload comes once is what the client does (SendFile
\* draws a new upload for each attempt); the handler does not check it.
UploadBegin(h, u) ==
    /\ u \notin sent /\ challenge[u] # "none"
    /\ sent' = sent \cup {u}
    /\ Start(h, "upload", "key", u, "none")
    /\ SetStatus(u, "processing")
    /\ UNCHANGED <<documents, log, rejected, clock>>

\* The sender's ACTIVE key goes to the engine, or none.
UploadKey(h) ==
    /\ At(h, "upload", "key")
    /\ \/ ActiveKeys = {} /\ SetReq(h, [req[h] EXCEPT !.pc = "engine", !.key = 0])
       \/ \E i \in ActiveKeys : SetReq(h, [req[h] EXCEPT !.pc = "engine", !.key = i])
    /\ UNCHANGED <<documents, log, status, rest>>

(***************************************************************************)
(* internal_encrypt answers with a package, quarantined or not, refuses    *)
(* with 406, or fails in another way; without a key it always refuses.     *)
(***************************************************************************)
EngineAccepts(h) == req[h].key # 0

\* Mutant: a failure of the engine is reported, but the job goes on.
UploadEngine_GoesOn(h) ==
    /\ At(h, "upload", "engine")
    /\ EngineAccepts(h)
    /\ SetReq(h, [req[h] EXCEPT !.pc = "nonce", !.event = "FILE_TRANSFER", !.key = 0])
    /\ UNCHANGED status \/ SetStatus(req[h].of, "error")
    /\ UNCHANGED <<documents, log, rest>>

UploadEngine(h) ==
    /\ At(h, "upload", "engine")
    /\ \/ /\ EngineAccepts(h)
          /\ \E e \in {"FILE_TRANSFER", "TRANSFER_QUARANTINED"} :
               SetReq(h, [req[h] EXCEPT !.pc = "nonce", !.event = e, !.key = 0])
          /\ UNCHANGED status
       \/ SetReq(h, [req[h] EXCEPT !.op = "refused", !.pc = "log", !.event = "MALWARE_BLOCKED", !.key = 0])
          /\ UNCHANGED status
       \/ Reply(h) /\ SetStatus(req[h].of, "error")
    /\ UNCHANGED <<documents, log, rest>>

\* findOneAndUpdate of an unconsumed challenge; nobody looks at its result.
\* Mutant: a challenge that is found is not consumed.
UploadNonce_Kept(h) ==
    /\ At(h, "upload", "nonce") /\ Goto(h, "create")
    /\ UNCHANGED <<documents, log, status, rest>>

UploadNonce(h) ==
    LET u == req[h].of
    IN  /\ At(h, "upload", "nonce")
        /\ challenge' = [challenge EXCEPT ![u] = IF @ = "open" THEN "consumed" ELSE @]
        /\ Goto(h, "create")
        /\ UNCHANGED <<keys, transfer, log, status, rest>>

Quarantined(r) == r.event = "TRANSFER_QUARANTINED"

UploadCreate(h) ==
    /\ At(h, "upload", "create")
    /\ transfer' = [transfer EXCEPT ![req[h].of].status =
                      IF Quarantined(req[h]) THEN "quarantined" ELSE "encrypted"]
    /\ Goto(h, "log")
    /\ UNCHANGED <<challenge, keys, log, status, rest>>

UploadReply(h) ==
    /\ At(h, "upload", "logged")
    /\ AppendLog(h) /\ Reply(h)
    /\ SetStatus(req[h].of, IF Quarantined(req[h]) THEN "quarantined" ELSE "completed")
    /\ UNCHANGED <<documents, rest>>

\* The catch block, after a 406: the event is logged, then an AIAlert
\* created, and only then is the status set.
RefusedAlert(h) ==
    /\ At(h, "refused", "logged")
    /\ AppendLog(h) /\ SetReq(h, [Idle EXCEPT !.op = "refused", !.pc = "alert", !.of = req[h].of])
    /\ UNCHANGED <<documents, status, rest>>

\* Mutant: the status is left to the client's timeout.
RefusedReply_NoStatus(h) ==
    /\ At(h, "refused", "alert") /\ Reply(h)
    /\ UNCHANGED <<documents, log, status, rest>>

RefusedReply(h) ==
    /\ At(h, "refused", "alert")
    /\ Reply(h) /\ SetStatus(req[h].of, "error")
    /\ UNCHANGED <<documents, log, rest>>

-----------------------------------------------------------------------------
(***************************************************************************)
(* createShareLink and releaseQuarantinedFile.  Mongoose saves the fields  *)
(* a handler has assigned, not the document it has read.                   *)
(***************************************************************************)
ShareBegin(h, u) ==
    /\ transfer[u] # NoTransfer /\ transfer[u].token = 0
    /\ Start(h, "share", "save", u, transfer[u].status)
    /\ UNCHANGED <<documents, log, status, rest>>

\* Mutant: the whole document is saved, as it was when it was read.
ShareSave_WholeDocument(h) ==
    /\ At(h, "share", "save")
    /\ transfer' = [transfer EXCEPT ![req[h].of] = [status |-> req[h].read, token |-> @.token + 1]]
    /\ Reply(h)
    /\ UNCHANGED <<challenge, keys, log, status, rest>>

ShareSave(h) ==
    /\ At(h, "share", "save")
    /\ transfer' = [transfer EXCEPT ![req[h].of].token = @ + 1]
    /\ Reply(h)
    /\ UNCHANGED <<challenge, keys, log, status, rest>>

ReleaseBegin(h, u) ==
    /\ transfer[u].status = "quarantined"
    /\ Start(h, "release", "save", u, transfer[u].status)
    /\ UNCHANGED <<documents, log, status, rest>>

ReleaseSave(h) ==
    /\ At(h, "release", "save")
    /\ transfer' = [transfer EXCEPT ![req[h].of].status = "encrypted"]
    /\ SetReq(h, [req[h] EXCEPT !.pc = "log", !.event = "QUARANTINE_RELEASED"])
    /\ UNCHANGED <<challenge, keys, log, status, rest>>

ReleaseReply(h) ==
    /\ At(h, "release", "logged")
    /\ AppendLog(h) /\ Reply(h)
    /\ UNCHANGED <<documents, status, rest>>

-----------------------------------------------------------------------------
(***************************************************************************)
(* MongoDB refuses a call.  A handler answers 500, the job of an upload    *)
(* sets the status to error; in its catch block the rejection goes to the  *)
(* process handler, which only prints it.                                  *)
(***************************************************************************)
DatabaseFails(h) ==
    /\ req[h] # Idle
    /\ Reply(h)
    /\ CASE req[h].op = "upload" ->
              SetStatus(req[h].of, "error") /\ UNCHANGED rejected
         [] req[h].op = "refused" ->
              rejected' = rejected \cup {req[h].of} /\ UNCHANGED status
         [] OTHER -> UNCHANGED <<status, rejected>>
    /\ UNCHANGED <<documents, log, sent, clock>>

\* The process restarts: its handlers and UPLOAD_STATUSES are gone, and
\* uploadStatus answers "processing" for every upload.
Restart ==
    /\ req' = [h \in Handler |-> Idle]
    /\ status' = [u \in Upload |-> "none"]
    /\ UNCHANGED <<documents, log, sent, rejected, clock>>

\* Date.now of one process, taken not to run backwards.
Tick ==
    /\ clock < MaxClock /\ clock' = clock + 1
    /\ UNCHANGED <<documents, log, status, req, sent, rejected>>

HandlerStep(h) ==
    \/ ReadLog(h)
    \/ RegisterConsume(h) \/ RegisterArchive(h)
    \/ RegisterCreate(h) \/ RegisterRefused(h) \/ RegisterReply(h)
    \/ UploadKey(h) \/ UploadEngine(h) \/ UploadNonce(h) \/ UploadCreate(h) \/ UploadReply(h)
    \/ RefusedAlert(h) \/ RefusedReply(h)
    \/ ShareSave(h) \/ ReleaseSave(h) \/ ReleaseReply(h)

Next ==
    \/ \E c \in Challenge : IssueChallenge(c) \/ ExpireChallenge(c)
    \/ \E h \in Handler, c \in Registration : RegisterBegin(h, c)
    \/ \E h \in Handler, u \in Upload : UploadBegin(h, u) \/ ShareBegin(h, u) \/ ReleaseBegin(h, u)
    \/ \E h \in Handler : HandlerStep(h) \/ DatabaseFails(h)
    \/ Restart \/ Tick

Spec == Init /\ [][Next]_vars

\* Node resumes a handler whose await is over; the engine answers or the
\* connection breaks.
FairSpec == Spec /\ \A h \in Handler : WF_vars(HandlerStep(h))

-----------------------------------------------------------------------------
Status == {"none", "processing", "completed", "quarantined", "error"}
TransferStatus == {"none", "encrypted", "quarantined"}
Event == {"none", "SIGNING_KEY_REGISTERED", "FILE_TRANSFER", "TRANSFER_QUARANTINED",
          "MALWARE_BLOCKED", "QUARANTINE_RELEASED"}
Pc == {"idle", "consume", "archive", "create", "key", "engine", "nonce",
       "log", "logged", "alert", "save"}

KeyDocument == [fingerprint : Registration, status : {"ACTIVE", "SUPERSEDED"}, archived : Nat]
TransferDocument == [status : TransferStatus, token : Nat]
LogDocument == [event : Event, of : Challenge, ts : 0..MaxClock, prev : Nat, seen : Nat]
ReqRecord == [op : {"none", "register", "upload", "refused", "share", "release"},
              pc : Pc, of : Challenge, archived : Nat, key : Nat, event : Event,
              read : TransferStatus, ts : 0..MaxClock, prev : Nat, seen : Nat]

\* Types of the documents and of the handlers.
NodeTypeOK ==
    /\ challenge \in [Challenge -> {"none", "open", "consumed", "gone"}]
    /\ keys \in Seq(KeyDocument)
    /\ transfer \in [Upload -> TransferDocument]
    /\ log \in Seq(LogDocument)
    /\ status \in [Upload -> Status]
    /\ req \in [Handler -> ReqRecord]
    /\ sent \subseteq Upload /\ rejected \subseteq Upload
    /\ clock \in 0..MaxClock

\* The log of the Node backend goes back in time along its links, and forks
\* only where appendToBlockchain overlapped, or where two entries of the same
\* millisecond hide one another from the sort.
LogForksOnlyByOverlapOrTie ==
    /\ \A i \in DOMAIN log : log[i].prev # 0 => log[log[i].prev].ts <= log[i].ts
    /\ \A i, j \in DOMAIN log : i < j /\ log[i].prev = log[j].prev =>
          \/ log[j].seen < i
          \/ log[i].prev # 0 /\ log[i].ts = log[log[i].prev].ts

\* A client that is told its upload is over, delivered or quarantined, finds
\* the transfer, its entry in the log, and its challenge used up, even when
\* the transfer is shared or released in the meantime.
CompletedIsRecorded ==
    \A u \in Upload : status[u] \in {"completed", "quarantined"} =>
        /\ transfer[u] # NoTransfer
        /\ status[u] = "completed" => transfer[u].status = "encrypted"
        /\ challenge[u] # "open"
        /\ \E i \in DOMAIN log : log[i].of = u
              /\ log[i].event = IF status[u] = "completed" THEN "FILE_TRANSFER"
                                ELSE "TRANSFER_QUARANTINED"

\* A transfer that its sender has released, or that was never quarantined,
\* is not quarantined by a handler that had read it before.
ReleaseIsFinal ==
    [][\A u \in Upload : transfer[u].status = "encrypted" => transfer'[u].status = "encrypted"]_vars

\* Two signing keys of a user are ACTIVE together only when the registration
\* of the newer had passed its archive step before the older was created.
TwoActiveOnlyByOverlap ==
    \A i, j \in DOMAIN keys :
        i < j /\ keys[i].status = "ACTIVE" /\ keys[j].status = "ACTIVE" => keys[j].archived < i

\* The refinement mapping: the uploads whose job waits at an await, what their
\* transfers are, and what uploadStatus answers ("processing" when the process
\* knows nothing of the upload).
Running == {u \in Upload : \E h \in Handler : req[h].op \in {"upload", "refused"} /\ req[h].of = u}
Stored == [u \in Upload |-> transfer[u].status]
Answer == [u \in Upload |-> IF status[u] = "none" THEN "processing" ELSE status[u]]

Answers == INSTANCE UploadAnswers
           WITH running <- Running, stored <- Stored, answer <- Answer

\* The interleaved handlers keep what UploadAnswers promises: a client gets one
\* answer, justified by what is stored, and nothing is stored after it.
ImplementsUploadAnswers == Answers!AnswersSpec

\* The status of an upload leaves "processing", unless its catch block failed.
JobResolves ==
    \A u \in Upload : status[u] = "processing" ~> status[u] # "processing" \/ u \in rejected

=============================================================================
