-------------------------- MODULE NodeBackendProofs --------------------------
(***************************************************************************)
(* Proofs about NodeBackend for any number of handlers, registrations and  *)
(* uploads, and any bounds of the log and of the clock.                    *)
(***************************************************************************)
EXTENDS NodeBackend, TLAPS, SequenceTheorems

(***************************************************************************)
(* The strengthening: what a handler that waits at an await still knows of *)
(* the documents, whatever the others have done since.                     *)
(***************************************************************************)
\* r (a handler about to log, or an entry) links to the latest of the first
\* r.seen entries, none of which is later than r.
Linked(r, n) ==
    /\ r.seen <= n /\ r.prev <= r.seen /\ r.ts <= clock
    /\ r.prev = 0 => r.seen = 0
    /\ r.prev # 0 => log[r.prev].ts <= r.ts
    /\ \A i \in 1..r.seen : log[i].ts <= log[r.prev].ts

\* The background job of an upload owns the transfer until it is created and
\* the status until it replies.
JobOK(r) ==
    /\ status[r.of] = "processing" /\ challenge[r.of] # "none"
    /\ r.pc \in {"key", "engine", "nonce", "create"} => transfer[r.of].status = "none"
    /\ r.pc \in {"nonce", "create", "log", "logged"} =>
          r.event \in {"FILE_TRANSFER", "TRANSFER_QUARANTINED"}
    /\ r.pc \in {"create", "log", "logged"} => challenge[r.of] \in {"consumed", "gone"}
    /\ r.pc \in {"log", "logged"} =>
          /\ transfer[r.of].status # "none"
          /\ r.event = "FILE_TRANSFER" => transfer[r.of].status = "encrypted"

\* The keys that were there at the archive step are no longer ACTIVE.
ArchivedOK(r) ==
    /\ r.archived <= Len(keys)
    /\ \A i \in 1..r.archived : keys[i].status # "ACTIVE"

HandlerOK(r) ==
    /\ r.op = "register" => r.of \in Registration
    /\ r.op \in {"upload", "refused", "share", "release"} => r.of \in Upload
    /\ r.op \in {"upload", "refused"} => r.of \in sent
    /\ r.op = "register" /\ r.pc = "create" => ArchivedOK(r)
    /\ r.pc = "logged" => Linked(r, Len(log))
    /\ r.op = "upload" => JobOK(r)
    /\ r.op = "release" => transfer[r.of].status # "none"

HandlersOK == \A h \in Handler : HandlerOK(req[h])

\* An upload has one job.
Job(r) == r.op \in {"upload", "refused"}
OneJob == \A g, h \in Handler : Job(req[g]) /\ Job(req[h]) /\ req[g].of = req[h].of => g = h

LogOK == \A j \in 1..Len(log) : Linked(log[j], j - 1)

\* Nothing has been created for an upload the client has not sent.
NotSentOK == \A u \in Upload : u \notin sent => transfer[u].status = "none"

\* What is recorded of an upload that is over.
Recorded(u, s) ==
    /\ transfer[u].status # "none"
    /\ s = "completed" => transfer[u].status = "encrypted"
    /\ challenge[u] \in {"consumed", "gone"}
    /\ \E i \in 1..Len(log) : log[i].of = u
          /\ log[i].event = IF s = "completed" THEN "FILE_TRANSFER" ELSE "TRANSFER_QUARANTINED"

Over == {"completed", "quarantined"}
OverOK == \A u \in Upload : status[u] \in Over => Recorded(u, status[u])

NodeInv ==
    /\ NodeTypeOK /\ TwoActiveOnlyByOverlap /\ LogOK
    /\ HandlersOK /\ OneJob /\ NotSentOK /\ OverOK

-----------------------------------------------------------------------------
(***************************************************************************)
(* What no step takes away from a handler that waits.                      *)
(***************************************************************************)
Used == {"consumed", "gone"}

KeysStay ==
    /\ Len(keys) <= Len(keys')
    /\ \A i \in 1..Len(keys) : keys[i].status # "ACTIVE" => keys'[i].status # "ACTIVE"

LogStays ==
    /\ Len(log) <= Len(log') /\ clock <= clock'
    /\ \A i \in 1..Len(log) : log'[i] = log[i]

ChallengesStay ==
    \A c \in Challenge : /\ challenge[c] # "none" => challenge'[c] # "none"
                         /\ challenge[c] \in Used => challenge'[c] \in Used

TransfersStay ==
    \A u \in Upload :
        /\ transfer[u].status # "none" => transfer'[u].status # "none"
        /\ transfer[u].status = "encrypted" => transfer'[u].status = "encrypted"

Stable == KeysStay /\ LogStays /\ ChallengesStay /\ TransfersStay /\ sent \subseteq sent'

\* The transfer and the status that the job r works on are left to it.
Spares(r) ==
    r.op = "upload" =>
        /\ status'[r.of] = status[r.of]
        /\ transfer[r.of].status = "none" => transfer'[r.of].status = "none"

LEMMA Types ==
    ASSUME NodeTypeOK
    PROVE  /\ Len(keys) \in Nat /\ DOMAIN keys = 1..Len(keys)
           /\ Len(log) \in Nat /\ DOMAIN log = 1..Len(log)
           /\ \A i \in 1..Len(keys) : keys[i] \in KeyDocument
           /\ \A i \in 1..Len(log) : log[i] \in LogDocument
           /\ \A h \in Handler : req[h] \in ReqRecord
           /\ \A u \in Upload : transfer[u] \in TransferDocument
           /\ clock \in Nat
  BY NodeAssumption DEF NodeTypeOK

LEMMA Unmoved ==
    ASSUME NodeTypeOK
    PROVE  /\ UNCHANGED keys => KeysStay
           /\ UNCHANGED <<log, clock>> => LogStays
           /\ UNCHANGED challenge => ChallengesStay
           /\ UNCHANGED transfer => TransfersStay
  BY Types DEF KeysStay, LogStays, ChallengesStay, TransfersStay

\* A link stays one while the log grows.
LEMMA LinkedStays ==
    ASSUME Len(log) \in Nat, clock \in Nat, clock' \in Nat, LogStays,
           NEW r, r.seen \in Nat, r.prev \in Nat, r.ts \in Nat,
           NEW n \in 0..Len(log), NEW m \in Nat, n <= m, Linked(r, n)
    PROVE  Linked(r, m)'
  <1>1. \A i \in 1..r.seen : i \in 1..Len(log)
    BY DEF Linked
  <1>2. r.prev # 0 => r.prev \in 1..Len(log)
    BY DEF Linked
  <1>3. r.prev # 0 => log'[r.prev] = log[r.prev]
    BY <1>2 DEF LogStays
  <1>4. \A i \in 1..r.seen : log'[i] = log[i] /\ r.prev # 0
    <2>1. r.prev = 0 => r.seen = 0
      BY DEF Linked
    <2> QED
      BY <1>1, <2>1 DEF LogStays
  <1>5. r.seen <= m /\ r.prev <= r.seen /\ r.ts <= clock' /\ (r.prev = 0 => r.seen = 0)
    BY DEF Linked, LogStays
  <1>6. r.prev # 0 => log'[r.prev].ts <= r.ts
    BY <1>3 DEF Linked
  <1>7. \A i \in 1..r.seen : log'[i].ts <= log'[r.prev].ts
    BY <1>3, <1>4 DEF Linked
  <1> QED
    BY <1>5, <1>6, <1>7 DEF Linked

\* A handler that is not the one that moves.
LEMMA OtherHandler ==
    ASSUME NodeTypeOK, NodeTypeOK', Stable, NEW r \in ReqRecord, HandlerOK(r), Spares(r)
    PROVE  HandlerOK(r)'
  <1>1. /\ Len(log) \in Nat /\ Len(log') \in Nat /\ clock \in Nat /\ clock' \in Nat
        /\ Len(keys) \in Nat /\ Len(keys') \in Nat /\ Len(log) <= Len(log')
    BY NodeAssumption DEF NodeTypeOK, Stable, LogStays
  <1>2. /\ r.seen \in Nat /\ r.prev \in Nat /\ r.ts \in Nat /\ r.archived \in Nat
        /\ r.of \in Challenge
    BY NodeAssumption DEF ReqRecord
  <1>3. r.pc = "logged" => Linked(r, Len(log))'
    <2> SUFFICES ASSUME r.pc = "logged", NEW m \in Nat, m = Len(log') PROVE Linked(r, m)'
      BY <1>1 DEF Linked
    <2>1. Len(log) \in 0..Len(log) /\ Len(log) <= m /\ Linked(r, Len(log)) /\ LogStays
      BY <1>1 DEF HandlerOK, Stable
    <2> QED
      BY <1>1, <1>2, <2>1, LinkedStays
  <1>4. ArchivedOK(r) => ArchivedOK(r)'
    BY <1>1, <1>2 DEF ArchivedOK, Stable, KeysStay
  <1>5. r.op = "upload" => JobOK(r)'
    <2> SUFFICES ASSUME r.op = "upload" PROVE JobOK(r)'
      OBVIOUS
    <2>1. JobOK(r) /\ r.of \in Upload
      BY DEF HandlerOK
    <2> QED
      BY <1>2, <2>1 DEF JobOK, Spares, Stable, ChallengesStay, TransfersStay, Used
  <1>6. r.op = "release" => transfer'[r.of].status # "none"
    BY DEF HandlerOK, Stable, TransfersStay
  <1>7. r.of \in sent => r.of \in sent'
    BY DEF Stable
  <1> QED
    BY <1>3, <1>4, <1>5, <1>6, <1>7 DEF HandlerOK

\* What is recorded stays recorded.
LEMMA RecordStays ==
    ASSUME NodeTypeOK, NodeTypeOK', Stable, NEW u \in Upload, NEW s, Recorded(u, s)
    PROVE  Recorded(u, s)'
  <1>1. u \in Challenge /\ Len(log) \in Nat /\ Len(log') \in Nat /\ Len(log) <= Len(log')
    BY DEF Challenge, NodeTypeOK, Stable, LogStays
  <1>2. PICK i \in 1..Len(log) :
            /\ log[i].of = u
            /\ log[i].event = IF s = "completed" THEN "FILE_TRANSFER" ELSE "TRANSFER_QUARANTINED"
    BY DEF Recorded
  <1>3. i \in 1..Len(log') /\ log'[i] = log[i]
    BY <1>1 DEF Stable, LogStays
  <1>4. challenge'[u] \in Used /\ transfer'[u].status # "none"
        /\ (s = "completed" => transfer'[u].status = "encrypted")
    BY <1>1 DEF Recorded, Stable, ChallengesStay, TransfersStay, Used
  <1> QED
    BY <1>2, <1>3, <1>4 DEF Recorded, Used

\* The entries stay linked.
LEMMA LogOKStays ==
    ASSUME NodeTypeOK, NodeTypeOK', LogOK, LogStays, NEW j \in 1..Len(log)
    PROVE  Linked(log[j], j - 1)'
  <1>1. /\ log[j] \in LogDocument /\ log'[j] = log[j] /\ Linked(log[j], j - 1)
        /\ Len(log) \in Nat /\ clock \in Nat /\ clock' \in Nat
    BY Types, NodeAssumption DEF LogOK, LogStays, NodeTypeOK
  <1>2. log[j].seen \in Nat /\ log[j].prev \in Nat /\ log[j].ts \in Nat
    BY <1>1, NodeAssumption DEF LogDocument
  <1>3. j - 1 \in 0..Len(log) /\ j - 1 \in Nat
    BY <1>1
  <1>4. ASSUME NEW r, r = log[j] PROVE Linked(r, j - 1)'
    BY <1>1, <1>2, <1>3, <1>4, LinkedStays
  <1> QED
    BY <1>1, <1>4 DEF Linked

(***************************************************************************)
(* One step of handler h, which leaves r of it.                            *)
(***************************************************************************)
SetsOwnStatus(h) ==
    \A u \in Upload : \/ status'[u] = status[u]
                      \/ status'[u] \notin Over
                      \/ Recorded(u, status[u])'

LEMMA HandlerStepKeeps ==
    ASSUME NodeInv, NodeTypeOK', NEW h \in Handler, NEW r \in ReqRecord, SetReq(h, r), Stable,
           HandlerOK(r)', \A e \in Handler \ {h} : Spares(req[e]),
           Job(r) => (Job(req[h]) /\ r.of = req[h].of) \/ r.of \notin sent,
           TwoActiveOnlyByOverlap', LogOK', NotSentOK', SetsOwnStatus(h)
    PROVE  NodeInv'
  <1>1. /\ req'[h] = r
        /\ \A e \in Handler \ {h} : req'[e] = req[e]
        /\ NodeTypeOK
    BY DEF SetReq, NodeInv, NodeTypeOK
  <1>2. HandlersOK'
    <2> SUFFICES ASSUME NEW e \in Handler, NEW q \in ReqRecord, q = req'[e]
                 PROVE  HandlerOK(q)'
      BY DEF HandlersOK, NodeTypeOK
    <2>1. CASE e = h
      BY <1>1, <2>1
    <2>2. CASE e # h
      <3>1. q = req[e] /\ HandlerOK(q) /\ Spares(q)
        BY <1>1, <2>2 DEF NodeInv, HandlersOK
      <3> QED
        BY <1>1, <3>1, OtherHandler
    <2> QED
      BY <2>1, <2>2
  <1>3. OneJob'
    <2>1. \A e \in Handler : Job(req[e]) => req[e].of \in sent
      BY DEF NodeInv, HandlersOK, HandlerOK, Job
    <2> QED
      BY <1>1, <2>1 DEF NodeInv, OneJob, Job
  <1>4. OverOK'
    <2> SUFFICES ASSUME NEW u \in Upload, status'[u] \in Over
                 PROVE  Recorded(u, status[u])'
      BY DEF OverOK
    <2>1. CASE status'[u] = status[u]
      <3>1. Recorded(u, status[u])
        BY <2>1 DEF NodeInv, OverOK
      <3>2. ASSUME NEW s, s = status[u] PROVE Recorded(u, s)'
        BY <1>1, <3>1, <3>2, RecordStays
      <3> QED
        BY <2>1, <3>2 DEF Recorded
    <2>2. CASE status'[u] # status[u]
      BY <2>2 DEF SetsOwnStatus
    <2> QED
      BY <2>1, <2>2
  <1> QED
    BY <1>2, <1>3, <1>4 DEF NodeInv

LEMMA OneRecord ==
    ASSUME NodeTypeOK, NEW h \in Handler, NEW r \in ReqRecord, SetReq(h, r)
    PROVE  req' \in [Handler -> ReqRecord]
  BY DEF NodeTypeOK, SetReq

\* A step that writes nothing but the handler's own locals.
LEMMA QuietStep ==
    ASSUME NodeInv, NEW h \in Handler, NEW r \in ReqRecord, SetReq(h, r),
           UNCHANGED <<documents, log, status, sent, clock>>, rejected' \subseteq Upload,
           HandlerOK(r), Job(r) => Job(req[h]) /\ r.of = req[h].of
    PROVE  NodeInv'
  <1>1. NodeTypeOK
    BY DEF NodeInv
  <1>2. UNCHANGED <<challenge, keys, transfer, log, status, sent, clock>>
    BY DEF documents
  <1>3. NodeTypeOK'
    BY <1>1, <1>2, OneRecord DEF NodeTypeOK
  <1>4. Stable
    BY <1>1, <1>2, Unmoved DEF Stable
  <1>5. HandlerOK(r)'
    BY <1>2 DEF HandlerOK, ArchivedOK, Linked, JobOK
  <1>6. \A e \in Handler \ {h} : Spares(req[e])
    BY <1>2 DEF Spares
  <1>7. TwoActiveOnlyByOverlap' /\ LogOK' /\ NotSentOK' /\ SetsOwnStatus(h)
    BY <1>2 DEF NodeInv, TwoActiveOnlyByOverlap, LogOK, Linked, NotSentOK, SetsOwnStatus
  <1> QED
    BY <1>3, <1>4, <1>5, <1>6, <1>7, HandlerStepKeeps

LEMMA IdleIs ==
    /\ Idle \in ReqRecord
    /\ Idle.op = "none" /\ Idle.pc = "idle"
    /\ \A r : r.op = "none" /\ r.pc = "idle" => HandlerOK(r) /\ ~Job(r)
  <1>1. (CHOOSE c \in Challenge : TRUE) \in Challenge
    BY NodeAssumption DEF Challenge
  <1>2. 0 \in 0..MaxClock
    BY NodeAssumption
  <1>3. Idle \in ReqRecord /\ Idle.op = "none" /\ Idle.pc = "idle"
    BY <1>1, <1>2 DEF Idle, ReqRecord, Pc, Event, TransferStatus
  <1> QED
    BY <1>3 DEF HandlerOK, Job

-----------------------------------------------------------------------------
\* What is known of a handler when its step begins.
LEMMA CallerIs ==
    ASSUME NodeInv, NEW h \in Handler
    PROVE  /\ req[h] \in ReqRecord /\ HandlerOK(req[h]) /\ NodeTypeOK
           /\ rejected \subseteq Upload /\ clock \in 0..MaxClock
           /\ Len(log) \in Nat /\ Len(keys) \in Nat
  BY Types DEF NodeInv, HandlersOK, NodeTypeOK

\* A handler begins without a job, or replies.
LEMMA StartKeeps ==
    ASSUME NodeInv, NEW h \in Handler, NEW op \in {"register", "share", "release"},
           NEW pc \in {"consume", "save"}, NEW c \in Challenge, NEW read \in TransferStatus,
           Start(h, op, pc, c, read), UNCHANGED <<documents, log, status, rest>>,
           op = "register" => c \in Registration,
           op \in {"share", "release"} => c \in Upload,
           op = "release" => transfer[c].status # "none"
    PROVE  NodeInv'
  <1>1. Idle \in ReqRecord /\ rejected \subseteq Upload
    BY IdleIs, CallerIs
  <1> DEFINE r == [Idle EXCEPT !.op = op, !.pc = pc, !.of = c, !.read = read]
  <1>r. /\ r \in ReqRecord
       /\ r.op = op /\ r.pc = pc
       /\ r.of = c /\ r.archived = Idle.archived
       /\ r.key = Idle.key /\ r.event = Idle.event
       /\ r.read = read /\ r.ts = Idle.ts
       /\ r.prev = Idle.prev /\ r.seen = Idle.seen
    BY <1>1 DEF ReqRecord, Pc, Event, TransferStatus
  <1> HIDE DEF r
  <1>2. SetReq(h, r)
    BY DEF Start, r
  <1>3. HandlerOK(r) /\ ~Job(r)
    BY <1>r DEF HandlerOK, Job
  <1> QED
    BY <1>1, <1>2, <1>3, <1>r, QuietStep DEF rest

LEMMA ReplyKeeps ==
    ASSUME NodeInv, NEW h \in Handler, Reply(h), rejected' \subseteq Upload,
           UNCHANGED <<documents, log, status, sent, clock>>
    PROVE  NodeInv'
  <1>1. Idle \in ReqRecord /\ HandlerOK(Idle) /\ ~Job(Idle) /\ SetReq(h, Idle)
    BY IdleIs DEF Reply
  <1> QED
    BY <1>1, QuietStep

\* appendToBlockchain finds the latest entry.
LEMMA ReadLogKeeps ==
    ASSUME NodeInv, NEW h \in Handler, ReadLog(h)
    PROVE  NodeInv'
  <1>1. /\ req[h] \in ReqRecord /\ HandlerOK(req[h]) /\ NodeTypeOK
        /\ rejected \subseteq Upload /\ clock \in 0..MaxClock /\ Len(log) \in Nat
        /\ req[h].pc = "log"
    BY CallerIs DEF ReadLog
  <1>2. ASSUME NEW i \in 0..Len(log), i = 0 => Len(log) = 0,
               i # 0 => i \in Latest,
               SetReq(h, [req[h] EXCEPT !.pc = "logged", !.prev = i, !.ts = clock, !.seen = Len(log)])
        PROVE  NodeInv'
    <2>1. i \in Nat
      BY <1>1
    <2> DEFINE r == [req[h] EXCEPT !.pc = "logged", !.prev = i, !.ts = clock, !.seen = Len(log)]
    <2>r. /\ r \in ReqRecord
         /\ r.op = req[h].op /\ r.pc = "logged"
         /\ r.of = req[h].of /\ r.archived = req[h].archived
         /\ r.key = req[h].key /\ r.event = req[h].event
         /\ r.read = req[h].read /\ r.ts = clock
         /\ r.prev = i /\ r.seen = Len(log)
      BY <1>1, <2>1 DEF ReqRecord, Pc, Event, TransferStatus
    <2> HIDE DEF r
    <2>2. SetReq(h, r)
      BY <1>2 DEF r
    <2>3. Linked(r, Len(log))
      <3>1. r.seen <= Len(log) /\ r.prev <= r.seen /\ r.ts <= clock /\ (r.prev = 0 => r.seen = 0)
        BY <1>1, <1>2, <2>r, NodeAssumption
      <3>2. r.prev # 0 => log[r.prev].ts <= r.ts
        <4>1. ASSUME r.prev # 0 PROVE Linked(log[r.prev], r.prev - 1)
          BY <1>1, <1>2, <2>r, <4>1 DEF NodeInv, LogOK
        <4> QED
          BY <2>r, <4>1 DEF Linked
      <3>3. \A k \in 1..r.seen : log[k].ts <= log[r.prev].ts
        <4> SUFFICES ASSUME NEW k \in 1..Len(log) PROVE log[k].ts <= log[i].ts
          BY <2>r
        <4>1. i \in Latest /\ DOMAIN log = 1..Len(log)
          BY <1>1, <1>2, Types
        <4> QED
          BY <4>1 DEF Latest
      <3> QED
        BY <3>1, <3>2, <3>3 DEF Linked
    <2>4. HandlerOK(r) /\ (Job(r) => Job(req[h]) /\ r.of = req[h].of)
      BY <1>1, <2>r, <2>3 DEF HandlerOK, JobOK, Job
    <2> QED
      BY <1>1, <2>r, <2>2, <2>4, QuietStep DEF ReadLog, rest
  <1>3. DOMAIN log = 1..Len(log) /\ (log = <<>> => Len(log) = 0)
    BY <1>1, Types
  <1>4. \A i \in IF log = <<>> THEN {0} ELSE Latest :
           i \in 0..Len(log) /\ (i = 0 => Len(log) = 0) /\ (i # 0 => i \in Latest)
    BY <1>1, <1>3 DEF Latest
  <1> QED
    BY <1>2, <1>4 DEF ReadLog

\* The ACTIVE key of the sender goes with the upload.
LEMMA UploadKeyKeeps ==
    ASSUME NodeInv, NEW h \in Handler, UploadKey(h)
    PROVE  NodeInv'
  <1>1. /\ req[h] \in ReqRecord /\ HandlerOK(req[h]) /\ NodeTypeOK /\ rejected \subseteq Upload
        /\ req[h].pc = "key" /\ req[h].op = "upload" /\ DOMAIN keys = 1..Len(keys)
        /\ Len(keys) \in Nat
    BY CallerIs, Types DEF UploadKey, At
  <1>2. ASSUME NEW k \in Nat, SetReq(h, [req[h] EXCEPT !.pc = "engine", !.key = k])
        PROVE  NodeInv'
    <2> DEFINE r == [req[h] EXCEPT !.pc = "engine", !.key = k]
    <2>r. /\ r \in ReqRecord
         /\ r.op = req[h].op /\ r.pc = "engine"
         /\ r.of = req[h].of /\ r.archived = req[h].archived
         /\ r.key = k /\ r.event = req[h].event
         /\ r.read = req[h].read /\ r.ts = req[h].ts
         /\ r.prev = req[h].prev /\ r.seen = req[h].seen
      BY <1>1 DEF ReqRecord, Pc, Event, TransferStatus
    <2> HIDE DEF r
    <2>1. SetReq(h, r)
      BY <1>2 DEF r
    <2>2. HandlerOK(r) /\ (Job(r) => Job(req[h]) /\ r.of = req[h].of)
      BY <1>1, <2>r DEF HandlerOK, JobOK, Job
    <2> QED
      BY <1>1, <2>r, <2>1, <2>2, QuietStep DEF UploadKey, rest
  <1>3. \A i \in ActiveKeys : i \in Nat
    BY <1>1 DEF ActiveKeys
  <1> QED
    BY <1>2, <1>3 DEF UploadKey

\* A job that sets the status to error and ends.
LEMMA ErrorStep ==
    ASSUME NodeInv, NEW h \in Handler, Job(req[h]), Reply(h), SetStatus(req[h].of, "error"),
           UNCHANGED <<documents, log, rest>>
    PROVE  NodeInv'
  <1> DEFINE u == req[h].of
  <1>1. /\ HandlerOK(req[h]) /\ NodeTypeOK /\ u \in Upload
        /\ Idle \in ReqRecord /\ SetReq(h, Idle) /\ Idle.op = "none" /\ Idle.pc = "idle"
        /\ UNCHANGED <<challenge, keys, transfer, log, sent, rejected, clock>>
    BY CallerIs, IdleIs DEF HandlerOK, Job, Reply, documents, rest
  <1>2. /\ status' \in [Upload -> Status] /\ status'[u] = "error"
        /\ \A v \in Upload : v # u => status'[v] = status[v]
    BY <1>1 DEF SetStatus, NodeTypeOK, Status
  <1>3. NodeTypeOK'
    BY <1>1, <1>2, OneRecord DEF NodeTypeOK
  <1>4. Stable
    BY <1>1, Unmoved DEF Stable
  <1>5. HandlerOK(Idle)' /\ ~Job(Idle)
    BY <1>1 DEF HandlerOK, Job
  <1>6. \A e \in Handler \ {h} : Spares(req[e])
    <2> SUFFICES ASSUME NEW e \in Handler \ {h}, req[e].op = "upload"
                 PROVE  req[e].of \in Upload /\ req[e].of # u
      BY <1>1, <1>2 DEF Spares
    <2> QED
      BY CallerIs DEF HandlerOK, NodeInv, OneJob, Job
  <1>7. TwoActiveOnlyByOverlap' /\ LogOK' /\ NotSentOK' /\ SetsOwnStatus(h)
    BY <1>1, <1>2 DEF NodeInv, TwoActiveOnlyByOverlap, LogOK, Linked, NotSentOK, SetsOwnStatus, Over
  <1> QED
    BY <1>1, <1>3, <1>4, <1>5, <1>6, <1>7, HandlerStepKeeps

\* The engine accepts, refuses or fails.
LEMMA UploadEngineKeeps ==
    ASSUME NodeInv, NEW h \in Handler, UploadEngine(h)
    PROVE  NodeInv'
  <1>1. /\ req[h] \in ReqRecord /\ HandlerOK(req[h]) /\ NodeTypeOK /\ rejected \subseteq Upload
        /\ req[h].pc = "engine" /\ req[h].op = "upload"
    BY CallerIs DEF UploadEngine, At
  <1>2. ASSUME NEW e \in {"FILE_TRANSFER", "TRANSFER_QUARANTINED"}, UNCHANGED status,
               SetReq(h, [req[h] EXCEPT !.pc = "nonce", !.event = e, !.key = 0])
        PROVE  NodeInv'
    <2> DEFINE r == [req[h] EXCEPT !.pc = "nonce", !.event = e, !.key = 0]
    <2>r. /\ r \in ReqRecord
         /\ r.op = req[h].op /\ r.pc = "nonce"
         /\ r.of = req[h].of /\ r.archived = req[h].archived
         /\ r.key = 0 /\ r.event = e
         /\ r.read = req[h].read /\ r.ts = req[h].ts
         /\ r.prev = req[h].prev /\ r.seen = req[h].seen
      BY <1>1 DEF ReqRecord, Pc, Event, TransferStatus
    <2> HIDE DEF r
    <2>1. SetReq(h, r)
      BY <1>2 DEF r
    <2>2. HandlerOK(r) /\ (Job(r) => Job(req[h]) /\ r.of = req[h].of)
      BY <1>1, <2>r DEF HandlerOK, JobOK, Job
    <2> QED
      BY <1>1, <1>2, <2>r, <2>1, <2>2, QuietStep DEF UploadEngine, rest
  <1>3. ASSUME UNCHANGED status,
               SetReq(h, [req[h] EXCEPT !.op = "refused", !.pc = "log",
                                        !.event = "MALWARE_BLOCKED", !.key = 0])
        PROVE  NodeInv'
    <2> DEFINE r == [req[h] EXCEPT !.op = "refused", !.pc = "log", !.event = "MALWARE_BLOCKED", !.key = 0]
    <2>r. /\ r \in ReqRecord
         /\ r.op = "refused" /\ r.pc = "log"
         /\ r.of = req[h].of /\ r.archived = req[h].archived
         /\ r.key = 0 /\ r.event = "MALWARE_BLOCKED"
         /\ r.read = req[h].read /\ r.ts = req[h].ts
         /\ r.prev = req[h].prev /\ r.seen = req[h].seen
      BY <1>1 DEF ReqRecord, Pc, Event, TransferStatus
    <2> HIDE DEF r
    <2>1. SetReq(h, r)
      BY <1>3 DEF r
    <2>2. HandlerOK(r) /\ (Job(r) => Job(req[h]) /\ r.of = req[h].of)
      BY <1>1, <2>r DEF HandlerOK, Job
    <2> QED
      BY <1>1, <1>3, <2>r, <2>1, <2>2, QuietStep DEF UploadEngine, rest
  <1>4. CASE Reply(h) /\ SetStatus(req[h].of, "error")
    BY <1>1, <1>4, ErrorStep DEF UploadEngine, Job
  <1> QED
    BY <1>2, <1>3, <1>4 DEF UploadEngine

\* MongoDB refuses a call.
LEMMA DatabaseFailsKeeps ==
    ASSUME NodeInv, NEW h \in Handler, DatabaseFails(h)
    PROVE  NodeInv'
  <1>1. /\ req[h] \in ReqRecord /\ HandlerOK(req[h]) /\ NodeTypeOK /\ rejected \subseteq Upload
        /\ Reply(h) /\ UNCHANGED <<documents, log, sent, clock>>
    BY CallerIs DEF DatabaseFails
  <1>2. CASE req[h].op = "upload"
    <2>1. SetStatus(req[h].of, "error") /\ UNCHANGED rejected
      BY <1>2 DEF DatabaseFails
    <2> QED
      BY <1>1, <1>2, <2>1, ErrorStep DEF Job, rest
  <1>3. CASE req[h].op = "refused"
    <2>1. rejected' = rejected \cup {req[h].of} /\ UNCHANGED status
      BY <1>3 DEF DatabaseFails
    <2>2. rejected' \subseteq Upload
      BY <1>1, <1>3, <2>1 DEF HandlerOK
    <2> QED
      BY <1>1, <2>1, <2>2, ReplyKeeps
  <1>4. CASE req[h].op \notin {"upload", "refused"}
    <2>1. UNCHANGED <<status, rejected>>
      BY <1>4 DEF DatabaseFails
    <2> QED
      BY <1>1, <2>1, ReplyKeeps
  <1> QED
    BY <1>2, <1>3, <1>4

-----------------------------------------------------------------------------
\* An entry is created: its link was right when it was read, and still is.
LEMMA AppendLogIs ==
    ASSUME NodeInv, NEW h \in Handler, req[h].pc = "logged", AppendLog(h), UNCHANGED clock
    PROVE  /\ log' \in Seq(LogDocument) /\ Len(log') = Len(log) + 1
           /\ \A i \in 1..Len(log) : log'[i] = log[i]
           /\ log'[Len(log) + 1] = LogEntry(req[h])
           /\ LogEntry(req[h]).of = req[h].of /\ LogEntry(req[h]).event = req[h].event
           /\ LogStays /\ LogOK'
  <1> DEFINE q == LogEntry(req[h])
             n == Len(log)
  <1>1. /\ req[h] \in ReqRecord /\ HandlerOK(req[h]) /\ NodeTypeOK
        /\ n \in Nat /\ log \in Seq(LogDocument) /\ clock \in Nat
    BY CallerIs, Types DEF NodeTypeOK
  <1>2. /\ q \in LogDocument /\ q.prev = req[h].prev /\ q.ts = req[h].ts /\ q.seen = req[h].seen
        /\ q.of = req[h].of /\ q.event = req[h].event
    BY <1>1 DEF LogEntry, LogDocument, ReqRecord
  <1> HIDE DEF q
  <1>3. /\ log' \in Seq(LogDocument) /\ Len(log') = n + 1 /\ log'[n + 1] = q
        /\ \A i \in 1..n : log'[i] = log[i]
    <2>1. log' = Append(log, q)
      BY DEF AppendLog, q
    <2> QED
      BY <1>1, <1>2, <2>1, AppendProperties
  <1>4. LogStays
    BY <1>1, <1>3 DEF LogStays
  <1>5. Linked(q, n)
    BY <1>1, <1>2 DEF HandlerOK, Linked
  <1>6. LogOK'
    <2> SUFFICES ASSUME NEW j \in 1..(n + 1) PROVE Linked(log[j], j - 1)'
      BY <1>3 DEF LogOK
    <2> SUFFICES ASSUME NEW e \in LogDocument, e = log'[j] PROVE Linked(e, j - 1)'
      BY <1>3 DEF Linked
    <2>1. e.prev \in Nat /\ e.seen \in Nat /\ e.ts \in Nat
      BY NodeAssumption DEF LogDocument
    <2>2. j - 1 \in 0..n /\ j - 1 \in Nat /\ clock' \in Nat
      BY <1>1
    <2>3. CASE j = n + 1
      <3>1. Linked(e, j - 1)
        BY <1>1, <1>3, <1>5, <2>3
      <3> QED
        BY <1>1, <1>4, <2>1, <2>2, <3>1, LinkedStays
    <2>4. CASE j # n + 1
      <3>1. j \in 1..n
        BY <1>1, <2>4
      <3>2. Linked(e, j - 1)
        BY <1>3, <3>1 DEF NodeInv, LogOK
      <3> QED
        BY <1>1, <1>4, <2>1, <2>2, <3>2, LinkedStays
    <2> QED
      BY <2>3, <2>4
  <1> QED
    BY <1>2, <1>3, <1>4, <1>6 DEF q

LEMMA LogStep ==
    ASSUME NodeInv, NEW h \in Handler, NEW r \in ReqRecord, SetReq(h, r),
           req[h].pc = "logged", AppendLog(h), UNCHANGED <<documents, status, rest>>,
           r.op = "none" \/ (r.op = "refused" /\ req[h].op = "refused" /\ r.of = req[h].of),
           r.pc \in {"idle", "alert"}
    PROVE  NodeInv'
  <1>1. HandlerOK(req[h]) /\ NodeTypeOK
    BY CallerIs
  <1>2. UNCHANGED <<challenge, keys, transfer, status, sent, rejected, clock>>
    BY DEF documents, rest
  <1>3. log' \in Seq(LogDocument) /\ LogStays /\ LogOK'
    BY <1>2, AppendLogIs
  <1>4. NodeTypeOK'
    BY <1>1, <1>2, <1>3, OneRecord DEF NodeTypeOK
  <1>5. Stable
    BY <1>1, <1>2, <1>3, Unmoved DEF Stable
  <1>6. HandlerOK(r)' /\ (Job(r) => Job(req[h]) /\ r.of = req[h].of)
    BY <1>1, <1>2 DEF HandlerOK, Job
  <1>7. \A e \in Handler \ {h} : Spares(req[e])
    BY <1>2 DEF Spares
  <1>8. TwoActiveOnlyByOverlap' /\ NotSentOK' /\ SetsOwnStatus(h)
    BY <1>2 DEF NodeInv, TwoActiveOnlyByOverlap, NotSentOK, SetsOwnStatus
  <1> QED
    BY <1>3, <1>4, <1>5, <1>6, <1>7, <1>8, HandlerStepKeeps

\* Handlers that reply once their entry is there, and the refused job.
LEMMA LoggedReplyKeeps ==
    ASSUME NodeInv, NEW h \in Handler, RegisterReply(h) \/ ReleaseReply(h) \/ RefusedAlert(h)
    PROVE  NodeInv'
  <1>1. /\ req[h] \in ReqRecord /\ req[h].pc = "logged" /\ AppendLog(h)
        /\ UNCHANGED <<documents, status, rest>>
        /\ Idle \in ReqRecord /\ Idle.op = "none" /\ Idle.pc = "idle"
    BY CallerIs, IdleIs DEF RegisterReply, ReleaseReply, RefusedAlert, At
  <1>2. CASE RegisterReply(h) \/ ReleaseReply(h)
    <2>1. SetReq(h, Idle)
      BY <1>2 DEF RegisterReply, ReleaseReply, Reply
    <2> QED
      BY <1>1, <2>1, LogStep
  <1>3. CASE RefusedAlert(h)
    <2>1. req[h].op = "refused" /\ req[h].of \in Challenge
      BY <1>1, <1>3 DEF RefusedAlert, At, ReqRecord
    <2> DEFINE r == [Idle EXCEPT !.op = "refused", !.pc = "alert", !.of = req[h].of]
    <2>r. /\ r \in ReqRecord
         /\ r.op = "refused" /\ r.pc = "alert"
         /\ r.of = req[h].of /\ r.archived = Idle.archived
         /\ r.key = Idle.key /\ r.event = Idle.event
         /\ r.read = Idle.read /\ r.ts = Idle.ts
         /\ r.prev = Idle.prev /\ r.seen = Idle.seen
      BY <1>1, <2>1 DEF ReqRecord, Pc, Event, TransferStatus
    <2>2. SetReq(h, r)
      BY <1>3 DEF RefusedAlert
    <2> HIDE DEF r
    <2> QED
      BY <1>1, <2>r, <2>1, <2>2, LogStep
  <1> QED
    BY <1>2, <1>3

\* The job of an upload is over: what the client is told is recorded.
LEMMA UploadReplyKeeps ==
    ASSUME NodeInv, NEW h \in Handler, UploadReply(h)
    PROVE  NodeInv'
  <1>0. req[h].of \in Upload
    BY CallerIs DEF HandlerOK, UploadReply, At
  <1>u. PICK u \in Upload : u = req[h].of
    BY <1>0
  <1> DEFINE s == IF Quarantined(req[h]) THEN "quarantined" ELSE "completed"
  <1>1. /\ HandlerOK(req[h]) /\ NodeTypeOK /\ req[h].pc = "logged" /\ req[h].op = "upload"
        /\ AppendLog(h) /\ SetReq(h, Idle) /\ status' = [status EXCEPT ![u] = s]
        /\ UNCHANGED <<challenge, keys, transfer, sent, rejected, clock>>
        /\ Idle \in ReqRecord /\ Idle.op = "none" /\ Idle.pc = "idle" /\ Len(log) \in Nat
    BY <1>u, CallerIs, IdleIs DEF UploadReply, At, Reply, SetStatus, documents, rest
  <1>2. req[h].of = u /\ JobOK(req[h])
    BY <1>1, <1>u DEF HandlerOK
  <1>3. /\ log' \in Seq(LogDocument) /\ LogStays /\ LogOK' /\ Len(log') = Len(log) + 1
        /\ log'[Len(log) + 1].of = u /\ log'[Len(log) + 1].event = req[h].event
    BY <1>1, <1>2, AppendLogIs
  <1>4. /\ status' \in [Upload -> Status] /\ status'[u] = s
        /\ \A v \in Upload : v # u => status'[v] = status[v]
    BY <1>1, <1>2 DEF NodeTypeOK, Status
  <1>5. NodeTypeOK'
    BY <1>1, <1>3, <1>4, OneRecord DEF NodeTypeOK
  <1>6. Stable
    BY <1>1, <1>3, Unmoved DEF Stable
  <1>7. HandlerOK(Idle)' /\ ~Job(Idle)
    BY <1>1 DEF HandlerOK, Job
  <1>8. \A e \in Handler \ {h} : Spares(req[e])
    <2> SUFFICES ASSUME NEW e \in Handler \ {h}, req[e].op = "upload"
                 PROVE  req[e].of \in Upload /\ req[e].of # u
      BY <1>1, <1>4 DEF Spares
    <2> QED
      BY <1>1, <1>2, CallerIs DEF HandlerOK, NodeInv, OneJob, Job
  <1>9. Recorded(u, status[u])'
    <2>1. req[h].event = IF s = "completed" THEN "FILE_TRANSFER" ELSE "TRANSFER_QUARANTINED"
      BY <1>1, <1>2 DEF JobOK, Quarantined
    <2>2. /\ transfer[u].status # "none" /\ challenge[u] \in {"consumed", "gone"}
          /\ s = "completed" => transfer[u].status = "encrypted"
      BY <1>1, <1>2, <2>1 DEF JobOK
    <2>3. Len(log) + 1 \in 1..Len(log')
      BY <1>1, <1>3
    <2>4. ASSUME NEW c, c = s PROVE Recorded(u, c)'
      BY <1>1, <1>3, <2>1, <2>2, <2>3, <2>4 DEF Recorded
    <2> QED
      BY <1>4, <2>4 DEF Recorded
  <1>10. TwoActiveOnlyByOverlap' /\ NotSentOK' /\ SetsOwnStatus(h)
    <2>1. TwoActiveOnlyByOverlap' /\ NotSentOK'
      BY <1>1 DEF NodeInv, TwoActiveOnlyByOverlap, NotSentOK
    <2> QED
      BY <1>4, <1>9, <2>1 DEF SetsOwnStatus
  <1> QED
    BY <1>1, <1>3, <1>5, <1>6, <1>7, <1>8, <1>10, HandlerStepKeeps

-----------------------------------------------------------------------------
\* A step that changes the challenges and the handler.
LEMMA ChallengeStep ==
    ASSUME NodeInv, NEW h \in Handler, NEW r \in ReqRecord, SetReq(h, r),
           challenge' \in [Challenge -> {"none", "open", "consumed", "gone"}], ChallengesStay,
           UNCHANGED <<keys, transfer, log, status, rest>>, HandlerOK(r)',
           Job(r) => Job(req[h]) /\ r.of = req[h].of
    PROVE  NodeInv'
  <1>1. NodeTypeOK /\ UNCHANGED <<sent, rejected, clock>>
    BY DEF NodeInv, rest
  <1>2. NodeTypeOK' /\ Stable
    BY <1>1, OneRecord, Unmoved DEF NodeTypeOK, Stable
  <1>3. \A e \in Handler \ {h} : Spares(req[e])
    BY DEF Spares
  <1>4. TwoActiveOnlyByOverlap' /\ LogOK' /\ NotSentOK' /\ SetsOwnStatus(h)
    BY <1>1 DEF NodeInv, TwoActiveOnlyByOverlap, LogOK, Linked, NotSentOK, SetsOwnStatus
  <1> QED
    BY <1>2, <1>3, <1>4, HandlerStepKeeps

LEMMA RegisterConsumeKeeps ==
    ASSUME NodeInv, NEW h \in Handler, RegisterConsume(h)
    PROVE  NodeInv'
  <1>1. /\ req[h] \in ReqRecord /\ HandlerOK(req[h]) /\ NodeTypeOK
        /\ req[h].op = "register" /\ req[h].pc = "consume"
        /\ challenge' = [challenge EXCEPT ![req[h].of] = "consumed"]
    BY CallerIs DEF RegisterConsume, At
  <1>p. [req[h] EXCEPT !.pc = "archive"] \in ReqRecord
    BY <1>1 DEF ReqRecord, Pc, Event, TransferStatus
  <1>q. PICK r \in ReqRecord : r = [req[h] EXCEPT !.pc = "archive"]
    BY <1>p
  <1>r. /\ r.op = req[h].op /\ r.pc = "archive"
       /\ r.of = req[h].of /\ r.archived = req[h].archived
       /\ r.key = req[h].key /\ r.event = req[h].event
       /\ r.read = req[h].read /\ r.ts = req[h].ts
       /\ r.prev = req[h].prev /\ r.seen = req[h].seen
    BY <1>1, <1>q DEF ReqRecord
  <1>2. SetReq(h, r) /\ UNCHANGED <<keys, transfer, log, status, rest>>
    BY <1>q DEF RegisterConsume, Goto
  <1>3. challenge' \in [Challenge -> {"none", "open", "consumed", "gone"}] /\ ChallengesStay
    BY <1>1 DEF NodeTypeOK, ChallengesStay, Used
  <1>4. HandlerOK(r)' /\ ~Job(r)
    BY <1>1, <1>r DEF HandlerOK, Job
  <1> QED
    BY <1>r, <1>2, <1>3, <1>4, ChallengeStep

LEMMA UploadNonceKeeps ==
    ASSUME NodeInv, NEW h \in Handler, UploadNonce(h)
    PROVE  NodeInv'
  <1> DEFINE u == req[h].of
  <1>1. /\ req[h] \in ReqRecord /\ HandlerOK(req[h]) /\ NodeTypeOK
        /\ req[h].op = "upload" /\ req[h].pc = "nonce"
        /\ challenge' = [challenge EXCEPT ![u] = IF challenge[u] = "open" THEN "consumed"
                                                 ELSE challenge[u]]
    BY CallerIs DEF UploadNonce, At
  <1>p. [req[h] EXCEPT !.pc = "create"] \in ReqRecord
    BY <1>1 DEF ReqRecord, Pc, Event, TransferStatus
  <1>q. PICK r \in ReqRecord : r = [req[h] EXCEPT !.pc = "create"]
    BY <1>p
  <1>r. /\ r.op = req[h].op /\ r.pc = "create"
       /\ r.of = req[h].of /\ r.archived = req[h].archived
       /\ r.key = req[h].key /\ r.event = req[h].event
       /\ r.read = req[h].read /\ r.ts = req[h].ts
       /\ r.prev = req[h].prev /\ r.seen = req[h].seen
    BY <1>1, <1>q DEF ReqRecord
  <1>2. SetReq(h, r) /\ UNCHANGED <<keys, transfer, log, status, rest>>
    BY <1>q DEF UploadNonce, Goto
  <1>3. JobOK(req[h]) /\ u \in Upload /\ u \in Challenge
    BY <1>1 DEF HandlerOK, Challenge
  <1>4. /\ challenge' \in [Challenge -> {"none", "open", "consumed", "gone"}] /\ ChallengesStay
        /\ challenge'[u] \in {"consumed", "gone"}
    BY <1>1, <1>3 DEF NodeTypeOK, ChallengesStay, Used, JobOK
  <1>5. HandlerOK(r)' /\ (Job(r) => Job(req[h]) /\ r.of = u)
    BY <1>1, <1>r, <1>2, <1>3, <1>4 DEF HandlerOK, JobOK, Job, rest
  <1> QED
    BY <1>r, <1>2, <1>4, <1>5, ChallengeStep

\* A step of a registration that changes the keys.
LEMMA KeysStep ==
    ASSUME NodeInv, NEW h \in Handler, NEW r \in ReqRecord, SetReq(h, r),
           keys' \in Seq(KeyDocument), KeysStay, TwoActiveOnlyByOverlap',
           UNCHANGED <<challenge, transfer, log, status, rest>>, HandlerOK(r)', ~Job(r)
    PROVE  NodeInv'
  <1>1. NodeTypeOK /\ UNCHANGED <<sent, rejected, clock>>
    BY DEF NodeInv, rest
  <1>2. NodeTypeOK' /\ Stable
    BY <1>1, OneRecord, Unmoved DEF NodeTypeOK, Stable
  <1>3. \A e \in Handler \ {h} : Spares(req[e])
    BY DEF Spares
  <1>4. LogOK' /\ NotSentOK' /\ SetsOwnStatus(h)
    BY <1>1 DEF NodeInv, LogOK, Linked, NotSentOK, SetsOwnStatus
  <1> QED
    BY <1>2, <1>3, <1>4, HandlerStepKeeps

LEMMA FunctionIsSeq ==
    ASSUME NEW S, NEW n \in Nat, NEW f \in [1..n -> S]
    PROVE  f \in Seq(S) /\ Len(f) = n
  OBVIOUS

\* The old keys are archived: none is ACTIVE.
LEMMA RegisterArchiveKeeps ==
    ASSUME NodeInv, NEW h \in Handler, RegisterArchive(h)
    PROVE  NodeInv'
  <1> DEFINE n == Len(keys)
  <1>1. /\ req[h] \in ReqRecord /\ HandlerOK(req[h])
        /\ req[h].op = "register" /\ req[h].pc = "archive"
        /\ n \in Nat /\ DOMAIN keys = 1..n /\ \A i \in 1..n : keys[i] \in KeyDocument
    BY CallerIs, Types DEF RegisterArchive, At
  <1>p. [req[h] EXCEPT !.pc = "create", !.archived = n] \in ReqRecord
    BY <1>1 DEF ReqRecord, Pc, Event, TransferStatus
  <1>q. PICK r \in ReqRecord : r = [req[h] EXCEPT !.pc = "create", !.archived = n]
    BY <1>p
  <1>r. /\ r.op = req[h].op /\ r.pc = "create"
       /\ r.of = req[h].of /\ r.archived = n
       /\ r.key = req[h].key /\ r.event = req[h].event
       /\ r.read = req[h].read /\ r.ts = req[h].ts
       /\ r.prev = req[h].prev /\ r.seen = req[h].seen
    BY <1>1, <1>q DEF ReqRecord
  <1>2. SetReq(h, r) /\ UNCHANGED <<challenge, transfer, log, status, rest>>
    BY <1>q DEF RegisterArchive
  <1>3. keys' = [i \in 1..n |-> Superseded(keys[i])]
    BY <1>1 DEF RegisterArchive
  <1>4. \A i \in 1..n : Superseded(keys[i]) \in KeyDocument /\ Superseded(keys[i]).status # "ACTIVE"
    BY <1>1 DEF KeyDocument, Superseded
  <1>5. keys' \in Seq(KeyDocument) /\ Len(keys') = n
    <2>1. keys' \in [1..n -> KeyDocument]
      BY <1>3, <1>4
    <2> QED
      BY <1>1, <2>1, FunctionIsSeq
  <1>6. \A i \in 1..n : keys'[i].status # "ACTIVE"
    BY <1>3, <1>4
  <1>7. KeysStay
    BY <1>1, <1>5, <1>6 DEF KeysStay
  <1>8. TwoActiveOnlyByOverlap'
    BY <1>5, <1>6 DEF TwoActiveOnlyByOverlap
  <1>9. ArchivedOK(r)'
    BY <1>1, <1>r, <1>5, <1>6 DEF ArchivedOK
  <1>10. HandlerOK(r)' /\ ~Job(r)
    BY <1>1, <1>r, <1>9 DEF HandlerOK, Job
  <1> QED
    BY <1>r, <1>2, <1>5, <1>7, <1>8, <1>10, KeysStep

\* The new key is created: an older one is ACTIVE only when it came after the
\* archive step of this registration.
LEMMA RegisterCreateKeeps ==
    ASSUME NodeInv, NEW h \in Handler, RegisterCreate(h)
    PROVE  NodeInv'
  <1> DEFINE n == Len(keys)
             a == req[h].archived
             k == [fingerprint |-> req[h].of, status |-> "ACTIVE", archived |-> a]
  <1>1. /\ req[h] \in ReqRecord /\ HandlerOK(req[h])
        /\ req[h].op = "register" /\ req[h].pc = "create"
        /\ n \in Nat /\ DOMAIN keys = 1..n /\ keys \in Seq(KeyDocument)
        /\ keys' = Append(keys, k)
    BY CallerIs, Types DEF RegisterCreate, At, NodeTypeOK
  <1>p. [req[h] EXCEPT !.pc = "log", !.event = "SIGNING_KEY_REGISTERED", !.archived = 0] \in ReqRecord
    BY <1>1 DEF ReqRecord, Pc, Event, TransferStatus
  <1>q. PICK r \in ReqRecord :
            r = [req[h] EXCEPT !.pc = "log", !.event = "SIGNING_KEY_REGISTERED", !.archived = 0]
    BY <1>p
  <1>r. /\ r.op = req[h].op /\ r.pc = "log"
       /\ r.of = req[h].of /\ r.archived = 0
       /\ r.key = req[h].key /\ r.event = "SIGNING_KEY_REGISTERED"
       /\ r.read = req[h].read /\ r.ts = req[h].ts
       /\ r.prev = req[h].prev /\ r.seen = req[h].seen
    BY <1>1, <1>q DEF ReqRecord
  <1>2. SetReq(h, r) /\ UNCHANGED <<challenge, transfer, log, status, rest>>
    BY <1>q DEF RegisterCreate
  <1>3. ArchivedOK(req[h]) /\ a \in Nat /\ k \in KeyDocument /\ k.archived = a
    BY <1>1 DEF HandlerOK, ReqRecord, KeyDocument
  <1> HIDE DEF k
  <1>4. /\ keys' \in Seq(KeyDocument) /\ Len(keys') = n + 1 /\ keys'[n + 1] = k
        /\ \A i \in 1..n : keys'[i] = keys[i]
    BY <1>1, <1>3, AppendProperties
  <1>5. KeysStay
    BY <1>1, <1>4 DEF KeysStay
  <1>6. TwoActiveOnlyByOverlap'
    <2> SUFFICES ASSUME NEW i \in 1..(n + 1), NEW j \in 1..(n + 1), i < j,
                        keys'[i].status = "ACTIVE", keys'[j].status = "ACTIVE"
                 PROVE  keys'[j].archived < i
      BY <1>4 DEF TwoActiveOnlyByOverlap
    <2>1. i \in 1..n
      BY <1>1
    <2>2. CASE j = n + 1
      <3>1. i \notin 1..a
        BY <1>3, <1>4, <2>1 DEF ArchivedOK
      <3>2. a < i
        BY <1>1, <1>3, <3>1
      <3> QED
        BY <1>3, <1>4, <2>2, <3>2
    <2>3. CASE j # n + 1
      <3>1. j \in 1..n
        BY <1>1, <2>3
      <3> QED
        BY <1>1, <1>4, <2>1, <3>1 DEF NodeInv, TwoActiveOnlyByOverlap
    <2> QED
      BY <2>2, <2>3
  <1>7. HandlerOK(r)' /\ ~Job(r)
    BY <1>1, <1>r DEF HandlerOK, Job
  <1> QED
    BY <1>r, <1>2, <1>4, <1>5, <1>6, <1>7, KeysStep

-----------------------------------------------------------------------------
\* The last chunk of an upload starts its job.
LEMMA UploadBeginKeeps ==
    ASSUME NodeInv, NEW h \in Handler, NEW u \in Upload, UploadBegin(h, u)
    PROVE  NodeInv'
  <1>1. /\ Idle \in ReqRecord /\ u \in Challenge /\ NodeTypeOK
        /\ u \notin sent /\ challenge[u] # "none" /\ sent' = sent \cup {u}
        /\ status' = [status EXCEPT ![u] = "processing"]
        /\ UNCHANGED <<challenge, keys, transfer, log, rejected, clock>>
    BY IdleIs, CallerIs DEF UploadBegin, SetStatus, documents, Challenge
  <1>p. [Idle EXCEPT !.op = "upload", !.pc = "key", !.of = u, !.read = "none"] \in ReqRecord
    BY <1>1 DEF ReqRecord, Pc, Event, TransferStatus
  <1>q. PICK r \in ReqRecord : r = [Idle EXCEPT !.op = "upload", !.pc = "key", !.of = u, !.read = "none"]
    BY <1>p
  <1>r. /\ r.op = "upload" /\ r.pc = "key"
       /\ r.of = u /\ r.archived = Idle.archived
       /\ r.key = Idle.key /\ r.event = Idle.event
       /\ r.read = "none" /\ r.ts = Idle.ts
       /\ r.prev = Idle.prev /\ r.seen = Idle.seen
    BY <1>1, <1>q DEF ReqRecord
  <1>2. SetReq(h, r)
    BY <1>q DEF UploadBegin, Start
  <1>3. /\ status' \in [Upload -> Status] /\ status'[u] = "processing"
        /\ \A v \in Upload : v # u => status'[v] = status[v]
    BY <1>1 DEF NodeTypeOK, Status
  <1>4. NodeTypeOK'
    BY <1>1, <1>2, <1>3, <1>r, OneRecord DEF NodeTypeOK
  <1>5. Stable
    BY <1>1, Unmoved DEF Stable
  <1>6. transfer[u].status = "none"
    BY <1>1 DEF NodeInv, NotSentOK
  <1>7. HandlerOK(r)' /\ (Job(r) => r.of \notin sent)
    BY <1>1, <1>3, <1>6, <1>r DEF HandlerOK, JobOK
  <1>8. \A e \in Handler \ {h} : Spares(req[e])
    <2> SUFFICES ASSUME NEW e \in Handler, req[e].op = "upload"
                 PROVE  req[e].of \in Upload /\ req[e].of # u
      BY <1>1, <1>3 DEF Spares
    <2> QED
      BY <1>1, CallerIs DEF HandlerOK
  <1>9. TwoActiveOnlyByOverlap' /\ LogOK' /\ NotSentOK' /\ SetsOwnStatus(h)
    BY <1>1, <1>3 DEF NodeInv, TwoActiveOnlyByOverlap, LogOK, Linked, NotSentOK, SetsOwnStatus, Over
  <1> QED
    BY <1>2, <1>4, <1>5, <1>7, <1>8, <1>9, <1>r, HandlerStepKeeps

\* No other handler is the job of the upload.
OnlyJob(h, u) == \A e \in Handler \ {h} : req[e].op = "upload" => req[e].of # u

\* A step that changes the transfer the handler works on.
LEMMA TransferStep ==
    ASSUME NodeInv, NEW h \in Handler, NEW r \in ReqRecord, SetReq(h, r),
           NEW u \in Upload, NEW t \in TransferDocument,
           transfer' = [transfer EXCEPT ![u] = t],
           transfer[u].status # "none" => t.status # "none",
           transfer[u].status = "encrypted" => t.status = "encrypted",
           t.status = "none" \/ u \in sent,
           transfer[u].status = "none" => t.status = "none" \/ OnlyJob(h, u),
           UNCHANGED <<challenge, keys, log, status, rest>>, HandlerOK(r)',
           Job(r) => Job(req[h]) /\ r.of = req[h].of
    PROVE  NodeInv'
  <1>1. NodeTypeOK /\ UNCHANGED <<sent, rejected, clock>>
    BY DEF NodeInv, rest
  <1>2. /\ transfer' \in [Upload -> TransferDocument] /\ transfer'[u] = t
        /\ \A v \in Upload : v # u => transfer'[v] = transfer[v]
    BY <1>1 DEF NodeTypeOK
  <1>3. NodeTypeOK'
    BY <1>1, <1>2, OneRecord DEF NodeTypeOK
  <1>4. Stable
    BY <1>1, <1>2, Unmoved DEF Stable, TransfersStay
  <1>5. \A e \in Handler \ {h} : Spares(req[e])
    <2> SUFFICES ASSUME NEW e \in Handler \ {h}, req[e].op = "upload" PROVE Spares(req[e])
      BY DEF Spares
    <2>1. req[e].of \in Upload
      BY CallerIs DEF HandlerOK
    <2> QED
      BY <1>2, <2>1 DEF Spares, OnlyJob
  <1>6. TwoActiveOnlyByOverlap' /\ LogOK' /\ SetsOwnStatus(h)
    BY <1>1 DEF NodeInv, TwoActiveOnlyByOverlap, LogOK, Linked, SetsOwnStatus
  <1>7. NotSentOK'
    BY <1>1, <1>2 DEF NodeInv, NotSentOK
  <1> QED
    BY <1>3, <1>4, <1>5, <1>6, <1>7, HandlerStepKeeps

\* The transfer of an upload is created by its only job.
LEMMA UploadCreateKeeps ==
    ASSUME NodeInv, NEW h \in Handler, UploadCreate(h)
    PROVE  NodeInv'
  <1>0. /\ req[h] \in ReqRecord /\ HandlerOK(req[h]) /\ NodeTypeOK
        /\ req[h].op = "upload" /\ req[h].pc = "create" /\ req[h].of \in Upload
    BY CallerIs DEF UploadCreate, At, HandlerOK
  <1>u. PICK u \in Upload : u = req[h].of
    BY <1>0
  <1>s. PICK s \in {"quarantined", "encrypted"} :
            s = IF Quarantined(req[h]) THEN "quarantined" ELSE "encrypted"
    OBVIOUS
  <1>v. [transfer[u] EXCEPT !.status = s] \in TransferDocument
    <2>1. transfer[u] \in TransferDocument
      BY <1>0 DEF NodeTypeOK
    <2> QED
      BY <2>1 DEF TransferDocument, TransferStatus
  <1>t. PICK t \in TransferDocument : t = [transfer[u] EXCEPT !.status = s]
    BY <1>v
  <1>p. [req[h] EXCEPT !.pc = "log"] \in ReqRecord
    BY <1>0 DEF ReqRecord, Pc, Event, TransferStatus
  <1>q. PICK r \in ReqRecord : r = [req[h] EXCEPT !.pc = "log"]
    BY <1>p
  <1>r. /\ r.op = req[h].op /\ r.pc = "log"
       /\ r.of = req[h].of /\ r.archived = req[h].archived
       /\ r.key = req[h].key /\ r.event = req[h].event
       /\ r.read = req[h].read /\ r.ts = req[h].ts
       /\ r.prev = req[h].prev /\ r.seen = req[h].seen
    BY <1>0, <1>q DEF ReqRecord
  <1>1. /\ SetReq(h, r) /\ transfer' = [transfer EXCEPT ![u] = t]
        /\ UNCHANGED <<challenge, keys, log, status, rest>>
    BY <1>q, <1>u, <1>s, <1>t DEF UploadCreate, Goto
  <1>2. t.status = s
    <2>1. transfer[u] \in TransferDocument
      BY <1>0 DEF NodeTypeOK
    <2> QED
      BY <1>t, <2>1 DEF TransferDocument, TransferStatus
  <1>3. JobOK(req[h]) /\ u \in sent /\ transfer[u].status = "none"
    BY <1>0, <1>u DEF HandlerOK, JobOK
  <1>4. OnlyJob(h, u)
    BY <1>0, <1>u DEF NodeInv, OneJob, Job, OnlyJob
  <1>5. transfer'[u] = t
    BY <1>0, <1>1 DEF NodeTypeOK
  <1>6. HandlerOK(r)'
    <2>1. r.event = "FILE_TRANSFER" => s = "encrypted"
      BY <1>r, <1>s DEF Quarantined
    <2> QED
      BY <1>0, <1>1, <1>2, <1>3, <1>5, <1>r, <1>u, <2>1 DEF HandlerOK, JobOK, rest
  <1>7. Job(r) => Job(req[h]) /\ r.of = req[h].of
    BY <1>r DEF Job
  <1>8. transfer[u].status # "none" => t.status # "none"
    BY <1>3
  <1>a. transfer[u].status = "encrypted" => t.status = "encrypted"
    BY <1>3
  <1>b. t.status = "none" \/ u \in sent
    BY <1>3
  <1> QED
    BY <1>1, <1>4, <1>6, <1>7, <1>8, <1>a, <1>b, TransferStep

\* A link is saved; nothing else of the document is.
LEMMA ShareSaveKeeps ==
    ASSUME NodeInv, NEW h \in Handler, ShareSave(h)
    PROVE  NodeInv'
  <1>0. /\ NodeTypeOK /\ req[h].op = "share" /\ req[h].of \in Upload
        /\ Idle \in ReqRecord /\ Idle.op = "none" /\ Idle.pc = "idle"
    BY CallerIs, IdleIs DEF ShareSave, At, HandlerOK
  <1>r. PICK r \in ReqRecord : r = Idle
    BY <1>0
  <1>u. PICK u \in Upload : u = req[h].of
    BY <1>0
  <1>v. [transfer[u] EXCEPT !.token = @ + 1] \in TransferDocument
    <2>1. transfer[u] \in TransferDocument
      BY <1>0 DEF NodeTypeOK
    <2> QED
      BY <2>1 DEF TransferDocument, TransferStatus
  <1>t. PICK t \in TransferDocument : t = [transfer[u] EXCEPT !.token = @ + 1]
    BY <1>v
  <1>1. /\ SetReq(h, r) /\ transfer' = [transfer EXCEPT ![u] = t]
        /\ UNCHANGED <<challenge, keys, log, status, rest>>
    BY <1>r, <1>u, <1>t DEF ShareSave, Reply
  <1>2. t.status = transfer[u].status
    <2>1. transfer[u] \in TransferDocument
      BY <1>0 DEF NodeTypeOK
    <2> QED
      BY <1>t, <2>1 DEF TransferDocument
  <1>3. t.status = "none" \/ u \in sent
    BY <1>2 DEF NodeInv, NotSentOK
  <1>4. HandlerOK(r)' /\ ~Job(r)
    BY <1>0, <1>r DEF HandlerOK, Job
  <1>5. /\ transfer[u].status # "none" => t.status # "none"
        /\ transfer[u].status = "encrypted" => t.status = "encrypted"
        /\ transfer[u].status = "none" => t.status = "none"
    BY <1>2
  <1>6. Job(r) => Job(req[h]) /\ r.of = req[h].of
    BY <1>4
  <1> QED
    BY <1>1, <1>3, <1>4, <1>5, <1>6, TransferStep

LEMMA ReleaseSaveKeeps ==
    ASSUME NodeInv, NEW h \in Handler, ReleaseSave(h)
    PROVE  NodeInv'
  <1>0. /\ NodeTypeOK /\ req[h] \in ReqRecord /\ HandlerOK(req[h])
        /\ req[h].op = "release" /\ req[h].of \in Upload
    BY CallerIs DEF ReleaseSave, At, HandlerOK
  <1>u. PICK u \in Upload : u = req[h].of
    BY <1>0
  <1>v. [transfer[u] EXCEPT !.status = "encrypted"] \in TransferDocument
    <2>1. transfer[u] \in TransferDocument
      BY <1>0 DEF NodeTypeOK
    <2> QED
      BY <2>1 DEF TransferDocument, TransferStatus
  <1>t. PICK t \in TransferDocument : t = [transfer[u] EXCEPT !.status = "encrypted"]
    BY <1>v
  <1>p. [req[h] EXCEPT !.pc = "log", !.event = "QUARANTINE_RELEASED"] \in ReqRecord
    BY <1>0 DEF ReqRecord, Pc, Event, TransferStatus
  <1>q. PICK r \in ReqRecord : r = [req[h] EXCEPT !.pc = "log", !.event = "QUARANTINE_RELEASED"]
    BY <1>p
  <1>r. /\ r.op = req[h].op /\ r.pc = "log"
       /\ r.of = req[h].of /\ r.archived = req[h].archived
       /\ r.key = req[h].key /\ r.event = "QUARANTINE_RELEASED"
       /\ r.read = req[h].read /\ r.ts = req[h].ts
       /\ r.prev = req[h].prev /\ r.seen = req[h].seen
    BY <1>0, <1>q DEF ReqRecord
  <1>1. /\ SetReq(h, r) /\ transfer' = [transfer EXCEPT ![u] = t]
        /\ UNCHANGED <<challenge, keys, log, status, rest>>
    BY <1>q, <1>u, <1>t DEF ReleaseSave
  <1>2. t.status = "encrypted"
    <2>1. transfer[u] \in TransferDocument
      BY <1>0 DEF NodeTypeOK
    <2> QED
      BY <1>t, <2>1 DEF TransferDocument, TransferStatus
  <1>3. transfer[u].status # "none" /\ u \in sent
    BY <1>0, <1>u DEF HandlerOK, NodeInv, NotSentOK
  <1>4. transfer'[u] = t
    BY <1>0, <1>1 DEF NodeTypeOK
  <1>5. HandlerOK(r)' /\ ~Job(r)
    BY <1>0, <1>2, <1>4, <1>r, <1>u DEF HandlerOK, Job
  <1> QED
    BY <1>1, <1>2, <1>3, <1>5, <1>r, TransferStep

-----------------------------------------------------------------------------
\* A step of nobody's handler: it is the step of any handler that stays.
LEMMA OutsideStep ==
    ASSUME NodeInv, NodeTypeOK', Stable, UNCHANGED <<keys, transfer, log, status, req, sent>>
    PROVE  NodeInv'
  <1>1. PICK h \in Handler : TRUE
    BY NodeAssumption
  <1>2. req[h] \in ReqRecord /\ HandlerOK(req[h]) /\ NodeTypeOK
    BY CallerIs
  <1>r. PICK r \in ReqRecord : r = req[h]
    BY <1>2
  <1>3. SetReq(h, r)
    BY <1>2, <1>r DEF SetReq, NodeTypeOK
  <1>4. \A e \in Handler : Spares(req[e])
    BY DEF Spares
  <1>5. HandlerOK(r)'
    BY <1>2, <1>4, <1>r, OtherHandler
  <1>6. TwoActiveOnlyByOverlap' /\ NotSentOK' /\ SetsOwnStatus(h)
    BY DEF NodeInv, TwoActiveOnlyByOverlap, NotSentOK, SetsOwnStatus
  <1>7. LogOK'
    <2> SUFFICES ASSUME NEW j \in 1..Len(log) PROVE Linked(log[j], j - 1)'
      BY DEF LogOK
    <2> QED
      BY <1>2, LogOKStays DEF NodeInv, Stable
  <1> QED
    BY <1>3, <1>4, <1>5, <1>6, <1>7, <1>r, HandlerStepKeeps

\* Challenges are issued and expire, time passes, nothing happens.
LEMMA OutsideKeeps ==
    ASSUME NodeInv,
           (\E c \in Challenge : IssueChallenge(c) \/ ExpireChallenge(c)) \/ Tick \/ UNCHANGED vars
    PROVE  NodeInv'
  <1>1. NodeTypeOK /\ MaxClock \in Nat
    BY NodeAssumption DEF NodeInv
  <1>2. UNCHANGED <<keys, transfer, log, status, req, sent, rejected>>
    BY DEF IssueChallenge, ExpireChallenge, Tick, vars, documents, rest
  <1>3. challenge' \in [Challenge -> {"none", "open", "consumed", "gone"}] /\ ChallengesStay
    BY <1>1 DEF IssueChallenge, ExpireChallenge, Tick, vars, documents, NodeTypeOK,
                ChallengesStay, Used
  <1>4. clock' \in 0..MaxClock /\ clock <= clock'
    BY <1>1 DEF IssueChallenge, ExpireChallenge, Tick, vars, rest, NodeTypeOK
  <1>5. NodeTypeOK'
    BY <1>1, <1>2, <1>3, <1>4 DEF NodeTypeOK
  <1>6. Stable
    <2>1. KeysStay /\ TransfersStay
      BY <1>1, <1>2, Unmoved
    <2>2. LogStays
      BY <1>1, <1>2, <1>4, Types DEF LogStays
    <2> QED
      BY <1>2, <1>3, <2>1, <2>2 DEF Stable
  <1> QED
    BY <1>2, <1>5, <1>6, OutsideStep

\* The process restarts.
LEMMA RestartKeeps ==
    ASSUME NodeInv, Restart
    PROVE  NodeInv'
  <1>1. /\ NodeTypeOK /\ UNCHANGED <<challenge, keys, transfer, log, sent, rejected, clock>>
        /\ req' = [h \in Handler |-> Idle] /\ status' = [u \in Upload |-> "none"]
        /\ Idle \in ReqRecord /\ Idle.op = "none" /\ Idle.pc = "idle"
    BY IdleIs DEF NodeInv, Restart, documents
  <1>2. NodeTypeOK'
    BY <1>1 DEF NodeTypeOK, Status
  <1>3. \A h \in Handler : req'[h].op = "none" /\ req'[h].pc = "idle"
    BY <1>1
  <1>4. HandlersOK' /\ OneJob'
    BY <1>3 DEF HandlersOK, HandlerOK, OneJob, Job
  <1>5. TwoActiveOnlyByOverlap' /\ LogOK' /\ NotSentOK'
    BY <1>1 DEF NodeInv, TwoActiveOnlyByOverlap, LogOK, Linked, NotSentOK
  <1>6. OverOK'
    BY <1>1 DEF OverOK, Over
  <1> QED
    BY <1>2, <1>4, <1>5, <1>6 DEF NodeInv

LEMMA InitEstablishes == Init => NodeInv
  <1> SUFFICES ASSUME Init PROVE NodeInv
    OBVIOUS
  <1>1. /\ Idle \in ReqRecord /\ Idle.op = "none" /\ Idle.pc = "idle"
        /\ challenge = [c \in Challenge |-> "none"] /\ keys = <<>> /\ log = <<>>
        /\ transfer = [u \in Upload |-> NoTransfer] /\ status = [u \in Upload |-> "none"]
        /\ req = [h \in Handler |-> Idle] /\ sent = {} /\ rejected = {} /\ clock = 0
    BY IdleIs DEF Init
  <1>2. NoTransfer \in TransferDocument /\ NoTransfer.status = "none" /\ 0 \in 0..MaxClock
    BY NodeAssumption DEF NoTransfer, TransferDocument, TransferStatus
  <1>3. NodeTypeOK
    BY <1>1, <1>2 DEF NodeTypeOK, Status
  <1>4. \A h \in Handler : req[h].op = "none" /\ req[h].pc = "idle"
    BY <1>1
  <1>5. HandlersOK /\ OneJob
    BY <1>4 DEF HandlersOK, HandlerOK, OneJob, Job
  <1>6. TwoActiveOnlyByOverlap /\ LogOK /\ NotSentOK /\ OverOK
    BY <1>1, <1>2 DEF TwoActiveOnlyByOverlap, LogOK, NotSentOK, OverOK, Over
  <1> QED
    BY <1>3, <1>5, <1>6 DEF NodeInv

\* Every step of a handler.
LEMMA HandlerKeeps ==
    ASSUME NodeInv, NEW h \in Handler, HandlerStep(h)
    PROVE  NodeInv'
  <1>1. CASE ReadLog(h)
    BY <1>1, ReadLogKeeps
  <1>2. CASE RegisterConsume(h) \/ RegisterArchive(h) \/ RegisterCreate(h)
    BY <1>2, RegisterConsumeKeeps, RegisterArchiveKeeps, RegisterCreateKeeps
  <1>3. CASE RegisterRefused(h)
    BY <1>3, ReplyKeeps, CallerIs DEF RegisterRefused, rest
  <1>4. CASE RegisterReply(h) \/ ReleaseReply(h) \/ RefusedAlert(h)
    BY <1>4, LoggedReplyKeeps
  <1>5. CASE UploadKey(h) \/ UploadEngine(h) \/ UploadNonce(h) \/ UploadCreate(h) \/ UploadReply(h)
    BY <1>5, UploadKeyKeeps, UploadEngineKeeps, UploadNonceKeeps, UploadCreateKeeps, UploadReplyKeeps
  <1>6. CASE RefusedReply(h)
    BY <1>6, ErrorStep DEF RefusedReply, At, Job
  <1>7. CASE ShareSave(h) \/ ReleaseSave(h)
    BY <1>7, ShareSaveKeeps, ReleaseSaveKeeps
  <1> QED
    BY <1>1, <1>2, <1>3, <1>4, <1>5, <1>6, <1>7 DEF HandlerStep

LEMMA NextKeeps == NodeInv /\ [Next]_vars => NodeInv'
  <1> SUFFICES ASSUME NodeInv, [Next]_vars PROVE NodeInv'
    OBVIOUS
  <1>1. CASE (\E c \in Challenge : IssueChallenge(c) \/ ExpireChallenge(c)) \/ Tick \/ UNCHANGED vars
    BY <1>1, OutsideKeeps
  <1>2. ASSUME NEW h \in Handler, NEW c \in Registration, RegisterBegin(h, c)
        PROVE  NodeInv'
    <2>1. c \in Challenge /\ Start(h, "register", "consume", c, "none")
          /\ UNCHANGED <<documents, log, status, rest>>
      BY <1>2 DEF RegisterBegin, Challenge
    <2> QED
      BY <2>1, StartKeeps DEF TransferStatus
  <1>3. ASSUME NEW h \in Handler, NEW u \in Upload, UploadBegin(h, u)
        PROVE  NodeInv'
    BY <1>3, UploadBeginKeeps
  <1>4. ASSUME NEW h \in Handler, NEW u \in Upload, ShareBegin(h, u) \/ ReleaseBegin(h, u)
        PROVE  NodeInv'
    <2>1. /\ u \in Challenge /\ transfer[u].status \in TransferStatus
          /\ UNCHANGED <<documents, log, status, rest>>
      BY <1>4 DEF ShareBegin, ReleaseBegin, Challenge, NodeInv, NodeTypeOK, TransferDocument
    <2>2. CASE Start(h, "share", "save", u, transfer[u].status)
      BY <2>1, <2>2, StartKeeps
    <2>3. CASE Start(h, "release", "save", u, transfer[u].status)
               /\ transfer[u].status = "quarantined"
      BY <2>1, <2>3, StartKeeps
    <2> QED
      BY <1>4, <2>2, <2>3 DEF ShareBegin, ReleaseBegin
  <1>5. ASSUME NEW h \in Handler, HandlerStep(h) \/ DatabaseFails(h)
        PROVE  NodeInv'
    BY <1>5, HandlerKeeps, DatabaseFailsKeeps
  <1>6. CASE Restart
    BY <1>6, RestartKeeps
  <1> QED
    BY <1>1, <1>2, <1>3, <1>4, <1>5, <1>6 DEF Next

LEMMA NodeInvariant == Spec => []NodeInv
  BY InitEstablishes, NextKeeps, PTL DEF Spec

-----------------------------------------------------------------------------
\* Types of the documents and of the handlers of the Node backend.
THEOREM NodeTypesHold == Spec => []NodeTypeOK
  <1>1. NodeInv => NodeTypeOK
    BY DEF NodeInv
  <1> QED
    BY <1>1, NodeInvariant, PTL

\* registerKey leaves two ACTIVE keys only when a registration was past its
\* archive step before the other created its key.
THEOREM OverlapExplainsTwoActive == Spec => []TwoActiveOnlyByOverlap
  <1>1. NodeInv => TwoActiveOnlyByOverlap
    BY DEF NodeInv
  <1> QED
    BY <1>1, NodeInvariant, PTL

\* appendToBlockchain forks the log only when two of its calls overlap, or
\* when entries of one millisecond hide one another.
THEOREM OverlapOrTieExplainsForks == Spec => []LogForksOnlyByOverlapOrTie
  <1>1. NodeInv => LogForksOnlyByOverlapOrTie
    <2> SUFFICES ASSUME NodeInv PROVE LogForksOnlyByOverlapOrTie
      OBVIOUS
    <2>1. /\ Len(log) \in Nat /\ DOMAIN log = 1..Len(log)
          /\ \A i \in 1..Len(log) : Linked(log[i], i - 1) /\ log[i] \in LogDocument
      BY Types DEF NodeInv, LogOK
    <2>2. \A i \in 1..Len(log) : log[i].ts \in Nat /\ log[i].prev \in Nat /\ log[i].seen \in Nat
      BY <2>1, NodeAssumption DEF LogDocument
    <2>3. \A i \in 1..Len(log) : log[i].prev # 0 =>
             log[i].prev \in 1..Len(log) /\ log[log[i].prev].ts <= log[i].ts
      BY <2>1, <2>2 DEF Linked
    <2>4. ASSUME NEW i \in 1..Len(log), NEW j \in 1..Len(log),
                 log[i].prev = log[j].prev, ~(log[j].seen < i)
          PROVE  log[i].prev # 0 /\ log[i].ts = log[log[i].prev].ts
      <3>1. i \in 1..log[j].seen
        BY <2>1, <2>2, <2>4
      <3>2. log[j].prev # 0 /\ log[i].ts <= log[log[j].prev].ts
        BY <2>1, <3>1 DEF Linked
      <3>3. log[i].prev # 0 /\ log[i].prev \in 1..Len(log) /\ log[log[i].prev].ts <= log[i].ts
        BY <2>3, <2>4, <3>2
      <3> QED
        BY <2>2, <2>4, <3>2, <3>3
    <2> QED
      BY <2>1, <2>3, <2>4 DEF LogForksOnlyByOverlapOrTie
  <1> QED
    BY <1>1, NodeInvariant, PTL

\* What uploadStatus reports as over is recorded: the transfer, its entry and
\* its challenge.
THEOREM OverIsRecorded == Spec => []CompletedIsRecorded
  <1>1. NodeInv => CompletedIsRecorded
    <2> SUFFICES ASSUME NodeInv, NEW u \in Upload, status[u] \in Over
                 PROVE  /\ transfer[u] # NoTransfer
                        /\ status[u] = "completed" => transfer[u].status = "encrypted"
                        /\ challenge[u] # "open"
                        /\ \E i \in DOMAIN log : log[i].of = u
                              /\ log[i].event = IF status[u] = "completed" THEN "FILE_TRANSFER"
                                                ELSE "TRANSFER_QUARANTINED"
      BY DEF CompletedIsRecorded, Over
    <2>1. Recorded(u, status[u]) /\ DOMAIN log = 1..Len(log)
      BY Types DEF NodeInv, OverOK
    <2> QED
      BY <2>1 DEF Recorded, NoTransfer
  <1> QED
    BY <1>1, NodeInvariant, PTL

\* No handler takes a release back: only the job of an upload, releases and
\* shares write a transfer, and the job finds none.
LEMMA ReleasedStays ==
    ASSUME NodeInv, [Next]_vars, NEW u \in Upload, transfer[u].status = "encrypted"
    PROVE  transfer'[u].status = "encrypted"
  <1>1. transfer \in [Upload -> TransferDocument]
    BY DEF NodeInv, NodeTypeOK
  <1>2. CASE UNCHANGED transfer
    BY <1>2
  <1>3. ASSUME NEW h \in Handler, UploadCreate(h) PROVE transfer'[u] = transfer[u]
    <2>1. req[h].of # u
      BY <1>3, CallerIs DEF UploadCreate, At, HandlerOK, JobOK
    <2> QED
      BY <1>1, <1>3, <2>1 DEF UploadCreate
  <1>4. ASSUME NEW h \in Handler, ShareSave(h) \/ ReleaseSave(h)
        PROVE  transfer'[u].status = "encrypted"
    BY <1>1, <1>4 DEF ShareSave, ReleaseSave, TransferDocument
  <1>5. ASSUME ~UNCHANGED transfer
        PROVE  \E h \in Handler : UploadCreate(h) \/ ShareSave(h) \/ ReleaseSave(h)
    <2>1. PICK h \in Handler : HandlerStep(h)
      BY <1>5 DEF Next, vars, documents, IssueChallenge, ExpireChallenge, RegisterBegin,
                  UploadBegin, ShareBegin, ReleaseBegin, DatabaseFails, Restart, Tick
    <2> QED
      BY <1>5, <2>1 DEF HandlerStep, documents, ReadLog, RegisterConsume, RegisterArchive,
           RegisterCreate, RegisterRefused, RegisterReply, UploadKey, UploadEngine,
           UploadNonce, UploadReply, RefusedAlert, RefusedReply, ReleaseReply
  <1> QED
    BY <1>2, <1>3, <1>4, <1>5

\* A released transfer, or one never quarantined, stays so whatever the
\* handlers have read before.
THEOREM ReleasesAreFinal == Spec => ReleaseIsFinal
  <1>1. NodeInv /\ [Next]_vars =>
          [\A u \in Upload : transfer[u].status = "encrypted" => transfer'[u].status = "encrypted"]_vars
    BY ReleasedStays
  <1> QED
    BY <1>1, NodeInvariant, PTL DEF Spec, ReleaseIsFinal

-----------------------------------------------------------------------------
(***************************************************************************)
(* NodeBackend implements UploadAnswers.                                   *)
(***************************************************************************)
NoAnswer == UNCHANGED <<sent, Running, Stored, Answer>>

\* The mapping at one upload.
LEMMA MappedUpload ==
    ASSUME NodeInv, NEW u \in Upload
    PROVE  /\ Stored[u] = transfer[u].status
           /\ Running \subseteq Upload
           /\ u \in Running <=> \E h \in Handler : Job(req[h]) /\ req[h].of = u
  BY DEF Stored, Running, Job

\* The jobs after a step of h that leaves r of it.
LEMMA RunningAfter ==
    ASSUME NodeInv, NEW h \in Handler, NEW r, SetReq(h, r)
    PROVE  /\ (Job(r) <=> Job(req[h])) /\ r.of = req[h].of => Running' = Running
           /\ ~Job(r) /\ ~Job(req[h]) => Running' = Running
           /\ ~Job(r) /\ Job(req[h]) => Running' = Running \ {req[h].of}
           /\ Job(r) /\ ~Job(req[h]) /\ r.of \in Upload => Running' = Running \cup {r.of}
  <1>1. /\ req'[h] = r
        /\ \A e \in Handler \ {h} : req'[e] = req[e]
    BY DEF SetReq, NodeInv, NodeTypeOK
  <1>2. /\ Running = {u \in Upload : \E e \in Handler : Job(req[e]) /\ req[e].of = u}
        /\ Running' = {u \in Upload : \E e \in Handler : Job(req'[e]) /\ req'[e].of = u}
    BY DEF Running, Job
  <1>3. \A e \in Handler \ {h} : Job(req[e]) /\ Job(req[h]) => req[e].of # req[h].of
    BY DEF NodeInv, OneJob
  <1> QED
    BY <1>1, <1>2, <1>3

\* One transfer or one status is written.
LEMMA StoredAfter ==
    ASSUME NodeInv, NEW u \in Upload, NEW s, transfer' = [transfer EXCEPT ![u].status = s]
    PROVE  Stored' = [Stored EXCEPT ![u] = s]
  <1>1. transfer \in [Upload -> TransferDocument]
    BY DEF NodeInv, NodeTypeOK
  <1>2. /\ transfer'[u].status = s
        /\ \A v \in Upload : v # u => transfer'[v] = transfer[v]
    BY <1>1 DEF TransferDocument
  <1>3. \A v \in Upload : transfer'[v].status = IF v = u THEN s ELSE transfer[v].status
    BY <1>2
  <1>4. [Stored EXCEPT ![u] = s] = [v \in Upload |-> IF v = u THEN s ELSE transfer[v].status]
    BY DEF Stored
  <1> QED
    BY <1>3, <1>4 DEF Stored

LEMMA AnswerAfter ==
    ASSUME NodeInv, NEW u \in Upload, NEW a, a # "none", SetStatus(u, a)
    PROVE  Answer' = [Answer EXCEPT ![u] = a]
  BY DEF NodeInv, NodeTypeOK, SetStatus, Answer

\* A handler moves on, and the job it is, if it is one, remains.
LEMMA JobStays ==
    ASSUME NodeInv, NEW h \in Handler, NEW r, SetReq(h, r),
           UNCHANGED <<sent, transfer, status>>,
           \/ (Job(r) <=> Job(req[h])) /\ r.of = req[h].of
           \/ ~Job(r) /\ ~Job(req[h])
    PROVE  NoAnswer
  BY RunningAfter DEF NoAnswer, Stored, Answer

\* The job h ends with the answer a.
LEMMA JobEnds ==
    ASSUME NodeInv, NEW h \in Handler, Job(req[h]), Reply(h), UNCHANGED <<sent, transfer>>,
           NEW a \in {"completed", "quarantined", "error"}, SetStatus(req[h].of, a),
           Answers!Justified(req[h].of, a)
    PROVE  Answers!Finish(req[h].of, a)
  <1> DEFINE u == req[h].of
  <1>1. u \in Upload /\ SetReq(h, Idle) /\ ~Job(Idle)
    BY CallerIs, IdleIs DEF HandlerOK, Job, Reply
  <1>2. Running' = Running \ {u} /\ u \in Running
    BY <1>1, RunningAfter, MappedUpload
  <1>3. Answer' = [Answer EXCEPT ![u] = a] /\ Stored' = Stored
    BY <1>1, AnswerAfter DEF Stored
  <1> QED
    BY <1>2, <1>3 DEF Answers!Finish

-----------------------------------------------------------------------------
\* Steps that begin or continue a request without an effect on an upload.
LEMMA BeginsNoAnswer ==
    ASSUME NodeInv, NEW h \in Handler, NEW op \in {"register", "share", "release"}, NEW pc, NEW c,
           NEW read, Start(h, op, pc, c, read), UNCHANGED <<documents, status, sent>>
    PROVE  NoAnswer
  <1> DEFINE r == [Idle EXCEPT !.op = op, !.pc = pc, !.of = c, !.read = read]
  <1>1. ~Job(r) /\ ~Job(req[h]) /\ SetReq(h, r)
    BY IdleIs DEF Start, Job, Idle
  <1> HIDE DEF r
  <1> QED
    BY <1>1, JobStays DEF documents

LEMMA RegistersNoAnswer ==
    ASSUME NodeInv, NEW h \in Handler,
           \/ RegisterConsume(h) \/ RegisterArchive(h) \/ RegisterCreate(h)
           \/ RegisterRefused(h) \/ RegisterReply(h)
    PROVE  NoAnswer
  <1>1. req[h] \in ReqRecord /\ ~Job(req[h]) /\ UNCHANGED <<sent, transfer, status>>
    BY CallerIs DEF RegisterConsume, RegisterArchive, RegisterCreate, RegisterRefused,
                    RegisterReply, At, Job, documents, rest
  <1>2. \E r : SetReq(h, r) /\ ~Job(r)
    <2>1. CASE RegisterRefused(h) \/ RegisterReply(h)
      BY <2>1, IdleIs DEF RegisterRefused, RegisterReply, Reply
    <2>2. CASE RegisterConsume(h)
      <3>1. ~Job([req[h] EXCEPT !.pc = "archive"])
        BY <1>1 DEF Job, ReqRecord
      <3> QED
        BY <2>2, <3>1 DEF RegisterConsume, Goto
    <2>3. CASE RegisterArchive(h)
      <3>1. ~Job([req[h] EXCEPT !.pc = "create", !.archived = Len(keys)])
        BY <1>1 DEF Job, ReqRecord
      <3> QED
        BY <2>3, <3>1 DEF RegisterArchive
    <2>4. CASE RegisterCreate(h)
      <3>1. ~Job([req[h] EXCEPT !.pc = "log", !.event = "SIGNING_KEY_REGISTERED", !.archived = 0])
        BY <1>1 DEF Job, ReqRecord
      <3> QED
        BY <2>4, <3>1 DEF RegisterCreate
    <2> QED
      BY <2>1, <2>2, <2>3, <2>4
  <1> QED
    BY <1>1, <1>2, JobStays

\* Steps of a job, or of a caller of appendToBlockchain, between its ends.
LEMMA WaitsNoAnswer ==
    ASSUME NodeInv, NEW h \in Handler,
           ReadLog(h) \/ UploadKey(h) \/ UploadNonce(h) \/ RefusedAlert(h)
    PROVE  NoAnswer
  <1>1. req[h] \in ReqRecord /\ UNCHANGED <<sent, transfer, status>>
    BY CallerIs DEF ReadLog, UploadKey, UploadNonce, RefusedAlert, documents, rest
  <1>2. \E r : SetReq(h, r) /\ r.of = req[h].of /\ (Job(r) <=> Job(req[h]))
    <2> DEFINE Same(r) == r.of = req[h].of /\ (Job(r) <=> Job(req[h]))
    <2>1. CASE ReadLog(h)
      <3>1. PICK i : SetReq(h, [req[h] EXCEPT !.pc = "logged", !.prev = i, !.ts = clock,
                                              !.seen = Len(log)])
        BY <2>1 DEF ReadLog
      <3>2. Same([req[h] EXCEPT !.pc = "logged", !.prev = i, !.ts = clock, !.seen = Len(log)])
        BY <1>1 DEF Job, ReqRecord
      <3> QED
        BY <3>1, <3>2
    <2>2. CASE UploadKey(h)
      <3>1. PICK i : SetReq(h, [req[h] EXCEPT !.pc = "engine", !.key = i])
        BY <2>2 DEF UploadKey
      <3>2. Same([req[h] EXCEPT !.pc = "engine", !.key = i])
        BY <1>1 DEF Job, ReqRecord
      <3> QED
        BY <3>1, <3>2
    <2>3. CASE UploadNonce(h)
      <3>1. Same([req[h] EXCEPT !.pc = "create"])
        BY <1>1 DEF Job, ReqRecord
      <3> QED
        BY <2>3, <3>1 DEF UploadNonce, Goto
    <2>4. CASE RefusedAlert(h)
      <3>1. Same([Idle EXCEPT !.op = "refused", !.pc = "alert", !.of = req[h].of])
        BY <2>4 DEF Job, Idle, RefusedAlert, At
      <3> QED
        BY <2>4, <3>1 DEF RefusedAlert
    <2> QED
      BY <2>1, <2>2, <2>3, <2>4
  <1> QED
    BY <1>1, <1>2, JobStays

-----------------------------------------------------------------------------
\* The steps that UploadAnswers sees.
LEMMA BeginIsSubmit ==
    ASSUME NodeInv, NEW h \in Handler, NEW u \in Upload, UploadBegin(h, u)
    PROVE  Answers!Submit(u)
  <1> DEFINE r == [Idle EXCEPT !.op = "upload", !.pc = "key", !.of = u, !.read = "none"]
  <1>1. /\ Job(r) /\ r.of = u /\ ~Job(req[h]) /\ SetReq(h, r)
        /\ u \notin sent /\ sent' = sent \cup {u} /\ UNCHANGED transfer
        /\ SetStatus(u, "processing")
    BY IdleIs DEF UploadBegin, Start, Job, Idle, documents
  <1> HIDE DEF r
  <1>2. Running' = Running \cup {u}
    BY <1>1, RunningAfter
  <1>3. Answer' = [Answer EXCEPT ![u] = "processing"] /\ Stored' = Stored
    BY <1>1, AnswerAfter DEF Stored
  <1> QED
    BY <1>1, <1>2, <1>3 DEF Answers!Submit

\* The engine answers with a package, refuses, or fails.
LEMMA EngineMapped ==
    ASSUME NodeInv, NEW h \in Handler, UploadEngine(h)
    PROVE  NoAnswer \/ Answers!Finish(req[h].of, "error")
  <1>1. req[h] \in ReqRecord /\ Job(req[h]) /\ UNCHANGED <<sent, transfer>>
    BY CallerIs DEF UploadEngine, At, Job, documents, rest
  <1>2. ASSUME NEW e, SetReq(h, [req[h] EXCEPT !.pc = "nonce", !.event = e, !.key = 0]),
               UNCHANGED status
        PROVE  NoAnswer
    <2> DEFINE r == [req[h] EXCEPT !.pc = "nonce", !.event = e, !.key = 0]
    <2>1. Job(r) /\ r.of = req[h].of
      BY <1>1 DEF Job, ReqRecord
    <2> HIDE DEF r
    <2>2. SetReq(h, r)
      BY <1>2 DEF r
    <2> QED
      BY <1>1, <1>2, <2>1, <2>2, JobStays
  <1>3. ASSUME SetReq(h, [req[h] EXCEPT !.op = "refused", !.pc = "log",
                                        !.event = "MALWARE_BLOCKED", !.key = 0]),
               UNCHANGED status
        PROVE  NoAnswer
    <2> DEFINE r == [req[h] EXCEPT !.op = "refused", !.pc = "log", !.event = "MALWARE_BLOCKED", !.key = 0]
    <2>1. Job(r) /\ r.of = req[h].of
      BY <1>1 DEF Job, ReqRecord
    <2> HIDE DEF r
    <2>2. SetReq(h, r)
      BY <1>3 DEF r
    <2> QED
      BY <1>1, <1>3, <2>1, <2>2, JobStays
  <1>4. ASSUME Reply(h), SetStatus(req[h].of, "error")
        PROVE  Answers!Finish(req[h].of, "error")
    BY <1>1, <1>4, JobEnds DEF Answers!Justified
  <1> QED
    BY <1>2, <1>3, <1>4 DEF UploadEngine

LEMMA CreateIsStore ==
    ASSUME NodeInv, NEW h \in Handler, UploadCreate(h)
    PROVE  \E s \in {"encrypted", "quarantined"} : Answers!Store(req[h].of, s)
  <1> DEFINE u == req[h].of
             s == IF Quarantined(req[h]) THEN "quarantined" ELSE "encrypted"
             r == [req[h] EXCEPT !.pc = "log"]
  <1>1. /\ req[h] \in ReqRecord /\ Job(req[h]) /\ u \in Upload /\ transfer[u].status = "none"
        /\ UNCHANGED <<sent, status>> /\ SetReq(h, r)
        /\ transfer' = [transfer EXCEPT ![u].status = s]
    BY CallerIs DEF UploadCreate, At, HandlerOK, JobOK, Job, Goto, rest
  <1>2. Job(r) /\ r.of = u
    BY <1>1 DEF Job, ReqRecord
  <1>3. s \in {"encrypted", "quarantined"}
    OBVIOUS
  <1> HIDE DEF r, s
  <1>4. Running' = Running /\ u \in Running /\ Stored[u] = "none"
    BY <1>1, <1>2, RunningAfter, MappedUpload
  <1>5. Stored' = [Stored EXCEPT ![u] = s] /\ Answer' = Answer
    BY <1>1, StoredAfter DEF Answer
  <1> QED
    BY <1>1, <1>3, <1>4, <1>5 DEF Answers!Store

LEMMA ReplyIsFinish ==
    ASSUME NodeInv, NEW h \in Handler, UploadReply(h)
    PROVE  \E a \in {"completed", "quarantined"} : Answers!Finish(req[h].of, a)
  <1> DEFINE u == req[h].of
             a == IF Quarantined(req[h]) THEN "quarantined" ELSE "completed"
  <1>1. /\ Job(req[h]) /\ u \in Upload /\ JobOK(req[h]) /\ req[h].pc = "logged"
        /\ UNCHANGED <<sent, transfer>> /\ Reply(h) /\ SetStatus(u, a)
    BY CallerIs DEF UploadReply, At, HandlerOK, Job, documents, rest
  <1>2. Stored[u] = transfer[u].status
    BY <1>1, MappedUpload
  <1>3. Answers!Justified(u, a)
    BY <1>1, <1>2 DEF JobOK, Quarantined, Answers!Justified
  <1>4. a \in {"completed", "quarantined"}
    OBVIOUS
  <1> HIDE DEF a
  <1> QED
    BY <1>1, <1>3, <1>4, JobEnds

\* The catch block after a 406 has set the status.
LEMMA RefusalIsFinish ==
    ASSUME NodeInv, NEW h \in Handler, RefusedReply(h)
    PROVE  Answers!Finish(req[h].of, "error")
  <1>1. /\ Job(req[h]) /\ UNCHANGED <<sent, transfer>>
        /\ Reply(h) /\ SetStatus(req[h].of, "error")
    BY DEF RefusedReply, At, Job, documents, rest
  <1> QED
    BY <1>1, JobEnds DEF Answers!Justified

LEMMA ShareNoAnswer ==
    ASSUME NodeInv, NEW h \in Handler, ShareSave(h)
    PROVE  NoAnswer
  <1> DEFINE u == req[h].of
  <1>1. /\ u \in Upload /\ ~Job(req[h]) /\ ~Job(Idle) /\ SetReq(h, Idle) /\ UNCHANGED <<sent, status>>
        /\ transfer \in [Upload -> TransferDocument]
        /\ transfer' = [transfer EXCEPT ![u].token = @ + 1]
    BY CallerIs, IdleIs DEF ShareSave, At, HandlerOK, Job, Reply, rest, NodeTypeOK
  <1>2. \A v \in Upload : transfer'[v].status = transfer[v].status
    BY <1>1 DEF TransferDocument
  <1>3. Running' = Running
    BY <1>1, RunningAfter
  <1> QED
    BY <1>1, <1>2, <1>3 DEF NoAnswer, Stored, Answer

\* Of two releases that have both read the document, the second writes what
\* is there.
LEMMA ReleaseMapped ==
    ASSUME NodeInv, NEW h \in Handler, ReleaseSave(h)
    PROVE  NoAnswer \/ Answers!Release(req[h].of)
  <1> DEFINE u == req[h].of
             r == [req[h] EXCEPT !.pc = "log", !.event = "QUARANTINE_RELEASED"]
  <1>1. /\ u \in Upload /\ req[h] \in ReqRecord /\ req[h].op = "release"
        /\ transfer[u].status # "none" /\ transfer[u] \in TransferDocument
        /\ SetReq(h, r) /\ UNCHANGED <<sent, status>>
        /\ transfer' = [transfer EXCEPT ![u].status = "encrypted"]
    BY CallerIs, Types DEF ReleaseSave, At, HandlerOK, rest
  <1>2. ~Job(r) /\ ~Job(req[h])
    BY <1>1 DEF Job, ReqRecord
  <1> HIDE DEF r
  <1>3. Running' = Running /\ Answer' = Answer
    BY <1>1, <1>2, RunningAfter DEF Answer
  <1>4. Stored' = [Stored EXCEPT ![u] = "encrypted"]
    BY <1>1, StoredAfter
  <1>5. CASE transfer[u].status = "quarantined"
    BY <1>1, <1>3, <1>4, <1>5, MappedUpload DEF Answers!Release
  <1>6. CASE transfer[u].status = "encrypted"
    <2>1. Stored' = Stored
      BY <1>1, <1>4, <1>6 DEF Stored
    <2> QED
      BY <1>1, <1>3, <2>1 DEF NoAnswer
  <1> QED
    BY <1>1, <1>5, <1>6 DEF TransferDocument, TransferStatus

\* A job that the database fails tells of an error, or nothing from its catch
\* block.
LEMMA FailureMapped ==
    ASSUME NodeInv, NEW h \in Handler, DatabaseFails(h)
    PROVE  NoAnswer \/ Answers!Finish(req[h].of, "error") \/ Answers!Abandon(req[h].of)
  <1>1. Reply(h) /\ SetReq(h, Idle) /\ ~Job(Idle) /\ UNCHANGED <<sent, transfer>>
    BY IdleIs DEF DatabaseFails, Reply, Job, documents
  <1>2. CASE req[h].op = "upload"
    <2>1. SetStatus(req[h].of, "error") /\ Job(req[h])
      BY <1>2 DEF DatabaseFails, Job
    <2> QED
      BY <1>1, <2>1, JobEnds DEF Answers!Justified
  <1>3. CASE req[h].op = "refused"
    <2>1. UNCHANGED status /\ Job(req[h]) /\ req[h].of \in Upload
      BY <1>3, CallerIs DEF DatabaseFails, Job, HandlerOK
    <2>2. Running' = Running \ {req[h].of} /\ req[h].of \in Running
      BY <1>1, <2>1, RunningAfter, MappedUpload
    <2> QED
      BY <1>1, <2>1, <2>2 DEF Answers!Abandon, Stored, Answer
  <1>4. CASE ~Job(req[h])
    <2>1. UNCHANGED status
      BY <1>4 DEF DatabaseFails, Job
    <2> QED
      BY <1>1, <1>4, <2>1, JobStays
  <1> QED
    BY <1>2, <1>3, <1>4 DEF Job

LEMMA RestartIsCrash ==
    ASSUME NodeInv, Restart
    PROVE  Answers!Crash
  <1>1. /\ \A h \in Handler : ~(req'[h].op \in {"upload", "refused"})
        /\ status' = [u \in Upload |-> "none"] /\ UNCHANGED <<sent, transfer>>
    BY IdleIs DEF Restart, documents
  <1>2. Running' = {}
    BY <1>1 DEF Running
  <1>3. Answer' = [u \in Upload |-> "processing"] /\ Stored' = Stored
    BY <1>1 DEF Answer, Stored
  <1> QED
    BY <1>1, <1>2, <1>3 DEF Answers!Crash

\* Challenges, time and steps that do nothing.
LEMMA OutsideNoAnswer ==
    ASSUME (\E c \in Challenge : IssueChallenge(c) \/ ExpireChallenge(c)) \/ Tick \/ UNCHANGED vars
    PROVE  NoAnswer
  <1>1. UNCHANGED <<transfer, status, req, sent>>
    BY DEF IssueChallenge, ExpireChallenge, Tick, vars, documents, rest
  <1> QED
    BY <1>1 DEF NoAnswer, Running, Stored, Answer

LEMMA HandlerMapped ==
    ASSUME NodeInv, NEW h \in Handler, HandlerStep(h) \/ DatabaseFails(h)
    PROVE  NoAnswer \/ Answers!AnswersNext
  <1>1. Job(req[h]) \/ req[h].op = "release" => req[h].of \in Upload
    BY CallerIs DEF HandlerOK, Job
  <1>2. CASE \/ RegisterConsume(h) \/ RegisterArchive(h) \/ RegisterCreate(h)
             \/ RegisterRefused(h) \/ RegisterReply(h)
    BY <1>2, RegistersNoAnswer
  <1>3. CASE ReadLog(h) \/ UploadKey(h) \/ UploadNonce(h) \/ RefusedAlert(h)
    BY <1>3, WaitsNoAnswer
  <1>4. CASE UploadEngine(h)
    <2>1. Job(req[h])
      BY <1>4 DEF UploadEngine, At, Job
    <2> QED
      BY <1>1, <1>4, <2>1, EngineMapped DEF Answers!AnswersNext
  <1>5. CASE UploadCreate(h)
    <2>1. Job(req[h])
      BY <1>5 DEF UploadCreate, At, Job
    <2> QED
      BY <1>1, <1>5, <2>1, CreateIsStore DEF Answers!AnswersNext
  <1>6. CASE UploadReply(h)
    <2>1. Job(req[h])
      BY <1>6 DEF UploadReply, At, Job
    <2> QED
      BY <1>1, <1>6, <2>1, ReplyIsFinish DEF Answers!AnswersNext
  <1>7. CASE RefusedReply(h)
    <2>1. Job(req[h])
      BY <1>7 DEF RefusedReply, At, Job
    <2> QED
      BY <1>1, <1>7, <2>1, RefusalIsFinish DEF Answers!AnswersNext
  <1>8. CASE ShareSave(h)
    BY <1>8, ShareNoAnswer
  <1>9. CASE ReleaseSave(h)
    <2>1. req[h].op = "release"
      BY <1>9 DEF ReleaseSave, At
    <2> QED
      BY <1>1, <1>9, <2>1, ReleaseMapped DEF Answers!AnswersNext
  <1>10. CASE ReleaseReply(h)
    <2>1. /\ ~Job(req[h]) /\ ~Job(Idle) /\ SetReq(h, Idle) /\ UNCHANGED <<sent, transfer, status>>
      BY <1>10, IdleIs DEF ReleaseReply, At, Reply, Job, documents, rest
    <2> QED
      BY <2>1, JobStays
  <1>11. CASE DatabaseFails(h)
    <2>1. CASE Job(req[h])
      BY <1>1, <1>11, <2>1, FailureMapped DEF Answers!AnswersNext
    <2>2. CASE ~Job(req[h])
      <3>1. /\ ~Job(Idle) /\ SetReq(h, Idle) /\ UNCHANGED <<sent, transfer, status>>
        BY <1>11, <2>2, IdleIs DEF DatabaseFails, Reply, Job, documents
      <3> QED
        BY <2>2, <3>1, JobStays
    <2> QED
      BY <2>1, <2>2
  <1> QED
    BY <1>2, <1>3, <1>4, <1>5, <1>6, <1>7, <1>8, <1>9, <1>10, <1>11 DEF HandlerStep

LEMMA StepAnswered ==
    ASSUME NodeInv, [Next]_vars
    PROVE  NoAnswer \/ Answers!AnswersNext
  <1>1. CASE (\E c \in Challenge : IssueChallenge(c) \/ ExpireChallenge(c)) \/ Tick \/ UNCHANGED vars
    BY <1>1, OutsideNoAnswer
  <1>2. ASSUME NEW h \in Handler, NEW c \in Registration, RegisterBegin(h, c)
        PROVE  NoAnswer
    BY <1>2, BeginsNoAnswer DEF RegisterBegin, rest
  <1>3. ASSUME NEW h \in Handler, NEW u \in Upload, UploadBegin(h, u)
        PROVE  Answers!AnswersNext
    BY <1>3, BeginIsSubmit DEF Answers!AnswersNext
  <1>4. ASSUME NEW h \in Handler, NEW u \in Upload, ShareBegin(h, u) \/ ReleaseBegin(h, u)
        PROVE  NoAnswer
    BY <1>4, BeginsNoAnswer DEF ShareBegin, ReleaseBegin, rest
  <1>5. ASSUME NEW h \in Handler, HandlerStep(h) \/ DatabaseFails(h)
        PROVE  NoAnswer \/ Answers!AnswersNext
    BY <1>5, HandlerMapped
  <1>6. CASE Restart
    BY <1>6, RestartIsCrash DEF Answers!AnswersNext
  <1> QED
    BY <1>1, <1>2, <1>3, <1>4, <1>5, <1>6 DEF Next

\* However handlers, shares, releases, failures and restarts interleave, an
\* upload has one job, which stores one transfer at most and ends with one
\* answer, justified by what is stored; nothing is stored afterwards.
THEOREM NodeImplementsUploadAnswers == Spec => ImplementsUploadAnswers
  <1>1. Init => Answers!AnswersInit
    <2> SUFFICES ASSUME Init PROVE Answers!AnswersInit
      OBVIOUS
    <2>1. /\ sent = {} /\ \A h \in Handler : ~(req[h].op \in {"upload", "refused"})
          /\ transfer = [u \in Upload |-> NoTransfer] /\ status = [u \in Upload |-> "none"]
      BY IdleIs DEF Init
    <2>2. Running = {} /\ Answer = [u \in Upload |-> "processing"]
      BY <2>1 DEF Running, Answer
    <2>3. Stored = [u \in Upload |-> "none"]
      BY <2>1 DEF Stored, NoTransfer
    <2> QED
      BY <2>1, <2>2, <2>3 DEF Answers!AnswersInit
  <1>2. NodeInv /\ [Next]_vars => [Answers!AnswersNext]_(Answers!answerVars)
    BY StepAnswered DEF NoAnswer, Answers!answerVars
  <1> QED
    BY <1>1, <1>2, NodeInvariant, PTL DEF Spec, ImplementsUploadAnswers, Answers!AnswersSpec

=============================================================================
