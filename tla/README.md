# Verification of the secure transfer platform

TLA+ models of the transfer platform in `src/`, the TLC runs that check them on
small instances, and theorems about them checked by TLAPS for every value of
the constants.

## The system

A React frontend talks to a Node/Express backend (`backend-node`, MongoDB),
which authenticates users, receives files in chunks and keeps the transfers.
The Node backend calls a Python FastAPI engine (`backend/app`) over HTTP with a
short-lived service token. The engine checks, scans, fragments, encrypts and
packages the file. It uses SQLite (ledger, keys, quarantine), Redis (privacy
budget, token ids), ClamAV and a Besu chain with the contract `AuditLedger`.

Concurrency comes from three places. The engine runs one Uvicorn worker as
shipped: `internal_encrypt` has its last `await` between the signature checks and
the first analysis (it reads a sample of the file), so the rest of an upload is
one uninterrupted run of the event loop, while downloads, token verification and ledger verification run in the thread pool
beside it. The reports and tests of the repository also speak of several
workers (`FINAL_RESIDUAL_SECURITY_HARDENING_REPORT.md:20`, the concurrent claims
of `test_forward_secrecy`), so `Delivery` and `InternalAuth` allow them. Node
interleaves handlers at every `await`. Chain, Redis, MongoDB, the file system
and both processes fail independently.

### Inventory

| Component | State | Operations | Interacts with | Hard behaviour | What makes it correct |
|---|---|---|---|---|---|
| Engine audit ledger (`blockchain_service.py`, `models.py`, `AuditLedger.sol`) | table `audit_blocks`, class attributes `_web3`, `_contract_address`, `_contract_instance`, the contract's anchors | `append_block`, `verify_chain`, `get_contract` | uploads, downloads, quarantine, admin routes; Besu by RPC | read-then-insert over threads, late and lost transactions, concurrent deployments, restart | rows stay; rows form a chain; CONFIRMED is true; required anchoring fails closed; VALID is true |
| Quarantine (`quarantine_service.py`, `quarantine_storage.py`) | vault files, `quarantine_files`, ledger rows | quarantine, rescan, release, delete | the ledger table, upload route | rows of another hash formula; move before row | a malicious file is isolated and recorded |
| Privacy accountant (`differential_privacy.py`) | Redis hash per user and epoch, in-process dictionary, `redis_available`, cached script hash | `consume_budget`, `get_budget_status` | transfer monitor | outage mid-epoch, a restart that loses charges, NOSCRIPT, answers after the timeout, expiry | reserve kept; bounded spending |
| Upload route, monitor, fragment loop (`internal_engine_routes.py`, `continuous_monitor.py`, `pfce_engine.py`, `ai_service.py`) | one transfer's telemetry and flags, the package | `internal_encrypt`, `reanalyze_transfer`, `process_upload` | all of the above, ClamAV | swallowed and unswallowed exceptions, partial packages, budget exhaustion | only vetted files are delivered; no step is repeated |
| Second factor (`authController.js`, `MfaChallenge.js`) | challenges in MongoDB | login, `verifyMfa`, `resendMfa` | mail | lost updates between awaits | attempts and resends bounded, consumption final |
| Prekeys, key pairs (`crypto_service.py`) | `ecdh_prekeys` | generate, claim, get and delete | upload, download | conditional claim, deletion before decryption | a prekey serves one transfer |
| Hybrid keys (`upce_quantum_service.py`) | active ML-KEM key per user | initialize, recover | prekeys | rotation between upload and download | what was encrypted can be recovered |
| Download stream (`pfce_engine.py`) | none | `process_download_stream` | prekeys, ledger | output before the last check | nothing unverified is accepted as complete |
| Node transfers (`fileController.js`) | transfers, temporary chunk files, `UPLOAD_STATUSES` | chunk upload, status, share link, release, download | engine | order and retry of chunks, restart, races on a document | a transfer is processed once, from all its chunks |
| Node log (`fileController.js`) | `BlockchainLog` | `appendToBlockchain` | every handler | read, await, create | entries form a chain |
| Signing keys (`cryptoController.js`) | signing challenges and keys | challenge, register | uploads | challenge read and consumed apart | one active key, one use per challenge |
| Internal authentication (`internal_auth.py`) | token ids in Redis or a local table | `verify_internal_token` | every internal route | fallback table, id recorded first | a token is accepted once |
| Network monitor, anomaly indicators | flow table; trusted fingerprints | ingest, assess | upload route | caps under load; replaced keys | bounded memory; stable identity |
| Rate limiter, KMS, classification, telemetry, secure memory, training, frontend | little or none | - | - | - | see "Not modelled" |

`PROJECT.json` lists the same components with their status, and the hazards at
their lines.

## The modules

| Module | Models | Extends |
|---|---|---|
| `AuditTrail` | what the ledger promises: entries, publication, confirmation | - |
| `AuditLedger` | the ledger table, the contract, and any number of threads in `append_block`, `_log_audit_event` and `verify_chain`; implements `AuditTrail` | - |
| `AuditTamper` | the same with rows changed behind the ORM | `AuditLedger` |
| `MCAuditLedger` | the symmetry set for the ledger runs | `AuditLedger` |
| `AuditLedgerProofs` | theorems about `AuditLedger` and `AuditTamper` | `AuditTamper` |
| `PrivacyBudget` | the accountant: Redis with its script cache and expiry, the dictionary, epochs, outages, restarts | - |
| `UploadPipeline` | one upload after the other through the engine, spending from the accountant | `PrivacyBudget` |
| `PrivacyBudgetProofs` | theorems about the accountant inside the upload system | `UploadPipeline` |
| `UploadPipelineProofs` | theorems about the upload | `PrivacyBudgetProofs` |
| `OneTimeKeys` | what prekeys promise: one owner for good, handed only to who asks for the owner, never after it is spent | - |
| `Delivery` | the hybrid key of a transfer from the upload that makes it to the download that spends it; implements `OneTimeKeys` | - |
| `DeliveryProofs` | theorems about `Delivery` | `Delivery` |
| `UploadAnswers` | what an upload promises: one job, one transfer, one answer justified by it, and a release for good | - |
| `NodeBackend` | challenges, signing keys, transfers, log and upload statuses of the Node backend; implements `UploadAnswers` | - |
| `NodeBackendProofs` | theorems about `NodeBackend` | `NodeBackend` |
| `InternalAuth` | the service tokens between the backends | - |
| `MCInternalAuth` | the symmetry set for the token run | `InternalAuth` |
| `InternalAuthProofs` | theorems about `InternalAuth` | `InternalAuth` |
| `MfaChallenge` | the challenge collection and the handlers in flight on it | - |
| `MfaChallengeProofs` | theorems about `MfaChallenge` | `MfaChallenge` |
| `NetworkMonitor` | flow table, capture buffers and the look-ups of the upload route | - |
| `NetworkMonitorProofs` | theorems about `NetworkMonitor` | `NetworkMonitor` |

How they fit together: `NodeBackend` starts an upload and takes the engine's
answer as one of its three kinds; `UploadPipeline` says which answer when, with
`PrivacyBudget` and the appends of `AuditLedger` (as success or exception)
inside; `Delivery` follows the keys of the package from there to the download;
`InternalAuth` stands before every call of the engine.

### AuditLedger

`ledger` is the table by id, `mined` the signer's transactions by nonce,
`pending` the transaction in the pool; `web3`, `address` and `instance` are the
class attributes of `BlockchainService`; `th[p]` holds the locals of thread
`p` and the place it has reached. One action stands for the code between two
points where another thread, the chain or a crash can come between:
`ReadPrevious` / `InsertBlock` (the query and the commit of `append_block`),
`GetWeb3`, `GetContract` (with the submission in `DeployContract`), `DeployReceipt`, `DeployTimeout`, `Instantiate` (the
lazy class attributes), `CheckAnchor`, `SendAnchor`, `AnchorReceipt`,
`AnchorTimeout` (one attempt of the retry loop), `ReadBlocks` / `Scan`
(`verify_chain`). `Mine` and `Drop` are the chain, `Restart` the process.
A digest is represented by what it commits to (the tagged sequence of bodies),
which is injective like an ideal hash and keeps the two formulas of the code
apart. Any RPC call may fail at any time. The signer's nonce is the number of
mined transactions, so the pool holds one transaction of the signer at a time.

`AuditTrail` is the ledger without threads, retries or a chain: record an entry
after one that is there, publish it once, confirm it after it is published. The
refinement mapping (`Trail` at the end of `AuditLedger`) takes the protected
columns of the rows for the trail, the ids that a contract anchors with the hash
of their row (`Published`) for what is public, and the rows with status
CONFIRMED for the confirmed ones. A fork is allowed by `AuditTrail`, as the code
allows it; that one thread alone never forks is `LinearWhenSerial`.

### PrivacyBudget and UploadPipeline

The accountant keeps integers as the Lua script does. `ConsumeBudget` has
three outcomes: the script decides; Redis cannot be used and the dictionary
decides; the script has run but its answer came after the socket timeout, so
both are charged. The last two set `redis_available` to FALSE for the life of
the process. `docker-compose.yml` runs Redis with neither an append-only file nor
a volume, so `RedisStarts` brings back all charges, those of an earlier snapshot,
or none, for each user apart; `losses` counts the times it was not all. The script's time to live is rounded down, which `lastSecond`
and `Expire` model. `up` is the upload in the engine; its actions follow
`internal_encrypt` from the extension gate through signature checks, first
analysis, malware verdict and fragment loop to the answer. `Analysis` is
`reanalyze_transfer` with its three ways out. A failure comes before the accountant
is asked, or after it has charged, in the noise or the model: then `samples_count`
misses the analysis, and `wasted` (history) counts it. The callers decide what each
means, as in the code (`Analysed`/`AnalysisRaised` for the route,
`Dropped`/`Swallowed`/`Abort` for the fragment loop). `PrivatizeFeatures` asks
the accountant unless `dp_enabled` is false. A verdict is a score and whether it
is an anomaly, of the forest and of the heuristics (`ModelVerdict`) or of the
heuristics alone (`FallbackVerdict`). Scores are hundredths.

`ScanFullFile` gives the outcomes of `scan_full_file`: ClamAV finds something,
finds nothing or is silent, and the model adds its score (media files get a
fixed one); a file the operating system has locked is not scanned. A malicious
file goes through `QuarantineFile`: the move to the store, the row, the row of
the store's own in the ledger, each of which may raise after the ones before it
(`vault` tells how far it came). The end of the request forgets what it held for
the analyses. After a restart the engine takes no upload before `Startup`, which
the code leaves by an exception when the database, a required key or the
training fails: that it happens is not assumed.

### MfaChallenge

`challenges` is the collection, `req[r]` a handler in flight: the await it has
reached and the values it read before. `save()` writes only the fields the
handler set, with absolute values; that is why concurrent wrong codes lose
counts but nobody revives a consumed challenge. Right or wrong code is an
input. Counts of wrong answers and tokens are history.

### Delivery

`prekeys` and `keys` are the tables `ecdh_prekeys` and of the ML-KEM keys, for
one receiver; `sender` is the state of the sender's signing keys; a record per
call holds the locals and the place reached. The actions of an upload are the
transactions of `claim_prekey` (`SelectPrekey`, `Restock`, `Claim`/`LoseClaim`,
`Attempts` rounds, then a transfer without hybrid key), of
`initialize_transfer_security` (`ReadKey`) and of `generate_keypair`
(`GenerateRead`, `GenerateInsert`/`GenerateRefused`: two first uploads race for
the unique version). Those of a download follow `process_download_stream`:
`Verify`, `FindPrekey` and `DeletePrekey` (two statements, so two downloads can
hold the same row), `Recover`, and `Stream` once per fragment. A key is what it
was made from (prekey, secret key, public key): the wrapped key opens exactly
under the same three. Uploads fail and downloads are lost at any point; unclaimed
prekeys expire; the sender registers new signing keys in the two steps of
`registerKey`.

`OneTimeKeys` is the same without calls, rounds, failures or a table: keys are
made, taken by an owner that has none, asked for, handed out and spent. The
refinement mapping (`Keys` at the end of `Delivery`) takes the rows for the keys,
the transfer of a row for its owner, the deleted rows for the keys that are spent,
the transfer of a download for what it wants and the row it has read for what it
holds. Two downloads may be handed the same key before one of them spends it,
as the code allows; none is handed it afterwards.

### NodeBackend

The documents are `challenge`, `keys`, `transfer` and `log`; `status` is
`UPLOAD_STATUSES`, which a restart empties; `req[h]` is a handler: its operation,
the `await` it waits at and what it has read. An action is one stretch of code
between two awaits. `registerKey` is `RegisterBegin`, `RegisterConsume`,
`RegisterArchive`, `RegisterCreate` and the log; the background job of
`uploadChunk` is `UploadBegin`, `UploadKey`, `UploadEngine`, `UploadNonce`,
`UploadCreate` and the log, its catch block `RefusedAlert` and `RefusedReply`;
`createShareLink` and `releaseQuarantinedFile` have a read and a save;
`appendToBlockchain` is `ReadLog` and the creation in the reply of each caller.
`DatabaseFails` stops a handler at any await, with the catch block of each
caller. `archived`, `seen` and `rejected` are history. The clock is that of one
process and is taken not to run backwards; `LogForksOnlyByOverlapOrTie` rests on
that.

`UploadAnswers` is the same without handlers, documents and a database that
fails: an upload is submitted once, its job stores a transfer, and the job is
finished with an answer, abandoned without one, or lost in a crash with all
answers; a quarantined transfer may be released at any time. The mapping (at the
end of `NodeBackend`) takes the uploads whose job waits at an `await` for the
running ones, the status of the transfer for what is stored, and for the answer
what `uploadStatus` says, which is "processing" also when the process knows
nothing of the upload. An error is an answer even when the transfer is stored:
the log may fail after `Transfer.create`.

### InternalAuth

`redis` and `local` are the two stores of token ids, with the time each record
expires; `env` is `ENVIRONMENT`; `call[c]` is a request in a thread of a worker.
`Decode` lists the expired local records, `Purge` deletes them, `StoreRedis` is
`SET NX EX`, `RedisError` its failure before or after the command ran, `Lookup`
and `Record` the dictionary in development, `Context` the checks that come after
the id is used up. Redis fails, returns, and may have lost its data. Time is a
bounded clock that does not run ahead of a call by more than `SlowestCall`.
`via`, `epoch` and `after` are history: which store let a call pass, and what it
had seen.

### NetworkMonitor

`flows` and `buffers` are `_flows` and `_pcap_buffers` under their lock,
`baseline` the length of `_baseline_data` (`initialize` fills it with ten samples
more than it needs, so `Summary`, what `get_summary` reports of a flow, always
meets a trained model), `handler[h]` an upload request between
its two look-ups and the two halves of `save_pcap`. `conn` is the network
(external): it numbers the units of a connection modulo `SeqSpace`, repeats
them, lets the capture miss some, and uses a port again. `AddPacket` counts as
`FlowStats` does; `high`, `trueLate`, `trueGaps` and `exact` are history, what
the same packets are by their position in the stream. `CleanupExpiredFlows` may
come between any two steps.

## What the runs check

All bounds are CONSTANTs of the modules, named in their guards, and set in the
configurations.

| Run | Instance | Properties and what the run shows |
|---|---|---|
| `ledger_concurrent` | 2 threads, 2 bodies, 2 rows, 2 attempts, 3 mined transactions, symmetry | rows form a tree, are a chain unless two share a predecessor; CONFIRMED rows are anchored; required anchoring fails closed; VALID is truthful |
| `ledger_serial` | 1 thread, 3 rows, 3 attempts, 5 mined, 1 restart | the chain holds with one thread through retries and a restart; every call ends although the chain may stay silent; the ledger implements `AuditTrail` |
| `ledger_tamper` | 1 thread, 2 bodies, 2 rows | an edited row never verifies; a recalculated CONFIRMED row does not verify when the contract was consulted |
| `upload` | 1 user, budget 4 with reserve 1 and cost 2, 2 fragments, 2 analyses, 2 uploads, 2 outages, 1 restart, 2 epochs | delivered files are vetted; malicious files are isolated; spending per transfer, and over outages with or without a loss of charges, is bounded; the reserve is kept; every step brings an upload nearer to its answer |
| `mfa` | 2 handlers, 2 attempts, 1 resend, 4 challenges | a full counter means consumed; wrong answers and tokens are bounded although updates are lost; resends replace, and fork no wider than the handlers in flight; consumption is final |
| `delivery` | 2 uploads, 2 downloads, batches of 1, 2 rounds, 1 fragment, 2 signing keys | a prekey serves one transfer; one hybrid key is active, one row per version; a hybrid fragment is never handed out under another key; a refused download has one of three reasons; uploads end; the prekeys implement `OneTimeKeys` |
| `node` | 2 handlers, 2 registrations, 1 upload, 3 log entries, 2 instants | the log forks only by overlap or a tie of milliseconds; what is reported as over is recorded; two ACTIVE keys need overlapping registrations; a release is final; the uploads implement `UploadAnswers`; a status leaves `processing` unless the catch block failed |
| `auth` | 3 calls, 2 tokens, 2 workers, token life 1, record life 2, 4 instants, symmetry | when a token passes twice and why; in production only after Redis lost its data |
| `network` | 1 client, 2 servers, 1 handler, 4 sequence numbers, 1 tracked flow, buffers of 2 | signals are what the stream did until a wrap or a reused port; captures are of one flow |
| `ledger_fork`, `upload_blocked`, `delivery_rotation` | as the run of the component (`upload_blocked`: policy `fallback_heuristics` only) | each refutes a statement of a document or a test (next section) |

Why the bounds are enough for the question asked.

- Ledger: two threads and two rows are what a fork, a race on the class
  attributes and a stale `verify_chain` need; two attempts are what a transaction
  that is mined after the receipt timeout needs to be found by the next one; three mined transactions allow two
  deployments and an anchor; one restart separates two contracts; the three attempts
  of `ledger_serial` include a first, a middle and a last one. `ledger_tamper` also holds with one
  restart (4.9 million states), which its configuration leaves out for time.
- Upload: a budget of one analysis plus its reserve makes the second analysis of
  a transfer, and every analysis of a second upload, meet an exhausted budget;
  one outage with one restart reaches the fallback, the lost script cache and a
  new dictionary; the second outage lets Redis lose charges twice, or answer from
  what the first has left.
- Delivery: with batches of one, two uploads meet at the last prekey and one
  runs out of rounds; two uploads without a key race for the first version;
  two downloads of one transfer share or lose its prekey. One fragment suffices
  since all fragments of a package share the key.
- Node: two handlers make every overlap of two stretches; two registrations
  replace one another; three entries allow a fork behind an entry; two instants
  allow ties and their absence.
- Token check: a third call shows that an old record still refuses; token life 1
  and record life 2 are the smallest with `TokenLife + SlowestCall <=
  RecordLife`, which 30 s, 60 s and a timeout of 1 s satisfy with room; clock 3
  reaches past the expiry of every record of a token.
- Network: a sequence space of 4 wraps within 5 units; one place in the table
  makes the second connection wait for a clean-up; limits of 0 make every signal
  one packet away.

What holds for other sizes is the subject of the theorems.

`upload`, `upload_blocked`, `mfa`, `node`, `auth` and `network` say
`CHECK_DEADLOCK FALSE`: the clients may stop calling, and the bounds on uploads,
challenges, tokens, the clock and the stream are reached, which is no error of
the system. The ledger runs and `delivery` check deadlock: a thread that cannot
append can always verify, and `AllOver` marks the one state in which deliveries
may rest, with every call over.

The type invariants `MfaTypeOK`, `DeliveryTypeOK`, `NodeTypeOK`, `AuthTypeOK` and
`NetworkTypeOK` are theorems and not in a configuration any more.

Every property has a mutant: a definition with a plausible bug (dropped guard,
swapped fields, lost increment) under which TLC finds the property violated.
They stand next to the definitions they replace, marked "Mutant".

### Fairness

`FairSpec` (ledger) gives weak fairness to the steps of each thread: the
operating system schedules threads, RPC calls return or fail, and both receipt
waits have a timeout. Nothing is assumed of the chain, which need not mine, or
of the callers. `FairSpec` of `Delivery` gives it to the steps of an upload, none of which
waits for another call; its failure is free, and nothing is assumed of downloads,
whose receiver may stall. `FairSpec` of `NodeBackend` gives it to the handlers:
Node resumes a handler whose promise has settled. For the call of the engine
this says that the engine answers or the connection breaks, an assumption, since
the client library is used without a timeout. `MfaSpec`, `InternalAuth` and
`NetworkMonitor` need none: nothing about them is claimed to happen eventually.

Of an upload no run claims that it ends, since it need not: the socket to ClamAV
is opened without a timeout (`malware_service.py:140`), so a scanner that accepts
the connection and says nothing holds the upload and, since the scan runs on the
event loop, whatever else needs the loop. What the code does give is
`AnswerComesNearer`: each step answers the upload or leaves less to do, whatever
fails, so an upload takes at most `MaxFragments + 5` steps and hangs in none of
them by repetition. `UploadSpec` gives weak fairness to all of them but the
scan (Redis and the chain are waited for with timeouts), and `UploadEnds` draws the
conclusion under the premise `ScannerAnswers`. TLC finds it true with `upload.cfg`
cut down to one upload and one outage, and false there without the premise; the
larger instance exceeds the time of a run.

## Disagreements with documents, comments and tests

1. `ledger_fork`: overlapping appends make `verify_chain` report
   `PREVIOUS_HASH_MISMATCH` on rows nobody touched.
2. `upload_blocked`: a transfer BLOCKED between fragments is delivered.
3. `delivery_rotation`: the second of two concurrent first uploads rotates the
   receiver's key, and the package of the first can no longer be opened, since
   the recovery binds the public key that is active now.

The statements they refute are quoted in `PROJECT.json`. Six more statements
are refuted by a formula that stands in a module without a run of its own; to see
the counterexample, put it as the `INVARIANT` of a copy of the
configuration named:

- `NoBlockHashMismatch` (`ledger_concurrent.cfg`): a row of the quarantine service makes
  `verify_chain` report `BLOCK_HASH_MISMATCH` for good.
- `RequiredMeansConfirmed` (`ledger_fork.cfg`): a transaction mined after the receipt
  timeout leaves an anchored row that is not CONFIRMED although `append_block`
  returned.
- `RewriteIsCaught` (`ledger_tamper.cfg` with `MaxRestarts = 1`): with the node
  unreachable after a restart a recalculated chain is VALID.
- `UnauditedIsNotDelivered` (`upload.cfg`): with anchoring required and impossible, a
  clean file is delivered, since only the monitor and the engine append for it,
  and they swallow the exception.
- `LimitIsOnCharges` (`upload.cfg`): analyses that fail after the accountant has
  charged them are not counted, so a transfer is charged for more than
  `dp_max_analyses_per_transfer` of them (`continuous_monitor.py:88`: "Enforce max
  analyses per transfer"). What holds is `TransferSpendBounded`.
- `EpochBudgetHolds` (`upload.cfg`): after one Redis error a user gets a second budget
  in the same epoch.

Further observations made while modelling:

- Node: two overlapping registrations leave two ACTIVE signing keys
  (`SIGNING_KEY_LIFECYCLE_FIX_REPORT.md`, section 9, says the old one is archived); one
  registration request delivered twice can leave none. A transfer may exist
  although its status is `error`, when the log could not be written. Of two share
  links the last one saved wins. When the database fails in the catch block the
  status stays `processing` (`rejected`), and the client, which stops polling only at
  `completed`, `error` or `processing_error`, polls for ever; it does so for
  `quarantined` and after a restart too.
- Second factor: `FINAL_RESIDUAL_SECURITY_HARDENING_REPORT.md:109` lists "MFA
  challenge single-use" as implemented in `authController.js` (its test was not
  run). Verifications that read the challenge before one of them saves it each get
  a token: `TokensBounded` is one for each handler in flight, not one.
- Keys: two overlapping downloads may both read the prekey; a download lost after
  the deletion makes the transfer undeliverable; a prekey claimed by an upload
  that fails is never given back. `ensure_user_keypair` writes the private and
  the public key file one after the other without a lock.
- Tokens: `FINAL_RESIDUAL_SECURITY_HARDENING_REPORT.md` says replay protection
  fails closed; it does so in production only, and `docker-compose.yml` does not
  set `ENVIRONMENT`, whose default is `development`. Threads that purge together
  raise `KeyError`, or an iteration over a changing dictionary.
- Network: after a wrap at 2^32, or when a port is used again, every further
  segment counts as a retransmission; a full table stops tracking silently; the
  flow that is looked up is the oldest of the client's address, and the saved
  capture may be of a later flow. The transfer indicators never reach the level that
  blocks. `verify_public_key` accepts every key.

## What is proved

The theorems hold for every value of the constants that satisfies the
`ASSUME`s (`LedgerAssumption`, `BudgetAssumption`, `UploadAssumption`,
`MfaAssumption`, `DeliveryAssumption`, `NodeAssumption`, `AuthAssumption`,
`NetworkAssumption`), that is for any number of threads, users, handlers, calls,
tokens and connections.

**Ledger** (`AuditLedgerProofs`). `LedgerInv` is inductive. The properties are
not: that a CONFIRMED row names its own transaction needs `Ownership` (between
its insert and the end of its retries a thread owns its row, which carries its
hash and is not CONFIRMED), that a mined anchor is the row's needs
`ChainMatchesRows`, the tree needs `DraftLinks` (a thread about to insert holds
genesis or the hash of a row), and anchoring under an existing contract needs
`ContractKnown`. From it follow `TypeCorrect`, `RowsFormTree`,
`ConfirmedRowsAreAnchored`, `RequiredAnchoringFailsClosed` and, as an action
property, `RowsAreAppendOnly`. `ForkIsTheOnlyBreak` (no shared predecessor
implies a chain), `SerialLedgerIsChain` (one thread implies a chain) and
`ValidVerdictIsTruthful` (what a thread has read is still in the table, since
rows are append-only) each add an invariant of their own to it.
`LedgerImplementsTrail` is the refinement: under `LedgerInv` an insert is a
`Record`, the mining of a row's anchor a `Publish`, a confirmation a `Confirm`,
and every other step a stutter.

**Changes behind the ORM** (`AuditLedgerProofs`). `LedgerInv` does not survive an
edit: a row no longer carries the hash its thread computed, and the rows are no
longer append-only. `TamperInv` rests on what an edit cannot reach, the chain
and the locals of the threads. A thread that anchors remembers the body it
inserted (`AnchorersRemember`), so every anchor, mined or pending, commits to the
body as inserted (`AnchorsCommit`); and as long as no hash was recalculated the
hash columns do too, in the table and in every copy a thread has read
(`HashesTell`). A VALID verdict compares the bodies with the hash columns, and
those of CONFIRMED rows with the anchors when it consulted the contract; from
this `EditsAreDetected` and `ConfirmedRewritesAreDetected`. The contract may be
one of several, after restarts: the comparison is with whichever was consulted.

**Accountant** (`PrivacyBudgetProofs`). A lemma shows that the upload system
touches the accountant only by PERIODIC charges; `BudgetInv` adds to the two
ceilings that what was granted is in a store or was lost: with one of `starts`
dictionaries, or in one of `losses` restarts of Redis, at most a ceiling each time. `ReserveIsUntouched` and `OutagesCostBoundedBudget` follow. The
last one excludes the last second of an epoch, in which a key that is created
disappears at once.

**Upload** (`UploadPipelineProofs`). The invariant says for each place of
`internal_encrypt` which gates the upload has passed (`Gated`), that what was
charged is at most one `Cost` for each analysis that the monitor has counted or
that failed after the charge (`SpendOK`; such a failure leaves the rest of the
upload as it was, `WastedIs`), and which place an analysis belongs to (`AnalysisOf`). From it
`UploadTypesHold`, `DeliveriesAreVetted`, `MaliciousFilesAreIsolated`,
`TransferSpendIsBounded`. `UploadsComeNearer` is an action property: the places of
the route come one after the other, and in the fragment loop an analysis, with
whatever result, leaves the number of fragments as it was.

**Second factor** (`MfaChallengeProofs`). `MfaInv` adds to the properties what
a resend in flight knows of the challenge it replaces (`ResendInFlight`).
`MfaTypeCorrect`, `LockedChallengeIsConsumed`, `ResendReplacesChallenge` and
`ConsumptionIsFinal` follow. For `TokensAreBounded` the invariant `TokenInv`
counts tokens issued together with the handlers that still hold the challenge:
once it is consumed nobody new takes hold of it, and a token is given by a
handler that lets go.

`ResendsForkBounded` rests on `ForkInv` in the same way: a challenge has no
successor before it is consumed, and then its successors and the handlers that
still resend it are together no more than the handlers. So one login can have
up to n usable challenges at the first resend when n handlers are in flight, n
times as many at the next, each with attempts of its own.

`WrongAnswersAreBounded` bounds what the lost updates of the counter cost, for any
number n of handlers. A handler that has read the counter may write it back much
later and take back what was counted in between; but then it has to read again.
A handler stands at the counter, or at the value it has read if that is lower
(`Position`). `Heights` says for each value of the counter how many handlers stand
below it: a non-decreasing curve, of which there are finitely many (`Profiles`).
A handler that saves a wrong answer rises past the value it stood at, and nobody
falls below any value up to there, so the curve goes down in the order of the
lowest difference (`HeightsDrop`, `Below`); any other step keeps the curve or
lowers it (`HeightsFall`). Each wrong answer thus uses up a curve for good
(`PassedGrows`), and `WrongInv` says that a live challenge has fewer wrong answers
than curves passed; a consumed one may get one more from each handler that was
comparing. The curves are counted by `CurvesCounted`, Pascal's rule: those that end
at the top are the curves one value shorter, the others those of one handler
less. The bound is not too large: with the five attempts of the code it gives one
handler 5 wrong answers, two 16 and three 37, and TLC finds a behaviour that
reaches each.

Counting the curves is an induction. The induction theorems of the library take
an operator as a parameter and cannot be used; `Induction` states it of a set of
numbers instead, from the theorem that `<` on `Nat` is well founded. The
equations of `factorial` are proved from it too (`Factorial`): a recursive
function is a `CHOOSE`, and that something satisfies its equation is shown by
the finite unfoldings (`FactorialUnfolds`, `UnfoldsOnce`).

**Delivery** (`DeliveryProofs`). `DeliveryInv` consists of `Established` (types,
one active key, each consumed prekey belongs to the transfer that holds it, each
transfer key was made from existing rows), `SenderOK`, `DeletionsOK` (a deleted
prekey is held by the download that deleted it) and `DownloadsOK` (what a
download holds, by the place it has reached: a prekey only of its own transfer,
and only after the signature held). The deletion
is what explains a later refusal. From it `DeliveryTypesHold`,
`ClaimsAreExclusive`, `OneKeyIsActive`, `FragmentsAreNotDowngraded`,
`FailuresAreExplained`. `DeliveryImplementsOneTimeKeys` is the refinement: under
`DeliveryInv` a generation is a `Make`, a claim that is won a `Take` (a claimable
row has no transfer, and a transfer whose call still claims has no row), a
request an `Ask`, a row that is found a `HandOut` (the download is past the
signature, so its upload is done and the row has that transfer alone), the first
deletion of a row a `Spend`, and every other step, the second deletion too, a
stutter.

**Node** (`NodeBackendProofs`). `NodeInv` has the types, `TwoActive`, the links
of the log (`LogOK`), what a waiting handler may rely on (`HandlersOK`), that an
upload has at most one job (`OneJob`), that what was not sent has left no trace
(`NotSentOK`) and what an ended upload leaves behind (`OverOK`). A lemma
(`Stable`) names what no step takes away from a waiting handler, so each action
is compared with the others once. From it `NodeTypesHold`,
`OverlapExplainsTwoActive`, `OverlapOrTieExplainsForks`, `OverIsRecorded` and,
as an action property, `ReleasesAreFinal`. `NodeImplementsUploadAnswers` is the
refinement: under `NodeInv` the last chunk is a `Submit`, `Transfer.create` a
`Store` (the job finds no transfer of its upload), each place that sets a status
and leaves the job a `Finish` (`OneJob`: no other handler is left running for
that upload), a failure in the catch block an `Abandon`, the first save of a
release a `Release`, a restart a `Crash`, and everything else, the second of two
releases and every share link too, a stutter (`NoAnswer`).

**Token check** (`InternalAuthProofs`). `AuthInv` relates the clocks: when a call
began, when its token was signed, when records expire (`CallTimes`,
`IssuedEarlier`, `RecordTimes`); a token that passed is still recorded where it
passed while it can be used (`PassedIsRecorded`), which needs
`TokenLife + SlowestCall <= RecordLife`; production never looks into the
dictionary (`Closed`). From it `AuthTypes`, `ReplayNeedsTwoStores`,
`ProductionFailsClosed`.

**Network** (`NetworkMonitorProofs`). `NetworkInv`: as long as a flow is exact its
expected number and the round of the sequence space give the highest position
(`FlowsAreTrue`), buffers hold packets of the tracked flow (`BuffersMatch`),
no flow has a number not yet given (`FlowsAreNumbered`), and what a handler
holds or has saved is no older than the flow it evaluated (`HandlersMatch`). From it `NetworkTypes`,
`SignalsAreOfTheStream`, `CapturesAreOfOneFlow`.

## What is only model-checked

- Liveness (`CallsEnd`, `UploadCallsEnd`, `JobResolves`): temporal
  reasoning under fairness is not available to the prover.

Every invariant and every action property of the passing runs, and every refinement,
is a theorem.

## Not modelled

- Cryptography, hashing, the forest of the risk model, Laplace noise, ClamAV,
  the solidity compiler: taken by their results.
- A configured `BLOCKCHAIN_CONTRACT_ADDRESS`.
- `POSSIBLE_INTERCEPTION`: the indicators it needs are never raised by the
  inputs the production code supplies.
- Quarantine administration (list, rescan, release, delete), `rotate_keypair`,
  `sendFile`: no route or production caller uses them. `rescan_item` and
  `release_item` hand the bytes of the file to `scan_full_file`, which opens its
  argument as a path, so with the real scanner they raise.
- Chunks before the last one, and a last chunk that comes twice: the client sends
  a chunk after the answer to the one before and draws a new upload for each
  attempt, and the engine compares the hash of the whole file with the signed one.
  That is what the shipped client does; `uploadChunk` does not check it, and with
  another client an upload could have two jobs. The lists of sent and received files only read.
- The registry of public keys: it accepts every key and nothing else reads it.
  The ARP, gateway and TLS monitors have no inputs in production. Of the network
  monitor, flags, duplicate acknowledgements, inter-arrival times, the score of
  the isolation forest and the capture itself.
- Rate limiter (limits paths the engine does not have), KMS (imports a model
  that does not exist), classification, context and telemetry (stateless),
  secure memory (operating-system calls), training (numerical), the frontend
  beyond the requests it starts.
- `clean_build_env`: a stale copy of the engine.

## Plan

Done: every component of the inventory that carries logic of its own has its
module, and every safety property that a passing run checks is a theorem. What
could follow is more of the code, not more about this part of it: the order of
arrival of chunks under a client that does not wait for its answers, and the
registry of public keys once something reads it.
