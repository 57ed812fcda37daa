---------------------------- MODULE AuditLedger ----------------------------
(***************************************************************************)
(* The engine's audit ledger: the SQLite table audit_blocks (layer 1, a    *)
(* hash chain) and its anchors in the Solidity contract AuditLedger on a   *)
(* Besu chain (layer 2), as driven by BlockchainService.append_block and   *)
(* BlockchainService.verify_chain, and by QuarantineService, which writes  *)
(* rows of its own with _log_audit_event.                                  *)
(*                                                                         *)
(* Uploads append from the event loop, downloads and verify-ledger from    *)
(* the thread pool, so several threads run these functions at once.  The   *)
(* model interleaves them between the database calls, the accesses to the  *)
(* class attributes of BlockchainService and the RPC calls.  Every RPC     *)
(* call may fail; a submitted transaction may be mined late or dropped.    *)
(***************************************************************************)
EXTENDS Integers, Sequences, FiniteSets

CONSTANTS
    Thread,         \* the threads that run ledger code
    Body,           \* (event_type, details_json, created_at) of an event
    Enabled,        \* BLOCKCHAIN_ENABLED
    Required,       \* BLOCKCHAIN_REQUIRED
    MaxRetries,     \* max_retries of append_block
    MaxRows,        \* bound: rows of audit_blocks
    MaxMined,       \* bound: transactions the chain has mined
    MaxRestarts     \* bound: restarts of the engine process

ASSUME LedgerAssumption ==
    /\ Body # {}
    /\ Enabled \in BOOLEAN
    /\ Required \in BOOLEAN
    /\ MaxRetries \in Nat \ {0}
    /\ MaxRows \in Nat
    /\ MaxMined \in Nat
    /\ MaxRestarts \in Nat

VARIABLES
    ledger,     \* audit_blocks, by id
    mined,      \* the chain: transactions of the signer, by nonce
    pending,    \* the submitted transaction not mined yet
    web3,       \* cls._web3 is not None
    address,    \* cls._contract_address
    instance,   \* cls._contract_instance, by its address
    th,         \* the local state of every thread
    restarts

vars == <<ledger, mined, pending, web3, address, instance, th, restarts>>
classVars == <<web3, address, instance>>

-----------------------------------------------------------------------------
(***************************************************************************)
(* A digest is represented by what it commits to: SHA-256 over a body and  *)
(* a previous digest is the sequence of bodies back to genesis, each       *)
(* tagged with the serialisation that was hashed.  Equal digests therefore *)
(* mean equal contents (no collisions), and the canonical JSON of          *)
(* _calculate_hash and the concatenation of _log_audit_event, which leaves *)
(* the timestamp out, never yield the same digest.                         *)
(***************************************************************************)
Digest == Seq(Body \X {"canonical", "concatenated"})
Genesis == <<>>

CalculateHash(body, prev) == Append(prev, <<body, "canonical">>)
QuarantineHash(body, prev) == Append(prev, <<body, "concatenated">>)

Status == {"LOCAL_ONLY", "CONFIRMED", "FAILED"}

Row == [body: Body, prev: Digest, hash: Digest, status: Status,
        addr: Nat, txn: Nat]

\* Mutants: no default for the status column; the two hashes swapped.
NewRow_NoDefault(body, prev, hash) ==
    [body |-> body, prev |-> prev, hash |-> hash, status |-> "NONE",
     addr |-> 0, txn |-> 0]
NewRow_Swapped(body, prev, hash) ==
    [body |-> body, prev |-> hash, hash |-> prev, status |-> "LOCAL_ONLY",
     addr |-> 0, txn |-> 0]

NewRow(body, prev, hash) ==
    [body |-> body, prev |-> prev, hash |-> hash, status |-> "LOCAL_ONLY",
     addr |-> 0, txn |-> 0]

\* block_hash of the row before row id
HashBefore(rows, id) == IF id = 1 THEN Genesis ELSE rows[id - 1].hash
\* Mutant: the row before the last one.
LastHash_OffByOne(rows) ==
    IF Len(rows) < 2 THEN Genesis ELSE HashBefore(rows, Len(rows))

\* block_hash of the row with the largest id
LastHash(rows) == HashBefore(rows, Len(rows) + 1)

(***************************************************************************)
(* Transactions.  A deployment creates the contract named by its nonce + 1 *)
(* (an address is derived from the sender's nonce); 0 is "no contract".    *)
(***************************************************************************)
Tx == [to: Nat, id: Nat, hash: Digest]
DeployTx == [to |-> 0, id |-> 0, hash |-> Genesis]
AnchorTx(contract, id, hash) == [to |-> contract, id |-> id, hash |-> hash]
NoTx == [to |-> 0, id |-> 1, hash |-> Genesis]

\* anchors(id) of a contract, when it is set
AnchorsOf(contract, id) ==
    {n \in DOMAIN mined : /\ mined[n].ok
                          /\ mined[n].tx.to = contract
                          /\ mined[n].tx.id = id
                          /\ contract # 0}

-----------------------------------------------------------------------------
(***************************************************************************)
(* verify_chain over the rows it has read: the first row that fails a      *)
(* check decides.  contract is 0 when the on-chain part is skipped; fault  *)
(* is the RPC call that raises, if any: the anchors() call or the receipt  *)
(* request of row fault.at.                                                *)
(***************************************************************************)
Fault == [at: 0..MaxRows, call: {"anchors", "receipt"}]

\* Mutant: the anchored hash is not compared.
OnChainReason_NoCompare(row, id, contract, fault) ==
    IF contract # 0 /\ row.status = "CONFIRMED" /\ AnchorsOf(contract, id) = {}
    THEN "ONCHAIN_ANCHOR_MISSING" ELSE "NONE"

OnChainReason(row, id, contract, fault) ==
    LET found == AnchorsOf(contract, id)
        failing(call) == fault.at = id /\ fault.call = call
    IN  CASE contract = 0 \/ row.status # "CONFIRMED" -> "NONE"
          [] failing("anchors") -> "ONCHAIN_VERIFICATION_EXCEPTION"
          [] found = {} -> "ONCHAIN_ANCHOR_MISSING"
          [] \E n \in found : mined[n].tx.hash # CalculateHash(row.body, row.prev)
                -> "ONCHAIN_HASH_MISMATCH"
          [] failing("receipt") -> "ONCHAIN_RECEIPT_NOT_FOUND"
          [] row.txn \in DOMAIN mined /\ ~mined[row.txn].ok -> "ONCHAIN_TX_FAILED"
          [] OTHER -> "NONE"

\* Mutants: the link is not checked; the hash is not recalculated.
RowReason_NoLink(rows, id, contract, fault) ==
    IF rows[id].hash # CalculateHash(rows[id].body, rows[id].prev)
    THEN "BLOCK_HASH_MISMATCH" ELSE OnChainReason(rows[id], id, contract, fault)
RowReason_NoHash(rows, id, contract, fault) ==
    IF rows[id].prev # HashBefore(rows, id)
    THEN "PREVIOUS_HASH_MISMATCH" ELSE OnChainReason(rows[id], id, contract, fault)

RowReason(rows, id, contract, fault) ==
    CASE rows[id].prev # HashBefore(rows, id)
            -> "PREVIOUS_HASH_MISMATCH"
      [] rows[id].hash # CalculateHash(rows[id].body, rows[id].prev)
            -> "BLOCK_HASH_MISMATCH"
      [] OTHER -> OnChainReason(rows[id], id, contract, fault)

VerifyChain(rows, contract, fault) ==
    LET bad == {id \in DOMAIN rows : RowReason(rows, id, contract, fault) # "NONE"}
    IN  IF rows = <<>> THEN "EMPTY"
        ELSE IF bad = {} THEN "VALID"
        ELSE RowReason(rows, CHOOSE id \in bad : \A j \in bad : id <= j,
                       contract, fault)

-----------------------------------------------------------------------------
(***************************************************************************)
(* Threads.  job is the function that runs, pc the place it has reached.   *)
(***************************************************************************)
PC == {"idle", "insert", "web3", "contract", "deployWait", "instantiate",
       "check", "send", "wait", "scan", "done"}

Result == {"NONE", "returned", "raised", "EMPTY", "VALID",
           "PREVIOUS_HASH_MISMATCH", "BLOCK_HASH_MISMATCH",
           "ONCHAIN_ANCHOR_MISSING", "ONCHAIN_HASH_MISMATCH",
           "ONCHAIN_RECEIPT_NOT_FOUND", "ONCHAIN_TX_FAILED",
           "ONCHAIN_VERIFICATION_EXCEPTION"}

ThreadState ==
    [pc: PC, job: {"append", "quarantine", "verify"},
     body: Body, prev: Digest, id: Nat, attempt: Nat,
     w3: BOOLEAN, contract: Nat, nonce: Nat, rows: Seq(Row), result: Result]

Idle ==
    [pc |-> "idle", job |-> "append", body |-> CHOOSE b \in Body : TRUE,
     prev |-> Genesis, id |-> 0, attempt |-> 1, w3 |-> FALSE,
     contract |-> 0, nonce |-> 0, rows |-> <<>>, result |-> "NONE"]

Init ==
    /\ ledger = <<>>
    /\ mined = <<>>
    /\ pending = NoTx
    /\ web3 = FALSE
    /\ address = 0
    /\ instance = 0
    /\ th = [p \in Thread |-> Idle]
    /\ restarts = 0

At(p, pc) == th[p].pc = pc
Finish(p, result) ==
    th' = [th EXCEPT ![p].pc = "done", ![p].result = result]

\* A failure that append_block turns into an exception only when anchoring
\* is required, and verify_chain into a verification without the chain.
Unanchored(p) ==
    IF th[p].job = "verify"
    THEN th' = [th EXCEPT ![p].pc = "scan", ![p].contract = 0]
    ELSE Finish(p, IF Required THEN "raised" ELSE "returned")

(***************************************************************************)
(* append_block: the read of the last row, then the insert and its commit. *)
(***************************************************************************)
ReadPrevious(p, body, job) ==
    /\ At(p, "idle")
    /\ Len(ledger) < MaxRows
    /\ th' = [th EXCEPT ![p] = [Idle EXCEPT !.pc = "insert", !.job = job,
                                            !.body = body,
                                            !.prev = LastHash(ledger)]]
    /\ UNCHANGED <<ledger, mined, pending, classVars, restarts>>

BlockHash(p) ==
    IF th[p].job = "quarantine" THEN QuarantineHash(th[p].body, th[p].prev)
                                ELSE CalculateHash(th[p].body, th[p].prev)

\* Mutant: the column is not unique.
InsertBlock_NotUnique(p) ==
    /\ At(p, "insert")
    /\ ledger' = Append(ledger, NewRow(th[p].body, th[p].prev, BlockHash(p)))
    /\ Finish(p, "returned")
    /\ UNCHANGED <<mined, pending, classVars, restarts>>

\* block_hash is a unique column.
InsertBlock(p) ==
    /\ At(p, "insert")
    /\ \A i \in DOMAIN ledger : ledger[i].hash # BlockHash(p)
    /\ ledger' = Append(ledger, NewRow(th[p].body, th[p].prev, BlockHash(p)))
    /\ th' = [th EXCEPT ![p].id = Len(ledger) + 1,
                        ![p].pc = IF Enabled /\ th[p].job = "append"
                                  THEN "web3" ELSE "done",
                        ![p].result = "returned"]
    /\ UNCHANGED <<mined, pending, classVars, restarts>>

InsertRejected(p) ==
    /\ At(p, "insert")
    /\ \E i \in DOMAIN ledger : ledger[i].hash = BlockHash(p)
    /\ Finish(p, "raised")
    /\ UNCHANGED <<ledger, mined, pending, classVars, restarts>>

(***************************************************************************)
(* verify_chain reads every row first, and returns at once on none.        *)
(***************************************************************************)
ReadBlocks(p) ==
    /\ At(p, "idle")
    /\ th' = [th EXCEPT ![p] = [Idle EXCEPT
                 !.job = "verify", !.rows = ledger,
                 !.pc = IF ledger = <<>> \/ ~Enabled THEN "scan" ELSE "web3"]]
    /\ UNCHANGED <<ledger, mined, pending, classVars, restarts>>

(***************************************************************************)
(* _get_web3 tests the connection only when it creates the object, and     *)
(* keeps the object when that test fails.                                  *)
(***************************************************************************)
GetWeb3(p) ==
    /\ At(p, "web3")
    /\ web3' = TRUE
    /\ \/ th' = [th EXCEPT ![p].pc = "contract", ![p].w3 = TRUE]
       \/ /\ ~web3
          /\ IF th[p].job = "verify"
             THEN th' = [th EXCEPT ![p].pc = "contract"]
             ELSE Unanchored(p)
    /\ UNCHANGED <<ledger, mined, pending, address, instance, restarts>>

(***************************************************************************)
(* The signer's nonce is the number of mined transactions, so a second     *)
(* submission before the first is mined has the nonce of the first, and    *)
(* the node refuses it.                                                    *)
(***************************************************************************)
Submit(tx) ==
    /\ pending = NoTx
    /\ Len(mined) < MaxMined
    /\ pending' = tx

\* _load_contract_data and _deploy_contract up to the submission: without a
\* key or a compiled contract, or refused by the node, there is no contract.
DeployContract(p) ==
    \/ /\ Submit(DeployTx)
       /\ th' = [th EXCEPT ![p].pc = "deployWait", ![p].nonce = Len(mined)]
    \/ Unanchored(p) /\ UNCHANGED pending

\* get_contract, when no contract address is configured
GetContract(p) ==
    /\ At(p, "contract")
    /\ \/ /\ instance # 0
          /\ th' = [th EXCEPT ![p].contract = instance,
                              ![p].pc = IF th[p].job = "verify" THEN "scan"
                                                                ELSE "check"]
          /\ UNCHANGED pending
       \/ /\ instance = 0 /\ address # 0
          /\ th' = [th EXCEPT ![p].pc = "instantiate"]
          /\ UNCHANGED pending
       \/ instance = 0 /\ address = 0 /\ DeployContract(p)
    /\ UNCHANGED <<ledger, mined, classVars, restarts>>

Receipt(p, tx) ==
    /\ th[p].nonce + 1 \in DOMAIN mined
    /\ mined[th[p].nonce + 1].tx = tx

DeployReceipt(p) ==
    /\ At(p, "deployWait")
    /\ Receipt(p, DeployTx)
    /\ address' = th[p].nonce + 1
    /\ th' = [th EXCEPT ![p].pc = "instantiate"]
    /\ UNCHANGED <<ledger, mined, pending, web3, instance, restarts>>

DeployTimeout(p) ==
    /\ At(p, "deployWait")
    /\ Unanchored(p)
    /\ UNCHANGED <<ledger, mined, pending, classVars, restarts>>

\* The instance is made from the class attribute, which another thread may
\* have replaced since this thread deployed.
Instantiate(p) ==
    /\ At(p, "instantiate")
    /\ instance' = address
    /\ th' = [th EXCEPT ![p].contract = address,
                        ![p].pc = IF th[p].job = "verify" THEN "scan" ELSE "check"]
    /\ UNCHANGED <<ledger, mined, pending, web3, address, restarts>>

(***************************************************************************)
(* One attempt to anchor: idempotency check, submission, receipt.          *)
(***************************************************************************)
SetStatus(p, status) == ledger' = [ledger EXCEPT ![th[p].id].status = status]

\* Mutant: the attempt is not counted.
AttemptFailed_NotCounted(p) ==
    /\ th' = [th EXCEPT ![p].pc = "check"]
    /\ UNCHANGED ledger

AttemptFailed(p) ==
    IF th[p].attempt = MaxRetries
    THEN /\ SetStatus(p, "FAILED")
         /\ Finish(p, IF Required THEN "raised" ELSE "returned")
    ELSE /\ th' = [th EXCEPT ![p].pc = "check", ![p].attempt = @ + 1]
         /\ UNCHANGED ledger

\* Mutant: at a retry, a transaction that is still pending counts as the anchor.
CheckAnchor_TrustsPending(p) ==
    /\ At(p, "check")
    /\ \/ /\ \/ AnchorsOf(th[p].contract, th[p].id) # {}
             \/ pending.to = th[p].contract /\ pending.id = th[p].id
          /\ Finish(p, "returned")
       \/ th' = [th EXCEPT ![p].pc = "send"]
    /\ UNCHANGED <<ledger, mined, pending, classVars, restarts>>

\* An anchor that exists ends the loop; the status column is not touched.
CheckAnchor(p) ==
    /\ At(p, "check")
    /\ \/ /\ AnchorsOf(th[p].contract, th[p].id) # {}
          /\ Finish(p, "returned")
       \/ th' = [th EXCEPT ![p].pc = "send"]    \* not anchored, or call failed
    /\ UNCHANGED <<ledger, mined, pending, classVars, restarts>>

\* Mutant: the previous hash is anchored.
MyAnchorTx_PrevHash(p) == AnchorTx(th[p].contract, th[p].id, th[p].prev)

MyAnchorTx(p) == AnchorTx(th[p].contract, th[p].id, BlockHash(p))

SendAnchor(p) ==
    /\ At(p, "send")
    /\ \/ /\ Submit(MyAnchorTx(p))
          /\ th' = [th EXCEPT ![p].pc = "wait", ![p].nonce = Len(mined)]
          /\ UNCHANGED ledger
       \/ /\ AttemptFailed(p)
          /\ UNCHANGED pending
    /\ UNCHANGED <<mined, classVars, restarts>>

\* The address recorded is the class attribute, not the instance used.
AnchorReceipt(p) ==
    /\ At(p, "wait")
    /\ Receipt(p, MyAnchorTx(p))
    /\ IF mined[th[p].nonce + 1].ok
       THEN /\ ledger' = [ledger EXCEPT ![th[p].id] =
                            [@ EXCEPT !.status = "CONFIRMED", !.addr = address,
                                      !.txn = th[p].nonce + 1]]
            /\ Finish(p, "returned")
       ELSE /\ SetStatus(p, "FAILED")
            /\ IF th[p].attempt = MaxRetries
               THEN Finish(p, IF Required THEN "raised" ELSE "returned")
               ELSE th' = [th EXCEPT ![p].pc = "check", ![p].attempt = @ + 1]
    /\ UNCHANGED <<mined, pending, classVars, restarts>>

AnchorTimeout(p) ==
    /\ At(p, "wait")
    /\ AttemptFailed(p)
    /\ UNCHANGED <<mined, pending, classVars, restarts>>

\* The loop of verify_chain; it needs both the web3 object and a contract.
Scan(p) ==
    /\ At(p, "scan")
    /\ \E fault \in Fault :
         Finish(p, VerifyChain(th[p].rows,
                               IF th[p].w3 THEN th[p].contract ELSE 0, fault))
    /\ UNCHANGED <<ledger, mined, pending, classVars, restarts>>

\* The caller has used the result.
Return(p) ==
    /\ At(p, "done")
    /\ th' = [th EXCEPT ![p] = Idle]
    /\ UNCHANGED <<ledger, mined, pending, classVars, restarts>>

-----------------------------------------------------------------------------
(***************************************************************************)
(* The chain: appendAuditAnchor reverts when the sequence number has an    *)
(* anchor already.  The pool may lose a transaction.                       *)
(***************************************************************************)
Mine ==
    /\ pending # NoTx
    /\ mined' = Append(mined, [tx |-> pending,
                               ok |-> AnchorsOf(pending.to, pending.id) = {}])
    /\ pending' = NoTx
    /\ UNCHANGED <<ledger, classVars, th, restarts>>

Drop ==
    /\ pending # NoTx
    /\ pending' = NoTx
    /\ UNCHANGED <<ledger, mined, classVars, th, restarts>>

\* The engine process dies and starts again: rows, chain and transaction
\* pool survive, class attributes and threads do not.
Restart ==
    /\ restarts < MaxRestarts
    /\ restarts' = restarts + 1
    /\ web3' = FALSE /\ address' = 0 /\ instance' = 0
    /\ th' = [p \in Thread |-> Idle]
    /\ UNCHANGED <<ledger, mined, pending>>

Step(p) ==
    \/ InsertBlock(p) \/ InsertRejected(p)
    \/ GetWeb3(p) \/ GetContract(p)
    \/ DeployReceipt(p) \/ DeployTimeout(p) \/ Instantiate(p)
    \/ CheckAnchor(p) \/ SendAnchor(p) \/ AnchorReceipt(p) \/ AnchorTimeout(p)
    \/ Scan(p) \/ Return(p)

AppendBlock(p) == \E body \in Body : ReadPrevious(p, body, "append")
LogAuditEvent(p) == \E body \in Body : ReadPrevious(p, body, "quarantine")

Next ==
    \/ \E p \in Thread : AppendBlock(p) \/ LogAuditEvent(p) \/ ReadBlocks(p) \/ Step(p)
    \/ Mine \/ Drop \/ Restart

Spec == Init /\ [][Next]_vars

\* Threads are scheduled and every wait of theirs has a timeout; nobody
\* promises that a transaction is mined or that anybody calls.
FairSpec == Spec /\ \A p \in Thread : WF_vars(Step(p))
-----------------------------------------------------------------------------
\* Type invariant: rows, transactions, class attributes and thread locals stay
\* within their domains.
TypeOK ==
    /\ ledger \in Seq(Row)
    /\ mined \in Seq([tx: Tx, ok: BOOLEAN])
    /\ pending \in Tx
    /\ web3 \in BOOLEAN
    /\ address \in Nat
    /\ instance \in Nat
    /\ th \in [Thread -> ThreadState]
    /\ restarts \in 0..MaxRestarts

\* The columns that the before_update listener of AuditBlock protects.
Content(row) == [body |-> row.body, prev |-> row.prev, hash |-> row.hash]

\* Rows are append-only (the before_update and before_delete listeners): no
\* step of any thread, nor a restart, removes a row or changes its content,
\* and a row that is CONFIRMED stays so with the same transaction, whatever
\* a late timeout or a retry of another thread does.
AppendOnly ==
    [][/\ Len(ledger) <= Len(ledger')
       /\ \A i \in DOMAIN ledger :
            /\ Content(ledger'[i]) = Content(ledger[i])
            /\ ledger[i].status = "CONFIRMED" => ledger'[i] = ledger[i]]_ledger

\* Whatever the interleaving of the read and the insert of append_block, the
\* rows form a tree rooted at genesis: every row links to genesis or to a row
\* inserted before it, and no two rows have the same hash.
LinksToEarlierRow ==
    \A i \in DOMAIN ledger :
        /\ \/ ledger[i].prev = Genesis
           \/ \E j \in 1..(i - 1) : ledger[j].hash = ledger[i].prev
        /\ \A j \in DOMAIN ledger : ledger[j].hash = ledger[i].hash => j = i

\* Two rows appended after the same row.
Forked == \E i, j \in DOMAIN ledger : i # j /\ ledger[i].prev = ledger[j].prev

\* A stale read of the last row (append_block reads it long before it commits)
\* is the only way to break the chain: as long as no two rows share a
\* predecessor, every row links to the row just before it.
LinearUnlessForked ==
    ~Forked => \A i \in DOMAIN ledger :
                 ledger[i].prev = HashBefore(ledger, i)

\* One thread at a time: read and insert of append_block do not overlap, and
\* every row links to the row before it, across failed anchoring and restarts.
LinearWhenSerial ==
    (\A p, q \in Thread : p = q) =>
        \A i \in DOMAIN ledger : ledger[i].prev = HashBefore(ledger, i)

\* A row marked CONFIRMED names a mined, successful transaction that anchors
\* this row's id with this row's hash, through timeouts, retries, concurrent
\* deployments and restarts.
ConfirmedIsAnchored ==
    \A i \in DOMAIN ledger : ledger[i].status = "CONFIRMED" =>
        \E n \in DOMAIN mined : /\ ledger[i].txn = n
                                /\ mined[n].ok
                                /\ mined[n].tx.id = i
                                /\ mined[n].tx.hash = ledger[i].hash

\* BLOCKCHAIN_REQUIRED is fail-closed: append_block returns normally only when
\* the hash of its row is anchored under its id, also when the receipt timed
\* out and the transaction was mined before the next attempt looked.
RequiredMeansAnchored ==
    Enabled /\ Required =>
      \A p \in Thread :
        (th[p].pc = "done" /\ th[p].job = "append" /\ th[p].result = "returned") =>
          \E n \in DOMAIN mined : /\ mined[n].ok
                                  /\ mined[n].tx.to # 0
                                  /\ mined[n].tx.id = th[p].id
                                  /\ mined[n].tx.hash = ledger[th[p].id].hash

\* A VALID verdict of verify_chain means that the hash of every row it read
\* commits to exactly the bodies of the rows up to it, in order.
ValidIsTruthful ==
    \A p \in Thread :
      (th[p].pc = "done" /\ th[p].job = "verify" /\ th[p].result = "VALID") =>
        \A i \in DOMAIN th[p].rows :
          th[p].rows[i].hash = [k \in 1..i |-> <<th[p].rows[k].body, "canonical">>]

\* Every call ends: the waits time out and the retries are bounded, so no
\* thread stays in append_block or verify_chain when the chain is silent.
CallsEnd == \A p \in Thread : th[p].pc # "idle" ~> th[p].pc = "idle"

\* Appends that overlap do not make verify_chain report a broken link
\* (test_audit_chain.py: rows written by append_block verify).
NoPreviousHashMismatch == \A p \in Thread : th[p].result # "PREVIOUS_HASH_MISMATCH"

\* Rows that the program wrote, those of the quarantine service included, do
\* not make verify_chain report a changed row (test_audit_chain.py).
NoBlockHashMismatch == \A p \in Thread : th[p].result # "BLOCK_HASH_MISMATCH"

\* With anchoring required, an append that returns has a CONFIRMED row
\* (test_bc13: "assert block.blockchain_status == CONFIRMED").
RequiredMeansConfirmed ==
    Enabled /\ Required =>
      \A p \in Thread :
        (th[p].pc = "done" /\ th[p].job = "append" /\ th[p].result = "returned") =>
          ledger[th[p].id].status = "CONFIRMED"
-----------------------------------------------------------------------------
(***************************************************************************)
(* The inductive invariant behind the theorems of AuditLedgerProofs.       *)
(***************************************************************************)
Anchoring(p) ==
    \/ th[p].pc \in {"check", "send", "wait"}
    \/ /\ th[p].job = "append"
       /\ th[p].pc \in {"web3", "contract", "deployWait", "instantiate"}

\* A thread between its insert and the end of the retry loop owns its row:
\* the row carries its hash, is not CONFIRMED, and is nobody else's.
OwnsRow(p) ==
    /\ th[p].job = "append"
    /\ th[p].id \in DOMAIN ledger
    /\ ledger[th[p].id].hash = BlockHash(p)
    /\ ledger[th[p].id].status # "CONFIRMED"

Ownership ==
    /\ \A p \in Thread : th[p].pc \in {"web3", "contract", "deployWait", "instantiate"} =>
                          th[p].job # "quarantine"
    /\ \A p \in Thread : Anchoring(p) => OwnsRow(p)
    /\ \A p, q \in Thread : (Anchoring(p) /\ Anchoring(q) /\ p # q) => th[p].id # th[q].id

\* A thread about to insert holds the hash of some row, or genesis.
DraftLinks ==
    \A p \in Thread : th[p].pc = "insert" =>
        \/ th[p].prev = Genesis
        \/ \E j \in DOMAIN ledger : ledger[j].hash = th[p].prev

\* An anchoring transaction carries the hash of the row it names.
CarriesRowHash(tx) ==
    tx.to # 0 => tx.id \in DOMAIN ledger /\ tx.hash = ledger[tx.id].hash

ChainMatchesRows ==
    /\ CarriesRowHash(pending)
    /\ \A n \in DOMAIN mined : CarriesRowHash(mined[n].tx)

\* Where a thread stands says what it works on: no quarantine row is anchored,
\* and an anchoring attempt has a row and a contract.
Working(p) ==
    /\ th[p].pc \in {"web3", "contract", "deployWait", "instantiate"} =>
         th[p].job # "quarantine"
    /\ th[p].pc \in {"check", "send", "wait"} =>
         /\ th[p].job = "append" /\ th[p].contract # 0
         /\ th[p].id \in DOMAIN ledger
    /\ th[p].pc = "instantiate" => address # 0

\* The contract a thread works with exists.
ContractKnown ==
    \A p \in Thread :
        /\ th[p].pc \in {"check", "send", "wait"} => th[p].contract # 0
        /\ th[p].pc = "instantiate" => address # 0

LedgerInv ==
    /\ TypeOK
    /\ Ownership
    /\ DraftLinks
    /\ LinksToEarlierRow
    /\ ChainMatchesRows
    /\ ContractKnown
    /\ ConfirmedIsAnchored
    /\ RequiredMeansAnchored

-----------------------------------------------------------------------------
(***************************************************************************)
(* The ledger as the trail it implements: the protected columns of the     *)
(* rows, the ids some contract anchors with the hash of their row, and the *)
(* rows with status CONFIRMED.                                             *)
(***************************************************************************)
Published == {i \in DOMAIN ledger :
                \E n \in DOMAIN mined : /\ mined[n].ok /\ mined[n].tx.to # 0
                                        /\ mined[n].tx.id = i
                                        /\ mined[n].tx.hash = ledger[i].hash}

Trail == INSTANCE AuditTrail WITH
    Root <- Genesis,
    trail <- [i \in DOMAIN ledger |-> Content(ledger[i])],
    published <- Published,
    confirmed <- {i \in DOMAIN ledger : ledger[i].status = "CONFIRMED"}

\* Whatever the threads, the chain and a restart interleave, append_block and
\* the quarantine service only ever add an entry, anchor one or confirm one
\* that is anchored: the ledger implements AuditTrail.
ImplementsTrail == Trail!TrailSpec
=============================================================================
