------------------------- MODULE AuditLedgerProofs -------------------------
(***************************************************************************)
(* Proofs about AuditLedger and AuditTamper for any number of threads,     *)
(* rows, transactions, retries, restarts and out-of-band changes.          *)
(***************************************************************************)
EXTENDS AuditTamper, TLAPS

\* The two ways of hashing a row yield digests.
LEMMA HashType ==
    ASSUME NEW body \in Body, NEW prev \in Digest
    PROVE  /\ CalculateHash(body, prev) \in Digest
           /\ QuarantineHash(body, prev) \in Digest
  BY DEF CalculateHash, QuarantineHash, Digest

\* The hash a thread computes from its locals is a digest.
LEMMA BlockHashType ==
    ASSUME TypeOK, NEW p \in Thread
    PROVE  BlockHash(p) \in Digest
  <1>1. th[p].body \in Body /\ th[p].prev \in Digest
    BY DEF TypeOK, ThreadState
  <1> QED
    BY <1>1, HashType DEF BlockHash

\* The initial local state of a thread is well-typed.
LEMMA IdleType == Idle \in ThreadState
  <1>1. (CHOOSE b \in Body : TRUE) \in Body
    BY LedgerAssumption
  <1>2. Genesis \in Digest /\ <<>> \in Seq(Row)
    BY DEF Genesis, Digest
  <1> QED
    BY <1>1, <1>2 DEF Idle, ThreadState, PC, Result

\* append_block and verify_chain read digests from a well-typed table.
LEMMA LastHashType ==
    ASSUME ledger \in Seq(Row)
    PROVE  LastHash(ledger) \in Digest
  <1>1. CASE ledger = <<>>
    BY <1>1 DEF LastHash, HashBefore, Genesis, Digest
  <1>2. CASE ledger # <<>>
    <2>1. Len(ledger) \in Nat \ {0} /\ Len(ledger) \in DOMAIN ledger
      BY <1>2
    <2>2. ledger[Len(ledger)] \in Row
      BY <2>1
    <2> QED
      BY <2>1, <2>2 DEF LastHash, HashBefore, Row
  <1> QED
    BY <1>1, <1>2

\* verify_chain answers with one of its documented reasons.
LEMMA VerdictType ==
    ASSUME NEW rows, NEW contract, NEW fault
    PROVE  VerifyChain(rows, contract, fault) \in Result
  <1>1. ASSUME NEW row, NEW id PROVE OnChainReason(row, id, contract, fault) \in Result
    BY DEF OnChainReason, Result
  <1>2. ASSUME NEW id PROVE RowReason(rows, id, contract, fault) \in Result
    BY <1>1 DEF RowReason, Result
  <1>3. "EMPTY" \in Result /\ "VALID" \in Result
    BY DEF Result
  <1> QED
    BY <1>2, <1>3 DEF VerifyChain

\* Where the invariant holds, every thread works on what its place says.
LEMMA ThreadsWork ==
    ASSUME LedgerInv
    PROVE  TypeOK /\ \A p \in Thread : Working(p)
  BY DEF LedgerInv, Ownership, OwnsRow, Anchoring, ContractKnown, Working

-----------------------------------------------------------------------------
\* The updates of a thread's locals keep them well-typed.
LEMMA LocalsType ==
    ASSUME NEW t \in ThreadState, NEW pc \in PC
    PROVE  /\ [t EXCEPT !.pc = pc] \in ThreadState
           /\ \A r \in Result : [t EXCEPT !.pc = pc, !.result = r] \in ThreadState
           /\ \A n \in Nat : [t EXCEPT !.pc = pc, !.contract = n] \in ThreadState
           /\ \A n \in Nat : [t EXCEPT !.contract = n, !.pc = pc] \in ThreadState
           /\ \A n \in Nat : [t EXCEPT !.pc = pc, !.nonce = n] \in ThreadState
           /\ \A n \in Nat : [t EXCEPT !.pc = pc, !.attempt = n] \in ThreadState
           /\ [t EXCEPT !.pc = pc, !.w3 = TRUE] \in ThreadState
           /\ \A n \in Nat, r \in Result :
                [t EXCEPT !.id = n, !.pc = pc, !.result = r] \in ThreadState
  BY DEF ThreadState

\* Ending a call keeps the threads well-typed.
LEMMA FinishType ==
    ASSUME TypeOK, NEW p \in Thread, NEW r \in Result, Finish(p, r)
    PROVE  th' \in [Thread -> ThreadState]
  <1>1. th[p] \in ThreadState /\ "done" \in PC
    BY DEF TypeOK, PC
  <1>2. [th[p] EXCEPT !.pc = "done", !.result = r] \in ThreadState
    BY <1>1, LocalsType
  <1> QED
    BY <1>2 DEF TypeOK, Finish

\* A failure that leaves the row unanchored keeps the threads well-typed.
LEMMA UnanchoredType ==
    ASSUME TypeOK, NEW p \in Thread, Unanchored(p)
    PROVE  th' \in [Thread -> ThreadState]
  <1>1. CASE th[p].job = "verify"
    <2>1. th' = [th EXCEPT ![p].pc = "scan", ![p].contract = 0]
      BY <1>1 DEF Unanchored
    <2>2. th[p] \in ThreadState /\ "scan" \in PC
      BY DEF TypeOK, PC
    <2>3. [th[p] EXCEPT !.pc = "scan", !.contract = 0] \in ThreadState
      BY <2>2, LocalsType
    <2> QED
      BY <2>1, <2>3 DEF TypeOK
  <1>2. CASE th[p].job # "verify"
    <2>1. (IF Required THEN "raised" ELSE "returned") \in Result
      BY DEF Result
    <2> QED
      BY <1>2, <2>1, FinishType DEF Unanchored
  <1> QED
    BY <1>1, <1>2

\* Changing the status of a row keeps the table well-typed.
LEMMA RowUpdateType ==
    ASSUME ledger \in Seq(Row), NEW i \in DOMAIN ledger, NEW r \in Row
    PROVE  [ledger EXCEPT ![i] = r] \in Seq(Row)
  OBVIOUS

\* A failed attempt keeps rows and threads well-typed.
LEMMA AttemptFailedType ==
    ASSUME TypeOK, NEW p \in Thread, AttemptFailed(p), th[p].id \in DOMAIN ledger
    PROVE  ledger' \in Seq(Row) /\ th' \in [Thread -> ThreadState]
  <1>1. CASE th[p].attempt = MaxRetries
    <2>1. (IF Required THEN "raised" ELSE "returned") \in Result
      BY DEF Result
    <2>2. th' \in [Thread -> ThreadState]
      BY <1>1, <2>1, FinishType DEF AttemptFailed
    <2>3. ledger[th[p].id] \in Row
      BY DEF TypeOK
    <2>4. [ledger[th[p].id] EXCEPT !.status = "FAILED"] \in Row
      BY <2>3 DEF Row, Status
    <2>5. ledger' = [ledger EXCEPT ![th[p].id] =
                        [ledger[th[p].id] EXCEPT !.status = "FAILED"]]
      BY <1>1 DEF AttemptFailed, SetStatus
    <2> QED
      BY <2>2, <2>4, <2>5, RowUpdateType DEF TypeOK
  <1>2. CASE th[p].attempt # MaxRetries
    <2>1. th[p] \in ThreadState /\ "check" \in PC /\ th[p].attempt + 1 \in Nat
      BY DEF TypeOK, PC, ThreadState
    <2>2. [th[p] EXCEPT !.pc = "check", !.attempt = th[p].attempt + 1] \in ThreadState
      BY <2>1, LocalsType
    <2>3. /\ th' = [th EXCEPT ![p] = [th[p] EXCEPT !.pc = "check",
                                                   !.attempt = th[p].attempt + 1]]
          /\ ledger' = ledger
      BY <1>2, <2>1 DEF AttemptFailed, TypeOK
    <2> QED
      BY <2>2, <2>3 DEF TypeOK
  <1> QED
    BY <1>1, <1>2

\* Type correctness is preserved by the steps of a thread.
LEMMA ThreadTypeStep ==
    ASSUME TypeOK, NEW p \in Thread, Working(p),
           AppendBlock(p) \/ LogAuditEvent(p) \/ ReadBlocks(p) \/ Step(p)
    PROVE  TypeOK'
  <1>0. th[p] \in ThreadState /\ BlockHash(p) \in Digest
    BY BlockHashType DEF TypeOK
  <1>a. \A c \in PC : [th EXCEPT ![p].pc = c] \in [Thread -> ThreadState]
    BY <1>0, LocalsType DEF TypeOK
  <1>b. Len(mined) \in Nat /\ th[p].nonce + 1 \in Nat
    BY <1>0 DEF TypeOK, ThreadState
  <1>1. ASSUME NEW body \in Body, NEW job \in {"append", "quarantine"},
               ReadPrevious(p, body, job)
        PROVE  TypeOK'
    <2>1. LastHash(ledger) \in Digest
      BY LastHashType DEF TypeOK
    <2>2. [Idle EXCEPT !.pc = "insert", !.job = job, !.body = body,
                       !.prev = LastHash(ledger)] \in ThreadState
      BY <2>1, IdleType DEF ThreadState, PC
    <2> QED
      BY <1>1, <2>2 DEF ReadPrevious, TypeOK, classVars
  <1>2. CASE InsertBlock(p)
    <2>1. NewRow(th[p].body, th[p].prev, BlockHash(p)) \in Row
      BY <1>0 DEF NewRow, Row, Status, ThreadState
    <2>2. ledger' \in Seq(Row)
      BY <1>2, <2>1 DEF InsertBlock, TypeOK
    <2>3. /\ Len(ledger) + 1 \in Nat /\ "returned" \in Result
          /\ (IF Enabled /\ th[p].job = "append" THEN "web3" ELSE "done") \in PC
      BY DEF TypeOK, PC, Result
    <2>4. th' \in [Thread -> ThreadState]
      BY <1>0, <1>2, <2>3, LocalsType DEF InsertBlock, TypeOK
    <2> QED
      BY <1>2, <2>2, <2>4 DEF InsertBlock, TypeOK, classVars
  <1>3. CASE InsertRejected(p)
    <2>1. "raised" \in Result
      BY DEF Result
    <2> QED
      BY <1>3, <2>1, FinishType DEF InsertRejected, TypeOK, classVars
  <1>4. CASE ReadBlocks(p)
    <2>1. [Idle EXCEPT !.job = "verify", !.rows = ledger,
                       !.pc = IF ledger = <<>> \/ ~Enabled THEN "scan" ELSE "web3"]
             \in ThreadState
      BY IdleType DEF ThreadState, PC, TypeOK
    <2> QED
      BY <1>4, <2>1 DEF ReadBlocks, TypeOK, classVars
  <1>5. CASE GetWeb3(p)
    <2>1. "contract" \in PC
      BY DEF PC
    <2>2. th' \in [Thread -> ThreadState]
      <3>1. CASE th' = [th EXCEPT ![p].pc = "contract", ![p].w3 = TRUE]
        BY <1>0, <2>1, <3>1, LocalsType DEF TypeOK
      <3>2. CASE th' = [th EXCEPT ![p].pc = "contract"]
        BY <1>a, <2>1, <3>2
      <3>3. CASE Unanchored(p)
        BY <3>3, UnanchoredType
      <3> QED
        BY <1>5, <3>1, <3>2, <3>3 DEF GetWeb3
    <2> QED
      BY <1>5, <2>2 DEF GetWeb3, TypeOK
  <1>6. CASE GetContract(p)
    <2>1. DeployTx \in Tx
      BY DEF DeployTx, Tx, Genesis, Digest
    <2>2. pending' \in Tx
      BY <1>6, <2>1 DEF GetContract, DeployContract, Submit, TypeOK
    <2>3. th' \in [Thread -> ThreadState]
      <3>0. /\ (IF th[p].job = "verify" THEN "scan" ELSE "check") \in PC
            /\ "instantiate" \in PC /\ "deployWait" \in PC
        BY DEF PC
      <3>1. CASE th' = [th EXCEPT ![p].contract = instance,
                              ![p].pc = IF th[p].job = "verify" THEN "scan"
                                                                ELSE "check"]
        BY <1>0, <3>0, <3>1, LocalsType DEF TypeOK
      <3>2. CASE th' = [th EXCEPT ![p].pc = "instantiate"]
        BY <1>a, <3>0, <3>2
      <3>3. CASE th' = [th EXCEPT ![p].pc = "deployWait", ![p].nonce = Len(mined)]
        BY <1>0, <1>b, <3>0, <3>3, LocalsType DEF TypeOK
      <3>4. CASE Unanchored(p)
        BY <3>4, UnanchoredType
      <3> QED
        BY <1>6, <3>1, <3>2, <3>3, <3>4 DEF GetContract, DeployContract
    <2> QED
      BY <1>6, <2>2, <2>3 DEF GetContract, DeployContract, TypeOK, classVars
  <1>7. CASE DeployReceipt(p)
    <2>1. "instantiate" \in PC
      BY DEF PC
    <2> QED
      BY <1>7, <1>a, <1>b, <2>1 DEF DeployReceipt, TypeOK
  <1>8. CASE DeployTimeout(p)
    BY <1>8, UnanchoredType DEF DeployTimeout, TypeOK, classVars
  <1>9. CASE Instantiate(p)
    <2>1. (IF th[p].job = "verify" THEN "scan" ELSE "check") \in PC
      BY DEF PC
    <2>2. th' \in [Thread -> ThreadState]
      BY <1>0, <1>9, <2>1, LocalsType DEF Instantiate, TypeOK
    <2> QED
      BY <1>9, <2>2 DEF Instantiate, TypeOK
  <1>10. CASE CheckAnchor(p)
    <2>1. "send" \in PC /\ "returned" \in Result
      BY DEF PC, Result
    <2>2. th' \in [Thread -> ThreadState]
      BY <1>10, <1>a, <2>1, FinishType DEF CheckAnchor
    <2> QED
      BY <1>10, <2>2 DEF CheckAnchor, TypeOK, classVars
  <1>c. th[p].pc \in {"send", "wait"} => th[p].id \in DOMAIN ledger
    BY DEF Working
  <1>11. CASE SendAnchor(p)
    <2>1. MyAnchorTx(p) \in Tx
      BY <1>0 DEF MyAnchorTx, AnchorTx, Tx, ThreadState
    <2>2. pending' \in Tx
      BY <1>11, <2>1 DEF SendAnchor, Submit, TypeOK
    <2>3. "wait" \in PC
      BY DEF PC
    <2>4. ledger' \in Seq(Row) /\ th' \in [Thread -> ThreadState]
      <3>1. CASE th' = [th EXCEPT ![p].pc = "wait", ![p].nonce = Len(mined)]
                 /\ UNCHANGED ledger
        BY <1>0, <1>b, <2>3, <3>1, LocalsType DEF TypeOK
      <3>2. CASE AttemptFailed(p)
        BY <1>c, <1>11, <3>2, AttemptFailedType DEF SendAnchor, At
      <3> QED
        BY <1>11, <3>1, <3>2 DEF SendAnchor
    <2> QED
      BY <1>11, <2>2, <2>4 DEF SendAnchor, TypeOK, classVars
  <1>12. CASE AnchorReceipt(p)
    <2>0. th[p].id \in DOMAIN ledger /\ ledger[th[p].id] \in Row
      BY <1>c, <1>12 DEF AnchorReceipt, At, TypeOK
    <2>1. ledger' \in Seq(Row)
      <3>1. CASE mined[th[p].nonce + 1].ok
        <4> DEFINE r == [ledger[th[p].id] EXCEPT !.status = "CONFIRMED",
                             !.addr = address, !.txn = th[p].nonce + 1]
        <4>1. r \in Row
          BY <1>b, <2>0 DEF Row, Status, TypeOK
        <4>2. ledger' = [ledger EXCEPT ![th[p].id] = r]
          BY <1>12, <3>1 DEF AnchorReceipt
        <4> HIDE DEF r
        <4> QED
          BY <2>0, <4>1, <4>2, RowUpdateType DEF TypeOK
      <3>2. CASE ~mined[th[p].nonce + 1].ok
        <4> DEFINE r == [ledger[th[p].id] EXCEPT !.status = "FAILED"]
        <4>1. r \in Row
          BY <2>0 DEF Row, Status
        <4>2. ledger' = [ledger EXCEPT ![th[p].id] = r]
          BY <1>12, <3>2 DEF AnchorReceipt, SetStatus
        <4> HIDE DEF r
        <4> QED
          BY <2>0, <4>1, <4>2, RowUpdateType DEF TypeOK
      <3> QED
        BY <3>1, <3>2
    <2>2. th' \in [Thread -> ThreadState]
      <3>1. /\ "check" \in PC /\ "returned" \in Result /\ "raised" \in Result
            /\ th[p].attempt + 1 \in Nat
        BY <1>0 DEF PC, Result, ThreadState
      <3>2. CASE th' = [th EXCEPT ![p].pc = "check", ![p].attempt = @ + 1]
        BY <1>0, <3>1, <3>2, LocalsType DEF TypeOK
      <3>3. CASE \E r \in Result : Finish(p, r)
        BY <3>3, FinishType
      <3> QED
        BY <1>12, <3>1, <3>2, <3>3 DEF AnchorReceipt
    <2> QED
      BY <1>12, <2>1, <2>2 DEF AnchorReceipt, TypeOK, classVars
  <1>13. CASE AnchorTimeout(p)
    BY <1>c, <1>13, AttemptFailedType DEF AnchorTimeout, At, TypeOK, classVars
  <1>14. CASE Scan(p)
    BY <1>14, FinishType, VerdictType DEF Scan, TypeOK, classVars
  <1>15. CASE Return(p)
    BY <1>15, IdleType DEF Return, TypeOK, classVars
  <1> QED
    BY <1>1, <1>2, <1>3, <1>4, <1>5, <1>6, <1>7, <1>8, <1>9, <1>10, <1>11,
       <1>12, <1>13, <1>14, <1>15 DEF Step, AppendBlock, LogAuditEvent

\* So it is by the chain, the transaction pool and a restart.
LEMMA EnvironmentTypeStep ==
    ASSUME TypeOK, Mine \/ Drop \/ Restart \/ UNCHANGED vars
    PROVE  TypeOK'
  <1>0. NoTx \in Tx
    BY DEF NoTx, Tx, Genesis, Digest
  <1>1. CASE Mine
    <2>1. (AnchorsOf(pending.to, pending.id) = {}) \in BOOLEAN
      OBVIOUS
    <2>2. [tx |-> pending, ok |-> AnchorsOf(pending.to, pending.id) = {}]
             \in [tx: Tx, ok: BOOLEAN]
      BY <2>1 DEF TypeOK
    <2>3. mined' \in Seq([tx: Tx, ok: BOOLEAN])
      BY <1>1, <2>2 DEF Mine, TypeOK
    <2> QED
      BY <1>0, <1>1, <2>3 DEF Mine, TypeOK, classVars
  <1>2. CASE Drop
    BY <1>0, <1>2 DEF Drop, TypeOK, classVars
  <1>3. CASE Restart
    <2>1. th' \in [Thread -> ThreadState]
      BY <1>3, IdleType DEF Restart
    <2>2. restarts' \in 0..MaxRestarts
      BY <1>3, LedgerAssumption DEF Restart, TypeOK
    <2> QED
      BY <1>3, <2>1, <2>2 DEF Restart, TypeOK
  <1>4. CASE UNCHANGED vars
    BY <1>4 DEF vars, TypeOK
  <1> QED
    BY <1>1, <1>2, <1>3, <1>4

-----------------------------------------------------------------------------
ThreadStep(p) == AppendBlock(p) \/ LogAuditEvent(p) \/ ReadBlocks(p) \/ Step(p)

\* A step of a thread touches the locals of no other thread.
LEMMA OthersKept ==
    ASSUME TypeOK, NEW p \in Thread, ThreadStep(p)
    PROVE  \A q \in Thread : q # p => th'[q] = th[q]
  BY DEF TypeOK, ThreadStep, AppendBlock, LogAuditEvent, ReadPrevious, ReadBlocks,
         Step, InsertBlock, InsertRejected, GetWeb3, GetContract, DeployContract, DeployReceipt,
         DeployTimeout, Instantiate, CheckAnchor, SendAnchor, AnchorReceipt,
         AnchorTimeout, Scan, Return, Finish, Unanchored, AttemptFailed

\* What a step of a thread does to the table: it inserts one row, or sets the
\* anchoring columns of the row the thread owns, or leaves the table alone.
LEMMA LedgerEffect ==
    ASSUME TypeOK, NEW p \in Thread, Working(p), ThreadStep(p)
    PROVE  \/ InsertBlock(p)
           \/ UNCHANGED ledger
           \/ /\ th[p].pc \in {"send", "wait"}
              /\ \E r \in Row : /\ Content(r) = Content(ledger[th[p].id])
                               /\ ledger' = [ledger EXCEPT ![th[p].id] = r]
  <1>0. th[p].pc \in {"send", "wait"} =>
            th[p].id \in DOMAIN ledger /\ ledger[th[p].id] \in Row
    BY DEF Working, TypeOK
  <1>1. ASSUME AttemptFailed(p), th[p].pc \in {"send", "wait"}
        PROVE  \/ UNCHANGED ledger
               \/ \E r \in Row : /\ Content(r) = Content(ledger[th[p].id])
                                /\ ledger' = [ledger EXCEPT ![th[p].id] = r]
    <2> DEFINE r == [ledger[th[p].id] EXCEPT !.status = "FAILED"]
    <2>1. r \in Row /\ Content(r) = Content(ledger[th[p].id])
      BY <1>0, <1>1 DEF Row, Status, Content
    <2>2. UNCHANGED ledger \/ ledger' = [ledger EXCEPT ![th[p].id] = r]
      BY <1>1 DEF AttemptFailed, SetStatus
    <2> HIDE DEF r
    <2> QED
      BY <2>1, <2>2
  <1>2. CASE SendAnchor(p)
    BY <1>1, <1>2 DEF SendAnchor, At
  <1>3. CASE AnchorTimeout(p)
    BY <1>1, <1>3 DEF AnchorTimeout, At
  <1>4. CASE AnchorReceipt(p)
    <2>0. address \in Nat /\ th[p].nonce + 1 \in Nat
      BY DEF TypeOK, ThreadState
    <2>1. CASE mined[th[p].nonce + 1].ok
      <3> DEFINE r == [ledger[th[p].id] EXCEPT !.status = "CONFIRMED",
                           !.addr = address, !.txn = th[p].nonce + 1]
      <3>1. r \in Row /\ Content(r) = Content(ledger[th[p].id])
        BY <1>0, <1>4, <2>0 DEF Row, Status, Content, AnchorReceipt, At
      <3>2. ledger' = [ledger EXCEPT ![th[p].id] = r]
        BY <1>4, <2>1 DEF AnchorReceipt
      <3> HIDE DEF r
      <3> QED
        BY <1>4, <3>1, <3>2 DEF AnchorReceipt, At
    <2>2. CASE ~mined[th[p].nonce + 1].ok
      <3> DEFINE r == [ledger[th[p].id] EXCEPT !.status = "FAILED"]
      <3>1. r \in Row /\ Content(r) = Content(ledger[th[p].id])
        BY <1>0, <1>4 DEF Row, Status, Content, AnchorReceipt, At
      <3>2. ledger' = [ledger EXCEPT ![th[p].id] = r]
        BY <1>4, <2>2 DEF AnchorReceipt, SetStatus
      <3> HIDE DEF r
      <3> QED
        BY <1>4, <3>1, <3>2 DEF AnchorReceipt, At
    <2> QED
      BY <2>1, <2>2
  <1> QED
    BY <1>2, <1>3, <1>4 DEF ThreadStep, AppendBlock, LogAuditEvent, ReadPrevious,
       ReadBlocks, Step, InsertRejected, GetWeb3, GetContract, DeployContract, DeployReceipt,
       DeployTimeout, Instantiate, CheckAnchor, Scan, Return

\* Every step keeps the rows and their content, and does not touch CONFIRMED
\* rows: a status is only set by the thread that owns the row.
LEMMA RowsKept ==
    ASSUME LedgerInv, [Next]_vars
    PROVE  /\ Len(ledger') \in Nat /\ Len(ledger) <= Len(ledger')
           /\ DOMAIN ledger = 1..Len(ledger) /\ DOMAIN ledger' = 1..Len(ledger')
           /\ \A i \in DOMAIN ledger :
                /\ Content(ledger'[i]) = Content(ledger[i])
                /\ ledger[i].status = "CONFIRMED" => ledger'[i] = ledger[i]
  <1>0. ledger \in Seq(Row) /\ Len(ledger) \in Nat /\ DOMAIN ledger = 1..Len(ledger)
    BY DEF LedgerInv, TypeOK
  <1>1. CASE UNCHANGED ledger
    BY <1>0, <1>1
  <1>2. ASSUME NEW p \in Thread, ThreadStep(p), ~UNCHANGED ledger
        PROVE  /\ Len(ledger') \in Nat /\ Len(ledger) <= Len(ledger')
               /\ DOMAIN ledger' = 1..Len(ledger')
               /\ \A i \in DOMAIN ledger :
                    /\ Content(ledger'[i]) = Content(ledger[i])
                    /\ ledger[i].status = "CONFIRMED" => ledger'[i] = ledger[i]
    <2>1. CASE InsertBlock(p)
      <3>1. \E r : ledger' = Append(ledger, r)
        BY <2>1 DEF InsertBlock
      <3> QED
        BY <1>0, <3>1
    <2>2. ASSUME th[p].pc \in {"send", "wait"}, NEW r \in Row,
                 Content(r) = Content(ledger[th[p].id]),
                 ledger' = [ledger EXCEPT ![th[p].id] = r]
          PROVE  /\ Len(ledger') \in Nat /\ Len(ledger) <= Len(ledger')
                 /\ DOMAIN ledger' = 1..Len(ledger')
                 /\ \A i \in DOMAIN ledger :
                      /\ Content(ledger'[i]) = Content(ledger[i])
                      /\ ledger[i].status = "CONFIRMED" => ledger'[i] = ledger[i]
      <3>1. th[p].id \in DOMAIN ledger /\ ledger[th[p].id].status # "CONFIRMED"
        BY <2>2 DEF LedgerInv, Ownership, OwnsRow, Anchoring
      <3>2. Len(ledger') = Len(ledger) /\ DOMAIN ledger' = DOMAIN ledger
        BY <1>0, <2>2
      <3>3. \A i \in DOMAIN ledger : ledger'[i] = IF i = th[p].id THEN r ELSE ledger[i]
        BY <1>0, <2>2
      <3> QED
        BY <1>0, <2>2, <3>1, <3>2, <3>3
    <2> QED
      BY <1>2, <2>1, <2>2, LedgerEffect, ThreadsWork
  <1>3. [Next]_vars => UNCHANGED ledger \/ \E p \in Thread : ThreadStep(p)
    BY DEF Next, vars, Mine, Drop, Restart, ThreadStep
  <1> QED
    BY <1>0, <1>1, <1>2, <1>3

\* A row that a step adds is the one InsertBlock builds, at the end.
LEMMA InsertEffect ==
    ASSUME TypeOK, NEW p \in Thread, InsertBlock(p)
    PROVE  /\ DOMAIN ledger' = 1..(Len(ledger) + 1)
           /\ Len(ledger') = Len(ledger) + 1
           /\ \A i \in DOMAIN ledger : ledger'[i] = ledger[i]
           /\ ledger'[Len(ledger) + 1] = NewRow(th[p].body, th[p].prev, BlockHash(p))
           /\ th'[p].id = Len(ledger) + 1 /\ th'[p].job = th[p].job
           /\ th'[p].body = th[p].body /\ th'[p].prev = th[p].prev
           /\ th'[p].pc = IF Enabled /\ th[p].job = "append" THEN "web3" ELSE "done"
           /\ th'[p].result = "returned"
  <1>0. ledger \in Seq(Row) /\ Len(ledger) \in Nat
    BY DEF TypeOK
  <1>1. ledger' = Append(ledger, NewRow(th[p].body, th[p].prev, BlockHash(p)))
    BY DEF InsertBlock
  <1>2. th[p] \in ThreadState /\ th \in [Thread -> ThreadState]
    BY DEF TypeOK
  <1>3. th'[p] = [th[p] EXCEPT !.id = Len(ledger) + 1,
                     !.pc = IF Enabled /\ th[p].job = "append" THEN "web3" ELSE "done",
                     !.result = "returned"]
    BY <1>2 DEF InsertBlock
  <1> QED
    BY <1>0, <1>1, <1>2, <1>3 DEF ThreadState

\* Rows keep forming a tree with distinct hashes.
LEMMA LinksStep ==
    ASSUME LedgerInv, [Next]_vars
    PROVE  LinksToEarlierRow'
  <1>1. ASSUME NEW p \in Thread, InsertBlock(p)
        PROVE  LinksToEarlierRow'
    <2> DEFINE n == Len(ledger) + 1
    <2>0. ledger \in Seq(Row) /\ Len(ledger) \in Nat /\ DOMAIN ledger = 1..Len(ledger)
      BY DEF LedgerInv, TypeOK
    <2>a. ledger'[n] = NewRow(th[p].body, th[p].prev, BlockHash(p))
      BY <1>1, InsertEffect, ThreadsWork
    <2>1. /\ DOMAIN ledger' = 1..n
          /\ \A i \in DOMAIN ledger : ledger'[i] = ledger[i]
          /\ ledger'[n].prev = th[p].prev /\ ledger'[n].hash = BlockHash(p)
      BY <1>1, <2>a, InsertEffect, ThreadsWork DEF NewRow
    <2>2. \A i \in DOMAIN ledger : ledger[i].hash # BlockHash(p)
      BY <1>1 DEF InsertBlock
    <2>3. th[p].prev = Genesis \/ \E j \in DOMAIN ledger : ledger[j].hash = th[p].prev
      BY <1>1 DEF InsertBlock, At, LedgerInv, DraftLinks
    <2> HIDE DEF n
    <2>4. n = Len(ledger) + 1
      BY DEF n
    <2> QED
      BY <2>0, <2>1, <2>2, <2>3, <2>4 DEF LedgerInv, LinksToEarlierRow
  <1>2. ASSUME DOMAIN ledger' = DOMAIN ledger
        PROVE  LinksToEarlierRow'
    <2>1. \A i \in DOMAIN ledger : ledger'[i].prev = ledger[i].prev
                                    /\ ledger'[i].hash = ledger[i].hash
      BY RowsKept DEF Content
    <2>2. DOMAIN ledger = 1..Len(ledger) /\ Len(ledger) \in Nat
      BY DEF LedgerInv, TypeOK
    <2> QED
      BY <1>2, <2>1, <2>2 DEF LedgerInv, LinksToEarlierRow
  <1>3. ASSUME NEW p \in Thread, ThreadStep(p), ~InsertBlock(p)
        PROVE  DOMAIN ledger' = DOMAIN ledger
    BY <1>3, LedgerEffect, ThreadsWork DEF LedgerInv, TypeOK
  <1>4. [Next]_vars => UNCHANGED ledger \/ \E p \in Thread : ThreadStep(p)
    BY DEF Next, vars, Mine, Drop, Restart, ThreadStep
  <1> QED
    BY <1>1, <1>2, <1>3, <1>4

\* What a step other than the insert does to the locals of its thread: a
\* thread that is anchoring afterwards was anchoring before, for the same row.
LEMMA LocalEffect ==
    ASSUME TypeOK, NEW p \in Thread, Working(p), ThreadStep(p), ~InsertBlock(p)
    PROVE  /\ th'[p].pc = "insert" => th'[p].prev = LastHash(ledger)
           /\ th'[p].pc \in {"web3", "contract", "deployWait", "instantiate"} =>
                th'[p].job # "quarantine"
           /\ Anchoring(p)' =>
                /\ Anchoring(p)
                /\ th'[p].job = th[p].job /\ th'[p].id = th[p].id
                /\ th'[p].body = th[p].body /\ th'[p].prev = th[p].prev
           /\ th'[p].pc \in {"check", "send", "wait"} => th'[p].contract # 0
           /\ th'[p].pc = "instantiate" => address' # 0
  <1>0. th \in [Thread -> ThreadState] /\ address \in Nat /\ th[p] \in ThreadState
    BY DEF TypeOK
  <1>a. /\ th[p].pc \in {"web3", "contract", "deployWait", "instantiate"} =>
             th[p].job # "quarantine"
        /\ th[p].pc \in {"check", "send", "wait"} =>
             th[p].contract # 0 /\ th[p].job = "append"
        /\ th[p].pc = "instantiate" => address # 0
        /\ th[p].job \in {"append", "quarantine", "verify"}
    BY <1>0 DEF Working, ThreadState
  <1> USE DEF Anchoring, At
  <1>1. CASE AppendBlock(p) \/ LogAuditEvent(p)
    <2>1. PICK body \in Body, job \in {"append", "quarantine"} : ReadPrevious(p, body, job)
      BY <1>1 DEF AppendBlock, LogAuditEvent
    <2>2. th'[p] = [Idle EXCEPT !.pc = "insert", !.job = job, !.body = body,
                                !.prev = LastHash(ledger)]
      BY <1>0, <2>1 DEF ReadPrevious
    <2>3. th'[p].pc = "insert" /\ th'[p].prev = LastHash(ledger)
      BY <2>2, IdleType DEF ThreadState
    <2> QED
      BY <2>3
  <1>2. CASE ReadBlocks(p)
    BY <1>0, <1>2 DEF ReadBlocks, Idle
  <1>3. CASE InsertRejected(p) \/ Scan(p)
    BY <1>0, <1>3 DEF InsertRejected, Scan, Finish, ThreadState
  <1>4. ASSUME Unanchored(p)
        PROVE  th'[p].pc \in {"scan", "done"}
    BY <1>0, <1>4 DEF Unanchored, Finish, ThreadState
  <1>5. CASE GetWeb3(p)
    BY <1>0, <1>a, <1>4, <1>5 DEF GetWeb3, ThreadState
  <1>6. CASE GetContract(p)
    <2>1. CASE Unanchored(p)
      BY <1>4, <2>1
    <2>2. CASE ~Unanchored(p)
      BY <1>0, <1>a, <1>6, <2>2 DEF GetContract, DeployContract, classVars, ThreadState
    <2> QED
      BY <2>1, <2>2
  <1>7. CASE DeployReceipt(p)
    BY <1>0, <1>a, <1>7 DEF DeployReceipt, ThreadState
  <1>8. CASE DeployTimeout(p)
    BY <1>4, <1>8 DEF DeployTimeout
  <1>9. CASE Instantiate(p)
    BY <1>0, <1>a, <1>9 DEF Instantiate, ThreadState
  <1>10. CASE CheckAnchor(p)
    BY <1>0, <1>a, <1>10 DEF CheckAnchor, Finish, ThreadState
  <1>11. ASSUME AttemptFailed(p)
         PROVE  \/ th'[p].pc = "done"
                \/ /\ th'[p].pc = "check" /\ th'[p].contract = th[p].contract
                   /\ th'[p].job = th[p].job /\ th'[p].id = th[p].id
                   /\ th'[p].body = th[p].body /\ th'[p].prev = th[p].prev
    BY <1>0, <1>11 DEF AttemptFailed, Finish, ThreadState
  <1>12. CASE SendAnchor(p)
    BY <1>0, <1>a, <1>11, <1>12 DEF SendAnchor, ThreadState
  <1>13. CASE AnchorReceipt(p)
    BY <1>0, <1>a, <1>13 DEF AnchorReceipt, Finish, ThreadState
  <1>14. CASE AnchorTimeout(p)
    BY <1>0, <1>a, <1>11, <1>14 DEF AnchorTimeout
  <1>15. CASE Return(p)
    BY <1>0, <1>15 DEF Return, Idle
  <1> QED
    BY <1>1, <1>2, <1>3, <1>5, <1>6, <1>7, <1>8, <1>9, <1>10, <1>12, <1>13,
       <1>14, <1>15 DEF ThreadStep, Step

\* A thread that is still anchoring after its step has not confirmed its row.
LEMMA StillUnconfirmed ==
    ASSUME LedgerInv, NEW p \in Thread, ThreadStep(p), ~InsertBlock(p), Anchoring(p)'
    PROVE  ledger'[th[p].id].status # "CONFIRMED"
  <1>0. /\ th \in [Thread -> ThreadState] /\ th[p] \in ThreadState
        /\ ledger \in Seq(Row) /\ th[p].id \in DOMAIN ledger
        /\ ledger[th[p].id].status # "CONFIRMED" /\ ledger[th[p].id] \in Row
    BY LocalEffect, ThreadsWork DEF LedgerInv, TypeOK, Ownership, OwnsRow
  <1>1. CASE UNCHANGED ledger
    BY <1>0, <1>1
  <1>2. ASSUME AttemptFailed(p), ~UNCHANGED ledger
        PROVE  FALSE
    BY <1>0, <1>2 DEF AttemptFailed, Finish, Anchoring, ThreadState
  <1>3. CASE AnchorReceipt(p)
    <2>1. CASE mined[th[p].nonce + 1].ok
      BY <1>0, <1>3, <2>1 DEF AnchorReceipt, Finish, Anchoring, ThreadState
    <2>2. CASE ~mined[th[p].nonce + 1].ok
      <3>1. ledger' = [ledger EXCEPT ![th[p].id].status = "FAILED"]
        BY <1>3, <2>2 DEF AnchorReceipt, SetStatus
      <3> QED
        BY <1>0, <3>1 DEF Row
    <2> QED
      BY <2>1, <2>2
  <1> QED
    BY <1>1, <1>2, <1>3 DEF ThreadStep, AppendBlock, LogAuditEvent, ReadPrevious,
       ReadBlocks, Step, InsertRejected, GetWeb3, GetContract, DeployContract, DeployReceipt,
       DeployTimeout, Instantiate, CheckAnchor, SendAnchor, AnchorTimeout, Scan, Return

\* A thread's step does not touch the row another thread is anchoring.
LEMMA OtherRowKept ==
    ASSUME LedgerInv, NEW p \in Thread, ThreadStep(p),
           NEW q \in Thread, q # p, Anchoring(q)
    PROVE  /\ th[q].id \in DOMAIN ledger /\ th[q].id \in DOMAIN ledger'
           /\ ledger'[th[q].id] = ledger[th[q].id]
  <1>0. th[q].id \in DOMAIN ledger /\ ledger \in Seq(Row)
    BY DEF LedgerInv, TypeOK, Ownership, OwnsRow
  <1>1. CASE InsertBlock(p)
    <2>1. Len(ledger) \in Nat /\ DOMAIN ledger = 1..Len(ledger)
      BY <1>0
    <2> QED
      BY <1>0, <1>1, <2>1, InsertEffect, ThreadsWork
  <1>2. CASE UNCHANGED ledger
    BY <1>0, <1>2
  <1>3. ASSUME th[p].pc \in {"send", "wait"}, NEW r \in Row,
               ledger' = [ledger EXCEPT ![th[p].id] = r]
        PROVE  th[q].id \in DOMAIN ledger' /\ ledger'[th[q].id] = ledger[th[q].id]
    <2>1. th[q].id # th[p].id
      BY <1>3 DEF LedgerInv, Ownership, Anchoring
    <2> QED
      BY <1>0, <1>3, <2>1
  <1> QED
    BY <1>0, <1>1, <1>2, <1>3, LedgerEffect, ThreadsWork

\* Threads keep owning the rows they anchor.
LEMMA OwnershipStep ==
    ASSUME LedgerInv, NEW p \in Thread, ThreadStep(p)
    PROVE  Ownership'
  <1>0. /\ ledger \in Seq(Row) /\ Len(ledger) \in Nat /\ DOMAIN ledger = 1..Len(ledger)
        /\ \A q \in Thread : q # p => th'[q] = th[q]
    BY OthersKept DEF LedgerInv, TypeOK
  <1>1. ASSUME NEW q \in Thread, q # p
        PROVE  /\ Anchoring(q)' <=> Anchoring(q)
               /\ BlockHash(q)' = BlockHash(q)
               /\ Anchoring(q)' => OwnsRow(q)'
               /\ th'[q].pc \in {"web3", "contract", "deployWait", "instantiate"} =>
                    th'[q].job # "quarantine"
    <2>1. /\ Anchoring(q)' <=> Anchoring(q)
          /\ BlockHash(q)' = BlockHash(q)
      BY <1>0, <1>1 DEF Anchoring, BlockHash
    <2>2. ASSUME Anchoring(q) PROVE OwnsRow(q)'
      BY <1>0, <1>1, <2>1, <2>2, OtherRowKept DEF OwnsRow, LedgerInv, Ownership
    <2> QED
      BY <1>0, <1>1, <2>1, <2>2 DEF LedgerInv, Ownership
  <1>2. CASE InsertBlock(p)
    <2>1. /\ th'[p].id = Len(ledger) + 1 /\ th'[p].job = th[p].job
          /\ th'[p].body = th[p].body /\ th'[p].prev = th[p].prev
          /\ th'[p].pc = IF Enabled /\ th[p].job = "append" THEN "web3" ELSE "done"
          /\ DOMAIN ledger' = 1..(Len(ledger) + 1)
          /\ ledger'[Len(ledger) + 1] = NewRow(th[p].body, th[p].prev, BlockHash(p))
      BY <1>2, InsertEffect, ThreadsWork
    <2>2. BlockHash(p)' = BlockHash(p)
      BY <2>1 DEF BlockHash
    <2>3. /\ ledger'[Len(ledger) + 1].hash = BlockHash(p)
          /\ ledger'[Len(ledger) + 1].status = "LOCAL_ONLY"
      BY <2>1 DEF NewRow
    <2>4. Anchoring(p)' => OwnsRow(p)'
      BY <1>0, <2>1, <2>2, <2>3 DEF Anchoring, OwnsRow
    <2>5. \A q \in Thread : q # p /\ Anchoring(q) => th[q].id \in 1..Len(ledger)
      BY <1>0 DEF LedgerInv, Ownership, OwnsRow
    <2>6. \A q \in Thread : q # p /\ Anchoring(q)' => th'[q].id # th'[p].id
      BY <1>0, <1>1, <2>1, <2>5
    <2>7. \A q, r \in Thread : (Anchoring(q)' /\ Anchoring(r)' /\ q # r) => th'[q].id # th'[r].id
      BY <1>0, <1>1, <2>6 DEF LedgerInv, Ownership
    <2> QED
      BY <1>1, <2>1, <2>4, <2>7 DEF Ownership
  <1>3. CASE ~InsertBlock(p)
    <2>1. Anchoring(p)' => /\ Anchoring(p) /\ th'[p].id = th[p].id
                           /\ th'[p].job = th[p].job
                           /\ BlockHash(p)' = BlockHash(p)
      BY <1>3, LocalEffect, ThreadsWork DEF BlockHash
    <2>2. ASSUME Anchoring(p)' PROVE OwnsRow(p)'
      <3>1. th[p].id \in DOMAIN ledger /\ OwnsRow(p)
        BY <2>1, <2>2 DEF LedgerInv, Ownership, OwnsRow
      <3>2. th[p].id \in DOMAIN ledger' /\ ledger'[th[p].id].hash = ledger[th[p].id].hash
        <4>1. Next
          BY DEF Next, ThreadStep
        <4>2. /\ DOMAIN ledger' = 1..Len(ledger') /\ Len(ledger) <= Len(ledger')
              /\ Len(ledger') \in Nat
              /\ Content(ledger'[th[p].id]) = Content(ledger[th[p].id])
          BY <3>1, <4>1, RowsKept
        <4>3. th[p].id \in DOMAIN ledger'
          BY <1>0, <3>1, <4>2
        <4> QED
          BY <4>2, <4>3 DEF Content
      <3> QED
        BY <1>3, <2>1, <2>2, <3>1, <3>2, StillUnconfirmed DEF OwnsRow
    <2>3. \A q, r \in Thread : (Anchoring(q)' /\ Anchoring(r)' /\ q # r) => th'[q].id # th'[r].id
      BY <1>0, <1>1, <2>1 DEF LedgerInv, Ownership
    <2>4. th'[p].pc \in {"web3", "contract", "deployWait", "instantiate"} =>
                th'[p].job # "quarantine"
      BY <1>3, LocalEffect, ThreadsWork
    <2> QED
      BY <1>1, <2>2, <2>3, <2>4 DEF Ownership
  <1> QED
    BY <1>2, <1>3

\* A hash found in the table stays there, under the same id.
LEMMA HashesStay ==
    ASSUME LedgerInv, [Next]_vars, NEW i \in DOMAIN ledger
    PROVE  i \in DOMAIN ledger' /\ ledger'[i].hash = ledger[i].hash
  <1>1. /\ DOMAIN ledger' = 1..Len(ledger') /\ DOMAIN ledger = 1..Len(ledger)
        /\ Len(ledger) <= Len(ledger') /\ Len(ledger') \in Nat
        /\ Content(ledger'[i]) = Content(ledger[i])
    BY RowsKept
  <1>2. Len(ledger) \in Nat
    BY DEF LedgerInv, TypeOK
  <1> QED
    BY <1>1, <1>2 DEF Content

\* The hash a thread reads before its insert is in the table, or genesis.
LEMMA LastHashInTable ==
    ASSUME LedgerInv
    PROVE  LastHash(ledger) = Genesis \/ \E j \in DOMAIN ledger : ledger[j].hash = LastHash(ledger)
  <1>1. Len(ledger) \in Nat /\ DOMAIN ledger = 1..Len(ledger)
    BY DEF LedgerInv, TypeOK
  <1>2. CASE Len(ledger) = 0
    BY <1>1, <1>2 DEF LastHash, HashBefore
  <1>3. CASE Len(ledger) # 0
    <2>1. Len(ledger) \in DOMAIN ledger /\ LastHash(ledger) = ledger[Len(ledger)].hash
      BY <1>1, <1>3 DEF LastHash, HashBefore
    <2> QED
      BY <2>1
  <1> QED
    BY <1>2, <1>3

\* A thread about to insert keeps holding genesis or the hash of some row.
LEMMA DraftStep ==
    ASSUME LedgerInv, NEW p \in Thread, ThreadStep(p)
    PROVE  DraftLinks'
  <1>0. Next
    BY DEF Next, ThreadStep
  <1>1. ASSUME NEW h, h = Genesis \/ \E j \in DOMAIN ledger : ledger[j].hash = h
        PROVE  h = Genesis \/ \E j \in DOMAIN ledger' : ledger'[j].hash = h
    BY <1>0, <1>1, HashesStay
  <1>2. ASSUME NEW q \in Thread, th'[q].pc = "insert"
        PROVE  th'[q].prev = Genesis \/ \E j \in DOMAIN ledger : ledger[j].hash = th'[q].prev
    <2>1. CASE q # p
      BY <1>2, <2>1, OthersKept DEF LedgerInv, DraftLinks
    <2>2. CASE q = p /\ InsertBlock(p)
      BY <1>2, <2>2, InsertEffect, ThreadsWork
    <2>3. CASE q = p /\ ~InsertBlock(p)
      BY <1>2, <2>3, LocalEffect, ThreadsWork, LastHashInTable
    <2> QED
      BY <2>1, <2>2, <2>3
  <1> QED
    BY <1>1, <1>2 DEF DraftLinks

\* A transaction keeps carrying the hash of its row.
LEMMA CarriesStays ==
    ASSUME LedgerInv, [Next]_vars, NEW tx, CarriesRowHash(tx)
    PROVE  tx.to # 0 => tx.id \in DOMAIN ledger' /\ tx.hash = ledger'[tx.id].hash
  BY HashesStay DEF CarriesRowHash

\* Every step keeps pending and mined anchors in agreement with the table.
LEMMA ChainStep ==
    ASSUME LedgerInv, [Next]_vars
    PROVE  ChainMatchesRows'
  <1>0. mined \in Seq([tx: Tx, ok: BOOLEAN]) /\ pending \in Tx
    BY DEF LedgerInv, TypeOK
  <1>1. CarriesRowHash(pending) /\ \A n \in DOMAIN mined : CarriesRowHash(mined[n].tx)
    BY DEF LedgerInv, ChainMatchesRows
  <1>2. CASE mined' = mined /\ (pending' = pending \/ pending' = NoTx \/ pending' = DeployTx)
    BY <1>1, <1>2, CarriesStays DEF ChainMatchesRows, CarriesRowHash, NoTx, DeployTx
  <1>3. ASSUME NEW p \in Thread, SendAnchor(p), pending' # pending
        PROVE  ChainMatchesRows'
    <2>1. pending' = MyAnchorTx(p) /\ mined' = mined
      BY <1>3 DEF SendAnchor, Submit
    <2>2. th[p].id \in DOMAIN ledger /\ ledger[th[p].id].hash = BlockHash(p)
      BY <1>3 DEF SendAnchor, At, LedgerInv, Ownership, OwnsRow, Anchoring
    <2>3. CarriesRowHash(MyAnchorTx(p))
      BY <2>2 DEF CarriesRowHash, MyAnchorTx, AnchorTx
    <2> QED
      BY <1>1, <2>1, <2>3, CarriesStays DEF ChainMatchesRows, CarriesRowHash
  <1>4. CASE Mine
    <2>1. /\ DOMAIN mined' = DOMAIN mined \cup {Len(mined) + 1}
          /\ \A n \in DOMAIN mined : mined'[n] = mined[n]
          /\ mined'[Len(mined) + 1].tx = pending /\ pending' = NoTx
      BY <1>0, <1>4 DEF Mine
    <2> QED
      BY <1>1, <2>1, CarriesStays DEF ChainMatchesRows, CarriesRowHash, NoTx
  <1>5. ASSUME NEW p \in Thread, ThreadStep(p), ~SendAnchor(p)
        PROVE  mined' = mined /\ (pending' = pending \/ pending' = DeployTx)
    BY <1>5 DEF ThreadStep, AppendBlock, LogAuditEvent, ReadPrevious, ReadBlocks,
         Step, InsertBlock, InsertRejected, GetWeb3, GetContract, DeployContract, Submit, DeployReceipt,
         DeployTimeout, Instantiate, CheckAnchor, AnchorReceipt, AnchorTimeout, Scan, Return
  <1>6. CASE Drop \/ Restart \/ UNCHANGED vars
    BY <1>2, <1>6 DEF Drop, Restart, vars
  <1>7. ASSUME NEW p \in Thread, SendAnchor(p), pending' = pending
        PROVE  ChainMatchesRows'
    BY <1>2, <1>7 DEF SendAnchor
  <1> QED
    BY <1>2, <1>3, <1>4, <1>5, <1>6, <1>7 DEF Next, ThreadStep

\* Threads keep working with an existing contract, also when another thread
\* replaces the class attribute.
LEMMA ContractStep ==
    ASSUME LedgerInv, NEW p \in Thread, ThreadStep(p)
    PROVE  ContractKnown'
  <1>1. ASSUME NEW q \in Thread, q # p, th[q].pc = "instantiate"
        PROVE  address' # 0
    <2>1. address # 0 /\ address \in Nat /\ th[p].nonce \in Nat
      BY <1>1 DEF LedgerInv, ContractKnown, TypeOK, ThreadState
    <2>2. address' = address \/ address' = th[p].nonce + 1
      BY DEF ThreadStep, AppendBlock, LogAuditEvent, ReadPrevious, ReadBlocks, classVars,
         Step, InsertBlock, InsertRejected, GetWeb3, GetContract, DeployContract, DeployReceipt,
         DeployTimeout, Instantiate, CheckAnchor, SendAnchor, AnchorReceipt,
         AnchorTimeout, Scan, Return
    <2> QED
      BY <2>1, <2>2
  <1>2. CASE InsertBlock(p)
    BY <1>1, <1>2, OthersKept, InsertEffect, ThreadsWork DEF ContractKnown, LedgerInv
  <1>3. CASE ~InsertBlock(p)
    BY <1>1, <1>3, OthersKept, LocalEffect, ThreadsWork DEF ContractKnown, LedgerInv
  <1> QED
    BY <1>2, <1>3

\* The chain only grows.
LEMMA MinedKept ==
    ASSUME LedgerInv, [Next]_vars, NEW n \in DOMAIN mined
    PROVE  n \in DOMAIN mined' /\ mined'[n] = mined[n]
  <1>0. mined \in Seq([tx: Tx, ok: BOOLEAN])
    BY DEF LedgerInv, TypeOK
  <1>1. CASE Mine
    BY <1>0, <1>1 DEF Mine
  <1>2. ASSUME NEW p \in Thread, ThreadStep(p)
        PROVE  mined' = mined
    BY <1>2 DEF ThreadStep, AppendBlock, LogAuditEvent, ReadPrevious, ReadBlocks,
         Step, InsertBlock, InsertRejected, GetWeb3, GetContract, DeployContract, DeployReceipt,
         DeployTimeout, Instantiate, CheckAnchor, SendAnchor, AnchorReceipt,
         AnchorTimeout, Scan, Return
  <1>3. CASE Drop \/ Restart \/ UNCHANGED vars
    BY <1>3 DEF Drop, Restart, vars
  <1> QED
    BY <1>1, <1>2, <1>3 DEF Next, ThreadStep

\* The anchor a thread finds or is told of carries the hash of its row.
LEMMA AnchorOfOwnRow ==
    ASSUME LedgerInv, NEW p \in Thread, Anchoring(p), NEW n \in DOMAIN mined,
           mined[n].tx.to # 0, mined[n].tx.id = th[p].id
    PROVE  mined[n].tx.hash = ledger[th[p].id].hash
  BY DEF LedgerInv, ChainMatchesRows, CarriesRowHash

\* A receipt of the thread's own transaction is about its own row.
LEMMA OwnReceipt ==
    ASSUME LedgerInv, NEW p \in Thread, AnchorReceipt(p)
    PROVE  /\ Anchoring(p) /\ th[p].id \in DOMAIN ledger
           /\ th[p].nonce + 1 \in DOMAIN mined
           /\ mined[th[p].nonce + 1].tx.to # 0
           /\ mined[th[p].nonce + 1].tx.id = th[p].id
           /\ mined[th[p].nonce + 1].tx.hash = ledger[th[p].id].hash
  <1>1. Anchoring(p) /\ th[p].id \in DOMAIN ledger /\ th[p].contract # 0
    BY DEF AnchorReceipt, At, Anchoring, LedgerInv, Ownership, OwnsRow, ContractKnown
  <1>2. th[p].nonce + 1 \in DOMAIN mined /\ mined[th[p].nonce + 1].tx = MyAnchorTx(p)
    BY DEF AnchorReceipt, Receipt
  <1>3. mined[th[p].nonce + 1].tx.to # 0 /\ mined[th[p].nonce + 1].tx.id = th[p].id
    BY <1>1, <1>2 DEF MyAnchorTx, AnchorTx
  <1> QED
    BY <1>1, <1>2, <1>3, AnchorOfOwnRow

\* A step that confirms a row has the receipt for it.
LEMMA ConfirmedStep ==
    ASSUME LedgerInv, [Next]_vars
    PROVE  ConfirmedIsAnchored'
  <1>0. /\ ledger \in Seq(Row) /\ Len(ledger) \in Nat /\ DOMAIN ledger = 1..Len(ledger)
    BY DEF LedgerInv, TypeOK
  <1>2. ASSUME NEW i \in DOMAIN ledger, ledger[i].status = "CONFIRMED"
        PROVE  \E n \in DOMAIN mined' : /\ ledger'[i].txn = n
                                        /\ mined'[n].ok
                                        /\ mined'[n].tx.id = i
                                        /\ mined'[n].tx.hash = ledger'[i].hash
    <2>1. ledger'[i] = ledger[i]
      BY <1>2, RowsKept
    <2> QED
      BY <1>2, <2>1, MinedKept DEF LedgerInv, ConfirmedIsAnchored
  <1>3. ASSUME NEW i \in DOMAIN ledger', ledger'[i].status = "CONFIRMED",
               i \notin DOMAIN ledger \/ ledger[i].status # "CONFIRMED"
        PROVE  \E p \in Thread : /\ AnchorReceipt(p) /\ i = th[p].id
                                 /\ mined[th[p].nonce + 1].ok
    <2>1. ~UNCHANGED ledger
      BY <1>3
    <2>2. PICK p \in Thread : ThreadStep(p)
      BY <2>1 DEF Next, vars, Mine, Drop, Restart, ThreadStep
    <2>3. ~InsertBlock(p)
      <3>1. SUFFICES ASSUME InsertBlock(p) PROVE FALSE
        OBVIOUS
      <3>2. /\ DOMAIN ledger' = 1..(Len(ledger) + 1)
            /\ \A j \in DOMAIN ledger : ledger'[j] = ledger[j]
            /\ ledger'[Len(ledger) + 1] = NewRow(th[p].body, th[p].prev, BlockHash(p))
        BY <3>1, InsertEffect, ThreadsWork
      <3>3. ledger'[Len(ledger) + 1].status = "LOCAL_ONLY"
        BY <3>2 DEF NewRow
      <3> QED
        BY <1>0, <1>3, <3>2, <3>3
    <2>4. th[p].pc \in {"send", "wait"} /\ DOMAIN ledger' = DOMAIN ledger
      BY <1>0, <2>1, <2>2, <2>3, LedgerEffect, ThreadsWork
    <2>5. ASSUME AttemptFailed(p)
          PROVE  FALSE
      <3>1. ledger' = [ledger EXCEPT ![th[p].id].status = "FAILED"]
        BY <2>1, <2>5 DEF AttemptFailed, SetStatus
      <3> QED
        BY <1>0, <1>3, <2>4, <3>1 DEF Row
    <2>6. AnchorReceipt(p)
      BY <2>1, <2>2, <2>3, <2>4, <2>5 DEF ThreadStep, AppendBlock, LogAuditEvent,
         ReadPrevious, ReadBlocks, Step, InsertRejected, GetWeb3, GetContract, DeployContract,
         DeployReceipt, DeployTimeout, Instantiate, CheckAnchor, SendAnchor,
         AnchorTimeout, Scan, Return
    <2>7. mined[th[p].nonce + 1].ok
      <3>1. SUFFICES ASSUME ~mined[th[p].nonce + 1].ok PROVE FALSE
        OBVIOUS
      <3>2. ledger' = [ledger EXCEPT ![th[p].id].status = "FAILED"]
        BY <2>6, <3>1 DEF AnchorReceipt, SetStatus
      <3> QED
        BY <1>0, <1>3, <2>4, <3>2 DEF Row
    <2>8. i = th[p].id
      <3>1. \E r : ledger' = [ledger EXCEPT ![th[p].id] = r]
        BY <2>6, <2>7 DEF AnchorReceipt
      <3> QED
        BY <1>0, <1>3, <2>4, <3>1
    <2> QED
      BY <2>6, <2>7, <2>8
  <1>4. ASSUME NEW p \in Thread, AnchorReceipt(p), mined[th[p].nonce + 1].ok
        PROVE  \E n \in DOMAIN mined' : /\ ledger'[th[p].id].txn = n
                                        /\ mined'[n].ok
                                        /\ mined'[n].tx.id = th[p].id
                                        /\ mined'[n].tx.hash = ledger'[th[p].id].hash
    <2>1. th[p].id \in DOMAIN ledger /\ ledger[th[p].id] \in Row
      BY <1>0, <1>4, OwnReceipt
    <2>2. ledger'[th[p].id] = [ledger[th[p].id] EXCEPT !.status = "CONFIRMED",
                                  !.addr = address, !.txn = th[p].nonce + 1]
      BY <1>0, <1>4, <2>1 DEF AnchorReceipt
    <2>3. ledger'[th[p].id].txn = th[p].nonce + 1
          /\ ledger'[th[p].id].hash = ledger[th[p].id].hash
      BY <2>1, <2>2 DEF Row
    <2> QED
      BY <1>4, <2>3, OwnReceipt, MinedKept
  <1> QED
    BY <1>2, <1>3, <1>4 DEF ConfirmedIsAnchored

\* The append of thread p has returned, and its row is anchored.
Returned(p) == th[p].pc = "done" /\ th[p].job = "append" /\ th[p].result = "returned"
HasAnchor(p) ==
    \E n \in DOMAIN mined : /\ mined[n].ok
                            /\ mined[n].tx.to # 0
                            /\ mined[n].tx.id = th[p].id
                            /\ mined[n].tx.hash = ledger[th[p].id].hash

\* Anchored rows stay anchored.
LEMMA HasAnchorStays ==
    ASSUME LedgerInv, [Next]_vars, NEW q \in Thread, HasAnchor(q), th'[q].id = th[q].id
    PROVE  HasAnchor(q)'
  <1>1. PICK n \in DOMAIN mined : /\ mined[n].ok
                                  /\ mined[n].tx.to # 0
                                  /\ mined[n].tx.id = th[q].id
                                  /\ mined[n].tx.hash = ledger[th[q].id].hash
    BY DEF HasAnchor
  <1>2. th[q].id \in DOMAIN ledger
    BY <1>1 DEF LedgerInv, ChainMatchesRows, CarriesRowHash
  <1> QED
    BY <1>1, <1>2, HashesStay, MinedKept DEF HasAnchor

\* With anchoring required, append_block returns only past an anchor.
LEMMA RequiredStep ==
    ASSUME LedgerInv, NEW p \in Thread, ThreadStep(p), Enabled, Required, Returned(p)'
    PROVE  HasAnchor(p)'
  <1>0. /\ th \in [Thread -> ThreadState] /\ th[p] \in ThreadState
        /\ th'[p].pc = "done" /\ th'[p].job = "append" /\ th'[p].result = "returned"
    BY DEF LedgerInv, TypeOK, Returned
  <1>a. Next
    BY DEF Next, ThreadStep
  <1>1. ~Unanchored(p) /\ ~AttemptFailed(p) /\ ~InsertRejected(p)
    BY <1>0 DEF Unanchored, AttemptFailed, InsertRejected, Finish, ThreadState
  <1>2. ~InsertBlock(p)
    BY <1>0, InsertEffect, ThreadsWork
  <1>3. ~(AppendBlock(p) \/ LogAuditEvent(p))
    <2>1. ASSUME NEW body, NEW job, ReadPrevious(p, body, job)
          PROVE  th'[p].pc = "insert"
      BY <1>0, <2>1, IdleType DEF ReadPrevious, ThreadState
    <2> QED
      BY <1>0, <2>1 DEF AppendBlock, LogAuditEvent
  <1>4. ~ReadBlocks(p) /\ ~Return(p)
    <2>1. ASSUME ReadBlocks(p) PROVE th'[p].job = "verify"
      BY <1>0, <2>1, IdleType DEF ReadBlocks, ThreadState
    <2>2. ASSUME Return(p) PROVE th'[p].pc = "idle"
      BY <1>0, <2>2 DEF Return, Idle
    <2> QED
      BY <1>0, <2>1, <2>2
  <1>5. CASE Scan(p)
    <2>1. ASSUME NEW fault
          PROVE  VerifyChain(th[p].rows, IF th[p].w3 THEN th[p].contract ELSE 0, fault)
                    # "returned"
      BY DEF VerifyChain, RowReason, OnChainReason
    <2> QED
      BY <1>0, <1>5, <2>1 DEF Scan, Finish, ThreadState
  <1>6. CASE GetWeb3(p) \/ GetContract(p) \/ DeployReceipt(p) \/ DeployTimeout(p) \/ Instantiate(p)
    BY <1>0, <1>1, <1>6 DEF GetWeb3, GetContract, DeployContract, DeployReceipt, DeployTimeout,
       Instantiate, ThreadState
  <1>7. CASE CheckAnchor(p)
    <2>1. AnchorsOf(th[p].contract, th[p].id) # {} /\ th'[p].id = th[p].id
      BY <1>0, <1>7 DEF CheckAnchor, Finish, ThreadState
    <2>2. PICK n \in DOMAIN mined : /\ mined[n].ok /\ mined[n].tx.to # 0
                                    /\ mined[n].tx.id = th[p].id
      BY <2>1 DEF AnchorsOf
    <2>3. Anchoring(p)
      BY <1>7 DEF CheckAnchor, At, Anchoring
    <2>4. HasAnchor(p)
      BY <2>2, <2>3, AnchorOfOwnRow DEF HasAnchor
    <2> QED
      BY <1>a, <2>1, <2>4, HasAnchorStays
  <1>8. CASE SendAnchor(p) \/ AnchorTimeout(p)
    BY <1>0, <1>1, <1>8 DEF SendAnchor, AnchorTimeout, ThreadState
  <1>9. CASE AnchorReceipt(p)
    <2>1. mined[th[p].nonce + 1].ok /\ th'[p].id = th[p].id
      BY <1>0, <1>9 DEF AnchorReceipt, Finish, ThreadState
    <2>2. HasAnchor(p)
      BY <1>9, <2>1, OwnReceipt DEF HasAnchor
    <2> QED
      BY <1>a, <2>1, <2>2, HasAnchorStays
  <1> QED
    BY <1>1, <1>2, <1>3, <1>4, <1>5, <1>6, <1>7, <1>8, <1>9 DEF ThreadStep, Step

\* The invariant holds initially.
LEMMA LedgerInvInit == Init => LedgerInv
  <1> SUFFICES ASSUME Init PROVE LedgerInv
    OBVIOUS
  <1>1. TypeOK
    <2>1. NoTx \in Tx
      BY DEF NoTx, Tx, Genesis, Digest
    <2>2. ledger \in Seq(Row) /\ mined \in Seq([tx: Tx, ok: BOOLEAN])
          /\ restarts \in 0..MaxRestarts
      BY LedgerAssumption DEF Init
    <2>3. th \in [Thread -> ThreadState]
      BY IdleType DEF Init
    <2> QED
      BY <2>1, <2>2, <2>3 DEF Init, TypeOK
  <1>2. \A p \in Thread : th[p].pc = "idle" /\ th[p].job = "append"
    BY IdleType DEF Init, Idle
  <1>3. DOMAIN ledger = {} /\ DOMAIN mined = {} /\ pending.to = 0
    BY DEF Init, NoTx
  <1> QED
    BY <1>1, <1>2, <1>3 DEF LedgerInv, Ownership, Anchoring, DraftLinks, ContractKnown,
       LinksToEarlierRow, ChainMatchesRows, CarriesRowHash, ConfirmedIsAnchored,
       RequiredMeansAnchored

\* The invariant is inductive.
LEMMA LedgerInvStep == LedgerInv /\ [Next]_vars => LedgerInv'
  <1> SUFFICES ASSUME LedgerInv, [Next]_vars PROVE LedgerInv'
    OBVIOUS
  <1>0. LinksToEarlierRow' /\ ChainMatchesRows' /\ ConfirmedIsAnchored'
    BY LinksStep, ChainStep, ConfirmedStep
  <1>1. ASSUME NEW p \in Thread, ThreadStep(p)
        PROVE  LedgerInv'
    <2>1. TypeOK'
      BY <1>1, ThreadTypeStep, ThreadsWork DEF ThreadStep
    <2>2. Ownership' /\ DraftLinks' /\ ContractKnown'
      BY <1>1, OwnershipStep, DraftStep, ContractStep
    <2>3. RequiredMeansAnchored'
      <3>1. ASSUME Enabled, Required, NEW q \in Thread, Returned(q)'
            PROVE  HasAnchor(q)'
        <4>1. CASE q = p
          BY <1>1, <3>1, <4>1, RequiredStep
        <4>2. CASE q # p
          <5>1. th'[q] = th[q]
            BY <1>1, <4>2, OthersKept DEF LedgerInv
          <5>2. HasAnchor(q)
            BY <3>1, <5>1 DEF Returned, HasAnchor, LedgerInv, RequiredMeansAnchored
          <5> QED
            BY <5>1, <5>2, HasAnchorStays
        <4> QED
          BY <4>1, <4>2
      <3> QED
        BY <3>1 DEF RequiredMeansAnchored, Returned, HasAnchor
    <2> QED
      BY <1>0, <2>1, <2>2, <2>3 DEF LedgerInv
  <1>2. ASSUME th' = th, ledger' = ledger, address' = address, TypeOK'
        PROVE  LedgerInv'
    <2>1. Ownership' /\ DraftLinks' /\ ContractKnown'
      BY <1>2 DEF LedgerInv, Ownership, OwnsRow, Anchoring, BlockHash, DraftLinks, ContractKnown
    <2>2. ASSUME Enabled, Required, NEW q \in Thread, Returned(q)'
          PROVE  HasAnchor(q)'
      BY <1>2, <2>2, HasAnchorStays
         DEF Returned, HasAnchor, LedgerInv, RequiredMeansAnchored
    <2> QED
      BY <1>0, <1>2, <2>1, <2>2 DEF LedgerInv, RequiredMeansAnchored, Returned, HasAnchor
  <1>3. CASE Mine \/ Drop \/ UNCHANGED vars
    <2>1. TypeOK'
      BY <1>3, EnvironmentTypeStep DEF LedgerInv
    <2> QED
      BY <1>2, <1>3, <2>1 DEF Mine, Drop, classVars, vars
  <1>5. CASE Restart
    <2>1. TypeOK'
      BY <1>5, EnvironmentTypeStep DEF LedgerInv
    <2>2. \A p \in Thread : th'[p].pc = "idle" /\ th'[p].job = "append"
      BY <1>5, IdleType DEF Restart, Idle
    <2> QED
      BY <1>0, <2>1, <2>2 DEF LedgerInv, Ownership, Anchoring, DraftLinks, ContractKnown,
         RequiredMeansAnchored
  <1> QED
    BY <1>1, <1>3, <1>5 DEF Next, ThreadStep

\* The invariant holds in every reachable state.
THEOREM LedgerInvariant == Spec => []LedgerInv
  BY LedgerInvInit, LedgerInvStep, PTL DEF Spec

\* Type correctness of the table, the chain, the class attributes and the
\* threads, for any number of each.
THEOREM TypeCorrect == Spec => []TypeOK
  <1>1. LedgerInv => TypeOK
    BY DEF LedgerInv
  <1> QED
    BY <1>1, LedgerInvariant, PTL

\* Append-only rows: the listeners of AuditBlock are never provoked, and a
\* CONFIRMED row is final.
THEOREM RowsAreAppendOnly == Spec => AppendOnly
  <1>1. LedgerInv /\ [Next]_vars =>
          [/\ Len(ledger) <= Len(ledger')
           /\ \A i \in DOMAIN ledger :
                /\ Content(ledger'[i]) = Content(ledger[i])
                /\ ledger[i].status = "CONFIRMED" => ledger'[i] = ledger[i]]_ledger
    BY RowsKept
  <1> QED
    BY <1>1, LedgerInvariant, PTL DEF Spec, AppendOnly

\* The rows form a tree with distinct hashes, whatever threads interleave.
THEOREM RowsFormTree == Spec => []LinksToEarlierRow
  <1>1. LedgerInv => LinksToEarlierRow
    BY DEF LedgerInv
  <1> QED
    BY <1>1, LedgerInvariant, PTL

\* CONFIRMED is truthful: a mined transaction anchors exactly this row.
THEOREM ConfirmedRowsAreAnchored == Spec => []ConfirmedIsAnchored
  <1>1. LedgerInv => ConfirmedIsAnchored
    BY DEF LedgerInv
  <1> QED
    BY <1>1, LedgerInvariant, PTL

\* Anchoring that is required is fail-closed.
THEOREM RequiredAnchoringFailsClosed == Spec => []RequiredMeansAnchored
  <1>1. LedgerInv => RequiredMeansAnchored
    BY DEF LedgerInv
  <1> QED
    BY <1>1, LedgerInvariant, PTL

-----------------------------------------------------------------------------
\* Without an insert the table keeps its length and its links.
LEMMA LinksKept ==
    ASSUME LedgerInv, [Next]_vars, \A p \in Thread : ~InsertBlock(p)
    PROVE  /\ DOMAIN ledger' = DOMAIN ledger /\ Len(ledger') = Len(ledger)
           /\ \A i \in DOMAIN ledger : /\ ledger'[i].prev = ledger[i].prev
                                        /\ ledger'[i].hash = ledger[i].hash
  <1>0. ledger \in Seq(Row)
    BY DEF LedgerInv, TypeOK
  <1>1. [Next]_vars => UNCHANGED ledger \/ \E p \in Thread : ThreadStep(p)
    BY DEF Next, vars, Mine, Drop, Restart, ThreadStep
  <1>2. DOMAIN ledger' = DOMAIN ledger /\ Len(ledger') = Len(ledger)
    BY <1>0, <1>1, LedgerEffect, ThreadsWork
  <1> QED
    BY <1>2, RowsKept DEF Content

\* Only a stale read of the last row breaks the chain: without a fork the
\* rows are a single chain, so verify_chain finds no link mismatch.
THEOREM ForkIsTheOnlyBreak == Spec => []LinearUnlessForked
  <1>1. Init => LinearUnlessForked
    BY DEF Init, LinearUnlessForked
  <1>2. LedgerInv /\ LinearUnlessForked /\ [Next]_vars => LinearUnlessForked'
    <2> SUFFICES ASSUME LedgerInv, LinearUnlessForked, [Next]_vars, ~Forked',
                        NEW i \in DOMAIN ledger'
                 PROVE  ledger'[i].prev = HashBefore(ledger', i)
      BY DEF LinearUnlessForked
    <2>0. /\ ledger \in Seq(Row) /\ Len(ledger) \in Nat
          /\ DOMAIN ledger = 1..Len(ledger)
      BY DEF LedgerInv, TypeOK
    <2>1. CASE \A p \in Thread : ~InsertBlock(p)
      <3>1. ~Forked
        BY <2>1, LinksKept DEF Forked
      <3>2. i \in DOMAIN ledger /\ ledger[i].prev = HashBefore(ledger, i)
        BY <2>1, <3>1, LinksKept DEF LinearUnlessForked
      <3>3. HashBefore(ledger', i) = HashBefore(ledger, i)
        <4>1. i # 1 => i - 1 \in DOMAIN ledger
          BY <2>0, <3>2
        <4> QED
          BY <2>1, <4>1, LinksKept DEF HashBefore
      <3> QED
        BY <2>1, <3>2, <3>3, LinksKept
    <2>2. ASSUME NEW p \in Thread, InsertBlock(p)
          PROVE  ledger'[i].prev = HashBefore(ledger', i)
      <3> DEFINE n == Len(ledger) + 1
      <3>1. /\ DOMAIN ledger' = 1..n
            /\ \A j \in DOMAIN ledger : ledger'[j] = ledger[j]
            /\ ledger'[n] = NewRow(th[p].body, th[p].prev, BlockHash(p))
        BY <2>2, InsertEffect, ThreadsWork
      <3>2. ledger'[n].prev = th[p].prev
        BY <3>1 DEF NewRow
      <3>3. DOMAIN ledger \subseteq DOMAIN ledger'
        BY <2>0, <3>1
      <3>4. ~Forked
        BY <3>1, <3>3 DEF Forked
      <3>5. \A j \in DOMAIN ledger : ledger[j].prev = HashBefore(ledger, j)
        BY <3>4 DEF LinearUnlessForked
      <3>6. \A j \in DOMAIN ledger : ledger[j].prev # th[p].prev
        <4>1. \A j \in DOMAIN ledger : j # n
          BY <2>0
        <4>2. n \in DOMAIN ledger'
          BY <2>0, <3>1
        <4> QED
          BY <3>1, <3>2, <3>3, <4>1, <4>2 DEF Forked
      <3>7. CASE i \in DOMAIN ledger
        <4>1. i # 1 => i - 1 \in DOMAIN ledger
          BY <2>0, <3>7
        <4> QED
          BY <3>1, <3>5, <3>7, <4>1 DEF HashBefore
      <3>8. CASE i = n
        <4>1. th[p].prev = Genesis \/ \E j \in DOMAIN ledger : ledger[j].hash = th[p].prev
          BY <2>2 DEF InsertBlock, At, LedgerInv, DraftLinks
        <4>2. CASE Len(ledger) = 0
          BY <2>0, <3>2, <3>8, <4>1, <4>2 DEF HashBefore
        <4>3. CASE Len(ledger) # 0
          <5>1. 1 \in DOMAIN ledger /\ ledger[1].prev = Genesis
            BY <2>0, <3>5, <4>3 DEF HashBefore
          <5>2. PICK j \in DOMAIN ledger : ledger[j].hash = th[p].prev
            BY <3>6, <4>1, <5>1
          <5>3. ASSUME j # Len(ledger) PROVE FALSE
            <6>1. j + 1 \in DOMAIN ledger /\ j \in Nat /\ j + 1 # 1 /\ (j + 1) - 1 = j
              BY <2>0, <5>3
            <6>2. ledger[j + 1].prev = ledger[j].hash
              BY <3>5, <6>1 DEF HashBefore
            <6> QED
              BY <3>6, <5>2, <6>1, <6>2
          <5>4. n # 1 /\ n - 1 = Len(ledger) /\ Len(ledger) \in DOMAIN ledger
            BY <2>0, <4>3
          <5> QED
            BY <3>1, <3>2, <3>8, <5>2, <5>3, <5>4 DEF HashBefore
        <4> QED
          BY <4>2, <4>3
      <3> QED
        BY <2>0, <3>1, <3>7, <3>8
    <2> QED
      BY <2>1, <2>2
  <1> QED
    BY <1>1, <1>2, LedgerInvariant, PTL DEF Spec

-----------------------------------------------------------------------------
\* With one thread, the hash it holds before its insert is still the last.
FreshDraft == \A p \in Thread : th[p].pc = "insert" => th[p].prev = LastHash(ledger)
Chained == \A i \in DOMAIN ledger : ledger[i].prev = HashBefore(ledger, i)

\* One step of a ledger with a single thread.
LEMMA SerialStep ==
    ASSUME \A p, q \in Thread : p = q,
           LedgerInv, Chained, FreshDraft, [Next]_vars
    PROVE  Chained' /\ FreshDraft'
  <1>0. ledger \in Seq(Row) /\ Len(ledger) \in Nat /\ DOMAIN ledger = 1..Len(ledger)
    BY DEF LedgerInv, TypeOK
  <1>1. ASSUME NEW p \in Thread, InsertBlock(p)
        PROVE  Chained' /\ FreshDraft'
    <2> DEFINE n == Len(ledger) + 1
    <2>1. /\ DOMAIN ledger' = 1..n
          /\ \A j \in DOMAIN ledger : ledger'[j] = ledger[j]
          /\ ledger'[n] = NewRow(th[p].body, th[p].prev, BlockHash(p))
          /\ th'[p].pc # "insert"
      BY <1>1, InsertEffect, ThreadsWork
    <2>2. ledger'[n].prev = LastHash(ledger)
      BY <1>1, <2>1 DEF NewRow, FreshDraft, InsertBlock, At
    <2>3. ASSUME NEW i \in DOMAIN ledger'
          PROVE  ledger'[i].prev = HashBefore(ledger', i)
      <3>1. CASE i \in DOMAIN ledger
        <4>1. i # 1 => i - 1 \in DOMAIN ledger
          BY <1>0, <3>1
        <4> QED
          BY <2>1, <3>1, <4>1 DEF Chained, HashBefore
      <3>2. CASE i = n
        <4>1. n # 1 => n - 1 \in DOMAIN ledger
          BY <1>0
        <4> QED
          BY <1>0, <2>1, <2>2, <3>2, <4>1 DEF LastHash, HashBefore
      <3> QED
        BY <1>0, <2>1, <2>3, <3>1, <3>2
    <2> QED
      BY <2>1, <2>3 DEF Chained, FreshDraft
  <1>2. CASE \A p \in Thread : ~InsertBlock(p)
    <2>1. HashBefore(ledger', Len(ledger') + 1) = HashBefore(ledger, Len(ledger) + 1)
      <3>1. Len(ledger) + 1 # 1 => (Len(ledger) + 1) - 1 \in DOMAIN ledger
        BY <1>0
      <3> QED
        BY <1>2, <3>1, LinksKept DEF HashBefore
    <2>2. Chained'
      <3>1. \A i \in DOMAIN ledger : i # 1 => i - 1 \in DOMAIN ledger
        BY <1>0
      <3> QED
        BY <1>2, <3>1, LinksKept DEF Chained, HashBefore
    <2>3. ASSUME NEW p \in Thread, th'[p].pc = "insert"
          PROVE  th'[p].prev = LastHash(ledger)
      <3>1. CASE ThreadStep(p)
        BY <1>2, <2>3, <3>1, LocalEffect, ThreadsWork
      <3>2. CASE Mine \/ Drop \/ UNCHANGED vars
        BY <2>3, <3>2 DEF Mine, Drop, vars, FreshDraft
      <3>3. CASE Restart
        BY <2>3, <3>3, IdleType DEF Restart, Idle
      <3> QED
        BY <3>1, <3>2, <3>3 DEF Next, ThreadStep
    <2> QED
      BY <2>1, <2>2, <2>3 DEF FreshDraft, LastHash
  <1> QED
    BY <1>1, <1>2

\* A ledger written by one thread at a time is a single chain.
THEOREM SerialLedgerIsChain == Spec => []LinearWhenSerial
  <1> DEFINE Serial == \A p, q \in Thread : p = q
             SInv == Serial => Chained /\ FreshDraft
  <1>1. Init => SInv
    BY IdleType DEF Init, Chained, FreshDraft, Idle
  <1>2. LedgerInv /\ SInv /\ [Next]_vars => SInv'
    BY SerialStep
  <1>3. SInv => LinearWhenSerial
    BY DEF LinearWhenSerial, Chained
  <1> HIDE DEF SInv
  <1> QED
    BY <1>1, <1>2, <1>3, LedgerInvariant, PTL DEF Spec

-----------------------------------------------------------------------------
(***************************************************************************)
(* The refinement: every step of the ledger is a step of AuditTrail or     *)
(* changes nothing that AuditTrail speaks of.                              *)
(***************************************************************************)
EntriesOf(rows) == [i \in DOMAIN rows |-> Content(rows[i])]
Entries == EntriesOf(ledger)
Confirmed == {i \in DOMAIN ledger : ledger[i].status = "CONFIRMED"}
Entry == [body: Body, prev: Digest, hash: Digest]

\* A mapped table is a sequence as long as the table.
LEMMA EntriesType ==
    ASSUME NEW rows \in Seq(Row)
    PROVE  /\ EntriesOf(rows) \in Seq(Entry) /\ Len(EntriesOf(rows)) = Len(rows)
           /\ DOMAIN EntriesOf(rows) = DOMAIN rows
           /\ \A i \in DOMAIN rows : /\ EntriesOf(rows)[i].prev = rows[i].prev
                                      /\ EntriesOf(rows)[i].hash = rows[i].hash
  <1>1. /\ Len(rows) \in Nat /\ DOMAIN rows = 1..Len(rows)
        /\ \A i \in DOMAIN rows : rows[i] \in Row
    OBVIOUS
  <1>2. \A r \in Row : Content(r) \in Entry /\ Content(r).prev = r.prev /\ Content(r).hash = r.hash
    BY DEF Content, Row, Entry
  <1>3. EntriesOf(rows) \in [1..Len(rows) -> Entry]
    BY <1>1, <1>2 DEF EntriesOf
  <1>4. EntriesOf(rows) \in Seq(Entry) /\ Len(EntriesOf(rows)) = Len(rows)
    BY <1>1, <1>3
  <1> QED
    BY <1>1, <1>2, <1>4 DEF EntriesOf

\* An insert records an entry.
LEMMA InsertRecords ==
    ASSUME LedgerInv, LedgerInv', NEW p \in Thread, InsertBlock(p)
    PROVE  Trail!Record
  <1> DEFINE n == Len(ledger) + 1
  <1>0. /\ ledger \in Seq(Row) /\ ledger' \in Seq(Row) /\ Len(ledger) \in Nat
        /\ DOMAIN ledger = 1..Len(ledger)
    BY DEF LedgerInv, TypeOK
  <1>1. /\ DOMAIN ledger' = 1..n /\ Len(ledger') = n
        /\ \A i \in DOMAIN ledger : ledger'[i] = ledger[i]
        /\ ledger'[n] = NewRow(th[p].body, th[p].prev, BlockHash(p))
    BY InsertEffect, ThreadsWork
  <1>2. /\ Entries \in Seq(Entry) /\ Len(Entries) = Len(ledger)
        /\ DOMAIN Entries = DOMAIN ledger
        /\ \A i \in DOMAIN ledger : Entries[i].prev = ledger[i].prev
                                   /\ Entries[i].hash = ledger[i].hash
    BY <1>0, EntriesType DEF Entries
  <1>3. /\ Entries' \in Seq(Entry) /\ Len(Entries') = n /\ DOMAIN Entries' = 1..n
        /\ Entries'[n].prev = th[p].prev /\ Entries'[n].hash = BlockHash(p)
    <2>1. n \in 1..n
      BY <1>0
    <2> QED
      BY <1>0, <1>1, <2>1, EntriesType DEF Entries, NewRow
  <1>4. \A i \in DOMAIN Entries : Entries'[i] = Entries[i]
    BY <1>0, <1>1, <1>2 DEF Entries, EntriesOf
  <1>5. Entries' = Append(Entries, Entries'[n])
    <2>1. Entries'[n] \in Entry
      BY <1>0, <1>3
    <2>2. Append(Entries, Entries'[n]) \in Seq(Entry)
      BY <1>2, <2>1
    <2> QED
      BY <1>0, <1>2, <1>3, <1>4, <2>1, <2>2
  <1>6. th[p].prev = Genesis \/ \E j \in DOMAIN ledger : ledger[j].hash = th[p].prev
    BY DEF InsertBlock, At, LedgerInv, DraftLinks
  <1>7. \A i \in DOMAIN ledger : ledger[i].hash # BlockHash(p)
    BY DEF InsertBlock
  <1>8. Published' = Published
    <2>1. mined' = mined /\ \A k \in DOMAIN mined : mined[k].tx.to # 0 => mined[k].tx.id # n
      BY <1>0 DEF InsertBlock, LedgerInv, ChainMatchesRows, CarriesRowHash
    <2> QED
      BY <1>0, <1>1, <2>1 DEF Published
  <1>9. Confirmed' = Confirmed
    <2>1. ledger'[n].status # "CONFIRMED"
      BY <1>1 DEF NewRow
    <2> QED
      BY <1>0, <1>1, <2>1 DEF Confirmed
  <1> HIDE DEF n
  <1>10. Len(Entries') = Len(Entries) + 1 /\ n = Len(Entries) + 1
    BY <1>2, <1>3 DEF n
  <1> QED
    BY <1>2, <1>3, <1>5, <1>6, <1>7, <1>8, <1>9, <1>10
       DEF Trail!Record, Entries, EntriesOf, Confirmed

\* Without an insert the entries stay; with the chain unchanged, so do the
\* published ones.
LEMMA EntriesKept ==
    ASSUME LedgerInv, [Next]_vars, \A p \in Thread : ~InsertBlock(p)
    PROVE  Entries' = Entries /\ (mined' = mined => Published' = Published)
  <1>1. /\ DOMAIN ledger' = DOMAIN ledger
        /\ \A i \in DOMAIN ledger : ledger'[i].hash = ledger[i].hash
    BY LinksKept
  <1>2. \A i \in DOMAIN ledger : Content(ledger'[i]) = Content(ledger[i])
    BY RowsKept
  <1>3. Entries' = Entries
    BY <1>1, <1>2 DEF Entries, EntriesOf
  <1> QED
    BY <1>1, <1>3 DEF Published

\* A receipt of success confirms a published entry.
LEMMA ReceiptConfirms ==
    ASSUME LedgerInv, NEW p \in Thread, AnchorReceipt(p), mined[th[p].nonce + 1].ok
    PROVE  /\ th[p].id \in Published \ Confirmed
           /\ Confirmed' = Confirmed \cup {th[p].id}
  <1>1. /\ th[p].id \in DOMAIN ledger /\ ledger \in Seq(Row)
        /\ ledger[th[p].id].status # "CONFIRMED" /\ ledger[th[p].id] \in Row
    BY OwnReceipt DEF LedgerInv, Ownership, OwnsRow, TypeOK
  <1>2. ledger' = [ledger EXCEPT ![th[p].id] =
                     [@ EXCEPT !.status = "CONFIRMED", !.addr = address, !.txn = th[p].nonce + 1]]
    BY DEF AnchorReceipt
  <1>3. /\ DOMAIN ledger' = DOMAIN ledger
        /\ \A i \in DOMAIN ledger : i # th[p].id => ledger'[i] = ledger[i]
        /\ ledger'[th[p].id].status = "CONFIRMED"
    BY <1>1, <1>2 DEF Row
  <1>4. th[p].id \in Published
    BY <1>1, OwnReceipt DEF Published
  <1> QED
    BY <1>1, <1>3, <1>4 DEF Confirmed

\* Every other step of a thread leaves the confirmed entries alone.
LEMMA ConfirmedKept ==
    ASSUME LedgerInv, [Next]_vars, \A p \in Thread : ~InsertBlock(p),
           \A p \in Thread : AnchorReceipt(p) => ~mined[th[p].nonce + 1].ok
    PROVE  Confirmed' = Confirmed
  <1>0. DOMAIN ledger' = DOMAIN ledger
    BY LinksKept
  <1>1. \A i \in DOMAIN ledger : ledger[i].status = "CONFIRMED" => ledger'[i] = ledger[i]
    BY RowsKept
  <1>2. ASSUME NEW p \in Thread, ThreadStep(p), ~UNCHANGED ledger
        PROVE  ledger' = [ledger EXCEPT ![th[p].id].status = "FAILED"]
    BY <1>2 DEF ThreadStep, AppendBlock, LogAuditEvent, ReadPrevious, ReadBlocks,
       Step, InsertRejected, GetWeb3, GetContract, DeployContract, DeployReceipt, DeployTimeout,
       Instantiate, CheckAnchor, SendAnchor, AttemptFailed, SetStatus, AnchorReceipt,
       AnchorTimeout, Scan, Return
  <1>3. \A i \in DOMAIN ledger : ledger'[i].status = "CONFIRMED" => ledger[i].status = "CONFIRMED"
    <2>0. ledger \in Seq(Row)
      BY DEF LedgerInv, TypeOK
    <2>1. CASE UNCHANGED ledger
      BY <2>1
    <2>2. ASSUME NEW p \in Thread, ledger' = [ledger EXCEPT ![th[p].id].status = "FAILED"],
                 NEW i \in DOMAIN ledger, ledger'[i].status = "CONFIRMED"
          PROVE  ledger[i].status = "CONFIRMED"
      <3>1. ledger[i] \in Row
        BY <2>0
      <3>2. CASE i = th[p].id
        BY <2>0, <2>2, <3>1, <3>2 DEF Row
      <3> QED
        BY <2>0, <2>2, <3>2
    <2> QED
      BY <1>2, <2>1, <2>2 DEF Next, ThreadStep, Mine, Drop, Restart, vars
  <1> QED
    BY <1>0, <1>1, <1>3 DEF Confirmed

\* A mined transaction publishes the entry it anchors, once.
LEMMA MinePublishes ==
    ASSUME LedgerInv, Mine
    PROVE  \/ Published' = Published
           \/ /\ pending.id \in DOMAIN ledger \ Published
              /\ Published' = Published \cup {pending.id}
  <1>0. mined \in Seq([tx: Tx, ok: BOOLEAN]) /\ ledger' = ledger
    BY DEF LedgerInv, TypeOK, Mine
  <1>1. /\ Len(mined) \in Nat /\ DOMAIN mined = 1..Len(mined)
        /\ DOMAIN mined' = 1..(Len(mined) + 1)
        /\ \A k \in DOMAIN mined : mined'[k] = mined[k]
        /\ mined'[Len(mined) + 1].tx = pending
    BY <1>0 DEF Mine
  <1>2. Published \subseteq Published'
    BY <1>0, <1>1 DEF Published
  <1>3. ASSUME NEW i \in Published', i \notin Published
        PROVE  i = pending.id
    <2>1. PICK k \in DOMAIN mined' : /\ mined'[k].ok /\ mined'[k].tx.to # 0
                                     /\ mined'[k].tx.id = i
                                     /\ mined'[k].tx.hash = ledger[i].hash
      BY <1>0, <1>3 DEF Published
    <2>2. k \notin DOMAIN mined
      BY <1>0, <1>1, <1>3, <2>1 DEF Published
    <2>3. k = Len(mined) + 1
      BY <1>1, <2>2
    <2> QED
      BY <1>1, <2>1, <2>3
  <1>4. \A i \in Published' : i \in DOMAIN ledger
    BY <1>0 DEF Published
  <1> QED
    BY <1>2, <1>3, <1>4

\* Every step of the ledger maps to a step of AuditTrail or to none.
LEMMA LedgerStepMapped ==
    ASSUME LedgerInv, LedgerInv', [Next]_vars
    PROVE  [Trail!TrailNext]_(Trail!trailVars)
  <1>1. ASSUME NEW p \in Thread, InsertBlock(p)
        PROVE  Trail!TrailNext
    BY <1>1, InsertRecords DEF Trail!TrailNext
  <1>2. CASE \A p \in Thread : ~InsertBlock(p)
    <2>0. /\ Entries' = Entries /\ (mined' = mined => Published' = Published)
          /\ DOMAIN Entries = DOMAIN ledger
      BY <1>2, EntriesKept DEF Entries, EntriesOf
    <2>1. ASSUME NEW p \in Thread, AnchorReceipt(p), mined[th[p].nonce + 1].ok
          PROVE  Trail!TrailNext
      <3>1. PICK i \in DOMAIN ledger : i = th[p].id
        BY <2>1, OwnReceipt
      <3>2. Trail!Confirm(i)
        BY <2>0, <2>1, <3>1, ReceiptConfirms
           DEF Trail!Confirm, AnchorReceipt, Entries, EntriesOf, Confirmed
      <3> QED
        BY <2>0, <3>2 DEF Trail!TrailNext, Entries, EntriesOf
    <2>2. CASE Mine
      <3>0. Confirmed' = Confirmed
        BY <2>2 DEF Mine, Confirmed
      <3>1. CASE Published' = Published
        BY <2>0, <3>0, <3>1 DEF Trail!trailVars, Entries, EntriesOf, Confirmed
      <3>2. CASE /\ pending.id \in DOMAIN ledger \ Published
                 /\ Published' = Published \cup {pending.id}
        <4>1. Trail!Publish(pending.id)
          BY <2>0, <3>0, <3>2 DEF Trail!Publish, Entries, EntriesOf, Confirmed
        <4> QED
          BY <2>0, <3>2, <4>1 DEF Trail!TrailNext, Entries, EntriesOf
      <3> QED
        BY <2>2, <3>1, <3>2, MinePublishes
    <2>3. CASE ~Mine /\ \A p \in Thread : AnchorReceipt(p) => ~mined[th[p].nonce + 1].ok
      <3>1. Confirmed' = Confirmed
        BY <1>2, <2>3, ConfirmedKept
      <3>2. mined' = mined
        BY <2>3 DEF Next, vars, Drop, Restart, AppendBlock, LogAuditEvent, ReadPrevious,
           ReadBlocks, Step, InsertBlock, InsertRejected, GetWeb3, GetContract, DeployContract,
           DeployReceipt, DeployTimeout, Instantiate, CheckAnchor, SendAnchor,
           AnchorReceipt, AnchorTimeout, Scan, Return
      <3> QED
        BY <2>0, <3>1, <3>2 DEF Trail!trailVars, Entries, EntriesOf, Confirmed
    <2> QED
      BY <2>1, <2>2, <2>3
  <1> QED
    BY <1>1, <1>2

\* The ledger implements AuditTrail, for any number of threads, retries and
\* restarts, whatever the chain loses or delays.
THEOREM LedgerImplementsTrail == Spec => ImplementsTrail
  <1>1. Init => Trail!TrailInit
    <2> SUFFICES ASSUME Init PROVE Trail!TrailInit
      OBVIOUS
    <2>1. DOMAIN ledger = {}
      BY DEF Init
    <2>2. [i \in DOMAIN ledger |-> Content(ledger[i])] = <<>>
      BY <2>1
    <2> QED
      BY <2>1, <2>2 DEF Trail!TrailInit, Published
  <1>2. LedgerInv /\ LedgerInv' /\ [Next]_vars => [Trail!TrailNext]_(Trail!trailVars)
    BY LedgerStepMapped
  <1> QED
    BY <1>1, <1>2, LedgerInvariant, PTL DEF Spec, ImplementsTrail, Trail!TrailSpec

-----------------------------------------------------------------------------
(***************************************************************************)
(* A VALID verdict.  That a sound prefix of rows spells out its bodies is  *)
(* an invariant of the table, so of every copy a thread has read.          *)
(***************************************************************************)
RowSound(rows, j) == /\ rows[j].prev = HashBefore(rows, j)
                     /\ rows[j].hash = CalculateHash(rows[j].body, rows[j].prev)
Sound(rows, i) == \A j \in 1..i : RowSound(rows, j)
Bodies(rows, i) == [k \in 1..i |-> <<rows[k].body, "canonical">>]
SpellsBodies(rows) == \A i \in DOMAIN rows : Sound(rows, i) => rows[i].hash = Bodies(rows, i)

TruthInv ==
    /\ SpellsBodies(ledger)
    /\ \A p \in Thread : /\ SpellsBodies(th[p].rows)
                         /\ SaysValid(p) => \A i \in DOMAIN th[p].rows : RowSound(th[p].rows, i)

\* Whether a table spells its bodies is a matter of the protected columns.
LEMMA SpellsKept ==
    ASSUME NEW r \in Seq(Row), NEW s \in Seq(Row), DOMAIN r \subseteq DOMAIN s,
           \A i \in DOMAIN r : Content(s[i]) = Content(r[i]),
           NEW i \in DOMAIN r, SpellsBodies(r), Sound(s, i)
    PROVE  s[i].hash = Bodies(s, i)
  <1>1. /\ DOMAIN r = 1..Len(r) /\ Len(r) \in Nat /\ i \in Nat /\ 1..i \subseteq DOMAIN r
    OBVIOUS
  <1>2. \A j \in DOMAIN r : s[j].body = r[j].body /\ s[j].prev = r[j].prev /\ s[j].hash = r[j].hash
    BY DEF Content
  <1>3. \A j \in 1..i : HashBefore(s, j) = HashBefore(r, j)
    <2>1. \A j \in 1..i : j # 1 => j - 1 \in DOMAIN r
      BY <1>1
    <2> QED
      BY <1>2, <2>1 DEF HashBefore
  <1>4. Sound(r, i)
    BY <1>1, <1>2, <1>3 DEF Sound, RowSound
  <1>5. Bodies(s, i) = Bodies(r, i)
    BY <1>1, <1>2 DEF Bodies
  <1> QED
    BY <1>2, <1>4, <1>5 DEF SpellsBodies

\* A row appended to a table that spells its bodies continues the spelling.
LEMMA SpellsAppended ==
    ASSUME NEW r \in Seq(Row), NEW s \in Seq(Row), SpellsBodies(r),
           Len(s) = Len(r) + 1, \A i \in DOMAIN r : s[i] = r[i]
    PROVE  SpellsBodies(s)
  <1> DEFINE n == Len(r) + 1
  <1>0. /\ Len(r) \in Nat /\ DOMAIN r = 1..Len(r) /\ DOMAIN s = 1..n
        /\ DOMAIN r \subseteq DOMAIN s
    OBVIOUS
  <1>1. ASSUME NEW i \in DOMAIN r, Sound(s, i)
        PROVE  s[i].hash = Bodies(s, i)
    BY <1>0, <1>1, SpellsKept
  <1>2. ASSUME Sound(s, n)
        PROVE  s[n].hash = Bodies(s, n)
    <2>1. RowSound(s, n)
      BY <1>0, <1>2 DEF Sound
    <2>2. s[n].hash = Append(s[n].prev, <<s[n].body, "canonical">>)
      BY <2>1 DEF RowSound, CalculateHash
    <2>3. s[n].prev = Bodies(s, n - 1)
      <3>1. CASE Len(r) = 0
        <4>1. s[n].prev = <<>>
          BY <2>1, <3>1 DEF RowSound, HashBefore, Genesis
        <4>2. Bodies(s, n - 1) = <<>>
          BY <3>1 DEF Bodies
        <4> QED
          BY <4>1, <4>2
      <3>2. CASE Len(r) # 0
        <4>1. n - 1 \in DOMAIN r /\ n # 1 /\ n - 1 = Len(r)
          BY <1>0, <3>2
        <4>2. Sound(s, n - 1)
          BY <1>0, <1>2 DEF Sound
        <4>3. s[n - 1].hash = Bodies(s, n - 1)
          BY <1>1, <4>1, <4>2
        <4>4. s[n].prev = s[n - 1].hash
          BY <2>1, <4>1 DEF RowSound, HashBefore
        <4> QED
          BY <4>3, <4>4
      <3> QED
        BY <3>1, <3>2
    <2>4. \A k \in 1..n : s[k].body \in Body
      <3>1. \A k \in 1..n : s[k] \in Row
        BY <1>0
      <3> QED
        BY <3>1 DEF Row
    <2> DEFINE T == Body \X {"canonical"}
    <2>5. Bodies(s, n - 1) \in Seq(T) /\ Len(Bodies(s, n - 1)) = n - 1
      <3>1. Bodies(s, n - 1) \in [1..(n - 1) -> T] /\ n - 1 \in Nat
        BY <1>0, <2>4 DEF Bodies
      <3> QED
        BY <3>1
    <2>6. <<s[n].body, "canonical">> \in T
      BY <1>0, <2>4
    <2>7. \A k \in 1..(n - 1) : Bodies(s, n - 1)[k] = <<s[k].body, "canonical">>
      BY DEF Bodies
    <2>8. Append(Bodies(s, n - 1), <<s[n].body, "canonical">>) = Bodies(s, n)
      <3> DEFINE b == Bodies(s, n - 1)
                 e == <<s[n].body, "canonical">>
      <3> HIDE DEF b, e, T
      <3>1. /\ Append(b, e) \in Seq(T) /\ Len(Append(b, e)) = n
            /\ \A k \in 1..(n - 1) : Append(b, e)[k] = b[k]
            /\ Append(b, e)[n] = e
        BY <1>0, <2>5, <2>6 DEF b, e
      <3>2. Append(b, e) = [k \in 1..n |-> Append(b, e)[k]]
        <4> DEFINE a == Append(b, e)
        <4> HIDE DEF a
        <4>1. a \in Seq(T) /\ Len(a) = n
          BY <3>1 DEF a
        <4>2. a = [k \in 1..n |-> a[k]]
          BY <4>1
        <4> QED
          BY <4>2 DEF a
      <3>3. \A k \in 1..n : Append(b, e)[k] = <<s[k].body, "canonical">>
        <4> TAKE k \in 1..n
        <4>1. CASE k = n
          BY <3>1, <4>1 DEF e
        <4>2. CASE k # n
          <5>1. k \in 1..(n - 1)
            BY <1>0, <4>2
          <5> QED
            BY <2>7, <3>1, <5>1 DEF b
        <4> QED
          BY <4>1, <4>2
      <3> QED
        BY <3>2, <3>3 DEF b, e, Bodies
    <2> QED
      BY <2>2, <2>3, <2>8
  <1> QED
    BY <1>0, <1>1, <1>2 DEF SpellsBodies

\* No step spoils the table.
LEMMA LedgerSpells ==
    ASSUME LedgerInv, LedgerInv', SpellsBodies(ledger), [Next]_vars
    PROVE  SpellsBodies(ledger')
  <1>0. ledger \in Seq(Row) /\ ledger' \in Seq(Row)
    BY DEF LedgerInv, TypeOK
  <1>1. CASE \A p \in Thread : ~InsertBlock(p)
    <2>1. DOMAIN ledger' = DOMAIN ledger
      BY <1>1, LinksKept
    <2>2. \A i \in DOMAIN ledger : Content(ledger'[i]) = Content(ledger[i])
      BY RowsKept
    <2>3. DOMAIN ledger \subseteq DOMAIN ledger'
      BY <2>1
    <2>4. ASSUME NEW i \in DOMAIN ledger, Sound(ledger', i)
          PROVE  ledger'[i].hash = Bodies(ledger', i)
      BY <1>0, <2>2, <2>3, <2>4, SpellsKept
    <2> QED
      BY <2>1, <2>4 DEF SpellsBodies
  <1>2. ASSUME NEW p \in Thread, InsertBlock(p)
        PROVE  SpellsBodies(ledger')
    <2>1. Len(ledger') = Len(ledger) + 1 /\ \A i \in DOMAIN ledger : ledger'[i] = ledger[i]
      BY <1>2, InsertEffect, ThreadsWork
    <2> QED
      BY <1>0, <2>1, SpellsAppended
  <1> QED
    BY <1>1, <1>2

\* What a step of a thread does to the rows it has read and to its verdict.
LEMMA RowsReadEffect ==
    ASSUME TypeOK, NEW p \in Thread, ThreadStep(p)
    PROVE  /\ th'[p].rows \in {th[p].rows, ledger, <<>>}
           /\ SaysValid(p)' => Scan(p) /\ th'[p].rows = th[p].rows
  <1>0. th \in [Thread -> ThreadState] /\ th[p] \in ThreadState /\ Idle \in ThreadState
    BY IdleType DEF TypeOK
  <1>1. CASE AppendBlock(p) \/ LogAuditEvent(p) \/ ReadBlocks(p) \/ Return(p)
    <2>1. Idle.rows = <<>> /\ Idle.result = "NONE" /\ Idle.pc = "idle"
      BY DEF Idle
    <2>2. ASSUME NEW body \in Body, NEW job, ReadPrevious(p, body, job)
          PROVE  th'[p].rows = <<>> /\ th'[p].result = "NONE"
      <3>1. th'[p] = [Idle EXCEPT !.pc = "insert", !.job = job, !.body = body,
                                  !.prev = LastHash(ledger)]
        BY <1>0, <2>2 DEF ReadPrevious
      <3> QED
        BY <1>0, <2>1, <3>1 DEF ThreadState
    <2>3. CASE ReadBlocks(p)
      <3>1. th'[p] = [Idle EXCEPT !.job = "verify", !.rows = ledger,
                          !.pc = IF ledger = <<>> \/ ~Enabled THEN "scan" ELSE "web3"]
        BY <1>0, <2>3 DEF ReadBlocks
      <3>2. th'[p].rows = ledger /\ th'[p].result = "NONE"
        BY <1>0, <2>1, <3>1 DEF ThreadState
      <3> QED
        BY <3>2 DEF SaysValid
    <2>4. CASE Return(p)
      BY <1>0, <2>1, <2>4 DEF Return, SaysValid
    <2> QED
      BY <1>1, <2>2, <2>3, <2>4 DEF AppendBlock, LogAuditEvent, SaysValid
  <1>2. CASE InsertBlock(p) \/ InsertRejected(p)
    BY <1>0, <1>2 DEF InsertBlock, InsertRejected, Finish, ThreadState, SaysValid
  <1>3. CASE GetWeb3(p) \/ GetContract(p)
    BY <1>0, <1>3 DEF GetWeb3, GetContract, DeployContract, Unanchored, Finish, ThreadState, SaysValid
  <1>4. CASE DeployReceipt(p) \/ DeployTimeout(p) \/ Instantiate(p)
    BY <1>0, <1>4 DEF DeployReceipt, DeployTimeout, Instantiate, Unanchored, Finish,
       ThreadState, SaysValid
  <1>5. CASE CheckAnchor(p)
    BY <1>0, <1>5 DEF CheckAnchor, Finish, ThreadState, SaysValid
  <1>6. ASSUME AttemptFailed(p)
        PROVE  th'[p].rows = th[p].rows /\ ~SaysValid(p)'
    BY <1>0, <1>6 DEF AttemptFailed, Finish, ThreadState, SaysValid
  <1>7. CASE SendAnchor(p) \/ AnchorTimeout(p)
    <2>1. CASE AttemptFailed(p)
      BY <1>6, <2>1
    <2>2. CASE th' = [th EXCEPT ![p].pc = "wait", ![p].nonce = Len(mined)]
      BY <1>0, <2>2 DEF ThreadState, SaysValid
    <2> QED
      BY <1>7, <2>1, <2>2 DEF SendAnchor, AnchorTimeout
  <1>8. CASE AnchorReceipt(p)
    BY <1>0, <1>8 DEF AnchorReceipt, Finish, ThreadState, SaysValid
  <1>9. CASE Scan(p)
    <2>1. ASSUME NEW r, Finish(p, r) PROVE th'[p].rows = th[p].rows
      BY <1>0, <2>1 DEF Finish, ThreadState
    <2> QED
      BY <1>9, <2>1 DEF Scan
  <1> QED
    BY <1>1, <1>2, <1>3, <1>4, <1>5, <1>7, <1>8, <1>9 DEF ThreadStep, Step

\* verify_chain says VALID only of rows that each link and hash correctly.
LEMMA ValidIsSound ==
    ASSUME NEW rows, NEW contract, NEW fault, VerifyChain(rows, contract, fault) = "VALID"
    PROVE  \A i \in DOMAIN rows : RowSound(rows, i)
  <1>0. ASSUME NEW i PROVE RowReason(rows, i, contract, fault) # "VALID"
    BY DEF RowReason, OnChainReason
  <1>1. {i \in DOMAIN rows : RowReason(rows, i, contract, fault) # "NONE"} = {}
    BY <1>0 DEF VerifyChain
  <1>2. \A i \in DOMAIN rows : RowReason(rows, i, contract, fault) = "NONE"
    BY <1>1
  <1> QED
    BY <1>2 DEF RowReason, RowSound

\* The copies the threads have read, and their verdicts.
LEMMA TruthStep == LedgerInv /\ LedgerInv' /\ TruthInv /\ [Next]_vars => TruthInv'
  <1> SUFFICES ASSUME LedgerInv, LedgerInv', TruthInv, [Next]_vars PROVE TruthInv'
    OBVIOUS
  <1>0. SpellsBodies(ledger')
    BY LedgerSpells DEF TruthInv
  <1>1. SpellsBodies(<<>>)
    BY DEF SpellsBodies
  <1>2. ASSUME NEW p \in Thread, ThreadStep(p), NEW q \in Thread
        PROVE  /\ SpellsBodies(th'[q].rows)
               /\ SaysValid(q)' => \A i \in DOMAIN th'[q].rows : RowSound(th'[q].rows, i)
    <2>1. CASE q # p
      BY <1>2, <2>1, OthersKept DEF LedgerInv, TruthInv, SaysValid
    <2>2. CASE q = p
      <3>1. SpellsBodies(th'[p].rows)
        BY <1>1, <1>2, RowsReadEffect, ThreadsWork DEF TruthInv
      <3>2. ASSUME SaysValid(p)'
            PROVE  \A i \in DOMAIN th'[p].rows : RowSound(th'[p].rows, i)
        <4>1. Scan(p) /\ th'[p].rows = th[p].rows /\ th'[p].result = "VALID"
          BY <1>2, <3>2, RowsReadEffect, ThreadsWork DEF SaysValid
        <4>2. th \in [Thread -> ThreadState] /\ th[p] \in ThreadState
          BY DEF LedgerInv, TypeOK
        <4>3. PICK fault \in Fault :
                th'[p].result = VerifyChain(th[p].rows, IF th[p].w3 THEN th[p].contract ELSE 0, fault)
          BY <4>1, <4>2 DEF Scan, Finish, ThreadState
        <4> QED
          BY <4>1, <4>3, ValidIsSound
      <3> QED
        BY <2>2, <3>1, <3>2
    <2> QED
      BY <2>1, <2>2
  <1>3. CASE Mine \/ Drop \/ UNCHANGED vars
    BY <1>0, <1>3 DEF Mine, Drop, vars, TruthInv, SaysValid
  <1>4. CASE Restart
    <2>1. \A p \in Thread : th'[p] = Idle /\ Idle.rows = <<>> /\ Idle.pc = "idle"
      BY <1>4 DEF Restart, Idle
    <2> QED
      BY <1>0, <1>1, <2>1 DEF TruthInv, SaysValid
  <1> QED
    BY <1>0, <1>2, <1>3, <1>4 DEF Next, ThreadStep, TruthInv

\* A VALID verdict is truthful: the hash of each row the thread read spells
\* out the bodies of the rows up to it.
THEOREM ValidVerdictIsTruthful == Spec => []ValidIsTruthful
  <1>1. Init => TruthInv
    <2> SUFFICES ASSUME Init PROVE TruthInv
      OBVIOUS
    <2>1. ledger = <<>> /\ \A p \in Thread : th[p].rows = <<>> /\ th[p].pc = "idle"
      BY DEF Init, Idle
    <2> QED
      BY <2>1 DEF TruthInv, SpellsBodies, SaysValid
  <1>2. LedgerInv /\ LedgerInv' /\ TruthInv /\ [Next]_vars => TruthInv'
    BY TruthStep
  <1>3. LedgerInv /\ TruthInv => ValidIsTruthful
    <2> SUFFICES ASSUME LedgerInv, TruthInv, NEW p \in Thread, SaysValid(p),
                        NEW i \in DOMAIN th[p].rows
                 PROVE  th[p].rows[i].hash = Bodies(th[p].rows, i)
      BY DEF ValidIsTruthful, SaysValid, Bodies
    <2>1. th[p].rows \in Seq(Row)
      BY DEF LedgerInv, TypeOK, ThreadState
    <2>2. \A j \in 1..i : j \in DOMAIN th[p].rows
      BY <2>1
    <2>3. Sound(th[p].rows, i)
      BY <2>2 DEF Sound, TruthInv
    <2> QED
      BY <2>3 DEF TruthInv, SpellsBodies
  <1> QED
    BY <1>1, <1>2, <1>3, LedgerInvariant, PTL DEF Spec

-----------------------------------------------------------------------------
(***************************************************************************)
(* The ledger whose database is changed behind the ORM (AuditTamper).      *)
(***************************************************************************)
\* The newest body of a digest is the one appended last.
LEMMA AppendedBody ==
    ASSUME NEW prev \in Digest, NEW body \in Body,
           NEW tag \in {"canonical", "concatenated"}
    PROVE  LET hash == Append(prev, <<body, tag>>)
           IN  hash # <<>> /\ hash[Len(hash)][1] = body
  <1> DEFINE E == Body \X {"canonical", "concatenated"}
             e == <<body, tag>>
  <1>1. prev \in Seq(E) /\ e \in E /\ e[1] = body
    BY DEF Digest
  <1> HIDE DEF E, e
  <1>2. /\ Append(prev, e) # <<>> /\ Len(Append(prev, e)) = Len(prev) + 1
        /\ Append(prev, e)[Len(prev) + 1] = e
    BY <1>1
  <1> QED
    BY <1>1, <1>2 DEF e

\* Two equal digests have the same newest body: what a hash commits to is
\* the body that verify_chain recomputes it from.
LEMMA RecomputedBody ==
    ASSUME NEW row \in Row, NEW i, Commits(CalculateHash(row.body, row.prev), i)
    PROVE  row.body = original[i]
  <1>1. row.body \in Body /\ row.prev \in Digest
    BY DEF Row
  <1> QED
    BY <1>1, AppendedBody DEF Commits, CalculateHash

\* The hash a thread computes commits to the body it holds.
LEMMA BlockHashBody ==
    ASSUME TypeOK, NEW p \in Thread
    PROVE  LET hash == BlockHash(p)
           IN  hash # <<>> /\ hash[Len(hash)][1] = th[p].body
  <1>1. th[p].body \in Body /\ th[p].prev \in Digest
    BY DEF TypeOK, ThreadState
  <1> QED
    BY <1>1, AppendedBody DEF BlockHash, CalculateHash, QuarantineHash

\* The history grows with the table and keeps what it has.
LEMMA OriginalEffect ==
    ASSUME TamperTypeOK, TypeOK', LedgerStep
    PROVE  /\ original' \in Seq(Body) /\ Len(original') = Len(ledger')
           /\ Len(original) \in Nat /\ Len(original') \in Nat
           /\ Len(original) <= Len(original')
           /\ DOMAIN original = 1..Len(original) /\ DOMAIN original' = 1..Len(original')
           /\ \A i \in DOMAIN original : original'[i] = original[i]
           /\ \A p \in Thread : InsertBlock(p) =>
                /\ original'[Len(ledger) + 1] = th[p].body
                /\ Len(ledger') = Len(ledger) + 1
  <1>0. /\ ledger \in Seq(Row) /\ original \in Seq(Body) /\ Len(original) = Len(ledger)
        /\ Len(ledger) \in Nat
        /\ original' = IF Len(ledger') > Len(ledger)
                       THEN Append(original, ledger'[Len(ledger')].body) ELSE original
    BY DEF TamperTypeOK, TypeOK, LedgerStep
  <1>1. ASSUME NEW p \in Thread, InsertBlock(p)
        PROVE  /\ Len(ledger') = Len(ledger) + 1
               /\ original' = Append(original, th[p].body) /\ th[p].body \in Body
    <2>1. TypeOK /\ th[p].body \in Body
      BY DEF TamperTypeOK, TypeOK, ThreadState
    <2>2. /\ Len(ledger') = Len(ledger) + 1
          /\ ledger'[Len(ledger) + 1] = NewRow(th[p].body, th[p].prev, BlockHash(p))
      BY <1>1, <2>1, InsertEffect
    <2>3. ledger'[Len(ledger) + 1].body = th[p].body
      BY <2>2 DEF NewRow
    <2> QED
      BY <1>0, <2>1, <2>2, <2>3
  <1>2. CASE \A p \in Thread : ~InsertBlock(p)
    <2>1. Len(ledger') = Len(ledger)
      <3>1. CASE UNCHANGED ledger
        BY <3>1
      <3>2. ASSUME NEW p \in Thread, ThreadStep(p), ~UNCHANGED ledger
            PROVE  Len(ledger') = Len(ledger)
        BY <1>0, <1>2, <3>2, LedgerEffect DEF TamperTypeOK
      <3> QED
        BY <3>1, <3>2 DEF LedgerStep, Next, Mine, Drop, Restart, ThreadStep
    <2> QED
      BY <1>0, <1>2, <2>1
  <1>3. ASSUME NEW p \in Thread, InsertBlock(p)
        PROVE  /\ original' \in Seq(Body) /\ Len(original') = Len(ledger')
               /\ Len(original) <= Len(original')
               /\ \A i \in DOMAIN original : original'[i] = original[i]
               /\ original'[Len(ledger) + 1] = th[p].body
    <2> DEFINE b == th[p].body
    <2>1. original' = Append(original, b) /\ b \in Body
      BY <1>1, <1>3
    <2> HIDE DEF b
    <2>2. /\ Append(original, b) \in Seq(Body)
          /\ Len(Append(original, b)) = Len(original) + 1
          /\ \A i \in DOMAIN original : Append(original, b)[i] = original[i]
          /\ Append(original, b)[Len(original) + 1] = b
      BY <1>0, <2>1
    <2> QED
      BY <1>0, <1>1, <1>3, <2>1, <2>2 DEF b
  <1> QED
    BY <1>0, <1>1, <1>2, <1>3

\* What a step of a thread does to the pool and to the class attribute.
LEMMA PoolEffect ==
    ASSUME NEW p \in Thread, ThreadStep(p)
    PROVE  /\ mined' = mined
           /\ \/ pending' = pending \/ pending' = DeployTx
              \/ th[p].pc = "send" /\ pending' = MyAnchorTx(p)
           /\ address' = address \/ address' = th[p].nonce + 1
  BY DEF ThreadStep, AppendBlock, LogAuditEvent, ReadPrevious, ReadBlocks, classVars, At,
     Step, InsertBlock, InsertRejected, GetWeb3, GetContract, DeployContract, Submit, DeployReceipt,
     DeployTimeout, Instantiate, CheckAnchor, SendAnchor, AnchorReceipt,
     AnchorTimeout, Scan, Return

\* A step of a thread keeps the places of the threads and what they work on.
LEMMA WorkingStep ==
    ASSUME TamperTypeOK, AnchorersRemember, NEW p \in Thread, ThreadStep(p), LedgerStep,
           TypeOK', NEW q \in Thread
    PROVE  Working(q)' /\ Len(th'[q].rows) <= Len(original')
  <1>0. /\ TypeOK /\ Working(p) /\ Working(q)
        /\ th[p].nonce \in Nat /\ address \in Nat
        /\ Len(th[q].rows) <= Len(original) /\ Len(th[q].rows) \in Nat
        /\ ledger \in Seq(Row) /\ ledger' \in Seq(Row) /\ Len(original) = Len(ledger)
    <2>1. TypeOK /\ Working(p) /\ Working(q) /\ Len(th[q].rows) <= Len(original)
          /\ Len(original) = Len(ledger)
      BY DEF TamperTypeOK
    <2>2. th[p] \in ThreadState /\ th[q] \in ThreadState
      BY <2>1 DEF TypeOK
    <2>3. th[p].nonce \in Nat /\ th[q].rows \in Seq(Row)
      BY <2>2 DEF ThreadState
    <2> QED
      BY <2>1, <2>3 DEF TypeOK
  <1>a. /\ Len(original') = Len(ledger') /\ Len(original) <= Len(original')
        /\ DOMAIN original = 1..Len(original)
    BY OriginalEffect
  <1>1. /\ Len(original') = Len(ledger') /\ Len(original) <= Len(original')
        /\ Len(original) \in Nat /\ Len(original') \in Nat /\ Len(original) = Len(ledger)
        /\ DOMAIN original = 1..Len(original) /\ DOMAIN ledger' = 1..Len(ledger')
        /\ DOMAIN ledger = 1..Len(ledger)
    BY <1>0, <1>a
  <1>2. address # 0 => address' # 0
    BY <1>0, PoolEffect
  <1>3. CASE q # p
    <2>1. th'[q] = th[q]
      BY <1>0, <1>3, OthersKept
    <2> QED
      BY <1>0, <1>1, <1>2, <2>1 DEF Working
  <1>4. CASE q = p
    <2>1. Len(th'[p].rows) <= Len(original')
      <3>1. th'[p].rows \in {th[p].rows, ledger, <<>>}
        BY <1>0, RowsReadEffect
      <3> QED
        BY <1>0, <1>1, <1>4, <3>1
    <2>2. CASE InsertBlock(p)
      <3>1. /\ th'[p].pc = IF Enabled /\ th[p].job = "append" THEN "web3" ELSE "done"
            /\ th'[p].job = th[p].job
        BY <1>0, <2>2, InsertEffect
      <3> QED
        BY <1>4, <2>1, <3>1 DEF Working
    <2>3. CASE ~InsertBlock(p)
      <3>1. /\ th'[p].pc \in {"web3", "contract", "deployWait", "instantiate"} =>
                 th'[p].job # "quarantine"
            /\ Anchoring(p)' => /\ Anchoring(p) /\ th'[p].job = th[p].job
                                /\ th'[p].id = th[p].id
            /\ th'[p].pc \in {"check", "send", "wait"} => th'[p].contract # 0
            /\ th'[p].pc = "instantiate" => address' # 0
        BY <1>0, <2>3, LocalEffect
      <3>2. ASSUME th'[p].pc \in {"check", "send", "wait"}
            PROVE  th'[p].job = "append" /\ th'[p].id \in DOMAIN ledger'
        <4>1. Anchoring(p) /\ th'[p].job = th[p].job /\ th'[p].id = th[p].id
          BY <3>1, <3>2 DEF Anchoring
        <4>2. th[p].job = "append" /\ th[p].id \in DOMAIN original
          BY <1>0, <4>1 DEF Anchoring, Working, AnchorersRemember
        <4> QED
          BY <1>1, <4>1, <4>2
      <3> QED
        BY <1>4, <2>1, <3>1, <3>2 DEF Working
    <2> QED
      BY <2>2, <2>3
  <1> QED
    BY <1>3, <1>4

\* Every step of the ledger keeps the types of the tampered specification.
LEMMA TamperTypeLedgerStep ==
    ASSUME TamperTypeOK, AnchorersRemember, LedgerStep
    PROVE  TamperTypeOK'
  <1>0. TypeOK /\ \A p \in Thread : Working(p)
    BY DEF TamperTypeOK
  <1>1. TypeOK'
    <2>1. ASSUME NEW p \in Thread, ThreadStep(p) PROVE TypeOK'
      BY <1>0, <2>1, ThreadTypeStep DEF ThreadStep
    <2> QED
      BY <1>0, <2>1, EnvironmentTypeStep DEF LedgerStep, Next, ThreadStep
  <1>2. /\ original' \in Seq(Body) /\ Len(original') = Len(ledger')
        /\ Len(original) \in Nat /\ Len(original') \in Nat /\ rehashed' \in BOOLEAN
        /\ Len(original) <= Len(original')
    BY <1>1, OriginalEffect DEF TamperTypeOK, LedgerStep
  <1>3. \A p \in Thread : Working(p)' /\ Len(th'[p].rows) <= Len(original')
    <2>1. ASSUME NEW p \in Thread, ThreadStep(p), NEW q \in Thread
          PROVE  Working(q)' /\ Len(th'[q].rows) <= Len(original')
      BY <1>1, <2>1, WorkingStep
    <2>2. CASE Mine \/ Drop
      BY <1>2, <2>2 DEF Mine, Drop, classVars, TamperTypeOK, Working
    <2>3. CASE Restart
      <3>1. ASSUME NEW p \in Thread
            PROVE  th'[p].pc = "idle" /\ th'[p].rows = <<>>
        BY <2>3 DEF Restart, Idle
      <3>2. Len(<<>>) = 0
        OBVIOUS
      <3> QED
        BY <1>2, <3>1, <3>2 DEF Working
    <2> QED
      BY <2>1, <2>2, <2>3 DEF LedgerStep, Next, ThreadStep
  <1> QED
    BY <1>1, <1>2, <1>3 DEF TamperTypeOK

\* A thread that anchors after a ledger step remembers the body of its row.
LEMMA AnchorersStep ==
    ASSUME TamperTypeOK, AnchorersRemember, LedgerStep, TypeOK'
    PROVE  AnchorersRemember'
  <1>0. /\ TypeOK /\ \A p \in Thread : Working(p)
        /\ ledger \in Seq(Row) /\ Len(original) = Len(ledger)
    BY DEF TamperTypeOK, TypeOK
  <1>1. /\ Len(original') = Len(ledger') /\ Len(original) <= Len(original')
        /\ DOMAIN original = 1..Len(original) /\ DOMAIN original' = 1..Len(original')
        /\ Len(original) \in Nat /\ Len(original') \in Nat
        /\ \A i \in DOMAIN original : original'[i] = original[i]
    BY OriginalEffect
  <1>2. DOMAIN original \subseteq DOMAIN original'
    BY <1>1
  <1>3. ASSUME NEW q \in Thread, Anchoring(q), th'[q].id = th[q].id, th'[q].body = th[q].body
        PROVE  th'[q].id \in DOMAIN original' /\ th'[q].body = original'[th'[q].id]
    BY <1>1, <1>2, <1>3 DEF AnchorersRemember
  <1>4. ASSUME NEW p \in Thread, ThreadStep(p), NEW q \in Thread, Anchoring(q)'
        PROVE  th'[q].id \in DOMAIN original' /\ th'[q].body = original'[th'[q].id]
    <2>1. CASE q # p
      <3>1. th'[q] = th[q]
        BY <1>0, <1>4, <2>1, OthersKept
      <3> QED
        BY <1>3, <1>4, <3>1 DEF Anchoring
    <2>2. CASE q = p /\ ~InsertBlock(p)
      BY <1>0, <1>3, <1>4, <2>2, LocalEffect
    <2>3. CASE q = p /\ InsertBlock(p)
      <3>1. th'[p].id = Len(ledger) + 1 /\ th'[p].body = th[p].body
        BY <1>0, <2>3, InsertEffect
      <3>2. original'[Len(ledger) + 1] = th[p].body /\ Len(ledger') = Len(ledger) + 1
        BY <2>3, OriginalEffect
      <3>3. Len(ledger) + 1 \in DOMAIN original'
        BY <1>0, <1>1, <3>2
      <3> QED
        BY <2>3, <3>1, <3>2, <3>3
    <2> QED
      BY <2>1, <2>2, <2>3
  <1>5. CASE Mine \/ Drop
    BY <1>1, <1>2, <1>5 DEF Mine, Drop, AnchorersRemember, Anchoring
  <1>6. CASE Restart
    <2>1. \A p \in Thread : th'[p].pc = "idle"
      BY <1>6 DEF Restart, Idle
    <2> QED
      BY <2>1 DEF AnchorersRemember, Anchoring
  <1> QED
    BY <1>4, <1>5, <1>6 DEF LedgerStep, Next, ThreadStep, AnchorersRemember

\* What is pending or mined keeps committing to the bodies as inserted.
LEMMA AnchorsStep ==
    ASSUME TamperTypeOK, AnchorersRemember, AnchorsCommit, LedgerStep, TypeOK'
    PROVE  AnchorsCommit'
  <1>0. TypeOK /\ mined \in Seq([tx: Tx, ok: BOOLEAN]) /\ \A p \in Thread : Working(p)
    BY DEF TamperTypeOK, TypeOK
  <1>1. /\ Len(original) <= Len(original') /\ Len(original') \in Nat /\ Len(original) \in Nat
        /\ DOMAIN original = 1..Len(original) /\ DOMAIN original' = 1..Len(original')
        /\ \A i \in DOMAIN original : original'[i] = original[i]
    BY OriginalEffect
  <1>2. ASSUME NEW tx, AnchorCommits(tx)
        PROVE  tx.to # 0 => /\ tx.id \in DOMAIN original' /\ tx.hash # <<>>
                            /\ tx.hash[Len(tx.hash)][1] = original'[tx.id]
    BY <1>1, <1>2 DEF AnchorCommits, Commits
  <1>3. CASE mined' = mined /\ (pending' = pending \/ pending' = NoTx \/ pending' = DeployTx)
    BY <1>2, <1>3 DEF AnchorsCommit, AnchorCommits, Commits, NoTx, DeployTx
  <1>4. ASSUME NEW p \in Thread, th[p].pc = "send", pending' = MyAnchorTx(p), mined' = mined
        PROVE  AnchorsCommit'
    <2>1. th[p].id \in DOMAIN original /\ th[p].body = original[th[p].id]
      BY <1>4 DEF AnchorersRemember, Anchoring
    <2>2. BlockHash(p) # <<>> /\ BlockHash(p)[Len(BlockHash(p))][1] = th[p].body
      BY <1>0, BlockHashBody
    <2>3. AnchorCommits(MyAnchorTx(p))
      BY <2>1, <2>2 DEF AnchorCommits, Commits, MyAnchorTx, AnchorTx
    <2> QED
      BY <1>2, <1>4, <2>3 DEF AnchorsCommit, AnchorCommits, Commits
  <1>5. CASE Mine
    <2>1. /\ DOMAIN mined' = DOMAIN mined \cup {Len(mined) + 1}
          /\ \A n \in DOMAIN mined : mined'[n] = mined[n]
          /\ mined'[Len(mined) + 1].tx = pending /\ pending' = NoTx
      BY <1>0, <1>5 DEF Mine
    <2> QED
      BY <1>2, <2>1 DEF AnchorsCommit, AnchorCommits, Commits, NoTx
  <1>6. CASE Drop \/ Restart
    BY <1>3, <1>6 DEF Drop, Restart
  <1> QED
    BY <1>3, <1>4, <1>5, <1>6, PoolEffect DEF LedgerStep, Next, ThreadStep

\* A ledger step keeps every hash it does not write, and writes one that
\* commits to the body it inserts.
LEMMA HashesStep ==
    ASSUME TamperTypeOK, HashesTell, LedgerStep, TypeOK'
    PROVE  HashesTell'
  <1> SUFFICES ASSUME ~rehashed'
               PROVE  HashesCommit(ledger)' /\ \A p \in Thread : HashesCommit(th[p].rows)'
    BY DEF HashesTell
  <1>0. /\ TypeOK /\ ~rehashed /\ ledger \in Seq(Row) /\ Len(original) = Len(ledger)
        /\ \A p \in Thread : /\ Working(p) /\ Len(th[p].rows) <= Len(original)
                             /\ th[p].rows \in Seq(Row)
        /\ HashesCommit(ledger) /\ \A p \in Thread : HashesCommit(th[p].rows)
    <2>1. TypeOK /\ \A p \in Thread : Working(p) /\ Len(th[p].rows) <= Len(original)
      BY DEF TamperTypeOK
    <2>2. \A p \in Thread : th[p] \in ThreadState
      BY <2>1 DEF TypeOK
    <2>3. \A p \in Thread : th[p].rows \in Seq(Row)
      BY <2>2 DEF ThreadState
    <2> QED
      BY <2>1, <2>3 DEF TamperTypeOK, TypeOK, LedgerStep, HashesTell
  <1>1. /\ DOMAIN original = 1..Len(original) /\ Len(original) \in Nat
        /\ \A i \in DOMAIN original : original'[i] = original[i]
    BY OriginalEffect
  <1>2. ASSUME NEW rows \in Seq(Row), Len(rows) <= Len(original), HashesCommit(rows),
               NEW i \in DOMAIN rows
        PROVE  rows[i].hash # <<>> /\ rows[i].hash[Len(rows[i].hash)][1] = original'[i]
    <2>1. i \in DOMAIN original
      BY <1>1, <1>2
    <2> QED
      BY <1>1, <1>2, <2>1 DEF HashesCommit, Commits
  <1>3. ASSUME NEW p \in Thread, InsertBlock(p), NEW i \in DOMAIN ledger'
        PROVE  ledger'[i].hash # <<>> /\ ledger'[i].hash[Len(ledger'[i].hash)][1] = original'[i]
    <2>1. /\ DOMAIN ledger' = 1..(Len(ledger) + 1)
          /\ \A k \in DOMAIN ledger : ledger'[k] = ledger[k]
          /\ ledger'[Len(ledger) + 1] = NewRow(th[p].body, th[p].prev, BlockHash(p))
      BY <1>0, <1>3, InsertEffect
    <2>2. CASE i \in DOMAIN ledger
      <3>1. Len(ledger) <= Len(original)
        BY <1>0, <1>1
      <3>2. ledger'[i] = ledger[i]
        BY <2>1, <2>2
      <3> QED
        BY <1>0, <1>2, <2>2, <3>1, <3>2
    <2>3. CASE i = Len(ledger) + 1
      <3>1. ledger'[i].hash = BlockHash(p)
        BY <2>1, <2>3 DEF NewRow
      <3>2. original'[i] = th[p].body
        BY <1>3, <2>3, OriginalEffect
      <3>3. BlockHash(p) # <<>> /\ BlockHash(p)[Len(BlockHash(p))][1] = th[p].body
        BY <1>0, BlockHashBody
      <3> QED
        BY <3>1, <3>2, <3>3
    <2>4. DOMAIN ledger = 1..Len(ledger) /\ Len(ledger) \in Nat
      BY <1>0
    <2> QED
      BY <2>1, <2>2, <2>3, <2>4
  <1>4. ASSUME \A p \in Thread : ~InsertBlock(p), NEW i \in DOMAIN ledger'
        PROVE  ledger'[i].hash # <<>> /\ ledger'[i].hash[Len(ledger'[i].hash)][1] = original'[i]
    <2>1. i \in DOMAIN ledger /\ ledger'[i].hash = ledger[i].hash
      <3>1. CASE UNCHANGED ledger
        BY <1>4, <3>1
      <3>2. ASSUME NEW p \in Thread, ThreadStep(p), ~UNCHANGED ledger
            PROVE  i \in DOMAIN ledger /\ ledger'[i].hash = ledger[i].hash
        <4>1. PICK r \in Row : /\ Content(r) = Content(ledger[th[p].id])
                               /\ ledger' = [ledger EXCEPT ![th[p].id] = r]
          BY <1>0, <1>4, <3>2, LedgerEffect
        <4> QED
          BY <1>0, <1>4, <4>1 DEF Content
      <3> QED
        BY <1>4, <3>1, <3>2 DEF LedgerStep, Next, Mine, Drop, Restart, ThreadStep
    <2>2. Len(ledger) <= Len(original)
      BY <1>0, <1>1
    <2> QED
      BY <1>0, <1>2, <2>1, <2>2
  <1>5. ASSUME NEW q \in Thread, NEW i \in DOMAIN th'[q].rows,
               th'[q].rows \in {th[q].rows, ledger, <<>>}
        PROVE  /\ th'[q].rows[i].hash # <<>>
               /\ th'[q].rows[i].hash[Len(th'[q].rows[i].hash)][1] = original'[i]
    <2>1. /\ Len(ledger) <= Len(original) /\ DOMAIN <<>> = {}
          /\ ledger \in Seq(Row) /\ th[q].rows \in Seq(Row) /\ Len(th[q].rows) <= Len(original)
          /\ HashesCommit(ledger) /\ HashesCommit(th[q].rows)
      BY <1>0, <1>1
    <2> QED
      BY <1>2, <1>5, <2>1
  <1>6. ASSUME NEW q \in Thread
        PROVE  th'[q].rows \in {th[q].rows, ledger, <<>>}
    <2>1. ASSUME NEW p \in Thread, ThreadStep(p)
          PROVE  th'[q].rows \in {th[q].rows, ledger, <<>>}
      BY <1>0, <2>1, OthersKept, RowsReadEffect
    <2>2. CASE Mine \/ Drop
      BY <2>2 DEF Mine, Drop
    <2>3. CASE Restart
      BY <2>3 DEF Restart, Idle
    <2> QED
      BY <2>1, <2>2, <2>3 DEF LedgerStep, Next, ThreadStep
  <1> QED
    BY <1>3, <1>4, <1>5, <1>6 DEF HashesCommit, Commits

\* What verify_chain has checked of a row it calls VALID: its hash, and, with
\* a contract, some anchor of every CONFIRMED row.
LEMMA ValidIsAnchored ==
    ASSUME NEW rows, NEW contract \in Nat \ {0}, NEW fault,
           VerifyChain(rows, contract, fault) = "VALID",
           NEW i \in DOMAIN rows, rows[i].status = "CONFIRMED"
    PROVE  \E n \in AnchorsOf(contract, i) :
              mined[n].tx.hash = CalculateHash(rows[i].body, rows[i].prev)
  <1>0. ASSUME NEW k PROVE RowReason(rows, k, contract, fault) # "VALID"
    BY DEF RowReason, OnChainReason
  <1>1. {k \in DOMAIN rows : RowReason(rows, k, contract, fault) # "NONE"} = {}
    BY <1>0 DEF VerifyChain
  <1>2. RowReason(rows, i, contract, fault) = "NONE"
    BY <1>1
  <1>3. OnChainReason(rows[i], i, contract, fault) = "NONE"
    BY <1>2 DEF RowReason
  <1> QED
    BY <1>3 DEF OnChainReason

\* The verdict of a thread that has just scanned its rows.
LEMMA ScanVerdict ==
    ASSUME TamperInv, NEW p \in Thread, Scan(p), SaysValid(p)'
    PROVE  /\ th'[p].rows = th[p].rows /\ th'[p].w3 = th[p].w3
           /\ th'[p].contract = th[p].contract
           /\ ~rehashed => \A i \in DOMAIN th[p].rows : Unchanged(p, i)
           /\ (th[p].w3 /\ th[p].contract # 0) =>
                \A i \in DOMAIN th[p].rows :
                    th[p].rows[i].status = "CONFIRMED" => Unchanged(p, i)
  <1>0. /\ th \in [Thread -> ThreadState] /\ th[p] \in ThreadState
        /\ th[p].rows \in Seq(Row) /\ th[p].contract \in Nat
    <2>1. th \in [Thread -> ThreadState] /\ th[p] \in ThreadState
      BY DEF TamperInv, TamperTypeOK, TypeOK
    <2> QED
      BY <2>1 DEF ThreadState
  <1> DEFINE contract == IF th[p].w3 THEN th[p].contract ELSE 0
  <1>1. PICK fault \in Fault : Finish(p, VerifyChain(th[p].rows, contract, fault))
    BY DEF Scan
  <1>2. /\ th'[p].rows = th[p].rows /\ th'[p].w3 = th[p].w3
        /\ th'[p].contract = th[p].contract
        /\ VerifyChain(th[p].rows, contract, fault) = "VALID"
    BY <1>0, <1>1 DEF Finish, SaysValid, ThreadState
  <1>3. ASSUME ~rehashed, NEW i \in DOMAIN th[p].rows
        PROVE  Unchanged(p, i)
    <2>1. RowSound(th[p].rows, i)
      BY <1>2, <1>3, ValidIsSound
    <2>2. Commits(th[p].rows[i].hash, i)
      BY <1>3 DEF TamperInv, HashesTell, HashesCommit
    <2>3. th[p].rows[i] \in Row
      BY <1>0, <1>3
    <2> QED
      BY <2>1, <2>2, <2>3, RecomputedBody DEF RowSound, Unchanged
  <1>4. ASSUME th[p].w3, th[p].contract # 0, NEW i \in DOMAIN th[p].rows,
               th[p].rows[i].status = "CONFIRMED"
        PROVE  Unchanged(p, i)
    <2>1. contract \in Nat \ {0}
      BY <1>0, <1>4
    <2>2. PICK n \in AnchorsOf(contract, i) :
             mined[n].tx.hash = CalculateHash(th[p].rows[i].body, th[p].rows[i].prev)
      BY <1>2, <1>4, <2>1, ValidIsAnchored
    <2>3. n \in DOMAIN mined /\ mined[n].tx.to # 0 /\ mined[n].tx.id = i
      BY <2>1 DEF AnchorsOf
    <2>4. Commits(mined[n].tx.hash, i)
      BY <2>3 DEF TamperInv, AnchorsCommit, AnchorCommits
    <2>5. th[p].rows[i] \in Row
      BY <1>0, <1>4
    <2> QED
      BY <2>2, <2>4, <2>5, RecomputedBody DEF Unchanged
  <1> QED
    BY <1>2, <1>3, <1>4

\* A verdict, once given, stays right: the rows the thread has read and the
\* history they are compared with do not change under it.
LEMMA VerdictStep ==
    ASSUME TamperInv, LedgerStep, TypeOK'
    PROVE  EditIsDetected' /\ ConfirmedRewriteIsDetected'
  <1>0. /\ TypeOK /\ TamperTypeOK /\ rehashed' = rehashed
        /\ \A p \in Thread : Len(th[p].rows) <= Len(original) /\ th[p].rows \in Seq(Row)
    <2>1. /\ TamperTypeOK /\ TypeOK
          /\ \A p \in Thread : Len(th[p].rows) <= Len(original)
      BY DEF TamperInv, TamperTypeOK
    <2>2. \A p \in Thread : th[p] \in ThreadState
      BY <2>1 DEF TypeOK
    <2>3. \A p \in Thread : th[p].rows \in Seq(Row)
      BY <2>2 DEF ThreadState
    <2> QED
      BY <2>1, <2>3 DEF LedgerStep
  <1>1. /\ DOMAIN original = 1..Len(original) /\ Len(original) \in Nat
        /\ \A i \in DOMAIN original : original'[i] = original[i]
    BY <1>0, OriginalEffect
  <1>2. ASSUME NEW q \in Thread, NEW i \in DOMAIN th[q].rows
        PROVE  original'[i] = original[i]
    <2>1. i \in DOMAIN original
      BY <1>0, <1>1, <1>2
    <2> QED
      BY <1>1, <2>1
  <1>3. ASSUME NEW q \in Thread, SaysValid(q)'
        PROVE  /\ th'[q].rows = th[q].rows /\ th'[q].w3 = th[q].w3
               /\ th'[q].contract = th[q].contract
               /\ ~rehashed => \A i \in DOMAIN th[q].rows : Unchanged(q, i)
               /\ (th[q].w3 /\ th[q].contract # 0) =>
                    \A i \in DOMAIN th[q].rows :
                        th[q].rows[i].status = "CONFIRMED" => Unchanged(q, i)
    <2>1. CASE th'[q] = th[q]
      BY <1>3, <2>1 DEF TamperInv, SaysValid, EditIsDetected, ConfirmedRewriteIsDetected
    <2>2. ASSUME NEW p \in Thread, ThreadStep(p), th'[q] # th[q]
          PROVE  Scan(q)
      BY <1>0, <1>3, <2>2, OthersKept, RowsReadEffect
    <2>3. CASE Scan(q)
      BY <1>3, <2>3, ScanVerdict
    <2>4. CASE Mine \/ Drop
      BY <2>1, <2>4 DEF Mine, Drop
    <2>5. CASE Restart
      BY <1>3, <2>5 DEF Restart, Idle, SaysValid
    <2> QED
      BY <2>1, <2>2, <2>3, <2>4, <2>5 DEF LedgerStep, Next, ThreadStep
  <1>4. EditIsDetected'
    BY <1>0, <1>2, <1>3 DEF EditIsDetected, Unchanged
  <1>5. ConfirmedRewriteIsDetected'
    <2> SUFFICES ASSUME NEW q \in Thread, SaysValid(q)', th'[q].w3, th'[q].contract # 0,
                        NEW i \in DOMAIN th'[q].rows, th'[q].rows[i].status = "CONFIRMED"
                 PROVE  th'[q].rows[i].body = original'[i]
      BY DEF ConfirmedRewriteIsDetected, Unchanged
    <2> QED
      BY <1>2, <1>3 DEF Unchanged
  <1> QED
    BY <1>4, <1>5

-----------------------------------------------------------------------------
\* A change of the table that keeps its length and leaves the locals, the
\* chain and the history alone: what the invariant says of these stays true.
LEMMA OutOfBandStep ==
    ASSUME TamperInv, ledger' \in Seq(Row), Len(ledger') = Len(ledger),
           UNCHANGED <<mined, pending, classVars, th, restarts, original>>,
           rehashed' \in BOOLEAN, rehashed => rehashed',
           ~rehashed' => HashesCommit(ledger)'
    PROVE  TamperInv'
  <1>0. DOMAIN ledger' = DOMAIN ledger
    <2>1. ledger \in Seq(Row)
      BY DEF TamperInv, TamperTypeOK, TypeOK
    <2> QED
      BY <2>1
  <1>1. TamperTypeOK'
    BY <1>0 DEF TamperInv, TamperTypeOK, TypeOK, classVars, Working
  <1>2. AnchorersRemember' /\ AnchorsCommit'
    BY DEF TamperInv, AnchorersRemember, Anchoring, AnchorsCommit, AnchorCommits, Commits
  <1>3. HashesTell'
    BY DEF TamperInv, HashesTell, HashesCommit, Commits
  <1>4. EditIsDetected' /\ ConfirmedRewriteIsDetected'
    BY DEF TamperInv, EditIsDetected, ConfirmedRewriteIsDetected, SaysValid, Unchanged
  <1> QED
    BY <1>1, <1>2, <1>3, <1>4 DEF TamperInv

\* An edit with SQL leaves the hash columns as they are.
LEMMA EditStep ==
    ASSUME TamperInv, NEW i \in DOMAIN ledger, NEW body \in Body, Edit(i, body)
    PROVE  TamperInv'
  <1>0. ledger \in Seq(Row) /\ rehashed \in BOOLEAN
    BY DEF TamperInv, TamperTypeOK, TypeOK
  <1> DEFINE row == [ledger[i] EXCEPT !.body = body]
  <1>1. row \in Row /\ row.hash = ledger[i].hash
    <2>1. ledger[i] \in Row
      BY <1>0
    <2> QED
      BY <2>1 DEF Row
  <1>2. ledger' = [ledger EXCEPT ![i] = row]
    BY DEF Edit
  <1> HIDE DEF row
  <1>3. /\ ledger' \in Seq(Row) /\ Len(ledger') = Len(ledger)
        /\ DOMAIN ledger' = DOMAIN ledger
        /\ \A k \in DOMAIN ledger : ledger'[k].hash = ledger[k].hash
    BY <1>0, <1>1, <1>2
  <1>4. ~rehashed => HashesCommit(ledger)'
    BY <1>3 DEF Edit, TamperInv, HashesTell, HashesCommit, Commits
  <1> QED
    BY <1>0, <1>3, <1>4, OutOfBandStep DEF Edit

\* A rewrite makes well-typed rows: bodies and digests.
LEMMA RecalculatedType ==
    ASSUME ledger \in Seq(Row), NEW i \in DOMAIN ledger, NEW body \in Body
    PROVE  Recalculated(i, body) \in Seq(Row) /\ Len(Recalculated(i, body)) = Len(ledger)
  <1> DEFINE E == Body \X {"canonical", "concatenated"}
             base == HashBefore(ledger, i)
             bodyOf(k) == IF k = i THEN body ELSE ledger[k].body
             tail(k) == [m \in 1..(k - i + 1) |-> <<bodyOf(i + m - 1), "canonical">>]
             digest(k) == base \o tail(k)
             row(k) == IF k < i THEN ledger[k]
                       ELSE [ledger[k] EXCEPT !.body = bodyOf(k), !.hash = digest(k),
                                              !.prev = digest(k - 1)]
  <1>0. /\ Len(ledger) \in Nat /\ DOMAIN ledger = 1..Len(ledger) /\ i \in 1..Len(ledger)
        /\ \A k \in 1..Len(ledger) : ledger[k] \in Row /\ ledger[k].body \in Body
    <2>1. Len(ledger) \in Nat /\ DOMAIN ledger = 1..Len(ledger)
      OBVIOUS
    <2>2. \A k \in 1..Len(ledger) : ledger[k] \in Row
      BY <2>1
    <2> QED
      BY <2>1, <2>2 DEF Row
  <1>1. base \in Digest
    <2>1. CASE i = 1
      BY <2>1 DEF HashBefore, Genesis, Digest
    <2>2. CASE i # 1
      <3>1. i - 1 \in 1..Len(ledger)
        BY <1>0, <2>2
      <3>2. ledger[i - 1] \in Row
        BY <1>0, <3>1
      <3> QED
        BY <2>2, <3>2 DEF HashBefore, Row
    <2> QED
      BY <2>1, <2>2
  <1>2. \A k \in 1..Len(ledger) : bodyOf(k) \in Body
    BY <1>0
  <1>3. ASSUME NEW k \in (i - 1)..Len(ledger)
        PROVE  digest(k) \in Digest
    <2>1. k - i + 1 \in Nat
      BY <1>0
    <2>2. \A m \in 1..(k - i + 1) : i + m - 1 \in 1..Len(ledger)
      BY <1>0
    <2>3. tail(k) \in [1..(k - i + 1) -> E]
      BY <1>2, <2>2
    <2> HIDE DEF tail, base, E
    <2>4. tail(k) \in Seq(E)
      BY <2>1, <2>3
    <2>5. Digest = Seq(E)
      BY DEF Digest, E
    <2> QED
      BY <1>1, <2>4, <2>5
  <1>4. ASSUME NEW k \in 1..Len(ledger)
        PROVE  row(k) \in Row
    <2>1. CASE k < i
      BY <1>0, <2>1
    <2>2. CASE ~(k < i)
      <3>1. k \in (i - 1)..Len(ledger) /\ k - 1 \in (i - 1)..Len(ledger)
        BY <1>0, <2>2
      <3>2. digest(k) \in Digest /\ digest(k - 1) \in Digest /\ bodyOf(k) \in Body
        BY <1>2, <1>3, <3>1
      <3> HIDE DEF digest, bodyOf
      <3> QED
        BY <1>0, <2>2, <3>2 DEF Row
    <2> QED
      BY <2>1, <2>2
  <1>5. Recalculated(i, body) = [k \in 1..Len(ledger) |-> row(k)]
    BY <1>0 DEF Recalculated
  <1> HIDE DEF row
  <1>6. [k \in 1..Len(ledger) |-> row(k)] \in [1..Len(ledger) -> Row]
    BY <1>4
  <1> QED
    BY <1>0, <1>5, <1>6

\* After a rewrite only the anchored rows can be told from the original.
LEMMA RewriteStep ==
    ASSUME TamperInv, NEW i \in DOMAIN ledger, NEW body \in Body, Rewrite(i, body)
    PROVE  TamperInv'
  <1>1. ledger \in Seq(Row)
    BY DEF TamperInv, TamperTypeOK, TypeOK
  <1>2. ledger' \in Seq(Row) /\ Len(ledger') = Len(ledger)
    BY <1>1, RecalculatedType DEF Rewrite
  <1> QED
    BY <1>2, OutOfBandStep DEF Rewrite

\* The invariant of the tampered ledger is inductive.
LEMMA TamperInvStep == TamperInv /\ [TamperNext]_tamperVars => TamperInv'
  <1> SUFFICES ASSUME TamperInv, [TamperNext]_tamperVars PROVE TamperInv'
    OBVIOUS
  <1>1. CASE LedgerStep
    <2>1. /\ TamperTypeOK /\ AnchorersRemember /\ AnchorsCommit /\ HashesTell
      BY DEF TamperInv
    <2>2. TamperTypeOK' /\ TypeOK'
      BY <1>1, <2>1, TamperTypeLedgerStep DEF TamperTypeOK
    <2> QED
      BY <1>1, <2>1, <2>2, AnchorersStep, AnchorsStep, HashesStep, VerdictStep DEF TamperInv
  <1>2. CASE \E i \in DOMAIN ledger, body \in Body : Edit(i, body) \/ Rewrite(i, body)
    BY <1>2, EditStep, RewriteStep
  <1>3. CASE UNCHANGED tamperVars
    <2>1. ledger \in Seq(Row) /\ rehashed \in BOOLEAN
      BY DEF TamperInv, TamperTypeOK, TypeOK
    <2>2. ~rehashed' => HashesCommit(ledger)'
      BY <1>3 DEF tamperVars, vars, TamperInv, HashesTell, HashesCommit, Commits
    <2> QED
      BY <1>3, <2>1, <2>2, OutOfBandStep DEF tamperVars, vars, classVars
  <1> QED
    BY <1>1, <1>2, <1>3 DEF TamperNext

\* No row, no anchor and no verdict: the invariant holds at the start.
LEMMA TamperInvInit == TamperInit => TamperInv
  <1> SUFFICES ASSUME TamperInit PROVE TamperInv
    OBVIOUS
  <1>1. Init /\ original = <<>> /\ rehashed = FALSE
    BY DEF TamperInit
  <1>2. TypeOK
    BY <1>1, LedgerInvInit DEF LedgerInv
  <1>3. ASSUME NEW p \in Thread PROVE th[p].pc = "idle" /\ th[p].rows = <<>>
    BY <1>1 DEF Init, Idle
  <1>4. DOMAIN ledger = {} /\ DOMAIN mined = {} /\ pending.to = 0 /\ ledger = <<>>
    BY <1>1 DEF Init, NoTx
  <1>5. TamperTypeOK
    <2>1. Len(<<>>) = 0 /\ <<>> \in Seq(Body)
      OBVIOUS
    <2>2. \A p \in Thread : Working(p) /\ Len(th[p].rows) <= Len(original)
      BY <1>1, <1>3, <2>1 DEF Working
    <2> QED
      BY <1>1, <1>2, <1>4, <2>1, <2>2 DEF TamperTypeOK
  <1> QED
    BY <1>3, <1>4, <1>5 DEF TamperInv, AnchorersRemember, Anchoring, AnchorsCommit,
       AnchorCommits, HashesTell, HashesCommit, EditIsDetected, ConfirmedRewriteIsDetected,
       SaysValid

\* What the chain and the locals of the threads know of the original bodies,
\* whatever is done to the table.
THEOREM TamperInvariant == TamperSpec => []TamperInv
  BY TamperInvInit, TamperInvStep, PTL DEF TamperSpec

\* verify_chain finds every edit that leaves the hashes alone, for any number
\* of edits, threads, rows and restarts.
THEOREM EditsAreDetected == TamperSpec => []EditIsDetected
  <1>1. TamperInv => EditIsDetected
    BY DEF TamperInv
  <1> QED
    BY <1>1, TamperInvariant, PTL

\* A VALID verdict that consulted the contract vouches for every CONFIRMED
\* row, also after the hashes of the table were recalculated.
THEOREM ConfirmedRewritesAreDetected == TamperSpec => []ConfirmedRewriteIsDetected
  <1>1. TamperInv => ConfirmedRewriteIsDetected
    BY DEF TamperInv
  <1> QED
    BY <1>1, TamperInvariant, PTL
=============================================================================
