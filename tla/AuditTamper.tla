---------------------------- MODULE AuditTamper ----------------------------
(***************************************************************************)
(* The ledger with a database that is changed behind the ORM: a row is     *)
(* edited with SQL, or it is edited and the hashes of all rows from it on  *)
(* are recalculated (test_audit_chain_rewrite.py).  It asks what a verdict *)
(* of verify_chain then says about the rows.                               *)
(***************************************************************************)
EXTENDS AuditLedger

VARIABLES
    original,   \* history: the body each row was inserted with
    rehashed    \* history: some rewrite recalculated the hashes

tamperVars == <<vars, original, rehashed>>

TamperInit == Init /\ original = <<>> /\ rehashed = FALSE

LedgerStep ==
    /\ Next
    /\ original' = IF Len(ledger') > Len(ledger)
                   THEN Append(original, ledger'[Len(ledger')].body)
                   ELSE original
    /\ UNCHANGED rehashed

Edit(i, body) ==
    /\ ledger' = [ledger EXCEPT ![i].body = body]
    /\ UNCHANGED <<mined, pending, classVars, th, restarts, original, rehashed>>

\* The rows from i on, with the new body and every hash recalculated.
Recalculated(i, body) ==
    LET base == HashBefore(ledger, i)
        bodyOf(k) == IF k = i THEN body ELSE ledger[k].body
        digest(k) == base \o [m \in 1..(k - i + 1) |-> <<bodyOf(i + m - 1), "canonical">>]
    IN  [k \in DOMAIN ledger |->
            IF k < i THEN ledger[k]
            ELSE [ledger[k] EXCEPT !.body = bodyOf(k), !.hash = digest(k),
                                   !.prev = digest(k - 1)]]

Rewrite(i, body) ==
    /\ ledger' = Recalculated(i, body)
    /\ rehashed' = TRUE
    /\ UNCHANGED <<mined, pending, classVars, th, restarts, original>>

TamperNext ==
    \/ LedgerStep
    \/ \E i \in DOMAIN ledger, body \in Body : Edit(i, body) \/ Rewrite(i, body)

TamperSpec == TamperInit /\ [][TamperNext]_tamperVars

-----------------------------------------------------------------------------
SaysValid(p) == th[p].pc = "done" /\ th[p].job = "verify" /\ th[p].result = "VALID"
Unchanged(p, i) == th[p].rows[i].body = original[i]

\* verify_chain finds every edit that leaves the hashes alone: it says VALID
\* only about rows that still have the body append_block gave them.
EditIsDetected ==
    ~rehashed => \A p \in Thread : SaysValid(p) =>
                    \A i \in DOMAIN th[p].rows : Unchanged(p, i)

\* Recalculating the hashes does not help for anchored rows: a VALID verdict
\* that consulted the contract vouches for every row that is CONFIRMED.
ConfirmedRewriteIsDetected ==
    \A p \in Thread : (SaysValid(p) /\ th[p].w3 /\ th[p].contract # 0) =>
        \A i \in DOMAIN th[p].rows :
            th[p].rows[i].status = "CONFIRMED" => Unchanged(p, i)

\* With BLOCKCHAIN_ENABLED a recalculated chain is caught
\* (test_audit_chain_rewrite.py: "If BLOCKCHAIN_ENABLED=true, the
\* ONCHAIN_HASH_MISMATCH would catch this!").
RewriteIsCaught ==
    Enabled => \A p \in Thread : SaysValid(p) =>
                  \A i \in DOMAIN th[p].rows :
                      th[p].rows[i].status = "CONFIRMED" => Unchanged(p, i)
-----------------------------------------------------------------------------
(***************************************************************************)
(* The inductive invariant behind the theorems of AuditLedgerProofs.  The  *)
(* one of AuditLedger does not survive an edit: rows no longer carry the   *)
(* hash their thread computed.  What no edit reaches is the chain and the  *)
(* locals of the threads, and these commit to the bodies as inserted.      *)
(***************************************************************************)
\* A digest whose newest body is the one row i was inserted with.
Commits(hash, i) == hash # <<>> /\ hash[Len(hash)][1] = original[i]

TamperTypeOK ==
    /\ TypeOK
    /\ original \in Seq(Body)
    /\ Len(original) = Len(ledger)
    /\ rehashed \in BOOLEAN
    /\ \A p \in Thread : Working(p) /\ Len(th[p].rows) <= Len(original)

\* A thread that anchors its row still has the body it inserted.
AnchorersRemember ==
    \A p \in Thread : Anchoring(p) => /\ th[p].id \in DOMAIN original
                                      /\ th[p].body = original[th[p].id]

AnchorCommits(tx) == tx.to # 0 => tx.id \in DOMAIN original /\ Commits(tx.hash, tx.id)

AnchorsCommit ==
    /\ AnchorCommits(pending)
    /\ \A n \in DOMAIN mined : AnchorCommits(mined[n].tx)

HashesCommit(rows) == \A i \in DOMAIN rows : Commits(rows[i].hash, i)

\* As long as no hash was recalculated, the hash columns tell the bodies.
HashesTell ==
    ~rehashed => /\ HashesCommit(ledger)
                 /\ \A p \in Thread : HashesCommit(th[p].rows)

TamperInv ==
    /\ TamperTypeOK
    /\ AnchorersRemember
    /\ AnchorsCommit
    /\ HashesTell
    /\ EditIsDetected
    /\ ConfirmedRewriteIsDetected
=============================================================================
