------------------------------ MODULE Delivery ------------------------------
(***************************************************************************)
(* The hybrid key of a transfer, from the upload that establishes it to    *)
(* the download that spends it, for one receiver and one sender.           *)
(*                                                                         *)
(*   upload:   claim_prekey, initialize_transfer_security (which creates   *)
(*             the receiver's first ML-KEM key), package;                  *)
(*   download: downloadFile of the Node backend reads the sender's ACTIVE  *)
(*             key, then process_download_stream opens the package,        *)
(*             verifies it, deletes the private prekey, recovers the key   *)
(*             and streams the fragments.                                  *)
(*                                                                         *)
(* Calls of different worker processes (uploads) and of the thread pool    *)
(* (downloads) interleave at every transaction of the database.  A         *)
(* prekey, a key row and a signing key are named by their position or      *)
(* version; key material is never represented.                             *)
(***************************************************************************)
EXTENDS Naturals, Sequences, FiniteSets

CONSTANTS
    Upload, Download,   \* calls of internal_encrypt and of internal_decrypt
    Batch,              \* prekeys generated at a time (10)
    Attempts,           \* attempts of claim_prekey (3)
    Fragments,          \* bound: fragments of a package
    MaxSenderKeys       \* bound: signing keys the sender registers

ASSUME DeliveryAssumption ==
    /\ Upload # {}
    /\ Batch \in Nat \ {0} /\ Attempts \in Nat \ {0}
    /\ Fragments \in Nat \ {0} /\ MaxSenderKeys \in Nat \ {0}

VARIABLES
    prekeys,    \* ECDHPrekey rows of the receiver, in order of insertion
    keys,       \* PQCKey rows of the receiver, in order of insertion
    sender,     \* the sender's signing keys: the ACTIVE one (or 0), the last
    uploads,
    downloads

vars == <<prekeys, keys, sender, uploads, downloads>>

NoKek == [prekey |-> 0, secret |-> 0, public |-> 0]
Kek(prekey, secret, public) == [prekey |-> prekey, secret |-> secret, public |-> public]

NewUpload == [pc |-> "idle", tries |-> 0, prekey |-> 0, seen |-> 0, signer |-> 0, kek |-> NoKek]
NewDownload == [pc |-> "idle", of |-> CHOOSE u \in Upload : TRUE, key |-> 0,
                prekey |-> 0, kek |-> NoKek, sent |-> 0, why |-> "none"]

Init ==
    /\ prekeys = <<>>
    /\ keys = <<>>
    /\ sender = [active |-> 1, last |-> 1]
    /\ uploads = [u \in Upload |-> NewUpload]
    /\ downloads = [d \in Download |-> NewDownload]

Free == {i \in DOMAIN prekeys : prekeys[i].state = "free"}
ActiveRows == {i \in DOMAIN keys : keys[i].active}
SetUpload(u, r) == uploads' = [uploads EXCEPT ![u] = r]
SetDownload(d, r) == downloads' = [downloads EXCEPT ![d] = r]

-----------------------------------------------------------------------------
(***************************************************************************)
(* claim_prekey: at most Attempts rounds of select and conditional update; *)
(* a round that finds nothing generates Batch prekeys instead.  Without a  *)
(* prekey the transfer goes on with RSA alone.                             *)
(***************************************************************************)
Begin(u) ==
    /\ uploads[u].pc = "idle"
    /\ sender.active # 0                    \* the Node backend requires it
    /\ SetUpload(u, [uploads[u] EXCEPT !.pc = "select", !.signer = sender.active])
    /\ UNCHANGED <<prekeys, keys, sender, downloads>>

Exhausted(u) == uploads[u].tries >= Attempts

SelectPrekey(u) ==
    /\ uploads[u].pc = "select"
    /\ \/ /\ Exhausted(u)
          /\ SetUpload(u, [uploads[u] EXCEPT !.pc = "package", !.prekey = 0, !.tries = 0])
       \/ /\ ~Exhausted(u) /\ Free = {}
          /\ SetUpload(u, [uploads[u] EXCEPT !.pc = "restock"])
       \/ /\ ~Exhausted(u)
          /\ \E i \in Free : SetUpload(u, [uploads[u] EXCEPT !.pc = "claim", !.prekey = i])
    /\ UNCHANGED <<prekeys, keys, sender, downloads>>

Restock(u) ==
    /\ uploads[u].pc = "restock"
    /\ prekeys' = prekeys \o [i \in 1..Batch |-> [state |-> "free", transfer |-> {}]]
    /\ SetUpload(u, [uploads[u] EXCEPT !.pc = "select", !.tries = @ + 1])
    /\ UNCHANGED <<keys, sender, downloads>>

\* The UPDATE asks again for consumed = False, but no longer for the date.
\* Mutant: the UPDATE names the prekey only.
Claimable_Unconditional(i) == prekeys[i].state # "deleted"
Claimable(i) == prekeys[i].state \in {"free", "stale"}

Claim(u) ==
    LET i == uploads[u].prekey
    IN  /\ uploads[u].pc = "claim" /\ Claimable(i)
        /\ prekeys' = [prekeys EXCEPT ![i] = [state |-> "consumed", transfer |-> {u}]]
        /\ SetUpload(u, [uploads[u] EXCEPT !.pc = "security", !.tries = 0])
        /\ UNCHANGED <<keys, sender, downloads>>

\* Mutant: the same prekey is tried until it is won.
LoseClaim_Retries(u) ==
    /\ uploads[u].pc = "claim" /\ ~Claimable(uploads[u].prekey)
    /\ UNCHANGED vars

LoseClaim(u) ==
    /\ uploads[u].pc = "claim" /\ ~Claimable(uploads[u].prekey)
    /\ SetUpload(u, [uploads[u] EXCEPT !.pc = "select", !.tries = @ + 1])
    /\ UNCHANGED <<prekeys, keys, sender, downloads>>

-----------------------------------------------------------------------------
(***************************************************************************)
(* initialize_transfer_security.  A receiver without a key gets one first: *)
(* generate_keypair retires the active key it has read and inserts the     *)
(* next version, which the unique constraint may refuse.  Any exception    *)
(* disables the hybrid key; the prekey stays consumed.                     *)
(***************************************************************************)
ReadKey(u) ==
    /\ uploads[u].pc = "security"
    /\ \/ /\ ActiveRows = {}
          /\ SetUpload(u, [uploads[u] EXCEPT !.pc = "generate"])
       \/ \E i \in ActiveRows :
            SetUpload(u, [uploads[u] EXCEPT !.pc = "package",
                                            !.kek = Kek(uploads[u].prekey, i, i)])
    /\ UNCHANGED <<prekeys, keys, sender, downloads>>

GenerateRead(u) ==
    /\ uploads[u].pc = "generate"
    /\ \/ /\ ActiveRows = {}
          /\ SetUpload(u, [uploads[u] EXCEPT !.pc = "insert", !.seen = 0])
       \/ \E i \in ActiveRows :
            SetUpload(u, [uploads[u] EXCEPT !.pc = "insert", !.seen = i])
    /\ UNCHANGED <<prekeys, keys, sender, downloads>>

NewVersion(u) == IF uploads[u].seen = 0 THEN 1 ELSE keys[uploads[u].seen].version + 1
\* Mutant: no unique constraint on the version.
VersionIsFree_NoConstraint(v) == v \in Nat
VersionIsFree(v) == \A i \in DOMAIN keys : keys[i].version # v

GenerateInsert(u) ==
    /\ uploads[u].pc = "insert" /\ VersionIsFree(NewVersion(u))
    /\ keys' = Append([i \in DOMAIN keys |->
                         IF i = uploads[u].seen THEN [keys[i] EXCEPT !.active = FALSE] ELSE keys[i]],
                      [version |-> NewVersion(u), active |-> TRUE])
    /\ SetUpload(u, [uploads[u] EXCEPT !.pc = "security", !.seen = 0])
    /\ UNCHANGED <<prekeys, sender, downloads>>

GenerateRefused(u) ==
    /\ uploads[u].pc = "insert" /\ ~VersionIsFree(NewVersion(u))
    /\ SetUpload(u, [uploads[u] EXCEPT !.pc = "package", !.seen = 0])   \* no kek
    /\ UNCHANGED <<prekeys, keys, sender, downloads>>

\* encrypt_file_for_receiver wraps the key of every fragment with RSA, and
\* with the hybrid key when there is one; the ZIP closes the upload.
Package(u) ==
    /\ uploads[u].pc = "package"
    /\ SetUpload(u, [uploads[u] EXCEPT !.pc = "done"])
    /\ UNCHANGED <<prekeys, keys, sender, downloads>>

\* A locked database, a blocked transfer, an I/O error or the end of the
\* worker: what was committed stays.
UploadFails(u) ==
    /\ uploads[u].pc \notin {"idle", "done", "failed"}
    /\ SetUpload(u, [NewUpload EXCEPT !.pc = "failed"])
    /\ UNCHANGED <<prekeys, keys, sender, downloads>>

UploadStep(u) ==
    \/ SelectPrekey(u) \/ Restock(u) \/ Claim(u) \/ LoseClaim(u)
    \/ ReadKey(u) \/ GenerateRead(u) \/ GenerateInsert(u) \/ GenerateRefused(u)
    \/ Package(u)

-----------------------------------------------------------------------------
(***************************************************************************)
(* downloadFile, internal_decrypt and process_download_stream.             *)
(***************************************************************************)
Fail(d, why) == SetDownload(d, [downloads[d] EXCEPT !.pc = "failed", !.why = why])

\* The Node backend captures the sender's key (0: none is ACTIVE) and calls
\* the engine, whose generator does nothing before it is iterated.
Request(d, u) ==
    /\ downloads[d].pc = "idle" /\ uploads[u].pc \in {"done", "failed"}
    /\ SetDownload(d, [downloads[d] EXCEPT !.pc = "verify", !.of = u, !.key = sender.active])
    /\ UNCHANGED <<prekeys, keys, sender, uploads>>

\* Mutant: any key the sender has registered will do.
SignatureHolds_AnyKey(d) == downloads[d].key # 0
SignatureHolds(d) == downloads[d].key = uploads[downloads[d].of].signer

Verify(d) ==
    /\ downloads[d].pc = "verify"
    /\ IF uploads[downloads[d].of].pc = "failed" THEN Fail(d, "no_package")
       ELSE IF ~SignatureHolds(d) THEN Fail(d, "signature")
       ELSE SetDownload(d, [downloads[d] EXCEPT !.pc = "find"])
    /\ UNCHANGED <<prekeys, keys, sender, uploads>>

\* get_and_delete_prekey: the row is read with its private key ...
\* Mutant: any consumed prekey of the receiver will do.
PrekeysOf_AnyTransfer(u) == {i \in DOMAIN prekeys : prekeys[i].state = "consumed"}
PrekeysOf(u) == {i \in DOMAIN prekeys : prekeys[i].state # "deleted" /\ u \in prekeys[i].transfer}

FindPrekey(d) ==
    /\ downloads[d].pc = "find"
    /\ \/ /\ PrekeysOf(downloads[d].of) = {}
          /\ SetDownload(d, [downloads[d] EXCEPT !.pc = "recover", !.prekey = 0])
       \/ \E i \in PrekeysOf(downloads[d].of) :
            SetDownload(d, [downloads[d] EXCEPT !.pc = "delete", !.prekey = i])
    /\ UNCHANGED <<prekeys, keys, sender, uploads>>

\* ... and deleted; a row already gone is only worth a warning.
DeletePrekey(d) ==
    /\ downloads[d].pc = "delete"
    /\ prekeys' = [prekeys EXCEPT ![downloads[d].prekey].state = "deleted"]
    /\ SetDownload(d, [downloads[d] EXCEPT !.pc = "recover"])
    /\ UNCHANGED <<keys, sender, uploads>>

Hybrid(u) == uploads[u].kek # NoKek
VersionRows(v) == {i \in DOMAIN keys : keys[i].version = v}

\* recover_transfer_security: the secret key of the version the package
\* names, the transcript of the key that is active now.
\* Mutant: a missing prekey falls back to RSA.
RecoveredKeks_OrNone(d) ==
    LET u == downloads[d].of
    IN  IF ~Hybrid(u) \/ downloads[d].prekey = 0 THEN {NoKek}
        ELSE {Kek(downloads[d].prekey, uploads[u].kek.secret, p) : p \in ActiveRows}

RecoveredKeks(d) ==
    LET u == downloads[d].of
        version == keys[uploads[u].kek.secret].version
    IN  IF ~Hybrid(u) THEN {NoKek}
        ELSE IF downloads[d].prekey = 0 THEN {}
        ELSE {Kek(downloads[d].prekey, s, p) : s \in VersionRows(version), p \in ActiveRows}

Recover(d) ==
    /\ downloads[d].pc = "recover"
    /\ \/ RecoveredKeks(d) = {} /\ Fail(d, "no_prekey")
       \/ \E k \in RecoveredKeks(d) :
            SetDownload(d, [downloads[d] EXCEPT !.pc = "stream", !.kek = k])
    /\ UNCHANGED <<prekeys, keys, sender, uploads>>

(***************************************************************************)
(* One fragment: the hybrid key unwraps it, or else RSA when there is no   *)
(* hybrid key; a failed unwrapping is never retried with RSA.              *)
(***************************************************************************)
Unwraps(d) == downloads[d].kek \in {NoKek, uploads[downloads[d].of].kek}

Stream(d) ==
    /\ downloads[d].pc = "stream"
    /\ IF ~Unwraps(d) THEN Fail(d, "unwrap")
       ELSE IF downloads[d].sent < Fragments
            THEN SetDownload(d, [downloads[d] EXCEPT !.sent = @ + 1])
            ELSE SetDownload(d, [downloads[d] EXCEPT !.pc = "done"])
    /\ UNCHANGED <<prekeys, keys, sender, uploads>>

\* The receiver disconnects, or the worker ends.
DownloadLost(d) ==
    /\ downloads[d].pc \notin {"idle", "done", "failed"}
    /\ Fail(d, "lost")
    /\ UNCHANGED <<prekeys, keys, sender, uploads>>

DownloadStep(d) ==
    Verify(d) \/ FindPrekey(d) \/ DeletePrekey(d) \/ Recover(d) \/ Stream(d)

-----------------------------------------------------------------------------
\* registerKey of the sender: the old key is archived, the new one created.
Supersede ==
    /\ sender.active # 0 /\ sender.last < MaxSenderKeys
    /\ sender' = [sender EXCEPT !.active = 0]
    /\ UNCHANGED <<prekeys, keys, uploads, downloads>>

Register ==
    /\ sender.active = 0
    /\ sender' = [active |-> sender.last + 1, last |-> sender.last + 1]
    /\ UNCHANGED <<prekeys, keys, uploads, downloads>>

\* Thirty days pass for a prekey nobody has claimed.
Expire ==
    /\ \E i \in Free : prekeys' = [prekeys EXCEPT ![i].state = "stale"]
    /\ UNCHANGED <<keys, sender, uploads, downloads>>

AllOver ==
    /\ \A u \in Upload : uploads[u].pc \in {"done", "failed"}
    /\ \A d \in Download : downloads[d].pc \in {"done", "failed"}
    /\ UNCHANGED vars

Next ==
    \/ \E u \in Upload : Begin(u) \/ UploadStep(u) \/ UploadFails(u)
    \/ \E d \in Download, u \in Upload : Request(d, u)
    \/ \E d \in Download : DownloadStep(d) \/ DownloadLost(d)
    \/ Supersede \/ Register \/ Expire
    \/ AllOver

Spec == Init /\ [][Next]_vars

\* An upload that has begun goes on: no step of it waits for another call.
FairSpec == Spec /\ \A u \in Upload : WF_vars(UploadStep(u))

-----------------------------------------------------------------------------
UploadPc == {"idle", "select", "restock", "claim", "security", "generate",
             "insert", "package", "done", "failed"}
DownloadPc == {"idle", "verify", "find", "delete", "recover", "stream", "done", "failed"}
Reason == {"none", "no_package", "signature", "no_prekey", "unwrap", "lost"}

PrekeyRow == [state : {"free", "stale", "consumed", "deleted"}, transfer : SUBSET Upload]
KeyRow == [version : Nat, active : BOOLEAN]
KekRecord == [prekey : Nat, secret : Nat, public : Nat]
UploadRecord == [pc : UploadPc, tries : 0..Attempts, prekey : Nat, seen : Nat,
                 signer : 0..MaxSenderKeys, kek : KekRecord]
DownloadRecord == [pc : DownloadPc, of : Upload, key : 0..MaxSenderKeys, prekey : Nat,
                   kek : KekRecord, sent : 0..Fragments, why : Reason]

\* Types of the tables and of the calls.
DeliveryTypeOK ==
    /\ prekeys \in Seq(PrekeyRow)
    /\ keys \in Seq(KeyRow)
    /\ sender \in [active : 0..MaxSenderKeys, last : 1..MaxSenderKeys]
    /\ uploads \in [Upload -> UploadRecord]
    /\ downloads \in [Download -> DownloadRecord]

Claimed(u) ==
    /\ uploads[u].pc \in {"security", "generate", "insert", "package", "done"}
    /\ uploads[u].prekey # 0

\* However many calls of claim_prekey meet at the last prekey of a receiver,
\* no two transfers are encrypted to the same one.
ClaimIsExclusive ==
    \A u, v \in Upload :
        Claimed(u) /\ Claimed(v) /\ uploads[u].prekey = uploads[v].prekey => u = v

\* Concurrent calls of generate_keypair leave the receiver with one active
\* key, the newest, and with one row per version.
OneActiveKey ==
    \A i \in DOMAIN keys :
        /\ keys[i].version = i
        /\ keys[i].active <=> i = Len(keys)

\* No fragment of a hybrid transfer is handed out under anything but its own
\* hybrid key, although its package carries an RSA-wrapped key as well.
NoDowngrade ==
    \A d \in Download :
        downloads[d].sent > 0 => downloads[d].kek = uploads[downloads[d].of].kek

\* A download whose signature held fails for two reasons only: another
\* download with the signer's key spent the prekey before it, or the receiver
\* has a newer ML-KEM key than the transfer (recover_transfer_security).
FailureIsExplained ==
    \A d \in Download :
        /\ downloads[d].why = "no_prekey" =>
              \E e \in Download \ {d} :
                  /\ downloads[e].of = downloads[d].of
                  /\ downloads[e].prekey # 0
                  /\ downloads[e].key = uploads[downloads[e].of].signer
        /\ downloads[d].why = "unwrap" =>
              uploads[downloads[d].of].kek.public < Len(keys)

\* Every upload that begins ends: the rounds of claim_prekey are bounded
\* however often its claims are lost, and a refused version is not retried.
UploadCallsEnd ==
    \A u \in Upload : uploads[u].pc # "idle" ~> uploads[u].pc \in {"done", "failed"}

\* A row of the table is a key, its transfer the owner, a deleted row a key
\* that is spent; a download asks for a transfer and holds what it has read.
OwnerOf == [i \in DOMAIN prekeys |-> prekeys[i].transfer]
Spent == {i \in DOMAIN prekeys : prekeys[i].state = "deleted"}
WantedBy == [d \in Download |-> IF downloads[d].pc = "idle" THEN {} ELSE {downloads[d].of}]
HeldBy == [d \in Download |-> downloads[d].prekey]

Keys == INSTANCE OneTimeKeys
        WITH Owner <- Upload, Reader <- Download,
             owner <- OwnerOf, spent <- Spent, wants <- WantedBy, held <- HeldBy

\* claim_prekey and get_and_delete_prekey, interleaved, interrupted and
\* repeated, are one-time keys.
ImplementsOneTimeKeys == Keys!KeysSpec

\* test_mlkem.py, test_key_rotation: a file encrypted under an older key
\* version is decrypted with that version.
VersionedKeyDecrypts == \A d \in Download : downloads[d].why # "unwrap"

=============================================================================
