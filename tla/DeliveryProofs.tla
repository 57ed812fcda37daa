--------------------------- MODULE DeliveryProofs ---------------------------
(***************************************************************************)
(* Proofs about Delivery for any number of uploads, downloads, prekeys and *)
(* fragments, any number of rounds of claim_prekey and any batch.          *)
(***************************************************************************)
EXTENDS Delivery, TLAPS, SequenceTheorems

(***************************************************************************)
(* The strengthening.  A prekey that was never claimed names no transfer;  *)
(* a claimed one names the upload that works with it, or one that failed.  *)
(***************************************************************************)
RowOK(i) ==
    /\ prekeys[i].state \in {"free", "stale"} => prekeys[i].transfer = {}
    /\ \A u \in prekeys[i].transfer :
          uploads[u].pc = "failed" \/ (Claimed(u) /\ uploads[u].prekey = i)

HasPrekey(r) ==
    r.pc \in {"security", "generate", "insert", "package", "done"} /\ r.prekey # 0

\* What the record r of upload u says of the tables.
RecordOK(u, r) ==
    /\ r.pc = "claim" => r.prekey \in 1..Len(prekeys)
    /\ r.pc \in {"security", "generate", "insert"} => r.prekey # 0
    /\ HasPrekey(r) => r.prekey \in 1..Len(prekeys) /\ prekeys[r.prekey].transfer = {u}
    /\ r.pc \in {"restock", "claim"} => r.tries < Attempts
    /\ r.seen <= Len(keys)
    /\ r.kek # NoKek =>
          /\ HasPrekey(r)
          /\ r.kek.prekey = r.prekey /\ r.kek.secret = r.kek.public
          /\ r.kek.public \in 1..Len(keys)

UploadOK(u) == RecordOK(u, uploads[u])

RowsOK == \A i \in 1..Len(prekeys) : RowOK(i)
UploadsOK == \A u \in Upload : UploadOK(u)

\* The calls that establish a key: what they know of the tables.
Established == DeliveryTypeOK /\ OneActiveKey /\ RowsOK /\ UploadsOK

\* Another download of u with the signer's key had the prekey before d.
SpentByAnother(d, u) ==
    \E e \in Download \ {d} :
        /\ downloads[e].of = u
        /\ downloads[e].prekey # 0
        /\ downloads[e].key = uploads[u].signer

\* A download that got past the signature is one of a finished upload, ...
Past(r) == r.pc \in {"find", "delete", "recover", "stream", "done"} \/ r.prekey # 0 \/ r.sent > 0

\* ... and the key it has recovered differs in the public key at most.
RecoveredLike(k, own) ==
    /\ k.prekey = own.prekey /\ k.secret = own.secret
    /\ own.public <= k.public /\ k.public <= Len(keys)

\* What the record r of download d says of the tables and of the upload.
CallOK(d, r) ==
    /\ r.pc # "idle" => uploads[r.of].pc \in {"done", "failed"}
    /\ Past(r) => uploads[r.of].pc = "done" /\ r.key = uploads[r.of].signer
    /\ r.pc \in {"idle", "verify", "find"} => r.prekey = 0
    /\ r.pc \in {"idle", "verify", "find", "delete", "recover"} => r.sent = 0
    /\ r.why # "none" => r.pc = "failed"
    /\ r.prekey # 0 => r.prekey \in 1..Len(prekeys) /\ r.of \in prekeys[r.prekey].transfer
    /\ r.pc = "delete" => r.prekey # 0
    /\ r.pc = "recover" /\ r.prekey = 0 /\ Hybrid(r.of) => SpentByAnother(d, r.of)
    /\ r.pc = "stream" => RecoveredLike(r.kek, uploads[r.of].kek)
    /\ r.sent > 0 => r.kek = uploads[r.of].kek
    /\ r.why = "no_prekey" => SpentByAnother(d, r.of)
    /\ r.why = "unwrap" => uploads[r.of].kek.public < Len(keys)

DownloadsOK == \A d \in Download : CallOK(d, downloads[d])

\* Between two signing keys there is always one left to register.
SenderOK == sender.active = 0 => sender.last < MaxSenderKeys

\* A prekey is deleted by a download that has read it.
DeletionsOK ==
    \A i \in 1..Len(prekeys) :
        prekeys[i].state = "deleted" => \E e \in Download : downloads[e].prekey = i

DeliveryInv == Established /\ SenderOK /\ DeletionsOK /\ DownloadsOK

-----------------------------------------------------------------------------
\* Updating one row of a table, and adding rows at its end.
LEMMA UpdateRow ==
    ASSUME NEW S, NEW s \in Seq(S), NEW i \in 1..Len(s), NEW e \in S
    PROVE  LET t == [s EXCEPT ![i] = e]
           IN  /\ t \in Seq(S) /\ Len(t) = Len(s) /\ t[i] = e
               /\ \A j \in 1..Len(s) : j # i => t[j] = s[j]
  BY ExceptSeq

LEMMA FunctionIsSeq ==
    ASSUME NEW S, NEW n \in Nat, NEW f \in [1..n -> S]
    PROVE  f \in Seq(S) /\ Len(f) = n
  OBVIOUS

\* The free rows of a batch.
FreeBatch == [i \in 1..Batch |-> [state |-> "free", transfer |-> {}]]

LEMMA FreeBatchIs ==
    /\ FreeBatch \in Seq(PrekeyRow) /\ Len(FreeBatch) = Batch
    /\ \A i \in 1..Batch : FreeBatch[i] = [state |-> "free", transfer |-> {}]
  <1>1. [state |-> "free", transfer |-> {}] \in PrekeyRow
    BY DEF PrekeyRow
  <1>2. Batch \in Nat
    BY DeliveryAssumption
  <1> QED
    BY <1>1, <1>2 DEF FreeBatch

\* Rows, records and tables read from a well-typed state.
LEMMA Types ==
    ASSUME DeliveryTypeOK
    PROVE  /\ Len(prekeys) \in Nat /\ DOMAIN prekeys = 1..Len(prekeys)
           /\ Len(keys) \in Nat /\ DOMAIN keys = 1..Len(keys)
           /\ \A i \in 1..Len(prekeys) : prekeys[i] \in PrekeyRow
           /\ \A i \in 1..Len(keys) : keys[i] \in KeyRow
           /\ \A u \in Upload : uploads[u] \in UploadRecord
           /\ \A d \in Download : downloads[d] \in DownloadRecord
  BY DEF DeliveryTypeOK

\* The active key is the last one.
LEMMA ActiveIsLast ==
    ASSUME DeliveryTypeOK, OneActiveKey
    PROVE  /\ \A i \in ActiveRows : i = Len(keys) /\ i \in 1..Len(keys)
           /\ ActiveRows = {} => Len(keys) = 0
  <1>1. DOMAIN keys = 1..Len(keys) /\ Len(keys) \in Nat
    BY Types
  <1>2. \A i \in ActiveRows : i = Len(keys) /\ i \in 1..Len(keys)
    BY <1>1 DEF ActiveRows, OneActiveKey
  <1>3. ASSUME Len(keys) # 0 PROVE Len(keys) \in ActiveRows
    BY <1>1, <1>3 DEF ActiveRows, OneActiveKey
  <1> QED
    BY <1>2, <1>3

-----------------------------------------------------------------------------
(***************************************************************************)
(* A step that changes the record of one upload and no table.  It keeps    *)
(* the claim of the upload, unless the upload fails.                       *)
(***************************************************************************)
KeepsClaim(u, r) ==
    /\ uploads[u].pc # "failed"
    /\ HasPrekey(uploads[u]) => r.pc = "failed" \/ (HasPrekey(r) /\ r.prekey = uploads[u].prekey)

LEMMA SetOne ==
    ASSUME uploads \in [Upload -> UploadRecord], NEW u \in Upload, NEW r \in UploadRecord,
           SetUpload(u, r)
    PROVE  /\ uploads' \in [Upload -> UploadRecord]
           /\ uploads'[u] = r
           /\ \A v \in Upload \ {u} : uploads'[v] = uploads[v]
  BY DEF SetUpload

LEMMA KekIs ==
    ASSUME NEW p \in Nat, NEW s \in Nat, NEW q \in Nat
    PROVE  /\ Kek(p, s, q) \in KekRecord
           /\ Kek(p, s, q).prekey = p /\ Kek(p, s, q).secret = s /\ Kek(p, s, q).public = q
  BY DEF Kek, KekRecord

LEMMA OnlyOneUpload ==
    ASSUME Established, NEW u \in Upload, NEW r \in UploadRecord, SetUpload(u, r),
           UNCHANGED <<prekeys, keys, sender, downloads>>,
           RecordOK(u, r), KeepsClaim(u, r)
    PROVE  Established'
  <1>0. /\ uploads' \in [Upload -> UploadRecord]
        /\ uploads'[u] = r
        /\ \A v \in Upload \ {u} : uploads'[v] = uploads[v]
    BY SetOne DEF Established, DeliveryTypeOK
  <1>1. DeliveryTypeOK' /\ OneActiveKey'
    BY <1>0 DEF Established, DeliveryTypeOK, OneActiveKey
  <1>2. RowsOK'
    <2> SUFFICES ASSUME NEW i \in 1..Len(prekeys) PROVE RowOK(i)'
      BY DEF RowsOK
    <2>1. prekeys'[i] = prekeys[i] /\ RowOK(i) /\ prekeys[i].transfer \subseteq Upload
      BY Types DEF Established, RowsOK, PrekeyRow
    <2>2. ASSUME NEW v \in prekeys[i].transfer
          PROVE  uploads'[v].pc = "failed" \/ (Claimed(v)' /\ uploads'[v].prekey = i)
      <3>1. CASE v = u
        BY <1>0, <2>1, <2>2, <3>1 DEF RowOK, Claimed, KeepsClaim, HasPrekey
      <3>2. CASE v # u
        BY <1>0, <2>1, <2>2, <3>2 DEF RowOK, Claimed
      <3> QED
        BY <3>1, <3>2
    <2> QED
      BY <2>1, <2>2 DEF RowOK
  <1>3. UploadsOK'
    <2> SUFFICES ASSUME NEW v \in Upload PROVE UploadOK(v)'
      BY DEF UploadsOK
    <2>1. CASE v = u
      BY <1>0, <2>1 DEF UploadOK, RecordOK
    <2>2. CASE v # u
      BY <1>0, <2>2 DEF Established, UploadsOK, UploadOK, RecordOK
    <2> QED
      BY <2>1, <2>2
  <1> QED
    BY <1>1, <1>2, <1>3 DEF Established

\* An upload begins.
LEMMA BeginKeeps ==
    ASSUME Established, NEW u \in Upload, Begin(u)
    PROVE  Established'
  <1>1. /\ uploads[u] \in UploadRecord /\ RecordOK(u, uploads[u])
        /\ Attempts \in Nat \ {0} /\ Len(keys) \in Nat /\ Len(prekeys) \in Nat
        /\ 0 \in 0..Attempts /\ 0 \in 0..MaxSenderKeys
    BY Types, DeliveryAssumption DEF Established, UploadsOK, UploadOK
  <1>2. UNCHANGED <<prekeys, keys, sender, downloads>>
    BY DEF Begin
  <1>3. sender.active \in 0..MaxSenderKeys /\ uploads[u].pc = "idle"
    BY DEF Established, DeliveryTypeOK, Begin
  <1> DEFINE r == [uploads[u] EXCEPT !.pc = "select", !.signer = sender.active]
  <1>4. /\ r \in UploadRecord
          /\ r.pc = "select" /\ r.tries = uploads[u].tries
          /\ r.prekey = uploads[u].prekey /\ r.seen = uploads[u].seen
          /\ r.signer = sender.active /\ r.kek = uploads[u].kek
    BY <1>1, <1>3 DEF UploadRecord, UploadPc
  <1>5. SetUpload(u, r)
    BY DEF Begin
  <1> HIDE DEF r
  <1>6. RecordOK(u, r) /\ KeepsClaim(u, r)
    BY <1>1, <1>4, <1>3 DEF RecordOK, KeepsClaim, HasPrekey
  <1> QED
    BY <1>1, <1>2, <1>4, <1>5, <1>6, OnlyOneUpload

\* A round of claim_prekey looks for a free prekey.
LEMMA SelectPrekeyKeeps ==
    ASSUME Established, NEW u \in Upload, SelectPrekey(u)
    PROVE  Established'
  <1>1. /\ uploads[u] \in UploadRecord /\ RecordOK(u, uploads[u])
        /\ Attempts \in Nat \ {0} /\ Len(keys) \in Nat /\ Len(prekeys) \in Nat
        /\ 0 \in 0..Attempts /\ 0 \in 0..MaxSenderKeys
    BY Types, DeliveryAssumption DEF Established, UploadsOK, UploadOK
  <1>2. UNCHANGED <<prekeys, keys, sender, downloads>>
    BY DEF SelectPrekey
  <1>3. /\ uploads[u].pc = "select"
        /\ \A i \in Free : i \in 1..Len(prekeys) /\ i \in Nat
    <2>1. DOMAIN prekeys = 1..Len(prekeys) /\ Len(prekeys) \in Nat
      BY Types DEF Established
    <2>2. uploads[u].pc = "select"
      BY DEF SelectPrekey
    <2>3. \A i \in Free : i \in 1..Len(prekeys) /\ i \in Nat
      BY <2>1 DEF Free
    <2> QED
      BY <2>2, <2>3
  <1>4. CASE SetUpload(u, [uploads[u] EXCEPT !.pc = "package", !.prekey = 0, !.tries = 0])
    <2> DEFINE r == [uploads[u] EXCEPT !.pc = "package", !.prekey = 0, !.tries = 0]
    <2>1. /\ r \in UploadRecord
            /\ r.pc = "package" /\ r.tries = 0
            /\ r.prekey = 0 /\ r.seen = uploads[u].seen
            /\ r.signer = uploads[u].signer /\ r.kek = uploads[u].kek
      BY <1>1, <1>3 DEF UploadRecord, UploadPc
    <2>2. SetUpload(u, r)
      BY <1>4
    <2> HIDE DEF r
    <2>3. RecordOK(u, r) /\ KeepsClaim(u, r)
      BY <1>1, <2>1, <1>3 DEF RecordOK, KeepsClaim, HasPrekey
    <2> QED
      BY <1>1, <1>2, <2>1, <2>2, <2>3, OnlyOneUpload
  <1>5. CASE ~Exhausted(u) /\ SetUpload(u, [uploads[u] EXCEPT !.pc = "restock"])
    <2> DEFINE r == [uploads[u] EXCEPT !.pc = "restock"]
    <2>1. /\ r \in UploadRecord
            /\ r.pc = "restock" /\ r.tries = uploads[u].tries
            /\ r.prekey = uploads[u].prekey /\ r.seen = uploads[u].seen
            /\ r.signer = uploads[u].signer /\ r.kek = uploads[u].kek
      BY <1>1, <1>3, <1>5 DEF UploadRecord, UploadPc
    <2>2. SetUpload(u, r)
      BY <1>5
    <2> HIDE DEF r
    <2>3. RecordOK(u, r) /\ KeepsClaim(u, r)
      BY <1>1, <2>1, <1>3, <1>5 DEF RecordOK, KeepsClaim, HasPrekey, Exhausted, UploadRecord
    <2> QED
      BY <1>1, <1>2, <2>1, <2>2, <2>3, OnlyOneUpload
  <1>6. ASSUME NEW i \in Free, ~Exhausted(u),
              SetUpload(u, [uploads[u] EXCEPT !.pc = "claim", !.prekey = i])
       PROVE  Established'
    <2> DEFINE r == [uploads[u] EXCEPT !.pc = "claim", !.prekey = i]
    <2>1. /\ r \in UploadRecord
            /\ r.pc = "claim" /\ r.tries = uploads[u].tries
            /\ r.prekey = i /\ r.seen = uploads[u].seen
            /\ r.signer = uploads[u].signer /\ r.kek = uploads[u].kek
      BY <1>1, <1>3, <1>6 DEF UploadRecord, UploadPc
    <2>2. SetUpload(u, r)
      BY <1>6
    <2> HIDE DEF r
    <2>3. RecordOK(u, r) /\ KeepsClaim(u, r)
      BY <1>1, <2>1, <1>3, <1>6 DEF RecordOK, KeepsClaim, HasPrekey, Exhausted, UploadRecord
    <2> QED
      BY <1>1, <1>2, <2>1, <2>2, <2>3, OnlyOneUpload
  <1> QED
    BY <1>4, <1>5, <1>6 DEF SelectPrekey

\* A round is lost.
LEMMA LoseClaimKeeps ==
    ASSUME Established, NEW u \in Upload, LoseClaim(u)
    PROVE  Established'
  <1>1. /\ uploads[u] \in UploadRecord /\ RecordOK(u, uploads[u])
        /\ Attempts \in Nat \ {0} /\ Len(keys) \in Nat /\ Len(prekeys) \in Nat
        /\ 0 \in 0..Attempts /\ 0 \in 0..MaxSenderKeys
    BY Types, DeliveryAssumption DEF Established, UploadsOK, UploadOK
  <1>2. UNCHANGED <<prekeys, keys, sender, downloads>>
    BY DEF LoseClaim
  <1>3. uploads[u].pc = "claim" /\ uploads[u].tries + 1 \in 0..Attempts
    BY <1>1 DEF LoseClaim, RecordOK, UploadRecord
  <1> DEFINE r == [uploads[u] EXCEPT !.pc = "select", !.tries = @ + 1]
  <1>4. /\ r \in UploadRecord
          /\ r.pc = "select" /\ r.tries = uploads[u].tries + 1
          /\ r.prekey = uploads[u].prekey /\ r.seen = uploads[u].seen
          /\ r.signer = uploads[u].signer /\ r.kek = uploads[u].kek
    BY <1>1, <1>3 DEF UploadRecord, UploadPc
  <1>5. SetUpload(u, r)
    BY DEF LoseClaim
  <1> HIDE DEF r
  <1>6. RecordOK(u, r) /\ KeepsClaim(u, r)
    BY <1>1, <1>4, <1>3 DEF RecordOK, KeepsClaim, HasPrekey
  <1> QED
    BY <1>1, <1>2, <1>4, <1>5, <1>6, OnlyOneUpload

\* The active key is read, and the hybrid key derived when there is one.
LEMMA ReadKeyKeeps ==
    ASSUME Established, NEW u \in Upload, ReadKey(u)
    PROVE  Established'
  <1>1. /\ uploads[u] \in UploadRecord /\ RecordOK(u, uploads[u])
        /\ Attempts \in Nat \ {0} /\ Len(keys) \in Nat /\ Len(prekeys) \in Nat
        /\ 0 \in 0..Attempts /\ 0 \in 0..MaxSenderKeys
    BY Types, DeliveryAssumption DEF Established, UploadsOK, UploadOK
  <1>2. UNCHANGED <<prekeys, keys, sender, downloads>>
    BY DEF ReadKey
  <1>3. /\ uploads[u].pc = "security"
        /\ \A i \in ActiveRows : i = Len(keys) /\ i \in 1..Len(keys) /\ i \in Nat
    BY ActiveIsLast, Types DEF Established, ReadKey
  <1>k. \A i \in ActiveRows :
           LET k == Kek(uploads[u].prekey, i, i)
           IN  k \in KekRecord /\ k.prekey = uploads[u].prekey /\ k.secret = i /\ k.public = i
    <2>1. uploads[u].prekey \in Nat
      BY <1>1 DEF UploadRecord
    <2>2. \A i \in ActiveRows : i \in Nat
      BY <1>3
    <2> QED
      BY <2>1, <2>2, KekIs
  <1>4. CASE SetUpload(u, [uploads[u] EXCEPT !.pc = "generate"])
    <2> DEFINE r == [uploads[u] EXCEPT !.pc = "generate"]
    <2>1. /\ r \in UploadRecord
            /\ r.pc = "generate" /\ r.tries = uploads[u].tries
            /\ r.prekey = uploads[u].prekey /\ r.seen = uploads[u].seen
            /\ r.signer = uploads[u].signer /\ r.kek = uploads[u].kek
      BY <1>1, <1>3 DEF UploadRecord, UploadPc
    <2>2. SetUpload(u, r)
      BY <1>4
    <2> HIDE DEF r
    <2>3. RecordOK(u, r) /\ KeepsClaim(u, r)
      BY <1>1, <2>1, <1>3 DEF RecordOK, KeepsClaim, HasPrekey
    <2> QED
      BY <1>1, <1>2, <2>1, <2>2, <2>3, OnlyOneUpload
  <1>5. ASSUME NEW i \in ActiveRows,
              SetUpload(u, [uploads[u] EXCEPT !.pc = "package", !.kek = Kek(uploads[u].prekey, i, i)])
       PROVE  Established'
    <2> DEFINE r == [uploads[u] EXCEPT !.pc = "package", !.kek = Kek(uploads[u].prekey, i, i)]
    <2>1. /\ r \in UploadRecord
            /\ r.pc = "package" /\ r.tries = uploads[u].tries
            /\ r.prekey = uploads[u].prekey /\ r.seen = uploads[u].seen
            /\ r.signer = uploads[u].signer /\ r.kek = Kek(uploads[u].prekey, i, i)
      BY <1>1, <1>3, <1>k, <1>5 DEF UploadRecord, UploadPc
    <2>2. SetUpload(u, r)
      BY <1>5
    <2> HIDE DEF r
    <2>3. RecordOK(u, r) /\ KeepsClaim(u, r)
      BY <1>1, <2>1, <1>3, <1>k, <1>5 DEF RecordOK, KeepsClaim, HasPrekey
    <2> QED
      BY <1>1, <1>2, <2>1, <2>2, <2>3, OnlyOneUpload
  <1> QED
    BY <1>4, <1>5 DEF ReadKey

\* generate_keypair reads the key it is going to retire.
LEMMA GenerateReadKeeps ==
    ASSUME Established, NEW u \in Upload, GenerateRead(u)
    PROVE  Established'
  <1>1. /\ uploads[u] \in UploadRecord /\ RecordOK(u, uploads[u])
        /\ Attempts \in Nat \ {0} /\ Len(keys) \in Nat /\ Len(prekeys) \in Nat
        /\ 0 \in 0..Attempts /\ 0 \in 0..MaxSenderKeys
    BY Types, DeliveryAssumption DEF Established, UploadsOK, UploadOK
  <1>2. UNCHANGED <<prekeys, keys, sender, downloads>>
    BY DEF GenerateRead
  <1>3. /\ uploads[u].pc = "generate"
        /\ \A i \in ActiveRows : i = Len(keys) /\ i \in 1..Len(keys) /\ i \in Nat
    BY ActiveIsLast, Types DEF Established, GenerateRead
  <1>4. CASE SetUpload(u, [uploads[u] EXCEPT !.pc = "insert", !.seen = 0])
    <2> DEFINE r == [uploads[u] EXCEPT !.pc = "insert", !.seen = 0]
    <2>1. /\ r \in UploadRecord
            /\ r.pc = "insert" /\ r.tries = uploads[u].tries
            /\ r.prekey = uploads[u].prekey /\ r.seen = 0
            /\ r.signer = uploads[u].signer /\ r.kek = uploads[u].kek
      BY <1>1, <1>3 DEF UploadRecord, UploadPc
    <2>2. SetUpload(u, r)
      BY <1>4
    <2> HIDE DEF r
    <2>3. RecordOK(u, r) /\ KeepsClaim(u, r)
      BY <1>1, <2>1, <1>3 DEF RecordOK, KeepsClaim, HasPrekey
    <2> QED
      BY <1>1, <1>2, <2>1, <2>2, <2>3, OnlyOneUpload
  <1>5. ASSUME NEW i \in ActiveRows, SetUpload(u, [uploads[u] EXCEPT !.pc = "insert", !.seen = i])
       PROVE  Established'
    <2> DEFINE r == [uploads[u] EXCEPT !.pc = "insert", !.seen = i]
    <2>1. /\ r \in UploadRecord
            /\ r.pc = "insert" /\ r.tries = uploads[u].tries
            /\ r.prekey = uploads[u].prekey /\ r.seen = i
            /\ r.signer = uploads[u].signer /\ r.kek = uploads[u].kek
      BY <1>1, <1>3, <1>5 DEF UploadRecord, UploadPc
    <2>2. SetUpload(u, r)
      BY <1>5
    <2> HIDE DEF r
    <2>3. RecordOK(u, r) /\ KeepsClaim(u, r)
      BY <1>1, <2>1, <1>3, <1>5 DEF RecordOK, KeepsClaim, HasPrekey
    <2> QED
      BY <1>1, <1>2, <2>1, <2>2, <2>3, OnlyOneUpload
  <1> QED
    BY <1>4, <1>5 DEF GenerateRead

\* The version is taken: the upload goes on without a hybrid key.
LEMMA GenerateRefusedKeeps ==
    ASSUME Established, NEW u \in Upload, GenerateRefused(u)
    PROVE  Established'
  <1>1. /\ uploads[u] \in UploadRecord /\ RecordOK(u, uploads[u])
        /\ Attempts \in Nat \ {0} /\ Len(keys) \in Nat /\ Len(prekeys) \in Nat
        /\ 0 \in 0..Attempts /\ 0 \in 0..MaxSenderKeys
    BY Types, DeliveryAssumption DEF Established, UploadsOK, UploadOK
  <1>2. UNCHANGED <<prekeys, keys, sender, downloads>>
    BY DEF GenerateRefused
  <1>3. uploads[u].pc = "insert"
    BY DEF GenerateRefused
  <1> DEFINE r == [uploads[u] EXCEPT !.pc = "package", !.seen = 0]
  <1>4. /\ r \in UploadRecord
          /\ r.pc = "package" /\ r.tries = uploads[u].tries
          /\ r.prekey = uploads[u].prekey /\ r.seen = 0
          /\ r.signer = uploads[u].signer /\ r.kek = uploads[u].kek
    BY <1>1, <1>3 DEF UploadRecord, UploadPc
  <1>5. SetUpload(u, r)
    BY DEF GenerateRefused
  <1> HIDE DEF r
  <1>6. RecordOK(u, r) /\ KeepsClaim(u, r)
    BY <1>1, <1>4, <1>3 DEF RecordOK, KeepsClaim, HasPrekey
  <1> QED
    BY <1>1, <1>2, <1>4, <1>5, <1>6, OnlyOneUpload

\* The package is closed.
LEMMA PackageKeeps ==
    ASSUME Established, NEW u \in Upload, Package(u)
    PROVE  Established'
  <1>1. /\ uploads[u] \in UploadRecord /\ RecordOK(u, uploads[u])
        /\ Attempts \in Nat \ {0} /\ Len(keys) \in Nat /\ Len(prekeys) \in Nat
        /\ 0 \in 0..Attempts /\ 0 \in 0..MaxSenderKeys
    BY Types, DeliveryAssumption DEF Established, UploadsOK, UploadOK
  <1>2. UNCHANGED <<prekeys, keys, sender, downloads>>
    BY DEF Package
  <1>3. uploads[u].pc = "package"
    BY DEF Package
  <1> DEFINE r == [uploads[u] EXCEPT !.pc = "done"]
  <1>4. /\ r \in UploadRecord
          /\ r.pc = "done" /\ r.tries = uploads[u].tries
          /\ r.prekey = uploads[u].prekey /\ r.seen = uploads[u].seen
          /\ r.signer = uploads[u].signer /\ r.kek = uploads[u].kek
    BY <1>1, <1>3 DEF UploadRecord, UploadPc
  <1>5. SetUpload(u, r)
    BY DEF Package
  <1> HIDE DEF r
  <1>6. RecordOK(u, r) /\ KeepsClaim(u, r)
    BY <1>1, <1>4, <1>3 DEF RecordOK, KeepsClaim, HasPrekey
  <1> QED
    BY <1>1, <1>2, <1>4, <1>5, <1>6, OnlyOneUpload

\* An upload fails.
LEMMA UploadFailsKeeps ==
    ASSUME Established, NEW u \in Upload, UploadFails(u)
    PROVE  Established'
  <1>1. /\ uploads[u] \in UploadRecord /\ RecordOK(u, uploads[u])
        /\ Attempts \in Nat \ {0} /\ Len(keys) \in Nat /\ Len(prekeys) \in Nat
        /\ 0 \in 0..Attempts /\ 0 \in 0..MaxSenderKeys
    BY Types, DeliveryAssumption DEF Established, UploadsOK, UploadOK
  <1>2. UNCHANGED <<prekeys, keys, sender, downloads>>
    BY DEF UploadFails
  <1>3. uploads[u].pc # "failed"
    BY DEF UploadFails
  <1> DEFINE r == [NewUpload EXCEPT !.pc = "failed"]
  <1>4. /\ r \in UploadRecord
        /\ r.pc = "failed" /\ r.kek = NoKek /\ r.seen = 0
    BY <1>1 DEF UploadRecord, UploadPc, NewUpload, NoKek, KekRecord
  <1>5. SetUpload(u, r)
    BY DEF UploadFails
  <1> HIDE DEF r
  <1>6. RecordOK(u, r) /\ KeepsClaim(u, r)
    BY <1>1, <1>3, <1>4 DEF RecordOK, KeepsClaim, HasPrekey
  <1> QED
    BY <1>1, <1>2, <1>4, <1>5, <1>6, OnlyOneUpload

-----------------------------------------------------------------------------
\* Ten more prekeys: the rows there were keep their places.
LEMMA RestockKeeps ==
    ASSUME Established, NEW u \in Upload, Restock(u)
    PROVE  /\ Established'
           /\ Len(prekeys') >= Len(prekeys)
           /\ \A i \in 1..Len(prekeys) : prekeys'[i] = prekeys[i]
           /\ \A i \in 1..Len(prekeys') : i > Len(prekeys) => prekeys'[i].state = "free"
  <1>1. /\ uploads[u] \in UploadRecord /\ RecordOK(u, uploads[u])
        /\ Attempts \in Nat \ {0} /\ Len(keys) \in Nat /\ Len(prekeys) \in Nat /\ Batch \in Nat
        /\ prekeys \in Seq(PrekeyRow)
    BY Types, DeliveryAssumption DEF Established, UploadsOK, UploadOK, DeliveryTypeOK
  <1>2. UNCHANGED <<keys, sender, downloads>> /\ prekeys' = prekeys \o FreeBatch
    BY DEF Restock, FreeBatch
  <1>3. uploads[u].pc = "restock" /\ uploads[u].tries + 1 \in 0..Attempts
    BY <1>1 DEF Restock, RecordOK, UploadRecord
  <1> DEFINE r == [uploads[u] EXCEPT !.pc = "select", !.tries = @ + 1]
  <1>4. /\ r \in UploadRecord
        /\ r.pc = "select" /\ r.prekey = uploads[u].prekey
        /\ r.seen = uploads[u].seen /\ r.kek = uploads[u].kek
    BY <1>1, <1>3 DEF UploadRecord, UploadPc
  <1>5. SetUpload(u, r)
    BY DEF Restock
  <1> HIDE DEF r
  <1>6. /\ uploads' \in [Upload -> UploadRecord]
        /\ uploads'[u] = r
        /\ \A v \in Upload \ {u} : uploads'[v] = uploads[v]
    BY <1>4, <1>5, SetOne DEF Established, DeliveryTypeOK
  <1>7. /\ prekeys' \in Seq(PrekeyRow) /\ Len(prekeys') = Len(prekeys) + Batch
        /\ \A i \in 1..Len(prekeys) : prekeys'[i] = prekeys[i]
        /\ \A i \in 1..Len(prekeys') : i > Len(prekeys) =>
              prekeys'[i].state = "free" /\ prekeys'[i].transfer = {}
    <2>1. /\ prekeys' \in Seq(PrekeyRow) /\ Len(prekeys') = Len(prekeys) + Batch
          /\ \A i \in 1..(Len(prekeys) + Batch) :
                prekeys'[i] = IF i <= Len(prekeys) THEN prekeys[i] ELSE FreeBatch[i - Len(prekeys)]
      BY <1>1, <1>2, FreeBatchIs, ConcatProperties
    <2>2. ASSUME NEW i \in 1..Len(prekeys'), i > Len(prekeys)
          PROVE  prekeys'[i] = [state |-> "free", transfer |-> {}]
      <3>1. i - Len(prekeys) \in 1..Batch
        BY <1>1, <2>1, <2>2
      <3> QED
        BY <1>1, <2>1, <2>2, <3>1, FreeBatchIs
    <2> QED
      BY <1>1, <2>1, <2>2
  <1>8. DeliveryTypeOK' /\ OneActiveKey'
    BY <1>2, <1>6, <1>7 DEF Established, DeliveryTypeOK, OneActiveKey
  <1>9. RowsOK'
    <2> SUFFICES ASSUME NEW i \in 1..Len(prekeys') PROVE RowOK(i)'
      BY DEF RowsOK
    <2>1. CASE i <= Len(prekeys)
      <3>1. prekeys'[i] = prekeys[i] /\ RowOK(i) /\ prekeys[i].transfer \subseteq Upload
        BY <1>1, <1>7, <2>1, Types DEF Established, RowsOK, PrekeyRow
      <3>2. u \notin prekeys[i].transfer
        BY <1>3, <3>1 DEF RowOK, Claimed
      <3> QED
        BY <1>6, <3>1, <3>2 DEF RowOK, Claimed
    <2>2. CASE i > Len(prekeys)
      BY <1>7, <2>2 DEF RowOK
    <2> QED
      BY <1>1, <1>7, <2>1, <2>2
  <1>10. UploadsOK'
    <2> SUFFICES ASSUME NEW v \in Upload PROVE UploadOK(v)'
      BY DEF UploadsOK
    <2>1. \A w \in Upload : RecordOK(w, uploads[w])
      BY DEF Established, UploadsOK, UploadOK
    <2>2. CASE v = u
      BY <1>1, <1>2, <1>3, <1>4, <1>6, <1>7, <2>2 DEF UploadOK, RecordOK, HasPrekey
    <2>3. CASE v # u
      BY <1>1, <1>2, <1>6, <1>7, <2>1, <2>3 DEF UploadOK, RecordOK
    <2> QED
      BY <2>2, <2>3
  <1> QED
    BY <1>1, <1>7, <1>8, <1>9, <1>10 DEF Established

\* A claim that is won takes a row that no transfer has had.
LEMMA ClaimKeeps ==
    ASSUME Established, NEW u \in Upload, Claim(u)
    PROVE  /\ Established'
           /\ Len(prekeys') = Len(prekeys)
           /\ \A i \in 1..Len(prekeys) :
                 /\ prekeys[i].transfer \subseteq prekeys'[i].transfer
                 /\ prekeys'[i].state = "deleted" <=> prekeys[i].state = "deleted"
  <1> DEFINE n == uploads[u].prekey
             row == [state |-> "consumed", transfer |-> {u}]
             r == [uploads[u] EXCEPT !.pc = "security", !.tries = 0]
  <1>1. /\ uploads[u] \in UploadRecord /\ RecordOK(u, uploads[u])
        /\ Attempts \in Nat \ {0} /\ Len(keys) \in Nat /\ Len(prekeys) \in Nat
        /\ 0 \in 0..Attempts
        /\ prekeys \in Seq(PrekeyRow)
    BY Types, DeliveryAssumption DEF Established, UploadsOK, UploadOK, DeliveryTypeOK
  <1>2. /\ UNCHANGED <<keys, sender, downloads>>
        /\ prekeys' = [prekeys EXCEPT ![n] = row]
        /\ SetUpload(u, r) /\ uploads[u].pc = "claim" /\ prekeys[n].state \in {"free", "stale"}
    BY DEF Claim, Claimable
  <1>3. n \in 1..Len(prekeys) /\ n # 0 /\ row \in PrekeyRow
    BY <1>1, <1>2 DEF RecordOK, PrekeyRow
  <1>4. /\ r \in UploadRecord
        /\ r.pc = "security" /\ r.prekey = n
        /\ r.seen = uploads[u].seen /\ r.kek = uploads[u].kek
    BY <1>1 DEF UploadRecord, UploadPc
  <1> HIDE DEF r
  <1>5. /\ uploads' \in [Upload -> UploadRecord]
        /\ uploads'[u] = r
        /\ \A v \in Upload \ {u} : uploads'[v] = uploads[v]
    BY <1>2, <1>4, SetOne DEF Established, DeliveryTypeOK
  <1>6. RowOK(n) /\ prekeys[n].transfer = {}
    BY <1>2, <1>3 DEF Established, RowsOK, RowOK
  <1>7. /\ prekeys' \in Seq(PrekeyRow) /\ Len(prekeys') = Len(prekeys)
        /\ prekeys'[n].state = "consumed" /\ prekeys'[n].transfer = {u}
        /\ \A i \in 1..Len(prekeys) : i # n => prekeys'[i] = prekeys[i]
    BY <1>1, <1>2, <1>3, UpdateRow
  <1>8. DeliveryTypeOK' /\ OneActiveKey'
    BY <1>2, <1>5, <1>7 DEF Established, DeliveryTypeOK, OneActiveKey
  <1>9. RowsOK'
    <2> SUFFICES ASSUME NEW i \in 1..Len(prekeys) PROVE RowOK(i)'
      BY <1>7 DEF RowsOK
    <2>1. CASE i = n
      BY <1>3, <1>4, <1>5, <1>7, <2>1 DEF RowOK, Claimed
    <2>2. CASE i # n
      <3>1. prekeys'[i] = prekeys[i] /\ RowOK(i) /\ prekeys[i].transfer \subseteq Upload
        BY <1>7, <2>2, Types DEF Established, RowsOK, PrekeyRow
      <3>2. u \notin prekeys[i].transfer
        BY <1>2, <3>1 DEF RowOK, Claimed
      <3> QED
        BY <1>5, <3>1, <3>2 DEF RowOK, Claimed
    <2> QED
      BY <2>1, <2>2
  <1>10. UploadsOK'
    <2> SUFFICES ASSUME NEW v \in Upload PROVE UploadOK(v)'
      BY DEF UploadsOK
    <2>1. \A w \in Upload : RecordOK(w, uploads[w])
      BY DEF Established, UploadsOK, UploadOK
    <2>2. CASE v = u
      BY <1>1, <1>2, <1>3, <1>4, <1>5, <1>7, <2>2 DEF UploadOK, RecordOK, HasPrekey
    <2>3. CASE v # u
      <3>1. HasPrekey(uploads[v]) => uploads[v].prekey # n
        BY <1>6, <2>1 DEF RecordOK
      <3> QED
        BY <1>2, <1>5, <1>7, <2>1, <2>3, <3>1 DEF UploadOK, RecordOK
    <2> QED
      BY <2>2, <2>3
  <1> QED
    BY <1>6, <1>7, <1>2, <1>8, <1>9, <1>10 DEF Established

\* A key that is inserted has the version after the last.
LEMMA InsertKeeps ==
    ASSUME Established, NEW u \in Upload, GenerateInsert(u)
    PROVE  Established' /\ Len(keys') = Len(keys) + 1
  <1> DEFINE s == uploads[u].seen
             old == [i \in DOMAIN keys |->
                       IF i = s THEN [keys[i] EXCEPT !.active = FALSE] ELSE keys[i]]
             new == [version |-> NewVersion(u), active |-> TRUE]
             r == [uploads[u] EXCEPT !.pc = "security", !.seen = 0]
  <1>1. /\ uploads[u] \in UploadRecord /\ RecordOK(u, uploads[u])
        /\ Len(keys) \in Nat /\ Len(prekeys) \in Nat /\ DOMAIN keys = 1..Len(keys)
        /\ keys \in Seq(KeyRow) /\ \A i \in 1..Len(keys) : keys[i] \in KeyRow
        /\ \A i \in 1..Len(keys) : keys[i].version = i /\ (keys[i].active <=> i = Len(keys))
    BY Types DEF Established, UploadsOK, UploadOK, DeliveryTypeOK, OneActiveKey
  <1>n. Len(keys) \in Nat
    BY <1>1
  <1>2. /\ UNCHANGED <<prekeys, sender, downloads>>
        /\ keys' = Append(old, new)
        /\ SetUpload(u, r) /\ uploads[u].pc = "insert"
        /\ VersionIsFree(NewVersion(u))
    BY DEF GenerateInsert
  <1>3. s \in Nat /\ s <= Len(keys)
    BY <1>1 DEF RecordOK, UploadRecord
  <1>v. NewVersion(u) = s + 1
    <2>1. CASE s = 0
      BY <2>1 DEF NewVersion
    <2>2. CASE s # 0
      <3>1. s \in 1..Len(keys)
        BY <1>n, <1>3, <2>2
      <3>2. keys[s].version = s
        BY <1>1, <3>1
      <3> QED
        BY <2>2, <3>2 DEF NewVersion
    <2> QED
      BY <2>1, <2>2
  <1>4. s = Len(keys)
    <2>1. ASSUME s < Len(keys) PROVE FALSE
      <3>1. s + 1 \in 1..Len(keys)
        BY <1>n, <1>3, <2>1
      <3>2. keys[s + 1].version = s + 1
        BY <1>1, <3>1
      <3> QED
        BY <1>1, <1>2, <1>v, <3>1, <3>2 DEF VersionIsFree
    <2> QED
      BY <1>n, <1>3, <2>1
  <1>5. /\ old \in Seq(KeyRow) /\ Len(old) = Len(keys)
        /\ \A i \in 1..Len(keys) : old[i].version = i /\ old[i].active = FALSE
    <2>1. ASSUME NEW i \in 1..Len(keys)
          PROVE  old[i] \in KeyRow /\ old[i].version = i /\ old[i].active = FALSE
      <3>1. keys[i] \in KeyRow /\ keys[i].version = i /\ (keys[i].active <=> i = Len(keys))
        BY <1>1
      <3>2. CASE i = s
        <4>1. old[i] = [keys[i] EXCEPT !.active = FALSE]
          BY <1>1, <3>2
        <4> QED
          BY <3>1, <4>1 DEF KeyRow
      <3>3. CASE i # s
        <4>1. old[i] = keys[i]
          BY <1>1, <3>3
        <4>2. keys[i].active = FALSE
          BY <1>4, <3>1, <3>3 DEF KeyRow
        <4> QED
          BY <3>1, <4>1, <4>2
      <3> QED
        BY <3>2, <3>3
    <2>2. old = [i \in 1..Len(keys) |-> old[i]]
      BY <1>1
    <2> HIDE DEF old
    <2>3. old \in [1..Len(keys) -> KeyRow]
      BY <2>1, <2>2
    <2> QED
      BY <1>n, <2>1, <2>3, FunctionIsSeq
  <1>6. new \in KeyRow /\ new.version = Len(keys) + 1 /\ new.active = TRUE
    <2>1. NewVersion(u) = Len(keys) + 1 /\ Len(keys) + 1 \in Nat
      BY <1>n, <1>v, <1>4
    <2> QED
      BY <2>1 DEF KeyRow
  <1> HIDE DEF old, new
  <1>7. /\ keys' \in Seq(KeyRow) /\ Len(keys') = Len(keys) + 1
        /\ \A i \in 1..Len(keys) : keys'[i] = old[i]
        /\ keys'[Len(keys) + 1] = new
    BY <1>2, <1>5, <1>6, AppendProperties
  <1>8. r \in UploadRecord /\ r.pc = "security" /\ r.prekey = uploads[u].prekey
        /\ r.seen = 0 /\ r.kek = uploads[u].kek
    BY <1>1 DEF UploadRecord, UploadPc
  <1> HIDE DEF r
  <1>9. /\ uploads' \in [Upload -> UploadRecord]
        /\ uploads'[u] = r
        /\ \A v \in Upload \ {u} : uploads'[v] = uploads[v]
    BY <1>2, <1>8, SetOne DEF Established, DeliveryTypeOK
  <1>10. OneActiveKey'
    <2> SUFFICES ASSUME NEW i \in 1..(Len(keys) + 1)
                 PROVE  keys'[i].version = i /\ (keys'[i].active <=> i = Len(keys) + 1)
      BY <1>7 DEF OneActiveKey
    <2>1. CASE i = Len(keys) + 1
      BY <1>6, <1>7, <2>1
    <2>2. CASE i # Len(keys) + 1
      <3>1. i \in 1..Len(keys)
        BY <1>n, <2>2
      <3>2. keys'[i].version = i /\ keys'[i].active = FALSE
        BY <1>5, <1>7, <3>1
      <3> QED
        BY <2>2, <3>2
    <2> QED
      BY <2>1, <2>2
  <1>11. DeliveryTypeOK'
    BY <1>2, <1>7, <1>9 DEF Established, DeliveryTypeOK
  <1>12. RowsOK'
    <2> SUFFICES ASSUME NEW i \in 1..Len(prekeys) PROVE RowOK(i)'
      BY <1>2 DEF RowsOK
    <2>1. prekeys'[i] = prekeys[i] /\ RowOK(i) /\ prekeys[i].transfer \subseteq Upload
      BY <1>2, Types DEF Established, RowsOK, PrekeyRow
    <2>2. ASSUME NEW v \in prekeys[i].transfer
          PROVE  uploads'[v].pc = "failed" \/ (Claimed(v)' /\ uploads'[v].prekey = i)
      <3>1. CASE v = u
        BY <1>2, <1>8, <1>9, <2>1, <2>2, <3>1 DEF RowOK, Claimed
      <3>2. CASE v # u
        BY <1>9, <2>1, <2>2, <3>2 DEF RowOK, Claimed
      <3> QED
        BY <3>1, <3>2
    <2> QED
      BY <2>1, <2>2 DEF RowOK
  <1>13. UploadsOK'
    <2> SUFFICES ASSUME NEW v \in Upload PROVE UploadOK(v)'
      BY DEF UploadsOK
    <2>1. \A w \in Upload : RecordOK(w, uploads[w]) /\ uploads[w] \in UploadRecord
      BY Types DEF Established, UploadsOK, UploadOK
    <2>k. /\ 0 <= Len(keys') /\ \A n \in 1..Len(keys) : n \in 1..Len(keys')
          /\ \A n \in Nat : n <= Len(keys) => n <= Len(keys')
      <3>1. Len(keys') = Len(keys) + 1
        BY <1>7
      <3> QED
        BY <1>n, <3>1
    <2>2. CASE v = u
      BY <1>1, <1>2, <1>8, <1>9, <2>k, <2>2 DEF UploadOK, RecordOK, HasPrekey
    <2>3. CASE v # u
      BY <1>2, <1>9, <2>k, <2>1, <2>3 DEF UploadOK, RecordOK, UploadRecord
    <2> QED
      BY <2>2, <2>3
  <1> QED
    BY <1>7, <1>10, <1>11, <1>12, <1>13 DEF Established


-----------------------------------------------------------------------------
(***************************************************************************)
(* What a step of an upload or of the sender can do to a download: the     *)
(* tables grow, no row is deleted, no transfer that is over changes.       *)
(***************************************************************************)
Grows ==
    /\ UNCHANGED downloads
    /\ Len(keys) <= Len(keys') /\ Len(prekeys) <= Len(prekeys')
    /\ \A i \in 1..Len(prekeys) :
          /\ prekeys[i].transfer \subseteq prekeys'[i].transfer
          /\ prekeys'[i].state = "deleted" => prekeys[i].state = "deleted"
    /\ \A i \in 1..Len(prekeys') : i > Len(prekeys) => prekeys'[i].state # "deleted"
    /\ \A u \in Upload : uploads[u].pc \in {"done", "failed"} => uploads'[u] = uploads[u]

LEMMA GrowthKeeps ==
    ASSUME DeliveryInv, Established', Grows
    PROVE  DeletionsOK' /\ DownloadsOK'
  <1>1. /\ Len(prekeys) \in Nat /\ Len(keys) \in Nat
        /\ Len(prekeys') \in Nat /\ Len(keys') \in Nat
    BY DEF DeliveryInv, Established, DeliveryTypeOK
  <1>2. downloads' = downloads /\ \A d \in Download : downloads[d] \in DownloadRecord
    BY Types DEF DeliveryInv, Established, Grows
  <1>3. DeletionsOK'
    <2> SUFFICES ASSUME NEW i \in 1..Len(prekeys'), prekeys'[i].state = "deleted"
                 PROVE  \E e \in Download : downloads'[e].prekey = i
      BY DEF DeletionsOK
    <2>1. i \in 1..Len(prekeys)
      BY <1>1 DEF Grows
    <2> QED
      BY <1>2, <2>1 DEF Grows, DeliveryInv, DeletionsOK
  <1>4. DownloadsOK'
    <2> SUFFICES ASSUME NEW d \in Download, NEW r \in DownloadRecord, r = downloads[d],
                        NEW u \in Upload, u = r.of
                 PROVE  CallOK(d, r)'
      BY <1>2 DEF DownloadsOK, DownloadRecord
    <2>1. CallOK(d, r)
      BY DEF DeliveryInv, DownloadsOK
    <2>2. r.pc # "idle" => uploads'[u] = uploads[u]
      BY <2>1 DEF Grows, CallOK
    <2>3. r.pc # "idle" /\ SpentByAnother(d, u) => SpentByAnother(d, u)'
      BY <1>2, <2>2 DEF SpentByAnother
    <2>4. r.pc # "idle" /\ Hybrid(u)' => Hybrid(u)
      BY <2>2 DEF Hybrid
    <2>5. r.prekey # 0 => r.prekey \in 1..Len(prekeys') /\ u \in prekeys'[r.prekey].transfer
      <3>1. r.prekey # 0 => r.prekey \in 1..Len(prekeys) /\ u \in prekeys[r.prekey].transfer
        BY <2>1 DEF CallOK
      <3> QED
        BY <1>1, <3>1 DEF Grows
    <2>6. r.why = "unwrap" => uploads'[u].kek.public < Len(keys')
      <3>1. ASSUME r.why = "unwrap" PROVE uploads[u].kek.public < Len(keys) /\ uploads'[u] = uploads[u]
        BY <2>1, <2>2, <3>1 DEF CallOK
      <3>2. uploads[u] \in UploadRecord
        BY Types DEF DeliveryInv, Established
      <3>3. uploads[u].kek.public \in Nat
        BY <3>2 DEF UploadRecord, KekRecord
      <3> QED
        BY <1>1, <3>1, <3>3 DEF Grows
    <2>7. r.pc = "stream" => RecoveredLike(r.kek, uploads[u].kek)'
      <3>1. ASSUME r.pc = "stream" PROVE RecoveredLike(r.kek, uploads[u].kek) /\ uploads'[u] = uploads[u]
        BY <2>1, <2>2, <3>1 DEF CallOK
      <3>2. r.kek.public \in Nat
        BY DEF DownloadRecord, KekRecord
      <3> QED
        BY <1>1, <3>1, <3>2 DEF Grows, RecoveredLike
    <2>8. r.pc = "idle" => ~Past(r)
      BY <2>1 DEF CallOK, Past
    <2> QED
      BY <2>1, <2>2, <2>3, <2>4, <2>5, <2>6, <2>7, <2>8 DEF CallOK
  <1> QED
    BY <1>3, <1>4

\* A step of an upload that writes no table.
LEMMA RecordStepGrows ==
    ASSUME DeliveryTypeOK, NEW u \in Upload, NEW r, SetUpload(u, r),
           UNCHANGED <<prekeys, keys, downloads>>, uploads[u].pc \notin {"done", "failed"}
    PROVE  Grows
  <1>1. Len(prekeys) \in Nat /\ Len(keys) \in Nat
    BY Types
  <1>2. \A v \in Upload : v # u => uploads'[v] = uploads[v]
    BY DEF SetUpload, DeliveryTypeOK
  <1> QED
    BY <1>1, <1>2 DEF Grows

\* Every step of an upload.
LEMMA UploadKeeps ==
    ASSUME DeliveryInv, NEW u \in Upload, Begin(u) \/ UploadStep(u) \/ UploadFails(u)
    PROVE  DeliveryInv'
  <1>0. Established /\ DeliveryTypeOK
    BY DEF DeliveryInv, Established
  <1>1. CASE Begin(u)
    BY <1>0, <1>1, BeginKeeps, RecordStepGrows, GrowthKeeps DEF Begin, DeliveryInv, SenderOK
  <1>2. CASE SelectPrekey(u)
    BY <1>0, <1>2, SelectPrekeyKeeps, RecordStepGrows, GrowthKeeps DEF SelectPrekey, DeliveryInv, SenderOK
  <1>3. CASE Restock(u)
    <2>1. Grows
      <3>1. \A v \in Upload : v # u => uploads'[v] = uploads[v]
        BY <1>0, <1>3 DEF Restock, SetUpload, DeliveryTypeOK
      <3>2. UNCHANGED <<keys, downloads>> /\ uploads[u].pc = "restock" /\ Len(keys) \in Nat
        BY <1>0, <1>3, Types DEF Restock
      <3> QED
        BY <1>0, <1>3, <3>1, <3>2, RestockKeeps DEF Grows
    <2> QED
      BY <1>0, <1>3, <2>1, RestockKeeps, GrowthKeeps DEF Restock, DeliveryInv, SenderOK
  <1>4. CASE Claim(u)
    <2>1. Grows
      <3>1. \A v \in Upload : v # u => uploads'[v] = uploads[v]
        BY <1>0, <1>4 DEF Claim, SetUpload, DeliveryTypeOK
      <3>2. UNCHANGED <<keys, downloads>> /\ uploads[u].pc = "claim"
            /\ Len(keys) \in Nat /\ Len(prekeys) \in Nat
        BY <1>0, <1>4, Types DEF Claim
      <3> QED
        BY <1>0, <1>4, <3>1, <3>2, ClaimKeeps DEF Grows
    <2> QED
      BY <1>0, <1>4, <2>1, ClaimKeeps, GrowthKeeps DEF Claim, DeliveryInv, SenderOK
  <1>5. CASE LoseClaim(u)
    BY <1>0, <1>5, LoseClaimKeeps, RecordStepGrows, GrowthKeeps DEF LoseClaim, DeliveryInv, SenderOK
  <1>6. CASE ReadKey(u)
    BY <1>0, <1>6, ReadKeyKeeps, RecordStepGrows, GrowthKeeps DEF ReadKey, DeliveryInv, SenderOK
  <1>7. CASE GenerateRead(u)
    BY <1>0, <1>7, GenerateReadKeeps, RecordStepGrows, GrowthKeeps DEF GenerateRead, DeliveryInv, SenderOK
  <1>8. CASE GenerateInsert(u)
    <2>1. Grows
      <3>1. \A v \in Upload : v # u => uploads'[v] = uploads[v]
        BY <1>0, <1>8 DEF GenerateInsert, SetUpload, DeliveryTypeOK
      <3>2. UNCHANGED <<prekeys, downloads>> /\ uploads[u].pc = "insert"
            /\ Len(keys) \in Nat /\ Len(prekeys) \in Nat
        BY <1>0, <1>8, Types DEF GenerateInsert
      <3>3. Len(keys') = Len(keys) + 1
        BY <1>0, <1>8, InsertKeeps
      <3> QED
        BY <3>1, <3>2, <3>3 DEF Grows
    <2> QED
      BY <1>0, <1>8, <2>1, InsertKeeps, GrowthKeeps DEF GenerateInsert, DeliveryInv, SenderOK
  <1>9. CASE GenerateRefused(u)
    BY <1>0, <1>9, GenerateRefusedKeeps, RecordStepGrows, GrowthKeeps
       DEF GenerateRefused, DeliveryInv, SenderOK
  <1>10. CASE Package(u)
    BY <1>0, <1>10, PackageKeeps, RecordStepGrows, GrowthKeeps DEF Package, DeliveryInv, SenderOK
  <1>11. CASE UploadFails(u)
    BY <1>0, <1>11, UploadFailsKeeps, RecordStepGrows, GrowthKeeps DEF UploadFails, DeliveryInv, SenderOK
  <1> QED
    BY <1>1, <1>2, <1>3, <1>4, <1>5, <1>6, <1>7, <1>8, <1>9, <1>10, <1>11 DEF UploadStep

-----------------------------------------------------------------------------
\* The sender replaces the signing key; a prekey becomes too old to be taken.
LEMMA SenderKeeps ==
    ASSUME DeliveryInv, Supersede \/ Register
    PROVE  DeliveryInv'
  <1>1. /\ DeliveryTypeOK /\ MaxSenderKeys \in Nat \ {0}
        /\ sender \in [active : 0..MaxSenderKeys, last : 1..MaxSenderKeys]
    BY DeliveryAssumption DEF DeliveryInv, Established, DeliveryTypeOK
  <1>2. UNCHANGED <<prekeys, keys, uploads, downloads>>
    BY DEF Supersede, Register
  <1>3. sender' \in [active : 0..MaxSenderKeys, last : 1..MaxSenderKeys] /\ SenderOK'
    BY <1>1 DEF Supersede, Register, DeliveryInv, SenderOK
  <1>4. Established'
    BY <1>2, <1>3 DEF DeliveryInv, Established, DeliveryTypeOK, OneActiveKey,
                      RowsOK, RowOK, Claimed, UploadsOK, UploadOK, RecordOK
  <1>5. Grows
    <2>1. Len(prekeys) \in Nat /\ Len(keys) \in Nat
      BY <1>1, Types
    <2> QED
      BY <1>2, <2>1 DEF Grows
  <1> QED
    BY <1>3, <1>4, <1>5, GrowthKeeps DEF DeliveryInv

(***************************************************************************)
(* A table of prekeys in which one row has changed its state only.         *)
(***************************************************************************)
SameTransfers ==
    /\ prekeys' \in Seq(PrekeyRow) /\ Len(prekeys') = Len(prekeys)
    /\ \A i \in 1..Len(prekeys) :
          /\ prekeys'[i].transfer = prekeys[i].transfer
          /\ prekeys'[i].state \in {"free", "stale"} => prekeys[i].state \in {"free", "stale"}

LEMMA StateUpdate ==
    ASSUME DeliveryTypeOK, NEW n \in 1..Len(prekeys), NEW x \in {"stale", "deleted"},
           prekeys' = [prekeys EXCEPT ![n].state = x],
           x = "stale" => prekeys[n].state = "free"
    PROVE  /\ SameTransfers
           /\ prekeys'[n].state = x
           /\ \A i \in 1..Len(prekeys) : i # n => prekeys'[i] = prekeys[i]
  <1> DEFINE row == [prekeys[n] EXCEPT !.state = x]
  <1>1. /\ prekeys \in Seq(PrekeyRow) /\ Len(prekeys) \in Nat /\ prekeys[n] \in PrekeyRow
    BY Types DEF DeliveryTypeOK
  <1>2. row \in PrekeyRow /\ row.state = x /\ row.transfer = prekeys[n].transfer
    BY <1>1 DEF PrekeyRow
  <1>3. prekeys' = [prekeys EXCEPT ![n] = row]
    OBVIOUS
  <1> HIDE DEF row
  <1>4. /\ prekeys' \in Seq(PrekeyRow) /\ Len(prekeys') = Len(prekeys) /\ prekeys'[n] = row
        /\ \A i \in 1..Len(prekeys) : i # n => prekeys'[i] = prekeys[i]
    BY <1>1, <1>2, <1>3, UpdateRow
  <1> QED
    BY <1>2, <1>4 DEF SameTransfers

LEMMA SameTransfersKeeps ==
    ASSUME Established, SameTransfers, UNCHANGED <<keys, sender, uploads>>,
           downloads' \in [Download -> DownloadRecord]
    PROVE  Established'
  <1>1. DeliveryTypeOK' /\ OneActiveKey'
    BY DEF Established, DeliveryTypeOK, OneActiveKey, SameTransfers
  <1>2. RowsOK'
    <2> SUFFICES ASSUME NEW i \in 1..Len(prekeys) PROVE RowOK(i)'
      BY DEF RowsOK, SameTransfers
    <2>1. RowOK(i)
      BY DEF Established, RowsOK
    <2> QED
      BY <2>1 DEF RowOK, SameTransfers, Claimed
  <1>3. UploadsOK'
    <2> SUFFICES ASSUME NEW v \in Upload PROVE RecordOK(v, uploads[v])'
      BY DEF UploadsOK, UploadOK
    <2>1. RecordOK(v, uploads[v])
      BY DEF Established, UploadsOK, UploadOK
    <2> QED
      BY <2>1 DEF RecordOK, SameTransfers
  <1> QED
    BY <1>1, <1>2, <1>3 DEF Established

LEMMA ExpireKeeps ==
    ASSUME DeliveryInv, Expire
    PROVE  DeliveryInv'
  <1>1. Established /\ DeliveryTypeOK /\ DOMAIN prekeys = 1..Len(prekeys)
        /\ Len(prekeys) \in Nat /\ Len(keys) \in Nat
    BY Types DEF DeliveryInv, Established
  <1>2. PICK n \in Free : prekeys' = [prekeys EXCEPT ![n].state = "stale"]
    BY DEF Expire
  <1>3. n \in 1..Len(prekeys) /\ prekeys[n].state = "free"
    BY <1>1 DEF Free
  <1>4. /\ SameTransfers /\ prekeys'[n].state = "stale"
        /\ \A i \in 1..Len(prekeys) : i # n => prekeys'[i] = prekeys[i]
    BY <1>1, <1>2, <1>3, StateUpdate
  <1>5. UNCHANGED <<keys, sender, uploads, downloads>>
    BY DEF Expire
  <1>6. Established'
    BY <1>1, <1>4, <1>5, SameTransfersKeeps DEF DeliveryTypeOK
  <1>7. Grows
    BY <1>1, <1>3, <1>4, <1>5 DEF Grows, SameTransfers
  <1> QED
    BY <1>5, <1>6, <1>7, GrowthKeeps DEF DeliveryInv, SenderOK

-----------------------------------------------------------------------------
(***************************************************************************)
(* A step of one download.  Once it has read a prekey, the prekey, the     *)
(* transfer and the sender's key stay what they are.                       *)
(***************************************************************************)
KeepsPrekey(d, r) ==
    downloads[d].prekey # 0 =>
        /\ r.prekey = downloads[d].prekey /\ r.of = downloads[d].of
        /\ r.key = downloads[d].key

LEMMA OnlyOneDownload ==
    ASSUME DeliveryInv, NEW d \in Download, NEW r \in DownloadRecord, SetDownload(d, r),
           UNCHANGED <<keys, sender, uploads>>, SameTransfers,
           \A i \in 1..Len(prekeys) :
              prekeys'[i].state = "deleted" => prekeys[i].state = "deleted" \/ i = r.prekey,
           CallOK(d, r), KeepsPrekey(d, r)
    PROVE  DeliveryInv'
  <1>1. /\ downloads' \in [Download -> DownloadRecord]
        /\ downloads'[d] = r
        /\ \A e \in Download \ {d} : downloads'[e] = downloads[e]
    BY DEF SetDownload, DeliveryInv, Established, DeliveryTypeOK
  <1>2. Established'
    BY <1>1, SameTransfersKeeps DEF DeliveryInv
  <1>3. SenderOK'
    BY DEF DeliveryInv, SenderOK
  <1>4. DeletionsOK'
    <2> SUFFICES ASSUME NEW i \in 1..Len(prekeys), prekeys'[i].state = "deleted"
                 PROVE  \E e \in Download : downloads'[e].prekey = i
      BY DEF DeletionsOK, SameTransfers
    <2>1. CASE i = r.prekey
      BY <1>1, <2>1
    <2>2. CASE prekeys[i].state = "deleted"
      <3>1. PICK e \in Download : downloads[e].prekey = i
        BY <2>2 DEF DeliveryInv, DeletionsOK
      <3>2. i # 0
        BY Types DEF DeliveryInv, Established
      <3> QED
        BY <1>1, <3>1, <3>2 DEF KeepsPrekey
    <2> QED
      BY <2>1, <2>2
  <1>5. DownloadsOK'
    <2> SUFFICES ASSUME NEW e \in Download, NEW q \in DownloadRecord, q = downloads'[e]
                 PROVE  CallOK(e, q)'
      BY <1>1 DEF DownloadsOK
    <2>1. CallOK(e, q)
      BY <1>1 DEF DeliveryInv, DownloadsOK
    <2>2. ASSUME NEW u, SpentByAnother(e, u) PROVE SpentByAnother(e, u)'
      <3>1. PICK w \in Download \ {e} : /\ downloads[w].of = u /\ downloads[w].prekey # 0
                                        /\ downloads[w].key = uploads[u].signer
        BY <2>2 DEF SpentByAnother
      <3>2. downloads'[w].of = u /\ downloads'[w].prekey # 0 /\ downloads'[w].key = uploads[u].signer
        BY <1>1, <3>1 DEF KeepsPrekey
      <3> QED
        BY <3>1, <3>2 DEF SpentByAnother
    <2>3. q.prekey # 0 => q.prekey \in 1..Len(prekeys') /\ q.of \in prekeys'[q.prekey].transfer
      BY <2>1 DEF CallOK, SameTransfers
    <2>4. \A k, own : RecoveredLike(k, own) => RecoveredLike(k, own)'
      BY DEF RecoveredLike
    <2>5. Hybrid(q.of)' => Hybrid(q.of)
      BY DEF Hybrid
    <2> QED
      BY <2>1, <2>2, <2>3, <2>4, <2>5 DEF CallOK
  <1> QED
    BY <1>2, <1>3, <1>4, <1>5 DEF DeliveryInv

\* A step of a download that leaves the prekeys alone.
LEMMA RecordStepKeeps ==
    ASSUME DeliveryInv, NEW d \in Download, NEW r \in DownloadRecord, SetDownload(d, r),
           UNCHANGED <<prekeys, keys, sender, uploads>>, CallOK(d, r), KeepsPrekey(d, r)
    PROVE  DeliveryInv'
  <1>1. SameTransfers
    BY DEF DeliveryInv, Established, DeliveryTypeOK, SameTransfers
  <1> QED
    BY <1>1, OnlyOneDownload

\* What is known of a download when one of its steps begins.
LEMMA CallIs ==
    ASSUME DeliveryInv, NEW d \in Download
    PROVE  /\ downloads[d] \in DownloadRecord /\ CallOK(d, downloads[d])
           /\ downloads[d].of \in Upload /\ uploads[downloads[d].of] \in UploadRecord
           /\ RecordOK(downloads[d].of, uploads[downloads[d].of])
           /\ Len(prekeys) \in Nat /\ Len(keys) \in Nat
  <1>1. downloads[d] \in DownloadRecord /\ downloads[d].of \in Upload
    BY Types DEF DeliveryInv, Established, DownloadRecord
  <1> QED
    BY <1>1, Types DEF DeliveryInv, Established, DownloadsOK, UploadsOK, UploadOK

\* A download begins with the key the sender has at that time.
LEMMA RequestKeeps ==
    ASSUME DeliveryInv, NEW d \in Download, NEW u \in Upload, Request(d, u)
    PROVE  DeliveryInv'
  <1> DEFINE r == [downloads[d] EXCEPT !.pc = "verify", !.of = u, !.key = sender.active]
  <1>1. downloads[d] \in DownloadRecord /\ CallOK(d, downloads[d])
    BY CallIs
  <1>2. sender.active \in 0..MaxSenderKeys
    BY DEF DeliveryInv, Established, DeliveryTypeOK
  <1>3. /\ r \in DownloadRecord /\ r.pc = "verify" /\ r.of = u
        /\ r.prekey = downloads[d].prekey /\ r.sent = downloads[d].sent /\ r.why = downloads[d].why
    BY <1>1, <1>2 DEF DownloadRecord, DownloadPc
  <1>4. /\ SetDownload(d, r) /\ UNCHANGED <<prekeys, keys, sender, uploads>>
        /\ downloads[d].pc = "idle" /\ uploads[u].pc \in {"done", "failed"}
    BY DEF Request
  <1> HIDE DEF r
  <1>5. r.prekey = 0 /\ r.sent = 0 /\ r.why = "none"
    BY <1>1, <1>3, <1>4 DEF CallOK
  <1>6. CallOK(d, r) /\ KeepsPrekey(d, r)
    BY <1>3, <1>4, <1>5 DEF CallOK, KeepsPrekey, Past
  <1> QED
    BY <1>3, <1>4, <1>6, RecordStepKeeps

\* A download fails for a reason that needs no more than it has.
LEMMA FailKeeps ==
    ASSUME DeliveryInv, NEW d \in Download, NEW why \in Reason, Fail(d, why),
           UNCHANGED <<prekeys, keys, sender, uploads>>,
           downloads[d].pc \notin {"idle", "failed"},
           why = "no_prekey" => SpentByAnother(d, downloads[d].of),
           why = "unwrap" => uploads[downloads[d].of].kek.public < Len(keys)
    PROVE  DeliveryInv'
  <1> DEFINE r == [downloads[d] EXCEPT !.pc = "failed", !.why = why]
  <1>1. downloads[d] \in DownloadRecord /\ CallOK(d, downloads[d])
    BY CallIs
  <1>2. /\ r \in DownloadRecord /\ r.pc = "failed" /\ r.why = why
        /\ r.of = downloads[d].of /\ r.key = downloads[d].key /\ r.prekey = downloads[d].prekey
        /\ r.sent = downloads[d].sent /\ r.kek = downloads[d].kek
    BY <1>1 DEF DownloadRecord, DownloadPc
  <1>3. SetDownload(d, r)
    BY DEF Fail
  <1> HIDE DEF r
  <1>4. CallOK(d, r) /\ KeepsPrekey(d, r)
    BY <1>1, <1>2 DEF CallOK, KeepsPrekey, Past
  <1> QED
    BY <1>2, <1>3, <1>4, RecordStepKeeps

\* The signature of the package is verified.
LEMMA VerifyKeeps ==
    ASSUME DeliveryInv, NEW d \in Download, Verify(d)
    PROVE  DeliveryInv'
  <1>1. /\ downloads[d] \in DownloadRecord /\ CallOK(d, downloads[d])
        /\ UNCHANGED <<prekeys, keys, sender, uploads>> /\ downloads[d].pc = "verify"
    BY CallIs DEF Verify
  <1>2. CASE Fail(d, "no_package")
    BY <1>1, <1>2, FailKeeps DEF Reason
  <1>3. CASE Fail(d, "signature")
    BY <1>1, <1>3, FailKeeps DEF Reason
  <1>4. ASSUME uploads[downloads[d].of].pc # "failed", SignatureHolds(d),
               SetDownload(d, [downloads[d] EXCEPT !.pc = "find"])
        PROVE  DeliveryInv'
    <2> DEFINE r == [downloads[d] EXCEPT !.pc = "find"]
    <2>1. /\ r \in DownloadRecord /\ r.pc = "find" /\ r.of = downloads[d].of
          /\ r.key = downloads[d].key /\ r.prekey = downloads[d].prekey
          /\ r.sent = downloads[d].sent /\ r.why = downloads[d].why
      BY <1>1 DEF DownloadRecord, DownloadPc
    <2>2. SetDownload(d, r)
      BY <1>4
    <2> HIDE DEF r
    <2>3. CallOK(d, r) /\ KeepsPrekey(d, r)
      BY <1>1, <1>4, <2>1 DEF CallOK, KeepsPrekey, Past, SignatureHolds
    <2> QED
      BY <1>1, <2>1, <2>2, <2>3, RecordStepKeeps
  <1> QED
    BY <1>2, <1>3, <1>4 DEF Verify

(***************************************************************************)
(* The prekey of the transfer is read.  When a hybrid transfer has none,   *)
(* its row was deleted, by another download that had passed the signature. *)
(***************************************************************************)
LEMMA PrekeyGone ==
    ASSUME DeliveryInv, NEW d \in Download, downloads[d].pc = "find",
           PrekeysOf(downloads[d].of) = {}, Hybrid(downloads[d].of)
    PROVE  SpentByAnother(d, downloads[d].of)
  <1> DEFINE u == downloads[d].of
             p == uploads[u].prekey
  <1>1. /\ CallOK(d, downloads[d]) /\ u \in Upload /\ RecordOK(u, uploads[u])
        /\ DOMAIN prekeys = 1..Len(prekeys) /\ Len(prekeys) \in Nat
    BY CallIs, Types DEF DeliveryInv, Established
  <1>2. p \in 1..Len(prekeys) /\ prekeys[p].transfer = {u}
    BY <1>1 DEF RecordOK, Hybrid
  <1>3. prekeys[p].state = "deleted"
    BY <1>1, <1>2 DEF PrekeysOf
  <1>4. PICK e \in Download : downloads[e].prekey = p
    BY <1>2, <1>3 DEF DeliveryInv, DeletionsOK
  <1>5. p # 0 /\ downloads[d].prekey = 0
    BY <1>1, <1>2 DEF CallOK
  <1>6. CallOK(e, downloads[e])
    BY CallIs
  <1>7. downloads[e].of = u
    BY <1>2, <1>4, <1>5, <1>6 DEF CallOK
  <1>8. downloads[e].key = uploads[u].signer
    BY <1>4, <1>5, <1>6, <1>7 DEF CallOK, Past
  <1> QED
    BY <1>4, <1>5, <1>7, <1>8 DEF SpentByAnother

LEMMA FindPrekeyKeeps ==
    ASSUME DeliveryInv, NEW d \in Download, FindPrekey(d)
    PROVE  DeliveryInv'
  <1>1. /\ downloads[d] \in DownloadRecord /\ CallOK(d, downloads[d])
        /\ UNCHANGED <<prekeys, keys, sender, uploads>> /\ downloads[d].pc = "find"
    BY CallIs DEF FindPrekey
  <1>2. downloads[d].prekey = 0 /\ downloads[d].sent = 0 /\ downloads[d].why = "none"
    BY <1>1 DEF CallOK
  <1>3. ASSUME PrekeysOf(downloads[d].of) = {},
               SetDownload(d, [downloads[d] EXCEPT !.pc = "recover", !.prekey = 0])
        PROVE  DeliveryInv'
    <2> DEFINE r == [downloads[d] EXCEPT !.pc = "recover", !.prekey = 0]
    <2>1. /\ r \in DownloadRecord /\ r.pc = "recover" /\ r.of = downloads[d].of
          /\ r.key = downloads[d].key /\ r.prekey = 0 /\ r.sent = 0 /\ r.why = "none"
      BY <1>1, <1>2 DEF DownloadRecord, DownloadPc
    <2>2. SetDownload(d, r) /\ (Hybrid(r.of) => SpentByAnother(d, r.of))
      BY <1>1, <1>3, <2>1, PrekeyGone
    <2> HIDE DEF r
    <2>3. CallOK(d, r) /\ KeepsPrekey(d, r)
      BY <1>1, <1>2, <2>1, <2>2 DEF CallOK, KeepsPrekey, Past
    <2> QED
      BY <1>1, <2>1, <2>2, <2>3, RecordStepKeeps
  <1>4. ASSUME NEW i \in PrekeysOf(downloads[d].of),
               SetDownload(d, [downloads[d] EXCEPT !.pc = "delete", !.prekey = i])
        PROVE  DeliveryInv'
    <2> DEFINE r == [downloads[d] EXCEPT !.pc = "delete", !.prekey = i]
    <2>1. DOMAIN prekeys = 1..Len(prekeys) /\ Len(prekeys) \in Nat
      BY Types DEF DeliveryInv, Established
    <2>2. i \in 1..Len(prekeys) /\ i # 0 /\ i \in Nat /\ downloads[d].of \in prekeys[i].transfer
      BY <2>1 DEF PrekeysOf
    <2>3. /\ r \in DownloadRecord /\ r.pc = "delete" /\ r.of = downloads[d].of
          /\ r.key = downloads[d].key /\ r.prekey = i /\ r.sent = 0 /\ r.why = "none"
      BY <1>1, <1>2, <2>2 DEF DownloadRecord, DownloadPc
    <2>4. SetDownload(d, r)
      BY <1>4
    <2> HIDE DEF r
    <2>5. CallOK(d, r) /\ KeepsPrekey(d, r)
      BY <1>1, <1>2, <2>2, <2>3 DEF CallOK, KeepsPrekey, Past
    <2> QED
      BY <1>1, <2>3, <2>4, <2>5, RecordStepKeeps
  <1> QED
    BY <1>3, <1>4 DEF FindPrekey

\* The row that was read is deleted.
LEMMA DeletePrekeyKeeps ==
    ASSUME DeliveryInv, NEW d \in Download, DeletePrekey(d)
    PROVE  DeliveryInv'
  <1> DEFINE r == [downloads[d] EXCEPT !.pc = "recover"]
             n == downloads[d].prekey
  <1>1. /\ downloads[d] \in DownloadRecord /\ CallOK(d, downloads[d]) /\ DeliveryTypeOK
        /\ UNCHANGED <<keys, sender, uploads>> /\ downloads[d].pc = "delete"
        /\ SetDownload(d, r) /\ prekeys' = [prekeys EXCEPT ![n].state = "deleted"]
    BY CallIs DEF DeletePrekey, DeliveryInv, Established
  <1>2. n # 0 /\ n \in 1..Len(prekeys)
    BY <1>1 DEF CallOK
  <1>3. /\ r \in DownloadRecord /\ r.pc = "recover" /\ r.of = downloads[d].of
        /\ r.key = downloads[d].key /\ r.prekey = n /\ r.sent = downloads[d].sent
        /\ r.why = downloads[d].why
    BY <1>1 DEF DownloadRecord, DownloadPc
  <1> HIDE DEF r
  <1>4. /\ SameTransfers
        /\ \A i \in 1..Len(prekeys) : i # n => prekeys'[i] = prekeys[i]
    BY <1>1, <1>2, StateUpdate
  <1>5. CallOK(d, r) /\ KeepsPrekey(d, r)
    BY <1>1, <1>2, <1>3 DEF CallOK, KeepsPrekey, Past
  <1> QED
    BY <1>1, <1>3, <1>4, <1>5, OnlyOneDownload

(***************************************************************************)
(* recover_transfer_security: the prekey and the secret key are those of   *)
(* the transfer, the public key is the one of today.  It has nothing to    *)
(* return only when the prekey is gone.                                    *)
(***************************************************************************)
LEMMA Recovered ==
    ASSUME DeliveryInv, NEW d \in Download, downloads[d].pc = "recover"
    PROVE  /\ \A k \in RecoveredKeks(d) :
                 k \in KekRecord /\ RecoveredLike(k, uploads[downloads[d].of].kek)
           /\ RecoveredKeks(d) = {} => SpentByAnother(d, downloads[d].of)
  <1> DEFINE u == downloads[d].of
             n == downloads[d].prekey
             own == uploads[u].kek
             version == keys[own.secret].version
  <1>1. /\ downloads[d] \in DownloadRecord /\ CallOK(d, downloads[d])
        /\ u \in Upload /\ uploads[u] \in UploadRecord /\ RecordOK(u, uploads[u])
        /\ Len(keys) \in Nat
    BY CallIs
  <1>2. DOMAIN keys = 1..Len(keys) /\ Established /\ DeliveryTypeOK /\ OneActiveKey
    BY Types DEF DeliveryInv, Established
  <1>3. CASE ~Hybrid(u)
    <2>1. RecoveredKeks(d) = {NoKek} /\ own = NoKek
      BY <1>3 DEF RecoveredKeks, Hybrid
    <2>2. NoKek \in KekRecord /\ RecoveredLike(NoKek, NoKek)
      BY <1>1 DEF NoKek, KekRecord, RecoveredLike
    <2> QED
      BY <2>1, <2>2
  <1>4. CASE Hybrid(u) /\ n = 0
    BY <1>1, <1>4 DEF RecoveredKeks, CallOK
  <1>5. CASE Hybrid(u) /\ n # 0
    <2>1. RecoveredKeks(d) = {Kek(n, s, p) : s \in VersionRows(version), p \in ActiveRows}
      BY <1>5 DEF RecoveredKeks
    <2>2. /\ own.prekey = uploads[u].prekey /\ own.secret = own.public
          /\ own.public \in 1..Len(keys) /\ own \in KekRecord
      BY <1>1, <1>5 DEF RecordOK, Hybrid, UploadRecord
    <2>3. own.prekey = n
      <3>1. n \in 1..Len(prekeys) /\ u \in prekeys[n].transfer /\ uploads[u].pc = "done"
        BY <1>1, <1>5 DEF CallOK, Past
      <3>2. RowOK(n)
        BY <1>2, <3>1 DEF Established, RowsOK
      <3> QED
        BY <2>2, <3>1, <3>2 DEF RowOK
    <2>4. VersionRows(version) = {own.secret}
      <3>1. \A i \in 1..Len(keys) : keys[i].version = i
        BY <1>2 DEF OneActiveKey
      <3>2. version = own.secret /\ own.secret \in 1..Len(keys)
        BY <2>2, <3>1
      <3> QED
        BY <1>2, <3>1, <3>2 DEF VersionRows
    <2>5. ActiveRows # {} /\ \A p \in ActiveRows : p = Len(keys)
      BY <1>1, <1>2, <2>2, ActiveIsLast
    <2>6. n \in Nat /\ own.secret \in Nat /\ own.public \in Nat /\ own.public <= Len(keys)
      BY <1>1, <2>2 DEF DownloadRecord, KekRecord
    <2>7. /\ Kek(n, own.secret, Len(keys)) \in KekRecord
          /\ RecoveredLike(Kek(n, own.secret, Len(keys)), own)
      <3> DEFINE k == Kek(n, own.secret, Len(keys))
      <3>1. /\ k \in KekRecord
            /\ k.prekey = n /\ k.secret = own.secret /\ k.public = Len(keys)
        <4>1. n \in Nat /\ own.secret \in Nat /\ Len(keys) \in Nat
          BY <1>1, <2>6
        <4> QED
          BY <4>1 DEF Kek, KekRecord
      <3> HIDE DEF k
      <3> QED
        BY <1>1, <2>3, <2>6, <3>1 DEF RecoveredLike, k
    <2>8. RecoveredKeks(d) = {Kek(n, own.secret, Len(keys))}
      BY <2>1, <2>4, <2>5
    <2> QED
      BY <2>7, <2>8
  <1> QED
    BY <1>3, <1>4, <1>5

LEMMA RecoverKeeps ==
    ASSUME DeliveryInv, NEW d \in Download, Recover(d)
    PROVE  DeliveryInv'
  <1>1. /\ downloads[d] \in DownloadRecord /\ CallOK(d, downloads[d])
        /\ UNCHANGED <<prekeys, keys, sender, uploads>> /\ downloads[d].pc = "recover"
    BY CallIs DEF Recover
  <1>2. CASE RecoveredKeks(d) = {} /\ Fail(d, "no_prekey")
    BY <1>1, <1>2, Recovered, FailKeeps DEF Reason
  <1>3. ASSUME NEW k \in RecoveredKeks(d),
               SetDownload(d, [downloads[d] EXCEPT !.pc = "stream", !.kek = k])
        PROVE  DeliveryInv'
    <2> DEFINE r == [downloads[d] EXCEPT !.pc = "stream", !.kek = k]
    <2>1. k \in KekRecord /\ RecoveredLike(k, uploads[downloads[d].of].kek)
      BY <1>1, Recovered
    <2>2. /\ r \in DownloadRecord /\ r.pc = "stream" /\ r.kek = k /\ r.of = downloads[d].of
          /\ r.key = downloads[d].key /\ r.prekey = downloads[d].prekey
          /\ r.sent = downloads[d].sent /\ r.why = downloads[d].why
      BY <1>1, <2>1 DEF DownloadRecord, DownloadPc
    <2>3. SetDownload(d, r)
      BY <1>3
    <2> HIDE DEF r
    <2>4. r.sent = 0
      BY <1>1, <2>2 DEF CallOK
    <2>5. CallOK(d, r) /\ KeepsPrekey(d, r)
      BY <1>1, <2>1, <2>2, <2>4 DEF CallOK, KeepsPrekey, Past
    <2> QED
      BY <1>1, <2>2, <2>3, <2>5, RecordStepKeeps
  <1> QED
    BY <1>2, <1>3 DEF Recover

(***************************************************************************)
(* A fragment is unwrapped.  A key that differs is one of a newer public   *)
(* key, and none at all is the key of a transfer without a hybrid key.     *)
(***************************************************************************)
LEMMA UnwrapsItsOwn ==
    ASSUME DeliveryInv, NEW d \in Download, downloads[d].pc = "stream"
    PROVE  /\ Unwraps(d) => downloads[d].kek = uploads[downloads[d].of].kek
           /\ ~Unwraps(d) => uploads[downloads[d].of].kek.public < Len(keys)
  <1> DEFINE u == downloads[d].of
             own == uploads[u].kek
             k == downloads[d].kek
  <1>1. /\ downloads[d] \in DownloadRecord /\ CallOK(d, downloads[d])
        /\ u \in Upload /\ uploads[u] \in UploadRecord /\ RecordOK(u, uploads[u])
        /\ Len(keys) \in Nat /\ Len(prekeys) \in Nat
    BY CallIs
  <1>2. RecoveredLike(k, own) /\ k \in KekRecord /\ own \in KekRecord
    BY <1>1 DEF CallOK, DownloadRecord, UploadRecord
  <1>3. own = NoKek \/ own.prekey \in 1..Len(prekeys)
    BY <1>1 DEF RecordOK
  <1>4. ASSUME k = NoKek PROVE own = NoKek
    <2>1. own.prekey = 0
      BY <1>2, <1>4 DEF RecoveredLike, NoKek
    <2>2. own.prekey \notin 1..Len(prekeys)
      BY <1>1, <2>1
    <2> QED
      BY <1>3, <2>2
  <1>5. ASSUME k.public = own.public PROVE k = own
    BY <1>2, <1>5 DEF RecoveredLike, KekRecord
  <1>6. k.public # own.public => own.public < Len(keys)
    <2>1. k.public \in Nat /\ own.public \in Nat /\ own.public <= k.public /\ k.public <= Len(keys)
      BY <1>2 DEF RecoveredLike, KekRecord
    <2> QED
      BY <1>1, <2>1
  <1> QED
    BY <1>4, <1>5, <1>6 DEF Unwraps

LEMMA StreamKeeps ==
    ASSUME DeliveryInv, NEW d \in Download, Stream(d)
    PROVE  DeliveryInv'
  <1>1. /\ downloads[d] \in DownloadRecord /\ CallOK(d, downloads[d])
        /\ UNCHANGED <<prekeys, keys, sender, uploads>> /\ downloads[d].pc = "stream"
        /\ Fragments \in Nat \ {0}
    BY CallIs, DeliveryAssumption DEF Stream
  <1>2. CASE ~Unwraps(d) /\ Fail(d, "unwrap")
    BY <1>1, <1>2, UnwrapsItsOwn, FailKeeps DEF Reason
  <1>3. ASSUME Unwraps(d), downloads[d].sent < Fragments,
               SetDownload(d, [downloads[d] EXCEPT !.sent = @ + 1])
        PROVE  DeliveryInv'
    <2> DEFINE r == [downloads[d] EXCEPT !.sent = @ + 1]
    <2>1. downloads[d].sent + 1 \in 0..Fragments
      BY <1>1, <1>3 DEF DownloadRecord
    <2>2. /\ r \in DownloadRecord /\ r.pc = "stream" /\ r.kek = downloads[d].kek
          /\ r.of = downloads[d].of /\ r.key = downloads[d].key
          /\ r.prekey = downloads[d].prekey /\ r.why = downloads[d].why
      BY <1>1, <2>1 DEF DownloadRecord
    <2>3. SetDownload(d, r) /\ r.kek = uploads[r.of].kek
      BY <1>1, <1>3, <2>2, UnwrapsItsOwn
    <2> HIDE DEF r
    <2>4. CallOK(d, r) /\ KeepsPrekey(d, r)
      BY <1>1, <2>2, <2>3 DEF CallOK, KeepsPrekey, Past
    <2> QED
      BY <1>1, <2>2, <2>3, <2>4, RecordStepKeeps
  <1>4. ASSUME Unwraps(d), SetDownload(d, [downloads[d] EXCEPT !.pc = "done"])
        PROVE  DeliveryInv'
    <2> DEFINE r == [downloads[d] EXCEPT !.pc = "done"]
    <2>1. /\ r \in DownloadRecord /\ r.pc = "done" /\ r.kek = downloads[d].kek
          /\ r.of = downloads[d].of /\ r.key = downloads[d].key
          /\ r.prekey = downloads[d].prekey /\ r.sent = downloads[d].sent
          /\ r.why = downloads[d].why
      BY <1>1 DEF DownloadRecord, DownloadPc
    <2>2. SetDownload(d, r)
      BY <1>4
    <2> HIDE DEF r
    <2>3. CallOK(d, r) /\ KeepsPrekey(d, r)
      BY <1>1, <2>1 DEF CallOK, KeepsPrekey, Past
    <2> QED
      BY <1>1, <2>1, <2>2, <2>3, RecordStepKeeps
  <1> QED
    BY <1>2, <1>3, <1>4 DEF Stream

-----------------------------------------------------------------------------
LEMMA InitEstablishes == Init => DeliveryInv
  <1> SUFFICES ASSUME Init PROVE DeliveryInv
    OBVIOUS
  <1>1. /\ NewUpload.pc = "idle" /\ NewUpload.kek = NoKek /\ NewUpload.seen = 0
        /\ NewUpload \in UploadRecord
    BY DeliveryAssumption DEF NewUpload, NoKek, UploadRecord, UploadPc, KekRecord
  <1>2. /\ NewDownload.pc = "idle" /\ NewDownload.prekey = 0 /\ NewDownload.sent = 0
        /\ NewDownload.why = "none" /\ NewDownload \in DownloadRecord
    <2>1. (CHOOSE u \in Upload : TRUE) \in Upload
      BY DeliveryAssumption
    <2> QED
      BY <2>1, DeliveryAssumption DEF NewDownload, NoKek, DownloadRecord, DownloadPc, KekRecord, Reason
  <1>3. /\ \A u \in Upload : uploads[u] = NewUpload
        /\ \A d \in Download : downloads[d] = NewDownload
        /\ prekeys = <<>> /\ keys = <<>> /\ Len(prekeys) = 0 /\ Len(keys) = 0
        /\ DOMAIN keys = {} /\ sender = [active |-> 1, last |-> 1]
    BY DEF Init
  <1> HIDE DEF NewUpload, NewDownload
  <1>4. DeliveryTypeOK
    <2>1. uploads \in [Upload -> UploadRecord] /\ downloads \in [Download -> DownloadRecord]
      BY <1>1, <1>2 DEF Init
    <2>2. sender \in [active : 0..MaxSenderKeys, last : 1..MaxSenderKeys]
      BY <1>3, DeliveryAssumption
    <2> QED
      BY <1>3, <2>1, <2>2 DEF DeliveryTypeOK
  <1>5. OneActiveKey /\ RowsOK /\ DeletionsOK /\ SenderOK
    BY <1>3 DEF OneActiveKey, RowsOK, DeletionsOK, SenderOK
  <1>6. UploadsOK
    BY <1>1, <1>3 DEF UploadsOK, UploadOK, RecordOK, HasPrekey
  <1>7. DownloadsOK
    BY <1>2, <1>3 DEF DownloadsOK, CallOK, Past
  <1> QED
    BY <1>4, <1>5, <1>6, <1>7 DEF DeliveryInv, Established

LEMMA NextKeeps == DeliveryInv /\ [Next]_vars => DeliveryInv'
  <1> SUFFICES ASSUME DeliveryInv, [Next]_vars PROVE DeliveryInv'
    OBVIOUS
  <1>1. ASSUME NEW u \in Upload, Begin(u) \/ UploadStep(u) \/ UploadFails(u)
        PROVE  DeliveryInv'
    BY <1>1, UploadKeeps
  <1>2. ASSUME NEW d \in Download, NEW u \in Upload, Request(d, u)
        PROVE  DeliveryInv'
    BY <1>2, RequestKeeps
  <1>3. ASSUME NEW d \in Download, DownloadStep(d)
        PROVE  DeliveryInv'
    BY <1>3, VerifyKeeps, FindPrekeyKeeps, DeletePrekeyKeeps, RecoverKeeps, StreamKeeps
       DEF DownloadStep
  <1>4. ASSUME NEW d \in Download, DownloadLost(d)
        PROVE  DeliveryInv'
    BY <1>4, FailKeeps DEF DownloadLost, Reason
  <1>5. CASE Supersede \/ Register
    BY <1>5, SenderKeeps
  <1>6. CASE Expire
    BY <1>6, ExpireKeeps
  <1>7. CASE AllOver \/ UNCHANGED vars
    <2>1. UNCHANGED vars
      BY <1>7 DEF AllOver
    <2>2. SameTransfers
      BY <2>1 DEF vars, DeliveryInv, Established, DeliveryTypeOK, SameTransfers
    <2>3. Established'
      BY <2>1, <2>2, SameTransfersKeeps DEF vars, DeliveryInv, Established, DeliveryTypeOK
    <2>4. Grows
      BY <2>1, Types DEF vars, DeliveryInv, Established, Grows
    <2>5. DeletionsOK' /\ DownloadsOK'
      BY <2>3, <2>4, GrowthKeeps
    <2> QED
      BY <2>1, <2>3, <2>5 DEF vars, DeliveryInv, SenderOK
  <1> QED
    BY <1>1, <1>2, <1>3, <1>4, <1>5, <1>6, <1>7 DEF Next

LEMMA DeliveryInvariant == Spec => []DeliveryInv
  BY InitEstablishes, NextKeeps, PTL DEF Spec

-----------------------------------------------------------------------------
\* Types of the tables and of the calls (the rows of crypto_service.py and
\* key_manager.py, the two calls of the routes).
THEOREM DeliveryTypesHold == Spec => []DeliveryTypeOK
  <1>1. DeliveryInv => DeliveryTypeOK
    BY DEF DeliveryInv, Established
  <1> QED
    BY <1>1, DeliveryInvariant, PTL

\* No two uploads encrypt to the same prekey, however many calls of
\* claim_prekey compete for it.
THEOREM ClaimsAreExclusive == Spec => []ClaimIsExclusive
  <1>1. DeliveryInv => ClaimIsExclusive
    <2> SUFFICES ASSUME DeliveryInv, NEW u \in Upload, NEW v \in Upload,
                        Claimed(u), Claimed(v), uploads[u].prekey = uploads[v].prekey
                 PROVE  u = v
      BY DEF ClaimIsExclusive
    <2>1. RecordOK(u, uploads[u]) /\ RecordOK(v, uploads[v])
      BY DEF DeliveryInv, Established, UploadsOK, UploadOK
    <2>2. prekeys[uploads[u].prekey].transfer = {u} /\ prekeys[uploads[u].prekey].transfer = {v}
      BY <2>1 DEF RecordOK, HasPrekey, Claimed
    <2> QED
      BY <2>2
  <1> QED
    BY <1>1, DeliveryInvariant, PTL

\* However many calls of generate_keypair overlap, the rows of a receiver are
\* versions 1, 2, ... and the last one alone is active.
THEOREM OneKeyIsActive == Spec => []OneActiveKey
  <1>1. DeliveryInv => OneActiveKey
    BY DEF DeliveryInv, Established
  <1> QED
    BY <1>1, DeliveryInvariant, PTL

\* process_download_stream hands out no fragment under another key than the
\* one its upload has established.
THEOREM FragmentsAreNotDowngraded == Spec => []NoDowngrade
  <1>1. DeliveryInv => NoDowngrade
    BY DEF DeliveryInv, DownloadsOK, CallOK, NoDowngrade
  <1> QED
    BY <1>1, DeliveryInvariant, PTL

\* A download past the signature lacks the prekey only because another one
\* with the signer's key had it, and fails to unwrap only after a rotation.
THEOREM FailuresAreExplained == Spec => []FailureIsExplained
  <1>1. DeliveryInv => FailureIsExplained
    <2> SUFFICES ASSUME DeliveryInv, NEW d \in Download
                 PROVE  /\ downloads[d].why = "no_prekey" =>
                              \E e \in Download \ {d} :
                                  /\ downloads[e].of = downloads[d].of
                                  /\ downloads[e].prekey # 0
                                  /\ downloads[e].key = uploads[downloads[e].of].signer
                        /\ downloads[d].why = "unwrap" =>
                              uploads[downloads[d].of].kek.public < Len(keys)
      BY DEF FailureIsExplained
    <2>1. CallOK(d, downloads[d])
      BY DEF DeliveryInv, DownloadsOK
    <2> QED
      BY <2>1 DEF CallOK, SpentByAnother
  <1> QED
    BY <1>1, DeliveryInvariant, PTL

-----------------------------------------------------------------------------
(***************************************************************************)
(* The refinement: what a step does to the owners of the keys, to the keys *)
(* that are spent, to what a download asks for and to what it holds.       *)
(***************************************************************************)
LEMMA Mapped ==
    ASSUME DeliveryTypeOK
    PROVE  /\ DOMAIN OwnerOf = 1..Len(prekeys) /\ Len(OwnerOf) = Len(prekeys)
           /\ \A i \in 1..Len(prekeys) : OwnerOf[i] = prekeys[i].transfer
           /\ \A i \in 1..Len(prekeys) : i \in Spent <=> prekeys[i].state = "deleted"
           /\ \A d \in Download :
                 /\ WantedBy[d] = IF downloads[d].pc = "idle" THEN {} ELSE {downloads[d].of}
                 /\ HeldBy[d] = downloads[d].prekey
  <1>1. DOMAIN prekeys = 1..Len(prekeys) /\ Len(prekeys) \in Nat
    BY Types
  <1>2. OwnerOf = [i \in 1..Len(prekeys) |-> prekeys[i].transfer]
    BY <1>1 DEF OwnerOf
  <1>3. DOMAIN OwnerOf = 1..Len(prekeys) /\ Len(OwnerOf) = Len(prekeys)
    BY <1>1, <1>2
  <1> QED
    BY <1>1, <1>2, <1>3 DEF Spent, WantedBy, HeldBy

LEMMA SameRequests == downloads' = downloads => UNCHANGED <<WantedBy, HeldBy>>
  BY DEF WantedBy, HeldBy

LEMMA SameTable == prekeys' = prekeys => UNCHANGED <<OwnerOf, Spent>>
  BY DEF OwnerOf, Spent

LEMMA OneRequest ==
    ASSUME DeliveryTypeOK, NEW d \in Download, NEW r, SetDownload(d, r)
    PROVE  /\ WantedBy' = [WantedBy EXCEPT ![d] = IF r.pc = "idle" THEN {} ELSE {r.of}]
           /\ HeldBy' = [HeldBy EXCEPT ![d] = r.prekey]
  BY DEF DeliveryTypeOK, SetDownload, WantedBy, HeldBy

\* A download that neither begins nor is handed a prekey.
LEMMA QuietRequest ==
    ASSUME DeliveryTypeOK, NEW d \in Download, NEW r, SetDownload(d, r),
           r.pc # "idle", downloads[d].pc # "idle",
           r.of = downloads[d].of, r.prekey = downloads[d].prekey
    PROVE  UNCHANGED <<WantedBy, HeldBy>>
  BY DEF DeliveryTypeOK, SetDownload, WantedBy, HeldBy

\* Rows that change their state and nothing else.
LEMMA SameOwners ==
    ASSUME DOMAIN prekeys' = DOMAIN prekeys,
           \A i \in DOMAIN prekeys : prekeys'[i].transfer = prekeys[i].transfer
    PROVE  OwnerOf' = OwnerOf
  BY DEF OwnerOf

Quiet == UNCHANGED <<OwnerOf, Spent, WantedBy, HeldBy>>

\* A step of a download that asks for nothing new and is handed nothing.
LEMMA QuietDownload ==
    ASSUME DeliveryInv, NEW d \in Download,
           \/ Verify(d) \/ Recover(d) \/ Stream(d) \/ DownloadLost(d)
           \/ FindPrekey(d) /\ PrekeysOf(downloads[d].of) = {}
    PROVE  Quiet
  <1>1. /\ downloads[d] \in DownloadRecord /\ CallOK(d, downloads[d]) /\ DeliveryTypeOK
    BY CallIs DEF DeliveryInv, Established
  <1>2. downloads[d].pc # "idle" /\ prekeys' = prekeys
    BY DEF Verify, Recover, Stream, DownloadLost, FindPrekey
  <1> DEFINE QuietRecord(r) == /\ r.pc # "idle" /\ r.of = downloads[d].of
                               /\ r.prekey = downloads[d].prekey /\ SetDownload(d, r)
  <1> SUFFICES \E r : QuietRecord(r)
    BY <1>1, <1>2, QuietRequest, SameTable DEF Quiet
  <1>3. ASSUME NEW why, Fail(d, why) PROVE \E r : QuietRecord(r)
    <2>1. QuietRecord([downloads[d] EXCEPT !.pc = "failed", !.why = why])
      BY <1>1, <1>3 DEF Fail, DownloadRecord
    <2> QED
      BY <2>1
  <1>4. CASE Verify(d)
    <2>1. CASE SetDownload(d, [downloads[d] EXCEPT !.pc = "find"])
      <3>1. QuietRecord([downloads[d] EXCEPT !.pc = "find"])
        BY <1>1, <2>1 DEF DownloadRecord
      <3> QED
        BY <3>1
    <2> QED
      BY <1>3, <1>4, <2>1 DEF Verify
  <1>5. CASE Recover(d)
    <2>1. ASSUME NEW k, SetDownload(d, [downloads[d] EXCEPT !.pc = "stream", !.kek = k])
          PROVE  \E r : QuietRecord(r)
      <3>1. QuietRecord([downloads[d] EXCEPT !.pc = "stream", !.kek = k])
        BY <1>1, <2>1 DEF DownloadRecord
      <3> QED
        BY <3>1
    <2> QED
      BY <1>3, <1>5, <2>1 DEF Recover
  <1>6. CASE Stream(d)
    <2>1. CASE SetDownload(d, [downloads[d] EXCEPT !.sent = @ + 1])
      <3>1. QuietRecord([downloads[d] EXCEPT !.sent = @ + 1])
        BY <1>1, <1>2, <2>1 DEF DownloadRecord
      <3> QED
        BY <3>1
    <2>2. CASE SetDownload(d, [downloads[d] EXCEPT !.pc = "done"])
      <3>1. QuietRecord([downloads[d] EXCEPT !.pc = "done"])
        BY <1>1, <2>2 DEF DownloadRecord
      <3> QED
        BY <3>1
    <2> QED
      BY <1>3, <1>6, <2>1, <2>2 DEF Stream
  <1>7. CASE FindPrekey(d) /\ PrekeysOf(downloads[d].of) = {}
    <2>1. QuietRecord([downloads[d] EXCEPT !.pc = "recover", !.prekey = 0])
      BY <1>1, <1>7 DEF FindPrekey, DownloadRecord, CallOK
    <2> QED
      BY <2>1
  <1> HIDE DEF QuietRecord
  <1>8. CASE DownloadLost(d)
    BY <1>3, <1>8 DEF DownloadLost
  <1> QED
    BY <1>4, <1>5, <1>6, <1>7, <1>8

\* downloadFile asks for a transfer.
LEMMA RequestIsAsk ==
    ASSUME DeliveryInv, NEW d \in Download, NEW u \in Upload, Request(d, u)
    PROVE  Keys!Ask(d, u)
  <1> DEFINE r == [downloads[d] EXCEPT !.pc = "verify", !.of = u, !.key = sender.active]
  <1>1. /\ downloads[d] \in DownloadRecord /\ DeliveryTypeOK
        /\ downloads[d].pc = "idle" /\ prekeys' = prekeys /\ SetDownload(d, r)
    BY CallIs DEF DeliveryInv, Established, Request
  <1>2. r.pc = "verify" /\ r.of = u /\ r.prekey = downloads[d].prekey
    BY <1>1 DEF DownloadRecord
  <1> HIDE DEF r
  <1>3. /\ WantedBy' = [WantedBy EXCEPT ![d] = {u}]
        /\ HeldBy' = [HeldBy EXCEPT ![d] = downloads[d].prekey]
    BY <1>1, <1>2, OneRequest
  <1>4. HeldBy' = HeldBy
    BY <1>3 DEF HeldBy
  <1>5. WantedBy[d] = {}
    BY <1>1, Mapped
  <1> QED
    BY <1>1, <1>3, <1>4, <1>5, SameTable DEF Keys!Ask

\* get_and_delete_prekey reads a row of the transfer asked for ...
LEMMA FindIsHandOut ==
    ASSUME DeliveryInv, NEW d \in Download, FindPrekey(d),
           PrekeysOf(downloads[d].of) # {}
    PROVE  \E i \in DOMAIN OwnerOf : Keys!HandOut(i, d)
  <1> DEFINE u == downloads[d].of
  <1>1. /\ downloads[d] \in DownloadRecord /\ CallOK(d, downloads[d]) /\ u \in Upload
        /\ DeliveryTypeOK /\ DOMAIN prekeys = 1..Len(prekeys) /\ Len(prekeys) \in Nat
        /\ downloads[d].pc = "find" /\ prekeys' = prekeys
    BY CallIs, Types DEF DeliveryInv, Established, FindPrekey
  <1>2. PICK i \in PrekeysOf(u) : SetDownload(d, [downloads[d] EXCEPT !.pc = "delete", !.prekey = i])
    BY DEF FindPrekey
  <1>3. i \in 1..Len(prekeys) /\ prekeys[i].state # "deleted" /\ u \in prekeys[i].transfer
    BY <1>1, <1>2 DEF PrekeysOf
  <1>4. prekeys[i].transfer = {u}
    <2>1. RowOK(i) /\ RecordOK(u, uploads[u])
      BY <1>1, <1>3 DEF DeliveryInv, Established, RowsOK, UploadsOK, UploadOK
    <2>2. uploads[u].pc = "done"
      BY <1>1 DEF CallOK, Past
    <2>3. HasPrekey(uploads[u]) /\ uploads[u].prekey = i
      BY <1>3, <2>1, <2>2 DEF RowOK, Claimed, HasPrekey
    <2> QED
      BY <2>1, <2>3 DEF RecordOK
  <1> DEFINE r == [downloads[d] EXCEPT !.pc = "delete", !.prekey = i]
  <1>5. r.pc = "delete" /\ r.of = u /\ r.prekey = i
    BY <1>1 DEF DownloadRecord
  <1>6. SetDownload(d, r)
    BY <1>2
  <1> HIDE DEF r
  <1>7. /\ WantedBy' = [WantedBy EXCEPT ![d] = {u}]
        /\ HeldBy' = [HeldBy EXCEPT ![d] = i]
    BY <1>1, <1>5, <1>6, OneRequest
  <1>8. /\ WantedBy[d] = {u} /\ HeldBy[d] = 0 /\ OwnerOf[i] = {u}
        /\ i \notin Spent /\ i \in DOMAIN OwnerOf
    BY <1>1, <1>3, <1>4, Mapped DEF CallOK
  <1>9. WantedBy' = WantedBy
    BY <1>7, <1>8 DEF WantedBy
  <1> QED
    BY <1>1, <1>7, <1>8, <1>9, SameTable DEF Keys!HandOut

\* ... and deletes it, unless another call has done so.
LEMMA DeleteIsSpend ==
    ASSUME DeliveryInv, NEW d \in Download, DeletePrekey(d)
    PROVE  Quiet \/ \E i \in DOMAIN OwnerOf : Keys!Spend(i, d)
  <1> DEFINE r == [downloads[d] EXCEPT !.pc = "recover"]
             n == downloads[d].prekey
  <1>1. /\ downloads[d] \in DownloadRecord /\ CallOK(d, downloads[d]) /\ DeliveryTypeOK
        /\ downloads[d].pc = "delete" /\ DOMAIN prekeys = 1..Len(prekeys)
        /\ SetDownload(d, r) /\ prekeys' = [prekeys EXCEPT ![n].state = "deleted"]
    BY CallIs, Types DEF DeletePrekey, DeliveryInv, Established
  <1>2. n # 0 /\ n \in 1..Len(prekeys)
    BY <1>1 DEF CallOK
  <1>3. r.pc = "recover" /\ r.of = downloads[d].of /\ r.prekey = n
    BY <1>1 DEF DownloadRecord
  <1> HIDE DEF r
  <1>4. UNCHANGED <<WantedBy, HeldBy>>
    BY <1>1, <1>3, QuietRequest
  <1>5. /\ SameTransfers /\ prekeys'[n].state = "deleted"
        /\ \A i \in 1..Len(prekeys) : i # n => prekeys'[i] = prekeys[i]
    BY <1>1, <1>2, StateUpdate
  <1>6. DOMAIN prekeys' = DOMAIN prekeys
    BY <1>1, <1>5 DEF SameTransfers
  <1>7. OwnerOf' = OwnerOf
    BY <1>1, <1>5, <1>6, SameOwners DEF SameTransfers
  <1>8. Spent' = Spent \cup {n}
    BY <1>1, <1>2, <1>5, <1>6 DEF Spent
  <1>9. CASE n \in Spent
    BY <1>4, <1>7, <1>8, <1>9 DEF Quiet
  <1>10. CASE n \notin Spent
    <2>1. HeldBy[d] = n /\ n \in DOMAIN OwnerOf
      BY <1>1, <1>2, Mapped
    <2> QED
      BY <1>4, <1>7, <1>8, <1>10, <2>1 DEF Keys!Spend
  <1> QED
    BY <1>9, <1>10

\* claim_prekey generates rows that no transfer has ...
LEMMA RestockIsMake ==
    ASSUME DeliveryInv, NEW u \in Upload, Restock(u)
    PROVE  Keys!Make
  <1>1. /\ DeliveryTypeOK /\ DOMAIN prekeys = 1..Len(prekeys) /\ Len(prekeys) \in Nat
        /\ Batch \in Nat /\ prekeys \in Seq(PrekeyRow) /\ downloads' = downloads
    BY Types, DeliveryAssumption DEF DeliveryInv, Established, DeliveryTypeOK, Restock
  <1>2. prekeys' = prekeys \o FreeBatch
    BY DEF Restock, FreeBatch
  <1>3. /\ Len(prekeys') = Len(prekeys) + Batch /\ DOMAIN prekeys' = 1..(Len(prekeys) + Batch)
        /\ \A i \in 1..Len(prekeys) : prekeys'[i] = prekeys[i]
        /\ \A i \in 1..(Len(prekeys) + Batch) : i \notin 1..Len(prekeys) =>
              prekeys'[i].state = "free" /\ prekeys'[i].transfer = {}
    <2>1. /\ prekeys' \in Seq(PrekeyRow) /\ Len(prekeys') = Len(prekeys) + Batch
          /\ \A i \in 1..(Len(prekeys) + Batch) :
                prekeys'[i] = IF i <= Len(prekeys) THEN prekeys[i] ELSE FreeBatch[i - Len(prekeys)]
      BY <1>1, <1>2, FreeBatchIs, ConcatProperties
    <2>2. ASSUME NEW i \in 1..(Len(prekeys) + Batch), i \notin 1..Len(prekeys)
          PROVE  prekeys'[i] = [state |-> "free", transfer |-> {}]
      <3>1. i - Len(prekeys) \in 1..Batch /\ ~(i <= Len(prekeys))
        BY <1>1, <2>2
      <3> QED
        BY <2>1, <2>2, <3>1, FreeBatchIs
    <2> QED
      BY <1>1, <2>1, <2>2
  <1>4. OwnerOf' = [i \in 1..(Len(OwnerOf) + Batch) |->
                      IF i \in DOMAIN OwnerOf THEN OwnerOf[i] ELSE {}]
    <2>1. OwnerOf' = [i \in 1..(Len(prekeys) + Batch) |-> prekeys'[i].transfer]
      BY <1>3 DEF OwnerOf
    <2>2. \A i \in 1..(Len(prekeys) + Batch) :
             prekeys'[i].transfer = IF i \in DOMAIN OwnerOf THEN OwnerOf[i] ELSE {}
      <3>1. DOMAIN OwnerOf = 1..Len(prekeys)
        BY <1>1, Mapped
      <3>2. \A i \in 1..Len(prekeys) : OwnerOf[i] = prekeys'[i].transfer
        BY <1>1, <1>3, Mapped
      <3> QED
        BY <1>3, <3>1, <3>2
    <2>3. Len(OwnerOf) = Len(prekeys)
      BY <1>1, Mapped
    <2> QED
      BY <2>1, <2>2, <2>3
  <1>5. Spent' = Spent
    <2>1. \A i \in 1..(Len(prekeys) + Batch) :
             prekeys'[i].state = "deleted" <=> i \in 1..Len(prekeys) /\ prekeys[i].state = "deleted"
      BY <1>3
    <2>2. 1..Len(prekeys) \subseteq 1..(Len(prekeys) + Batch)
      BY <1>1
    <2> QED
      BY <1>1, <1>3, <2>1, <2>2 DEF Spent
  <1> QED
    BY <1>1, <1>4, <1>5, SameRequests DEF Keys!Make

\* ... and takes one for a transfer that has none.
LEMMA ClaimIsTake ==
    ASSUME DeliveryInv, NEW u \in Upload, Claim(u)
    PROVE  \E i \in DOMAIN OwnerOf : Keys!Take(u, i)
  <1> DEFINE n == uploads[u].prekey
  <1>1. /\ DeliveryTypeOK /\ DOMAIN prekeys = 1..Len(prekeys) /\ Len(prekeys) \in Nat
        /\ RecordOK(u, uploads[u]) /\ uploads[u].pc = "claim" /\ Claimable(n)
        /\ prekeys' = [prekeys EXCEPT ![n] = [state |-> "consumed", transfer |-> {u}]]
        /\ downloads' = downloads
    BY Types DEF DeliveryInv, Established, UploadsOK, UploadOK, Claim
  <1>2. n \in 1..Len(prekeys)
    BY <1>1 DEF RecordOK
  <1>3. /\ prekeys[n].state \in {"free", "stale"} /\ prekeys[n].transfer = {}
        /\ \A j \in 1..Len(prekeys) : u \notin prekeys[j].transfer
    BY <1>1, <1>2 DEF Claimable, DeliveryInv, Established, RowsOK, RowOK, Claimed
  <1>4. /\ DOMAIN prekeys' = DOMAIN prekeys
        /\ prekeys'[n] = [state |-> "consumed", transfer |-> {u}]
        /\ \A i \in 1..Len(prekeys) : i # n => prekeys'[i] = prekeys[i]
    BY <1>1, <1>2
  <1>5. OwnerOf' = [OwnerOf EXCEPT ![n] = {u}]
    BY <1>1, <1>2, <1>4 DEF OwnerOf
  <1>6. Spent' = Spent
    BY <1>1, <1>2, <1>3, <1>4 DEF Spent
  <1>7. /\ OwnerOf[n] = {} /\ n \notin Spent /\ n \in DOMAIN OwnerOf
        /\ \A j \in DOMAIN OwnerOf : u \notin OwnerOf[j]
    BY <1>1, <1>2, <1>3, Mapped
  <1> QED
    BY <1>1, <1>5, <1>6, <1>7, SameRequests DEF Keys!Take

\* A prekey grows old without changing hands.
LEMMA ExpireIsQuiet ==
    ASSUME DeliveryInv, Expire
    PROVE  Quiet
  <1>1. DeliveryTypeOK /\ DOMAIN prekeys = 1..Len(prekeys) /\ downloads' = downloads
    BY Types DEF DeliveryInv, Established, Expire
  <1>2. PICK n \in Free : prekeys' = [prekeys EXCEPT ![n].state = "stale"]
    BY DEF Expire
  <1>3. n \in 1..Len(prekeys) /\ prekeys[n].state = "free"
    BY <1>1, <1>2 DEF Free
  <1>4. /\ SameTransfers /\ prekeys'[n].state = "stale"
        /\ \A i \in 1..Len(prekeys) : i # n => prekeys'[i] = prekeys[i]
    BY <1>1, <1>2, <1>3, StateUpdate
  <1>5. DOMAIN prekeys' = DOMAIN prekeys
    BY <1>1, <1>4 DEF SameTransfers
  <1>6. OwnerOf' = OwnerOf
    BY <1>1, <1>4, <1>5, SameOwners DEF SameTransfers
  <1>7. Spent' = Spent
    BY <1>1, <1>3, <1>4, <1>5 DEF Spent
  <1> QED
    BY <1>1, <1>6, <1>7, SameRequests DEF Quiet

LEMMA StepMapped ==
    ASSUME DeliveryInv, [Next]_vars
    PROVE  [Keys!KeysNext]_(Keys!keyVars)
  <1> SUFFICES Keys!KeysNext \/ Quiet
    BY DEF Quiet, Keys!keyVars
  <1>1. ASSUME NEW u \in Upload, Begin(u) \/ UploadStep(u) \/ UploadFails(u)
        PROVE  Keys!KeysNext \/ Quiet
    <2>1. CASE Restock(u)
      BY <2>1, RestockIsMake DEF Keys!KeysNext
    <2>2. CASE Claim(u)
      BY <2>2, ClaimIsTake DEF Keys!KeysNext
    <2>3. ASSUME ~Restock(u), ~Claim(u)
          PROVE  prekeys' = prekeys /\ downloads' = downloads
      BY <1>1, <2>3 DEF Begin, UploadStep, UploadFails, SelectPrekey, LoseClaim, ReadKey,
                        GenerateRead, GenerateInsert, GenerateRefused, Package
    <2> QED
      BY <2>1, <2>2, <2>3, SameTable, SameRequests DEF Quiet
  <1>2. ASSUME NEW d \in Download, NEW u \in Upload, Request(d, u)
        PROVE  Keys!KeysNext
    BY <1>2, RequestIsAsk DEF Keys!KeysNext
  <1>3. ASSUME NEW d \in Download, DownloadStep(d) \/ DownloadLost(d)
        PROVE  Keys!KeysNext \/ Quiet
    <2>1. CASE FindPrekey(d) /\ PrekeysOf(downloads[d].of) # {}
      BY <2>1, FindIsHandOut DEF Keys!KeysNext
    <2>2. CASE DeletePrekey(d)
      BY <2>2, DeleteIsSpend DEF Keys!KeysNext
    <2> QED
      BY <1>3, <2>1, <2>2, QuietDownload DEF DownloadStep
  <1>4. CASE Supersede \/ Register \/ AllOver \/ UNCHANGED vars
    BY <1>4, SameTable, SameRequests DEF Supersede, Register, AllOver, vars, Quiet
  <1>5. CASE Expire
    BY <1>5, ExpireIsQuiet
  <1> QED
    BY <1>1, <1>2, <1>3, <1>4, <1>5 DEF Next

\* The calls of claim_prekey and of get_and_delete_prekey, in any order and
\* broken off anywhere, give every prekey one transfer, hand it only to a
\* download of that transfer, and never again once it is deleted.
THEOREM DeliveryImplementsOneTimeKeys == Spec => ImplementsOneTimeKeys
  <1>1. Init => Keys!KeysInit
    <2> SUFFICES ASSUME Init PROVE Keys!KeysInit
      OBVIOUS
    <2>1. prekeys = <<>> /\ DOMAIN prekeys = {}
      BY DEF Init
    <2>2. OwnerOf = <<>> /\ Spent = {}
      BY <2>1 DEF OwnerOf, Spent
    <2>3. \A d \in Download : downloads[d].pc = "idle" /\ downloads[d].prekey = 0
      BY DEF Init, NewDownload
    <2> QED
      BY <2>2, <2>3 DEF Keys!KeysInit, WantedBy, HeldBy
  <1>2. DeliveryInv /\ [Next]_vars => [Keys!KeysNext]_(Keys!keyVars)
    BY StepMapped
  <1> QED
    BY <1>1, <1>2, DeliveryInvariant, PTL DEF Spec, ImplementsOneTimeKeys, Keys!KeysSpec

=============================================================================
