--------------------------- MODULE ZkOracleProofs ---------------------------
(***************************************************************************)
(* Proofs about the in-memory oracle of ZkOracle.tla, for every set of     *)
(* maps a prover can hand in and every constant that satisfies             *)
(* ZkOracleAssumption.                                                     *)
(*                                                                         *)
(* VerifiedCacheIntegrity speaks of the state after verify() returned; it  *)
(* holds because verify() walks the map entry by entry and lets an entry  *)
(* out of pending only after its check passed.  VisitedIntegrity says so  *)
(* for every state of the walk: the entries already visited obey their    *)
(* rule, and once verify() has returned no entry is left to visit.         *)
(***************************************************************************)
EXTENDS ZkOracle, SequenceTheorems, TLAPS

USE ZkOracleAssumption

VisitedOk == \A k \in DOMAIN cache \ pending : IntegrityRule(k, cache[k])

VisitedIntegrity ==
    /\ pc # "Failed" => VisitedOk
    /\ pc \in {"Commitment", "Elements", "Done"} => pending = {}

-----------------------------------------------------------------------------
LEMMA InitVisited == Init => VisitedIntegrity
BY DEF Init, VisitedIntegrity, VisitedOk

(* The rule of an entry reads only the map: a step that keeps the map and *)
(* the entries left keeps VisitedOk, and one that lets out an entry that  *)
(* obeys its rule keeps it too.                                            *)
LEMMA VisitedOkStep ==
    ASSUME VisitedOk, UNCHANGED cache,
           \/ UNCHANGED pending
           \/ \E k \in pending : pending' = pending \ {k} /\ IntegrityRule(k, cache[k])
    PROVE  VisitedOk'
BY DEF VisitedOk, IntegrityRule, GetExactOk

(* An entry that verify() lets out of pending obeys the rule of its type: *)
(* the steps that accept an entry are exactly those whose check passed.    *)
LEMMA AcceptedObeysRule ==
    ASSUME VisitedIntegrity, NEW k \in pending, Accept(k), UNCHANGED cache,
           pc = "Verify", IntegrityRule(k, cache[k])
    PROVE  VisitedIntegrity'
<1>1. VisitedOk'
  BY VisitedOkStep DEF Accept, VisitedIntegrity
<1>2. pc' = "Verify"
  BY DEF Accept
<1>. QED  BY <1>1, <1>2 DEF VisitedIntegrity

(* A step that keeps the map and the entries left to visit, and does not *)
(* leave the failed state, keeps VisitedIntegrity if it reaches the state *)
(* after verify() only with no entry left.                                 *)
LEMMA QuietStep ==
    ASSUME VisitedIntegrity, UNCHANGED <<cache, pending>>,
           pc # "Failed" \/ pc' = "Failed",
           pc' \in {"Commitment", "Elements", "Done"} => pending = {}
    PROVE  VisitedIntegrity'
<1>1. pc' # "Failed" => VisitedOk'
  BY VisitedOkStep DEF VisitedIntegrity
<1>. QED  BY <1>1 DEF VisitedIntegrity

LEMMA NextVisited == VisitedIntegrity /\ [Next]_vars => VisitedIntegrity'
<1> SUFFICES ASSUME VisitedIntegrity, [Next]_vars PROVE VisitedIntegrity'
  OBVIOUS
<1>1. CASE VerifyLocal
  <2>1. PICK k \in pending : k.type = "Local" /\ Accept(k)
    BY <1>1 DEF VerifyLocal
  <2>2. IntegrityRule(k, cache[k])
    BY <2>1 DEF IntegrityRule
  <2>. QED  BY <1>1, <2>1, <2>2, AcceptedObeysRule DEF VerifyLocal
<1>2. CASE VerifyKeccak256
  <2>1. PICK k \in pending :
            /\ k.type = "Keccak256"
            /\ IF k.body = Keccak256(cache[k]) THEN Accept(k) ELSE Abort
    BY <1>2 DEF VerifyKeccak256
  <2>2. CASE k.body = Keccak256(cache[k])
    <3>1. IntegrityRule(k, cache[k])
      BY <2>1, <2>2 DEF IntegrityRule
    <3>. QED  BY <1>2, <2>1, <2>2, <3>1, AcceptedObeysRule DEF VerifyKeccak256
  <2>3. CASE k.body # Keccak256(cache[k])
    BY <1>2, <2>1, <2>3, QuietStep DEF VerifyKeccak256, Abort
  <2>. QED  BY <2>2, <2>3
<1>3. CASE VerifyGlobalGeneric
  BY <1>3, QuietStep DEF VerifyGlobalGeneric, Abort
<1>4. CASE VerifySha256
  <2>1. PICK k \in pending :
            /\ k.type = "Sha256"
            /\ IF k.body = Sha256Body(cache[k]) THEN Accept(k) ELSE Abort
    BY <1>4 DEF VerifySha256
  <2>2. CASE k.body = Sha256Body(cache[k])
    <3>1. IntegrityRule(k, cache[k])
      BY <2>1, <2>2 DEF IntegrityRule
    <3>. QED  BY <1>4, <2>1, <2>2, <3>1, AcceptedObeysRule DEF VerifySha256
  <2>3. CASE k.body # Sha256Body(cache[k])
    BY <1>4, <2>1, <2>3, QuietStep DEF VerifySha256, Abort
  <2>. QED  BY <2>2, <2>3
<1>5. CASE VerifyBlob
  <2>1. PICK k \in pending :
            LET sibling == PreimageKey(k.body, "Keccak256")
            IN  /\ k.type = "Blob"
                /\ IF GetExactOk(sibling, "FieldKey")
                   THEN LET fk == cache[sibling]
                        IN  IF CopiesWholeValue(blobs[fk.c], fk.index) => cache[k].kind = "Word"
                            THEN /\ Accept(k)
                                 /\ blobs' = [blobs EXCEPT ![fk.c] =
                                                StoreBlobValue(@, fk.index, cache[k])]
                            ELSE Abort /\ UNCHANGED blobs
                   ELSE Abort /\ UNCHANGED blobs
    BY <1>5 DEF VerifyBlob
  <2> DEFINE sibling == PreimageKey(k.body, "Keccak256")
             fk == cache[sibling]
  <2>2. CASE GetExactOk(sibling, "FieldKey")
             /\ (CopiesWholeValue(blobs[fk.c], fk.index) => cache[k].kind = "Word")
    <3>1. IntegrityRule(k, cache[k])
      BY <2>1, <2>2 DEF IntegrityRule
    <3>2. Accept(k)
      BY <2>1, <2>2
    <3>. QED  BY <1>5, <2>1, <3>1, <3>2, AcceptedObeysRule DEF VerifyBlob
  <2>3. CASE ~(GetExactOk(sibling, "FieldKey")
               /\ (CopiesWholeValue(blobs[fk.c], fk.index) => cache[k].kind = "Word"))
    <3>1. Abort
      BY <2>1, <2>3
    <3>. QED  BY <1>5, <3>1, QuietStep DEF VerifyBlob, Abort
  <2>. QED  BY <2>2, <2>3
<1>6. CASE VerifyPrecompile
  <2>1. PICK k \in pending :
            LET sibling == PreimageKey(k.body, "Keccak256")
            IN  /\ k.type = "Precompile"
                /\ IF /\ GetExactOk(sibling, "Call")
                      /\ cache[k] = Execute(cache[sibling].in)
                   THEN Accept(k)
                   ELSE Abort
    BY <1>6 DEF VerifyPrecompile
  <2> DEFINE sibling == PreimageKey(k.body, "Keccak256")
  <2>2. CASE GetExactOk(sibling, "Call") /\ cache[k] = Execute(cache[sibling].in)
    <3>1. IntegrityRule(k, cache[k])
      BY <2>1, <2>2 DEF IntegrityRule
    <3>. QED  BY <1>6, <2>1, <2>2, <3>1, AcceptedObeysRule DEF VerifyPrecompile
  <2>3. CASE ~(GetExactOk(sibling, "Call") /\ cache[k] = Execute(cache[sibling].in))
    BY <1>6, <2>1, <2>3, QuietStep DEF VerifyPrecompile, Abort
  <2>. QED  BY <2>2, <2>3
<1>7. CASE VerifyFinish
  BY <1>7, QuietStep DEF VerifyFinish
<1>8. CASE GetCommitment
  BY <1>8, QuietStep DEF GetCommitment, VisitedIntegrity
<1>9. CASE GetFieldElement
  BY <1>9, QuietStep DEF GetFieldElement, VisitedIntegrity
<1>10. CASE ReturnBlob
  BY <1>10, QuietStep DEF ReturnBlob, VisitedIntegrity
<1>11. CASE BlobsServed
  BY <1>11, QuietStep DEF BlobsServed, VisitedIntegrity
<1>12. CASE UNCHANGED vars
  BY <1>12, QuietStep DEF vars, VisitedIntegrity
<1>. QED
  BY <1>1, <1>2, <1>3, <1>4, <1>5, <1>6, <1>7, <1>8, <1>9, <1>10, <1>11, <1>12
  DEF Next

(* main.rs 58-61 and oracle.rs: whatever map the prover hands in and       *)
(* whatever order the HashMap walk takes, once verify() has returned Ok    *)
(* every entry of the map obeys the integrity rule of its key type.        *)
THEOREM VerifiedCacheIntegrityHolds == Spec => []VerifiedCacheIntegrity
<1>1. VisitedIntegrity => VerifiedCacheIntegrity
  BY DEF VisitedIntegrity, VisitedOk, VerifiedCacheIntegrity
<1>. QED  BY <1>1, InitVisited, NextVisited, PTL DEF Spec

-----------------------------------------------------------------------------
(* The Blob verify() rebuilds for a commitment, as a set of records.       *)
BlobType == [data : [0..(BlobDataSlots - 1) -> Words],
             proofLo : Words,
             proofHi : [prefix16 : Values]]

RequestInRange == pc = "Elements" => req \in 1..Len(BlobRequests)

(* A value of the map whose length is that of a field-element key is one.  *)
LEMMA FieldKeyValue ==
    ASSUME NEW v \in Values, v.kind = "FieldKey"
    PROVE  v.c \in Commitments /\ v.index \in Nat
BY DEF Values

(* A value of the map of the length of a word is one.                      *)
LEMMA WordValue ==
    ASSUME NEW v \in Values, v.kind = "Word"
    PROVE  v.w \in Words
BY DEF Values

(* verify() stores into a blob only what fits the slot it writes: a word  *)
(* into a data slot or the low proof half, 16 bytes of any value into the *)
(* high half.                                                              *)
LEMMA StoreBlobType ==
    ASSUME NEW b \in BlobType, NEW i \in Nat, NEW v \in Values,
           CopiesWholeValue(b, i) => v.kind = "Word"
    PROVE  StoreBlobValue(b, i, v) \in BlobType
<1>1. CASE i = N
  <2>1. StoreBlobValue(b, i, v) = [b EXCEPT !.proofLo = v.w]
    BY <1>1 DEF StoreBlobValue
  <2>2. v.w \in Words
    BY <1>1, WordValue DEF CopiesWholeValue
  <2>. QED  BY <2>1, <2>2, Zenon DEF BlobType
<1>2. CASE i = N + 1
  <2>1. StoreBlobValue(b, i, v) = [b EXCEPT !.proofHi = Prefix16(v)]
    BY <1>2 DEF StoreBlobValue
  <2>2. Prefix16(v) \in [prefix16 : Values]
    BY DEF Prefix16
  <2>. QED  BY <2>1, <2>2, Zenon DEF BlobType
<1>3. CASE i # N /\ i # N + 1 /\ i < BlobDataSlots /\ b.data[i] = Zero
  <2>1. v.w \in Words /\ i \in 0..(BlobDataSlots - 1)
    BY <1>3, WordValue DEF CopiesWholeValue
  <2>2. StoreBlobValue(b, i, v) = [b EXCEPT !.data = [b.data EXCEPT ![i] = v.w]]
    BY <1>3 DEF StoreBlobValue
  <2>3. [b.data EXCEPT ![i] = v.w] \in [0..(BlobDataSlots - 1) -> Words]
    BY <2>1 DEF BlobType
  <2>. QED  BY <2>2, <2>3, Zenon DEF BlobType
<1>4. CASE i # N /\ i # N + 1 /\ ~(i < BlobDataSlots /\ b.data[i] = Zero)
  BY <1>4 DEF StoreBlobValue
<1>. QED  BY <1>1, <1>2, <1>3, <1>4

LEMMA InitTypeOK == Init => TypeOK /\ RequestInRange
<1> SUFFICES ASSUME Init PROVE TypeOK /\ RequestInRange
  OBVIOUS
<1>1. DefaultBlob \in BlobType
  BY DEF DefaultBlob, BlobType, Prefix16, Word, Values
<1>2. Len(BlobRequests) \in Nat /\ <<>> \in Seq(Commitments \X [0..(N - 1) -> Words])
  BY LenProperties, EmptySeq
<1>. QED  BY <1>1, <1>2 DEF Init, TypeOK, RequestInRange, BlobType

(* A step of verify() that only lets an entry out of pending or fails.     *)
LEMMA PendingStep ==
    ASSUME TypeOK, RequestInRange, pending' \subseteq pending,
           pc' \in {"Verify", "Failed"},
           UNCHANGED <<cache, blobs, req, fetched, fe, blob, served>>
    PROVE  TypeOK' /\ RequestInRange'
BY DEF TypeOK, RequestInRange

LEMMA NextTypeOK == TypeOK /\ RequestInRange /\ [Next]_vars => TypeOK' /\ RequestInRange'
<1> SUFFICES ASSUME TypeOK, RequestInRange, [Next]_vars PROVE TypeOK' /\ RequestInRange'
  OBVIOUS
<1>1. CASE VerifyLocal \/ VerifyKeccak256 \/ VerifyGlobalGeneric \/ VerifySha256
                       \/ VerifyPrecompile
  BY <1>1, PendingStep DEF VerifyLocal, VerifyKeccak256, VerifyGlobalGeneric, VerifySha256,
                           VerifyPrecompile, Accept, Abort
<1>2. CASE VerifyBlob
  <2>1. PICK k \in pending :
            LET sibling == PreimageKey(k.body, "Keccak256")
            IN  /\ k.type = "Blob"
                /\ IF GetExactOk(sibling, "FieldKey")
                   THEN LET fk == cache[sibling]
                        IN  IF CopiesWholeValue(blobs[fk.c], fk.index) => cache[k].kind = "Word"
                            THEN /\ Accept(k)
                                 /\ blobs' = [blobs EXCEPT ![fk.c] =
                                                StoreBlobValue(@, fk.index, cache[k])]
                            ELSE Abort /\ UNCHANGED blobs
                   ELSE Abort /\ UNCHANGED blobs
    BY <1>2 DEF VerifyBlob
  <2> DEFINE sibling == PreimageKey(k.body, "Keccak256")
             fk == cache[sibling]
  <2>0. UNCHANGED <<cache, req, fetched, fe, blob, served>> /\ pc = "Verify"
    BY <1>2 DEF VerifyBlob
  <2>2. CASE GetExactOk(sibling, "FieldKey")
             /\ (CopiesWholeValue(blobs[fk.c], fk.index) => cache[k].kind = "Word")
    <3>1. fk.c \in Commitments /\ fk.index \in Nat /\ cache[k] \in Values
      BY <2>2, FieldKeyValue DEF GetExactOk, TypeOK
    <3>2. blobs[fk.c] \in BlobType
      BY <3>1 DEF TypeOK, BlobType
    <3>3. StoreBlobValue(blobs[fk.c], fk.index, cache[k]) \in BlobType
      BY <2>2, <3>1, <3>2, StoreBlobType
    <3>4. blobs' \in [Commitments -> BlobType]
      <4>1. blobs' = [blobs EXCEPT ![fk.c] = StoreBlobValue(blobs[fk.c], fk.index, cache[k])]
        BY <2>1, <2>2
      <4>2. blobs \in [Commitments -> BlobType]
        BY DEF TypeOK, BlobType
      <4>. QED  BY <3>1, <3>3, <4>1, <4>2
    <3>5. pending' \subseteq pending /\ pc' = "Verify"
      BY <2>0, <2>1, <2>2 DEF Accept
    <3>. QED  BY <2>0, <3>4, <3>5 DEF TypeOK, RequestInRange, BlobType
  <2>3. CASE ~(GetExactOk(sibling, "FieldKey")
               /\ (CopiesWholeValue(blobs[fk.c], fk.index) => cache[k].kind = "Word"))
    <3>1. Abort /\ UNCHANGED blobs
      BY <2>1, <2>3
    <3>. QED  BY <2>0, <3>1, PendingStep DEF Abort
  <2>. QED  BY <2>2, <2>3
<1>3. CASE VerifyFinish
  BY <1>3 DEF VerifyFinish, TypeOK, RequestInRange
<1>4. CASE GetCommitment
  <2> DEFINE k == PreimageKey(VersionedHash(BlobRequests[req]).rest, "Sha256")
  <2>1. /\ req \in 1..Len(BlobRequests)
        /\ fe' = 0 /\ blob' = [i \in 0..(N - 1) |-> Zero]
        /\ UNCHANGED <<cache, pending, blobs, req, served>>
    BY <1>4 DEF GetCommitment, TypeOK
  <2>2. CASE GetExactOk(k, "Commitment")
             /\ Sha256Digest(cache[k].c) = VersionedHash(BlobRequests[req])
    <3>1. fetched' = cache[k].c /\ pc' = "Elements"
      BY <1>4, <2>2 DEF GetCommitment
    <3>2. cache[k].c \in Commitments
      BY <2>2 DEF GetExactOk, TypeOK, Values
    <3>. QED  BY <2>1, <3>1, <3>2 DEF TypeOK, RequestInRange
  <2>3. CASE ~(GetExactOk(k, "Commitment")
               /\ Sha256Digest(cache[k].c) = VersionedHash(BlobRequests[req]))
    <3>1. pc' = "Failed" /\ UNCHANGED fetched
      BY <1>4, <2>3 DEF GetCommitment
    <3>. QED  BY <2>1, <3>1 DEF TypeOK, RequestInRange
  <2>. QED  BY <2>2, <2>3
<1>5. CASE GetFieldElement
  <2> DEFINE k == PreimageKey(Keccak256(FieldElementKey(fetched, 0, fe)), "Blob")
  <2>1. /\ pc = "Elements" /\ fe \in 0..(N - 1)
        /\ UNCHANGED <<cache, pending, blobs, req, fetched, served>>
    BY <1>5 DEF GetFieldElement, TypeOK
  <2>2. CASE GetExactOk(k, "Word")
    <3>1. blob' = [blob EXCEPT ![fe] = cache[k].w] /\ fe' = fe + 1 /\ UNCHANGED pc
      BY <1>5, <2>2 DEF GetFieldElement
    <3>2. cache[k].w \in Words
      BY <2>2, WordValue DEF GetExactOk, TypeOK
    <3>. QED  BY <2>1, <3>1, <3>2 DEF TypeOK, RequestInRange
  <2>3. CASE ~GetExactOk(k, "Word")
    <3>1. pc' = "Failed" /\ UNCHANGED <<blob, fe>>
      BY <1>5, <2>3 DEF GetFieldElement
    <3>. QED  BY <2>1, <3>1 DEF TypeOK, RequestInRange
  <2>. QED  BY <2>2, <2>3
<1>6. CASE ReturnBlob
  <2>1. /\ req \in 1..Len(BlobRequests)
        /\ served' = Append(served, <<BlobRequests[req], blob>>)
        /\ req' = req + 1 /\ pc' = "Commitment"
        /\ UNCHANGED <<cache, pending, blobs, fetched, fe, blob>>
    BY <1>6 DEF ReturnBlob, RequestInRange
  <2>2. <<BlobRequests[req], blob>> \in Commitments \X [0..(N - 1) -> Words]
    BY <2>1, ElementOfSeq DEF TypeOK
  <2>3. served' \in Seq(Commitments \X [0..(N - 1) -> Words])
    BY <2>1, <2>2, AppendProperties DEF TypeOK
  <2>. QED  BY <2>1, <2>3 DEF TypeOK, RequestInRange
<1>7. CASE BlobsServed
  BY <1>7 DEF BlobsServed, TypeOK, RequestInRange
<1>8. CASE UNCHANGED vars
  BY <1>8 DEF vars, TypeOK, RequestInRange
<1>. QED  BY <1>1, <1>2, <1>3, <1>4, <1>5, <1>6, <1>7, <1>8 DEF Next

(* Every state of verify() and get_blob is well typed: verify() only ever *)
(* writes a word into a blob's data slot or its low proof half, and       *)
(* get_blob only reads words into the blob it returns and serves a hash   *)
(* derivation asked for.                                                   *)
THEOREM TypeCorrect == Spec => []TypeOK
<1>1. TypeOK /\ RequestInRange => TypeOK
  OBVIOUS
<1>. QED  BY <1>1, InitTypeOK, NextTypeOK, PTL DEF Spec

-----------------------------------------------------------------------------
(***************************************************************************)
(* What get_blobs returns.  ServedBlobsReadFromOracle is not inductive on *)
(* its own: a blob is appended whole by ReturnBlob, so the invariant must *)
(* also speak of the blob being filled.  While get_blob is in its loop,   *)
(* the commitment it read is the one of the hash being served (the        *)
(* sha256 assert) and the indices below the loop index hold the oracle's  *)
(* words; and one blob has been served per hash before the current one.   *)
(***************************************************************************)
ReadFromOracle ==
    /\ Len(served) = req - 1
    /\ pc = "Elements" =>
         /\ fetched = BlobRequests[req]
         /\ \A i \in 0..(fe - 1) : blob[i] = cache[BlobKey(fetched, 0, i)].w
    /\ ServedBlobsReadFromOracle

LEMMA InitRead == Init => ReadFromOracle
BY EmptySeq DEF Init, ReadFromOracle, ServedBlobsReadFromOracle

(* The sha256 assert of get_blob: a commitment whose digest is the         *)
(* versioned hash of a requested commitment is that commitment.            *)
LEMMA DigestDeterminesCommitment ==
    ASSUME NEW c, NEW r, Sha256Digest(c) = VersionedHash(r)
    PROVE  c = r
<1>1. Sha256Body(CommitmentBytes(c)) = Sha256Body(CommitmentBytes(r))
  BY DEF Sha256Digest, VersionedHash
<1>. QED  BY <1>1 DEF Sha256Body, CommitmentBytes

(* A step outside get_blob's loop that leaves the blob, the served blobs   *)
(* and the map alone keeps ReadFromOracle.                                 *)
LEMMA QuietRead ==
    ASSUME ReadFromOracle, UNCHANGED <<cache, req, fetched, fe, blob, served>>,
           pc' = "Elements" => pc = "Elements"
    PROVE  ReadFromOracle'
BY DEF ReadFromOracle, ServedBlobsReadFromOracle, BlobKey

LEMMA NextRead ==
    TypeOK /\ RequestInRange /\ ReadFromOracle /\ [Next]_vars => ReadFromOracle'
<1> SUFFICES ASSUME TypeOK, RequestInRange, ReadFromOracle, [Next]_vars
             PROVE  ReadFromOracle'
  OBVIOUS
<1>1. CASE VerifyLocal \/ VerifyKeccak256 \/ VerifyGlobalGeneric \/ VerifySha256
           \/ VerifyBlob \/ VerifyPrecompile \/ VerifyFinish \/ BlobsServed
  BY <1>1, QuietRead DEF VerifyLocal, VerifyKeccak256, VerifyGlobalGeneric, VerifySha256,
                          VerifyBlob, VerifyPrecompile, VerifyFinish, BlobsServed,
                          Accept, Abort
<1>2. CASE GetCommitment
  <2> DEFINE k == PreimageKey(VersionedHash(BlobRequests[req]).rest, "Sha256")
  <2>1. /\ pc = "Commitment" /\ fe' = 0
        /\ UNCHANGED <<cache, req, served>>
    BY <1>2 DEF GetCommitment
  <2>2. CASE GetExactOk(k, "Commitment")
             /\ Sha256Digest(cache[k].c) = VersionedHash(BlobRequests[req])
    <3>1. fetched' = cache[k].c
      BY <1>2, <2>2 DEF GetCommitment
    <3>2. fetched' = BlobRequests[req]
      BY <2>2, <3>1, DigestDeterminesCommitment
    <3>. QED  BY <2>1, <3>2 DEF ReadFromOracle, ServedBlobsReadFromOracle
  <2>3. CASE ~(GetExactOk(k, "Commitment")
               /\ Sha256Digest(cache[k].c) = VersionedHash(BlobRequests[req]))
    <3>1. pc' = "Failed"
      BY <1>2, <2>3 DEF GetCommitment
    <3>. QED  BY <2>1, <3>1 DEF ReadFromOracle, ServedBlobsReadFromOracle
  <2>. QED  BY <2>2, <2>3
<1>3. CASE GetFieldElement
  <2> DEFINE k == PreimageKey(Keccak256(FieldElementKey(fetched, 0, fe)), "Blob")
  <2>1. /\ pc = "Elements" /\ fe \in 0..(N - 1)
        /\ UNCHANGED <<cache, req, fetched, served>>
    BY <1>3 DEF GetFieldElement, TypeOK
  <2>2. CASE GetExactOk(k, "Word")
    <3>1. blob' = [blob EXCEPT ![fe] = cache[k].w] /\ fe' = fe + 1 /\ pc' = "Elements"
      BY <1>3, <2>1, <2>2 DEF GetFieldElement
    <3>2. blob \in [0..(N - 1) -> Words]
      BY DEF TypeOK
    <3>3. \A i \in 0..fe : blob'[i] = cache[BlobKey(fetched, 0, i)].w
      BY <2>1, <3>1, <3>2 DEF ReadFromOracle, BlobKey
    <3>. QED  BY <2>1, <3>1, <3>3 DEF ReadFromOracle, ServedBlobsReadFromOracle
  <2>3. CASE ~GetExactOk(k, "Word")
    <3>1. pc' = "Failed" /\ UNCHANGED <<blob, fe>>
      BY <1>3, <2>3 DEF GetFieldElement
    <3>. QED  BY <2>1, <3>1 DEF ReadFromOracle, ServedBlobsReadFromOracle
  <2>. QED  BY <2>2, <2>3
<1>4. CASE ReturnBlob
  <2>1. /\ pc = "Elements" /\ fe = N /\ req \in 1..Len(BlobRequests)
        /\ served' = Append(served, <<BlobRequests[req], blob>>)
        /\ req' = req + 1 /\ pc' = "Commitment"
        /\ UNCHANGED <<cache, fetched, fe, blob>>
    BY <1>4 DEF ReturnBlob, RequestInRange
  <2>2. served \in Seq(Commitments \X [0..(N - 1) -> Words])
    BY DEF TypeOK
  <2>3. /\ Len(served') = Len(served) + 1
        /\ served'[Len(served) + 1] = <<BlobRequests[req], blob>>
        /\ \A j \in 1..Len(served) : served'[j] = served[j]
    BY <2>1, <2>2, AppendProperties
  <2>4. Len(served) + 1 = req /\ fetched = BlobRequests[req]
        /\ \A i \in 0..(N - 1) : blob[i] = cache[BlobKey(fetched, 0, i)].w
    BY <2>1 DEF ReadFromOracle
  <2>5. ServedBlobsReadFromOracle'
    BY <2>1, <2>3, <2>4 DEF ReadFromOracle, ServedBlobsReadFromOracle
  <2>. QED  BY <2>1, <2>3, <2>4, <2>5 DEF ReadFromOracle
<1>5. CASE UNCHANGED vars
  BY <1>5, QuietRead DEF vars
<1>. QED  BY <1>1, <1>2, <1>3, <1>4, <1>5 DEF Next

(* blob_provider.rs 36-101: whatever map the prover handed in, get_blobs   *)
(* returns one blob per hash in the order asked, each made of the words    *)
(* the oracle holds under the Blob keys of the commitment whose sha256 is  *)
(* that hash.                                                              *)
THEOREM ServedBlobsReadFromOracleHolds == Spec => []ServedBlobsReadFromOracle
<1>1. Spec => [](TypeOK /\ RequestInRange /\ ReadFromOracle)
  BY InitTypeOK, NextTypeOK, InitRead, NextRead, PTL DEF Spec
<1>2. ReadFromOracle => ServedBlobsReadFromOracle
  BY DEF ReadFromOracle
<1>. QED  BY <1>1, <1>2, PTL

=============================================================================
