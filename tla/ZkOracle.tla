------------------------------ MODULE ZkOracle ------------------------------
(***************************************************************************)
(* The ZKVM client's in-memory preimage oracle and the blob provider that *)
(* reads from it:                                                          *)
(*   src/bin/programs/zkvm-client/src/oracle.rs      InMemoryOracle        *)
(*   src/bin/programs/zkvm-client/src/l1/blob_provider.rs  get_blob        *)
(*   src/bin/programs/zkvm-client/src/main.rs        prologue order        *)
(*                                                                         *)
(* In ZKVM mode the prover hands the client a serialized key-value map.   *)
(* main deserializes it, calls verify() on it (aborting on failure) and    *)
(* only then builds the providers that read from it.  verify() walks the  *)
(* map in HashMap order, one entry per step; the blob provider then reads *)
(* a commitment and FieldElementsPerBlob field elements per blob hash.     *)
(*                                                                         *)
(* Hashes are abstracted to their preimage (no collisions): a Keccak256   *)
(* digest is <<"keccak256", v>>, the 31 low bytes of a SHA-256 digest are *)
(* <<"sha256", v>>, and PreimageKey::new, which overwrites byte 0 with    *)
(* the key type, keeps the type and that body.  Only line 77 of the blob  *)
(* provider compares a full SHA-256 digest, so only there the top byte    *)
(* (ShaTop) matters.  A value is a record whose kind fixes its length:    *)
(* Commitment 48 bytes, FieldKey 80, Word 32, Call and Output at least    *)
(* 16.                                                                     *)
(***************************************************************************)
EXTENDS Naturals, Sequences, FiniteSets

CONSTANTS
    Commitments,          \* KZG commitments (model values)
    Words,                \* 32-byte words: field elements and proof halves
    Zero,                 \* the all-zero word, a member of Words
    Calls,                \* precompile call data (model values)
    FieldElementsPerBlob, \* FIELD_ELEMENTS_PER_BLOB, 4096 in the code
    BlobDataSlots,        \* 32-byte slots of Blob.data: FixedBytes<4096> holds 128
    Committed,            \* the blob each commitment commits to, proof halves at N, N+1
    ShaTop,               \* byte 0 of sha256(commitment), for each commitment
    Caches,               \* key-value maps a prover can hand to the client
    BlobRequests,         \* the blob hashes derivation asks for, as commitments
    None

N == FieldElementsPerBlob

KeyTypes == {"Local", "Keccak256", "GlobalGeneric", "Sha256", "Blob", "Precompile"}

(* Values, by the byte layout the code slices them with.                   *)
CommitmentBytes(c) == [kind |-> "Commitment", c |-> c]
FieldElementKey(c, r, i) == [kind |-> "FieldKey", c |-> c, reserved |-> r, index |-> i]
Word(w) == [kind |-> "Word", w |-> w]
HintData(x) == [kind |-> "Call", in |-> x]
PrecompileOutput(x) == [kind |-> "Output", of |-> x]

Values ==
    [kind : {"Commitment"}, c : Commitments]
      \cup [kind : {"FieldKey"}, c : Commitments, reserved : Nat, index : Nat]
      \cup [kind : {"Word"}, w : Words]
      \cup [kind : {"Call"}, in : Calls]
      \cup [kind : {"Output"}, of : Calls]

(* The constants as the code has them; a map handed in deserializes into  *)
(* PreimageKeys of a known type and byte values.                           *)
ASSUME ZkOracleAssumption ==
    /\ N \in Nat \ {0}
    /\ BlobDataSlots \in 1..N
    /\ Zero \in Words
    /\ Committed \in [Commitments -> [0..(N + 1) -> Words]]
    /\ ShaTop \in [Commitments -> 0..255]
    /\ BlobRequests \in Seq(Commitments)
    /\ \A m \in Caches : \A k \in DOMAIN m : k.type \in KeyTypes /\ m[k] \in Values

Keccak256(v) == <<"keccak256", v>>
Sha256Body(v) == <<"sha256", v>>
PreimageKey(body, type) == [type |-> type, body |-> body]

(* The EIP-4844 versioned hash of a commitment: sha256 with byte 0 set to *)
(* VERSIONED_HASH_VERSION_KZG (1); and the raw digest line 77 computes.    *)
VersionedHash(c) == [top |-> 1, rest |-> Sha256Body(CommitmentBytes(c))]
Sha256Digest(c) == [top |-> ShaTop[c], rest |-> Sha256Body(CommitmentBytes(c))]

(* Precompile::execute is deterministic.                                   *)
Execute(x) == PrecompileOutput(x)

(* kzg_proof[32..].copy_from_slice(&value[..16]) keeps 16 bytes.           *)
Prefix16(v) == [prefix16 |-> v]

DefaultBlob == [data |-> [i \in 0..(BlobDataSlots - 1) |-> Zero],
                proofLo |-> Zero,
                proofHi |-> Prefix16(Word(Zero))]

VARIABLES
    cache,    \* InMemoryOracle.cache
    pending,  \* entries verify() has not visited yet
    blobs,    \* verify()'s HashMap<commitment, Blob>
    pc,       \* "Verify", "Commitment", "Elements", "Done" or "Failed"
    req,      \* index of the blob hash being served
    fetched,  \* the commitment get_blob read for it
    fe,       \* loop index i over the field elements
    blob,     \* the alloy Blob being filled
    served    \* <<commitment, blob>> pairs get_blobs returned

vars == <<cache, pending, blobs, pc, req, fetched, fe, blob, served>>

(* get_exact: the key must be in the map and copy_from_slice panics unless *)
(* the value has the length of the caller's buffer.                        *)
GetExactOk(k, kind) == k \in DOMAIN cache /\ cache[k].kind = kind

(* What verify() does with a Blob entry whose sibling holds the 80 bytes   *)
(* commitment ++ reserved ++ u64 index: the proof halves at 4096 and 4097, *)
(* else the 32-byte slot index << 5 of Blob.data, written only if it is    *)
(* in range (get_mut) and all zero; the overwrite Err is dropped by .map.  *)
CopiesWholeValue(b, i) ==
    \/ i = N
    \/ i < BlobDataSlots /\ b.data[i] = Zero

StoreBlobValue(b, i, v) ==
    IF i = N THEN [b EXCEPT !.proofLo = v.w]
    ELSE IF i = N + 1 THEN [b EXCEPT !.proofHi = Prefix16(v)]
    ELSE IF i < BlobDataSlots /\ b.data[i] = Zero THEN [b EXCEPT !.data[i] = v.w]
    ELSE b

Init ==
    /\ cache \in Caches
    /\ pending = DOMAIN cache
    /\ blobs = [c \in Commitments |-> DefaultBlob]
    /\ pc = "Verify"
    /\ req = 1
    /\ fetched = None
    /\ fe = 0
    /\ blob = [i \in 0..(N - 1) |-> Zero]
    /\ served = <<>>

Accept(k) == pending' = pending \ {k} /\ UNCHANGED pc
Abort == pc' = "Failed" /\ UNCHANGED pending

(* verify(), a Local entry: public input, checked on chain.                *)
VerifyLocal ==
    /\ pc = "Verify"
    /\ \E k \in pending : k.type = "Local" /\ Accept(k)
    /\ UNCHANGED <<cache, blobs, req, fetched, fe, blob, served>>

(* Fault variant of VerifyKeccak256: the assert_eq! left out.              *)
VerifyKeccak256Unchecked ==
    /\ pc = "Verify"
    /\ \E k \in pending : k.type = "Keccak256" /\ Accept(k)
    /\ UNCHANGED <<cache, blobs, req, fetched, fe, blob, served>>

(* verify(), a Keccak256 entry: assert_eq! of the key and the key of the   *)
(* value's keccak256.                                                      *)
VerifyKeccak256 ==
    /\ pc = "Verify"
    /\ \E k \in pending :
         /\ k.type = "Keccak256"
         /\ IF k.body = Keccak256(cache[k]) THEN Accept(k) ELSE Abort
    /\ UNCHANGED <<cache, blobs, req, fetched, fe, blob, served>>

(* verify(), a GlobalGeneric entry: unimplemented!() panics.               *)
VerifyGlobalGeneric ==
    /\ pc = "Verify"
    /\ \E k \in pending : k.type = "GlobalGeneric"
    /\ Abort
    /\ UNCHANGED <<cache, blobs, req, fetched, fe, blob, served>>

(* verify(), a Sha256 entry: assert_eq! of the key and the key of the      *)
(* value's sha256, byte 0 overwritten by the type.                         *)
VerifySha256 ==
    /\ pc = "Verify"
    /\ \E k \in pending :
         /\ k.type = "Sha256"
         /\ IF k.body = Sha256Body(cache[k]) THEN Accept(k) ELSE Abort
    /\ UNCHANGED <<cache, blobs, req, fetched, fe, blob, served>>

(* verify(), a Blob entry: the sibling Keccak256 entry must exist (else    *)
(* Err) and be 80 bytes (else the slicing panics); the value goes into the *)
(* blob of the commitment it names.  No KZG opening is checked.            *)
VerifyBlob ==
    /\ pc = "Verify"
    /\ \E k \in pending :
         LET sibling == PreimageKey(k.body, "Keccak256")
         IN  /\ k.type = "Blob"
             /\ IF GetExactOk(sibling, "FieldKey")
                THEN LET fk == cache[sibling]
                     IN  IF CopiesWholeValue(blobs[fk.c], fk.index) => cache[k].kind = "Word"
                         THEN /\ Accept(k)
                              /\ blobs' = [blobs EXCEPT ![fk.c] =
                                             StoreBlobValue(@, fk.index, cache[k])]
                         ELSE Abort /\ UNCHANGED blobs
                ELSE Abort /\ UNCHANGED blobs
    /\ UNCHANGED <<cache, req, fetched, fe, blob, served>>

(* verify(), a Precompile entry: the sibling Keccak256 entry holds the     *)
(* call (missing: Err; malformed: from_bytes(..).unwrap() panics) and the  *)
(* value must be its output (assert_eq!).                                  *)
VerifyPrecompile ==
    /\ pc = "Verify"
    /\ \E k \in pending :
         LET sibling == PreimageKey(k.body, "Keccak256")
         IN  /\ k.type = "Precompile"
             /\ IF /\ GetExactOk(sibling, "Call")
                   /\ cache[k] = Execute(cache[sibling].in)
                THEN Accept(k)
                ELSE Abort
    /\ UNCHANGED <<cache, blobs, req, fetched, fe, blob, served>>

(* verify() returns Ok(()) once every entry is visited: the loop over the  *)
(* reconstructed blobs has its KZG call commented out.                     *)
VerifyFinish ==
    /\ pc = "Verify"
    /\ pending = {}
    /\ pc' = "Commitment"
    /\ UNCHANGED <<cache, pending, blobs, req, fetched, fe, blob, served>>

(* get_blob, up to the loop: get_exact of the commitment under the blob    *)
(* hash as a Sha256 key, then assert_eq!(sha256(commitment), blob hash).   *)
GetCommitment ==
    /\ pc = "Commitment"
    /\ req <= Len(BlobRequests)
    /\ LET k == PreimageKey(VersionedHash(BlobRequests[req]).rest, "Sha256")
       IN  IF GetExactOk(k, "Commitment")
                /\ Sha256Digest(cache[k].c) = VersionedHash(BlobRequests[req])
           THEN /\ fetched' = cache[k].c
                /\ pc' = "Elements"
           ELSE pc' = "Failed" /\ UNCHANGED fetched
    /\ fe' = 0
    /\ blob' = [i \in 0..(N - 1) |-> Zero]
    /\ UNCHANGED <<cache, pending, blobs, req, served>>

(* Fault variant of GetFieldElement: the loop bound is inclusive.         *)
GetFieldElementPastEnd ==
    /\ pc = "Elements"
    /\ fe <= N
    /\ LET k == PreimageKey(Keccak256(FieldElementKey(fetched, 0, fe)), "Blob")
       IN  IF GetExactOk(k, "Word")
           THEN /\ blob' = [blob EXCEPT ![fe] = cache[k].w]
                /\ fe' = fe + 1
                /\ UNCHANGED pc
           ELSE pc' = "Failed" /\ UNCHANGED <<blob, fe>>
    /\ UNCHANGED <<cache, pending, blobs, req, fetched, served>>

(* Fault variant of GetFieldElement: the index written into the key is    *)
(* one past the loop index.                                                *)
GetFieldElementNextIndex ==
    /\ pc = "Elements"
    /\ fe < N
    /\ LET k == PreimageKey(Keccak256(FieldElementKey(fetched, 0, fe + 1)), "Blob")
       IN  IF GetExactOk(k, "Word")
           THEN /\ blob' = [blob EXCEPT ![fe] = cache[k].w]
                /\ fe' = fe + 1
                /\ UNCHANGED pc
           ELSE pc' = "Failed" /\ UNCHANGED <<blob, fe>>
    /\ UNCHANGED <<cache, pending, blobs, req, fetched, served>>

(* get_blob, one iteration: get_exact of the 32-byte field element under   *)
(* the Blob key of commitment ++ 24 zero bytes ++ u64 index.               *)
GetFieldElement ==
    /\ pc = "Elements"
    /\ fe < N
    /\ LET k == PreimageKey(Keccak256(FieldElementKey(fetched, 0, fe)), "Blob")
       IN  IF GetExactOk(k, "Word")
           THEN /\ blob' = [blob EXCEPT ![fe] = cache[k].w]
                /\ fe' = fe + 1
                /\ UNCHANGED pc
           ELSE pc' = "Failed" /\ UNCHANGED <<blob, fe>>
    /\ UNCHANGED <<cache, pending, blobs, req, fetched, served>>

(* get_blob returns the blob; get_blobs moves to the next hash.            *)
ReturnBlob ==
    /\ pc = "Elements"
    /\ fe = N
    /\ served' = Append(served, <<BlobRequests[req], blob>>)
    /\ req' = req + 1
    /\ pc' = "Commitment"
    /\ UNCHANGED <<cache, pending, blobs, fetched, fe, blob>>

(* get_blobs returns every blob derivation asked for.                      *)
BlobsServed ==
    /\ pc = "Commitment"
    /\ req > Len(BlobRequests)
    /\ pc' = "Done"
    /\ UNCHANGED <<cache, pending, blobs, req, fetched, fe, blob, served>>

Next ==
    \/ VerifyLocal \/ VerifyKeccak256 \/ VerifyGlobalGeneric \/ VerifySha256
    \/ VerifyBlob \/ VerifyPrecompile \/ VerifyFinish
    \/ GetCommitment \/ GetFieldElement \/ ReturnBlob \/ BlobsServed

Spec == Init /\ [][Next]_vars

-----------------------------------------------------------------------------
(***************************************************************************)
(* Properties.                                                             *)
(***************************************************************************)

(* The keys of a blob's entries: the Blob key of a field element and its   *)
(* Keccak256 sibling, both keyed by keccak256(commitment ++ reserved ++    *)
(* index), and the Sha256 key of the commitment under its versioned hash. *)
BlobKey(c, r, i) == PreimageKey(Keccak256(FieldElementKey(c, r, i)), "Blob")
FieldKeyKey(c, r, i) == PreimageKey(Keccak256(FieldElementKey(c, r, i)), "Keccak256")
CommitmentKey(c) == PreimageKey(VersionedHash(c).rest, "Sha256")

(* The map the host builds for the requested blobs (spec 4.5): every key   *)
(* holds its preimage, and a Blob key the committed word at its index.     *)
Requested == {BlobRequests[j] : j \in 1..Len(BlobRequests)}
HonestKeys ==
    {CommitmentKey(c) : c \in Requested}
      \cup {FieldKeyKey(c, 0, i) : c \in Requested, i \in 0..(N + 1)}
      \cup {BlobKey(c, 0, i) : c \in Requested, i \in 0..(N + 1)}
HonestValue(k) ==
    IF k.type = "Blob" THEN Word(Committed[k.body[2].c][k.body[2].index]) ELSE k.body[2]
HonestCache == [k \in HonestKeys |-> HonestValue(k)]

(* The integrity rule of spec 4.2 and 4.5 for one entry of the map.        *)
IntegrityRule(k, v) ==
    LET sibling == PreimageKey(k.body, "Keccak256")
    IN  CASE k.type = "Keccak256"     -> k.body = Keccak256(v)
          [] k.type = "Sha256"        -> k.body = Sha256Body(v)
          [] k.type = "GlobalGeneric" -> FALSE
          [] k.type = "Blob"          -> GetExactOk(sibling, "FieldKey")
          [] k.type = "Precompile"    -> GetExactOk(sibling, "Call")
                                           /\ v = Execute(cache[sibling].in)
          [] k.type = "Local"         -> TRUE

TypeOK ==
    /\ \A k \in DOMAIN cache : k.type \in KeyTypes /\ cache[k] \in Values
    /\ pending \subseteq DOMAIN cache
    /\ blobs \in [Commitments -> [data : [0..(BlobDataSlots - 1) -> Words],
                                  proofLo : Words,
                                  proofHi : [prefix16 : Values]]]
    /\ pc \in {"Verify", "Commitment", "Elements", "Done", "Failed"}
    /\ req \in 1..(Len(BlobRequests) + 1)
    /\ fetched \in Commitments \cup {None}
    /\ fe \in 0..N
    /\ blob \in [0..(N - 1) -> Words]
    /\ served \in Seq(Commitments \X [0..(N - 1) -> Words])

(* Once verify() has returned Ok, whatever order the HashMap walk took,    *)
(* every entry of the map satisfies the integrity rule of its key type:    *)
(* main.rs reads nothing through the oracle before that.                   *)
VerifiedCacheIntegrity ==
    pc \in {"Commitment", "Elements", "Done"}
        => \A k \in DOMAIN cache : IntegrityRule(k, cache[k])

(* get_blobs returns one blob per blob hash, in the order asked, and the   *)
(* blob for a hash holds at each index i the word the oracle returns under *)
(* the Blob key of commitment ++ 0 ++ i, for the commitment whose sha256   *)
(* get_blob asserted to be that hash: the commitment and the field-element *)
(* key are rebuilt for every hash and every index (blob_provider.rs 60-101).*)
ServedBlobsReadFromOracle ==
    \A j \in 1..Len(served) :
        /\ served[j][1] = BlobRequests[j]
        /\ \A i \in 0..(N - 1) : served[j][2][i] = cache[BlobKey(BlobRequests[j], 0, i)].w

(* Spec 4.6: under ZKVM a blob get_blob returns for a commitment is the    *)
(* blob the commitment commits to, verify() having checked the KZG proof.  *)
BlobsMatchCommitment ==
    \A j \in 1..Len(served) :
        served[j][2] = [i \in 0..(N - 1) |-> Committed[served[j][1]][i]]

(* Spec 4.5/4.6: on the map the host builds for the requested blobs,       *)
(* verify() succeeds and get_blob returns every blob.                      *)
HonestBlobsRetrievable == cache = HonestCache => pc # "Failed"

(* Spec 4.6: the blob get_blob returns is the blob verify() reconstructed *)
(* for that commitment, element by element (the blob a KZG check would    *)
(* have covered).                                                          *)
VerifiedBlobIsServedBlob ==
    \A j \in 1..Len(served) :
        \A i \in 0..(N - 1) :
            /\ i < BlobDataSlots
            /\ blobs[served[j][1]].data[i] = served[j][2][i]

=============================================================================
