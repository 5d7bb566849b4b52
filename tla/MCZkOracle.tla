----------------------------- MODULE MCZkOracle -----------------------------
(***************************************************************************)
(* ZkOracle for TLC: one commitment c1, asked for once (twice in the main  *)
(* run, as when two transactions of a block carry the same blob), blobs   *)
(* of three field elements (FIELD_ELEMENTS_PER_BLOB scaled down from 4096, *)
(* the Blob.data slots from 128 to 2, keeping fewer slots than elements), *)
(* and the maps a prover can hand over: the honest one and one variation  *)
(* of it per check verify() makes or skips.                                *)
(***************************************************************************)
EXTENDS ZkOracle, TLC

CONSTANTS c1, w1, w2, x1

MCCommitted == [c \in Commitments |-> 0 :> w1 @@ 1 :> Zero @@ 2 :> w2 @@ 3 :> w1 @@ 4 :> w2]
MCBlobRequests == <<c1>>
MCBlobRequestsTwice == <<c1, c1>>   \* the same blob carried by two transactions of a block
MCShaTopKzg == [c \in Commitments |-> 1]      \* sha256(commitment) happens to start with 0x01
MCShaTopOther == [c \in Commitments |-> 90]   \* the usual case

Without(f, ks) == [k \in DOMAIN f \ ks |-> f[k]]

(* One variation per check of verify() and get_blob.                       *)
Tampered == [HonestCache EXCEPT ![BlobKey(c1, 0, 0)] = Word(w2)]
Aliased == HonestCache @@ (FieldKeyKey(c1, 1, 1) :> FieldElementKey(c1, 1, 1))
                       @@ (BlobKey(c1, 1, 1) :> Word(w2))
MissingSibling == Without(HonestCache, {FieldKeyKey(c1, 0, 0)})
MissingElement == Without(HonestCache, {FieldKeyKey(c1, 0, 2), BlobKey(c1, 0, 2)})
MissingCommitment == Without(HonestCache, {CommitmentKey(c1)})
BadKeccak == HonestCache @@ (PreimageKey(Keccak256(Word(w1)), "Keccak256") :> Word(w2))
BadSha == HonestCache @@ (PreimageKey(Sha256Body(Word(w1)), "Sha256") :> Word(w2))
Generic == HonestCache @@ (PreimageKey(<<"generic", x1>>, "GlobalGeneric") :> Word(w1))
BadBlobValue == [HonestCache EXCEPT ![BlobKey(c1, 0, 0)] = CommitmentBytes(c1)]
WordSibling == HonestCache @@ (PreimageKey(Keccak256(Word(w1)), "Keccak256") :> Word(w1))
                           @@ (PreimageKey(Keccak256(Word(w1)), "Blob") :> Word(w1))
WithCall(out) == HonestCache
                   @@ (PreimageKey(Keccak256(HintData(x1)), "Keccak256") :> HintData(x1))
                   @@ (PreimageKey(Keccak256(HintData(x1)), "Precompile") :> out)
MissingCall == HonestCache @@ (PreimageKey(Keccak256(HintData(x1)), "Precompile")
                                   :> PrecompileOutput(x1))
WithLocal == HonestCache @@ (PreimageKey(<<"local", 1>>, "Local") :> Word(w1))

MCCaches ==
    {HonestCache, Tampered, Aliased, MissingSibling, MissingElement, MissingCommitment,
     BadKeccak, BadSha, Generic, BadBlobValue, WordSibling,
     WithCall(PrecompileOutput(x1)), WithCall(Word(w1)), MissingCall, WithLocal}
MCCachesHonest == {HonestCache}
MCCachesTampered == {Tampered}
MCCachesAliased == {Aliased}
=============================================================================
