\* Every variation of the prover's map, sha256(commitment) starting with 0x01,
\* and the blob c1 asked for by two transactions of the block.
CONSTANTS
    c1 = c1
    w1 = w1
    w2 = w2
    x1 = x1
    Zero = Zero
    None = None
    Commitments = {c1}
    Words = {Zero, w1, w2}
    Calls = {x1}
    FieldElementsPerBlob = 3
    BlobDataSlots = 2
    Committed <- MCCommitted
    ShaTop <- MCShaTopKzg
    Caches <- MCCaches
    BlobRequests <- MCBlobRequestsTwice
SPECIFICATION Spec
INVARIANT TypeOK
INVARIANT VerifiedCacheIntegrity
INVARIANT ServedBlobsReadFromOracle
\* The ZKVM client runs once and stops: after Done or Failed nothing is enabled.
CHECK_DEADLOCK FALSE
