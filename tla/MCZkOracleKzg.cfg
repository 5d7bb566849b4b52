\* A prover's map with one field element replaced; sha256(commitment) starting with 0x01.
CONSTANTS
    c1 = c1
    w1 = w1
    w2 = w2
    x1 = x1
    Zero = Zero
    None = None
    Commitments = {c1}
    Words = {Zero, w1, w2}
    Calls = {x1}
    FieldElementsPerBlob = 3
    BlobDataSlots = 2
    Committed <- MCCommitted
    ShaTop <- MCShaTopKzg
    Caches <- MCCachesTampered
    BlobRequests <- MCBlobRequests
SPECIFICATION Spec
INVARIANT BlobsMatchCommitment
CHECK_DEADLOCK FALSE
