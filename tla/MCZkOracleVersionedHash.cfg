\* The honest map, sha256(commitment) not starting with 0x01 (the usual case).
CONSTANTS
    c1 = c1
    w1 = w1
    w2 = w2
    x1 = x1
    Zero = Zero
    None = None
    Commitments = {c1}
    Words = {Zero, w1, w2}
    Calls = {x1}
    FieldElementsPerBlob = 3
    BlobDataSlots = 2
    Committed <- MCCommitted
    ShaTop <- MCShaTopOther
    Caches <- MCCachesHonest
    BlobRequests <- MCBlobRequests
SPECIFICATION Spec
INVARIANT HonestBlobsRetrievable
CHECK_DEADLOCK FALSE
