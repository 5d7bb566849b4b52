\* The honest map, Blob.data holding fewer slots than a blob has elements.
CONSTANTS
    c1 = c1
    w1 = w1
    w2 = w2
    x1 = x1
    Zero = Zero
    None = None
    Commitments = {c1}
    Words = {Zero, w1, w2}
    Calls = {x1}
    FieldElementsPerBlob = 3
    BlobDataSlots = 2
    Committed <- MCCommitted
    ShaTop <- MCShaTopKzg
    Caches <- MCCachesHonest
    BlobRequests <- MCBlobRequests
SPECIFICATION Spec
INVARIANT VerifiedBlobIsServedBlob
CHECK_DEADLOCK FALSE
