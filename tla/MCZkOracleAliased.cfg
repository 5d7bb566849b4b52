\* A map with a second Blob entry for element 1 under non-zero reserved bytes; Blob.data widened to every element.
CONSTANTS
    c1 = c1
    w1 = w1
    w2 = w2
    x1 = x1
    Zero = Zero
    None = None
    Commitments = {c1}
    Words = {Zero, w1, w2}
    Calls = {x1}
    FieldElementsPerBlob = 3
    BlobDataSlots = 3
    Committed <- MCCommitted
    ShaTop <- MCShaTopKzg
    Caches <- MCCachesAliased
    BlobRequests <- MCBlobRequests
SPECIFICATION Spec
INVARIANT VerifiedBlobIsServedBlob
CHECK_DEADLOCK FALSE
