\* Three preimage requests; does the host return only after the client has stopped?
CONSTANTS
    k1 = k1
    k2 = k2
    None = None
    Keys <- MCKeys
    Requests <- MCRequests
SPECIFICATION Spec
INVARIANT HostOutlivesClient
CHECK_DEADLOCK FALSE
