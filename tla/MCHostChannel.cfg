\* Three preimage requests, online and offline hosts, every failure the host meets.
CONSTANTS
    k1 = k1
    k2 = k2
    None = None
    Keys <- MCKeys
    Requests <- MCRequests
SPECIFICATION Spec
INVARIANT TypeOK
INVARIANT HostOkOnlyIfClaimValidated
PROPERTY EverythingTerminates
\* Every run ends: the host has returned and the client and tasks have exited.
CHECK_DEADLOCK FALSE
