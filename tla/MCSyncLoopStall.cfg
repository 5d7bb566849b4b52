\* The sync loop over six L2 blocks, with a single failed RPC call allowed.
CONSTANTS
    Start = 0
    Target = 6
    MaxFailures = 1
SPECIFICATION Spec
PROPERTY SyncReachesTarget
CHECK_DEADLOCK FALSE
