\* The sync loop over eight L2 blocks, with up to three failed RPC calls.
CONSTANTS
    Start = 0
    Target = 8
    MaxFailures = 3
SPECIFICATION Spec
INVARIANT TypeOK
INVARIANT SafeHeadValidated
\* Once the L1 data is used up the loop idles for ever: no step changes state.
CHECK_DEADLOCK FALSE
