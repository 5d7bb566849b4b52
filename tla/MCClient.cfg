\* Agreed head 1 with root r1, blocks 2 and 3 derivable, claims on blocks 0-4.
CONSTANTS
    r0 = r0
    r1 = r1
    r2 = r2
    r3 = r3
    None = None
    Agreed = 1
    AgreedRoot = r1
    Chain <- MCChain
    ClaimBlocks <- MCClaimBlocks
    Claims <- MCClaims
SPECIFICATION Spec
INVARIANT HeadInvariant
PROPERTY ClaimCheckUnlessForged
\* A run ends with the program's exit, and waits when the data ends early.
CHECK_DEADLOCK FALSE
