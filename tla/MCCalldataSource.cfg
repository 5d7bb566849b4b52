\* Every block of up to two transactions, two failed loads at most.
CONSTANTS
    Inbox = Inbox
    Batcher = Batcher
    Other = Other
    Create = Create
    Unrecoverable = Unrecoverable
    d1 = d1
    d2 = d2
    d3 = d3
    BatchInbox = Inbox
    Signer = Batcher
    MaxFetchFailures = 2
    Blocks <- MCBlocks
SPECIFICATION Spec
INVARIANT TypeOK
INVARIANT FramesExactlyOnce
PROPERTY StreamSpec
