CONSTANTS
    a1 = a1
    a2 = a2
    Accounts = {a1, a2}
    None = None
    NoFork = NoFork
    Undecodable = Undecodable
    BlockTime = 1
    GasWord = 8
    MaxBlocks = 2
    Payloads <- MCPayloads
    RollupConfigs <- MCRollupConfigs
    GenesisHeader <- MCGenesisHeader

SPECIFICATION Spec

INVARIANT TypeOK
INVARIANT GasWithinLimit
INVARIANT ReceiptsMatchBlock
INVARIANT DepositNonceIsPreState
PROPERTY SealedBlockExtendsParent


\* The client is a one-shot program: it stops after an error or after its
\* last block.
CHECK_DEADLOCK FALSE
