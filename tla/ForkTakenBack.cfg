SPECIFICATION Spec

CONSTANTS
    g = g
    a1 = a1
    a2 = a2
    b1 = b1
    None = None
    NoCommitment = NoCommitment
    Payloads <- SplitPayloads
    Banks <- MCBanks
    Ancestors <- SplitAncestors
    SlotOf <- MCSlotOf
    HashRank <- MCHashRank
    StartHeight = 1
    MaxHeight = 6
    MaxReorg = 0
    RootDepth = 1
    FallbackBlocks = 2
    Lag = 9
    ANCHOR_WINDOW = 9
    BLOCK_RECORD_STRIDE = 1
    BLOCK_RECORD_ENTRIES = 9
    GenesisBank = g
    StartBank = a1
    LateBanks = {b1}
    CreditDepths = {0}
    PartDepths = {}
    MaxArchives = 1
    MaxDrops = 1
    MaxStops = 0
    MaxFailedStores = 0

INVARIANTS
    TakenBackOnlyAfterStake

CHECK_DEADLOCK FALSE
