SPECIFICATION FairSpec

CONSTANTS
    g = g
    a1 = a1
    a2 = a2
    b1 = b1
    None = None
    NoCommitment = NoCommitment
    Payloads <- OnePayloads
    Banks <- PairBanks
    Ancestors <- PairAncestors
    SlotOf <- PairSlotOf
    HashRank <- PairSlotOf
    StartHeight = 1
    MaxHeight = 4
    MaxReorg = 0
    RootDepth = 1
    FallbackBlocks = 2
    Lag = 9
    ANCHOR_WINDOW = 9
    BLOCK_RECORD_STRIDE = 1
    BLOCK_RECORD_ENTRIES = 9
    GenesisBank = g
    StartBank = g
    LateBanks = {b1}
    CreditDepths = {0}
    PartDepths = {}
    MaxArchives = 1
    MaxDrops = 1
    MaxStops = 1
    MaxFailedStores = 1

PROPERTIES
    RootChangesHands

CHECK_DEADLOCK FALSE
