SPECIFICATION Spec

CONSTANTS
    g = g
    a1 = a1
    a2 = a2
    b1 = b1
    None = None
    NoCommitment = NoCommitment
    Payloads <- WonPayloads
    Banks <- MCBanks
    Ancestors <- MCAncestors
    SlotOf <- MCSlotOf
    HashRank <- MCHashRank
    StartHeight = 1
    MaxHeight = 5
    MaxReorg = 1
    RootDepth = 1
    FallbackBlocks = 3
    Lag = 2
    ANCHOR_WINDOW = 9
    BLOCK_RECORD_STRIDE = 1
    BLOCK_RECORD_ENTRIES = 9
    GenesisBank = g
    StartBank = g
    LateBanks = {}
    CreditDepths = {0}
    PartDepths = {0}
    MaxArchives = 1
    MaxDrops = 1
    MaxStops = 0
    MaxFailedStores = 0

INVARIANTS
    RepeatsDoNotStop
    FinalKeepsDeposits

PROPERTIES
    OutStaysOut

CHECK_DEADLOCK FALSE
