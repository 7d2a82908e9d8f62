SPECIFICATION Spec

CONSTANTS
    g = g
    a1 = a1
    a2 = a2
    b1 = b1
    None = None
    NoCommitment = NoCommitment
    Payloads <- MCPayloads
    Banks <- MCBanks
    Ancestors <- MCAncestors
    SlotOf <- MCSlotOf
    HashRank <- MCHashRank
    StartHeight = 1
    MaxHeight = 4
    MaxReorg = 0
    RootDepth = 1
    FallbackBlocks = 1
    Lag = 9
    ANCHOR_WINDOW = 9
    BLOCK_RECORD_STRIDE = 1
    BLOCK_RECORD_ENTRIES = 9
    GenesisBank = g
    StartBank = g
    LateBanks = {b1}
    CreditDepths = {0}
    PartDepths = {}
    MaxArchives = 3
    MaxDrops = 1
    MaxStops = 2
    MaxFailedStores = 1

INVARIANTS
    TypeOK
    RootsOnlyLeader
    FinalSurvives
    FinalIsAnchor
    OneRootedBranch

PROPERTIES
    RollbackHappens

CHECK_DEADLOCK FALSE
