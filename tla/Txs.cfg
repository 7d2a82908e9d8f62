SPECIFICATION MCSpec
CONSTANTS
    NoBundle <- NoM6
    MaxBlocks = 3
    MaxDrop = 1
    LAMPORTS_PER_SAT = 10
    MIN_PAYOUT_SATS = 1
    MIN_FEE_SATS = 1
    MAX_BUNDLE_RECORDS = 2
    SKIP_GRACE_SLOTS = 1
    DepositConfirmations = 2
    DepositLag = 1
    SkipBlocks = 1
    VaultSupply = 0
    FloatLamports = 0
    Payouts = {1, 2}
    FAILURE_CONFIRMATIONS = 2
    RootDepth = 1
    MaxRecords = 2
    MaxBanks = 7
    MaxRollbacks = 0
    MaxFaults = 1
    NoCommitment = NoCommitment
    Payloads <- MCTxPayloads
    StartHeight = 1
    MaxHeight = 4
    MaxReorg = 1
    NoM6id = NoM6id
    TxPayloads <- MCTxPayloads
    RecordedBlocks = {"b1"}
    StrangeBlocks = {"b2"}
    TxConfirmations = 2
    TxDepth = 0
    LEADER_MARGIN = 1
    TxSkipBlocks = 1
    MAX_PART = 2
    MaxTxHeight = 4
    MaxTxSlots = 2
    MaxTxCrashes = 1
INVARIANTS
    MemorySound
    NeverStops
    ActsOnOwnBlock
    ReplaySame
    BuiltLands
PROPERTIES
    PaidRecordsClose
CHECK_DEADLOCK FALSE
