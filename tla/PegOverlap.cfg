SPECIFICATION Spec
CONSTANTS
    NoBundle <- NoM6
    NoM6id <- NoM6
    MaxBlocks = 3
    MaxDrop = 1
    LAMPORTS_PER_SAT = 10
    MIN_PAYOUT_SATS = 1
    MIN_FEE_SATS = 1
    MAX_BUNDLE_RECORDS = 2
    SKIP_GRACE_SLOTS = 1
    DepositConfirmations = 2
    DepositLag = 1
    SkipBlocks = 1
    VaultSupply = 0
    FloatLamports = 0
    Payouts = {1}
    FAILURE_CONFIRMATIONS = 2
    RootDepth = 1
    MaxRecords = 2
    MaxBanks = 5
    MaxRollbacks = 1
    MaxFaults = 1
INVARIANTS
    PayableDisjoint
CHECK_DEADLOCK FALSE
