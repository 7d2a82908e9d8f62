SPECIFICATION Spec
CONSTANTS
    k1 = k1
    k2 = k2
    bar = bar
    NoCommitment = NoCommitment
    NoTarget = NoTarget
    NoM6id = NoM6id
    ForeignBank = 99
    Payloads <- PaidPayloads
    StartHeight = 1
    MaxHeight = 5
    MaxReorg = 1
    LAMPORTS_PER_SAT = 10
    MIN_PAYOUT_SATS = 1
    MIN_FEE_SATS = 1
    MAX_BUNDLE_RECORDS = 1
    SKIP_GRACE_SLOTS = 1
    DepositConfirmations = 1
    DepositLag = 1
    SkipBlocks = 1
    VaultSupply = 200
    FloatLamports = 20
    Keys = {k1, k2}
    Barred = {bar}
    M6ids = {"m1", "m2"}
    RENT_MIN = 15
    RECORD_RENT = 5
    SettleDepth = 9
    RootDepth = 1
    BLOCK_RECORD_STRIDE = 4
    BLOCK_RECORD_ENTRIES = 2
    GenesisBalance <- FloatHolder
    WithdrawAmounts = {20}
    Fees = {0, 1}
    GiftAmounts = {20}
    SIGNATURE_FEE = 5
    MaxPart = 1
    MaxWithdrawals = 2
    MaxGifts = 20
    MaxFees = 0
    SlotWindow = 2
INVARIANTS
    HoldersBacked
    BundlesPartition
    UnpaidRecordsOpen
    PaidMeansPaid
CHECK_DEADLOCK FALSE
