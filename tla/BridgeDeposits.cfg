SPECIFICATION Spec
CONSTANTS
    k1 = k1
    k2 = k2
    bar = bar
    NoCommitment = NoCommitment
    NoTarget = NoTarget
    NoM6id = NoM6id
    ForeignBank = 99
    Payloads <- DepositPayloads
    StartHeight = 1
    MaxHeight = 4
    MaxReorg = 4
    LAMPORTS_PER_SAT = 10
    MIN_PAYOUT_SATS = 1
    MIN_FEE_SATS = 1
    MAX_BUNDLE_RECORDS = 1
    SKIP_GRACE_SLOTS = 1
    DepositConfirmations = 1
    DepositLag = 1
    SkipBlocks = 1
    VaultSupply = 200
    FloatLamports = 0
    Keys = {k1, k2}
    Barred = {bar}
    M6ids = {}
    RENT_MIN = 15
    RECORD_RENT = 5
    SettleDepth = 1
    RootDepth = 1
    BLOCK_RECORD_STRIDE = 1
    BLOCK_RECORD_ENTRIES = 2
    GenesisBalance <- NoBalance
    WithdrawAmounts = {}
    Fees = {}
    GiftAmounts = {5}
    SIGNATURE_FEE = 5
    MaxPart = 3
    MaxWithdrawals = 0
    MaxGifts = 5
    MaxFees = 0
    SlotWindow = 0
INVARIANTS
    ExactlyOnce
    Books
    PegBacked
PROPERTY
    StrandedOnlyIfUnable
CHECK_DEADLOCK FALSE
