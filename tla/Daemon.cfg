SPECIFICATION Spec
CONSTANTS
    NoCommitment = NoCommitment
    Payloads <- MCPayloads
    StartHeight = 1
    MaxHeight = 4
    MaxReorg = 1
    Confirmations = 0
    SkipBlocks = 2
    HeldPairs = {"held"}
    PAGE_BLOCKS = 1
    SETTLE_WALK_PAGES = 1
    SETTLE_STEPS = 2
    MaxSettleFaults = 1
    Parent <- MCParent
    FeeOf <- MCFeeOf
    TipHeight <- MCTipHeight
    Rounds = {"round"}
    Templates = {"template"}
    METER_SLOTS = 2
    METER_BACKLOG = 3
    BidSpan = 1
    MaxSwitches = 1
    MaxFaults = 1
    Foreign = {f}
    DepositLag = 1
    BidConfirmations = 1
    BidSkipBlocks = 3
    MAX_PAIRS_PER_HEIGHT = 2
    VALIDATOR_PAIRS_PER_HEIGHT = 1
    MAX_UNCHECKED_PER_HEIGHT = 1
    BLOCK_ENTRIES = 2
    MaxBidHeight = 3
    MaxOffers = 2
    MaxDisturbed = 1
    MaxCrashes = 1
    Users = {u1, u2}
    Vault = Vault
    Identity = Identity
    Vote = Vote
    Stake = Stake
    Program = Program
    Params = Params
    BlockRecord = BlockRecord
    Loaded = Loaded
    NoKey = NoKey
    VaultSupply = 3
    StartBalance = 1
    BOOTSTRAP_LAMPORTS = 1
    MaxSlots = 2
    MaxMigrations = 2
    LAMPORTS_PER_SAT = 2
    MIN_PAYOUT_SATS = 1
    MIN_FEE_SATS = 1
    MAX_BUNDLE_RECORDS = 2
    NoM6id = NoM6id
    BookConfirmations = 1
    BookSupply = 10
    BookFloat = 2
    BOOK_READS = 2
    PEG_PAGE_BLOCKS = 2
    DepositSats = 2
    MaxBookHeight = 4
    MaxBookDeposits = 2
    MaxRecords = 2
    MaxGifts = 1
    FeeRates = {1, 2}
    Voters = {v1, v2}
    Unset = Unset
    SLOTS_PER_EPOCH = 2
    MaxEpochs = 3
    MaxRebases = 2
    MaxLamports = 1
INVARIANTS
    BooksTrue
    BidsOnOneBranch
    HeadersExact
    BidsCanWin
PROPERTIES
    CountsOneBranch
    ClaimsCarry
    NoUserStopsIt
    NoSeam
    LoopsDeliver
CHECK_DEADLOCK FALSE
