---------------------------- MODULE BooksReport ----------------------------
(***************************************************************************)
(* The books of the peg: the report that reads the bank and eCash call     *)
(* after call while both go on (src/daemon/src/books.rs with the readers   *)
(* of peg.rs, m6.rs and enforcer.rs), and the command that gifts the vault *)
(* the backing of the genesis float (src/daemon/src/main.rs).  The bank    *)
(* moves as the bridge program lets it, one deposit in a credit tx.        *)
(*                                                                         *)
(* The M6ID of a bundle is its content: the first record, the payouts and  *)
(* the fee.  A payout pays the script of its record, so it is the record's *)
(* sats.                                                                   *)
(***************************************************************************)
EXTENDS ECash, BridgeUnits, FiniteSetsExt, SequencesExt

CONSTANTS
    BookConfirmations, BookSupply, BookFloat,
    BOOK_READS,       \* the tries of one report
    PEG_PAGE_BLOCKS,  \* the blocks of one peg data call
    DepositSats,      \* the sats of a deposit
    MaxBookHeight,    \* bound: the highest block in this part
    MaxBookDeposits,  \* bound: the deposits of the active chain
    MaxRecords,       \* bound: the withdrawals
    MaxGifts          \* bound: the lamports of gifts from elsewhere

VARIABLES
    bank,   \* config, vault and records of the bridge; the gifts are history
    report, \* where the report is, and what it read
    giver   \* where back-float is, and what it read

bookVars == <<bank, report, giver>>

BookProgram == INSTANCE BridgeProgram WITH
    SKIP_GRACE_SLOTS <- 0, DepositLag <- 0, SkipBlocks <- 0,
    DepositConfirmations <- BookConfirmations,
    VaultSupply <- BookSupply, FloatLamports <- BookFloat

BookInit ==
    /\ bank = [config |-> BookProgram!GenesisConfig(StartHeight), vault |-> BookSupply,
               records |-> {}, gifts |-> 0]
    /\ report = [at |-> "idle"] /\ giver = [at |-> "idle"]

SatsOf(items) == FoldSeq(LAMBDA sats, sum : sats + sum, 0, items)

-----------------------------------------------------------------------------
(* m6.rs, bundle_of *)

ByIndex(records) == SetToSortSeq(records, LAMBDA r, s : r.index < s.index)

(* The blinded M6 of records: output 0 has the fee, the lock time the first *)
(* index, so bundles with equal payouts get two M6IDs.                      *)
BundleOf(records) ==
    LET ordered == ByIndex(records)
    IN [first |-> ordered[1].index,
        payouts |-> [n \in DOMAIN ordered |-> ordered[n].payout],
        fee |-> SatsOf([n \in DOMAIN ordered |-> ordered[n].fee])]

(* What eCash takes out of the treasury for a bundle. *)
Spends(m6id) == SatsOf(m6id.payouts) + m6id.fee

-----------------------------------------------------------------------------
(* eCash *)

ChainSats(chain) ==
    SatsOf([h \in DOMAIN chain |-> SatsOf(chain[h].deposits)])

PaidOn(chain) == UNION {chain[h].paid : h \in DOMAIN chain}

(* get_ctip: the treasury of the sidechain on the active chain. *)
Treasury(chain) ==
    ChainSats(chain) - MapThenSumSet(Spends, PaidOn(chain))

(* eCash pays the sealed bundle once.  Its votes take longer than a report, *)
(* so a bundle that was sealed after the report read the config waits.      *)
MayPay(chain) ==
    IF /\ BookProgram!LiveBundle(bank.config)
       /\ bank.config.bundle_m6id \notin PaidOn(chain)
       /\ report.at \in {"idle", "done"}
            \/ report.config.bundle_m6id = bank.config.bundle_m6id
    THEN {{}, {bank.config.bundle_m6id}} ELSE {{}}

NextBooks(chain) ==
    {Append(chain, Block(chain, [deposits |-> d, commitment |-> NoCommitment, paid |-> p])) :
        d \in {s \in {<<>>, <<DepositSats, DepositSats>>} :
                 NextSequence(chain) + Len(s) <= MaxBookDeposits},
        p \in MayPay(chain)}

MineBooks ==
    /\ Len(active) < MaxBookHeight
    /\ active' \in NextBooks(active)
    /\ peak' = Len(active')
    /\ UNCHANGED bookVars

(* The other branch of a reorg is longer, so a tip never comes back.       *)
ReplaceBooks ==
    /\ StartHeight < Len(active) /\ Len(active) < MaxBookHeight
    /\ active' \in UNION {NextBooks(chain) : chain \in NextBooks(PrevHash(active))}
    /\ ~ IsPrefixOf(active, active')
    /\ peak' = Len(active')
    /\ UNCHANGED bookVars

-----------------------------------------------------------------------------
(* The bank *)

bookWorld == <<active, peak, report, giver>>

(* The next deposit of the next deep block: it reaches its owner, or its    *)
(* lamports stay stranded.                                                  *)
CreditNext ==
    LET cfg == bank.config
        height == cfg.credited_height + 1
        block == active[height]
        first == cfg.credit_index
        numbers == IF first < Len(block.deposits)
                   THEN <<SequenceNumber(block, first + 1)>> ELSE <<>>
        lamports == IF numbers = <<>> THEN 0
                    ELSE block.deposits[first + 1] * LAMPORTS_PER_SAT
        hash == HashAt(active, height)
    IN /\ IsDeep(active, height, BookConfirmations)
       /\ BookProgram!CanCredit(cfg, height, hash, PrevHash(hash), first,
                                Len(block.deposits), numbers)
       /\ \E stranded \in {0, lamports} :
            LET credited == lamports - stranded
            IN bank' = [bank EXCEPT
                 !.config = BookProgram!AfterCredit(cfg, height, hash, first,
                                Len(block.deposits), numbers, credited, stranded),
                 !.vault = @ - credited]
       /\ UNCHANGED bookWorld

WithdrawSome(payout, fee) ==
    LET lamports == (payout + fee) * LAMPORTS_PER_SAT
    IN /\ bank.config.withdrawal_count < MaxRecords
       /\ BookProgram!CanWithdraw(bank.config, bank.vault, lamports, fee)
       /\ bank' = [bank EXCEPT
            !.config = BookProgram!AfterWithdraw(@, lamports),
            !.vault = @ + lamports,
            !.records = @ \cup {[index |-> bank.config.withdrawal_count,
                                 burned |-> lamports,
                                 payout |-> BookProgram!PayoutSats(lamports, fee),
                                 fee |-> fee]}]
       /\ UNCHANGED bookWorld

SealThrough(through) ==
    LET sealed == {r \in bank.records : r.index \in bank.config.paid_through..through - 1}
    IN /\ BookProgram!CanSeal(bank.config, through)
       /\ bank' = [bank EXCEPT !.config = BookProgram!AfterSeal(@, through, BundleOf(sealed))]
       /\ UNCHANGED bookWorld

MarkPaidBooks ==
    LET cfg == bank.config
        deep == {h \in DOMAIN active : IsDeep(active, h, BookConfirmations)}
    IN /\ BookProgram!CanMarkPaid(cfg, cfg.bundled_through, cfg.bundle_m6id,
                \E h \in deep : cfg.bundle_m6id \in active[h].paid)
       /\ bank' = [bank EXCEPT !.config = BookProgram!AfterMarkPaid(@, cfg.bundled_through)]
       /\ UNCHANGED bookWorld

CloseOne ==
    \E r \in bank.records :
        /\ BookProgram!CanClose(bank.config, r.index)
        /\ bank' = [bank EXCEPT !.records = @ \ {r}]
        /\ UNCHANGED bookWorld

Gifted(lamports) ==
    [bank EXCEPT !.vault = @ + lamports, !.gifts = @ + lamports]

Gift ==
    /\ bank.gifts < MaxGifts
    /\ bank' = Gifted(1)
    /\ UNCHANGED bookWorld

-----------------------------------------------------------------------------
(* The equations (Books) *)

(* vault + pegged - supply, or none below the supply. *)
GiftsOf(cfg, vault) ==
    IF vault + cfg.pegged_lamports >= BookSupply
    THEN {vault + cfg.pegged_lamports - BookSupply} ELSE {}

TreasuryHolds(books) ==
    books.treasury * LAMPORTS_PER_SAT
        = books.pegged + books.stranded + books.awaiting + books.pending

(* The deposits after the credited block, less the parts of the next one.  *)
Awaiting(blocks, cfg) ==
    LET skip(block) == IF block.height = cfg.credited_height + 1 THEN cfg.credit_index ELSE 0
    IN SatsOf([n \in DOMAIN blocks |->
           IF blocks[n].height <= cfg.credited_height THEN 0
           ELSE SatsOf(SubSeq(blocks[n].deposits, 1 + skip(blocks[n]),
                              Len(blocks[n].deposits)))]) * LAMPORTS_PER_SAT

(* The records that eCash did not pay: the live bundle is paid as soon as   *)
(* eCash pays it, before its bundle_paid.                                   *)
Pending(records, cfg, livePaid) ==
    LET open == {r \in records :
            /\ r.index >= cfg.paid_through
            /\ ~ (livePaid /\ BookProgram!LiveBundle(cfg)
                    /\ r.index \in cfg.paid_through..cfg.bundled_through - 1)}
    IN MapThenSumSet(LAMBDA r : r.burned, open)

-----------------------------------------------------------------------------
(* The report (read) *)

reportOnly == <<active, peak, bank, giver>>

(* config_and_vault: one call, one bank. *)
ReadBank ==
    /\ report.at = "idle"
    /\ report' = [at |-> "records", config |-> bank.config, vault |-> bank.vault,
                  gifts |-> bank.gifts]
    /\ UNCHANGED reportOnly

RecordsIn(first, end) == {r \in bank.records : r.index \in first..end - 1}

(* read_records: a closed record is skipped. *)
ReadRecords ==
    /\ report.at = "records"
    /\ report' = [report EXCEPT !.at = "live"] @@
           [records |-> RecordsIn(report.config.paid_through, report.config.withdrawal_count)]
    /\ UNCHANGED reportOnly

(* live_records: a live record that is closed by now ends the report.      *)
ReadLive ==
    LET cfg == report.config
        live == RecordsIn(cfg.paid_through, cfg.bundled_through)
        complete == {r.index : r \in live} = cfg.paid_through..cfg.bundled_through - 1
    IN /\ report.at = "live"
       /\ report' = IF ~ BookProgram!LiveBundle(cfg)
                    THEN [report EXCEPT !.at = "tip"] @@ [m6id |-> NoM6id, tries |-> 0]
                    ELSE IF complete
                    THEN [report EXCEPT !.at = "tip"] @@ [m6id |-> BundleOf(live), tries |-> 0]
                    ELSE [at |-> "done"]
       /\ UNCHANGED reportOnly

ReadBookTip ==
    /\ report.at = "tip"
    /\ report' = [report EXCEPT !.at = "ctip", !.tries = @ + 1] @@ [tip |-> active]
    /\ UNCHANGED reportOnly

(* get_ctip names no block: the answer is of the tip of the moment.        *)
ReadCtip ==
    /\ report.at = "ctip"
    /\ report' = [report EXCEPT !.at = "events"] @@ [ctip |-> Treasury(active)]
    /\ UNCHANGED reportOnly

ConnectEvent(chain, height) ==
    [height |-> height, deposits |-> chain[height].deposits, paid |-> chain[height].paid]

(* One call: the blocks after a block up to another one. *)
TwoWayPegData(chain, start, end) ==
    [n \in 1..end - start |-> ConnectEvent(chain, start + n)]

(* The blocks that header_at finds, a page apart, from the tip down. *)
PageEnds(tip, start) ==
    {start} \cup {h \in start..Len(tip) : (Len(tip) - h) % PEG_PAGE_BLOCKS = 0}

(* Each page is named by the hashes around it, so all of them are of the   *)
(* chain of the tip.                                                       *)
PegDataFrom(tip, start) ==
    LET ends == SetToSortSeq(PageEnds(tip, start), <)
    IN FlattenSeq([n \in 1..Len(ends) - 1 |-> TwoWayPegData(tip, ends[n], ends[n + 1])])

(* bundle_status_at: the M3 comes after the seal, so the read starts there. *)
PaidAt(tip, sealed, m6id) ==
    LET blocks == PegDataFrom(tip, Min({sealed, Len(tip)}))
    IN \E n \in DOMAIN blocks : m6id \in blocks[n].paid

BugTipStays(tip) == TRUE

TipStays(tip) == active = tip

(* Books: what the report is made of. *)
BooksOf(read, blocks, livePaid) ==
    [treasury |-> read.ctip, vault |-> read.vault,
     pegged |-> read.config.pegged_lamports, stranded |-> read.config.stranded_lamports,
     awaiting |-> Awaiting(blocks, read.config),
     pending |-> Pending(read.records, read.config, livePaid)]

(* The peg data, the status and the second tip: a tip that moved starts    *)
(* the reads again, up to a limit.                                         *)
FinishReport ==
    LET cfg == report.config
        blocks == PegDataFrom(report.tip, Min({cfg.credited_height, Len(report.tip)}))
        livePaid == report.m6id # NoM6id
            /\ PaidAt(report.tip, cfg.bundle_sealed_height, report.m6id)
    IN /\ report.at = "events"
       /\ report' =
            IF TipStays(report.tip)
            THEN [at |-> "done", books |-> BooksOf(report, blocks, livePaid),
                  gifts |-> GiftsOf(cfg, report.vault), given |-> report.gifts]
            ELSE IF report.tries < BOOK_READS
            THEN [at |-> "tip", config |-> cfg, vault |-> report.vault, gifts |-> report.gifts,
                  records |-> report.records, m6id |-> report.m6id, tries |-> report.tries]
            ELSE [at |-> "done"]
       /\ UNCHANGED reportOnly

FailReport ==
    /\ report.at \notin {"idle", "done"}
    /\ report' = [at |-> "done"]
    /\ UNCHANGED reportOnly

-----------------------------------------------------------------------------
(* back-float *)

(* float_shortfall: what a gift must add to back the float, if the vault   *)
(* holds what the books allow.                                             *)
Shortfall(cfg, vault) == {BookFloat - Min({BookFloat, g}) : g \in GiftsOf(cfg, vault)}

StartBackFloat ==
    /\ giver.at = "idle"
    /\ giver' = IF Shortfall(bank.config, bank.vault) = {} THEN [at |-> "failed"]
                ELSE IF Shortfall(bank.config, bank.vault) = {0} THEN [at |-> "open"]
                ELSE [at |-> "send",
                      gift |-> CHOOSE g \in Shortfall(bank.config, bank.vault) : TRUE]
    /\ UNCHANGED <<active, peak, bank, report>>

(* The transfer confirms, or the call fails with or without it.            *)
SendGift ==
    /\ giver.at = "send"
    /\ \/ bank' = Gifted(giver.gift) /\ giver' \in {[at |-> "open"], [at |-> "failed"]}
       \/ UNCHANGED bank /\ giver' = [at |-> "failed"]
    /\ UNCHANGED <<active, peak, report>>

BookNext ==
    \/ MineBooks \/ ReplaceBooks
    \/ CreditNext
    \/ WithdrawSome(MIN_PAYOUT_SATS, MIN_FEE_SATS)
    \/ \E through \in 1..MaxRecords : SealThrough(through)
    \/ MarkPaidBooks \/ CloseOne \/ Gift
    \/ ReadBank \/ ReadRecords \/ ReadLive \/ ReadBookTip \/ ReadCtip \/ FinishReport
    \/ FailReport
    \/ StartBackFloat \/ SendGift

-----------------------------------------------------------------------------
(* What the two commands say is so.  A report that comes out closes both   *)
(* equations, whatever moved between its reads, and shows the very gifts   *)
(* that the vault got; and when back-float says that withdrawals are open, *)
(* the gifts back the float for good.                                      *)
BooksTrue ==
    /\ "books" \in DOMAIN report =>
         TreasuryHolds(report.books) /\ report.gifts = {report.given}
    /\ giver.at = "open" => BookProgram!FloatBacked(bank.config, bank.vault)
=============================================================================
