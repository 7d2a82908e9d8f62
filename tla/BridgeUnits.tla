---------------------------- MODULE BridgeUnits ----------------------------
(***************************************************************************)
(* The constants of the bridge that its program, the books and the         *)
(* transactions share.                                                     *)
(***************************************************************************)
CONSTANTS
    LAMPORTS_PER_SAT, MIN_PAYOUT_SATS, MIN_FEE_SATS, MAX_BUNDLE_RECORDS,
    NoM6id   \* the zero M6ID of a config that sealed nothing
=============================================================================
