--------------------------- MODULE MCDailyLottery ---------------------------
(***************************************************************************)
(* Model values for DailyLottery.                                          *)
(***************************************************************************)
EXTENDS DailyLotteryEscrow, DailyLotteryDocs, TLC

WalletSymmetry == Permutations(Wallets)
==============================================================================
