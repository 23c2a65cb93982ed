--------------------------- MODULE DailyLotteryDocs ---------------------------
(***************************************************************************)
(* Statements that the repository's documents and comments make about the  *)
(* daily lottery and that the program does not keep.                       *)
(***************************************************************************)
EXTENDS DailyLottery

(* OmissionRecoveryEnds (docs/DAILY_LOTTERY_FIXED_RULES.md): omitted-reveal
   recovery ends at the upload deadline plus the remediation duration, and
   starting it late never extends it: no reveal is included from then on. *)
OmissionRecoveryEnds ==
    [][now >= RemediationDeadline =>
         \A w \in Wallets : participant'[w].included = participant[w].included]_vars

(* SoleParticipantMayRefund (docs/DAILY_LOTTERY_FIXED_RULES.md): once sales
   are over, a sole participant can have the lottery cancelled right away,
   with no transaction of the authority. *)
SoleParticipantMayRefund ==
    lottery.participants_count = 1 /\ now >= BuyDeadline /\ ~lottery.settled
        => ENABLED FinalizeNoAttesters

(* EveryBuyerEligible (FinalizeWinners in instructions/mod.rs): the winners
   are drawn over every ticket buyer, revealed or not. *)
EveryBuyerEligible ==
    root.phase = "completed" => root.eligible_count = lottery.participants_count
==============================================================================
