---------------------------- MODULE GiveawayPrize ----------------------------
(***************************************************************************)
(* The giveaway implements the prize: its accounts, read as an award, only *)
(* ever take the steps of Prize.                                           *)
(***************************************************************************)
EXTENDS Giveaway

PrizeStage ==
    IF giveaway.settled THEN "closed"
    ELSE IF giveaway.winners_locked THEN "awarded" ELSE "open"

PrizeWinners ==
    IF giveaway.winners_locked THEN {w \in Eligible : Wins(ledger, w)} ELSE {}

P == INSTANCE Prize WITH
         Entrants   <- Candidates,
         Fund       <- TotalPayout + VaultRent,
         Fee        <- ServiceFee,
         Pool       <- WinnersPool,
         MaxWinners <- NumberOfWinners,
         stage      <- PrizeStage,
         winners    <- PrizeWinners,
         share      <- ledger.per_winner,
         paid       <- {w \in Candidates : participant[w].paid},
         held       <- vault,
         sent       <- received,
         house      <- provider_fee,
         sponsor    <- creator_refund

(* ImplementsPrize: every step of a giveaway is a step of the prize or leaves
   its money and its award alone.  The award is never changed or taken back,
   shares are equal and sent once however batches repeat or overlap, a refund
   and an award exclude each other, and the provider and the creator are paid
   with the last winner and not before. *)
ImplementsPrize == P!Spec
==============================================================================
