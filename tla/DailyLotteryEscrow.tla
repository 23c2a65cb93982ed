-------------------------- MODULE DailyLotteryEscrow --------------------------
(***************************************************************************)
(* The daily lottery implements the escrow: its accounts, read as deposits *)
(* and debts, only ever take the steps of Escrow.                          *)
(***************************************************************************)
EXTENDS DailyLottery

EscrowMode ==
    IF HasVestedWinners THEN "vested"
    ELSE IF lottery.settled THEN "refunding" ELSE "open"

EscrowDeposit == [w \in Wallets |-> RefundOf(w)]

EscrowDue ==
    CASE EscrowMode = "open"      -> [w \in Wallets |-> 0]
      [] EscrowMode = "refunding" -> EscrowDeposit
      [] EscrowMode = "vested"    ->
            [w \in Wallets |-> IF w \in Winners
                               THEN SharePerWinner(lottery.winners_count) ELSE 0]

E == INSTANCE Escrow WITH
         Depositors <- Wallets,
         Reserve    <- VaultRent,
         mode       <- EscrowMode,
         deposit    <- EscrowDeposit,
         due        <- EscrowDue,
         paid       <- received,
         held       <- vault,
         house      <- treasury

(* ImplementsEscrow: every step of the lottery is a step of the escrow or
   leaves its deposits and debts alone.  Selling, deciding, paying, refunding
   and closing take effect once, in an order that pays the house last. *)
ImplementsEscrow == E!Spec
==============================================================================
