--------------------------- MODULE DailyLotteryMoney ---------------------------
(***************************************************************************)
(* Where the money is.  Whatever the order of sales, votes, draws, payout  *)
(* batches and refunds, the vault covers what is still owed, nobody is     *)
(* sent more than its one entitlement, and the authority is served last.   *)
(* Proved for every value of the constants of DailyLottery.                *)
(***************************************************************************)
EXTENDS DailyLotteryProofs, DailyLotteryEscrow

(***************************************************************************)
(* Every lamport is accounted for: what was paid in, what has been paid    *)
(* out by the flags, and therefore what the vault and the authority hold.  *)
(***************************************************************************)
Share == SharePerWinner(lottery.winners_count)

Claimed == {w \in Wallets : participant[w].refund_claimed}

FundsInv ==
    /\ lottery.total_tickets = TicketCount(Wallets)
    /\ lottery.total_funds = TicketPrice * lottery.total_tickets

ClaimsInv ==
    /\ Claimed # {} => Refundable
    /\ Claimed \in SUBSET Chunk(1, Len(roster))
    /\ ~HasVestedWinners => lottery.settlement_batches_completed = Cardinality(Claimed)

PayoutInv ==
    /\ page.paid = lottery.paid_winners
    /\ ~HasVestedWinners => lottery.paid_winners = {} /\ ~lottery.settlement_complete
    /\ HasVestedWinners =>
          /\ lottery.winners_count # 0
          /\ lottery.winners_count <= WinnersPool
          /\ lottery.paid_winners \in SUBSET (0..(lottery.winners_count - 1))
          /\ lottery.total_payout = Share * lottery.winners_count
          /\ lottery.settlement_complete <=> lottery.paid_winners = 0..(lottery.winners_count - 1)

VaultInv ==
    /\ HasVestedWinners /\ ~lottery.settlement_complete =>
          /\ vault = VaultRent + lottery.total_funds - Share * Cardinality(lottery.paid_winners)
          /\ treasury = 0
    /\ HasVestedWinners /\ lottery.settlement_complete =>
          /\ vault = 0
          /\ treasury = VaultRent + lottery.total_funds - Share * lottery.winners_count
    /\ ~HasVestedWinners =>
          \/ treasury = 0 /\ vault = VaultRent + TicketPrice * TicketCount(Unclaimed)
          \/ /\ Refundable /\ TicketCount(Unclaimed) = 0
             /\ vault = 0 /\ treasury = VaultRent

MoneyInv == SelectionInv /\ FundsInv /\ ClaimsInv /\ PayoutInv /\ VaultInv /\ PaidExactly

(***************************************************************************)
(* Shares.                                                                 *)
(***************************************************************************)
LEMMA DivisionExact ==
    ASSUME NEW a \in Nat, NEW b \in Nat \ {0}
    PROVE  (a * b) \div b = a
OBVIOUS

(***************************************************************************)
(* The fee is part of the funds, and the shares of any number of winners   *)
(* are part of the rest, short of it by less than one unit per winner.     *)
(***************************************************************************)
LEMMA SharesFitPool ==
    ASSUME TypeOK, NEW count \in Nat \ {0}
    PROVE  /\ ServiceFee \in Nat /\ WinnersPool \in Nat
           /\ lottery.total_funds = ServiceFee + WinnersPool
           /\ SharePerWinner(count) \in Nat
           /\ SharePerWinner(count) * count \in Nat
           /\ SharePerWinner(count) * count <= WinnersPool
           /\ WinnersPool < SharePerWinner(count) * count + count
<1> DEFINE funds == lottery.total_funds
           pool  == WinnersPool
<1>1. funds \in Nat /\ ServiceChargeBps \in 0..9999
  <2>1. lottery \in LotteryType  BY DEF TypeOK
  <2>2. lottery.total_funds \in Nat  BY <2>1 DEF LotteryType
  <2> QED  BY <2>2, MoneyAssumption
<1>2. ServiceFee = (funds * ServiceChargeBps) \div 10000  BY DEF ServiceFee
<1> HIDE DEF funds
<1>3. funds * ServiceChargeBps \in Nat /\ funds * ServiceChargeBps <= funds * 9999
  BY <1>1
<1>4. ServiceFee \in Nat /\ ServiceFee <= funds
  <2> DEFINE gross == funds * ServiceChargeBps
  <2>1. gross \in Nat /\ gross <= funds * 9999 /\ ServiceFee = gross \div 10000
    BY <1>2, <1>3
  <2> HIDE DEF gross
  <2>2. gross \div 10000 \in Nat /\ (gross \div 10000) * 10000 <= gross
    BY <2>1, DivisionBounds
  <2> QED  BY <1>1, <2>1, <2>2
<1>5. pool \in Nat /\ funds = ServiceFee + pool  BY <1>1, <1>4 DEF WinnersPool, funds
<1>6. SharePerWinner(count) = pool \div count  BY DEF SharePerWinner
<1> HIDE DEF pool
<1>7. /\ pool \div count \in Nat /\ (pool \div count) * count <= pool
      /\ pool < (pool \div count) * count + count
  BY <1>5, DivisionBounds
<1>8. (pool \div count) * count \in Nat  BY <1>7
<1> QED  BY <1>4, <1>5, <1>6, <1>7, <1>8 DEF funds, pool

(***************************************************************************)
(* Tickets: a sale adds what it sells; a claim takes what it refunds out   *)
(* of the unclaimed ones.                                                  *)
(***************************************************************************)
LEMMA TicketsSold ==
    ASSUME TypeInv, NEW w \in Wallets, NEW n \in 1..MaxTickets, BuyTickets(w, n)
    PROVE  TicketCount(Wallets)' = TicketCount(Wallets) + n
<1> DEFINE k    == participant[w].tickets
           sold == {w} \X ((k + 1)..(k + n))
<1>1. /\ participant \in [Wallets -> ParticipantType] /\ TypeOK
      /\ k \in Nat /\ k + n <= MaxTickets
      /\ \A u \in Wallets : participant[u].tickets \in Nat
  <2>1. /\ TypeOK /\ k <= lottery.total_tickets /\ lottery.total_tickets + n <= MaxTickets
        /\ lottery.total_tickets \in Nat
    <3>1. TypeOK /\ k <= lottery.total_tickets  BY DEF TypeInv
    <3>2. lottery.total_tickets + n <= MaxTickets  BY DEF BuyTickets
    <3>3. lottery.total_tickets \in Nat  BY <3>1, LimitAssumption DEF TypeOK, LotteryType
    <3> QED  BY <3>1, <3>2, <3>3
  <2>2. \A u \in Wallets : participant[u].tickets \in Nat
    BY <2>1, LimitAssumption DEF TypeOK, ParticipantType
  <2>3. n \in Nat /\ MaxTickets \in Nat  BY LimitAssumption
  <2> QED  BY <2>1, <2>2, <2>3 DEF TypeOK
<1>2. \A u \in Wallets : participant'[u].tickets = IF u = w THEN k + n ELSE participant[u].tickets
  BY <1>1 DEF BuyTickets, ParticipantType
<1>3. Tickets(Wallets)' = {t \in Wallets \X (1..MaxTickets) :
                              t[2] <= IF t[1] = w THEN k + n ELSE participant[t[1]].tickets}
  BY <1>2 DEF Tickets
<1>4. Tickets(Wallets)' = Tickets(Wallets) \cup sold
  <2>1. \A u \in Wallets, i \in 1..MaxTickets :
            <<u, i>> \in sold <=> u = w /\ i > k /\ i <= k + n
    BY <1>1
  <2>2. \A u \in Wallets, i \in 1..MaxTickets :
            i <= (IF u = w THEN k + n ELSE participant[u].tickets) <=>
                i <= participant[u].tickets \/ <<u, i>> \in sold
    <3> HIDE DEF sold
    <3> SUFFICES ASSUME NEW u \in Wallets, NEW i \in 1..MaxTickets
                 PROVE  i <= (IF u = w THEN k + n ELSE participant[u].tickets) <=>
                            i <= participant[u].tickets \/ <<u, i>> \in sold
      OBVIOUS
    <3>1. i \in Nat /\ k \in Nat /\ n \in Nat  BY <1>1
    <3>2. CASE u = w  BY <2>1, <3>1, <3>2
    <3>3. CASE u # w  BY <2>1, <3>3
    <3> QED  BY <3>2, <3>3
  <2>3. sold \in SUBSET (Wallets \X (1..MaxTickets))  BY <1>1, LimitAssumption
  <2> HIDE DEF sold, k
  <2> QED  BY <1>3, <2>2, <2>3 DEF Tickets
<1>5. Tickets(Wallets) \cap sold = {}  BY <1>1 DEF Tickets
<1>6. IsFiniteSet(sold) /\ Cardinality(sold) = n
  <2>1. IsFiniteSet((k + 1)..(k + n)) /\ Cardinality((k + 1)..(k + n)) = n
    <3>1. k + 1 \in Int /\ k + n \in Int /\ n \in Nat \ {0}  BY <1>1
    <3>2. Cardinality((k + 1)..(k + n)) =
              IF k + 1 > k + n THEN 0 ELSE (k + n) - (k + 1) + 1
      BY <3>1, FS_Interval
    <3>3. IsFiniteSet((k + 1)..(k + n))  BY <3>1, FS_Interval
    <3> QED  BY <1>1, <3>1, <3>2, <3>3
  <2>2. IsFiniteSet({w}) /\ Cardinality({w}) = 1  BY FS_Singleton
  <2>3. /\ IsFiniteSet(sold)
        /\ Cardinality(sold) = Cardinality({w}) * Cardinality((k + 1)..(k + n))
    BY <2>1, <2>2, FS_Product
  <2> QED  BY <2>1, <2>2, <2>3
<1>7. IsFiniteSet(Tickets(Wallets)) /\ Cardinality(Tickets(Wallets)) \in Nat
  BY <1>1, TicketsFinite DEF TicketCount
<1> HIDE DEF sold
<1>8. Cardinality(Tickets(Wallets) \cup sold) =
          Cardinality(Tickets(Wallets)) + Cardinality(sold) - Cardinality({})
  BY <1>5, <1>6, <1>7, FS_Union
<1>9. Cardinality({}) = 0  BY FS_EmptySet
<1> QED  BY <1>4, <1>6, <1>7, <1>8, <1>9 DEF TicketCount

LEMMA TicketsClaimed ==
    ASSUME TypeOK, NEW S \in SUBSET Wallets, NEW w \in S
    PROVE  /\ TicketCount(S) = TicketCount(S \ {w}) + participant[w].tickets
           /\ TicketCount(S \ {w}) \in Nat /\ participant[w].tickets \in Nat
<1>1. /\ S \ {w} \in SUBSET Wallets /\ {w} \in SUBSET Wallets
      /\ S = (S \ {w}) \cup {w} /\ (S \ {w}) \cap {w} = {}
  OBVIOUS
<1>2. TicketCount(S) = TicketCount(S \ {w}) + TicketCount({w})  BY <1>1, TicketsOfUnion
<1>3. TicketCount({w}) = participant[w].tickets /\ w \in Wallets  BY TicketsOfOne
<1>4. participant[w].tickets \in Nat  BY <1>3, LimitAssumption DEF TypeOK, ParticipantType
<1>5. TicketCount(S \ {w}) \in Nat  BY <1>1, TicketsFinite
<1> QED  BY <1>2, <1>3, <1>4, <1>5

(***************************************************************************)
(* Instructions that move no money and decide nothing.                     *)
(***************************************************************************)
MoneyQuiet ==
    /\ UNCHANGED <<vault, received, treasury, roster, page>>
    /\ lottery'.total_tickets = lottery.total_tickets
    /\ lottery'.total_funds = lottery.total_funds
    /\ lottery'.winners_count = lottery.winners_count
    /\ lottery'.total_payout = lottery.total_payout
    /\ lottery'.paid_winners = lottery.paid_winners
    /\ lottery'.settlement_batches_completed = lottery.settlement_batches_completed
    /\ lottery'.settlement_complete = lottery.settlement_complete
    /\ lottery.settled => lottery'.settled
    /\ \A w \in Wallets :
          /\ participant'[w].tickets = participant[w].tickets
          /\ participant'[w].refund_claimed = participant[w].refund_claimed

LEMMA MoneySteps ==
    ASSUME TypeInv, [Next]_vars
    PROVE  \/ \E w \in Wallets, n \in 1..MaxTickets : BuyTickets(w, n)
           \/ \E last \in 1..Len(roster), draw \in 0..MaxTickets : SelectChunk(last, draw)
           \/ \E batch \in Batches : SettlePayoutBatch(batch)
           \/ \E w \in Wallets : ClaimRefund(w)
           \/ CloseRefundVault
           \/ MoneyQuiet
<1>1. lottery \in LotteryType /\ participant \in [Wallets -> ParticipantType] /\ TypeOK
  BY DEF TypeInv, TypeOK
<1>2. CASE Tick \/ UNCHANGED vars  BY <1>2 DEF Tick, vars, MoneyQuiet
<1>3. ASSUME NEW w \in Wallets, NEW v \in 1..MaxWinnersCap, AttestUploaded(w, v)
      PROVE  MoneyQuiet
  BY <1>1, <1>3 DEF AttestUploaded, Attested, LotteryType, ParticipantType, MoneyQuiet
<1>4. ASSUME NEW w \in Wallets, NEW v \in 1..MaxWinnersCap, AttestReveal(w, v)
      PROVE  MoneyQuiet
  BY <1>1, <1>4 DEF AttestReveal, Attested, LotteryType, ParticipantType, MoneyQuiet
<1>5. ASSUME NEW byAuthority \in BOOLEAN, NEW S \in SUBSET Wallets, UploadReveals(byAuthority, S)
      PROVE  MoneyQuiet
  BY <1>1, <1>5
     DEF UploadReveals, BegunRemediation, LotteryType, ParticipantType, MoneyQuiet
<1>6. CASE BeginRemediation
  BY <1>1, <1>6 DEF BeginRemediation, BegunRemediation, LotteryType, MoneyQuiet
<1>7. ASSUME NEW last \in 1..Len(roster), NEW draw \in 0..MaxTickets, AggregateChunk(last, draw)
      PROVE  MoneyQuiet
  <2>1. \A u \in Wallets : /\ participant'[u].tickets = participant[u].tickets
                           /\ participant'[u].refund_claimed = participant[u].refund_claimed
    BY <1>1, <1>7 DEF AggregateChunk, ParticipantType
  <2>2. UNCHANGED <<vault, received, treasury, roster, page>>  BY <1>7 DEF AggregateChunk
  <2>3. \/ lottery' = lottery
        \/ \E x : lottery' = [lottery EXCEPT !.selected_number_of_winners = x]
    BY <1>7 DEF AggregateChunk
  <2> QED  BY <1>1, <2>1, <2>2, <2>3 DEF LotteryType, MoneyQuiet
<1>8. CASE FinalizeNoAttesters
  BY <1>1, <1>8 DEF FinalizeNoAttesters, Cancellable, LotteryType, MoneyQuiet
<1>9. ASSUME NEW w \in Wallets, CloseParticipant(w)
      PROVE  MoneyQuiet
  BY <1>1, <1>9 DEF CloseParticipant, ParticipantType, MoneyQuiet
<1> QED
  BY <1>2, <1>3, <1>4, <1>5, <1>6, <1>7, <1>8, <1>9 DEF Next

LEMMA MoneyUndisturbed ==
    ASSUME MoneyInv, MoneyQuiet
    PROVE  (FundsInv /\ ClaimsInv /\ PayoutInv /\ VaultInv /\ PaidExactly)'
<1>1. FundsInv /\ ClaimsInv /\ PayoutInv /\ VaultInv /\ PaidExactly
  BY DEF MoneyInv
<1>2. /\ UNCHANGED <<vault, received, treasury, roster, page>>
      /\ lottery'.total_tickets = lottery.total_tickets
      /\ lottery'.total_funds = lottery.total_funds
      /\ lottery'.winners_count = lottery.winners_count
      /\ lottery'.total_payout = lottery.total_payout
      /\ lottery'.paid_winners = lottery.paid_winners
      /\ lottery'.settlement_batches_completed = lottery.settlement_batches_completed
      /\ lottery'.settlement_complete = lottery.settlement_complete
  BY DEF MoneyQuiet
<1>3. /\ HasVestedWinners' = HasVestedWinners /\ (Refundable => Refundable')
      /\ Share' = Share /\ ServiceFee' = ServiceFee
  BY <1>2 DEF MoneyQuiet, HasVestedWinners, Refundable, Share, SharePerWinner, WinnersPool,
             ServiceFee
<1>4. Claimed' = Claimed /\ Unclaimed' = Unclaimed  BY DEF MoneyQuiet, Claimed, Unclaimed
<1>5. Unclaimed \in SUBSET Wallets  BY DEF Unclaimed
<1>6. \A S \in SUBSET Wallets : TicketCount(S)' = TicketCount(S)
  BY TicketsUnchanged DEF MoneyQuiet
<1>7. TicketCount(Unclaimed)' = TicketCount(Unclaimed)
  <2>1. Tickets(Unclaimed)' = Tickets(Unclaimed)  BY <1>4 DEF Tickets, MoneyQuiet, Unclaimed
  <2> QED  BY <2>1 DEF TicketCount
<1>8. FundsInv'  BY <1>1, <1>2, <1>6 DEF FundsInv
<1>9. ClaimsInv'  BY <1>1, <1>2, <1>3, <1>4 DEF ClaimsInv, Chunk
<1>10. PayoutInv'
  <2>1. WinnersPool' = WinnersPool  BY <1>2, <1>3 DEF WinnersPool
  <2> QED  BY <1>1, <1>2, <1>3, <2>1 DEF PayoutInv
<1>11. VaultInv'  BY <1>1, <1>2, <1>3, <1>7 DEF VaultInv
<1>12. PaidExactly'
  <2>1. SharePerWinner(lottery.winners_count)' = SharePerWinner(lottery.winners_count)
    BY <1>3 DEF Share
  <2>2. \A w \in Wallets : /\ RefundOf(w)' = RefundOf(w)
                           /\ participant'[w].refund_claimed = participant[w].refund_claimed
    BY DEF MoneyQuiet, RefundOf
  <2> QED  BY <1>1, <1>2, <1>3, <2>1, <2>2 DEF PaidExactly
<1> QED  BY <1>8, <1>9, <1>10, <1>11, <1>12

LEMMA BuyTicketsMoney ==
    ASSUME MoneyInv, NEW w \in Wallets, NEW n \in 1..MaxTickets, BuyTickets(w, n)
    PROVE  (FundsInv /\ ClaimsInv /\ PayoutInv /\ VaultInv /\ PaidExactly)'
<1>1. /\ FundsInv /\ ClaimsInv /\ PayoutInv /\ VaultInv /\ PaidExactly
      /\ TypeInv /\ TypeOK /\ OutcomeInv /\ FinalityInv /\ DrawInv
  BY DEF MoneyInv, SelectionInv, FinalityInv, TypeInv
<1>2. /\ lottery \in LotteryType /\ participant \in [Wallets -> ParticipantType]
      /\ vault \in Nat
  BY <1>1 DEF TypeOK
<1>3. ~HasVestedWinners /\ ~Refundable
  <2>1. root.phase = "none"  BY <1>1, BuyTicketsDraw
  <2> QED  BY <1>1, <2>1 DEF OutcomeInv, Refundable, BuyTickets
<1>4. /\ lottery'.total_tickets = lottery.total_tickets + n
      /\ lottery'.total_funds = lottery.total_funds + TicketPrice * n
      /\ lottery'.winners_count = lottery.winners_count
      /\ lottery'.total_payout = lottery.total_payout
      /\ lottery'.paid_winners = lottery.paid_winners
      /\ lottery'.settlement_batches_completed = lottery.settlement_batches_completed
      /\ lottery'.settlement_complete = lottery.settlement_complete
      /\ lottery'.settled = lottery.settled
      /\ vault' = vault + TicketPrice * n
      /\ UNCHANGED <<received, treasury, page>>
  BY <1>2 DEF BuyTickets, LotteryType
<1>5. \A u \in Wallets : participant'[u].refund_claimed = participant[u].refund_claimed
  BY <1>2 DEF BuyTickets, ParticipantType
<1>6. Claimed = {} /\ Claimed' = {} /\ Unclaimed = Wallets /\ Unclaimed' = Wallets
  BY <1>1, <1>3, <1>5 DEF ClaimsInv, Claimed, Unclaimed
<1>7. ~HasVestedWinners' /\ ~Refundable'
  BY <1>3, <1>4 DEF HasVestedWinners, Refundable
<1>8. /\ TicketCount(Wallets)' = TicketCount(Wallets) + n
      /\ TicketCount(Unclaimed)' = TicketCount(Wallets)'
      /\ TicketCount(Wallets) \in Nat
  <2>1. TicketCount(Wallets)' = TicketCount(Wallets) + n  BY <1>1, TicketsSold
  <2>2. Tickets(Unclaimed)' = Tickets(Wallets)'  BY <1>6 DEF Tickets
  <2>3. Wallets \in SUBSET Wallets  OBVIOUS
  <2> QED  BY <1>1, <2>1, <2>2, <2>3, TicketsFinite DEF TicketCount
<1>9. FundsInv'
  <2> DEFINE k == TicketCount(Wallets)
  <2>1. lottery.total_tickets = k /\ lottery.total_funds = TicketPrice * k /\ k \in Nat
    BY <1>1, <1>8 DEF FundsInv
  <2> HIDE DEF k
  <2>2. TicketPrice * k + TicketPrice * n = TicketPrice * (k + n)  BY <2>1, MoneyAssumption
  <2>3. TicketCount(Wallets)' = k + n  BY <1>8 DEF k
  <2> QED  BY <1>4, <2>1, <2>2, <2>3 DEF FundsInv
<1>10. ClaimsInv'  BY <1>1, <1>3, <1>4, <1>6, <1>7 DEF ClaimsInv
<1>11. PayoutInv'  BY <1>1, <1>3, <1>4, <1>7 DEF PayoutInv
<1>12. VaultInv'
  <2> DEFINE k == TicketCount(Wallets)
  <2>1. treasury = 0 /\ vault = VaultRent + TicketPrice * k /\ k \in Nat
    BY <1>1, <1>3, <1>6, <1>8 DEF VaultInv
  <2> HIDE DEF k
  <2>2. VaultRent + TicketPrice * k + TicketPrice * n = VaultRent + TicketPrice * (k + n)
    BY <2>1, MoneyAssumption
  <2>3. TicketCount(Unclaimed)' = k + n  BY <1>8 DEF k
  <2> QED  BY <1>4, <1>7, <2>1, <2>2, <2>3 DEF VaultInv
<1>13. PaidExactly'  BY <1>1, <1>3, <1>4, <1>5, <1>6, <1>7 DEF PaidExactly, Claimed
<1> QED  BY <1>9, <1>10, <1>11, <1>12, <1>13

(***************************************************************************)
(* Vesting decides the shares while the vault still holds every deposit.   *)
(***************************************************************************)
LEMMA SelectChunkMoney ==
    ASSUME MoneyInv, SelectionInv',
           NEW last \in 1..Len(roster), NEW draw \in 0..MaxTickets, SelectChunk(last, draw)
    PROVE  (FundsInv /\ ClaimsInv /\ PayoutInv /\ VaultInv /\ PaidExactly)'
<1> DEFINE recorded == RecordWinner(WalkChunk(last))
           count    == recorded.selected_count
<1>1. /\ FundsInv /\ ClaimsInv /\ PayoutInv /\ VaultInv /\ PaidExactly
      /\ TypeOK /\ OutcomeInv /\ TypeInv
  BY DEF MoneyInv, SelectionInv, FinalityInv, TypeInv
<1>2. /\ lottery \in LotteryType /\ participant \in [Wallets -> ParticipantType]
      /\ page \in [entries: Seq(Wallets), paid: SUBSET Nat]
  BY <1>1 DEF TypeOK
<1>3. ~HasVestedWinners /\ ~lottery.settled /\ ~Refundable
  BY <1>1 DEF SelectChunk, ReadyToFinalize, Finalizing, OutcomeInv, Refundable
<1>4. /\ UNCHANGED <<roster, vault, received, treasury>> /\ page'.paid = page.paid
      /\ \A u \in Wallets : /\ participant'[u].tickets = participant[u].tickets
                            /\ participant'[u].refund_claimed = participant[u].refund_claimed
  <2>1. \A u \in Wallets : /\ participant'[u].tickets = participant[u].tickets
                           /\ participant'[u].refund_claimed = participant[u].refund_claimed
    BY <1>2 DEF SelectChunk, ParticipantType
  <2>2. UNCHANGED <<roster, vault, received, treasury>>  BY DEF SelectChunk
  <2>3. page' = page \/ \E e : page' = [page EXCEPT !.entries = e]  BY DEF SelectChunk
  <2> QED  BY <1>2, <2>1, <2>2, <2>3
<1>5. \/ lottery' = lottery
      \/ WinnersPool >= count /\ lottery' = Vested(lottery, count)
  BY DEF SelectChunk
<1> HIDE DEF recorded, count
<1>6. /\ lottery'.total_tickets = lottery.total_tickets
      /\ lottery'.total_funds = lottery.total_funds
      /\ lottery'.paid_winners = lottery.paid_winners
      /\ lottery'.settlement_batches_completed = lottery.settlement_batches_completed
      /\ lottery'.settlement_complete = lottery.settlement_complete
      /\ lottery'.settled = lottery.settled
  BY <1>2, <1>5 DEF Vested, LotteryType
<1>7. Claimed = {} /\ Claimed' = {} /\ Unclaimed = Wallets /\ Unclaimed' = Wallets
  BY <1>1, <1>3, <1>4 DEF ClaimsInv, Claimed, Unclaimed
<1>8. /\ TicketCount(Wallets)' = TicketCount(Wallets) /\ TicketCount(Wallets) \in Nat
      /\ TicketCount(Unclaimed)' = TicketCount(Wallets)
  <2>1. TicketCount(Wallets)' = TicketCount(Wallets)  BY <1>4, TicketsUnchanged
  <2>2. Tickets(Unclaimed)' = Tickets(Wallets)'  BY <1>7 DEF Tickets
  <2>3. Wallets \in SUBSET Wallets  OBVIOUS
  <2> QED  BY <1>1, <2>1, <2>2, <2>3, TicketsFinite DEF TicketCount
<1>9. /\ treasury = 0 /\ lottery.paid_winners = {} /\ ~lottery.settlement_complete
      /\ vault = VaultRent + TicketPrice * TicketCount(Wallets)
  <2>1. treasury = 0 /\ vault = VaultRent + TicketPrice * TicketCount(Unclaimed)
    BY <1>1, <1>3 DEF VaultInv
  <2> QED  BY <1>1, <1>3, <1>7, <2>1 DEF PayoutInv
<1>10. FundsInv'  BY <1>1, <1>6, <1>8 DEF FundsInv
<1>11. ClaimsInv'
  <2>1. lottery.settlement_batches_completed = 0
    BY <1>1, <1>3, <1>7, FS_EmptySet DEF ClaimsInv
  <2>2. Cardinality(Claimed)' = 0  BY <1>7, FS_EmptySet
  <2> QED  BY <1>6, <1>7, <2>1, <2>2 DEF ClaimsInv
<1>12. CASE lottery' = lottery
  <2>1. ~HasVestedWinners'  BY <1>3, <1>12 DEF HasVestedWinners
  <2>2. PayoutInv'  BY <1>1, <1>4, <1>6, <1>9, <2>1 DEF PayoutInv
  <2>3. VaultInv'  BY <1>4, <1>8, <1>9, <2>1 DEF VaultInv
  <2>4. PaidExactly'  BY <1>1, <1>3, <1>4, <1>7, <2>1 DEF PaidExactly, Claimed
  <2> QED  BY <1>10, <1>11, <2>2, <2>3, <2>4
<1>13. CASE HasVestedWinners'
  <2> DEFINE n == lottery'.winners_count
  <2>1. n # 0 /\ n \in Nat
    <3>1. (root.phase = "completed")' /\ TypeOK'
      BY <1>13 DEF SelectionInv, OutcomeInv, FinalityInv, TypeInv
    <3>2. n # 0  BY <3>1 DEF SelectionInv, DrawInv
    <3> QED  BY <3>1, <3>2 DEF TypeOK, LotteryType
  <2>2. n = count /\ lottery'.total_payout = SharePerWinner(count) * count
    BY <1>2, <1>3, <1>5, <1>13 DEF Vested, LotteryType, HasVestedWinners
  <2>3. Share' = SharePerWinner(count)
    BY <1>6, <2>2 DEF Share, SharePerWinner, WinnersPool, ServiceFee
  <2>4. SharePerWinner(count) \in Nat  BY <1>1, <2>1, <2>2, SharesFitPool
  <2>5. PayoutInv'
    <3>1. 0 \in 0..(n - 1)  BY <2>1
    <3>2. lottery.paid_winners # 0..(n - 1)  BY <1>9, <3>1
    <3>3. WinnersPool' = WinnersPool  BY <1>6 DEF WinnersPool, ServiceFee
    <3>4. n <= WinnersPool
      BY <1>2, <1>3, <1>5, <1>13, <3>3 DEF Vested, LotteryType, HasVestedWinners
    <3> QED
      BY <1>1, <1>4, <1>6, <1>9, <1>13, <2>1, <2>2, <2>3, <3>2, <3>3, <3>4 DEF PayoutInv
  <2>6. VaultInv'
    <3>1. Cardinality(lottery.paid_winners)' = 0  BY <1>6, <1>9, FS_EmptySet
    <3>2. lottery'.total_funds = TicketPrice * TicketCount(Wallets)
      BY <1>1, <1>6 DEF FundsInv
    <3>3. TicketPrice * TicketCount(Wallets) \in Nat /\ VaultRent \in Nat
      BY <1>8, MoneyAssumption
    <3>4. Share' * 0 = 0  BY <2>3, <2>4
    <3>5. vault' = VaultRent + lottery'.total_funds - Share' * Cardinality(lottery.paid_winners)'
      BY <1>4, <1>9, <3>1, <3>2, <3>3, <3>4
    <3> QED  BY <1>4, <1>6, <1>9, <1>13, <3>5 DEF VaultInv
  <2>7. PaidExactly'
    <3>1. \A w \in Wallets : received'[w] = 0
      BY <1>1, <1>3, <1>4, <1>7 DEF PaidExactly, Claimed
    <3>2. \A w \in Wallets : {i \in lottery'.paid_winners : page'.entries[i + 1] = w} = {}
      BY <1>6, <1>9
    <3>3. SharePerWinner(lottery.winners_count)' * 0 = 0  BY <2>3, <2>4 DEF Share
    <3> QED  BY <1>13, <3>1, <3>2, <3>3, FS_EmptySet DEF PaidExactly
  <2> QED  BY <1>10, <1>11, <2>5, <2>6, <2>7
<1>14. lottery' = lottery \/ HasVestedWinners'
  <2>1. count = root.selected_count + 1 /\ root.selected_count \in Nat
    <3>1. /\ WalkChunk(last) \in RootType
          /\ WalkChunk(last).selected_count = root.selected_count
      BY <1>1, WalkChunkType
    <3>2. root \in RootType  BY <1>1 DEF TypeOK
    <3> QED  BY <3>1, <3>2 DEF count, recorded, RecordWinner, RootType
  <2>2. count # 0  BY <2>1
  <2> QED  BY <1>2, <1>5, <2>2 DEF Vested, LotteryType, HasVestedWinners
<1> QED  BY <1>12, <1>13, <1>14

(***************************************************************************)
(* Refunds: each claim takes what it pays out of the unclaimed tickets,    *)
(* and counts itself; the vault is closed when everyone in the roster has  *)
(* claimed.                                                                *)
(***************************************************************************)
LEMMA ClaimRefundMoney ==
    ASSUME MoneyInv, NEW w \in Wallets, ClaimRefund(w)
    PROVE  (FundsInv /\ ClaimsInv /\ PayoutInv /\ VaultInv /\ PaidExactly)'
<1>1. /\ FundsInv /\ ClaimsInv /\ PayoutInv /\ VaultInv /\ PaidExactly
      /\ TypeOK /\ RosterInv
  BY DEF MoneyInv, SelectionInv, FinalityInv, TypeInv
<1>2. /\ lottery \in LotteryType /\ participant \in [Wallets -> ParticipantType]
      /\ received \in [Wallets -> Nat] /\ Len(roster) \in Nat
  BY <1>1 DEF TypeOK
<1>3. /\ Refundable /\ ~HasVestedWinners /\ w \notin Claimed
      /\ participant[w].tickets # 0
  BY DEF ClaimRefund, MayClaim, Refundable, HasVestedWinners, Claimed
<1>4. /\ lottery'.total_tickets = lottery.total_tickets
      /\ lottery'.total_funds = lottery.total_funds
      /\ lottery'.winners_count = lottery.winners_count
      /\ lottery'.total_payout = lottery.total_payout
      /\ lottery'.paid_winners = lottery.paid_winners
      /\ lottery'.settlement_batches_completed = lottery.settlement_batches_completed + 1
      /\ lottery'.settlement_complete = lottery.settlement_complete
      /\ lottery'.settled = lottery.settled
  BY <1>2 DEF ClaimRefund, MayClaim, LotteryType
<1>5. \A u \in Wallets :
          /\ participant'[u].tickets = participant[u].tickets
          /\ participant'[u].refund_claimed = (u = w \/ participant[u].refund_claimed)
  BY <1>2 DEF ClaimRefund, MayClaim, ParticipantType
<1>6. /\ Claimed' = Claimed \cup {w} /\ Unclaimed' = Unclaimed \ {w} /\ w \in Unclaimed
      /\ Unclaimed \in SUBSET Wallets /\ Claimed \in SUBSET Wallets
  BY <1>3, <1>5 DEF Claimed, Unclaimed
<1>7. ~HasVestedWinners' /\ Refundable'
  BY <1>3, <1>4 DEF HasVestedWinners, Refundable
<1>8. FundsInv'
  <2>1. TicketCount(Wallets)' = TicketCount(Wallets)  BY <1>5, TicketsUnchanged
  <2> QED  BY <1>1, <1>4, <2>1 DEF FundsInv
<1>9. ClaimsInv'
  <2>1. IsFiniteSet(Claimed)  BY <1>6, WalletsAssumption, FS_Subset
  <2>2. Cardinality(Claimed \cup {w}) = Cardinality(Claimed) + 1
    BY <1>3, <2>1, FS_AddElement
  <2>3. Chunk(1, Len(roster))' = Chunk(1, Len(roster))  BY DEF ClaimRefund, MayClaim, Chunk
  <2>4. w \in Chunk(1, Len(roster))  BY <1>1, <1>3 DEF RosterInv
  <2>5. Cardinality(Claimed)' = Cardinality(Claimed) + 1  BY <1>6, <2>2
  <2> QED  BY <1>1, <1>3, <1>4, <1>6, <1>7, <2>3, <2>4, <2>5 DEF ClaimsInv
<1>10. PayoutInv'  BY <1>1, <1>3, <1>4, <1>7 DEF PayoutInv, ClaimRefund, MayClaim
<1>11. VaultInv'
  <2> DEFINE left == TicketCount(Unclaimed \ {w})
             mine == participant[w].tickets
  <2>1. TicketCount(Unclaimed) = left + mine /\ left \in Nat /\ mine \in Nat
    BY <1>1, <1>6, TicketsClaimed
  <2>2. TicketCount(Unclaimed)' = left
    <3>1. Tickets(Unclaimed)' = Tickets(Unclaimed \ {w})  BY <1>5, <1>6 DEF Tickets
    <3> QED  BY <3>1 DEF TicketCount
  <2>3. vault' = vault - TicketPrice * mine /\ treasury' = treasury
    BY DEF ClaimRefund, MayClaim, RefundOf
  <2>4. mine # 0  BY <1>3
  <2> HIDE DEF left, mine
  <2>5. treasury = 0 /\ vault = VaultRent + TicketPrice * (left + mine)
    BY <1>1, <1>3, <2>1, <2>4 DEF VaultInv
  <2>6. VaultRent + TicketPrice * (left + mine) - TicketPrice * mine
            = VaultRent + TicketPrice * left
    BY <2>1, MoneyAssumption
  <2>7. vault' = VaultRent + TicketPrice * left
    BY <2>1, <2>3, <2>5, <2>6, MoneyAssumption
  <2>8. vault' = VaultRent + TicketPrice * TicketCount(Unclaimed)'  BY <2>2, <2>7
  <2>9. treasury' = 0  BY <2>3, <2>5
  <2> QED  BY <1>7, <2>8, <2>9 DEF VaultInv
<1>12. PaidExactly'
  <2>1. \A u \in Wallets : RefundOf(u)' = RefundOf(u)  BY <1>5 DEF RefundOf
  <2>2. received[w] = 0 /\ received' = [received EXCEPT ![w] = received[w] + RefundOf(w)]
    BY <1>1, <1>3 DEF PaidExactly, ClaimRefund, MayClaim, Claimed
  <2>3. RefundOf(w) \in Nat
    BY <1>2, MoneyAssumption, LimitAssumption DEF RefundOf, ParticipantType
  <2>4. received'[w] = RefundOf(w)  BY <1>2, <2>2, <2>3
  <2>5. \A u \in Wallets \ {w} : received'[u] = received[u]  BY <1>2, <2>2
  <2>6. \A u \in Wallets : received'[u] =
            IF u = w \/ participant[u].refund_claimed THEN RefundOf(u) ELSE 0
    BY <1>1, <1>3, <2>4, <2>5 DEF PaidExactly
  <2> QED  BY <1>5, <1>7, <2>1, <2>6 DEF PaidExactly
<1> QED  BY <1>8, <1>9, <1>10, <1>11, <1>12

(***************************************************************************)
(* As many claims as participants means that every participant claimed.    *)
(***************************************************************************)
LEMMA RosterSize ==
    ASSUME TypeOK, RosterDistinct
    PROVE  /\ Chunk(1, Len(roster)) \in SUBSET Wallets
           /\ IsFiniteSet(Chunk(1, Len(roster)))
           /\ Len(roster) \in Nat
           /\ Cardinality(Chunk(1, Len(roster))) = Len(roster)
<1>1. roster \in Seq(Wallets) /\ Len(roster) \in Nat  BY DEF TypeOK
<1>2. Chunk(1, Len(roster)) \in SUBSET Wallets  BY <1>1 DEF Chunk
<1>3. DOMAIN roster = 1..Len(roster)  BY <1>1
<1>4. Chunk(1, Len(roster)) = {roster[i] : i \in DOMAIN roster}  BY <1>3 DEF Chunk
<1>5. \A i, j \in DOMAIN roster : roster[i] = roster[j] => i = j
  BY <1>3 DEF RosterDistinct
<1>6. /\ IsFiniteSet({roster[i] : i \in DOMAIN roster})
      /\ Cardinality({roster[i] : i \in DOMAIN roster}) = Len(roster)
  BY <1>1, <1>5, DistinctEntries
<1> QED  BY <1>1, <1>2, <1>4, <1>6

LEMMA AllHaveClaimed ==
    ASSUME MoneyInv, ~HasVestedWinners, AllRefundsClaimed
    PROVE  TicketCount(Unclaimed) = 0
<1>1. ClaimsInv /\ TypeOK /\ RosterInv /\ lottery \in LotteryType
  BY DEF MoneyInv, SelectionInv, FinalityInv, TypeInv, TypeOK
<1> DEFINE all == Chunk(1, Len(roster))
<1>2. IsFiniteSet(all) /\ Len(roster) \in Nat  BY <1>1, RosterSize DEF RosterInv
<1>3. Cardinality(all) = Len(roster)  BY <1>1, RosterSize DEF RosterInv
<1>4. Cardinality(Claimed) >= Len(roster)
  BY <1>1 DEF ClaimsInv, AllRefundsClaimed, RosterInv
<1>5. Claimed = all
  <2>1. Claimed \in SUBSET all  BY <1>1 DEF ClaimsInv
  <2> HIDE DEF all
  <2>2. IsFiniteSet(Claimed) /\ Cardinality(Claimed) \in Nat /\ Cardinality(all) \in Nat
        /\ Cardinality(Claimed) <= Cardinality(all)
    BY <1>2, <2>1, FS_Subset, FS_CardinalityType
  <2>3. Cardinality(Claimed) = Cardinality(all)  BY <1>1, <1>3, <1>4, <2>2
  <2> QED  BY <1>2, <2>1, <2>3, FS_Subset
<1>6. \A u \in Unclaimed : participant[u].tickets = 0
  BY <1>1, <1>5 DEF RosterInv, Unclaimed, Claimed
<1>7. Tickets(Unclaimed) = {}
  <2>1. \A t \in Unclaimed \X (1..MaxTickets) : ~(t[2] <= participant[t[1]].tickets)
    BY <1>6, LimitAssumption
  <2> QED  BY <2>1 DEF Tickets
<1> QED  BY <1>7, FS_EmptySet DEF TicketCount

LEMMA CloseRefundVaultMoney ==
    ASSUME MoneyInv, CloseRefundVault
    PROVE  (FundsInv /\ ClaimsInv /\ PayoutInv /\ VaultInv /\ PaidExactly)'
<1>1. /\ FundsInv /\ ClaimsInv /\ PayoutInv /\ VaultInv /\ PaidExactly
  BY DEF MoneyInv
<1>2. Refundable /\ ~HasVestedWinners /\ AllRefundsClaimed /\ vault # 0
  BY DEF CloseRefundVault, MayClose, Refundable, HasVestedWinners
<1>3. TicketCount(Unclaimed) = 0  BY <1>2, AllHaveClaimed
<1>4. treasury = 0 /\ vault = VaultRent
  <2>1. treasury = 0 /\ vault = VaultRent + TicketPrice * TicketCount(Unclaimed)
    BY <1>1, <1>2 DEF VaultInv
  <2> QED  BY <1>3, <2>1, MoneyAssumption
<1>5. /\ vault' = 0 /\ treasury' = treasury + vault
      /\ UNCHANGED <<lottery, participant, roster, page, received>>
  BY DEF CloseRefundVault, MayClose
<1>6. Claimed' = Claimed /\ Unclaimed' = Unclaimed /\ Refundable' /\ ~HasVestedWinners'
  BY <1>2, <1>5 DEF Claimed, Unclaimed, Refundable, HasVestedWinners
<1>7. TicketCount(Wallets)' = TicketCount(Wallets) /\ TicketCount(Unclaimed)' = 0
  BY <1>3, <1>5, <1>6 DEF TicketCount, Tickets
<1>8. FundsInv'  BY <1>1, <1>5, <1>7 DEF FundsInv
<1>9. ClaimsInv'  BY <1>1, <1>2, <1>5, <1>6 DEF ClaimsInv, Chunk
<1>10. PayoutInv'  BY <1>1, <1>2, <1>5, <1>6 DEF PayoutInv
<1>11. VaultInv'  BY <1>4, <1>5, <1>6, <1>7, MoneyAssumption DEF VaultInv
<1>12. PaidExactly'  BY <1>1, <1>2, <1>5, <1>6 DEF PaidExactly, RefundOf
<1> QED  BY <1>8, <1>9, <1>10, <1>11, <1>12

(***************************************************************************)
(* A batch pays each index it names once, if it was unpaid: the positions  *)
(* it pays at are as many as the indexes it adds to the paid ones,         *)
(* whichever indexes X are asked about.                                    *)
(***************************************************************************)
Named(batch) == {batch[i] : i \in DOMAIN batch}

Added(batch) == Named(batch) \ lottery.paid_winners

LEMMA BatchPaysOnce ==
    ASSUME TypeOK, PayoutInv, NEW batch \in Batches, NEW X
    PROVE  /\ IsFiniteSet({i \in PayingPositions(batch) : batch[i] \in X})
           /\ IsFiniteSet(Added(batch) \cap X)
           /\ Cardinality({i \in PayingPositions(batch) : batch[i] \in X}) =
                  Cardinality(Added(batch) \cap X)
<1> DEFINE at    == {i \in PayingPositions(batch) : batch[i] \in X}
           added == Added(batch) \cap X
           f     == [i \in at |-> batch[i]]
<1>1. PICK k \in 1..MaxBatch : batch \in [1..k -> 0..(Len(page.entries) - 1)]
  BY DEF Batches
<1>2. PayingPositions(batch) =
          {i \in 1..k : /\ batch[i] \notin lottery.paid_winners
                        /\ \A j \in 1..(i - 1) : batch[j] # batch[i]}
  BY <1>1 DEF PayingPositions, PayoutInv
<1>3. k \in Nat /\ at \in SUBSET (1..k)  BY <1>1, <1>2, LimitAssumption
<1>4. IsFiniteSet(at)  BY <1>3, FS_Interval, FS_Subset
<1>5. added = {x \in X : x \notin lottery.paid_winners /\ \E i \in 1..k : batch[i] = x}
  BY <1>1 DEF Added, Named
<1>6. f \in [at -> added]
  <2>1. \A i \in at : batch[i] \in added  BY <1>2, <1>5
  <2> HIDE DEF at, added
  <2> QED  BY <2>1
<1>7. \A i, j \in at : f[i] = f[j] => i = j
  <2> SUFFICES ASSUME NEW i \in at, NEW j \in at, batch[i] = batch[j], i < j
               PROVE  FALSE
    BY <1>3
  <2>1. i \in 1..(j - 1)  BY <1>3
  <2> QED  BY <1>2, <2>1
<1>8. \A x \in added : \E i \in at : f[i] = x
  <2> SUFFICES ASSUME NEW x \in added
               PROVE  \E i \in at : batch[i] = x
    OBVIOUS
  <2> DEFINE places == {i \in 1..k : batch[i] = x}
  <2>1. places # {} /\ places \in SUBSET Nat  BY <1>3, <1>5
  <2>2. PICK i \in places : \A j \in places : i <= j
    <3> HIDE DEF places
    <3> QED  BY <2>1, LeastNatural
  <2>3. \A j \in 1..(i - 1) : batch[j] # batch[i]
    <3> SUFFICES ASSUME NEW j \in 1..(i - 1), batch[j] = batch[i]
                 PROVE  FALSE
      OBVIOUS
    <3>1. j \in places /\ j < i  BY <1>3
    <3> QED  BY <1>3, <2>2, <3>1
  <2> QED  BY <1>2, <1>5, <2>3
<1> HIDE DEF at, added
<1>9. f \in Injection(at, added)  BY <1>6, <1>7 DEF Injection, IsInjective
<1>10. f \in Surjection(at, added)  BY <1>6, <1>8 DEF Surjection
<1>11. ExistsBijection(at, added)  BY <1>9, <1>10 DEF ExistsBijection, Bijection
<1> QED  BY <1>4, <1>11, FS_Bijection DEF at, added

LEMMA SettlePayoutBatchMoney ==
    ASSUME MoneyInv, NEW batch \in Batches, SettlePayoutBatch(batch)
    PROVE  (FundsInv /\ ClaimsInv /\ PayoutInv /\ VaultInv /\ PaidExactly)'
<1> DEFINE n       == lottery.winners_count
           before  == lottery.paid_winners
           added   == Added(batch)
           m       == Cardinality(PayingPositions(batch))
           left    == vault - Share * m
           allPaid == before \cup Named(batch) = 0..(n - 1)
           due(w)  == {i \in before : page.entries[i + 1] = w}
           more(w) == {i \in added : page.entries[i + 1] = w}
<1>1. /\ FundsInv /\ ClaimsInv /\ PayoutInv /\ VaultInv /\ PaidExactly
      /\ TypeOK /\ OutcomeInv /\ DrawInv
  BY DEF MoneyInv, SelectionInv, FinalityInv, TypeInv
<1>2. /\ lottery \in LotteryType /\ page \in [entries: Seq(Wallets), paid: SUBSET Nat]
      /\ received \in [Wallets -> Nat] /\ vault \in Nat /\ VaultRent \in Nat
  BY <1>1, MoneyAssumption DEF TypeOK
<1>3. /\ HasVestedWinners /\ n \in Nat \ {0} /\ ~lottery.settlement_complete
      /\ before \in SUBSET (0..(n - 1)) /\ page.paid = before
      /\ lottery.total_payout = Share * n
  <2>1. n # 0 /\ ~lottery.settlement_complete  BY DEF SettlePayoutBatch, MayPay
  <2> QED  BY <1>1, <1>2, <2>1 DEF HasVestedWinners, PayoutInv, LotteryType
<1>4. Share \in Nat /\ lottery.total_payout \div n = Share
  BY <1>1, <1>3, SharesFitPool, DivisionExact DEF Share
<1>5. /\ vault = VaultRent + lottery.total_funds - Share * Cardinality(before)
      /\ treasury = 0
  BY <1>1, <1>3 DEF VaultInv
<1>6. /\ Named(batch) \in SUBSET (0..(n - 1))
      /\ page' = [page EXCEPT !.paid = before \cup Named(batch)]
      /\ received' = [w \in Wallets |-> received[w] + Share * PaidTo(batch, w)]
      /\ vault' = IF allPaid THEN 0 ELSE left
      /\ treasury' = IF allPaid THEN treasury + left ELSE treasury
      /\ UNCHANGED <<roster, participant>>
  <2>1. PICK k \in 1..MaxBatch : batch \in [1..k -> 0..(Len(page.entries) - 1)]
    BY DEF Batches
  <2>2. \A i \in DOMAIN batch : batch[i] < n  BY DEF SettlePayoutBatch, MayPay
  <2>3. Named(batch) \in SUBSET (0..(n - 1))  BY <1>2, <1>3, <2>1, <2>2 DEF Named
  <2> QED  BY <1>3, <1>4, <2>3 DEF SettlePayoutBatch, MayPay, LeftAfter, PaidAfter,
                      AllPaidAfter, Named
<1>7. /\ lottery'.total_tickets = lottery.total_tickets
      /\ lottery'.total_funds = lottery.total_funds
      /\ lottery'.winners_count = n
      /\ lottery'.total_payout = lottery.total_payout
      /\ lottery'.paid_winners = before \cup Named(batch)
      /\ lottery'.settlement_complete = allPaid
  BY <1>2 DEF SettlePayoutBatch, MayPay, LeftAfter, PaidAfter,
                      AllPaidAfter, Named, LotteryType
<1>8. /\ IsFiniteSet(added) /\ m = Cardinality(added)
      /\ \A w \in Wallets : IsFiniteSet(more(w)) /\ PaidTo(batch, w) = Cardinality(more(w))
  <2>1. PICK k \in 1..MaxBatch : batch \in [1..k -> 0..(Len(page.entries) - 1)]
    BY DEF Batches
  <2>2. /\ \A i \in PayingPositions(batch) : batch[i] \in Nat
        /\ added \in SUBSET Nat
    BY <1>2, <2>1 DEF PayingPositions, Added, Named
  <2>3. IsFiniteSet(added) /\ m = Cardinality(added)
    <3>1. {i \in PayingPositions(batch) : batch[i] \in Nat} = PayingPositions(batch)
          /\ added \cap Nat = added
      BY <2>2
    <3> HIDE DEF added
    <3> QED  BY <1>1, <3>1, BatchPaysOnce DEF added
  <2>4. ASSUME NEW w \in Wallets
        PROVE  IsFiniteSet(more(w)) /\ PaidTo(batch, w) = Cardinality(more(w))
    <3> DEFINE X == {x \in Nat : page.entries[x + 1] = w}
    <3>1. /\ {i \in PayingPositions(batch) : batch[i] \in X} =
                 {i \in PayingPositions(batch) : page.entries[batch[i] + 1] = w}
          /\ added \cap X = more(w)
      BY <2>2
    <3> HIDE DEF X, more
    <3>2. /\ IsFiniteSet(added \cap X)
          /\ Cardinality({i \in PayingPositions(batch) : batch[i] \in X}) =
                 Cardinality(added \cap X)
      BY <1>1, BatchPaysOnce
    <3> QED  BY <3>1, <3>2 DEF PaidTo
  <2> QED  BY <2>3, <2>4
<1>9. /\ IsFiniteSet(before) /\ before \cap added = {}
      /\ before \cup Named(batch) = before \cup added
  <2>1. IsFiniteSet(0..(n - 1))  BY <1>3, FS_Interval
  <2>2. IsFiniteSet(before)  BY <1>3, <2>1, FS_Subset
  <2> QED  BY <2>2 DEF Added
<1>10. Cardinality(lottery.paid_winners)' = Cardinality(before) + m
       /\ Cardinality(before) \in Nat /\ m \in Nat
  <2>1. Cardinality(before \cup added) = Cardinality(before) + Cardinality(added) - 0
    <3> HIDE DEF before, added
    <3> QED  BY <1>8, <1>9, FS_Union, FS_EmptySet
  <2>2. Cardinality(before) \in Nat /\ m \in Nat  BY <1>8, <1>9, FS_CardinalityType
  <2>3. lottery'.paid_winners = before \cup added  BY <1>7, <1>9
  <2>4. m = Cardinality(added)  BY <1>8
  <2> HIDE DEF before, added, m
  <2> QED  BY <2>1, <2>2, <2>3, <2>4
<1>11. /\ HasVestedWinners' /\ Share' = Share
  BY <1>3, <1>7 DEF HasVestedWinners, Share, SharePerWinner, WinnersPool, ServiceFee
<1>12. FundsInv'
  <2>1. TicketCount(Wallets)' = TicketCount(Wallets)  BY <1>6 DEF TicketCount, Tickets
  <2> QED  BY <1>1, <1>7, <2>1 DEF FundsInv
<1>13. ClaimsInv'
  <2>1. Claimed = {} /\ Claimed' = Claimed
    BY <1>1, <1>3, <1>6 DEF ClaimsInv, Refundable, HasVestedWinners, Claimed
  <2> QED  BY <1>11, <2>1 DEF ClaimsInv
<1>14. PayoutInv'
  <2>1. page'.paid = lottery'.paid_winners  BY <1>2, <1>6, <1>7
  <2>2. lottery'.paid_winners \in SUBSET (0..(n - 1))  BY <1>3, <1>6, <1>7
  <2>3. WinnersPool' = WinnersPool /\ n <= WinnersPool
    BY <1>1, <1>3, <1>7 DEF PayoutInv, WinnersPool, ServiceFee
  <2> QED  BY <1>3, <1>7, <1>11, <2>1, <2>2, <2>3 DEF PayoutInv
<1>15. VaultInv'
  <2> DEFINE funds == lottery.total_funds
             b     == Cardinality(before)
  <2>1. b \in Nat /\ m \in Nat /\ Share \in Nat /\ funds \in Nat /\ VaultRent \in Nat
    BY <1>2, <1>4, <1>10 DEF LotteryType
  <2>2. vault = VaultRent + funds - Share * b  BY <1>5
  <2> HIDE DEF b, m, funds
  <2>3. Share * b + Share * m = Share * (b + m)  BY <2>1
  <2>4. Share * b \in Nat /\ Share * m \in Nat /\ Share * (b + m) \in Nat  BY <2>1
  <2>5. left = VaultRent + funds - Share * (b + m)  BY <2>1, <2>2, <2>3, <2>4
  <2>6. Cardinality(lottery.paid_winners)' = b + m  BY <1>10 DEF b
  <2>7. allPaid => b + m = n
    <3>1. allPaid => lottery'.paid_winners = 0..(n - 1)  BY <1>7
    <3>2. Cardinality(0..(n - 1)) = n  BY <1>3, FS_Interval
    <3> QED  BY <2>6, <3>1, <3>2
  <2>8. CASE allPaid
    <3>1. vault' = 0 /\ treasury' = 0 + left  BY <1>5, <1>6, <2>8
    <3>2. treasury' = VaultRent + funds - Share * n
      BY <2>1, <2>4, <2>5, <2>7, <2>8, <3>1
    <3> QED  BY <1>7, <1>11, <2>8, <3>1, <3>2 DEF VaultInv, funds
  <2>9. CASE ~allPaid
    <3>1. vault' = left /\ treasury' = 0  BY <1>5, <1>6, <2>9
    <3> QED  BY <1>7, <1>11, <2>5, <2>6, <2>9, <3>1 DEF VaultInv, funds
  <2> QED  BY <2>8, <2>9
<1>16. PaidExactly'
  <2> SUFFICES ASSUME NEW w \in Wallets
               PROVE  received'[w] = Share * Cardinality({i \in before \cup Named(batch) :
                                                            page.entries[i + 1] = w})
    <3> DEFINE owed(w) == {i \in before \cup Named(batch) : page.entries[i + 1] = w}
    <3>1. page'.entries = page.entries  BY <1>2, <1>6
    <3>2. SharePerWinner(lottery.winners_count)' = Share  BY <1>11 DEF Share
    <3>3. \A w \in Wallets : {i \in lottery'.paid_winners : page'.entries[i + 1] = w} = owed(w)
      BY <1>7, <3>1
    <3> HIDE DEF owed
    <3>4. (\A w \in Wallets : received'[w] = Share * Cardinality(owed(w))) => PaidExactly'
      BY <1>11, <3>2, <3>3 DEF PaidExactly
    <3> QED  BY <3>4 DEF owed
  <2>1. {i \in before \cup Named(batch) : page.entries[i + 1] = w} = due(w) \cup more(w)
        /\ due(w) \cap more(w) = {}
    BY <1>9
  <2>2. IsFiniteSet(due(w)) /\ IsFiniteSet(more(w))
    <3>1. due(w) \in SUBSET before  OBVIOUS
    <3> QED  BY <1>8, <1>9, <3>1, FS_Subset
  <2> DEFINE d == due(w)
             e == more(w)
  <2>3. received[w] = Share * Cardinality(d)
    BY <1>1, <1>3 DEF PaidExactly, Share
  <2>4. received'[w] = received[w] + Share * Cardinality(e)  BY <1>6, <1>8
  <2>5. IsFiniteSet(d) /\ IsFiniteSet(e) /\ d \cap e = {}  BY <2>1, <2>2
  <2>6. {i \in before \cup Named(batch) : page.entries[i + 1] = w} = d \cup e  BY <2>1
  <2> HIDE DEF d, e
  <2>7. Cardinality(d \cup e) = Cardinality(d) + Cardinality(e) - 0
        /\ Cardinality(d) \in Nat /\ Cardinality(e) \in Nat
    BY <2>5, FS_Union, FS_EmptySet, FS_CardinalityType
  <2>8. Share * Cardinality(d) + Share * Cardinality(e) = Share * (Cardinality(d) + Cardinality(e))
    BY <1>4, <2>7
  <2>9. Cardinality(d \cup e) = Cardinality(d) + Cardinality(e)  BY <2>7
  <2>10. received'[w] = Share * Cardinality(d \cup e)  BY <2>3, <2>4, <2>8, <2>9
  <2> QED  BY <2>6, <2>10
<1> QED  BY <1>12, <1>13, <1>14, <1>15, <1>16

LEMMA MoneyNext ==
    ASSUME MoneyInv, [Next]_vars
    PROVE  MoneyInv'
<1> DEFINE Ledger == FundsInv /\ ClaimsInv /\ PayoutInv /\ VaultInv /\ PaidExactly
<1>1. SelectionInv /\ SelectionInv' /\ TypeInv
  BY SelectionNext DEF MoneyInv, SelectionInv, FinalityInv
<1>2. Ledger'
  <2>1. CASE \E w \in Wallets, n \in 1..MaxTickets : BuyTickets(w, n)
    BY <2>1, BuyTicketsMoney
  <2>2. CASE \E last \in 1..Len(roster), draw \in 0..MaxTickets : SelectChunk(last, draw)
    BY <1>1, <2>2, SelectChunkMoney
  <2>3. CASE \E batch \in Batches : SettlePayoutBatch(batch)
    BY <2>3, SettlePayoutBatchMoney
  <2>4. CASE \E w \in Wallets : ClaimRefund(w)  BY <2>4, ClaimRefundMoney
  <2>5. CASE CloseRefundVault  BY <2>5, CloseRefundVaultMoney
  <2>6. CASE MoneyQuiet  BY <2>6, MoneyUndisturbed
  <2> QED  BY <1>1, <2>1, <2>2, <2>3, <2>4, <2>5, <2>6, MoneySteps
<1> QED  BY <1>1, <1>2 DEF MoneyInv

LEMMA MoneyInit == Init => MoneyInv
<1> SUFFICES ASSUME Init  PROVE MoneyInv
  OBVIOUS
<1>1. SelectionInv /\ TypeOK
  BY SelectionInit DEF SelectionInv, FinalityInv, TypeInv
<1>2. /\ ~HasVestedWinners /\ ~lottery.settlement_complete /\ lottery.paid_winners = {}
      /\ lottery.total_tickets = 0 /\ lottery.total_funds = 0
      /\ lottery.settlement_batches_completed = 0
      /\ page.paid = {} /\ vault = VaultRent /\ treasury = 0
      /\ \A w \in Wallets : /\ participant[w].tickets = 0 /\ ~participant[w].refund_claimed
                            /\ received[w] = 0
  BY DEF Init, NewLottery, NewParticipant, HasVestedWinners
<1>3. Claimed = {}  BY <1>2 DEF Claimed
<1>4. Tickets(Wallets) = {} /\ Tickets(Unclaimed) = {}
  <2>1. \A w \in Wallets, i \in 1..MaxTickets : ~(i <= participant[w].tickets)
    BY <1>2, LimitAssumption
  <2>2. Unclaimed \in SUBSET Wallets  BY DEF Unclaimed
  <2> QED  BY <2>1, <2>2 DEF Tickets
<1>5. TicketCount(Wallets) = 0 /\ TicketCount(Unclaimed) = 0
  BY <1>4, FS_EmptySet DEF TicketCount
<1>6. TicketPrice * 0 = 0 /\ VaultRent + 0 = VaultRent  BY MoneyAssumption
<1>7. FundsInv  BY <1>2, <1>5, <1>6 DEF FundsInv
<1>8. ClaimsInv  BY <1>2, <1>3, FS_EmptySet DEF ClaimsInv
<1>9. PayoutInv  BY <1>2 DEF PayoutInv
<1>10. VaultInv  BY <1>2, <1>5, <1>6 DEF VaultInv
<1>11. PaidExactly  BY <1>2 DEF PaidExactly
<1> QED  BY <1>1, <1>7, <1>8, <1>9, <1>10, <1>11 DEF MoneyInv

LEMMA MoneyAlways == Spec => []MoneyInv
<1>1. MoneyInv /\ [Next]_vars => MoneyInv'  BY MoneyNext
<1> QED  BY <1>1, MoneyInit, PTL DEF Spec

(* No wallet is ever sent more, or less for a flag it carries, than its one
   entitlement: one share per paid index it holds, or its deposit back. *)
THEOREM PaysExactly == Spec => []PaidExactly
<1>1. MoneyInv => PaidExactly  BY DEF MoneyInv
<1> QED  BY <1>1, MoneyAlways, PTL

(* Until it is closed, the vault covers its rent and everything still owed:
   deposits, unpaid shares and the fee, or unclaimed refunds. *)
THEOREM AlwaysSolvent == Spec => []Solvent
<1>1. MoneyInv => Solvent
  <2> SUFFICES ASSUME MoneyInv, ~Closed
               PROVE  vault >= VaultRent + StillOwed
    BY DEF Solvent
  <2>1. /\ FundsInv /\ ClaimsInv /\ PayoutInv /\ VaultInv /\ TypeOK
    BY DEF MoneyInv, SelectionInv, FinalityInv, TypeInv
  <2>2. /\ lottery \in LotteryType /\ VaultRent \in Nat /\ TicketPrice \in Nat
        /\ ~lottery.settlement_complete
    BY <2>1, MoneyAssumption DEF TypeOK, Closed
  <2>3. CASE HasVestedWinners
    <3> DEFINE n     == lottery.winners_count
               p     == Cardinality(lottery.paid_winners)
               funds == lottery.total_funds
               fee   == ServiceFee
               pool  == WinnersPool
    <3>1. n \in Nat \ {0} /\ lottery.paid_winners \in SUBSET (0..(n - 1))
      BY <2>1, <2>2, <2>3 DEF PayoutInv, LotteryType
    <3>2. p \in Nat
      <4>1. IsFiniteSet(0..(n - 1))  BY <3>1, FS_Interval
      <4> QED  BY <3>1, <4>1, FS_Subset, FS_CardinalityType
    <3>3. vault = VaultRent + funds - Share * p  BY <2>1, <2>2, <2>3 DEF VaultInv
    <3>4. /\ fee \in Nat /\ pool \in Nat /\ funds = fee + pool
          /\ Share \in Nat /\ Share * n <= pool
      BY <2>1, <3>1, SharesFitPool DEF Share
    <3>5. StillOwed = Share * (n - p) + fee  BY <2>3 DEF StillOwed, UnpaidShares, Share
    <3> HIDE DEF n, p, funds, fee, pool
    <3>6. Share * (n - p) = Share * n - Share * p  BY <3>1, <3>2, <3>4
    <3>7. Share * n \in Nat /\ Share * p \in Nat  BY <3>1, <3>2, <3>4
    <3> QED  BY <2>2, <3>3, <3>4, <3>5, <3>6, <3>7
  <2>4. CASE ~HasVestedWinners
    <3>1. StillOwed = TicketPrice * TicketCount(Unclaimed)
      <4>1. CASE lottery.settled  BY <2>4, <4>1 DEF StillOwed
      <4>2. CASE ~lottery.settled
        <5>1. Claimed = {}  BY <2>1, <4>2 DEF ClaimsInv, Refundable
        <5>2. Unclaimed = Wallets  BY <5>1 DEF Claimed, Unclaimed
        <5> QED  BY <2>4, <4>2, <5>2 DEF StillOwed
      <4> QED  BY <4>1, <4>2
    <3>2. vault = VaultRent + TicketPrice * TicketCount(Unclaimed)
      BY <2>1, <2>4 DEF VaultInv, Closed
    <3>3. TicketCount(Unclaimed) \in Nat
      <4>1. Unclaimed \in SUBSET Wallets  BY DEF Unclaimed
      <4> QED  BY <2>1, <4>1, TicketsFinite
    <3>4. TicketPrice * TicketCount(Unclaimed) \in Nat  BY <2>2, <3>3
    <3> QED  BY <2>2, <3>1, <3>2, <3>4
  <2> QED  BY <2>3, <2>4
<1> QED  BY <1>1, MoneyAlways, PTL

(***************************************************************************)
(* A winner of a settled draw holds exactly one index.                     *)
(***************************************************************************)
LEMMA OneIndexPerWinner ==
    ASSUME MoneyInv, HasVestedWinners, NEW w \in Winners
    PROVE  Cardinality({i \in 0..(lottery.winners_count - 1) : page.entries[i + 1] = w}) = 1
<1> DEFINE n    == lottery.winners_count
           mine == {i \in 0..(n - 1) : page.entries[i + 1] = w}
<1>1. /\ n \in Nat /\ n = Len(page.entries) /\ page.entries \in Seq(Wallets)
      /\ \A i, j \in DOMAIN page.entries : page.entries[i] = page.entries[j] => i = j
  <2>1. TypeOK /\ root.phase = "completed" /\ DrawInv
    BY DEF MoneyInv, SelectionInv, OutcomeInv, FinalityInv, TypeInv
  <2> QED  BY <2>1 DEF TypeOK, DrawInv, DrawnInv, LotteryType
<1>2. PICK j \in 1..n : page.entries[j] = w  BY <1>1 DEF Winners
<1>3. mine = {j - 1}
  <2>1. j - 1 \in 0..(n - 1) /\ (j - 1) + 1 = j  BY <1>1, <1>2
  <2>2. \A i \in 0..(n - 1) : i + 1 \in 1..n /\ (i + 1 = j => i = j - 1)  BY <1>1, <1>2
  <2>3. 1..n = DOMAIN page.entries /\ j \in 1..n  BY <1>1, <1>2
  <2>4. \A i \in 1..n : page.entries[i] = w => i = j  BY <1>1, <1>2, <2>3
  <2>5. j - 1 \in mine  BY <1>2, <2>1
  <2>6. \A i \in mine : i = j - 1  BY <2>2, <2>4
  <2> HIDE DEF mine
  <2> QED  BY <2>5, <2>6
<1> QED  BY <1>3, FS_Singleton

(* The authority gets nothing before everyone else has been paid in full,
   and then the rent and, if winners vested, the fee and less than one unit
   per winner of rounding. *)
THEOREM AuthorityIsPaidLast == Spec => []AuthorityPaidLast
<1>1. MoneyInv => AuthorityPaidLast
  <2> SUFFICES ASSUME MoneyInv, treasury # 0
               PROVE  AuthorityPaidLast
    BY DEF AuthorityPaidLast
  <2>1. /\ FundsInv /\ ClaimsInv /\ PayoutInv /\ VaultInv /\ PaidExactly /\ TypeOK
    BY DEF MoneyInv, SelectionInv, FinalityInv, TypeInv
  <2>2. /\ lottery \in LotteryType /\ VaultRent \in Nat
    BY <2>1, MoneyAssumption DEF TypeOK
  <2>3. CASE HasVestedWinners
    <3> DEFINE n     == lottery.winners_count
               funds == lottery.total_funds
               fee   == ServiceFee
               pool  == WinnersPool
    <3>1. /\ lottery.settlement_complete
          /\ vault = 0 /\ treasury = VaultRent + funds - Share * n
      BY <2>1, <2>3 DEF VaultInv
    <3>2. n \in Nat \ {0} /\ lottery.paid_winners = 0..(n - 1)
      BY <2>1, <2>2, <2>3, <3>1 DEF PayoutInv, LotteryType
    <3>3. /\ fee \in Nat /\ pool \in Nat /\ funds = fee + pool
          /\ Share \in Nat /\ Share * n \in Nat /\ Share * n <= pool /\ pool < Share * n + n
      BY <2>1, <3>2, SharesFitPool DEF Share
    <3>4. treasury - VaultRent - fee \in 0..(n - 1)
      <4> DEFINE out == Share * n
      <4>1. out \in Nat /\ out <= pool /\ pool < out + n
            /\ treasury = VaultRent + funds - out
        BY <3>1, <3>3
      <4> HIDE DEF n, funds, fee, pool, out
      <4>2. treasury - VaultRent - fee = pool - out  BY <2>2, <3>3, <4>1
      <4> QED  BY <3>2, <3>3, <4>1, <4>2
    <3>5. ASSUME NEW w \in Winners
          PROVE  received[w] = SharePerWinner(n)
      <4>1. w \in Wallets  BY <2>1 DEF Winners, TypeOK
      <4>2. received[w] = SharePerWinner(n) *
                Cardinality({i \in lottery.paid_winners : page.entries[i + 1] = w})
        BY <2>1, <2>3, <4>1 DEF PaidExactly
      <4>3. received[w] = SharePerWinner(n) * 1
        BY <2>3, <3>2, <4>2, OneIndexPerWinner
      <4> QED  BY <3>3, <4>3 DEF Share
    <3> QED  BY <2>3, <3>1, <3>4, <3>5 DEF AuthorityPaidLast
  <2>4. CASE ~HasVestedWinners
    <3>1. TicketCount(Unclaimed) = 0 /\ vault = 0 /\ treasury = VaultRent
      BY <2>1, <2>4 DEF VaultInv
    <3>2. ASSUME NEW w \in Wallets
          PROVE  received[w] = RefundOf(w)
      <4>1. CASE participant[w].refund_claimed  BY <2>1, <2>4, <4>1 DEF PaidExactly
      <4>2. CASE ~participant[w].refund_claimed
        <5>1. Unclaimed \in SUBSET Wallets /\ w \in Unclaimed  BY <4>2 DEF Unclaimed
        <5>2. participant[w].tickets = 0
          <6>1. /\ TicketCount(Unclaimed) =
                       TicketCount(Unclaimed \ {w}) + participant[w].tickets
                /\ TicketCount(Unclaimed \ {w}) \in Nat /\ participant[w].tickets \in Nat
            BY <2>1, <5>1, TicketsClaimed
          <6> QED  BY <3>1, <6>1
        <5>3. RefundOf(w) = 0  BY <5>2, MoneyAssumption DEF RefundOf
        <5> QED  BY <2>1, <2>4, <4>2, <5>3 DEF PaidExactly
      <4> QED  BY <4>1, <4>2
    <3> QED  BY <2>4, <3>1, <3>2 DEF AuthorityPaidLast
  <2> QED  BY <2>3, <2>4
<1> QED  BY <1>1, MoneyAlways, PTL

------------------------------------------------------------------------------
LEMMA SaturatedNatural ==
    ASSUME NEW a \in Nat
    PROVE  Max({a, 0}) = a
<1>1. a \in Int /\ 0 \in Int /\ a >= 0  OBVIOUS
<1>2. Max({a, 0}) \in {a, 0} /\ Max({a, 0}) >= a  BY <1>1, MaxPair
<1>3. CASE Max({a, 0}) = 0  BY <1>1, <1>2, <1>3
<1> QED  BY <1>2, <1>3

(***************************************************************************)
(* Nobody is blocked.  A batch that names one unpaid winner is accepted.   *)
(***************************************************************************)
LEMMA ShareIsPayable ==
    ASSUME MoneyInv, HasVestedWinners, NEW i \in Unpaid
    PROVE  MayPay(<<i>>)
<1> DEFINE n     == lottery.winners_count
           paid  == lottery.paid_winners
           p     == Cardinality(paid)
           funds == lottery.total_funds
           fee   == ServiceFee
           owed  == Share * n
           batch == <<i>>
<1>1. /\ PayoutInv /\ VaultInv /\ TypeOK /\ OutcomeInv /\ DrawInv
      /\ lottery \in LotteryType /\ VaultRent \in Nat
  BY MoneyAssumption DEF MoneyInv, SelectionInv, FinalityInv, TypeInv, TypeOK
<1>2. /\ n \in Nat \ {0} /\ paid \in SUBSET (0..(n - 1)) /\ page.paid = paid
      /\ i \in 0..(n - 1) /\ i \notin paid /\ lottery.total_payout = owed
      /\ funds \in Nat
  BY <1>1 DEF PayoutInv, LotteryType, Unpaid
<1>3. ~lottery.settlement_complete  BY <1>1, <1>2 DEF PayoutInv
<1>4. n = Len(page.entries)
  <2>1. root.phase = "completed"  BY <1>1 DEF OutcomeInv
  <2> QED  BY <1>1, <2>1 DEF DrawInv, DrawnInv
<1>5. /\ Share \in Nat /\ owed \in Nat /\ fee \in Nat
      /\ fee + owed <= funds
      /\ owed \div n = Share
  <2>1. /\ fee \in Nat /\ WinnersPool \in Nat /\ funds = fee + WinnersPool
        /\ Share \in Nat /\ owed \in Nat /\ owed <= WinnersPool
    BY <1>1, <1>2, SharesFitPool DEF Share
  <2>2. owed \div n = Share
    <3> HIDE DEF n
    <3> QED  BY <1>2, <2>1, DivisionExact
  <2> HIDE DEF owed, fee, funds
  <2> QED  BY <2>1, <2>2
<1>6. p \in Nat /\ p + 1 <= n
  <2> HIDE DEF n, paid
  <2>1. IsFiniteSet(0..(n - 1)) /\ Cardinality(0..(n - 1)) = n
    <3>1. 0 \in Int /\ n - 1 \in Int /\ ~(0 > n - 1) /\ (n - 1) - 0 + 1 = n  BY <1>2
    <3> QED  BY <3>1, FS_Interval
  <2>2. IsFiniteSet(paid)  BY <1>2, <2>1, FS_Subset
  <2>3. Cardinality(paid \cup {i}) = Cardinality(paid) + 1  BY <1>2, <2>2, FS_AddElement
  <2>4. Cardinality(paid \cup {i}) <= n
    <3>1. paid \cup {i} \in SUBSET (0..(n - 1))  BY <1>2
    <3> QED  BY <2>1, <3>1, FS_Subset
  <2>5. Cardinality(paid) \in Nat  BY <2>2, FS_CardinalityType
  <2> QED  BY <2>3, <2>4, <2>5
<1>7. LeftAfter(batch) = VaultRent + funds - Share * (p + 1)
  <2>1. vault = VaultRent + funds - Share * p  BY <1>1, <1>3 DEF VaultInv
  <2>2. PayingPositions(batch) = {1}  BY <1>2 DEF PayingPositions
  <2>3. Cardinality(PayingPositions(batch)) = 1  BY <2>2, FS_Singleton
  <2>4. LeftAfter(batch) = vault - Share * 1  BY <1>2, <1>5, <2>3 DEF LeftAfter
  <2> HIDE DEF p, funds, batch
  <2>5. Share * (p + 1) = Share * p + Share /\ Share * p \in Nat  BY <1>5, <1>6
  <2> QED  BY <1>1, <1>2, <1>5, <2>1, <2>4, <2>5
<1>8. LeftAfter(batch) >= VaultRent + funds - owed
  <2> HIDE DEF n, p, funds, batch
  <2>1. Share * (p + 1) <= Share * n  BY <1>2, <1>5, <1>6
  <2>2. Share * (p + 1) \in Nat /\ Share * n \in Nat  BY <1>2, <1>5, <1>6
  <2> QED  BY <1>1, <1>2, <1>7, <2>1, <2>2
<1> DEFINE remainder == Max({Max({funds - lottery.total_payout, 0}) - fee, 0})
<1>9. fee + remainder = funds - owed
  <2> DEFINE over == funds - owed
  <2>1. over \in Nat /\ over - fee \in Nat
    <3> HIDE DEF funds, owed, fee
    <3> QED  BY <1>2, <1>5
  <2> HIDE DEF fee
  <2>2. funds - lottery.total_payout = over  BY <1>2
  <2> HIDE DEF over
  <2>3. Max({over, 0}) = over  BY <2>1, SaturatedNatural
  <2> DEFINE rest == over - fee
  <2>4. rest \in Nat  BY <2>1
  <2>5. remainder = Max({rest, 0})  BY <2>2, <2>3
  <2> HIDE DEF rest, remainder
  <2>6. remainder = rest  BY <2>4, <2>5, SaturatedNatural
  <2> QED  BY <1>5, <2>1, <2>6 DEF rest, over
<1>10. LeftAfter(batch) >= 0 /\ LeftAfter(batch) >= fee + remainder
  <2>1. Share * (p + 1) \in Nat
    <3> HIDE DEF p
    <3> QED  BY <1>5, <1>6
  <2> DEFINE left == LeftAfter(batch)
             sent == Share * (p + 1)
             kept == fee + remainder
  <2>2. left = VaultRent + funds - sent /\ left >= VaultRent + funds - owed
        /\ kept = funds - owed /\ sent \in Nat
    BY <1>7, <1>8, <1>9, <2>1
  <2> HIDE DEF left, sent, kept, funds, owed, fee
  <2>3. left >= 0 /\ left >= kept  BY <1>1, <1>2, <1>5, <2>2
  <2> QED  BY <2>3 DEF left, kept
<1>11. \A j \in DOMAIN batch : /\ batch[j] < n
                               /\ batch[j] < Len(page.entries)
                               /\ PageOf(batch[j]) = PageOf(batch[1])
                               /\ batch[j] \in page.paid <=> batch[j] \in paid
  BY <1>2, <1>4
<1>12. batch # << >>  OBVIOUS
<1>13. n # 0 /\ ~lottery.settlement_complete  BY <1>2, <1>3
<1> HIDE DEF batch
<1>14. MayPay(batch)  BY <1>10, <1>11, <1>12, <1>13 DEF MayPay
<1> QED  BY <1>14 DEF batch

(***************************************************************************)
(* Everybody listed holds tickets, and a Participant account is deleted    *)
(* only behind its owner's claim or the last payout.                       *)
(***************************************************************************)
HasLeft(w) ==
    participant[w].refund_claimed \/ (lottery.settlement_complete /\ lottery.winners_count # 0)

AccountsInv ==
    /\ \A w \in Chunk(1, Len(roster)) : participant[w].tickets # 0
    /\ \A w \in Wallets : participant[w].tickets # 0 => participant[w].open \/ HasLeft(w)

AccountsQuiet ==
    /\ roster' = roster
    /\ \A w \in Wallets :
          /\ participant'[w].tickets = participant[w].tickets
          /\ participant'[w].open = participant[w].open
          /\ participant[w].refund_claimed => participant'[w].refund_claimed

LEMMA AccountsSteps ==
    ASSUME TypeInv, [Next]_vars
    PROVE  \/ \E w \in Wallets, n \in 1..MaxTickets : BuyTickets(w, n)
           \/ \E w \in Wallets : CloseParticipant(w)
           \/ AccountsQuiet
<1>1. participant \in [Wallets -> ParticipantType]  BY DEF TypeInv, TypeOK
<1>2. CASE Tick \/ UNCHANGED vars  BY <1>2 DEF Tick, vars, AccountsQuiet
<1>3. ASSUME NEW w \in Wallets, NEW v \in 1..MaxWinnersCap, AttestUploaded(w, v)
      PROVE  AccountsQuiet
  BY <1>1, <1>3 DEF AttestUploaded, Attested, ParticipantType, AccountsQuiet
<1>4. ASSUME NEW w \in Wallets, NEW v \in 1..MaxWinnersCap, AttestReveal(w, v)
      PROVE  AccountsQuiet
  BY <1>1, <1>4 DEF AttestReveal, Attested, ParticipantType, AccountsQuiet
<1>5. ASSUME NEW byAuthority \in BOOLEAN, NEW S \in SUBSET Wallets, UploadReveals(byAuthority, S)
      PROVE  AccountsQuiet
  BY <1>1, <1>5 DEF UploadReveals, ParticipantType, AccountsQuiet
<1>6. CASE BeginRemediation  BY <1>6 DEF BeginRemediation, AccountsQuiet
<1>7. ASSUME NEW last \in 1..Len(roster), NEW draw \in 0..MaxTickets, AggregateChunk(last, draw)
      PROVE  AccountsQuiet
  BY <1>1, <1>7 DEF AggregateChunk, ParticipantType, AccountsQuiet
<1>8. ASSUME NEW last \in 1..Len(roster), NEW draw \in 0..MaxTickets, SelectChunk(last, draw)
      PROVE  AccountsQuiet
  BY <1>1, <1>8 DEF SelectChunk, ParticipantType, AccountsQuiet
<1>9. ASSUME NEW batch \in Batches, SettlePayoutBatch(batch)
      PROVE  AccountsQuiet
  BY <1>9 DEF SettlePayoutBatch, AccountsQuiet
<1>10. CASE FinalizeNoAttesters  BY <1>10 DEF FinalizeNoAttesters, AccountsQuiet
<1>11. ASSUME NEW w \in Wallets, ClaimRefund(w)
       PROVE  AccountsQuiet
  BY <1>1, <1>11 DEF ClaimRefund, ParticipantType, AccountsQuiet
<1>12. CASE CloseRefundVault  BY <1>12 DEF CloseRefundVault, AccountsQuiet
<1> QED
  BY <1>2, <1>3, <1>4, <1>5, <1>6, <1>7, <1>8, <1>9, <1>10, <1>11, <1>12 DEF Next

\* nobody who has left comes to be owed something again
LEMMA LeftForGood ==
    ASSUME MoneyInv, [Next]_vars, NEW w \in Wallets, HasLeft(w),
           participant[w].refund_claimed => participant'[w].refund_claimed
    PROVE  HasLeft(w)'
<1>1. TypeInv /\ lottery \in LotteryType
  BY DEF MoneyInv, SelectionInv, FinalityInv, TypeInv, TypeOK
<1> SUFFICES ASSUME lottery.settlement_complete, lottery.winners_count # 0
             PROVE  lottery'.settlement_complete /\ lottery'.winners_count # 0
  BY DEF HasLeft
<1>2. CASE \E u \in Wallets, n \in 1..MaxTickets : BuyTickets(u, n)
  BY <1>1, <1>2 DEF BuyTickets, LotteryType
<1>3. CASE \E last \in 1..Len(roster), draw \in 0..MaxTickets : SelectChunk(last, draw)
  BY <1>3 DEF SelectChunk, ReadyToFinalize, Finalizing
<1>4. CASE \E batch \in Batches : SettlePayoutBatch(batch)
  BY <1>4 DEF SettlePayoutBatch, MayPay
<1>5. CASE \E u \in Wallets : ClaimRefund(u)  BY <1>5 DEF ClaimRefund, MayClaim, Refundable
<1>6. CASE CloseRefundVault  BY <1>6 DEF CloseRefundVault
<1>7. CASE MoneyQuiet  BY <1>7 DEF MoneyQuiet
<1> QED  BY <1>1, <1>2, <1>3, <1>4, <1>5, <1>6, <1>7, MoneySteps

LEMMA AccountsNext ==
    ASSUME MoneyInv, AccountsInv, [Next]_vars
    PROVE  AccountsInv'
<1>1. TypeInv /\ TypeOK /\ participant \in [Wallets -> ParticipantType]
      /\ roster \in Seq(Wallets)
  BY DEF MoneyInv, SelectionInv, FinalityInv, TypeInv, TypeOK
<1>2. ASSUME NEW w \in Wallets, NEW n \in 1..MaxTickets, BuyTickets(w, n)
      PROVE  AccountsInv'
  <2>1. /\ participant' = [participant EXCEPT ![w].open = TRUE,
                                              ![w].tickets = participant[w].tickets + n]
        /\ roster' = roster \/ roster' = Append(roster, w)
    BY <1>2 DEF BuyTickets
  <2>2. /\ participant'[w].tickets = participant[w].tickets + n
        /\ participant'[w].open
        /\ \A u \in Wallets : /\ u # w => participant'[u] = participant[u]
                              /\ participant'[u].refund_claimed = participant[u].refund_claimed
    BY <1>1, <2>1 DEF ParticipantType
  <2>3. participant'[w].tickets # 0
    <3>1. participant[w].tickets \in Nat  BY <1>1, LimitAssumption DEF ParticipantType
    <3> QED  BY <2>2, <3>1, LimitAssumption
  <2>4. Chunk(1, Len(roster))' \in SUBSET (Chunk(1, Len(roster)) \cup {w})
    <3>1. CASE roster' = roster  BY <3>1 DEF Chunk
    <3>2. CASE roster' = Append(roster, w)
      <4>1. \A i \in 1..Len(roster') : \/ i \in 1..Len(roster) /\ roster'[i] = roster[i]
                                       \/ roster'[i] = w
        BY <1>1, <3>2
      <4> QED  BY <4>1 DEF Chunk
    <3> QED  BY <2>1, <3>1, <3>2
  <2>5. Chunk(1, Len(roster)) \in SUBSET Wallets  BY <1>1 DEF Chunk
  <2>6. \A u \in Chunk(1, Len(roster))' : participant'[u].tickets # 0
    BY <2>2, <2>3, <2>4, <2>5 DEF AccountsInv
  <2>7. ASSUME NEW u \in Wallets, participant'[u].tickets # 0
        PROVE  participant'[u].open \/ HasLeft(u)'
    <3>1. CASE u = w  BY <2>2, <3>1
    <3>2. CASE u # w
      <4>1. participant[u].open \/ HasLeft(u)  BY <2>2, <2>7, <3>2 DEF AccountsInv
      <4> QED  BY <2>2, <3>2, <4>1, LeftForGood
    <3> QED  BY <3>1, <3>2
  <2> QED  BY <2>6, <2>7 DEF AccountsInv
<1>3. ASSUME NEW w \in Wallets, CloseParticipant(w)
      PROVE  AccountsInv'
  <2>1. /\ participant' = [participant EXCEPT ![w].open = FALSE]
        /\ UNCHANGED <<lottery, roster>>
        /\ HasLeft(w)
    <3>1. lottery.winners_count > 0 => lottery.winners_count # 0
      BY <1>1 DEF TypeOK, LotteryType
    <3> QED  BY <1>3, <3>1 DEF CloseParticipant, HasLeft
  <2>2. \A u \in Wallets : /\ participant'[u].tickets = participant[u].tickets
                           /\ participant'[u].refund_claimed = participant[u].refund_claimed
                           /\ u # w => participant'[u].open = participant[u].open
    BY <1>1, <2>1 DEF ParticipantType
  <2>3. Chunk(1, Len(roster))' = Chunk(1, Len(roster))
        /\ Chunk(1, Len(roster)) \in SUBSET Wallets
    BY <1>1, <2>1 DEF Chunk
  <2>4. \A u \in Wallets : HasLeft(u)' <=> HasLeft(u)  BY <2>1, <2>2 DEF HasLeft
  <2> QED  BY <2>1, <2>2, <2>3, <2>4 DEF AccountsInv
<1>4. ASSUME AccountsQuiet  PROVE AccountsInv'
  <2>1. Chunk(1, Len(roster))' = Chunk(1, Len(roster))
        /\ Chunk(1, Len(roster)) \in SUBSET Wallets
    BY <1>1, <1>4 DEF AccountsQuiet, Chunk
  <2>2. \A w \in Wallets : HasLeft(w) => HasLeft(w)'
    BY <1>4, LeftForGood DEF AccountsQuiet
  <2> QED  BY <1>4, <2>1, <2>2 DEF AccountsInv, AccountsQuiet
<1> QED  BY <1>1, <1>2, <1>3, <1>4, AccountsSteps

(***************************************************************************)
(* A claim is accepted, and behind the last one the vault can be closed.   *)
(***************************************************************************)
LEMMA RefundIsClaimable ==
    ASSUME MoneyInv, AccountsInv, Refundable, NEW w \in OwedRefund
    PROVE  MayClaim(w)
<1>1. /\ ClaimsInv /\ VaultInv /\ TypeOK /\ RosterInv /\ ~HasVestedWinners
      /\ lottery \in LotteryType /\ VaultRent \in Nat /\ TicketPrice \in Nat \ {0}
  BY MoneyAssumption
     DEF MoneyInv, SelectionInv, FinalityInv, TypeInv, TypeOK, Refundable, HasVestedWinners
<1>2. /\ w \in Wallets /\ w \in Unclaimed /\ w \notin Claimed
      /\ participant[w].tickets # 0 /\ participant[w].tickets \in Nat
      /\ Unclaimed \in SUBSET Wallets
  <2>1. participant[w].tickets \in 0..MaxTickets
    BY <1>1 DEF TypeOK, ParticipantType, OwedRefund
  <2> QED  BY <2>1, LimitAssumption DEF OwedRefund, Unclaimed, Claimed
<1>3. participant[w].open
  BY <1>2 DEF AccountsInv, HasLeft, Refundable, Claimed
<1>4. vault >= RefundOf(w)
  <2> DEFINE all  == TicketCount(Unclaimed)
             rest == TicketCount(Unclaimed \ {w})
             mine == participant[w].tickets
  <2>1. all = rest + mine /\ rest \in Nat /\ mine \in Nat /\ mine # 0
    BY <1>1, <1>2, TicketsClaimed
  <2>2. all # 0 => vault = VaultRent + TicketPrice * all  BY <1>1 DEF VaultInv
  <2>3. RefundOf(w) = TicketPrice * mine  BY DEF RefundOf
  <2> HIDE DEF all, rest, mine
  <2>4. TicketPrice * all = TicketPrice * rest + TicketPrice * mine
        /\ TicketPrice * rest \in Nat /\ TicketPrice * mine \in Nat
    BY <1>1, <2>1
  <2> QED  BY <1>1, <2>1, <2>2, <2>3, <2>4
<1>5. lottery.settlement_batches_completed < U32Max
  <2> DEFINE all == Chunk(1, Len(roster))
  <2>1. /\ IsFiniteSet(all) /\ Len(roster) \in Nat /\ Cardinality(all) = Len(roster)
        /\ Claimed \in SUBSET all /\ w \in all
    BY <1>1, <1>2, RosterSize DEF RosterInv, ClaimsInv
  <2>2. /\ Len(roster) \in 0..MaxParticipants
        /\ lottery.settlement_batches_completed = Cardinality(Claimed)
    BY <1>1 DEF RosterInv, ClaimsInv, LotteryType
  <2> HIDE DEF all
  <2>3. IsFiniteSet(Claimed) /\ Claimed \cup {w} \in SUBSET all
    BY <2>1, FS_Subset
  <2>4. Cardinality(Claimed \cup {w}) = Cardinality(Claimed) + 1
    BY <1>2, <2>3, FS_AddElement
  <2>5. Cardinality(Claimed \cup {w}) <= Cardinality(all) /\ Cardinality(Claimed) \in Nat
    BY <2>1, <2>3, FS_Subset, FS_CardinalityType
  <2> QED  BY <2>1, <2>2, <2>4, <2>5, LimitAssumption
<1> QED  BY <1>2, <1>3, <1>4, <1>5 DEF MayClaim, Claimed

LEMMA VaultIsClosable ==
    ASSUME MoneyInv, AccountsInv, Refundable, OwedRefund = {}, vault # 0
    PROVE  MayClose
<1>1. ClaimsInv /\ TypeOK /\ RosterInv /\ ~HasVestedWinners
  BY DEF MoneyInv, SelectionInv, FinalityInv, TypeInv, Refundable, HasVestedWinners
<1> DEFINE all == Chunk(1, Len(roster))
<1>2. /\ all \in SUBSET Wallets /\ Cardinality(all) = Len(roster) /\ Len(roster) \in Nat
      /\ Len(roster) = lottery.participants_count /\ Claimed \in SUBSET all
      /\ lottery.settlement_batches_completed = Cardinality(Claimed)
  BY <1>1, RosterSize DEF RosterInv, ClaimsInv
<1>3. Claimed = all
  <2> SUFFICES ASSUME NEW w \in all  PROVE w \in Claimed
    BY <1>2
  <2>1. w \in Wallets /\ participant[w].tickets # 0  BY <1>2 DEF AccountsInv
  <2>2. participant[w].tickets \in 0..MaxTickets  BY <1>1, <2>1 DEF TypeOK, ParticipantType
  <2>3. participant[w].tickets > 0  BY <2>1, <2>2, LimitAssumption
  <2> QED  BY <2>1, <2>3 DEF OwedRefund, Claimed
<1> HIDE DEF all
<1>4. AllRefundsClaimed  BY <1>2, <1>3 DEF AllRefundsClaimed
<1> QED  BY <1>4 DEF MayClose

(* Nobody depends on anybody else for what it is owed: every unpaid winner's
   batch, every unclaimed refund, the closing behind the last of them and,
   from the settlement deadline on, the cancellation are accepted. *)
THEOREM NobodyIsBlocked == Spec => []NobodyBlocked
<1>1. Init => AccountsInv
  <2> SUFFICES ASSUME Init  PROVE AccountsInv
    OBVIOUS
  <2>1. \A w \in Wallets : participant[w].tickets = 0  BY DEF Init, NewParticipant
  <2>2. Chunk(1, Len(roster)) = {}  BY DEF Init, Chunk
  <2> QED  BY <2>1, <2>2 DEF AccountsInv
<1>2. MoneyInv /\ AccountsInv /\ [Next]_vars => AccountsInv'  BY AccountsNext
<1>3. MoneyInv /\ AccountsInv => NobodyBlocked
  <2> SUFFICES ASSUME MoneyInv, AccountsInv  PROVE NobodyBlocked
    OBVIOUS
  <2>1. /\ PayoutInv /\ TypeOK /\ lottery \in LotteryType
    BY DEF MoneyInv, SelectionInv, FinalityInv, TypeInv, TypeOK
  <2>2. ASSUME HasVestedWinners, ~lottery.settlement_complete
        PROVE  Unpaid # {} /\ \A i \in Unpaid : MayPay(<<i>>)
    <3>1. /\ lottery.paid_winners \in SUBSET (0..(lottery.winners_count - 1))
          /\ lottery.paid_winners # 0..(lottery.winners_count - 1)
      BY <2>1, <2>2 DEF PayoutInv
    <3>2. Unpaid # {}  BY <3>1 DEF Unpaid
    <3> QED  BY <2>2, <3>2, ShareIsPayable
  <2>3. Refundable => \A w \in OwedRefund : MayClaim(w)  BY RefundIsClaimable
  <2>4. Refundable /\ OwedRefund = {} /\ vault # 0 => MayClose  BY VaultIsClosable
  <2>5. ASSUME SettlementExpired, ~HasVestedWinners, ~lottery.settled
        PROVE  Cancellable
    <3>1. now >= SettlementDeadline /\ now \in Nat  BY <2>1, <2>5 DEF SettlementExpired, TypeOK
    <3>2. UploadDeadline \in Nat /\ SettlementDeadline >= UploadDeadline
          /\ SettlementDeadline \in Nat
      BY ScheduleAssumption DEF SettlementDeadline, UploadDeadline, BuyDeadline
    <3>3. now >= UploadDeadline  BY <3>1, <3>2
    <3> QED  BY <2>5, <3>3 DEF Cancellable, MayCancel
  <2> QED  BY <2>2, <2>3, <2>4, <2>5 DEF NobodyBlocked
<1> QED  BY <1>1, <1>2, <1>3, MoneyAlways, PTL DEF Spec

------------------------------------------------------------------------------
(***************************************************************************)
(* The daily lottery implements the escrow of Escrow.tla, for every value  *)
(* of the constants: each instruction, read through the mapping of         *)
(* DailyLotteryEscrow, is a step of the escrow or changes nothing of it.   *)
(***************************************************************************)

(***************************************************************************)
(* Sums over a set, taken one element at a time, are whatever function of  *)
(* the set grows by each element's value.                                  *)
(***************************************************************************)
GrowsBy(G, f, D) ==
    /\ G \in [SUBSET D -> Int]
    /\ G[{}] = 0
    /\ \A s \in SUBSET D : \A x \in s : G[s] = f[x] + G[s \ {x}]

LEMMA SumIs ==
    ASSUME NEW D, IsFiniteSet(D), NEW f, NEW G, GrowsBy(G, f, D)
    PROVE  E!SumOver(f, D) = G[D]
<1>0. /\ G \in [SUBSET D -> Int] /\ G[{}] = 0
      /\ \A s \in SUBSET D : \A x \in s : G[s] = f[x] + G[s \ {x}]
  BY DEF GrowsBy
<1> DEFINE pick(s)  == CHOOSE x \in s : TRUE
           Steps(g) == [s \in SUBSET D |->
                           IF s = {} THEN 0 ELSE f[pick(s)] + g[s \ {pick(s)}]]
           iter     == CHOOSE g : g = Steps(g)
<1>1. E!SumOver(f, D) = iter[D]
  BY Zenon DEF E!SumOver, E!MapThenSumSet, E!MapThenFoldSet
<1>2. \A s \in SUBSET D : s # {} => pick(s) \in s  OBVIOUS
<1>3. G = Steps(G)
  <2> HIDE DEF pick
  <2>1. \A s \in SUBSET D : G[s] = IF s = {} THEN 0 ELSE f[pick(s)] + G[s \ {pick(s)}]
    BY <1>0, <1>2
  <2> QED  BY <1>0, <2>1
<1>4. iter = Steps(iter)
  <2> HIDE DEF Steps
  <2> QED  BY <1>3
<1> HIDE DEF iter
<1>5. \A s \in SUBSET D :
          iter[s] = IF s = {} THEN 0 ELSE f[pick(s)] + iter[s \ {pick(s)}]
  <2> HIDE DEF pick
  <2> QED  BY <1>4
<1> HIDE DEF pick, Steps
<1> DEFINE Off == {s \in SUBSET D : iter[s] # G[s]}
           sizes == {Cardinality(s) : s \in Off}
<1>6. \A s \in SUBSET D : IsFiniteSet(s) /\ Cardinality(s) \in Nat
  BY FS_Subset, FS_CardinalityType
<1>7. Off = {}
  <2> SUFFICES ASSUME Off # {}  PROVE FALSE
    OBVIOUS
  <2>1. sizes \in SUBSET Nat /\ sizes # {}  BY <1>6
  <2>2. PICK k \in sizes : \A j \in sizes : k <= j
    <3> HIDE DEF sizes
    <3> QED  BY <2>1, LeastNatural
  <2>3. PICK s \in Off : k = Cardinality(s)  BY <2>2
  <2>4. s # {} /\ s \in SUBSET D  BY <1>0, <1>5, <2>3
  <2> DEFINE t == s \ {pick(s)}
  <2>5. pick(s) \in s /\ t \in SUBSET D  BY <1>2, <2>4
  <2>6. Cardinality(t) = Cardinality(s) - 1  BY <1>6, <2>4, <2>5, FS_RemoveElement
  <2>7. t \notin Off
    <3> SUFFICES ASSUME t \in Off  PROVE FALSE
      OBVIOUS
    <3>1. Cardinality(t) \in sizes  OBVIOUS
    <3>2. k <= k - 1 /\ k \in Nat  BY <1>6, <2>2, <2>3, <2>4, <2>6, <3>1
    <3> QED  BY <3>2
  <2>8. iter[t] = G[t]  BY <2>5, <2>7
  <2>9. iter[s] = f[pick(s)] + iter[t]  BY <1>5, <2>4
  <2>10. G[s] = f[pick(s)] + G[t]  BY <1>0, <2>4, <2>5
  <2> QED  BY <2>3, <2>8, <2>9, <2>10
<1> QED  BY <1>1, <1>7

LEMMA SumOfEqual ==
    ASSUME NEW D, IsFiniteSet(D), NEW f, NEW c \in Int, \A x \in D : f[x] = c
    PROVE  E!SumOver(f, D) = c * Cardinality(D)
<1> DEFINE G == [s \in SUBSET D |-> c * Cardinality(s)]
<1>1. \A s \in SUBSET D : IsFiniteSet(s) /\ Cardinality(s) \in Nat
  BY FS_Subset, FS_CardinalityType
<1>2. G \in [SUBSET D -> Int]  BY <1>1
<1>3. G[{}] = 0
  <2>1. Cardinality({}) = 0  BY FS_EmptySet
  <2> QED  BY <2>1
<1>4. ASSUME NEW s \in SUBSET D, NEW x \in s
      PROVE  G[s] = f[x] + G[s \ {x}]
  <2> DEFINE k == Cardinality(s)
             l == Cardinality(s \ {x})
  <2>1. l = k - 1 /\ k \in Nat /\ l \in Nat  BY <1>1, FS_RemoveElement
  <2>2. f[x] = c /\ G[s] = c * k /\ G[s \ {x}] = c * l  OBVIOUS
  <2> HIDE DEF G, k, l
  <2>3. c * k = c + c * l  BY <2>1
  <2> QED  BY <2>2, <2>3
<1>5. G[D] = c * Cardinality(D)  OBVIOUS
<1>6. \A s \in SUBSET D : \A x \in s : G[s] = f[x] + G[s \ {x}]  BY <1>4
<1> HIDE DEF G
<1>7. GrowsBy(G, f, D)  BY <1>2, <1>3, <1>6 DEF GrowsBy
<1>8. E!SumOver(f, D) = G[D]  BY <1>7, SumIs
<1> QED  BY <1>5, <1>8

LEMMA SumOfDeposits ==
    ASSUME TypeOK
    PROVE  E!Total(EscrowDeposit) = TicketPrice * TicketCount(Wallets)
<1> DEFINE G == [s \in SUBSET Wallets |-> TicketPrice * TicketCount(s)]
<1>1. \A s \in SUBSET Wallets : TicketCount(s) \in Nat  BY TicketsFinite
<1>2. G \in [SUBSET Wallets -> Int]  BY <1>1, MoneyAssumption
<1>3. G[{}] = 0
  <2>1. TicketCount({}) = 0  BY TicketsOfNone
  <2> QED  BY <2>1, MoneyAssumption
<1>4. ASSUME NEW s \in SUBSET Wallets, NEW x \in s
      PROVE  G[s] = EscrowDeposit[x] + G[s \ {x}]
  <2> DEFINE k == TicketCount(s)
             l == TicketCount(s \ {x})
             t == participant[x].tickets
  <2>1. k = l + t /\ l \in Nat /\ t \in Nat  BY TicketsClaimed
  <2>2. /\ EscrowDeposit[x] = TicketPrice * t
        /\ G[s] = TicketPrice * k /\ G[s \ {x}] = TicketPrice * l
    BY DEF EscrowDeposit, RefundOf
  <2> HIDE DEF G, k, l, t
  <2>3. TicketPrice * (l + t) = TicketPrice * t + TicketPrice * l  BY <2>1, MoneyAssumption
  <2> QED  BY <2>1, <2>2, <2>3
<1>5. G[Wallets] = TicketPrice * TicketCount(Wallets)  OBVIOUS
<1>6. \A s \in SUBSET Wallets : \A x \in s : G[s] = EscrowDeposit[x] + G[s \ {x}]
  BY <1>4
<1>7. IsFiniteSet(Wallets)  BY WalletsAssumption
<1> HIDE DEF G
<1>8. GrowsBy(G, EscrowDeposit, Wallets)  BY <1>2, <1>3, <1>6 DEF GrowsBy
<1>9. E!SumOver(EscrowDeposit, Wallets) = G[Wallets]  BY <1>7, <1>8, SumIs
<1> QED  BY <1>5, <1>9 DEF E!Total

(***************************************************************************)
(* Each step of the lottery, seen as a step of the escrow.                 *)
(***************************************************************************)
LEMMA EscrowInit == Init => E!Init
<1> SUFFICES ASSUME Init  PROVE E!Init
  OBVIOUS
<1>1. /\ ~HasVestedWinners /\ ~lottery.settled /\ vault = VaultRent /\ treasury = 0
      /\ \A w \in Wallets : participant[w].tickets = 0
      /\ received = [w \in Wallets |-> 0]
  BY DEF Init, NewLottery, NewParticipant, HasVestedWinners
<1>2. EscrowMode = "open"  BY <1>1 DEF EscrowMode
<1>3. EscrowDeposit = [w \in Wallets |-> 0]
  BY <1>1, MoneyAssumption DEF EscrowDeposit, RefundOf
<1>4. EscrowDue = [w \in Wallets |-> 0]  BY <1>2 DEF EscrowDue
<1> QED  BY <1>1, <1>2, <1>3, <1>4 DEF E!Init, E!Nothing

LEMMA EscrowUndisturbed ==
    ASSUME MoneyInv, MoneyQuiet
    PROVE  E!Cancel \/ UNCHANGED E!evars
<1>1. /\ UNCHANGED <<vault, received, treasury, page>>
      /\ HasVestedWinners' = HasVestedWinners
      /\ SharePerWinner(lottery.winners_count)' = SharePerWinner(lottery.winners_count)
      /\ lottery.settled => lottery'.settled
  BY DEF MoneyQuiet, HasVestedWinners, SharePerWinner, WinnersPool, ServiceFee
<1>2. EscrowDeposit' = EscrowDeposit
  BY DEF MoneyQuiet, EscrowDeposit, RefundOf
<1>3. Winners' = Winners  BY <1>1 DEF Winners
<1>4. CASE EscrowMode' = EscrowMode
  <2>1. EscrowDue' = EscrowDue  BY <1>1, <1>2, <1>3, <1>4 DEF EscrowDue
  <2> QED  BY <1>1, <1>2, <1>4, <2>1 DEF E!evars
<1>5. CASE EscrowMode' # EscrowMode
  <2>1. EscrowMode = "open" /\ EscrowMode' = "refunding"
    BY <1>1, <1>5 DEF EscrowMode
  <2>2. EscrowDue' = EscrowDeposit  BY <1>2, <2>1 DEF EscrowDue
  <2> QED  BY <1>1, <1>2, <2>1, <2>2 DEF E!Cancel
<1> QED  BY <1>4, <1>5

LEMMA BuyTicketsDeposits ==
    ASSUME MoneyInv, NEW w \in Wallets, NEW n \in 1..MaxTickets, BuyTickets(w, n)
    PROVE  E!Deposit(w)
<1>1. /\ TypeOK /\ OutcomeInv /\ FinalityInv /\ DrawInv
  BY DEF MoneyInv, SelectionInv, FinalityInv, TypeInv
<1>2. /\ lottery \in LotteryType /\ participant \in [Wallets -> ParticipantType]
  BY <1>1 DEF TypeOK
<1>3. ~HasVestedWinners /\ ~lottery.settled
  <2>1. root.phase = "none"  BY <1>1, BuyTicketsDraw
  <2> QED  BY <1>1, <2>1 DEF OutcomeInv, BuyTickets
<1>4. ~HasVestedWinners' /\ ~lottery'.settled
  BY <1>2, <1>3 DEF BuyTickets, LotteryType, HasVestedWinners
<1>5. EscrowMode = "open" /\ EscrowMode' = "open"  BY <1>3, <1>4 DEF EscrowMode
<1>6. EscrowDue' = EscrowDue  BY <1>5 DEF EscrowDue
<1> DEFINE k == participant[w].tickets
<1>7. /\ k \in Nat /\ n \in Nat \ {0} /\ n \in Nat
      /\ \A u \in Wallets : participant[u].tickets \in Nat
  BY <1>2, LimitAssumption DEF ParticipantType
<1>8. /\ participant'[w].tickets = k + n
      /\ \A u \in Wallets \ {w} : participant'[u].tickets = participant[u].tickets
  BY <1>2 DEF BuyTickets, ParticipantType
<1>9. /\ EscrowDeposit'[w] = TicketPrice * (k + n) /\ EscrowDeposit[w] = TicketPrice * k
      /\ \A u \in Wallets \ {w} : EscrowDeposit'[u] = EscrowDeposit[u]
  BY <1>8 DEF EscrowDeposit, RefundOf
<1>10. EscrowDeposit' \in [Wallets -> Nat]
  <2>1. \A u \in Wallets : participant'[u].tickets \in Nat
    <3>1. k + n \in Nat  BY <1>7
    <3> QED  BY <1>7, <1>8, <3>1
  <2>2. \A u \in Wallets : RefundOf(u)' \in Nat  BY <2>1, MoneyAssumption DEF RefundOf
  <2> QED  BY <2>2 DEF EscrowDeposit
<1>11. TicketPrice * (k + n) - TicketPrice * k = TicketPrice * n /\ TicketPrice * n > 0
  <2> HIDE DEF k
  <2>1. TicketPrice \in Nat \ {0}  BY MoneyAssumption
  <2> QED  BY <1>7, <2>1
<1>12. EscrowDeposit'[w] > EscrowDeposit[w]
  <2> HIDE DEF k
  <2>1. TicketPrice * (k + n) \in Nat /\ TicketPrice * k \in Nat /\ TicketPrice * n \in Nat
    BY <1>7, MoneyAssumption
  <2> QED  BY <1>9, <1>11, <2>1
<1>13. vault' = vault + (EscrowDeposit'[w] - EscrowDeposit[w])
  <2>1. vault' = vault + TicketPrice * n  BY DEF BuyTickets
  <2> QED  BY <1>9, <1>11, <2>1
<1>14. UNCHANGED <<received, treasury>>  BY DEF BuyTickets
<1> QED  BY <1>5, <1>6, <1>9, <1>10, <1>12, <1>13, <1>14 DEF E!Deposit

LEMMA ClaimRefundPays ==
    ASSUME MoneyInv, NEW w \in Wallets, ClaimRefund(w)
    PROVE  E!Pay({w})
<1>1. /\ PaidExactly /\ TypeOK  BY DEF MoneyInv, SelectionInv, FinalityInv, TypeInv
<1>2. /\ lottery \in LotteryType /\ participant \in [Wallets -> ParticipantType]
      /\ received \in [Wallets -> Nat]
  BY <1>1 DEF TypeOK
<1>3. ~HasVestedWinners /\ lottery.settled /\ ~HasVestedWinners' /\ lottery'.settled
  BY <1>2 DEF ClaimRefund, MayClaim, Refundable, HasVestedWinners, LotteryType
<1>4. EscrowMode = "refunding" /\ EscrowMode' = "refunding"  BY <1>3 DEF EscrowMode
<1>5. EscrowDeposit' = EscrowDeposit
  <2>1. \A u \in Wallets : participant'[u].tickets = participant[u].tickets
    BY <1>2 DEF ClaimRefund, MayClaim, ParticipantType
  <2> QED  BY <2>1 DEF EscrowDeposit, RefundOf
<1>6. EscrowDue = EscrowDeposit /\ EscrowDue' = EscrowDue  BY <1>4, <1>5 DEF EscrowDue
<1>7. EscrowDue[w] = RefundOf(w)  BY <1>6 DEF EscrowDeposit
<1>8. received[w] = 0 /\ RefundOf(w) \in Nat /\ RefundOf(w) > 0
  <2> DEFINE k == participant[w].tickets
  <2>1. k \in Nat \ {0}  BY <1>2, LimitAssumption DEF ClaimRefund, MayClaim, ParticipantType
  <2>2. received[w] = 0  BY <1>1, <1>3 DEF ClaimRefund, MayClaim, PaidExactly
  <2>3. RefundOf(w) = TicketPrice * k  BY DEF RefundOf
  <2> HIDE DEF k
  <2> QED  BY <2>1, <2>2, <2>3, MoneyAssumption
<1>9. w \in E!Owing  BY <1>7, <1>8 DEF E!Owing
<1>10. received' = [u \in Wallets |-> IF u \in {w} THEN EscrowDue[u] ELSE received[u]]
  <2>1. received' = [received EXCEPT ![w] = received[w] + RefundOf(w)]  BY DEF ClaimRefund, MayClaim
  <2>2. received[w] + RefundOf(w) = EscrowDue[w]  BY <1>7, <1>8
  <2> QED  BY <1>2, <2>1, <2>2
<1>11. E!SumOver(EscrowDue, {w}) = RefundOf(w)
  <2>1. IsFiniteSet({w}) /\ Cardinality({w}) = 1  BY FS_Singleton
  <2>2. \A x \in {w} : EscrowDue[x] = RefundOf(w)  BY <1>7
  <2>3. RefundOf(w) \in Int /\ RefundOf(w) * 1 = RefundOf(w)  BY <1>8
  <2>4. E!SumOver(EscrowDue, {w}) = RefundOf(w) * Cardinality({w})
    BY <2>1, <2>2, <2>3, SumOfEqual
  <2> QED  BY <2>1, <2>3, <2>4
<1>12. vault' = vault - RefundOf(w) /\ treasury' = treasury  BY DEF ClaimRefund, MayClaim
<1> QED  BY <1>4, <1>5, <1>6, <1>9, <1>10, <1>11, <1>12 DEF E!Pay

LEMMA CloseRefundVaultCollects ==
    ASSUME MoneyInv, CloseRefundVault
    PROVE  E!Collect
<1>1. /\ PaidExactly /\ TypeOK  BY DEF MoneyInv, SelectionInv, FinalityInv, TypeInv
<1>2. vault \in Nat /\ participant \in [Wallets -> ParticipantType]  BY <1>1 DEF TypeOK
<1>3. /\ ~HasVestedWinners /\ lottery.settled /\ AllRefundsClaimed
      /\ vault > 0 /\ vault' = 0 /\ treasury' = treasury + vault
      /\ UNCHANGED <<lottery, participant, page, received>>
  BY <1>2 DEF CloseRefundVault, MayClose, Refundable, HasVestedWinners
<1>4. ~HasVestedWinners' /\ lottery'.settled  BY <1>3 DEF HasVestedWinners
<1>5. EscrowMode = "refunding" /\ EscrowMode' = "refunding"  BY <1>3, <1>4 DEF EscrowMode
<1>6. EscrowDeposit' = EscrowDeposit  BY <1>3 DEF EscrowDeposit, RefundOf
<1>7. EscrowDue = EscrowDeposit /\ EscrowDue' = EscrowDue  BY <1>5, <1>6 DEF EscrowDue
<1>8. \A w \in Wallets : received[w] = RefundOf(w) /\ RefundOf(w) \in Nat
  <2> SUFFICES ASSUME NEW w \in Wallets
               PROVE  received[w] = RefundOf(w) /\ RefundOf(w) \in Nat
    OBVIOUS
  <2>1. participant[w].tickets \in Nat  BY <1>2, LimitAssumption DEF ParticipantType
  <2>2. RefundOf(w) \in Nat  BY <2>1, MoneyAssumption DEF RefundOf
  <2>3. CASE participant[w].refund_claimed  BY <1>1, <1>3, <2>2, <2>3 DEF PaidExactly
  <2>4. CASE ~participant[w].refund_claimed
    <3>1. TicketCount(Unclaimed) = 0  BY <1>3, AllHaveClaimed
    <3>2. Unclaimed \in SUBSET Wallets /\ w \in Unclaimed  BY <2>4 DEF Unclaimed
    <3>3. /\ TicketCount(Unclaimed) = TicketCount(Unclaimed \ {w}) + participant[w].tickets
          /\ TicketCount(Unclaimed \ {w}) \in Nat
      BY <1>1, <3>2, TicketsClaimed
    <3>4. participant[w].tickets = 0  BY <2>1, <3>1, <3>3
    <3>5. RefundOf(w) = 0  BY <3>4, MoneyAssumption DEF RefundOf
    <3> QED  BY <1>1, <1>3, <2>2, <2>4, <3>5 DEF PaidExactly
  <2> QED  BY <2>3, <2>4
<1>9. E!Owing = {}  BY <1>7, <1>8 DEF E!Owing, EscrowDeposit
<1> QED  BY <1>3, <1>5, <1>6, <1>7, <1>9 DEF E!Collect

LEMMA SelectChunkVests ==
    ASSUME MoneyInv, SelectionInv',
           NEW last \in 1..Len(roster), NEW draw \in 0..MaxTickets, SelectChunk(last, draw)
    PROVE  E!Vest \/ UNCHANGED E!evars
<1> DEFINE recorded == RecordWinner(WalkChunk(last))
           count    == recorded.selected_count
<1>1. FundsInv /\ TypeOK /\ OutcomeInv
  BY DEF MoneyInv, SelectionInv, FinalityInv, TypeInv
<1>2. /\ lottery \in LotteryType /\ participant \in [Wallets -> ParticipantType]
  BY <1>1 DEF TypeOK
<1>3. ~HasVestedWinners /\ ~lottery.settled
  BY <1>1 DEF SelectChunk, ReadyToFinalize, Finalizing, OutcomeInv
<1>4. /\ UNCHANGED <<vault, received, treasury>>
      /\ \A u \in Wallets : participant'[u].tickets = participant[u].tickets
  BY <1>2 DEF SelectChunk, ParticipantType
<1>5. \/ lottery' = lottery
      \/ WinnersPool >= count /\ lottery' = Vested(lottery, count)
  BY DEF SelectChunk
<1> HIDE DEF recorded, count
<1>6. /\ lottery'.total_funds = lottery.total_funds /\ lottery'.settled = lottery.settled
  BY <1>2, <1>5 DEF Vested, LotteryType
<1>7. EscrowMode = "open"  BY <1>3 DEF EscrowMode
<1>8. EscrowDeposit' = EscrowDeposit  BY <1>4 DEF EscrowDeposit, RefundOf
<1>9. CASE ~HasVestedWinners'
  <2>1. EscrowMode' = "open"  BY <1>3, <1>6, <1>9 DEF EscrowMode
  <2>2. EscrowDue' = EscrowDue  BY <1>7, <2>1 DEF EscrowDue
  <2> QED  BY <1>4, <1>7, <1>8, <2>1, <2>2 DEF E!evars
<1>10. CASE HasVestedWinners'
  <2> DEFINE n     == lottery'.winners_count
             share == SharePerWinner(n)
             W     == Winners'
  <2>1. /\ WinnersPool >= n /\ n \in Nat \ {0}
        /\ n = Len(page'.entries) /\ DrawnInv' /\ TypeOK'
    <3>1. root'.phase = "completed" /\ TypeOK' /\ DrawInv'
      BY <1>10 DEF SelectionInv, OutcomeInv, FinalityInv, TypeInv
    <3>2. n # 0 /\ n = Len(page'.entries) /\ DrawnInv'  BY <3>1 DEF DrawInv
    <3>3. n \in Nat  BY <3>1 DEF TypeOK, LotteryType
    <3>4. WinnersPool >= n
      BY <1>2, <1>3, <1>5, <1>10 DEF Vested, LotteryType, HasVestedWinners
    <3> QED  BY <3>1, <3>2, <3>3, <3>4
  <2>2. IsFiniteSet(W) /\ Cardinality(W) = n
    <3> DEFINE e == page'.entries
    <3>1. /\ e \in Seq(Wallets) /\ \A i, j \in DOMAIN e : e[i] = e[j] => i = j
      BY <2>1 DEF TypeOK, DrawnInv
    <3>2. W = {e[i] : i \in DOMAIN e} /\ n = Len(e)  BY <2>1 DEF Winners
    <3> HIDE DEF e, n, W
    <3> QED  BY <3>1, <3>2, DistinctEntries
  <2>3. W \in SUBSET {u \in Wallets : EscrowDeposit[u] > 0}
    <3> SUFFICES ASSUME NEW u \in W  PROVE u \in Wallets /\ EscrowDeposit[u] > 0
      OBVIOUS
    <3>1. u \in Revealed'  BY <2>1 DEF DrawnInv
    <3>2. u \in Wallets /\ participant'[u].attested
      BY <3>1 DEF SelectionInv, FinalityInv, CountersInv, Revealed, Voted
    <3>3. participant'[u].tickets # 0  BY <3>2 DEF SelectionInv, RosterInv
    <3>4. participant[u].tickets \in Nat \ {0}
      BY <1>2, <1>4, <3>2, <3>3, LimitAssumption DEF ParticipantType
    <3>5. EscrowDeposit[u] = TicketPrice * participant[u].tickets
      BY <3>2 DEF EscrowDeposit, RefundOf
    <3>6. TicketPrice * participant[u].tickets > 0
      <4> DEFINE k == participant[u].tickets
      <4>1. k \in Nat \ {0} /\ TicketPrice \in Nat \ {0}  BY <3>4, MoneyAssumption
      <4> HIDE DEF k
      <4>2. TicketPrice * k > 0  BY <4>1
      <4> QED  BY <4>2 DEF k
    <3> QED  BY <3>2, <3>5, <3>6
  <2>4. W # {}
    <3> HIDE DEF W, n
    <3> QED  BY <2>1, <2>2, FS_EmptySet
  <2>5. E!Total(EscrowDeposit) = lottery.total_funds
    BY <1>1, SumOfDeposits DEF FundsInv
  <2>6. /\ share \in 1..lottery.total_funds
        /\ share * n <= lottery.total_funds
    <3> DEFINE pool  == WinnersPool
               funds == lottery.total_funds
               fee   == ServiceFee
    <3>1. /\ fee \in Nat /\ pool \in Nat /\ funds = fee + pool
          /\ share \in Nat /\ share * n \in Nat /\ share * n <= pool /\ pool < share * n + n
      BY <1>1, <2>1, SharesFitPool
    <3>2. pool >= n /\ n \in Nat \ {0}  BY <2>1
    <3> HIDE DEF pool, funds, fee, share, n
    <3>3. share # 0
      <4> SUFFICES ASSUME share = 0  PROVE FALSE
        OBVIOUS
      <4>1. share * n = 0  BY <3>2
      <4> QED  BY <3>1, <3>2, <4>1
    <3>4. share <= share * n  BY <3>1, <3>2
    <3>5. share <= funds /\ share * n <= funds /\ share >= 1  BY <3>1, <3>3, <3>4
    <3>6. share \in 1..funds  BY <3>1, <3>5
    <3> QED  BY <3>5, <3>6 DEF funds
  <2>7. EscrowMode' = "vested"  BY <1>10 DEF EscrowMode
  <2>8. EscrowDue' = [u \in Wallets |-> IF u \in W THEN share ELSE 0]
    <3>1. SharePerWinner(lottery.winners_count)' = share
      BY <1>6 DEF SharePerWinner, WinnersPool, ServiceFee
    <3> HIDE DEF share
    <3> QED  BY <2>7, <3>1 DEF EscrowDue
  <2> HIDE DEF W, share, n
  <2>9. W \in (SUBSET {u \in Wallets : EscrowDeposit[u] > 0}) \ {{}}  BY <2>3, <2>4
  <2>10. share \in 1..E!Total(EscrowDeposit)  BY <2>5, <2>6
  <2>11. share * E!Cardinality(W) <= E!Total(EscrowDeposit)
    <3>1. E!Cardinality(W) = Cardinality(W)  BY Zenon DEF E!Cardinality, Cardinality
    <3> QED  BY <2>2, <2>5, <2>6, <3>1
  <2>12. \E V \in (SUBSET {u \in Wallets : EscrowDeposit[u] > 0}) \ {{}},
             s \in 1..E!Total(EscrowDeposit) :
             /\ s * E!Cardinality(V) <= E!Total(EscrowDeposit)
             /\ EscrowDue' = [u \in Wallets |-> IF u \in V THEN s ELSE 0]
    BY <2>8, <2>9, <2>10, <2>11, Zenon
  <2>13. UNCHANGED <<EscrowDeposit, received, vault, treasury>>  BY <1>4, <1>8
  <2>14. E!Vest  BY <1>7, <2>7, <2>12, <2>13, Zenon DEF E!Vest
  <2> QED  BY <2>14
<1> QED  BY <1>9, <1>10

(***************************************************************************)
(* Nobody holds two indexes, so a set of indexes holds a winner once.      *)
(***************************************************************************)
LEMMA IndexesHeld ==
    ASSUME MoneyInv, HasVestedWinners, NEW w,
           NEW Q \in SUBSET (0..(lottery.winners_count - 1))
    PROVE  Cardinality({i \in Q : page.entries[i + 1] = w}) =
               IF \E i \in Q : page.entries[i + 1] = w THEN 1 ELSE 0
<1> DEFINE n    == lottery.winners_count
           mine == {i \in Q : page.entries[i + 1] = w}
<1>1. /\ n \in Nat /\ n = Len(page.entries) /\ page.entries \in Seq(Wallets)
      /\ \A i, j \in DOMAIN page.entries : page.entries[i] = page.entries[j] => i = j
  <2>1. TypeOK /\ root.phase = "completed" /\ DrawInv
    BY DEF MoneyInv, SelectionInv, OutcomeInv, FinalityInv, TypeInv
  <2> QED  BY <2>1 DEF TypeOK, DrawInv, DrawnInv, LotteryType
<1>2. \A i, j \in mine : i = j
  <2> SUFFICES ASSUME NEW i \in mine, NEW j \in mine  PROVE i = j
    OBVIOUS
  <2>1. i + 1 \in DOMAIN page.entries /\ j + 1 \in DOMAIN page.entries /\ i \in Int /\ j \in Int
    BY <1>1
  <2>2. i + 1 = j + 1  BY <1>1, <2>1
  <2> QED  BY <2>1, <2>2
<1>3. CASE mine = {}
  <2>1. ~(\E i \in Q : page.entries[i + 1] = w)  BY <1>3
  <2> QED  BY <1>3, <2>1, FS_EmptySet
<1>4. CASE mine # {}
  <2>1. PICK i : i \in mine  BY <1>4
  <2>2. mine = {i}
    <3> HIDE DEF mine
    <3> QED  BY <1>2, <2>1
  <2>3. \E j \in Q : page.entries[j + 1] = w  BY <2>1
  <2> QED  BY <2>2, <2>3, FS_Singleton
<1> QED  BY <1>3, <1>4

LEMMA SettlePayoutBatchPays ==
    ASSUME MoneyInv, MoneyInv', NEW batch \in Batches, SettlePayoutBatch(batch)
    PROVE  (\E S \in SUBSET Wallets : E!Pay(S)) \/ UNCHANGED E!evars
<1> DEFINE n       == lottery.winners_count
           before  == lottery.paid_winners
           added   == Added(batch)
           m       == Cardinality(PayingPositions(batch))
           left    == vault - Share * m
           allPaid == before \cup Named(batch) = 0..(n - 1)
           holder(i) == page.entries[i + 1]
           S       == {holder(i) : i \in added}
<1>1. /\ PayoutInv /\ PaidExactly /\ PaidExactly' /\ TypeOK /\ DrawInv /\ OutcomeInv
  BY DEF MoneyInv, SelectionInv, FinalityInv, TypeInv
<1>2. /\ lottery \in LotteryType /\ page \in [entries: Seq(Wallets), paid: SUBSET Nat]
      /\ received \in [Wallets -> Nat] /\ vault \in Nat
  BY <1>1 DEF TypeOK
<1>3. /\ HasVestedWinners /\ n \in Nat \ {0} /\ ~lottery.settlement_complete
      /\ before \in SUBSET (0..(n - 1)) /\ before # 0..(n - 1)
      /\ lottery.total_payout = Share * n /\ n <= WinnersPool
  <2>1. n # 0 /\ ~lottery.settlement_complete  BY DEF SettlePayoutBatch, MayPay
  <2> QED  BY <1>1, <1>2, <2>1 DEF HasVestedWinners, PayoutInv, LotteryType
<1>4. /\ Share \in Nat \ {0} /\ lottery.total_payout \div n = Share
  <2>1. /\ Share \in Nat /\ Share * n \in Nat /\ WinnersPool \in Nat
        /\ WinnersPool < Share * n + n
    BY <1>1, <1>3, SharesFitPool DEF Share
  <2>2. Share # 0
    <3> SUFFICES ASSUME Share = 0  PROVE FALSE
      OBVIOUS
    <3>1. Share * n = 0  BY <1>3
    <3> QED  BY <1>3, <2>1, <3>1
  <2> QED  BY <1>3, <2>1, <2>2, DivisionExact
<1>5. /\ Named(batch) \in SUBSET (0..(n - 1))
      /\ page'.entries = page.entries
      /\ vault' = IF allPaid THEN 0 ELSE left
      /\ treasury' = IF allPaid THEN treasury + left ELSE treasury
      /\ UNCHANGED participant
  <2>1. PICK k \in 1..MaxBatch : batch \in [1..k -> 0..(Len(page.entries) - 1)]
    BY DEF Batches
  <2>2. \A i \in DOMAIN batch : batch[i] < n  BY DEF SettlePayoutBatch, MayPay
  <2>3. Named(batch) \in SUBSET (0..(n - 1))  BY <1>2, <1>3, <2>1, <2>2 DEF Named
  <2> QED  BY <1>2, <1>4, <2>3 DEF SettlePayoutBatch, MayPay, LeftAfter, PaidAfter,
                      AllPaidAfter, Named
<1>6. /\ lottery'.total_funds = lottery.total_funds
      /\ lottery'.winners_count = n
      /\ lottery'.total_payout = lottery.total_payout
      /\ lottery'.paid_winners = before \cup Named(batch)
  BY <1>2 DEF SettlePayoutBatch, MayPay, LeftAfter, PaidAfter,
                      AllPaidAfter, Named, LotteryType
<1>7. /\ HasVestedWinners' /\ SharePerWinner(lottery.winners_count) = Share
      /\ SharePerWinner(lottery.winners_count)' = Share
  BY <1>3, <1>6 DEF HasVestedWinners, Share, SharePerWinner, WinnersPool, ServiceFee
<1>8. /\ before \cup Named(batch) = before \cup added /\ before \cap added = {}
      /\ added \in SUBSET (0..(n - 1))
      /\ IsFiniteSet(added) /\ m = Cardinality(added)
  <2>1. added \in SUBSET (0..(n - 1)) /\ before \cup Named(batch) = before \cup added
        /\ before \cap added = {}
    BY <1>5 DEF Added
  <2>2. \A i \in PayingPositions(batch) : batch[i] \in Nat
    <3>1. PICK k \in 1..MaxBatch : batch \in [1..k -> 0..(Len(page.entries) - 1)]
      BY DEF Batches
    <3> QED  BY <1>2, <3>1 DEF PayingPositions
  <2>3. {i \in PayingPositions(batch) : batch[i] \in Nat} = PayingPositions(batch)
        /\ added \cap Nat = added
    BY <1>3, <2>1, <2>2
  <2>4. IsFiniteSet(added) /\ m = Cardinality(added)
    <3> HIDE DEF added
    <3> QED  BY <1>1, <2>3, BatchPaysOnce DEF added
  <2> QED  BY <2>1, <2>4
<1>9. /\ n = Len(page.entries) /\ DOMAIN page.entries = 1..n
      /\ \A i, j \in 1..n : page.entries[i] = page.entries[j] => i = j
      /\ \A i \in 0..(n - 1) : i + 1 \in 1..n /\ holder(i) \in Winners /\ holder(i) \in Wallets
  <2>1. root.phase = "completed"  BY <1>1, <1>3 DEF OutcomeInv
  <2>2. n = Len(page.entries) /\ DOMAIN page.entries = 1..n
        /\ \A i, j \in DOMAIN page.entries : page.entries[i] = page.entries[j] => i = j
    BY <1>1, <1>2, <2>1 DEF DrawInv, DrawnInv
  <2>3. DOMAIN page.entries = 1..n /\ \A j \in 1..n : page.entries[j] \in Wallets
    BY <1>2, <2>2
  <2>4. \A i \in 0..(n - 1) : i + 1 \in 1..n  BY <1>3
  <2>5. \A j \in 1..n : page.entries[j] \in Winners  BY <2>3 DEF Winners
  <2> QED  BY <2>2, <2>3, <2>4, <2>5
<1>10. \A w \in Wallets :
           /\ received[w] = IF \E i \in before : holder(i) = w THEN Share ELSE 0
           /\ received'[w] = IF \E i \in before \cup added : holder(i) = w THEN Share ELSE 0
  <2> SUFFICES ASSUME NEW w \in Wallets
               PROVE  /\ received[w] = IF \E i \in before : holder(i) = w THEN Share ELSE 0
                      /\ received'[w] = IF \E i \in before \cup added : holder(i) = w
                                        THEN Share ELSE 0
    OBVIOUS
  <2> DEFINE card(Q) == Cardinality({i \in Q : page.entries[i + 1] = w})
  <2>1. received[w] = Share * card(before)  BY <1>1, <1>3, <1>7 DEF PaidExactly
  <2>2. received'[w] = Share * card(before \cup added)
    <3>1. lottery'.paid_winners = before \cup added  BY <1>6, <1>8
    <3>2. received'[w] = SharePerWinner(lottery.winners_count)' *
              Cardinality({i \in lottery'.paid_winners : page'.entries[i + 1] = w})
      BY <1>1, <1>7 DEF PaidExactly
    <3> QED  BY <1>5, <1>7, <3>1, <3>2
  <2>3. card(before) = IF \E i \in before : holder(i) = w THEN 1 ELSE 0
    BY <1>3, IndexesHeld
  <2>4. card(before \cup added) = IF \E i \in before \cup added : holder(i) = w THEN 1 ELSE 0
    <3> DEFINE Q == before \cup added
    <3>1. Q \in SUBSET (0..(n - 1))  BY <1>3, <1>8
    <3> HIDE DEF Q
    <3>2. card(Q) = IF \E i \in Q : holder(i) = w THEN 1 ELSE 0  BY <1>3, <3>1, IndexesHeld
    <3> QED  BY <3>2 DEF Q
  <2>5. Share * 1 = Share /\ Share * 0 = 0  BY <1>4
  <2> HIDE DEF card, holder, before, added
  <2> QED  BY <2>1, <2>2, <2>3, <2>4, <2>5
<1>11. /\ EscrowMode = "vested" /\ EscrowMode' = "vested"
       /\ EscrowDeposit' = EscrowDeposit /\ EscrowDue' = EscrowDue
       /\ \A w \in Wallets : EscrowDue[w] = IF w \in Winners THEN Share ELSE 0
  <2>1. EscrowMode = "vested" /\ EscrowMode' = "vested"  BY <1>3, <1>7 DEF EscrowMode
  <2>2. EscrowDeposit' = EscrowDeposit  BY <1>5 DEF EscrowDeposit, RefundOf
  <2>3. Winners' = Winners  BY <1>5 DEF Winners
  <2> QED  BY <1>7, <2>1, <2>2, <2>3 DEF EscrowDue
<1> HIDE DEF Share
<1>12. CASE added = {}
  <2>1. m = 0 /\ ~allPaid  BY <1>3, <1>8, <1>12, FS_EmptySet
  <2>2. left = vault
    <3> HIDE DEF m
    <3> QED  BY <1>2, <1>4, <2>1
  <2>3. vault' = vault /\ treasury' = treasury  BY <1>5, <2>1, <2>2
  <2>4. received' = received
    <3>1. \A w \in Wallets : received'[w] = received[w]  BY <1>10, <1>12
    <3>2. received' \in [Wallets -> Nat]
      BY DEF MoneyInv, SelectionInv, FinalityInv, TypeInv, TypeOK
    <3> QED  BY <1>2, <3>1, <3>2
  <2> QED  BY <1>11, <2>3, <2>4 DEF E!evars
<1>13. CASE added # {}
  <2>1. S # {} /\ S \in SUBSET Wallets /\ S \in SUBSET Winners
    <3>1. \A i \in added : holder(i) \in Winners /\ holder(i) \in Wallets  BY <1>8, <1>9
    <3> HIDE DEF holder, added
    <3> QED  BY <1>13, <3>1
  <2>2. \A i, j \in 0..(n - 1) : holder(i) = holder(j) => i = j
    <3> SUFFICES ASSUME NEW i \in 0..(n - 1), NEW j \in 0..(n - 1), holder(i) = holder(j)
                 PROVE  i = j
      OBVIOUS
    <3>1. i + 1 = j + 1 /\ i \in Int /\ j \in Int  BY <1>9
    <3> QED  BY <3>1
  <2>3. \A w \in S : received[w] = 0 /\ received'[w] = Share /\ EscrowDue[w] = Share
    <3> SUFFICES ASSUME NEW w \in S
                 PROVE  received[w] = 0 /\ received'[w] = Share /\ EscrowDue[w] = Share
      OBVIOUS
    <3>1. PICK i \in added : holder(i) = w  OBVIOUS
    <3>2. w \in Wallets /\ w \in Winners  BY <2>1
    <3>3. ~(\E j \in before : holder(j) = w)
      <4> SUFFICES ASSUME NEW j \in before, holder(j) = w  PROVE FALSE
        OBVIOUS
      <4>1. i \in 0..(n - 1) /\ j \in 0..(n - 1)  BY <1>3, <1>8
      <4>2. i = j  BY <2>2, <3>1, <4>1
      <4> QED  BY <1>8, <3>1, <4>2
    <3>4. \E j \in before \cup added : holder(j) = w  BY <3>1
    <3> HIDE DEF holder, before, added
    <3> QED  BY <1>10, <1>11, <3>2, <3>3, <3>4
  <2>4. \A w \in Wallets \ S : received'[w] = received[w]
    <3> SUFFICES ASSUME NEW w \in Wallets \ S  PROVE received'[w] = received[w]
      OBVIOUS
    <3>1. (\E i \in before \cup added : holder(i) = w) <=> (\E i \in before : holder(i) = w)
      OBVIOUS
    <3> HIDE DEF holder, before, added
    <3> QED  BY <1>10, <3>1
  <2>5. S \in SUBSET E!Owing
    <3> HIDE DEF S
    <3> QED  BY <1>4, <2>1, <2>3 DEF E!Owing
  <2>6. received' = [w \in Wallets |-> IF w \in S THEN EscrowDue[w] ELSE received[w]]
    <3>1. received' \in [Wallets -> Nat]
      BY DEF MoneyInv, SelectionInv, FinalityInv, TypeInv, TypeOK
    <3> HIDE DEF S
    <3> QED  BY <2>3, <2>4, <3>1
  <2>7. IsFiniteSet(S) /\ Cardinality(S) = m
    <3> DEFINE f == [i \in added |-> holder(i)]
    <3>1. \A i, j \in added : f[i] = f[j] => i = j  BY <1>8, <2>2
    <3>2. f \in [added -> S]  OBVIOUS
    <3>3. f \in Injection(added, S)  BY <3>1, <3>2 DEF Injection, IsInjective
    <3>4. f \in Surjection(added, S)  BY <3>2 DEF Surjection
    <3>5. ExistsBijection(added, S)  BY <3>3, <3>4 DEF ExistsBijection, Bijection
    <3> HIDE DEF S, added, m
    <3> QED  BY <1>8, <3>5, FS_Bijection
  <2>8. E!SumOver(EscrowDue, S) = Share * m
    <3>1. Share \in Int /\ \A w \in S : EscrowDue[w] = Share  BY <1>4, <2>3
    <3> HIDE DEF S, m
    <3> QED  BY <2>7, <3>1, SumOfEqual
  <2>9. allPaid => E!Owing = S
    <3> SUFFICES ASSUME allPaid, NEW w \in Wallets, received[w] < EscrowDue[w]
                 PROVE  w \in S
      BY <2>5 DEF E!Owing
    <3>1. w \in Winners
      <4> SUFFICES ASSUME w \notin Winners  PROVE FALSE
        OBVIOUS
      <4>1. EscrowDue[w] = 0 /\ received[w] \in Nat  BY <1>2, <1>11
      <4> QED  BY <4>1
    <3>2. PICK j \in 1..n : page.entries[j] = w  BY <1>9, <3>1 DEF Winners
    <3>3. j - 1 \in 0..(n - 1) /\ (j - 1) + 1 = j  BY <1>3
    <3>4. holder(j - 1) = w  BY <3>2, <3>3
    <3>5. j - 1 \in before \cup added  BY <1>8, <3>3
    <3>6. j - 1 \notin before
      <4> SUFFICES ASSUME j - 1 \in before  PROVE FALSE
        OBVIOUS
      <4>1. \E i \in before : holder(i) = w  BY <3>4
      <4>2. received[w] = Share /\ EscrowDue[w] = Share  BY <1>10, <1>11, <3>1, <4>1
      <4> QED  BY <1>4, <4>2
    <3> QED  BY <3>4, <3>5, <3>6
  <2> HIDE DEF S, m, allPaid
  <2>10. \/ vault' = vault - E!SumOver(EscrowDue, S) /\ treasury' = treasury
         \/ /\ E!Owing = S /\ vault' = 0
            /\ treasury' = treasury + (vault - E!SumOver(EscrowDue, S))
    BY <1>5, <2>8, <2>9
  <2>11. E!Pay(S)
    BY <1>11, <2>1, <2>5, <2>6, <2>10 DEF E!Pay
  <2> QED  BY <2>1, <2>11
<1> QED  BY <1>12, <1>13

(* The lottery implements the escrow: every instruction is a deposit, the
   one decision, a payment in full of wallets that are owed, the house's
   collection of what nobody is owed, or changes nothing of them. *)
THEOREM RefinesEscrow == Spec => ImplementsEscrow
<1>1. Init => E!Init  BY EscrowInit
<1>2. MoneyInv /\ MoneyInv' /\ [Next]_vars => [E!Next]_(E!evars)
  <2> SUFFICES ASSUME MoneyInv, MoneyInv', [Next]_vars
               PROVE  E!Next \/ UNCHANGED E!evars
    OBVIOUS
  <2>1. TypeInv /\ SelectionInv'  BY DEF MoneyInv, SelectionInv, FinalityInv
  <2>2. CASE \E w \in Wallets, n \in 1..MaxTickets : BuyTickets(w, n)
    BY <2>2, BuyTicketsDeposits DEF E!Next
  <2>3. CASE \E last \in 1..Len(roster), draw \in 0..MaxTickets : SelectChunk(last, draw)
    BY <2>1, <2>3, SelectChunkVests DEF E!Next
  <2>4. CASE \E batch \in Batches : SettlePayoutBatch(batch)
    BY <2>4, SettlePayoutBatchPays DEF E!Next
  <2>5. CASE \E w \in Wallets : ClaimRefund(w)
    BY <2>5, ClaimRefundPays DEF E!Next
  <2>6. CASE CloseRefundVault
    BY <2>6, CloseRefundVaultCollects DEF E!Next
  <2>7. CASE MoneyQuiet
    BY <2>7, EscrowUndisturbed DEF E!Next
  <2> QED  BY <2>1, <2>2, <2>3, <2>4, <2>5, <2>6, <2>7, MoneySteps
<1> QED  BY <1>1, <1>2, MoneyAlways, PTL DEF Spec, ImplementsEscrow, E!Spec
===============================================================================
