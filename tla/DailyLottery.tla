---------------------------- MODULE DailyLottery ----------------------------
(***************************************************************************)
(* One daily lottery instance (programs/daily-lottery-v1): its accounts,   *)
(* and every instruction that changes them after creation.                 *)
(*                                                                         *)
(* A Solana transaction is atomic and rolls back on error, so each         *)
(* instruction is one action and an error is a disabled action.  Anyone    *)
(* may submit transactions in any order between two ticks of the clock;    *)
(* an instruction that returns Ok without writing is a stuttering step.    *)
(*                                                                         *)
(* Left abstract: account addresses and ownership checks (an account is    *)
(* named by what it is derived from), reveal texts and their hashes (a     *)
(* reveal of the committed text is the only one that is accepted), the     *)
(* provider's signature over an attestation, events, and the hash chains   *)
(* that commit to participants and winners.                                *)
(***************************************************************************)
EXTENDS Sequences, VoteTally

CONSTANTS
    Wallets,            \* the wallets that may buy tickets
    NoWallet,           \* stands for Pubkey::default()
    TicketPrice,        \* lottery.ticket_price_lamports, frozen at creation
    ServiceChargeBps,   \* lottery.service_charge_bps, frozen at creation
    MaxWinnersCap,      \* lottery.max_winners_cap, frozen at creation
    BuyStart,           \* lottery.buy_start_unix
    BuyWindow,          \* config.buy_window_secs at creation
    UploadWindow,       \* config.upload_window_secs at creation
    RemediationWindow,  \* DEFAULT_REMEDIATION_WINDOW_SECS
    MaxParticipants,    \* MAX_PARTICIPANTS
    WinnersPerPage,     \* WINNERS_PER_PAGE
    U32Max,             \* u32::MAX, where settlement_batches_completed saturates
    MaxTickets,         \* largest total that add_tickets does not overflow
    VaultRent,          \* rent-exempt lamports the vault is created with
    MaxBatch,           \* bound: indexes named by one SettlePayoutBatch
    Horizon             \* bound: the last clock reading

ASSUME WalletsAssumption  == NoWallet \notin Wallets /\ IsFiniteSet(Wallets)
ASSUME MoneyAssumption    == /\ TicketPrice \in Nat \ {0}
                             /\ ServiceChargeBps \in 0..9999
                             /\ VaultRent \in Nat \ {0}
ASSUME ScheduleAssumption == /\ BuyStart \in Nat \ {0}
                             /\ BuyWindow \in Nat \ {0}
                             /\ UploadWindow \in Nat \ {0}
                             /\ RemediationWindow \in Nat \ {0}
                             /\ Horizon \in Nat
                             /\ BuyStart <= Horizon
                             /\ Horizon < Never
ASSUME LimitAssumption    == /\ MaxWinnersCap \in Nat \ {0}
                             /\ WinnersPerPage \in Nat \ {0}
                             /\ MaxTickets \in Nat
                             /\ MaxBatch \in Nat
                             /\ U32Max \in Nat
                             /\ MaxParticipants \in 1..U32Max

(***************************************************************************)
(* The schedule that Lottery::freeze_config derives at creation.           *)
(***************************************************************************)
BuyDeadline         == BuyStart + BuyWindow
UploadStart         == BuyDeadline
UploadDeadline      == BuyDeadline + UploadWindow
RemediationDeadline == UploadDeadline + RemediationWindow
SettlementDeadline  == UploadDeadline + 2 * RemediationWindow

VARIABLES
    now,          \* Clock::get()?.unix_timestamp
    lottery,      \* the Lottery account
    participant,  \* the Participant account of each wallet
    roster,       \* wallets by participant_index
    tally,        \* the VoteTally account
    root,         \* the FinalizationLedger account
    page,         \* the WinnerPage accounts, one after the other
    vault,        \* lamports of the vault
    received,     \* lamports each wallet was sent from the vault
    treasury      \* lamports the authority was sent from the vault

vars == <<now, lottery, participant, roster, tally, root, page,
          vault, received, treasury>>

NoTally == NewTally(0)

NewParticipant ==
    [open |-> FALSE, tickets |-> 0, attested |-> FALSE, attested_at |-> 0,
     vote |-> 0, included |-> FALSE, finalized |-> FALSE, selected |-> FALSE,
     refund_claimed |-> FALSE]

NoRoot ==
    [phase |-> "none", required |-> 0, processed |-> 0, eligible_count |-> 0,
     eligible_tickets |-> 0, target |-> 0, selected_count |-> 0,
     selected_tickets |-> 0, round_processed |-> 0, round_seen |-> 0,
     draw |-> 0, pending |-> NoWallet]

NewLottery ==
    [settlement_start |-> 0, total_tickets |-> 0, total_funds |-> 0,
     provider_uploaded_count |-> 0, uploads_complete |-> FALSE,
     settled |-> FALSE, attested_count |-> 0, participants_count |-> 0,
     selected_number_of_winners |-> 1, winners_count |-> 0,
     total_payout |-> 0, paid_winners |-> {},
     settlement_batches_completed |-> 0, settlement_complete |-> FALSE,
     remediation_start |-> 0, remediation_deadline |-> 0]

(***************************************************************************)
(* The instance as CreateLottery leaves it: created no later than its      *)
(* first second of sale, with a vault that holds only its rent.            *)
(***************************************************************************)
Init ==
    /\ now \in 1..BuyStart
    /\ lottery = NewLottery
    /\ participant = [w \in Wallets |-> NewParticipant]
    /\ roster = << >>
    /\ tally = NoTally
    /\ root = NoRoot
    /\ page = [entries |-> << >>, paid |-> {}]
    /\ vault = VaultRent
    /\ received = [w \in Wallets |-> 0]
    /\ treasury = 0

(***************************************************************************)
(* Tickets are counted as a set of <<wallet, number>> pairs.               *)
(***************************************************************************)
Tickets(S) == {t \in S \X (1..MaxTickets) : t[2] <= participant[t[1]].tickets}

TicketCount(S) == Cardinality(Tickets(S))

(***************************************************************************)
(* What the handlers read off a Lottery account.                           *)
(***************************************************************************)
EffectiveMaxWinners ==
    Min({MaxWinnersCap, Max({lottery.participants_count - 1, 1})})

HasVestedWinners == lottery.winners_count # 0 \/ lottery.total_payout # 0

\* mutant: one missing reveal goes unnoticed
HasMissingAttestedReveals_OffByOne ==
    lottery.provider_uploaded_count + 1 < lottery.attested_count

HasMissingAttestedReveals ==
    /\ lottery.attested_count > 0
    /\ lottery.provider_uploaded_count < lottery.attested_count

RemediationActive ==
    /\ lottery.remediation_start > 0
    /\ lottery.remediation_deadline > 0
    /\ now < lottery.remediation_deadline
    /\ HasMissingAttestedReveals

RemediationExpired ==
    /\ lottery.remediation_deadline > 0
    /\ now >= lottery.remediation_deadline
    /\ HasMissingAttestedReveals

SettlementExpired == now >= SettlementDeadline

UploadElapsed == now > UploadDeadline

AllAttested ==
    /\ lottery.participants_count > 0
    /\ lottery.attested_count = lottery.participants_count

InBuyWindow == now >= BuyStart /\ now < UploadStart /\ now < BuyDeadline

\* phase(now) == "upload", the only phase any handler asks about
UploadPhase ==
    /\ ~lottery.settled
    /\ ~(lottery.participants_count = 1 /\ now > UploadDeadline)
    /\ ~RemediationActive
    /\ lottery.settlement_start = 0
    /\ now >= UploadStart
    /\ now < UploadDeadline

\* settlement_start_unix is set once
SettlementStart == IF lottery.settlement_start = 0 THEN now ELSE lottery.settlement_start

\* begin_remediation: a late start does not move the deadline
BegunRemediation(l) ==
    [l EXCEPT !.remediation_start = now, !.remediation_deadline = RemediationDeadline]

(***************************************************************************)
(* BuyTickets: the first purchase opens the Participant account with the   *)
(* next participant_index; later ones add to it.                           *)
(***************************************************************************)
BuyTickets(w, n) ==
    /\ ~lottery.settled
    /\ InBuyWindow
    /\ participant[w].open \/ lottery.participants_count < MaxParticipants
    /\ lottery.total_tickets + n <= MaxTickets
    /\ participant' = [participant EXCEPT ![w].open = TRUE, ![w].tickets = @ + n]
    /\ roster' = IF participant[w].open THEN roster ELSE Append(roster, w)
    /\ lottery' = [lottery EXCEPT
          !.participants_count = IF participant[w].open THEN @ ELSE @ + 1,
          !.total_tickets = @ + n,
          !.total_funds = @ + TicketPrice * n]
    /\ vault' = vault + TicketPrice * n
    /\ UNCHANGED <<now, tally, root, page, received, treasury>>

(***************************************************************************)
(* AttestUploaded: a ticket holder who holds the provider's receipt for    *)
(* its reveal votes for a number of winners.                               *)
(***************************************************************************)
MayAttest(w, v) ==
    /\ participant[w].open
    /\ participant[w].tickets > 0
    /\ UploadPhase
    /\ v \in 1..EffectiveMaxWinners
    /\ ~participant[w].attested

Attested(p, v) == [p EXCEPT !.attested = TRUE, !.attested_at = now, !.vote = v]

AttestUploaded(w, v) ==
    /\ MayAttest(w, v)
    /\ participant' = [participant EXCEPT ![w] = Attested(@, v)]
    /\ lottery' = [lottery EXCEPT
          !.attested_count = @ + 1,
          !.settlement_start = IF lottery.attested_count + 1 = lottery.participants_count
                               THEN SettlementStart ELSE @]
    /\ UNCHANGED <<now, roster, tally, root, page, vault, received, treasury>>

(***************************************************************************)
(* The votes of the wallets S, one ballot a ticket; and the VoteTally      *)
(* account, created by the first instruction that needs it.                *)
(***************************************************************************)
Ballots(p, S) ==
    {[ticket |-> t, count |-> p[t[1]].vote, at |-> p[t[1]].attested_at] : t \in Tickets(S)}

TallyUsable == tally.max_winners \in {0, EffectiveMaxWinners}

LoadTally == IF tally.max_winners = 0 THEN NewTally(EffectiveMaxWinners) ELSE tally

\* set_selected_winners: the counts it accepts
ValidWinnersCount(count) == count \in 1..(lottery.participants_count - 1)

(***************************************************************************)
(* AttestReveal: a ticket holder publishes its own reveal and votes.       *)
(***************************************************************************)
AttestReveal(w, v) ==
    LET p        == [participant EXCEPT ![w] = [Attested(@, v) EXCEPT !.included = TRUE]]
        votes    == AddVotes(LoadTally, Ballots(p, {w}))
        count    == SelectedWinners(votes, lottery.participants_count)
        attested == lottery.attested_count + 1
        uploaded == lottery.provider_uploaded_count + 1
        all      == attested = lottery.participants_count
    IN  /\ MayAttest(w, v)
        /\ ~participant[w].included
        /\ TallyUsable
        /\ lottery.participants_count > 1 => ValidWinnersCount(count)
        /\ participant' = p
        /\ tally' = votes
        /\ lottery' = [lottery EXCEPT
              !.attested_count = attested,
              !.provider_uploaded_count = uploaded,
              !.selected_number_of_winners =
                  IF lottery.participants_count > 1 THEN count ELSE @,
              !.settlement_start = IF all THEN SettlementStart ELSE @,
              !.uploads_complete =
                  @ \/ (uploaded >= attested /\ (all \/ UploadElapsed))]
        /\ UNCHANGED <<now, roster, root, page, vault, received, treasury>>

(***************************************************************************)
(* UploadReveals: the authority at any time, or anyone once the upload     *)
(* window has elapsed with reveals missing (which begins remediation),     *)
(* publishes the reveals of the attested wallets S.                        *)
(***************************************************************************)
UploadReveals(byAuthority, S) ==
    LET remediates == UploadElapsed /\ HasMissingAttestedReveals
        begun      == IF ~byAuthority /\ lottery.remediation_start = 0
                      THEN BegunRemediation(lottery) ELSE lottery
        votes      == AddVotes(LoadTally, Ballots(participant, S))
        count      == SelectedWinners(votes, lottery.participants_count)
        uploaded   == lottery.provider_uploaded_count + Cardinality(S)
    IN  /\ ~SettlementExpired
        /\ ~RemediationExpired
        /\ byAuthority \/ remediates
        /\ ~lottery.settled /\ ~lottery.settlement_complete /\ ~lottery.uploads_complete
        /\ UploadElapsed \/ AllAttested \/ lottery.settlement_start # 0
        /\ lottery.attested_count # 0
        /\ TallyUsable
        /\ \A w \in S : /\ participant[w].open
                        /\ participant[w].attested
                        /\ ~participant[w].included
        /\ ValidWinnersCount(count)
        /\ participant' = [w \in Wallets |->
              IF w \in S THEN [participant[w] EXCEPT !.included = TRUE] ELSE participant[w]]
        /\ tally' = votes
        /\ lottery' = [begun EXCEPT
              !.settlement_start = SettlementStart,
              !.provider_uploaded_count = uploaded,
              !.uploads_complete = uploaded >= lottery.attested_count,
              !.selected_number_of_winners = count]
        /\ UNCHANGED <<now, roster, root, page, vault, received, treasury>>

\* mutant: finalization asks neither for the outcome nor for the deadline
Finalizing_Unconditional ==
    lottery.participants_count > 1 /\ lottery.attested_count # 0

(***************************************************************************)
(* FinalizeWinners.  The guards its three outcomes share: begin a          *)
(* remediation, aggregate a chunk of participants, or select from a chunk. *)
(***************************************************************************)
Finalizing ==
    /\ ~lottery.settlement_complete /\ ~lottery.settled
    /\ lottery.participants_count > 1
    /\ lottery.attested_count # 0
    /\ ~SettlementExpired

\* mutant: all reveals present is taken for all reveals final
ReadyToFinalize_Early == Finalizing /\ ~HasMissingAttestedReveals

ReadyToFinalize ==
    /\ Finalizing
    /\ ~HasMissingAttestedReveals
    /\ lottery.uploads_complete \/ UploadElapsed

BeginRemediation ==
    /\ Finalizing
    /\ HasMissingAttestedReveals
    /\ UploadElapsed
    /\ lottery.remediation_start = 0
    /\ lottery' = BegunRemediation(lottery)
    /\ UNCHANGED <<now, participant, roster, tally, root, page, vault, received, treasury>>

\* load_or_create_root
LoadRoot ==
    IF root.phase = "none"
    THEN [NoRoot EXCEPT !.phase = "aggregating", !.required = lottery.participants_count]
    ELSE root

RemainingTickets(r) == r.eligible_tickets - r.selected_tickets

BeginSelectionRound(r, draw) ==
    [r EXCEPT !.phase = "selecting", !.round_processed = 0, !.round_seen = 0,
              !.draw = draw, !.pending = NoWallet]

\* the wallets at the positions first .. last of the roster
Chunk(first, last) == {roster[i] : i \in first..last}

(***************************************************************************)
(* process_aggregation_chunk: count the eligible participants from the     *)
(* cursor up to position `last`; at the end of the roster, fix the number  *)
(* of winners and draw the first ticket.  The draw is a hash of data fixed *)
(* by then; any outcome below the remaining tickets is possible.           *)
(***************************************************************************)
AggregateChunk(last, draw) ==
    LET r        == LoadRoot
        chunk    == Chunk(r.processed + 1, last)
        eligible == {w \in chunk : participant[w].included}
        counted  == [r EXCEPT !.processed = last,
                              !.eligible_count = @ + Cardinality(eligible),
                              !.eligible_tickets = @ + TicketCount(eligible)]
        target   == Min({Max({lottery.selected_number_of_winners, 1}),
                         EffectiveMaxWinners, counted.eligible_count})
    IN  /\ ReadyToFinalize
        /\ r.phase = "aggregating"
        /\ r.required = lottery.participants_count
        /\ last \in (r.processed + 1)..r.required
        /\ \A w \in chunk : /\ participant[w].open
                            /\ participant[w].tickets # 0
                            /\ ~participant[w].finalized
        /\ \/ /\ last < r.required
              /\ draw = 0
              /\ root' = counted
              /\ UNCHANGED lottery
           \/ /\ last = r.required
              /\ counted.eligible_count # 0 /\ counted.eligible_tickets # 0
              /\ ValidWinnersCount(target)
              /\ draw < RemainingTickets(counted)
              /\ root' = BeginSelectionRound([counted EXCEPT !.target = target], draw)
              /\ lottery' = [lottery EXCEPT !.selected_number_of_winners = target]
        /\ participant' = [w \in Wallets |->
              IF w \in chunk THEN [participant[w] EXCEPT !.finalized = TRUE] ELSE participant[w]]
        /\ UNCHANGED <<now, roster, tally, page, vault, received, treasury>>

\* mutant: earlier winners stay in the draw
Live_WithWinners(w) == participant[w].included

(***************************************************************************)
(* process_selection_chunk: walk the tickets of the wallets not selected   *)
(* yet, up to position `last`; the one wallet that holds the drawn ticket  *)
(* is the round's winner.  At the end of the roster the winner is appended *)
(* to its page, and either the next round is drawn or the lottery vests.   *)
(***************************************************************************)
Live(w) == participant[w].included /\ ~participant[w].selected

WalkChunk(last) ==
    LET first == root.round_processed + 1
        live  == {w \in Chunk(first, last) : Live(w)}
        start(i) == root.round_seen + TicketCount({w \in Chunk(first, i - 1) : Live(w)})
        hits  == {i \in first..last :
                     /\ roster[i] \in live
                     /\ start(i) <= root.draw
                     /\ root.draw < start(i) + participant[roster[i]].tickets}
        found == root.pending = NoWallet /\ hits # {}
    IN  [root EXCEPT !.round_processed = last,
                     !.round_seen = @ + TicketCount(live),
                     !.pending = IF found THEN roster[CHOOSE i \in hits : TRUE] ELSE @]

\* record_winner
RecordWinner(r) ==
    [r EXCEPT !.selected_count = @ + 1,
              !.selected_tickets = @ + participant[r.pending].tickets]

\* compute_service_fee and the payout arithmetic of complete_finalization
ServiceFee == (lottery.total_funds * ServiceChargeBps) \div 10000

WinnersPool == lottery.total_funds - ServiceFee

\* mutant: the share is rounded up
SharePerWinner_RoundedUp(count) == (WinnersPool + count - 1) \div count

SharePerWinner(count) == WinnersPool \div count

\* mutant: one winner more than was selected
Vested_OffByOne(l, count) ==
    [l EXCEPT !.winners_count = count + 1,
              !.total_payout = SharePerWinner(count) * count,
              !.settlement_start = SettlementStart]

Vested(l, count) ==
    [l EXCEPT !.winners_count = count,
              !.total_payout = SharePerWinner(count) * count,
              !.settlement_start = SettlementStart]

SelectChunk(last, draw) ==
    LET walked   == WalkChunk(last)
        recorded == RecordWinner(walked)
        marked   == IF walked.pending = root.pending THEN {} ELSE {walked.pending}
    IN  /\ ReadyToFinalize
        /\ root.phase = "selecting"
        /\ root.required = lottery.participants_count
        /\ last \in (root.round_processed + 1)..root.required
        /\ \A w \in Chunk(root.round_processed + 1, last) :
              participant[w].open /\ participant[w].finalized /\ participant[w].tickets # 0
        /\ \/ /\ last < root.required
              /\ draw = 0
              /\ root' = walked
              /\ UNCHANGED <<lottery, page>>
           \/ /\ last = root.required
              /\ walked.round_seen = RemainingTickets(walked)
              /\ walked.pending # NoWallet
              /\ recorded.selected_count <= root.target
              /\ page' = [page EXCEPT !.entries = Append(@, walked.pending)]
              /\ \/ /\ recorded.selected_count < root.target
                    /\ draw < RemainingTickets(recorded)
                    /\ root' = BeginSelectionRound(recorded, draw)
                    /\ UNCHANGED lottery
                 \/ /\ recorded.selected_count = root.target
                    /\ draw = 0
                    /\ lottery.winners_count = 0
                    /\ WinnersPool >= recorded.selected_count
                    /\ root' = [recorded EXCEPT !.phase = "completed"]
                    /\ lottery' = Vested(lottery, recorded.selected_count)
        /\ participant' = [w \in Wallets |->
              IF w \in marked THEN [participant[w] EXCEPT !.selected = TRUE] ELSE participant[w]]
        /\ UNCHANGED <<now, roster, tally, vault, received, treasury>>

(***************************************************************************)
(* SettlePayoutBatch: anyone pays the winners named by a batch of indexes, *)
(* all on one page.  The loop skips a winner whose two paid flags are set, *)
(* so an index named twice is paid the first time only.  The batch that    *)
(* pays the last winner also sends the fee, the rounding remainder and the *)
(* vault's rent to the authority.                                          *)
(***************************************************************************)
PageOf(index) == index \div WinnersPerPage

\* mutant: the paid flags are read once, before the loop
PayingPositions_ReadOnce(batch) ==
    {i \in DOMAIN batch : batch[i] \notin page.paid \cup lottery.paid_winners}

PayingPositions(batch) ==
    {i \in DOMAIN batch : /\ batch[i] \notin page.paid \cup lottery.paid_winners
                          /\ \A j \in 1..(i - 1) : batch[j] # batch[i]}

PaidTo(batch, w) ==
    Cardinality({i \in PayingPositions(batch) : page.entries[batch[i] + 1] = w})

\* mutant: the u32 counter does not saturate
NextBatchCount_Unbounded == lottery.settlement_batches_completed + 1

\* increment_settlement_batch
NextBatchCount == Min({lottery.settlement_batches_completed + 1, U32Max})

\* what the vault keeps after the batch, and the indexes paid by then
LeftAfter(batch) ==
    vault - (lottery.total_payout \div lottery.winners_count)
            * Cardinality(PayingPositions(batch))

PaidAfter(batch) == lottery.paid_winners \cup {batch[i] : i \in DOMAIN batch}

AllPaidAfter(batch) == PaidAfter(batch) = 0..(lottery.winners_count - 1)

MayPay(batch) ==
    LET remainder == Max({Max({lottery.total_funds - lottery.total_payout, 0}) - ServiceFee, 0})
    IN  /\ ~lottery.settlement_complete
        /\ lottery.winners_count # 0
        /\ batch # << >>
        /\ \A i \in DOMAIN batch : /\ batch[i] < lottery.winners_count
                                   /\ batch[i] < Len(page.entries)
                                   /\ PageOf(batch[i]) = PageOf(batch[1])
                                   /\ batch[i] \in page.paid <=> batch[i] \in lottery.paid_winners
        /\ LeftAfter(batch) >= 0
        /\ AllPaidAfter(batch) => LeftAfter(batch) >= ServiceFee + remainder

SettlePayoutBatch(batch) ==
    LET amount  == lottery.total_payout \div lottery.winners_count
        left    == LeftAfter(batch)
        allPaid == AllPaidAfter(batch)
    IN  /\ MayPay(batch)
        /\ page' = [page EXCEPT !.paid = @ \cup {batch[i] : i \in DOMAIN batch}]
        /\ received' = [w \in Wallets |-> received[w] + amount * PaidTo(batch, w)]
        /\ lottery' = [lottery EXCEPT
              !.paid_winners = PaidAfter(batch),
              !.settlement_batches_completed = NextBatchCount,
              !.settlement_complete = allPaid,
              !.settled = @ \/ allPaid]
        /\ vault' = IF allPaid THEN 0 ELSE left
        /\ treasury' = IF allPaid THEN treasury + left ELSE treasury
        /\ UNCHANGED <<now, participant, roster, tally, root>>

\* mutant: no cancellation by timeout
MayCancel_NoTimeout == lottery.attested_count = 0 \/ RemediationExpired

MayCancel == lottery.attested_count = 0 \/ RemediationExpired \/ SettlementExpired

(***************************************************************************)
(* FinalizeNoAttesters: cancels the lottery.  A sole participant's lottery *)
(* may be cancelled once sales close, any other once uploads close, and    *)
(* then only if nobody attested, an omitted reveal was not remedied in     *)
(* time, or the settlement deadline has passed.                            *)
(***************************************************************************)
Cancellable ==
    /\ ~lottery.settled
    /\ ~HasVestedWinners
    /\ \/ lottery.participants_count = 1 /\ now >= BuyDeadline
       \/ now >= UploadDeadline
    /\ MayCancel

FinalizeNoAttesters ==
    /\ Cancellable
    /\ lottery' = [lottery EXCEPT !.settled = TRUE]
    /\ UNCHANGED <<now, participant, roster, tally, root, page, vault, received, treasury>>

\* mutant: undecided is taken for cancelled
Refundable_Undecided == lottery.winners_count = 0 /\ lottery.total_payout = 0

Refundable ==
    /\ lottery.settled
    /\ lottery.winners_count = 0
    /\ lottery.total_payout = 0

RefundOf(w) == TicketPrice * participant[w].tickets

(***************************************************************************)
(* ClaimRefund: a participant of a cancelled lottery takes its money back. *)
(* settlement_batches_completed doubles as the count of claims.            *)
(***************************************************************************)
MayClaim(w) ==
    /\ participant[w].open
    /\ Refundable
    /\ participant[w].tickets # 0
    /\ ~participant[w].refund_claimed
    /\ vault >= RefundOf(w)
    /\ lottery.settlement_batches_completed < U32Max

ClaimRefund(w) ==
    /\ MayClaim(w)
    /\ vault' = vault - RefundOf(w)
    /\ received' = [received EXCEPT ![w] = @ + RefundOf(w)]
    /\ participant' = [participant EXCEPT ![w].refund_claimed = TRUE]
    /\ lottery' = [lottery EXCEPT !.settlement_batches_completed = @ + 1]
    /\ UNCHANGED <<now, roster, tally, root, page, treasury>>

\* mutants: the last claim is not waited for; one claim too many is waited for
AllRefundsClaimed_Early ==
    lottery.settlement_batches_completed + 1 >= lottery.participants_count

AllRefundsClaimed_Never ==
    lottery.settlement_batches_completed > lottery.participants_count

AllRefundsClaimed == lottery.settlement_batches_completed >= lottery.participants_count

(***************************************************************************)
(* CloseRefundVault: once every refund is claimed, what the vault still    *)
(* holds goes to the authority.                                            *)
(***************************************************************************)
MayClose ==
    /\ Refundable
    /\ AllRefundsClaimed
    /\ vault # 0

CloseRefundVault ==
    /\ MayClose
    /\ vault' = 0
    /\ treasury' = treasury + vault
    /\ UNCHANGED <<now, lottery, participant, roster, tally, root, page, received>>

(***************************************************************************)
(* CloseParticipant: deletes a Participant account.  The record keeps its  *)
(* last contents for the properties below; with open = FALSE no handler    *)
(* reads it again.                                                         *)
(***************************************************************************)
CloseParticipant(w) ==
    /\ participant[w].open
    /\ \/ /\ lottery.settled
          /\ lottery.winners_count = 0
          /\ participant[w].refund_claimed
       \/ lottery.settlement_complete /\ lottery.winners_count > 0
    /\ participant' = [participant EXCEPT ![w].open = FALSE]
    /\ UNCHANGED <<now, lottery, roster, tally, root, page, vault, received, treasury>>

Tick ==
    /\ now < Horizon
    /\ now' = now + 1
    /\ UNCHANGED <<lottery, participant, roster, tally, root, page,
                   vault, received, treasury>>

Batches == UNION {[1..k -> 0..(Len(page.entries) - 1)] : k \in 1..MaxBatch}

Next ==
    \/ Tick
    \/ \E w \in Wallets, n \in 1..MaxTickets : BuyTickets(w, n)
    \/ \E w \in Wallets, v \in 1..MaxWinnersCap : AttestUploaded(w, v)
    \/ \E w \in Wallets, v \in 1..MaxWinnersCap : AttestReveal(w, v)
    \/ \E byAuthority \in BOOLEAN, S \in SUBSET Wallets : UploadReveals(byAuthority, S)
    \/ BeginRemediation
    \/ \E last \in 1..Len(roster), draw \in 0..MaxTickets : AggregateChunk(last, draw)
    \/ \E last \in 1..Len(roster), draw \in 0..MaxTickets : SelectChunk(last, draw)
    \/ \E batch \in Batches : SettlePayoutBatch(batch)
    \/ FinalizeNoAttesters
    \/ \E w \in Wallets : ClaimRefund(w)
    \/ CloseRefundVault
    \/ \E w \in Wallets : CloseParticipant(w)

Spec == Init /\ [][Next]_vars

(***************************************************************************)
(* Fairness.  The clock advances.  Cancelling, paying and closing need     *)
(* nobody in particular: whoever is owed money can send the transaction.   *)
(* A refund needs its owner's signature, so fairness for it is the         *)
(* assumption that owners come for their money.  Nothing is assumed of     *)
(* buying, attesting, uploading or finalizing.                             *)
(***************************************************************************)
PayNext(i) == SettlePayoutBatch(<<i>>) /\ i \notin lottery.paid_winners

Fairness ==
    /\ WF_vars(Tick)
    /\ WF_vars(FinalizeNoAttesters)
    /\ \A w \in Wallets : WF_vars(ClaimRefund(w))
    /\ WF_vars(CloseRefundVault)
    /\ WF_vars(\E i \in 0..(Len(page.entries) - 1) : PayNext(i))

FairSpec == Spec /\ Fairness

------------------------------------------------------------------------------
(***************************************************************************)
(* Properties.                                                             *)
(***************************************************************************)
Winners == {page.entries[i] : i \in DOMAIN page.entries}

IsTally(t) ==
    /\ t = [max_winners |-> t.max_winners, weights |-> t.weights, first_seen |-> t.first_seen]
    /\ t.max_winners \in 0..MaxWinnersCap
    /\ t.weights \in [1..t.max_winners -> Nat]
    /\ DOMAIN t.first_seen = 1..t.max_winners

LotteryType ==
    [settlement_start: Nat, total_tickets: 0..MaxTickets, total_funds: Nat,
     provider_uploaded_count: Nat, uploads_complete: BOOLEAN,
     settled: BOOLEAN, attested_count: Nat, participants_count: 0..MaxParticipants,
     selected_number_of_winners: Nat \ {0}, winners_count: Nat, total_payout: Nat,
     paid_winners: SUBSET Nat, settlement_batches_completed: 0..U32Max,
     settlement_complete: BOOLEAN, remediation_start: Nat, remediation_deadline: Nat]

ParticipantType ==
    [open: BOOLEAN, tickets: 0..MaxTickets, attested: BOOLEAN, attested_at: Nat,
     vote: Nat, included: BOOLEAN, finalized: BOOLEAN, selected: BOOLEAN,
     refund_claimed: BOOLEAN]

RootType ==
    [phase: {"none", "aggregating", "selecting", "completed"}, required: Nat,
     processed: Nat, eligible_count: Nat, eligible_tickets: Nat, target: Nat,
     selected_count: Nat, selected_tickets: Nat, round_processed: Nat,
     round_seen: Nat, draw: Nat, pending: Wallets \cup {NoWallet}]

(* The type invariant: account fields keep their ranges; in particular the
   batch counter stays within its u32 although anyone may repeat a paid
   batch as often as they like (increment_settlement_batch saturates). *)
TypeOK ==
    /\ now \in 1..Horizon
    /\ lottery \in LotteryType
    /\ participant \in [Wallets -> ParticipantType]
    /\ roster \in Seq(Wallets)
    /\ IsTally(tally)
    /\ root \in RootType
    /\ page \in [entries: Seq(Wallets), paid: SUBSET Nat]
    /\ vault \in Nat
    /\ received \in [Wallets -> Nat]
    /\ treasury \in Nat

(* Solvent: until it is closed, the vault holds its rent and everything that
   is still owed: the tickets sold while nothing is decided, the unpaid
   shares and the fee once winners vested, the unclaimed refunds once the
   lottery is cancelled. *)
UnpaidShares == lottery.winners_count - Cardinality(lottery.paid_winners)

Unclaimed == {w \in Wallets : ~participant[w].refund_claimed}

StillOwed ==
    IF HasVestedWinners THEN SharePerWinner(lottery.winners_count) * UnpaidShares + ServiceFee
    ELSE IF lottery.settled THEN TicketPrice * TicketCount(Unclaimed)
    ELSE TicketPrice * TicketCount(Wallets)

Closed == lottery.settlement_complete \/ (Refundable /\ vault = 0)

Solvent == ~Closed => vault >= VaultRent + StillOwed

(* PaidExactly: a wallet is never sent more than its one entitlement: an
   equal share of the pool if it is a winner whose index is marked paid, its
   ticket price back if it claimed a refund, and nothing otherwise, however
   payout batches repeat or overlap. *)
PaidExactly ==
    \A w \in Wallets :
        received[w] =
            IF HasVestedWinners
            THEN SharePerWinner(lottery.winners_count) *
                 Cardinality({i \in lottery.paid_winners : page.entries[i + 1] = w})
            ELSE IF participant[w].refund_claimed THEN RefundOf(w) ELSE 0

(* AuthorityPaidLast: the authority gets nothing out of the vault before
   everyone else has been paid, then exactly the rent and, if winners vested,
   the service fee and less than one unit per winner of rounding. *)
AuthorityPaidLast ==
    treasury # 0 =>
        /\ vault = 0
        /\ IF HasVestedWinners
           THEN /\ \A w \in Winners : received[w] = SharePerWinner(lottery.winners_count)
                /\ treasury - VaultRent - ServiceFee \in 0..(lottery.winners_count - 1)
           ELSE /\ \A w \in Wallets : received[w] = RefundOf(w)
                /\ treasury = VaultRent

(* NobodyBlocked: nobody depends on anybody else for what it is owed.  As
   long as a share is unpaid, a batch that names that winner alone is
   accepted; a deposit of a cancelled lottery can be claimed; behind the last
   claim the vault can be closed; and once the settlement deadline is past,
   an undecided lottery can be cancelled.  A vault short of a unit, paid
   flags of two accounts out of step, a counter at its limit or an account
   deleted too early would strand the money for good.
   (settle_payout_batch.rs, claim_refund.rs, close_refund_vault.rs,
   finalize_no_attesters.rs) *)
Unpaid == (0..(lottery.winners_count - 1)) \ lottery.paid_winners

OwedRefund == {w \in Wallets : participant[w].tickets > 0 /\ ~participant[w].refund_claimed}

NobodyBlocked ==
    /\ HasVestedWinners /\ ~lottery.settlement_complete =>
          Unpaid # {} /\ \A i \in Unpaid : MayPay(<<i>>)
    /\ Refundable => \A w \in OwedRefund : MayClaim(w)
    /\ Refundable /\ OwedRefund = {} /\ vault # 0 => MayClose
    /\ SettlementExpired => HasVestedWinners \/ lottery.settled \/ Cancellable

(* NoAttestedRevealOmitted: finalization never starts while a reveal that its
   owner attested is missing, so no attested ticket is left out of the draw
   and winners cannot vest over an omission. *)
NoAttestedRevealOmitted ==
    root.phase # "none" =>
        \A w \in Wallets : participant[w].attested => participant[w].included

(* SelectionSound: while a round is under way, the cursor, the running ticket
   total and the pending winner agree with the roster walked so far, the draw
   lies within the tickets that remain, and the wallets marked selected are
   the winners recorded plus the pending one, none of them twice.  So the
   WinnerNotFound error cannot strand a selection. *)
SelectionSound ==
    root.phase = "selecting" =>
        LET inRound(S) == {w \in S : participant[w].included /\ w \notin Winners}
            walked     == inRound(Chunk(1, root.round_processed))
        IN  /\ root.round_seen = TicketCount(walked)
            /\ RemainingTickets(root) = TicketCount(inRound(Wallets))
            /\ root.draw < RemainingTickets(root)
            /\ root.pending # NoWallet <=> root.draw < root.round_seen
            /\ root.pending # NoWallet => root.pending \in walked
            /\ {w \in Wallets : participant[w].selected} =
                   Winners \cup ({root.pending} \ {NoWallet})
            /\ Cardinality(Winners) = root.selected_count
            /\ Len(page.entries) = root.selected_count

(* WinnerCountIsPlurality: the number of winners finalization settles on is
   the one with most attested tickets behind it, however the reveals were
   batched, cut down only to the eligible participants. *)
WinnerCountIsPlurality ==
    root.phase \in {"selecting", "completed"} =>
        LET voters == {w \in Wallets : participant[w].attested}
        IN  root.target = Min({Plurality(Ballots(participant, voters), EffectiveMaxWinners),
                               root.eligible_count})

(* OutcomeIsFinal: once winners vested, their number, the payout and the
   winner list never change and no refund is ever claimed; once the lottery
   is cancelled, winners never vest. *)
OutcomeKept ==
    /\ HasVestedWinners =>
          /\ lottery'.winners_count = lottery.winners_count
          /\ lottery'.total_payout = lottery.total_payout
          /\ page'.entries = page.entries
          /\ \A w \in Wallets :
                participant'[w].refund_claimed = participant[w].refund_claimed
    /\ Refundable => Refundable'

OutcomeIsFinal == [][OutcomeKept]_vars

(* EligibilityFrozen: from the first finalization chunk on, nothing that
   decides who can win changes: no ticket, attestation, vote or reveal is
   added between two chunks. *)
Eligibility(w) ==
    <<participant[w].tickets, participant[w].attested, participant[w].vote,
      participant[w].included>>

EligibilityKept ==
    root.phase # "none" => \A w \in Wallets : Eligibility(w)' = Eligibility(w)

EligibilityFrozen == [][EligibilityKept]_vars

(* Resolves: whatever the authority, the provider and the participants do or
   fail to do, winners vest or the lottery is cancelled. *)
Resolves == <>(HasVestedWinners \/ lottery.settled)

(* VestedArePaid: once winners vest, every winner and then the authority are
   eventually paid, without the authority's help. *)
VestedArePaid ==
    HasVestedWinners ~>
        /\ lottery.settlement_complete
        /\ \A w \in Winners : received[w] = SharePerWinner(lottery.winners_count)

(* RefundsComplete: once the lottery is cancelled, every participant gets its
   money back and the vault is closed behind the last of them. *)
RefundsComplete ==
    Refundable ~> vault = 0 /\ \A w \in Wallets : received[w] = RefundOf(w)
==============================================================================
