------------------------------- MODULE Giveaway -------------------------------
(***************************************************************************)
(* One giveaway from its creation to the end of its money                  *)
(* (programs/giveaways-v1).  A creator funds it; participants commit to    *)
(* secret words, attest that the provider holds their reveal, or publish   *)
(* it themselves; the provider uploads the reveals and selects the winners *)
(* chunk by chunk (RadixSelection); anyone pays them in batches, or, when  *)
(* there can be no winners, sends the money back to the creator.           *)
(*                                                                         *)
(* Transactions are atomic: each action below is one instruction that      *)
(* succeeds.  One that fails changes nothing.                              *)
(*                                                                         *)
(* Left abstract: commitments, salts, digests and their xor, signatures    *)
(* and the receipt of the provider, of which only the effect of accepting  *)
(* them remains; the update of an entry before the uploads, which changes  *)
(* only the commitment; events; account sizes and their rent, but for the  *)
(* vault's.                                                                *)
(***************************************************************************)
EXTENDS RadixSelection

CONSTANTS
    NumberOfWinners,     \* giveaway.number_of_winners
    TotalPayout,         \* giveaway.total_payout_lamports
    ServiceFeeBps,       \* giveaway.service_fee_bps
    ActiveStart,         \* giveaway.active_start_unix
    ActiveWindow,        \* active_deadline_unix - active_start_unix
    UploadWindow,        \* upload_duration_secs
    RemediationWindow,   \* DEFAULT_REMEDIATION_WINDOW_SECS
    MaxParticipants,     \* MAX_PARTICIPANTS
    MaxReveals,          \* MAX_REVEALS_PER_BATCH
    U32Max,              \* u32::MAX
    VaultRent,           \* rent-exempt lamports the vault is created with
    MaxBatch,            \* MAX_WINNERS_PER_BATCH
    MaxIdle,             \* bound: batches after which none without a payment is sent
    Horizon              \* bound: the last clock reading

(***************************************************************************)
(* The schedule that Giveaway::initialize derives at creation.             *)
(***************************************************************************)
ActiveDeadline     == ActiveStart + ActiveWindow
UploadStart        == ActiveDeadline
UploadDeadline     == ActiveDeadline + UploadWindow
SettlementDeadline == UploadDeadline + 2 * RemediationWindow

MinWinnerPayout == 1

ServiceFee == (TotalPayout * ServiceFeeBps) \div 10000

WinnersPool == TotalPayout - ServiceFee

PerWinner(count) == IF count = 0 THEN 0 ELSE WinnersPool \div count

\* what CreateGiveaway validates
ASSUME ScheduleAssumption ==
    /\ ActiveStart \in Nat \ {0}
    /\ ActiveWindow \in Nat \ {0}
    /\ UploadWindow \in Nat \ {0}
    /\ RemediationWindow \in Nat \ {0}
    /\ Horizon \in Nat

ASSUME MoneyAssumption ==
    /\ TotalPayout \in Nat \ {0}
    /\ ServiceFeeBps \in 0..9999
    /\ VaultRent \in Nat \ {0}
    /\ NumberOfWinners \in Nat \ {0}
    /\ WinnersPool >= NumberOfWinners * MinWinnerPayout

ASSUME LimitAssumption ==
    /\ MaxParticipants \in Nat
    /\ MaxReveals \in Nat
    /\ MaxBatch \in Nat
    /\ MaxIdle \in Nat
    /\ U32Max \in Nat
    /\ NumberOfWinners + MaxIdle <= U32Max

VARIABLES
    now,            \* Clock::get()?.unix_timestamp
    giveaway,       \* the Giveaway account
    participant,    \* the Participant account of each wallet
    roster,         \* wallets by participant_index
    ledger,         \* the WinnersLedger account
    vault,          \* lamports of the vault
    received,       \* lamports each wallet was sent from the vault
    provider_fee,   \* lamports the provider was sent from the vault
    creator_refund  \* lamports the creator was sent from the vault

money == <<vault, received, provider_fee, creator_refund>>

vars == <<now, giveaway, participant, roster, root, stamp, ledger, money>>

NewGiveaway ==
    [participants_count |-> 0, disqualified_count |-> 0, attested_count |-> 0,
     provider_uploaded_count |-> 0, uploads_complete |-> FALSE,
     winners_computed |-> FALSE, winners_locked |-> FALSE, settled |-> FALSE,
     remediation_start |-> 0, remediation_deadline |-> 0]

NewParticipant ==
    [open |-> FALSE, attested |-> FALSE, included |-> FALSE,
     disqualified |-> FALSE, paid |-> FALSE]

NoLedger ==
    [seed |-> NoSeed, threshold_key |-> NoKey, winners_count |-> 0,
     per_winner |-> 0, paid_count |-> 0, batches_processed |-> 0]

\* as CreateGiveaway leaves it, at the latest when entries open
Init ==
    /\ now \in 0..ActiveStart
    /\ giveaway = NewGiveaway
    /\ participant = [w \in Candidates |-> NewParticipant]
    /\ roster = << >>
    /\ root = NoRoot
    /\ stamp = [w \in Candidates |-> NoStamp]
    /\ ledger = NoLedger
    /\ vault = TotalPayout + VaultRent
    /\ received = [w \in Candidates |-> 0]
    /\ provider_fee = 0
    /\ creator_refund = 0

(***************************************************************************)
(* What the handlers read off a Giveaway account.                          *)
(***************************************************************************)
InActivePhase == now >= ActiveStart /\ now < ActiveDeadline

InUploadPhase == now >= UploadStart /\ now < UploadDeadline

EligibleCount == giveaway.participants_count - giveaway.disqualified_count

\* mutant: one attestation is enough
PublicationAllowed_Any == now >= UploadDeadline \/ giveaway.attested_count > 0

\* reveal_publication_allowed, is_ready_for_settlement
PublicationAllowed ==
    \/ now >= UploadDeadline
    \/ EligibleCount > 0 /\ giveaway.attested_count = EligibleCount

HasMissing ==
    /\ giveaway.attested_count > 0
    /\ giveaway.provider_uploaded_count < giveaway.attested_count

RevealsComplete ==
    /\ giveaway.attested_count > 0
    /\ giveaway.provider_uploaded_count >= giveaway.attested_count

RemediationExpired ==
    /\ giveaway.remediation_deadline > 0
    /\ now > giveaway.remediation_deadline
    /\ HasMissing

\* begin_remediation, on the account g
BegunRemediation(g) ==
    IF g.remediation_start = 0
    THEN [g EXCEPT !.remediation_start = now,
                   !.remediation_deadline = now + RemediationWindow]
    ELSE g

\* add_uploaded_reveals, on the account g
WithReveals(g, count) ==
    LET uploaded == g.provider_uploaded_count + count
    IN  [g EXCEPT !.provider_uploaded_count = uploaded,
                  !.uploads_complete = g.attested_count > 0 /\ uploaded >= g.attested_count]

Eligible == {w \in Candidates : participant[w].included /\ ~participant[w].disqualified}

(***************************************************************************)
(* Participate: a new entry takes the next index.                          *)
(***************************************************************************)
Participate(w) ==
    /\ ~giveaway.settled
    /\ InActivePhase
    /\ ~participant[w].open
    /\ giveaway.participants_count < MaxParticipants
    /\ participant' = [participant EXCEPT ![w] = [NewParticipant EXCEPT !.open = TRUE]]
    /\ roster' = Append(roster, w)
    /\ giveaway' = [giveaway EXCEPT !.participants_count = @ + 1]
    /\ UNCHANGED <<now, root, stamp, ledger, money>>

\* mutant: the creator may disqualify while reveals are attested
DisqualificationOpen_UntilUploaded == now < UploadDeadline

DisqualificationOpen == now < UploadStart

\* DisqualifyParticipant, signed by the creator
DisqualifyParticipant(w) ==
    /\ ~giveaway.settled
    /\ ~giveaway.winners_locked
    /\ participant[w].open
    /\ ~participant[w].disqualified
    /\ DisqualificationOpen
    /\ participant' = [participant EXCEPT ![w].disqualified = TRUE]
    /\ giveaway' = [giveaway EXCEPT !.disqualified_count = @ + 1]
    /\ UNCHANGED <<now, roster, root, stamp, ledger, money>>

\* AttestUploaded: anyone may relay the receipt the provider signed
AttestUploaded(w) ==
    /\ ~giveaway.settled
    /\ InUploadPhase
    /\ participant[w].open
    /\ ~participant[w].attested
    /\ ~participant[w].disqualified
    /\ participant' = [participant EXCEPT ![w].attested = TRUE]
    /\ giveaway' = [giveaway EXCEPT !.attested_count = @ + 1]
    /\ UNCHANGED <<now, roster, root, stamp, ledger, money>>

\* mutant: a participant that had attested already is counted again
AttestedOnReveal_Again(w) == [giveaway EXCEPT !.attested_count = @ + 1]

AttestedOnReveal(w) ==
    IF participant[w].attested THEN giveaway
    ELSE [giveaway EXCEPT !.attested_count = @ + 1]

\* AttestReveal: a participant publishes its own reveal
AttestReveal(w) ==
    /\ ~giveaway.settled
    /\ InUploadPhase
    /\ participant[w].open
    /\ ~participant[w].disqualified
    /\ ~participant[w].included
    /\ participant' = [participant EXCEPT ![w].attested = TRUE, ![w].included = TRUE]
    /\ giveaway' = WithReveals(AttestedOnReveal(w), 1)
    /\ UNCHANGED <<now, roster, root, stamp, ledger, money>>

(***************************************************************************)
(* UploadReveals: the provider, or anyone once the upload deadline has     *)
(* passed with attested reveals missing, includes the reveals of S.  The   *)
(* first one to remedy begins the remediation.                             *)
(***************************************************************************)
UploadReveals(byProvider, S) ==
    LET canRemediate == ~byProvider /\ now >= UploadDeadline /\ HasMissing
    IN  /\ ~giveaway.settled
        /\ S # {} /\ Cardinality(S) <= MaxReveals
        /\ ~RemediationExpired
        /\ byProvider \/ canRemediate
        /\ PublicationAllowed
        /\ ~giveaway.winners_computed
        /\ \A w \in S : /\ participant[w].open
                        /\ ~participant[w].included
                        /\ ~participant[w].disqualified
                        /\ participant[w].attested
        /\ participant' = [w \in Candidates |->
              IF w \in S THEN [participant[w] EXCEPT !.included = TRUE] ELSE participant[w]]
        /\ giveaway' = WithReveals(
              IF canRemediate THEN BegunRemediation(giveaway) ELSE giveaway,
              Cardinality(S))
        /\ UNCHANGED <<now, roster, root, stamp, ledger, money>>

(***************************************************************************)
(* FinalizeWinners, by the provider and before the settlement deadline.    *)
(* With reveals missing it can only begin the remediation.                 *)
(***************************************************************************)
Finalizing ==
    /\ ~giveaway.settled
    /\ ~giveaway.winners_locked
    /\ now < SettlementDeadline
    /\ PublicationAllowed
    /\ giveaway.attested_count > 0

BeginRemediation(byProvider) ==
    /\ byProvider
    /\ Finalizing
    /\ HasMissing
    /\ now >= UploadDeadline
    /\ giveaway.remediation_start = 0
    /\ giveaway' = BegunRemediation(giveaway)
    /\ UNCHANGED <<now, participant, roster, root, stamp, ledger, money>>

\* mutant: the flag is trusted, which a later attestation does not clear
ReadyToSelect_ByFlag == Finalizing /\ giveaway.uploads_complete

ReadyToSelect == Finalizing /\ ~HasMissing

\* mutant: the passes are set up for the participants that can win
LoadRoot_EligibleOnly == IF root.phase = "none" THEN NewRoot(EligibleCount) ELSE root

LoadRoot == IF root.phase = "none" THEN NewRoot(giveaway.participants_count) ELSE root

\* finalize_settlement_root: the winners are fixed and locked
MayLock(r) == r.target_winners > 0 => PerWinner(r.target_winners) >= MinWinnerPayout

Locked(g, r) ==
    /\ MayLock(r)
    /\ ledger' = [NoLedger EXCEPT !.seed = r.seed,
                                  !.threshold_key = r.threshold_key,
                                  !.winners_count = r.target_winners,
                                  !.per_winner = PerWinner(r.target_winners)]
    /\ giveaway' = [g EXCEPT !.winners_computed = TRUE, !.winners_locked = TRUE]

\* one chunk of participants, up to index `last`
FinalizeChunk(byProvider, last, seed) ==
    LET g == [giveaway EXCEPT !.uploads_complete = @ \/ RevealsComplete]
    IN  /\ byProvider
        /\ ReadyToSelect
        /\ LoadRoot.required_count = giveaway.participants_count
        /\ SelectChunk(LoadRoot, roster, Eligible, last, NumberOfWinners, seed)
        /\ \/ root'.phase # "completed" /\ giveaway' = g /\ ledger' = ledger
           \/ root'.phase = "completed" /\ Locked(g, root')
        /\ UNCHANGED <<now, participant, roster, money>>

(***************************************************************************)
(* SettlePayoutBatch, by anyone: the participants named must have won;     *)
(* one that was paid, before or earlier in the batch, is passed over.      *)
(***************************************************************************)
Winner(w) ==
    giveaway.winners_locked /\ participant[w].open /\ w \in Eligible /\ Wins(ledger, w)

\* mutant: the accounts are read once, before the batch
PayingPositions_ReadOnce(batch) == {i \in DOMAIN batch : ~participant[batch[i]].paid}

PayingPositions(batch) ==
    {i \in DOMAIN batch :
        ~participant[batch[i]].paid /\ \A j \in 1..(i - 1) : batch[j] # batch[i]}

PaidTo(batch, w) == Cardinality({i \in PayingPositions(batch) : batch[i] = w})

PaidAfter(batch) == ledger.paid_count + Cardinality(PayingPositions(batch))

LeftAfter(batch) == vault - ledger.per_winner * Cardinality(PayingPositions(batch))

AllPaidAfter(batch) == PaidAfter(batch) = ledger.winners_count

MayPay(batch) ==
    /\ giveaway.winners_computed /\ giveaway.winners_locked
    /\ ~giveaway.settled
    /\ batch # << >>
    /\ ledger.winners_count > 0
    /\ \A i \in DOMAIN batch : Winner(batch[i])
    /\ ledger.per_winner >= MinWinnerPayout
    /\ LeftAfter(batch) >= 0
    /\ PaidAfter(batch) <= ledger.winners_count
    /\ ledger.batches_processed < U32Max
    /\ AllPaidAfter(batch) => LeftAfter(batch) >= ServiceFee

SettlePayoutBatch(batch) ==
    LET left == LeftAfter(batch)
        all  == AllPaidAfter(batch)
    IN  /\ MayPay(batch)
        /\ participant' = [w \in Candidates |->
              [participant[w] EXCEPT !.paid = @ \/ PaidTo(batch, w) > 0]]
        /\ received' = [w \in Candidates |->
              received[w] + ledger.per_winner * PaidTo(batch, w)]
        /\ ledger' = [ledger EXCEPT !.paid_count = PaidAfter(batch),
                                    !.batches_processed = @ + 1]
        /\ giveaway' = [giveaway EXCEPT !.settled = all]
        /\ vault' = IF all THEN 0 ELSE left
        /\ provider_fee' = IF all THEN provider_fee + ServiceFee ELSE provider_fee
        /\ creator_refund' = IF all THEN creator_refund + (left - ServiceFee) ELSE creator_refund
        /\ UNCHANGED <<now, roster, root, stamp>>

\* mutant: refunded as soon as the uploads start with nobody attested
NobodyAttested_AtOnce == giveaway.attested_count = 0 /\ now >= UploadStart

NobodyAttested == giveaway.attested_count = 0 /\ now >= UploadDeadline

\* mutant: no refund by timeout
Refundable_NoTimeout ==
    /\ ~giveaway.winners_locked
    /\ \/ giveaway.participants_count = 0 /\ now >= ActiveDeadline
       \/ giveaway.participants_count > 0 /\ NobodyAttested
       \/ RemediationExpired

\* refund_reason
Refundable ==
    /\ ~giveaway.winners_locked
    /\ \/ now >= SettlementDeadline
       \/ giveaway.participants_count = 0 /\ now >= ActiveDeadline
       \/ giveaway.participants_count > 0 /\ NobodyAttested
       \/ RemediationExpired

\* SettleGiveaway, by anyone: the creator gets everything back
SettleGiveaway ==
    /\ ~giveaway.settled
    /\ Refundable
    /\ creator_refund' = creator_refund + vault
    /\ vault' = 0
    /\ giveaway' = [giveaway EXCEPT !.settled = TRUE]
    /\ UNCHANGED <<now, participant, roster, root, stamp, ledger, received, provider_fee>>

(***************************************************************************)
(* CloseParticipant: deletes a Participant account.  The record keeps its  *)
(* last contents for the properties; no handler reads it again.            *)
(***************************************************************************)
CloseParticipant(w) ==
    /\ giveaway.settled
    /\ participant[w].open
    /\ participant' = [participant EXCEPT ![w].open = FALSE]
    /\ UNCHANGED <<now, giveaway, roster, root, stamp, ledger, money>>

Tick ==
    /\ now < Horizon
    /\ now' = now + 1
    /\ UNCHANGED <<giveaway, participant, roster, root, stamp, ledger, money>>

Batches == UNION {[1..k -> {w \in Candidates : Winner(w)}] : k \in 1..MaxBatch}

\* bound: only the first batches may name nobody left to pay
MayIdle(batch) == PayingPositions(batch) # {} \/ ledger.batches_processed < MaxIdle

\* a seed is drawn in the chunk that ends the aggregation
Drawn == {NoSeed} \cup IF LoadRoot.phase = "aggregating" THEN Seeds ELSE {}

Next ==
    \/ Tick
    \/ \E w \in Candidates : Participate(w)
    \/ \E w \in Candidates : DisqualifyParticipant(w)
    \/ \E w \in Candidates : AttestUploaded(w)
    \/ \E w \in Candidates : AttestReveal(w)
    \/ \E byProvider \in BOOLEAN, S \in SUBSET Candidates : UploadReveals(byProvider, S)
    \/ \E byProvider \in BOOLEAN : BeginRemediation(byProvider)
    \/ \E byProvider \in BOOLEAN, last \in 1..Len(roster), seed \in Drawn :
          FinalizeChunk(byProvider, last, seed)
    \/ \E batch \in Batches : MayIdle(batch) /\ SettlePayoutBatch(batch)
    \/ SettleGiveaway
    \/ \E w \in Candidates : CloseParticipant(w)

Spec == Init /\ [][Next]_vars

(***************************************************************************)
(* Fairness.  The clock advances, and paying and refunding need nobody in  *)
(* particular.  Nothing is assumed of the creator, the participants or the *)
(* provider, who may stop in the middle of the selection.                  *)
(***************************************************************************)
PayNext(w) == ~participant[w].paid /\ SettlePayoutBatch(<<w>>)

Fairness ==
    /\ WF_vars(Tick)
    /\ WF_vars(SettleGiveaway)
    /\ WF_vars(\E w \in Candidates : PayNext(w))

FairSpec == Spec /\ Fairness

------------------------------------------------------------------------------
(***************************************************************************)
(* Properties.                                                             *)
(***************************************************************************)
Counter == 0..MaxParticipants

GiveawayType ==
    [participants_count: Counter, disqualified_count: Counter,
     attested_count: Counter, provider_uploaded_count: Counter,
     uploads_complete: BOOLEAN, winners_computed: BOOLEAN,
     winners_locked: BOOLEAN, settled: BOOLEAN,
     remediation_start: Nat, remediation_deadline: Nat]

ParticipantType ==
    [open: BOOLEAN, attested: BOOLEAN, included: BOOLEAN,
     disqualified: BOOLEAN, paid: BOOLEAN]

LedgerType ==
    [seed: Seeds \cup {NoSeed}, threshold_key: Keys \cup {NoKey},
     winners_count: Nat, per_winner: Nat, paid_count: Nat,
     batches_processed: 0..U32Max]

(* The type invariant: account fields keep their ranges (those of the
   selection have theirs in RadixSelection).  No counter of the
   giveaway exceeds MAX_PARTICIPANTS, although a participant can be counted
   on two paths (AttestUploaded and AttestReveal). *)
TypeOK ==
    /\ now \in Nat
    /\ giveaway \in GiveawayType
    /\ participant \in [Candidates -> ParticipantType]
    /\ roster \in Seq(Candidates)
    /\ ledger \in LedgerType
    /\ vault \in Nat
    /\ received \in [Candidates -> Nat]
    /\ provider_fee \in Nat
    /\ creator_refund \in Nat

Attested == {w \in Candidates : participant[w].attested}

Disqualified == {w \in Candidates : participant[w].disqualified}

Included == {w \in Candidates : participant[w].included}

(* NoAttestedRevealOmitted: whoever's attestation was accepted is in the
   selection, from its first chunk on: the provider cannot leave out the
   reveal of a participant that attested, nor add one afterwards.
   (finalize_winners.rs, handle_missing_reveals; upload_reveals.rs) *)
NoAttestedRevealOmitted ==
    root.phase # "none" => Attested # {} /\ Included = Attested /\ Eligible = Attested

(* DrawSound: the locked winners are the participants with the smallest keys
   among all that attested, as many as were promised or as there are,
   whatever attested, uploaded, remedied and finalized in which order and in
   which chunks. *)
DrawSound ==
    giveaway.winners_locked =>
        {w \in Eligible : Wins(ledger, w)} =
        Smallest(Attested, Min({NumberOfWinners, Cardinality(Attested)}), ledger.seed)

(* EntropyPoolClosed: once reveals may become public, who takes part is
   settled: publication stays allowed, nobody attests any more and nobody is
   disqualified.  Otherwise somebody who knows the entropy could still choose
   to be part of it.  (reveal_publication_allowed, is_in_upload_phase,
   disqualify_participant.rs) *)
EntropyPoolClosed ==
    [][PublicationAllowed =>
          /\ PublicationAllowed'
          /\ Attested' = Attested
          /\ Disqualified' = Disqualified]_vars

(* RefundableForever: a giveaway that may be refunded can be nothing else any
   more: no attestation, upload or finalization takes the refund back, so
   SettleGiveaway never races with the locking of winners.  (refund_reason
   against finalize_winners.rs, upload_reveals.rs and attest_uploaded.rs) *)
RefundableForever == [][Refundable => Refundable']_vars

UnpaidWinners == {w \in Eligible : Wins(ledger, w) /\ ~participant[w].paid}

(* NobodyBlocked: no history makes the giveaway refuse what is left to do.
   Whenever the selection may begin or go on, participants are left in its
   pass, a chunk that ends at any of them is accepted, and the share the last
   one locks is not too small.  Once winners are locked, and until the
   giveaway is settled, some are unpaid and each of them can be paid: whatever
   batches came before, the vault holds its share, and with the last share the
   fee.  That the batch counter allows one more is by the bound MaxIdle and not
   by the code.  (finalize_winners.rs; settle_payout_batch.rs) *)
NobodyBlocked ==
    /\ ReadyToSelect =>
          /\ LoadRoot.required_count = giveaway.participants_count
          /\ LoadRoot.processed_count < LoadRoot.required_count
          /\ \A last \in (LoadRoot.processed_count + 1)..LoadRoot.required_count :
                MaySelect(LoadRoot, roster, Eligible, last)
          /\ MayLock(LoadRoot)
    /\ giveaway.winners_locked /\ ~giveaway.settled =>
          /\ UnpaidWinners # {}
          /\ \A w \in UnpaidWinners : MayPay(<<w>>)

\* LockWinners, when it would change something
MayLockWinners ==
    /\ ~giveaway.settled
    /\ giveaway.winners_computed
    /\ ~giveaway.winners_locked
    /\ now < SettlementDeadline

\* SettleNoEligibleGiveaway, when it would change something
MaySettleNoEligible ==
    /\ ~giveaway.settled
    /\ giveaway.winners_computed
    /\ ledger.winners_count = 0

(* LegacyPathsDead: the two instructions that lock winners and refund a draw
   without winners never find anything to do: winners are locked with their
   computation, and a selection that ends has winners.  That is why Next
   leaves them out.  (lock_winners.rs, settle_no_eligible_giveaway.rs) *)
LegacyPathsDead == ~MayLockWinners /\ ~MaySettleNoEligible

(* Settles: every giveaway ends, winners paid or creator refunded, although
   creator, provider and participants may stop at any point. *)
Settles == <>giveaway.settled
==============================================================================
