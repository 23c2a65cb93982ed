# Verification of the Chance contracts

TLA+ models of the Solana programs in `src/programs`, the TLC runs that check
them on small instances, and TLAPS proofs about them for every instance.

| Section | |
|---|---|
| 1 | The system: its parts, their state, how they interact, what is hard |
| 2 | The models and how they correspond to the code |
| 3 | The runs: what each shows, bounds, fairness |
| 4 | The proofs |
| 5 | Where code and documentation disagree |
| 6 | What is not modelled, and the plan |

## 1. The system

Three on-chain programs. A program keeps all its state in accounts; a
transaction runs alone on the accounts it names and is rolled back on error.
So there is no concurrency *inside* an instruction. What is hard is *between*
instructions: anybody may send any instruction, in any order, at any time;
one job (uploading, finalizing, paying) takes many transactions that others
may interleave with; and every party (authority, provider, participants) may
stop for ever.

**Release registry** (`programs/registry`, wire types in
`crates/registry-wire`). *State*: a `Config` with authority, guardian,
activation delay and three counters; a `Release` per program; append-only
`Record`s of lifecycle decisions; append-only `Instance`s; `BusinessKey`s
(a day of a series, a nonce of a giveaway creator). *Operations*:
Initialize, Register, Activate, Pause, Discontinue, SetSuccessor,
RecordInstance. *Called by* the two other programs when they create an
instance. *Correct if*: what is active is the audited binary and stays so;
every start and resumption was announced; discontinuation is final; the trail
tells the state; successors end; a business key is used once.

**Daily lottery** (`programs/daily-lottery-v1`).

| Part | State | Operations | Correct if |
|---|---|---|---|
| Configuration, creation, binding | `Config`, `RegistryBinding` | Initialize, UpdateServiceCharge, BindRegistry, CreateLottery (and its scheduled and checked forms), the call to RecordInstance | an instance runs under the terms its signer was offered; creation and its record are atomic; one lottery of a series a day |
| Life cycle | `Lottery`, `Participant` | BuyTickets, AttestUploaded, AttestReveal, UploadReveals, FinalizeNoAttesters, CloseParticipant; BeginRevealNow and BeginRevealPhase always fail | every instance ends; an attested reveal is never left out of a draw |
| Vote tally | `VoteTally` | add_vote, selected_winners | the elected number of winners does not depend on batches or order |
| Finalization | `FinalizationLedger`, `WinnerPage` | FinalizeWinners: begin a remediation, aggregate a chunk, select from a chunk | what it aggregates stays what it draws from; no winner twice; the outcome is final |
| Money | `Vault`, paid flags in `Lottery` and `WinnerPage` | SettlePayoutBatch, ClaimRefund, CloseRefundVault | the vault covers what is owed; everyone is paid once; the authority last |

The schedule of an instance: sales `[buy_start, buy_deadline)`, attestation
`[buy_deadline, upload_deadline)`, recovery of omitted reveals until
`upload_deadline + 30 min`, settlement deadline at `upload_deadline + 60 min`,
from which anyone may have an unfinished lottery cancelled and refunded.

**Giveaways** (`programs/giveaways-v1`). A creator funds a payout for 1 to 1000
winners; a provider keeps the reveals.

| Part | State | Operations | Correct if |
|---|---|---|---|
| Configuration, creation, binding | `Config`, `RegistryBinding` | as above; CreateGiveaway by anyone, with a nonce | as above; one giveaway of a creator for a nonce |
| Life cycle | `Giveaway`, `Participant` | Participate, DisqualifyParticipant (creator, until uploads start), AttestUploaded, AttestReveal, UploadReveals, CloseParticipant; three legacy instructions always fail | an attested reveal is never left out; who takes part is settled before reveals may become public; every giveaway ends |
| Selection | `FinalizationLedger`, marks in `Participant` | FinalizeWinners (provider only): begin a remediation, aggregate a chunk, count a chunk of a radix pass, resolve the threshold, emit a chunk | exactly the smallest keys among the eligible win, whatever the chunks; no chunk is refused by what earlier ones left |
| Money | `WinnersLedger`, vault, paid marks | SettlePayoutBatch, SettleGiveaway; LockWinners and SettleNoEligibleGiveaway never find anything to do | payouts and the creator's refund exclude each other; equal shares, once; fee and remainder with the last share |

Entries are open in `[active_start, active_deadline)`, attestation in
`[active_deadline, upload_deadline)`; the settlement deadline lies two
remediation windows after the upload deadline, and a remediation counts from
whenever somebody begins it.

Beside the programs: `audit/` (Python that replays instances from chain data),
`tools/` (build manifests, schema export), `crates/vendor` (third party).

**Hard behaviours** (`hazards` in `PROJECT.json` lists them line by line):
chunked finalization interleaved with uploads and attestations; three
comparisons of the upload deadline; timeout against the last selection chunk;
repeated, overlapping payout batches; the batch that pays the fee; one counter
for batches and claims; late or missing remediation; votes in any batch order;
a selection that cannot finish, or one only the provider can go on with; many
passes over the participants whose cursor, prefix, rank and marks have to
agree; two counters of reveals raised on two paths; a refund that races a
draw; a creation signed now and run after the configuration or the release has
changed; guardian against authority; code that changes after it was checked.

## 2. The models

Common conventions. An instruction is one action; an error is a disabled
action; an instruction that returns `Ok` without writing is a stuttering step.
What a handler asks for is, where a property is about it, a definition of its own
(`MayPay`, `MayClaim`, `MaySelect`, ...) which the action has as a conjunct.
`now` is `Clock::get()?.unix_timestamp`, advanced by `Tick`. Accounts are
named by what their addresses derive from, so ownership and address checks
disappear. Definitions whose comment starts with *mutant* are deliberately
wrong variants of the definition next to them; no specification uses them,
they show that a property can fail.

| Module | Models |
|---|---|
| `VoteTally` | `state/vote_tally.rs`: `AddVotes`, `SelectedWinners` (the loop as a recursive function), and `Plurality`, what the loop must return. A vote weighs tickets, so a ballot is one ticket. |
| `Election` | The tally alone: voters who each cast one vote, in any order, with any weight and time. |
| `DailyLottery` | One instance after creation: ten variables for its accounts and balances, one action per handler (FinalizeWinners is three, one per outcome: `BeginRemediation`, `AggregateChunk`, `SelectChunk`). Properties at its end. |
| `Escrow` | What a lottery promises: deposits while open, one decision (shares or refunds), everyone due paid once, the house last. No phases, votes or time. |
| `DailyLotteryEscrow` | The refinement mapping: mode from the vested and settled flags, deposits from tickets, debts from the winner list or the refunds, balances as they are. |
| `DailyLotteryDocs` | Statements of documents and comments that the code does not keep. |
| `RadixSelection` | The giveaways' `FinalizationLedger` and the chunk handlers of FinalizeWinners: counting passes digit by digit, the pass that resolves the threshold, the pass that emits. |
| `Giveaway` | One giveaway after creation, extending `RadixSelection`: one action per handler, FinalizeWinners two (`BeginRemediation`, `FinalizeChunk`). Properties at its end. |
| `Prize` | What a giveaway promises with its money: one award or a cancellation, equal shares sent once, house and sponsor with the last share. No phases, uploads or time. |
| `GiveawayPrize` | The refinement mapping: stage from the locked and settled flags, winners from the keys up to the threshold, balances as they are. |
| `Registry` | `programs/registry`, complete. Its environment is the upgradeable loader (`Upgrade`, `Freeze`, `FreezeRegistry`), which is not in the repository. Slots are identified with times. |
| `Creation` | Configuration, binding and creation of both programs, extending `Registry`, whose `Recordable`/`RecordInstance` is the inner call of a creation. Transactions are signed in one step and run in a later one, or never. |
| `Selection` | The giveaways' selection alone, driven to its end: any set of eligible candidates, number of winners, seed and division into chunks. |
| `NaturalFacts`, `DailyLotteryProofs`, `DailyLotteryMoney`, `RadixProofs`, `SelectionProofs`, `GiveawayProofs`, `RegistryProofs`, `CreationProofs` | Theorems and proofs, section 4. |
| `MCDailyLottery`, `MCVoteTally`, `MCGiveaway`, `MCRegistry`, `MCCreation` | Symmetry for TLC. |
| `MCRadixSelection` | Gives `Selection` its order of candidates and its targets. |

How `DailyLottery` reads the code:

- `lottery`, `participant`, `tally`, `root` and `page` carry the fields of the
  accounts that handlers read, under their names. `paid_winners` is the bitmap
  in `Lottery`, `page.paid` the one in the winner pages; the pages of a
  lottery are one sequence, and `PageOf` is only used where a batch must stay
  on one page. `roster` is the order of `participant_index`.
- A closed `Participant` keeps its last contents with `open = FALSE`, which
  no handler can read; properties can.
- A draw is a hash modulo the remaining tickets. Its input is fixed when it is
  drawn, and the model lets it be any value in range.
- An attestation's receipt, a reveal's hash and its words are assumed to match
  (a handler whose check fails is an error). `BuyTickets` does not ask for the
  commitment, since only whether a reveal was included matters later.
- The batch of `UploadReveals` is a set of wallets: duplicates are an error in
  the code, and tallying does not depend on order.
- FinalizeWinners takes participants by their index from a cursor, so a chunk
  is determined by its last position.
- Where the service fee is taken: `ServiceFee`, `SharePerWinner` and the
  remainder use the code's integer division.

How `Giveaway` and `RadixSelection` read the code:

- A candidate's key is a hash of seed and wallet followed by the wallet, 64
  bytes that are compared from the left. In the model a key has `KeyLen` digits
  below `Base`, and a seed is named by the keys it gives: any assignment of
  different keys is possible. The chain of hashes over the eligible
  participants goes into the seed and is left out.
- The histogram of a pass, prefix, remaining rank, threshold, counters and the
  marks in each `Participant` (`finalized`, last pass counted) are the code's,
  with its guards; a chunk is the participants from the cursor to an index.
- One `FinalizeChunk` stands for all phases, since the handler dispatches on the
  phase of the ledger: `SelectChunk` has a disjunct for each.
- A closed `Participant` keeps its last contents with `open = FALSE`. The second
  call of Participate, which replaces a commitment before the uploads, changes
  nothing the model keeps.
- LockWinners and SettleNoEligibleGiveaway are not in `Next`. Their guards are
  `MayLockWinners` and `MaySettleNoEligible`; `LegacyPathsDead`, which is proved,
  says that they never hold.
- `MaxIdle` bounds the batches that pay nobody. Each raises a u32 counter whose
  overflow is an error, so 2^32 of them would block the payouts of a giveaway
  (the daily lottery's counter saturates). That is assumed not to happen.

How `Creation` reads the code:

- Both kinds of program are the same up to the guards named after them; all
  releases of one run are of one kind, and a release may be registered for the
  other one. Releases are registered, and their code is frozen, from the start:
  what may happen before is in `Registry`.
- The settings that initialize fixes for ever, payout and winners of a giveaway
  and the rest of its schedule, and the ranges of them, are left out. Giveaways
  start at the horizon, lotteries at any reading or at once.
- A creation can be signed once its program is bound (before, none succeeds), by
  a lottery's authority or by anyone for a giveaway. It carries what the handler
  later compares: the giveaway id that was next, the nonce, the hash of the
  configuration or none, the start or none.
- `FeeUpdates` is the daily program's feature `allow-service-charge-update`; with
  `TRUE`, what a build without it does is included. A nonce is only compared with
  others, so a creator numbers its own in the order of use.

Things modelling brought up that are not disagreements, because the properties
hold in spite of them: the authority of a lottery may send an empty batch of
reveals during finalization, which rewrites `selected_number_of_winners` after
it was clamped to the eligible count (the ledger's `target` decides, and
`WinnerCountIsPlurality` holds); a remediation of a lottery begun after its
deadline is expired at once, so that the batch that begins it is the last it
admits; and a giveaway's `uploads_complete` stays set when somebody attests
after it (FinalizeWinners asks the counters, and `NoAttestedRevealOmitted`
holds).

## 3. The runs

Bounds are constants of the configurations, and each is named in its module.
All runs disable the deadlock check: the clock stops at `Horizon`, the registry
at `MaxRecords` and `MaxInstances`, an election when all have voted, a selection
when it has completed.

| Run | Shows | Instance |
|---|---|---|
| `daily_selection` | `NoAttestedRevealOmitted`, `SelectionSound`, `WinnerCountIsPlurality`, `EligibilityFrozen` | 3 wallets, up to 4 tickets, 2 winners, 2 instants of attestation; no payouts |
| `daily_payouts` | `TypeOK`, `Solvent`, `PaidExactly`, `AuthorityPaidLast`, `NobodyBlocked`, `OutcomeIsFinal`; `ImplementsEscrow`: `DailyLottery` refines `Escrow` | 3 wallets, 3 tickets of 5 lamports, fee 30%, 2 winners, batches of up to 2 indexes, `u32::MAX` = 3 |
| `daily_liveness` | `Resolves`, `VestedArePaid`, `RefundsComplete` | 3 wallets, 3 tickets of 1 lamport, fee 99.99%, no symmetry |
| `vote_election` | `ElectsPlurality` | 3 voters, weights 1 and 2, counts 1 to 3 and one out of range, 3 instants |
| `registry_safety` | `TypeOK`, `ActiveIsAudited`, `TrailTellsAll`, `NoticeGiven`, `SuccessorsEnd`, `OnePerBusinessKey`, `DiscontinuedForGood` | 2 programs, 2 hashes, 2 domains, 2 creators, 4 records, 2 instances |
| `radix_selection` | `SelectionTypeOK`, `RankKept`, `WinnersAreSmallest`, `NeverStuck` | 3 candidates, keys of 3 binary digits, every eligible set, target and chunking: 78,843 states |
| `giveaway_safety` | `TypeOK`, `NoAttestedRevealOmitted`, `DrawSound`, `LegacyPathsDead`, `NobodyBlocked`, `EntropyPoolClosed`, `RefundableForever`; `ImplementsPrize`: `Giveaway` refines `Prize` | 3 wallets, 2 winners, keys of 2 binary digits, payout 8, fee 30%, batches of up to 2, one idle batch: 675,938 states |
| `giveaway_liveness` | `Settles` | 2 wallets, 2 winners, no symmetry: 74,254 states |
| `creation` | `CreationTypeOK`, `InventoryComplete`, `OpenedWhileActive`, `OneOpeningPerDay`, `QuotedTermsHonoured` | 2 releases of one series, 2 wallets, 2 fees, 2 records, 2 instances, days of 2 instants, one signed creation at a time: 543,224 states |
| `late_recovery`, `sole_participant`, `eligible_buyers` | violations, section 5 | 2 wallets |

Why this is enough. Three wallets are the fewest with two winners and a loser
(a lottery may have at most one winner less than participants), and two rounds
of selection, the second without the first winner. Chunks of every size are
taken, so every interruption of aggregation and of either round occurs. Three
or four tickets give unequal weights, so ties by tickets and by time. A price
of 5 with 30% fee leaves a rounding remainder with two winners. The schedule
has every window at least one tick long and every boundary as an instant of
its own, and the horizon lies at or after the settlement deadline. `u32::MAX`
is as small as the number of participants, the least the program's limits
allow, so that repeated batches saturate the counter. In `daily_liveness`, the
price and fee are such that the pool is often smaller than the number of
winners: there finalization cannot complete, the case in which only the
timeout ends the lottery. Two programs suffice for a cycle
of successors and for two releases of one series; four records for a pause, a
resumption and a discontinuation after an activation.

Three digits are the fewest with a prefix that several keys share after one pass
and after two, so that passes continue, stop at a bucket of one, and stop at the
key's end; with three keys a rank falls on the first, on a middle and on the last
key of a bucket and of a pass. In `giveaway_safety` the keys are shorter, since
`radix_selection` has covered them, and what is asked is how the chunks meet the
rest of the giveaway; three wallets leave a loser, an omitted reveal and a
disqualification beside two winners, and a pool of 6 lamports a remainder with none
and with two winners. In `creation` two instants a day put two starts on one day and
on two; three readings of the clock let an activation, a change of the configuration
and a pause fall between signing and running; two records are an activation and its
end.

Fairness (`FairSpec`). The clock advances. FinalizeNoAttesters,
SettlePayoutBatch and CloseRefundVault check no signer (the authority account
they name need not sign), so whoever is owed money can send them: weak
fairness says somebody does, and for payouts that the next unpaid winner is
named. ClaimRefund does need its owner's signature; weak fairness for it says
that owners come for their money. Nothing is assumed of buying, attesting,
uploading, remediation or finalizing: those who do them may stop.
For giveaways the clock, SettleGiveaway and the payment of some unpaid winner are
weakly fair, since neither handler asks for a particular signer. Nothing is
assumed of creator, provider or participants, so a selection may stop in any
pass.

Fairness is of use only if what it forces is accepted. `NobodyBlocked` of each
program says so as an invariant, in terms of the handlers' guards and not of
`ENABLED`: no history of batches, claims, uploads and chunks leaves somebody owed
whom the handler would turn away (in a giveaway, if the idle batches stay within
`MaxIdle`: that its batch counter overflows is a hazard no property covers). For
giveaways it also says that the provider
can always go on with a selection, by a chunk of any length.

A property is worth its run if a plausible bug breaks it. `mutants` in
`PROJECT.json` names, for each, one wrong definition under which TLC finds it
violated: a boundary off by one, a share rounded up, paid flags read before
the loop, a deadline not asked for, and so on.

## 4. The proofs

For every set of wallets, price, fee, schedule and limits that the modules'
assumptions admit (prices, windows, caps at least 1, fee below 100%,
`MAX_PARTICIPANTS` within a u32, a clock that stops before `i64::MAX`), any
voters and weights, candidates, keys and nonempty set of seeds:

| Theorem | Module | States |
|---|---|---|
| `TypeCorrect` | `DailyLotteryProofs` | `Spec => []TypeOK` |
| `OutcomeFinal` | `DailyLotteryProofs` | `Spec => OutcomeIsFinal`: what has vested never changes and is never refunded; cancelled stays cancelled |
| `NoRevealOmitted` | `DailyLotteryProofs` | `Spec => []NoAttestedRevealOmitted` |
| `EligibilityIsFrozen` | `DailyLotteryProofs` | `Spec => EligibilityFrozen` |
| `SelectionIsSound` | `DailyLotteryProofs` | `Spec => []SelectionSound`: cursor, totals, pending winner and marks of a draw agree, and a draw is always found |
| `LoopElects` | `DailyLotteryProofs` | the loop of `selected_winners` over a tally returns the plurality of the ballots that tally counts |
| `TallyElects` | `DailyLotteryProofs` | `ElectionSpec => []ElectsPlurality`: so it does for any voters, in any order |
| `WinnersCountIsElected` | `DailyLotteryProofs` | `Spec => []WinnerCountIsPlurality` |
| `AlwaysSolvent` | `DailyLotteryMoney` | `Spec => []Solvent` |
| `PaysExactly` | `DailyLotteryMoney` | `Spec => []PaidExactly` |
| `AuthorityIsPaidLast` | `DailyLotteryMoney` | `Spec => []AuthorityPaidLast` |
| `NobodyIsBlocked` | `DailyLotteryMoney` | `Spec => []NobodyBlocked`: an unpaid winner can be paid, a refund claimed, the rest swept, an expired lottery cancelled |
| `RefinesEscrow` | `DailyLotteryMoney` | `Spec => ImplementsEscrow`: the daily lottery implements `Escrow` |
| `AccountsTyped`, `RanksAreKept`, `SmallestWin` | `SelectionProofs` | `Spec => []SelectionTypeOK`, `[]RankKept`, `[]WinnersAreSmallest` of `Selection`: the radix selection elects exactly the smallest keys |
| `SelectionGoesOn` | `SelectionProofs` | `Spec => []NeverStuck` of `Selection`: until it has completed, a chunk of any length is accepted |
| `TypeCorrect` | `GiveawayProofs` | `Spec => []TypeOK` |
| `AttestedRevealsKept` | `GiveawayProofs` | `Spec => []NoAttestedRevealOmitted` |
| `DrawIsSound` | `GiveawayProofs` | `Spec => []DrawSound`: locked winners are the smallest keys of the eligible |
| `LegacyDead` | `GiveawayProofs` | `Spec => []LegacyPathsDead` |
| `PoolCloses` | `GiveawayProofs` | `Spec => EntropyPoolClosed`: nobody joins or leaves once reveals may be public |
| `RefundStays` | `GiveawayProofs` | `Spec => RefundableForever`: a refund that is due stays due |
| `NobodyIsBlocked` | `GiveawayProofs` | `Spec => []NobodyBlocked`: a selection can go on, and unpaid winners can be paid |
| `RefinesPrize` | `GiveawayProofs` | `Spec => ImplementsPrize`: a giveaway implements `Prize` |
| `TypeCorrect` | `RegistryProofs` | `Spec => []TypeOK`, with distinct sequence numbers |
| `ActiveAudited` | `RegistryProofs` | `Spec => []ActiveIsAudited` |
| `DiscontinuedIsFinal` | `RegistryProofs` | `Spec => DiscontinuedForGood` |
| `TrailComplete` | `RegistryProofs` | `Spec => []TrailTellsAll` |
| `NoticeAlwaysGiven` | `RegistryProofs` | `Spec => []NoticeGiven` |
| `SuccessionEnds` | `RegistryProofs` | `Spec => []SuccessorsEnd` |
| `BusinessKeysUnique` | `RegistryProofs` | `Spec => []OnePerBusinessKey` |
| `CreationTypeCorrect` | `CreationProofs` | `CreationSpec => []CreationTypeOK` |
| `InventoriesAgree` | `CreationProofs` | `CreationSpec => []InventoryComplete` |
| `OpenedOnlyWhileActive` | `CreationProofs` | `CreationSpec => []OpenedWhileActive` |
| `OneADay` | `CreationProofs` | `CreationSpec => []OneOpeningPerDay` |
| `QuotesHonoured` | `CreationProofs` | `CreationSpec => QuotedTermsHonoured` |

So every invariant, every action property and both refinements that a passing
run checks are proved; what remains is liveness (end of this section).

**In place of induction.** The provers have no induction over data. Where an
argument wants one (a sum over the roster, a loop, a chain of successors), the
proof takes a least counterexample instead: `NaturalFacts` derives from the
library's well-founded order that every nonempty set of naturals has a least
member, and every bounded one a greatest.

### The daily lottery

*Types.* `TypeOK` alone is not inductive: `AggregateChunk` adds up the tickets
of a chunk, and a participant's tickets stay within `MaxTickets` only because
the lottery's total does. `TypeInv` adds that no participant has more tickets
than the lottery has sold. The lemmas before it bound minima and maxima of
finite sets, cardinalities of sets of tickets, and what the tally's operators
return.

*Finality.* `OutcomeInv`: winners have vested only if the ledger's phase is
`completed`, and a completed ledger admits no further chunk. Hence nothing
changes the outcome, and FinalizeNoAttesters, which asks for no vested winners,
cannot cancel it; a cancelled lottery is settled, and no chunk follows.

*Eligibility.* `FinalityInv` joins `CountersInv` (the counts of attestations and
of included reveals are the numbers of wallets that attested and whose reveal is
included, and the latter are among the former) with `PhaseInv` (nobody attests
before sales close; a settlement has started once everybody attested or the
uploads are complete; and once the ledger exists, no reveal is missing by the
counts, and the uploads are complete or the window has elapsed). Counts that
agree on a subset make it the whole set: no omission. With a settlement started
or the window elapsed no attestation is possible, sales are over, and with every
attested reveal included no upload includes another: eligibility is frozen.

*The draw.* `SelectionSound` speaks of the selecting phase only and is not
inductive. `SelectionInv` adds what the phases before it must leave behind:
`RosterInv` (the roster lists once everybody who bought, as many as the counter
says), `AggregationInv` (counts and tickets up to the cursor), `DrawnInv` (the
totals are those of all included reveals, the page lists different ones among
them, the tickets drawn are theirs) and `RoundInv`, which is `SelectionSound` in
terms of the cursor. The heart is `SearchFinds`: the intervals of tickets that a
chunk walks are disjoint and cover what it adds to the running total, so the
drawn ticket is hit exactly once, in the chunk that passes it. It is stated of
any start, so that it holds of every division into chunks.

*The election.* `VoteInv`: the tally counts the ballots, one a ticket, of exactly
the wallets whose reveal is included, with their first times; until the passes
over the roster are done, the lottery's number of winners is what that tally
elects; afterwards the ledger's `target` is the plurality of all votes, capped by
the eligible. `AddVotesCounts` shows that adding the ballots of a batch to the
tally of the others gives the tally of both, whatever the batch. `LoopElects` is
about the loop: that the recursive function exists is proved by the least length
without one, that its value at `c` leads the counts up to `c` by the least `c`
where it does not. After the last chunk of an aggregation
`selected_number_of_winners` is clamped and may even be rewritten (section 2); the
invariant says nothing of that field from then on, only of `target`. `TallyElects`
is the same for the tally alone: `PollInv` says that the tally counts the ballots
cast, and they are a finite set.

*The money.* `MoneyInv` joins `SelectionInv` with `FundsInv` (funds are price times
tickets sold), `ClaimsInv` (claims exist only in a cancelled lottery, are of roster
members, and until winners vest the batch counter counts them), `PayoutInv` (the two
paid bitmaps agree, paid indexes are indexes of winners, the payout is share times
winners, complete exactly when all are paid), `VaultInv` (the vault and the authority's
receipts as a function of what is paid, in every mode) and `PaidExactly`. The bitmaps,
not the batch counter, are what repeated batches cannot fool: `BatchPaysOnce` maps the
paying positions of a batch one to one to the indexes it newly marks, whatever it
repeats. `SharesFitPool` bounds the code's integer division: the remainder is less
than the number of winners.

*Nobody is blocked.* Each conjunct of `NobodyBlocked` asks for guards that several
accounts have to satisfy together. A winner: the page has an entry wherever the lottery
has an unpaid index, the two bitmaps agree there, and the vault, by `VaultInv`, still
holds the share, and with the last one the fee and the remainder. A refund: the
account is still open with its tickets, the vault covers it, and the batch counter is
below its limit, since in a cancelled lottery it counts claims, of which there are
fewer than participants (a lottery that has vested may saturate it, but refunds
nobody). For that, `AccountsInv` is needed beside `MoneyInv`: everybody on the roster
has bought tickets, and an account with tickets is open unless its owner was refunded
or has left after the settlement.

*The escrow.* `Escrow` is a state machine of deposits, one decision and payments; the
mapping of `DailyLotteryEscrow` takes each instruction to one of its steps or to a
stutter. A payout batch is a single payment of the abstract machine, to a set of
creditors; the batch that pays the last winner also closes.

### Giveaways

*The selection.* `SelectionInv` of `RadixProofs` is stated of any order, eligible set
and number of winners. Its phases: the eligible are counted up to the cursor; in a
counting pass, the histogram counts the keys up to the cursor that have the prefix, by
their next digit, and `Ranked` holds (the keys before the prefix and the remaining
rank add up to the target, and the rank lies within the keys that have the prefix); at
resolution exactly one key has the prefix; from emission on, as many keys as there are
winners are up to the threshold. `Ranked` survives a pass because the buckets below
the chosen digit precede the longer prefix (`MatchingApart` and what follows it), and a
whole key belongs to one candidate. `Selection` drives it to the end;
`WinnersAreSmallest` and `RankKept` are consequences. `SelectionGoesOn` needs one more
part, `Marked`: passes have growing numbers, and marks ahead of the cursor are of earlier
passes, so that nobody there looks already visited. That a chunk
is accepted then follows from the counts: `ChunkAccepted`.

*The giveaway.* `IInv` joins `TypeOK` with `Counts` (every counter of the giveaway is
the cardinality of the set of wallets it counts, and the roster lists the entered
wallets once), `Roles` (only who has entered attests, only the attested are included, and
nobody is both disqualified and attested), `Times` (nobody attests before the uploads
start, and a remediation begins only after the upload deadline) and `Drawing` (once a
selection exists, `SelectionInv` holds of the eligible, reveals may be public and none
is missing; winners are computed exactly when the ledger has completed, and the winners
ledger carries its seed and threshold). As for the lottery, counters that agree on a
subset make it the whole set. `SamePool` and its frame lemmas carry what every action
but the first five leaves alone. `EntropyPoolClosed` follows because publication is
allowed only when the windows for disqualifying and attesting are over or everybody
there is has been uploaded; `RefundableForever` because each reason for a refund is a
matter of time and counters that no accepted instruction can undo; `DrawSound` because
nothing `SelectionInv` speaks of changes between two chunks.

*Nobody is blocked.* `ProgressInv` adds that the marks are `Marked`, that until the
settlement the vault holds the payout and its rent less the shares sent, and that the
counter of batches is at most the paid winners and `MaxIdle`. The share is not too small
because the ledger's target is at most the number of winners for which creation checked
the pool (`SharesFit`); shares and fee fit the payout by integer division.

*The prize.* `PrizeInv`: the paid are winners and as many as the ledger says, nothing
is sent before the settlement, and until it somebody is unpaid. A batch is a `Pay`, a
`PayLast` or, if it names only the paid, a stutter; the last share and the fee go
together.

### The registry and creation

*Registry.* `AuditInv` is `TypeOK` and `ActiveIsAudited`: activation establishes it
by the three checks of `CodeFixed`, no upgrade is possible of what is frozen,
and no instruction but Register, once for a program, sets the hash. `HistoryInv` joins
four more parts: `TrailInv` (the last record about a program shows its state, and one
without records is as registered), `NoticeInv` (a pause put the next activation a delay
ahead of itself, and no move brings it closer), `SuccessionInv` (a successor has a
higher sequence number, hence chains end: a chain without end would climb above every
registered number) and `KeyInv` (each recorded instance's key is in the set that
RecordInstance looks at).

*Creation.* `CreationInv` holds the registry's invariants, `SignedInv` (what a signed
creation assumed), `BookInv` (a program's count, its accounts and the registry's entries
about it match one to one, in order) and `AccountsInv` (each account holds its business
key, no key is held twice, a release was active when the account was opened). Lifecycle
steps of `Registry` are shown to keep the registry's invariants once, in
`RegistryStep`, and both specifications use that.

### Only model-checked

- All liveness (`Resolves`, `VestedArePaid`, `RefundsComplete`, `Settles`): the prover
  does not reason about fairness.
  does not reason about fairness or `ENABLED`. The safety half is proved: by
  `NobodyIsBlocked` of both programs, the steps that fairness forces are accepted
  whenever something is owed; that they come to an end is checked by TLC.

Assumptions. The proofs use the `ASSUME`s of the modules, which TLC evaluates in every
run, and no other hypothesis. `SeedAssumption` is that there is a seed, that is, that
some assignment of keys exists. `MaxIdle` (section 2) is a bound of the model: the
theorems hold for every value of it with which `NumberOfWinners + MaxIdle` is within a
u32, and only `NobodyIsBlocked` of the giveaways would be false without it.

## 5. Where code and documentation disagree

- **Recovery ends late** (`late_recovery`).
  `docs/DAILY_LOTTERY_FIXED_RULES.md:7`: "Omitted-reveal recovery ends at upload
  deadline plus the remediation duration; starting it late never extends that
  deadline." `upload_reveals.rs:101-126` refuses reveals only if a remediation
  was *begun* and has expired. As long as nobody begins one, the authority's
  reveals are accepted until the settlement deadline, and so is the batch with
  which anyone else begins it.
- **Sole participant waits** (`sole_participant`). The same line: "A sole
  participant may refund after the buy window closes, without an authority
  transaction to change phases." `finalize_no_attesters.rs:99-104` asks of a
  sole participant too that nobody attested, a remediation expired, or the
  settlement deadline passed: one that attested waits for that deadline.
- **Not every buyer is eligible** (`eligible_buyers`). `instructions/mod.rs:211`
  (and the comment of `Lottery`) says that every ticket buyer is aggregated and
  remains eligible; `finalize_winners.rs:244` counts only included reveals.

Three more, of wording, that no run is needed for:

- `finalize_winners.rs:1` of the giveaways calls finalization permissionless; the
  handler (line 41) asks for the provider, as `docs/GIVEAWAY_FIXED_RULES.md:7` does.
- `lib.rs:18-19` of the daily lottery speaks of a single active lottery; creation
  (`create_lottery.rs:105-106`) does not look at earlier lotteries, and one may be
  scheduled while another runs. What holds is one a day, `OneOpeningPerDay`.
- The counters of payout batches behave differently at `u32::MAX`: the daily
  lottery's saturates, the giveaways' is an error (section 2, `MaxIdle`).

## 6. Not modelled, and the plan

Not modelled for good: cryptography (signatures, hashes, commitments), account
addresses, events and error codes, the runtime's rent rule for recipients, the
legacy instructions of both programs that always fail, audit and build tools,
vendored code.

Order of the work; 1 to 9 are done.

1. `VoteTally`, and its run.
2. `DailyLottery`: life cycle, finalization, payouts; safety and liveness runs.
3. `Escrow` and the refinement.
4. `Registry`.
5. Proofs: types, finality, eligibility, the registry's audit and finality.
6. `Creation`, composed with `Registry`.
7. `RadixSelection`, `Giveaway`, `Prize` and the refinement; proofs of types,
   eligibility, the closed pool and the refund.
8. Proofs of the money invariants and both refinements, the draw and the election of
   the lottery, the radix selection, the rest of the registry, and creation.
9. The election alone, and what can be proved toward liveness: that what fairness
   forces is accepted whenever something is owed, as an invariant that names the
   guards in place of `ENABLED`.
10. Left to TLC: that those steps end, which needs reasoning about fairness.
