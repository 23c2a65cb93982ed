---------------------------- MODULE RadixSelection ----------------------------
(***************************************************************************)
(* How a giveaway finds its winners (programs/giveaways-v1,                *)
(* FinalizationLedger and the chunk handlers of FinalizeWinners).          *)
(*                                                                         *)
(* Every eligible participant has a key, H(seed, wallet) followed by the   *)
(* wallet, and the `target` smallest keys win.  The keys are never sorted  *)
(* nor stored: counting passes over all the participants, in index order   *)
(* and in chunks, find the target-th smallest key digit by digit; a pass   *)
(* resolves the only key with those digits; a last one counts the winners. *)
(*                                                                         *)
(* A digit is a byte and a key has 64 of them in the code.  A seed is      *)
(* named by the keys it gives: the hash is any injective function.  Left   *)
(* abstract: the hash chain over the eligible participants, which the      *)
(* seed depends on.                                                        *)
(***************************************************************************)
EXTENDS Integers, Sequences, FiniteSetsExt

CONSTANTS
    Candidates,   \* the wallets that may take part
    Base,         \* number of values of a digit
    KeyLen        \* CANDIDATE_KEY_LEN

Digit == 0..(Base - 1)

Keys == [1..KeyLen -> Digit]

ASSUME SelectionAssumption ==
    /\ IsFiniteSet(Candidates)
    /\ Base \in Nat \ {0} /\ KeyLen \in 1..999

\* a key ends with the wallet it is of: no two candidates have the same, and
\* there are enough of them
Seeds ==
    {seed \in [Candidates -> Keys] :
        \A v, w \in Candidates : v # w => seed[v] # seed[w]}

ASSUME SeedAssumption == Seeds # {}

VARIABLES
    root,    \* the FinalizationLedger account
    stamp    \* the finalization and selection marks in each Participant account

svars == <<root, stamp>>

NoKey == << >>

NoSeed == << >>

NoHistogram == [d \in Digit |-> 0]

NoRoot ==
    [phase |-> "none", required_count |-> 0, processed_count |-> 0,
     eligible_count |-> 0, target_winners |-> 0, seed |-> NoSeed,
     prefix |-> << >>, remaining_rank |-> 0, histogram |-> NoHistogram,
     threshold_key |-> NoKey, emitted_count |-> 0]

NoStamp == [finalized |-> FALSE, pass |-> 0]

\* initialize
NewRoot(required) ==
    [NoRoot EXCEPT !.phase = "aggregating", !.required_count = required]

\* mutant: only the leading digits are compared
KeyLeq_Leading(a, b) == a[1] <= b[1]

\* the byte order of keys
KeyLeq(a, b) ==
    \/ a = b
    \/ \E i \in 1..KeyLen : a[i] < b[i] /\ \A j \in 1..(i - 1) : a[j] = b[j]

MatchesPrefix(r, key) == \A i \in DOMAIN r.prefix : key[i] = r.prefix[i]

\* mutant: the counts of a pass are carried into the next
ResetPass_KeepCounts(r) == [r EXCEPT !.processed_count = 0]

ResetPass(r) == [r EXCEPT !.processed_count = 0, !.histogram = NoHistogram]

BeginRadix(r, seed, target) ==
    ResetPass([r EXCEPT !.phase = "radix", !.seed = seed,
                        !.target_winners = target, !.remaining_rank = target])

\* record_radix_key, for the participants E of a chunk
RecordRadixKeys(r, E) ==
    LET counted == {w \in E : MatchesPrefix(r, r.seed[w])}
        bucket(w) == r.seed[w][Len(r.prefix) + 1]
    IN  [r EXCEPT !.histogram =
            [d \in Digit |-> r.histogram[d] + Cardinality({w \in counted : bucket(w) = d})]]

\* keys counted in the buckets up to d
Through(r, d) ==
    LET through[e \in Digit] == r.histogram[e] + IF e = 0 THEN 0 ELSE through[e - 1]
    IN  through[d]

\* the buckets at or after the one that holds the wanted rank
Reaching(r) == {d \in Digit : r.remaining_rank <= Through(r, d)}

(***************************************************************************)
(* finish_radix_pass: the first bucket that reaches the rank gives the     *)
(* next digit, and the rank is counted within it from now on (the          *)
(* subtraction saturates).                                                 *)
(***************************************************************************)
FinishRadixPass(r) ==
    LET d    == Min(Reaching(r))
        next == [r EXCEPT !.prefix = Append(@, d),
                          !.remaining_rank = Max({0, @ - (Through(r, d) - r.histogram[d])})]
        done == r.histogram[d] = 1 \/ Len(next.prefix) = KeyLen
    IN  ResetPass([next EXCEPT !.phase = IF done THEN "resolving" ELSE "radix"])

\* mutant: every radix pass has the same number
PassNumber_Fixed(r) ==
    CASE r.phase = "radix"     -> 1
      [] r.phase = "resolving" -> 1000 + Len(r.prefix)
      [] OTHER                 -> 2000

\* the number that marks a participant as visited in this pass
PassNumber(r) ==
    CASE r.phase = "radix"     -> Len(r.prefix) + 1
      [] r.phase = "resolving" -> 1000 + Len(r.prefix)
      [] OTHER                 -> 2000

(***************************************************************************)
(* One FinalizeWinners transaction.  r is the ledger it loaded, E those    *)
(* eligible among the chunk of participants from the cursor to position    *)
(* `last` of the index order, whose visit is not marked yet.               *)
(***************************************************************************)
Chunk(order, r, last) == {order[i] : i \in (r.processed_count + 1)..last}

InPass(r, last) == last \in (r.processed_count + 1)..r.required_count

Processed(r, last) == [r EXCEPT !.processed_count = last]

\* process_aggregation; the pass ends by drawing the seed
MayAggregate(r, C) ==
    /\ r.phase = "aggregating"
    /\ \A w \in C : ~stamp[w].finalized

Aggregate(r, C, E, last, wanted, seed) ==
    LET counted == [Processed(r, last) EXCEPT !.eligible_count = @ + Cardinality(E)]
        target  == Min({wanted, counted.eligible_count})
    IN  /\ MayAggregate(r, C)
        /\ \/ /\ last < r.required_count
              /\ seed = NoSeed
              /\ root' = counted
           \/ /\ last = r.required_count
              /\ target > 0
              /\ seed \in Seeds
              /\ root' = BeginRadix(counted, seed, target)
           \/ /\ last = r.required_count
              /\ target = 0
              /\ seed = NoSeed
              /\ root' = [counted EXCEPT !.phase = "completed"]
        /\ stamp' = [w \in Candidates |->
              IF w \in C THEN [stamp[w] EXCEPT !.finalized = TRUE] ELSE stamp[w]]

Unvisited(r, C) == \A w \in C : stamp[w].pass # PassNumber(r)

Visited(r, C) ==
    [w \in Candidates |->
        IF w \in C THEN [stamp[w] EXCEPT !.pass = PassNumber(r)] ELSE stamp[w]]

\* process_radix; the pass ends with the next digit
DigitsCounted(r, E, last) == RecordRadixKeys(Processed(r, last), E)

MayCountDigits(r, C, E, last) ==
    LET counted == DigitsCounted(r, E, last)
    IN  /\ r.phase = "radix"
        /\ Unvisited(r, C)
        /\ last = r.required_count => counted.remaining_rank > 0 /\ Reaching(counted) # {}

CountDigits(r, C, E, last) ==
    LET counted == DigitsCounted(r, E, last)
    IN  /\ MayCountDigits(r, C, E, last)
        /\ \/ last < r.required_count /\ root' = counted
           \/ last = r.required_count /\ root' = FinishRadixPass(counted)
        /\ stamp' = Visited(r, C)

\* process_resolution; the pass ends with the key of the last winner
Hits(r, E) == {w \in E : MatchesPrefix(r, r.seed[w])}

KeyResolved(r, E, last) ==
    LET found == IF Hits(r, E) = {} THEN r.threshold_key
                 ELSE r.seed[CHOOSE w \in Hits(r, E) : TRUE]
    IN  [Processed(r, last) EXCEPT !.threshold_key = found]

MayResolve(r, C, E, last) ==
    /\ r.phase = "resolving"
    /\ Unvisited(r, C)
    /\ Hits(r, E) # {} => r.threshold_key = NoKey /\ Cardinality(Hits(r, E)) = 1
    /\ last = r.required_count => KeyResolved(r, E, last).threshold_key # NoKey

Resolve(r, C, E, last) ==
    LET next == KeyResolved(r, E, last)
    IN  /\ MayResolve(r, C, E, last)
        /\ \/ last < r.required_count /\ root' = next
           \/ /\ last = r.required_count
              /\ root' = ResetPass([next EXCEPT !.phase = "emitting", !.emitted_count = 0])
        /\ stamp' = Visited(r, C)

\* mutant: the threshold itself is left out
Wins_Strictly(r, w) == KeyLeq(r.seed[w], r.threshold_key) /\ r.seed[w] # r.threshold_key

Wins(r, w) == KeyLeq(r.seed[w], r.threshold_key)

\* process_emitting; the pass ends when all the winners are counted
WinnersCounted(r, E, last) ==
    [Processed(r, last) EXCEPT !.emitted_count = @ + Cardinality({w \in E : Wins(r, w)})]

MayEmit(r, C, E, last) ==
    /\ r.phase = "emitting"
    /\ Unvisited(r, C)
    /\ last = r.required_count =>
          WinnersCounted(r, E, last).emitted_count = r.target_winners

Emit(r, C, E, last) ==
    LET next == WinnersCounted(r, E, last)
    IN  /\ MayEmit(r, C, E, last)
        /\ \/ last < r.required_count /\ root' = next
           \/ last = r.required_count /\ root' = [next EXCEPT !.phase = "completed"]
        /\ stamp' = Visited(r, C)

SelectChunk(r, order, eligible, last, wanted, seed) ==
    LET C == Chunk(order, r, last)
        E == C \cap eligible
    IN  /\ InPass(r, last)
        /\ \/ Aggregate(r, C, E, last, wanted, seed)
           \/ seed = NoSeed /\ CountDigits(r, C, E, last)
           \/ seed = NoSeed /\ Resolve(r, C, E, last)
           \/ seed = NoSeed /\ Emit(r, C, E, last)

\* the transaction is not refused
MaySelect(r, order, eligible, last) ==
    LET C == Chunk(order, r, last)
        E == C \cap eligible
    IN  /\ InPass(r, last)
        /\ \/ MayAggregate(r, C)
           \/ MayCountDigits(r, C, E, last)
           \/ MayResolve(r, C, E, last)
           \/ MayEmit(r, C, E, last)

------------------------------------------------------------------------------
HistogramType == [Digit -> Nat]

RootType ==
    [phase: {"none", "aggregating", "radix", "resolving", "emitting", "completed"},
     required_count: Nat, processed_count: Nat, eligible_count: Nat,
     target_winners: Nat, seed: Seeds \cup {NoSeed}, prefix: Seq(Digit),
     remaining_rank: Nat, histogram: HistogramType,
     threshold_key: Keys \cup {NoKey}, emitted_count: Nat]

StampType == [finalized: BOOLEAN, pass: Nat]

(* The type invariant of the selection's accounts: no more digits are found
   than a key has, and no more winners are counted than were asked for. *)
SelectionTypeOK ==
    /\ root \in RootType
    /\ stamp \in [Candidates -> StampType]
    /\ root.processed_count <= root.required_count
    /\ Len(root.prefix) <= KeyLen
    /\ root.remaining_rank <= root.target_winners
    /\ root.emitted_count <= root.target_winners

\* those of S with the digits found so far, and those that sort before all such keys
Matching(r, S) == {w \in S : MatchesPrefix(r, r.seed[w])}

Preceding(r, S) ==
    {w \in S :
        \E i \in DOMAIN r.prefix :
            /\ r.seed[w][i] < r.prefix[i]
            /\ \A j \in 1..(i - 1) : r.seed[w][j] = r.prefix[j]}

\* the candidates of S whose key is among the k smallest
Smallest(S, k, seed) ==
    {w \in S : Cardinality({v \in S : KeyLeq(seed[v], seed[w])}) <= k}
==============================================================================
