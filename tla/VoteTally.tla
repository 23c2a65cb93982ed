------------------------------ MODULE VoteTally ------------------------------
(***************************************************************************)
(* The vote tally of a daily lottery                                       *)
(* (programs/daily-lottery-v1/src/state/vote_tally.rs): the ticket weight  *)
(* behind each proposed number of winners and the time it was first        *)
(* proposed, and the number the tally elects.                              *)
(*                                                                         *)
(* A vote weighs the tickets of its voter, so a ballot here is one ticket: *)
(* a record [ticket, count, at].  The fields total_attested and            *)
(* processed_count are written and never read by the program; they are     *)
(* left out.                                                               *)
(***************************************************************************)
EXTENDS Integers, FiniteSets, FiniteSetsExt

CONSTANT Never     \* stands for i64::MAX, "no vote seen yet"

ASSUME NeverAssumption == Never \in Nat

(***************************************************************************)
(* VoteTally::new: counts 1 .. maxWinners, all without votes.              *)
(***************************************************************************)
NewTally(maxWinners) ==
    [max_winners |-> maxWinners,
     weights     |-> [c \in 1..maxWinners |-> 0],
     first_seen  |-> [c \in 1..maxWinners |-> Never]]

\* mutant: a vote weighs the same whatever tickets its voter holds
AddVotes_ByHead(tally, ballots) ==
    LET For(c) == {b \in ballots : b.count = c}
    IN  [max_winners |-> tally.max_winners,
         weights     |-> [c \in 1..tally.max_winners |->
                             tally.weights[c] + Cardinality({b.ticket[1] : b \in For(c)})],
         first_seen  |-> [c \in 1..tally.max_winners |->
                             Min({tally.first_seen[c]} \cup {b.at : b \in For(c)})]]

(***************************************************************************)
(* VoteTally::add_vote for all ballots of a transaction: sums and minima   *)
(* do not depend on their order.  A count out of range is ignored.         *)
(***************************************************************************)
AddVotes(tally, ballots) ==
    LET For(c) == {b \in ballots : b.count = c}
    IN  [max_winners |-> tally.max_winners,
         weights     |-> [c \in 1..tally.max_winners |->
                             tally.weights[c] + Cardinality(For(c))],
         first_seen  |-> [c \in 1..tally.max_winners |->
                             Min({tally.first_seen[c]} \cup {b.at : b \in For(c)})]]

\* mutant: ties go to the fewest winners, not to the earliest vote
Improves_IgnoringTime(new, best) == new.weight > best.weight

(***************************************************************************)
(* VoteTally::selected_winners: Best[c] is the loop's running candidate    *)
(* after the counts 1 .. c have been looked at.                            *)
(***************************************************************************)
Improves(new, best) ==
    \/ new.weight > best.weight
    \/ new.weight = best.weight /\ new.time < best.time
    \/ new.weight = best.weight /\ new.time = best.time /\ new.count < best.count

SelectedWinners(tally, participantsCount) ==
    LET maxCount == Min({tally.max_winners, participantsCount - 1})
        Best[c \in 0..maxCount] ==
            IF c = 0 THEN [count |-> 1, weight |-> 0, time |-> Never]
            ELSE LET new == [count |-> c, weight |-> tally.weights[c],
                             time |-> tally.first_seen[c]]
                 IN  IF new.weight # 0 /\ Improves(new, Best[c - 1])
                     THEN new ELSE Best[c - 1]
    IN  IF participantsCount <= 1 THEN 1 ELSE Best[maxCount].count

(***************************************************************************)
(* What the election promises, without tally or loop: among the counts     *)
(* 1 .. maxCount that some ballot names, the one with most ballots, ties   *)
(* going to the earliest ballot and then to fewest winners; 1 if none.     *)
(***************************************************************************)
Plurality(ballots, maxCount) ==
    LET For(c)   == {b \in ballots : b.count = c}
        First(c) == Min({b.at : b \in For(c)})
        weight   == [c \in 1..maxCount |-> Cardinality(For(c))]
        named    == {c \in 1..maxCount : weight[c] > 0}
        Beats(c, d) ==
            \/ weight[c] > weight[d]
            \/ /\ weight[c] = weight[d]
               /\ First(c) < First(d) \/ (First(c) = First(d) /\ c < d)
    IN  IF named = {} THEN 1
        ELSE CHOOSE c \in named : \A d \in named \ {c} : Beats(c, d)
==============================================================================
