------------------------------ MODULE Election ------------------------------
(***************************************************************************)
(* The tally by itself, apart from the lottery: any voters, each of whom   *)
(* casts at most one vote, in any order and with any weight and time.      *)
(***************************************************************************)
EXTENDS VoteTally

CONSTANTS Voters, MaxWeight, MaxWinners

ASSUME ElectionAssumption == MaxWeight \in Nat /\ MaxWinners \in Nat \ {0}

VARIABLES poll, cast     \* the tally, and the ballots it has been given

ElectionInit == poll = NewTally(MaxWinners) /\ cast = {}

HasVoted(v) == \E b \in cast : b.ticket[1] = v

\* a vote out of range is ignored by the tally
Vote(v, count, weight, at) ==
    LET ballots == {[ticket |-> <<v, k>>, count |-> count, at |-> at] : k \in 1..weight}
    IN  /\ ~HasVoted(v)
        /\ poll' = AddVotes(poll, ballots)
        /\ cast' = cast \cup ballots

ElectionNext ==
    \E v \in Voters, count \in 1..(MaxWinners + 1), weight \in 1..MaxWeight,
       at \in 1..(Never - 1) : Vote(v, count, weight, at)

ElectionSpec == ElectionInit /\ [][ElectionNext]_<<poll, cast>>

(* ElectsPlurality: whatever the order in which votes arrive and however
   many counts tie, selected_winners elects the count with most tickets
   behind it, the earliest proposed of several, the lowest of those. *)
ElectsPlurality ==
    SelectedWinners(poll, MaxWinners + 1) = Plurality(cast, MaxWinners)
==============================================================================
