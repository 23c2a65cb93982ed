------------------------------- MODULE Selection -------------------------------
(***************************************************************************)
(* The selection by itself, apart from the giveaway: whichever of the      *)
(* participants are eligible, any number of winners wanted, any keys and   *)
(* chunks of any length.                                                   *)
(***************************************************************************)
EXTENDS RadixSelection

CONSTANTS
    Order,       \* the participants by index
    MaxWanted    \* bound: winners asked for

ASSUME OrderAssumption ==
    /\ Order \in Seq(Candidates) /\ Order # << >>
    /\ \A i, j \in DOMAIN Order : i # j => Order[i] # Order[j]
    /\ MaxWanted \in Nat

VARIABLES eligible, wanted

vars == <<root, stamp, eligible, wanted>>

Init ==
    /\ root = NewRoot(Len(Order))
    /\ stamp = [w \in Candidates |-> NoStamp]
    /\ eligible \in SUBSET {Order[i] : i \in DOMAIN Order}
    /\ wanted \in 1..MaxWanted

Step(last, seed) ==
    /\ SelectChunk(root, Order, eligible, last, wanted, seed)
    /\ UNCHANGED <<eligible, wanted>>

\* a seed is drawn at the end of the aggregation
Drawn == {NoSeed} \cup IF root.phase = "aggregating" THEN Seeds ELSE {}

Next == \E last \in 1..Len(Order), seed \in Drawn : Step(last, seed)

Spec == Init /\ [][Next]_vars

------------------------------------------------------------------------------
Target == Min({wanted, Cardinality(eligible)})

(***************************************************************************)
(* Between two chunks of the counting passes, the ranks given up so far    *)
(* are those of the keys before the prefix, and the wanted key is among    *)
(* those with the prefix: remaining_rank of finish_radix_pass is right     *)
(* however the passes were cut into transactions.                          *)
(***************************************************************************)
RankKept ==
    root.phase = "radix" =>
        /\ Cardinality(Preceding(root, eligible)) + root.remaining_rank = root.target_winners
        /\ root.remaining_rank \in 1..Cardinality(Matching(root, eligible))

(***************************************************************************)
(* The winners are exactly the target smallest keys of the eligible        *)
(* participants, and target is what was asked for or all there are, when   *)
(* they are counted and when the selection is complete.                    *)
(***************************************************************************)
WinnersAreSmallest ==
    root.phase \in {"emitting", "completed"} /\ root.target_winners > 0 =>
        /\ root.target_winners = Target
        /\ {w \in eligible : Wins(root, w)} = Smallest(eligible, Target, root.seed)

(***************************************************************************)
(* No sequence of chunks runs into one that every later transaction is     *)
(* refused at: until the selection is complete, participants are left in   *)
(* the pass, and a chunk that ends at any of them is accepted.  A wrong    *)
(* rank, a participant that looks already visited, a threshold found twice *)
(* or a winner too few would stop the giveaway for good.  Every chunk      *)
(* moves the cursor and every pass lengthens the prefix or changes the     *)
(* phase, so the selection also ends.                                      *)
(***************************************************************************)
NeverStuck ==
    root.phase # "completed" =>
        /\ root.processed_count < Len(Order)
        /\ \A last \in (root.processed_count + 1)..Len(Order) :
              MaySelect(root, Order, eligible, last)
================================================================================
