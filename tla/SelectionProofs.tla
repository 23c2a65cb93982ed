---------------------------- MODULE SelectionProofs ----------------------------
(***************************************************************************)
(* Selection, for any number of participants in any order of entry,        *)
(* any keys and any division of the passes into transactions.              *)
(***************************************************************************)
EXTENDS Selection, RadixProofs

IInv ==
    /\ SelectionInv(root, Order, eligible, wanted)
    /\ Listed(Order, eligible)
    /\ Marked(stamp, root, Order)
    /\ wanted \in Nat

LEMMA InitInv == ASSUME Init PROVE IInv
<1>1. /\ root = NewRoot(Len(Order)) /\ stamp = [w \in Candidates |-> NoStamp]
      /\ wanted \in Nat /\ eligible \in SUBSET {Order[i] : i \in DOMAIN Order}
  BY OrderAssumption DEF Init
<1>2. Listed(Order, eligible)  BY <1>1, OrderAssumption DEF Listed
<1>3. SelectionInv(root, Order, eligible, wanted)  BY <1>1, <1>2, NewSelection
<1>4. Marked(stamp, root, Order)  BY <1>1, <1>2, NewMarks, OrderAssumption
<1> QED  BY <1>1, <1>2, <1>3, <1>4 DEF IInv

LEMMA StepInv ==
    ASSUME IInv, [Next]_vars
    PROVE  IInv'
<1>1. CASE UNCHANGED vars
  BY <1>1 DEF IInv, vars
<1>2. ASSUME NEW last \in 1..Len(Order), NEW seed \in Drawn, Step(last, seed)
      PROVE  IInv'
  <2>1. SelectChunk(root, Order, eligible, last, wanted, seed)
        /\ eligible' = eligible /\ wanted' = wanted
    BY <1>2 DEF Step
  <2>2. SelectionInv(root', Order, eligible, wanted)
    BY <2>1, ChunkKeeps DEF IInv
  <2>3. Marked(stamp', root', Order)
    BY <2>1, MarksKept DEF IInv
  <2> QED  BY <2>1, <2>2, <2>3 DEF IInv
<1> QED  BY <1>1, <1>2 DEF Next

LEMMA InvAlways == Spec => []IInv
<1>1. IInv /\ [Next]_vars => IInv'  BY StepInv
<1> QED  BY InitInv, <1>1, PTL DEF Spec

(* The accounts of the selection keep their ranges: at most as many digits as
   a key has, no rank and no count above the number of winners
   (finalization_ledger.rs, record_radix_key and finish_radix_pass). *)
THEOREM AccountsTyped == Spec => []SelectionTypeOK
<1>1. IInv => SelectionTypeOK
  BY DEF IInv, SelectionInv, ShapedRoot, Marked, SelectionTypeOK
<1> QED  BY InvAlways, <1>1, PTL

(* Every pass gives up exactly the ranks of the keys it passes over
   (finish_radix_pass). *)
THEOREM RanksAreKept == Spec => []RankKept
<1>1. IInv => RankKept
  BY DEF IInv, SelectionInv, AtAggregation, AtRadix, AtResolution, AtEmission, AtEnd,
         Ranked, RankKept
<1> QED  BY InvAlways, <1>1, PTL

(* The selection finds the smallest keys, as many as were asked for or as there
   are (finalize_winners.rs, process_resolution and process_emitting). *)
THEOREM SmallestWin == Spec => []WinnersAreSmallest
<1>1. ASSUME IInv  PROVE WinnersAreSmallest
  <2> SUFFICES ASSUME root.phase \in {"emitting", "completed"}, root.target_winners > 0
               PROVE  /\ root.target_winners = Target
                      /\ {w \in eligible : Wins(root, w)} =
                             Smallest(eligible, Target, root.seed)
    BY DEF WinnersAreSmallest
  <2>1. Found(root, eligible, wanted)
    BY <1>1 DEF IInv, SelectionInv, AtAggregation, AtRadix, AtResolution, AtEmission, AtEnd
  <2>2. eligible \in SUBSET Candidates  BY <1>1 DEF IInv, Listed
  <2> QED  BY <2>1, <2>2, FoundAreSmallest DEF Found, Seeded, Target
<1> QED  BY InvAlways, <1>1, PTL

(* The selection never gets stuck: whatever chunks came before, there is a
   next participant, and a chunk up to any of those left is accepted
   (finalize_winners.rs, process and the handlers of its passes). *)
THEOREM SelectionGoesOn == Spec => []NeverStuck
<1>1. IInv => NeverStuck  BY ChunkAccepted DEF IInv, NeverStuck
<1> QED  BY InvAlways, <1>1, PTL
================================================================================
