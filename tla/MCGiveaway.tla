------------------------------ MODULE MCGiveaway ------------------------------
(***************************************************************************)
(* Instances of the giveaway for TLC.                                      *)
(***************************************************************************)
EXTENDS GiveawayPrize, TLC

CandidateSymmetry == Permutations(Candidates)
==============================================================================
