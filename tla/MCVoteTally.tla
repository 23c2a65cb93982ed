----------------------------- MODULE MCVoteTally -----------------------------
(***************************************************************************)
(* Instances of the election for TLC.                                      *)
(***************************************************************************)
EXTENDS Election, TLC

VoterSymmetry == Permutations(Voters)
==============================================================================
