------------------------------ MODULE MCCreation ------------------------------
(* Small instances of Creation for TLC. *)
EXTENDS Creation, TLC

CreationSymmetry == Permutations(Programs) \cup Permutations(Creators) \cup Permutations(Fees)
==============================================================================
