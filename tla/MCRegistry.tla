------------------------------ MODULE MCRegistry ------------------------------
(***************************************************************************)
(* Model values for Registry.                                              *)
(***************************************************************************)
EXTENDS Registry, TLC

Symmetry ==
            Permutations(Series) \cup Permutations(Hashes) \cup Permutations(Creators) \cup
            Permutations(Programs)
==============================================================================
