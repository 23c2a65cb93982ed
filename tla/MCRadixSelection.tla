--------------------------- MODULE MCRadixSelection ---------------------------
(* Three participants in the order of their entry, for TLC. *)
EXTENDS Selection

CONSTANTS c1, c2, c3

ThreeInOrder == <<c1, c2, c3>>
===============================================================================
