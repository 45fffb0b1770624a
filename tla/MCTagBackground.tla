---------------------------- MODULE MCTagBackground ----------------------------
(* TagBackground on small instances.                                           *)
EXTENDS TagBackground, TLC

Symmetry == Permutations(Lookups) \cup Permutations(Mints)
=============================================================================
