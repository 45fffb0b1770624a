---------------------------- MODULE MCTagSettings ----------------------------
(* TagSettings on small instances.                                           *)
EXTENDS TagSettings, TLC

\* One health check is as good as another, one site as another.
Symmetry == Permutations(Calls) \cup Permutations(Sites)
=============================================================================
