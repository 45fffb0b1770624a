----------------------------- MODULE MCBazrCrate -----------------------------
(* BazrCrate on small instances.                                             *)
EXTENDS BazrCrate, TLC

CONSTANTS m1, m2, m3

\* The lists the instructions are called with: full allocations of three basis
\* points to one, two and three mints, and one list for each way to be refused.
MCMintLists ==
  {<<>>, <<m1>>, <<m1, m2>>, <<m1, m1>>, <<m2, m1, m3>>, <<m1, m2, m1>>,
   <<m1, m2, m3, m1>>}
MCWeightLists ==
  {<<>>, <<3>>, <<1, 2>>, <<3, 0>>, <<2, 2>>, <<1, 1, 1>>, <<2, 2, 2>>, <<1, 1, 1, 1>>}

Symmetry == Permutations(Creators)
=============================================================================
