---------------------------- MODULE MCBazrMarket ----------------------------
(* BazrMarket on small instances.                                            *)
EXTENDS BazrMarket, TLC

Symmetry == Permutations(Wallets) \cup Permutations(Mints)

\* "Closing returns the escrowed bond in full" (docs/stall-spec.md), for whatever
\* bond mint the market was initialized with: a stall that may be closed finds
\* its bond in the vault.  The code books the amount sent, not the amount
\* received, so a mint that withholds a transfer fee breaks it.
BondReturnable ==
  \A o \in DOMAIN stalls :
    Closable(stalls[o]) => vault >= stalls[o].bond_amount

\* "A slash ends the stall's ability to act on its own record" (set_stall_uri.rs,
\* docs/stall-spec.md): once a stall is slashed, its listings change by grades
\* only.  withdraw_listing never looks at the slash mark.
SlashEndsActing ==
  [][\A k \in DOMAIN listings :
       stalls[k[1]].slashed /\ listings'[k] # listings[k]
         => listings'[k].outcome \in Graded]_vars
=============================================================================
