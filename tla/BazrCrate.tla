------------------------------ MODULE BazrCrate ------------------------------
(***************************************************************************)
(* Crates: weighted baskets of memes published by their creators, in the   *)
(* market program of bazr.  A crate holds no tokens; what it promises is   *)
(* that its weights are a full allocation, that it shows how often it was  *)
(* changed, and that once frozen it is never changed again.                *)
(*                                                                         *)
(* As in BazrMarket an instruction is one atomic action.  The crate of     *)
(* creator c with id n is crates[<<c, n>>]; a name is its length in bytes. *)
(* The only account shared with BazrMarket is the market, of which these   *)
(* instructions touch one field, total_crates, that no other reads.        *)
(***************************************************************************)
EXTENDS Integers, FiniteSets, Sequences, SequencesExt

CONSTANTS
  Creators, Mints,
  CrateIds,                       \* inputs of create_crate
  Names,                          \*   byte lengths of names
  Weights,                        \*   and weights
  MintLists, WeightLists,         \* inputs of create_crate, rebalance_crate
  MAX_BPS, MAX_CRATE_MINTS, MAX_CRATE_NAME_LEN,
  U32_MAX, U64_MAX,
  MaxClock                        \* bound on the cluster clock

ASSUME CrateInputsAssumption ==
  /\ IsFiniteSet(Creators) /\ IsFiniteSet(CrateIds) /\ Names \subseteq Nat
  /\ MintLists \subseteq Seq(Mints)
  /\ Weights \subseteq Nat /\ WeightLists \subseteq Seq(Weights)
ASSUME CrateLimitsAssumption ==
  /\ MAX_BPS \in Nat \ {0} /\ MAX_CRATE_MINTS \in Nat /\ MAX_CRATE_NAME_LEN \in Nat
  /\ U32_MAX \in Nat /\ U64_MAX \in Nat /\ MAX_BPS <= U32_MAX
  /\ MaxClock \in Nat \ {0}

VARIABLES
  crates,         \* <<creator, crate_id>> -> Crate, for those that exist
  total_crates,   \* the field of the market account, -1 before it exists
  now             \* unix_timestamp of the cluster clock

vars == <<crates, total_crates, now>>

Crate ==
  [created_at : 1..MaxClock, last_rebalanced_at : 1..MaxClock,
   rebalance_count : 0..U32_MAX, frozen : BOOLEAN,
   mints : MintLists, weights : WeightLists]

-----------------------------------------------------------------------------
(* validate_basket *)

\* The u32 total after the first n weights.
TotalAfter(weights, n) == SumFunctionOnSet(weights, 1..n)

\* Mutant: a mint is compared with the next one only.
RoundComparesNext(mints, weights, i) ==
  /\ weights[i] > 0 /\ TotalAfter(weights, i) <= U32_MAX
  /\ i < Len(mints) => mints[i] # mints[i + 1]

\* One round of the loop over the weights: none is zero, the total does not
\* overflow, and the mint of this weight does not come again.
RoundPasses(mints, weights, i) ==
  /\ weights[i] > 0
  /\ TotalAfter(weights, i) <= U32_MAX
  /\ \A j \in (i + 1)..Len(mints) : mints[i] # mints[j]

\* Mutant: the total of the weights is not compared with the whole.
BasketUnsummed(mints, weights) ==
  /\ Len(mints) \in 1..MAX_CRATE_MINTS /\ Len(mints) = Len(weights)
  /\ \A i \in 1..Len(weights) : RoundPasses(mints, weights, i)

validate_basket(mints, weights) ==
  /\ Len(mints) > 0 /\ Len(mints) <= MAX_CRATE_MINTS
  /\ Len(mints) = Len(weights)
  /\ \A i \in 1..Len(weights) : RoundPasses(mints, weights, i)
  /\ TotalAfter(weights, Len(weights)) = MAX_BPS

-----------------------------------------------------------------------------
(* Instructions *)

\* initialize_market, as far as crates are concerned.
InitializeMarket ==
  /\ total_crates = -1
  /\ total_crates' = 0
  /\ UNCHANGED <<crates, now>>

NewCrate(mints, weights) ==
  [created_at |-> now, last_rebalanced_at |-> now, rebalance_count |-> 0,
   frozen |-> FALSE, mints |-> mints, weights |-> weights]

CreateCrate(creator, id, name, mints, weights) ==
  /\ total_crates # -1 /\ total_crates + 1 <= U64_MAX
  /\ <<creator, id>> \notin DOMAIN crates
  /\ name > 0 /\ name <= MAX_CRATE_NAME_LEN
  /\ validate_basket(mints, weights)
  /\ crates' = [k \in DOMAIN crates \cup {<<creator, id>>} |->
                  IF k = <<creator, id>> THEN NewCrate(mints, weights) ELSE crates[k]]
  /\ total_crates' = total_crates + 1
  /\ UNCHANGED now

RebalancedAsNew(c, mints, weights) ==
  [NewCrate(mints, weights) EXCEPT !.rebalance_count = c.rebalance_count + 1]

\* The crate c after a rebalance.
Rebalanced(c, mints, weights) ==
  [c EXCEPT !.mints = mints, !.weights = weights, !.last_rebalanced_at = now,
            !.rebalance_count = @ + 1]

\* Mutant: rebalance_crate without the frozen constraint.
RebalanceCrateFrozen(creator, id, mints, weights) ==
  LET k == <<creator, id>> IN
  /\ k \in DOMAIN crates
  /\ validate_basket(mints, weights)
  /\ crates[k].rebalance_count + 1 <= U32_MAX
  /\ crates' = [crates EXCEPT ![k] = Rebalanced(@, mints, weights)]
  /\ UNCHANGED <<total_crates, now>>

RebalanceCrate(creator, id, mints, weights) ==
  LET k == <<creator, id>> IN
  /\ k \in DOMAIN crates /\ ~crates[k].frozen
  /\ validate_basket(mints, weights)
  /\ crates[k].rebalance_count + 1 <= U32_MAX
  /\ crates' = [crates EXCEPT ![k] = Rebalanced(@, mints, weights)]
  /\ UNCHANGED <<total_crates, now>>

FreezeCrate(creator, id) ==
  LET k == <<creator, id>> IN
  /\ k \in DOMAIN crates /\ ~crates[k].frozen
  /\ crates' = [crates EXCEPT ![k].frozen = TRUE]
  /\ UNCHANGED <<total_crates, now>>

Tick ==
  /\ now < MaxClock
  /\ now' = now + 1
  /\ UNCHANGED <<crates, total_crates>>

Init ==
  /\ crates = [k \in {} |-> 0]
  /\ total_crates = -1
  /\ now = 1

Next ==
  \/ InitializeMarket
  \/ \E c \in Creators, id \in CrateIds, n \in Names,
        m \in MintLists, w \in WeightLists : CreateCrate(c, id, n, m, w)
  \/ \E c \in Creators, id \in CrateIds, m \in MintLists, w \in WeightLists :
        RebalanceCrate(c, id, m, w)
  \/ \E c \in Creators, id \in CrateIds : FreezeCrate(c, id)
  \/ Tick

Spec == Init /\ [][Next]_vars

-----------------------------------------------------------------------------
(* Properties *)

CratesTypeOK ==
  /\ crates \in [DOMAIN crates -> Crate] /\ DOMAIN crates \subseteq Creators \X CrateIds
  /\ total_crates \in -1..U64_MAX
  /\ now \in 1..MaxClock

\* What a reader takes a crate to be: a share for each of its mints, every mint
\* named once, the shares adding up to the whole.
Allocation(mints, weights) ==
  \E shares \in [ToSet(mints) -> 1..MAX_BPS] :
    /\ Cardinality(ToSet(mints)) = Len(mints)
    /\ Len(weights) = Len(mints)
    /\ \A i \in 1..Len(mints) : weights[i] = shares[mints[i]]
    /\ SumFunction(shares) = MAX_BPS

\* The loop of validate_basket says yes exactly to the lists of 1 to MAX_CRATE_MINTS
\* mints with a full allocation: no zero weight, no mint that comes twice anywhere, no
\* total that wrapped around gets through, and nothing else is turned down.
CheckIsExactFor(mints, weights) ==
  validate_basket(mints, weights)
    <=> Len(mints) \in 1..MAX_CRATE_MINTS /\ Allocation(mints, weights)

\* That over every pair of lists up to a length above the limit.  It is a matter of the
\* arguments only, so it is looked at once, before the market exists.
AllLists(S) == UNION {[1..n -> S] : n \in 0..(MAX_CRATE_MINTS + 1)}
CheckIsExact ==
  total_crates = -1 /\ now = 1 =>
    \A m \in AllLists(Mints), w \in AllLists(Weights) : CheckIsExactFor(m, w)

\* The loop of validate_basket, run at creation and at every rebalance and never
\* on a read, leaves only full allocations in the accounts, and no crate without
\* a mint or with more mints than its account has room for.
CratesFullyAllocated ==
  \A k \in DOMAIN crates :
    /\ Len(crates[k].mints) \in 1..MAX_CRATE_MINTS
    /\ Allocation(crates[k].mints, crates[k].weights)

\* The market's count is that of the crates there are, and the two dates and the
\* count of a crate agree: it was rebalanced when its count says so, after it was
\* created.
CratesCounted ==
  /\ total_crates # Cardinality(DOMAIN crates) => total_crates = -1 /\ crates = <<>>
  /\ \A k \in DOMAIN crates :
       LET c == crates[k] IN
       /\ c.created_at <= c.last_rebalanced_at /\ c.last_rebalanced_at <= now
       /\ c.rebalance_count = 0 => c.last_rebalanced_at = c.created_at

\* A step keeps the composition of the crate k, or counts and dates the change.
CompositionKept(k) ==
  /\ k \in DOMAIN crates'
  /\ crates'[k].created_at = crates[k].created_at
  /\ crates[k].frozen => crates'[k] = crates[k]
  /\ \/ /\ crates'[k].mints = crates[k].mints
        /\ crates'[k].weights = crates[k].weights
     \/ /\ crates'[k].rebalance_count = crates[k].rebalance_count + 1
        /\ crates'[k].last_rebalanced_at = now

\* The published weighting is a commitment: a crate is never removed, its date of
\* creation never moves, a composition changes only together with the count of
\* rebalances and its date, and a frozen crate never changes at all.
CompositionCommitted == [][\A k \in DOMAIN crates : CompositionKept(k)]_vars

\* What an account of a crate may hold at any time: a value of its type, a full
\* allocation, and dates, counts and a total that agree.
CratesSound == CratesTypeOK /\ CratesFullyAllocated /\ CratesCounted
=============================================================================
