--------------------------- MODULE BazrCrateProofs ---------------------------
(***************************************************************************)
(* Crates for every set of creators, mints and inputs, and every limit:    *)
(* the loop of validate_basket accepts full allocations and nothing else,  *)
(* the accounts hold nothing else, their counts and dates agree, and a     *)
(* published composition is a commitment.                                  *)
(***************************************************************************)
EXTENDS BazrCrate, SumLemmas

-----------------------------------------------------------------------------
(* validate_basket *)

\* The two lists of a basket have one place for each mint: no mint comes twice.
OneEach(mints) == \A i, j \in 1..Len(mints) : mints[i] = mints[j] => i = j

LEMMA PlacesTyped ==
  ASSUME NEW mints \in Seq(Mints)
  PROVE  /\ Len(mints) \in Nat /\ IsFiniteSet(1..Len(mints))
         /\ DOMAIN mints = 1..Len(mints)
         /\ ToSet(mints) = {mints[i] : i \in 1..Len(mints)}
         /\ Cardinality(ToSet(mints)) = Len(mints) <=> OneEach(mints)
<1>1. Len(mints) \in Nat /\ DOMAIN mints = 1..Len(mints)
  OBVIOUS
<1>2. PICK T : T = ToSet(mints)
  OBVIOUS
<1>3. PICK n \in Nat : n = Len(mints)
  BY <1>1
<1>4. IsFiniteSet(1..n) /\ Cardinality(1..n) = n
  BY FS_Interval
<1>5. T = {mints[i] : i \in 1..n}
  BY <1>1, <1>2, <1>3 DEF ToSet
<1>6. mints \in Surjection(1..n, T)
  BY <1>1, <1>2, <1>3, <1>5 DEF Surjection
<1>7. Cardinality(T) = n <=> mints \in Injection(1..n, T)
  BY <1>4, <1>6, FS_Surjection
<1>8. mints \in Injection(1..n, T) <=> OneEach(mints)
  BY <1>1, <1>2, <1>3, <1>6 DEF Injection, IsInjective, Surjection, OneEach
<1>9. QED
  BY <1>1, <1>2, <1>3, <1>4, <1>5, <1>7, <1>8

\* A list of weights is a list of naturals.
LEMMA WeightListsTyped ==
  /\ \A n \in Nat : \A w \in [1..n -> Weights] : w \in Seq(Nat)
  /\ \A w \in Seq(Weights) : w \in Seq(Nat)
<1>1. ASSUME NEW n \in Nat, NEW w \in [1..n -> Weights] PROVE w \in Seq(Nat)
  <2>1. w \in [1..n -> Nat]
    BY CrateInputsAssumption
  <2>2. QED
    BY <2>1
<1>2. ASSUME NEW w \in Seq(Weights) PROVE w \in Seq(Nat)
  <2>1. Len(w) \in Nat /\ w \in [1..Len(w) -> Weights]
    OBVIOUS
  <2>2. QED
    BY <1>1, <2>1
<1>3. QED
  BY <1>1, <1>2

\* The total of the first weights is a sum of naturals: none of them is above it, and it
\* is not above the total of more of them.
LEMMA TotalsTyped ==
  ASSUME NEW weights \in Seq(Nat), NEW n \in 0..Len(weights)
  PROVE  /\ TotalAfter(weights, n) \in Nat
         /\ \A i \in 1..n : /\ weights[i] <= TotalAfter(weights, n)
                           /\ TotalAfter(weights, i) <= TotalAfter(weights, n)
<1>1. n \in Nat /\ \A i \in 1..n : weights[i] \in Nat
  OBVIOUS
<1>2. Summable(weights, 1..n)
  <2>1. IsFiniteSet(1..n)
    BY <1>1, FS_Interval
  <2>2. QED
    BY <1>1, <2>1 DEF Summable
<1>3. SumFunctionOnSet(weights, 1..n) \in Nat
  BY <1>1, <1>2, SumTakesOut, SumBounds
<1>4. ASSUME NEW i \in 1..n
      PROVE  SumFunctionOnSet(weights, 1..i) <= SumFunctionOnSet(weights, 1..n)
  <2>1. 1..i \in SUBSET (1..n)
    OBVIOUS
  <2>2. QED
    BY <1>1, <1>2, <2>1, SumOfPart
<1>5. QED
  BY <1>1, <1>2, <1>3, <1>4, SumBounds DEF TotalAfter

\* The shares of an allocation add up to the total of the weights, each named once.
LEMMA SharesAddUp ==
  ASSUME NEW mints \in Seq(Mints), NEW weights \in Seq(Nat), Len(weights) = Len(mints),
         OneEach(mints), NEW shares, DOMAIN shares = ToSet(mints),
         \A i \in 1..Len(mints) : shares[mints[i]] = weights[i]
  PROVE  SumFunction(shares) = TotalAfter(weights, Len(weights))
<1>1. PICK S : S = 1..Len(mints)
  OBVIOUS
<1>2. Summable(weights, S) /\ OneToOne(mints, S) /\ Renamed(shares, mints, weights, S)
  BY <1>1, PlacesTyped DEF OneEach, Summable, OneToOne, Renamed
<1>3. SumFunctionOnSet(shares, {mints[i] : i \in S}) = SumFunctionOnSet(weights, S)
  BY <1>2, SumRenamed
<1>4. QED
  BY <1>1, <1>3, PlacesTyped DEF SumFunction, TotalAfter

\* Whatever passes the loop is a full allocation: the weights are the shares.
LEMMA OnlyAllocationsPass ==
  ASSUME NEW mints \in Seq(Mints), NEW weights \in Seq(Nat), validate_basket(mints, weights)
  PROVE  Len(mints) \in 1..MAX_CRATE_MINTS /\ Allocation(mints, weights)
<1>1. /\ Len(mints) \in Nat /\ Len(mints) \in 1..MAX_CRATE_MINTS /\ Len(weights) = Len(mints)
      /\ \A i \in 1..Len(weights) : RoundPasses(mints, weights, i)
      /\ TotalAfter(weights, Len(weights)) = MAX_BPS
  BY CrateLimitsAssumption DEF validate_basket
<1>2. OneEach(mints)
  <2>1. \A i, j \in 1..Len(mints) : i < j => mints[i] # mints[j]
    BY <1>1 DEF RoundPasses
  <2>2. QED
    BY <1>1, <2>1 DEF OneEach
<1>3. PICK place : place = [x \in ToSet(mints) |-> CHOOSE i \in 1..Len(mints) : mints[i] = x]
  OBVIOUS
<1>4. PICK shares : shares = [x \in ToSet(mints) |-> weights[place[x]]]
  OBVIOUS
<1>5. \A i \in 1..Len(mints) : mints[i] \in ToSet(mints) /\ place[mints[i]] = i
  <2>1. \A i \in 1..Len(mints) : mints[i] \in ToSet(mints)
    BY PlacesTyped
  <2>2. \A i \in 1..Len(mints) : /\ place[mints[i]] \in 1..Len(mints)
                                 /\ mints[place[mints[i]]] = mints[i]
    BY <1>3, <2>1
  <2>3. QED
    BY <1>2, <2>1, <2>2 DEF OneEach
<1>6. \A i \in 1..Len(mints) : shares[mints[i]] = weights[i] /\ weights[i] \in 1..MAX_BPS
  <2>1. \A i \in 1..Len(mints) : weights[i] \in Nat /\ weights[i] > 0
    BY <1>1 DEF RoundPasses
  <2>2. \A i \in 1..Len(weights) : weights[i] <= TotalAfter(weights, Len(weights))
    BY <1>1, TotalsTyped
  <2>3. QED
    BY <1>1, <1>4, <1>5, <2>1, <2>2, CrateLimitsAssumption
<1>7. shares \in [ToSet(mints) -> 1..MAX_BPS]
  <2>1. \A x \in ToSet(mints) : shares[x] \in 1..MAX_BPS
    BY <1>6, PlacesTyped
  <2>2. QED
    BY <1>4, <2>1
<1>8. SumFunction(shares) = MAX_BPS
  <2>1. DOMAIN shares = ToSet(mints)
    BY <1>4
  <2>2. QED
    BY <1>1, <1>2, <1>6, <2>1, SharesAddUp
<1>9. Cardinality(ToSet(mints)) = Len(mints)
  BY <1>2, PlacesTyped
<1>10. QED
  BY <1>1, <1>6, <1>7, <1>8, <1>9 DEF Allocation

\* And every full allocation of an allowed length passes it.
LEMMA AllocationsPass ==
  ASSUME NEW mints \in Seq(Mints), NEW weights \in Seq(Nat),
         Len(mints) \in 1..MAX_CRATE_MINTS, Allocation(mints, weights)
  PROVE  validate_basket(mints, weights)
<1>1. PICK shares \in [ToSet(mints) -> 1..MAX_BPS] :
        /\ Cardinality(ToSet(mints)) = Len(mints)
        /\ Len(weights) = Len(mints)
        /\ \A i \in 1..Len(mints) : weights[i] = shares[mints[i]]
        /\ SumFunction(shares) = MAX_BPS
  BY DEF Allocation
<1>2. OneEach(mints) /\ Len(mints) \in Nat
  BY <1>1, PlacesTyped
<1>3. TotalAfter(weights, Len(weights)) = MAX_BPS
  BY <1>1, <1>2, SharesAddUp
<1>4. ASSUME NEW i \in 1..Len(weights) PROVE RoundPasses(mints, weights, i)
  <2>1. weights[i] > 0
    <3>1. mints[i] \in ToSet(mints)
      BY <1>1, PlacesTyped
    <3>2. QED
      BY <1>1, <3>1, CrateLimitsAssumption
  <2>2. TotalAfter(weights, i) <= U32_MAX
    <3>1. i \in 0..Len(weights) /\ Len(weights) \in 0..Len(weights)
      BY <1>1, <1>2
    <3>2. TotalAfter(weights, i) \in Nat /\ TotalAfter(weights, i) <= MAX_BPS
      BY <1>3, <3>1, TotalsTyped
    <3>3. QED
      BY <3>2, CrateLimitsAssumption
  <2>3. \A j \in (i + 1)..Len(mints) : mints[i] # mints[j]
    BY <1>1, <1>2 DEF OneEach
  <2>4. QED
    BY <2>1, <2>2, <2>3 DEF RoundPasses
<1>5. QED
  BY <1>1, <1>2, <1>3, <1>4, CrateLimitsAssumption DEF validate_basket

\* For all lists of mints and of weights whatever, of any length, and for every limit:
\* validate_basket accepts those of an allowed length that are full allocations, and no
\* others.
THEOREM BasketCheckExact ==
  \A mints \in Seq(Mints), weights \in Seq(Nat) : CheckIsExactFor(mints, weights)
BY OnlyAllocationsPass, AllocationsPass DEF CheckIsExactFor

\* In particular for the lists that TLC looks at.
THEOREM CheckAlwaysExact == Spec => []CheckIsExact
<1>1. CheckIsExact
  <2>1. \A m \in AllLists(Mints) : m \in Seq(Mints)
    BY CrateLimitsAssumption DEF AllLists
  <2>2. \A w \in AllLists(Weights) : w \in Seq(Nat)
    BY CrateLimitsAssumption, WeightListsTyped DEF AllLists
  <2>3. QED
    BY <2>1, <2>2, BasketCheckExact DEF CheckIsExact
<1>2. QED
  BY <1>1, PTL

-----------------------------------------------------------------------------
(* The accounts of crates *)

\* The counts and dates once the market exists, and before.
CrateInv ==
  /\ CratesTypeOK
  /\ CratesFullyAllocated
  /\ CratesCounted
  /\ IsFiniteSet(DOMAIN crates)
  /\ total_crates = -1 => DOMAIN crates = {}

\* What each instruction does to the crates.
Creates(k, mints, weights) ==
  /\ k \in Creators \X CrateIds /\ k \notin DOMAIN crates
  /\ mints \in MintLists /\ weights \in WeightLists
  /\ Len(mints) \in 1..MAX_CRATE_MINTS /\ Allocation(mints, weights)
  /\ total_crates # -1 /\ total_crates + 1 <= U64_MAX
  /\ crates' = [j \in DOMAIN crates \cup {k} |->
                  IF j = k THEN NewCrate(mints, weights) ELSE crates[j]]
  /\ total_crates' = total_crates + 1 /\ now' = now

Replaces(k, c) ==
  /\ k \in DOMAIN crates /\ ~crates[k].frozen
  /\ crates' = [crates EXCEPT ![k] = c]
  /\ c \in Crate /\ c.created_at = crates[k].created_at
  /\ \/ /\ c.mints = crates[k].mints /\ c.weights = crates[k].weights
        /\ c.rebalance_count = crates[k].rebalance_count
        /\ c.last_rebalanced_at = crates[k].last_rebalanced_at
     \/ /\ Len(c.mints) \in 1..MAX_CRATE_MINTS /\ Allocation(c.mints, c.weights)
        /\ c.rebalance_count = crates[k].rebalance_count + 1 /\ c.last_rebalanced_at = now
  /\ total_crates' = total_crates /\ now' = now

Waits ==
  /\ crates' = crates /\ now' \in now..MaxClock
  /\ total_crates' = total_crates \/ (total_crates = -1 /\ total_crates' = 0)

LEMMA RebalancedFields ==
  ASSUME NEW c \in Crate, NEW m \in MintLists, NEW w \in WeightLists,
         now \in 1..MaxClock, U32_MAX \in Nat, c.rebalance_count + 1 <= U32_MAX
  PROVE  /\ Rebalanced(c, m, w) \in Crate
         /\ Rebalanced(c, m, w).created_at = c.created_at
         /\ Rebalanced(c, m, w).rebalance_count = c.rebalance_count + 1
         /\ Rebalanced(c, m, w).last_rebalanced_at = now
         /\ Rebalanced(c, m, w).mints = m /\ Rebalanced(c, m, w).weights = w
<1>1. PICK c1 : c1 = [c EXCEPT !.mints = m]
  OBVIOUS
<1>2. /\ c1 \in Crate /\ c1.created_at = c.created_at /\ c1.rebalance_count = c.rebalance_count
      /\ c1.mints = m
  BY <1>1 DEF Crate
<1>3. PICK c2 : c2 = [c1 EXCEPT !.weights = w]
  OBVIOUS
<1>4. /\ c2 \in Crate /\ c2.created_at = c.created_at /\ c2.rebalance_count = c.rebalance_count
      /\ c2.mints = m /\ c2.weights = w
  BY <1>2, <1>3 DEF Crate
<1>5. PICK c3 : c3 = [c2 EXCEPT !.last_rebalanced_at = now]
  OBVIOUS
<1>6. /\ c3 \in Crate /\ c3.created_at = c.created_at
      /\ c3.rebalance_count = c.rebalance_count /\ c3.last_rebalanced_at = now
      /\ c3.mints = m /\ c3.weights = w
  BY <1>4, <1>5 DEF Crate
<1>7. PICK c4 : c4 = [c3 EXCEPT !.rebalance_count = @ + 1]
  OBVIOUS
<1>8. /\ c4 \in Crate /\ c4.created_at = c.created_at
      /\ c4.rebalance_count = c.rebalance_count + 1 /\ c4.last_rebalanced_at = now
      /\ c4.mints = m /\ c4.weights = w
  BY <1>6, <1>7 DEF Crate
<1>9. Rebalanced(c, m, w) = c4
  BY <1>1, <1>3, <1>5, <1>6, <1>7 DEF Rebalanced
<1>10. QED
  BY <1>8, <1>9

\* A step creates a crate, replaces one that is not frozen, or leaves all alone.
CrateShapes ==
  \/ Waits
  \/ \E k, mints, weights : Creates(k, mints, weights)
  \/ \E k, c : Replaces(k, c)

\* Every step has one of these shapes.
LEMMA CrateSteps ==
  ASSUME CratesTypeOK, [Next]_vars
  PROVE  CrateShapes
<1>0. /\ now \in 1..MaxClock /\ MaxClock \in Nat
      /\ U32_MAX \in Nat
      /\ \A k \in DOMAIN crates : crates[k] \in Crate
  BY CrateLimitsAssumption DEF CratesTypeOK
<1>0a. MintLists \subseteq Seq(Mints) /\ WeightLists \subseteq Seq(Nat)
  BY WeightListsTyped, CrateInputsAssumption
<1>1. CASE InitializeMarket
  BY <1>0, <1>1 DEF InitializeMarket, Waits, CrateShapes
<1>2. ASSUME NEW o \in Creators, NEW id \in CrateIds, NEW n \in Names,
             NEW m \in MintLists, NEW w \in WeightLists, CreateCrate(o, id, n, m, w)
      PROVE  CrateShapes
  <2>1. Len(m) \in 1..MAX_CRATE_MINTS /\ Allocation(m, w)
    BY <1>2, <1>0a, OnlyAllocationsPass DEF CreateCrate
  <2>2. Creates(<<o, id>>, m, w)
    BY <1>2, <2>1 DEF CreateCrate, Creates
  <2>3. QED
    BY <2>2 DEF CrateShapes
<1>3. ASSUME NEW o \in Creators, NEW id \in CrateIds,
             NEW m \in MintLists, NEW w \in WeightLists, RebalanceCrate(o, id, m, w)
      PROVE  CrateShapes
  <2> DEFINE k == <<o, id>>
  <2>1. PICK c : c = Rebalanced(crates[k], m, w)
    OBVIOUS
  <2>2. k \in DOMAIN crates /\ crates[k] \in Crate /\ ~crates[k].frozen
    BY <1>0, <1>3 DEF RebalanceCrate
  <2>3. /\ c \in Crate /\ c.created_at = crates[k].created_at
        /\ c.rebalance_count = crates[k].rebalance_count + 1 /\ c.last_rebalanced_at = now
        /\ Len(c.mints) \in 1..MAX_CRATE_MINTS /\ Allocation(c.mints, c.weights)
    <3>1. crates[k].rebalance_count + 1 <= U32_MAX
      BY <1>3 DEF RebalanceCrate
    <3>2. Len(m) \in 1..MAX_CRATE_MINTS /\ Allocation(m, w)
      BY <1>3, <1>0a, OnlyAllocationsPass DEF RebalanceCrate
    <3> HIDE DEF k
    <3>3. /\ c \in Crate /\ c.created_at = crates[k].created_at
          /\ c.rebalance_count = crates[k].rebalance_count + 1 /\ c.last_rebalanced_at = now
          /\ c.mints = m /\ c.weights = w
      BY <1>0, <2>1, <2>2, <3>1, RebalancedFields
    <3>4. QED
      BY <3>2, <3>3
  <2>4. Replaces(k, c)
    BY <1>3, <2>1, <2>2, <2>3 DEF RebalanceCrate, Replaces
  <2>5. QED
    BY <2>4 DEF CrateShapes
<1>4. ASSUME NEW o \in Creators, NEW id \in CrateIds, FreezeCrate(o, id)
      PROVE  CrateShapes
  <2> DEFINE k == <<o, id>>
  <2>1. PICK c : c = [crates[k] EXCEPT !.frozen = TRUE]
    OBVIOUS
  <2>2. k \in DOMAIN crates /\ crates[k] \in Crate /\ ~crates[k].frozen
    BY <1>0, <1>4 DEF FreezeCrate
  <2>3. /\ c \in Crate /\ c.created_at = crates[k].created_at
        /\ c.mints = crates[k].mints /\ c.weights = crates[k].weights
        /\ c.rebalance_count = crates[k].rebalance_count
        /\ c.last_rebalanced_at = crates[k].last_rebalanced_at
    BY <2>1, <2>2 DEF Crate
  <2>4. crates' = [crates EXCEPT ![k] = c]
    BY <1>4, <2>1 DEF FreezeCrate
  <2>5. Replaces(k, c)
    BY <1>4, <2>2, <2>3, <2>4 DEF FreezeCrate, Replaces
  <2>6. QED
    BY <2>5 DEF CrateShapes
<1>5. CASE Tick
  BY <1>0, <1>5 DEF Tick, Waits, CrateShapes
<1>6. CASE UNCHANGED vars
  BY <1>0, <1>6 DEF vars, Waits, CrateShapes
<1>7. QED
  BY <1>1, <1>2, <1>3, <1>4, <1>5, <1>6 DEF Next

-----------------------------------------------------------------------------
(* Counts and dates *)

\* What one crate holds is a full allocation of an allowed length.
Allocated(c) == Len(c.mints) \in 1..MAX_CRATE_MINTS /\ Allocation(c.mints, c.weights)

\* The dates and the count of one crate agree.
Dated(c) ==
  /\ c.created_at <= c.last_rebalanced_at /\ c.last_rebalanced_at <= now
  /\ c.rebalance_count = 0 => c.last_rebalanced_at = c.created_at

LEMMA CrateInvInit == Init => CrateInv
<1> SUFFICES ASSUME Init PROVE CrateInv
  OBVIOUS
<1>1. DOMAIN crates = {} /\ IsFiniteSet(DOMAIN crates) /\ crates = <<>>
  BY FS_EmptySet DEF Init
<1>2. crates \in [DOMAIN crates -> Crate]
  BY <1>1 DEF Init
<1>3. QED
  BY <1>1, <1>2, CrateLimitsAssumption
     DEF Init, CrateInv, CratesTypeOK, CratesFullyAllocated, CratesCounted

LEMMA CrateInvStep == CrateInv /\ [Next]_vars => CrateInv'
<1> SUFFICES ASSUME CrateInv, [Next]_vars PROVE CrateInv'
  OBVIOUS
<1>0. /\ \A k \in DOMAIN crates : crates[k] \in Crate /\ Dated(crates[k])
      /\ crates \in [DOMAIN crates -> Crate]
      /\ now \in 1..MaxClock /\ total_crates \in -1..U64_MAX
      /\ {MaxClock, U32_MAX, U64_MAX} \subseteq Nat
  BY CrateLimitsAssumption DEF CrateInv, CratesTypeOK, CratesCounted, Dated
<1>0b. \A k \in DOMAIN crates : Allocated(crates[k])
  BY DEF CrateInv, CratesFullyAllocated, Allocated
<1>1. CASE Waits
  <2>1. CratesTypeOK'
    BY <1>0, <1>1 DEF CrateInv, CratesTypeOK, Waits
  <2>2. (\A k \in DOMAIN crates : Dated(crates[k]))'
    BY <1>0, <1>1 DEF Waits, Dated, Crate
  <2>3. /\ IsFiniteSet(DOMAIN crates)' /\ (total_crates = -1 => DOMAIN crates = {})'
        /\ (total_crates # Cardinality(DOMAIN crates) => total_crates = -1 /\ crates = <<>>)'
    <3>1. CASE total_crates' = total_crates
      BY <1>1, <3>1 DEF CrateInv, CratesCounted, Waits
    <3>2. CASE total_crates = -1 /\ total_crates' = 0
      <4>1. DOMAIN crates = {} /\ Cardinality(DOMAIN crates) = 0
        BY <3>2, FS_EmptySet DEF CrateInv
      <4>2. QED
        BY <1>1, <3>2, <4>1, FS_EmptySet DEF Waits
    <3>3. QED
      BY <1>1, <3>1, <3>2 DEF Waits
  <2>4. CratesFullyAllocated'
    BY <1>1 DEF CrateInv, CratesFullyAllocated, Waits
  <2>5. QED
    BY <2>1, <2>2, <2>3, <2>4 DEF CrateInv, CratesCounted, Dated
<1>2. ASSUME NEW k, NEW m, NEW w, Creates(k, m, w) PROVE CrateInv'
  <2>1. /\ DOMAIN crates' = DOMAIN crates \cup {k} /\ k \in Creators \X CrateIds
        /\ crates'[k] = NewCrate(m, w)
        /\ \A j \in DOMAIN crates : crates'[j] = crates[j]
        /\ crates' \in [DOMAIN crates' -> {crates'[j] : j \in DOMAIN crates'}]
    BY <1>2 DEF Creates
  <2>2. NewCrate(m, w) \in Crate /\ Dated(NewCrate(m, w))
    BY <1>0, <1>2 DEF Creates, NewCrate, Crate, Dated
  <2>3. \A j \in DOMAIN crates' : crates'[j] \in Crate /\ Dated(crates'[j])
    BY <1>0, <2>1, <2>2
  <2>4. CratesTypeOK'
    <3>1. crates' \in [DOMAIN crates' -> Crate]
      BY <2>1, <2>3
    <3>2. DOMAIN crates' \subseteq Creators \X CrateIds
      BY <2>1 DEF CrateInv, CratesTypeOK
    <3>3. QED
      BY <1>0, <1>2, <3>1, <3>2 DEF CratesTypeOK, Creates
  <2>5. (\A j \in DOMAIN crates : Dated(crates[j]))'
    BY <1>2, <2>3 DEF Creates, Dated
  <2>6. /\ IsFiniteSet(DOMAIN crates')
        /\ Cardinality(DOMAIN crates') = Cardinality(DOMAIN crates) + 1
    BY <1>2, <2>1, FS_AddElement DEF CrateInv, Creates
  <2>7. total_crates = Cardinality(DOMAIN crates)
    BY <1>2 DEF CrateInv, CratesCounted, Creates
  <2>8. total_crates' = Cardinality(DOMAIN crates') /\ total_crates' # -1
    BY <1>0, <1>2, <2>6, <2>7 DEF Creates
  <2>9. CratesCounted'
    BY <2>5, <2>8 DEF CratesCounted, Dated
  <2>10. CratesFullyAllocated'
    <3>1. Allocated(NewCrate(m, w))
      BY <1>2 DEF Creates, NewCrate, Allocated
    <3>2. \A j \in DOMAIN crates' : Allocated(crates'[j])
      BY <1>0b, <2>1, <3>1
    <3>3. QED
      BY <3>2 DEF CratesFullyAllocated, Allocated
  <2>11. QED
    BY <2>4, <2>6, <2>8, <2>9, <2>10 DEF CrateInv
<1>3. ASSUME NEW k, NEW c, Replaces(k, c) PROVE CrateInv'
  <2>1. /\ DOMAIN crates' = DOMAIN crates /\ k \in DOMAIN crates /\ crates'[k] = c
        /\ \A j \in DOMAIN crates : j # k => crates'[j] = crates[j]
        /\ c \in Crate /\ total_crates' = total_crates /\ now' = now
        /\ crates' \in [DOMAIN crates -> Crate]
    BY <1>0, <1>3 DEF Replaces
  <2>2. Dated(c)
    BY <1>0, <1>3 DEF Replaces, Dated, Crate
  <2>3. \A j \in DOMAIN crates : Dated(crates'[j])
    BY <1>0, <2>1, <2>2
  <2>4. CratesTypeOK'
    BY <1>0, <2>1 DEF CrateInv, CratesTypeOK
  <2>5. (\A j \in DOMAIN crates : Dated(crates[j]))'
    BY <2>1, <2>3 DEF Dated
  <2>6. total_crates' = Cardinality(DOMAIN crates')
    <3>1. DOMAIN crates # {}
      BY <2>1
    <3>2. total_crates # -1
      BY <3>1 DEF CrateInv
    <3>3. QED
      BY <2>1, <3>2 DEF CrateInv, CratesCounted
  <2>7. CratesFullyAllocated'
    <3>1. Allocated(c)
      BY <1>0b, <1>3 DEF Replaces, Allocated
    <3>2. \A j \in DOMAIN crates' : Allocated(crates'[j])
      BY <1>0b, <2>1, <3>1
    <3>3. QED
      BY <3>2 DEF CratesFullyAllocated, Allocated
  <2>8. QED
    BY <2>1, <2>4, <2>5, <2>6, <2>7 DEF CrateInv, CratesCounted, Dated
<1>4. QED
  BY <1>1, <1>2, <1>3, CrateSteps DEF CrateInv, CrateShapes

\* In every reachable state each crate is a full allocation in an account of its type, its
\* count and dates agree, and the market counts the crates there are.
THEOREM CratesAlwaysSound == Spec => []CratesSound
<1>1. CrateInv => CratesSound
  BY DEF CrateInv, CratesSound
<1>2. QED
  BY <1>1, CrateInvInit, CrateInvStep, PTL DEF Spec

-----------------------------------------------------------------------------
(* The commitment *)

LEMMA KeptByStep == CratesTypeOK /\ [Next]_vars => \A k \in DOMAIN crates : CompositionKept(k)
<1> SUFFICES ASSUME CratesTypeOK, [Next]_vars, NEW j \in DOMAIN crates
             PROVE  CompositionKept(j)
  OBVIOUS
<1>1. CASE Waits
  BY <1>1 DEF Waits, CompositionKept
<1>2. ASSUME NEW k, NEW m, NEW w, Creates(k, m, w) PROVE CompositionKept(j)
  BY <1>2 DEF Creates, CompositionKept
<1>3. ASSUME NEW k, NEW c, Replaces(k, c) PROVE CompositionKept(j)
  <2>1. /\ j \in DOMAIN crates' /\ k \in DOMAIN crates
        /\ j # k => crates'[j] = crates[j]
        /\ crates'[k] = c
    BY <1>3 DEF Replaces
  <2>2. CASE j # k
    BY <2>1, <2>2 DEF CompositionKept
  <2>3. CASE j = k
    BY <1>3, <2>1, <2>3 DEF CompositionKept, Replaces
  <2>4. QED
    BY <2>2, <2>3
<1>4. QED
  BY <1>1, <1>2, <1>3, CrateSteps DEF CrateShapes

\* A published composition changes only with its count and date, and never once frozen,
\* for every set of creators, mints and inputs and every limit.
THEOREM CommitmentHolds == Spec => CompositionCommitted
<1>1. CrateInv => CratesTypeOK
  BY DEF CrateInv
<1>2. QED
  BY <1>1, CrateInvInit, CrateInvStep, KeptByStep, PTL DEF Spec, CompositionCommitted
=============================================================================
