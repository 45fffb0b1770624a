-------------------------- MODULE BazrMarketProofs --------------------------
(***************************************************************************)
(* Theorems about BazrMarket for every set of wallets and mints, every     *)
(* width of the counters and every length of history: the counters, the    *)
(* escrow and the tokens are right in every state; the history is in       *)
(* order, nothing in it is ever rewritten, and the accounts implement the  *)
(* append-only ledger of StallLedger.                                      *)
(*                                                                         *)
(* TypeOK, BooksInv, EscrowInv and TokensInv are inductive, each with the  *)
(* ones before it.  For the history every step is put into one of six      *)
(* shapes, which say what it does to calls and stalls, and the three       *)
(* results are proved shape by shape.                                      *)
(***************************************************************************)
EXTENDS BazrMarket, SumLemmas

USE DEF Outcomes, Graded

-----------------------------------------------------------------------------
(* Type correctness *)

\* What is left of a saturating subtraction, and what a transfer delivers.
LEMMA SaturatingSubType ==
  ASSUME NEW a \in Nat, NEW b \in Nat
  PROVE  /\ SaturatingSub(a, b) \in Nat
         /\ SaturatingSub(a, b) <= a
         /\ b <= a => SaturatingSub(a, b) = a - b
BY DEF SaturatingSub

LEMMA ReceivedType ==
  ASSUME NEW n \in Nat
  PROVE  /\ Received(n) \in Nat
         /\ TransferFee = 0 => Received(n) = n
<1>1. TransferFee \in Nat
  BY TokensAssumption
<1>2. QED
  BY <1>1 DEF Received, SaturatingSub

\* A burn is a whole number of tokens.
LEMMA BurnType ==
  ASSUME NEW bond \in Nat, NEW bps \in Nat
  PROVE  BurnOf(bond, bps) \in Nat
<1>1. bond * bps \in Nat
  OBVIOUS
<1>2. QED
  BY <1>1, LimitsAssumption DEF BurnOf

LEMMA ClockType == TypeOK => now \in 0..MaxClock
BY TokensAssumption DEF TypeOK

\* Each update of an account keeps its type when the checks before it pass.
LEMMA ListingUpdates ==
  ASSUME TypeOK, NEW l \in Listing, NEW out \in Outcomes
  PROVE  ListingSettled(l, out) \in Listing
<1>1. now \in 0..MaxClock
  BY ClockType
<1>2. QED
  BY <1>1 DEF Listing, ListingSettled

LEMMA StallUpdates ==
  ASSUME TypeOK, NEW s \in Stall
  PROVE  /\ /\ s.listings_count + 1 <= U32_MAX
            /\ s.active_listings + 1 <= U32_MAX
            => StallListed(s) \in Stall
         /\ StallSettled(s) \in Stall
         /\ StallClosed(s) \in Stall
         /\ \A burned \in 0..U64_MAX : StallSlashed(s, burned) \in Stall
         /\ \A uri \in Nat : [s EXCEPT !.uri = uri] \in Stall
<1>1. ASSUME s.listings_count + 1 <= U32_MAX, s.active_listings + 1 <= U32_MAX
      PROVE  StallListed(s) \in Stall
  <2>1. /\ s.listings_count + 1 \in 0..U32_MAX
        /\ s.active_listings + 1 \in 0..U32_MAX
    BY <1>1, LimitsAssumption DEF Stall
  <2>2. QED
    BY <2>1 DEF Stall, StallListed
<1>2. StallSettled(s) \in Stall
  <2>1. SaturatingSub(s.active_listings, 1) \in 0..U32_MAX
    BY LimitsAssumption DEF Stall, SaturatingSub
  <2>2. QED
    BY <2>1 DEF Stall, StallSettled
<1>3. StallClosed(s) \in Stall
  <2>1. now \in 0..MaxClock /\ 0 \in 0..U64_MAX
    BY ClockType, LimitsAssumption
  <2>2. QED
    BY <2>1 DEF Stall, StallClosed
<1>4. ASSUME NEW burned \in 0..U64_MAX PROVE StallSlashed(s, burned) \in Stall
  <2>1. 0 \in 0..U64_MAX
    BY LimitsAssumption
  <2>2. QED
    BY <2>1 DEF Stall, StallSlashed
<1>5. ASSUME NEW uri \in Nat PROVE [s EXCEPT !.uri = uri] \in Stall
  BY DEF Stall
<1>6. QED
  BY <1>1, <1>2, <1>3, <1>4, <1>5

LEMMA GradeUpdates ==
  ASSUME TypeOK, NEW s \in Stall, NEW out \in Graded, GradeFits(s, out)
  PROVE  StallGraded(s, out) \in Stall /\ MarketGraded(out) \in Market
<1> USE LimitsAssumption
<1>1. StallSettled(s) \in Stall
  BY StallUpdates
<1>2. /\ StallSettled(s).resolved_wins = s.resolved_wins
      /\ StallSettled(s).resolved_losses = s.resolved_losses
      /\ StallSettled(s).reputation = s.reputation
  BY DEF Stall, StallSettled
<1>3. CASE out = "Survived"
  <2>1. StallGraded(s, out) \in Stall
    <3>1. /\ s.resolved_wins + 1 \in 0..U32_MAX
          /\ s.reputation + REPUTATION_STEP \in (-I64_MAX - 1)..I64_MAX
      BY <1>3 DEF Stall, GradeFits
    <3>2. QED
      BY <1>1, <1>2, <3>1, <1>3 DEF Stall, StallGraded
  <2>2. MarketGraded(out) \in Market
    BY <1>3 DEF TypeOK, Market, MarketGraded, GradeFits
  <2>3. QED
    BY <2>1, <2>2
<1>4. CASE out = "Faded"
  <2>1. StallGraded(s, out) \in Stall
    <3>1. /\ s.resolved_losses + 1 \in 0..U32_MAX
          /\ s.reputation - REPUTATION_STEP \in (-I64_MAX - 1)..I64_MAX
      BY <1>4 DEF Stall, GradeFits
    <3>2. QED
      BY <1>1, <1>2, <3>1, <1>4 DEF Stall, StallGraded
  <2>2. MarketGraded(out) \in Market
    BY <1>4 DEF TypeOK, Market, MarketGraded, GradeFits
  <2>3. QED
    BY <2>1, <2>2
<1>5. QED
  BY <1>3, <1>4

\* Every instruction leaves accounts, balances and clock within their types: no
\* checked operation lets a counter leave its width.
LEMMA TypeStep == TypeOK /\ [Next]_vars => TypeOK'
<1> SUFFICES ASSUME TypeOK, [Next]_vars PROVE TypeOK'
  OBVIOUS
<1> USE LimitsAssumption, TokensAssumption, InputsAssumption, WalletsAssumption
<1>1. ASSUME NEW w \in Wallets, NEW b \in BondAmounts, NEW s \in BpsChoices,
             NEW f \in BpsChoices, InitializeMarket(w, b, s, f)
      PROVE  TypeOK'
  BY <1>1 DEF TypeOK, InitializeMarket, Market
<1>2. ASSUME NEW w \in Wallets, NEW u \in Uris, OpenStall(w, u) PROVE TypeOK'
  BY <1>2, ReceivedType DEF TypeOK, OpenStall, Market, Stall, NewStall, Created
<1>3. ASSUME NEW w \in Wallets, NEW m \in Mints, NEW s \in Scores,
             NEW h \in ThesisHashes, ListRelic(w, m, s, h)
      PROVE  TypeOK'
  <2>1. NewListing(s, h) \in Listing
    BY <1>3 DEF TypeOK, ListRelic, NewListing, Listing
  <2>2. /\ listings' \in [DOMAIN listings' -> Listing]
        /\ DOMAIN listings' \subseteq (DOMAIN stalls) \X Mints
    BY <1>3, <2>1 DEF TypeOK, ListRelic, Created
  <2>3. stalls' \in [DOMAIN stalls -> Stall]
    BY <1>3, StallUpdates DEF TypeOK, ListRelic
  <2>4. market' \in Market
    BY <1>3 DEF TypeOK, ListRelic, Market
  <2>5. QED
    BY <1>3, <2>2, <2>3, <2>4 DEF TypeOK, ListRelic
<1>4. ASSUME NEW w \in Wallets, NEW o \in Wallets, NEW m \in Mints,
             NEW out \in Outcomes, ResolveListing(w, o, m, out)
      PROVE  TypeOK'
  <2>1. o \in DOMAIN stalls /\ stalls[o] \in Stall
    BY <1>4 DEF TypeOK, ResolveListing
  <2>2. StallGraded(stalls[o], out) \in Stall /\ market' \in Market
    BY <1>4, <2>1, GradeUpdates DEF ResolveListing
  <2>3. stalls' \in [DOMAIN stalls -> Stall]
    BY <1>4, <2>2 DEF TypeOK, ResolveListing
  <2>4. listings' \in [DOMAIN listings -> Listing]
    BY <1>4, ListingUpdates DEF TypeOK, ResolveListing
  <2>5. QED
    BY <1>4, <2>2, <2>3, <2>4 DEF TypeOK, ResolveListing
<1>5. ASSUME NEW w \in Wallets, NEW m \in Mints, WithdrawListing(w, m) PROVE TypeOK'
  <2>1. stalls' \in [DOMAIN stalls -> Stall]
    BY <1>5, StallUpdates DEF TypeOK, WithdrawListing
  <2>2. listings' \in [DOMAIN listings -> Listing]
    BY <1>5, ListingUpdates DEF TypeOK, WithdrawListing
  <2>3. QED
    BY <1>5, <2>1, <2>2 DEF TypeOK, WithdrawListing
<1>6. ASSUME NEW w \in Wallets, NEW u \in Uris, SetStallUri(w, u) PROVE TypeOK'
  <2>1. u \in Nat /\ stalls[w] \in Stall
    BY <1>6 DEF TypeOK, SetStallUri
  <2>2. [stalls[w] EXCEPT !.uri = u] \in Stall
    BY <2>1, StallUpdates
  <2>3. stalls' \in [DOMAIN stalls -> Stall]
    BY <1>6, <2>2 DEF TypeOK, SetStallUri
  <2>4. QED
    BY <1>6, <2>3 DEF TypeOK, SetStallUri
<1>7. ASSUME NEW w \in Wallets, CloseStall(w) PROVE TypeOK'
  <2>1. /\ stalls' \in [DOMAIN stalls -> Stall]
        /\ stalls[w].bond_amount \in Nat
    BY <1>7, StallUpdates DEF TypeOK, CloseStall, Stall
  <2>2. market' \in Market
    BY <1>7 DEF TypeOK, CloseStall, Market, CloseFits
  <2>3. wallet' \in [Wallets -> Nat] /\ vault' \in Nat
    BY <1>7, <2>1, ReceivedType DEF TypeOK, CloseStall, CloseFits
  <2>4. QED
    BY <1>7, <2>1, <2>2, <2>3 DEF TypeOK, CloseStall
<1>8. ASSUME NEW w \in Wallets, NEW o \in Wallets, SlashStall(w, o) PROVE TypeOK'
  <2> DEFINE bond == stalls[o].bond_amount
             burned == BurnOf(bond, market.slash_bps)
  <2>1. o \in DOMAIN stalls /\ stalls[o] \in Stall /\ bond \in 0..U64_MAX
    BY <1>8 DEF TypeOK, SlashStall, Stall
  <2>2. burned \in 0..U64_MAX
    BY <1>8, <2>1, BurnType DEF TypeOK, SlashStall, SlashFits, Market
  <2>3. stalls' \in [DOMAIN stalls -> Stall]
    BY <1>8, <2>2, StallUpdates DEF TypeOK, SlashStall
  <2>4. SaturatingSub(market.total_stalls, 1) \in 0..U64_MAX
    BY DEF TypeOK, Market, SaturatingSub
  <2>5. market' \in Market
    <3>1. market.total_bond_burned + burned \in 0..U64_MAX
      BY <1>8, <2>2 DEF TypeOK, SlashStall, SlashFits, Market
    <3>2. market' = [market EXCEPT !.total_bond_burned = @ + burned,
                                   !.total_stalls = SaturatingSub(@, 1)]
      BY <1>8 DEF SlashStall
    <3> HIDE DEF burned
    <3>3. QED
      BY <2>4, <3>1, <3>2 DEF TypeOK, Market
  <2>6. /\ wallet' \in [Wallets -> Nat] /\ vault' \in Nat
        /\ supply' \in 0..U64_MAX
    BY <1>8, <2>1, <2>2, ReceivedType DEF TypeOK, SlashStall, SlashFits
  <2>7. QED
    BY <1>8, <2>3, <2>5, <2>6 DEF TypeOK, SlashStall
<1>9. ASSUME NEW w \in Wallets, SendToVault(w, 1) PROVE TypeOK'
  BY <1>9, ReceivedType DEF TypeOK, SendToVault
<1>10. CASE Tick
  BY <1>10 DEF TypeOK, Tick, Stall, Listing
<1>11. CASE UNCHANGED vars
  BY <1>11 DEF TypeOK, vars
<1>12. QED
  BY <1>1, <1>2, <1>3, <1>4, <1>5, <1>6, <1>7, <1>8, <1>9, <1>10, <1>11 DEF Next

\* The accounts, the balances and the clock always have their types.
THEOREM TypeCorrect == Spec => []TypeOK
<1>1. Init => TypeOK
  BY LimitsAssumption, TokensAssumption DEF Init, TypeOK, Market
<1>2. QED
  BY <1>1, TypeStep, PTL DEF Spec

-----------------------------------------------------------------------------
(* Counting listings *)

\* Parts of the listings are finite, with natural cardinalities.
LEMMA PartsFinite ==
  ASSUME IsFiniteSet(DOMAIN listings), NEW o, NEW out
  PROVE  /\ IsFiniteSet(ListingsOf(o)) /\ Cardinality(ListingsOf(o)) \in Nat
         /\ IsFiniteSet(ListingsAt(out)) /\ Cardinality(ListingsAt(out)) \in Nat
         /\ IsFiniteSet(CallsAt(o, out)) /\ Cardinality(CallsAt(o, out)) \in Nat
<1>1. /\ ListingsOf(o) \in SUBSET DOMAIN listings
      /\ ListingsAt(out) \in SUBSET DOMAIN listings
      /\ CallsAt(o, out) \in SUBSET DOMAIN listings
  BY DEF ListingsOf, ListingsAt, CallsAt
<1>2. /\ IsFiniteSet(ListingsOf(o)) /\ IsFiniteSet(ListingsAt(out))
      /\ IsFiniteSet(CallsAt(o, out))
  BY <1>1, FS_Subset
<1>3. QED
  BY <1>2, FS_CardinalityType

\* One element more or less in a finite set.
LEMMA CountAdded ==
  ASSUME NEW S, IsFiniteSet(S), NEW x, x \notin S
  PROVE  Cardinality(S \cup {x}) = Cardinality(S) + 1
BY FS_AddElement

LEMMA CountRemoved ==
  ASSUME NEW S, IsFiniteSet(S), NEW x \in S
  PROVE  Cardinality(S \ {x}) = Cardinality(S) - 1
BY FS_RemoveElement

\* How a new pending listing changes every count.
LEMMA ListedCounts ==
  ASSUME IsFiniteSet(DOMAIN listings), NEW k, k \notin DOMAIN listings,
         NEW l, l.outcome = "Pending", listings' = Created(listings, k, l)
  PROVE  /\ IsFiniteSet(DOMAIN listings')
         /\ Cardinality(DOMAIN listings') = Cardinality(DOMAIN listings) + 1
         /\ \A out : Cardinality(ListingsAt(out)') =
              Cardinality(ListingsAt(out)) + (IF out = "Pending" THEN 1 ELSE 0)
         /\ \A o : Cardinality(ListingsOf(o)') =
              Cardinality(ListingsOf(o)) + (IF o = k[1] THEN 1 ELSE 0)
         /\ \A o, out : Cardinality(CallsAt(o, out)') =
              Cardinality(CallsAt(o, out))
                + (IF o = k[1] /\ out = "Pending" THEN 1 ELSE 0)
<1>1. /\ DOMAIN listings' = (DOMAIN listings) \cup {k}
      /\ listings'[k] = l
      /\ \A j \in DOMAIN listings : listings'[j] = listings[j]
  BY DEF Created
<1>2. /\ IsFiniteSet(DOMAIN listings')
      /\ Cardinality(DOMAIN listings') = Cardinality(DOMAIN listings) + 1
  BY <1>1, FS_AddElement
<1>3. ASSUME NEW out
      PROVE  Cardinality(ListingsAt(out)') =
               Cardinality(ListingsAt(out)) + (IF out = "Pending" THEN 1 ELSE 0)
  <2>1. CASE out = "Pending"
    <3>1. /\ ListingsAt(out)' = ListingsAt(out) \cup {k}
          /\ k \notin ListingsAt(out)
      BY <1>1, <2>1 DEF ListingsAt
    <3>2. QED
      BY <2>1, <3>1, PartsFinite, CountAdded
  <2>2. CASE out # "Pending"
    <3>1. ListingsAt(out)' = ListingsAt(out)
      BY <1>1, <2>2 DEF ListingsAt
    <3>2. QED
      BY <2>2, <3>1, PartsFinite
  <2>3. QED
    BY <2>1, <2>2
<1>4. ASSUME NEW o
      PROVE  Cardinality(ListingsOf(o)') =
               Cardinality(ListingsOf(o)) + (IF o = k[1] THEN 1 ELSE 0)
  <2>1. CASE o = k[1]
    <3>1. ListingsOf(o)' = ListingsOf(o) \cup {k} /\ k \notin ListingsOf(o)
      BY <1>1, <2>1 DEF ListingsOf
    <3>2. QED
      BY <2>1, <3>1, PartsFinite, CountAdded
  <2>2. CASE o # k[1]
    <3>1. ListingsOf(o)' = ListingsOf(o)
      BY <1>1, <2>2 DEF ListingsOf
    <3>2. QED
      BY <2>2, <3>1, PartsFinite
  <2>3. QED
    BY <2>1, <2>2
<1>5. ASSUME NEW o, NEW out
      PROVE  Cardinality(CallsAt(o, out)') =
               Cardinality(CallsAt(o, out))
                 + (IF o = k[1] /\ out = "Pending" THEN 1 ELSE 0)
  <2>1. CASE o = k[1] /\ out = "Pending"
    <3>1. CallsAt(o, out)' = CallsAt(o, out) \cup {k} /\ k \notin CallsAt(o, out)
      BY <1>1, <2>1 DEF CallsAt, ListingsOf, ListingsAt
    <3>2. QED
      BY <2>1, <3>1, PartsFinite, CountAdded
  <2>2. CASE ~(o = k[1] /\ out = "Pending")
    <3>1. CallsAt(o, out)' = CallsAt(o, out)
      BY <1>1, <2>2 DEF CallsAt, ListingsOf, ListingsAt
    <3>2. QED
      BY <2>2, <3>1, PartsFinite
  <2>3. QED
    BY <2>1, <2>2
<1>6. QED
  BY <1>2, <1>3, <1>4, <1>5

\* How settling a pending listing k as `end` moves it from one count to another.
Moved(out, end) == IF out = end THEN 1 ELSE IF out = "Pending" THEN -1 ELSE 0

LEMMA SettledCounts ==
  ASSUME IsFiniteSet(DOMAIN listings), NEW k \in DOMAIN listings,
         listings[k] \in Listing, listings[k].outcome = "Pending",
         NEW end \in Outcomes \ {"Pending"},
         listings' = [listings EXCEPT ![k] = ListingSettled(@, end)]
  PROVE  /\ DOMAIN listings' = DOMAIN listings
         /\ \A o : ListingsOf(o)' = ListingsOf(o)
         /\ \A out : Cardinality(ListingsAt(out)') =
              Cardinality(ListingsAt(out)) + Moved(out, end)
         /\ \A out : Cardinality(CallsAt(k[1], out)') =
                       Cardinality(CallsAt(k[1], out)) + Moved(out, end)
         /\ \A o, out : o # k[1] => CallsAt(o, out)' = CallsAt(o, out)
<1>1. /\ DOMAIN listings' = DOMAIN listings
      /\ listings'[k].outcome = end
      /\ \A j \in DOMAIN listings : j # k => listings'[j] = listings[j]
  BY DEF ListingSettled, Listing
<1>2. ASSUME NEW o PROVE ListingsOf(o)' = ListingsOf(o)
  BY <1>1 DEF ListingsOf
<1>3. ASSUME NEW out
      PROVE  Cardinality(ListingsAt(out)') = Cardinality(ListingsAt(out)) + Moved(out, end)
  <2>1. CASE out = end
    <3>1. ListingsAt(out)' = ListingsAt(out) \cup {k} /\ k \notin ListingsAt(out)
      BY <1>1, <2>1 DEF ListingsAt
    <3>2. QED
      BY <2>1, <3>1, PartsFinite, CountAdded DEF Moved
  <2>2. CASE out = "Pending"
    <3>1. ListingsAt(out)' = ListingsAt(out) \ {k} /\ k \in ListingsAt(out)
      BY <1>1, <2>2 DEF ListingsAt
    <3>2. QED
      BY <2>2, <3>1, PartsFinite, CountRemoved DEF Moved
  <2>3. CASE out # end /\ out # "Pending"
    <3>1. ListingsAt(out)' = ListingsAt(out)
      BY <1>1, <2>3 DEF ListingsAt
    <3>2. QED
      BY <2>3, <3>1, PartsFinite DEF Moved
  <2>4. QED
    BY <2>1, <2>2, <2>3
<1>4. ASSUME NEW o, NEW out, o = k[1]
      PROVE  Cardinality(CallsAt(o, out)') = Cardinality(CallsAt(o, out)) + Moved(out, end)
  <2>1. CASE out = end
    <3>1. CallsAt(o, out)' = CallsAt(o, out) \cup {k} /\ k \notin CallsAt(o, out)
      BY <1>1, <1>4, <2>1 DEF CallsAt, ListingsOf, ListingsAt
    <3>2. QED
      BY <2>1, <3>1, PartsFinite, CountAdded DEF Moved
  <2>2. CASE out = "Pending"
    <3>1. CallsAt(o, out)' = CallsAt(o, out) \ {k} /\ k \in CallsAt(o, out)
      BY <1>1, <1>4, <2>2 DEF CallsAt, ListingsOf, ListingsAt
    <3>2. QED
      BY <2>2, <3>1, PartsFinite, CountRemoved DEF Moved
  <2>3. CASE out # end /\ out # "Pending"
    <3>1. CallsAt(o, out)' = CallsAt(o, out)
      BY <1>1, <1>4, <2>3 DEF CallsAt, ListingsOf, ListingsAt
    <3>2. QED
      BY <2>3, <3>1, PartsFinite DEF Moved
  <2>4. QED
    BY <2>1, <2>2, <2>3
<1>5. ASSUME NEW o, NEW out, o # k[1] PROVE CallsAt(o, out)' = CallsAt(o, out)
  BY <1>1, <1>5 DEF CallsAt, ListingsOf, ListingsAt
<1>6. QED
  BY <1>1, <1>2, <1>3, <1>4, <1>5

-----------------------------------------------------------------------------
(* The books *)

ListingTotalsMatch ==
  /\ market.total_listings        = Cardinality(DOMAIN listings)
  /\ market.total_resolved_wins   = Cardinality(ListingsAt("Survived"))
  /\ market.total_resolved_losses = Cardinality(ListingsAt("Faded"))

\* The inductive form: the counts are of finite sets, and nothing is booked
\* before the market exists (initialize_market sets the totals to zero).
BooksInv ==
  /\ IsFiniteSet(DOMAIN listings)
  /\ ~market.initialized => DOMAIN stalls = {} /\ DOMAIN listings = {}
  /\ CountersMatchListings
  /\ ListingTotalsMatch

LEMMA StepTimes ==
  ASSUME NEW n \in Int
  PROVE  /\ REPUTATION_STEP * n \in Int
         /\ REPUTATION_STEP * (n + 1) = REPUTATION_STEP * n + REPUTATION_STEP
         /\ REPUTATION_STEP * (n - 1) = REPUTATION_STEP * n - REPUTATION_STEP
<1>1. REPUTATION_STEP \in Int
  BY LimitsAssumption
<1>2. QED
  BY <1>1

\* A pending call is counted by its stall's active listings.
LEMMA PendingCounted ==
  ASSUME IsFiniteSet(DOMAIN listings), NEW o, NEW k \in CallsAt(o, "Pending")
  PROVE  Cardinality(CallsAt(o, "Pending")) >= 1
<1>1. IsFiniteSet(CallsAt(o, "Pending")) /\ Cardinality(CallsAt(o, "Pending")) \in Nat
  BY PartsFinite
<1>2. /\ IsFiniteSet(CallsAt(o, "Pending") \ {k})
      /\ Cardinality(CallsAt(o, "Pending") \ {k}) = Cardinality(CallsAt(o, "Pending")) - 1
  BY <1>1, FS_RemoveElement
<1>3. Cardinality(CallsAt(o, "Pending") \ {k}) \in Nat
  BY <1>2, FS_CardinalityType
<1>4. QED
  BY <1>1, <1>2, <1>3

\* A step that leaves the listings alone and only touches other fields of stalls.
CounterFields(s) ==
  <<s.listings_count, s.active_listings, s.resolved_wins, s.resolved_losses, s.reputation>>

LEMMA BooksUntouched ==
  ASSUME BooksInv, listings' = listings, DOMAIN stalls' = DOMAIN stalls,
         market.initialized' = market.initialized,
         market'.total_listings = market.total_listings,
         market'.total_resolved_wins = market.total_resolved_wins,
         market'.total_resolved_losses = market.total_resolved_losses,
         \A o \in DOMAIN stalls : CounterFields(stalls'[o]) = CounterFields(stalls[o])
  PROVE  BooksInv'
<1>1. /\ \A out : ListingsAt(out)' = ListingsAt(out)
      /\ \A o : ListingsOf(o)' = ListingsOf(o)
      /\ \A o, out : CallsAt(o, out)' = CallsAt(o, out)
  BY DEF ListingsAt, ListingsOf, CallsAt
<1>2. ListingTotalsMatch'
  BY <1>1 DEF BooksInv, ListingTotalsMatch
<1>3. CountersMatchListings'
  BY <1>1 DEF BooksInv, CountersMatchListings, CounterFields
<1>4. QED
  BY <1>2, <1>3 DEF BooksInv

LEMMA BooksOpened ==
  ASSUME TypeOK, BooksInv, NEW w \in Wallets, NEW u \in Uris, OpenStall(w, u)
  PROVE  BooksInv'
<1>1. /\ \A out : ListingsAt(out)' = ListingsAt(out)
      /\ \A o : ListingsOf(o)' = ListingsOf(o)
      /\ \A o, out : CallsAt(o, out)' = CallsAt(o, out)
  BY DEF OpenStall, ListingsAt, ListingsOf, CallsAt
<1>2. ListingTotalsMatch'
  BY <1>1 DEF BooksInv, ListingTotalsMatch, OpenStall, TypeOK, Market
<1>3. ListingsOf(w) = {} /\ \A out : CallsAt(w, out) = {}
  BY DEF OpenStall, TypeOK, ListingsOf, CallsAt
<1>4. /\ DOMAIN stalls' = (DOMAIN stalls) \cup {w}
      /\ stalls'[w] = NewStall(market.stall_bond_amount, u)
      /\ \A o \in DOMAIN stalls : stalls'[o] = stalls[o]
  BY DEF OpenStall, Created
<1>5. REPUTATION_STEP * (0 - 0) = 0
  BY LimitsAssumption
<1>6. CountersMatchListings'
  <2>1. ASSUME NEW o \in DOMAIN stalls', o # w
        PROVE  /\ o \in DOMAIN stalls /\ stalls'[o] = stalls[o]
               /\ ListingsOf(o)' = ListingsOf(o)
               /\ \A out : CallsAt(o, out)' = CallsAt(o, out)
    BY <1>1, <1>4, <2>1
  <2>2. /\ Cardinality(ListingsOf(w)') = 0
        /\ \A out : Cardinality(CallsAt(w, out)') = 0
    BY <1>1, <1>3, FS_EmptySet
  <2>3. /\ stalls'[w].listings_count = 0 /\ stalls'[w].active_listings = 0
        /\ stalls'[w].resolved_wins = 0 /\ stalls'[w].resolved_losses = 0
        /\ stalls'[w].reputation = 0
    BY <1>4 DEF NewStall
  <2>4. QED
    BY <1>5, <2>1, <2>2, <2>3 DEF BooksInv, CountersMatchListings
<1>7. QED
  BY <1>2, <1>6 DEF BooksInv, OpenStall, TypeOK, Market

LEMMA BooksListed ==
  ASSUME TypeOK, BooksInv, NEW w \in Wallets, NEW m \in Mints, NEW s \in Scores,
         NEW h \in ThesisHashes, ListRelic(w, m, s, h)
  PROVE  BooksInv'
<1> DEFINE k == <<w, m>>
<1>1. /\ k \notin DOMAIN listings /\ NewListing(s, h).outcome = "Pending"
      /\ listings' = Created(listings, k, NewListing(s, h))
  BY DEF ListRelic, NewListing
<1>2. k[1] = w
  OBVIOUS
<1>3. /\ DOMAIN stalls' = DOMAIN stalls /\ w \in DOMAIN stalls
      /\ stalls'[w] = StallListed(stalls[w])
      /\ \A o \in DOMAIN stalls : o # w => stalls'[o] = stalls[o]
  BY DEF ListRelic, TypeOK
<1>4. ListingTotalsMatch'
  BY <1>1, ListedCounts, PartsFinite
     DEF BooksInv, ListingTotalsMatch, ListRelic, TypeOK, Market
<1>5. ASSUME NEW o \in DOMAIN stalls
      PROVE  /\ stalls'[o].listings_count  = Cardinality(ListingsOf(o)')
             /\ stalls'[o].active_listings = Cardinality(CallsAt(o, "Pending")')
             /\ stalls'[o].resolved_wins   = Cardinality(CallsAt(o, "Survived")')
             /\ stalls'[o].resolved_losses = Cardinality(CallsAt(o, "Faded")')
             /\ stalls'[o].reputation =
                  REPUTATION_STEP * (stalls'[o].resolved_wins - stalls'[o].resolved_losses)
  <2>1. /\ Cardinality(ListingsOf(o)') =
             Cardinality(ListingsOf(o)) + (IF o = w THEN 1 ELSE 0)
        /\ Cardinality(CallsAt(o, "Pending")') =
             Cardinality(CallsAt(o, "Pending")) + (IF o = w THEN 1 ELSE 0)
        /\ Cardinality(CallsAt(o, "Survived")') = Cardinality(CallsAt(o, "Survived")) + 0
        /\ Cardinality(CallsAt(o, "Faded")') = Cardinality(CallsAt(o, "Faded")) + 0
    BY <1>1, <1>2, ListedCounts DEF BooksInv
  <2>2. stalls[o] \in Stall
    BY DEF TypeOK
  <2>3. CASE o = w
    <3>1. /\ stalls'[o].listings_count = stalls[o].listings_count + 1
          /\ stalls'[o].active_listings = stalls[o].active_listings + 1
          /\ stalls'[o].resolved_wins = stalls[o].resolved_wins
          /\ stalls'[o].resolved_losses = stalls[o].resolved_losses
          /\ stalls'[o].reputation = stalls[o].reputation
      BY <1>3, <2>2, <2>3 DEF StallListed, Stall
    <3>2. QED
      BY <2>1, <2>3, <3>1, PartsFinite DEF BooksInv, CountersMatchListings
  <2>4. CASE o # w
    BY <1>3, <2>1, <2>2, <2>4, PartsFinite DEF BooksInv, CountersMatchListings, Stall
  <2>5. QED
    BY <2>3, <2>4
<1>6. CountersMatchListings'
  BY <1>3, <1>5 DEF CountersMatchListings
<1>7. IsFiniteSet(DOMAIN listings')
  BY <1>1, ListedCounts DEF BooksInv
<1>8. QED
  BY <1>4, <1>6, <1>7 DEF BooksInv, ListRelic, TypeOK, Market

\* The counters of the one stall o, as CountersMatchListings states them.
CountersMatch(o) ==
  /\ stalls[o].listings_count  = Cardinality(ListingsOf(o))
  /\ stalls[o].active_listings = Cardinality(CallsAt(o, "Pending"))
  /\ stalls[o].resolved_wins   = Cardinality(CallsAt(o, "Survived"))
  /\ stalls[o].resolved_losses = Cardinality(CallsAt(o, "Faded"))
  /\ stalls[o].reputation =
       REPUTATION_STEP * (stalls[o].resolved_wins - stalls[o].resolved_losses)

LEMMA CountersSplit == CountersMatchListings <=> \A o \in DOMAIN stalls : CountersMatch(o)
BY DEF CountersMatchListings, CountersMatch

\* Settling a pending call: the counters of its stall when it is withdrawn, ...
LEMMA WithdrawnCounters ==
  ASSUME TypeOK, BooksInv, NEW k \in DOMAIN listings, listings[k].outcome = "Pending",
         listings' = [listings EXCEPT ![k] = ListingSettled(@, "Withdrawn")],
         NEW o \in DOMAIN stalls, stalls'[o] = StallSettled(stalls[o]), o = k[1]
  PROVE  CountersMatch(o)'
<1>0. IsFiniteSet(DOMAIN listings) /\ listings[k] \in Listing
      /\ "Withdrawn" \in Outcomes \ {"Pending"}
  BY DEF BooksInv, TypeOK
<1>1. /\ ListingsOf(o)' = ListingsOf(o)
      /\ Cardinality(CallsAt(o, "Pending")') = Cardinality(CallsAt(o, "Pending")) - 1
      /\ Cardinality(CallsAt(o, "Survived")') = Cardinality(CallsAt(o, "Survived"))
      /\ Cardinality(CallsAt(o, "Faded")') = Cardinality(CallsAt(o, "Faded"))
  <2>1. \A out : Cardinality(CallsAt(o, out)') =
                   Cardinality(CallsAt(o, out)) + Moved(out, "Withdrawn")
    <3>1. \A out : Cardinality(CallsAt(k[1], out)') =
                     Cardinality(CallsAt(k[1], out)) + Moved(out, "Withdrawn")
      BY <1>0, SettledCounts
    <3>2. QED
      BY <3>1
  <2>2. /\ Moved("Pending", "Withdrawn") = -1
        /\ Moved("Survived", "Withdrawn") = 0
        /\ Moved("Faded", "Withdrawn") = 0
    BY DEF Moved
  <2>3. ListingsOf(o)' = ListingsOf(o)
    BY <1>0, SettledCounts
  <2>4. QED
    BY <2>1, <2>2, <2>3, PartsFinite DEF BooksInv
<1>2. stalls[o] \in Stall /\ CountersMatch(o)
  BY CountersSplit DEF TypeOK, BooksInv
<1>3. stalls[o].active_listings >= 1
  BY <1>2, PendingCounted DEF BooksInv, CountersMatch, CallsAt, ListingsOf, ListingsAt
<1>4. /\ stalls'[o].active_listings = stalls[o].active_listings - 1
      /\ stalls'[o].listings_count = stalls[o].listings_count
      /\ stalls'[o].resolved_wins = stalls[o].resolved_wins
      /\ stalls'[o].resolved_losses = stalls[o].resolved_losses
      /\ stalls'[o].reputation = stalls[o].reputation
  BY <1>2, <1>3 DEF StallSettled, SaturatingSub, Stall
<1>5. QED
  BY <1>1, <1>2, <1>4 DEF CountersMatch

\* ... and when it is graded.
LEMMA GradedCounters ==
  ASSUME TypeOK, BooksInv, NEW k \in DOMAIN listings, listings[k].outcome = "Pending",
         NEW end \in Graded,
         listings' = [listings EXCEPT ![k] = ListingSettled(@, end)],
         NEW o \in DOMAIN stalls, stalls'[o] = StallGraded(stalls[o], end), o = k[1]
  PROVE  CountersMatch(o)'
<1>0. /\ IsFiniteSet(DOMAIN listings) /\ listings[k] \in Listing
      /\ end \in Outcomes \ {"Pending"}
  BY DEF BooksInv, TypeOK
<1>1. /\ ListingsOf(o)' = ListingsOf(o)
      /\ \A out : Cardinality(CallsAt(o, out)') =
                   Cardinality(CallsAt(o, out)) + Moved(out, end)
  <2>1. ListingsOf(o)' = ListingsOf(o)
    BY <1>0, SettledCounts
  <2>2. \A out : Cardinality(CallsAt(k[1], out)') =
                   Cardinality(CallsAt(k[1], out)) + Moved(out, end)
    BY <1>0, SettledCounts
  <2>3. QED
    BY <2>1, <2>2
<1>2. stalls[o] \in Stall /\ CountersMatch(o)
  BY CountersSplit DEF TypeOK, BooksInv
<1>3. stalls[o].active_listings >= 1
  BY <1>2, PendingCounted DEF BooksInv, CountersMatch, CallsAt, ListingsOf, ListingsAt
<1>4. /\ Cardinality(CallsAt(o, "Pending")) \in Nat
      /\ Cardinality(CallsAt(o, "Survived")) \in Nat
      /\ Cardinality(CallsAt(o, "Faded")) \in Nat
  BY PartsFinite DEF BooksInv
<1>5. CASE end = "Survived"
  <2>1. /\ Moved("Pending", end) = -1 /\ Moved("Survived", end) = 1
        /\ Moved("Faded", end) = 0
    BY <1>5 DEF Moved
  <2>2. /\ stalls'[o].active_listings = stalls[o].active_listings - 1
        /\ stalls'[o].listings_count = stalls[o].listings_count
        /\ stalls'[o].resolved_wins = stalls[o].resolved_wins + 1
        /\ stalls'[o].resolved_losses = stalls[o].resolved_losses
        /\ stalls'[o].reputation = stalls[o].reputation + REPUTATION_STEP
    BY <1>2, <1>3, <1>5 DEF StallGraded, StallSettled, SaturatingSub, Stall
  <2>3. stalls'[o].reputation =
          REPUTATION_STEP * ((stalls[o].resolved_wins - stalls[o].resolved_losses) + 1)
    BY <1>2, <2>2, StepTimes DEF CountersMatch, Stall
  <2>4. (stalls[o].resolved_wins - stalls[o].resolved_losses) + 1
          = stalls'[o].resolved_wins - stalls'[o].resolved_losses
    BY <1>2, <2>2 DEF Stall
  <2>5. QED
    BY <1>1, <1>2, <1>4, <2>1, <2>2, <2>3, <2>4 DEF CountersMatch
<1>6. CASE end = "Faded"
  <2>1. /\ Moved("Pending", end) = -1 /\ Moved("Faded", end) = 1
        /\ Moved("Survived", end) = 0
    BY <1>6 DEF Moved
  <2>2. /\ stalls'[o].active_listings = stalls[o].active_listings - 1
        /\ stalls'[o].listings_count = stalls[o].listings_count
        /\ stalls'[o].resolved_wins = stalls[o].resolved_wins
        /\ stalls'[o].resolved_losses = stalls[o].resolved_losses + 1
        /\ stalls'[o].reputation = stalls[o].reputation - REPUTATION_STEP
    BY <1>2, <1>3, <1>6 DEF StallGraded, StallSettled, SaturatingSub, Stall
  <2>3. stalls'[o].reputation =
          REPUTATION_STEP * ((stalls[o].resolved_wins - stalls[o].resolved_losses) - 1)
    BY <1>2, <2>2, StepTimes DEF CountersMatch, Stall
  <2>4. (stalls[o].resolved_wins - stalls[o].resolved_losses) - 1
          = stalls'[o].resolved_wins - stalls'[o].resolved_losses
    BY <1>2, <2>2 DEF Stall
  <2>5. QED
    BY <1>1, <1>2, <1>4, <2>1, <2>2, <2>3, <2>4 DEF CountersMatch
<1>7. QED
  BY <1>5, <1>6

\* The other stalls keep their counters and their listings.
LEMMA OthersSettled ==
  ASSUME TypeOK, BooksInv, NEW k \in DOMAIN listings, listings[k].outcome = "Pending",
         NEW end \in Outcomes \ {"Pending"},
         listings' = [listings EXCEPT ![k] = ListingSettled(@, end)],
         NEW o \in DOMAIN stalls, stalls'[o] = stalls[o], o # k[1]
  PROVE  CountersMatch(o)'
<1>0. IsFiniteSet(DOMAIN listings) /\ listings[k] \in Listing
  BY DEF BooksInv, TypeOK
<1>1. ListingsOf(o)' = ListingsOf(o) /\ \A out : CallsAt(o, out)' = CallsAt(o, out)
  BY <1>0, SettledCounts
<1>2. CountersMatch(o)
  BY CountersSplit DEF BooksInv
<1>3. QED
  BY <1>1, <1>2 DEF CountersMatch

LEMMA BooksResolved ==
  ASSUME TypeOK, BooksInv, NEW x, NEW w \in Wallets, NEW m \in Mints,
         NEW out \in Outcomes, ResolveListing(x, w, m, out)
  PROVE  BooksInv'
<1> DEFINE k == <<w, m>>
<1>1. /\ k \in DOMAIN listings /\ listings[k].outcome = "Pending" /\ k[1] = w
      /\ w \in DOMAIN stalls /\ out \in Graded
      /\ listings' = [listings EXCEPT ![k] = ListingSettled(@, out)]
      /\ DOMAIN stalls' = DOMAIN stalls
      /\ stalls'[w] = StallGraded(stalls[w], out)
      /\ \A o \in DOMAIN stalls : o # w => stalls'[o] = stalls[o]
      /\ market' = MarketGraded(out)
  BY DEF ResolveListing, TypeOK
<1>2. CountersMatchListings'
  <2>1. out \in Outcomes \ {"Pending"}
    BY <1>1
  <2>2. ASSUME NEW o \in DOMAIN stalls PROVE CountersMatch(o)'
    <3>1. CASE o = w
      BY <1>1, <3>1, GradedCounters
    <3>2. CASE o # w
      BY <1>1, <2>1, <3>2, OthersSettled
    <3>3. QED
      BY <3>1, <3>2
  <2>3. QED
    BY <1>1, <2>2 DEF CountersMatchListings, CountersMatch
<1>3. /\ DOMAIN listings' = DOMAIN listings
      /\ \A end : Cardinality(ListingsAt(end)') = Cardinality(ListingsAt(end)) + Moved(end, out)
  BY <1>1, SettledCounts DEF BooksInv, TypeOK
<1>4. /\ Cardinality(ListingsAt("Survived")) \in Nat
      /\ Cardinality(ListingsAt("Faded")) \in Nat
  BY PartsFinite DEF BooksInv
<1>5. ListingTotalsMatch'
  <2>1. CASE out = "Survived"
    <3>1. Moved("Survived", out) = 1 /\ Moved("Faded", out) = 0
      BY <2>1 DEF Moved
    <3>2. /\ market'.total_listings = market.total_listings
          /\ market'.total_resolved_wins = market.total_resolved_wins + 1
          /\ market'.total_resolved_losses = market.total_resolved_losses
      BY <1>1, <2>1 DEF MarketGraded, TypeOK, Market
    <3>3. QED
      BY <1>3, <1>4, <3>1, <3>2 DEF BooksInv, ListingTotalsMatch
  <2>2. CASE out = "Faded"
    <3>1. Moved("Survived", out) = 0 /\ Moved("Faded", out) = 1
      BY <2>2 DEF Moved
    <3>2. /\ market'.total_listings = market.total_listings
          /\ market'.total_resolved_wins = market.total_resolved_wins
          /\ market'.total_resolved_losses = market.total_resolved_losses + 1
      BY <1>1, <2>2 DEF MarketGraded, TypeOK, Market
    <3>3. QED
      BY <1>3, <1>4, <3>1, <3>2 DEF BooksInv, ListingTotalsMatch
  <2>3. QED
    BY <1>1, <2>1, <2>2
<1>6. market'.initialized = market.initialized
  BY <1>1 DEF MarketGraded, TypeOK, Market
<1>7. QED
  BY <1>1, <1>2, <1>3, <1>5, <1>6 DEF BooksInv

LEMMA BooksWithdrawn ==
  ASSUME TypeOK, BooksInv, NEW w \in Wallets, NEW m \in Mints, WithdrawListing(w, m)
  PROVE  BooksInv'
<1> DEFINE k == <<w, m>>
<1>1. /\ k \in DOMAIN listings /\ listings[k].outcome = "Pending" /\ k[1] = w
      /\ w \in DOMAIN stalls
      /\ listings' = [listings EXCEPT ![k] = ListingSettled(@, "Withdrawn")]
      /\ DOMAIN stalls' = DOMAIN stalls
      /\ stalls'[w] = StallSettled(stalls[w])
      /\ \A o \in DOMAIN stalls : o # w => stalls'[o] = stalls[o]
      /\ market' = market
  BY DEF WithdrawListing, TypeOK
<1>2. CountersMatchListings'
  <2>1. "Withdrawn" \in Outcomes \ {"Pending"}
    OBVIOUS
  <2>2. ASSUME NEW o \in DOMAIN stalls PROVE CountersMatch(o)'
    <3>1. CASE o = w
      BY <1>1, <3>1, WithdrawnCounters
    <3>2. CASE o # w
      BY <1>1, <2>1, <3>2, OthersSettled
    <3>3. QED
      BY <3>1, <3>2
  <2>3. QED
    BY <1>1, <2>2 DEF CountersMatchListings, CountersMatch
<1>3. /\ DOMAIN listings' = DOMAIN listings
      /\ \A end : Cardinality(ListingsAt(end)') =
                   Cardinality(ListingsAt(end)) + Moved(end, "Withdrawn")
  BY <1>1, SettledCounts DEF BooksInv, TypeOK
<1>4. /\ Cardinality(ListingsAt("Survived")) \in Nat
      /\ Cardinality(ListingsAt("Faded")) \in Nat
  BY PartsFinite DEF BooksInv
<1>5. ListingTotalsMatch'
  BY <1>1, <1>3, <1>4 DEF BooksInv, ListingTotalsMatch, Moved
<1>6. QED
  BY <1>1, <1>2, <1>3, <1>5 DEF BooksInv

LEMMA BooksStep == TypeOK /\ BooksInv /\ [Next]_vars => BooksInv'
<1> SUFFICES ASSUME TypeOK, BooksInv, [Next]_vars PROVE BooksInv'
  OBVIOUS
<1>1. ASSUME NEW w \in Wallets, NEW b \in BondAmounts, NEW s \in BpsChoices,
             NEW f \in BpsChoices, InitializeMarket(w, b, s, f)
      PROVE  BooksInv'
  <2>1. /\ DOMAIN stalls = {} /\ DOMAIN listings = {}
        /\ stalls' = stalls /\ listings' = listings
        /\ market'.initialized /\ market'.total_listings = 0
        /\ market'.total_resolved_wins = 0 /\ market'.total_resolved_losses = 0
    BY <1>1 DEF InitializeMarket, BooksInv
  <2>2. \A out : ListingsAt(out)' = {}
    BY <2>1 DEF ListingsAt
  <2>3. ListingTotalsMatch'
    BY <2>1, <2>2, FS_EmptySet DEF ListingTotalsMatch
  <2>4. QED
    BY <2>1, <2>3 DEF BooksInv, CountersMatchListings
<1>2. ASSUME NEW w \in Wallets, NEW u \in Uris, OpenStall(w, u) PROVE BooksInv'
  BY <1>2, BooksOpened
<1>3. ASSUME NEW w \in Wallets, NEW m \in Mints, NEW s \in Scores,
             NEW h \in ThesisHashes, ListRelic(w, m, s, h)
      PROVE  BooksInv'
  BY <1>3, BooksListed
<1>4. ASSUME NEW w \in Wallets, NEW o \in Wallets, NEW m \in Mints,
             NEW out \in Outcomes, ResolveListing(w, o, m, out)
      PROVE  BooksInv'
  BY <1>4, BooksResolved
<1>5. ASSUME NEW w \in Wallets, NEW m \in Mints, WithdrawListing(w, m) PROVE BooksInv'
  BY <1>5, BooksWithdrawn
<1>6. ASSUME NEW w \in Wallets, NEW u \in Uris, SetStallUri(w, u) PROVE BooksInv'
  <2>1. \A o \in DOMAIN stalls : CounterFields(stalls'[o]) = CounterFields(stalls[o])
    BY <1>6 DEF SetStallUri, TypeOK, Stall, CounterFields
  <2>2. QED
    BY <1>6, <2>1, BooksUntouched DEF SetStallUri, TypeOK
<1>7. ASSUME NEW w \in Wallets, CloseStall(w) PROVE BooksInv'
  <2>1. \A o \in DOMAIN stalls : CounterFields(stalls'[o]) = CounterFields(stalls[o])
    BY <1>7 DEF CloseStall, StallClosed, TypeOK, Stall, CounterFields
  <2>2. market' = [market EXCEPT !.total_stalls = @ - 1] /\ DOMAIN stalls' = DOMAIN stalls
    BY <1>7 DEF CloseStall, TypeOK
  <2>3. QED
    BY <1>7, <2>1, <2>2, BooksUntouched DEF CloseStall, TypeOK, Market
<1>8. ASSUME NEW w \in Wallets, NEW o \in Wallets, SlashStall(w, o) PROVE BooksInv'
  <2>1. \A p \in DOMAIN stalls : CounterFields(stalls'[p]) = CounterFields(stalls[p])
    BY <1>8 DEF SlashStall, StallSlashed, TypeOK, Stall, CounterFields
  <2>2. /\ market'.initialized = market.initialized
        /\ market'.total_listings = market.total_listings
        /\ market'.total_resolved_wins = market.total_resolved_wins
        /\ market'.total_resolved_losses = market.total_resolved_losses
        /\ DOMAIN stalls' = DOMAIN stalls /\ listings' = listings
    BY <1>8 DEF SlashStall, TypeOK, Market
  <2>3. QED
    BY <2>1, <2>2, BooksUntouched
<1>9. ASSUME NEW w \in Wallets, SendToVault(w, 1) PROVE BooksInv'
  BY <1>9, BooksUntouched DEF SendToVault
<1>10. CASE Tick
  BY <1>10, BooksUntouched DEF Tick
<1>11. CASE UNCHANGED vars
  BY <1>11, BooksUntouched DEF vars
<1>12. QED
  BY <1>1, <1>2, <1>3, <1>4, <1>5, <1>6, <1>7, <1>8, <1>9, <1>10, <1>11 DEF Next

LEMMA BooksInvariant == Spec => []BooksInv
<1>1. Init => BooksInv
  <2> SUFFICES ASSUME Init PROVE BooksInv
    OBVIOUS
  <2>1. DOMAIN stalls = {} /\ DOMAIN listings = {}
    BY DEF Init
  <2>2. \A out : ListingsAt(out) = {}
    BY <2>1 DEF ListingsAt
  <2>3. QED
    BY <2>1, <2>2, FS_EmptySet DEF Init, BooksInv, CountersMatchListings, ListingTotalsMatch
<1>2. QED
  BY <1>1, BooksStep, TypeCorrect, PTL DEF Spec

\* A stall's published counters are always the counts of its listing accounts, and
\* its reputation what its graded listings add up to, however many there are.
THEOREM CountersCorrect == Spec => []CountersMatchListings
<1>1. BooksInv => CountersMatchListings
  BY DEF BooksInv
<1>2. QED
  BY <1>1, BooksInvariant, PTL

-----------------------------------------------------------------------------
(* The escrow *)

\* The inductive form of EscrowCovered and of the count of open stalls.  The bond
\* amount is positive once the market exists, which is what makes a stall's
\* bond_amount tell whether its bond is in escrow.
EscrowInv ==
  /\ market.initialized => market.stall_bond_amount > 0
  /\ ~market.initialized => market.total_bond_burned = 0 /\ DOMAIN stalls = {}
  /\ market.total_stalls = Cardinality(BondedStalls)
  /\ EscrowCovered
  /\ supply + market.total_bond_burned = InitialSupply

LEMMA BondTimes ==
  ASSUME NEW b \in Nat, NEW n \in Nat
  PROVE  /\ b * n \in Nat
         /\ b * (n + 1) = b * n + b
         /\ b * (n - 1) = b * n - b
         /\ n >= 1 => b * n >= b
OBVIOUS

LEMMA BondedFinite ==
  ASSUME TypeOK
  PROVE  IsFiniteSet(BondedStalls) /\ Cardinality(BondedStalls) \in Nat
<1>1. BondedStalls \in SUBSET Wallets
  BY DEF TypeOK, BondedStalls
<1>2. QED
  BY <1>1, FS_Subset, FS_CardinalityType, WalletsAssumption

EscrowFields(s) == <<s.bond_amount, s.slashed, s.closed_at>>

\* Steps that leave every bond where it is and take nothing out of the vault.
LEMMA EscrowUntouched ==
  ASSUME TypeOK, EscrowInv, DOMAIN stalls' = DOMAIN stalls,
         \A o \in DOMAIN stalls : EscrowFields(stalls'[o]) = EscrowFields(stalls[o]),
         market.initialized' = market.initialized,
         market'.stall_bond_amount = market.stall_bond_amount,
         market'.total_stalls = market.total_stalls,
         market'.total_bond_burned = market.total_bond_burned,
         supply' = supply, vault' \in Nat, vault' >= vault
  PROVE  EscrowInv'
<1>1. \A o \in DOMAIN stalls :
        /\ stalls'[o].bond_amount = stalls[o].bond_amount
        /\ stalls'[o].slashed = stalls[o].slashed
        /\ stalls'[o].closed_at = stalls[o].closed_at
  BY DEF EscrowFields
<1>2. BondedStalls' = BondedStalls
  BY <1>1 DEF BondedStalls
<1>3. vault \in Nat /\ market.stall_bond_amount \in Nat
  BY DEF TypeOK, Market
<1>4. market.stall_bond_amount * Cardinality(BondedStalls) \in Nat
  BY <1>3, BondTimes, BondedFinite
<1>5. EscrowCovered'
  BY <1>1, <1>2, <1>3, <1>4 DEF EscrowInv, EscrowCovered
<1>6. QED
  BY <1>2, <1>5 DEF EscrowInv

LEMMA EscrowOpened ==
  ASSUME TypeOK, EscrowInv, NEW w \in Wallets, NEW u \in Uris, OpenStall(w, u)
  PROVE  EscrowInv'
<1> DEFINE bond == market.stall_bond_amount
           n == Cardinality(BondedStalls)
<1>1. /\ market.initialized /\ bond \in Nat /\ bond > 0 /\ n \in Nat /\ vault \in Nat
      /\ now # 0
  BY BondedFinite, TokensAssumption DEF OpenStall, EscrowInv, TypeOK, Market
<1>2. /\ w \notin DOMAIN stalls
      /\ DOMAIN stalls' = (DOMAIN stalls) \cup {w}
      /\ stalls'[w] = NewStall(bond, u)
      /\ \A o \in DOMAIN stalls : stalls'[o] = stalls[o]
  BY DEF OpenStall, Created
<1>3. stalls'[w].bond_amount = bond /\ ~stalls'[w].slashed /\ stalls'[w].closed_at = 0
  BY <1>2 DEF NewStall
<1>4. BondedStalls' = BondedStalls \cup {w} /\ w \notin BondedStalls
  BY <1>1, <1>2, <1>3 DEF BondedStalls
<1>5. Cardinality(BondedStalls') = n + 1
  BY <1>4, BondedFinite, CountAdded
<1>6. /\ market' = [market EXCEPT !.total_stalls = @ + 1]
      /\ vault' = vault + Received(bond) /\ supply' = supply
  BY DEF OpenStall
<1>7. /\ market'.initialized /\ market'.stall_bond_amount = bond
      /\ market'.total_stalls = market.total_stalls + 1
      /\ market'.total_bond_burned = market.total_bond_burned
  BY <1>1, <1>6 DEF TypeOK, Market
<1>8. TransferFee = 0 => vault' >= bond * Cardinality(BondedStalls')
  BY <1>1, <1>5, <1>6, BondTimes, ReceivedType DEF EscrowInv, EscrowCovered
<1>9. EscrowCovered'
  BY <1>2, <1>3, <1>4, <1>7, <1>8 DEF EscrowInv, EscrowCovered
<1>10. QED
  BY <1>1, <1>5, <1>6, <1>7, <1>9 DEF EscrowInv

\* A bond leaves the escrow, paid out of the vault in one or two parts.
LEMMA EscrowReleased ==
  ASSUME TypeOK, EscrowInv, NEW o \in DOMAIN stalls, stalls[o].bond_amount > 0,
         DOMAIN stalls' = DOMAIN stalls,
         \A p \in DOMAIN stalls : p # o => stalls'[p] = stalls[p],
         stalls'[o].bond_amount = 0,
         stalls'[o].slashed \/ stalls'[o].closed_at # 0,
         market.initialized, market'.initialized,
         market'.stall_bond_amount = market.stall_bond_amount,
         market'.total_stalls = SaturatingSub(market.total_stalls, 1),
         vault' = vault - stalls[o].bond_amount,
         supply' + market'.total_bond_burned = supply + market.total_bond_burned
  PROVE  EscrowInv'
<1> DEFINE bond == market.stall_bond_amount
           n == Cardinality(BondedStalls)
<1>1. o \in BondedStalls /\ bond \in Nat /\ n \in Nat /\ vault \in Nat
  BY BondedFinite DEF BondedStalls, TypeOK, Market
<1>2. stalls[o].bond_amount = bond
  BY <1>1 DEF EscrowInv, EscrowCovered
<1>3. BondedStalls' = BondedStalls \ {o}
  BY DEF BondedStalls
<1>4. Cardinality(BondedStalls') = n - 1 /\ Cardinality(BondedStalls') \in Nat
  <2>1. Cardinality(BondedStalls \ {o}) = n - 1
    BY <1>1, BondedFinite, CountRemoved
  <2>2. Cardinality(BondedStalls \ {o}) \in Nat
    BY BondedFinite, FS_RemoveElement, FS_CardinalityType
  <2>3. QED
    BY <1>3, <2>1, <2>2
<1>5. n >= 1
  BY <1>1, <1>4
<1>6. market'.total_stalls = n - 1
  BY <1>1, <1>5 DEF EscrowInv, SaturatingSub
<1>7. TransferFee = 0 => vault' >= bond * Cardinality(BondedStalls')
  <2>1. bond * (n - 1) = bond * n - bond /\ bond * n \in Nat
    BY <1>1, BondTimes
  <2>2. TransferFee = 0 => vault >= bond * n
    BY DEF EscrowInv, EscrowCovered
  <2>3. QED
    BY <1>1, <1>2, <1>4, <2>1, <2>2
<1>8. EscrowCovered'
  BY <1>3, <1>7 DEF EscrowInv, EscrowCovered
<1>9. QED
  BY <1>4, <1>6, <1>8 DEF EscrowInv

LEMMA EscrowStep == TypeOK /\ EscrowInv /\ [Next]_vars => EscrowInv'
<1> SUFFICES ASSUME TypeOK, EscrowInv, [Next]_vars PROVE EscrowInv'
  OBVIOUS
<1>1. ASSUME NEW w \in Wallets, NEW b \in BondAmounts, NEW s \in BpsChoices,
             NEW f \in BpsChoices, InitializeMarket(w, b, s, f)
      PROVE  EscrowInv'
  <2>1. /\ market'.initialized /\ market'.stall_bond_amount > 0
        /\ market'.total_stalls = 0 /\ market'.total_bond_burned = 0
        /\ market.total_bond_burned = 0 /\ supply' = supply
        /\ DOMAIN stalls = {} /\ stalls' = stalls /\ vault' = vault
        /\ market'.stall_bond_amount \in Nat /\ vault \in Nat
    BY <1>1, InputsAssumption, LimitsAssumption DEF InitializeMarket, EscrowInv, TypeOK
  <2>2. BondedStalls' = {} /\ Cardinality(BondedStalls') = 0
    BY <2>1, FS_EmptySet DEF BondedStalls
  <2>3. EscrowCovered'
    BY <2>1, <2>2 DEF EscrowCovered
  <2>4. QED
    BY <2>1, <2>2, <2>3 DEF EscrowInv
<1>2. ASSUME NEW w \in Wallets, NEW u \in Uris, OpenStall(w, u) PROVE EscrowInv'
  BY <1>2, EscrowOpened
<1>3. ASSUME NEW w \in Wallets, NEW m \in Mints, NEW s \in Scores,
             NEW h \in ThesisHashes, ListRelic(w, m, s, h)
      PROVE  EscrowInv'
  <2>1. \A o \in DOMAIN stalls : EscrowFields(stalls'[o]) = EscrowFields(stalls[o])
    BY <1>3 DEF ListRelic, StallListed, TypeOK, Stall, EscrowFields
  <2>2. market' = [market EXCEPT !.total_listings = @ + 1] /\ DOMAIN stalls' = DOMAIN stalls
        /\ supply' = supply /\ vault' = vault /\ vault \in Nat
    BY <1>3 DEF ListRelic, TypeOK
  <2>3. QED
    BY <2>1, <2>2, EscrowUntouched DEF TypeOK, Market
<1>4. ASSUME NEW w \in Wallets, NEW o \in Wallets, NEW m \in Mints,
             NEW out \in Outcomes, ResolveListing(w, o, m, out)
      PROVE  EscrowInv'
  <2>1. \A p \in DOMAIN stalls : EscrowFields(stalls'[p]) = EscrowFields(stalls[p])
    BY <1>4 DEF ResolveListing, StallGraded, StallSettled, TypeOK, Stall, EscrowFields
  <2>2. /\ DOMAIN stalls' = DOMAIN stalls
        /\ supply' = supply /\ vault' = vault /\ vault \in Nat
        /\ market'.initialized = market.initialized
        /\ market'.stall_bond_amount = market.stall_bond_amount
        /\ market'.total_stalls = market.total_stalls
        /\ market'.total_bond_burned = market.total_bond_burned
    BY <1>4 DEF ResolveListing, MarketGraded, TypeOK, Market
  <2>3. QED
    BY <2>1, <2>2, EscrowUntouched
<1>5. ASSUME NEW w \in Wallets, NEW m \in Mints, WithdrawListing(w, m) PROVE EscrowInv'
  <2>1. \A p \in DOMAIN stalls : EscrowFields(stalls'[p]) = EscrowFields(stalls[p])
    BY <1>5 DEF WithdrawListing, StallSettled, TypeOK, Stall, EscrowFields
  <2>2. QED
    BY <1>5, <2>1, EscrowUntouched DEF WithdrawListing, TypeOK
<1>6. ASSUME NEW w \in Wallets, NEW u \in Uris, SetStallUri(w, u) PROVE EscrowInv'
  <2>1. \A p \in DOMAIN stalls : EscrowFields(stalls'[p]) = EscrowFields(stalls[p])
    BY <1>6 DEF SetStallUri, TypeOK, Stall, EscrowFields
  <2>2. QED
    BY <1>6, <2>1, EscrowUntouched DEF SetStallUri, TypeOK
<1>7. ASSUME NEW w \in Wallets, CloseStall(w) PROVE EscrowInv'
  <2>1. /\ w \in DOMAIN stalls /\ stalls[w] \in Stall /\ stalls[w].bond_amount > 0
        /\ stalls' = [stalls EXCEPT ![w] = StallClosed(@)]
        /\ vault' = vault - stalls[w].bond_amount /\ supply' = supply
        /\ market' = [market EXCEPT !.total_stalls = @ - 1]
        /\ market.total_stalls >= 1
    BY <1>7 DEF CloseStall, Closable, CloseFits, TypeOK
  <2>2. /\ DOMAIN stalls' = DOMAIN stalls
        /\ \A p \in DOMAIN stalls : p # w => stalls'[p] = stalls[p]
        /\ stalls'[w].bond_amount = 0 /\ stalls'[w].closed_at # 0
    <3>1. now # 0
      BY TokensAssumption DEF TypeOK
    <3>2. /\ DOMAIN stalls' = DOMAIN stalls /\ stalls'[w] = StallClosed(stalls[w])
          /\ \A p \in DOMAIN stalls : p # w => stalls'[p] = stalls[p]
      BY <2>1 DEF TypeOK
    <3>3. StallClosed(stalls[w]).bond_amount = 0 /\ StallClosed(stalls[w]).closed_at = now
      BY <2>1 DEF StallClosed, Stall
    <3>4. QED
      BY <3>1, <3>2, <3>3
  <2>3. market.initialized
    BY <2>1 DEF EscrowInv
  <2>4. /\ market'.initialized /\ market'.stall_bond_amount = market.stall_bond_amount
        /\ market'.total_stalls = SaturatingSub(market.total_stalls, 1)
        /\ supply' + market'.total_bond_burned = supply + market.total_bond_burned
    BY <2>1, <2>3 DEF TypeOK, Market, SaturatingSub
  <2>5. QED
    BY <2>1, <2>2, <2>3, <2>4, EscrowReleased
<1>8. ASSUME NEW w \in Wallets, NEW o \in Wallets, SlashStall(w, o) PROVE EscrowInv'
  <2> DEFINE burned == BurnOf(stalls[o].bond_amount, market.slash_bps)
  <2>1. /\ o \in DOMAIN stalls /\ stalls[o] \in Stall /\ stalls[o].bond_amount > 0
        /\ stalls' = [stalls EXCEPT ![o] = StallSlashed(@, burned)]
        /\ vault' = vault - stalls[o].bond_amount /\ supply' = supply - burned
        /\ market' = [market EXCEPT !.total_bond_burned = @ + burned,
                                    !.total_stalls = SaturatingSub(@, 1)]
        /\ market.initialized
    BY <1>8 DEF SlashStall, Slashable, TypeOK
  <2>2. burned \in Nat
    <3>1. stalls[o].bond_amount \in Nat /\ market.slash_bps \in Nat
      BY <2>1 DEF Stall, TypeOK, Market
    <3>2. QED
      BY <3>1, BurnType
  <2> HIDE DEF burned
  <2>3. /\ DOMAIN stalls' = DOMAIN stalls
        /\ \A p \in DOMAIN stalls : p # o => stalls'[p] = stalls[p]
        /\ stalls'[o].bond_amount = 0 /\ stalls'[o].slashed
    BY <2>1 DEF StallSlashed, Stall, TypeOK
  <2>4. /\ market'.initialized /\ market'.stall_bond_amount = market.stall_bond_amount
        /\ market'.total_stalls = SaturatingSub(market.total_stalls, 1)
        /\ supply' + market'.total_bond_burned = supply + market.total_bond_burned
    BY <2>1, <2>2 DEF TypeOK, Market
  <2>5. QED
    BY <2>1, <2>3, <2>4, EscrowReleased
<1>9. ASSUME NEW w \in Wallets, SendToVault(w, 1) PROVE EscrowInv'
  <2>1. vault \in Nat /\ vault' \in Nat /\ vault' >= vault
    BY <1>9, ReceivedType DEF SendToVault, TypeOK
  <2>2. QED
    BY <1>9, <2>1, EscrowUntouched DEF SendToVault
<1>10. CASE Tick
  BY <1>10, EscrowUntouched DEF Tick, TypeOK
<1>11. CASE UNCHANGED vars
  BY <1>11, EscrowUntouched DEF vars, TypeOK
<1>12. QED
  BY <1>1, <1>2, <1>3, <1>4, <1>5, <1>6, <1>7, <1>8, <1>9, <1>10, <1>11 DEF Next

LEMMA EscrowInvariant == Spec => []EscrowInv
<1>1. Init => EscrowInv
  <2> SUFFICES ASSUME Init PROVE EscrowInv
    OBVIOUS
  <2>1. /\ DOMAIN stalls = {} /\ vault = 0 /\ supply = InitialSupply
        /\ ~market.initialized /\ market.total_stalls = 0
        /\ market.total_bond_burned = 0 /\ market.stall_bond_amount = 0
    BY DEF Init
  <2>2. BondedStalls = {} /\ Cardinality(BondedStalls) = 0
    BY <2>1, FS_EmptySet DEF BondedStalls
  <2>3. EscrowCovered
    BY <2>1, <2>2 DEF EscrowCovered
  <2>4. QED
    BY <2>1, <2>2, <2>3, TokensAssumption DEF EscrowInv
<1>2. QED
  BY <1>1, EscrowStep, TypeCorrect, PTL DEF Spec

\* Every bond in escrow is the market's bond amount, in escrow exactly while its
\* stall is neither closed nor slashed, and the vault covers all of them at once if
\* the bond mint withholds nothing.
THEOREM EscrowCorrect == Spec => []EscrowCovered
<1>1. EscrowInv => EscrowCovered
  BY DEF EscrowInv
<1>2. QED
  BY <1>1, EscrowInvariant, PTL

\* The market's totals are the counts they claim to be.
THEOREM TotalsCorrect == Spec => []TotalsMatchAccounts
<1>1. BooksInv /\ EscrowInv => TotalsMatchAccounts
  BY DEF BooksInv, EscrowInv, ListingTotalsMatch, TotalsMatchAccounts
<1>2. QED
  BY <1>1, BooksInvariant, EscrowInvariant, PTL

-----------------------------------------------------------------------------
(* Grades are never stuck *)

\* Two disjoint parts of a finite set are together no larger than the whole.
LEMMA DisjointParts ==
  ASSUME NEW W, IsFiniteSet(W), NEW S \in SUBSET W, NEW T \in SUBSET W, S \cap T = {}
  PROVE  Cardinality(S) + Cardinality(T) <= Cardinality(W)
<1>1. IsFiniteSet(S) /\ IsFiniteSet(T)
  BY FS_Subset
<1>2. Cardinality(S \cup T) = Cardinality(S) + Cardinality(T) - Cardinality(S \cap T)
  BY <1>1, FS_Union
<1>3. Cardinality(S \cap T) = 0
  BY FS_EmptySet
<1>4. Cardinality(S \cup T) <= Cardinality(W)
  BY FS_Subset
<1>5. /\ Cardinality(S) \in Nat /\ Cardinality(T) \in Nat
      /\ Cardinality(W) \in Nat
  BY <1>1, FS_CardinalityType
<1>6. QED
  BY <1>2, <1>3, <1>4, <1>5

\* Repeated steps of a u32 count stay within the i64 reputation, in both directions.
LEMMA ReputationFits ==
  ASSUME NEW n \in Int, n <= U32_MAX
  PROVE  REPUTATION_STEP * n <= I64_MAX
<1>1. CASE n >= 0
  BY <1>1, WidthAssumption, LimitsAssumption
<1>2. CASE n < 0
  <2>1. \A a \in Nat : \A b \in Int : b < 0 => a * b <= 0
    OBVIOUS
  <2>2. QED
    BY <1>2, <2>1, LimitsAssumption
<1>3. QED
  BY <1>1, <1>2

LEMMA GradesFit == TypeOK /\ BooksInv => GradesNeverStuck
<1> SUFFICES ASSUME TypeOK, BooksInv,
                    NEW k \in ListingsAt("Pending"), NEW out \in Graded
             PROVE  GradeFits(stalls[k[1]], out)
  BY DEF GradesNeverStuck
<1> DEFINE o == k[1]
           s == stalls[o]
           pending == Cardinality(CallsAt(o, "Pending"))
<1>1. k \in DOMAIN listings /\ o \in DOMAIN stalls /\ k \in CallsAt(o, "Pending")
  BY DEF TypeOK, ListingsAt, ListingsOf, CallsAt
<1>2. s \in Stall /\ CountersMatch(o)
  BY <1>1, CountersSplit DEF TypeOK, BooksInv
<1>3. pending \in Nat /\ pending >= 1
  BY <1>1, PartsFinite, PendingCounted DEF BooksInv
<1>4. ASSUME NEW end \in Graded
      PROVE  /\ Cardinality(CallsAt(o, end)) + 1 <= U32_MAX
             /\ Cardinality(CallsAt(o, end)) \in Nat
             /\ Cardinality(ListingsAt(end)) + 1 <= U64_MAX
  <2>1. Cardinality(CallsAt(o, end)) + pending <= Cardinality(ListingsOf(o))
    <3>1. /\ CallsAt(o, end) \in SUBSET ListingsOf(o)
          /\ CallsAt(o, "Pending") \in SUBSET ListingsOf(o)
          /\ CallsAt(o, end) \cap CallsAt(o, "Pending") = {}
      BY DEF CallsAt, ListingsAt
    <3>2. QED
      BY <3>1, DisjointParts, PartsFinite DEF BooksInv
  <2>2. Cardinality(ListingsAt(end)) + Cardinality(ListingsAt("Pending"))
          <= Cardinality(DOMAIN listings)
    <3>1. /\ ListingsAt(end) \in SUBSET DOMAIN listings
          /\ ListingsAt("Pending") \in SUBSET DOMAIN listings
          /\ ListingsAt(end) \cap ListingsAt("Pending") = {}
      BY DEF ListingsAt
    <3>2. QED
      BY <3>1, DisjointParts DEF BooksInv
  <2>3. Cardinality(ListingsAt("Pending")) >= 1
    <3>1. CallsAt(o, "Pending") \in SUBSET ListingsAt("Pending")
      BY DEF CallsAt
    <3>2. pending <= Cardinality(ListingsAt("Pending"))
      BY <3>1, FS_Subset, PartsFinite DEF BooksInv
    <3>3. QED
      BY <1>3, <3>2, PartsFinite DEF BooksInv
  <2>4. /\ Cardinality(CallsAt(o, end)) \in Nat /\ Cardinality(ListingsOf(o)) \in Nat
        /\ Cardinality(ListingsAt(end)) \in Nat
        /\ Cardinality(ListingsAt("Pending")) \in Nat
        /\ Cardinality(DOMAIN listings) \in Nat
    BY PartsFinite, FS_CardinalityType DEF BooksInv
  <2>5. Cardinality(ListingsOf(o)) <= U32_MAX /\ Cardinality(DOMAIN listings) <= U64_MAX
    <3>1. s.listings_count \in 0..U32_MAX
      BY <1>2 DEF Stall
    <3>2. s.listings_count = Cardinality(ListingsOf(o))
      BY <1>2 DEF CountersMatch
    <3>3. market.total_listings \in 0..U64_MAX
      BY DEF BooksInv, TypeOK, Market
    <3>4. market.total_listings = Cardinality(DOMAIN listings)
      BY DEF BooksInv, ListingTotalsMatch
    <3>5. QED
      BY <3>1, <3>2, <3>3, <3>4, LimitsAssumption
  <2>6. QED
    BY <1>3, <2>1, <2>2, <2>3, <2>4, <2>5, LimitsAssumption
<1>5. /\ s.resolved_wins \in Nat /\ s.resolved_losses \in Nat
      /\ s.resolved_wins + 1 <= U32_MAX /\ s.resolved_losses + 1 <= U32_MAX
  BY <1>2, <1>4 DEF CountersMatch
<1> DEFINE net == s.resolved_wins - s.resolved_losses
<1>6. s.reputation = REPUTATION_STEP * net /\ net \in Int
  BY <1>2, <1>5 DEF CountersMatch
<1>7. s.reputation + REPUTATION_STEP <= I64_MAX
  <2> DEFINE up == net + 1
  <2>1. up \in Int /\ up <= U32_MAX
    BY <1>5, <1>6, LimitsAssumption
  <2>2. REPUTATION_STEP * (net + 1) = REPUTATION_STEP * net + REPUTATION_STEP
    <3> HIDE DEF net
    <3>1. QED
      BY <1>6, StepTimes
  <2>3. s.reputation + REPUTATION_STEP = REPUTATION_STEP * up
    BY <1>6, <2>2
  <2> HIDE DEF up
  <2>4. REPUTATION_STEP * up <= I64_MAX
    BY <2>1, ReputationFits
  <2>5. QED
    BY <2>3, <2>4
<1>8. s.reputation - REPUTATION_STEP >= -I64_MAX - 1
  <2> DEFINE down == 1 - net
  <2>1. s.reputation - REPUTATION_STEP = REPUTATION_STEP * (net - 1)
    BY <1>6, StepTimes
  <2>2. down \in Int /\ down <= U32_MAX /\ net - 1 = -down
    BY <1>5, <1>6, LimitsAssumption
  <2>3. \A a \in Nat : \A b \in Int : a * (-b) = -(a * b)
    OBVIOUS
  <2> HIDE DEF down, net
  <2>4. REPUTATION_STEP * (net - 1) = -(REPUTATION_STEP * down)
    BY <2>2, <2>3, LimitsAssumption
  <2>5. REPUTATION_STEP * down <= I64_MAX /\ REPUTATION_STEP * down \in Int
    BY <2>2, ReputationFits, StepTimes
  <2>6. QED
    BY <2>1, <2>4, <2>5, LimitsAssumption
<1>9. /\ market.total_resolved_wins + 1 <= U64_MAX
      /\ market.total_resolved_losses + 1 <= U64_MAX
  BY <1>4 DEF BooksInv, ListingTotalsMatch
<1>10. QED
  BY <1>5, <1>7, <1>8, <1>9 DEF GradeFits

\* No pending listing ever reaches a state where its grade would overflow.
THEOREM GradesAlwaysFit == Spec => []GradesNeverStuck
BY GradesFit, TypeCorrect, BooksInvariant, PTL

-----------------------------------------------------------------------------
(* The tokens *)

\* The inductive form of TokensConserved: only a slash marks a stall.
TokensInv ==
  /\ TokensConserved
  /\ \A o \in DOMAIN stalls : ~stalls[o].slashed => stalls[o].slashed_amount = 0

\* What SlashMarks adds up.
Marks == [o \in DOMAIN stalls |-> stalls[o].slashed_amount]

\* The balances and the slash marks are numbers, finitely many, and so are their sums.
LEMMA TokensTyped ==
  ASSUME TypeOK
  PROVE  /\ Summable(wallet, Wallets) /\ Held = SumFunctionOnSet(wallet, Wallets)
         /\ Held \in Nat
         /\ Summable(Marks, DOMAIN stalls)
         /\ SlashMarks = SumFunctionOnSet(Marks, DOMAIN stalls) /\ SlashMarks \in Nat
         /\ vault \in Nat /\ market.total_bond_burned \in Nat /\ supply \in Nat
         /\ InitialBalance * Cardinality(Wallets) \in Nat
<1>1. \A w \in Wallets : wallet[w] \in Nat
  BY DEF TypeOK
<1>2. Summable(wallet, Wallets) /\ Held = SumFunctionOnSet(wallet, Wallets)
  BY <1>1, WalletsAssumption DEF Summable, Held, SumFunction, TypeOK
<1>3. Held \in Nat
  BY <1>1, <1>2, SumTakesOut, SumBounds
<1>4. \A o \in DOMAIN stalls : Marks[o] \in Nat
  BY DEF Marks, TypeOK, Stall
<1>5. IsFiniteSet(DOMAIN stalls)
  BY WalletsAssumption, FS_Subset DEF TypeOK
<1>6. Summable(Marks, DOMAIN stalls)
  BY <1>4, <1>5 DEF Summable
<1>7. SlashMarks = SumFunctionOnSet(Marks, DOMAIN stalls)
  BY DEF SlashMarks, SumFunction, Marks
<1>8. SlashMarks \in Nat
  BY <1>4, <1>6, <1>7, SumTakesOut, SumBounds
<1>9. vault \in Nat /\ market.total_bond_burned \in Nat /\ supply \in Nat
  BY DEF TypeOK, Market
<1>10. InitialBalance * Cardinality(Wallets) \in Nat
  BY WalletsAssumption, TokensAssumption, FS_CardinalityType
<1>11. QED
  BY <1>2, <1>3, <1>6, <1>7, <1>8, <1>9, <1>10

\* Only what one wallet gains or loses changes what all hold.
LEMMA HeldChanges ==
  ASSUME TypeOK, NEW w \in Wallets, NEW a \in Nat, wallet' = [wallet EXCEPT ![w] = a]
  PROVE  Held' = Held - wallet[w] + a
<1>1. Summable(wallet, Wallets) /\ Held = SumFunctionOnSet(wallet, Wallets)
  BY TokensTyped
<1>2. DOMAIN wallet' = Wallets /\ wallet'[w] = a /\ Agree(wallet, wallet', Wallets \ {w})
  BY DEF TypeOK, Agree
<1>3. SumFunctionOnSet(wallet', Wallets) = SumFunctionOnSet(wallet, Wallets) - wallet[w] + a
  <2>1. PICK e, W : e = wallet' /\ W = Wallets
    OBVIOUS
  <2>2. /\ w \in W /\ e[w] = a /\ e[w] \in Int /\ Agree(wallet, e, W \ {w})
        /\ Summable(wallet, W)
    BY <1>1, <1>2, <2>1
  <2>3. SumFunctionOnSet(e, W) = SumFunctionOnSet(wallet, W) - wallet[w] + e[w]
    BY <2>2, SumChanges
  <2>4. QED
    BY <2>1, <2>2, <2>3
<1>4. QED
  BY <1>1, <1>2, <1>3 DEF Held, SumFunction

\* The slash marks are the same when no stall's mark is another, when a stall comes
\* without one, and grow by what is marked on a stall that had none.
LEMMA MarksKept ==
  ASSUME TypeOK, DOMAIN stalls' = DOMAIN stalls,
         \A o \in DOMAIN stalls : stalls'[o].slashed_amount = stalls[o].slashed_amount
  PROVE  SlashMarks' = SlashMarks
BY DEF SlashMarks

LEMMA MarksOpened ==
  ASSUME TypeOK, NEW w, w \notin DOMAIN stalls, DOMAIN stalls' = (DOMAIN stalls) \cup {w},
         stalls'[w].slashed_amount = 0, \A o \in DOMAIN stalls : stalls'[o] = stalls[o]
  PROVE  SlashMarks' = SlashMarks
<1>1. PICK D, e : D = DOMAIN stalls /\ e = Marks'
  OBVIOUS
<1>2. Agree(Marks, e, D) /\ e[w] = 0
  BY <1>1 DEF Marks, Agree
<1>3. Summable(Marks, D) /\ SlashMarks = SumFunctionOnSet(Marks, D)
  BY <1>1, TokensTyped
<1>4. SumFunctionOnSet(e, D) = SumFunctionOnSet(Marks, D)
  BY <1>2, <1>3, SumAgrees
<1>5. Summable(e, D \cup {w})
  BY <1>2, <1>3, FS_AddElement DEF Summable, Agree
<1>6. SumFunctionOnSet(e, D \cup {w}) = 0 + SumFunctionOnSet(e, D)
  BY <1>1, <1>2, <1>5, SumPutsIn
<1>7. SumFunctionOnSet(e, D) \in Int
  BY <1>3, <1>4, SumTakesOut
<1>8. SlashMarks' = SumFunctionOnSet(e, D \cup {w})
  BY <1>1 DEF SlashMarks, Marks, SumFunction
<1>9. QED
  BY <1>3, <1>4, <1>6, <1>7, <1>8

LEMMA MarksSlashed ==
  ASSUME TypeOK, NEW w \in DOMAIN stalls, NEW burned \in Nat, DOMAIN stalls' = DOMAIN stalls,
         stalls[w].slashed_amount = 0, stalls'[w].slashed_amount = burned,
         \A o \in DOMAIN stalls : o # w => stalls'[o] = stalls[o]
  PROVE  SlashMarks' = SlashMarks + burned
<1>1. PICK D, e : D = DOMAIN stalls /\ e = Marks'
  OBVIOUS
<1>2. Agree(Marks, e, D \ {w}) /\ e[w] = burned /\ Marks[w] = 0
  BY <1>1 DEF Marks, Agree
<1>3. Summable(Marks, D) /\ SlashMarks = SumFunctionOnSet(Marks, D) /\ SlashMarks \in Nat
  BY <1>1, TokensTyped
<1>4. SumFunctionOnSet(e, D) = SumFunctionOnSet(Marks, D) - 0 + burned
  <2>1. e[w] \in Int /\ w \in D
    BY <1>1, <1>2
  <2>2. QED
    BY <1>2, <1>3, <2>1, SumChanges
<1>5. SlashMarks' = SumFunctionOnSet(e, D)
  BY <1>1 DEF SlashMarks, Marks, SumFunction
<1>6. QED
  BY <1>3, <1>4, <1>5

\* What a step does to the books of the tokens: none is created, none lost if the mint
\* withholds nothing, and what is burned is burned in every book.
Balances ==
  LET known == Held + vault + market.total_bond_burned
      burned == market'.total_bond_burned - market.total_bond_burned
  IN
  /\ known' <= known
  /\ TransferFee = 0 => known' = known
  /\ supply' = supply - burned
  /\ SlashMarks' = SlashMarks + burned

\* What BalancedStep needs of the state after a step.
TokensAreNumbers == Held \in Nat /\ vault \in Nat /\ market.total_bond_burned \in Nat

LEMMA TokensNumbered == TypeOK' => TokensAreNumbers'
<1>1. TypeOK => TokensAreNumbers
  BY TokensTyped DEF TokensAreNumbers
<1>2. QED
  BY <1>1, PTL

\* A step that keeps the books in balance conserves the tokens.
LEMMA BalancedStep ==
  ASSUME TypeOK, TypeOK', TokensConserved, Balances
  PROVE  TokensConserved'
<1>1. /\ Held \in Nat /\ vault \in Nat /\ market.total_bond_burned \in Nat
      /\ supply \in Nat /\ SlashMarks \in Nat
      /\ InitialBalance * Cardinality(Wallets) \in Nat
  BY TokensTyped
<1>2. /\ Held' \in Nat /\ vault' \in Nat /\ market'.total_bond_burned \in Nat
  BY TokensNumbered DEF TokensAreNumbers
<1>3. QED
  BY <1>1, <1>2, TokensAssumption DEF TokensConserved, Balances

\* Steps that move no tokens and mark no stall.
LEMMA TokensUntouched ==
  ASSUME TypeOK, TypeOK', TokensInv, DOMAIN stalls' = DOMAIN stalls,
         \A o \in DOMAIN stalls :
           /\ stalls'[o].slashed_amount = stalls[o].slashed_amount
           /\ stalls'[o].slashed = stalls[o].slashed,
         wallet' = wallet, vault' = vault, supply' = supply,
         market'.total_bond_burned = market.total_bond_burned
  PROVE  TokensInv'
<1>1. Balances
  <2>1. Held' = Held
    BY DEF Held
  <2>2. QED
    BY <2>1, MarksKept, TokensTyped DEF Balances
<1>2. QED
  BY <1>1, BalancedStep DEF TokensInv

\* The steps that move tokens: a bond into escrow, out of it, burned in part and the
\* rest returned, and a gift to the vault.
LEMMA TokensOpened ==
  ASSUME TypeOK, TypeOK', TokensInv, NEW w \in Wallets, NEW u \in Uris, OpenStall(w, u)
  PROVE  TokensInv'
<1>1. PICK bond \in Nat : bond = market.stall_bond_amount
  BY DEF TypeOK, Market
<1>2. /\ wallet[w] \in Nat /\ wallet[w] >= bond
      /\ wallet' = [wallet EXCEPT ![w] = wallet[w] - bond]
      /\ vault' = vault + Received(bond) /\ supply' = supply
      /\ market'.total_bond_burned = market.total_bond_burned
      /\ w \notin DOMAIN stalls /\ DOMAIN stalls' = (DOMAIN stalls) \cup {w}
      /\ stalls'[w] = NewStall(bond, u)
      /\ \A o \in DOMAIN stalls : stalls'[o] = stalls[o]
  BY <1>1 DEF OpenStall, Created, TypeOK, Market
<1>3. ~stalls'[w].slashed /\ stalls'[w].slashed_amount = 0
  BY <1>2 DEF NewStall
<1>4. Held' = Held - bond
  <2>1. PICK a \in Nat : a = wallet[w] - bond
    BY <1>2
  <2>2. Held' = Held - wallet[w] + a
    BY <2>1, <1>2, HeldChanges
  <2>3. QED
    BY <1>2, <2>1, <2>2, TokensTyped
<1>5. Received(bond) \in Nat /\ Received(bond) <= bond /\ (TransferFee = 0 => Received(bond) = bond)
  BY ReceivedType, SaturatingSubType, TokensAssumption DEF Received
<1>6. Balances
  BY <1>2, <1>3, <1>4, <1>5, MarksOpened, TokensTyped DEF Balances
<1>7. QED
  BY <1>2, <1>3, <1>6, BalancedStep DEF TokensInv

LEMMA TokensClosed ==
  ASSUME TypeOK, TypeOK', TokensInv, NEW w \in Wallets, CloseStall(w)
  PROVE  TokensInv'
<1>1. PICK bond \in Nat : bond = stalls[w].bond_amount
  BY DEF CloseStall, TypeOK, Stall
<1>2. /\ wallet[w] \in Nat /\ Received(bond) \in Nat /\ Received(bond) <= bond
      /\ TransferFee = 0 => Received(bond) = bond
  BY ReceivedType, SaturatingSubType, TokensAssumption DEF Received, TypeOK
<1>3. /\ wallet' = [wallet EXCEPT ![w] = wallet[w] + Received(bond)]
      /\ vault' = vault - bond /\ supply' = supply
      /\ market'.total_bond_burned = market.total_bond_burned
      /\ DOMAIN stalls' = DOMAIN stalls
      /\ \A o \in DOMAIN stalls :
           /\ stalls'[o].slashed_amount = stalls[o].slashed_amount
           /\ stalls'[o].slashed = stalls[o].slashed
  BY <1>1 DEF CloseStall, StallClosed, TypeOK, Market, Stall
<1>4. Held' = Held + Received(bond)
  <2>1. PICK a \in Nat : a = wallet[w] + Received(bond)
    BY <1>2, <1>3
  <2>2. Held' = Held - wallet[w] + a
    BY <2>1, <1>2, <1>3, HeldChanges
  <2>3. QED
    BY <1>2, <2>1, <2>2, TokensTyped
<1>5. Balances
  BY <1>2, <1>3, <1>4, MarksKept, TokensTyped DEF Balances
<1>6. QED
  BY <1>3, <1>5, BalancedStep DEF TokensInv

LEMMA TokensSlashed ==
  ASSUME TypeOK, TypeOK', TokensInv, NEW w \in Wallets, NEW o \in Wallets, SlashStall(w, o)
  PROVE  TokensInv'
<1>1. PICK bond \in Nat, burned \in Nat :
        bond = stalls[o].bond_amount /\ burned = BurnOf(bond, market.slash_bps)
  <2>1. stalls[o].bond_amount \in Nat /\ market.slash_bps \in Nat
    BY DEF SlashStall, TypeOK, Stall, Market
  <2>2. QED
    BY <2>1, BurnType
<1>2. /\ wallet[o] \in Nat /\ burned <= bond
      /\ wallet' = [wallet EXCEPT ![o] = wallet[o] + Received(bond - burned)]
      /\ vault' = vault - bond /\ supply' = supply - burned
      /\ market'.total_bond_burned = market.total_bond_burned + burned
      /\ o \in DOMAIN stalls /\ stalls[o] \in Stall /\ ~stalls[o].slashed
      /\ stalls' = [stalls EXCEPT ![o] = StallSlashed(@, burned)]
  BY <1>1 DEF SlashStall, Slashable, SlashFits, TypeOK, Market
<1>3. /\ DOMAIN stalls' = DOMAIN stalls
      /\ stalls'[o].slashed /\ stalls'[o].slashed_amount = burned
      /\ \A p \in DOMAIN stalls : p # o => stalls'[p] = stalls[p]
      /\ stalls[o].slashed_amount = 0
  BY <1>2 DEF StallSlashed, Stall, TokensInv
<1>4. PICK left \in Nat : left = bond - burned
  BY <1>1, <1>2
<1>5. Received(left) \in Nat /\ Received(left) <= left /\ (TransferFee = 0 => Received(left) = left)
  BY ReceivedType, SaturatingSubType, TokensAssumption DEF Received
<1>6. Held' = Held + Received(left)
  <2>1. PICK a \in Nat : a = wallet[o] + Received(left)
    BY <1>2, <1>4, <1>5
  <2>2. Held' = Held - wallet[o] + a
    BY <2>1, <1>2, <1>4, <1>5, HeldChanges
  <2>3. QED
    BY <1>2, <1>5, <2>1, <2>2, TokensTyped
<1>7. SlashMarks' = SlashMarks + burned
  BY <1>2, <1>3, MarksSlashed
<1>8. Balances
  BY <1>1, <1>2, <1>4, <1>5, <1>6, <1>7, TokensTyped DEF Balances
<1>9. QED
  BY <1>3, <1>8, BalancedStep DEF TokensInv

LEMMA TokensSent ==
  ASSUME TypeOK, TypeOK', TokensInv, NEW w \in Wallets, SendToVault(w, 1)
  PROVE  TokensInv'
<1>1. /\ wallet[w] \in Nat /\ wallet[w] >= 1
      /\ wallet' = [wallet EXCEPT ![w] = wallet[w] - 1]
      /\ vault' = vault + Received(1) /\ supply' = supply
      /\ market' = market /\ stalls' = stalls
  BY DEF SendToVault, TypeOK
<1>2. Held' = Held - 1
  <2>1. PICK a \in Nat : a = wallet[w] - 1
    BY <1>1
  <2>2. Held' = Held - wallet[w] + a
    BY <2>1, <1>1, HeldChanges
  <2>3. QED
    BY <1>1, <2>1, <2>2, TokensTyped
<1>3. Received(1) \in Nat /\ Received(1) <= 1 /\ (TransferFee = 0 => Received(1) = 1)
  BY ReceivedType, SaturatingSubType, TokensAssumption DEF Received
<1>4. Balances
  BY <1>1, <1>2, <1>3, MarksKept, TokensTyped DEF Balances
<1>5. QED
  BY <1>1, <1>4, BalancedStep DEF TokensInv

LEMMA TokensStep == TypeOK /\ TypeOK' /\ EscrowInv /\ TokensInv /\ [Next]_vars => TokensInv'
<1> SUFFICES ASSUME TypeOK, TypeOK', EscrowInv, TokensInv, [Next]_vars PROVE TokensInv'
  OBVIOUS
<1>1. ASSUME NEW w \in Wallets, NEW b \in BondAmounts, NEW s \in BpsChoices,
             NEW f \in BpsChoices, InitializeMarket(w, b, s, f)
      PROVE  TokensInv'
  <2>1. market.total_bond_burned = 0 /\ market'.total_bond_burned = 0
    BY <1>1 DEF InitializeMarket, EscrowInv
  <2>2. QED
    BY <1>1, <2>1, TokensUntouched DEF InitializeMarket
<1>2. ASSUME NEW w \in Wallets, NEW u \in Uris, OpenStall(w, u) PROVE TokensInv'
  BY <1>2, TokensOpened
<1>3. ASSUME NEW w \in Wallets, NEW m \in Mints, NEW s \in Scores,
             NEW h \in ThesisHashes, ListRelic(w, m, s, h)
      PROVE  TokensInv'
  <2>1. /\ DOMAIN stalls' = DOMAIN stalls
        /\ \A o \in DOMAIN stalls :
             /\ stalls'[o].slashed_amount = stalls[o].slashed_amount
             /\ stalls'[o].slashed = stalls[o].slashed
        /\ market'.total_bond_burned = market.total_bond_burned
    BY <1>3 DEF ListRelic, StallListed, TypeOK, Stall, Market
  <2>2. QED
    BY <1>3, <2>1, TokensUntouched DEF ListRelic
<1>4. ASSUME NEW w \in Wallets, NEW o \in Wallets, NEW m \in Mints,
             NEW out \in Outcomes, ResolveListing(w, o, m, out)
      PROVE  TokensInv'
  <2>1. /\ DOMAIN stalls' = DOMAIN stalls
        /\ \A p \in DOMAIN stalls :
             /\ stalls'[p].slashed_amount = stalls[p].slashed_amount
             /\ stalls'[p].slashed = stalls[p].slashed
    BY <1>4 DEF ResolveListing, StallGraded, StallSettled, TypeOK, Stall
  <2>2. market'.total_bond_burned = market.total_bond_burned
    BY <1>4 DEF ResolveListing, MarketGraded, TypeOK, Market
  <2>3. QED
    BY <1>4, <2>1, <2>2, TokensUntouched DEF ResolveListing
<1>5. ASSUME NEW w \in Wallets, NEW m \in Mints, WithdrawListing(w, m) PROVE TokensInv'
  <2>1. /\ DOMAIN stalls' = DOMAIN stalls
        /\ \A p \in DOMAIN stalls :
             /\ stalls'[p].slashed_amount = stalls[p].slashed_amount
             /\ stalls'[p].slashed = stalls[p].slashed
    BY <1>5 DEF WithdrawListing, StallSettled, TypeOK, Stall
  <2>2. QED
    BY <1>5, <2>1, TokensUntouched DEF WithdrawListing
<1>6. ASSUME NEW w \in Wallets, NEW u \in Uris, SetStallUri(w, u) PROVE TokensInv'
  <2>1. /\ DOMAIN stalls' = DOMAIN stalls
        /\ \A p \in DOMAIN stalls :
             /\ stalls'[p].slashed_amount = stalls[p].slashed_amount
             /\ stalls'[p].slashed = stalls[p].slashed
    BY <1>6 DEF SetStallUri, TypeOK, Stall
  <2>2. QED
    BY <1>6, <2>1, TokensUntouched DEF SetStallUri
<1>7. ASSUME NEW w \in Wallets, CloseStall(w) PROVE TokensInv'
  BY <1>7, TokensClosed
<1>8. ASSUME NEW w \in Wallets, NEW o \in Wallets, SlashStall(w, o) PROVE TokensInv'
  BY <1>8, TokensSlashed
<1>9. ASSUME NEW w \in Wallets, SendToVault(w, 1) PROVE TokensInv'
  BY <1>9, TokensSent
<1>10. CASE Tick
  BY <1>10, TokensUntouched DEF Tick
<1>11. CASE UNCHANGED vars
  BY <1>11, TokensUntouched DEF vars
<1>12. QED
  BY <1>1, <1>2, <1>3, <1>4, <1>5, <1>6, <1>7, <1>8, <1>9, <1>10, <1>11 DEF Next

LEMMA TokensInvariant == Spec => []TokensInv
<1>1. Init => TokensInv
  <2> SUFFICES ASSUME Init PROVE TokensInv
    OBVIOUS
  <2>1. /\ wallet = [w \in Wallets |-> InitialBalance] /\ vault = 0
        /\ DOMAIN stalls = {} /\ supply = InitialSupply /\ market.total_bond_burned = 0
    BY DEF Init
  <2>2. Held = InitialBalance * Cardinality(Wallets)
    BY <2>1, SumOfSame, WalletsAssumption, TokensAssumption DEF Held, SumFunction
  <2>3. SlashMarks = 0
    <3>1. PICK e : e = Marks
      OBVIOUS
    <3>2. Summable(e, {}) /\ SlashMarks = SumFunctionOnSet(e, {})
      BY <2>1, <3>1, FS_EmptySet DEF Summable, SlashMarks, SumFunction, Marks
    <3>3. QED
      BY <3>2, SumTakesOut
  <2>4. Held \in Nat
    BY <2>2, WalletsAssumption, TokensAssumption, FS_CardinalityType
  <2>5. TokensConserved
    BY <2>1, <2>2, <2>3, <2>4, TokensAssumption DEF TokensConserved
  <2>6. QED
    BY <2>1, <2>5 DEF TokensInv
<1>2. QED
  BY <1>1, TokensStep, TypeCorrect, EscrowInvariant, PTL DEF Spec

\* In every reachable state no token was created, whatever the bond mint withholds, none
\* was lost if it withholds nothing, and every book of what was burned says the same.
THEOREM TokensAllKept == Spec => []TokensConserved
<1>1. TokensInv => TokensConserved
  BY DEF TokensInv
<1>2. QED
  BY <1>1, TokensInvariant, PTL

\* No share of a bond is more than the bond.
LEMMA BurnBounded ==
  ASSUME NEW bond \in Nat, NEW bps \in 0..MAX_BPS
  PROVE  BurnOf(bond, bps) \in Nat /\ BurnOf(bond, bps) <= bond
<1>1. MAX_BPS \in Nat /\ MAX_BPS > 0
  BY LimitsAssumption
<1>2. bond * bps \in Nat /\ bond * bps <= bond * MAX_BPS
  <2>1. \A a \in Nat : a * bond >= 0
    OBVIOUS
  <2>2. PICK rest \in Nat : MAX_BPS = bps + rest
    BY <1>1
  <2>3. bond * MAX_BPS = bond * bps + bond * rest
    BY <2>2
  <2>4. bond * rest \in Nat /\ bond * bps \in Nat
    OBVIOUS
  <2>5. QED
    BY <2>3, <2>4
<1>3. \A q \in Nat : q * MAX_BPS <= bond * MAX_BPS => q <= bond
  BY <1>1
<1>4. PICK q \in Nat : q = BurnOf(bond, bps) /\ q * MAX_BPS <= bond * bps
  BY <1>1, <1>2 DEF BurnOf
<1>5. QED
  BY <1>1, <1>2, <1>3, <1>4

\* What is in escrow is in the vault, and what is burned of it is in the supply, below
\* what the u64 total of burned bonds can hold.
LEMMA BondsFit ==
  TypeOK /\ EscrowInv /\ TokensInv => BondsNeverStuck
<1> SUFFICES ASSUME TypeOK, EscrowInv, TokensInv, TransferFee = 0, NEW o \in DOMAIN stalls
             PROVE  LET bond == stalls[o].bond_amount IN
                    /\ Closable(stalls[o]) => CloseFits(bond)
                    /\ Slashable(stalls[o]) => SlashFits(bond, BurnOf(bond, market.slash_bps))
  BY DEF BondsNeverStuck
<1>1. PICK bond \in Nat, n \in Nat :
        bond = stalls[o].bond_amount /\ n = Cardinality(BondedStalls)
  BY BondedFinite DEF TypeOK, Stall
<1>2. ASSUME bond > 0 PROVE vault >= bond /\ market.total_stalls >= 1
  <2>1. o \in BondedStalls
    BY <1>1, <1>2 DEF BondedStalls
  <2>2. n >= 1
    <3>1. Cardinality(BondedStalls \ {o}) = n - 1 /\ Cardinality(BondedStalls \ {o}) \in Nat
      BY <1>1, <2>1, BondedFinite, CountRemoved, FS_RemoveElement, FS_CardinalityType
    <3>2. QED
      BY <3>1
  <2>3. bond * n >= bond /\ bond * n \in Nat
    BY <2>2, BondTimes
  <2>4. vault >= bond * n
    BY <1>1, <2>1 DEF EscrowInv, EscrowCovered
  <2>5. QED
    BY <1>1, <2>2, <2>3, <2>4 DEF EscrowInv, TypeOK
<1>3. PICK burned \in Nat : burned = BurnOf(bond, market.slash_bps) /\ burned <= bond
  BY BurnBounded DEF TypeOK, Market
<1>4. ASSUME bond > 0
      PROVE  supply >= burned /\ market.total_bond_burned + burned <= U64_MAX
  <2>1. /\ Held \in Nat /\ vault \in Nat /\ market.total_bond_burned \in Nat /\ supply \in Nat
        /\ InitialBalance * Cardinality(Wallets) \in Nat
    BY TokensTyped
  <2>2. /\ Held + vault + market.total_bond_burned <= InitialSupply
        /\ supply + market.total_bond_burned = InitialSupply
        /\ InitialSupply <= U64_MAX /\ InitialSupply \in Nat /\ U64_MAX \in Nat
    BY <2>1, TokensAssumption, LimitsAssumption DEF TokensInv, TokensConserved
  <2>3. QED
    BY <1>2, <1>3, <1>4, <2>1, <2>2
<1>5. QED
  BY <1>1, <1>2, <1>3, <1>4 DEF Closable, CloseFits, Slashable, SlashFits

\* In every reachable state every stall that may be closed or slashed can be.
THEOREM BondsNeverStrand == Spec => []BondsNeverStuck
BY BondsFit, TypeCorrect, EscrowInvariant, TokensInvariant, PTL

-----------------------------------------------------------------------------
(* The shapes of a step *)

\* What a stall tells of its own life, and what it has counted.
Life(s) == <<s.opened_at, s.closed_at, s.slashed, s.slashed_amount, s.bond_amount>>
Counted(s) == <<s.listings_count, s.resolved_wins, s.resolved_losses>>

SameLives ==
  /\ DOMAIN stalls' = DOMAIN stalls
  /\ \A o \in DOMAIN stalls : Life(stalls'[o]) = Life(stalls[o])

Idles ==
  /\ SameLives /\ listings' = listings /\ now' \in Int /\ now' >= now
  /\ \A o \in DOMAIN stalls : Counted(stalls'[o]) = Counted(stalls[o])

Opens(w) ==
  /\ w \in Wallets \ DOMAIN stalls
  /\ DOMAIN stalls' = (DOMAIN stalls) \cup {w}
  /\ Life(stalls'[w]) = <<now, 0, FALSE, 0, market.stall_bond_amount>>
  /\ market.stall_bond_amount > 0
  /\ \A o \in DOMAIN stalls : stalls'[o] = stalls[o]
  /\ listings' = listings /\ now' = now

Commits(w, m, s, h) ==
  /\ w \in BondedStalls /\ m \in Mints /\ s \in Scores /\ h \in ThesisHashes
  /\ <<w, m>> \notin DOMAIN listings
  /\ listings' = Created(listings, <<w, m>>, NewListing(s, h))
  /\ SameLives /\ now' = now
  /\ \A o \in DOMAIN stalls :
       /\ stalls'[o].resolved_wins = stalls[o].resolved_wins
       /\ stalls'[o].resolved_losses = stalls[o].resolved_losses
       /\ o # w => stalls'[o] = stalls[o]

Settles(k, end) ==
  /\ k \in DOMAIN listings /\ listings[k].outcome = "Pending"
  /\ end \in Outcomes \ {"Pending"}
  /\ listings' = [listings EXCEPT ![k] = ListingSettled(@, end)]
  /\ SameLives /\ now' = now
  /\ \A o \in DOMAIN stalls :
       /\ stalls'[o].listings_count = stalls[o].listings_count
       /\ stalls'[o].resolved_wins >= stalls[o].resolved_wins
       /\ stalls'[o].resolved_losses >= stalls[o].resolved_losses

Closes(w) ==
  /\ w \in BondedStalls /\ CallsAt(w, "Pending") = {}
  /\ stalls' = [stalls EXCEPT ![w] = StallClosed(@)]
  /\ listings' = listings /\ now' = now

Slashes(w) ==
  /\ w \in BondedStalls
  /\ \E burned \in Nat : stalls' = [stalls EXCEPT ![w] = StallSlashed(@, burned)]
  /\ listings' = listings /\ now' = now

Shapes ==
  \/ Idles
  \/ \E w : Opens(w) \/ Closes(w) \/ Slashes(w)
  \/ \E w, m, s, h : Commits(w, m, s, h)
  \/ \E k, end : Settles(k, end)

\* An active counter of zero means that no call is pending.
LEMMA NonePending ==
  ASSUME BooksInv, NEW w \in DOMAIN stalls, stalls[w].active_listings = 0
  PROVE  CallsAt(w, "Pending") = {}
<1>1. IsFiniteSet(CallsAt(w, "Pending")) /\ Cardinality(CallsAt(w, "Pending")) = 0
  BY PartsFinite DEF BooksInv, CountersMatchListings
<1>2. QED
  BY <1>1, FS_EmptySet

\* A stall that is neither slashed nor closed is bonded, whatever it lists.
LEMMA ActingIsBonded ==
  ASSUME EscrowInv, NEW w \in DOMAIN stalls, ~stalls[w].slashed, stalls[w].closed_at = 0
  PROVE  w \in BondedStalls
BY DEF EscrowInv, EscrowCovered

LEMMA StepShapes == TypeOK /\ BooksInv /\ EscrowInv /\ [Next]_vars => Shapes
<1> SUFFICES ASSUME TypeOK, BooksInv, EscrowInv, [Next]_vars PROVE Shapes
  OBVIOUS
<1>0. now \in Int
  BY TokensAssumption DEF TypeOK
<1>1. ASSUME NEW w \in Wallets, NEW b \in BondAmounts, NEW s \in BpsChoices,
             NEW f \in BpsChoices, InitializeMarket(w, b, s, f)
      PROVE  Shapes
  BY <1>0, <1>1 DEF InitializeMarket, Shapes, Idles, SameLives
<1>2. ASSUME NEW w \in Wallets, NEW u \in Uris, OpenStall(w, u) PROVE Shapes
  <2>1. /\ stalls' = Created(stalls, w, NewStall(market.stall_bond_amount, u))
        /\ w \notin DOMAIN stalls /\ market.stall_bond_amount > 0
        /\ listings' = listings /\ now' = now
    BY <1>2 DEF OpenStall, EscrowInv
  <2>2. Life(NewStall(market.stall_bond_amount, u)) =
          <<now, 0, FALSE, 0, market.stall_bond_amount>>
    BY DEF Life, NewStall
  <2>3. Opens(w)
    BY <2>1, <2>2 DEF Opens, Created
  <2>4. QED
    BY <2>3 DEF Shapes
<1>3. ASSUME NEW w \in Wallets, NEW m \in Mints, NEW s \in Scores,
             NEW h \in ThesisHashes, ListRelic(w, m, s, h)
      PROVE  Shapes
  <2>1. w \in DOMAIN stalls /\ w \in BondedStalls
    BY <1>3, ActingIsBonded DEF ListRelic
  <2>2. /\ stalls' = [stalls EXCEPT ![w] = StallListed(@)] /\ stalls[w] \in Stall
        /\ stalls \in [DOMAIN stalls -> Stall]
    BY <1>3, <2>1 DEF ListRelic, TypeOK
  <2>3. /\ Life(StallListed(stalls[w])) = Life(stalls[w])
        /\ StallListed(stalls[w]).resolved_wins = stalls[w].resolved_wins
        /\ StallListed(stalls[w]).resolved_losses = stalls[w].resolved_losses
    BY <2>2 DEF Life, StallListed, Stall
  <2>4. Commits(w, m, s, h)
    BY <1>3, <2>1, <2>2, <2>3 DEF ListRelic, Commits, SameLives
  <2>5. QED
    BY <2>4 DEF Shapes
<1>4. ASSUME NEW x \in Wallets, NEW w \in Wallets, NEW m \in Mints,
             NEW out \in Outcomes, ResolveListing(x, w, m, out)
      PROVE  Shapes
  <2> DEFINE k == <<w, m>>
  <2>1. /\ k \in DOMAIN listings /\ listings[k].outcome = "Pending" /\ out \in Graded
        /\ listings' = [listings EXCEPT ![k] = ListingSettled(@, out)] /\ now' = now
        /\ stalls' = [stalls EXCEPT ![w] = StallGraded(@, out)]
        /\ w \in DOMAIN stalls /\ stalls[w] \in Stall
    BY <1>4 DEF ResolveListing, TypeOK
  <2>2. /\ Life(StallGraded(stalls[w], out)) = Life(stalls[w])
        /\ StallGraded(stalls[w], out).listings_count = stalls[w].listings_count
        /\ StallGraded(stalls[w], out).resolved_wins >= stalls[w].resolved_wins
        /\ StallGraded(stalls[w], out).resolved_losses >= stalls[w].resolved_losses
    BY <2>1 DEF Life, StallGraded, StallSettled, Stall
  <2>3. \A o \in DOMAIN stalls :
          stalls[o].resolved_wins \in Int /\ stalls[o].resolved_losses \in Int
    BY DEF TypeOK, Stall
  <2>4. /\ DOMAIN stalls' = DOMAIN stalls
        /\ stalls'[w] = StallGraded(stalls[w], out)
        /\ \A o \in DOMAIN stalls : o # w => stalls'[o] = stalls[o]
    BY <2>1
  <2>5. SameLives
    BY <2>2, <2>4 DEF SameLives
  <2>6. \A o \in DOMAIN stalls :
          /\ stalls'[o].listings_count = stalls[o].listings_count
          /\ stalls'[o].resolved_wins >= stalls[o].resolved_wins
          /\ stalls'[o].resolved_losses >= stalls[o].resolved_losses
    BY <2>2, <2>3, <2>4
  <2>7. Settles(k, out)
    BY <2>1, <2>5, <2>6 DEF Settles
  <2>8. QED
    BY <2>7 DEF Shapes
<1>5. ASSUME NEW w \in Wallets, NEW m \in Mints, WithdrawListing(w, m) PROVE Shapes
  <2> DEFINE k == <<w, m>>
  <2>1. /\ k \in DOMAIN listings /\ listings[k].outcome = "Pending"
        /\ listings' = [listings EXCEPT ![k] = ListingSettled(@, "Withdrawn")] /\ now' = now
        /\ stalls' = [stalls EXCEPT ![w] = StallSettled(@)]
        /\ w \in DOMAIN stalls /\ stalls[w] \in Stall
    BY <1>5 DEF WithdrawListing, TypeOK
  <2>2. /\ Life(StallSettled(stalls[w])) = Life(stalls[w])
        /\ Counted(StallSettled(stalls[w])) = Counted(stalls[w])
    BY <2>1 DEF Life, Counted, StallSettled, Stall
  <2>3. \A o \in DOMAIN stalls :
          stalls[o].resolved_wins \in Int /\ stalls[o].resolved_losses \in Int
    BY DEF TypeOK, Stall
  <2>4. /\ DOMAIN stalls' = DOMAIN stalls
        /\ stalls'[w] = StallSettled(stalls[w])
        /\ \A o \in DOMAIN stalls : o # w => stalls'[o] = stalls[o]
    BY <2>1
  <2>5. SameLives
    BY <2>2, <2>4 DEF SameLives
  <2>6. \A o \in DOMAIN stalls :
          /\ stalls'[o].listings_count = stalls[o].listings_count
          /\ stalls'[o].resolved_wins >= stalls[o].resolved_wins
          /\ stalls'[o].resolved_losses >= stalls[o].resolved_losses
    BY <2>2, <2>3, <2>4 DEF Counted
  <2>7. Settles(k, "Withdrawn")
    BY <2>1, <2>5, <2>6 DEF Settles
  <2>8. QED
    BY <2>7 DEF Shapes
<1>6. ASSUME NEW w \in Wallets, NEW u \in Uris, SetStallUri(w, u) PROVE Shapes
  <2>1. stalls[w] \in Stall /\ w \in DOMAIN stalls /\ stalls' = [stalls EXCEPT ![w].uri = u]
    BY <1>6 DEF SetStallUri, TypeOK
  <2>2. \A o \in DOMAIN stalls :
          Life(stalls'[o]) = Life(stalls[o]) /\ Counted(stalls'[o]) = Counted(stalls[o])
    BY <2>1 DEF Life, Counted, Stall, TypeOK
  <2>3. QED
    BY <1>0, <1>6, <2>1, <2>2 DEF SetStallUri, Shapes, Idles, SameLives
<1>7. ASSUME NEW w \in Wallets, CloseStall(w) PROVE Shapes
  <2>1. w \in BondedStalls /\ CallsAt(w, "Pending") = {}
    BY <1>7, NonePending DEF CloseStall, Closable, BondedStalls
  <2>2. QED
    BY <1>7, <2>1 DEF CloseStall, Shapes, Closes
<1>8. ASSUME NEW x \in Wallets, NEW w \in Wallets, SlashStall(x, w) PROVE Shapes
  <2>1. w \in BondedStalls /\ stalls[w] \in Stall
    BY <1>8 DEF SlashStall, Slashable, BondedStalls, TypeOK
  <2>2. BurnOf(stalls[w].bond_amount, market.slash_bps) \in Nat
    BY <2>1, BurnType DEF Stall, TypeOK, Market
  <2>3. QED
    BY <1>8, <2>1, <2>2 DEF SlashStall, Shapes, Slashes
<1>9. ASSUME NEW w \in Wallets, SendToVault(w, 1) PROVE Shapes
  BY <1>0, <1>9 DEF SendToVault, Shapes, Idles, SameLives
<1>10. CASE Tick
  BY <1>0, <1>10 DEF Tick, Shapes, Idles, SameLives
<1>11. CASE UNCHANGED vars
  BY <1>0, <1>11 DEF vars, Shapes, Idles, SameLives
<1>12. QED
  BY <1>1, <1>2, <1>3, <1>4, <1>5, <1>6, <1>7, <1>8, <1>9, <1>10, <1>11 DEF Next

-----------------------------------------------------------------------------
(* Nothing is rewritten *)

\* What a settled call keeps, and what a new one carries.
LEMMA SettledFields ==
  ASSUME NEW l \in Listing, NEW end
  PROVE  /\ ListingSettled(l, end).thesis_hash = l.thesis_hash
         /\ ListingSettled(l, end).relic_score_at_listing = l.relic_score_at_listing
         /\ ListingSettled(l, end).listed_at = l.listed_at
         /\ ListingSettled(l, end).resolved_at = now
         /\ ListingSettled(l, end).outcome = end
BY DEF Listing, ListingSettled

\* What a stall that closed or was slashed tells of itself.
LEMMA ReleasedFields ==
  ASSUME NEW s \in Stall, NEW burned
  PROVE  /\ LET c == StallClosed(s) IN
            /\ c.opened_at = s.opened_at /\ c.closed_at = now /\ c.bond_amount = 0
            /\ c.slashed = s.slashed /\ Counted(c) = Counted(s)
         /\ LET c == StallSlashed(s, burned) IN
            /\ c.opened_at = s.opened_at /\ c.closed_at = s.closed_at /\ c.bond_amount = 0
            /\ c.slashed /\ Counted(c) = Counted(s)
BY DEF Stall, StallClosed, StallSlashed, Counted

LEMMA KeptByShape == TypeOK /\ EscrowInv /\ Shapes => HistoryKept
<1> SUFFICES ASSUME TypeOK, EscrowInv, Shapes PROVE HistoryKept
  OBVIOUS
<1>0. /\ \A k \in DOMAIN listings : listings[k] \in Listing
      /\ \A o \in DOMAIN stalls :
           /\ stalls[o] \in Stall
           /\ stalls[o].resolved_wins \in Int /\ stalls[o].resolved_losses \in Int
           /\ stalls[o].bond_amount \in Nat
           /\ o \notin BondedStalls => stalls[o].bond_amount = 0
  BY LimitsAssumption DEF TypeOK, Stall, BondedStalls
<1>1. ASSUME Idles PROVE HistoryKept
  BY <1>0, <1>1 DEF Idles, SameLives, Life, Counted, HistoryKept, CallKept, StallKept
<1>2. ASSUME NEW w, Opens(w) PROVE HistoryKept
  BY <1>0, <1>2 DEF Opens, HistoryKept, CallKept, StallKept
<1>3. ASSUME NEW w, NEW m, NEW s, NEW h, Commits(w, m, s, h) PROVE HistoryKept
  <2>1. \A k \in DOMAIN listings : CallKept(k)
    BY <1>3 DEF Commits, Created, CallKept
  <2>2. \A o \in DOMAIN stalls : StallKept(o)
    BY <1>0, <1>3 DEF Commits, SameLives, Life, StallKept
  <2>3. QED
    BY <2>1, <2>2 DEF HistoryKept
<1>4. ASSUME NEW k, NEW end, Settles(k, end) PROVE HistoryKept
  <2>1. \A j \in DOMAIN listings : CallKept(j)
    BY <1>0, <1>4, SettledFields DEF Settles, CallKept
  <2>2. \A o \in DOMAIN stalls : StallKept(o)
    BY <1>0, <1>4 DEF Settles, SameLives, Life, StallKept
  <2>3. QED
    BY <2>1, <2>2 DEF HistoryKept
<1>5. ASSUME NEW w, Closes(w) PROVE HistoryKept
  <2>1. /\ w \in DOMAIN stalls /\ w \in BondedStalls
        /\ DOMAIN stalls' = DOMAIN stalls /\ listings' = listings
        /\ stalls'[w] = StallClosed(stalls[w])
        /\ \A o \in DOMAIN stalls : o # w => stalls'[o] = stalls[o]
    BY <1>5 DEF Closes, BondedStalls
  <2>2. StallKept(w)
    BY <1>0, <2>1, ReleasedFields DEF StallKept, Life, Counted
  <2>3. QED
    BY <1>0, <2>1, <2>2 DEF HistoryKept, CallKept, StallKept
<1>6. ASSUME NEW w, Slashes(w) PROVE HistoryKept
  <2>1. PICK burned \in Nat : stalls' = [stalls EXCEPT ![w] = StallSlashed(@, burned)]
    BY <1>6 DEF Slashes
  <2>2. /\ w \in DOMAIN stalls /\ w \in BondedStalls
        /\ DOMAIN stalls' = DOMAIN stalls /\ listings' = listings
        /\ stalls'[w] = StallSlashed(stalls[w], burned)
        /\ \A o \in DOMAIN stalls : o # w => stalls'[o] = stalls[o]
    BY <1>6, <2>1 DEF Slashes, BondedStalls
  <2>3. StallKept(w)
    BY <1>0, <2>2, ReleasedFields DEF StallKept, Life, Counted
  <2>4. QED
    BY <1>0, <2>2, <2>3 DEF HistoryKept, CallKept, StallKept
<1>7. QED
  BY <1>1, <1>2, <1>3, <1>4, <1>5, <1>6 DEF Shapes

\* No step of the market, whatever its limits and however long its history, erases or
\* rewrites a call that ended, the life of a stall that ended, or a count of grades.
THEOREM HistoryKeptForGood == Spec => HistoryPermanent
<1>1. TypeOK /\ BooksInv /\ EscrowInv /\ [Next]_vars => [HistoryKept]_vars
  BY StepShapes, KeptByShape
<1>2. QED
  BY <1>1, TypeCorrect, BooksInvariant, EscrowInvariant, PTL DEF Spec, HistoryPermanent

-----------------------------------------------------------------------------
(* Everything is dated in order *)

\* The inductive form: no date lies in the future.
PastOnly ==
  /\ \A k \in DOMAIN listings : listings[k].listed_at <= now /\ listings[k].resolved_at <= now
  /\ \A o \in DOMAIN stalls : stalls[o].opened_at <= now

DatesInv == HistoryOrdered /\ PastOnly

\* All that DatesInv says of the stall o, and of the call k under it.
StallDated(o) ==
  stalls[o].opened_at <= now /\ stalls[o].closed_at \in {0} \cup stalls[o].opened_at..now
DatedSoFar(k) ==
  CallDated(k) /\ listings[k].listed_at <= now /\ listings[k].resolved_at <= now

LEMMA DatesSplit ==
  DatesInv <=> /\ \A k \in DOMAIN listings : DatedSoFar(k)
               /\ \A o \in DOMAIN stalls : StallDated(o)
BY DEF DatesInv, HistoryOrdered, PastOnly, DatedSoFar, StallDated

\* The dates of the accounts are numbers, and every call has a stall.
LEMMA DatesTyped ==
  ASSUME TypeOK
  PROVE  /\ now \in Int /\ now > 0
         /\ \A k \in DOMAIN listings :
              /\ listings[k] \in Listing /\ k[1] \in DOMAIN stalls
              /\ listings[k].listed_at \in Int /\ listings[k].resolved_at \in Int
         /\ \A o \in DOMAIN stalls :
              /\ stalls[o] \in Stall
              /\ stalls[o].opened_at \in Int /\ stalls[o].closed_at \in Int
BY TokensAssumption DEF TypeOK, Listing, Stall

LEMMA DatesByShape == TypeOK /\ EscrowInv /\ DatesInv /\ Shapes => DatesInv'
<1> SUFFICES ASSUME TypeOK, EscrowInv, DatesInv, Shapes
             PROVE  /\ \A k \in DOMAIN listings' : DatedSoFar(k)'
                    /\ \A o \in DOMAIN stalls' : StallDated(o)'
  BY DatesSplit DEF DatesInv, HistoryOrdered, PastOnly, DatedSoFar, StallDated
<1>0. /\ \A k \in DOMAIN listings : DatedSoFar(k)
      /\ \A o \in DOMAIN stalls : StallDated(o)
  BY DatesSplit
<1>a. /\ now \in Int /\ now > 0
      /\ \A k \in DOMAIN listings :
           /\ listings[k] \in Listing /\ k[1] \in DOMAIN stalls
           /\ listings[k].listed_at \in Int /\ listings[k].resolved_at \in Int
      /\ \A o \in DOMAIN stalls :
           /\ stalls[o] \in Stall
           /\ stalls[o].opened_at \in Int /\ stalls[o].closed_at \in Int
  BY DatesTyped
<1> DEFINE Goal == /\ \A k \in DOMAIN listings' : DatedSoFar(k)'
                   /\ \A o \in DOMAIN stalls' : StallDated(o)'
<1>1. ASSUME Idles PROVE Goal
  BY <1>0, <1>a, <1>1 DEF Idles, SameLives, Life, DatedSoFar, CallDated, StallDated
<1>2. ASSUME NEW w, Opens(w) PROVE Goal
  <2>1. /\ DOMAIN stalls' = (DOMAIN stalls) \cup {w} /\ w \notin DOMAIN stalls
        /\ stalls'[w].opened_at = now /\ stalls'[w].closed_at = 0
        /\ \A o \in DOMAIN stalls : stalls'[o] = stalls[o]
        /\ listings' = listings /\ now' = now
    BY <1>2 DEF Opens, Life
  <2>2. \A k \in DOMAIN listings' : DatedSoFar(k)'
    BY <1>0, <1>a, <2>1 DEF DatedSoFar, CallDated
  <2>3. \A o \in DOMAIN stalls' : StallDated(o)'
    BY <1>0, <1>a, <2>1 DEF StallDated
  <2>4. QED
    BY <2>2, <2>3
<1>3. ASSUME NEW w, NEW m, NEW s, NEW h, Commits(w, m, s, h) PROVE Goal
  <2> DEFINE k == <<w, m>>
  <2>1. /\ DOMAIN listings' = (DOMAIN listings) \cup {k} /\ k \notin DOMAIN listings
        /\ listings'[k].listed_at = now /\ listings'[k].resolved_at = 0
        /\ listings'[k].outcome = "Pending"
        /\ \A j \in DOMAIN listings : listings'[j] = listings[j]
        /\ now' = now /\ k[1] = w
    BY <1>3 DEF Commits, Created, NewListing
  <2>2. w \in DOMAIN stalls /\ stalls[w].closed_at = 0
    BY <1>3 DEF Commits, BondedStalls, EscrowInv, EscrowCovered
  <2>3. /\ DOMAIN stalls' = DOMAIN stalls
        /\ \A o \in DOMAIN stalls : /\ stalls'[o].opened_at = stalls[o].opened_at
                                    /\ stalls'[o].closed_at = stalls[o].closed_at
    BY <1>3 DEF Commits, SameLives, Life
  <2> HIDE DEF k
  <2>4. DatedSoFar(k)'
    BY <1>0, <1>a, <2>1, <2>2, <2>3 DEF DatedSoFar, CallDated, StallDated
  <2>5. \A j \in DOMAIN listings : DatedSoFar(j)'
    BY <1>0, <1>a, <2>1, <2>3 DEF DatedSoFar, CallDated
  <2>6. \A o \in DOMAIN stalls' : StallDated(o)'
    BY <1>0, <2>1, <2>3 DEF StallDated
  <2>7. QED
    BY <2>1, <2>4, <2>5, <2>6
<1>4. ASSUME NEW k, NEW end, Settles(k, end) PROVE Goal
  <2>1. /\ DOMAIN listings' = DOMAIN listings /\ k \in DOMAIN listings
        /\ listings'[k] = ListingSettled(listings[k], end) /\ end # "Pending"
        /\ listings[k].outcome = "Pending"
        /\ \A j \in DOMAIN listings : j # k => listings'[j] = listings[j]
        /\ now' = now
    BY <1>4 DEF Settles
  <2>2. /\ DOMAIN stalls' = DOMAIN stalls
        /\ \A o \in DOMAIN stalls : /\ stalls'[o].opened_at = stalls[o].opened_at
                                    /\ stalls'[o].closed_at = stalls[o].closed_at
    BY <1>4 DEF Settles, SameLives, Life
  <2>3. DatedSoFar(k)'
    <3>1. /\ listings'[k].listed_at = listings[k].listed_at
          /\ listings'[k].resolved_at = now /\ listings'[k].outcome = end
      BY <1>a, <2>1, SettledFields
    <3>2. stalls[k[1]].closed_at = 0
      BY <1>0, <2>1 DEF DatedSoFar, CallDated
    <3>3. QED
      BY <1>0, <1>a, <2>1, <2>2, <3>1, <3>2 DEF DatedSoFar, CallDated
  <2>4. \A j \in DOMAIN listings : j # k => DatedSoFar(j)'
    BY <1>0, <1>a, <2>1, <2>2 DEF DatedSoFar, CallDated
  <2>5. \A o \in DOMAIN stalls' : StallDated(o)'
    BY <1>0, <2>1, <2>2 DEF StallDated
  <2>6. QED
    BY <2>1, <2>3, <2>4, <2>5
<1>5. ASSUME NEW w, Closes(w) PROVE Goal
  <2>1. /\ w \in DOMAIN stalls /\ CallsAt(w, "Pending") = {}
        /\ DOMAIN stalls' = DOMAIN stalls /\ listings' = listings /\ now' = now
        /\ stalls'[w] = StallClosed(stalls[w])
        /\ \A o \in DOMAIN stalls : o # w => stalls'[o] = stalls[o]
    BY <1>5 DEF Closes, BondedStalls
  <2>2. stalls'[w].opened_at = stalls[w].opened_at /\ stalls'[w].closed_at = now
    BY <1>a, <2>1, ReleasedFields DEF Life
  <2>3. \A k \in DOMAIN listings : k[1] = w => listings[k].outcome # "Pending"
    BY <2>1 DEF CallsAt, ListingsOf, ListingsAt
  <2>4. \A k \in DOMAIN listings' : DatedSoFar(k)'
    BY <1>0, <1>a, <2>1, <2>2, <2>3 DEF DatedSoFar, CallDated
  <2>5. \A o \in DOMAIN stalls' : StallDated(o)'
    BY <1>0, <1>a, <2>1, <2>2 DEF StallDated
  <2>6. QED
    BY <2>4, <2>5
<1>6. ASSUME NEW w, Slashes(w) PROVE Goal
  <2>1. PICK burned \in Nat : stalls' = [stalls EXCEPT ![w] = StallSlashed(@, burned)]
    BY <1>6 DEF Slashes
  <2>2. /\ w \in DOMAIN stalls
        /\ DOMAIN stalls' = DOMAIN stalls /\ listings' = listings /\ now' = now
        /\ stalls'[w] = StallSlashed(stalls[w], burned)
        /\ \A o \in DOMAIN stalls : o # w => stalls'[o] = stalls[o]
    BY <1>6, <2>1 DEF Slashes, BondedStalls
  <2>3. /\ stalls'[w].opened_at = stalls[w].opened_at
        /\ stalls'[w].closed_at = stalls[w].closed_at
    BY <1>a, <2>2, ReleasedFields DEF Life
  <2>4. \A o \in DOMAIN stalls : /\ stalls'[o].opened_at = stalls[o].opened_at
                                  /\ stalls'[o].closed_at = stalls[o].closed_at
    BY <2>2, <2>3
  <2>5. QED
    BY <1>0, <1>a, <2>2, <2>4 DEF DatedSoFar, CallDated, StallDated
<1>7. QED
  BY <1>1, <1>2, <1>3, <1>4, <1>5, <1>6 DEF Shapes

\* In every reachable state the time stamps tell the story in its order.
THEOREM HistoryInOrder == Spec => []HistoryOrdered
<1>1. Init => DatesInv
  BY DEF Init, DatesInv, HistoryOrdered, PastOnly
<1>2. TypeOK /\ BooksInv /\ EscrowInv /\ DatesInv /\ [Next]_vars => DatesInv'
  BY StepShapes, DatesByShape
<1>3. DatesInv => HistoryOrdered
  BY DEF DatesInv
<1>4. QED
  BY <1>1, <1>2, <1>3, TypeCorrect, BooksInvariant, EscrowInvariant, PTL DEF Spec

-----------------------------------------------------------------------------
(* The accounts implement the ledger *)

\* The ledger's view of the accounts, as BazrMarket substitutes it.
Standing == [o \in DOMAIN stalls |-> StandingOf(stalls[o])]
CallOf(l) == [commitment |-> CommitmentOf(l), end |-> l.outcome]
Calls == [k \in DOMAIN listings |-> CallOf(listings[k])]
Records == [o \in DOMAIN stalls |-> RecordOf(stalls[o])]

\* What the ledger's step does to standings and calls, its first conjunct aside.
LedgerMoves ==
  \/ \E o \in Wallets : Ledger!Open(o) \/ Ledger!Close(o) \/ Ledger!Slash(o)
  \/ \E o \in Wallets, m \in Mints, c \in ThesisHashes \X Scores \X (1..MaxClock) :
       Ledger!Commit(o, m, c)
  \/ \E k \in Wallets \X Mints, end \in Ledger!Settlements : Ledger!Settle(k, end)

\* The ledger counts as the program does.
LEMMA SameCount == ASSUME NEW S PROVE Ledger!Cardinality(S) = Cardinality(S)
BY DEF Ledger!Cardinality, Cardinality

\* In every reachable state the bonds in escrow are those of the open stalls, and a
\* stall's record is the tally of its calls.
LedgerAgreed ==
  /\ BondedStalls = {o \in DOMAIN Standing : Standing[o] = "open"}
  /\ Records = [o \in DOMAIN Standing |-> Ledger!Tally(Calls, o)]

LEMMA LedgerAgrees == CountersMatchListings /\ EscrowCovered => LedgerAgreed
<1> SUFFICES ASSUME CountersMatchListings, EscrowCovered PROVE LedgerAgreed
  OBVIOUS
<1>1. \A o \in DOMAIN stalls :
        Standing[o] = "open" <=> ~stalls[o].slashed /\ stalls[o].closed_at = 0
  BY DEF Standing, StandingOf
<1>2. BondedStalls = {o \in DOMAIN Standing : Standing[o] = "open"}
  BY <1>1 DEF EscrowCovered, BondedStalls, Standing
<1>3. ASSUME NEW o \in DOMAIN stalls PROVE RecordOf(stalls[o]) = Ledger!Tally(Calls, o)
  <2>1. Ledger!CallsBy(Calls, o) = ListingsOf(o)
    BY DEF Ledger!CallsBy, Calls, ListingsOf
  <2>2. ASSUME NEW end PROVE Ledger!EndedAs(Calls, o, end) = CallsAt(o, end)
    BY <2>1 DEF Ledger!EndedAs, Calls, CallOf, CallsAt, ListingsOf, ListingsAt
  <2>3. /\ Cardinality(Ledger!CallsBy(Calls, o)) = stalls[o].listings_count
        /\ Cardinality(Ledger!EndedAs(Calls, o, "Pending")) = stalls[o].active_listings
        /\ Cardinality(Ledger!EndedAs(Calls, o, "Survived")) = stalls[o].resolved_wins
        /\ Cardinality(Ledger!EndedAs(Calls, o, "Faded")) = stalls[o].resolved_losses
        /\ stalls[o].reputation =
             REPUTATION_STEP * (stalls[o].resolved_wins - stalls[o].resolved_losses)
    BY <2>1, <2>2 DEF CountersMatchListings
  <2>4. QED
    BY <2>3, SameCount DEF Ledger!Tally, RecordOf
<1>4. QED
  BY <1>2, <1>3 DEF LedgerAgreed, Records, Standing

\* A new call is listed with the ledger's commitment, and settling one keeps it.
LEMMA CommitmentKept ==
  /\ \A s, h : CallOf(NewListing(s, h)) = [commitment |-> <<h, s, now>>, end |-> "Pending"]
  /\ \A l \in Listing : \A end :
       CallOf(ListingSettled(l, end)) = [CallOf(l) EXCEPT !.end = end]
<1>1. ASSUME NEW s, NEW h
      PROVE  CallOf(NewListing(s, h)) = [commitment |-> <<h, s, now>>, end |-> "Pending"]
  BY DEF CallOf, CommitmentOf, NewListing
<1>2. ASSUME NEW l \in Listing, NEW end
      PROVE  CallOf(ListingSettled(l, end)) = [CallOf(l) EXCEPT !.end = end]
  BY SettledFields DEF CallOf, CommitmentOf
<1>3. QED
  BY <1>1, <1>2

\* Each shape is a step of the ledger, or leaves standings and calls alone.
LEMMA LedgerStep ==
  ASSUME TypeOK, EscrowCovered, Shapes
  PROVE  LedgerMoves \/ (Standing' = Standing /\ Calls' = Calls)
<1> DEFINE Goal == LedgerMoves \/ (Standing' = Standing /\ Calls' = Calls)
<1>0. /\ \A o \in BondedStalls : o \in DOMAIN Standing /\ Standing[o] = "open"
      /\ BondedStalls \subseteq Wallets
      /\ \A o \in DOMAIN stalls : stalls[o] \in Stall
      /\ \A k \in DOMAIN listings : listings[k] \in Listing /\ k \in Wallets \X Mints
      /\ now \in 1..MaxClock
  BY DEF TypeOK, EscrowCovered, BondedStalls, Standing, StandingOf
<1>a. SameLives => Standing' = Standing
  <2> SUFFICES ASSUME SameLives PROVE Standing' = Standing
    OBVIOUS
  <2>1. \A o \in DOMAIN stalls : /\ stalls'[o].slashed = stalls[o].slashed
                                 /\ stalls'[o].closed_at = stalls[o].closed_at
    BY DEF SameLives, Life
  <2>2. QED
    BY <2>1 DEF SameLives, Standing, StandingOf
<1>b. listings' = listings => Calls' = Calls
  BY DEF Calls
<1>1. ASSUME Idles PROVE Goal
  BY <1>1, <1>a, <1>b DEF Idles
<1>2. ASSUME NEW w, Opens(w) PROVE Goal
  <2>1. /\ w \in Wallets /\ w \notin DOMAIN stalls
        /\ DOMAIN stalls' = (DOMAIN stalls) \cup {w}
        /\ ~stalls'[w].slashed /\ stalls'[w].closed_at = 0
        /\ \A o \in DOMAIN stalls : stalls'[o] = stalls[o]
    BY <1>2 DEF Opens, Life
  <2>2. Standing' = [o \in DOMAIN Standing \cup {w} |-> IF o = w THEN "open" ELSE Standing[o]]
    BY <2>1 DEF Standing, StandingOf
  <2>3. Calls' = Calls /\ w \notin DOMAIN Standing
    BY <1>2, <1>b, <2>1 DEF Opens, Standing
  <2>4. Ledger!Open(w)
    BY <2>2, <2>3 DEF Ledger!Open, Standing, Calls, CallOf
  <2>5. QED
    BY <2>1, <2>4 DEF LedgerMoves
<1>3. ASSUME NEW w, NEW m, NEW s, NEW h, Commits(w, m, s, h) PROVE Goal
  <2> DEFINE k == <<w, m>>
  <2>0. PICK c : c = <<h, s, now>>
    OBVIOUS
  <2>1. /\ w \in BondedStalls /\ w \in Wallets /\ m \in Mints
        /\ c \in ThesisHashes \X Scores \X (1..MaxClock)
        /\ k \notin DOMAIN listings
        /\ listings' = Created(listings, k, NewListing(s, h))
    BY <1>0, <1>3, <2>0 DEF Commits
  <2>2. Standing' = Standing
    BY <1>3, <1>a DEF Commits
  <2>3. Calls' = [j \in DOMAIN Calls \cup {k} |->
                    IF j = k THEN [commitment |-> c, end |-> "Pending"] ELSE Calls[j]]
    <3>1. /\ DOMAIN listings' = (DOMAIN listings) \cup {k}
          /\ listings'[k] = NewListing(s, h)
          /\ \A j \in DOMAIN listings : listings'[j] = listings[j]
      BY <2>1 DEF Created
    <3>2. CallOf(NewListing(s, h)) = [commitment |-> c, end |-> "Pending"]
      BY <2>0, CommitmentKept
    <3> HIDE DEF k
    <3>3. QED
      BY <2>1, <3>1, <3>2 DEF Calls
  <2>4. Ledger!Commit(w, m, c)
    BY <1>0, <2>1, <2>2, <2>3 DEF Ledger!Commit, Standing, Calls, CallOf
  <2>5. \E p \in ThesisHashes \X Scores \X (1..MaxClock) : Ledger!Commit(w, m, p)
    BY <2>1, <2>4
  <2>6. QED
    BY <2>1, <2>5 DEF LedgerMoves
<1>4. ASSUME NEW k, NEW end, Settles(k, end) PROVE Goal
  <2>1. /\ k \in DOMAIN listings /\ k \in Wallets \X Mints /\ listings[k] \in Listing
        /\ listings[k].outcome = "Pending" /\ end \in Ledger!Settlements
        /\ listings' = [listings EXCEPT ![k] = ListingSettled(@, end)]
    BY <1>0, <1>4 DEF Settles, Ledger!Settlements
  <2>2. Standing' = Standing
    BY <1>4, <1>a DEF Settles
  <2>3. Calls' = [Calls EXCEPT ![k].end = end]
    <3>1. CallOf(listings'[k]) = [CallOf(listings[k]) EXCEPT !.end = end]
      BY <2>1, CommitmentKept
    <3>2. /\ DOMAIN listings' = DOMAIN listings
          /\ \A j \in DOMAIN listings : j # k => listings'[j] = listings[j]
      BY <2>1
    <3>3. QED
      BY <2>1, <3>1, <3>2 DEF Calls
  <2>4. Calls[k].end = "Pending"
    BY <2>1 DEF Calls, CallOf
  <2>5. Ledger!Settle(k, end)
    BY <2>1, <2>2, <2>3, <2>4 DEF Ledger!Settle, Standing, Calls, CallOf
  <2>6. QED
    BY <2>1, <2>5 DEF LedgerMoves
<1>5. ASSUME NEW w, Closes(w) PROVE Goal
  <2>1. /\ w \in DOMAIN stalls /\ w \in Wallets /\ CallsAt(w, "Pending") = {}
        /\ Standing[w] = "open" /\ stalls[w] \in Stall
        /\ DOMAIN stalls' = DOMAIN stalls
        /\ stalls'[w] = StallClosed(stalls[w])
        /\ \A o \in DOMAIN stalls : o # w => stalls'[o] = stalls[o]
    BY <1>0, <1>5 DEF Closes, BondedStalls
  <2>2. StandingOf(stalls'[w]) = "closed"
    <3>1. ~stalls[w].slashed
      BY <2>1 DEF Standing, StandingOf
    <3>2. ~stalls'[w].slashed /\ stalls'[w].closed_at # 0
      BY <1>0, <2>1, <3>1, ReleasedFields
    <3>3. QED
      BY <3>2 DEF StandingOf
  <2>3. Standing' = [Standing EXCEPT ![w] = "closed"] /\ Calls' = Calls
    BY <1>5, <1>b, <2>1, <2>2 DEF Closes, Standing
  <2>4. Ledger!EndedAs(Calls, w, "Pending") = {}
    BY <2>1 DEF Ledger!EndedAs, Ledger!CallsBy, Calls, CallOf, CallsAt, ListingsOf, ListingsAt
  <2>5. Ledger!Close(w)
    BY <2>1, <2>3, <2>4 DEF Ledger!Close, Standing, Calls, CallOf
  <2>6. QED
    BY <2>1, <2>5 DEF LedgerMoves
<1>6. ASSUME NEW w, Slashes(w) PROVE Goal
  <2>1. PICK burned \in Nat : stalls' = [stalls EXCEPT ![w] = StallSlashed(@, burned)]
    BY <1>6 DEF Slashes
  <2>2. /\ w \in DOMAIN stalls /\ w \in Wallets /\ Standing[w] = "open" /\ stalls[w] \in Stall
        /\ DOMAIN stalls' = DOMAIN stalls
        /\ stalls'[w] = StallSlashed(stalls[w], burned)
        /\ \A o \in DOMAIN stalls : o # w => stalls'[o] = stalls[o]
    BY <1>0, <1>6, <2>1 DEF Slashes, BondedStalls
  <2>3. StandingOf(stalls'[w]) = "slashed"
    BY <2>2, ReleasedFields DEF StandingOf
  <2>4. Standing' = [Standing EXCEPT ![w] = "slashed"] /\ Calls' = Calls
    BY <1>6, <1>b, <2>2, <2>3 DEF Slashes, Standing
  <2>5. Ledger!Slash(w)
    BY <2>2, <2>4 DEF Ledger!Slash, Standing, Calls, CallOf
  <2>6. QED
    BY <2>2, <2>5 DEF LedgerMoves
<1>7. QED
  BY <1>1, <1>2, <1>3, <1>4, <1>5, <1>6 DEF Shapes

\* The program implements the ledger: for every set of wallets and mints and every limit,
\* its accounts start as an empty ledger, every instruction opens, closes or slashes a
\* stall, commits or settles one call, or leaves the ledger alone, and the counters stored
\* in a stall are the tally of its calls after each of them.
THEOREM ImplementsLedger == Spec => RefinesLedger
<1>1. Init => Ledger!Init
  <2> SUFFICES ASSUME Init PROVE Ledger!Init
    OBVIOUS
  <2>1. DOMAIN stalls = {} /\ DOMAIN listings = {}
    BY DEF Init
  <2>2. BondedStalls = {}
    BY <2>1 DEF BondedStalls
  <2>3. QED
    BY <2>1, <2>2 DEF Ledger!Init
<1>2. /\ TypeOK /\ BooksInv /\ EscrowInv /\ LedgerAgreed /\ LedgerAgreed' /\ [Next]_vars
      => [Ledger!Next]_Ledger!ledger
  <2> SUFFICES ASSUME TypeOK, BooksInv, EscrowInv, LedgerAgreed, LedgerAgreed', [Next]_vars
               PROVE  [Ledger!Next]_Ledger!ledger
    OBVIOUS
  <2>1. LedgerMoves \/ (Standing' = Standing /\ Calls' = Calls)
    BY StepShapes, LedgerStep DEF EscrowInv
  <2>2. CASE LedgerMoves
    BY <2>2 DEF LedgerAgreed, LedgerMoves, Ledger!Next, Ledger!Follows,
                Standing, Calls, CallOf, Records
  <2>3. CASE Standing' = Standing /\ Calls' = Calls
    <3>1. BondedStalls' = BondedStalls /\ Records' = Records
      BY <2>3 DEF LedgerAgreed
    <3>2. QED
      BY <2>3, <3>1 DEF Ledger!ledger, Standing, Calls, CallOf, Records
  <2>4. QED
    BY <2>1, <2>2, <2>3
<1>3. Spec => []LedgerAgreed
  BY LedgerAgrees, CountersCorrect, EscrowCorrect, PTL
<1>4. QED
  BY <1>1, <1>2, <1>3, TypeCorrect, BooksInvariant, EscrowInvariant, PTL
     DEF Spec, RefinesLedger, Ledger!Spec
=============================================================================
