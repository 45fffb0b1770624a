----------------------------- MODULE BazrMarket -----------------------------
(***************************************************************************)
(* The market program of bazr (Anchor, on Solana): the market account, the *)
(* stalls and their listings, and the escrow of stall bonds.               *)
(*                                                                         *)
(* An instruction is one atomic transaction: its account constraints, its  *)
(* handler and the token-program calls it makes either all take effect or  *)
(* none does.  Each instruction is therefore one action, whose guard is    *)
(* the conjunction of everything that would make the transaction fail.     *)
(*                                                                         *)
(* What is abstracted: a program-derived account is a key of a function    *)
(* (the stall of owner o is stalls[o], its listing of mint m is            *)
(* listings[<<o, m>>]); bumps, the reserved tails and the emitted events   *)
(* are left out; a URI is its length in bytes; a thesis hash is a natural  *)
(* number, the all-zero hash being 0; a relic score is one of Scores.      *)
(***************************************************************************)
EXTENDS Integers, FiniteSets, Functions

CONSTANTS
  Wallets,              \* the keys that sign transactions
  NoWallet,             \* the authority of a market that does not exist
  Mints,                \* the memes that may be listed
  BondAmounts,          \* inputs of initialize_market: stall_bond_amount
  BpsChoices,           \*   slash_bps and fee_bps
  Uris,                 \* inputs of open_stall, set_stall_uri: byte lengths
  Scores,               \* inputs of list_relic: relic scores
  ThesisHashes,         \*   and thesis hashes
  MAX_BPS, MAX_RELIC_SCORE, MAX_STALL_URI_LEN, REPUTATION_STEP,
  U32_MAX, U64_MAX, I64_MAX,
  InitialBalance,       \* tokens of the bond mint every wallet starts with
  InitialSupply,        \* supply of the bond mint when the market starts
  TransferFee,          \* tokens a Token-2022 bond mint withholds per transfer
  MaxClock              \* bound on the cluster clock

ASSUME WalletsAssumption == IsFiniteSet(Wallets) /\ NoWallet \notin Wallets
ASSUME InputsAssumption ==
  /\ BondAmounts \subseteq 0..U64_MAX /\ BpsChoices \subseteq Nat
  /\ Uris \subseteq Nat /\ Scores \subseteq Nat /\ ThesisHashes \subseteq Nat
ASSUME LimitsAssumption ==
  /\ MAX_BPS \in Nat \ {0} /\ MAX_RELIC_SCORE \in Nat
  /\ MAX_STALL_URI_LEN \in Nat /\ REPUTATION_STEP \in Nat \ {0}
  /\ U32_MAX \in Nat /\ U64_MAX \in Nat /\ I64_MAX \in Nat
\* u32 counters cannot push an i64 reputation out of its range.
ASSUME WidthAssumption == \A n \in 0..U32_MAX : REPUTATION_STEP * n <= I64_MAX
ASSUME TokensAssumption ==
  /\ InitialBalance \in Nat /\ InitialSupply \in 0..U64_MAX
  /\ InitialBalance * Cardinality(Wallets) <= InitialSupply
  /\ TransferFee \in Nat /\ MaxClock \in Nat \ {0} /\ MaxClock <= I64_MAX

VARIABLES
  market,     \* the Market account
  stalls,     \* owner -> Stall, for the stall accounts that exist
  listings,   \* <<owner, mint>> -> Listing, for those that exist
  wallet,     \* wallet -> its balance of the bond mint
  vault,      \* balance of the bond vault
  supply,     \* supply of the bond mint
  now         \* unix_timestamp of the cluster clock

vars == <<market, stalls, listings, wallet, vault, supply, now>>

-----------------------------------------------------------------------------
(* Accounts *)

Outcomes == {"Pending", "Survived", "Faded", "Withdrawn"}
Graded   == {"Survived", "Faded"}

Market ==
  [initialized : BOOLEAN, authority : Wallets \cup {NoWallet},
   stall_bond_amount : 0..U64_MAX, total_stalls : 0..U64_MAX,
   total_listings : 0..U64_MAX, total_resolved_wins : 0..U64_MAX,
   total_resolved_losses : 0..U64_MAX, total_bond_burned : 0..U64_MAX,
   slash_bps : 0..MAX_BPS, fee_bps : 0..MAX_BPS, paused : BOOLEAN]

Stall ==
  [bond_amount : 0..U64_MAX, slashed_amount : 0..U64_MAX,
   opened_at : 0..MaxClock, closed_at : 0..MaxClock,
   reputation : (-I64_MAX - 1)..I64_MAX,
   listings_count : 0..U32_MAX, active_listings : 0..U32_MAX,
   resolved_wins : 0..U32_MAX, resolved_losses : 0..U32_MAX,
   slashed : BOOLEAN, uri : Nat]

Listing ==
  [thesis_hash : Nat, relic_score_at_listing : 0..MAX_RELIC_SCORE,
   listed_at : 0..MaxClock, resolved_at : 0..MaxClock, outcome : Outcomes]

\* The accounts of f and a new one at k: Anchor's `init`.
Created(f, k, account) ==
  [x \in DOMAIN f \cup {k} |-> IF x = k THEN account ELSE f[x]]

NewStall(bond, uri) ==
  [bond_amount |-> bond, slashed_amount |-> 0, opened_at |-> now,
   closed_at |-> 0, reputation |-> 0, listings_count |-> 0,
   active_listings |-> 0, resolved_wins |-> 0, resolved_losses |-> 0,
   slashed |-> FALSE, uri |-> uri]

NewListing(score, hash) ==
  [thesis_hash |-> hash, relic_score_at_listing |-> score,
   listed_at |-> now, resolved_at |-> 0, outcome |-> "Pending"]

\* u32::saturating_sub and u64::saturating_sub.
SaturatingSub(a, b) == IF a >= b THEN a - b ELSE 0

\* What arrives when n tokens are sent: a Token-2022 mint with the transfer-fee
\* extension keeps a part, every other mint nothing.
Received(n) == SaturatingSub(n, TransferFee)

UriAccepted(uri) == uri > 0 /\ uri <= MAX_STALL_URI_LEN

-----------------------------------------------------------------------------
(* Instructions *)

\* Mutant: initialize_market takes any slash_bps and fee_bps.
InitializeMarketUnbounded(signer, bond, slash, fee) ==
  /\ ~market.initialized /\ bond > 0
  /\ market' = [market EXCEPT !.initialized = TRUE, !.authority = signer,
                              !.stall_bond_amount = bond,
                              !.slash_bps = slash, !.fee_bps = fee]
  /\ UNCHANGED <<stalls, listings, wallet, vault, supply, now>>

InitializeMarket(signer, bond, slash, fee) ==
  /\ ~market.initialized
  /\ bond > 0 /\ slash <= MAX_BPS /\ fee <= MAX_BPS
  /\ market' = [initialized |-> TRUE, authority |-> signer,
                stall_bond_amount |-> bond, total_stalls |-> 0,
                total_listings |-> 0, total_resolved_wins |-> 0,
                total_resolved_losses |-> 0, total_bond_burned |-> 0,
                slash_bps |-> slash, fee_bps |-> fee, paused |-> FALSE]
  /\ UNCHANGED <<stalls, listings, wallet, vault, supply, now>>

OpenStall(owner, uri) ==
  LET bond == market.stall_bond_amount IN
  /\ market.initialized /\ ~market.paused
  /\ owner \notin DOMAIN stalls
  /\ UriAccepted(uri)
  /\ wallet[owner] >= bond
  /\ market.total_stalls + 1 <= U64_MAX
  /\ wallet' = [wallet EXCEPT ![owner] = @ - bond]
  /\ vault' = vault + Received(bond)
  /\ stalls' = Created(stalls, owner, NewStall(bond, uri))
  /\ market' = [market EXCEPT !.total_stalls = @ + 1]
  /\ UNCHANGED <<listings, supply, now>>

StallListed(s) ==
  [s EXCEPT !.listings_count = @ + 1, !.active_listings = @ + 1]

ListRelic(owner, mint, score, hash) ==
  /\ market.initialized /\ ~market.paused
  /\ owner \in DOMAIN stalls
  /\ ~stalls[owner].slashed /\ stalls[owner].closed_at = 0
  /\ <<owner, mint>> \notin DOMAIN listings
  /\ score <= MAX_RELIC_SCORE
  /\ hash # 0
  /\ stalls[owner].listings_count + 1 <= U32_MAX
  /\ stalls[owner].active_listings + 1 <= U32_MAX
  /\ market.total_listings + 1 <= U64_MAX
  /\ listings' = Created(listings, <<owner, mint>>, NewListing(score, hash))
  /\ stalls' = [stalls EXCEPT ![owner] = StallListed(@)]
  /\ market' = [market EXCEPT !.total_listings = @ + 1]
  /\ UNCHANGED <<wallet, vault, supply, now>>

\* The arithmetic of resolve_listing that is checked: a grade that would
\* overflow a counter aborts the transaction.
GradeFits(s, outcome) ==
  \/ /\ outcome = "Survived"
     /\ s.resolved_wins + 1 <= U32_MAX
     /\ s.reputation + REPUTATION_STEP <= I64_MAX
     /\ market.total_resolved_wins + 1 <= U64_MAX
  \/ /\ outcome = "Faded"
     /\ s.resolved_losses + 1 <= U32_MAX
     /\ s.reputation - REPUTATION_STEP >= -I64_MAX - 1
     /\ market.total_resolved_losses + 1 <= U64_MAX

\* Mutants: a settled listing keeps no end time, gets its end time in the wrong
\* field, or stays pending; a settled listing stays active.
ListingSettledUndated(l, outcome) == [l EXCEPT !.outcome = outcome]
ListingSettledRedated(l, outcome) ==
  [l EXCEPT !.outcome = outcome, !.listed_at = now, !.resolved_at = now]
ListingSettledPending(l, outcome) == [l EXCEPT !.resolved_at = now]
StallSettledActive(s) == s

\* The listing l once it ended as `outcome`, and its stall.
ListingSettled(l, outcome) == [l EXCEPT !.outcome = outcome, !.resolved_at = now]

StallSettled(s) == [s EXCEPT !.active_listings = SaturatingSub(@, 1)]

\* Mutant: a loss is counted but costs no reputation.
StallGradedLenient(s, outcome) ==
  IF outcome = "Survived"
  THEN [StallSettled(s) EXCEPT !.resolved_wins = @ + 1,
                               !.reputation = @ + REPUTATION_STEP]
  ELSE [StallSettled(s) EXCEPT !.resolved_losses = @ + 1]

\* The stall s once one of its listings is graded.
StallGraded(s, outcome) ==
  IF outcome = "Survived"
  THEN [StallSettled(s) EXCEPT !.resolved_wins = @ + 1,
                               !.reputation = @ + REPUTATION_STEP]
  ELSE [StallSettled(s) EXCEPT !.resolved_losses = @ + 1,
                               !.reputation = @ - REPUTATION_STEP]

\* Mutant: the market counts the wins only.
MarketGradedWins(outcome) ==
  [market EXCEPT !.total_resolved_wins = @ + IF outcome = "Survived" THEN 1 ELSE 0]

\* The market once a listing is graded.
MarketGraded(outcome) ==
  IF outcome = "Survived"
  THEN [market EXCEPT !.total_resolved_wins = @ + 1]
  ELSE [market EXCEPT !.total_resolved_losses = @ + 1]

ResolveListing(signer, owner, mint, outcome) ==
  /\ market.initialized /\ signer = market.authority
  /\ <<owner, mint>> \in DOMAIN listings
  /\ listings[<<owner, mint>>].outcome = "Pending"
  /\ outcome \in Graded
  /\ GradeFits(stalls[owner], outcome)
  /\ listings' = [listings EXCEPT ![<<owner, mint>>] = ListingSettled(@, outcome)]
  /\ stalls' = [stalls EXCEPT ![owner] = StallGraded(@, outcome)]
  /\ market' = MarketGraded(outcome)
  /\ UNCHANGED <<wallet, vault, supply, now>>

WithdrawListing(owner, mint) ==
  /\ <<owner, mint>> \in DOMAIN listings
  /\ listings[<<owner, mint>>].outcome = "Pending"
  /\ listings' = [listings EXCEPT ![<<owner, mint>>] = ListingSettled(@, "Withdrawn")]
  /\ stalls' = [stalls EXCEPT ![owner] = StallSettled(@)]
  /\ UNCHANGED <<market, wallet, vault, supply, now>>

SetStallUri(owner, uri) ==
  /\ owner \in DOMAIN stalls /\ ~stalls[owner].slashed
  /\ UriAccepted(uri)
  /\ stalls' = [stalls EXCEPT ![owner].uri = uri]
  /\ UNCHANGED <<market, listings, wallet, vault, supply, now>>

\* The account constraints of close_stall and its first check.
Closable(s) ==
  ~s.slashed /\ s.closed_at = 0 /\ s.active_listings = 0 /\ s.bond_amount > 0

\* The vault can pay the bond back and checked_sub does not underflow.
CloseFits(bond) == vault >= bond /\ market.total_stalls >= 1

\* Mutant: a closed stall keeps its bond on the books.
StallClosedBonded(s) == [s EXCEPT !.closed_at = now]

StallClosed(s) == [s EXCEPT !.bond_amount = 0, !.closed_at = now]

CloseStall(owner) ==
  LET bond == stalls[owner].bond_amount IN
  /\ owner \in DOMAIN stalls
  /\ Closable(stalls[owner])
  /\ CloseFits(bond)
  /\ vault' = vault - bond
  /\ wallet' = [wallet EXCEPT ![owner] = @ + Received(bond)]
  /\ stalls' = [stalls EXCEPT ![owner] = StallClosed(@)]
  /\ market' = [market EXCEPT !.total_stalls = @ - 1]
  /\ UNCHANGED <<listings, supply, now>>

\* The share of a bond that a slash burns, rounded down.
BurnOf(bond, bps) == (bond * bps) \div MAX_BPS

Slashable(s) == ~s.slashed /\ s.bond_amount > 0

\* What slash_stall needs of its arithmetic and of the token program: nothing
\* underflows, the vault can pay, and the burned total keeps its width.  The
\* product bond * slash_bps is taken in u128, which holds any u64 * u16.
SlashFits(bond, burned) ==
  /\ burned <= bond
  /\ vault >= bond /\ supply >= burned
  /\ market.total_bond_burned + burned <= U64_MAX

\* Mutants: a slashed stall keeps its bond on the books, or is marked with the
\* whole bond instead of the part that was burned.
StallSlashedBonded(s, burned) == [s EXCEPT !.slashed = TRUE, !.slashed_amount = burned]
StallSlashedWhole(s, burned) ==
  [s EXCEPT !.slashed = TRUE, !.slashed_amount = s.bond_amount, !.bond_amount = 0]

StallSlashed(s, burned) ==
  [s EXCEPT !.slashed = TRUE, !.slashed_amount = burned, !.bond_amount = 0]

SlashStall(signer, owner) ==
  LET bond == stalls[owner].bond_amount
      burned == BurnOf(bond, market.slash_bps)
  IN
  /\ market.initialized /\ signer = market.authority
  /\ owner \in DOMAIN stalls
  /\ Slashable(stalls[owner])
  /\ market.slash_bps <= MAX_BPS
  /\ SlashFits(bond, burned)
  /\ vault' = vault - bond
  /\ supply' = supply - burned
  /\ wallet' = [wallet EXCEPT ![owner] = @ + Received(bond - burned)]
  /\ stalls' = [stalls EXCEPT ![owner] = StallSlashed(@, burned)]
  /\ market' = [market EXCEPT !.total_bond_burned = @ + burned,
                              !.total_stalls = SaturatingSub(@, 1)]
  /\ UNCHANGED <<listings, now>>

-----------------------------------------------------------------------------
(* The surroundings of the program *)

\* Anybody may send tokens to the vault: it is an ordinary token account.
SendToVault(sender, n) ==
  /\ market.initialized /\ wallet[sender] >= n
  /\ wallet' = [wallet EXCEPT ![sender] = @ - n]
  /\ vault' = vault + Received(n)
  /\ UNCHANGED <<market, stalls, listings, supply, now>>

Tick ==
  /\ now < MaxClock
  /\ now' = now + 1
  /\ UNCHANGED <<market, stalls, listings, wallet, vault, supply>>

Init ==
  /\ market = [initialized |-> FALSE, authority |-> NoWallet,
               stall_bond_amount |-> 0, total_stalls |-> 0,
               total_listings |-> 0, total_resolved_wins |-> 0,
               total_resolved_losses |-> 0, total_bond_burned |-> 0,
               slash_bps |-> 0, fee_bps |-> 0, paused |-> FALSE]
  /\ stalls = [o \in {} |-> 0]
  /\ listings = [k \in {} |-> 0]
  /\ wallet = [w \in Wallets |-> InitialBalance]
  /\ vault = 0
  /\ supply = InitialSupply
  /\ now = 1

Next ==
  \/ \E w \in Wallets, b \in BondAmounts, s \in BpsChoices, f \in BpsChoices :
        InitializeMarket(w, b, s, f)
  \/ \E w \in Wallets, u \in Uris : OpenStall(w, u)
  \/ \E w \in Wallets, m \in Mints, s \in Scores, h \in ThesisHashes :
        ListRelic(w, m, s, h)
  \/ \E w \in Wallets, o \in Wallets, m \in Mints, out \in Outcomes :
        ResolveListing(w, o, m, out)
  \/ \E w \in Wallets, m \in Mints : WithdrawListing(w, m)
  \/ \E w \in Wallets, u \in Uris : SetStallUri(w, u)
  \/ \E w \in Wallets : CloseStall(w)
  \/ \E w \in Wallets, o \in Wallets : SlashStall(w, o)
  \/ \E w \in Wallets : SendToVault(w, 1)
  \/ Tick

Spec == Init /\ [][Next]_vars

-----------------------------------------------------------------------------
(* Properties *)

TypeOK ==
  /\ market \in Market
  /\ stalls \in [DOMAIN stalls -> Stall] /\ DOMAIN stalls \subseteq Wallets
  /\ listings \in [DOMAIN listings -> Listing]
  /\ DOMAIN listings \subseteq (DOMAIN stalls) \X Mints
  /\ wallet \in [Wallets -> Nat] /\ vault \in Nat /\ supply \in 0..U64_MAX
  /\ now \in 1..MaxClock

\* The listings of a stall that ended (or stand) as `outcome`.
ListingsOf(owner) == {k \in DOMAIN listings : k[1] = owner}
ListingsAt(outcome) == {k \in DOMAIN listings : listings[k].outcome = outcome}
CallsAt(owner, outcome) == ListingsOf(owner) \cap ListingsAt(outcome)

\* The stalls whose bond is in escrow.
BondedStalls == {o \in DOMAIN stalls : stalls[o].bond_amount > 0}

\* A stall's counters are redundant with its listing accounts, which nobody
\* recomputes: whatever the order of listings, grades, withdrawals, slashes and
\* closes, each counter is the number of listings it claims to count, and the
\* reputation is what the graded ones add up to.  In particular the
\* saturating_sub of active_listings never saturates.
CountersMatchListings ==
  \A o \in DOMAIN stalls :
    LET s == stalls[o] IN
    /\ s.listings_count  = Cardinality(ListingsOf(o))
    /\ s.active_listings = Cardinality(CallsAt(o, "Pending"))
    /\ s.resolved_wins   = Cardinality(CallsAt(o, "Survived"))
    /\ s.resolved_losses = Cardinality(CallsAt(o, "Faded"))
    /\ s.reputation = REPUTATION_STEP * (s.resolved_wins - s.resolved_losses)

\* The market's totals agree with all the accounts below it: total_stalls counts
\* the stalls open now (slash_stall's saturating_sub never hides a miscount),
\* the others count listings, and losses are counted like wins.
TotalsMatchAccounts ==
  /\ market.total_stalls          = Cardinality(BondedStalls)
  /\ market.total_listings        = Cardinality(DOMAIN listings)
  /\ market.total_resolved_wins   = Cardinality(ListingsAt("Survived"))
  /\ market.total_resolved_losses = Cardinality(ListingsAt("Faded"))

\* With a bond mint that withholds nothing, the vault covers every bond in
\* escrow at once, each of them the market's bond amount, and a bond is in
\* escrow exactly while the stall is neither closed nor slashed.
EscrowCovered ==
  /\ \A o \in DOMAIN stalls :
       /\ o \in BondedStalls => stalls[o].bond_amount = market.stall_bond_amount
       /\ o \in BondedStalls <=> ~stalls[o].slashed /\ stalls[o].closed_at = 0
  /\ TransferFee = 0 =>
       vault >= market.stall_bond_amount * Cardinality(BondedStalls)

\* The tokens in the wallets, and those burned by the slashes of the stalls there are.
Held == SumFunction(wallet)
SlashMarks == SumFunction([o \in DOMAIN stalls |-> stalls[o].slashed_amount])

\* No instruction creates a token, with whatever bond mint, and none loses one if the
\* mint withholds nothing: what the wallets and the vault miss from the start is what
\* slash_stall burned.  The supply of the mint shrank by just as much, and the slash
\* marks of the stalls add up to it.
TokensConserved ==
  LET burned == market.total_bond_burned
      known  == Held + vault + burned
      start  == InitialBalance * Cardinality(Wallets)
  IN
  /\ known <= start
  /\ TransferFee = 0 => known = start
  /\ supply + burned = InitialSupply
  /\ burned = SlashMarks

\* The grade of a pending listing never aborts: whatever the stall and the market
\* have counted so far, win and loss alike still fit their counters, so no call
\* stays pending because its result cannot be written down.
GradesNeverStuck ==
  \A k \in ListingsAt("Pending"), outcome \in Graded : GradeFits(stalls[k[1]], outcome)

\* With a bond mint that withholds nothing, a stall that may be closed or slashed
\* can be: the vault can pay, no counter under- or overflows.  A slash that
\* aborted would leave a bond that can be neither burned nor returned.
BondsNeverStuck ==
  TransferFee = 0 => \A o \in DOMAIN stalls :
    LET bond == stalls[o].bond_amount IN
    /\ Closable(stalls[o]) => CloseFits(bond)
    /\ Slashable(stalls[o]) => SlashFits(bond, BurnOf(bond, market.slash_bps))

\* A call was made after its stall opened, carries an end time exactly when it is
\* settled, and was settled by the time its stall closed.
CallDated(k) ==
  LET l == listings[k]
      s == stalls[k[1]]
  IN
  /\ s.opened_at <= l.listed_at
  /\ l.resolved_at = 0 <=> l.outcome = "Pending"
  /\ l.resolved_at # 0 => l.listed_at <= l.resolved_at
  /\ s.closed_at # 0 => l.outcome # "Pending" /\ l.resolved_at <= s.closed_at

\* The time stamps tell the story in order: a listing is made after its stall
\* opened, carries an end time exactly when it is settled, and a stall that is
\* closed was closed after every one of its listings was settled.
HistoryOrdered ==
  /\ \A k \in DOMAIN listings : CallDated(k)
  /\ \A o \in DOMAIN stalls : stalls[o].closed_at \in {0} \cup stalls[o].opened_at..now

\* What a step may not do to a call, and what it may not do to a stall.
CallKept(k) ==
  /\ k \in DOMAIN listings'
  /\ listings'[k].thesis_hash = listings[k].thesis_hash
  /\ listings'[k].listed_at = listings[k].listed_at
  /\ listings[k].outcome # "Pending" => listings'[k] = listings[k]

StallKept(o) ==
  /\ o \in DOMAIN stalls'
  /\ stalls'[o].opened_at = stalls[o].opened_at
  /\ stalls'[o].resolved_wins >= stalls[o].resolved_wins
  /\ stalls'[o].resolved_losses >= stalls[o].resolved_losses
  /\ o \notin BondedStalls =>
       /\ stalls'[o].slashed = stalls[o].slashed
       /\ stalls'[o].slashed_amount = stalls[o].slashed_amount
       /\ stalls'[o].closed_at = stalls[o].closed_at
       /\ stalls'[o].bond_amount = 0
       /\ stalls'[o].listings_count = stalls[o].listings_count

HistoryKept ==
  /\ \A k \in DOMAIN listings : CallKept(k)
  /\ \A o \in DOMAIN stalls : StallKept(o)

\* No step erases or rewrites history: accounts stay, a commitment and a settled
\* listing never change, a slash or a closing is for good and ends the listing of
\* new calls, and neither wins nor losses ever go down.
HistoryPermanent == [][HistoryKept]_vars

\* The ledger of StallLedger, read off the accounts.
StandingOf(s) ==
  IF s.slashed THEN "slashed" ELSE IF s.closed_at # 0 THEN "closed" ELSE "open"
CommitmentOf(l) == <<l.thesis_hash, l.relic_score_at_listing, l.listed_at>>
RecordOf(s) ==
  [made |-> s.listings_count, standing |-> s.active_listings,
   won |-> s.resolved_wins, lost |-> s.resolved_losses, reputation |-> s.reputation]

Ledger == INSTANCE StallLedger WITH
  Commitments <- ThesisHashes \X Scores \X (1..MaxClock),
  ReputationStep <- REPUTATION_STEP,
  standing <- [o \in DOMAIN stalls |-> StandingOf(stalls[o])],
  bonded <- BondedStalls,
  calls <- [k \in DOMAIN listings |->
              [commitment |-> CommitmentOf(listings[k]), end |-> listings[k].outcome]],
  record <- [o \in DOMAIN stalls |-> RecordOf(stalls[o])]

\* The accounts are a ledger that is only appended to: every instruction opens,
\* closes or slashes a stall, commits or settles one call, or leaves the ledger
\* alone, and the counters stored in a stall are always the tally of its calls.
RefinesLedger == Ledger!Spec
=============================================================================
