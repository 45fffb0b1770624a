# TLA+ models of BAZR

BAZR is a market for track records of meme-token curators: a Solana program
(`anchor-program/`) that holds stalls, their bonds and their graded calls, and
a browser extension (`tag-extension/`) that shows the scores of a remote API on
the pages one visits. This directory models both with TLA+, and the scripts that
check the deployed program and release the extension. TLC checks the models, and
TLAPS proves, for every size of the instance, what the runs check of their
safety, the pure functions of base58 apart.

## The system

| part | state | operations | what is hard |
|---|---|---|---|
| market program: market, stalls, listings (`programs/bazr-market/src`) | the market account with its totals, one stall account per owner, one listing account per stall and mint, the bond vault, the bond mint | 8 instructions, each one transaction | redundant counters nobody recomputes; one vault for all the bonds; permanence of the record under every order of instructions; fixed widths |
| crates (same program) | one account per creator and id | `create_crate`, `rebalance_crate`, `freeze_crate` | a nested validation loop whose result is never checked again |
| request queue (`background/queue.js`) with `request()` (`shared/api.js`) | pending jobs, slots taken, a backoff deadline, a drain loop | `push`, the end of a request, `applyBackoff`, the loop's timer | callbacks between two awaits; lost wakeups; 429s of several requests at once; a timeout that does not cover all of a request |
| service worker and caches (`background/index.js`, `cache.js`) | two maps in `chrome.storage.local`, a list of recent lookups | lookups, the sweep, clear | read-modify-write across awaits, without a lock; the browser ends the worker at any moment |
| settings (`shared/settings.js`) and the options page (`options/options.js`) | one storage key, a copy in every open page, the worker's API client | open, flip a switch, set the base, refusals, change events, the health check | read-modify-write without a lock; replies and change events come on two ways; stale copies |
| content script (`content/index.js`, `scanner.js`) | candidates waiting for the viewport, a batch and the batches under way, tags and markers, the marker of a detail page | scan, batch, answer, page marker, change of URL, change of settings, retry | answers that arrive after the page, its URL or the settings changed; five collections and two timers that hand a candidate on |
| overlay (`content/overlay.js`) | one panel, a hover timer per marker, a hide timer, notices with timers | hover, pin, hide, show and end a notice | timers that fire after what they were set for has gone |
| popup (`popup/popup.js`) | what it shows, a busy flag; in the worker its lookups and the recent list | look up, refresh, reset, load the list and the status | a popup closes, its lookups go on and meet those of the next one |
| response, formatting, rendering (`shared/api.js`, `format.js`, `render.js`) | none | a response made regular, then drawn | what is missing must not become a number |
| base58 and candidates (`shared/base58.js`) | none | decode, find addresses in a text or a URL | words that are not addresses |
| devnet scripts (`anchor-program/scripts`) | the chain, a state file | the cycle through every instruction, the verification of its file, a new URI | lost replies, transactions that land late, reruns after a crash |
| release build, archive (`tag-extension/scripts/build.mjs`, `zip.mjs`) | the build directory | eight steps, each of which may fail; write and read a ZIP | stale files of an earlier build; fields of 16 and 32 bits |
| IDL check (`.github/scripts/check-idl.mjs`) | none | read, extract, compare | regular expressions over the raw text, which stop matching an item or match a comment |

The instructions interact only through the accounts: those of the stalls and
listings through the market's counters and the vault, those of the crates with
them through nothing but the market account's existence (`total_crates` is
theirs alone). In the extension the content script, the popup and the options
page send messages to the service worker; the worker answers from its caches or
by a job of the queue; the queue calls the API. The caches, the settings and the
recent list survive the worker; the queue and the client do not.

The scoring API and the indexer are documented in `docs/` but not part of the
repository. They appear as the server that answers.

## Modules

The market:

* **BazrMarket** -- one action per instruction. A Solana transaction
  is atomic, so the action is the conjunction of the account constraints, the
  checks, the checked arithmetic and what the token program demands, and then
  all the assignments. A PDA is a key of a function: the stall of `o` is
  `stalls[o]`, its listing of `m` is `listings[<<o, m>>]`, and Anchor's `init`
  is "not yet in the domain". Left out are bumps, reserved bytes, events and the
  contents of URIs and hashes. Token accounts are balances; an owner's token
  account is taken to exist. `Received` is what arrives of a transfer when the
  bond mint withholds a fee. `SendToVault` is a donation, which anybody can make.
  `paused` is in the state and in the guards, but no instruction sets it (while
  `market.rs:6` and `docs/stall-spec.md:120` say the authority can pause), so
  the models, like the program, never pause.
* **StallLedger** -- what the market promises, without tokens, clocks and
  counters: a ledger of calls that is only appended to, where a stall opens
  once, a call is settled once, and the record shown is the tally of the calls.
  `BazrMarket!RefinesLedger` reads it off the accounts.
* **BazrCrate** -- crates, with `validate_basket` as the loop it is and, as its
  reference, `Allocation`: a function from mints to shares that add up.

The worker of the extension:

* **RequestQueue** -- the queue together with the requests it runs. One action is
  what JavaScript runs between two awaits: `drain()` is therefore part of `Push`,
  `Settled` and `Wake`, not an action of its own. A request in flight waits for
  headers, under the abort timer, and then for its body, under none. Time is
  relative: what is left of the backoff and of the loop's sleep.
* **TagBackground** -- lookups, sweep, clear and teardown over the two caches,
  one action per stretch between two awaits. A lookup carries the map it read and
  is about to write. A cached entry is its time stamp.
* **TagSettings** -- the settings from a click to the reply. A save is a record
  that passes through message, read, write and reply, each an action; the worker
  takes messages, storage calls and replies in the order they were made, and
  change events travel beside the replies. A page has its copy (`settings`) and
  what its switches show. A preset and a typed base are both `SaveApiBase`, once
  the base is valid and permitted. The client is its base (`clientBase`); a health
  check is a read of the settings, the choice of a client and an answer. `chose`
  and `writer` are histories for the properties. A write that lands after the
  browser has ended the worker is taken to have landed before.

The pages of the extension:

* **ContentScript** -- one page with its script. A candidate is a pair of a host
  element and an address; `pending`, `batch` and each of `flights` hold copies of
  candidates, counted up to two, since nothing tells two from more. An action is
  one callback: the scan timer, the observer, the batch timer, the answer to a
  batch or to the question about the page's token, a change of URL or settings,
  the notice's buttons. Which addresses go out when not all fit into a message is
  left open. The page moves in two ways. `PopState` runs the script's handler, which
  compares with the URL it saw last. `PushState`, the page's own `pushState()` or
  `replaceState()`, runs none: `index.js:309` patches the `history` of the isolated world
  that a content script lives in (the manifest names no other), and the page calls its
  own. A save of the settings may keep the verdict on the page or turn it. `orphans` are
  the page markers in the document that nothing refers to. `failed`, `pageFailed` and
  `asked` are histories: whose last question got no verdict, and the URL whose token the
  script looked for last.
* **TagOverlay** -- the panel and the notices, with a timer as a flag. The page may
  take any element away at any moment, of which no listener hears; `lost` notes
  that this happened under the pointer.
* **TagPopup** -- one popup at a time over the lookups in the worker. A lookup is
  a record with the popup that asked; its outcome is a relic, an error or none. The
  recent list is read, changed and written back in two steps. `found` is a history.

What is drawn, and the scripts:

* **RelicView** -- functions from a response to the rows of the tag, its notes and
  the notice of a failure, over all responses of up to three axes.
* **Base58** -- the decoder, the shape test and the search, checked over all texts up
  to five characters in an alphabet of three digits and a byte of five values. The loops
  are recursive functions of what is left or of the place in the text; a character is a
  digit, or one of the three kinds that the search tells apart.
* **DevnetCycle** -- `devnet-cycle.ts` as a list of steps, each of which sends a
  transaction that lands, does not, or lands late and without a reply;
  `withRetry` sends again, a run may end anywhere, and the next one starts from the
  chain. `verify-devnet.ts` and `set-stall-uri.ts` run beside it. The program's
  rules are here only the condition under which an instruction goes through.
* **ReleaseBuild** -- the steps of `build.mjs` as a function of a checkout, the disk
  an earlier build left, and the step at which this build is killed.
* **ZipArchive** -- what the writer lays down, as records at offsets, and what the
  reader makes of it; the widths of the fields are small so that lists reach them.
* **IdlCheck** -- the verdict as a function of what the IDL has and what each text of the
  source has of each item: its declaration in a form that the expressions match or in one
  that they miss, only a comment that they match, or nothing.

* **TagPanel**, **PopupText** and **DevnetTools** put modules side by side that share no
  state: the overlay and what it draws, the popup and the texts it is given, the devnet
  scripts and what releases the extension. They hold the properties that gather those of
  the modules without variables.

**BazrMarketProofs**, **BazrCrateProofs**, **TagBackgroundProofs** (caches and queue),
**TagSettingsProofs**, **ContentScriptProofs** (script, overlay and tag),
**TagPopupProofs** (popup and Base58) and **DevnetCycleProofs** (scripts, archive, build,
IDL check) hold the theorems, **SumLemmas** what several of them need of sums and of least elements. **MC...**
modules hold what only TLC needs: symmetry, input lists, the sites of a page, and statements
that TLC refutes.
The modules without variables are checked beside one that has them: RelicView with the
overlay, Base58 with the popup, the build, archive and IDL check with the devnet scripts.

Definitions after a "Mutant:" comment are deliberately wrong variants of the
definition below them, used to see each property fail.

## Properties and runs

| run | instance | shows |
|---|---|---|
| `market_books` | 2 wallets (one may be authority and owner), 2 mints, bonds of 3 tokens, slash shares 0, 1/3 rounded down and all, invalid inputs of every kind | counters = listings, totals = accounts, vault covers the bonds, no token created or lost |
| `market_history` | 3 mints, a u32 of 2, a u64 of 3, a clock that moves | time stamps ordered, nothing rewritten, no grade and no bond stuck, the accounts implement StallLedger |
| `crate` | 2 creators, 3 mints, valid lists and one for each way to be refused; `CheckIsExact` over all pairs of lists up to length 4 | stored baskets are full allocations, `validate_basket` accepts exactly those, compositions change only when counted, never once frozen |
| `queue` | 4 jobs, 2 slots, 1 retry, waits above and below the cap, one `applyBackoff` from outside | ceiling, no lost wakeup, retries first, a backoff rests everybody, every promise settles |
| `queue_stall` | 3 jobs, 2 slots, 1 retry, no assumption about bodies | **violated**: a body that never ends stalls the queue |
| `background` | 2 lookups, 2 addresses, room for one entry, a clock that passes both lifetimes, 1 clear, any number of teardowns and sweeps | types and the bound on the maps, no invented verdict, every lookup answered, expired entries of both caches swept |
| `settings` | 1 options page beside the install hook, 2 sites, 2 bases, 2 saves, 1 health check, any number of teardowns and storage failures | the screen is rolled back, the page that wrote last has what is stored, every save is answered |
| `settings_choices` | 1 page, two saves at once | **violated**: what one save switched off is on again by the other |
| `content` | 1 element with a mint and another address, 1 address to a message, 2 batches under way, 2 URLs, 2 disturbances of any kind; or 2 detail pages and another one, 4 disturbances | no candidate is forgotten, each one in view is answered; in whatever order the answers come, the token of the page the script looked at last is shown |
| `overlay` | 2 markers, 1 notice shown twice; responses of up to 3 axes | a pinned panel stays, another closes, a notice has its full time; the tag draws every axis once and no number that was not observed |
| `popup` | 2 popups, 3 lookups of 2 mints, a list of 2, 1 fault; texts up to 5 characters | the tag is of the last lookup, the recent list names what was found, each once, every lookup ends on the screen; candidates are whole words that decode to a key |
| `devnet` | 3 runs, 2 attempts, 2 faults of any kind; lists of up to 3 files on both sides of each width | the state file is true and passes its verification, equal records mean nothing happened, a rerun completes; PASS of the IDL check and of the build mean what they say |

Some properties are conjunctions of named parts, each with a comment of its own:
`ContentSound` is the types and `NeverForgotten`, `PanelSound` the types,
`PinnedStaysOpen` and `NotLeftOpen`, `PopupSound` the types, `TagOfLastLookup` and
`RecentAreFound`, `ScriptsSound` the types, `FileIsTrue`, `VerifyPasses` and
`UriPassIsTrue`.

**Bounds.** The widths are as small as the counters need to reach them: TLC meets
every limit (`U32_MAX`, `U64_MAX`, `MAX_CRATE_MINTS`, `MAX_BATCH`, `RECENT_LIMIT`,
the caps of queue and cache, the fields of an archive) and goes one step past it,
where the code refuses. Two owners are enough for one stall's bond to be paid at
another's expense, two mints for listings in different states under one stall,
three for a stall to hit its u32; two slots and four jobs for a retry, a waiting job
and a newcomer to compete. Two lookups suffice to overwrite each other. In the
settings two saves, of a page or of the install hook, already meet at every await;
with a second page the invariants hold as well (half a million states), but
`EverySaveAnswered` is too slow to check. On a page two candidates with one address
to a message make a batch that does not fit, and two disturbances are a failure and
a change of the page while both batches are under way. The page's token is no candidate
and shares with them only the scan timer and the notices, so the run is of two sites: a feed
with candidates, and a catalogue with two detail pages for two questions to overlap, a
third page without a token, and four disturbances to leave a page, come back, and fail or
save between. To go from one site to the other loads the page anew, with a new script
(`MCContentScript` keeps the page on its site). The
theorems about both have no such bounds. Two markers are one to come from and one to go to. Two popups and three
lookups are a lookup of a popup that has closed, one of its successor, and one more
on top of the list both wrote. Two faults in the devnet cycle are a lost reply on top
of a transaction that lands late, and a third run starts from what they left.
`MaxClock`, `MaxClears`, `MaxForces`, `MaxSaves`, `MaxEvents`, `MaxShown`,
`MaxSessions`, `MaxLookups`, `MaxFaults` and `MaxRuns` bound what could otherwise go on
for ever. Symmetry is used where only safety is checked or the properties are
symmetric action properties, never with liveness. Deadlock is not checked because each
system may stop: all instructions used up, all jobs settled, all lookups answered.

**Fairness.** None for the programs on the ledger: nobody has to send a
transaction. In the queue, timers fire and the wait for headers ends, since
`setTimeout` cuts it off (`Timers`); that a body ends is the server's doing and
is assumed by `SpecBodiesEnd` only, which `EveryJobSettles` needs and
`QueueNeverStalls` shows it needs. The modules above the queue inherit that
proviso: wherever one of them says that a question to the worker ends, it is granted
that bodies do. In the worker a lookup goes on (weak fairness), and
the alarm's sweep is not cut off by a teardown every single time (strong
fairness). In TagSettings messages, events and storage calls end (weak fairness),
with success or without. On a page the timers fire, the observer reports what is in
view, and every message is answered or fails, since `safeSendMessage` returns null when
the worker has gone; in the overlay a timer that was set fires, unless it is cleared; in
the popup `send()` makes an error of a missing reply. The devnet cycle goes on, and is
started again. Lookups, clicks, scrolling, clears, teardowns and the clock are not
obliged to happen.

## Disagreements between the code and what is said of it

Two have a run that TLC refutes; `PROJECT.json` quotes the lines.

* `queue_stall`: the abort timer of `request()` is cleared when the headers arrive, so
  the timeout that is "never unbounded" does not cover the body.
* `settings_choices`: two saves that overlap both succeed, and the later write restores
  what the earlier one switched off.

Others are stated as properties in the modules, without a listed run. Each was seen
refuted by TLC; where a configuration is named it reproduces the trace.

* `BondReturnable` (`MCBazrMarket_fee.cfg`): with a bond mint that withholds a transfer
  fee, the bond of a closable stall is not in the vault.
* `SlashEndsActing` (`MCBazrMarket_slashed.cfg`): a slashed stall still withdraws its
  pending listings.
* `SuccessConfirms` (`MCTagBackground_confirm.cfg`): the negative entry of an address
  survives a later success, and is looked at first.
* `HealthNamesItsBase` (`MCTagSettings_health.cfg`): a failed check names the base of
  whichever client is at hand by then.
* `OnlyOwnToken` (`MCContentScript_stale.cfg`): "On a detail page we know this address is
  the page's own token" (`content/index.js:283`), but `refreshPageMarker()` draws its
  marker after the await without another look at the URL, so the token of a page one has
  left is shown on the next.
* `StaleIdlNeverPasses` (`MCDevnetCycle_idl.cfg`): "the committed IDL has to describe the
  committed program" (`check-idl.mjs:3`), but its expressions match comments, so an item
  that is commented out in the source and still in the IDL does not make the check fail.
* `NothingWhileOff` of ContentScript: "switch it off and nothing is drawn on any page and
  no address is sent" (`tag-extension/README.md:56`), but a batch whose timer runs is sent,
  and an answer under way is drawn, after the switch.
* `OneMarkerEach` of ContentScript: "Try again" takes the tags off and leaves the markers,
  and an element found twice before its answer gets two.

Four more came up in reading and are only noted here. The patches of `observeUrlChanges()`
(`index.js:309`) are not what the page calls, as said above, so on sites that move by
`pushState()` the marker of a detail page stays on the next one until a `popstate`, a save
or a retry; `PageTokenShown` and `OnlyOwnToken` are about URLs the script has seen. After the overlay is switched off
and on again the markers do not come back, because `data-bazr-tagged` stays on the
elements. `smoke-api.mjs:124` reports whether all five axes arrive, after
`normalizeRelic()` has filled in the missing ones. The note "No verdict returned" cannot
be reached, as a missing verdict has become `unclear` before. Besides, overlapping writes
of the negative cache lose an entry, so an address is asked about again within its 24
hours, and an options page that did not write last may keep an older reply over a newer
change event (`EditorSeesStored` is about the one that did).

## Proofs

A theorem holds for every value of the constants that its module's named assumptions
allow; none of them adds an assumption of its own.

**The market** (`BazrMarketProofs`), for every finite set of wallets, every set of mints,
all limits and both kinds of bond mint: `TypeCorrect` (`TypeOK`), `CountersCorrect`
(`CountersMatchListings`), `TotalsCorrect` (`TotalsMatchAccounts`), `EscrowCorrect`
(`EscrowCovered`) and `GradesAlwaysFit` (`GradesNeverStuck`). Besides finiteness it is
assumed that inputs are numbers and that `REPUTATION_STEP` times a u32 fits an i64, which
is so for 100 and the real widths. None of these is inductive alone. A counter stays in
its width because it counts listings: `TypeOK` for the subtraction in `StallSettled` needs
that an active listing is counted, hence `CountersMatchListings`. The counters hold as
cardinalities of sets that gain or lose one element per instruction, so the domain of
`listings` has to stay finite, which is part of the invariant as well. `GradesNeverStuck`
needs one step more: wins and losses of a stall and of the market are bounded by the
listings made, each of which was checked against the width when it was made, and a pending
listing is one that is not among them yet. `EscrowCovered` adds that the bond of an open
stall is the market's bond amount, which no instruction changes after
`initialize_market`.

`TokensAllKept` (`TokensConserved`) and `BondsNeverStrand` (`BondsNeverStuck`) need sums
over the wallets and the slash marks. `SumLemmas` gives them: the fold of the community
modules is the value at the whole set of a function that solves one equation on all
subsets, there is one such function, and so any element may be taken out first. The
induction is over the size of the set. It is stated with a set of numbers instead of a
predicate (`NatSetInduction`, from the well-founded minimum of a set), which the provers
can instantiate. A step then changes one or two summands. The invariant (`TokensInv`) adds
that a stall without the slash mark has no slashed amount. A bond is then not stuck: the
vault holds it by `EscrowCovered`, the stall is counted, and what a slash burns of it is
still in the supply, which with all that was ever burned makes the initial supply and so
fits the u64.

**Its history** (same module): `HistoryInOrder` (`HistoryOrdered`),
`HistoryKeptForGood` (`HistoryPermanent`, an action property) and `ImplementsLedger`
(`RefinesLedger`). Every step has one of six shapes, which forget tokens and counters: it
leaves calls and lives alone, opens a stall, commits a call, settles one, closes a stall,
or slashes one. That each instruction has its shape is proved once (`StepShapes`); the
three results follow shape by shape. For the refinement `LedgerAgreed` reads
`CountersMatchListings` and `EscrowCovered` as the ledger's tally and its escrow, and
each shape maps to the ledger's step of the same name or to a stutter.

**Crates** (`BazrCrateProofs`): `BasketCheckExact`, that the nested loop of
`validate_basket` accepts the full allocations and no other pair of lists, of any length;
from it `CheckAlwaysExact` (`CheckIsExact`) and `CratesAlwaysSound` (`CratesSound`). The
loop's running total is a sum over the places so far, which are different mints, hence a
sum over the mints. `CommitmentHolds` (`CompositionCommitted`, an action property): a step
waits, creates, or replaces a crate that is not frozen by one whose count and date tell of
the change.

**The queue** (`TagBackgroundProofs`), for every finite set of jobs, every ceiling, every
number of retries and all waits: `TypeCorrect` (`QueueTypeOK`), `CeilingTheorem`
(`CeilingHeld`), `NoLostWakeup` (`NeverIdleWithWork`), `RetriesAhead` (`RetriesFirst`) and
`BackoffTheorem` (`BackoffHonoured`, an action property). They follow from
`QueueInvariant`. Its heart is `Books`: every waiting job is in the queue exactly once, the
jobs' stages agree with that, and `active` is the number of jobs in flight. That number
rises in the drain loop by as many as it takes from the queue, so `Books` needs that these
are different jobs, and a retried job may only be put in front because it was in flight and
hence not in the queue. To it belong that retries stand before the jobs never tried
(`Ordered`) and `NeverIdleWithWork` itself, which a call of `drain()` relies on when it
returns at once because another sleeps. As `drain()` is called from everywhere, `Callable`
says what holds of its arguments at each call.

**The caches** (same module), for any number of lookups, addresses, sweeps,
clears and teardowns, every ceiling and lifetime: `StorageAlwaysSound` (`StorageSound`)
and `VerdictsAreTheServers` (`OnlyServerVerdicts`). A stored map is replaced as a whole by
one that was read earlier, so the invariant has to be carried by what is held in between:
`LookupSound` and `SweepSound` say of every map on its way that it is bounded and names
only what the server said, which stays true while it waits because the server's verdicts
are only added to (`SaidGrows`), whatever the storage has become meanwhile.

**The settings** (`TagSettingsProofs`), for any number of pages, sites, bases, saves and
teardowns: `SettingsStaySound` (`SettingsSound`) and `EditorAlwaysSees`
(`EditorSeesStored`). Neither says anything of the order of things, but both hold by it.
The invariant (`SettingsInv`) therefore has: saves pass the legs of the worker one behind
the other (`InOrder`); the storage is what the save that wrote last made of it, and no save
before that one writes any more (`WriterInv`); whatever change events are on their way to a
page, the last one carries what is stored (`LastEvent`); a page that awaits nothing shows
its copy, so a refused change is taken back (`RolledBackAll`). `EditorInv` concludes that
reply and events of the page that wrote last end at what is stored.

**The popup** (`TagPopupProofs`), for any number of popups, lookups and mints:
`PopupStaysSound` (`PopupSound`). Busy means that the last lookup of this popup is awaited
(`BusyInv`); a lookup carries the number of the popup that asked, and none one above the
present (`CallsInv`), so a new popup awaits nothing. A list on its way to the storage names what was found, each mint once,
and `found` only grows. That the new list is as good needs lemmas on `Others`, the list
without one mint, which is a recursive function and not `SelectSeq` so that an induction
over the length reaches it.

**The candidates** (same module), for every radix, width of a byte and of a key, and texts
of any length: `CandidatesAlwaysKeys` (`CandidatesAreKeys`). It is assumed that the radix
is no larger than a byte, that the shortest text has a character for each byte of a key, and
that the longest has room for every key, `RADIX ^ MAX_TEXT >= BYTE ^ KEY_BYTES`: so it is for
58, 256, 32 and 44. The room is then enough behind any number of leading zeros as well
(`LimitsFit`). A list of digits is the expansion of a number by what is left
of the number above each of them (`Expands`); then equal numbers have equal digits by one
division after the other, from the lowest on, and equal digits equal numbers from the
highest on. One digit of `decodeBase58()` leaves above each byte the old quotient times the
radix and the carry (`AddDigitIs`), so the bytes stand for the number whatever the two bases
are. A text is zeros and then a full expansion, and so is a key, each in one way
(`SplitExists`, `SplitsOnce`): the decoder keeps the zeros and translates the expansion,
hence is one to one, and the powers bound the lengths from both sides. For the search, two
matches that overlap are the same (`MatchesApart`), as each stands between two characters
that are no letter and no digit; so no match is passed over, and matches are words.

**The content script** (`ContentScriptProofs`), for any candidates, any size of a message
and any number of batches under way: `NothingForgotten` (`ContentSound`). `AllHeld` is
the hand-over: as long as no scan is due, a candidate without a tag is in a collection,
and `HeldStays` shows action by action that it leaves one only for the next, for a tag, or
as failed. It needs `BatchGoesOut`: what stays behind in a batch has no timer until an
answer arrives, so a batch must be under way. `TokenShown` (`PageTokenShown`) follows from
`TokenOnItsWay`: the token of the detail page that was looked at last is being asked about,
has a marker, or a question about it failed since. Every look removes the marker the script
refers to and asks anew, so the fact holds afterwards whatever it removed; an answer that
takes a question off the count shows its token or is a failure; and an answer about another
page only adds a marker, as the one that was there stays among `orphans`.

**The overlay** (same module), for all markers and notices: `PanelAlwaysSound`
(`PanelSound`) and `NoticesKeepTime` (`NoticeKeepsItsTime`, an action property), which
needs that every timer belongs to one showing.

**The tag** (same module), for responses of any length, all scores and weights and every
contract: `TagAlwaysFaithful` (`TagIsFaithful`). A stable sort puts each element behind
those that precede it in a strict order, and the numbers of those before are different for
different elements, so they are the places, each taken once (`PlacesAreRanks`). The same
lemma gives the elements picked from a list in their order. What passes from
`normalizeRelic` through filling in, appending and sorting to the rows is one predicate:
`Tells(axes, raw, keys)`, the list has each of the keys once and of it what came last.

**The devnet scripts** (`DevnetCycleProofs`), for any number of runs, attempts and faults:
`ScriptsAlwaysSound` (`ScriptsSound`). A transaction that lands late comes from a step whose
effect is already there, or has none any more; so what happened is never undone
(`Happened`), the steps that a run has behind it are done (`StepsDone`), and the file it
writes is true. The counts of the record only grow, so two equal records have nothing
between them, which is what the PASS of `set-stall-uri.ts` stands on.

**The archive, the build and the IDL check** (same module): `ArchiveReadsBack`
(`ZipReadsBack`), `FieldsAlwaysFit` (`FieldsFit`), `NamesStayApart`, `PassedBuildIsWhole`,
`OldArchivesGo`, `PassIsAgreement` and `UnreadNeverPasses`, gathered in
`ReleaseAlwaysWhole` (`ReleaseIsWhole`) and `IdlVerdictAlwaysHolds` (`IdlVerdictHolds`).
The offsets in an archive are running sums of the sizes before; every part has a size above
zero, so the offsets rise, no two parts share one, and the reader, which walks the central
directory, stands at the offset of each record when it reads it. Of the build it is enough
to look at the first step that fails. A pass of the IDL check compares the IDL with what
was extracted, so where it differs from the source the expressions misread the source, and
what they misread is written there: a comment, or a form that none of them matches
(`MisreadIsWritten`).

Only model-checked: liveness, under the fairness above (`EveryJobSettles`,
`EveryLookupAnswered`, `ExpiredEntriesSwept`, `EverySaveAnswered`,
`EveryCandidateAnswered`, `UnpinnedCloses`, `EveryLookupEnds`, `CycleCompletes`), which is
out of the prover's reach. Every invariant and every action property of the runs that pass
is a theorem.

## Plan

1. *Done*: market, ledger, crates; queue, worker and caches, settings; content script,
   overlay, popup; what is drawn; the devnet scripts, the build and the IDL check. The
   theorems above.
2. Composition of TagBackground and RequestQueue: a lookup is a job, a teardown empties
   the queue, and RESOLVE fails as a whole.

## Not modelled

* Layout, colours, texts and dates of the pages and of the overlay, the walk of the
  scanner through the DOM, the clipboard, the permission dialog, the cache counters:
  they change no state that the models have.
* `smoke-api.mjs`: four requests, one after another, whose results are printed.
* `errors.rs` and `events.rs`: data definitions. An event repeats what its instruction
  wrote.
* The accounts' serialization, rent and PDA derivation, which are Anchor's; esbuild; the
  CRC and deflate of the archives.
* What the API computes, and the indexer: not in the repository.
