---------------------------- MODULE TagBackground ----------------------------
(***************************************************************************)
(* The service worker of the extension (background/index.js) over its two  *)
(* caches in chrome.storage.local (background/cache.js): lookups of mints, *)
(* the sweep of expired entries, and clearing the cache.                   *)
(*                                                                         *)
(* Every cache operation is an asynchronous storage.get, a change of the   *)
(* whole map in memory, and an asynchronous storage.set, with no lock, so  *)
(* lookups interleave at each await: an action is what happens between two *)
(* awaits.  The storage outlives the worker; everything else dies with it. *)
(*                                                                         *)
(* A cached entry is its time stamp `ts`.  What the request queue does     *)
(* (RequestQueue) is here the time between asking and the server's answer. *)
(***************************************************************************)
EXTENDS Integers, FiniteSets

CONSTANTS
  Mints,               \* the candidate addresses
  Lookups,             \* the calls of fetchRelic()
  NoMint,
  CACHE_TTL_MS, NEGATIVE_TTL_MS, CACHE_MAX_ENTRIES,
  MaxClock,            \* bound on the clock
  MaxClears            \* bound on how often the user clears the cache

ASSUME CacheAssumption ==
  /\ CACHE_TTL_MS \in Nat /\ NEGATIVE_TTL_MS \in Nat /\ CACHE_MAX_ENTRIES \in Nat \ {0}
  /\ MaxClock \in Nat /\ MaxClears \in Nat
ASSUME LookupsAssumption ==
  IsFiniteSet(Lookups) /\ IsFiniteSet(Mints) /\ NoMint \notin Mints

VARIABLES
  relicCache,       \* storage: mint -> ts of its cached relic
  negativeCache,    \* storage: address -> ts of its "not a mint" answer
  now,              \* Date.now()
  lookup,           \* the lookups under way: Lookup
  sweep,            \* the sweep under way: its step and the maps it read
  clears,           \* how often the cache was cleared
  said,             \* history: every answer of the server on a mint, ...
  latest            \*   and its last one

storage == <<relicCache, negativeCache>>
history == <<said, latest>>
vars == <<storage, now, lookup, sweep, clears, history>>

Verdicts == {"mint", "notMint"}

\* A map in storage or in memory.
Maps == UNION {[S -> 0..MaxClock] : S \in SUBSET Mints}
Empty == [m \in {} |-> 0]

Steps == {"new", "checking", "reading", "asking",
          "putting", "storingRelic", "marking", "storingNot", "done"}

Replies == {"none", "relic", "cached", "notMint", "knownNot", "error", "lost"}

\* step: what the lookup waits for; map: the map it is about to store; before: the fresh
\* answers given on its mint when the lookup was made (history); answer: the reply, or how it
\* got lost.  "relic" and "notMint" come from the server, "cached" and "knownNot" are
\* the same replies from the caches.
Lookup ==
  [step : Steps, mint : Mints \cup {NoMint}, refresh : BOOLEAN, map : Maps,
   before : SUBSET {"relic", "notMint"}, answer : Replies]

-----------------------------------------------------------------------------
(* cache.js *)

Fresh(map, m, ttl) == m \in DOMAIN map /\ now - map[m] <= ttl

\* Mutant: nothing is dropped.
Untrimmed(map) == {map}

\* trim(): the maps with the oldest entries dropped; among entries of the same age
\* the order of the keys decides, which is left open.
Trimmed(map) ==
  IF Cardinality(DOMAIN map) <= CACHE_MAX_ENTRIES THEN {map}
  ELSE {[m \in S |-> map[m]] : S \in
         {S \in SUBSET DOMAIN map :
            /\ Cardinality(S) = CACHE_MAX_ENTRIES
            /\ \A kept \in S, dropped \in DOMAIN map \ S : map[dropped] <= map[kept]}}

\* map[m] = { ts: now() }
Stamped(map, m) == [x \in DOMAIN map \cup {m} |-> IF x = m THEN now ELSE map[x]]

Expired(map, m, ttl) == m \in DOMAIN map /\ now - map[m] > ttl

\* The entries that have not expired.
Swept(map, ttl) == [m \in {x \in DOMAIN map : now - map[x] <= ttl} |-> map[m]]

-----------------------------------------------------------------------------
(* fetchRelic(): one action per stretch between two awaits *)

At(l, step) == lookup[l].step = step
Goes(l, step) == lookup' = [lookup EXCEPT ![l].step = step]
Answers(l, answer) ==
  lookup' = [lookup EXCEPT ![l].step = "done", ![l].answer = answer,
                           ![l].map = Empty, ![l].refresh = FALSE]

\* What lookups of m have answered so far with a fresh answer of the server.
Given(m) ==
  {lookup[l].answer : l \in {l \in Lookups : lookup[l].mint = m}} \cap {"relic", "notMint"}

\* A message RELIC or one candidate of RESOLVE arrives; a refresh goes past both caches.
FetchRelic(l, m, refresh) ==
  /\ At(l, "new")
  /\ lookup' = [lookup EXCEPT ![l] =
       [step |-> IF refresh THEN "asking" ELSE "checking", mint |-> m,
        refresh |-> refresh, map |-> Empty, before |-> Given(m), answer |-> "none"]]
  /\ UNCHANGED <<storage, now, sweep, clears, history>>

\* isKnownNotMint()
CheckNegative(l) ==
  /\ At(l, "checking")
  /\ IF Fresh(negativeCache, lookup[l].mint, NEGATIVE_TTL_MS)
     THEN Answers(l, "knownNot") ELSE Goes(l, "reading")
  /\ UNCHANGED <<storage, now, sweep, clears, history>>

\* getRelic() of the cache
ReadRelic(l) ==
  /\ At(l, "reading")
  /\ IF Fresh(relicCache, lookup[l].mint, CACHE_TTL_MS)
     THEN Answers(l, "cached") ELSE Goes(l, "asking")
  /\ UNCHANGED <<storage, now, sweep, clears, history>>

Records(m, verdict) ==
  /\ said' = [said EXCEPT ![m] = @ \cup {verdict}]
  /\ latest' = [latest EXCEPT ![m] = verdict]

\* The server knows the mint.
ServerKnows(l) ==
  /\ At(l, "asking")
  /\ Records(lookup[l].mint, "mint")
  /\ Goes(l, "putting")
  /\ UNCHANGED <<storage, now, sweep, clears>>

\* A 404, or the code unknown_mint or not_a_mint.
ServerDenies(l) ==
  /\ At(l, "asking")
  /\ Records(lookup[l].mint, "notMint")
  /\ Goes(l, "marking")
  /\ UNCHANGED <<storage, now, sweep, clears>>

\* Mutant: every failure of a request counts as "not a mint".
RequestFailsAsDenial(l) ==
  /\ At(l, "asking")
  /\ Goes(l, "marking")
  /\ UNCHANGED <<storage, now, sweep, clears, history>>

\* Any other failure: a timeout, the network, a 429 after its retry, a 5xx.
RequestFails(l) ==
  /\ At(l, "asking")
  /\ Answers(l, "error")
  /\ UNCHANGED <<storage, now, sweep, clears, history>>

\* Having read `map`, the lookup is about to store it with its mint stamped.
Prepares(l, map, step) ==
  \E trimmed \in Trimmed(Stamped(map, lookup[l].mint)) :
    lookup' = [lookup EXCEPT ![l].step = step, ![l].map = trimmed]

\* putRelic(), markNotMint(): the map is read, ...
PutRelic(l) ==
  /\ At(l, "putting")
  /\ Prepares(l, relicCache, "storingRelic")
  /\ UNCHANGED <<storage, now, sweep, clears, history>>

MarkNotMint(l) ==
  /\ At(l, "marking")
  /\ Prepares(l, negativeCache, "storingNot")
  /\ UNCHANGED <<storage, now, sweep, clears, history>>

\* ... and replaced as a whole, by then maybe no longer the one that was read.
StoreRelic(l) ==
  /\ At(l, "storingRelic")
  /\ relicCache' = lookup[l].map
  /\ Answers(l, "relic")
  /\ UNCHANGED <<negativeCache, now, sweep, clears, history>>

StoreNotMint(l) ==
  /\ At(l, "storingNot")
  /\ negativeCache' = lookup[l].map
  /\ Answers(l, "notMint")
  /\ UNCHANGED <<relicCache, now, sweep, clears, history>>

\* Mutant: a rejected promise nobody catches ends the lookup without a reply.
StorageFailsSilently(l) ==
  /\ lookup[l].step \in Steps \ {"new", "asking", "done"}
  /\ Goes(l, "done")
  /\ UNCHANGED <<storage, now, sweep, clears, history>>

\* The storage refuses a read or a write: the lookup ends in an error, by the catch of
\* fetchRelic or by the one of the router.
StorageFails(l) ==
  /\ lookup[l].step \in Steps \ {"new", "asking", "done"}
  /\ Answers(l, "error")
  /\ UNCHANGED <<storage, now, sweep, clears, history>>

-----------------------------------------------------------------------------
(* The sweep, clearing, the worker and the clock *)

Idle == [step |-> "idle", relic |-> Empty, negative |-> Empty]

\* sweep(), from the alarm: one map is read, then the other, then both are stored.
SweepReadsRelic ==
  /\ sweep.step = "idle"
  /\ sweep' = [sweep EXCEPT !.step = "reading", !.relic = relicCache]
  /\ UNCHANGED <<storage, now, lookup, clears, history>>

\* Mutants: only one of the two maps is swept.
RelicsLeft ==
  /\ sweep.step = "reading"
  /\ \E relic \in Trimmed(sweep.relic), negative \in Trimmed(Swept(negativeCache, NEGATIVE_TTL_MS)) :
       sweep' = [step |-> "storing", relic |-> relic, negative |-> negative]
  /\ UNCHANGED <<storage, now, lookup, clears, history>>

NegativesLeft ==
  /\ sweep.step = "reading"
  /\ \E relic \in Trimmed(Swept(sweep.relic, CACHE_TTL_MS)), negative \in Trimmed(negativeCache) :
       sweep' = [step |-> "storing", relic |-> relic, negative |-> negative]
  /\ UNCHANGED <<storage, now, lookup, clears, history>>

\* The second map is read, and both are cut to what has not expired.
SweepReadsNegative ==
  /\ sweep.step = "reading"
  /\ \E relic \in Trimmed(Swept(sweep.relic, CACHE_TTL_MS)),
        negative \in Trimmed(Swept(negativeCache, NEGATIVE_TTL_MS)) :
       sweep' = [step |-> "storing", relic |-> relic, negative |-> negative]
  /\ UNCHANGED <<storage, now, lookup, clears, history>>

SweepStores ==
  /\ sweep.step = "storing"
  /\ relicCache' = sweep.relic /\ negativeCache' = sweep.negative
  /\ sweep' = Idle
  /\ UNCHANGED <<now, lookup, clears, history>>

\* clear(): one storage.remove of both keys.
Clear ==
  /\ clears < MaxClears
  /\ clears' = clears + 1
  /\ relicCache' = Empty /\ negativeCache' = Empty
  /\ UNCHANGED <<now, lookup, sweep, history>>

\* The browser ends the worker: what was under way is lost, the asker gets no reply.
Teardown ==
  /\ sweep' = Idle
  /\ lookup' = [l \in Lookups |->
       IF lookup[l].step \in {"new", "done"} THEN lookup[l]
       ELSE [lookup[l] EXCEPT !.step = "done", !.answer = "lost", !.map = Empty, !.refresh = FALSE]]
  /\ UNCHANGED <<storage, now, clears, history>>

Tick ==
  /\ now < MaxClock
  /\ now' = now + 1
  /\ UNCHANGED <<storage, lookup, sweep, clears, history>>

Init ==
  /\ relicCache = Empty /\ negativeCache = Empty
  /\ now = 0
  /\ lookup = [l \in Lookups |->
       [step |-> "new", mint |-> NoMint, refresh |-> FALSE, map |-> Empty,
        before |-> {}, answer |-> "none"]]
  /\ sweep = Idle
  /\ said = [m \in Mints |-> {}]
  /\ clears = 0
  /\ latest = [m \in Mints |-> "nothing"]

\* The steps a lookup takes once it was made.
Proceeds(l) ==
  \/ CheckNegative(l) \/ ReadRelic(l)
  \/ ServerKnows(l) \/ ServerDenies(l) \/ RequestFails(l)
  \/ PutRelic(l) \/ MarkNotMint(l) \/ StoreRelic(l) \/ StoreNotMint(l)
  \/ StorageFails(l)

Next ==
  \/ \E l \in Lookups, m \in Mints, refresh \in BOOLEAN : FetchRelic(l, m, refresh)
  \/ \E l \in Lookups : Proceeds(l)
  \/ SweepReadsRelic \/ SweepReadsNegative \/ SweepStores
  \/ Clear
  \/ Teardown
  \/ Tick

\* Storage and requests end; the alarm comes again and again, and the worker is not
\* torn down in the middle of every single sweep.
Fairness ==
  /\ SF_vars(SweepReadsRelic) /\ SF_vars(SweepReadsNegative) /\ SF_vars(SweepStores)
  /\ \A l \in Lookups : WF_vars(Proceeds(l))

Spec == Init /\ [][Next]_vars /\ Fairness

-----------------------------------------------------------------------------
(* Properties *)

StorageTypeOK ==
  /\ relicCache \in Maps /\ negativeCache \in Maps /\ now \in 0..MaxClock
  /\ lookup \in [Lookups -> Lookup]
  /\ sweep \in [step : {"idle", "reading", "storing"}, relic : Maps, negative : Maps]
  /\ said \in [Mints -> SUBSET Verdicts]
  /\ clears \in 0..MaxClears
  /\ latest \in [Mints -> Verdicts \cup {"nothing"}]

\* However the read-modify-writes of the caches interleave, no map in storage is ever
\* above the ceiling: the maps that overwrite each other were trimmed one by one.
CachesBounded ==
  /\ Cardinality(DOMAIN relicCache) <= CACHE_MAX_ENTRIES
  /\ Cardinality(DOMAIN negativeCache) <= CACHE_MAX_ENTRIES

\* Overwriting loses entries but invents none: whatever is cached or was answered
\* about an address, the server said so about that address.  A timeout or a 429 is
\* never remembered, or reported, as "not a mint".
OnlyServerVerdicts ==
  /\ \A m \in DOMAIN relicCache : "mint" \in said[m]
  /\ \A m \in DOMAIN negativeCache : "notMint" \in said[m]
  /\ \A l \in Lookups :
       /\ lookup[l].answer \in {"relic", "cached"} => "mint" \in said[lookup[l].mint]
       /\ lookup[l].answer \in {"notMint", "knownNot"} =>
            "notMint" \in said[lookup[l].mint]

\* Every lookup that was made is answered, be it by an error or by the end of the worker.
EveryLookupAnswered ==
  \A l \in Lookups : lookup[l].step # "new" ~> lookup[l].answer # "none"

\* Expired entries do not pile up in either cache: once the lookups are over, the alarm
\* clears the relics and the known non-mints that are expired by then, though a lookup or
\* an earlier sweep may have written an expired entry back meanwhile.
ExpiredEntriesSwept ==
  \A m \in Mints :
    /\ Expired(relicCache, m, CACHE_TTL_MS) ~> ~Expired(relicCache, m, CACHE_TTL_MS)
    /\ Expired(negativeCache, m, NEGATIVE_TTL_MS) ~> ~Expired(negativeCache, m, NEGATIVE_TTL_MS)

\* Storage has the type the code reads from it, and no map outgrows the ceiling.
StorageSound == StorageTypeOK /\ CachesBounded

\* "Success is itself the confirmation that the address really is a mint" (index.js):
\* once a lookup answered with the relic, a later one does not find the address among
\* the known non-mints, unless the server changed its mind.  The negative entry of an
\* earlier answer is never removed, and is looked at first.
SuccessConfirms ==
  \A l \in Lookups :
    "relic" \in lookup[l].before /\ lookup[l].answer = "knownNot"
      => latest[lookup[l].mint] = "notMint"
=============================================================================
