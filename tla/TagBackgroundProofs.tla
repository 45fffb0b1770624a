------------------------ MODULE TagBackgroundProofs ------------------------
(***************************************************************************)
(* The background directory of the extension: the caches of the worker     *)
(* (TagBackground) and the queue its requests wait in (RequestQueue).      *)
(*                                                                         *)
(* The caches, for every number of lookups and mints, every ceiling and    *)
(* every expiry: no interleaving of the read-modify-writes breaks the      *)
(* types or the ceiling, or caches or answers a verdict that the server    *)
(* did not give.  The queue, for every set of jobs, every ceiling, every   *)
(* number of retries and every backoff.                                    *)
(***************************************************************************)
EXTENDS TagBackground, RequestQueue, FiniteSetTheorems, SequenceTheorems, TLAPS

\* A map that may be stored: it has its type and is not above the ceiling.
Bounded(map) == map \in Maps /\ Cardinality(DOMAIN map) <= CACHE_MAX_ENTRIES

\* The server gave `verdict` on each address of the map.
Known(map, verdict) == \A m \in DOMAIN map : verdict \in said[m]

\* What a lookup holds in its hands between its awaits.
LookupSound(l) ==
  LET r == lookup[l] IN
  /\ r \in Lookup
  /\ r.step # "new" => r.mint \in Mints
  /\ r.step \in {"storingRelic", "storingNot"} => Bounded(r.map)
  /\ r.step = "storingRelic" => Known(r.map, "mint")
  /\ r.step = "storingNot" => Known(r.map, "notMint")
  /\ r.step \in {"putting", "storingRelic"} => "mint" \in said[r.mint]
  /\ r.step \in {"marking", "storingNot"} => "notMint" \in said[r.mint]
  /\ r.step # "done" => r.answer = "none"
  /\ r.answer \in {"relic", "cached"} => "mint" \in said[r.mint]
  /\ r.answer \in {"notMint", "knownNot"} => "notMint" \in said[r.mint]

SweepSound ==
  /\ sweep \in [step : {"idle", "reading", "storing"}, relic : Maps, negative : Maps]
  /\ sweep.step = "storing" => Bounded(sweep.relic) /\ Bounded(sweep.negative)
  /\ Known(sweep.relic, "mint") /\ Known(sweep.negative, "notMint")

StorageKept ==
  /\ Bounded(relicCache) /\ Bounded(negativeCache)
  /\ Known(relicCache, "mint") /\ Known(negativeCache, "notMint")

CountersTyped ==
  /\ now \in 0..MaxClock /\ clears \in 0..MaxClears
  /\ said \in [Mints -> SUBSET Verdicts]
  /\ latest \in [Mints -> Verdicts \cup {"nothing"}]

BackgroundInv ==
  /\ StorageKept /\ SweepSound /\ CountersTyped
  /\ DOMAIN lookup = Lookups /\ lookup \in [Lookups -> Lookup]
  /\ \A l \in Lookups : LookupSound(l)

-----------------------------------------------------------------------------
(* The operations on maps *)

LEMMA MapsAre ==
  /\ \A map \in Maps : DOMAIN map \subseteq Mints
  /\ \A map \in Maps : \A m \in DOMAIN map : map[m] \in 0..MaxClock
  /\ \A S \in SUBSET Mints : [S -> 0..MaxClock] \subseteq Maps
BY DEF Maps

LEMMA EmptyIsBounded ==
  Bounded(Empty) /\ DOMAIN Empty = {} /\ \A verdict : Known(Empty, verdict)
<1>1. DOMAIN Empty = {} /\ Empty \in [{} -> 0..MaxClock]
  BY DEF Empty
<1>2. Empty \in Maps
  BY <1>1, MapsAre
<1>3. QED
  BY <1>1, <1>2, FS_EmptySet, CacheAssumption DEF Bounded, Known

\* trim() keeps entries of what it is given, and no more than the ceiling allows.
LEMMA TrimmedIsBounded ==
  ASSUME NEW map \in Maps, NEW trimmed \in Trimmed(map)
  PROVE  Bounded(trimmed) /\ DOMAIN trimmed \subseteq DOMAIN map
<1>1. CASE Cardinality(DOMAIN map) <= CACHE_MAX_ENTRIES
  BY <1>1 DEF Trimmed, Bounded
<1>2. CASE ~(Cardinality(DOMAIN map) <= CACHE_MAX_ENTRIES)
  <2>1. PICK S \in SUBSET DOMAIN map :
          trimmed = [m \in S |-> map[m]] /\ Cardinality(S) = CACHE_MAX_ENTRIES
    BY <1>2 DEF Trimmed
  <2>2. S \subseteq Mints /\ trimmed \in [S -> 0..MaxClock]
    BY <2>1, MapsAre
  <2>3. trimmed \in Maps /\ DOMAIN trimmed = S
    BY <2>2, MapsAre
  <2>4. QED
    BY <2>1, <2>3, CacheAssumption DEF Bounded
<1>3. QED
  BY <1>1, <1>2

LEMMA StampedIs ==
  ASSUME NEW map \in Maps, NEW m \in Mints, now \in 0..MaxClock
  PROVE  Stamped(map, m) \in Maps /\ DOMAIN Stamped(map, m) = DOMAIN map \cup {m}
<1>1. /\ DOMAIN map \cup {m} \subseteq Mints
      /\ Stamped(map, m) \in [DOMAIN map \cup {m} -> 0..MaxClock]
  BY MapsAre DEF Stamped
<1>2. QED
  BY <1>1, MapsAre

LEMMA SweptIs ==
  ASSUME NEW map \in Maps, NEW ttl
  PROVE  Swept(map, ttl) \in Maps /\ DOMAIN Swept(map, ttl) \subseteq DOMAIN map
<1> DEFINE S == {x \in DOMAIN map : now - map[x] <= ttl}
<1>1. Swept(map, ttl) = [m \in S |-> map[m]]
  BY DEF Swept
<1>2. S \subseteq DOMAIN map /\ S \subseteq Mints
  BY MapsAre
<1> HIDE DEF S
<1>3. Swept(map, ttl) \in [S -> 0..MaxClock]
  BY <1>1, <1>2, MapsAre
<1>4. QED
  BY <1>2, <1>3, MapsAre

\* What a lookup is about to store, it may store.
LEMMA PreparedIs ==
  ASSUME NEW map, NEW m \in Mints, NEW verdict, NEW trimmed \in Trimmed(Stamped(map, m)),
         Bounded(map), Known(map, verdict), verdict \in said[m], now \in 0..MaxClock
  PROVE  Bounded(trimmed) /\ Known(trimmed, verdict)
<1>1. map \in Maps
  BY DEF Bounded
<1>2. Stamped(map, m) \in Maps /\ DOMAIN Stamped(map, m) = DOMAIN map \cup {m}
  BY <1>1, StampedIs
<1>3. Bounded(trimmed) /\ DOMAIN trimmed \subseteq DOMAIN map \cup {m}
  BY <1>2, TrimmedIsBounded
<1>4. QED
  BY <1>3 DEF Known

-----------------------------------------------------------------------------
(* The steps of one lookup *)

\* The server is never heard to take back a verdict.
SaidGrows ==
  /\ said' \in [Mints -> SUBSET Verdicts]
  /\ \A m \in Mints : said[m] \subseteq said'[m]

\* The lookup l becomes r and the others stay.
Becomes(l, r) == lookup' = [lookup EXCEPT ![l] = r]

LEMMA KnownGrows ==
  ASSUME NEW map \in Maps, NEW verdict, Known(map, verdict), SaidGrows
  PROVE  \A m \in DOMAIN map : verdict \in said'[m]
BY MapsAre DEF Known, SaidGrows

\* A lookup that is left alone stays sound while the server goes on talking.
LEMMA OthersStay ==
  ASSUME NEW l \in Lookups, LookupSound(l), SaidGrows, lookup'[l] = lookup[l]
  PROVE  LookupSound(l)'
<1>1. lookup[l] \in Lookup
  BY DEF LookupSound
<1>2. lookup[l].map \in Maps /\ lookup[l].step \in Steps
  BY <1>1 DEF Lookup
<1>3. lookup[l].step = "storingRelic" => Known(lookup[l].map, "mint")'
  BY <1>2, KnownGrows DEF LookupSound, Known
<1>4. lookup[l].step = "storingNot" => Known(lookup[l].map, "notMint")'
  BY <1>2, KnownGrows DEF LookupSound, Known
<1>5. lookup[l].step # "new" => said[lookup[l].mint] \subseteq said'[lookup[l].mint]
  BY DEF LookupSound, SaidGrows
<1>6. QED
  BY <1>3, <1>4, <1>5 DEF LookupSound, Bounded, Known

LEMMA SweepStays ==
  ASSUME SweepSound, SaidGrows, sweep' = sweep
  PROVE  SweepSound'
<1>1. sweep.relic \in Maps /\ sweep.negative \in Maps
  BY DEF SweepSound
<1>2. QED
  BY <1>1, KnownGrows DEF SweepSound, Bounded, Known

LEMMA StorageStays ==
  ASSUME StorageKept, SaidGrows, UNCHANGED storage
  PROVE  StorageKept'
<1>1. relicCache \in Maps /\ negativeCache \in Maps
  BY DEF StorageKept, Bounded
<1>2. QED
  BY <1>1, KnownGrows DEF StorageKept, Bounded, Known, storage

\* A step of one lookup that leaves it sound keeps the invariant, if it keeps the storage.
LEMMA LookupStep ==
  ASSUME BackgroundInv, SaidGrows, NEW l \in Lookups, NEW r, Becomes(l, r),
         LookupSound(l)', StorageKept', CountersTyped', sweep' = sweep
  PROVE  BackgroundInv'
<1>1. r \in Lookup
  BY DEF Becomes, BackgroundInv, LookupSound
<1>2. lookup' \in [Lookups -> Lookup] /\ \A j \in Lookups : j # l => lookup'[j] = lookup[j]
  BY <1>1 DEF Becomes, BackgroundInv
<1>3. \A j \in Lookups : LookupSound(j)'
  BY <1>2, OthersStay DEF BackgroundInv
<1>4. QED
  BY <1>2, <1>3, SweepStays DEF BackgroundInv

-----------------------------------------------------------------------------
(* Every step of a lookup *)

LEMMA FetchKeeps ==
  ASSUME BackgroundInv, NEW l \in Lookups, NEW m \in Mints, NEW refresh \in BOOLEAN,
         FetchRelic(l, m, refresh)
  PROVE  BackgroundInv'
<1>1. PICK r : r = [step |-> IF refresh THEN "asking" ELSE "checking", mint |-> m,
                    refresh |-> refresh, map |-> Empty, before |-> Given(m),
                    answer |-> "none"]
  OBVIOUS
<1>2. Becomes(l, r) /\ UNCHANGED <<storage, now, sweep, clears, history>>
  BY <1>1 DEF FetchRelic, Becomes
<1>3. SaidGrows /\ CountersTyped' /\ sweep' = sweep
  BY <1>2 DEF SaidGrows, BackgroundInv, CountersTyped, history
<1>4. r \in Lookup
  BY <1>1, EmptyIsBounded DEF Lookup, Steps, Replies, Given, Bounded
<1>5. lookup'[l] = r
  BY <1>2 DEF Becomes, BackgroundInv
<1>6. LookupSound(l)'
  BY <1>1, <1>4, <1>5 DEF LookupSound
<1>7. QED
  BY <1>2, <1>3, <1>6, StorageStays, LookupStep DEF BackgroundInv

\* A lookup that ends with an answer the server gave, or with none of the server's.
LEMMA AnswerKeeps ==
  ASSUME BackgroundInv, NEW l \in Lookups, NEW answer \in Replies, Answers(l, answer),
         lookup[l].step # "new", StorageKept', UNCHANGED <<now, sweep, clears, history>>,
         answer \in {"relic", "cached"} => "mint" \in said[lookup[l].mint],
         answer \in {"notMint", "knownNot"} => "notMint" \in said[lookup[l].mint]
  PROVE  BackgroundInv'
<1>1. lookup[l] \in Lookup /\ lookup[l].mint \in Mints
  BY DEF BackgroundInv, LookupSound
<1>2. PICK r : r = [lookup[l] EXCEPT !.step = "done", !.answer = answer,
                                     !.map = Empty, !.refresh = FALSE]
  OBVIOUS
<1>3. Becomes(l, r)
  BY <1>2 DEF Answers, Becomes
<1>4. r.step = "done" /\ r.answer = answer /\ r.mint = lookup[l].mint /\ r \in Lookup
  <2>1. PICK d : d = lookup[l]
    OBVIOUS
  <2>2. d \in Lookup /\ r = [d EXCEPT !.step = "done", !.answer = answer,
                                      !.map = Empty, !.refresh = FALSE]
    BY <1>1, <1>2, <2>1
  <2>3. Empty \in Maps
    BY EmptyIsBounded DEF Bounded
  <2>4. r.step = "done" /\ r.answer = answer /\ r.mint = d.mint /\ r \in Lookup
    BY <2>2, <2>3 DEF Lookup, Steps
  <2>5. QED
    BY <2>1, <2>4
<1>5. lookup'[l] = r /\ said' = said
  BY <1>3 DEF Becomes, BackgroundInv, history
<1>6. LookupSound(l)'
  BY <1>1, <1>4, <1>5 DEF LookupSound
<1>7. SaidGrows /\ CountersTyped' /\ sweep' = sweep
  BY DEF SaidGrows, BackgroundInv, CountersTyped, history
<1>8. QED
  BY <1>3, <1>6, <1>7, LookupStep

\* A lookup that goes on to read, to ask, or to what the server's answer asks for.
LEMMA GoesKeeps ==
  ASSUME BackgroundInv, NEW l \in Lookups,
         NEW step \in {"reading", "asking", "putting", "marking"}, Goes(l, step),
         lookup[l].step \notin {"new", "done"}, SaidGrows, CountersTyped',
         UNCHANGED storage, sweep' = sweep,
         step = "putting" => "mint" \in said'[lookup[l].mint],
         step = "marking" => "notMint" \in said'[lookup[l].mint]
  PROVE  BackgroundInv'
<1>1. lookup[l] \in Lookup /\ lookup[l].mint \in Mints /\ lookup[l].answer = "none"
  BY DEF BackgroundInv, LookupSound
<1>2. PICK r : r = [lookup[l] EXCEPT !.step = step]
  OBVIOUS
<1>3. Becomes(l, r)
  BY <1>2 DEF Goes, Becomes
<1>4. r.step = step /\ r.answer = "none" /\ r.mint = lookup[l].mint /\ r \in Lookup
  <2>1. PICK d : d = lookup[l]
    OBVIOUS
  <2>2. r.step = step /\ r.answer = d.answer /\ r.mint = d.mint /\ r \in Lookup
    BY <1>1, <1>2, <2>1 DEF Lookup, Steps
  <2>3. QED
    BY <1>1, <2>1, <2>2
<1>5. lookup'[l] = r
  BY <1>3 DEF Becomes, BackgroundInv
<1>6. LookupSound(l)'
  BY <1>1, <1>4, <1>5 DEF LookupSound
<1>7. QED
  BY <1>3, <1>6, StorageStays, LookupStep DEF BackgroundInv

\* A lookup that has read `map`, of which the server knows as much, and is about to store.
LEMMA PreparesKeeps ==
  ASSUME BackgroundInv, NEW l \in Lookups, NEW map, NEW step, NEW verdict,
         <<step, verdict>> \in {<<"storingRelic", "mint">>, <<"storingNot", "notMint">>},
         Prepares(l, map, step), Bounded(map), Known(map, verdict),
         lookup[l].step \notin {"new", "done"}, verdict \in said[lookup[l].mint],
         UNCHANGED <<storage, now, sweep, clears, history>>
  PROVE  BackgroundInv'
<1>1. lookup[l] \in Lookup /\ lookup[l].mint \in Mints /\ lookup[l].answer = "none"
  BY DEF BackgroundInv, LookupSound
<1>2. PICK trimmed \in Trimmed(Stamped(map, lookup[l].mint)) :
        lookup' = [lookup EXCEPT ![l].step = step, ![l].map = trimmed]
  BY DEF Prepares
<1>3. Bounded(trimmed) /\ Known(trimmed, verdict)
  BY <1>1, <1>2, PreparedIs DEF BackgroundInv, CountersTyped
<1>4. PICK r : r = [lookup[l] EXCEPT !.step = step, !.map = trimmed]
  OBVIOUS
<1>5. Becomes(l, r)
  BY <1>2, <1>4 DEF Becomes
<1>6. /\ r.step = step /\ r.map = trimmed /\ r.answer = "none"
      /\ r.mint = lookup[l].mint /\ r \in Lookup
  <2>1. PICK d : d = lookup[l]
    OBVIOUS
  <2>2. trimmed \in Maps /\ step \in Steps
    BY <1>3 DEF Bounded, Steps
  <2>3. /\ r.step = step /\ r.map = trimmed /\ r.answer = d.answer
        /\ r.mint = d.mint /\ r \in Lookup
    BY <1>1, <1>4, <2>1, <2>2 DEF Lookup
  <2>4. QED
    BY <1>1, <2>1, <2>3
<1>7. lookup'[l] = r /\ said' = said
  BY <1>5 DEF Becomes, BackgroundInv, history
<1>8. LookupSound(l)'
  BY <1>1, <1>3, <1>6, <1>7 DEF LookupSound, Bounded, Known
<1>9. SaidGrows /\ CountersTyped' /\ sweep' = sweep
  BY DEF SaidGrows, BackgroundInv, CountersTyped, history
<1>10. QED
  BY <1>5, <1>8, <1>9, StorageStays, LookupStep DEF BackgroundInv

LEMMA RecordsKeeps ==
  ASSUME BackgroundInv, NEW m \in Mints, NEW verdict \in Verdicts, Records(m, verdict),
         UNCHANGED <<now, clears>>
  PROVE  SaidGrows /\ CountersTyped' /\ verdict \in said'[m]
BY DEF Records, SaidGrows, BackgroundInv, CountersTyped, Verdicts

LEMMA ProceedsKeeps ==
  ASSUME BackgroundInv, NEW l \in Lookups, Proceeds(l)
  PROVE  BackgroundInv'
<1>0. /\ LookupSound(l) /\ lookup[l] \in Lookup /\ StorageKept /\ CountersTyped
      /\ lookup[l].step # "new" => lookup[l].mint \in Mints
  BY DEF BackgroundInv, LookupSound
<1>a. ASSUME UNCHANGED <<now, sweep, clears, history>>
      PROVE  SaidGrows /\ CountersTyped' /\ sweep' = sweep /\ said' = said
  BY <1>a, <1>0 DEF SaidGrows, CountersTyped, history
<1>1. CASE CheckNegative(l)
  <2>1. lookup[l].step = "checking" /\ UNCHANGED <<storage, now, sweep, clears, history>>
    BY <1>1 DEF CheckNegative, At
  <2>2. CASE Fresh(negativeCache, lookup[l].mint, NEGATIVE_TTL_MS)
    <3>1. "notMint" \in said[lookup[l].mint]
      BY <1>0, <2>2 DEF Fresh, StorageKept, Known
    <3>2. Answers(l, "knownNot") /\ StorageKept'
      BY <1>0, <1>1, <1>a, <2>1, <2>2, StorageStays DEF CheckNegative
    <3>3. QED
      BY <2>1, <3>1, <3>2, AnswerKeeps DEF Replies
  <2>3. CASE ~Fresh(negativeCache, lookup[l].mint, NEGATIVE_TTL_MS)
    <3>1. Goes(l, "reading")
      BY <1>1, <2>3 DEF CheckNegative
    <3>2. QED
      BY <1>a, <2>1, <3>1, GoesKeeps
  <2>4. QED
    BY <2>2, <2>3
<1>2. CASE ReadRelic(l)
  <2>1. lookup[l].step = "reading" /\ UNCHANGED <<storage, now, sweep, clears, history>>
    BY <1>2 DEF ReadRelic, At
  <2>2. CASE Fresh(relicCache, lookup[l].mint, CACHE_TTL_MS)
    <3>1. "mint" \in said[lookup[l].mint]
      BY <1>0, <2>2 DEF Fresh, StorageKept, Known
    <3>2. Answers(l, "cached") /\ StorageKept'
      BY <1>0, <1>2, <1>a, <2>1, <2>2, StorageStays DEF ReadRelic
    <3>3. QED
      BY <2>1, <3>1, <3>2, AnswerKeeps DEF Replies
  <2>3. CASE ~Fresh(relicCache, lookup[l].mint, CACHE_TTL_MS)
    <3>1. Goes(l, "asking")
      BY <1>2, <2>3 DEF ReadRelic
    <3>2. QED
      BY <1>a, <2>1, <3>1, GoesKeeps
  <2>4. QED
    BY <2>2, <2>3
<1>3. CASE ServerKnows(l)
  <2>1. /\ lookup[l].step = "asking" /\ Records(lookup[l].mint, "mint")
        /\ Goes(l, "putting") /\ UNCHANGED <<storage, now, sweep, clears>>
    BY <1>3 DEF ServerKnows, At
  <2>2. SaidGrows /\ CountersTyped' /\ "mint" \in said'[lookup[l].mint]
    BY <1>0, <2>1, RecordsKeeps DEF Verdicts
  <2>3. QED
    BY <2>1, <2>2, GoesKeeps
<1>4. CASE ServerDenies(l)
  <2>1. /\ lookup[l].step = "asking" /\ Records(lookup[l].mint, "notMint")
        /\ Goes(l, "marking") /\ UNCHANGED <<storage, now, sweep, clears>>
    BY <1>4 DEF ServerDenies, At
  <2>2. SaidGrows /\ CountersTyped' /\ "notMint" \in said'[lookup[l].mint]
    BY <1>0, <2>1, RecordsKeeps DEF Verdicts
  <2>3. QED
    BY <2>1, <2>2, GoesKeeps
<1>5. CASE RequestFails(l) \/ StorageFails(l)
  <2>1. /\ lookup[l].step # "new" /\ Answers(l, "error")
        /\ UNCHANGED <<storage, now, sweep, clears, history>>
    BY <1>5 DEF RequestFails, StorageFails, At
  <2>2. QED
    BY <1>0, <1>a, <2>1, StorageStays, AnswerKeeps DEF Replies
<1>6. CASE PutRelic(l)
  <2>1. /\ lookup[l].step = "putting" /\ Prepares(l, relicCache, "storingRelic")
        /\ UNCHANGED <<storage, now, sweep, clears, history>>
    BY <1>6 DEF PutRelic, At
  <2>2. /\ Bounded(relicCache) /\ Known(relicCache, "mint")
        /\ "mint" \in said[lookup[l].mint]
    BY <1>0, <2>1 DEF StorageKept, LookupSound
  <2>3. PICK map : map = relicCache
    OBVIOUS
  <2>4. QED
    BY <2>1, <2>2, <2>3, PreparesKeeps
<1>7. CASE MarkNotMint(l)
  <2>1. /\ lookup[l].step = "marking" /\ Prepares(l, negativeCache, "storingNot")
        /\ UNCHANGED <<storage, now, sweep, clears, history>>
    BY <1>7 DEF MarkNotMint, At
  <2>2. /\ Bounded(negativeCache) /\ Known(negativeCache, "notMint")
        /\ "notMint" \in said[lookup[l].mint]
    BY <1>0, <2>1 DEF StorageKept, LookupSound
  <2>3. PICK map : map = negativeCache
    OBVIOUS
  <2>4. QED
    BY <2>1, <2>2, <2>3, PreparesKeeps
<1>8. CASE StoreRelic(l)
  <2>1. /\ lookup[l].step = "storingRelic" /\ relicCache' = lookup[l].map
        /\ negativeCache' = negativeCache
        /\ Answers(l, "relic") /\ UNCHANGED <<now, sweep, clears, history>>
    BY <1>8 DEF StoreRelic, At
  <2>2. /\ Bounded(lookup[l].map) /\ Known(lookup[l].map, "mint")
        /\ "mint" \in said[lookup[l].mint]
    BY <1>0, <2>1 DEF LookupSound
  <2>3. StorageKept'
    BY <1>0, <1>a, <2>1, <2>2 DEF StorageKept, Bounded, Known
  <2>4. QED
    BY <2>1, <2>2, <2>3, AnswerKeeps DEF Replies
<1>9. CASE StoreNotMint(l)
  <2>1. /\ lookup[l].step = "storingNot" /\ negativeCache' = lookup[l].map
        /\ relicCache' = relicCache
        /\ Answers(l, "notMint") /\ UNCHANGED <<now, sweep, clears, history>>
    BY <1>9 DEF StoreNotMint, At
  <2>2. /\ Bounded(lookup[l].map) /\ Known(lookup[l].map, "notMint")
        /\ "notMint" \in said[lookup[l].mint]
    BY <1>0, <2>1 DEF LookupSound
  <2>3. StorageKept'
    BY <1>0, <1>a, <2>1, <2>2 DEF StorageKept, Bounded, Known
  <2>4. QED
    BY <2>1, <2>2, <2>3, AnswerKeeps DEF Replies
<1>10. QED
  BY <1>1, <1>2, <1>3, <1>4, <1>5, <1>6, <1>7, <1>8, <1>9 DEF Proceeds

-----------------------------------------------------------------------------
(* The sweep, clearing, the worker and the clock *)

\* What leaves the lookups and the verdicts alone keeps the lookups.
LEMMA LookupsStay ==
  ASSUME BackgroundInv, UNCHANGED <<lookup, history>>
  PROVE  /\ SaidGrows /\ lookup' \in [Lookups -> Lookup]
         /\ DOMAIN lookup' = Lookups /\ \A l \in Lookups : LookupSound(l)'
<1>1. SaidGrows
  BY DEF BackgroundInv, CountersTyped, SaidGrows, history
<1>2. QED
  BY <1>1, OthersStay DEF BackgroundInv

LEMMA SweepKeeps ==
  ASSUME BackgroundInv, SweepReadsRelic \/ SweepReadsNegative \/ SweepStores
  PROVE  BackgroundInv'
<1>0. StorageKept /\ SweepSound
  BY DEF BackgroundInv
<1>1. CASE SweepReadsRelic
  <2>1. UNCHANGED <<storage, now, lookup, clears, history>>
    BY <1>1 DEF SweepReadsRelic
  <2>2. SaidGrows /\ StorageKept' /\ CountersTyped'
    BY <1>0, <2>1, LookupsStay, StorageStays DEF BackgroundInv, CountersTyped, history
  <2>3. /\ sweep'.step = "reading" /\ sweep'.relic = relicCache
        /\ sweep'.negative = sweep.negative
        /\ sweep' \in [step : {"idle", "reading", "storing"}, relic : Maps, negative : Maps]
    BY <1>0, <1>1 DEF SweepReadsRelic, SweepSound, StorageKept, Bounded
  <2>4. SweepSound'
    BY <1>0, <2>1, <2>3 DEF SweepSound, StorageKept, Known, history
  <2>5. QED
    BY <2>1, <2>2, <2>4, LookupsStay DEF BackgroundInv
<1>2. CASE SweepReadsNegative
  <2>1. UNCHANGED <<storage, now, lookup, clears, history>>
    BY <1>2 DEF SweepReadsNegative
  <2>2. SaidGrows /\ StorageKept' /\ CountersTyped'
    BY <1>0, <2>1, LookupsStay, StorageStays DEF BackgroundInv, CountersTyped, history
  <2>3. PICK relic \in Trimmed(Swept(sweep.relic, CACHE_TTL_MS)),
             negative \in Trimmed(Swept(negativeCache, NEGATIVE_TTL_MS)) :
               sweep' = [step |-> "storing", relic |-> relic, negative |-> negative]
    BY <1>2 DEF SweepReadsNegative
  <2>4. sweep.relic \in Maps /\ negativeCache \in Maps
    BY <1>0 DEF SweepSound, StorageKept, Bounded
  <2>5. Bounded(relic) /\ DOMAIN relic \subseteq DOMAIN sweep.relic
    BY <2>4, SweptIs, TrimmedIsBounded
  <2>6. Bounded(negative) /\ DOMAIN negative \subseteq DOMAIN negativeCache
    BY <2>4, SweptIs, TrimmedIsBounded
  <2>7. Known(relic, "mint")' /\ Known(negative, "notMint")'
    BY <1>0, <2>1, <2>5, <2>6 DEF SweepSound, StorageKept, Known, history
  <2>8. SweepSound'
    BY <2>3, <2>5, <2>6, <2>7 DEF SweepSound, Bounded, Known
  <2>9. QED
    BY <2>1, <2>2, <2>8, LookupsStay DEF BackgroundInv
<1>3. CASE SweepStores
  <2>1. /\ sweep.step = "storing" /\ sweep' = Idle
        /\ relicCache' = sweep.relic /\ negativeCache' = sweep.negative
        /\ UNCHANGED <<now, lookup, clears, history>>
    BY <1>3 DEF SweepStores
  <2>2. StorageKept'
    BY <1>0, <2>1 DEF SweepSound, StorageKept, Bounded, Known, history
  <2>3. SweepSound' /\ CountersTyped'
    BY <2>1, EmptyIsBounded
    DEF SweepSound, Idle, Bounded, Known, BackgroundInv, CountersTyped, history
  <2>4. QED
    BY <2>1, <2>2, <2>3, LookupsStay DEF BackgroundInv
<1>4. QED
  BY <1>1, <1>2, <1>3

LEMMA TeardownKeeps == ASSUME BackgroundInv, Teardown PROVE BackgroundInv'
<1>1. UNCHANGED <<storage, now, clears, history>> /\ sweep' = Idle
  BY DEF Teardown
<1>2. SaidGrows /\ StorageKept' /\ CountersTyped'
  <2>1. SaidGrows
    BY <1>1 DEF BackgroundInv, CountersTyped, SaidGrows, history
  <2>2. QED
    BY <1>1, <2>1, StorageStays DEF BackgroundInv, CountersTyped, history
<1>3. SweepSound'
  BY <1>1, EmptyIsBounded DEF SweepSound, Idle, Bounded, Known
<1>4. ASSUME NEW l \in Lookups
      PROVE  lookup'[l] \in Lookup /\ LookupSound(l)'
  <2>1. LookupSound(l) /\ lookup[l] \in Lookup
    BY DEF BackgroundInv
  <2>2. CASE lookup[l].step \in {"new", "done"}
    <3>1. lookup'[l] = lookup[l]
      BY <2>2 DEF Teardown
    <3>2. QED
      BY <1>2, <2>1, <3>1, OthersStay
  <2>3. CASE lookup[l].step \notin {"new", "done"}
    <3>1. PICK d : d = lookup[l]
      OBVIOUS
    <3>2. lookup'[l] = [d EXCEPT !.step = "done", !.answer = "lost",
                                 !.map = Empty, !.refresh = FALSE]
      BY <2>3, <3>1 DEF Teardown
    <3>3. PICK r : r = lookup'[l]
      OBVIOUS
    <3>4. Empty \in Maps
      BY EmptyIsBounded DEF Bounded
    <3>5. r \in Lookup /\ r.step = "done" /\ r.answer = "lost" /\ r.mint = d.mint
      BY <2>1, <3>1, <3>2, <3>3, <3>4 DEF Lookup, Steps, Replies
    <3>6. QED
      BY <2>1, <2>3, <3>1, <3>3, <3>5 DEF LookupSound
  <2>4. QED
    BY <2>2, <2>3
<1>5. lookup' \in [Lookups -> Lookup]
  BY <1>4 DEF Teardown
<1>6. QED
  BY <1>2, <1>3, <1>4, <1>5 DEF BackgroundInv

LEMMA BackgroundInvStep == BackgroundInv /\ [Next]_vars => BackgroundInv'
<1> SUFFICES ASSUME BackgroundInv, [Next]_vars PROVE BackgroundInv'
  OBVIOUS
<1>1. CASE \E l \in Lookups, m \in Mints, refresh \in BOOLEAN : FetchRelic(l, m, refresh)
  BY <1>1, FetchKeeps
<1>2. CASE \E l \in Lookups : Proceeds(l)
  BY <1>2, ProceedsKeeps
<1>3. CASE SweepReadsRelic \/ SweepReadsNegative \/ SweepStores
  BY <1>3, SweepKeeps
<1>4. CASE Clear
  <2>1. /\ relicCache' = Empty /\ negativeCache' = Empty /\ sweep' = sweep
        /\ UNCHANGED <<lookup, history>> /\ now' = now /\ clears' \in 0..MaxClears
    BY <1>4, CacheAssumption DEF Clear, BackgroundInv, CountersTyped
  <2>2. StorageKept'
    BY <2>1, EmptyIsBounded DEF StorageKept, Bounded, Known
  <2>3. SweepSound' /\ CountersTyped'
    BY <2>1, LookupsStay, SweepStays DEF BackgroundInv, CountersTyped, history
  <2>4. QED
    BY <2>1, <2>2, <2>3, LookupsStay DEF BackgroundInv
<1>5. CASE Teardown
  BY <1>5, TeardownKeeps
<1>6. CASE Tick \/ UNCHANGED vars
  <2>1. /\ UNCHANGED <<storage, lookup, sweep, clears, history>> /\ now' \in 0..MaxClock
    BY <1>6, CacheAssumption DEF Tick, vars, BackgroundInv, CountersTyped
  <2>2. StorageKept' /\ SweepSound' /\ CountersTyped'
    BY <2>1, LookupsStay, SweepStays, StorageStays DEF BackgroundInv, CountersTyped, history
  <2>3. QED
    BY <2>1, <2>2, LookupsStay DEF BackgroundInv
<1>7. QED
  BY <1>1, <1>2, <1>3, <1>4, <1>5, <1>6 DEF Next

LEMMA BackgroundInvInit == Init => BackgroundInv
<1> SUFFICES ASSUME Init PROVE BackgroundInv
  OBVIOUS
<1>1. StorageKept /\ SweepSound
  BY EmptyIsBounded DEF Init, StorageKept, SweepSound, Idle, Bounded
<1>2. CountersTyped
  BY CacheAssumption DEF Init, CountersTyped
<1>3. lookup \in [Lookups -> Lookup] /\ \A l \in Lookups : LookupSound(l)
  BY EmptyIsBounded DEF Init, Lookup, LookupSound, Steps, Replies, Bounded
<1>4. QED
  BY <1>1, <1>2, <1>3 DEF BackgroundInv

-----------------------------------------------------------------------------
(* The theorems *)

\* In every reachable state the storage is well typed and no map is above the ceiling,
\* for every number of lookups and however their reads and writes interleave.
THEOREM StorageAlwaysSound == Spec => []StorageSound
<1>1. BackgroundInv => StorageSound
  BY DEF BackgroundInv, StorageKept, SweepSound, CountersTyped, Bounded,
         StorageSound, StorageTypeOK, CachesBounded
<1>2. QED
  BY <1>1, BackgroundInvInit, BackgroundInvStep, PTL DEF Spec

\* In every reachable state what is cached or was answered about an address is what the
\* server said about that address, for every number of lookups, mints and teardowns.
THEOREM VerdictsAreTheServers == Spec => []OnlyServerVerdicts
<1>1. BackgroundInv => OnlyServerVerdicts
  BY DEF BackgroundInv, StorageKept, LookupSound, Known, OnlyServerVerdicts
<1>2. QED
  BY <1>1, BackgroundInvInit, BackgroundInvStep, PTL DEF Spec

-----------------------------------------------------------------------------
(* The queue *)

USE DEF InFlight, Stages

-----------------------------------------------------------------------------
(* The inductive invariant *)

\* The jobs in flight, by the stages st.
Flying(st) == {j \in Jobs : st[j] \in InFlight}

\* The jobs p wait, each once, a jobs are in flight, and the stages st agree.
Books(p, a, st) ==
  /\ p \in Seq(Jobs) /\ a \in Nat /\ st \in [Jobs -> Stages]
  /\ \A i, k \in 1..Len(p) : i # k => p[i] # p[k]
  /\ \A i \in 1..Len(p) : st[p[i]] = "queued"
  /\ \A j \in Jobs : st[j] = "queued" => \E i \in 1..Len(p) : j = p[i]
  /\ a = Cardinality(Flying(st))

\* Of the jobs p those with retries come first, by the attempts at.
Ordered(p, at) ==
  \A i, k \in 1..Len(p) : i < k /\ at[p[i]] = 0 => at[p[k]] = 0

\* What holds of the arguments of every call of drain(), whoever calls it.
Callable(p, a, b, st, at) ==
  /\ Books(p, a, st)
  /\ a <= Concurrency
  /\ b \in 0..MaxBackoff
  /\ at \in [Jobs -> 0..MaxRetries]
  /\ \A j \in Jobs : st[j] = "new" => at[j] = 0
  /\ Ordered(p, at)

QueueInv ==
  /\ Callable(pending, active, backoff, stage, attempt)
  /\ NeverIdleWithWork
  /\ nap \in 0..MaxBackoff /\ draining \in BOOLEAN /\ forces \in 0..MaxForces

-----------------------------------------------------------------------------
(* Counting *)

\* The first n jobs of the queue p, and the queue without them.
First(p, n) == {p[i] : i \in 1..n}
Rest(p, n) == SubSeq(p, n + 1, Len(p))

\* The first n of a sequence of different jobs are n jobs.
LEMMA DistinctCount ==
  ASSUME NEW p \in Seq(Jobs), NEW n \in 0..Len(p),
         \A i, k \in 1..Len(p) : i # k => p[i] # p[k]
  PROVE  IsFiniteSet(First(p, n)) /\ Cardinality(First(p, n)) = n
<1> PICK T : T = First(p, n) /\ T = {p[i] : i \in 1..n}
  BY DEF First
<1>1. Len(p) \in Nat
  BY LenProperties
<1>2. PICK f : f = [i \in 1..n |-> p[i]]
  OBVIOUS
<1>3. f \in [1..n -> T]
  BY <1>2
<1>4. \A i, k \in 1..n : i # k => f[i] # f[k]
  <2>1. \A i \in 1..n : i \in 1..Len(p) /\ f[i] = p[i]
    BY <1>1, <1>2
  <2>2. QED
    BY <2>1
<1>5. \A t \in T : \E i \in 1..n : f[i] = t
  BY <1>2
<1>6. f \in Bijection(1..n, T)
  BY <1>3, <1>4, <1>5 DEF Bijection, Injection, Surjection, IsInjective
<1>7. ExistsBijection(1..n, T)
  BY <1>6 DEF ExistsBijection
<1>8. IsFiniteSet(1..n) /\ Cardinality(1..n) = n
  BY <1>1, FS_Interval
<1>9. QED
  BY <1>7, <1>8, FS_Bijection

LEMMA JobsFinite ==
  ASSUME NEW S \in SUBSET Jobs
  PROVE  IsFiniteSet(S) /\ Cardinality(S) \in Nat
BY JobsAssumption, FS_Subset, FS_CardinalityType

-----------------------------------------------------------------------------
(* The drain loop *)

LEMMA LaunchableType ==
  ASSUME NEW p \in Seq(Jobs), NEW a \in Nat, a <= Concurrency, NEW b \in Nat
  PROVE  /\ Launchable(p, a, b) \in 0..Len(p)
         /\ a + Launchable(p, a, b) <= Concurrency
         /\ b > 0 => Launchable(p, a, b) = 0
         /\ b = 0 => Launchable(p, a, b) = Len(p) \/ a + Launchable(p, a, b) = Concurrency
<1>1. Len(p) \in Nat /\ Concurrency \in Nat
  BY LenProperties, QueueAssumption
<1>2. QED
  BY <1>1 DEF Launchable, Least

\* A queue with a job put in front of it.
LEMMA Prepended ==
  ASSUME NEW p \in Seq(Jobs), NEW j \in Jobs
  PROVE  /\ <<j>> \o p \in Seq(Jobs)
         /\ Len(<<j>> \o p) = Len(p) + 1 /\ (<<j>> \o p)[1] = j
         /\ \A i \in 1..Len(p) : (<<j>> \o p)[i + 1] = p[i]
<1>1. <<j>> \in Seq(Jobs) /\ Len(<<j>>) = 1 /\ <<j>>[1] = j
  OBVIOUS
<1>2. /\ <<j>> \o p \in Seq(Jobs) /\ Len(<<j>> \o p) = 1 + Len(p)
      /\ \A i \in 1..(1 + Len(p)) :
           (<<j>> \o p)[i] = IF i <= 1 THEN <<j>>[1] ELSE p[i - 1]
  OBVIOUS
<1>3. Len(p) \in Nat
  BY LenProperties
<1>4. QED
  BY <1>1, <1>2, <1>3

\* Without its first n jobs a queue is shorter by n.
LEMMA WithoutFirst ==
  ASSUME NEW p \in Seq(Jobs), NEW n \in 0..Len(p), NEW q, q = SubSeq(p, n + 1, Len(p))
  PROVE  /\ q \in Seq(Jobs) /\ Len(q) = Len(p) - n
         /\ \A i \in 1..Len(q) : n + i \in 1..Len(p) /\ q[i] = p[n + i]
<1>1. Len(p) \in Nat /\ p \in [1..Len(p) -> Jobs]
  BY LenProperties
<1>2. n \in Nat /\ n + 1 \in Int /\ Len(p) \in Int
  BY <1>1
<1>3. \A i \in (n + 1)..Len(p) : p[i] \in Jobs
  BY <1>1, <1>2
<1>4. /\ q \in Seq(Jobs)
      /\ Len(q) = IF n + 1 <= Len(p) THEN Len(p) - (n + 1) + 1 ELSE 0
      /\ \A i \in 1..(Len(p) - (n + 1) + 1) : q[i] = p[(n + 1) + i - 1]
  BY <1>2, <1>3, SubSeqProperties
<1>5. PICK m \in Nat : m = Len(p)
  BY <1>1
<1>6. n <= m /\ m - (n + 1) + 1 = m - n /\ (n + 1 <= m \/ m = n)
  BY <1>2, <1>5
<1>7. Len(q) = m - n
  BY <1>2, <1>4, <1>5, <1>6
<1>8. ASSUME NEW i \in 1..(m - n)
      PROVE  n + i \in 1..m /\ q[i] = p[n + i]
  <2>1. n + i \in 1..m /\ (n + 1) + i - 1 = n + i
    BY <1>2, <1>6
  <2>2. QED
    BY <2>1, <1>4, <1>5, <1>6
<1>9. QED
  BY <1>4, <1>5, <1>7, <1>8

\* The stages st once the loop launched the first n jobs of p.
Launched(p, n, st) ==
  [j \in Jobs |-> IF j \in First(p, n) THEN "headers" ELSE st[j]]

\* Launching the first n jobs keeps the books.
LEMMA LaunchKeepsBooks ==
  ASSUME NEW p, NEW a, NEW st, Books(p, a, st), NEW n \in 0..Len(p)
  PROVE  Books(Rest(p, n), a + n, Launched(p, n, st))
<1> PICK q : q = Rest(p, n)
  OBVIOUS
<1> PICK launched : launched = First(p, n) /\ launched = {p[i] : i \in 1..n}
  BY DEF First
<1> PICK r : /\ r = Launched(p, n, st)
             /\ r = [j \in Jobs |-> IF j \in launched THEN "headers" ELSE st[j]]
  BY DEF Launched
<1>1. /\ p \in Seq(Jobs) /\ a \in Nat /\ st \in [Jobs -> Stages]
      /\ \A i, k \in 1..Len(p) : i # k => p[i] # p[k]
      /\ \A i \in 1..Len(p) : st[p[i]] = "queued"
      /\ \A j \in Jobs : st[j] = "queued" => \E i \in 1..Len(p) : j = p[i]
      /\ a = Cardinality(Flying(st))
  BY DEF Books
<1>2. /\ Len(p) \in Nat /\ n \in Nat /\ n <= Len(p)
      /\ \A i \in 1..Len(p) : p[i] \in Jobs
  BY <1>1, LenProperties
<1>3. /\ q \in Seq(Jobs) /\ Len(q) = Len(p) - n
      /\ \A i \in 1..Len(q) : n + i \in 1..Len(p) /\ q[i] = p[n + i]
  BY <1>1, WithoutFirst DEF Rest
<1>4. \A i \in 1..n : i \in 1..Len(p)
  BY <1>2
<1>5. launched \subseteq Jobs /\ \A j \in launched : st[j] = "queued"
  BY <1>1, <1>2, <1>4
<1>6. a + n \in Nat /\ r \in [Jobs -> Stages]
  BY <1>1, <1>2
<1>7. ASSUME NEW i \in 1..Len(q), NEW k \in 1..Len(q), i # k
      PROVE  q[i] # q[k]
  <2>1. n + i # n + k
    BY <1>2, <1>3, <1>7
  <2>2. QED
    BY <2>1, <1>1, <1>3
<1>8. ASSUME NEW i \in 1..Len(q)
      PROVE  r[q[i]] = "queued"
  <2>1. n + i \in 1..Len(p) /\ q[i] = p[n + i] /\ \A k \in 1..n : k # n + i
    BY <1>2, <1>3
  <2>2. p[n + i] \notin launched
    BY <2>1, <1>1, <1>4
  <2>3. QED
    BY <2>1, <2>2, <1>1, <1>2
<1>9. ASSUME NEW j \in Jobs, r[j] = "queued"
      PROVE  \E i \in 1..Len(q) : j = q[i]
  <2>1. j \notin launched /\ st[j] = "queued"
    BY <1>9
  <2>2. PICK i \in 1..Len(p) : j = p[i]
    BY <2>1, <1>1
  <2>3. i \notin 1..n
    BY <2>1, <2>2
  <2>4. i - n \in 1..Len(q) /\ n + (i - n) = i
    BY <2>3, <1>2, <1>3
  <2>5. QED
    BY <2>2, <2>4, <1>3
<1>10. a + n = Cardinality(Flying(r))
  <2>1. PICK flying : flying = Flying(st) /\ flying = {j \in Jobs : st[j] \in InFlight}
    BY DEF Flying
  <2>2. PICK flies : flies = Flying(r) /\ flies = {j \in Jobs : r[j] \in InFlight}
    BY DEF Flying
  <2>3. flies = flying \cup launched
    BY <2>1, <2>2, <1>5
  <2>4. Cardinality(flying \cap launched) = 0
    BY <2>1, <1>5, FS_EmptySet
  <2>5. IsFiniteSet(launched) /\ Cardinality(launched) = n
    <3>1. IsFiniteSet(First(p, n)) /\ Cardinality(First(p, n)) = n
      BY <1>1, DistinctCount, Zenon
    <3>2. QED
      BY <3>1
  <2>6. IsFiniteSet(flying) /\ Cardinality(flying) = a
    BY <2>1, <1>1, JobsFinite
  <2>7. Cardinality(flying \cup launched)
          = Cardinality(flying) + Cardinality(launched) - Cardinality(flying \cap launched)
    BY <2>5, <2>6, FS_Union
  <2>8. Cardinality(flies) = a + n
    BY <2>3, <2>4, <2>5, <2>6, <2>7, <1>1, <1>2
  <2>9. QED
    BY <2>2, <2>8
<1>11. Books(q, a + n, r)
  BY <1>3, <1>6, <1>7, <1>8, <1>9, <1>10 DEF Books
<1>12. QED
  BY <1>11

\* One run of the loop keeps the books, leaves no work behind unless it sleeps or
\* every slot is taken, and launches only when no backoff runs.
LEMMA LoopKeepsBooks ==
  ASSUME NEW p, NEW a, NEW b, NEW st, NEW at,
         Callable(p, a, b, st, at), Loop(p, a, b, st)
  PROVE  /\ Books(pending', active', stage')
         /\ active' <= Concurrency
         /\ NeverIdleWithWork'
         /\ Ordered(pending', at)
         /\ nap' \in 0..MaxBackoff /\ draining' \in BOOLEAN
         /\ \A j \in Jobs : stage'[j] = "new" => st[j] = "new"
         /\ \A j \in Jobs : stage'[j] \in InFlight => st[j] \in InFlight \/ b = 0
<1>1. /\ Books(p, a, st) /\ Ordered(p, at)
      /\ a <= Concurrency /\ b \in 0..MaxBackoff
      /\ MaxBackoff \in Nat /\ Concurrency \in Nat
  BY QueueAssumption DEF Callable
<1>2. p \in Seq(Jobs) /\ a \in Nat /\ b \in Nat /\ st \in [Jobs -> Stages]
  BY <1>1 DEF Books
<1>3. Len(p) \in Nat
  BY <1>2, LenProperties
<1>4. PICK n : n = Launchable(p, a, b)
  OBVIOUS
<1>5. PICK launched : launched = {p[i] : i \in 1..n}
  OBVIOUS
<1>6. /\ n \in 0..Len(p) /\ a + n <= Concurrency
      /\ b > 0 => n = 0
      /\ b = 0 => n = Len(p) \/ a + n = Concurrency
  BY <1>1, <1>2, <1>4, LaunchableType
<1>7. /\ pending' = SubSeq(p, n + 1, Len(p))
      /\ active' = a + n
      /\ stage' = [j \in Jobs |-> IF j \in launched THEN "headers" ELSE st[j]]
      /\ draining' = MustSleep(p, a, b)
      /\ nap' = IF MustSleep(p, a, b) THEN b ELSE 0
  BY <1>4, <1>5 DEF Loop
<1>8. /\ pending' \in Seq(Jobs) /\ Len(pending') = Len(p) - n
      /\ \A i \in 1..Len(pending') : n + i \in 1..Len(p) /\ pending'[i] = p[n + i]
  BY <1>2, <1>6, <1>7, WithoutFirst
<1>9. Books(pending', active', stage')
  <2>1. Books(Rest(p, n), a + n, Launched(p, n, st))
    BY <1>1, <1>6, LaunchKeepsBooks
  <2>2. pending' = Rest(p, n) /\ stage' = Launched(p, n, st)
    BY <1>5, <1>7 DEF First, Rest, Launched
  <2>3. QED
    BY <2>1, <2>2, <1>7
<1>10. active' <= Concurrency
  BY <1>6, <1>7
<1>11. NeverIdleWithWork'
  <2>1. SUFFICES ASSUME pending' # <<>>
                 PROVE  draining' \/ active' = Concurrency
    BY DEF NeverIdleWithWork
  <2>2. Len(pending') # 0
    BY <2>1, <1>8, EmptySeq
  <2>3. n # Len(p)
    BY <2>2, <1>3, <1>8
  <2>4. CASE b = 0
    BY <2>3, <2>4, <1>6, <1>7
  <2>5. CASE b > 0
    <3>1. n = 0 /\ p # <<>>
      BY <2>3, <2>5, <1>6, EmptySeq
    <3>2. CASE a < Concurrency
      BY <3>1, <3>2, <2>5, <1>7 DEF MustSleep
    <3>3. CASE a = Concurrency
      BY <3>1, <3>3, <1>2, <1>7
    <3>4. QED
      BY <3>2, <3>3, <1>1, <1>2
  <2>6. QED
    BY <2>4, <2>5, <1>2
<1>12. Ordered(pending', at)
  <2>1. \A i, k \in 1..Len(p) : i < k /\ at[p[i]] = 0 => at[p[k]] = 0
    BY <1>1 DEF Ordered
  <2>2. ASSUME NEW i \in 1..Len(pending'), NEW k \in 1..Len(pending'),
               i < k, at[pending'[i]] = 0
        PROVE  at[pending'[k]] = 0
    <3>1. n + i < n + k
      BY <2>2, <1>3, <1>6, <1>8
    <3>2. QED
      BY <3>1, <2>1, <2>2, <1>8
  <2>3. QED
    BY <2>2 DEF Ordered
<1>13. nap' \in 0..MaxBackoff /\ draining' \in BOOLEAN
  BY <1>1, <1>7 DEF MustSleep
<1>14. \A j \in Jobs : stage'[j] = "new" => st[j] = "new"
  BY <1>7
<1>15. \A j \in Jobs : stage'[j] \in InFlight => st[j] \in InFlight \/ b = 0
  <2>1. b = 0 \/ launched = {}
    BY <1>2, <1>5, <1>6
  <2>2. QED
    BY <2>1, <1>7
<1>16. QED
  BY <1>9, <1>10, <1>11, <1>12, <1>13, <1>14, <1>15

\* The same of drain(), which leaves the work to a loop that sleeps.
LEMMA DrainKeepsBooks ==
  ASSUME NEW p, NEW a, NEW b, NEW st, NEW at, QueueInv,
         Callable(p, a, b, st, at), Drain(p, a, b, st)
  PROVE  /\ Books(pending', active', stage')
         /\ active' <= Concurrency
         /\ NeverIdleWithWork'
         /\ Ordered(pending', at)
         /\ nap' \in 0..MaxBackoff /\ draining' \in BOOLEAN
         /\ \A j \in Jobs : stage'[j] = "new" => st[j] = "new"
         /\ \A j \in Jobs : stage'[j] \in InFlight => st[j] \in InFlight \/ b = 0
<1>1. CASE draining
  <2>1. /\ pending' = p /\ active' = a /\ stage' = st
        /\ draining' = draining /\ nap' = nap
    BY <1>1 DEF Drain
  <2>2. QED
    BY <1>1, <2>1 DEF QueueInv, Callable, NeverIdleWithWork
<1>2. CASE ~draining
  <2>1. Loop(p, a, b, st)
    BY <1>2 DEF Drain
  <2>2. QED
    BY <2>1, LoopKeepsBooks
<1>3. QED
  BY <1>1, <1>2

-----------------------------------------------------------------------------
(* What the callers of drain() hand to it *)

\* One request less in flight, whether it failed, succeeded or is to be tried again.
LEMMA FlightEnds ==
  ASSUME NEW st \in [Jobs -> Stages], NEW j \in Jobs, st[j] \in InFlight,
         NEW r \in [Jobs -> Stages], r[j] \notin InFlight,
         \A k \in Jobs : k # j => r[k] = st[k]
  PROVE  /\ Cardinality(Flying(st)) - 1 \in Nat
         /\ Cardinality(Flying(r)) = Cardinality(Flying(st)) - 1
<1>1. Flying(r) = Flying(st) \ {j} /\ j \in Flying(st)
  BY DEF Flying
<1>2. /\ IsFiniteSet(Flying(st)) /\ Cardinality(Flying(st)) \in Nat
      /\ Cardinality(Flying(r)) \in Nat
  BY JobsFinite DEF Flying
<1>3. Cardinality(Flying(st) \ {j}) = Cardinality(Flying(st)) - 1
  BY <1>1, <1>2, FS_RemoveElement
<1>4. QED
  BY <1>1, <1>2, <1>3

\* A promise is settled: the queue is as it was, with one slot more.
LEMMA SettledBooks ==
  ASSUME NEW p, NEW a, NEW st, Books(p, a, st), NEW j \in Jobs, st[j] \in InFlight,
         NEW how \in {"resolved", "rejected"}
  PROVE  Books(p, a - 1, [st EXCEPT ![j] = how])
<1>1. /\ p \in Seq(Jobs) /\ a \in Nat /\ st \in [Jobs -> Stages]
      /\ \A i, k \in 1..Len(p) : i # k => p[i] # p[k]
      /\ \A i \in 1..Len(p) : st[p[i]] = "queued"
      /\ \A k \in Jobs : st[k] = "queued" => \E i \in 1..Len(p) : k = p[i]
      /\ a = Cardinality(Flying(st))
  BY DEF Books
<1>2. PICK r : r = [st EXCEPT ![j] = how]
  OBVIOUS
<1>3. /\ r \in [Jobs -> Stages] /\ r[j] = how
      /\ \A k \in Jobs : k # j => r[k] = st[k]
  BY <1>1, <1>2
<1>4. a - 1 \in Nat /\ a - 1 = Cardinality(Flying(r))
  BY <1>1, <1>3, FlightEnds
<1>5. \A i \in 1..Len(p) : r[p[i]] = "queued"
  <2>1. \A i \in 1..Len(p) : p[i] \in Jobs /\ p[i] # j
    BY <1>1, LenProperties
  <2>2. QED
    BY <2>1, <1>1, <1>3
<1>6. \A k \in Jobs : r[k] = "queued" => \E i \in 1..Len(p) : k = p[i]
  BY <1>1, <1>3
<1>7. Books(p, a - 1, r)
  BY <1>1, <1>3, <1>4, <1>5, <1>6 DEF Books
<1>8. QED
  BY <1>2, <1>7

\* push(): a new job at the end of the line.
LEMMA PushedBooks ==
  ASSUME NEW p, NEW a, NEW st, Books(p, a, st), NEW j \in Jobs, st[j] = "new"
  PROVE  Books(Append(p, j), a, [st EXCEPT ![j] = "queued"])
<1>1. /\ p \in Seq(Jobs) /\ a \in Nat /\ st \in [Jobs -> Stages]
      /\ \A i, k \in 1..Len(p) : i # k => p[i] # p[k]
      /\ \A i \in 1..Len(p) : st[p[i]] = "queued"
      /\ \A k \in Jobs : st[k] = "queued" => \E i \in 1..Len(p) : k = p[i]
      /\ a = Cardinality(Flying(st))
  BY DEF Books
<1>2. PICK r : r = [st EXCEPT ![j] = "queued"]
  OBVIOUS
<1>3. /\ r \in [Jobs -> Stages] /\ r[j] = "queued"
      /\ \A k \in Jobs : k # j => r[k] = st[k]
  BY <1>1, <1>2
<1>4. PICK q : q = Append(p, j)
  OBVIOUS
<1>5. /\ q \in Seq(Jobs) /\ Len(q) = Len(p) + 1 /\ q[Len(p) + 1] = j
      /\ \A i \in 1..Len(p) : q[i] = p[i]
  BY <1>1, <1>4, AppendProperties
<1>6. PICK m \in Nat : m = Len(p)
  BY <1>1, LenProperties
<1>7. \A i \in 1..m : p[i] \in Jobs /\ p[i] # j
  BY <1>1, <1>6, LenProperties
<1>8. \A i \in 1..(m + 1) : i \in 1..m \/ i = m + 1
  BY <1>6
<1>9. \A i, k \in 1..(m + 1) : i # k => q[i] # q[k]
  BY <1>1, <1>5, <1>6, <1>7, <1>8
<1>10. \A i \in 1..(m + 1) : r[q[i]] = "queued"
  BY <1>1, <1>3, <1>5, <1>6, <1>7, <1>8
<1>11. ASSUME NEW k \in Jobs, r[k] = "queued"
       PROVE  \E i \in 1..(m + 1) : k = q[i]
  <2>1. CASE k = j
    BY <2>1, <1>5, <1>6
  <2>2. CASE k # j
    BY <2>2, <1>1, <1>3, <1>5, <1>6, <1>11
  <2>3. QED
    BY <2>1, <2>2
<1>12. Flying(r) = Flying(st)
  BY <1>1, <1>3 DEF Flying
<1>13. Books(q, a, r)
  BY <1>1, <1>3, <1>5, <1>6, <1>9, <1>10, <1>11, <1>12 DEF Books
<1>14. QED
  BY <1>2, <1>4, <1>13

\* A retry: a job in flight at the head of the line, and one slot more.
LEMMA RetriedBooks ==
  ASSUME NEW p, NEW a, NEW st, Books(p, a, st), NEW j \in Jobs, st[j] \in InFlight
  PROVE  Books(<<j>> \o p, a - 1, [st EXCEPT ![j] = "queued"])
<1>1. /\ p \in Seq(Jobs) /\ a \in Nat /\ st \in [Jobs -> Stages]
      /\ \A i, k \in 1..Len(p) : i # k => p[i] # p[k]
      /\ \A i \in 1..Len(p) : st[p[i]] = "queued"
      /\ \A k \in Jobs : st[k] = "queued" => \E i \in 1..Len(p) : k = p[i]
      /\ a = Cardinality(Flying(st))
  BY DEF Books
<1>2. PICK r : r = [st EXCEPT ![j] = "queued"]
  OBVIOUS
<1>3. /\ r \in [Jobs -> Stages] /\ r[j] = "queued"
      /\ \A k \in Jobs : k # j => r[k] = st[k]
  BY <1>1, <1>2
<1>4. PICK q : q = <<j>> \o p
  OBVIOUS
<1>5. /\ q \in Seq(Jobs) /\ Len(q) = Len(p) + 1 /\ q[1] = j
      /\ \A i \in 1..Len(p) : q[i + 1] = p[i]
  BY <1>1, <1>4, Prepended
<1>6. PICK m \in Nat : m = Len(p)
  BY <1>1, LenProperties
<1>7. \A i \in 1..m : p[i] \in Jobs /\ p[i] # j
  BY <1>1, <1>6, LenProperties
<1>8. \A i \in 1..(m + 1) : i = 1 \/ (i - 1 \in 1..m /\ q[i] = p[i - 1])
  BY <1>5, <1>6
<1>9. ASSUME NEW i \in 1..(m + 1), NEW k \in 1..(m + 1), i # k
      PROVE  q[i] # q[k]
  <2>1. CASE i = 1 \/ k = 1
    BY <2>1, <1>5, <1>7, <1>8, <1>9
  <2>2. CASE i # 1 /\ k # 1
    <3>1. /\ i - 1 \in 1..m /\ q[i] = p[i - 1]
          /\ k - 1 \in 1..m /\ q[k] = p[k - 1]
          /\ i - 1 # k - 1
      BY <2>2, <1>6, <1>8, <1>9
    <3>2. QED
      BY <3>1, <1>1, <1>6
  <2>3. QED
    BY <2>1, <2>2
<1>10. \A i \in 1..(m + 1) : r[q[i]] = "queued"
  BY <1>1, <1>3, <1>5, <1>6, <1>7, <1>8
<1>11. ASSUME NEW k \in Jobs, r[k] = "queued"
       PROVE  \E i \in 1..(m + 1) : k = q[i]
  <2>1. CASE k = j
    BY <2>1, <1>5, <1>6
  <2>2. CASE k # j
    <3>1. PICK i \in 1..m : k = p[i]
      BY <2>2, <1>1, <1>3, <1>6, <1>11
    <3>2. i + 1 \in 1..(m + 1) /\ q[i + 1] = p[i]
      BY <1>5, <1>6
    <3>3. QED
      BY <3>1, <3>2
  <2>3. QED
    BY <2>1, <2>2
<1>12. a - 1 \in Nat /\ a - 1 = Cardinality(Flying(r))
  BY <1>1, <1>3, FlightEnds
<1>13. Books(q, a - 1, r)
  BY <1>3, <1>5, <1>6, <1>9, <1>10, <1>11, <1>12 DEF Books
<1>14. QED
  BY <1>2, <1>4, <1>13

-----------------------------------------------------------------------------
(* The invariant is inductive *)

\* A step that ends in drain() with well-formed arguments keeps the invariant, and
\* launches jobs only when no backoff runs.
LEMMA DrainStep ==
  ASSUME NEW p, NEW a, NEW b, NEW st, NEW at, QueueInv,
         Callable(p, a, b, st, at), Drain(p, a, b, st),
         backoff' = b, attempt' = at, forces' \in 0..MaxForces
  PROVE  /\ QueueInv'
         /\ \A j \in Jobs : stage'[j] \in InFlight => st[j] \in InFlight \/ backoff' = 0
<1>1. /\ Books(pending', active', stage') /\ active' <= Concurrency
      /\ NeverIdleWithWork' /\ Ordered(pending', at)
      /\ nap' \in 0..MaxBackoff /\ draining' \in BOOLEAN
      /\ \A j \in Jobs : stage'[j] = "new" => st[j] = "new"
      /\ \A j \in Jobs : stage'[j] \in InFlight => st[j] \in InFlight \/ b = 0
  BY DrainKeepsBooks
<1>2. /\ b \in 0..MaxBackoff /\ at \in [Jobs -> 0..MaxRetries]
      /\ \A j \in Jobs : st[j] = "new" => at[j] = 0
  BY DEF Callable
<1>3. \A j \in Jobs : stage'[j] = "new" => at[j] = 0
  BY <1>1, <1>2
<1>4. Callable(pending', active', backoff', stage', attempt')
  BY <1>1, <1>2, <1>3 DEF Callable
<1>5. QED
  BY <1>1, <1>4 DEF QueueInv

LEMMA InvFacts ==
  ASSUME QueueInv
  PROVE  /\ Books(pending, active, stage) /\ Ordered(pending, attempt)
         /\ pending \in Seq(Jobs) /\ active \in Nat /\ active <= Concurrency
         /\ stage \in [Jobs -> Stages] /\ attempt \in [Jobs -> 0..MaxRetries]
         /\ backoff \in 0..MaxBackoff /\ forces \in 0..MaxForces
         /\ nap \in 0..MaxBackoff /\ draining \in BOOLEAN
         /\ \A j \in Jobs : stage[j] = "new" => attempt[j] = 0
         /\ Concurrency \in Nat /\ MaxBackoff \in Nat
         /\ MaxRetries \in Nat /\ MaxForces \in Nat
BY QueueAssumption DEF QueueInv, Callable, Books

LEMMA PushStep ==
  ASSUME QueueInv, NEW j \in Jobs, Push(j)
  PROVE  QueueInv' /\ RestedStep
<1> PICK p, st : p = Append(pending, j) /\ st = [stage EXCEPT ![j] = "queued"]
  OBVIOUS
<1>1. /\ stage[j] = "new" /\ Drain(p, active, backoff, st)
      /\ backoff' = backoff /\ attempt' = attempt /\ forces' = forces
  BY DEF Push
<1>2. Books(p, active, st)
  BY <1>1, InvFacts, PushedBooks
<1>3. \A k \in Jobs : st[k] = "new" => attempt[k] = 0
  BY InvFacts
<1>4. Ordered(p, attempt)
  <2>1. PICK m \in Nat : m = Len(pending)
    BY InvFacts, LenProperties
  <2>2. /\ Len(p) = m + 1 /\ p[m + 1] = j
        /\ \A i \in 1..m : p[i] = pending[i]
    BY <2>1, InvFacts, AppendProperties
  <2>3. \A i, k \in 1..m : i < k /\ attempt[pending[i]] = 0 => attempt[pending[k]] = 0
    BY <2>1, InvFacts DEF Ordered
  <2>4. attempt[j] = 0
    BY <1>1, InvFacts
  <2>5. ASSUME NEW i \in 1..(m + 1), NEW k \in 1..(m + 1), i < k, attempt[p[i]] = 0
        PROVE  attempt[p[k]] = 0
    <3>1. i \in 1..m /\ (k \in 1..m \/ k = m + 1)
      BY <2>5
    <3>2. QED
      BY <3>1, <2>2, <2>3, <2>4, <2>5
  <2>6. QED
    BY <2>2, <2>5 DEF Ordered
<1>5. Callable(p, active, backoff, st, attempt)
  BY <1>2, <1>3, <1>4, InvFacts DEF Callable
<1>6. /\ QueueInv'
      /\ \A k \in Jobs : stage'[k] \in InFlight => st[k] \in InFlight \/ backoff' = 0
  BY <1>1, <1>5, InvFacts, DrainStep
<1>7. \A k \in Jobs : st[k] \in InFlight => stage[k] \in InFlight
  BY InvFacts
<1>8. QED
  BY <1>1, <1>6, <1>7, InvFacts DEF RestedStep

LEMMA SettledStep ==
  ASSUME QueueInv, NEW j \in Jobs, stage[j] \in InFlight,
         NEW how \in {"resolved", "rejected"}, Settled(j, how)
  PROVE  QueueInv' /\ RestedStep
<1> PICK st : st = [stage EXCEPT ![j] = how]
  OBVIOUS
<1>1. /\ Drain(pending, active - 1, backoff, st)
      /\ backoff' = backoff /\ attempt' = attempt /\ forces' = forces
  BY DEF Settled
<1>2. Books(pending, active - 1, st)
  BY InvFacts, SettledBooks
<1>3. \A k \in Jobs : st[k] = "new" => attempt[k] = 0
  BY InvFacts
<1>4. active - 1 <= Concurrency
  BY InvFacts
<1>5. Callable(pending, active - 1, backoff, st, attempt)
  BY <1>2, <1>3, <1>4, InvFacts DEF Callable
<1>6. /\ QueueInv'
      /\ \A k \in Jobs : stage'[k] \in InFlight => st[k] \in InFlight \/ backoff' = 0
  BY <1>1, <1>5, InvFacts, DrainStep
<1>7. \A k \in Jobs : st[k] \in InFlight => stage[k] \in InFlight
  BY InvFacts
<1>8. QED
  BY <1>1, <1>6, <1>7, InvFacts DEF RestedStep

\* applyBackoff() stays within the cap and never shortens the backoff.
LEMMA BackedOffType ==
  ASSUME NEW ms \in Nat, backoff \in 0..MaxBackoff
  PROVE  BackedOff(ms) \in 0..MaxBackoff /\ BackedOff(ms) >= backoff
BY QueueAssumption DEF BackedOff, Most, Least

LEMMA WaitType ==
  ASSUME NEW r \in RetryAfters
  PROVE  Wait(r) \in Nat
BY QueueAssumption DEF Wait

LEMMA RateLimitedStep ==
  ASSUME QueueInv, NEW j \in Jobs, NEW retryAfter \in RetryAfters,
         RateLimited(j, retryAfter)
  PROVE  QueueInv' /\ RestedStep
<1>1. PICK b : b = BackedOff(Wait(retryAfter))
  OBVIOUS
<1>2. b \in 0..MaxBackoff /\ b >= backoff
  BY <1>1, InvFacts, WaitType, BackedOffType
<1>3. active - 1 <= Concurrency
  BY InvFacts
<1>4. stage[j] = "headers" /\ backoff' = b /\ forces' = forces
  BY <1>1 DEF RateLimited
<1>5. CASE attempt[j] < MaxRetries
  <2>1. PICK p, st, at : /\ p = <<j>> \o pending
                         /\ st = [stage EXCEPT ![j] = "queued"]
                         /\ at = [attempt EXCEPT ![j] = @ + 1]
    OBVIOUS
  <2>2. Drain(p, active - 1, b, st) /\ attempt' = at
    BY <1>1, <1>5, <2>1 DEF RateLimited, RetriedFirst
  <2>3. Books(p, active - 1, st)
    BY <1>4, <2>1, InvFacts, RetriedBooks
  <2>4. /\ at \in [Jobs -> 0..MaxRetries] /\ at[j] # 0
        /\ \A k \in Jobs : k # j => at[k] = attempt[k]
    BY <1>5, <2>1, InvFacts
  <2>5. \A k \in Jobs : st[k] = "new" => at[k] = 0
    BY <2>1, <2>4, InvFacts
  <2>6. Ordered(p, at)
    <3>1. PICK m \in Nat : m = Len(pending)
      BY InvFacts, LenProperties
    <3>2. /\ Len(p) = m + 1 /\ p[1] = j
          /\ \A i \in 1..m : p[i + 1] = pending[i]
      BY <2>1, <3>1, InvFacts, Prepended
    <3>3. \A i \in 1..m : pending[i] \in Jobs /\ pending[i] # j
      BY <1>4, <3>1, InvFacts, LenProperties DEF Books
    <3>4. \A i, k \in 1..m : i < k /\ attempt[pending[i]] = 0 => attempt[pending[k]] = 0
      BY <3>1, InvFacts DEF Ordered
    <3>5. \A i \in 1..(m + 1) : i = 1 \/ (i - 1 \in 1..m /\ p[i] = pending[i - 1])
      BY <3>2
    <3>6. ASSUME NEW i \in 1..(m + 1), NEW k \in 1..(m + 1), i < k, at[p[i]] = 0
          PROVE  at[p[k]] = 0
      <4>1. i # 1 /\ k # 1
        BY <2>4, <3>2, <3>6
      <4>2. /\ i - 1 \in 1..m /\ p[i] = pending[i - 1]
            /\ k - 1 \in 1..m /\ p[k] = pending[k - 1]
            /\ i - 1 < k - 1
        BY <3>5, <3>6, <4>1
      <4>3. QED
        BY <2>4, <3>3, <3>4, <3>6, <4>2
    <3>7. QED
      BY <3>2, <3>6 DEF Ordered
  <2>7. Callable(p, active - 1, b, st, at)
    BY <1>2, <1>3, <2>3, <2>4, <2>5, <2>6 DEF Callable
  <2>8. /\ QueueInv'
        /\ \A k \in Jobs : stage'[k] \in InFlight => st[k] \in InFlight \/ backoff' = 0
    BY <1>4, <2>2, <2>7, InvFacts, DrainStep
  <2>9. \A k \in Jobs : st[k] \in InFlight => stage[k] \in InFlight
    BY <2>1, InvFacts
  <2>10. QED
    BY <1>2, <1>4, <2>8, <2>9, InvFacts DEF RestedStep
<1>6. CASE ~(attempt[j] < MaxRetries)
  <2>1. PICK st : st = [stage EXCEPT ![j] = "rejected"]
    OBVIOUS
  <2>2. Drain(pending, active - 1, b, st) /\ attempt' = attempt
    BY <1>1, <1>6, <2>1, InvFacts DEF RateLimited
  <2>3. Books(pending, active - 1, st)
    BY <1>4, <2>1, InvFacts, SettledBooks
  <2>4. \A k \in Jobs : st[k] = "new" => attempt[k] = 0
    BY <2>1, InvFacts
  <2>5. Callable(pending, active - 1, b, st, attempt)
    BY <1>2, <1>3, <2>3, <2>4, InvFacts DEF Callable
  <2>6. /\ QueueInv'
        /\ \A k \in Jobs : stage'[k] \in InFlight => st[k] \in InFlight \/ backoff' = 0
    BY <1>4, <2>2, <2>5, InvFacts, DrainStep
  <2>7. \A k \in Jobs : st[k] \in InFlight => stage[k] \in InFlight
    BY <2>1, InvFacts
  <2>8. QED
    BY <1>2, <1>4, <2>6, <2>7, InvFacts DEF RestedStep
<1>7. QED
  BY <1>5, <1>6

LEMMA HeadersArriveStep ==
  ASSUME QueueInv, NEW j \in Jobs, HeadersArrive(j)
  PROVE  QueueInv' /\ RestedStep
<1>1. /\ stage[j] = "headers" /\ stage' = [stage EXCEPT ![j] = "body"]
      /\ UNCHANGED <<pending, active, backoff, draining, nap, attempt, forces>>
  BY DEF HeadersArrive
<1>2. /\ stage' \in [Jobs -> Stages]
      /\ \A k \in Jobs : /\ stage'[k] \in InFlight <=> stage[k] \in InFlight
                         /\ stage'[k] = "queued" <=> stage[k] = "queued"
                         /\ stage'[k] = "new" <=> stage[k] = "new"
  BY <1>1, InvFacts
<1>3. Flying(stage') = Flying(stage)
  BY <1>2 DEF Flying
<1>4. \A i \in 1..Len(pending) : pending[i] \in Jobs
  BY InvFacts, LenProperties
<1>5. Books(pending, active, stage')
  BY <1>2, <1>3, <1>4, InvFacts DEF Books
<1>6. Callable(pending', active', backoff', stage', attempt')
  BY <1>1, <1>2, <1>5, InvFacts DEF Callable
<1>7. NeverIdleWithWork'
  BY <1>1 DEF QueueInv, NeverIdleWithWork
<1>8. QED
  BY <1>1, <1>2, <1>6, <1>7, InvFacts DEF QueueInv, RestedStep

LEMMA ForceBackoffStep ==
  ASSUME QueueInv, NEW r \in RetryAfters, ForceBackoff(Wait(r))
  PROVE  QueueInv' /\ RestedStep
<1>1. PICK b : b = BackedOff(Wait(r))
  OBVIOUS
<1>2. b \in 0..MaxBackoff /\ b >= backoff
  BY <1>1, InvFacts, WaitType, BackedOffType
<1>3. /\ forces < MaxForces /\ forces' = forces + 1 /\ backoff' = b
      /\ UNCHANGED <<pending, active, draining, nap, stage, attempt>>
  BY <1>1 DEF ForceBackoff
<1>4. Callable(pending', active', backoff', stage', attempt')
  BY <1>2, <1>3 DEF QueueInv, Callable
<1>5. NeverIdleWithWork'
  BY <1>3 DEF QueueInv, NeverIdleWithWork
<1>6. forces' \in 0..MaxForces
  BY <1>3, InvFacts
<1>7. QED
  BY <1>2, <1>3, <1>4, <1>5, <1>6, InvFacts DEF QueueInv, RestedStep

LEMMA WakeStep ==
  ASSUME QueueInv, Wake
  PROVE  QueueInv' /\ RestedStep
<1>1. Loop(pending, active, backoff, stage) /\ UNCHANGED <<backoff, attempt, forces>>
  BY DEF Wake
<1>2. Callable(pending, active, backoff, stage, attempt)
  BY DEF QueueInv
<1>3. /\ Books(pending', active', stage') /\ active' <= Concurrency
      /\ NeverIdleWithWork' /\ Ordered(pending', attempt)
      /\ nap' \in 0..MaxBackoff /\ draining' \in BOOLEAN
      /\ \A j \in Jobs : stage'[j] = "new" => stage[j] = "new"
      /\ \A j \in Jobs : stage'[j] \in InFlight => stage[j] \in InFlight \/ backoff = 0
  BY <1>1, <1>2, LoopKeepsBooks
<1>4. \A j \in Jobs : stage'[j] = "new" => attempt[j] = 0
  BY <1>3, InvFacts
<1>5. Callable(pending', active', backoff', stage', attempt')
  BY <1>1, <1>3, <1>4, InvFacts DEF Callable
<1>6. QED
  BY <1>1, <1>3, <1>5, InvFacts DEF QueueInv, RestedStep

LEMMA TickStep ==
  ASSUME QueueInv, QueueTick
  PROVE  QueueInv' /\ RestedStep
<1>1. /\ backoff' \in 0..MaxBackoff /\ backoff' >= backoff - 1
      /\ nap' \in 0..MaxBackoff
      /\ UNCHANGED <<pending, active, draining, stage, attempt, forces>>
  BY InvFacts DEF QueueTick, Most
<1>2. Callable(pending', active', backoff', stage', attempt')
  BY <1>1 DEF QueueInv, Callable
<1>3. NeverIdleWithWork'
  BY <1>1 DEF QueueInv, NeverIdleWithWork
<1>4. QED
  BY <1>1, <1>2, <1>3, InvFacts DEF QueueInv, RestedStep

LEMMA StutterStep ==
  ASSUME QueueInv, UNCHANGED queueVars
  PROVE  QueueInv'
BY DEF QueueInv, Callable, NeverIdleWithWork, queueVars

LEMMA InitInv ==
  ASSUME QueueInit
  PROVE  QueueInv
<1>1. /\ pending = <<>> /\ active = 0 /\ backoff = 0 /\ draining = FALSE /\ nap = 0
      /\ stage = [j \in Jobs |-> "new"] /\ attempt = [j \in Jobs |-> 0] /\ forces = 0
  BY DEF QueueInit
<1>2. pending \in Seq(Jobs) /\ Len(pending) = 0
  BY <1>1
<1>3. Flying(stage) = {}
  BY <1>1 DEF Flying
<1>4. active = Cardinality(Flying(stage))
  BY <1>1, <1>3, FS_EmptySet
<1>5. Books(pending, active, stage)
  BY <1>1, <1>2, <1>4 DEF Books
<1>6. Ordered(pending, attempt)
  BY <1>2 DEF Ordered
<1>7. Callable(pending, active, backoff, stage, attempt)
  BY <1>1, <1>5, <1>6, QueueAssumption DEF Callable
<1>8. NeverIdleWithWork
  BY <1>1 DEF NeverIdleWithWork
<1>9. nap \in 0..MaxBackoff /\ draining \in BOOLEAN /\ forces \in 0..MaxForces
  <2>1. draining \in BOOLEAN
    BY <1>1, Zenon
  <2>2. nap = 0 /\ forces = 0
    BY <1>1
  <2>3. QED
    BY <2>1, <2>2, QueueAssumption
<1>10. QED
  BY <1>7, <1>8, <1>9 DEF QueueInv

LEMMA NextStep ==
  ASSUME QueueInv, QueueNext
  PROVE  QueueInv' /\ RestedStep
<1>1. CASE \E j \in Jobs : Push(j)
  BY <1>1, PushStep
<1>2. CASE \E j \in Jobs : HeadersEnd(j)
  <2>1. PICK j \in Jobs : HeadersEnd(j)
    BY <1>2
  <2>2. CASE NoResponse(j)
    BY <2>2, SettledStep DEF NoResponse
  <2>3. CASE HeadersArrive(j)
    BY <2>3, HeadersArriveStep
  <2>4. CASE \E r \in RetryAfters : RateLimited(j, r)
    BY <2>4, RateLimitedStep
  <2>5. QED
    BY <2>1, <2>2, <2>3, <2>4 DEF HeadersEnd
<1>3. CASE \E j \in Jobs : BodyEnds(j)
  BY <1>3, SettledStep DEF BodyEnds
<1>4. CASE \E r \in RetryAfters : ForceBackoff(Wait(r))
  BY <1>4, ForceBackoffStep
<1>5. CASE Wake
  BY <1>5, WakeStep
<1>6. CASE QueueTick
  BY <1>6, TickStep
<1>7. QED
  BY <1>1, <1>2, <1>3, <1>4, <1>5, <1>6 DEF QueueNext

\* The invariant holds in every state the queue reaches.
THEOREM QueueInvariant == QueueSpec => []QueueInv
<1>1. QueueInit => QueueInv
  BY InitInv
<1>2. QueueInv /\ [QueueNext]_queueVars => QueueInv'
  BY NextStep, StutterStep
<1>3. QED
  BY <1>1, <1>2, PTL DEF QueueSpec

-----------------------------------------------------------------------------
(* The properties *)

\* Type correctness of every variable of queue.js.
THEOREM TypeCorrect == QueueSpec => []QueueTypeOK
<1>1. QueueInv => QueueTypeOK
  BY InvFacts DEF QueueTypeOK
<1>2. QED
  BY <1>1, QueueInvariant, PTL

\* The count in flight is right and within the ceiling, and every job that waits is in
\* the queue exactly once: no callback of queue.js launches a job twice or loses one.
THEOREM CeilingTheorem == QueueSpec => []CeilingHeld
<1>1. ASSUME QueueInv
      PROVE  CeilingHeld
  <2>1. PICK waiting : /\ waiting = {j \in Jobs : stage[j] = "queued"}
                       /\ waiting \subseteq Jobs
    OBVIOUS
  <2>2. /\ \A i, k \in 1..Len(pending) : i # k => pending[i] # pending[k]
        /\ \A i \in 1..Len(pending) : stage[pending[i]] = "queued"
        /\ \A j \in Jobs : stage[j] = "queued" => \E i \in 1..Len(pending) : j = pending[i]
        /\ active = Cardinality(Flying(stage))
    BY <1>1, InvFacts DEF Books
  <2>3. PICK m \in Nat : m = Len(pending) /\ \A i \in 1..m : pending[i] \in Jobs
    BY <1>1, InvFacts, LenProperties
  <2>4. First(pending, m) = waiting
    BY <2>1, <2>2, <2>3 DEF First
  <2>5. m \in 0..Len(pending)
    BY <2>3
  <2>6. Cardinality(First(pending, m)) = m
    BY <1>1, <2>2, <2>5, InvFacts, DistinctCount, Zenon
  <2>7. DOMAIN pending = 1..m
    BY <1>1, <2>3, InvFacts, LenProperties
  <2>8. {pending[i] : i \in DOMAIN pending} = waiting /\ Len(pending) = Cardinality(waiting)
    BY <2>3, <2>4, <2>6, <2>7 DEF First
  <2>9. active = Cardinality({j \in Jobs : stage[j] \in InFlight})
    BY <2>2 DEF Flying
  <2>10. QED
    BY <1>1, <2>1, <2>8, <2>9, InvFacts DEF CeilingHeld
<1>2. QED
  BY <1>1, QueueInvariant, PTL

\* No lost wakeup: jobs wait only while the drain loop of queue.js sleeps or every
\* slot is taken.
THEOREM NoLostWakeup == QueueSpec => []NeverIdleWithWork
<1>1. QueueInv => NeverIdleWithWork
  BY DEF QueueInv
<1>2. QED
  BY <1>1, QueueInvariant, PTL

\* The unshift of queue.js keeps retries ahead of every job never tried.
THEOREM RetriesAhead == QueueSpec => []RetriesFirst
<1>1. ASSUME QueueInv
      PROVE  RetriesFirst
  <2>1. DOMAIN pending = 1..Len(pending)
    BY <1>1, InvFacts, LenProperties
  <2>2. QED
    BY <1>1, <2>1, InvFacts DEF RetriesFirst, Ordered
<1>2. QED
  BY <1>1, QueueInvariant, PTL

\* No job is launched while a backoff runs, and only time shortens a backoff.
THEOREM BackoffTheorem == QueueSpec => BackoffHonoured
<1>1. QueueInv /\ [QueueNext]_queueVars => [RestedStep]_queueVars
  BY NextStep
<1>2. QED
  BY <1>1, QueueInvariant, PTL DEF QueueSpec, BackoffHonoured
=============================================================================
