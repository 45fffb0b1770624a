------------------------ MODULE ContentScriptProofs ------------------------
(***************************************************************************)
(* The content script on every page: whatever candidates it has, in        *)
(* batches of any size and with any number of batches under way, no        *)
(* candidate is forgotten between the timers and the collections, and a    *)
(* detail page shows its own token.  And what it puts on the page          *)
(* (TagOverlay), for every set of markers and notices: the flags of the    *)
(* panel agree, no timer threatens a pinned panel, none is left open       *)
(* behind, and a notice ends with its own timer.  And what the panel says  *)
(* (RelicView): for every response the tag draws each axis once and in its *)
(* order, with a number only where one was sent.                           *)
(***************************************************************************)
EXTENDS ContentScript, TagPanel, SumLemmas, FiniteSetTheorems, SequenceTheorems, TLAPS

\* The parts of ContentTypeOK, with what a proof needs beside it: what is in the batch goes
\* out with the timer, or with the answer to an earlier batch.
ScriptInv ==
  /\ life \in {"loading", "running", "idle"}
  /\ allowed \in BOOLEAN /\ scanTimer \in BOOLEAN /\ batchTimer \in BOOLEAN
  /\ cooling \in BOOLEAN /\ notice \in BOOLEAN
  /\ events \in 0..MaxEvents /\ url \in Urls /\ lastHref \in Urls
  /\ here \subseteq Hosts /\ gone \subseteq Hosts /\ inView \subseteq here

TokenInv ==
  /\ pageMarker \in Urls \cup {NoUrl} /\ orphans \subseteq Urls /\ pageFailed \subseteq Urls
  /\ asked \in Urls /\ asks \in [Urls -> Nat]

BagsInv ==
  /\ tagged \subseteq Candidates /\ failed \subseteq Candidates
  /\ markers \in Bags /\ pending \in Bags /\ batch \in Bags
  /\ observed \subseteq Hosts
  /\ \A c \in Candidates : pending[c] > 0 => c[1] \in observed

FlightsInv ==
  /\ flights \in Seq(Bags) /\ Len(flights) <= MaxFlights
  /\ \A i \in DOMAIN flights : Cardinality(Addresses(Of(flights[i]))) \in 1..MAX_BATCH

BatchGoesOut == Of(batch) # {} => batchTimer \/ flights # <<>>

-----------------------------------------------------------------------------
(* Bags and batches *)

LEMMA BagValues ==
  /\ None \in Bags /\ \A c \in Candidates : None[c] = 0
  /\ \A bag \in Bags : \A c \in Candidates : bag[c] \in 0..2
  /\ \A bag \in Bags : \A S : Plus(bag, S) \in Bags /\ Without(bag, S) \in Bags
  /\ \A bag, more \in Bags : Join(bag, more) \in Bags
<1>1. None \in Bags /\ \A c \in Candidates : None[c] = 0
  BY DEF None, Bags, Many
<1>2. \A bag \in Bags : \A c \in Candidates : bag[c] \in 0..2
  BY DEF Bags, Many
<1>3. ASSUME NEW bag \in Bags, NEW S PROVE Plus(bag, S) \in Bags /\ Without(bag, S) \in Bags
  <2>1. \A c \in Candidates : Least(bag[c] + 1, Many) \in 0..2 /\ bag[c] \in 0..2
    BY <1>2 DEF Least, Many
  <2>2. QED
    BY <2>1 DEF Plus, Without, Bags, Many
<1>4. ASSUME NEW bag \in Bags, NEW more \in Bags PROVE Join(bag, more) \in Bags
  <2>1. \A c \in Candidates : Least(bag[c] + more[c], Many) \in 0..2
    BY <1>2 DEF Least, Many
  <2>2. QED
    BY <2>1 DEF Join, Bags, Many
<1>5. QED
  BY <1>1, <1>2, <1>3, <1>4

\* Which candidates are in a bag that was made of others.
LEMMA BagMembers ==
  ASSUME NEW bag \in Bags, NEW more \in Bags, NEW S, NEW c \in Candidates
  PROVE  /\ Plus(bag, S)[c] > 0 <=> bag[c] > 0 \/ c \in S
         /\ Without(bag, S)[c] > 0 <=> bag[c] > 0 /\ c \notin S
         /\ Join(bag, more)[c] > 0 <=> bag[c] > 0 \/ more[c] > 0
<1>1. bag[c] \in 0..2 /\ more[c] \in 0..2
  BY BagValues
<1>2. /\ Plus(bag, S)[c] = IF c \in S THEN Least(bag[c] + 1, Many) ELSE bag[c]
      /\ Without(bag, S)[c] = IF c \in S THEN 0 ELSE bag[c]
      /\ Join(bag, more)[c] = Least(bag[c] + more[c], Many)
  BY DEF Plus, Without, Join
<1>3. QED
  BY <1>1, <1>2 DEF Least, Many

\* The batches under way when one of them has been answered.
LEMMA FlightsLeft ==
  ASSUME NEW T, NEW s \in Seq(T), NEW i \in DOMAIN s
  PROVE  /\ RemoveAt(s, i) \in Seq(T) /\ Len(RemoveAt(s, i)) = Len(s) - 1
         /\ \A j \in DOMAIN RemoveAt(s, i) : \E k \in DOMAIN s : RemoveAt(s, i)[j] = s[k]
         /\ \A k \in DOMAIN s \ {i} : \E j \in DOMAIN RemoveAt(s, i) : RemoveAt(s, i)[j] = s[k]
<1> DEFINE r == RemoveAt(s, i)
<1>1. i \in 1..Len(s) /\ DOMAIN s = 1..Len(s) /\ Len(s) \in Nat
  OBVIOUS
<1>2. r \in Seq(T) /\ Len(r) = Len(s) - 1
  BY <1>1 DEF RemoveAt
<1>3. \A j \in 1..(Len(s) - 1) : r[j] = IF j < i THEN s[j] ELSE s[j + 1]
  <2> DEFINE front == SubSeq(s, 1, i - 1)
             back == SubSeq(s, i + 1, Len(s))
  <2>1. /\ front \in Seq(T) /\ Len(front) = i - 1
        /\ \A j \in 1..(i - 1) : front[j] = s[j]
    BY <1>1
  <2>2. /\ back \in Seq(T) /\ Len(back) = Len(s) - i
        /\ \A j \in 1..(Len(s) - i) : back[j] = s[i + j]
    BY <1>1
  <2>3. r = front \o back
    BY DEF RemoveAt
  <2> HIDE DEF front, back, r
  <2>4. \A j \in 1..(Len(s) - 1) : r[j] = IF j <= i - 1 THEN front[j] ELSE back[j - (i - 1)]
    BY <1>1, <2>1, <2>2, <2>3
  <2>5. SUFFICES ASSUME NEW j \in 1..(Len(s) - 1)
                 PROVE  r[j] = IF j < i THEN s[j] ELSE s[j + 1]
    OBVIOUS
  <2>6. CASE j < i
    BY <1>1, <2>1, <2>4, <2>6
  <2>7. CASE ~(j < i)
    <3>1. j - (i - 1) \in 1..(Len(s) - i) /\ i + (j - (i - 1)) = j + 1
      BY <1>1, <2>7
    <3>2. back[j - (i - 1)] = s[j + 1]
      BY <2>2, <3>1
    <3>3. QED
      BY <1>1, <2>4, <2>7, <3>2
  <2>8. QED
    BY <2>6, <2>7
<1> HIDE DEF r
<1>4. DOMAIN r = 1..(Len(s) - 1)
  BY <1>1, <1>2
<1>5. \A j \in DOMAIN r : \E k \in DOMAIN s : r[j] = s[k]
  <2> SUFFICES ASSUME NEW j \in DOMAIN r PROVE \E k \in DOMAIN s : r[j] = s[k]
    OBVIOUS
  <2>1. j \in 1..Len(s) /\ j + 1 \in 1..Len(s)
    BY <1>1, <1>4
  <2>2. QED
    BY <1>1, <1>3, <1>4, <2>1
<1>6. \A k \in DOMAIN s \ {i} : \E j \in DOMAIN r : r[j] = s[k]
  <2> SUFFICES ASSUME NEW k \in DOMAIN s \ {i} PROVE \E j \in DOMAIN r : r[j] = s[k]
    OBVIOUS
  <2>1. CASE k < i
    <3>1. k \in 1..(Len(s) - 1) /\ r[k] = s[k]
      BY <1>1, <1>3, <2>1
    <3>2. QED
      BY <1>4, <3>1
  <2>2. CASE ~(k < i)
    <3>1. k - 1 \in 1..(Len(s) - 1) /\ ~(k - 1 < i) /\ (k - 1) + 1 = k
      BY <1>1, <2>2
    <3>2. r[k - 1] = s[k]
      BY <1>3, <3>1
    <3>3. QED
      BY <1>4, <3>1, <3>2
  <2>3. QED
    BY <2>1, <2>2
<1>7. QED
  BY <1>2, <1>5, <1>6 DEF r

-----------------------------------------------------------------------------
(* The script, the page and its token *)

LEMMA ScriptStep == ScriptInv /\ [Next]_vars => ScriptInv'
<1> SUFFICES ASSUME ScriptInv, [Next]_vars PROVE ScriptInv'
  OBVIOUS
<1> USE ContentAssumption DEF ScriptInv, page
<1>1. CASE Boot
  BY <1>1 DEF Boot
<1>2. CASE Scan
  BY <1>2 DEF Scan
<1>3. CASE FlushBatch
  BY <1>3 DEF FlushBatch
<1>4. ASSUME NEW i \in DOMAIN flights, LoseAnswer(i) PROVE ScriptInv'
  BY <1>4 DEF LoseAnswer, Rearmed, Event
<1>5. ASSUME NEW i \in DOMAIN flights, NEW bad, Answer(i, bad) PROVE ScriptInv'
  <2>1. UNCHANGED <<life, allowed, page>> /\ (events' = events \/ Event)
    BY <1>5 DEF Answer
  <2>2. batchTimer' \in BOOLEAN
    BY <1>5 DEF Answer, Rearmed
  <2>3. scanTimer' \in BOOLEAN /\ cooling' \in BOOLEAN /\ notice' \in BOOLEAN
    BY <1>5 DEF Answer, Reported, Unreported
  <2>4. QED
    BY <2>1, <2>2, <2>3 DEF Event
<1>6. ASSUME NEW h \in Hosts, EnterViewport(h) PROVE ScriptInv'
  BY <1>6 DEF EnterViewport
<1>7. ASSUME NEW h \in Hosts, Mutate(h) \/ Scroll(h) PROVE ScriptInv'
  <2>1. CASE Scroll(h)
    BY <2>1 DEF Scroll
  <2>2. CASE Mutate(h)
    <3>1. /\ UNCHANGED <<life, allowed, url, lastHref, batchTimer, cooling, notice>>
          /\ scanTimer' = TRUE
          /\ events' = events \/ Event
      BY <2>2 DEF Mutate
    <3>2. here' \subseteq Hosts /\ gone' \subseteq Hosts /\ inView' \subseteq here'
      BY <2>2 DEF Mutate
    <3>3. QED
      BY <3>1, <3>2 DEF Event
  <2>3. QED
    BY <1>7, <2>1, <2>2
<1>8. ASSUME NEW u \in Urls, NEW reply \in PageReplies, PageAnswer(u, reply) PROVE ScriptInv'
  <2>1. UNCHANGED <<life, allowed, page, batchTimer>> /\ (events' = events \/ Event)
    BY <1>8 DEF PageAnswer
  <2>2. scanTimer' \in BOOLEAN /\ cooling' \in BOOLEAN /\ notice' \in BOOLEAN
    BY <1>8 DEF PageAnswer, Reported, Unreported
  <2>3. QED
    BY <2>1, <2>2 DEF Event
<1>9. ASSUME NEW u \in Urls, PushState(u) \/ PopState(u) PROVE ScriptInv'
  <2>1. /\ UNCHANGED <<life, allowed, here, gone, inView, batchTimer, cooling, notice>>
        /\ url' = u /\ Event
    BY <1>9 DEF PushState, PopState
  <2>2. lastHref' \in {lastHref, u} /\ scanTimer' \in {scanTimer, TRUE}
    BY <1>9 DEF PushState, PopState, UrlChanged
  <2>3. scanTimer' \in BOOLEAN /\ lastHref' \in Urls
    BY <2>2
  <2>4. events' \in 0..MaxEvents
    BY <2>1 DEF Event
  <2>5. QED
    BY <2>1, <2>3, <2>4
<1>s. ASSUME NEW on \in BOOLEAN, ChangeSettings(on) PROVE ScriptInv'
  <2>1. /\ UNCHANGED <<life, page, batchTimer, cooling, notice>>
        /\ allowed' = on /\ Event
    BY <1>s DEF ChangeSettings
  <2>2. scanTimer' \in BOOLEAN
    BY <1>s DEF ChangeSettings
  <2>3. QED
    BY <2>1, <2>2 DEF Event
<1>10. CASE DismissNotice \/ Retry \/ CoolDown
  BY <1>10 DEF DismissNotice, Retry, CoolDown
<1>11. CASE UNCHANGED vars
  BY <1>11 DEF vars
<1>12. QED
  BY <1>1, <1>2, <1>3, <1>4, <1>5, <1>6, <1>7, <1>8, <1>9, <1>s, <1>10, <1>11 DEF Next, Answered

LEMMA RefreshedToken ==
  ASSUME TokenInv, NEW on, NEW u \in Urls, Refreshed(on, u)
  PROVE  TokenInv'
<1>1. [asks EXCEPT ![u] = @ + 1] \in [Urls -> Nat]
  BY DEF TokenInv
<1>2. asks' \in [Urls -> Nat]
  BY <1>1 DEF TokenInv, Refreshed
<1>3. QED
  BY <1>2 DEF TokenInv, Refreshed

LEMMA TokenStep == ScriptInv /\ TokenInv /\ [Next]_vars => TokenInv'
<1> SUFFICES ASSUME ScriptInv, TokenInv, [Next]_vars PROVE TokenInv'
  OBVIOUS
<1>0. url \in Urls
  BY DEF ScriptInv
<1>6. ASSUME UNCHANGED pageToken PROVE TokenInv'
  BY <1>6 DEF TokenInv, pageToken
<1>1. CASE Boot
  BY <1>0, <1>1, <1>6, RefreshedToken DEF Boot
<1>2. ASSUME NEW u \in Urls, NEW reply \in PageReplies, PageAnswer(u, reply) PROVE TokenInv'
  <2>1. asks' \in [Urls -> Nat]
    BY <1>2 DEF PageAnswer, TokenInv
  <2>2. orphans' \subseteq Urls /\ pageMarker' \in Urls \cup {NoUrl}
    BY <1>2 DEF PageAnswer, Appended, TokenInv
  <2>3. pageFailed' \subseteq Urls /\ asked' = asked
    BY <1>2 DEF PageAnswer, TokenInv
  <2>4. QED
    BY <2>1, <2>2, <2>3 DEF TokenInv
<1>3. ASSUME NEW u \in Urls, PushState(u) \/ PopState(u) PROVE TokenInv'
  <2>1. UNCHANGED pageToken \/ Refreshed(allowed, u)
    BY <1>3 DEF PushState, PopState, UrlChanged
  <2>2. QED
    BY <1>6, <2>1, RefreshedToken
<1>4. ASSUME NEW on \in BOOLEAN, ChangeSettings(on) PROVE TokenInv'
  <2>1. CASE on
    BY <1>0, <1>4, <2>1, RefreshedToken DEF ChangeSettings
  <2>2. CASE ~on
    BY <1>4, <2>2 DEF ChangeSettings, TokenInv
  <2>3. QED
    BY <2>1, <2>2
<1>5. CASE Retry
  BY <1>0, <1>5, RefreshedToken DEF Retry
<1>7. CASE \E i \in DOMAIN flights :
             LoseAnswer(i) \/ \E bad \in SUBSET Addresses(Of(flights[i])) : Answer(i, bad)
  <2>1. UNCHANGED pageToken
    BY <1>7 DEF LoseAnswer, Answer
  <2>2. QED
    BY <1>6, <2>1
<1>8. CASE \E h \in Hosts : EnterViewport(h) \/ Mutate(h) \/ Scroll(h)
  <2>1. UNCHANGED pageToken
    BY <1>8 DEF EnterViewport, Mutate, Scroll
  <2>2. QED
    BY <1>6, <2>1
<1>9. CASE Scan \/ FlushBatch \/ DismissNotice \/ CoolDown \/ UNCHANGED vars
  <2>1. UNCHANGED pageToken
    BY <1>9 DEF Scan, FlushBatch, DismissNotice, CoolDown, vars
  <2>2. QED
    BY <1>6, <2>1
<1>10. QED
  BY <1>1, <1>2, <1>3, <1>4, <1>5, <1>7, <1>8, <1>9 DEF Next, Answered

-----------------------------------------------------------------------------
(* The collections of candidates *)

\* Scanning: what is found is pending, and its host is observed.
LEMMA ScannedBags ==
  ASSUME ScriptInv, BagsInv, Scanned(pending)
  PROVE  /\ pending' \in Bags /\ observed' \subseteq Hosts /\ failed' \subseteq Candidates
         /\ \A c \in Candidates : pending'[c] > 0 => c[1] \in observed'
         /\ \A c \in collectTargets : pending'[c] > 0
         /\ failed \ collectTargets \subseteq failed'
<1>1. collectTargets \subseteq Candidates
  BY DEF collectTargets, On
<1>2. pending' \in Bags /\ \A c \in Candidates :
        pending'[c] > 0 <=> pending[c] > 0 \/ c \in collectTargets
  BY BagValues, BagMembers DEF BagsInv, Scanned
<1>3. \A c \in collectTargets :
        c[1] \in observed' \/ \E d \in Candidates : d[1] = c[1] /\ pending[d] # 0
  BY DEF Scanned, On
<1>4. \A d \in Candidates : pending[d] # 0 => d[1] \in observed
  BY BagValues DEF BagsInv
<1>5. observed \subseteq observed' /\ observed' \subseteq Hosts /\ failed' = failed \ collectTargets
  BY <1>1 DEF Scanned, BagsInv, Hosts
<1>6. \A c \in Candidates : pending'[c] > 0 => c[1] \in observed'
  BY <1>2, <1>3, <1>4, <1>5 DEF BagsInv
<1>7. QED
  BY <1>1, <1>2, <1>5, <1>6 DEF BagsInv

LEMMA BagsStep == ScriptInv /\ BagsInv /\ FlightsInv /\ [Next]_vars => BagsInv'
<1> SUFFICES ASSUME ScriptInv, BagsInv, FlightsInv, [Next]_vars PROVE BagsInv'
  OBVIOUS
<1>0. \A i \in DOMAIN flights : flights[i] \in Bags
  BY DEF FlightsInv
<1>1. CASE Boot
  BY <1>1, ScannedBags DEF Boot, BagsInv
<1>2. CASE Scan
  BY <1>2, ScannedBags DEF Scan, BagsInv
<1>3. CASE FlushBatch
  <2>1. batch' \in Bags
    BY <1>3, BagValues DEF FlushBatch, Flushed, BagsInv
  <2>2. QED
    BY <1>3, <2>1 DEF FlushBatch, BagsInv
<1>4. ASSUME NEW i \in DOMAIN flights, LoseAnswer(i) PROVE BagsInv'
  BY <1>4 DEF LoseAnswer, BagsInv, Of
<1>5. ASSUME NEW i \in DOMAIN flights, NEW bad, Answer(i, bad) PROVE BagsInv'
  <2>1. markers' \in Bags
    BY <1>0, <1>5, BagValues DEF Answer, BagsInv
  <2>2. tagged' \subseteq Candidates /\ failed' \subseteq Candidates
    BY <1>5 DEF Answer, BagsInv, Of
  <2>3. UNCHANGED <<pending, observed, batch>>
    BY <1>5 DEF Answer
  <2>4. QED
    BY <2>1, <2>2, <2>3 DEF BagsInv
<1>6. ASSUME NEW h \in Hosts, EnterViewport(h) PROVE BagsInv'
  <2>1. /\ pending' = Without(pending, On({h})) /\ observed' = observed \ {h}
        /\ batch' = Join(batch, Without(pending, Candidates \ On({h})))
        /\ UNCHANGED <<tagged, markers, failed>>
    BY <1>6 DEF EnterViewport
  <2>2. pending' \in Bags /\ batch' \in Bags
    BY <2>1, BagValues DEF BagsInv
  <2>3. \A c \in Candidates : pending'[c] > 0 <=> pending[c] > 0 /\ c \notin On({h})
    BY <2>1, BagMembers DEF BagsInv
  <2>4. QED
    BY <2>1, <2>2, <2>3 DEF BagsInv, On
<1>7. CASE \E u \in Urls : PushState(u) \/ PopState(u)
  <2>1. /\ UNCHANGED <<tagged, failed, markers, observed>>
        /\ pending' \in {None, pending} /\ batch' \in {None, batch}
    BY <1>7 DEF PushState, PopState, UrlChanged, candidates
  <2>2. \A c \in Candidates : pending'[c] > 0 => pending[c] > 0
    BY <2>1, BagValues
  <2>3. pending' \in Bags /\ batch' \in Bags
    BY <2>1, BagValues DEF BagsInv
  <2>4. QED
    BY <2>1, <2>2, <2>3 DEF BagsInv
<1>8. CASE \E on \in BOOLEAN : ChangeSettings(on)
  <2>1. markers' \in Bags /\ UNCHANGED <<tagged, pending, observed, batch, failed>>
    BY <1>8, BagValues DEF ChangeSettings, BagsInv
  <2>2. QED
    BY <2>1 DEF BagsInv
<1>9. CASE Retry
  BY <1>9 DEF Retry, BagsInv
<1>10. ASSUME UNCHANGED candidates PROVE BagsInv'
  BY <1>10 DEF candidates, BagsInv
<1>11. CASE \E h \in Hosts : Mutate(h) \/ Scroll(h)
  BY <1>10, <1>11 DEF Mutate, Scroll
<1>12. CASE \E u \in Urls, reply \in PageReplies : PageAnswer(u, reply)
  BY <1>10, <1>12 DEF PageAnswer
<1>13. CASE DismissNotice \/ CoolDown \/ UNCHANGED vars
  BY <1>10, <1>13 DEF DismissNotice, CoolDown, vars
<1>14. QED
  BY <1>1, <1>2, <1>3, <1>4, <1>5, <1>6, <1>7, <1>8, <1>9, <1>11, <1>12, <1>13
  DEF Next, Answered

-----------------------------------------------------------------------------
(* The batches under way *)

LEMMA AddressesFinite ==
  ASSUME NEW S \in SUBSET Candidates
  PROVE  /\ IsFiniteSet(Addresses(S)) /\ Cardinality(Addresses(S)) \in Nat
         /\ Addresses(S) # {} => Cardinality(Addresses(S)) >= 1
<1>1. IsFiniteSet(S)
  BY ContentAssumption, FS_Subset
<1> DEFINE f == [c \in S |-> c[2]]
<1>2. f \in Surjection(S, Addresses(S))
  BY DEF Surjection, Addresses
<1>3. IsFiniteSet(Addresses(S))
  BY <1>1, <1>2, FS_Surjection
<1>4. QED
  BY <1>3, FS_CardinalityType, FS_EmptySet

\* What goes out is the chosen addresses, and what stays is the rest.
LEMMA FlushedParts ==
  ASSUME BagsInv, NEW A \in Taken, Of(batch) # {}
  PROVE  LET out == {c \in Of(batch) : c[2] \in A}
             flight == Without(batch, Candidates \ out) IN
         /\ flight \in Bags /\ Of(flight) = out
         /\ Cardinality(Addresses(Of(flight))) \in 1..MAX_BATCH
<1> DEFINE out == {c \in Of(batch) : c[2] \in A}
           flight == Without(batch, Candidates \ out)
<1>1. flight \in Bags
  BY BagValues DEF BagsInv
<1>2. Of(flight) = out
  <2>1. \A c \in Candidates : flight[c] > 0 <=> batch[c] > 0 /\ c \notin Candidates \ out
    BY BagMembers DEF BagsInv
  <2>2. out \subseteq Of(batch)
    OBVIOUS
  <2> HIDE DEF flight, out
  <2>3. QED
    BY <2>1, <2>2 DEF Of
<1>3. Addresses(out) = A
  BY DEF Taken, Addresses
<1>4. /\ Cardinality(Addresses(Of(batch))) \in Nat
      /\ Cardinality(Addresses(Of(batch))) >= 1
  <2>1. Of(batch) \in SUBSET Candidates
    BY DEF Of
  <2>2. Addresses(Of(batch)) # {}
    BY DEF Addresses
  <2>3. QED
    BY <2>1, <2>2, AddressesFinite
<1>5. Cardinality(A) = Least(MAX_BATCH, Cardinality(Addresses(Of(batch))))
  BY DEF Taken
<1>6. Cardinality(A) \in 1..MAX_BATCH
  BY <1>4, <1>5, ContentAssumption DEF Least
<1> HIDE DEF out, flight
<1>7. Cardinality(Addresses(Of(flight))) \in 1..MAX_BATCH
  BY <1>2, <1>3, <1>6
<1>8. QED
  BY <1>1, <1>2, <1>7 DEF out, flight

LEMMA FlightsStep == BagsInv /\ FlightsInv /\ [Next]_vars => FlightsInv'
<1> SUFFICES ASSUME BagsInv, FlightsInv, [Next]_vars PROVE FlightsInv'
  OBVIOUS
<1>0. flights \in Seq(Bags) /\ Len(flights) \in Nat /\ MaxFlights \in Nat
  BY ContentAssumption DEF FlightsInv
<1>1. ASSUME UNCHANGED flights PROVE FlightsInv'
  BY <1>1 DEF FlightsInv
<1>2. CASE FlushBatch
  <2>1. CASE Of(batch) = {}
    BY <1>1, <1>2, <2>1 DEF FlushBatch
  <2>2. CASE Of(batch) # {}
    <3>1. PICK A \in Taken : flights' = Append(flights,
            Without(batch, Candidates \ {c \in Of(batch) : c[2] \in A}))
      BY <1>2, <2>2 DEF FlushBatch
    <3>2. PICK f : f = Without(batch, Candidates \ {c \in Of(batch) : c[2] \in A})
      OBVIOUS
    <3>3. f \in Bags /\ Cardinality(Addresses(Of(f))) \in 1..MAX_BATCH
      BY <2>2, <3>2, FlushedParts
    <3>4. flights' = Append(flights, f) /\ Len(flights) < MaxFlights
      BY <1>2, <3>1, <3>2 DEF FlushBatch
    <3>5. /\ flights' \in Seq(Bags) /\ Len(flights') = Len(flights) + 1
          /\ \A i \in DOMAIN flights' : flights'[i] = f \/ (i \in DOMAIN flights /\ flights'[i] = flights[i])
      BY <1>0, <3>3, <3>4
    <3>6. \A i \in DOMAIN flights' : Cardinality(Addresses(Of(flights'[i]))) \in 1..MAX_BATCH
      BY <3>3, <3>5 DEF FlightsInv
    <3>7. QED
      BY <1>0, <3>4, <3>5, <3>6 DEF FlightsInv
  <2>3. QED
    BY <2>1, <2>2
<1>3. ASSUME NEW i \in DOMAIN flights, flights' = RemoveAt(flights, i) PROVE FlightsInv'
  <2>1. /\ flights' \in Seq(Bags) /\ Len(flights') = Len(flights) - 1
        /\ \A j \in DOMAIN flights' : \E k \in DOMAIN flights : flights'[j] = flights[k]
    BY <1>0, <1>3, FlightsLeft
  <2>2. QED
    BY <1>0, <2>1 DEF FlightsInv
<1>4. CASE \E i \in DOMAIN flights :
             LoseAnswer(i) \/ \E bad \in SUBSET Addresses(Of(flights[i])) : Answer(i, bad)
  BY <1>3, <1>4 DEF LoseAnswer, Answer
<1>5. CASE \E h \in Hosts : EnterViewport(h) \/ Mutate(h) \/ Scroll(h)
  BY <1>1, <1>5 DEF EnterViewport, Mutate, Scroll, candidates
<1>6. CASE \E u \in Urls, reply \in PageReplies : PageAnswer(u, reply)
  BY <1>1, <1>6 DEF PageAnswer, candidates
<1>7. CASE Boot \/ Scan \/ \E on \in BOOLEAN : ChangeSettings(on)
  BY <1>1, <1>7 DEF Boot, Scan, ChangeSettings
<1>s. CASE \E u \in Urls : PushState(u) \/ PopState(u)
  BY <1>1, <1>s DEF PushState, PopState, candidates
<1>8. CASE DismissNotice \/ Retry \/ CoolDown \/ UNCHANGED vars
  BY <1>1, <1>8 DEF DismissNotice, Retry, CoolDown, vars, candidates
<1>9. QED
  BY <1>2, <1>4, <1>5, <1>6, <1>7, <1>s, <1>8 DEF Next, Answered

LEMMA BatchStep ==
  BagsInv /\ FlightsInv /\ BatchGoesOut /\ [Next]_vars => BatchGoesOut'
<1> SUFFICES ASSUME BagsInv, FlightsInv, BatchGoesOut, [Next]_vars PROVE BatchGoesOut'
  OBVIOUS
<1>1. ASSUME UNCHANGED <<batch, flights>>, batchTimer => batchTimer' PROVE BatchGoesOut'
  BY <1>1 DEF BatchGoesOut, Of
<1>2. CASE FlushBatch
  <2>1. CASE Of(batch) = {}
    BY <1>2, <2>1 DEF FlushBatch, BatchGoesOut, Of
  <2>2. CASE Of(batch) # {}
    <3>1. \E f : flights' = Append(flights, f)
      BY <1>2, <2>2 DEF FlushBatch
    <3>2. flights' # <<>>
      BY <3>1 DEF FlightsInv
    <3>3. QED
      BY <3>2 DEF BatchGoesOut
  <2>3. QED
    BY <2>1, <2>2
<1>3. CASE \E i \in DOMAIN flights :
             LoseAnswer(i) \/ \E bad \in SUBSET Addresses(Of(flights[i])) : Answer(i, bad)
  <2>1. Rearmed /\ batch' = batch
    BY <1>3 DEF LoseAnswer, Answer
  <2>2. QED
    BY <2>1 DEF Rearmed, BatchGoesOut, Of
<1>4. ASSUME NEW h \in Hosts, EnterViewport(h) PROVE BatchGoesOut'
  <2>1. PICK waiting \in Bags : /\ batch' = Join(batch, waiting) /\ flights' = flights
                               /\ batchTimer' = (batchTimer \/ Of(waiting) # {})
    <3>1. Without(pending, Candidates \ On({h})) \in Bags
      BY BagValues DEF BagsInv
    <3>2. QED
      BY <1>4, <3>1 DEF EnterViewport
  <2>2. \A c \in Candidates : batch'[c] > 0 <=> batch[c] > 0 \/ waiting[c] > 0
    BY <2>1, BagMembers DEF BagsInv
  <2>3. Of(batch') # {} => Of(batch) # {} \/ Of(waiting) # {}
    BY <2>2 DEF Of
  <2>4. QED
    BY <2>1, <2>3 DEF BatchGoesOut, Of
<1>5. CASE \E u \in Urls : PushState(u) \/ PopState(u)
  <2>1. Of(None) = {}
    BY BagValues DEF Of
  <2>2. UNCHANGED <<batchTimer, flights>> /\ batch' \in {None, batch}
    BY <1>5 DEF PushState, PopState, UrlChanged, candidates
  <2>3. QED
    BY <2>1, <2>2 DEF BatchGoesOut, Of
<1>6. CASE \E h \in Hosts : Mutate(h) \/ Scroll(h)
  BY <1>1, <1>6 DEF Mutate, Scroll, candidates
<1>7. CASE \E u \in Urls, reply \in PageReplies : PageAnswer(u, reply)
  BY <1>1, <1>7 DEF PageAnswer, candidates
<1>8. CASE Boot \/ Scan \/ \E on \in BOOLEAN : ChangeSettings(on)
  BY <1>1, <1>8 DEF Boot, Scan, ChangeSettings
<1>9. CASE DismissNotice \/ Retry \/ CoolDown \/ UNCHANGED vars
  BY <1>1, <1>9 DEF DismissNotice, Retry, CoolDown, vars, candidates
<1>10. QED
  BY <1>2, <1>3, <1>4, <1>5, <1>6, <1>7, <1>8, <1>9 DEF Next, Answered

-----------------------------------------------------------------------------
(* No candidate is forgotten *)

\* The collection that holds the candidate.
Held(c) ==
  \/ pending[c] > 0 \/ batch[c] > 0 \/ c \in failed
  \/ \E i \in DOMAIN flights : flights[i][c] > 0

AllHeld == life = "running" /\ allowed /\ ~scanTimer => \A c \in On(here) \ tagged : Held(c)

\* A step but a scan looks for new candidates later, or leaves the page as it is.
LEMMA PageStands ==
  ASSUME ScriptInv, [Next]_vars, ~Boot, ~Scan, ~scanTimer', allowed'
  PROVE  ~scanTimer /\ UNCHANGED <<life, allowed, here>> /\ tagged \subseteq tagged'
<1> DEFINE Goal == ~scanTimer /\ UNCHANGED <<life, allowed, here>> /\ tagged \subseteq tagged'
<1>1. CASE FlushBatch
  BY <1>1 DEF FlushBatch, page
<1>a. ASSUME NEW h \in Hosts, EnterViewport(h) \/ Mutate(h) \/ Scroll(h) PROVE Goal
  <2>1. CASE EnterViewport(h)
    BY <2>1 DEF EnterViewport, page
  <2>2. CASE Mutate(h)
    BY <2>2 DEF Mutate
  <2>3. CASE Scroll(h)
    BY <2>3 DEF Scroll, candidates
  <2>4. QED
    BY <1>a, <2>1, <2>2, <2>3
<1>2. ASSUME NEW i \in DOMAIN flights, LoseAnswer(i) PROVE Goal
  BY <1>2 DEF LoseAnswer, page
<1>3. ASSUME NEW i \in DOMAIN flights, NEW bad, Answer(i, bad) PROVE Goal
  <2>1. UNCHANGED <<life, allowed, page>> /\ tagged \subseteq tagged'
    BY <1>3 DEF Answer
  <2>2. scanTimer => scanTimer'
    BY <1>3 DEF Answer, Reported, Unreported
  <2>3. QED
    BY <2>1, <2>2 DEF page
<1>4. ASSUME NEW u \in Urls, NEW reply \in PageReplies, PageAnswer(u, reply) PROVE Goal
  <2>1. UNCHANGED <<life, allowed, page, candidates>>
    BY <1>4 DEF PageAnswer
  <2>2. scanTimer => scanTimer'
    BY <1>4 DEF PageAnswer, Reported, Unreported
  <2>3. QED
    BY <2>1, <2>2 DEF page, candidates
<1>5. ASSUME NEW u \in Urls, PushState(u) \/ PopState(u) PROVE Goal
  BY <1>5 DEF PushState, PopState, UrlChanged, candidates
<1>6. ASSUME NEW on \in BOOLEAN, ChangeSettings(on) PROVE Goal
  BY <1>6 DEF ChangeSettings, page
<1>7. CASE DismissNotice \/ Retry
  BY <1>7 DEF DismissNotice, Retry
<1>8. CASE CoolDown \/ UNCHANGED vars
  <2>1. UNCHANGED <<life, allowed, page, candidates, scanTimer>>
    BY <1>8 DEF CoolDown, vars
  <2>2. QED
    BY <2>1 DEF page, candidates
<1>9. CASE Answered
  <2>1. PICK i \in DOMAIN flights :
          LoseAnswer(i) \/ \E bad \in SUBSET Addresses(Of(flights[i])) : Answer(i, bad)
    BY <1>9 DEF Answered
  <2>2. QED
    BY <1>2, <1>3, <2>1
<1>10. CASE \E u \in Urls : PushState(u) \/ PopState(u) \/ \E reply \in PageReplies : PageAnswer(u, reply)
  BY <1>4, <1>5, <1>10
<1>11. CASE \E on \in BOOLEAN : ChangeSettings(on)
  BY <1>6, <1>11
<1>12. CASE \E h \in Hosts : EnterViewport(h) \/ Mutate(h) \/ Scroll(h)
  BY <1>a, <1>12
<1>13. QED
  BY <1>1, <1>7, <1>8, <1>9, <1>10, <1>11, <1>12 DEF Next

\* A candidate leaves its collection for the next one, or with a verdict.
LEMMA HeldStays ==
  ASSUME BagsInv, FlightsInv, [Next]_vars, ~Boot, ~Scan, ~scanTimer',
         NEW c \in Candidates \ tagged', Held(c)
  PROVE  Held(c)'
<1>0. /\ flights \in Seq(Bags) /\ Len(flights) \in Nat
      /\ pending \in Bags /\ batch \in Bags
  BY DEF FlightsInv, BagsInv
<1>1. CASE FlushBatch
  <2>1. CASE Of(batch) = {}
    BY <1>1, <2>1 DEF FlushBatch, Held
  <2>2. CASE Of(batch) # {}
    <3>1. PICK A \in Taken :
            /\ batch' = Without(batch, {d \in Of(batch) : d[2] \in A})
            /\ flights' = Append(flights,
                 Without(batch, Candidates \ {d \in Of(batch) : d[2] \in A}))
            /\ UNCHANGED <<pending, failed>>
      BY <1>1, <2>2 DEF FlushBatch, Flushed
    <3>2. PICK out : out = {d \in Of(batch) : d[2] \in A}
      OBVIOUS
    <3>3. PICK f : f = Without(batch, Candidates \ out)
      OBVIOUS
    <3>4. /\ batch'[c] > 0 <=> batch[c] > 0 /\ c \notin out
          /\ f[c] > 0 <=> batch[c] > 0 /\ c \in out
      BY <1>0, <3>1, <3>2, <3>3, BagMembers
    <3>5. flights' = Append(flights, f)
      BY <3>1, <3>2, <3>3
    <3>6. /\ \A i \in DOMAIN flights : i \in DOMAIN flights' /\ flights'[i] = flights[i]
          /\ Len(flights) + 1 \in DOMAIN flights' /\ flights'[Len(flights) + 1] = f
      BY <1>0, <3>5
    <3>7. QED
      BY <3>1, <3>4, <3>6 DEF Held
  <2>3. QED
    BY <2>1, <2>2
<1>2. ASSUME NEW i \in DOMAIN flights, flights' = RemoveAt(flights, i),
             UNCHANGED <<pending, batch>>, failed \subseteq failed',
             flights[i][c] > 0 => c \in failed'
      PROVE  Held(c)'
  <2>1. \A k \in DOMAIN flights \ {i} : \E j \in DOMAIN flights' : flights'[j] = flights[k]
    BY <1>0, <1>2, FlightsLeft
  <2>2. CASE \E k \in DOMAIN flights : flights[k][c] > 0
    BY <1>2, <2>1, <2>2 DEF Held
  <2>3. CASE pending[c] > 0 \/ batch[c] > 0 \/ c \in failed
    BY <1>2, <2>3 DEF Held
  <2>4. QED
    BY <2>2, <2>3 DEF Held
<1>3. ASSUME NEW i \in DOMAIN flights, LoseAnswer(i) PROVE Held(c)'
  BY <1>2, <1>3 DEF LoseAnswer, Of
<1>4. ASSUME NEW i \in DOMAIN flights, NEW bad, Answer(i, bad) PROVE Held(c)'
  BY <1>2, <1>4 DEF Answer, Of
<1>5. ASSUME NEW h \in Hosts, EnterViewport(h) PROVE Held(c)'
  <2>1. PICK waiting : waiting = Without(pending, Candidates \ On({h}))
    OBVIOUS
  <2>2. /\ pending' = Without(pending, On({h})) /\ batch' = Join(batch, waiting)
        /\ UNCHANGED <<flights, failed>>
    BY <1>5, <2>1 DEF EnterViewport
  <2>3. /\ pending'[c] > 0 <=> pending[c] > 0 /\ c \notin On({h})
        /\ waiting[c] > 0 <=> pending[c] > 0 /\ c \in On({h})
        /\ waiting \in Bags
    <3>1. /\ c \in Candidates /\ waiting \in Bags
          /\ c \in Candidates \ On({h}) <=> c \notin On({h})
      BY <1>0, <2>1, BagValues
    <3>s. PICK S : S = Candidates \ On({h})
      OBVIOUS
    <3>2. Without(pending, S)[c] > 0 <=> pending[c] > 0 /\ c \notin S
      BY <1>0, <3>1, BagMembers
    <3>3. Without(pending, On({h}))[c] > 0 <=> pending[c] > 0 /\ c \notin On({h})
      BY <1>0, <3>1, BagMembers
    <3>4. QED
      BY <2>1, <2>2, <3>s, <3>1, <3>2, <3>3
  <2>4. batch'[c] > 0 <=> batch[c] > 0 \/ waiting[c] > 0
    BY <1>0, <2>2, <2>3, BagMembers
  <2>5. QED
    BY <2>2, <2>3, <2>4 DEF Held
<1>6. ASSUME UNCHANGED <<pending, batch, flights, failed>> PROVE Held(c)'
  BY <1>6 DEF Held
<1>7. CASE \E h \in Hosts : Mutate(h) \/ Scroll(h)
  BY <1>6, <1>7 DEF Mutate, Scroll, candidates
<1>8. CASE \E u \in Urls, reply \in PageReplies : PageAnswer(u, reply)
  BY <1>6, <1>8 DEF PageAnswer, candidates
<1>9. CASE \E u \in Urls : PushState(u) \/ PopState(u)
  BY <1>6, <1>9 DEF PushState, PopState, UrlChanged, candidates
<1>s. CASE Retry \/ \E on \in BOOLEAN : ChangeSettings(on)
  BY <1>6, <1>s DEF Retry, ChangeSettings
<1>10. CASE DismissNotice \/ CoolDown \/ UNCHANGED vars
  BY <1>6, <1>10 DEF DismissNotice, CoolDown, vars, candidates
<1>11. QED
  BY <1>1, <1>3, <1>4, <1>5, <1>7, <1>8, <1>9, <1>s, <1>10 DEF Next, Answered

LEMMA AllHeldStep ==
  ScriptInv /\ BagsInv /\ FlightsInv /\ AllHeld /\ [Next]_vars => AllHeld'
<1> SUFFICES ASSUME ScriptInv, BagsInv, FlightsInv, AllHeld, [Next]_vars,
                    life' = "running", allowed', ~scanTimer',
                    NEW c \in On(here') \ tagged'
             PROVE  Held(c)'
  BY DEF AllHeld, On
<1>0. c \in Candidates
  BY DEF On
<1>1. CASE Boot \/ Scan
  <2>1. Scanned(pending) /\ here' = here /\ tagged' = tagged
    BY <1>1 DEF Boot, Scan, page
  <2>2. c \in collectTargets
    BY <2>1 DEF collectTargets
  <2>3. QED
    BY <2>1, <2>2, ScannedBags DEF Held
<1>2. CASE ~Boot /\ ~Scan
  <2>1. ~scanTimer /\ UNCHANGED <<life, allowed, here>> /\ tagged \subseteq tagged'
    BY <1>2, PageStands
  <2>2. Held(c)
    BY <2>1 DEF AllHeld
  <2>3. QED
    BY <1>0, <1>2, <2>2, HeldStays
<1>3. QED
  BY <1>1, <1>2

-----------------------------------------------------------------------------
(* The token of a detail page *)

\* The question about the token of the page that the script looked at last is under way, or
\* it failed, or its answer has added the marker.  Said of that URL and not of the one the
\* page has: the page may go away from it and come back without the script.
TokenOnItsWay ==
  life = "running" /\ allowed /\ asked \in DetailPages /\ asked \notin pageFailed
    => asks[asked] > 0 \/ asked \in PageMarkers

\* A question about the token of the URL that the page has now.
LEMMA RefreshedAsks ==
  ASSUME TokenInv, NEW u \in Urls, NEW on, Refreshed(on, u), on = allowed'
  PROVE  TokenOnItsWay'
<1>1. CASE allowed' /\ u \in DetailPages
  <2>1. asks' = [asks EXCEPT ![u] = @ + 1] /\ asked' = u
    BY <1>1 DEF Refreshed
  <2>2. asks'[u] = asks[u] + 1 /\ asks[u] \in Nat
    BY <2>1 DEF TokenInv
  <2>3. asks'[asked'] > 0
    BY <2>1, <2>2
  <2>4. QED
    BY <2>3 DEF TokenOnItsWay
<1>2. CASE ~(allowed' /\ u \in DetailPages)
  BY <1>2 DEF Refreshed, TokenOnItsWay
<1>3. QED
  BY <1>1, <1>2

LEMMA TokenOnItsWayStep ==
  ScriptInv /\ TokenInv /\ TokenOnItsWay /\ [Next]_vars => TokenOnItsWay'
<1> SUFFICES ASSUME ScriptInv, TokenInv, TokenOnItsWay, [Next]_vars PROVE TokenOnItsWay'
  OBVIOUS
<1>0. url \in Urls /\ asked \in Urls /\ NoUrl \notin Urls
  BY ContentAssumption DEF ScriptInv, TokenInv
<1>6. ASSUME UNCHANGED <<life, allowed, pageToken>> PROVE TokenOnItsWay'
  BY <1>6 DEF TokenOnItsWay, pageToken, PageMarkers
<1>1. CASE Boot
  <2>1. CASE life' = "idle"
    BY <2>1 DEF TokenOnItsWay
  <2>2. CASE life' # "idle"
    <3>1. allowed' = TRUE /\ Refreshed(TRUE, url)
      BY <1>1, <2>2 DEF Boot
    <3>2. QED
      BY <1>0, <3>1, RefreshedAsks
  <2>3. QED
    BY <2>1, <2>2
<1>2. ASSUME NEW u \in Urls, NEW reply \in PageReplies, PageAnswer(u, reply)
      PROVE  TokenOnItsWay'
  <2>1. UNCHANGED <<life, allowed, asked>>
    BY <1>2 DEF PageAnswer
  <2>2. asks' = [asks EXCEPT ![u] = @ - 1]
    BY <1>2 DEF PageAnswer
  <2>3. u # asked => asks'[asked] = asks[asked]
    BY <1>0, <2>2 DEF TokenInv
  <2>4. CASE reply = "ok"
    <3>1. Appended(u) /\ pageFailed' = pageFailed
      BY <1>2, <2>4 DEF PageAnswer
    <3>2. u \in PageMarkers' /\ PageMarkers \subseteq PageMarkers'
      BY <1>0, <3>1 DEF Appended, PageMarkers
    <3>3. QED
      BY <2>1, <2>3, <3>1, <3>2 DEF TokenOnItsWay
  <2>5. CASE reply # "ok"
    <3>1. pageFailed' = pageFailed \cup {u} /\ UNCHANGED <<pageMarker, orphans>>
      BY <1>2, <2>5 DEF PageAnswer
    <3>2. QED
      BY <2>1, <2>3, <3>1 DEF TokenOnItsWay, PageMarkers
  <2>6. QED
    BY <2>4, <2>5
<1>3. ASSUME NEW u \in Urls, PushState(u) \/ PopState(u) PROVE TokenOnItsWay'
  <2>1. UNCHANGED <<life, allowed>> /\ (UNCHANGED pageToken \/ Refreshed(allowed, u))
    BY <1>3 DEF PushState, PopState, UrlChanged
  <2>2. QED
    BY <1>6, <2>1, RefreshedAsks
<1>4. ASSUME NEW on \in BOOLEAN, ChangeSettings(on) PROVE TokenOnItsWay'
  <2>1. CASE on
    <3>1. allowed' = TRUE /\ Refreshed(TRUE, url)
      BY <1>4, <2>1 DEF ChangeSettings
    <3>2. QED
      BY <1>0, <3>1, RefreshedAsks
  <2>2. CASE ~on
    BY <1>4, <2>2 DEF ChangeSettings, TokenOnItsWay
  <2>3. QED
    BY <2>1, <2>2
<1>5. CASE Retry
  <2>1. allowed' = allowed /\ Refreshed(allowed, url)
    BY <1>5 DEF Retry
  <2>2. QED
    BY <1>0, <2>1, RefreshedAsks
<1>7. CASE Answered
  <2>1. UNCHANGED <<life, allowed, pageToken>>
    BY <1>7 DEF Answered, LoseAnswer, Answer
  <2>2. QED
    BY <1>6, <2>1
<1>8. CASE \E h \in Hosts : EnterViewport(h) \/ Mutate(h) \/ Scroll(h)
  <2>1. UNCHANGED <<life, allowed, pageToken>>
    BY <1>8 DEF EnterViewport, Mutate, Scroll
  <2>2. QED
    BY <1>6, <2>1
<1>9. CASE Scan \/ FlushBatch \/ DismissNotice \/ CoolDown \/ UNCHANGED vars
  <2>1. UNCHANGED <<life, allowed, pageToken>>
    BY <1>9 DEF Scan, FlushBatch, DismissNotice, CoolDown, vars
  <2>2. QED
    BY <1>6, <2>1
<1>10. QED
  BY <1>1, <1>2, <1>3, <1>4, <1>5, <1>7, <1>8, <1>9 DEF Next

-----------------------------------------------------------------------------
(* The theorems *)

ContentInv ==
  ScriptInv /\ TokenInv /\ BagsInv /\ FlightsInv /\ BatchGoesOut /\ AllHeld

LEMMA ContentInvInit == Init => ContentInv
<1> SUFFICES ASSUME Init PROVE ContentInv
  OBVIOUS
<1> USE ContentAssumption
<1>0. 0 \in 0..MaxEvents
  OBVIOUS
<1>1. ScriptInv
  <2>1. life = "loading" /\ ~allowed /\ ~scanTimer /\ ~batchTimer /\ ~cooling /\ ~notice
    BY DEF Init
  <2>2. allowed \in BOOLEAN /\ scanTimer \in BOOLEAN /\ batchTimer \in BOOLEAN
    BY DEF Init
  <2>3. cooling \in BOOLEAN /\ notice \in BOOLEAN
    BY DEF Init
  <2>4. events \in 0..MaxEvents /\ url \in Urls /\ lastHref \in Urls
    BY <1>0 DEF Init
  <2>5. here \subseteq Hosts /\ gone \subseteq Hosts /\ inView \subseteq here
    BY DEF Init
  <2>6. QED
    BY <2>1, <2>2, <2>3, <2>4, <2>5 DEF ScriptInv
<1>2. TokenInv
  <2>1. asks \in [Urls -> Nat] /\ pageMarker \in Urls \cup {NoUrl} /\ orphans = {}
    BY DEF Init
  <2>2. pageFailed = {} /\ asked \in Urls
    BY DEF Init
  <2>3. QED
    BY <2>1, <2>2 DEF TokenInv
<1>3. BagsInv
  BY BagValues DEF Init, BagsInv
<1>4. FlightsInv
  BY DEF Init, FlightsInv
<1>5. BatchGoesOut /\ AllHeld
  BY BagValues DEF Init, BatchGoesOut, AllHeld, Of
<1>6. QED
  BY <1>1, <1>2, <1>3, <1>4, <1>5 DEF ContentInv

LEMMA ContentInvStep == ContentInv /\ [Next]_vars => ContentInv'
  BY ScriptStep, TokenStep, BagsStep, FlightsStep, BatchStep, AllHeldStep DEF ContentInv

LEMMA ContentInvSound == ContentInv => ContentSound
<1> SUFFICES ASSUME ContentInv PROVE ContentSound
  OBVIOUS
<1>1. ContentTypeOK
  <2>1. {url, lastHref, asked} \subseteq Urls
    BY DEF ContentInv, ScriptInv, TokenInv
  <2>2. {c[1] : c \in Of(pending)} \subseteq observed
    BY DEF ContentInv, BagsInv, Of
  <2>3. QED
    BY <2>1, <2>2 DEF ContentInv, ScriptInv, TokenInv, BagsInv, FlightsInv, ContentTypeOK
<1>2. NeverForgotten
  <2> SUFFICES ASSUME life = "running", allowed, ~scanTimer, NEW c \in On(here) \ tagged
               PROVE  \/ pending[c] > 0 /\ c[1] \in observed
                      \/ batch[c] > 0 /\ (batchTimer \/ flights # <<>>)
                      \/ \E i \in DOMAIN flights : flights[i][c] > 0
                      \/ c \in failed
    BY DEF NeverForgotten
  <2>1. c \in Candidates /\ Held(c)
    BY DEF ContentInv, AllHeld, On
  <2>2. pending[c] > 0 => c[1] \in observed
    BY <2>1 DEF ContentInv, BagsInv
  <2>3. batch[c] > 0 => batchTimer \/ flights # <<>>
    BY <2>1 DEF ContentInv, BatchGoesOut, Of
  <2>4. QED
    BY <2>1, <2>2, <2>3 DEF Held
<1>3. QED
  BY <1>1, <1>2 DEF ContentSound

\* On every page and in every interleaving of scans, batches and answers, each candidate
\* without a tag is held by a collection that will still get to it, or failed: for any
\* candidates, any size of the batches and any number of them under way.
THEOREM NothingForgotten == Spec => []ContentSound
  BY ContentInvInit, ContentInvStep, ContentInvSound, PTL DEF Spec

\* For any pages and any number of questions about their tokens under way: in whatever order
\* the answers come, and whatever moves of the page and changes of the settings come between
\* them, none of them takes away the marker of the page the script looked at last.
THEOREM TokenShown == Spec => []PageTokenShown
<1>1. Init => TokenOnItsWay
  BY DEF Init, TokenOnItsWay
<1>2. ContentInv => ScriptInv /\ TokenInv
  BY DEF ContentInv
<1>3. ContentInv /\ TokenOnItsWay => PageTokenShown
  <2>1. ASSUME ContentInv, TokenOnItsWay PROVE PageTokenShown
    BY <2>1 DEF ContentInv, TokenInv, TokenOnItsWay, PageTokenShown
  <2>2. QED
    BY <2>1
<1>4. QED
  BY <1>1, <1>2, <1>3, ContentInvInit, ContentInvStep, TokenOnItsWayStep, PTL DEF Spec

-----------------------------------------------------------------------------
(* The overlay: the panel and the notices *)

\* A timer belongs to one showing of one notice.
TimersOfShowings == noticeTimers \subseteq Notices \X (1..shown)

\* The panel and the notices do not meet, and are proved one after the other.
PanelTypeOK ==
  /\ present \subseteq Markers /\ hovering \subseteq Markers
  /\ pointer \in present \cup {"panel", "away"}
  /\ displayed \in BOOLEAN /\ attached \in BOOLEAN /\ pinned \in BOOLEAN
  /\ hideTimer \in BOOLEAN /\ lost \in BOOLEAN
  /\ pinned => displayed
  /\ anchor \in Markers \cup {NoMarker} /\ (displayed <=> anchor # NoMarker)

PanelInv == PanelTypeOK /\ PinnedStaysOpen /\ NotLeftOpen

NoticesInv ==
  /\ notices \in [Notices -> 0..MaxShown] /\ shown \in 0..MaxShown
  /\ \A id \in Notices : notices[id] # 0 => <<id, notices[id]>> \in noticeTimers
  /\ TimersOfShowings

OverlayInv == PanelInv /\ NoticesInv

LEMMA OverlayInvInit == OverlayInit => OverlayInv
<1> SUFFICES ASSUME OverlayInit PROVE OverlayInv
  OBVIOUS
<1>1. PanelInv
  BY OverlayAssumption DEF OverlayInit, PanelInv, PanelTypeOK, PinnedStaysOpen, NotLeftOpen
<1>2. NoticesInv
  BY OverlayAssumption DEF OverlayInit, NoticesInv, TimersOfShowings
<1>3. QED
  BY <1>1, <1>2 DEF OverlayInv

-----------------------------------------------------------------------------
(* The panel *)

LEMMA PanelStep == PanelInv /\ [OverlayNext]_overlayVars => PanelInv'
<1> SUFFICES ASSUME PanelInv, [OverlayNext]_overlayVars PROVE PanelInv'
  OBVIOUS
<1> USE OverlayAssumption DEF PanelInv, PanelTypeOK, PinnedStaysOpen, NotLeftOpen, HideCancelled
<1>1. ASSUME NEW p \in Markers \cup {"panel", "away"}, MoveTo(p) PROVE PanelInv'
  <2>1. PanelTypeOK'
    BY <1>1 DEF MoveTo, HideDue
  <2>2. PinnedStaysOpen'
    BY <1>1 DEF MoveTo, HideDue
  <2>3. NotLeftOpen'
    BY <1>1 DEF MoveTo, HideDue
  <2>4. QED
    BY <2>1, <2>2, <2>3
<1>2. ASSUME NEW m \in Markers, HoverFires(m) PROVE PanelInv'
  BY <1>2 DEF HoverFires, Shown
<1>3. ASSUME NEW m \in Markers, ClickMarker(m) \/ PressMarker(m) PROVE PanelInv'
  BY <1>3 DEF ClickMarker, PressMarker, Shown
<1>4. ASSUME NEW m \in Markers, TakeMarker(m) \/ DrawMarker(m) PROVE PanelInv'
  <2>1. /\ UNCHANGED panel /\ hovering' = hovering /\ present' \subseteq Markers
        /\ lost' \in BOOLEAN /\ (lost => lost')
    BY <1>4 DEF TakeMarker, DrawMarker
  <2>2. \/ pointer' = pointer /\ pointer \in present' \cup {"panel", "away"}
        \/ pointer' = "away" /\ lost'
    BY <1>4 DEF TakeMarker, DrawMarker
  <2>3. QED
    BY <2>1, <2>2 DEF panel
<1>5. CASE HideFires \/ Close \/ SwitchOff
  BY <1>5 DEF HideFires, Close, SwitchOff, Hidden
<1>6. CASE TakePanel
  BY <1>6 DEF TakePanel
<1>7. ASSUME UNCHANGED <<present, pointer, hovering, panel, lost>> PROVE PanelInv'
  BY <1>7 DEF panel
<1>8. QED
  BY <1>1, <1>2, <1>3, <1>4, <1>5, <1>6, <1>7
  DEF OverlayNext, ShowNotice, CloseNotice, NoticeTimer, overlayVars

-----------------------------------------------------------------------------
(* The notices *)

\* A notice is on the screen or off; and none but the next showing, and none but the
\* timer that ended, came or went.
NoticesStep ==
  \/ UNCHANGED notes
  \/ \E id \in Notices : ShowNotice(id) \/ CloseNotice(id)
  \/ \E t \in noticeTimers : NoticeTimer(t)

LEMMA NoticeSteps == [OverlayNext]_overlayVars => NoticesStep
BY DEF OverlayNext, NoticesStep, overlayVars, MoveTo, HoverFires, ClickMarker, PressMarker,
       TakeMarker, DrawMarker, HideFires, Close, SwitchOff, TakePanel

LEMMA NoticesKept ==
  NoticesInv /\ NoticesStep => NoticesInv' /\ \A id \in Notices : TimeKept(id)
<1> SUFFICES ASSUME NoticesInv, NoticesStep
             PROVE  NoticesInv' /\ \A id \in Notices : TimeKept(id)
  OBVIOUS
<1> USE OverlayAssumption DEF NoticesInv, TimersOfShowings, TimeKept
<1>1. CASE UNCHANGED notes
  BY <1>1 DEF notes
<1>2. ASSUME NEW id \in Notices, ShowNotice(id)
      PROVE  NoticesInv' /\ \A i \in Notices : TimeKept(i)
  BY <1>2 DEF ShowNotice
<1>3. ASSUME NEW id \in Notices, CloseNotice(id)
      PROVE  NoticesInv' /\ \A i \in Notices : TimeKept(i)
  BY <1>3 DEF CloseNotice
<1>4. ASSUME NEW t \in noticeTimers, NoticeTimer(t)
      PROVE  NoticesInv' /\ \A i \in Notices : TimeKept(i)
  <2>1. PICK id \in Notices, n \in 1..shown : t = <<id, n>>
    OBVIOUS
  <2>2. /\ notices' = [notices EXCEPT ![id] = IF @ = n THEN 0 ELSE @]
        /\ noticeTimers' = noticeTimers \ {<<id, n>>} /\ shown' = shown
    BY <1>4, <2>1 DEF NoticeTimer, Ended
  <2>3. QED
    BY <2>2
<1>5. QED
  BY <1>1, <1>2, <1>3, <1>4 DEF NoticesStep

-----------------------------------------------------------------------------
(* The theorems *)

LEMMA OverlayInvStep == OverlayInv /\ [OverlayNext]_overlayVars => OverlayInv'
BY PanelStep, NoticeSteps, NoticesKept DEF OverlayInv

LEMMA OverlaySound == OverlayInv => PanelSound
BY DEF OverlayInv, PanelInv, NoticesInv, PanelTypeOK, PanelSound, OverlayTypeOK

\* In every reachable state the flags of the panel agree, no timer threatens it when it is
\* pinned, and one is set when nobody looks at it, for every set of markers.
THEOREM PanelAlwaysSound == OverlaySpec => []PanelSound
BY OverlayInvInit, OverlayInvStep, OverlaySound, PTL DEF OverlaySpec

\* A notice never ends with the timer of another showing, for every number of notices.
THEOREM NoticesKeepTime == OverlaySpec => NoticeKeepsItsTime
<1>1. OverlayInv /\ [OverlayNext]_overlayVars => \A id \in Notices : TimeKept(id)
  BY NoticeSteps, NoticesKept DEF OverlayInv
<1>2. QED
  BY <1>1, OverlayInvInit, OverlayInvStep, PTL DEF OverlaySpec, NoticeKeepsItsTime

-----------------------------------------------------------------------------
(* Sorting by counted places *)

\* The elements that R puts before j.
Before(T, R, j) == {i \in T : <<i, j>> \in R}

StrictOrder(T, R) ==
  /\ \A i \in T : <<i, i>> \notin R
  /\ \A i, j \in T : i # j => <<i, j>> \in R \/ <<j, i>> \in R
  /\ \A i, j, k \in T : <<i, j>> \in R /\ <<j, k>> \in R => <<i, k>> \in R

\* f[p] is the element that has p - 1 before it.
Ranking(f, T, R, c) ==
  /\ f \in [1..c -> T]
  /\ \A j \in T : \E p \in 1..c : f[p] = j
  /\ \A p, q \in 1..c : f[p] = f[q] => p = q
  /\ \A p \in 1..c, j \in T : Cardinality(Before(T, R, j)) = p - 1 <=> j = f[p]
  /\ \A p, q \in 1..c : p < q => <<f[p], f[q]>> \in R

\* In a strict order of finitely many elements each is the only one at its place, which the
\* number of those before it tells.
LEMMA PlacesAreRanks ==
  ASSUME NEW T, IsFiniteSet(T), NEW R, StrictOrder(T, R), NEW c \in Nat, c = Cardinality(T)
  PROVE  \E f : Ranking(f, T, R, c)
<1>1. \A j \in T : IsFiniteSet(Before(T, R, j)) /\ Cardinality(Before(T, R, j)) \in Nat
  BY FS_Subset, FS_CardinalityType DEF Before
<1>2. PICK rank : rank = [j \in T |-> Cardinality(Before(T, R, j)) + 1]
  OBVIOUS
<1>3. ASSUME NEW i \in T, NEW j \in T, <<i, j>> \in R PROVE rank[i] < rank[j]
  <2>1. Before(T, R, i) \cup {i} \subseteq Before(T, R, j) /\ i \notin Before(T, R, i)
    BY <1>3 DEF StrictOrder, Before
  <2>2. Cardinality(Before(T, R, i) \cup {i}) = Cardinality(Before(T, R, i)) + 1
    BY <1>1, <2>1, FS_AddElement
  <2>3. Cardinality(Before(T, R, i) \cup {i}) <= Cardinality(Before(T, R, j))
    BY <1>1, <2>1, FS_Subset
  <2>4. QED
    BY <1>1, <1>2, <2>2, <2>3
<1>4. ASSUME NEW j \in T PROVE rank[j] \in 1..c
  <2>1. Before(T, R, j) \subseteq T /\ j \notin Before(T, R, j)
    BY DEF StrictOrder, Before
  <2>2. Cardinality(Before(T, R, j) \cup {j}) = Cardinality(Before(T, R, j)) + 1
    BY <1>1, <2>1, FS_AddElement
  <2>3. Cardinality(Before(T, R, j) \cup {j}) <= c
    BY <2>1, FS_Subset
  <2>4. QED
    BY <1>1, <1>2, <2>2, <2>3
<1>5. \A i, j \in T : rank[i] = rank[j] => i = j
  <2>1. ASSUME NEW i \in T, NEW j \in T, i # j PROVE rank[i] # rank[j]
    <3>1. rank[i] < rank[j] \/ rank[j] < rank[i]
      BY <1>3, <2>1 DEF StrictOrder
    <3>2. rank[i] \in Nat /\ rank[j] \in Nat
      BY <1>4
    <3>3. QED
      BY <3>1, <3>2
  <2>2. QED
    BY <2>1
<1>6. rank \in [T -> 1..c]
  BY <1>2, <1>4
<1>7. rank \in Injection(T, 1..c)
  BY <1>5, <1>6 DEF Injection, IsInjective
<1>8. IsFiniteSet(1..c) /\ Cardinality(1..c) = c
  BY FS_Interval
<1>9. rank \in Surjection(T, 1..c)
  BY <1>7, <1>8, FS_Injection
<1>10. \A p \in 1..c : \E j \in T : rank[j] = p
  BY <1>9 DEF Surjection
<1>11. PICK f : f = [p \in 1..c |-> CHOOSE j \in T : rank[j] = p]
  OBVIOUS
<1>12. \A p \in 1..c : f[p] \in T /\ rank[f[p]] = p
  BY <1>10, <1>11
<1>13. f \in [1..c -> T]
  BY <1>11, <1>12
<1>14. \A j \in T : rank[j] \in 1..c /\ f[rank[j]] = j
  BY <1>4, <1>5, <1>12
<1>15. \A p, q \in 1..c : f[p] = f[q] => p = q
  BY <1>12
<1>16. ASSUME NEW p \in 1..c, NEW j \in T
       PROVE  Cardinality(Before(T, R, j)) = p - 1 <=> j = f[p]
  <2>1. rank[j] = Cardinality(Before(T, R, j)) + 1 /\ Cardinality(Before(T, R, j)) \in Nat
    BY <1>1, <1>2
  <2>2. rank[j] = p <=> j = f[p]
    BY <1>5, <1>12
  <2>3. QED
    BY <2>1, <2>2
<1>17. ASSUME NEW p \in 1..c, NEW q \in 1..c, p < q PROVE <<f[p], f[q]>> \in R
  <2>1. f[p] \in T /\ f[q] \in T /\ f[p] # f[q] /\ rank[f[p]] = p /\ rank[f[q]] = q
    BY <1>12, <1>17
  <2>2. ~(<<f[q], f[p]>> \in R)
    BY <1>3, <1>17, <2>1
  <2>3. QED
    BY <2>1, <2>2 DEF StrictOrder
<1>18. QED
  BY <1>13, <1>14, <1>15, <1>16, <1>17 DEF Ranking

\* f goes through the c places, each once; what it meets there.
Visits(f, c, places) ==
  /\ f \in [1..c -> places]
  /\ \A j \in places : \E p \in 1..c : f[p] = j
  /\ \A p, q \in 1..c : f[p] = f[q] => p = q
Met(seq, f, c) == [p \in 1..c |-> seq[f[p]]]

\* The elements at some places are those of the places, each once.
LEMMA AtTakes ==
  ASSUME NEW seq, NEW n \in Nat, NEW places \in SUBSET (1..n), NEW c \in Nat, c = Cardinality(places)
  PROVE  \E f : Visits(f, c, places) /\ At(seq, places) = Met(seq, f, c)
<1>1. IsFiniteSet(places)
  <2>1. 1 \in Int /\ n \in Int
    OBVIOUS
  <2>2. IsFiniteSet(1..n)
    BY <2>1, FS_Interval
  <2>3. QED
    BY <2>2, FS_Subset
<1>2. PICK R : R = {r \in places \X places : r[1] < r[2]}
  OBVIOUS
<1>3. \A i, j \in places : <<i, j>> \in R <=> i < j
  BY <1>2
<1>4. StrictOrder(places, R)
  BY <1>3 DEF StrictOrder
<1>5. \A j \in places : {i \in places : i < j} = Before(places, R, j)
  BY <1>3 DEF Before
<1>6. PICK f \in [1..c -> places] :
        /\ \A j \in places : \E p \in 1..c : f[p] = j
        /\ \A p, q \in 1..c : f[p] = f[q] => p = q
        /\ \A p \in 1..c, j \in places : Cardinality(Before(places, R, j)) = p - 1 <=> j = f[p]
  BY <1>1, <1>4, PlacesAreRanks DEF Ranking
<1>7. ASSUME NEW p \in 1..c PROVE PlaceOf(places, p) = f[p]
  <2>1. \A i \in places : Cardinality({j \in places : j < i}) = p - 1 <=> i = f[p]
    BY <1>5, <1>6
  <2>2. f[p] \in places
    OBVIOUS
  <2>3. QED
    BY <2>1, <2>2 DEF PlaceOf
<1>8. At(seq, places) = Met(seq, f, c)
  BY <1>7 DEF At, Met
<1>9. Visits(f, c, places)
  BY <1>6 DEF Visits
<1>10. QED
  BY <1>8, <1>9

\* Sorting takes every element once, and the numbers never rise.
LEMMA SortingTakes ==
  ASSUME NEW n \in Nat, NEW w \in [1..n -> Int], NEW seq, DOMAIN seq = 1..n
  PROVE  \E f : /\ Visits(f, n, 1..n) /\ SortedBy(seq, w) = Met(seq, f, n)
               /\ \A p, q \in 1..n : p < q => w[f[p]] >= w[f[q]]
<1>1. PICK T : T = 1..n
  OBVIOUS
<1>2. IsFiniteSet(T) /\ n = Cardinality(T)
  <2>1. 1 \in Int /\ n \in Int
    OBVIOUS
  <2>2. IsFiniteSet(1..n) /\ Cardinality(1..n) = IF 1 > n THEN 0 ELSE n - 1 + 1
    BY <2>1, FS_Interval
  <2>3. QED
    BY <1>1, <2>2
<1>3. PICK R : R = {r \in T \X T : Precedes(w, r[1], r[2])}
  OBVIOUS
<1>4. \A i, j \in T : <<i, j>> \in R <=> Precedes(w, i, j)
  BY <1>3
<1>5. \A i \in T : w[i] \in Int /\ i \in Int
  BY <1>1
<1>6. StrictOrder(T, R)
  <2>1. \A i \in T : ~Precedes(w, i, i)
    BY <1>5 DEF Precedes
  <2>2. \A i, j \in T : i # j => Precedes(w, i, j) \/ Precedes(w, j, i)
    BY <1>5 DEF Precedes
  <2>3. ASSUME NEW i \in T, NEW j \in T, NEW k \in T, Precedes(w, i, j), Precedes(w, j, k)
        PROVE  Precedes(w, i, k)
    BY <1>5, <2>3 DEF Precedes
  <2>4. ASSUME NEW i, NEW j, NEW k, i \in T, j \in T, k \in T, <<i, j>> \in R, <<j, k>> \in R
        PROVE  <<i, k>> \in R
    BY <1>4, <2>3, <2>4
  <2>5. QED
    BY <1>4, <2>1, <2>2, <2>4 DEF StrictOrder
<1>7. \A j \in T : {i \in T : Precedes(w, i, j)} = Before(T, R, j)
  BY <1>4 DEF Before
<1>8. PICK f \in [1..n -> T] :
        /\ \A j \in T : \E p \in 1..n : f[p] = j
        /\ \A p, q \in 1..n : f[p] = f[q] => p = q
        /\ \A p \in 1..n, j \in T : Cardinality(Before(T, R, j)) = p - 1 <=> j = f[p]
        /\ \A p, q \in 1..n : p < q => <<f[p], f[q]>> \in R
  <2>1. PICK f : Ranking(f, T, R, n)
    BY <1>2, <1>6, PlacesAreRanks
  <2>2. QED
    BY <2>1 DEF Ranking
<1>9. ASSUME NEW p \in 1..n PROVE Ranked(w, p) = f[p]
  <2>1. \A j \in T : Cardinality({i \in T : Precedes(w, i, j)}) = p - 1 <=> j = f[p]
    BY <1>7, <1>8
  <2>2. f[p] \in T /\ DOMAIN w = T
    BY <1>1
  <2>3. QED
    BY <2>1, <2>2 DEF Ranked
<1>10. SortedBy(seq, w) = Met(seq, f, n)
  BY <1>9 DEF SortedBy, Met
<1>11. ASSUME NEW p \in 1..n, NEW q \in 1..n, p < q PROVE w[f[p]] >= w[f[q]]
  <2>1. f[p] \in T /\ f[q] \in T /\ Precedes(w, f[p], f[q])
    BY <1>4, <1>8, <1>11
  <2>2. PICK a \in Int, b \in Int : a = w[f[p]] /\ b = w[f[q]]
    BY <1>5, <2>1
  <2>3. a > b \/ a = b
    BY <2>1, <2>2 DEF Precedes
  <2>4. QED
    BY <2>2, <2>3
<1>12. Visits(f, n, 1..n)
  BY <1>1, <1>8 DEF Visits
<1>13. QED
  BY <1>10, <1>11, <1>12

-----------------------------------------------------------------------------
(* The axes, by their keys *)

Shape == [key : Keys \cup {NoKey}, status : {"ok", "unknown"}, score : Int, weight : Int]

\* The axis of a key: what came of it last, or unknown.
Axis(raw, key) == IF Has(raw, key) THEN Flattened(LastOf(raw, key)) ELSE Unknown(key)
KeysSent(raw) == ContractKeys \cup {k \in ExtraKeys : Has(raw, k)}

\* A list that tells of each of the keys once, and of it what came last.
Tells(axes, raw, keys) ==
  /\ axes \in Seq(Shape)
  /\ {axes[i].key : i \in DOMAIN axes} = keys
  /\ \A i, j \in DOMAIN axes : axes[i].key = axes[j].key => i = j
  /\ \A i \in DOMAIN axes : axes[i] = Axis(raw, axes[i].key)

LEMMA RawIsList ==
  ASSUME NEW raw \in Responses
  PROVE  /\ Len(raw) \in Nat /\ DOMAIN raw = 1..Len(raw)
         /\ \A i \in DOMAIN raw : raw[i] \in Shape
<1>1. PICK n \in 0..MaxAxes : raw \in [1..n -> RawAxes]
  BY DEF Responses
<1>2. n \in Nat
  BY ViewAssumption
<1>3. RawAxes \subseteq Shape
  BY ViewAssumption DEF RawAxes, Shape, Missing
<1>4. Len(raw) = n
  BY <1>1, <1>2
<1>5. QED
  BY <1>1, <1>2, <1>3, <1>4

\* The last axis of a key is one of those sent.
LEMMA LastIsSent ==
  ASSUME NEW raw, NEW n \in Nat, DOMAIN raw = 1..n, NEW key, Has(raw, key)
  PROVE  /\ \E i \in 1..n : LastOf(raw, key) = raw[i]
         /\ LastOf(raw, key).key = key
<1> DEFINE Back == {m \in Nat : \E i \in 1..n : m = n - i /\ raw[i].key = key}
<1>1. Back # {} /\ Back \in SUBSET Nat
  <2>1. PICK i \in 1..n : raw[i].key = key
    BY DEF Has
  <2>2. n - i \in Nat
    OBVIOUS
  <2>3. QED
    BY <2>1, <2>2
<1>2. PICK m \in Back : \A k \in Back : m <= k
  <2> HIDE DEF Back
  <2>1. QED
    BY <1>1, LeastOf
<1>3. PICK i \in 1..n : m = n - i /\ raw[i].key = key
  OBVIOUS
<1>4. ASSUME NEW j \in 1..n, raw[j].key = key PROVE j <= i
  <2>1. n - j \in Back
    BY <1>4
  <2>2. n - i <= n - j
    BY <1>2, <1>3, <2>1
  <2>3. QED
    BY <2>2
<1>5. PICK last \in 1..n :
        /\ last = CHOOSE l \in DOMAIN raw :
                    raw[l].key = key /\ \A j \in DOMAIN raw : raw[j].key = key => j <= l
        /\ raw[last].key = key
  BY <1>3, <1>4
<1>6. QED
  BY <1>5 DEF LastOf

\* In a list where each key comes once the last axis of a key is the only one.
LEMMA LastIsOnly ==
  ASSUME NEW axes, NEW n \in Nat, DOMAIN axes = 1..n, NEW i \in 1..n,
         \A j, k \in DOMAIN axes : axes[j].key = axes[k].key => j = k
  PROVE  Has(axes, axes[i].key) /\ LastOf(axes, axes[i].key) = axes[i]
<1>1. PICK key : key = axes[i].key
  OBVIOUS
<1>2. Has(axes, key)
  BY <1>1 DEF Has
<1>3. (\E j \in 1..n : LastOf(axes, key) = axes[j]) /\ LastOf(axes, key).key = key
  BY <1>2, LastIsSent
<1>4. PICK j \in 1..n : LastOf(axes, key) = axes[j] /\ axes[j].key = key
  BY <1>3
<1>5. QED
  BY <1>1, <1>2, <1>4

\* What became of an axis that was sent.
LEMMA FlattenedIs ==
  ASSUME NEW axis \in Shape
  PROVE  /\ Flattened(axis) \in Shape
         /\ Flattened(axis).key = axis.key /\ Flattened(axis).weight = axis.weight
         /\ IF axis.status = "ok" /\ axis.score # Missing
            THEN Flattened(axis) = axis
            ELSE Flattened(axis).status = "unknown" /\ Flattened(axis).score = Missing
<1>1. CASE axis.status = "ok" /\ axis.score # Missing
  BY <1>1 DEF Flattened
<1>2. CASE ~(axis.status = "ok" /\ axis.score # Missing)
  <2>1. PICK r : r = [axis EXCEPT !.score = Missing]
    OBVIOUS
  <2>2. r \in Shape /\ r.key = axis.key /\ r.weight = axis.weight /\ r.score = Missing
    BY <2>1 DEF Shape, Missing
  <2>3. PICK q : q = [r EXCEPT !.status = "unknown"]
    OBVIOUS
  <2>4. q \in Shape /\ q.key = axis.key /\ q.weight = axis.weight /\ q.score = Missing
        /\ q.status = "unknown"
    BY <2>2, <2>3 DEF Shape
  <2>5. Flattened(axis) = [axis EXCEPT !.score = Missing, !.status = "unknown"]
    BY <1>2 DEF Flattened
  <2>6. [axis EXCEPT !.score = Missing, !.status = "unknown"] = q
    BY <2>1, <2>3
  <2>7. Flattened(axis) = q
    BY <2>5, <2>6
  <2>8. QED
    BY <1>2, <2>4, <2>7
<1>3. QED
  BY <1>1, <1>2

LEMMA AxisHasKey ==
  ASSUME NEW raw \in Responses, NEW key \in Keys
  PROVE  Axis(raw, key).key = key /\ Axis(raw, key) \in Shape
<1>1. CASE Has(raw, key)
  <2>1. PICK axis : axis = LastOf(raw, key)
    OBVIOUS
  <2>2. axis \in Shape /\ axis.key = key
    <3>1. PICK n \in Nat : DOMAIN raw = 1..n
      BY RawIsList
    <3>2. (\E i \in 1..n : axis = raw[i]) /\ axis.key = key
      BY <1>1, <2>1, <3>1, LastIsSent
    <3>3. QED
      BY <3>1, <3>2, RawIsList
  <2>3. Flattened(axis).key = key /\ Flattened(axis) \in Shape
    BY <2>2, FlattenedIs
  <2>4. QED
    BY <1>1, <2>1, <2>3 DEF Axis
<1>2. CASE ~Has(raw, key)
  BY <1>2 DEF Axis, Unknown, Shape, Missing
<1>3. QED
  BY <1>1, <1>2

\* One list after another, of other keys.
LEMMA JoinTells ==
  ASSUME NEW raw, NEW K, NEW L, NEW A, NEW B, Tells(A, raw, K), Tells(B, raw, L), K \cap L = {}
  PROVE  Tells(A \o B, raw, K \cup L)
<1>1. A \in Seq(Shape) /\ B \in Seq(Shape)
  BY DEF Tells
<1>2. PICK m \in Nat, n \in Nat : m = Len(A) /\ n = Len(B) /\ DOMAIN A = 1..m /\ DOMAIN B = 1..n
  BY <1>1
<1>3. PICK C : C = A \o B
  OBVIOUS
<1>4. C \in Seq(Shape) /\ Len(C) = m + n
  BY <1>1, <1>2, <1>3
<1>5. DOMAIN C = 1..(m + n)
  BY <1>2, <1>4
<1>6. ASSUME NEW i \in 1..m PROVE i \in DOMAIN C /\ C[i] = A[i]
  BY <1>1, <1>2, <1>3, <1>5
<1>7. ASSUME NEW i \in 1..n PROVE m + i \in DOMAIN C /\ C[m + i] = B[i]
  BY <1>1, <1>2, <1>3, <1>5
<1>8. ASSUME NEW i \in DOMAIN C PROVE i \in 1..m \/ \E j \in 1..n : i = m + j
  <2>1. i \in 1..m \/ (i - m \in 1..n /\ i = m + (i - m))
    BY <1>2, <1>5
  <2>2. QED
    BY <2>1
<1>9. \A i \in 1..m : A[i].key \in K
  BY <1>2 DEF Tells
<1>10. \A i \in 1..n : B[i].key \in L
  BY <1>2 DEF Tells
<1>11. {C[i].key : i \in DOMAIN C} = K \cup L
  <2>1. ASSUME NEW i \in DOMAIN C PROVE C[i].key \in K \cup L
    BY <1>6, <1>7, <1>8, <1>9, <1>10
  <2>2. ASSUME NEW k \in K PROVE \E i \in DOMAIN C : C[i].key = k
    <3>1. PICK i \in 1..m : A[i].key = k
      BY <1>2 DEF Tells
    <3>2. QED
      BY <1>6, <3>1
  <2>3. ASSUME NEW k \in L PROVE \E i \in DOMAIN C : C[i].key = k
    <3>1. PICK i \in 1..n : B[i].key = k
      BY <1>2 DEF Tells
    <3>2. QED
      BY <1>7, <3>1
  <2>4. QED
    BY <2>1, <2>2, <2>3
<1>12. ASSUME NEW i \in DOMAIN C, NEW j \in DOMAIN C, C[i].key = C[j].key PROVE i = j
  <2>1. CASE i \in 1..m /\ j \in 1..m
    BY <1>2, <1>6, <1>12, <2>1 DEF Tells
  <2>2. ASSUME NEW k \in 1..n, i = m + k, NEW l \in 1..n, j = m + l PROVE i = j
    <3>1. B[k].key = B[l].key
      BY <1>7, <1>12, <2>2
    <3>2. QED
      BY <1>2, <2>2, <3>1 DEF Tells
  <2>3. ASSUME i \in 1..m, NEW l \in 1..n, j = m + l PROVE FALSE
    BY <1>6, <1>7, <1>9, <1>10, <1>12, <2>3
  <2>4. ASSUME j \in 1..m, NEW l \in 1..n, i = m + l PROVE FALSE
    BY <1>6, <1>7, <1>9, <1>10, <1>12, <2>4
  <2>5. QED
    BY <1>8, <2>1, <2>2, <2>3, <2>4
<1>13. ASSUME NEW i \in DOMAIN C PROVE C[i] = Axis(raw, C[i].key)
  <2>1. CASE i \in 1..m
    BY <1>2, <1>6, <2>1 DEF Tells
  <2>2. ASSUME NEW k \in 1..n, i = m + k PROVE C[i] = Axis(raw, C[i].key)
    <3>1. B[k] = Axis(raw, B[k].key)
      BY <1>2 DEF Tells
    <3>2. QED
      BY <1>7, <2>2, <3>1
  <2>3. QED
    BY <1>8, <2>1, <2>2
<1>14. QED
  BY <1>3, <1>4, <1>11, <1>12, <1>13 DEF Tells

\* What a list says of some of its places, each taken once, is said of their keys.
LEMMA TakenTells ==
  ASSUME NEW raw, NEW K, NEW A, Tells(A, raw, K), NEW places \in SUBSET DOMAIN A,
         NEW c \in Nat, NEW f, Visits(f, c, places)
  PROVE  Tells(Met(A, f, c), raw, {A[i].key : i \in places}) /\ Len(Met(A, f, c)) = c
<1> USE DEF Visits
<1>0. PICK B : B = Met(A, f, c) /\ B = [p \in 1..c |-> A[f[p]]]
  BY DEF Met
<1>1. A \in Seq(Shape) /\ \A i \in DOMAIN A : A[i] \in Shape
  BY DEF Tells
<1>2. \A p \in 1..c : f[p] \in DOMAIN A /\ f[p] \in places /\ B[p] = A[f[p]]
  BY <1>0
<1>3. B \in [1..c -> Shape]
  BY <1>0, <1>1, <1>2
<1>4. B \in Seq(Shape) /\ Len(B) = c /\ DOMAIN B = 1..c
  BY <1>3
<1>5. PICK L : L = {A[i].key : i \in places} /\ {B[p].key : p \in DOMAIN B} = L
  <2>1. ASSUME NEW p \in 1..c PROVE \E i \in places : B[p].key = A[i].key
    BY <1>2
  <2>2. ASSUME NEW i \in places PROVE \E p \in 1..c : B[p].key = A[i].key
    <3>1. PICK p \in 1..c : f[p] = i
      OBVIOUS
    <3>2. B[p] = A[i]
      BY <1>2, <3>1
    <3>3. QED
      BY <3>2
  <2> HIDE DEF Visits
  <2>3. PICK L, M : L = {A[i].key : i \in places} /\ M = {B[p].key : p \in 1..c}
    OBVIOUS
  <2>4. L \subseteq M /\ M \subseteq L
    BY <2>1, <2>2, <2>3
  <2>5. QED
    BY <1>4, <2>3, <2>4
<1>6. \A p, q \in DOMAIN B : B[p].key = B[q].key => p = q
  BY <1>2, <1>4 DEF Tells
<1>7. \A p \in DOMAIN B : B[p] = Axis(raw, B[p].key)
  BY <1>2, <1>4 DEF Tells
<1>8. Tells(B, raw, L)
  BY <1>4, <1>5, <1>6, <1>7 DEF Tells
<1>9. QED
  BY <1>0, <1>4, <1>5, <1>8

\* A list of the axes of different keys.
AxesOf(raw, key, c) == [p \in 1..c |-> Axis(raw, key[p])]
LEMMA ListTells ==
  ASSUME NEW raw \in Responses, NEW c \in Nat, NEW key, \A p \in 1..c : key[p] \in Keys,
         \A p, q \in 1..c : key[p] = key[q] => p = q
  PROVE  Tells(AxesOf(raw, key, c), raw, {key[p] : p \in 1..c})
<1>0. PICK A : A = AxesOf(raw, key, c) /\ A = [p \in 1..c |-> Axis(raw, key[p])]
  BY DEF AxesOf
<1>1. \A p \in 1..c : A[p].key = key[p] /\ A[p] \in Shape /\ A[p] = Axis(raw, key[p])
  BY <1>0, AxisHasKey
<1>2. A \in [1..c -> Shape]
  BY <1>0, <1>1
<1>3. A \in Seq(Shape) /\ DOMAIN A = 1..c
  BY <1>2
<1>4. {A[p].key : p \in DOMAIN A} = {key[p] : p \in 1..c}
  BY <1>1, <1>3
<1>5. QED
  BY <1>0, <1>1, <1>3, <1>4 DEF Tells

LEMMA ContractIsList ==
  /\ Len(Contract) \in Nat /\ DOMAIN Contract = 1..Len(Contract)
  /\ \A i \in DOMAIN Contract : Contract[i] \in ContractKeys
  /\ ContractKeys = {Contract[i] : i \in 1..Len(Contract)}
<1>1. Contract \in Seq(ContractKeys)
  BY ViewAssumption
<1>2. QED
  BY <1>1 DEF ContractKeys

\* normalizeRelic() tells of every key of the contract, and of every other that was sent.
LEMMA NormalizedTells ==
  ASSUME NEW raw \in Responses
  PROVE  Tells(NormalizedAxes(raw), raw, KeysSent(raw))
<1>1. PICK m \in Nat : m = Len(Contract) /\ DOMAIN Contract = 1..m
  BY ContractIsList
<1>2. PICK A : A = AxesOf(raw, Contract, m)
  OBVIOUS
<1>3. Tells(A, raw, ContractKeys)
  <2>1. \A i \in 1..m : Contract[i] \in Keys
    BY <1>1, ContractIsList DEF Keys
  <2>2. \A i, j \in 1..m : Contract[i] = Contract[j] => i = j
    BY <1>1, ViewAssumption
  <2>3. Tells(A, raw, {Contract[i] : i \in 1..m})
    BY <1>2, <2>1, <2>2, ListTells
  <2>4. QED
    BY <1>1, <2>3, ContractIsList
<1>4. PICK n \in Nat : DOMAIN raw = 1..n
  BY RawIsList
<1>5. PICK places : places = FirstExtras(raw)
  OBVIOUS
<1>6. places \in SUBSET (1..n) /\ IsFiniteSet(places) /\ Cardinality(places) \in Nat
  <2>1. places \in SUBSET (1..n)
    BY <1>4, <1>5 DEF FirstExtras
  <2>2. 1 \in Int /\ n \in Int
    OBVIOUS
  <2>3. IsFiniteSet(1..n)
    BY <2>2, FS_Interval
  <2>4. QED
    BY <2>1, <2>3, FS_Subset, FS_CardinalityType
<1>7. PICK c \in Nat : c = Cardinality(places)
  BY <1>6
<1>8. PICK f : Visits(f, c, places) /\ At(raw, places) = Met(raw, f, c)
  BY <1>6, <1>7, AtTakes
<1>9. PICK key : key = [p \in 1..c |-> raw[f[p]].key]
  OBVIOUS
<1>10. \A p \in 1..c : f[p] \in places /\ key[p] = raw[f[p]].key
  BY <1>8, <1>9 DEF Visits
<1>11. \A p \in 1..c : key[p] \in ExtraKeys /\ Has(raw, key[p])
  BY <1>4, <1>5, <1>10 DEF FirstExtras, Has
<1>12. \A i, j \in places : raw[i].key = raw[j].key => i = j
  <2>1. ASSUME NEW i \in places, NEW j \in places, i < j PROVE raw[i].key # raw[j].key
    <3>1. i \in 1..(j - 1)
      BY <1>6, <2>1
    <3>2. QED
      BY <1>5, <3>1 DEF FirstExtras
  <2>2. ASSUME NEW i \in places, NEW j \in places, i # j PROVE raw[i].key # raw[j].key
    <3>1. i < j \/ j < i
      BY <1>6, <2>2
    <3>2. QED
      BY <2>1, <3>1
  <2>3. QED
    BY <2>2
<1>13. \A p, q \in 1..c : key[p] = key[q] => p = q
  BY <1>8, <1>10, <1>12 DEF Visits
<1>14. ASSUME NEW k \in ExtraKeys, Has(raw, k) PROVE \E p \in 1..c : key[p] = k
  <2>1. PICK S : S = {i \in 1..n : raw[i].key = k}
    OBVIOUS
  <2>2. S \in SUBSET Nat /\ S # {}
    BY <1>4, <1>14, <2>1 DEF Has
  <2>3. PICK i \in S : \A j \in S : i <= j
    BY <2>2, LeastOf
  <2>4. \A j \in 1..(i - 1) : raw[j].key # k
    <3>1. ASSUME NEW j \in 1..(i - 1) PROVE j \in 1..n /\ j < i
      BY <2>1
    <3>2. QED
      BY <2>1, <2>2, <2>3, <3>1
  <2>5. i \in places /\ raw[i].key = k
    BY <1>4, <1>5, <1>14, <2>1, <2>4 DEF FirstExtras
  <2>6. QED
    BY <1>8, <1>10, <2>5 DEF Visits
<1>15. PICK B : B = AxesOf(raw, key, c)
  OBVIOUS
<1>16. Tells(B, raw, {k \in ExtraKeys : Has(raw, k)})
  <2>1. \A p \in 1..c : key[p] \in Keys
    BY <1>11 DEF Keys
  <2>2. Tells(B, raw, {key[p] : p \in 1..c})
    BY <1>13, <1>15, <2>1, ListTells
  <2>3. {key[p] : p \in 1..c} = {k \in ExtraKeys : Has(raw, k)}
    BY <1>11, <1>14
  <2>4. QED
    BY <2>2, <2>3
<1>17. Tells(A \o B, raw, KeysSent(raw))
  <2>1. ContractKeys \cap {k \in ExtraKeys : Has(raw, k)} = {}
    BY ViewAssumption
  <2>2. QED
    BY <1>3, <1>16, <2>1, JoinTells DEF KeysSent
<1>18. NormalizedAxes(raw) = A \o B
  <2>1. [i \in DOMAIN Contract |->
           IF Has(raw, Contract[i]) THEN Flattened(LastOf(raw, Contract[i])) ELSE Unknown(Contract[i])] = A
    BY <1>1, <1>2 DEF Axis, AxesOf
  <2>2. PICK extras : extras = At(raw, FirstExtras(raw))
    OBVIOUS
  <2>3. DOMAIN extras = 1..c /\ \A p \in 1..c : extras[p].key = key[p]
    BY <1>5, <1>8, <1>10, <2>2 DEF Met
  <2>4. [p \in DOMAIN extras |-> Flattened(LastOf(raw, extras[p].key))] = B
    BY <1>11, <1>15, <2>3 DEF Axis, AxesOf
  <2>5. QED
    BY <2>1, <2>2, <2>4 DEF NormalizedAxes
<1>19. QED
  BY <1>17, <1>18

-----------------------------------------------------------------------------
(* The rows of the tag *)

LEMMA WeightIsNumber ==
  ASSUME NEW axis \in Shape
  PROVE  /\ AxisWeight(axis) \in Int
         /\ OrZero(AxisWeight(axis)) = IF AxisWeight(axis) = Missing THEN 0 ELSE AxisWeight(axis)
         /\ OrZero(AxisWeight(axis)) \in Int
<1>1. axis.weight \in Int /\ Missing \in Int
  BY DEF Shape, Missing
<1>2. axis.key \in DOMAIN AXIS_WEIGHTS => AXIS_WEIGHTS[axis.key] \in Int
  BY ViewAssumption
<1>3. AxisWeight(axis) \in Int
  BY <1>1, <1>2 DEF AxisWeight
<1>4. QED
  BY <1>3 DEF OrZero

\* The order of display is another order of the contract.
LEMMA DisplayIsContract ==
  ASSUME NEW m \in Nat, DOMAIN Contract = 1..m
  PROVE  /\ \A p, q \in 1..m : AXIS_DISPLAY_ORDER[p] = AXIS_DISPLAY_ORDER[q] => p = q
         /\ {AXIS_DISPLAY_ORDER[p] : p \in 1..m} = ContractKeys
<1>1. PICK w : w = [i \in DOMAIN Contract |-> AXIS_WEIGHTS[Contract[i]]]
  OBVIOUS
<1>2. \A i \in 1..m : AXIS_WEIGHTS[Contract[i]] \in Int
  BY ContractIsList, ViewAssumption
<1>3. w \in [1..m -> Int]
  BY <1>1, <1>2
<1>4. PICK f : Visits(f, m, 1..m) /\ SortedBy(Contract, w) = Met(Contract, f, m)
  BY <1>3, SortingTakes
<1>5. AXIS_DISPLAY_ORDER = Met(Contract, f, m)
  BY <1>1, <1>4 DEF AXIS_DISPLAY_ORDER
<1>6. \A p \in 1..m : f[p] \in 1..m /\ AXIS_DISPLAY_ORDER[p] = Contract[f[p]]
  BY <1>4, <1>5 DEF Met, Visits
<1>7. ASSUME NEW p \in 1..m, NEW q \in 1..m, AXIS_DISPLAY_ORDER[p] = AXIS_DISPLAY_ORDER[q]
      PROVE  p = q
  <2>1. Contract[f[p]] = Contract[f[q]] /\ f[p] \in 1..m /\ f[q] \in 1..m
    BY <1>6, <1>7
  <2>2. f[p] = f[q]
    BY <2>1, ViewAssumption
  <2>3. QED
    BY <1>4, <2>2 DEF Visits
<1>8. ASSUME NEW k \in ContractKeys PROVE \E p \in 1..m : AXIS_DISPLAY_ORDER[p] = k
  <2>1. PICK i \in 1..m : Contract[i] = k
    BY DEF ContractKeys
  <2>2. PICK p \in 1..m : f[p] = i
    BY <1>4 DEF Visits
  <2>3. QED
    BY <1>6, <2>1, <2>2
<1>9. \A p \in 1..m : AXIS_DISPLAY_ORDER[p] \in ContractKeys
  BY <1>6 DEF ContractKeys
<1>10. QED
  BY <1>7, <1>8, <1>9

\* buildAxes() draws what normalizeRelic() tells: the contract in the order of display, then
\* the others.
LEMMA RowsTell ==
  ASSUME NEW raw \in Responses, NEW axes, Tells(axes, raw, KeysSent(raw))
  PROVE  Tells(Rows(axes), raw, KeysSent(raw))
<1>1. PICK m \in Nat : m = Len(Contract) /\ DOMAIN Contract = 1..m
  BY ContractIsList
<1>2. PICK ord : ord = AXIS_DISPLAY_ORDER
  OBVIOUS
<1>3. (\A p, q \in 1..m : ord[p] = ord[q] => p = q) /\ {ord[p] : p \in 1..m} = ContractKeys
  BY <1>1, <1>2, DisplayIsContract
<1>4. PICK n \in Nat : DOMAIN axes = 1..n /\ n = Len(axes)
  BY DEF Tells
<1>5. PICK A : A = AxesOf(raw, ord, m)
  OBVIOUS
<1>6. Tells(A, raw, ContractKeys)
  <2>1. \A p \in 1..m : ord[p] \in Keys
    BY <1>3 DEF Keys
  <2>2. Tells(A, raw, {ord[p] : p \in 1..m})
    BY <1>3, <1>5, <2>1, ListTells
  <2>3. QED
    BY <1>3, <2>2
<1>7. ASSUME NEW p \in 1..m
      PROVE  Has(axes, ord[p]) /\ LastOf(axes, ord[p]) = Axis(raw, ord[p])
  <2>1. ord[p] \in KeysSent(raw)
    BY <1>3 DEF KeysSent
  <2>2. PICK j \in 1..n : axes[j].key = ord[p]
    BY <1>4, <2>1 DEF Tells
  <2>3. \A i, k \in DOMAIN axes : axes[i].key = axes[k].key => i = k
    BY DEF Tells
  <2>4. Has(axes, axes[j].key) /\ LastOf(axes, axes[j].key) = axes[j]
    BY <1>4, <2>3, LastIsOnly
  <2>5. axes[j] = Axis(raw, axes[j].key)
    BY <1>4 DEF Tells
  <2>6. QED
    BY <2>2, <2>4, <2>5
<1>8. [i \in DOMAIN Contract |->
         IF Has(axes, AXIS_DISPLAY_ORDER[i]) THEN LastOf(axes, AXIS_DISPLAY_ORDER[i])
         ELSE Unknown(AXIS_DISPLAY_ORDER[i])] = A
  BY <1>1, <1>2, <1>5, <1>7 DEF AxesOf
<1>9. PICK places : places = {i \in DOMAIN axes : axes[i].key \in ExtraKeys}
  OBVIOUS
<1>10. places \in SUBSET (1..n) /\ Cardinality(places) \in Nat
  <2>1. places \in SUBSET (1..n)
    BY <1>4, <1>9
  <2>2. 1 \in Int /\ n \in Int
    OBVIOUS
  <2>3. IsFiniteSet(1..n)
    BY <2>2, FS_Interval
  <2>4. QED
    BY <2>1, <2>3, FS_Subset, FS_CardinalityType
<1>11. PICK c \in Nat : c = Cardinality(places)
  BY <1>10
<1>12. PICK f : Visits(f, c, places) /\ At(axes, places) = Met(axes, f, c)
  BY <1>10, <1>11, AtTakes
<1>13. PICK B : B = At(axes, places)
  OBVIOUS
<1>14. PICK L : L = {axes[i].key : i \in places}
  OBVIOUS
<1>15. Tells(B, raw, L)
  <2>1. places \in SUBSET DOMAIN axes
    BY <1>4, <1>10
  <2>2. Tells(Met(axes, f, c), raw, {axes[i].key : i \in places})
    BY <1>12, <2>1, TakenTells
  <2>3. QED
    BY <1>12, <1>13, <1>14, <2>2
<1>16. L = {k \in ExtraKeys : Has(raw, k)}
  <2>1. {axes[i].key : i \in DOMAIN axes} = KeysSent(raw)
    BY DEF Tells
  <2>2. L = KeysSent(raw) \cap ExtraKeys
    BY <1>9, <1>14, <2>1
  <2>3. QED
    BY <2>2, ViewAssumption DEF KeysSent
<1>17. ContractKeys \cap L = {} /\ KeysSent(raw) = ContractKeys \cup L
  BY <1>16, ViewAssumption DEF KeysSent
<1>18. Tells(A \o B, raw, KeysSent(raw))
  BY <1>6, <1>15, <1>17, JoinTells
<1>19. Rows(axes) = A \o B
  BY <1>8, <1>9, <1>13 DEF Rows
<1>20. QED
  BY <1>18, <1>19

\* The heaviest of the rows first, the same rows.
Falling(rows) ==
  \A i, j \in DOMAIN rows : i < j => OrZero(AxisWeight(rows[i])) >= OrZero(AxisWeight(rows[j]))

LEMMA HeaviestTells ==
  ASSUME NEW raw, NEW K, NEW rows, Tells(rows, raw, K)
  PROVE  Tells(HeaviestFirst(rows), raw, K) /\ Falling(HeaviestFirst(rows))
<1>1. PICK n \in Nat : DOMAIN rows = 1..n
  BY DEF Tells
<1>2. \A i \in 1..n : rows[i] \in Shape
  BY <1>1 DEF Tells
<1>3. PICK w : w = [i \in DOMAIN rows |-> OrZero(AxisWeight(rows[i]))]
  OBVIOUS
<1>4. w \in [1..n -> Int] /\ \A i \in 1..n : w[i] = OrZero(AxisWeight(rows[i]))
  BY <1>1, <1>2, <1>3, WeightIsNumber
<1>5. PICK f : /\ Visits(f, n, 1..n) /\ SortedBy(rows, w) = Met(rows, f, n)
               /\ \A p, q \in 1..n : p < q => w[f[p]] >= w[f[q]]
  BY <1>1, <1>4, SortingTakes
<1>6. PICK H : H = HeaviestFirst(rows) /\ H = Met(rows, f, n)
  BY <1>3, <1>5 DEF HeaviestFirst
<1>7. Tells(H, raw, K)
  <2>1. PICK places : places = 1..n
    OBVIOUS
  <2>2. places \in SUBSET DOMAIN rows /\ Visits(f, n, places)
    BY <1>1, <1>5, <2>1
  <2>3. Tells(Met(rows, f, n), raw, {rows[i].key : i \in places})
    BY <2>2, TakenTells
  <2>4. {rows[i].key : i \in places} = K
    BY <1>1, <2>1 DEF Tells
  <2>5. QED
    BY <1>6, <2>3, <2>4
<1>8. DOMAIN H = 1..n /\ \A p \in 1..n : f[p] \in 1..n /\ H[p] = rows[f[p]]
  BY <1>5, <1>6 DEF Met, Visits
<1>9. ASSUME NEW p \in DOMAIN H, NEW q \in DOMAIN H, p < q
      PROVE  OrZero(AxisWeight(H[p])) >= OrZero(AxisWeight(H[q]))
  <2>1. w[f[p]] = OrZero(AxisWeight(H[p])) /\ w[f[q]] = OrZero(AxisWeight(H[q]))
    BY <1>4, <1>8
  <2>2. w[f[p]] >= w[f[q]]
    BY <1>5, <1>8, <1>9
  <2>3. QED
    BY <2>1, <2>2
<1>10. Falling(H)
  BY <1>9 DEF Falling
<1>11. QED
  BY <1>6, <1>7, <1>10

\* What the reader sees of a response.
Seen(rows) == [i \in DOMAIN rows |-> RenderAxis(rows[i])]

LEMMA BuiltTells ==
  ASSUME NEW raw \in Responses
  PROVE  \E rows : Tells(rows, raw, KeysSent(raw)) /\ Falling(rows) /\ BuildAxes(raw) = Seen(rows)
<1>1. PICK axes : axes = NormalizedAxes(raw)
  OBVIOUS
<1>2. Tells(axes, raw, KeysSent(raw))
  BY <1>1, NormalizedTells
<1>3. PICK unsorted : unsorted = Rows(axes)
  OBVIOUS
<1>4. Tells(unsorted, raw, KeysSent(raw))
  BY <1>2, <1>3, RowsTell
<1>5. PICK rows : rows = HeaviestFirst(unsorted)
  OBVIOUS
<1>6. Tells(rows, raw, KeysSent(raw)) /\ Falling(rows)
  BY <1>4, <1>5, HeaviestTells
<1>7. BuildAxes(raw) = Seen(rows)
  BY <1>1, <1>3, <1>5 DEF BuildAxes, Seen
<1>8. QED
  BY <1>6, <1>7

LEMMA EveryAxisIsOnce == EveryAxisOnce
<1> SUFFICES ASSUME NEW raw \in Responses, NEW built, built = BuildAxes(raw)
             PROVE  /\ {built[i].key : i \in DOMAIN built} = KeysSent(raw)
                    /\ \A i, j \in DOMAIN built : built[i].key = built[j].key => i = j
  BY DEF EveryAxisOnce, KeysSent
<1>1. PICK rows : Tells(rows, raw, KeysSent(raw)) /\ built = Seen(rows)
  BY BuiltTells
<1>2. DOMAIN built = DOMAIN rows /\ \A i \in DOMAIN rows : built[i].key = rows[i].key
  BY <1>1 DEF Seen, RenderAxis
<1>3. QED
  BY <1>1, <1>2 DEF Tells

LEMMA NeverThicker == ThicknessFollowsOrder
<1> SUFFICES ASSUME NEW raw \in Responses, NEW built, built = BuildAxes(raw), NEW i \in 2..Len(built)
             PROVE  built[i].height <= built[i - 1].height
  BY DEF ThicknessFollowsOrder
<1>1. PICK rows : Tells(rows, raw, KeysSent(raw)) /\ Falling(rows) /\ built = Seen(rows)
  BY BuiltTells
<1>2. PICK n \in Nat : DOMAIN rows = 1..n
  BY <1>1 DEF Tells
<1>3. DOMAIN built = 1..n /\ \A j \in 1..n : built[j].height = BarHeight(AxisWeight(rows[j]))
  BY <1>1, <1>2 DEF Seen, RenderAxis
<1>4. i \in 1..n /\ i - 1 \in 1..n /\ i - 1 < i
  <2>1. Len(built) = n
    BY <1>2, <1>3
  <2>2. QED
    BY <2>1
<1>5. PICK b \in Int, a \in Int : b = AxisWeight(rows[i]) /\ a = AxisWeight(rows[i - 1])
  <2>1. rows[i] \in Shape /\ rows[i - 1] \in Shape
    BY <1>1, <1>2, <1>4 DEF Tells
  <2>2. QED
    BY <2>1, WeightIsNumber
<1>6. OrZero(a) >= OrZero(b)
  BY <1>1, <1>2, <1>4, <1>5 DEF Falling
<1>7. BarHeight(b) <= BarHeight(a)
  BY <1>6 DEF OrZero, BarHeight, Clamp, Missing
<1>8. QED
  BY <1>3, <1>4, <1>5, <1>7

\* A row has the score of the last axis of its key, if that was observed with one.
HasScore(raw, row) ==
  LET sent == {axis \in {LastOf(raw, k) : k \in {k \in {row.key} : Has(raw, k)}} :
                 axis.status = "ok" /\ axis.score # Missing}
  IN  /\ (row.value = NoData) <=> (sent = {})
      /\ (row.width = NoData) <=> (sent = {})
      /\ \A axis \in sent : row.value = axis.score

LEMMA NoZeroForMissing == MissingNeverZero
<1>1. ASSUME NEW raw \in Responses, NEW axis \in Shape, NEW k, axis = Axis(raw, k), NEW sent,
             sent = {a \in {LastOf(raw, l) : l \in {l \in {k} : Has(raw, l)}} :
                       a.status = "ok" /\ a.score # Missing}
      PROVE  /\ (RenderAxis(axis).value = NoData) <=> (sent = {})
             /\ (RenderAxis(axis).width = NoData) <=> (sent = {})
             /\ \A a \in sent : RenderAxis(axis).value = a.score
  <2>1. ASSUME axis.status = "ok", axis.score # Missing
        PROVE  RenderAxis(axis).value = axis.score /\ RenderAxis(axis).width # NoData
    <3>1. axis.score \in Int
      BY DEF Shape
    <3>2. ScoreToWidth(axis.score) # NoData
      BY <3>1 DEF ScoreToWidth, Clamp, NoData, Missing
    <3>3. QED
      BY <2>1, <3>2 DEF RenderAxis
  <2>2. ASSUME ~(axis.status = "ok" /\ axis.score # Missing)
        PROVE  RenderAxis(axis).value = NoData /\ RenderAxis(axis).width = NoData
    BY <2>2 DEF RenderAxis
  <2>3. CASE Has(raw, k)
    <3>1. PICK last : last = LastOf(raw, k)
      OBVIOUS
    <3>2. last \in Shape
      <4>1. PICK n \in Nat : DOMAIN raw = 1..n
        BY RawIsList
      <4>2. \E i \in 1..n : last = raw[i]
        BY <2>3, <3>1, <4>1, LastIsSent
      <4>3. QED
        BY <4>1, <4>2, RawIsList
    <3>3. axis = Flattened(last)
      BY <1>1, <2>3, <3>1 DEF Axis
    <3>4. sent = {a \in {last} : a.status = "ok" /\ a.score # Missing}
      BY <1>1, <2>3, <3>1
    <3>5. CASE last.status = "ok" /\ last.score # Missing
      <4>1. axis = last /\ sent = {last}
        BY <3>2, <3>3, <3>4, <3>5, FlattenedIs
      <4>2. QED
        BY <2>1, <3>5, <4>1 DEF NoData
    <3>6. CASE ~(last.status = "ok" /\ last.score # Missing)
      <4>1. sent = {} /\ axis.score = Missing
        BY <3>2, <3>3, <3>4, <3>6, FlattenedIs
      <4>2. QED
        BY <2>2, <4>1
    <3>7. QED
      BY <3>5, <3>6
  <2>4. CASE ~Has(raw, k)
    <3>1. sent = {} /\ axis.score = Missing
      BY <1>1, <2>4 DEF Axis, Unknown
    <3>2. QED
      BY <2>2, <3>1
  <2>5. QED
    BY <2>3, <2>4
<1>2. ASSUME NEW raw \in Responses, NEW axis \in Shape, NEW k, axis = Axis(raw, k), axis.key = k
      PROVE  HasScore(raw, RenderAxis(axis))
  <2>1. RenderAxis(axis).key = k
    BY <1>2 DEF RenderAxis
  <2>2. PICK row : row = RenderAxis(axis)
    OBVIOUS
  <2>3. PICK sent : sent = {a \in {LastOf(raw, l) : l \in {l \in {k} : Has(raw, l)}} :
                              a.status = "ok" /\ a.score # Missing}
    OBVIOUS
  <2>4. /\ (row.value = NoData) <=> (sent = {})
        /\ (row.width = NoData) <=> (sent = {})
        /\ \A a \in sent : row.value = a.score
    BY <1>1, <1>2, <2>2, <2>3
  <2>5. sent = {a \in {LastOf(raw, l) : l \in {l \in {row.key} : Has(raw, l)}} :
                       a.status = "ok" /\ a.score # Missing}
    BY <2>1, <2>2, <2>3
  <2>6. HasScore(raw, row)
    BY <2>4, <2>5 DEF HasScore
  <2>7. QED
    BY <2>2, <2>6
<1>3. ASSUME NEW raw \in Responses, NEW i \in DOMAIN BuildAxes(raw)
      PROVE  HasScore(raw, BuildAxes(raw)[i])
  <2>1. PICK rows : Tells(rows, raw, KeysSent(raw)) /\ BuildAxes(raw) = Seen(rows)
    BY BuiltTells
  <2>2. i \in DOMAIN rows /\ BuildAxes(raw)[i] = RenderAxis(rows[i])
    BY <2>1 DEF Seen
  <2>3. PICK axis, k : axis = rows[i] /\ k = rows[i].key
    OBVIOUS
  <2>4. axis \in Shape /\ axis = Axis(raw, k) /\ axis.key = k
    BY <2>1, <2>2, <2>3 DEF Tells
  <2>5. HasScore(raw, RenderAxis(axis))
    BY <1>2, <2>4
  <2>6. QED
    BY <2>2, <2>3, <2>5
<1>4. QED
  BY <1>3 DEF MissingNeverZero, HasScore

LEMMA LabelsAndNotices == DoubtIsWritten /\ NoSilentFailure
<1>1. DoubtIsWritten
  <2> SUFFICES ASSUME NEW tag \in RawTags, Notes(tag) = {}
               PROVE  tag.confidence = "high" /\ tag.observed # "false"
    BY DEF DoubtIsWritten
  <2>1. tag.observed # "false"
    BY DEF Notes
  <2>2. ConfidenceNote(tag.confidence) = {}
    BY DEF Notes
  <2>3. tag.confidence \in {"high", "medium", "low", "other"}
    BY DEF RawTags
  <2>4. tag.confidence = "high"
    BY <2>2, <2>3 DEF ConfidenceNote
  <2>5. QED
    BY <2>1, <2>4
<1>2. NoSilentFailure
  <2> SUFFICES ASSUME NEW error \in Errors, ~Denied(error) PROVE Notice(error) # "none"
    BY DEF NoSilentFailure
  <2>1. error.status # 404
    BY DEF Denied
  <2>2. error.status \in Int
    BY DEF Errors
  <2>3. QED
    BY <2>1, <2>2 DEF Notice
<1>3. QED
  BY <1>1, <1>2

-----------------------------------------------------------------------------
(* The theorem *)

\* Whatever the API answers, however long the list of axes and whatever the contract, its
\* scores and weights: the tag draws every axis once, the heaviest first and never thicker
\* below, shows no number for what was not observed, and leaves out no doubt and no failure.
THEOREM TagAlwaysFaithful == OverlaySpec => []TagIsFaithful
<1>1. TagIsFaithful
  BY EveryAxisIsOnce, NeverThicker, NoZeroForMissing, LabelsAndNotices DEF TagIsFaithful
<1>2. QED
  BY <1>1, PTL
=============================================================================
