---------------------------- MODULE ContentScript ----------------------------
(***************************************************************************)
(* The content script on one page (content/index.js, scanner.js): it scans *)
(* the page for candidates, waits until they come into view, asks the      *)
(* worker about them in batches, and clips a marker next to each mint; on  *)
(* a detail page it also shows one marker for the page's own token.        *)
(*                                                                         *)
(* Between an answer and its question the page changes, the address of the *)
(* page changes, and the overlay is switched: an action is one callback of *)
(* the event loop, from one await or timer to the next.                    *)
(*                                                                         *)
(* A candidate is a pair <<host element, address>>.  Copies of a candidate *)
(* are counted up to Many, which stands for two or more.                   *)
(***************************************************************************)
EXTENDS Integers, FiniteSets, SequencesExt

CONSTANTS
  Candidates,          \* pairs <<host, address>>: all that may come to the page
  Genuine,             \* the addresses the API confirms as mints
  Urls, NoUrl,
  DetailPages,         \* the URLs that carry the address of a token
  MAX_BATCH,
  MaxEvents,           \* bound on what disturbs the script: the failed answers, the changes
                       \* of URL and of the settings, and the hosts taken out, together
  MaxFlights           \* bound on the batches under way

Hosts == {c[1] : c \in Candidates}
Many == 2

ASSUME ContentAssumption ==
  /\ IsFiniteSet(Candidates) /\ MAX_BATCH \in Nat \ {0}
  /\ DetailPages \subseteq Urls /\ NoUrl \notin Urls
  /\ {MaxEvents, MaxFlights} \subseteq Nat

VARIABLES
  life,           \* "loading", "running", or "idle": not allowed when the page was loaded
  allowed,        \* overlayAllowed() by the settings the script knows
  url,            \* location.href
  lastHref,       \* the URL that observeUrlChanges() has seen last
  here, gone,     \* the hosts in the document, and those taken out of it
  inView,         \* the hosts in the viewport or just below it
  tagged,         \* data-bazr-tagged
  markers,        \* candidate -> markers next to it
  scanTimer, batchTimer,
  pending,        \* candidate -> copies that wait for their host to come into view
  observed,       \* the hosts of the IntersectionObserver
  batch,          \* candidate -> copies that go out with the next batch
  flights,        \* the batches under way: candidate -> copies
  pageMarker,     \* pageMarkerHost: the URL whose token it shows, or NoUrl
  orphans,        \* the URLs of the page markers in the document that nothing refers to
  asks,           \* URL -> questions about its token under way
  cooling,        \* Date.now() - lastFailureNoticeAt < FAILURE_NOTICE_COOLDOWN_MS
  notice,         \* the failure notice is on the screen
  failed,         \* history: candidates whose last question got no verdict,
  pageFailed,     \*   the URLs a question about whose token brought no marker since the
                  \*   last one was asked,
  asked,          \*   and the URL that refreshPageMarker() looked at last
  events

page == <<url, lastHref, here, gone, inView>>
candidates == <<tagged, markers, pending, observed, batch, flights, failed>>
pageToken == <<pageMarker, orphans, asks, pageFailed, asked>>
vars == <<life, allowed, page, candidates, scanTimer, batchTimer, pageToken,
          cooling, notice, events>>

None == [c \in Candidates |-> 0]
Least(a, b) == IF a <= b THEN a ELSE b
Plus(bag, S) == [c \in Candidates |-> IF c \in S THEN Least(bag[c] + 1, Many) ELSE bag[c]]
Join(bag, more) == [c \in Candidates |-> Least(bag[c] + more[c], Many)]
Without(bag, S) == [c \in Candidates |-> IF c \in S THEN 0 ELSE bag[c]]
Of(bag) == {c \in Candidates : bag[c] > 0}
Event == events < MaxEvents /\ events' = events + 1

Addresses(S) == {c[2] : c \in S}
On(hosts) == {c \in Candidates : c[1] \in hosts}

\* The URLs whose tokens are shown on the page.
PageMarkers == orphans \cup ({pageMarker} \ {NoUrl})

-----------------------------------------------------------------------------
(* Scanning *)

\* collectTargets(): every candidate on the page, once, unless it is tagged.
collectTargets == On(here) \ tagged

\* scan(): what is found is put behind what is pending already, whoever put it there;
\* a host is observed when its list gets its first candidate.
Scanned(p) ==
  /\ pending' = Plus(p, collectTargets)
  /\ observed' = observed \cup
       {c[1] : c \in {c \in collectTargets : \A d \in On({c[1]}) : p[d] = 0}}
  /\ failed' = failed \ collectTargets

\* The scan timer fires.
Scan ==
  /\ life = "running" /\ scanTimer
  /\ scanTimer' = FALSE
  /\ IF allowed THEN Scanned(pending) ELSE UNCHANGED <<pending, observed, failed>>
  /\ UNCHANGED <<life, allowed, page, tagged, markers, batch, flights, batchTimer,
                 pageToken, cooling, notice, events>>

\* The IntersectionObserver reports a host: what waits for it goes to the next batch.
EnterViewport(h) ==
  /\ life = "running" /\ h \in observed \cap inView
  /\ LET waiting == Without(pending, Candidates \ On({h})) IN
     /\ batch' = Join(batch, waiting)
     /\ batchTimer' = (batchTimer \/ Of(waiting) # {})
  /\ pending' = Without(pending, On({h}))
  /\ observed' = observed \ {h}
  /\ UNCHANGED <<life, allowed, page, tagged, markers, flights, failed, scanTimer,
                 pageToken, cooling, notice, events>>

-----------------------------------------------------------------------------
(* The marker of a detail page *)

\* refreshPageMarker() up to its await: the marker it knows of goes, and the question is
\* about the URL of this moment.
Refreshed(on, u) ==
  /\ pageMarker' = NoUrl
  /\ asks' = IF on /\ u \in DetailPages THEN [asks EXCEPT ![u] = @ + 1] ELSE asks
  /\ pageFailed' = pageFailed \ {u}
  /\ asked' = u
  /\ UNCHANGED orphans

\* Mutant: the marker that is there makes way for the one of the answer.
AppendedAlone(u) ==
  /\ pageMarker' = u
  /\ UNCHANGED orphans

\* The marker of an answer is added without another look at the URL, the settings, or a
\* marker that an answer before it has added: that one stays, and nothing refers to it.
Appended(u) ==
  /\ pageMarker' = u
  /\ orphans' = orphans \cup ({pageMarker} \ {NoUrl})

\* reportApiFailure(): at most one notice in each cooldown.  The notice is itself a change
\* of the page, as is a marker that was drawn, and brings the next scan.
Reported(cool, drawn) ==
  /\ cooling' = TRUE
  /\ notice' = (notice \/ ~cool)
  /\ scanTimer' = (scanTimer \/ drawn \/ (~cool /\ ~notice))

Unreported(cool, drawn) ==
  /\ cooling' = cool
  /\ scanTimer' = (scanTimer \/ drawn)
  /\ UNCHANGED notice

PageReplies == {"ok", "notMint", "error", "lost"}

\* refreshPageMarker() from the answer on; with two questions under way the answers come
\* in any order.
PageAnswer(u, reply) ==
  /\ life = "running" /\ asks[u] > 0
  /\ asks' = [asks EXCEPT ![u] = @ - 1]
  /\ IF reply \in {"error", "lost"} THEN Event ELSE UNCHANGED events
  /\ IF reply = "ok"
     THEN /\ Appended(u)
          /\ Unreported(FALSE, TRUE)
          /\ UNCHANGED pageFailed
     ELSE /\ pageFailed' = pageFailed \cup {u}
          /\ IF reply = "error" THEN Reported(cooling, FALSE) ELSE Unreported(cooling, FALSE)
          /\ UNCHANGED <<pageMarker, orphans>>
  /\ UNCHANGED <<life, allowed, page, candidates, batchTimer, asked>>

-----------------------------------------------------------------------------
(* Batches *)

\* The addresses of the next message: as many as fit.  Which ones, when not all fit, is
\* left open; the code takes the oldest.
Taken ==
  {A \in SUBSET Addresses(Of(batch)) :
     Cardinality(A) = Least(MAX_BATCH, Cardinality(Addresses(Of(batch))))}

\* Mutant: what does not fit into the message is dropped.
FlushedAll(S) == batch' = None

\* The addresses of the batch that go out leave it.
Flushed(S) == batch' = Without(batch, S)

\* flushBatch() up to its await: at most MAX_BATCH addresses in one message.  What
\* stays behind has no timer until the answer arrives.
FlushBatch ==
  /\ life = "running" /\ batchTimer /\ Len(flights) < MaxFlights
  /\ batchTimer' = FALSE
  /\ IF Of(batch) = {} THEN UNCHANGED <<batch, flights>>
     ELSE \E A \in Taken :
       LET out == {c \in Of(batch) : c[2] \in A} IN
       /\ Flushed(out)
       /\ flights' = Append(flights, Without(batch, Candidates \ out))
  /\ UNCHANGED <<life, allowed, page, tagged, markers, pending, observed, failed,
                 scanTimer, pageToken, cooling, notice, events>>

\* Mutant: the timer is left to the next candidate.
NotRearmed == UNCHANGED batchTimer

\* The last line of flushBatch().
Rearmed == batchTimer' = (batchTimer \/ Of(batch) # {})

\* flushBatch() from the answer on.  bad: the addresses that got an error.
Answer(i, bad) ==
  LET flight == flights[i]
      mints == {c \in Of(flight) : c[2] \in Genuine \ bad}
      others == {c \in Of(flight) : c[2] \notin Genuine \cup bad}
      cool == cooling /\ mints = {}
  IN
  /\ life = "running"
  /\ bad \subseteq Addresses(Of(flight))
  /\ IF bad # {} THEN Event ELSE UNCHANGED events
  /\ flights' = RemoveAt(flights, i)
  /\ markers' = Join(markers, Without(flight, Candidates \ mints))
  /\ tagged' = tagged \cup mints \cup others
  /\ failed' = failed \cup (Of(flight) \ (mints \cup others))
  /\ IF bad # {} THEN Reported(cool, mints # {}) ELSE Unreported(cool, mints # {})
  /\ Rearmed
  /\ UNCHANGED <<life, allowed, page, pending, observed, batch, pageToken>>

\* The worker ends, or fails as a whole: no results, nothing is marked and nothing said.
LoseAnswer(i) ==
  /\ life = "running" /\ Event
  /\ flights' = RemoveAt(flights, i)
  /\ failed' = failed \cup Of(flights[i])
  /\ Rearmed
  /\ UNCHANGED <<life, allowed, page, tagged, markers, pending, observed, batch,
                 scanTimer, pageToken, cooling, notice>>

\* A notice is closed or runs out; the "Try again" of the notice also takes the tags
\* off, but leaves the markers.
DismissNotice ==
  /\ notice /\ notice' = FALSE /\ scanTimer' = TRUE
  /\ UNCHANGED <<life, allowed, page, candidates, batchTimer, pageToken, cooling,
                 events>>

Retry ==
  /\ notice /\ notice' = FALSE /\ scanTimer' = TRUE
  /\ cooling' = FALSE /\ tagged' = {}
  /\ Refreshed(allowed, url)
  /\ UNCHANGED <<life, allowed, page, markers, pending, observed, batch, flights,
                 failed, batchTimer, events>>

CoolDown ==
  /\ cooling /\ cooling' = FALSE
  /\ UNCHANGED <<life, allowed, page, candidates, scanTimer, batchTimer, pageToken,
                 notice, events>>

-----------------------------------------------------------------------------
(* The page and the user *)

\* boot() after the settings arrived, or did not (then nothing is allowed).
Boot ==
  /\ life = "loading"
  /\ \/ /\ life' = "running" /\ allowed' = TRUE
        /\ Scanned(pending) /\ Refreshed(TRUE, url)
        /\ lastHref' = url
     \/ /\ life' = "idle"
        /\ UNCHANGED <<allowed, lastHref, pending, observed, failed, pageToken>>
  /\ UNCHANGED <<url, here, gone, inView, tagged, markers, batch, flights, scanTimer,
                 batchTimer, cooling, notice, events>>

\* The page adds or removes a host, which the MutationObserver reports.
Mutate(h) ==
  /\ life = "running" /\ h \notin gone
  /\ IF h \in here THEN Event /\ here' = here \ {h} /\ gone' = gone \cup {h} /\ inView' = inView \ {h}
     ELSE here' = here \cup {h} /\ UNCHANGED <<gone, inView, events>>
  /\ scanTimer' = TRUE
  /\ UNCHANGED <<life, allowed, url, lastHref, candidates, batchTimer, pageToken, cooling,
                 notice>>

\* A host comes into view; what the user scrolls past is as good as taken out.
Scroll(h) ==
  /\ life = "running" /\ h \in here \ inView
  /\ inView' = inView \cup {h}
  /\ UNCHANGED <<life, allowed, url, lastHref, here, gone, candidates, scanTimer, batchTimer,
                 pageToken, cooling, notice, events>>

\* The page moves by pushState() or replaceState().  The script patches its own copy of
\* them: a content script lives in an isolated world, and the page calls its own.
PushState(u) ==
  /\ life = "running" /\ u # url /\ Event
  /\ url' = u
  /\ UNCHANGED <<life, allowed, lastHref, here, gone, inView, candidates, scanTimer,
                 batchTimer, pageToken, cooling, notice>>

\* What boot() does about a URL that has changed.
UrlChanged(u) ==
  /\ lastHref' = u
  /\ pending' = None /\ batch' = None
  /\ scanTimer' = TRUE
  /\ Refreshed(allowed, u)

\* popstate: back, forward or a link to a part of the page.  check() of
\* observeUrlChanges() compares with the URL it saw last, be it long ago.
PopState(u) ==
  /\ life = "running" /\ Event
  /\ url' = u
  /\ IF u # lastHref THEN UrlChanged(u)
     ELSE UNCHANGED <<lastHref, pending, batch, scanTimer, pageToken>>
  /\ UNCHANGED <<life, allowed, here, gone, inView, tagged, markers, observed, flights,
                 failed, batchTimer, cooling, notice>>

\* storage.onChanged: the settings were saved, with the same verdict on this page as before
\* or with the other one.  Markers that are taken off bring a scan, as any change does.
ChangeSettings(on) ==
  /\ life = "running" /\ Event
  /\ allowed' = on
  /\ IF on
     THEN Refreshed(TRUE, url) /\ scanTimer' = TRUE /\ UNCHANGED markers
     ELSE /\ markers' = None /\ orphans' = {} /\ pageMarker' = NoUrl
          /\ scanTimer' = (scanTimer \/ Of(markers) # {} \/ PageMarkers # {})
          /\ UNCHANGED <<asks, pageFailed, asked>>
  /\ UNCHANGED <<life, page, tagged, pending, observed, batch, flights, failed,
                 batchTimer, cooling, notice>>

Init ==
  /\ life = "loading" /\ allowed = FALSE
  /\ url \in Urls /\ lastHref = url /\ here \in SUBSET Hosts /\ gone = {} /\ inView \in SUBSET here
  /\ tagged = {} /\ markers = None /\ pending = None /\ observed = {} /\ batch = None
  /\ flights = <<>> /\ scanTimer = FALSE /\ batchTimer = FALSE
  /\ pageMarker = NoUrl /\ orphans = {} /\ asks = [u \in Urls |-> 0]
  /\ cooling = FALSE /\ notice = FALSE
  /\ failed = {} /\ pageFailed = {} /\ asked = url /\ events = 0

Answered ==
  \/ \E i \in DOMAIN flights :
       LoseAnswer(i) \/ \E bad \in SUBSET Addresses(Of(flights[i])) : Answer(i, bad)

Next ==
  \/ Boot \/ Scan \/ FlushBatch \/ Answered
  \/ \E h \in Hosts : EnterViewport(h) \/ Mutate(h) \/ Scroll(h)
  \/ \E u \in Urls, reply \in PageReplies : PageAnswer(u, reply)
  \/ \E u \in Urls : PushState(u) \/ PopState(u)
  \/ \E on \in BOOLEAN : ChangeSettings(on)
  \/ DismissNotice \/ Retry \/ CoolDown

\* Timers fire, the observer reports, and every message is answered or fails
\* (safeSendMessage), granted that the body of an answer to the worker ends (RequestQueue).
Fairness ==
  /\ WF_vars(Scan) /\ WF_vars(FlushBatch) /\ WF_vars(Answered)
  /\ \A h \in Hosts : WF_vars(EnterViewport(h))

Spec == Init /\ [][Next]_vars /\ Fairness

-----------------------------------------------------------------------------
(* Properties *)

\* Every variable of content/index.js has a value of its type; what is pending waits for
\* a host the observer watches; and a message asks about one address at least and about
\* MAX_BATCH at most.
Bags == [Candidates -> 0..Many]
ContentTypeOK ==
  /\ life \in {"loading", "running", "idle"}
  /\ {allowed, scanTimer, batchTimer, cooling, notice} \subseteq BOOLEAN
  /\ {url, lastHref, asked} \subseteq Urls /\ here \cup gone \subseteq Hosts /\ inView \subseteq here
  /\ tagged \cup failed \subseteq Candidates
  /\ {markers, pending, batch} \subseteq Bags
  /\ {c[1] : c \in Of(pending)} \subseteq observed /\ observed \subseteq Hosts
  /\ flights \in Seq(Bags) /\ Len(flights) <= MaxFlights
  /\ \A i \in DOMAIN flights : Cardinality(Addresses(Of(flights[i]))) \in 1..MAX_BATCH
  /\ pageMarker \in Urls \cup {NoUrl} /\ orphans \cup pageFailed \subseteq Urls
  /\ DOMAIN asks = Urls /\ \A u \in Urls : asks[u] \in Nat

\* No candidate is forgotten: on a page where the overlay runs, each candidate without
\* a tag is still to be found by a scan that is due, waits for its host to come into view,
\* waits for a batch that will go out, is asked about, or its last question failed.
\* The timers, the observer and four collections share it between them.
NeverForgotten ==
  life = "running" /\ allowed =>
    \A c \in On(here) \ tagged :
      \/ scanTimer
      \/ pending[c] > 0 /\ c[1] \in observed
      \/ batch[c] > 0 /\ (batchTimer \/ flights # <<>>)
      \/ \E i \in DOMAIN flights : flights[i][c] > 0
      \/ c \in failed

\* The collections have their types, and between them they hold every candidate.
ContentSound == ContentTypeOK /\ NeverForgotten

\* The token of a detail page is shown, however the answers to the questions about this
\* page and about those before it overlap: unless the page has moved on without the script,
\* once the questions about this page are answered and none of them failed, its marker is
\* in the document.  An answer that comes late adds its marker, and may be the one the
\* script refers to, but it takes nothing away.
PageTokenShown ==
  (/\ life = "running" /\ allowed
   /\ url = asked /\ url \in DetailPages
   /\ asks[url] = 0 /\ url \notin pageFailed) => url \in PageMarkers

\* "On a detail page we know this address is the page's own token" (content/index.js): with
\* no question under way, on a page whose URL the script has seen, no other page's token is
\* shown.
OnlyOwnToken ==
  (/\ life = "running" /\ allowed /\ url = lastHref
   /\ \A u \in Urls : asks[u] = 0) => PageMarkers \subseteq {url}

\* A candidate in view gets its verdict, unless its question fails, it leaves the view or
\* the page, or the overlay is switched off or the page's address changes meanwhile.
EveryCandidateAnswered ==
  \A c \in Candidates :
    (life = "running" /\ allowed /\ c[1] \in inView /\ c \notin tagged)
      ~> (~allowed \/ c[1] \notin inView \/ c \in tagged \/ c \in failed)

\* "Finds mint addresses on a supported site, clips a small marker next to each one"
\* (content/index.js), and handled nodes are never walked twice: one marker at most.
OneMarkerEach == \A c \in Candidates : markers[c] <= 1

\* "Automatic overlay -- switch it off and nothing is drawn on any page and no address
\* is sent" (README.md): no step while it is off adds a marker or sends a message.
NothingWhileOff ==
  [][~allowed =>
       /\ Len(flights') <= Len(flights)
       /\ \A c \in Candidates : markers'[c] <= markers[c]
       /\ PageMarkers' \subseteq PageMarkers]_vars
=============================================================================
