------------------------------- MODULE TagPopup -------------------------------
(***************************************************************************)
(* The popup of the extension (popup/popup.js) with the handlers of the    *)
(* worker that it calls (background/index.js): it looks one mint up at a   *)
(* time and lists the recent lookups, a list the worker reads, changes and *)
(* writes back in storage.                                                 *)
(*                                                                         *)
(* A popup closes whenever it loses the focus, and what it asked for goes  *)
(* on in the worker: the next popup meets the lookups of the ones before.  *)
(* The lookup itself (TagBackground) is here one of its three outcomes.    *)
(***************************************************************************)
EXTENDS Integers, Sequences, FiniteSets

CONSTANTS
  Mints, NoMint,
  RECENT_LIMIT,
  MaxSessions,      \* bound on how often the popup is opened
  MaxLookups,       \* bound on the lookups
  MaxFaults         \* bound on the deaths of the worker and the refusals of its storage

ASSUME PopupAssumption ==
  NoMint \notin Mints /\ RECENT_LIMIT \in Nat \ {0} /\ {MaxSessions, MaxLookups, MaxFaults} \subseteq Nat

VARIABLES
  session, open,     \* the popup that is open, or was the last one
  busy, lastMint,
  slot,              \* what #tag-slot shows
  listed,            \* the recent lookups on the screen
  status,            \* the status line: "checking", or "told" what loadStatus() found
  recent,            \* storage: the recent lookups, newest first
  calls,             \* the lookups in the worker: step, mint, the popup, the list to store
  gets,              \* requests of the list under way, each with what was read
  lookups, faults,
  found              \* history: the mints a lookup found

screen == <<busy, lastMint, slot, listed, status>>
vars == <<session, open, screen, recent, calls, gets, lookups, faults, found>>

Calls == 1..MaxLookups
Hint == [show |-> "hint", mint |-> NoMint]
Idle == [step |-> "idle", mint |-> NoMint, session |-> 0, list |-> <<>>]
Least(a, b) == IF a <= b THEN a ELSE b
First(list, n) == SubSeq(list, 1, Least(n, Len(list)))

Fault == faults < MaxFaults /\ faults' = faults + 1
Goes(c, step) == calls' = [calls EXCEPT ![c].step = step]
Ends(c) == calls' = [calls EXCEPT ![c].step = "done", ![c].list = <<>>]

-----------------------------------------------------------------------------
(* The recent list *)

\* The filter of pushRecent(): the list without the mint.
Others(mint, list) ==
  LET kept[n \in 0..Len(list)] ==
        IF n = 0 THEN <<>>
        ELSE IF list[n] = mint THEN kept[n - 1] ELSE Append(kept[n - 1], list[n])
  IN kept[Len(list)]

\* What pushRecent() makes of the list it read.
Pushed(mint, list) == First(<<mint>> \o Others(mint, list), RECENT_LIMIT)

\* loadRecent(): the question.
Asked == gets' = Append(gets, [read |-> FALSE, list |-> <<>>])
Drop(i) == SubSeq(gets, 1, i - 1) \o SubSeq(gets, i + 1, Len(gets))

\* getRecent() in the worker.
ReadRecent(i) ==
  /\ ~gets[i].read
  /\ gets' = [gets EXCEPT ![i].read = TRUE, ![i].list = recent]
  /\ UNCHANGED <<session, open, screen, recent, calls, lookups, faults, found>>

\* The reply is rendered, or there was none: then an empty list and a notice.
RenderRecent(i, lost) ==
  /\ IF lost THEN Fault ELSE gets[i].read /\ UNCHANGED faults
  /\ listed' = IF lost THEN <<>> ELSE First(gets[i].list, RECENT_LIMIT)
  /\ gets' = Drop(i)
  /\ UNCHANGED <<session, open, busy, lastMint, slot, status, recent, calls, lookups, found>>

-----------------------------------------------------------------------------
(* A lookup *)

\* Mutant: a lookup starts while another is under way.
NoGuard == TRUE

\* The guard of lookup().
Ready == ~busy

\* lookup() up to its await, by the form, the recent list or Refresh.  An input that is
\* not the shape of an address ends it before, with a notice.
Lookup(mint) ==
  /\ open /\ Ready /\ lookups < MaxLookups
  /\ lookups' = lookups + 1
  /\ busy' = TRUE /\ slot' = [show |-> "loading", mint |-> mint]
  /\ calls' = [calls EXCEPT ![lookups + 1] =
       [step |-> "asking", mint |-> mint, session |-> session, list |-> <<>>]]
  /\ UNCHANGED <<session, open, lastMint, listed, status, recent, gets, faults, found>>

\* lookup() from the reply on: the tag, or what went wrong, of the mint that was asked for;
\* only a relic reloads the list.
Replied(c, show) ==
  /\ IF open /\ calls[c].session = session
     THEN /\ lastMint' = calls[c].mint /\ busy' = FALSE
          /\ slot' = [show |-> show, mint |-> calls[c].mint]
          /\ IF show = "tag" THEN Asked ELSE UNCHANGED gets
     ELSE UNCHANGED <<lastMint, busy, slot, gets>>
  /\ Ends(c)

\* The worker has the outcome: a relic goes to the recent list first (remember).
FetchRelic(c, relic) ==
  /\ calls[c].step = "asking"
  /\ IF relic THEN /\ Goes(c, "reading") /\ found' = found \cup {calls[c].mint}
                   /\ UNCHANGED <<lastMint, busy, slot, gets>>
     ELSE Replied(c, "error") /\ UNCHANGED found
  /\ UNCHANGED <<session, open, listed, status, recent, lookups, faults>>

ReadForPush(c) ==
  /\ calls[c].step = "reading"
  /\ calls' = [calls EXCEPT ![c].step = "storing", ![c].list = Pushed(calls[c].mint, recent)]
  /\ UNCHANGED <<session, open, screen, recent, gets, lookups, faults, found>>

StorePush(c) ==
  /\ calls[c].step = "storing"
  /\ recent' = calls[c].list
  /\ Replied(c, "tag")
  /\ UNCHANGED <<session, open, listed, status, lookups, faults, found>>

\* Mutant: the reply that does not come is not noticed.
SentForEver(c) == Ends(c) /\ UNCHANGED <<lastMint, busy, slot, gets>>

\* send() makes of a missing reply a reply with an error.
SentInVain(c) == Replied(c, "error")

\* The worker ends, or its storage refuses the list: no reply, or one with an error, even
\* when the relic had arrived.
LoseCall(c) ==
  /\ calls[c].step \notin {"idle", "done"} /\ Fault
  /\ SentInVain(c)
  /\ UNCHANGED <<session, open, listed, status, recent, lookups, found>>

-----------------------------------------------------------------------------
(* The popup *)

\* What popup.html starts with.
NewScreen(b, m, sl, l, st) ==
  b = FALSE /\ m = NoMint /\ sl = Hint /\ l = <<>> /\ st = "checking"

\* init()
Open ==
  /\ ~open /\ session < MaxSessions
  /\ open' = TRUE /\ session' = session + 1
  /\ Asked
  /\ UNCHANGED <<screen, recent, calls, lookups, faults, found>>

\* The popup loses the focus and with it all it held; its lookup goes on.
Close ==
  /\ open /\ open' = FALSE
  /\ NewScreen(busy', lastMint', slot', listed', status') /\ gets' = <<>>
  /\ UNCHANGED <<session, recent, calls, lookups, faults, found>>

\* loadStatus(): both replies are there; send() answers for a worker that does not.
LoadStatus ==
  /\ open /\ status = "checking"
  /\ status' = "told"
  /\ UNCHANGED <<session, open, busy, lastMint, slot, listed, recent, calls, gets,
                 lookups, faults, found>>

\* The close button of the tag.
ResetTag ==
  /\ open /\ slot' = Hint
  /\ UNCHANGED <<session, open, busy, lastMint, listed, status, recent, calls, gets,
                 lookups, faults, found>>

Init ==
  /\ NewScreen(busy, lastMint, slot, listed, status)
  /\ session = 0 /\ open = FALSE /\ recent = <<>> /\ gets = <<>>
  /\ calls = [c \in Calls |-> Idle] /\ lookups = 0 /\ faults = 0 /\ found = {}

Work(c) ==
  \/ \E relic \in BOOLEAN : FetchRelic(c, relic)
  \/ ReadForPush(c) \/ StorePush(c)

Next ==
  \/ Open \/ Close \/ LoadStatus \/ ResetTag
  \/ \E mint \in Mints : Lookup(mint)
  \/ \E c \in Calls : Work(c) \/ LoseCall(c)
  \/ \E i \in DOMAIN gets : ReadRecent(i) \/ \E lost \in BOOLEAN : RenderRecent(i, lost)

\* The worker and the status line come to an end: a request has a time limit, granted that
\* the body of its answer ends (RequestQueue), and the browser notices a worker that ends.
Spec ==
  /\ Init /\ [][Next]_vars /\ WF_vars(LoadStatus)
  /\ \A c \in Calls : WF_vars(Work(c))

-----------------------------------------------------------------------------
(* Properties *)

\* Every variable has a value of its type; the list is never longer than RECENT_LIMIT, in
\* storage and on the screen; and an open popup is busy with exactly one lookup, or none
\* of its lookups is under way.
Lists == {l \in Seq(Mints) : Len(l) <= RECENT_LIMIT}
PopupTypeOK ==
  /\ session \in 0..MaxSessions /\ {open, busy} \subseteq BOOLEAN
  /\ lastMint \in Mints \cup {NoMint} /\ status \in {"checking", "told"}
  /\ slot.show \in {"hint", "loading", "tag", "error"} /\ slot.mint \in Mints \cup {NoMint}
  /\ listed \in Lists /\ recent \in Lists
  /\ \A c \in Calls : calls[c].list \in Lists /\ calls[c].session \in 0..session
  /\ \A i \in DOMAIN gets : gets[i].list \in Lists
  /\ open => Cardinality({c \in Calls : /\ calls[c].session = session
                                     /\ calls[c].step \notin {"idle", "done"}})
               = IF busy THEN 1 ELSE 0

\* Whatever lookups of this popup and of earlier ones are under way, the tag on the screen
\* is of the mint asked for last, and a popup that waits for nothing does not say that it is
\* loading.
LastLookup == {c \in Calls : calls[c].session = session /\ c = lookups}
TagOfLastLookup ==
  open =>
    /\ slot.show \in {"tag", "error"} =>
         ~busy /\ slot.mint = lastMint /\ \A c \in LastLookup : calls[c].mint = slot.mint
    /\ slot.show = "loading" =>
         busy /\ \E c \in LastLookup : calls[c].mint = slot.mint /\ calls[c].step # "done"

\* The stored list names mints that were found, each once, however the writes of lookups
\* overlap.
RecentAreFound ==
  \A i, j \in DOMAIN recent :
    /\ recent[i] \in found
    /\ recent[i] = recent[j] => i = j

\* Every lookup comes to an end on the screen, or the popup is closed, and so does the
\* check of the API: a worker that ends on the way never leaves "Reading..." behind.
EveryLookupEnds ==
  /\ (open /\ busy) ~> ~busy
  /\ (open /\ status = "checking") ~> (~open \/ status # "checking")

\* Busy flag, screen, lookups and recent list agree in every popup.
PopupSound == PopupTypeOK /\ TagOfLastLookup /\ RecentAreFound
=============================================================================
