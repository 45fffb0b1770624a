----------------------------- MODULE TagSettings -----------------------------
(***************************************************************************)
(* The settings of the extension: one key of chrome.storage.local, changed *)
(* by options pages (options/options.js) through the service worker        *)
(* (background/index.js, shared/settings.js), and the API client that the  *)
(* worker keeps for the base URL in them.                                  *)
(*                                                                         *)
(* A save is a message, a read of the storage, a write of the merged       *)
(* settings and a reply; each of these steps is an await, and nothing      *)
(* keeps a second save from starting in between.  Each of them is a queue  *)
(* of its own: the worker gets messages, carries out storage calls and     *)
(* sends replies in the order in which they were made.  The change events  *)
(* of the storage reach a page on another way than the replies.            *)
(***************************************************************************)
EXTENDS Integers, Sequences, FiniteSets

CONSTANTS
  Windows,            \* the options pages
  Sites,              \* the ids of SUPPORTED_SITES
  Bases,              \* the API bases that normalizeBaseUrl accepts
  DEFAULT_API_BASE,
  Calls,              \* the health checks
  Null,               \* JavaScript's null
  MaxSaves            \* bound on the number of saves

ASSUME SettingsAssumption ==
  /\ DEFAULT_API_BASE \in Bases /\ Null \notin Bases /\ Null \notin Windows
  /\ MaxSaves \in Nat
ASSUME NullAssumption ==
  Null \notin [apiBase : Bases, autoOverlay : BOOLEAN, siteEnabled : [Sites -> BOOLEAN]]

VARIABLES
  stored,     \* the settings in the storage
  page,       \* the options pages: Page
  events,     \* the storage's change events on their way to each page
  save,       \* the saves made so far, in the order of their messages: Save
  writer,     \* the save that wrote the storage last, or 0 (history)
  chose,      \* the switches as the user flipped them last (history)
  clientBase, \* clientCache.baseUrl
  call        \* the health checks: Call

pages == <<page, events>>
vars == <<stored, pages, save, writer, chose, clientBase, call>>

Switches == [autoOverlay : BOOLEAN, siteEnabled : [Sites -> BOOLEAN]]
Settings == [apiBase : Bases, autoOverlay : BOOLEAN, siteEnabled : [Sites -> BOOLEAN]]
DEFAULT_SETTINGS ==
  [apiBase |-> DEFAULT_API_BASE, autoOverlay |-> TRUE, siteEnabled |-> [site \in Sites |-> TRUE]]

\* A patch names some of the settings.
Patches ==
  [apiBase : Bases] \cup [autoOverlay : BOOLEAN] \cup [siteEnabled : [Sites -> BOOLEAN]]
  \cup [{} -> BOOLEAN]
NoPatch == [field \in {} |-> TRUE]

\* settings: the page's copy; shown: what its switches show; read: its SETTINGS_GET,
\* answered and on the way back.
Page ==
  [step : {"closed", "asking", "answering", "open"}, settings : Settings \cup {Null},
   read : Settings \cup {Null}, shown : Switches]

\* next: the merged settings; told: what the page heard of the save.
Save ==
  [step : {"sent", "storing", "landed", "answered", "refused", "done"},
   window : Windows \cup {Null}, patch : Patches, next : Settings \cup {Null},
   told : {"nothing", "saved", "refused"}]

\* base: the base read from the settings, and so that of the client used; named: the
\* base in the reply.
Call ==
  [step : {"new", "choosing", "requesting", "done"}, base : Bases \cup {Null},
   ok : BOOLEAN, named : Bases \cup {Null}]

-----------------------------------------------------------------------------
(* An options page *)

SwitchesOf(settings) ==
  [autoOverlay |-> settings.autoOverlay, siteEnabled |-> settings.siteEnabled]

\* A page's copy is replaced, and rendered.
Renders(w, settings) ==
  page' = [page EXCEPT ![w].settings = settings, ![w].shown = SwitchesOf(settings)]

\* The page opens: it listens for changes and asks for the settings.
Open(w) ==
  /\ page[w].step = "closed"
  /\ page' = [page EXCEPT ![w].step = "asking"]
  /\ UNCHANGED <<stored, events, save, writer, chose, clientBase, call>>

\* SETTINGS_GET is answered, by the settings or by an error.
GetSettings(w) ==
  /\ page[w].step = "asking"
  /\ \E read \in {stored, Null} :
       page' = [page EXCEPT ![w].step = "answering", ![w].read = read]
  /\ UNCHANGED <<stored, events, save, writer, chose, clientBase, call>>

\* The answer arrives; after an error the page goes on without settings.
SettingsArrive(w) ==
  /\ page[w].step = "answering"
  /\ LET read == page[w].read
         opened == [page[w] EXCEPT !.step = "open", !.read = Null]
     IN page' = [page EXCEPT ![w] =
          IF read = Null THEN opened
          ELSE [opened EXCEPT !.settings = read, !.shown = SwitchesOf(read)]]
  /\ UNCHANGED <<stored, events, save, writer, chose, clientBase, call>>

\* saveSettings(patch): the user's click shows at once, the message goes out.
Sends(w, patch, shown) ==
  /\ page[w].step # "closed"
  /\ Len(save) < MaxSaves
  /\ save' = Append(save, [step |-> "sent", window |-> w, patch |-> patch,
                           next |-> Null, told |-> "nothing"])
  /\ page' = [page EXCEPT ![w].shown = shown]
  /\ UNCHANGED <<stored, events, writer, clientBase, call>>

\* The switches of the sites are live while the overlay is on in the page's copy.
SitesLive(w) == page[w].settings # Null => page[w].settings.autoOverlay

\* onSiteToggle(): the patch holds all the sites, from the page's copy of them; what is
\* missing there counts as allowed.
ToggleSite(w, site) ==
  LET settings == page[w].settings
      checked == ~page[w].shown.siteEnabled[site]
      next == [t \in Sites |-> IF t = site THEN checked
                               ELSE settings = Null \/ settings.siteEnabled[t]]
  IN
  /\ SitesLive(w)
  /\ Sends(w, [siteEnabled |-> next], [page[w].shown EXCEPT !.siteEnabled[site] = checked])
  /\ chose' = [chose EXCEPT !.siteEnabled[site] = checked]

\* onSetAllSites()
SetAllSites(w, enabled) ==
  LET next == [site \in Sites |-> enabled] IN
  /\ SitesLive(w)
  /\ page[w].settings # Null => page[w].settings.siteEnabled # next
  /\ Sends(w, [siteEnabled |-> next], page[w].shown)
  /\ chose' = [chose EXCEPT !.siteEnabled = next]

\* onAutoOverlayToggle()
ToggleAutoOverlay(w) ==
  LET enabled == ~page[w].shown.autoOverlay IN
  /\ Sends(w, [autoOverlay |-> enabled], [page[w].shown EXCEPT !.autoOverlay = enabled])
  /\ chose' = [chose EXCEPT !.autoOverlay = enabled]

\* onSaveApiBase() once the base is valid and permitted, onPreset()
SaveApiBase(w, base) == Sends(w, [apiBase |-> base], page[w].shown) /\ UNCHANGED chose

\* What a change event hands to the page, of the settings before and after.
EventValueOld(old, new) == old      \* Mutant: oldValue for newValue.
EventValue(old, new) == new

\* storage.onChanged
Changed(w) ==
  /\ events[w] # <<>>
  /\ Renders(w, Head(events[w]))
  /\ events' = [events EXCEPT ![w] = Tail(@)]
  /\ UNCHANGED <<stored, save, writer, chose, clientBase, call>>

\* The reply of a save arrives, and is what the page holds and shows from then on.
Saved(s) ==
  LET w == save[s].window IN
  /\ save[s].step = "answered"
  /\ \A earlier \in 1..(s - 1) : save[earlier].window = w => save[earlier].step # "answered"
  /\ w # Null => page[w].step = "open"
  /\ IF w = Null THEN UNCHANGED page ELSE Renders(w, save[s].next)
  /\ save' = [save EXCEPT ![s].step = "done", ![s].told = "saved"]
  /\ UNCHANGED <<stored, events, writer, chose, clientBase, call>>

\* Mutant: a refused save leaves the screen as the click made it.
RefusedUnrendered(s) ==
  /\ save[s].step = "refused"
  /\ save' = [save EXCEPT ![s].step = "done", ![s].told = "refused"]
  /\ UNCHANGED <<stored, pages, writer, chose, clientBase, call>>

\* A save was refused: the page goes back to what its copy says.
Refused(s) ==
  LET w == save[s].window IN
  /\ save[s].step = "refused"
  /\ IF w = Null \/ page[w].settings = Null THEN UNCHANGED page
     ELSE Renders(w, page[w].settings)
  /\ save' = [save EXCEPT ![s].step = "done", ![s].told = "refused"]
  /\ UNCHANGED <<stored, events, writer, chose, clientBase, call>>

-----------------------------------------------------------------------------
(* The service worker: writeSettings() *)

\* mergeSettings() of the settings with a patch
Merged(settings, patch) ==
  [field \in DOMAIN settings |->
     IF field \in DOMAIN patch THEN patch[field] ELSE settings[field]]

\* It is the turn of save s to leave `step`.
Turn(s, step) ==
  save[s].step = step /\ \A earlier \in 1..(s - 1) : save[earlier].step # step

\* The settings are read, ...
ReadSettings(s) ==
  /\ Turn(s, "sent")
  /\ save[s].window # Null => page[save[s].window].step # "asking"
  /\ save' = [save EXCEPT ![s].step = "storing", ![s].next = Merged(stored, save[s].patch)]
  /\ UNCHANGED <<stored, pages, writer, chose, clientBase, call>>

\* ... and overwritten by what was made of them.  Only a change makes an event.
StoreSettings(s) ==
  LET next == save[s].next IN
  /\ Turn(s, "storing")
  /\ stored' = next
  /\ events' = [w \in Windows |->
       IF next # stored /\ page[w].step # "closed"
       THEN Append(events[w], EventValue(stored, next)) ELSE events[w]]
  /\ save' = [save EXCEPT ![s].step = "landed"]
  /\ writer' = s
  /\ UNCHANGED <<page, chose, clientBase, call>>

\* The handler goes on after the write: the client goes, the reply is sent.
SettingsSet(s) ==
  /\ Turn(s, "landed")
  /\ clientBase' = Null
  /\ save' = [save EXCEPT ![s].step = "answered"]
  /\ UNCHANGED <<stored, pages, writer, chose, call>>

\* Mutant: a save that found the storage unwilling is tried anew, each time.
SaveRetried(s) ==
  /\ Turn(s, "sent") \/ Turn(s, "storing")
  /\ save' = [save EXCEPT ![s].step = "sent"]
  /\ UNCHANGED <<stored, pages, writer, chose, clientBase, call>>

\* The storage rejects the read or the write, and the router replies with the error.
SaveFails(s) ==
  /\ Turn(s, "sent") \/ Turn(s, "storing")
  /\ save' = [save EXCEPT ![s].step = "refused"]
  /\ UNCHANGED <<stored, pages, writer, chose, clientBase, call>>

\* onInstalled writes the defaults out, or what is there.
Installed ==
  /\ Len(save) < MaxSaves
  /\ save' = Append(save, [step |-> "sent", window |-> Null, patch |-> NoPatch,
                           next |-> Null, told |-> "nothing"])
  /\ UNCHANGED <<stored, pages, writer, chose, clientBase, call>>

-----------------------------------------------------------------------------
(* The service worker: getClient() and checkHealth() *)

\* The settings are read, ...
CheckHealth(c) ==
  /\ call[c].step = "new"
  /\ call' = [call EXCEPT ![c].step = "choosing", ![c].base = stored.apiBase]
  /\ UNCHANGED <<stored, pages, save, writer, chose, clientBase>>

\* ... and the client of their base, the one at hand or a new one, is used and kept.
GetClient(c) ==
  /\ call[c].step = "choosing"
  /\ clientBase' = call[c].base
  /\ call' = [call EXCEPT ![c].step = "requesting"]
  /\ UNCHANGED <<stored, pages, save, writer, chose>>

\* A success names the base of the client, ...
Healthy(c) ==
  /\ call[c].step = "requesting"
  /\ call' = [call EXCEPT ![c].step = "done", ![c].ok = TRUE, ![c].named = call[c].base]
  /\ UNCHANGED <<stored, pages, save, writer, chose, clientBase>>

\* ... a failure that of the client at hand by then.
Unhealthy(c) ==
  /\ call[c].step = "requesting"
  /\ call' = [call EXCEPT ![c].step = "done", ![c].named = clientBase]
  /\ UNCHANGED <<stored, pages, save, writer, chose, clientBase>>

\* The browser ends the worker: the client goes, and what was under way is refused.
Teardown ==
  /\ clientBase' = Null
  /\ save' = [s \in DOMAIN save |->
       IF save[s].step \in {"storing", "landed"}
       THEN [save[s] EXCEPT !.step = "refused"] ELSE save[s]]
  /\ call' = [c \in Calls |->
       IF call[c].step = "new" THEN call[c]
       ELSE [call[c] EXCEPT !.step = "done"]]
  /\ UNCHANGED <<stored, pages, writer, chose>>

-----------------------------------------------------------------------------
\* The switches of the page before it has settings: unchecked, as in options.html.
Unchecked == [autoOverlay |-> FALSE, siteEnabled |-> [site \in Sites |-> FALSE]]

Init ==
  /\ stored = DEFAULT_SETTINGS
  /\ page = [w \in Windows |->
       [step |-> "closed", settings |-> Null, read |-> Null, shown |-> Unchecked]]
  /\ events = [w \in Windows |-> <<>>]
  /\ save = <<>> /\ writer = 0
  /\ chose = SwitchesOf(stored)
  /\ clientBase = Null
  /\ call = [c \in Calls |-> [step |-> "new", base |-> Null, ok |-> FALSE, named |-> Null]]

UserActs(w) ==
  \/ Open(w)
  \/ \E site \in Sites : ToggleSite(w, site)
  \/ \E enabled \in BOOLEAN : SetAllSites(w, enabled)
  \/ ToggleAutoOverlay(w)
  \/ \E base \in Bases : SaveApiBase(w, base)

PageProceeds(w) == GetSettings(w) \/ SettingsArrive(w) \/ Changed(w)

SaveProceeds(s) ==
  \/ ReadSettings(s) \/ StoreSettings(s) \/ SettingsSet(s) \/ SaveFails(s)
  \/ Saved(s) \/ Refused(s)

Next ==
  \/ \E w \in Windows : UserActs(w) \/ PageProceeds(w)
  \/ \E s \in DOMAIN save : SaveProceeds(s)
  \/ Installed
  \/ \E c \in Calls : CheckHealth(c) \/ GetClient(c) \/ Healthy(c) \/ Unhealthy(c)
  \/ Teardown

\* Messages, events and storage calls end.
Fairness ==
  /\ \A w \in Windows : WF_vars(PageProceeds(w))
  /\ \A s \in 1..MaxSaves : WF_vars(s \in DOMAIN save /\ SaveProceeds(s))

Spec == Init /\ [][Next]_vars /\ Fairness

-----------------------------------------------------------------------------
(* Properties *)

SettingsTypeOK ==
  /\ stored \in Settings
  /\ page \in [Windows -> Page]
  /\ \A w \in Windows : events[w] \in Seq(Settings)
  /\ save \in Seq(Save) /\ Len(save) <= MaxSaves
  /\ writer \in 0..Len(save)
  /\ chose \in Switches
  /\ clientBase \in Bases \cup {Null}
  /\ call \in [Calls -> Call]

\* No save is under way, and nothing is on its way to a page.
Quiet ==
  /\ \A s \in DOMAIN save : save[s].step = "done"
  /\ \A w \in Windows : events[w] = <<>> /\ page[w].step \in {"closed", "open"}

\* "On failure the screen is rolled back ... otherwise the toggle reads on while the
\* setting is actually off" (options.js): a page that awaits no save shows its copy
\* of the settings, however its saves, refusals and the events of others interleaved.
RolledBack ==
  \A w \in Windows :
    (\A s \in DOMAIN save : save[s].window = w => save[s].step = "done")
      => \/ page[w].settings = Null
         \/ page[w].shown = SwitchesOf(page[w].settings)

\* Settings are stored, sent and held whole, and no screen shows what was refused.
SettingsSound == SettingsTypeOK /\ RolledBack

\* The page whose save was stored last, and acknowledged, has in the end what is stored:
\* events and replies come on two ways, but both end with that save.
EditorSeesStored ==
  /\ Quiet /\ writer # 0
  /\ save[writer].told = "saved" /\ save[writer].window # Null
  => page[save[writer].window].settings = stored

\* Every click on a switch is answered, by the settings or by an error, also when the
\* storage fails or the worker ends.
EverySaveAnswered ==
  \A s \in 1..MaxSaves : (s \in DOMAIN save) ~> (s \in DOMAIN save /\ save[s].step = "done")

\* All the saves went well and are over.
AllSaved == Quiet /\ \A s \in DOMAIN save : save[s].told = "saved"

\* "A site switched off here is not read at all" (README of the extension), and with the
\* overlay off "nothing is drawn on any page and no address is sent anywhere"
\* (options.html): once all is saved, the switches are as the user flipped them last.
ChoicesKept == AllSaved => SwitchesOf(stored) = chose

\* "Which address is down has to show" (popup.js), and the reply lacks it only if the
\* check "threw before the client was built": a failed check names the base it asked.
HealthNamesItsBase ==
  \A c \in Calls : call[c].step = "done" /\ call[c].named # Null => call[c].named = call[c].base
=============================================================================
