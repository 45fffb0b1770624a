-------------------------- MODULE TagSettingsProofs --------------------------
(***************************************************************************)
(* The settings with any number of options pages, sites, bases and saves:  *)
(* they are stored and held whole, a page that awaits nothing shows what   *)
(* it holds, and the page whose save is stored has what is stored.         *)
(*                                                                         *)
(* What orders all this is that the saves pass through the worker one      *)
(* behind the other, and that the last change event of a page is always    *)
(* the one of the settings that are stored.                                *)
(***************************************************************************)
EXTENDS TagSettings, SequenceTheorems, TLAPS

WorkerInv ==
  /\ stored \in Settings /\ chose \in Switches
  /\ clientBase \in Bases \cup {Null} /\ call \in [Calls -> Call]

PageInv == page \in [Windows -> Page]

EventsInv ==
  /\ events \in [Windows -> Seq(Settings)]
  /\ \A w \in Windows : page[w].step = "closed" => events[w] = <<>>

\* A save: what was read and merged is there until the page has its reply, and the reply is
\* what ends it.
SaveOK(save_s) ==
  /\ save_s \in Save
  /\ save_s.step \in {"storing", "landed", "answered"} => save_s.next \in Settings
  /\ save_s.step = "done" <=> save_s.told # "nothing"

SavesInv ==
  /\ save \in Seq(Save) /\ Len(save) <= MaxSaves
  /\ \A s \in DOMAIN save : SaveOK(save[s])

-----------------------------------------------------------------------------
(* Settings and patches *)

LEMMA SettingsParts ==
  /\ Null \notin Settings
  /\ \A settings \in Settings :
       /\ settings.apiBase \in Bases /\ settings.autoOverlay \in BOOLEAN
       /\ settings.siteEnabled \in [Sites -> BOOLEAN]
       /\ SwitchesOf(settings) \in Switches
  /\ DEFAULT_SETTINGS \in Settings /\ Unchecked \in Switches
  BY SettingsAssumption, NullAssumption
  DEF Settings, SwitchesOf, Switches, DEFAULT_SETTINGS, Unchecked

LEMMA PatchKinds ==
  /\ \A base \in Bases : [apiBase |-> base] \in Patches
  /\ \A on \in BOOLEAN : [autoOverlay |-> on] \in Patches
  /\ \A f \in [Sites -> BOOLEAN] : [siteEnabled |-> f] \in Patches
  /\ NoPatch \in Patches
  BY DEF Patches, NoPatch

\* The settings stay whole when a patch is merged into them.
LEMMA MergedWhole ==
  ASSUME NEW settings \in Settings, NEW patch \in Patches
  PROVE  Merged(settings, patch) \in Settings
<1> DEFINE m == Merged(settings, patch)
<1>1. /\ DOMAIN settings = {"apiBase", "autoOverlay", "siteEnabled"}
      /\ settings["apiBase"] \in Bases /\ settings["autoOverlay"] \in BOOLEAN
      /\ settings["siteEnabled"] \in [Sites -> BOOLEAN]
  BY DEF Settings
<1>2. \/ DOMAIN patch = {"apiBase"} /\ patch["apiBase"] \in Bases
      \/ DOMAIN patch = {"autoOverlay"} /\ patch["autoOverlay"] \in BOOLEAN
      \/ DOMAIN patch = {"siteEnabled"} /\ patch["siteEnabled"] \in [Sites -> BOOLEAN]
      \/ DOMAIN patch = {}
  BY DEF Patches
<1>3. /\ DOMAIN m = {"apiBase", "autoOverlay", "siteEnabled"}
      /\ m["apiBase"] \in Bases /\ m["autoOverlay"] \in BOOLEAN
      /\ m["siteEnabled"] \in [Sites -> BOOLEAN]
  BY <1>1, <1>2 DEF Merged
<1>4. m = [field \in {"apiBase", "autoOverlay", "siteEnabled"} |-> m[field]]
  BY <1>1 DEF Merged
<1>5. QED
  BY <1>3, <1>4 DEF Settings

-----------------------------------------------------------------------------
(* How a step changes the saves *)

\* One save moves on, in its place.
SaveBecomes(s, r) ==
  /\ Len(save') = Len(save) /\ DOMAIN save' = DOMAIN save
  /\ \A t \in DOMAIN save : save'[t] = IF t = s THEN r ELSE save[t]

LEMMA SaveMoves ==
  ASSUME SavesInv, NEW s \in DOMAIN save, NEW r, SaveOK(r), save' = [save EXCEPT ![s] = r]
  PROVE  SavesInv' /\ SaveBecomes(s, r)
<1>1. r \in Save /\ save \in Seq(Save) /\ Len(save) <= MaxSaves
  BY DEF SaveOK, SavesInv
<1>2. save' \in Seq(Save) /\ Len(save') = Len(save) /\ DOMAIN save' = DOMAIN save
  BY <1>1
<1>3. \A t \in DOMAIN save : save'[t] = IF t = s THEN r ELSE save[t]
  BY <1>1
<1>4. \A t \in DOMAIN save' : SaveOK(save'[t])
  BY <1>2, <1>3 DEF SavesInv
<1>5. QED
  BY <1>1, <1>2, <1>3, <1>4 DEF SavesInv, SaveBecomes

\* A save is sent, by a page or by the installation.
SaveBegins(r) ==
  /\ Len(save) < MaxSaves
  /\ Len(save') = Len(save) + 1 /\ DOMAIN save' = DOMAIN save \cup {Len(save) + 1}
  /\ \A t \in DOMAIN save' : save'[t] = IF t \in DOMAIN save THEN save[t] ELSE r

NewSave(w, patch) ==
  [step |-> "sent", window |-> w, patch |-> patch, next |-> Null, told |-> "nothing"]

LEMMA SaveSent ==
  ASSUME SavesInv, NEW w \in Windows \cup {Null}, NEW patch \in Patches,
         Len(save) < MaxSaves, save' = Append(save, NewSave(w, patch))
  PROVE  SavesInv' /\ SaveBegins(NewSave(w, patch))
<1>1. PICK r : r = NewSave(w, patch)
  OBVIOUS
<1>2. SaveOK(r)
  BY <1>1 DEF NewSave, SaveOK, Save
<1>3. r \in Save /\ save \in Seq(Save) /\ MaxSaves \in Nat
  BY <1>2, SettingsAssumption DEF SaveOK, SavesInv
<1>4. /\ save' \in Seq(Save) /\ Len(save') = Len(save) + 1
      /\ DOMAIN save' = DOMAIN save \cup {Len(save) + 1}
      /\ \A t \in DOMAIN save' : save'[t] = IF t \in DOMAIN save THEN save[t] ELSE r
  BY <1>1, <1>3
<1>5. \A t \in DOMAIN save' : SaveOK(save'[t])
  BY <1>2, <1>4 DEF SavesInv
<1>6. QED
  BY <1>1, <1>3, <1>4, <1>5 DEF SavesInv, SaveBegins

\* The worker ends.
SavesEnd ==
  /\ Len(save') = Len(save) /\ DOMAIN save' = DOMAIN save
  /\ \A t \in DOMAIN save :
       save'[t] = IF save[t].step \in {"storing", "landed"}
                  THEN [save[t] EXCEPT !.step = "refused"] ELSE save[t]

LEMMA TeardownSaves == SavesInv /\ Teardown => SavesInv' /\ SavesEnd
<1> SUFFICES ASSUME SavesInv, Teardown PROVE SavesInv' /\ SavesEnd
  OBVIOUS
<1>1. save \in Seq(Save) /\ DOMAIN save = 1..Len(save) /\ Len(save) \in Nat
  BY DEF SavesInv
<1>2. /\ DOMAIN save' = 1..Len(save)
      /\ \A t \in DOMAIN save :
           save'[t] = IF save[t].step \in {"storing", "landed"}
                      THEN [save[t] EXCEPT !.step = "refused"] ELSE save[t]
  BY <1>1 DEF Teardown
<1>3. \A t \in DOMAIN save : SaveOK(save'[t])
  <2> SUFFICES ASSUME NEW t \in DOMAIN save PROVE SaveOK(save'[t])
    OBVIOUS
  <2>1. SaveOK(save[t])
    BY DEF SavesInv
  <2>2. save[t].step \in {"storing", "landed"} => SaveOK([save[t] EXCEPT !.step = "refused"])
    BY <2>1 DEF SaveOK, Save
  <2>3. QED
    BY <1>2, <2>1, <2>2
<1>4. save' \in [1..Len(save) -> Save]
  <2>1. save' = [t \in 1..Len(save) |-> save'[t]]
    BY <1>1 DEF Teardown
  <2>2. QED
    BY <1>1, <1>3, <2>1 DEF SaveOK
<1>5. save' \in Seq(Save) /\ Len(save') = Len(save)
  BY <1>1, <1>4, SeqDef
<1>6. QED
  BY <1>1, <1>2, <1>3, <1>5 DEF SavesInv, SavesEnd

\* The other steps of a save, each with what the save is afterwards.
Transition(before, after) ==
  /\ after.window = before.window
  /\ before.step # "sent" => after.next = before.next
  /\ \/ before.step = "sent" /\ after.step \in {"storing", "refused"}
     \/ before.step = "storing" /\ after.step \in {"landed", "refused"}
     \/ before.step = "landed" /\ after.step = "answered"
     \/ before.step = "answered" /\ after.step = "done" /\ after.told = "saved"
     \/ before.step = "refused" /\ after.step = "done" /\ after.told = "refused"

LEMMA SaveProceedsShape ==
  ASSUME SavesInv, WorkerInv, NEW s \in DOMAIN save, SaveProceeds(s)
  PROVE  /\ SavesInv'
         /\ \E r : SaveOK(r) /\ SaveBecomes(s, r) /\ Transition(save[s], r)
<1> DEFINE Goal == /\ SavesInv'
                   /\ \E r : SaveOK(r) /\ SaveBecomes(s, r) /\ Transition(save[s], r)
<1>0. SaveOK(save[s])
  BY DEF SavesInv
<1>1. CASE ReadSettings(s)
  <2>1. PICK next : next = Merged(stored, save[s].patch)
    OBVIOUS
  <2>2. next \in Settings
    BY <1>0, <2>1, MergedWhole DEF SaveOK, Save, WorkerInv
  <2>3. PICK r : r = [save[s] EXCEPT !.step = "storing", !.next = next]
    OBVIOUS
  <2>4. SaveOK(r) /\ Transition(save[s], r)
    BY <1>0, <1>1, <2>2, <2>3 DEF ReadSettings, Turn, SaveOK, Save, Transition
  <2>5. save' = [save EXCEPT ![s] = r]
    BY <1>1, <2>1, <2>3 DEF ReadSettings
  <2>6. QED
    BY <2>4, <2>5, SaveMoves
<1>2. CASE StoreSettings(s)
  <2>1. PICK r : r = [save[s] EXCEPT !.step = "landed"]
    OBVIOUS
  <2>2. SaveOK(r) /\ Transition(save[s], r)
    BY <1>0, <1>2, <2>1 DEF StoreSettings, Turn, SaveOK, Save, Transition
  <2>3. save' = [save EXCEPT ![s] = r]
    BY <1>2, <2>1 DEF StoreSettings
  <2>4. QED
    BY <2>2, <2>3, SaveMoves
<1>3. CASE SettingsSet(s)
  <2>1. PICK r : r = [save[s] EXCEPT !.step = "answered"]
    OBVIOUS
  <2>2. SaveOK(r) /\ Transition(save[s], r)
    BY <1>0, <1>3, <2>1 DEF SettingsSet, Turn, SaveOK, Save, Transition
  <2>3. save' = [save EXCEPT ![s] = r]
    BY <1>3, <2>1 DEF SettingsSet
  <2>4. QED
    BY <2>2, <2>3, SaveMoves
<1>4. CASE SaveFails(s)
  <2>1. PICK r : r = [save[s] EXCEPT !.step = "refused"]
    OBVIOUS
  <2>2. SaveOK(r) /\ Transition(save[s], r)
    BY <1>0, <1>4, <2>1 DEF SaveFails, Turn, SaveOK, Save, Transition
  <2>3. save' = [save EXCEPT ![s] = r]
    BY <1>4, <2>1 DEF SaveFails
  <2>4. QED
    BY <2>2, <2>3, SaveMoves
<1>5. CASE Saved(s)
  <2>1. PICK r : r = [save[s] EXCEPT !.step = "done", !.told = "saved"]
    OBVIOUS
  <2>2. SaveOK(r) /\ Transition(save[s], r)
    BY <1>0, <1>5, <2>1 DEF Saved, SaveOK, Save, Transition
  <2>3. save' = [save EXCEPT ![s] = r]
    BY <1>5, <2>1 DEF Saved
  <2>4. QED
    BY <2>2, <2>3, SaveMoves
<1>6. CASE Refused(s)
  <2>1. PICK r : r = [save[s] EXCEPT !.step = "done", !.told = "refused"]
    OBVIOUS
  <2>2. SaveOK(r) /\ Transition(save[s], r)
    BY <1>0, <1>6, <2>1 DEF Refused, SaveOK, Save, Transition
  <2>3. save' = [save EXCEPT ![s] = r]
    BY <1>6, <2>1 DEF Refused
  <2>4. QED
    BY <2>2, <2>3, SaveMoves
<1>7. QED
  BY <1>1, <1>2, <1>3, <1>4, <1>5, <1>6 DEF SaveProceeds

\* What a click sends: the page shows it at once, and waits for the reply.
ClickSends(w) ==
  \E patch \in Patches, shown \in Switches : Sends(w, patch, shown)

LEMMA ClicksSend ==
  ASSUME WorkerInv, PageInv, NEW w \in Windows, UserActs(w), ~Open(w)
  PROVE  ClickSends(w) /\ chose' \in Switches
<1>0. /\ page[w].settings \in Settings \cup {Null} /\ page[w].shown \in Switches
      /\ chose \in Switches
  BY DEF PageInv, Page, WorkerInv
<1>1. ASSUME NEW site \in Sites, ToggleSite(w, site)
      PROVE  ClickSends(w) /\ chose' \in Switches
  <2>1. PICK checked : checked = ~page[w].shown.siteEnabled[site]
    OBVIOUS
  <2>2. checked \in BOOLEAN
    BY <1>0, <2>1 DEF Switches
  <2>3. PICK next : next = [t \in Sites |-> IF t = site THEN checked ELSE
                page[w].settings = Null \/ page[w].settings.siteEnabled[t]]
    OBVIOUS
  <2>4. next \in [Sites -> BOOLEAN]
    <3>1. \A t \in Sites : (page[w].settings = Null \/ page[w].settings.siteEnabled[t]) \in BOOLEAN
      OBVIOUS
    <3>2. QED
      BY <2>2, <2>3, <3>1
  <2>5. [siteEnabled |-> next] \in Patches
    BY <2>4, PatchKinds
  <2>6. /\ [page[w].shown EXCEPT !.siteEnabled[site] = checked] \in Switches
        /\ [chose EXCEPT !.siteEnabled[site] = checked] \in Switches
    BY <1>0, <2>2 DEF Switches
  <2>7. /\ Sends(w, [siteEnabled |-> next], [page[w].shown EXCEPT !.siteEnabled[site] = checked])
        /\ chose' = [chose EXCEPT !.siteEnabled[site] = checked]
    BY <1>1, <2>1, <2>3 DEF ToggleSite
  <2>8. QED
    BY <2>5, <2>6, <2>7 DEF ClickSends
<1>2. ASSUME NEW enabled \in BOOLEAN, SetAllSites(w, enabled)
      PROVE  ClickSends(w) /\ chose' \in Switches
  <2>1. PICK next : next = [site \in Sites |-> enabled]
    OBVIOUS
  <2>2. next \in [Sites -> BOOLEAN]
    BY <2>1
  <2>3. [chose EXCEPT !.siteEnabled = next] \in Switches
    BY <1>0, <2>2 DEF Switches
  <2>4. /\ Sends(w, [siteEnabled |-> next], page[w].shown)
        /\ chose' = [chose EXCEPT !.siteEnabled = next]
    BY <1>2, <2>1 DEF SetAllSites
  <2>5. QED
    BY <1>0, <2>2, <2>3, <2>4, PatchKinds DEF ClickSends
<1>3. ASSUME ToggleAutoOverlay(w) PROVE ClickSends(w) /\ chose' \in Switches
  <2>1. PICK enabled : enabled = ~page[w].shown.autoOverlay
    OBVIOUS
  <2>2. enabled \in BOOLEAN
    BY <2>1
  <2>3. /\ [page[w].shown EXCEPT !.autoOverlay = enabled] \in Switches
        /\ [chose EXCEPT !.autoOverlay = enabled] \in Switches
    BY <1>0, <2>2 DEF Switches
  <2>4. /\ Sends(w, [autoOverlay |-> enabled], [page[w].shown EXCEPT !.autoOverlay = enabled])
        /\ chose' = [chose EXCEPT !.autoOverlay = enabled]
    BY <1>3, <2>1 DEF ToggleAutoOverlay
  <2>5. QED
    BY <2>2, <2>3, <2>4, PatchKinds DEF ClickSends
<1>4. ASSUME NEW base \in Bases, SaveApiBase(w, base)
      PROVE  ClickSends(w) /\ chose' \in Switches
  BY <1>0, <1>4, PatchKinds DEF SaveApiBase, ClickSends
<1>5. QED
  BY <1>1, <1>2, <1>3, <1>4 DEF UserActs

-----------------------------------------------------------------------------
(* The types *)

LEMMA SavesStep == WorkerInv /\ PageInv /\ SavesInv /\ [Next]_vars => SavesInv'
<1> SUFFICES ASSUME WorkerInv, PageInv, SavesInv, [Next]_vars PROVE SavesInv'
  OBVIOUS
<1>1. ASSUME NEW s \in DOMAIN save, SaveProceeds(s) PROVE SavesInv'
  BY <1>1, SaveProceedsShape
<1>2. ASSUME NEW w \in Windows, UserActs(w), ~Open(w) PROVE SavesInv'
  <2>1. PICK patch \in Patches, shown \in Switches : Sends(w, patch, shown)
    BY <1>2, ClicksSend DEF ClickSends
  <2>2. QED
    BY <2>1, SaveSent DEF Sends, NewSave
<1>3. CASE Installed
  BY <1>3, SaveSent, PatchKinds DEF Installed, NewSave
<1>4. CASE Teardown
  BY <1>4, TeardownSaves
<1>5. ASSUME UNCHANGED save PROVE SavesInv'
  BY <1>5 DEF SavesInv
<1>6. CASE \E w \in Windows : Open(w) \/ PageProceeds(w)
  BY <1>5, <1>6 DEF Open, PageProceeds, GetSettings, SettingsArrive, Changed
<1>7. CASE \E c \in Calls : CheckHealth(c) \/ GetClient(c) \/ Healthy(c) \/ Unhealthy(c)
  BY <1>5, <1>7 DEF CheckHealth, GetClient, Healthy, Unhealthy
<1>8. CASE UNCHANGED vars
  BY <1>5, <1>8 DEF vars
<1>9. QED
  BY <1>1, <1>2, <1>3, <1>4, <1>6, <1>7, <1>8 DEF Next

LEMMA CallsStep ==
  WorkerInv /\ [Next]_vars => call' \in [Calls -> Call] /\ clientBase' \in Bases \cup {Null}
<1> DEFINE Goal == call' \in [Calls -> Call] /\ clientBase' \in Bases \cup {Null}
<1> SUFFICES ASSUME WorkerInv, [Next]_vars PROVE Goal
  OBVIOUS
<1>0. /\ call \in [Calls -> Call] /\ clientBase \in Bases \cup {Null}
      /\ stored.apiBase \in Bases
  BY SettingsParts DEF WorkerInv
<1>1. ASSUME NEW c \in Calls, CheckHealth(c) \/ GetClient(c) \/ Healthy(c) \/ Unhealthy(c)
      PROVE  Goal
  <2>0. call[c].base \in Bases \cup {Null}
    BY <1>0 DEF Call
  <2>1. CASE CheckHealth(c)
    BY <1>0, <2>1 DEF CheckHealth, Call
  <2>2. CASE GetClient(c)
    BY <1>0, <2>0, <2>2 DEF GetClient, Call
  <2>3. CASE Healthy(c)
    <3>1. PICK r : r = [call[c] EXCEPT !.step = "done", !.ok = TRUE, !.named = call[c].base]
      OBVIOUS
    <3>2. r \in Call
      BY <1>0, <2>0, <3>1 DEF Call
    <3>3. call' = [call EXCEPT ![c] = r] /\ UNCHANGED clientBase
      BY <2>3, <3>1 DEF Healthy
    <3>4. QED
      BY <1>0, <3>2, <3>3
  <2>4. CASE Unhealthy(c)
    BY <1>0, <2>4 DEF Unhealthy, Call
  <2>5. QED
    BY <1>1, <2>1, <2>2, <2>3, <2>4
<1>2. CASE Teardown
  BY <1>0, <1>2 DEF Teardown, Call
<1>3. ASSUME NEW s \in DOMAIN save, SaveProceeds(s) PROVE Goal
  BY <1>0, <1>3
  DEF SaveProceeds, ReadSettings, StoreSettings, SettingsSet, SaveFails, Saved, Refused
<1>4. ASSUME UNCHANGED <<call, clientBase>> PROVE Goal
  BY <1>0, <1>4
<1>5. CASE \E w \in Windows : UserActs(w) \/ PageProceeds(w)
  BY <1>4, <1>5 DEF UserActs, PageProceeds, Open, ToggleSite, SetAllSites, ToggleAutoOverlay,
    SaveApiBase, Sends, GetSettings, SettingsArrive, Changed
<1>6. CASE Installed \/ UNCHANGED vars
  BY <1>4, <1>6 DEF Installed, vars
<1>7. QED
  BY <1>1, <1>2, <1>3, <1>5, <1>6 DEF Next

LEMMA WorkerStep ==
  WorkerInv /\ PageInv /\ SavesInv /\ [Next]_vars => WorkerInv'
<1> SUFFICES ASSUME WorkerInv, PageInv, SavesInv, [Next]_vars PROVE WorkerInv'
  OBVIOUS
<1>1. stored' \in Settings
  <2>1. ASSUME NEW s \in DOMAIN save, SaveProceeds(s) PROVE stored' \in Settings
    <3>1. CASE StoreSettings(s)
      BY <3>1 DEF StoreSettings, Turn, SavesInv, SaveOK
    <3>2. CASE ~StoreSettings(s)
      BY <2>1, <3>2 DEF SaveProceeds, ReadSettings, SettingsSet, SaveFails, Saved, Refused,
        WorkerInv
    <3>3. QED
      BY <3>1, <3>2
  <2>2. CASE \E w \in Windows : UserActs(w) \/ PageProceeds(w)
    BY <2>2 DEF UserActs, PageProceeds, Open, ToggleSite, SetAllSites, ToggleAutoOverlay,
      SaveApiBase, Sends, GetSettings, SettingsArrive, Changed, WorkerInv
  <2>3. CASE \E c \in Calls : CheckHealth(c) \/ GetClient(c) \/ Healthy(c) \/ Unhealthy(c)
    BY <2>3 DEF CheckHealth, GetClient, Healthy, Unhealthy, WorkerInv
  <2>4. CASE Installed \/ Teardown \/ UNCHANGED vars
    BY <2>4 DEF Installed, Teardown, vars, WorkerInv
  <2>5. QED
    BY <2>1, <2>2, <2>3, <2>4 DEF Next
<1>2. chose' \in Switches
  <2>1. ASSUME NEW w \in Windows, UserActs(w), ~Open(w) PROVE chose' \in Switches
    BY <2>1, ClicksSend
  <2>2. CASE \E w \in Windows : Open(w) \/ PageProceeds(w)
    BY <2>2 DEF Open, PageProceeds, GetSettings, SettingsArrive, Changed, WorkerInv
  <2>3. CASE \E c \in Calls : CheckHealth(c) \/ GetClient(c) \/ Healthy(c) \/ Unhealthy(c)
    BY <2>3 DEF CheckHealth, GetClient, Healthy, Unhealthy, WorkerInv
  <2>4. CASE \E s \in DOMAIN save : SaveProceeds(s)
    BY <2>4 DEF SaveProceeds, ReadSettings, StoreSettings, SettingsSet, SaveFails, Saved,
      Refused, WorkerInv
  <2>5. CASE Installed \/ Teardown \/ UNCHANGED vars
    BY <2>5 DEF Installed, Teardown, vars, WorkerInv
  <2>6. QED
    BY <2>1, <2>2, <2>3, <2>4, <2>5 DEF Next
<1>3. QED
  BY <1>1, <1>2, CallsStep DEF WorkerInv

\* What a step does to the pages: a page is replaced by another that is not closed.
PageBecomes(w, p) ==
  /\ p \in Page /\ p.step # "closed"
  /\ page' = [page EXCEPT ![w] = p]

RenderedPage(w, settings) ==
  [page[w] EXCEPT !.settings = settings, !.shown = SwitchesOf(settings)]

LEMMA RendersPage ==
  ASSUME PageInv, NEW w \in Windows, page[w].step # "closed", NEW settings \in Settings,
         Renders(w, settings)
  PROVE  PageBecomes(w, RenderedPage(w, settings))
<1>1. page[w] \in Page /\ SwitchesOf(settings) \in Switches
  BY SettingsParts DEF PageInv
<1>2. PICK shown : shown = SwitchesOf(settings)
  OBVIOUS
<1>3. [page[w] EXCEPT !.settings = settings, !.shown = shown] \in Page
  BY <1>1, <1>2 DEF Page
<1>4. [page[w] EXCEPT !.settings = settings, !.shown = shown].step = page[w].step
  BY <1>1 DEF Page
<1>5. page' = [page EXCEPT ![w] = [page[w] EXCEPT !.settings = settings, !.shown = shown]]
  BY <1>2 DEF Renders
<1>6. QED
  BY <1>2, <1>3, <1>4, <1>5 DEF PageBecomes, RenderedPage

\* Who hears of a change or of a save is not closed.
Listening ==
  /\ \A s \in DOMAIN save : save[s].window # Null => page[save[s].window].step # "closed"
  /\ \A s \in DOMAIN save : save[s].told = "saved" /\ save[s].window # Null
       => page[save[s].window].step = "open"

\* Every step leaves the pages as they are, or moves one of them.
LEMMA PageShape ==
  ASSUME WorkerInv, PageInv, EventsInv, SavesInv, Listening, [Next]_vars
  PROVE  page' = page \/ \E w \in Windows, p \in Page : PageBecomes(w, p)
<1> DEFINE Goal == page' = page \/ \E w \in Windows, p \in Page : PageBecomes(w, p)
<1>1. ASSUME NEW w \in Windows, UserActs(w) \/ PageProceeds(w) PROVE Goal
  <2>0. page[w] \in Page /\ stored \in Settings
    BY DEF PageInv, WorkerInv
  <2>1. CASE UserActs(w) /\ ~Open(w)
    <3>1. PICK shown \in Switches : page' = [page EXCEPT ![w].shown = shown]
                                    /\ page[w].step # "closed"
      BY <2>1, ClicksSend DEF ClickSends, Sends
    <3>2. PICK p : p = [page[w] EXCEPT !.shown = shown]
      OBVIOUS
    <3>3. p \in Page /\ p.step # "closed"
      BY <2>0, <3>1, <3>2 DEF Page
    <3>4. QED
      BY <3>1, <3>2, <3>3 DEF PageBecomes
  <2>2. CASE Open(w)
    <3>1. PICK p : p = [page[w] EXCEPT !.step = "asking"]
      OBVIOUS
    <3>2. p \in Page /\ p.step # "closed"
      BY <2>0, <3>1 DEF Page
    <3>3. QED
      BY <2>2, <3>1, <3>2 DEF Open, PageBecomes
  <2>3. CASE GetSettings(w)
    <3>1. PICK read \in {stored, Null} :
            page' = [page EXCEPT ![w].step = "answering", ![w].read = read]
      BY <2>3 DEF GetSettings
    <3>2. PICK p : p = [page[w] EXCEPT !.step = "answering", !.read = read]
      OBVIOUS
    <3>3. p \in Page /\ p.step # "closed"
      BY <2>0, <3>2 DEF Page
    <3>4. page' = [page EXCEPT ![w] = p]
      BY <3>1, <3>2
    <3>5. QED
      BY <3>3, <3>4 DEF PageBecomes
  <2>4. CASE SettingsArrive(w)
    <3>1. PICK opened : opened = [page[w] EXCEPT !.step = "open", !.read = Null]
      OBVIOUS
    <3>2. opened \in Page /\ opened.step = "open"
      BY <2>0, <3>1 DEF Page
    <3>3. PICK shown : shown = SwitchesOf(page[w].read)
      OBVIOUS
    <3>4. PICK p : p = IF page[w].read = Null THEN opened
                       ELSE [opened EXCEPT !.settings = page[w].read, !.shown = shown]
      OBVIOUS
    <3>5. p \in Page /\ p.step # "closed"
      <4>1. CASE page[w].read = Null
        BY <3>2, <3>4, <4>1
      <4>2. CASE page[w].read # Null
        <5>1. page[w].read \in Settings /\ shown \in Switches
          BY <2>0, <3>3, <4>2, SettingsParts DEF Page
        <5>2. QED
          BY <3>2, <3>4, <4>2, <5>1 DEF Page
      <4>3. QED
        BY <4>1, <4>2
    <3>6. page' = [page EXCEPT ![w] = p]
      BY <2>4, <3>1, <3>3, <3>4 DEF SettingsArrive
    <3>7. QED
      BY <3>5, <3>6 DEF PageBecomes
  <2>5. CASE Changed(w)
    <3>1. Head(events[w]) \in Settings /\ page[w].step # "closed"
      BY <2>5 DEF Changed, EventsInv
    <3>2. PageBecomes(w, RenderedPage(w, Head(events[w])))
      BY <2>5, <3>1, RendersPage DEF Changed
    <3>3. QED
      BY <3>2 DEF PageBecomes
  <2>6. QED
    BY <1>1, <2>1, <2>2, <2>3, <2>4, <2>5 DEF PageProceeds
<1>2. ASSUME NEW s \in DOMAIN save, SaveProceeds(s) PROVE Goal
  <2>0. SaveOK(save[s]) /\ save[s].window \in Windows \cup {Null}
    BY DEF SavesInv, SaveOK, Save
  <2>1. CASE Saved(s)
    <3>1. CASE save[s].window = Null
      BY <2>1, <3>1 DEF Saved
    <3>2. CASE save[s].window # Null
      <4>1. save[s].next \in Settings
        BY <2>0, <2>1 DEF Saved, SaveOK
      <4>2. /\ save[s].window \in Windows /\ page[save[s].window].step # "closed"
            /\ Renders(save[s].window, save[s].next)
        BY <2>0, <2>1, <3>2 DEF Saved
      <4>3. PageBecomes(save[s].window, RenderedPage(save[s].window, save[s].next))
        BY <4>1, <4>2, RendersPage
      <4>4. QED
        BY <4>2, <4>3 DEF PageBecomes
    <3>3. QED
      BY <3>1, <3>2
  <2>2. CASE Refused(s)
    <3>1. CASE save[s].window = Null \/ page[save[s].window].settings = Null
      BY <2>2, <3>1 DEF Refused
    <3>2. CASE save[s].window # Null /\ page[save[s].window].settings # Null
      <4>1. save[s].window \in Windows /\ page[save[s].window].settings \in Settings
        BY <2>0, <3>2 DEF PageInv, Page
      <4>2. /\ page[save[s].window].step # "closed"
            /\ Renders(save[s].window, page[save[s].window].settings)
        BY <2>2, <3>2 DEF Refused, Listening
      <4>3. PageBecomes(save[s].window,
              RenderedPage(save[s].window, page[save[s].window].settings))
        BY <4>1, <4>2, RendersPage
      <4>4. QED
        BY <4>1, <4>3 DEF PageBecomes
    <3>3. QED
      BY <3>1, <3>2
  <2>3. CASE ~Saved(s) /\ ~Refused(s)
    BY <1>2, <2>3 DEF SaveProceeds, ReadSettings, StoreSettings, SettingsSet, SaveFails, pages
  <2>4. QED
    BY <2>1, <2>2, <2>3
<1>3. CASE \E c \in Calls : CheckHealth(c) \/ GetClient(c) \/ Healthy(c) \/ Unhealthy(c)
  BY <1>3 DEF CheckHealth, GetClient, Healthy, Unhealthy, pages
<1>4. CASE Installed \/ Teardown \/ UNCHANGED vars
  BY <1>4 DEF Installed, Teardown, vars, pages
<1>5. QED
  BY <1>1, <1>2, <1>3, <1>4 DEF Next

LEMMA PageStep ==
  WorkerInv /\ PageInv /\ EventsInv /\ SavesInv /\ Listening /\ [Next]_vars => PageInv'
<1> SUFFICES ASSUME WorkerInv, PageInv, EventsInv, SavesInv, Listening, [Next]_vars
             PROVE  PageInv'
  OBVIOUS
<1>1. CASE page' = page
  BY <1>1 DEF PageInv
<1>2. CASE \E w \in Windows, p \in Page : PageBecomes(w, p)
  BY <1>2 DEF PageBecomes, PageInv
<1>3. QED
  BY <1>1, <1>2, PageShape

\* The steps that leave the saves alone, and those that leave the pages alone.
LEMMA PagesAlone ==
  \/ Installed \/ Teardown \/ UNCHANGED vars
  \/ \E c \in Calls : CheckHealth(c) \/ GetClient(c) \/ Healthy(c) \/ Unhealthy(c)
  => UNCHANGED pages
<1>1. CASE Installed \/ Teardown \/ UNCHANGED vars
  BY <1>1 DEF Installed, Teardown, vars
<1>2. CASE \E c \in Calls : CheckHealth(c) \/ GetClient(c) \/ Healthy(c) \/ Unhealthy(c)
  BY <1>2 DEF CheckHealth, GetClient, Healthy, Unhealthy
<1>3. QED
  BY <1>1, <1>2

\* Every save keeps its window, and its place.
LEMMA WindowsStay ==
  ASSUME WorkerInv, PageInv, SavesInv, [Next]_vars
  PROVE  /\ \A s \in DOMAIN save : s \in DOMAIN save' /\ save'[s].window = save[s].window
         /\ \A s \in DOMAIN save' \ DOMAIN save :
              /\ save'[s].step = "sent" /\ save'[s].told = "nothing"
              /\ save'[s].window # Null =>
                   page[save'[s].window].step # "closed" /\ UserActs(save'[s].window)
<1> DEFINE Goal ==
      /\ \A s \in DOMAIN save : s \in DOMAIN save' /\ save'[s].window = save[s].window
      /\ \A s \in DOMAIN save' \ DOMAIN save :
           /\ save'[s].step = "sent" /\ save'[s].told = "nothing"
           /\ save'[s].window # Null =>
                page[save'[s].window].step # "closed" /\ UserActs(save'[s].window)
<1>1. ASSUME NEW s \in DOMAIN save, SaveProceeds(s) PROVE Goal
  BY <1>1, SaveProceedsShape DEF SaveBecomes, Transition
<1>2. ASSUME NEW w \in Windows, UserActs(w), ~Open(w) PROVE Goal
  <2>1. PICK patch \in Patches, shown \in Switches : Sends(w, patch, shown)
    BY <1>2, ClicksSend DEF ClickSends
  <2>2. SaveBegins(NewSave(w, patch)) /\ page[w].step # "closed"
    BY <2>1, SaveSent DEF Sends, NewSave
  <2>3. QED
    BY <1>2, <2>2 DEF SaveBegins, NewSave
<1>3. CASE Installed
  <2>1. SaveBegins(NewSave(Null, NoPatch))
    BY <1>3, SaveSent, PatchKinds DEF Installed, NewSave
  <2>2. QED
    BY <2>1 DEF SaveBegins, NewSave
<1>4. CASE Teardown
  <2>1. SavesEnd
    BY <1>4, TeardownSaves
  <2>2. \A s \in DOMAIN save : [save[s] EXCEPT !.step = "refused"].window = save[s].window
    BY DEF SavesInv, SaveOK, Save
  <2>3. QED
    BY <2>1, <2>2 DEF SavesEnd
<1>5. ASSUME UNCHANGED save PROVE Goal
  BY <1>5
<1>6. CASE \E w \in Windows : Open(w) \/ PageProceeds(w)
  BY <1>5, <1>6 DEF Open, PageProceeds, GetSettings, SettingsArrive, Changed
<1>7. CASE \E c \in Calls : CheckHealth(c) \/ GetClient(c) \/ Healthy(c) \/ Unhealthy(c)
  BY <1>5, <1>7 DEF CheckHealth, GetClient, Healthy, Unhealthy
<1>8. CASE UNCHANGED vars
  BY <1>5, <1>8 DEF vars
<1>9. QED
  BY <1>1, <1>2, <1>3, <1>4, <1>6, <1>7, <1>8 DEF Next

\* An open page stays open, and no page closes.
LEMMA PagesStayOpen ==
  ASSUME WorkerInv, PageInv, EventsInv, SavesInv, Listening, [Next]_vars, NEW w \in Windows
  PROVE  /\ page[w].step # "closed" => page'[w].step # "closed"
         /\ page[w].step = "open" => page'[w].step = "open"
<1>1. page[w].step # "closed" => page'[w].step # "closed"
  BY PageShape DEF PageBecomes, PageInv
<1>2. ASSUME page[w].step = "open" PROVE page'[w].step = "open"
  <2>1. ASSUME NEW v \in Windows, UserActs(v) \/ PageProceeds(v) PROVE page'[w].step = "open"
    <3>1. CASE UserActs(v) /\ ~Open(v)
      <4>1. PICK shown : page' = [page EXCEPT ![v].shown = shown]
        BY <3>1, ClicksSend DEF ClickSends, Sends
      <4>2. page[w] \in Page /\ w \in DOMAIN page
        BY DEF PageInv
      <4>3. QED
        BY <1>2, <4>1, <4>2 DEF Page
    <3>2. CASE Open(v)
      BY <1>2, <3>2 DEF Open, PageInv, Page
    <3>3. CASE GetSettings(v)
      BY <1>2, <3>3 DEF GetSettings, PageInv, Page
    <3>4. CASE SettingsArrive(v)
      BY <1>2, <3>4 DEF SettingsArrive, PageInv, Page
    <3>5. CASE Changed(v)
      BY <1>2, <3>5 DEF Changed, Renders, PageInv, Page
    <3>6. QED
      BY <2>1, <3>1, <3>2, <3>3, <3>4, <3>5 DEF PageProceeds
  <2>2. ASSUME NEW s \in DOMAIN save, SaveProceeds(s) PROVE page'[w].step = "open"
    <3>1. page' = page \/ \E v, settings : Renders(v, settings)
      <4>1. CASE Saved(s)
        BY <4>1 DEF Saved
      <4>2. CASE Refused(s)
        BY <4>2 DEF Refused
      <4>3. CASE ~Saved(s) /\ ~Refused(s)
        BY <2>2, <4>3 DEF SaveProceeds, ReadSettings, StoreSettings, SettingsSet, SaveFails, pages
      <4>4. QED
        BY <4>1, <4>2, <4>3
    <3>2. ASSUME NEW v, NEW settings, Renders(v, settings) PROVE page'[w].step = "open"
      <4>1. PICK shown : shown = SwitchesOf(settings)
        OBVIOUS
      <4>2. page' = [page EXCEPT ![v].settings = settings, ![v].shown = shown]
        BY <3>2, <4>1 DEF Renders
      <4>3. page[w] \in Page /\ w \in DOMAIN page
        BY DEF PageInv
      <4>4. QED
        BY <1>2, <4>2, <4>3 DEF Page
    <3>3. QED
      BY <1>2, <3>1, <3>2
  <2>3. QED
    BY <1>2, <2>1, <2>2, PagesAlone DEF Next, pages
<1>3. QED
  BY <1>1, <1>2

\* What is sent is changed by its own steps only, or by the end of the worker.
LEMMA SaveMovers ==
  ASSUME WorkerInv, PageInv, SavesInv, [Next]_vars, NEW s \in DOMAIN save, save'[s] # save[s]
  PROVE  SaveProceeds(s) \/ Teardown
<1>1. ASSUME NEW t \in DOMAIN save, SaveProceeds(t) PROVE SaveProceeds(s)
  BY <1>1, SaveProceedsShape DEF SaveBecomes
<1>2. ASSUME NEW w \in Windows, UserActs(w) PROVE FALSE
  <2>1. CASE Open(w)
    BY <2>1 DEF Open
  <2>2. CASE ~Open(w)
    <3>1. PICK patch \in Patches, shown \in Switches : Sends(w, patch, shown)
      BY <1>2, <2>2, ClicksSend DEF ClickSends
    <3>2. QED
      BY <3>1, SaveSent DEF Sends, NewSave, SaveBegins
  <2>3. QED
    BY <2>1, <2>2
<1>3. ~Installed
  BY SaveSent, PatchKinds DEF Installed, NewSave, SaveBegins
<1>4. ~(\E w \in Windows : PageProceeds(w)) /\ ~(UNCHANGED vars)
  BY DEF PageProceeds, GetSettings, SettingsArrive, Changed, vars
<1>5. ~\E c \in Calls : CheckHealth(c) \/ GetClient(c) \/ Healthy(c) \/ Unhealthy(c)
  BY DEF CheckHealth, GetClient, Healthy, Unhealthy
<1>6. QED
  BY <1>1, <1>2, <1>3, <1>4, <1>5 DEF Next

\* A page has heard of a save from its reply, and from nothing else.
LEMMA SavedByReply ==
  ASSUME WorkerInv, PageInv, SavesInv, [Next]_vars, NEW s \in DOMAIN save,
         save[s].told # "saved", save'[s].told = "saved"
  PROVE  Saved(s)
<1>1. save'[s] # save[s] /\ SaveOK(save[s])
  BY DEF SavesInv
<1>2. ~Teardown
  <2>1. [save[s] EXCEPT !.step = "refused"].told = save[s].told
    BY <1>1 DEF SaveOK, Save
  <2>2. QED
    BY <2>1, TeardownSaves DEF SavesEnd
<1>3. SaveProceeds(s)
  BY <1>1, <1>2, SaveMovers
<1>4. /\ ~ReadSettings(s) /\ ~StoreSettings(s) /\ ~SettingsSet(s)
      /\ ~SaveFails(s) /\ ~Refused(s)
  BY <1>1 DEF ReadSettings, StoreSettings, SettingsSet, SaveFails, Refused, SavesInv, SaveOK, Save
<1>5. QED
  BY <1>3, <1>4 DEF SaveProceeds

LEMMA ListeningStep ==
  WorkerInv /\ PageInv /\ EventsInv /\ SavesInv /\ Listening /\ [Next]_vars => Listening'
<1> SUFFICES ASSUME WorkerInv, PageInv, EventsInv, SavesInv, Listening, [Next]_vars,
                    NEW s \in DOMAIN save', save'[s].window # Null
             PROVE  /\ page'[save'[s].window].step # "closed"
                    /\ save'[s].told = "saved" => page'[save'[s].window].step = "open"
  BY DEF Listening
<1>1. CASE s \notin DOMAIN save
  <2>1. save'[s].window \in Windows
    BY SavesStep DEF SavesInv, SaveOK, Save
  <2>2. QED
    BY <1>1, <2>1, WindowsStay, PagesStayOpen
<1>2. CASE s \in DOMAIN save
  <2>0. save'[s].window = save[s].window
    BY <1>2, WindowsStay
  <2>1. save[s].window \in Windows
    BY <1>2, <2>0 DEF SavesInv, SaveOK, Save
  <2>2. page'[save[s].window].step # "closed"
    BY <1>2, <2>0, <2>1, PagesStayOpen DEF Listening
  <2>3. ASSUME save'[s].told = "saved" PROVE page[save[s].window].step = "open"
    <3>1. CASE save[s].told = "saved"
      BY <1>2, <2>0, <3>1 DEF Listening
    <3>2. CASE save[s].told # "saved"
      BY <1>2, <2>0, <2>3, <3>2, SavedByReply DEF Saved
    <3>3. QED
      BY <3>1, <3>2
  <2>4. QED
    BY <2>0, <2>1, <2>2, <2>3, PagesStayOpen
<1>3. QED
  BY <1>1, <1>2

-----------------------------------------------------------------------------
(* The screen is rolled back *)

AwaitsNothing(w) == \A s \in DOMAIN save : save[s].window = w => save[s].step = "done"
ShowsCopy(w) == page[w].settings = Null \/ page[w].shown = SwitchesOf(page[w].settings)

LEMMA RenderedShowsCopy ==
  ASSUME PageInv, NEW w \in Windows, NEW v \in Windows, NEW settings \in Settings,
         Renders(v, settings), w # v => ShowsCopy(w)
  PROVE  ShowsCopy(w)'
<1>1. PICK shown : shown = SwitchesOf(settings)
  OBVIOUS
<1>2. page' = [page EXCEPT ![v].settings = settings, ![v].shown = shown]
  BY <1>1 DEF Renders
<1>3. page[w] \in Page /\ w \in DOMAIN page
  BY DEF PageInv
<1>4. w = v => page'[w].settings = settings /\ page'[w].shown = shown
  BY <1>2, <1>3 DEF Page
<1>5. w # v => page'[w] = page[w]
  BY <1>2, <1>3
<1>6. QED
  BY <1>1, <1>4, <1>5 DEF ShowsCopy

\* A page that awaits nothing after a step awaited nothing before it, or has had a reply.
LEMMA AwaitedNothing ==
  ASSUME WorkerInv, PageInv, SavesInv, [Next]_vars, NEW w \in Windows, AwaitsNothing(w)'
  PROVE  AwaitsNothing(w) \/ \E s \in DOMAIN save :
           save[s].window = w /\ (Saved(s) \/ Refused(s))
<1> SUFFICES ASSUME NEW s \in DOMAIN save, save[s].window = w, save[s].step # "done"
             PROVE  Saved(s) \/ Refused(s)
  BY DEF AwaitsNothing
<1>1. SaveOK(save[s]) /\ save'[s].step = "done" /\ save'[s] # save[s]
  BY WindowsStay DEF SavesInv, AwaitsNothing
<1>2. ~Teardown
  <2>1. [save[s] EXCEPT !.step = "refused"].step = "refused"
    BY <1>1 DEF SaveOK, Save
  <2>2. QED
    BY <1>1, <2>1, TeardownSaves DEF SavesEnd
<1>3. SaveProceeds(s)
  BY <1>1, <1>2, SaveMovers
<1>4. ~ReadSettings(s) /\ ~StoreSettings(s) /\ ~SettingsSet(s) /\ ~SaveFails(s)
  BY <1>1 DEF ReadSettings, StoreSettings, SettingsSet, SaveFails, SavesInv, SaveOK, Save
<1>5. QED
  BY <1>3, <1>4 DEF SaveProceeds

RolledBackAll == \A w \in Windows : AwaitsNothing(w) => ShowsCopy(w)

LEMMA RolledBackStep ==
  /\ WorkerInv /\ PageInv /\ EventsInv /\ SavesInv /\ Listening /\ RolledBackAll
  /\ [Next]_vars
  => RolledBackAll'
<1> SUFFICES ASSUME WorkerInv, PageInv, EventsInv, SavesInv, Listening, RolledBackAll,
                    [Next]_vars, NEW w \in Windows, AwaitsNothing(w)'
             PROVE  ShowsCopy(w)'
  BY DEF RolledBackAll
<1>0. page[w] \in Page /\ w \in DOMAIN page
  BY DEF PageInv
<1>1. ASSUME NEW s \in DOMAIN save, SaveProceeds(s) PROVE ShowsCopy(w)'
  <2>0. SaveOK(save[s]) /\ save[s].window \in Windows \cup {Null}
    BY DEF SavesInv, SaveOK, Save
  <2>1. CASE Saved(s) /\ save[s].window # Null
    <3>1. save[s].next \in Settings /\ Renders(save[s].window, save[s].next)
      BY <2>0, <2>1 DEF Saved, SaveOK
    <3>2. w # save[s].window => ShowsCopy(w)
      <4>1. ASSUME w # save[s].window, NEW t \in DOMAIN save, save[t].window = w
            PROVE  save[t].step = "done"
        BY <1>1, <4>1, SaveProceedsShape DEF SaveBecomes, AwaitsNothing
      <4>2. QED
        BY <4>1 DEF RolledBackAll, AwaitsNothing
    <3>3. QED
      BY <2>0, <2>1, <3>1, <3>2, RenderedShowsCopy
  <2>2. CASE Refused(s) /\ save[s].window # Null /\ page[save[s].window].settings # Null
    <3>1. save[s].window \in Windows /\ page[save[s].window].settings \in Settings
      BY <2>0, <2>2 DEF PageInv, Page
    <3>2. Renders(save[s].window, page[save[s].window].settings)
      BY <2>2 DEF Refused
    <3>3. w # save[s].window => ShowsCopy(w)
      <4>1. ASSUME w # save[s].window, NEW t \in DOMAIN save, save[t].window = w
            PROVE  save[t].step = "done"
        BY <1>1, <4>1, SaveProceedsShape DEF SaveBecomes, AwaitsNothing
      <4>2. QED
        BY <4>1 DEF RolledBackAll, AwaitsNothing
    <3>4. QED
      BY <3>1, <3>2, <3>3, RenderedShowsCopy
  <2>3. CASE ~(Saved(s) /\ save[s].window # Null)
             /\ ~(Refused(s) /\ save[s].window # Null /\ page[save[s].window].settings # Null)
    <3>1. page' = page
      BY <1>1, <2>3 DEF SaveProceeds, ReadSettings, StoreSettings, SettingsSet, SaveFails, Saved,
        Refused, pages
    <3>2. ASSUME AwaitsNothing(w) PROVE ShowsCopy(w)'
      BY <3>1, <3>2 DEF RolledBackAll, ShowsCopy
    <3>3. ASSUME NEW t \in DOMAIN save, save[t].window = w, Saved(t) \/ Refused(t)
          PROVE  page[w].settings = Null
      <4>1. t = s
        <5>1. save'[t] # save[t]
          <6>1. SaveOK(save[t]) /\ save[t].step # "done"
            BY <3>3 DEF SavesInv, Saved, Refused
          <6>2. save'[t].step = "done"
            BY <3>3, WindowsStay DEF AwaitsNothing
          <6>3. QED
            BY <6>1, <6>2
        <5>2. QED
          BY <1>1, <5>1, SaveProceedsShape DEF SaveBecomes
      <4>2. QED
        BY <2>3, <3>3, <4>1, SettingsAssumption
    <3>4. QED
      BY <3>1, <3>2, <3>3, AwaitedNothing DEF ShowsCopy
  <2>4. QED
    BY <2>1, <2>2, <2>3
<1>2. ASSUME NEW v \in Windows, UserActs(v) \/ PageProceeds(v) PROVE ShowsCopy(w)'
  <2>1. CASE UserActs(v) /\ ~Open(v)
    <3>1. PICK patch \in Patches, shown \in Switches : Sends(v, patch, shown)
      BY <2>1, ClicksSend DEF ClickSends
    <3>2. SaveBegins(NewSave(v, patch))
      BY <3>1, SaveSent DEF Sends, NewSave
    <3>3. v # w
      <4>1. Len(save) + 1 \in DOMAIN save' /\ Len(save) + 1 \notin DOMAIN save
        BY <3>2 DEF SaveBegins, SavesInv
      <4>2. save'[Len(save) + 1] = NewSave(v, patch)
        BY <3>2, <4>1 DEF SaveBegins
      <4>3. QED
        BY <4>1, <4>2 DEF AwaitsNothing, NewSave
    <3>4. page'[w] = page[w]
      BY <1>0, <3>1, <3>3 DEF Sends
    <3>5. AwaitsNothing(w)
      BY <3>2 DEF SaveBegins, AwaitsNothing
    <3>6. QED
      BY <3>4, <3>5 DEF RolledBackAll, ShowsCopy
  <2>2. CASE Open(v) \/ PageProceeds(v)
    <3>1. save' = save
      BY <2>2 DEF Open, PageProceeds, GetSettings, SettingsArrive, Changed
    <3>2. ShowsCopy(w)
      BY <3>1 DEF RolledBackAll, AwaitsNothing
    <3>3. CASE Open(v)
      BY <1>0, <3>2, <3>3 DEF Open, ShowsCopy, Page
    <3>4. CASE GetSettings(v)
      BY <1>0, <3>2, <3>4 DEF GetSettings, ShowsCopy, Page
    <3>5. CASE SettingsArrive(v)
      <4>1. CASE page[v].read = Null
        BY <1>0, <3>2, <3>5, <4>1 DEF SettingsArrive, ShowsCopy, Page
      <4>2. CASE page[v].read # Null
        <5>1. PICK shown : shown = SwitchesOf(page[v].read)
          OBVIOUS
        <5>2. page' = [page EXCEPT ![v] = [[page[v] EXCEPT !.step = "open", !.read = Null]
                                           EXCEPT !.settings = page[v].read, !.shown = shown]]
          BY <3>5, <4>2, <5>1 DEF SettingsArrive
        <5>3. w = v => page'[w].settings = page[v].read /\ page'[w].shown = shown
          BY <1>0, <5>2 DEF Page
        <5>4. w # v => page'[w] = page[w]
          BY <1>0, <5>2
        <5>5. QED
          BY <3>2, <5>1, <5>3, <5>4 DEF ShowsCopy
      <4>3. QED
        BY <4>1, <4>2
    <3>6. CASE Changed(v)
      <4>1. Head(events[v]) \in Settings
        BY <3>6 DEF Changed, EventsInv
      <4>2. QED
        BY <3>2, <3>6, <4>1, RenderedShowsCopy DEF Changed
    <3>7. QED
      BY <2>2, <3>3, <3>4, <3>5, <3>6 DEF PageProceeds
  <2>3. QED
    BY <1>2, <2>1, <2>2
<1>3. CASE \/ Installed \/ Teardown \/ UNCHANGED vars
           \/ \E c \in Calls : CheckHealth(c) \/ GetClient(c) \/ Healthy(c) \/ Unhealthy(c)
  <2>1. page' = page
    BY <1>3, PagesAlone DEF pages
  <2>2. AwaitsNothing(w)
    <3>1. CASE Installed
      BY <3>1, SaveSent, PatchKinds DEF Installed, NewSave, SaveBegins, AwaitsNothing
    <3>2. CASE Teardown
      <4>1. SavesEnd
        BY <3>2, TeardownSaves
      <4>2. \A t \in DOMAIN save : [save[t] EXCEPT !.step = "refused"].step = "refused"
        BY DEF SavesInv, SaveOK, Save
      <4>3. \A t \in DOMAIN save : save'[t].window = save[t].window
        BY WindowsStay
      <4>4. QED
        BY <4>1, <4>2, <4>3 DEF SavesEnd, AwaitsNothing
    <3>3. CASE save' = save
      BY <3>3 DEF AwaitsNothing
    <3>4. QED
      BY <1>3, <3>1, <3>2, <3>3 DEF CheckHealth, GetClient, Healthy, Unhealthy, vars
  <2>3. QED
    BY <2>1, <2>2 DEF RolledBackAll, ShowsCopy
<1>4. QED
  BY <1>1, <1>2, <1>3 DEF Next

-----------------------------------------------------------------------------
(* The saves pass through the worker in their order *)

Written(s) == save[s].step \in {"landed", "answered"} \/ save[s].told = "saved"
WellAnswered(s) == save[s].step = "answered" \/ save[s].told = "saved"

\* s, sent before t, is ahead of it on each leg of the way.
Ahead(s, t) ==
  /\ save[t].step = "storing" \/ Written(t) => save[s].step # "sent"
  /\ Written(t) => save[s].step # "storing"
  /\ WellAnswered(t) => save[s].step # "landed"
  /\ save[t].told = "saved" /\ save[s].window = save[t].window => save[s].step # "answered"

InOrder == \A t \in DOMAIN save : \A s \in 1..(t - 1) : Ahead(s, t)

\* A step that is taken in turn finds nobody before it on the same leg.
LEMMA TakesTurns ==
  ASSUME SavesInv, NEW t \in DOMAIN save, SaveProceeds(t), NEW s \in 1..(t - 1)
  PROVE  /\ save[t].step = "sent" => save[s].step # "sent"
         /\ save[t].step = "storing" => save[s].step # "storing"
         /\ save[t].step = "landed" => save[s].step # "landed"
         /\ save[t].step = "answered" /\ save[s].window = save[t].window
              => save[s].step # "answered"
<1>1. CASE ReadSettings(t) \/ StoreSettings(t) \/ SettingsSet(t) \/ SaveFails(t)
  BY <1>1 DEF ReadSettings, StoreSettings, SettingsSet, SaveFails, Turn
<1>2. CASE Saved(t)
  BY <1>2 DEF Saved
<1>3. CASE Refused(t)
  BY <1>3 DEF Refused
<1>4. QED
  BY <1>1, <1>2, <1>3 DEF SaveProceeds

LEMMA InOrderStep ==
  WorkerInv /\ PageInv /\ SavesInv /\ InOrder /\ [Next]_vars => InOrder'
<1> SUFFICES ASSUME WorkerInv, PageInv, SavesInv, InOrder, [Next]_vars,
                    NEW t \in DOMAIN save', NEW s \in 1..(t - 1)
             PROVE  Ahead(s, t)'
  BY DEF InOrder
<1>0. /\ save' \in Seq(Save) /\ save \in Seq(Save) /\ DOMAIN save' = 1..Len(save')
      /\ DOMAIN save = 1..Len(save) /\ Len(save) \in Nat /\ Len(save') \in Nat
  BY SavesStep DEF SavesInv
<1>1. CASE t \notin DOMAIN save
  <2>1. save'[t].step = "sent" /\ save'[t].told = "nothing"
    BY <1>1, WindowsStay
  <2>2. QED
    BY <2>1 DEF Ahead, Written, WellAnswered
<1>2. CASE t \in DOMAIN save
  <2>0. s \in DOMAIN save /\ Ahead(s, t) /\ SaveOK(save[s]) /\ SaveOK(save[t])
    BY <1>0, <1>2 DEF InOrder, SavesInv
  <2>1. /\ save'[s].window = save[s].window /\ save'[t].window = save[t].window
        /\ SaveOK(save'[s]) /\ SaveOK(save'[t])
    BY <1>2, <2>0, WindowsStay, SavesStep DEF SavesInv
  <2>2. CASE save'[s] = save[s] /\ save'[t] = save[t]
    BY <2>0, <2>2 DEF Ahead, Written, WellAnswered
  <2>3. CASE Teardown
    <3>1. SavesEnd
      BY <2>3, TeardownSaves
    <3>2. ASSUME NEW u \in DOMAIN save
          PROVE  \/ save'[u].step = save[u].step /\ save'[u].told = save[u].told
                 \/ save'[u].step = "refused" /\ save'[u].told = save[u].told
                    /\ save[u].step \in {"storing", "landed"}
      <4>1. /\ [save[u] EXCEPT !.step = "refused"].step = "refused"
            /\ [save[u] EXCEPT !.step = "refused"].told = save[u].told
        BY DEF SavesInv, SaveOK, Save
      <4>2. QED
        BY <3>1, <4>1 DEF SavesEnd
    <3>3. QED
      BY <1>2, <2>0, <2>1, <3>2 DEF Ahead, Written, WellAnswered
  <2>4. ASSUME ~Teardown, save'[t] # save[t] PROVE Ahead(s, t)'
    <3>1. SaveProceeds(t)
      BY <1>2, <2>4, SaveMovers
    <3>2. PICK r : SaveOK(r) /\ SaveBecomes(t, r) /\ Transition(save[t], r)
      BY <1>2, <3>1, SaveProceedsShape
    <3>3. save'[t] = r /\ save'[s] = save[s]
      BY <1>0, <1>2, <2>0, <3>2 DEF SaveBecomes
    <3>4. /\ save[t].step = "sent" => save[s].step # "sent"
          /\ save[t].step = "storing" => save[s].step # "storing"
          /\ save[t].step = "landed" => save[s].step # "landed"
          /\ save[t].step = "answered" /\ save[s].window = save[t].window
               => save[s].step # "answered"
      BY <1>2, <3>1, TakesTurns
    <3>5. QED
      BY <2>0, <2>1, <3>2, <3>3, <3>4 DEF Ahead, Written, WellAnswered, Transition, SaveOK
  <2>5. ASSUME ~Teardown, save'[t] = save[t], save'[s] # save[s] PROVE Ahead(s, t)'
    <3>1. SaveProceeds(s)
      BY <2>0, <2>5, SaveMovers
    <3>2. PICK r : SaveOK(r) /\ SaveBecomes(s, r) /\ Transition(save[s], r)
      BY <2>0, <3>1, SaveProceedsShape
    <3>3. save'[s] = r
      BY <2>0, <3>2 DEF SaveBecomes
    <3>4. QED
      BY <2>0, <2>1, <2>5, <3>2, <3>3 DEF Ahead, Written, WellAnswered, Transition, SaveOK
  <2>6. QED
    BY <2>2, <2>3, <2>4, <2>5
<1>3. QED
  BY <1>1, <1>2

-----------------------------------------------------------------------------
(* The save that wrote the storage last *)

\* What is stored is what that save made of the settings; the saves before it no longer
\* write, and those after it have not.
WriterInv ==
  /\ writer \in 0..Len(save)
  /\ writer # 0 =>
       /\ stored = save[writer].next
       /\ \A s \in DOMAIN save :
            /\ s <= writer => save[s].step \notin {"sent", "storing"}
            /\ s > writer => ~Written(s)

LEMMA WriterStep ==
  /\ WorkerInv /\ PageInv /\ SavesInv /\ InOrder /\ WriterInv /\ [Next]_vars
  => WriterInv'
<1> SUFFICES ASSUME WorkerInv, PageInv, SavesInv, InOrder, WriterInv, [Next]_vars
             PROVE  WriterInv'
  OBVIOUS
<1>0. /\ save' \in Seq(Save) /\ save \in Seq(Save) /\ DOMAIN save' = 1..Len(save')
      /\ DOMAIN save = 1..Len(save) /\ Len(save) \in Nat /\ Len(save') \in Nat
  BY SavesStep DEF SavesInv
<1>1. DOMAIN save \subseteq DOMAIN save' /\ Len(save) <= Len(save')
  <2>1. DOMAIN save \subseteq DOMAIN save'
    BY WindowsStay
  <2>2. QED
    BY <1>0, <2>1
<1>2. ASSUME NEW s \in DOMAIN save, StoreSettings(s) PROVE WriterInv'
  <2>0. SaveProceeds(s) /\ SaveOK(save[s]) /\ save[s].step = "storing"
    BY <1>2 DEF SaveProceeds, StoreSettings, Turn, SavesInv
  <2>1. PICK r : SaveOK(r) /\ SaveBecomes(s, r) /\ Transition(save[s], r)
    BY <2>0, SaveProceedsShape
  <2>2. /\ save' = [save EXCEPT ![s].step = "landed"] /\ stored' = save[s].next /\ writer' = s
        /\ \A u \in 1..(s - 1) : save[u].step # "storing"
    BY <1>2 DEF StoreSettings, Turn
  <2>3. save'[s] = r /\ r.step = "landed" /\ r.next = save[s].next
    BY <1>0, <2>0, <2>1, <2>2 DEF SaveBecomes, SaveOK, Save, Transition
  <2>4. \A u \in DOMAIN save' \ {s} : save'[u] = save[u] /\ u \in DOMAIN save
    BY <2>1 DEF SaveBecomes
  <2>5. ASSUME NEW u \in DOMAIN save', u <= s PROVE save'[u].step \notin {"sent", "storing"}
    <3>1. CASE u = s
      BY <2>3, <3>1
    <3>2. CASE u # s
      <4>1. u \in 1..(s - 1) /\ Ahead(u, s)
        BY <1>0, <2>5, <3>2 DEF InOrder
      <4>2. QED
        BY <2>0, <2>2, <2>4, <3>2, <4>1 DEF Ahead
    <3>3. QED
      BY <3>1, <3>2
  <2>6. ASSUME NEW u \in DOMAIN save', u > s PROVE ~Written(u)'
    <3>1. u \in DOMAIN save /\ save'[u] = save[u] /\ s \in 1..(u - 1)
      BY <1>0, <2>4, <2>6
    <3>2. Ahead(s, u)
      BY <3>1 DEF InOrder
    <3>3. QED
      BY <2>0, <3>1, <3>2 DEF Ahead, Written
  <2>7. QED
    BY <1>0, <1>1, <2>2, <2>3, <2>5, <2>6 DEF WriterInv
<1>3. ASSUME ~\E s \in DOMAIN save : StoreSettings(s) PROVE WriterInv'
  <2>1. UNCHANGED <<stored, writer>>
    <3>1. CASE \E s \in DOMAIN save : SaveProceeds(s)
      BY <1>3, <3>1 DEF SaveProceeds, ReadSettings, SettingsSet, SaveFails, Saved, Refused
    <3>2. CASE \E w \in Windows : UserActs(w) \/ PageProceeds(w)
      BY <3>2 DEF UserActs, PageProceeds, Open, ToggleSite, SetAllSites, ToggleAutoOverlay,
        SaveApiBase, Sends, GetSettings, SettingsArrive, Changed
    <3>3. CASE \E c \in Calls : CheckHealth(c) \/ GetClient(c) \/ Healthy(c) \/ Unhealthy(c)
      BY <3>3 DEF CheckHealth, GetClient, Healthy, Unhealthy
    <3>4. CASE Installed \/ Teardown \/ UNCHANGED vars
      BY <3>4 DEF Installed, Teardown, vars
    <3>5. QED
      BY <3>1, <3>2, <3>3, <3>4 DEF Next
  <2>2. ASSUME NEW s \in DOMAIN save
        PROVE  /\ save[s].step # "sent" => save'[s].next = save[s].next
               /\ save'[s].step \in {"sent", "storing"} => save[s].step \in {"sent", "storing"}
               /\ Written(s)' => Written(s)
    <3>0. SaveOK(save[s])
      BY DEF SavesInv
    <3>1. CASE save'[s] = save[s]
      BY <3>1 DEF Written
    <3>2. CASE Teardown
      <4>1. PICK r : r = [save[s] EXCEPT !.step = "refused"]
        OBVIOUS
      <4>2. r.next = save[s].next /\ r.step = "refused" /\ r.told = save[s].told
        BY <3>0, <4>1 DEF SaveOK, Save
      <4>3. save'[s] = save[s] \/ save'[s] = r
        BY <3>2, <4>1, TeardownSaves DEF SavesEnd
      <4>4. QED
        BY <4>2, <4>3 DEF Written
    <3>3. CASE save'[s] # save[s] /\ ~Teardown
      <4>1. SaveProceeds(s) /\ ~StoreSettings(s)
        BY <1>3, <3>3, SaveMovers
      <4>2. PICK r : SaveOK(r) /\ SaveBecomes(s, r) /\ Transition(save[s], r)
        BY <4>1, SaveProceedsShape
      <4>3. save'[s] = r
        BY <4>2 DEF SaveBecomes
      <4>4. r.step # "landed"
        BY <3>0, <4>1, <4>3 DEF SaveProceeds, ReadSettings, SettingsSet, SaveFails, Saved, Refused,
          SavesInv, SaveOK, Save
      <4>5. QED
        BY <3>0, <4>2, <4>3, <4>4 DEF Transition, Written, SaveOK
    <3>4. QED
      BY <3>1, <3>2, <3>3
  <2>3. ASSUME NEW s \in DOMAIN save' \ DOMAIN save PROVE s > writer /\ ~Written(s)'
    BY <1>0, <1>1, <2>3, WindowsStay DEF Written, WriterInv
  <2>4. CASE writer = 0
    BY <1>0, <1>1, <2>1, <2>4 DEF WriterInv
  <2>5. CASE writer # 0
    <3>1. writer \in DOMAIN save /\ save[writer].step # "sent"
      BY <1>0, <2>5 DEF WriterInv
    <3>2. stored' = save'[writer].next
      BY <2>1, <2>2, <2>5, <3>1 DEF WriterInv
    <3>3. ASSUME NEW s \in DOMAIN save'
          PROVE  /\ s <= writer => save'[s].step \notin {"sent", "storing"}
                 /\ s > writer => ~Written(s)'
      BY <1>0, <2>2, <2>3, <2>5, <3>1 DEF WriterInv
    <3>4. QED
      BY <1>0, <1>1, <2>1, <3>2, <3>3 DEF WriterInv
  <2>6. QED
    BY <2>4, <2>5
<1>4. QED
  BY <1>2, <1>3

-----------------------------------------------------------------------------
(* The change events *)

\* Whatever is on its way to a page, the last of it is what is stored.
LastEvent == \A w \in Windows : events[w] # <<>> => events[w][Len(events[w])] = stored

\* The storage and the events stay as they are, but for a write and the arrival of an event.
LEMMA EventsAlone ==
  ASSUME [Next]_vars, ~\E w \in Windows : Changed(w), ~\E s \in DOMAIN save : StoreSettings(s)
  PROVE  UNCHANGED <<stored, events>>
<1>1. CASE \E s \in DOMAIN save : SaveProceeds(s)
  BY <1>1 DEF SaveProceeds, ReadSettings, SettingsSet, SaveFails, Saved, Refused, pages
<1>2. CASE \E w \in Windows : UserActs(w) \/ PageProceeds(w)
  BY <1>2 DEF UserActs, PageProceeds, Open, ToggleSite, SetAllSites, ToggleAutoOverlay,
    SaveApiBase, Sends, GetSettings, SettingsArrive
<1>3. CASE \E c \in Calls : CheckHealth(c) \/ GetClient(c) \/ Healthy(c) \/ Unhealthy(c)
  BY <1>3 DEF CheckHealth, GetClient, Healthy, Unhealthy, pages
<1>4. CASE Installed \/ Teardown \/ UNCHANGED vars
  BY <1>4 DEF Installed, Teardown, vars, pages
<1>5. QED
  BY <1>1, <1>2, <1>3, <1>4 DEF Next

LEMMA EventsStep ==
  /\ WorkerInv /\ PageInv /\ EventsInv /\ SavesInv /\ Listening /\ LastEvent /\ [Next]_vars
  => EventsInv' /\ LastEvent'
<1> SUFFICES ASSUME WorkerInv, PageInv, EventsInv, SavesInv, Listening, LastEvent, [Next]_vars
             PROVE  EventsInv' /\ LastEvent'
  OBVIOUS
<1>0. \A w \in Windows : page'[w].step = "closed" => page[w].step = "closed"
  BY PagesStayOpen
<1>1. ASSUME NEW w \in Windows, Changed(w) PROVE EventsInv' /\ LastEvent'
  <2>1. /\ events' = [events EXCEPT ![w] = Tail(@)] /\ stored' = stored /\ events[w] # <<>>
        /\ events[w] \in Seq(Settings)
    BY <1>1 DEF Changed, EventsInv
  <2>2. PICK t : t = Tail(events[w])
    OBVIOUS
  <2>3. /\ t \in Seq(Settings) /\ (t # <<>> => t[Len(t)] = events[w][Len(events[w])])
    BY <2>1, <2>2
  <2>4. /\ events' \in [Windows -> Seq(Settings)]
        /\ \A v \in Windows : events'[v] = IF v = w THEN t ELSE events[v]
    BY <2>1, <2>2, <2>3 DEF EventsInv
  <2>5. EventsInv'
    BY <1>0, <2>1, <2>4 DEF EventsInv
  <2>6. LastEvent'
    BY <2>1, <2>3, <2>4 DEF LastEvent
  <2>7. QED
    BY <2>5, <2>6
<1>2. ASSUME NEW s \in DOMAIN save, StoreSettings(s) PROVE EventsInv' /\ LastEvent'
  <2>1. PICK next : next = save[s].next
    OBVIOUS
  <2>2. next \in Settings /\ stored' = next
    BY <1>2, <2>1 DEF StoreSettings, Turn, SavesInv, SaveOK
  <2>3. /\ \A w \in Windows : events'[w] =
             IF next # stored /\ page[w].step # "closed" THEN Append(events[w], next) ELSE events[w]
        /\ DOMAIN events' = Windows
        /\ events' = [w \in Windows |-> events'[w]]
    BY <1>2, <2>1 DEF StoreSettings, EventValue
  <2>4. ASSUME NEW w \in Windows
        PROVE  /\ events'[w] \in Seq(Settings)
               /\ page[w].step = "closed" => events'[w] = <<>>
               /\ events'[w] # <<>> => events'[w][Len(events'[w])] = next
    <3>1. events[w] \in Seq(Settings) /\ (page[w].step = "closed" => events[w] = <<>>)
      BY DEF EventsInv
    <3>2. CASE next # stored /\ page[w].step # "closed"
      <4>1. events'[w] = Append(events[w], next)
        BY <2>3, <3>2
      <4>2. PICK e : e = events[w]
        OBVIOUS
      <4>3. Append(e, next) \in Seq(Settings) /\ Append(e, next)[Len(Append(e, next))] = next
        BY <2>2, <3>1, <4>2
      <4>4. QED
        BY <3>2, <4>1, <4>2, <4>3
    <3>3. CASE ~(next # stored /\ page[w].step # "closed")
      <4>1. events'[w] = events[w]
        BY <2>3, <3>3
      <4>2. QED
        BY <3>1, <3>3, <4>1 DEF LastEvent
    <3>4. QED
      BY <3>2, <3>3
  <2>5. events' \in [Windows -> Seq(Settings)]
    BY <2>3, <2>4
  <2>6. QED
    BY <1>0, <2>2, <2>4, <2>5 DEF EventsInv, LastEvent
<1>3. CASE UNCHANGED <<stored, events>>
  BY <1>0, <1>3 DEF EventsInv, LastEvent
<1>4. QED
  BY <1>1, <1>2, <1>3, EventsAlone

-----------------------------------------------------------------------------
(* The page whose save was written last *)

\* When it has its reply and no event on the way, it holds what is stored.
EditorInv ==
  writer # 0 /\ save[writer].told = "saved" =>
    \A w \in Windows : save[writer].window = w /\ events[w] = <<>> => page[w].settings = stored

LEMMA EditorStep ==
  /\ WorkerInv /\ PageInv /\ EventsInv /\ SavesInv /\ Listening /\ LastEvent /\ InOrder
  /\ WriterInv /\ EditorInv /\ [Next]_vars
  => EditorInv'
<1> SUFFICES ASSUME WorkerInv, PageInv, EventsInv, SavesInv, Listening, LastEvent, InOrder,
                    WriterInv, EditorInv, [Next]_vars, WriterInv',
                    writer' # 0, save'[writer'].told = "saved",
                    NEW w \in Windows, save'[writer'].window = w, events'[w] = <<>>
             PROVE  page'[w].settings = stored'
  BY WriterStep DEF EditorInv
<1>0. /\ DOMAIN save = 1..Len(save) /\ Len(save) \in Nat /\ writer \in 0..Len(save)
      /\ page[w] \in Page /\ w \in DOMAIN page
  BY DEF SavesInv, WriterInv, PageInv
<1>1. ASSUME NEW s \in DOMAIN save, StoreSettings(s) PROVE FALSE
  <2>1. writer' = s /\ save[s].step = "storing" /\ SaveOK(save[s])
    BY <1>1 DEF StoreSettings, Turn, SavesInv
  <2>2. save'[s].told = save[s].told
    BY <1>1, <2>1 DEF StoreSettings, SaveOK, Save, SavesInv
  <2>3. QED
    BY <2>1, <2>2 DEF SaveOK
<1>2. ASSUME ~\E s \in DOMAIN save : StoreSettings(s) PROVE writer' = writer /\ stored' = stored
  <2>1. CASE \E s \in DOMAIN save : SaveProceeds(s)
    BY <1>2, <2>1 DEF SaveProceeds, ReadSettings, SettingsSet, SaveFails, Saved, Refused
  <2>2. CASE \E v \in Windows : UserActs(v) \/ PageProceeds(v)
    BY <2>2 DEF UserActs, PageProceeds, Open, ToggleSite, SetAllSites, ToggleAutoOverlay,
      SaveApiBase, Sends, GetSettings, SettingsArrive, Changed
  <2>3. CASE \E c \in Calls : CheckHealth(c) \/ GetClient(c) \/ Healthy(c) \/ Unhealthy(c)
    BY <2>3 DEF CheckHealth, GetClient, Healthy, Unhealthy
  <2>4. CASE Installed \/ Teardown \/ UNCHANGED vars
    BY <2>4 DEF Installed, Teardown, vars
  <2>5. QED
    BY <2>1, <2>2, <2>3, <2>4 DEF Next
<1>3. writer' = writer /\ stored' = stored /\ writer \in DOMAIN save
  BY <1>0, <1>1, <1>2
<1>4. save[writer].window = w
  BY <1>3, WindowsStay
<1>5. CASE save[writer].told # "saved"
  <2>1. Saved(writer)
    BY <1>3, <1>5, SavedByReply
  <2>2. Renders(w, save[writer].next)
    BY <1>4, <2>1, SettingsAssumption DEF Saved
  <2>3. page'[w].settings = save[writer].next
    <3>1. PICK shown : shown = SwitchesOf(save[writer].next)
      OBVIOUS
    <3>2. page' = [page EXCEPT ![w].settings = save[writer].next, ![w].shown = shown]
      BY <2>2, <3>1 DEF Renders
    <3>3. QED
      BY <1>0, <3>2 DEF Page
  <2>4. QED
    BY <1>3, <2>3 DEF WriterInv
<1>6. CASE save[writer].told = "saved"
  <2>0. page[w].step = "open"
    BY <1>3, <1>4, <1>6, SettingsAssumption DEF Listening
  <2>1. CASE Changed(w)
    <3>1. Tail(events[w]) = <<>> /\ events[w] # <<>> /\ events[w] \in Seq(Settings)
      BY <2>1 DEF Changed, EventsInv
    <3>2. Head(events[w]) = events[w][Len(events[w])]
      <4>1. PICK e \in Seq(Settings) : e = events[w]
        BY <3>1
      <4>2. Len(e) = 1
        <5>1. Len(Tail(e)) = Len(e) - 1 /\ Len(e) \in Nat
          BY <3>1, <4>1
        <5>2. Len(Tail(e)) = 0
          BY <3>1, <4>1
        <5>3. QED
          BY <5>1, <5>2
      <4>3. QED
        BY <3>1, <4>1, <4>2
    <3>3. Head(events[w]) = stored
      BY <3>1, <3>2 DEF LastEvent
    <3>4. PICK shown : shown = SwitchesOf(stored)
      OBVIOUS
    <3>5. page' = [page EXCEPT ![w].settings = stored, ![w].shown = shown]
      BY <2>1, <3>3, <3>4 DEF Changed, Renders
    <3>6. QED
      BY <1>0, <1>3, <3>5 DEF Page
  <2>2. CASE ~Changed(w)
    <3>1. events[w] = <<>>
      <4>1. CASE \E v \in Windows : Changed(v)
        BY <2>2, <4>1 DEF Changed, EventsInv
      <4>2. CASE ~\E v \in Windows : Changed(v)
        BY <1>1, <4>2, EventsAlone
      <4>3. QED
        BY <4>1, <4>2
    <3>2. page[w].settings = stored
      BY <1>3, <1>4, <1>6, <3>1 DEF EditorInv
    <3>3. ASSUME NEW s \in DOMAIN save, Saved(s), save[s].window = w PROVE FALSE
      <4>1. save[s].step = "answered"
        BY <3>3 DEF Saved
      <4>2. s <= writer
        BY <1>0, <1>3, <4>1 DEF WriterInv, Written
      <4>3. s # writer
        BY <1>6, <4>1 DEF SavesInv, SaveOK
      <4>4. s \in 1..(writer - 1)
        BY <1>0, <1>3, <4>2, <4>3
      <4>5. Ahead(s, writer)
        BY <1>3, <4>4 DEF InOrder
      <4>6. QED
        BY <1>4, <1>6, <3>3, <4>1, <4>5 DEF Ahead
    <3>4. page'[w].settings = page[w].settings
      <4>1. ASSUME NEW s \in DOMAIN save, SaveProceeds(s)
            PROVE  page'[w].settings = page[w].settings
        <5>1. CASE Saved(s)
          <6>1. save[s].window # w
            BY <3>3, <5>1
          <6>2. page' = page \/ Renders(save[s].window, save[s].next)
            BY <5>1 DEF Saved
          <6>3. QED
            BY <1>0, <6>1, <6>2 DEF Renders
        <5>2. CASE Refused(s)
          <6>1. CASE page' = page
            BY <6>1
          <6>2. CASE Renders(save[s].window, page[save[s].window].settings)
            <7>1. PICK v, settings, shown : /\ v = save[s].window /\ settings = page[v].settings
                                           /\ shown = SwitchesOf(settings)
              OBVIOUS
            <7>2. page' = [page EXCEPT ![v].settings = settings, ![v].shown = shown]
              BY <6>2, <7>1 DEF Renders
            <7>3. QED
              BY <1>0, <7>1, <7>2 DEF Page
          <6>3. QED
            BY <5>2, <6>1, <6>2 DEF Refused
        <5>3. CASE ~Saved(s) /\ ~Refused(s)
          BY <4>1, <5>3 DEF SaveProceeds, ReadSettings, StoreSettings, SettingsSet, SaveFails, pages
        <5>4. QED
          BY <5>1, <5>2, <5>3
      <4>2. ASSUME NEW v \in Windows, UserActs(v) \/ PageProceeds(v)
            PROVE  page'[w].settings = page[w].settings
        <5>1. CASE UserActs(v) /\ ~Open(v)
          <6>1. PICK shown : page' = [page EXCEPT ![v].shown = shown]
            BY <5>1, ClicksSend DEF ClickSends, Sends
          <6>2. QED
            BY <1>0, <6>1 DEF Page
        <5>2. CASE Open(v)
          BY <1>0, <2>0, <5>2 DEF Open
        <5>3. CASE GetSettings(v)
          BY <1>0, <2>0, <5>3 DEF GetSettings
        <5>4. CASE SettingsArrive(v)
          BY <1>0, <2>0, <5>4 DEF SettingsArrive
        <5>5. CASE Changed(v)
          BY <1>0, <2>2, <5>5 DEF Changed, Renders
        <5>6. QED
          BY <4>2, <5>1, <5>2, <5>3, <5>4, <5>5 DEF PageProceeds
      <4>3. QED
        BY <4>1, <4>2, PagesAlone DEF Next, pages
    <3>5. QED
      BY <1>3, <3>2, <3>4
  <2>3. QED
    BY <2>1, <2>2
<1>7. QED
  BY <1>5, <1>6

-----------------------------------------------------------------------------
(* The theorems *)

SettingsInv ==
  /\ WorkerInv /\ PageInv /\ EventsInv /\ SavesInv /\ Listening /\ LastEvent
  /\ RolledBackAll /\ InOrder /\ WriterInv /\ EditorInv

LEMMA SettingsInvInit == Init => SettingsInv
<1> SUFFICES ASSUME Init PROVE SettingsInv
  OBVIOUS
<1>1. WorkerInv
  <2>1. [step |-> "new", base |-> Null, ok |-> FALSE, named |-> Null] \in Call
    BY DEF Call
  <2>2. QED
    BY <2>1, SettingsParts DEF Init, WorkerInv
<1>2. PageInv /\ \A w \in Windows : page[w].settings = Null
  <2>1. [step |-> "closed", settings |-> Null, read |-> Null, shown |-> Unchecked] \in Page
    BY SettingsParts DEF Page
  <2>2. QED
    BY <2>1 DEF Init, PageInv
<1>3. EventsInv /\ LastEvent
  BY DEF Init, EventsInv, LastEvent
<1>4. SavesInv
  BY SettingsAssumption DEF Init, SavesInv
<1>5. Listening /\ InOrder
  BY DEF Init, Listening, InOrder
<1>6. RolledBackAll
  BY <1>2 DEF RolledBackAll, ShowsCopy
<1>7. WriterInv /\ EditorInv
  BY DEF Init, WriterInv, EditorInv
<1>8. QED
  BY <1>1, <1>2, <1>3, <1>4, <1>5, <1>6, <1>7 DEF SettingsInv

LEMMA SettingsInvStep == SettingsInv /\ [Next]_vars => SettingsInv'
  BY WorkerStep, PageStep, EventsStep, SavesStep, ListeningStep, RolledBackStep, InOrderStep,
    WriterStep, EditorStep
  DEF SettingsInv

\* Any number of options pages flip any switches while saves are refused, the storage fails,
\* the worker ends and the events of other pages arrive: the settings are stored, sent and
\* held whole, and a page that awaits no save shows what it holds.
THEOREM SettingsStaySound == Spec => []SettingsSound
<1>1. SettingsInv => SettingsSound
  <2> SUFFICES ASSUME SettingsInv PROVE SettingsSound
    OBVIOUS
  <2>1. SettingsTypeOK
    BY DEF SettingsInv, WorkerInv, PageInv, EventsInv, SavesInv, WriterInv, SettingsTypeOK
  <2>2. RolledBack
    BY DEF SettingsInv, RolledBackAll, AwaitsNothing, ShowsCopy, RolledBack
  <2>3. QED
    BY <2>1, <2>2 DEF SettingsSound
<1>2. QED
  BY <1>1, SettingsInvInit, SettingsInvStep, PTL DEF Spec

\* The replies and the change events come on two ways, yet the page whose save was written
\* last, and acknowledged, has what is stored when nothing is on the way any more: the saves
\* keep their order from the message to the reply, and the last event is the last write's.
THEOREM EditorAlwaysSees == Spec => []EditorSeesStored
<1>1. SettingsInv => EditorSeesStored
  <2> SUFFICES ASSUME SettingsInv, Quiet, writer # 0, save[writer].told = "saved",
                      save[writer].window # Null
               PROVE  page[save[writer].window].settings = stored
    BY DEF EditorSeesStored
  <2>1. save[writer] \in Save
    BY DEF SettingsInv, SavesInv, WriterInv, SaveOK
  <2>2. save[writer].window \in Windows
    BY <2>1 DEF Save
  <2>3. QED
    BY <2>2 DEF SettingsInv, EditorInv, Quiet
<1>2. QED
  BY <1>1, SettingsInvInit, SettingsInvStep, PTL DEF Spec
=============================================================================
