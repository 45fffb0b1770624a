------------------------------ MODULE TagOverlay ------------------------------
(***************************************************************************)
(* What the content script puts on the page (content/overlay.js and        *)
(* wireMarker() of content/index.js): the one panel that opens when the    *)
(* pointer rests on a marker and stays when the marker is clicked, with    *)
(* the timers that open and close it, and the notices in the corner.       *)
(*                                                                         *)
(* Each marker has a hover timer of its own, the panel one hide timer; the *)
(* page may take any element of the extension away at any moment, of which *)
(* no listener hears.                                                      *)
(***************************************************************************)
EXTENDS Integers

CONSTANTS
  Markers, NoMarker,
  Notices,          \* the ids of notices
  MaxShown          \* bound on how often a notice is shown

ASSUME OverlayAssumption ==
  NoMarker \notin Markers /\ {"panel", "away"} \cap Markers = {} /\ MaxShown \in Nat

VARIABLES
  present,      \* the markers in the document
  pointer,      \* where the pointer is: a marker, "panel" or "away"
  hovering,     \* the markers whose hoverTimer runs
  displayed,    \* host.style.display is not 'none'
  attached,     \* host.isConnected
  pinned, anchor,
  hideTimer,
  lost,         \* history: the marker or panel under the pointer went without an event,
                \*   or the panel opened for a marker that had gone
  notices,      \* id -> which showing of it is on the screen, 0 if none
  noticeTimers, \* the timers that end a showing: <<id, showing>>
  shown         \* showings so far

panel == <<displayed, attached, pinned, anchor, hideTimer>>
notes == <<notices, noticeTimers, shown>>
overlayVars == <<present, pointer, hovering, panel, lost, notes>>

-----------------------------------------------------------------------------
(* The panel: the operations the others are made of *)

\* render() by showRelic(): the panel is made again if the page took it away.
Shown(m) == displayed' = TRUE /\ attached' = TRUE /\ anchor' = m

\* hide()
Hidden ==
  /\ displayed' = FALSE /\ pinned' = FALSE /\ anchor' = NoMarker /\ hideTimer' = FALSE
  /\ UNCHANGED attached

\* Mutant: a pinned panel is hidden too.
HideDueAlways == TRUE

\* Mutant: leaving a marker or the panel closes nothing.
HideNeverDue == FALSE

\* scheduleHide(): not when pinned.
HideDue == ~pinned

\* pin() and cancelHide()
HideCancelled == FALSE

-----------------------------------------------------------------------------
(* The pointer *)

\* The pointer leaves what it is on, then enters p: mouseleave and mouseenter of a marker
\* or of the panel.
MoveTo(p) ==
  /\ p # pointer
  /\ p \in present \cup {"away"} \/ (p = "panel" /\ displayed /\ attached)
  /\ pointer' = p
  /\ hovering' = (hovering \ {pointer}) \cup (IF p \in present THEN {p} ELSE {})
  /\ hideTimer' = IF p = "panel" THEN HideCancelled
                  ELSE IF pointer # "away" /\ HideDue THEN TRUE ELSE hideTimer
  /\ lost' = FALSE
  /\ UNCHANGED <<present, displayed, attached, pinned, anchor, notes>>

\* The timer of a marker fires after 140 ms on it.
HoverFires(m) ==
  /\ m \in hovering /\ hovering' = hovering \ {m}
  /\ Shown(m) /\ hideTimer' = HideCancelled
  /\ lost' = (lost \/ pointer # m)
  /\ UNCHANGED <<present, pointer, pinned, notes>>

HideFires ==
  /\ hideTimer /\ Hidden
  /\ pointer' = IF pointer = "panel" THEN "away" ELSE pointer
  /\ UNCHANGED <<present, hovering, lost, notes>>

\* A click on a marker, which pins the panel to it; the document's own listener, which
\* comes first, closes a panel pinned to another marker.
ClickMarker(m) ==
  /\ pointer = m /\ m \in present
  /\ hovering' = hovering \ {m}
  /\ Shown(m) /\ pinned' = TRUE /\ hideTimer' = HideCancelled
  /\ UNCHANGED <<present, pointer, lost, notes>>

\* Enter or space on a marker that has the focus; its hover timer goes on.
PressMarker(m) ==
  /\ m \in present
  /\ Shown(m) /\ pinned' = TRUE /\ hideTimer' = HideCancelled
  /\ UNCHANGED <<present, pointer, hovering, lost, notes>>

\* hide() by Escape, the close button, a click outside while pinned, or the content script
\* on a change of URL.
Close ==
  /\ Hidden
  /\ pointer' = IF pointer = "panel" THEN "away" ELSE pointer
  /\ UNCHANGED <<present, hovering, lost, notes>>

\* The overlay is switched off: all markers go, and the panel is hidden.  The hover
\* timers go on.
SwitchOff ==
  /\ present' = {} /\ Hidden
  /\ lost' = (lost \/ pointer \in Markers)
  /\ pointer' = "away"
  /\ UNCHANGED <<hovering, notes>>

\* The page takes a marker away, perhaps from under the pointer, or puts one there.
TakeMarker(m) ==
  /\ m \in present /\ present' = present \ {m}
  /\ lost' = (lost \/ pointer = m)
  /\ pointer' = IF pointer = m THEN "away" ELSE pointer
  /\ UNCHANGED <<hovering, panel, notes>>

DrawMarker(m) ==
  /\ m \notin present \cup hovering /\ present' = present \cup {m}
  /\ UNCHANGED <<pointer, hovering, panel, lost, notes>>

\* The page takes the panel away.
TakePanel ==
  /\ attached /\ attached' = FALSE
  /\ pointer' = IF pointer = "panel" THEN "away" ELSE pointer
  /\ lost' = (lost \/ pointer = "panel")
  /\ UNCHANGED <<present, hovering, displayed, pinned, anchor, hideTimer, notes>>

-----------------------------------------------------------------------------
(* Notices *)

\* showNotice(): nothing happens while one of the same id is up.
ShowNotice(id) ==
  /\ shown < MaxShown /\ notices[id] = 0
  /\ shown' = shown + 1
  /\ notices' = [notices EXCEPT ![id] = shown + 1]
  /\ noticeTimers' = noticeTimers \cup {<<id, shown + 1>>}
  /\ UNCHANGED <<present, pointer, hovering, panel, lost>>

\* The close or the action button.
CloseNotice(id) ==
  /\ notices[id] # 0 /\ notices' = [notices EXCEPT ![id] = 0]
  /\ UNCHANGED <<present, pointer, hovering, panel, lost, noticeTimers, shown>>

\* Mutant: the timer removes whatever notice of its id is up.
EndedById(t) == [notices EXCEPT ![t[1]] = 0]

\* host.remove() of the timer: of the very element it was started for.
Ended(t) == [notices EXCEPT ![t[1]] = IF @ = t[2] THEN 0 ELSE @]

NoticeTimer(t) ==
  /\ noticeTimers' = noticeTimers \ {t}
  /\ notices' = Ended(t)
  /\ UNCHANGED <<present, pointer, hovering, panel, lost, shown>>

OverlayInit ==
  /\ present \in SUBSET Markers /\ pointer = "away" /\ hovering = {}
  /\ displayed = FALSE /\ attached = FALSE /\ pinned = FALSE /\ anchor = NoMarker
  /\ hideTimer = FALSE /\ lost = FALSE
  /\ notices = [id \in Notices |-> 0] /\ noticeTimers = {} /\ shown = 0

OverlayNext ==
  \/ \E p \in Markers \cup {"panel", "away"} : MoveTo(p)
  \/ \E m \in Markers : \/ HoverFires(m) \/ ClickMarker(m) \/ PressMarker(m)
                        \/ TakeMarker(m) \/ DrawMarker(m)
  \/ HideFires \/ Close \/ SwitchOff \/ TakePanel
  \/ \E id \in Notices : ShowNotice(id) \/ CloseNotice(id)
  \/ \E t \in noticeTimers : NoticeTimer(t)

\* A timer that was set fires, unless it is cleared.
OverlayFairness ==
  /\ WF_overlayVars(HideFires)
  /\ \A m \in Markers : WF_overlayVars(HoverFires(m))
  /\ WF_overlayVars(\E t \in noticeTimers : NoticeTimer(t))

OverlaySpec == OverlayInit /\ [][OverlayNext]_overlayVars /\ OverlayFairness

-----------------------------------------------------------------------------
(* Properties *)

\* Every variable of overlay.js has a value of its type, only a panel that is displayed is
\* pinned or has an anchor, and every notice on the screen has its timer.
OverlayTypeOK ==
  /\ present \cup hovering \subseteq Markers /\ pointer \in present \cup {"panel", "away"}
  /\ {displayed, attached, pinned, hideTimer, lost} \subseteq BOOLEAN
  /\ pinned => displayed
  /\ anchor \in Markers \cup {NoMarker} /\ (displayed <=> anchor # NoMarker)
  /\ notices \in [Notices -> 0..MaxShown] /\ shown \in 0..MaxShown
  /\ \A id \in Notices : notices[id] # 0 => <<id, notices[id]>> \in noticeTimers

\* "Clicking pins it open" (overlay.js): no timer closes a pinned panel, in whatever order
\* the pointer left a marker, came to another one and the clicks were made.
PinnedStaysOpen == pinned => ~hideTimer

\* No panel is left behind: when it is neither pinned nor under the pointer, nor is a marker,
\* it is about to close, unless what the pointer was on was taken away under it
\* (its hover timer goes on, and no mouseleave ever closes what it opens).
NotLeftOpen ==
  displayed /\ ~pinned /\ pointer = "away" => hideTimer \/ lost

\* The state of the one panel that all markers share: its flags agree, no timer threatens
\* it when it is pinned, and one is set when nobody looks at it.
PanelSound == OverlayTypeOK /\ PinnedStaysOpen /\ NotLeftOpen

\* A panel that nobody pins and that the pointer stays away from closes in the end, unless
\* what the pointer was on was taken away.
UnpinnedCloses ==
  (displayed /\ ~pinned /\ pointer = "away" /\ ~lost)
    ~> (~displayed \/ pinned \/ pointer # "away" \/ lost)

\* When a step ends both the showing of `id` that is up and a timer, the timer is its own.
TimeKept(id) ==
  notices[id] # 0 /\ notices'[id] # notices[id] /\ noticeTimers' # noticeTimers
    => <<id, notices[id]>> \notin noticeTimers'

\* A notice stays until its own time is up or the user closes it, and does not go with the
\* timer of an earlier one that was closed.
NoticeKeepsItsTime == [][\A id \in Notices : TimeKept(id)]_overlayVars
=============================================================================
