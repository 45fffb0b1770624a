-------------------------------- MODULE TagPanel --------------------------------
(***************************************************************************)
(* The overlay and what it draws in its panel: the tag of RelicView.       *)
(***************************************************************************)
EXTENDS TagOverlay, RelicView

\* What the tag says is what the API said of the token: every axis is drawn once and in its
\* order, none that was not observed has a number, and no doubt and no failure is left out.
\* It is about functions of their arguments, so it is looked at once, in one first state.
TagIsFaithful ==
  OverlayInit /\ present = {} =>
    /\ MissingNeverZero /\ EveryAxisOnce /\ ThicknessFollowsOrder
    /\ DoubtIsWritten /\ NoSilentFailure
=============================================================================
