CONSTANTS
  m1 = m1
  m2 = m2
  NoMarker = NoMarker
  Markers = {m1, m2}
  Notices = {"failure"}
  MaxShown = 2
  Contract <- MCContract
  AXIS_WEIGHTS <- MCWeights
  ExtraKeys = {"extra"}
  NoKey = "none"
  Scores = {0, 120}
  Weights = {40}
  MaxAxes = 3
SPECIFICATION OverlaySpec
INVARIANTS PanelSound TagIsFaithful
PROPERTIES UnpinnedCloses NoticeKeepsItsTime
CHECK_DEADLOCK FALSE
