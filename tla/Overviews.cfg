CONSTANTS
  va = va  vb = vb  vc = vc  wa = wa  wb = wb
  ScaleViews = {wa, wb}
  NoScaleView = none
  IncludeMinimized = TRUE
  SwitchViews = {va, vb, vc}
  MaxExpoGrid = 3
  NoSpot = none
SYMMETRY MCSymmetry
SPECIFICATION OverviewsSpec
INVARIANTS OverviewsUndo RingWhole
