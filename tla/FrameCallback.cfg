CONSTANTS
  FrameOutputs = {oa, ob}
  Surfaces = {sa}
  MaxRedraw = 1
SPECIFICATION FrameSpec
INVARIANTS VisibleGetFrames
