CONSTANTS
  WsOutputs = {oa, ob}
  WsViews = {va}
  MaxSets = 3
  MaxDrift = 2
  NoOutput = NoOutput
  NoSet = NoSet
  GridViews = {va}
  ViewWidth = 2
  ScreenWidths = {2, 4}
  MaxGrid = 3
  MaxX = 10
  p1 = p1  p2 = p2
  Panels = {p1, p2}
  PanelOutputs = {oa, ob}
  EdgeOf <- MCEdgeOf
  Zones <- MCZones
  Layers = {0, 1}
  NoArea = NoArea
  DragOutputs = {oa, ob}
  DragViews = {va, da}
  Slots = {edge}
  NoView = NoView
  Nowhere = Nowhere
  NoSlot = NoSlot
  FrameOutputs = {oa, ob}
  Surfaces = {sa}
  MaxRedraw = 1
SPECIFICATION DesktopSpec
INVARIANTS SetsShown KeepsPlace PanelsPlaced DragLeavesNothing ClientsServed
