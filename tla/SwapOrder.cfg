CONSTANTS
  Outputs = {o1, o2}
  Noop = noop
  None = none
  Views = {v1}
  MaxInhibit = 1
  MaxInhibitors = 2
  va = va  vb = vb  vc = vc  sa = sa  sb = sb
  TileViews = {va, vb, vc}
  TileSets = {sa, sb}
  MaxTileGrid = 2
  Areas <- MCAreas
  MinSize = 1
  NoResize = NoResize
  Parts = {"swaps"}
SPECIFICATION PluginsSpec
PROPERTY SwapTrades
