CONSTANTS
  t1 = t1  t2 = t2  t3 = t3  s1 = s1  s2 = s2
  Fingers = {0, 1}
  TouchNodes = {client, ga, gb}
  TouchGrabs = {ga, gb}
  NoTarget = NoTarget
  Untracked = Untracked
  MaxTouchReactions = 1
  Cubes = {c1, c2}
  NoShape = NoShape
  Tools = {tool1, tool2}
  ToolNodes = {app, other, legacy, grab}
  SurfaceNodes = {app, other, legacy}
  TabletNodes = {app, other}
  NoToolNode = NoToolNode
  Keyboards = {kb1, vk}
  ImKeyboards = {vk}
  Keys = {super, a}
  ModKeys = {super}
  ClientNodes = {view, dialog}
  PluginNodes = {grab}
  NoKeyboard = NoKeyboard
  NoKey = NoKey
  NoFocus = NoFocus
  MaxPressed = 2
  InputsV1 = {t1}
  InputsV3 = {t2, t3}
  V1Surfaces = {s1, s2}
  V1ClientOf <- MCClientOf
  V1Keys = {ka, kb}
  NoText = NoText
  NoTarget1 = NoTarget1
  MaxUnanswered = 2
  TextInputs = {t1, t2, t3}
  InputSurfaces = {s1, s2}
  ClientOf <- MCClientOf
  NoInput = NoInput
  NoSurface = NoSurface
  MaxDones = 3
  NoNode = NoNode
  Nodes = {client, decoration, grab, rawgrab}
  Grabs = {grab, rawgrab}
  Raw = {rawgrab}
  Reactive = {decoration, grab, rawgrab}
  ReactToForced = {}
  Buttons = {left, right}
  MaxDisabled = 1
  MaxReactions = 2
  key = key  super = super  button = button
  b1 = b1  b2 = b2  b3 = b3  b4 = b4  b5 = b5  b6 = b6  b7 = b7  b8 = b8
  AllBindings = {b1, b2, b3, b4, b5, b6, b7, b8}
  Descr <- MCBindings
  InputKeys = {key, super}
  InputButtons = {button}
  LoneModifiers = {super}
  IpcClients = {"client"}
  Config = "config"
  Corners = {left, right}
  None = None
  Inhibitable = {game, remote, other}
  ByDefault = {remote}
  Ignored = {other}
  NoView = NoView
  SeatOutputs = {oa, ob}
  SeatViews = {fa, fb}
  Bars = {bar}
  Grab = seatgrab
  Nothing = nothing
SPECIFICATION SeatSpec
INVARIANTS CommitsAcknowledge
