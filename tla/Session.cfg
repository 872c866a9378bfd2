CONSTANTS
  Plugins = {vswitch, vswipe, move, wrot}
  Vswitch = vswitch
  Vswipe = vswipe
  move = move
  wrot = wrot
  Capabilities <- MCCapabilities
  InitialCaps <- MCInitialCaps
  MaxActivations = 2
  Views = {v}
  NoView = noview
  Width = 3
  Distances <- MCDistances
  FreeMovement = FALSE
  Outputs = {o1, o2, o3}
  Locks = {l1, l2}
  None = none
SPECIFICATION SessionSpec
INVARIANTS LockedEverywhere OwnedLocks NothingLeft CapabilityExclusive WallsMatch
PROPERTIES OnlyUnlockLifts LockingEnds NoJump SwipeEnds
