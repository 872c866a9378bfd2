\* No symmetry: ImplementsUpdates has liveness in it.
CONSTANTS
  Objects = {a, b}
  MaxTx = 4
SPECIFICATION Spec
INVARIANTS
  CommittedExclusive
  PendingExclusive
  FramesAlive
  AppliedWhenAllReady
  NoMissedCommit
PROPERTIES NoLostUpdate ImplementsUpdates
CHECK_DEADLOCK FALSE
