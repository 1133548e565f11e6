\* A rollback to a generation not yet flushed, then a power loss.
SPECIFICATION Spec
CONSTANTS
  Creators = {c1}
  Runners = {}
  Restorers = {s1}
  Gens = {g1}
  Media = {disks}
  NoOp = NoOp
  NoGen = NoGen
  SignalInLaunch = FALSE
  EarlyRollback = TRUE
INVARIANTS
  CurrentVerifies
CHECK_DEADLOCK FALSE
