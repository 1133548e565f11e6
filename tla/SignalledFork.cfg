\* A signal between a simulator's fork and its handle.
SPECIFICATION Spec
CONSTANTS
  Creators = {c1}
  Runners = {r1}
  Restorers = {}
  Gens = {g1, g2}
  Media = {disks}
  NoOp = NoOp
  NoGen = NoGen
  SignalInLaunch = TRUE
  EarlyRollback = FALSE
INVARIANTS
  LiveRunHoldsLease
CHECK_DEADLOCK FALSE
