\* Pruning between a run's outcome and its publication.
SPECIFICATION Spec
CONSTANTS
  Creators = {c1}
  Runners = {r1}
  Restorers = {}
  Gens = {g1, g2}
  Media = {disks}
  NoOp = NoOp
  NoGen = NoGen
  SignalInLaunch = FALSE
  EarlyRollback = FALSE
PROPERTIES
  PruneSparesActiveRuns
CHECK_DEADLOCK FALSE
