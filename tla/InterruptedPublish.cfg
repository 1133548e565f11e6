\* A signal after the swap of the pointer.
SPECIFICATION Spec
CONSTANTS
  Creators = {c1}
  Runners = {r1}
  Restorers = {}
  Gens = {g1, g2}
  Media = {disks}
  NoOp = NoOp
  NoGen = NoGen
  SignalInLaunch = FALSE
  EarlyRollback = FALSE
INVARIANTS
  FailedRunIsNotCurrent
CHECK_DEADLOCK FALSE
