\* A create, a run and a rollback over two generations, with every failure.
SPECIFICATION Spec
CONSTANTS
  Creators = {c1}
  Runners = {r1}
  Restorers = {s1}
  Gens = {g1, g2}
  Media = {disks}
  NoOp = NoOp
  NoGen = NoGen
  SignalInLaunch = FALSE
  EarlyRollback = FALSE
SYMMETRY Symmetry
INVARIANTS
  TypeOK
  CurrentIsComplete
  LeaseExcludes
  LiveRunHoldsLease
  SuccessIsDurable
  BuildLockExcludes
PROPERTIES
  SavesAreKept
  SavesExtendTheirParent
CHECK_DEADLOCK FALSE
