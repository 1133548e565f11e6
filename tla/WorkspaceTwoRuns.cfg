\* Two runs on one workspace; a signal may hit the fork of a simulator.
SPECIFICATION Spec
CONSTANTS
  Creators = {c1}
  Runners = {r1, r2}
  Restorers = {}
  Gens = {g1, g2, g3}
  Media = {unix, its}
  NoOp = NoOp
  NoGen = NoGen
  SignalInLaunch = TRUE
  EarlyRollback = FALSE
CONSTRAINT OneFailure
SYMMETRY Symmetry
INVARIANTS
  SavesAreClean
PROPERTIES
  KeepsHistory
CHECK_DEADLOCK FALSE
