\* Another reserver looks at a port handed over.
SPECIFICATION Spec
CONSTANTS
  Reservers = {r1, r2}
  Ports = {p1}
  Count = 1
  Attempts = 2
  NoOne = NoOne
  NoPort = NoPort
INVARIANTS
  HandedOverIsFree
CHECK_DEADLOCK FALSE
