\* Two runs over two ports, one port each.
SPECIFICATION FairSpec
CONSTANTS
  Reservers = {r1, r2}
  Ports = {p1, p2}
  Count = 1
  Attempts = 2
  NoOne = NoOne
  NoPort = NoPort
INVARIANTS
  TypeOK
  ClaimsAreMarked
  RunsDoNotShare
PROPERTIES
  LocksAreNotStolen
  ReserversEnd
CHECK_DEADLOCK FALSE
