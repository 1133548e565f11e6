\* A create and a run of one workspace; a failover run; a desk or a board with
\* one page; an operator who types one byte or gives one command.
SPECIFICATION MCSpec
CONSTANTS
  Creators = {c1}
  Runners = {r1}
  Restorers = {}
  Gens = {g1, g2}
  Media = {disks}
  NoOp = NoOp
  NoGen = NoGen
  SignalInLaunch = FALSE
  EarlyRollback = FALSE
  Pages = {a}
  MaxLines = 2
  MaxRewrites = 1
  MaxInput = 1
  MaxOutput = 1
  MaxChunk = 1
  MaxCommands = 1
  MaxResponse = 1
  MaxTyped = 1
  MaxPrinted = 2
INVARIANTS
  TypesHold
  PostWindowIsAlternate
  PassedRunHolds
  CompletedIsTheVerdict
PROPERTIES
  RunsEnd
  AckStopsForwarding
  WaitsEnd
  SessionEnds
  GenerationOnlyGrows
  PagesSeeTheSummary
CHECK_DEADLOCK FALSE
