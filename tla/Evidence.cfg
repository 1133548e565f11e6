\* Two helpers over two results and a build; an operator who types a byte or gives
\* two commands; an IMP that is restarted once, a wire that goes wrong twice;
\* a two-ITS run of two stages with two faults.
SPECIFICATION MCSpec
CONSTANTS
  Helpers = {h1, h2}
  Images <- ThreeResults
  Builds = {2}
  MaxVersion = 2
  MaxInput = 1
  MaxOutput = 2
  MaxChunk = 1
  MaxCommands = 2
  MaxResponse = 1
  MaxTyped = 2
  MaxPrinted = 3
  MaxPackets = 3
  MaxLives = 2
  MaxWireFaults = 2
  MaxFaults = 2
  MaxTime = 1
CONSTRAINTS
  OneWritten
  TwoTroubles
  OneFaultRead
SYMMETRY Symmetry
INVARIANTS
  TypesHold
  RemovalsAreAudited
  NotesAreExact
  TranscriptIsTrue
  TranscriptIsReadable
  IngressIsFaithful
  StreamIsTrue
  VerdictsAreTrue
PROPERTIES
  RefusalsLeaveNothing
CHECK_DEADLOCK FALSE
