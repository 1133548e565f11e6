\* A journey stream of five lines; three IMPs in a triangle, three times the life
\* of an observation, one disturbance; one retransmission.
SPECIFICATION MCSpec
CONSTANTS
  Cablings = {"triangle"}
  Interval = 1
  MaxTime = 3
  MaxFaults = 1
  MaxRetransmissions = 1
  MaxLines = 5
CONSTRAINT CalmAfterSwitch
INVARIANTS
  TypesHold
  ReadableAtAnyTime
  DiagnosisIgnoresOrder
  SettledViewIsTrue
  PassedRunIsSummarized
  ExtractionIsTrue
CHECK_DEADLOCK FALSE
