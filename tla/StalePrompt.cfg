\* A guest that prints a second prompt before the next command.
SPECIFICATION OperatorSpec
CONSTANTS
  MaxInput = 2
  MaxOutput = 2
  MaxChunk = 1
  MaxCommands = 2
  MaxResponse = 1
  MaxTyped = 2
  MaxPrinted = 3
INVARIANTS
  CompleteIsFramed
CHECK_DEADLOCK FALSE
