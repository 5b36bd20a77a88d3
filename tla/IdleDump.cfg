\* A dump that may come between two invocations.
CONSTANTS
  Instrs = {1}
  Calls = {}
  SubInstrs = {}
  MaxRecent = 1
  MaxInvocations = 2
  MaxIterations = 1
  MaxSymbols = 1
  MaxExecuted = 2
  MaxDumps = 1
  MaxParts = 3
SPECIFICATION Spec
INVARIANT ReadableAfterIdleDump
CHECK_DEADLOCK FALSE
