\* The instructions are numbered through; MCTraces says which programs there are.
CONSTANTS
  Instrs = {1}
  Calls = {2, 3}
  SubInstrs = {4}
  MaxRecent = 2
  MaxInvocations = 3
  MaxIterations = 3
  MaxSymbols = 2
  MaxExecuted = 4
  MaxDumps = 2
  MaxParts = 4
SPECIFICATION ProgramsSpec
INVARIANTS
  InvocationsGrouped Readable LoopReadsBack InstancesFindTheirIteration
  CallsReadBack SubInstancesFindTheirIteration
CHECK_DEADLOCK FALSE
