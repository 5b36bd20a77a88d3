CONSTANTS
  H = 32768
  MaxStride = 8
  LoopInstrs = {1, 2}
  SubInstrs = {11, 12}
  Calls = {8, 9}
  Reads = {2, 12}
  Writes = {1, 11}
  Inputs <- MCInputs
  Length = 2
  Everything = FALSE
SPECIFICATION Spec
INVARIANTS StreamsInStep TagsExact PairsExact AdjacentExact NeverRunsOut
PROPERTIES Progress
