\* Logs of one or two dumps, up to three requests.
CONSTANTS
  H = 8
  MaxStride = 1
  Runs <- MCRuns
  ChunkSizes = {0, 1, 2, 3}
  MaxChunks = 3
SPECIFICATION Spec
INVARIANTS NothingLost KeepsLittle
PROPERTY ReadsLog
CHECK_DEADLOCK FALSE
