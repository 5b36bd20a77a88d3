CONSTANTS
  H = 32768
  MaxStride = 8
  Entries <- MCEntries
  Components = {"sync"}
  NULL = NULL
SPECIFICATION BlocksSpec
INVARIANT NeverStuck
CHECK_DEADLOCK FALSE
