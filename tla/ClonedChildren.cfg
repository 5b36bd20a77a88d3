CONSTANTS
  H = 32768
  MaxStride = 8
  Entries <- MCEntries
  Components = {"tree"}
  NULL = NULL
SPECIFICATION BlocksSpec
INVARIANT InOneList
CHECK_DEADLOCK FALSE
