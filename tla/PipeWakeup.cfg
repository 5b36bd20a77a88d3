CONSTANTS
  H = 32768
  MaxStride = 8
  Entries <- MCEntries
  Components = {"pipe"}
  NULL = NULL
SPECIFICATION BlocksSpec
PROPERTY WaitersServed
