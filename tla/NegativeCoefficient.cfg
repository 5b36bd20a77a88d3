\* Strides 12 and 20.
CONSTANTS
  H = 32768
  MaxStride = 8
  Entries <- MCNegative
SPECIFICATION Spec
INVARIANT FindsClashes
CHECK_DEADLOCK FALSE
