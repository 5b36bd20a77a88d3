\* Two compressors, up to twelve symbols in both together, two instructions
\* whose numbers are also numbers of repetitions, and a window that overflows
\* from the fifth pattern on.
CONSTANTS
  Symbols = {2, 3}
  MaxWindowLength = 4
  Compressors = {c, d}
  MaxSymbols = 12
SPECIFICATION Spec
INVARIANT
  Lossless FullyCompressed ReadsBack CountsInstances
  EqualIffSameTrace AllocationsExact
