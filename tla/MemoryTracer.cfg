\* Sixteen addresses, a limit that some calls exceed, the clock read at every second call.
CONSTANTS
  H = 8
  MaxStride = 1
  Insts = {1, 2}
  Operands <- MCOperands
  TraceSize = 1
  RecSize = 2
  EntrySize = 1
  DumpTraceMemUsage = 6
  CheckPeriod = 2
  MaxCalls = 3
SPECIFICATION Spec
INVARIANTS TypeOK SetsContiguous CutTogether MemUsedExact
PROPERTIES RecordsExactly StoresAccesses
CHECK_DEADLOCK FALSE
