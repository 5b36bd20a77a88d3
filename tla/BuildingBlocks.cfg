\* Words of 16 bits for the alias test, as in NegativeCoefficient.
CONSTANTS
  H = 32768
  MaxStride = 8
  Entries <- MCEntries
  Components = {"list", "table", "bits", "queue", "getters", "pipe", "tree", "edges", "sync", "intervals", "alias",
                "format", "allocator", "graph"}
  NULL = NULL
SPECIFICATION BlocksSpec
INVARIANTS
  ListsAreSequences TableSound BitSetsExact HeapSound TreesSound
   LookupsExact
  FindsClashesWhenItDivides AnswersCommonByte FormatReadsBack AccountExact DynamicGraphExact
PROPERTY WaitersServedByPuts
CHECK_DEADLOCK FALSE
