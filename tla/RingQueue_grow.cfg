\* The array doubles twice (2, 4, 8 slots), with the head anywhere.
SPECIFICATION RingSpec
CONSTANTS
  Item = {a, b}
  Garbage = Garbage
  NoItem = NoItem
  InitialMemory = 2
  Limit = 6
INVARIANTS RingTypeOK CloneEquals
PROPERTY FifoUnlessWrappedGrowth
CHECK_DEADLOCK FALSE
