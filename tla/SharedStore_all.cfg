\* The application adds, the thread of the node looks keys up.
SPECIFICATION FairSpec
CONSTANTS
  Key = {a, b, d}
  hash <- MCHash
  Value = {v1, v2}
  Null = Null
  Garbage = Garbage
  Threads = {node, app}
  MayCall <- OneAdds
  MemorySize = 4
  MaxCalls <- TwoEach
  a = a
  b = b
  c = c
  d = d
  e = e
  node = node
  app = app
INVARIANTS TypeOK Settled SizeCounts
PROPERTIES TornOnlyInAdd WaitEnds
CHECK_DEADLOCK FALSE
