\* One client on each node, Get sent by node 0 only, one adder for each store.
SPECIFICATION Spec
CONSTANTS
  NumNodes = 2
  Key = {k0, k1}
  Values = {v1, v2}
  home <- MCHome
  hash <- MCHash
  MemorySize = 6
  Clients = {c0, c1}
  on <- OnePerNode
  MayCall <- Disciplined
  MayKill = {c1}
  MaxCalls <- Calls31
  StoreAttached = TRUE
  Spurious = TRUE
  Null = Null
  Garbage = Garbage
  NoKey = NoKey
  NoReply = NoReply
  NoCall = NoCall
  NoMsg = NoMsg
  Unanswered = Unanswered
  k0 = k0
  k1 = k1
  c0 = c0
  c1 = c1
  d0 = d0
SYMMETRY ValueSymmetry
INVARIANTS TypeOK StoredAtHome AnswerIsStored
PROPERTIES FirstValueStays ServiceSpec
CHECK_DEADLOCK FALSE
