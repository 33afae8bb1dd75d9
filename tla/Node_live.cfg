\* The discipline of Node_service.cfg, a fair scheduler, no spurious wakeups.
SPECIFICATION FairSpec
CONSTANTS
  NumNodes = 2
  Key = {k0, k1}
  Values = {v1}
  home <- MCHome
  hash <- MCHash
  MemorySize = 6
  Clients = {c0, c1}
  on <- OnePerNode
  MayCall <- Disciplined
  MayKill = {}
  MaxCalls <- Calls32
  StoreAttached = TRUE
  Spurious = FALSE
  Null = Null
  Garbage = Garbage
  NoKey = NoKey
  NoReply = NoReply
  NoCall = NoCall
  NoMsg = NoMsg
  Unanswered = Unanswered
  k0 = k0
  k1 = k1
  c0 = c0
  c1 = c1
  d0 = d0
PROPERTIES WaitingReturns PutIsStored
CHECK_DEADLOCK FALSE
