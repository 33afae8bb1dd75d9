\* Two clients on node 0 wait for replies.
SPECIFICATION FairSpec
CONSTANTS
  NumNodes = 2
  Key = {k0, k1}
  Values = {v1}
  home <- MCHome
  hash <- MCHash
  MemorySize = 6
  Clients = {c0, c1, d0}
  on <- TwoOnOne
  MayCall <- BothWait
  MayKill = {}
  MaxCalls <- Calls221
  StoreAttached = TRUE
  Spurious = FALSE
  Null = Null
  Garbage = Garbage
  NoKey = NoKey
  NoReply = NoReply
  NoCall = NoCall
  NoMsg = NoMsg
  Unanswered = Unanswered
  k0 = k0
  k1 = k1
  c0 = c0
  c1 = c1
  d0 = d0
PROPERTY WokenReturns
CHECK_DEADLOCK FALSE
