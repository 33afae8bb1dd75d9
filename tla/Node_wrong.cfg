\* Clients on both nodes send Get.
SPECIFICATION Spec
CONSTANTS
  NumNodes = 2
  Key = {k0, k1}
  Values = {v1, v2}
  home <- MCHome
  hash <- MCHash
  MemorySize = 6
  Clients = {c0, c1}
  on <- OnePerNode
  MayCall <- TwoGetters
  MayKill = {}
  MaxCalls <- TwoCalls
  StoreAttached = TRUE
  Spurious = FALSE
  Null = Null
  Garbage = Garbage
  NoKey = NoKey
  NoReply = NoReply
  NoCall = NoCall
  NoMsg = NoMsg
  Unanswered = Unanswered
  k0 = k0
  k1 = k1
  c0 = c0
  c1 = c1
  d0 = d0
INVARIANT AnswerIsStored
CHECK_DEADLOCK FALSE
