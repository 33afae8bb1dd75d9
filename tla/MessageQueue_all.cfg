\* Two producers that push for ever.
SPECIFICATION FairSpec
CONSTANTS
  Item = {a, b}
  Garbage = Garbage
  NoItem = NoItem
  Nobody = Nobody
  Popper = popper
  Producers = {p1, p2}
  InitialMemory = 3
  Limit = 2
INVARIANTS TypeOK NoLostWakeup PopNeverReturns
PROPERTIES FifoSpec Delivered PushReturns
CHECK_DEADLOCK FALSE
