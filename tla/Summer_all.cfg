\* Three keys under every hash function, in buckets of 2 that become 4.
SPECIFICATION SummerSpec
CONSTANTS
  Key = {k1, k2, k3}
  Num = {0, 1}
  Null = Null
  Wild = Wild
  Hashes <- MCHashes
  BucketSize = 2
  Capacity = 2
INVARIANTS RowsAreEntries
PROPERTIES MapSpec
CHECK_DEADLOCK FALSE
