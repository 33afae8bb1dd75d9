\* Two slots at first: the array grows to 4, 8 and 16 where it can.
SPECIFICATION Spec
CONSTANTS
  Key = {a, b, c, d, e}
  hash <- MCHash
  Value = {v1, v2}
  Null = Null
  InitialMemory = 2
  MaxAdds = 5
  Asserts = TRUE
  a = a
  b = b
  c = c
  d = d
  e = e
INVARIANTS TypeOK FindsRoom
PROPERTY DictionarySpec
CHECK_DEADLOCK FALSE
