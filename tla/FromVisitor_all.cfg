\* Arrays of chunks of 2 that double their table of 1; words of 1 or 2 letters.
SPECIFICATION VisitorSpec
CONSTANTS
  ArrSize = 2
  Memory = 1
  Garbage = Garbage
  Char = {a, b, Tab, Blank, Nul, Garbage}
  Value <- MCValue
  Null = Null
  Schemas <- MCSchemas
  MaxCells = 4
  Tab = Tab
  BUFSIZE = 3
  Text <- MCText
  Blank = Blank
  Nul = Nul
  Stale = {Garbage, Blank}
  Behind = 2
  Unmapped = Unmapped
  Key = {key}
  NoValue = NoValue
  a = a
  b = b
  f = f
  t = t
  i = i
INVARIANTS Rectangular RoundTrip WordsInOrder StaysInBuffer
PROPERTIES TableSpec VisitorEnds
CHECK_DEADLOCK FALSE
