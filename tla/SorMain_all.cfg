\* A window of 3 rows and a sample of 2: files of up to 7 lines take 3 windows.
SPECIFICATION MainSpec
CONSTANTS
  Word = {one, twelve, half, text, mixed, huge, vast, tiny, r0, r1, r2, r3, r4, r5, r6}
  Bits = {one}
  stoi <- MCStoi
  stof <- MCStof
  None = None
  File <- MCFile
  SomeCell <- MCCell
  CacheSize = 3
  SchemaLines = 2
  Position = {0, 1, 2, 5, 8, 14}
  MaxRow = 7
  RangeAnytime = FALSE
  Arg = {"-f", "-n", "-x", "name", "2"}
  Argv <- MCArgv
  Number = {"2"}
  Names = {"name"}
  one = one
  twelve = twelve
  half = half
  text = text
  mixed = mixed
  huge = huge
  vast = vast
  tiny = tiny
  r0 = r0
  r1 = r1
  r2 = r2
  r3 = r3
  r4 = r4
  r5 = r5
  r6 = r6
INVARIANTS TypeOK FieldsAsWritten CellOfLine RowFound FrameIsFile SampleIsRead OnlySampleIsRead OptionsAsGiven
CHECK_DEADLOCK FALSE
