\* Scripts that print nothing, a part of temp, or all of temp and more, in
\* which case strcat appends a cell from behind it; two lines a flush, four
\* blocks a flush, two flushes a log; three flushes, and one start in
\* between. Text may stand behind a block or not.
SPECIFICATION Spec
CONSTANTS
  BuffCells = 8
  BlockCells = 2
  TempCells = 2
  OutputCells = {0, 1, 2, 3}
  Behind = {1}
  Beyond = {FALSE, TRUE}
  PerFlush = 2
  BigSize = 1
  MaxLines = 6
  MaxStarts = 1
INVARIANTS
  TypeOK
  LinesKept
  SentWhole
CHECK_DEADLOCK FALSE
