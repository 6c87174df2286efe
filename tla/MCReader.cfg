CONSTANTS
  a = a
  b = b
  c = c
  d = d
  e = e
  fr = fr
  hr = hr
  ReadCountry = fr
  Rows <- MCRows
  Key <- MCKey
  Country <- MCCountry
  Limit = 2
  Starts = {1, 5}
  MaxRestarts = 1
SPECIFICATION ReaderFairSpec
INVARIANTS
  ReaderTypeOK
  RowsInOrder
PROPERTY EveryRowPublished
CHECK_DEADLOCK FALSE
