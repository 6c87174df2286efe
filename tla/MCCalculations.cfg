SPECIFICATION CalculationsSpec
CONSTANTS
  low = low
  mid = mid
  even = even
  high = high
  a = a
  wide = wide
  plain = plain
  broken = broken
  special = special
  Null = Null
  NaN = NaN
  Infinity = Infinity
  Text = Text
  Empty = Empty
  Nothing = Nothing
  Utf8Size <- MCUtf8Size
  Strings <- MCStrings
  Snapshots <- MCSnapshots
  Questions <- MCQuestions
  Requests <- MCRequests
  Rate <- MCRate
  AmountSell <- MCAmountSell
  AmountBuy <- MCAmountBuy
  TopSize = 3
  MaxAdded = 6
INVARIANTS FiguresCount StompTextSurvives SockUtilsServe ChartShowsData PageShowsLatest
CHECK_DEADLOCK FALSE
