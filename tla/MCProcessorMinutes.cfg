CONSTANTS
  r1 = r1
  r2 = r2
  other = other
  hr = hr
  fr = fr
  eur = eur
  usd = usd
  None = None
  Countries <- MCCountries
  Currencies <- MCCurrencies
  CountryOf <- MCCountryOf
  CurrencyOf <- MCCurrencyOf
  Requests <- MCTwoRequests
  Others <- MCNoOthers
  TicksPerMinute = 2
  HistorySize = 2
  MaxFailures = 0
  MaxDrops = 0
  MaxCrashes = 0
SPECIFICATION Spec
INVARIANT MinutesGapless
