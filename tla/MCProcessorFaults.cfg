CONSTANTS
  r1 = r1
  r2 = r2
  other = other
  hr = hr
  fr = fr
  eur = eur
  usd = usd
  None = None
  Countries <- MCCountries
  Currencies <- MCCurrencies
  CountryOf <- MCCountryOf
  CurrencyOf <- MCCurrencyOf
  Requests <- MCTwoRequests
  Others <- MCOthers
  TicksPerMinute = 2
  HistorySize = 2
  MaxFailures = 1
  MaxDrops = 1
  MaxCrashes = 1
SPECIFICATION FairSpec
INVARIANTS
  TypeOK
  RequestsAccounted
  HistoriesAccount
  Consistent
PROPERTIES
  ImplementsService
  EveryRequestShown
