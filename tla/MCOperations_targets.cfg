SPECIFICATION OperationsSpec
CONSTANTS
  Accounts = {a1}
  First = a1
  Controller = Controller
  MaxAttempts = 5
  MaxStarts = 2
  MaxDrops = 1
  MaxIssued = 2
  MaxBatch = 2
  r1 = r1
  r2 = r2
  EURUSD = EURUSD
  GBPUSD = GBPUSD
  EURGBP = EURGBP
  EUR = EUR
  USD = USD
  GBP = GBP
  Pairs = {EURUSD, GBPUSD, EURGBP}
  Currencies = {EUR, USD, GBP}
  Base <- MCBase
  Quote <- MCQuote
  Account = USD
  Rate <- MCRate
  Cap = 5
  Step = 2
  Sizes = {4, 7}
  Targets <- MCTargets
  SymbolCap = 8
  GrossCap = 10
  CurrencyCap = 6
  Amounts = {0, 2, 4, 7}
  Askers = {r1}
  MaxAsked = 3
  NoGoal = NoGoal
CHECK_DEADLOCK FALSE
INVARIANT TargetsReached
