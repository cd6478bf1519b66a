SPECIFICATION LiveSpec
CONSTANTS
  Threads = {t1}
  i1 = i1  i2 = i2  s1 = s1  a1 = a1  a2 = a2
  Intents <- TwoIntents
  Symbols = {s1}
  Accounts = {a1}
  AnyAccount = AnyAccount
  Global = Global
  Tags = {tenant}
  SymbolOf <- MCSymbolOf
  SideOf <- BuyAndSell
  UnitsOf <- ThreeThenTwo
  Priority <- OneAccount
  MaxUnits = 3
  MaxClip = 2
  Lot = 2
  Reported <- TwoAsOne
  Divisors = {1, 2}
  MaxRetries = 1
  TicketNums = {1, 2, 3}
  MaxSubmits = 1
  Budget <- LedgerBudget
CHECK_DEADLOCK FALSE
INVARIANTS FillTableMatchesLedger JournalAgrees
PROPERTIES RequestsTerminate
