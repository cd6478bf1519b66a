SPECIFICATION Spec
CONSTANTS
  Threads = {t1, t2}
  i1 = i1  i2 = i2  s1 = s1  a1 = a1  a2 = a2
  Intents <- OneIntent
  Symbols = {s1}
  Accounts = {a1, a2}
  AnyAccount = AnyAccount
  Global = Global
  Tags = {}
  SymbolOf <- MCSymbolOf
  SideOf <- AllBuy
  UnitsOf <- LargestUnits
  Priority <- TwoAccounts
  MaxUnits = 1
  MaxClip = 1
  Lot = 1
  Reported <- Exact
  Divisors = {1}
  MaxRetries = 0
  TicketNums = {1, 2}
  MaxSubmits = 2
  Budget <- SafetyBudget
SYMMETRY ThreadsAreAlike
CHECK_DEADLOCK FALSE
INVARIANTS TypeOK JournalBeforeExecution DuplicateBound FillIsReal
PROPERTY GatewayPromise
