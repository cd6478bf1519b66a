SPECIFICATION Spec
CONSTANTS
  Threads = {t1}
  i1 = i1  i2 = i2  s1 = s1  a1 = a1  a2 = a2
  Intents <- OneIntent
  Symbols = {s1}
  Accounts = {a1}
  AnyAccount = AnyAccount
  Global = Global
  Tags = {}
  SymbolOf <- MCSymbolOf
  SideOf <- AllBuy
  UnitsOf <- LargestUnits
  Priority <- OneAccount
  MaxUnits = 1
  MaxClip = 1
  Lot = 1
  Reported <- Exact
  Divisors = {1}
  MaxRetries = 1
  TicketNums = {1, 2, 3, 4}
  MaxSubmits = 1
  Budget <- FindingBudget
CHECK_DEADLOCK FALSE
PROPERTY HaltedBrokerReceivesNothing
