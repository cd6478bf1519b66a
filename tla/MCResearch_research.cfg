SPECIFICATION ResearchSpec
CONSTANTS
  Prices <- MCPrices
  Spread = 1
  Slippage = 1
  Intents <- MCIntents
  MaxSignals = 2
  Gaps = {1, 3}
  Starts = {18}
  MaxBars = 3
  Flat = Flat
  Candles <- MCCandles
  Lookback = 1
  PoolWindow = 3
  Tolerance = 1
  Leg = 2
  MaxCandles = 6
  Timeframes <- MCTimeframes
  Edges <- MCEdges
  Ladder <- MCLadder
  Outcomes <- MCOutcomes
  FeedGaps = {1, 2}
  LastTime = 6
  Patience = 4
  MaxOrders = 3
  MaxUnits = 2
  MaxSlices = 2
  MaxIntents = 2
  MaxRollovers = 2
  MaxCrashes = 2
  Nothing = Nothing
  c1 = c1
  c2 = c2
  c3 = c3
  SA = SA
  SB = SB
  t1 = t1
  t2 = t2
  Candidates = {c1, c2, c3}
  StrategyOf <- MCStrategyOf
  Requesters = {t1, t2}
  MaxPromotions = 2
  MaxHistory = 1
  MaxStops = 1
  Nobody = Nobody
  MaxGenerations = 3
  Scores <- MCScores
  MaxRestarts = 1
  Baseline = Baseline
  NoVariant = NoVariant
  p1 = p1
  p2 = p2
  Programs = {p1, p2}
  Modes <- MCModes
  Months = {1, 2}
  Enough = 2
  Tries = 2
  MaxRuns = 3
  MaxDeaths = 1
  NoFile = NoFile
  Torn = Torn
  Sweeps = {p1, p2}
  Experiments = {1, 2}
  Scopes <- MCScopes
  Results <- MCResults
  MinTrades = 8
  MinWin = 4
  MinExpectancy = 1
  MaxSweeps = 3
  MaxKills = 1
  NoStore = NoStore
  CutOff = CutOff
  None = None
  Openings <- MCOpenings
  BarRows <- MCBarRows
  Grid = 4
  Reward = 2
  TrailAfter = 1
  MaxHeld = 3
  LastBar = 5
  Null = Null
  Depth = 4
  Instants <- MCInstants
  MaxInstants = 4
  Absent = Absent
  Ids = {"trend", "fractal"}
  Structural = {"fractal"}
  Lengths = {29, 250, 1300, 2000}
  Labels = {"REAL_VENDOR", "UNKNOWN"}
  Family = 3
  Level = 3
  Unit = 60
  Divisor = 6
  MaxVerdicts = 2
  MaxSeconds = 2
  MaxFaults = 1
  Blank = Blank
CHECK_DEADLOCK FALSE
INVARIANTS BookedAsTraded LiveIsResearch CandlesAsBuilt LedgerHolds CrashCosts
  RegistryHolds ResultsAgree SetsAgree ReadsAreCausal ResearchEarned
PROPERTIES LegsTradedOnce IncumbentHolds CacheHonest
