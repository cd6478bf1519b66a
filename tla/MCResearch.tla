------------------------------ MODULE MCResearch ------------------------------
(* The research side and the services around it, on small instances.  They *)
(* share no state: each behaviour runs one part and leaves the others as   *)
(* they begin.                                                             *)
EXTENDS Backtester, MarketStructure, FractalStrategy, PaperTrading, Learning, Evolution,
  DataCache, Sweeper, NativeSets, SetReads, Discovery, TLC

CONSTANTS c1, c2, c3, SA, SB, t1, t2, p1, p2

VARIABLE part

Parts == {"backtest", "structure", "strategy", "paper", "rivals", "neighbours", "evolution",
          "cache", "sweeps", "sets", "requirements", "reads", "promotions", "matrix"}

(* Backtester: each side at market and with a limit inside its stop and    *)
(* target, one intent without a target.                                    *)
MCPrices == 1..3
MCIntents ==
  {[side |-> "BUY", type |-> "MARKET", limit |-> 0, stop |-> 2, target |-> 0],
   [side |-> "SELL", type |-> "MARKET", limit |-> 0, stop |-> 4, target |-> 2],
   [side |-> "BUY", type |-> "LIMIT", limit |-> 2, stop |-> 1, target |-> 3],
   [side |-> "SELL", type |-> "LIMIT", limit |-> 2, stop |-> 4, target |-> 2]}

(* MarketStructure: candles from which breaks of both kinds, every kind of *)
(* zone and a range come about.                                            *)
OHLC(o, h, l, c) == [open |-> o, high |-> h, low |-> l, close |-> c]
MCCandles ==
  {OHLC(2, 4, 2, 3), OHLC(3, 3, 1, 2), OHLC(3, 6, 3, 4), OHLC(3, 5, 3, 4), OHLC(2, 2, 1, 1)}
MCFirstCandles == {OHLC(2, 4, 2, 3), OHLC(3, 3, 1, 2)}

(* FractalStrategy: two sets that overlap; the edges let the third         *)
(* timeframe close alone after a gap, and with the finest one.  Outcomes   *)
(* make sets expect opposite directions or, with no trend, none.           *)
MCLadder == <<"4H", "1H", "15M", "3M">>
MCTimeframes == {"4H", "1H", "15M", "3M"}
MCEdges ==
  "4H" :> {0, 2, 16} @@ "1H" :> {0, 2, 16} @@ "15M" :> {0, 2, 4, 6, 16} @@ "3M" :> {0, 2, 3, 4, 6, 7, 16}
MCOutcomes ==
  {[broke |-> 0, drift |-> 1, place |-> 68], [broke |-> 0, drift |-> 0, place |-> 68],
   [broke |-> -1, drift |-> 0, place |-> 32]}

MCStrategyOf == [c \in Candidates |-> IF c = c3 THEN SB ELSE SA]
MCScores == {-1, 0, 1, 2}

\* DataCache: every program, the strict ones among them.
Mode(kind, strict, fallback) == [kind |-> kind, strict |-> strict, fallback |-> fallback]
MCModes ==
  {Mode("pipeline", TRUE, TRUE), Mode("sweep", TRUE, TRUE), Mode("sweep", TRUE, FALSE),
   Mode("calibration", FALSE, TRUE), Mode("download", FALSE, TRUE),
   Mode("histdata", FALSE, FALSE)}

\* Sweeper: experiments that clear the cheap gates.
MCResults ==
  {[trades |-> 8, win |-> 4, expectancy |-> 1, inSample |-> 2, outSample |-> 1, stress |-> 0]}
MCScopes == {{1}, {1, 2}}

(* NativeSets: four timeframes, hence two sets, the first timeframe once   *)
(* opening without the second, which may turn against a trade; closes      *)
(* reach stops and targets, or what one of them is before rounding (2,     *)
(* after a sale at 12).                                                    *)
MCOpenings == <<{1, 4}, {1, 3}, {1, 3, 4}, 1..5>>
Bar(structure, pz, close) == [structure |-> structure, pz |-> pz, close |-> close, atr |-> 5]
MCBarRows ==
  <<{Bar("up", 0, 8), Bar("down", 0, 8)},
    {Bar("up", -1, 8), Bar("down", 1, 8)},
    {Bar("up", 0, 8), Bar("up", 1, 20), Bar("down", 0, 12), Bar("up", -1, 2)},
    {Bar("up", 0, 8), Bar("up", 1, 20), Bar("down", 0, 13)}>>

(* SetReads: a ladder of four, hence two sets, in which coarse candles may *)
(* close alone; or only a parent and its child, with prices that void and  *)
(* confirm.                                                                *)
Shape(trend, location, price, void) ==
  [trend |-> trend, location |-> location, price |-> price, void |-> void, highs |-> {2}, lows |-> {2},
   phase |-> IF trend = 1 THEN "CONTINUATION" ELSE "PULLBACK"]
Down == Shape(-1, "DISCOUNT", 2, Absent)
Up == Shape(1, "DISCOUNT", 2, Absent)
MCParents ==
  {Shape(1, "DISCOUNT", 2, 1), Shape(1, "PREMIUM", 2, Absent), Shape(1, "DISCOUNT", 3, 2), Shape(0, "PREMIUM", 1, 1)}
MCChildren ==
  {Shape(-1, "PREMIUM", 1, 3), Shape(0, "PREMIUM", 1, 3), Shape(-1, "PREMIUM", 3, 3)}
MCPairs ==
  {<<p, c>> \in MCParents \X MCChildren : p.void # Absent /\ c.trend = 0}
MCRequirements == [{1} -> MCParents] \cup [{2} -> MCChildren] \cup MCPairs
MCReads ==
  {<<Up, Up, Down, Up>>, <<Up, Down, Down, Up>>} \cup [{2} -> {Up, Down}]
    \cup {3 :> Down @@ 4 :> Up, 3 :> Up @@ 4 :> Down} \cup {1 :> Shape(-1, "PREMIUM", 2, 2)}
    \cup {2 :> Up @@ 3 :> Up, 2 :> Down @@ 3 :> Down @@ 4 :> Down}
MCInstants == MCRequirements \cup MCReads

(* Discovery: histories too short for a partition, for one window of the   *)
(* pipeline, for the calibration and for three rolling windows, and one    *)
(* that is long enough; candidates that pass, that fail a gate, that pass  *)
(* only where one trade is enough; p-values around the level.              *)
Trades(count, e) == [trades |-> count, expectancy |-> e, drawdown |-> 15]
Trial(dev, val, oos, losing, p, trimmed) ==
  [dev |-> dev, val |-> val, oos |-> oos, bootstrap |-> 95, shocked |-> 1, sharpe |-> 50,
   rolled |-> 30, losing |-> losing, p |-> p, trimmed |-> trimmed]
Passes(p, trimmed) == Trial(Trades(100, 2), Trades(30, 1), Trades(30, 1), 0, p, trimmed)
MCSomeTrials ==
  {Passes(1, 1), Trial(Trades(4, 2), Trades(1, 1), Trades(1, 1), 0, 1, 1),
   Trial(Trades(100, 2), Trades(30, 1), Trades(30, 1), 1, 2, 1),
   Trial(Trades(100, 2), Trades(30, 1), Trades(30, -1), 0, 1, 1)}
MCCellTrials ==
  {Passes(p, 1) : p \in 1..4} \cup {Passes(1, 0), Trial(Trades(100, 2), Trades(30, 1), Trades(30, -1), 0, 1, 1)}

researchVars ==
  <<part, backtestVars, structureVars, strategyVars, paperVars, learningVars, evolutionVars,
    cacheVars, sweeperVars, nativeVars, setReadsVars, discoveryVars>>

Only(p) ==
  /\ part = p /\ UNCHANGED part
  /\ p # "backtest" => UNCHANGED backtestVars
  /\ p # "structure" => UNCHANGED structureVars
  /\ p # "strategy" => UNCHANGED strategyVars
  /\ p # "paper" => UNCHANGED paperVars
  /\ p \notin {"rivals", "neighbours"} => UNCHANGED learningVars
  /\ p # "evolution" => UNCHANGED evolutionVars
  /\ p # "cache" => UNCHANGED cacheVars
  /\ p # "sweeps" => UNCHANGED sweeperVars
  /\ p # "sets" => UNCHANGED nativeVars
  /\ p \notin {"requirements", "reads"} => UNCHANGED setReadsVars
  /\ p \notin {"promotions", "matrix"} => UNCHANGED discoveryVars

ResearchInit ==
  /\ part \in Parts
  /\ part # "backtest" => now = Min(Starts)
  /\ BacktestInit /\ StructureInit /\ StrategyInit
  /\ PaperInit /\ LearningInit /\ EvolutionInit
  /\ CacheInit /\ SweeperInit /\ NativeInit /\ SetReadsInit /\ DiscoveryInit

(* The learning pipeline runs with two candidates of one strategy, or with *)
(* a validated candidate and a thread for each of two.  Of two like        *)
(* threads the first takes a request that comes while both are idle.       *)
(* Verdicts that write nothing end a behaviour, and all artifacts concern  *)
(* one candidate, for their names keep candidates apart; two gates fail.   *)
ResearchNext ==
  \/ Only("backtest") /\ BacktestNext /\ (now' > now + 1 => n' = MaxBars)
  \/ Only("structure") /\ \E c \in (IF bars = <<>> THEN MCFirstCandles ELSE MCCandles) : Push(c)
  \/ Only("strategy") /\ StrategyNext
  \/ Only("paper") /\ PaperNext /\ (crashes' = 2 => issued = 1 /\ rollovers = 0) /\ (issued' = 3 => crashes = 0 /\ rollovers <= 1)
  \/ /\ Only("rivals") /\ LearningNext
     /\ stage'[c3] = "NONE" /\ \A c \in {c1, c2} : stage'[c] \notin {"REJECTED", "RETIRED", "LIMITED_LIVE"}
     /\ at[t1] = "idle" /\ at[t2] = "idle" => at'[t2] = "idle"
  \/ /\ Only("neighbours") /\ LearningNext
     /\ stage'[c2] = "NONE" /\ \A c \in Candidates : stage'[c] # "CANDIDATE"
     /\ job'[t1].strategy # SB /\ job'[t2].strategy # SA
  \/ Only("evolution") /\ EvolutionNext
  \/ /\ Only("cache") /\ CacheNext
     /\ (run[p1].at = "idle" /\ run[p2].at = "idle" => run'[p2].at = "idle")
     /\ (starts = 2 /\ starts' = 3 => run[p1].at = "idle" /\ run[p2].at = "idle")
  \/ /\ Only("sweeps") /\ SweeperNext
     /\ (sweep[p1].at = "idle" /\ sweep[p2].at = "idle" => sweep'[p2].at = "idle")
     /\ (sweep'[p1].number = MaxSweeps \/ sweep'[p2].number = MaxSweeps =>
           \E p \in {p1, p2} : sweep[p].at = "idle" /\ sweep'[p].at = "idle")
  \/ Only("sets") /\ NativeNext
  \/ Only("requirements") /\ \E x \in MCRequirements : CloseCandles(x)
  \/ Only("reads") /\ \E x \in MCReads : CloseCandles(x)
  \/ /\ Only("promotions")
     /\ \A k \in DOMAIN verdicts : verdicts[k].failed # Blank \/ verdicts[k].status = "PROMOTABLE_PAPER_ONLY"
     /\ PromotionNext(IF Len(verdicts) < MaxVerdicts /\ judged = Blank THEN MCSomeTrials ELSE {})
     /\ \A f, g \in DOMAIN artifacts' : f.id = g.id /\ f.label \in {"PROMOTED", "G1", "G8"}
     /\ \A k \in DOMAIN verdicts' : verdicts'[k].bars # 2000 => k = 1
  \/ Only("matrix") /\ MatrixNext(MCCellTrials)

ResearchSpec == ResearchInit /\ [][ResearchNext]_researchVars
===============================================================================
