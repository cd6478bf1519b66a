------------------------------ MODULE NativeSets ------------------------------
(* The three backtests of the correlated engine over one pair's history    *)
(* (research/correlated_engine/fast_backtest.py, per_set_native.py).  A    *)
(* set is three neighbouring timeframes; it takes its bias from the first, *)
(* its setup from the second, and enters and leaves at closes of the       *)
(* third.  They differ in their clocks:                                    *)
(*   pair    all sets step by step on the finest timeframe's bars, with a  *)
(*           correlation penalty (run_pair)                                *)
(*   solo    one set by itself on the same bars (run_set)                  *)
(*   native  one set by itself on the bars of its own third timeframe      *)
(* A row stays in force until its timeframe's next bar opens (the as-of    *)
(* join), so the first two see most rows several times.  And these two     *)
(* round a trade's levels, the native one does not.  Prices are integers   *)
(* finer than what they round to (Grid).                                   *)
EXTENDS Integers, FiniteSets, Sequences

CONSTANTS
  Openings,     \* of each timeframe, coarsest first: finest bars that begin its bars
  BarRows,      \* of each timeframe: what a bar may be
  Grid,         \* the sixth decimal
  Reward,       \* target distance in stop distances (RR_FLOOR)
  TrailAfter,   \* bars after which the second timeframe may end a trade
  MaxHeld,      \* bars after which any trade ends
  LastBar,      \* bound: bars of the finest timeframe
  Null          \* no bar, no bias, no trade

Ladders == DOMAIN Openings
Triples == 1..Len(Openings) - 2

\* What begins a bar of a set's first or second timeframe begins one of its
\* third (1M and 1W begin with days, though 1M not with weeks).
ASSUME OpeningsAssumption ==
  /\ Openings \in Seq(SUBSET (1..LastBar)) /\ Len(Openings) >= 3
  /\ Openings[Len(Openings)] = 1..LastBar
  /\ \A k \in Triples : Openings[k] \cup Openings[k + 1] \subseteq Openings[k + 2]

VARIABLES
  baseBar,  \* the finest baseBar just read
  rows,     \* the row in force, for each timeframe
  pair, solo, native,   \* of each set: bias, ready, trade
  nativeBar,  \* of each set, the bar its native backtest read last
  first,    \* (history) of each backtest and set, the first trade closed
  between,  \* (history) sets whose first trade met a close between its
            \* level and the rounded one
  book      \* (history) the pair backtest's trades, open ones with it

nativeVars == <<baseBar, rows, pair, solo, native, nativeBar, first, between, book>>

Runners == {"pair", "solo", "native"}

\* A trade while it is open, what leaving it gives, and what is kept of it.
Directions == {"LONG", "SHORT"}
Reasons == {"STOP", "TARGET", "MTF_TRAIL", "TIME"}
SetTrades == [set: Triples, direction: Directions, entry: Nat, price: Int, stop: Int, target: Int]
Exits == [price: Int, reason: Reasons]
Closures == [trade: SetTrades, exit: Nat, price: Int, reason: Reasons]

ASSUME RowsAssumption ==
  /\ \A k \in Ladders : \A r \in BarRows[k] : r.close \in Int \cup {Null} /\ r.atr \in Int
  /\ Grid \in Nat \ {0} /\ Reward \in Nat \ {0} /\ TrailAfter \in Nat /\ MaxHeld \in Nat /\ LastBar \in Nat
  /\ Null \notin Nat \cup Directions \cup SetTrades \cup Exits \cup Closures

-------------------------------------------------------------------------------
(* Phases.  A bar's structure points up, down or nowhere; its premium zone *)
(* value is cut at 0.3, 0.7 and 2: -1 is below -0.3, -2 below -0.7, 3 and  *)
(* -3 are too extreme to trade.                                            *)

DetectPhase(structure, pz, prev) ==
  IF pz = Null \/ structure = "chop" THEN "CHOP"
  ELSE IF structure = "up" THEN
    IF pz < 0 THEN "PULLBACK_BULL"
    ELSE IF pz > 0 /\ prev = "PULLBACK_BULL" THEN "CONTINUATION_BULL" ELSE "TRENDING_BULL"
  ELSE
    IF pz > 0 THEN "PULLBACK_BEAR"
    ELSE IF pz < 0 /\ prev = "PULLBACK_BEAR" THEN "CONTINUATION_BEAR" ELSE "TRENDING_BEAR"

Along == [LONG  |-> {"TRENDING_BULL", "PULLBACK_BULL", "CONTINUATION_BULL"},
          SHORT |-> {"TRENDING_BEAR", "PULLBACK_BEAR", "CONTINUATION_BEAR"}]
PullbackAgainst == [LONG |-> "PULLBACK_BEAR", SHORT |-> "PULLBACK_BULL"]
Sign == [LONG |-> 1, SHORT |-> -1]

Opens(k, i) == i \in Openings[k]

\* A bar that opens gives its row, with a phase that continues the last.
NextRow(old, input) ==
  [phase |-> DetectPhase(input.structure, input.pz, IF old = Null THEN "CHOP" ELSE old.phase),
   pz |-> input.pz, close |-> input.close, atr |-> input.atr]

\* What a set sees.
View(now, k) == [htf |-> now[k], mtf |-> now[k + 1], ltf |-> now[k + 2]]

Usable(v) == v.ltf # Null /\ v.ltf.close # Null /\ v.ltf.atr > 0
Phase(row) == IF row = Null THEN Null ELSE row.phase

-------------------------------------------------------------------------------
(* A set at one bar.                                                       *)

AtRest == [bias |-> Null, ready |-> FALSE, trade |-> Null]

\* To the nearest multiple of the grid, of two the even one.
Rounded(x, grid) ==
  LET q == x \div grid r == x % grid IN
  IF 2 * r > grid \/ (2 * r = grid /\ q % 2 = 1) THEN grid * q + grid ELSE grid * q

HitStop(t, px) == Sign[t.direction] * (px - t.stop) <= 0
HitTarget(t, px) == Sign[t.direction] * (px - t.target) >= 0

\* Price and reason of leaving, or Null; a stop or target is booked at its
\* own price, however far the close went beyond.
Leaving(t, v, held) ==
  IF HitStop(t, v.ltf.close) THEN [price |-> t.stop, reason |-> "STOP"]
  ELSE IF HitTarget(t, v.ltf.close) THEN [price |-> t.target, reason |-> "TARGET"]
  ELSE IF Phase(v.mtf) = PullbackAgainst[t.direction] /\ held > TrailAfter
    THEN [price |-> v.ltf.close, reason |-> "MTF_TRAIL"]
  ELSE IF held >= MaxHeld THEN [price |-> v.ltf.close, reason |-> "TIME"]
  ELSE Null

\* An open trade is managed; what is closed forgets bias and setup.
ManageTrade(s, v, i) ==
  IF s.trade # Null /\ Usable(v) /\ Leaving(s.trade, v, i - s.trade.entry) # Null
  THEN AtRest ELSE s

\* Bias, setup and trigger are taken in one bar if all are there; bias and
\* setup stay until a trade has closed.
BiasOf(s, v) ==
  IF s.bias # Null THEN s.bias
  ELSE CASE Phase(v.htf) \in Along.LONG -> "LONG"
         [] Phase(v.htf) \in Along.SHORT -> "SHORT"
         [] OTHER -> Null

SetsUp(v, bias) ==
  /\ Phase(v.mtf) \in Along[bias]
  /\ v.mtf.pz # Null /\ Sign[bias] * v.mtf.pz > -2

Triggers(v, bias) ==
  /\ v.ltf.phase \in Along[bias]
  /\ v.ltf.pz # Null => Sign[bias] * v.ltf.pz < 1 /\ v.ltf.pz \in -2..2

Entered(k, d, v, i, grid) ==
  LET px == v.ltf.close risk == Sign[d] * v.ltf.atr IN
  [set |-> k, direction |-> d, entry |-> i, price |-> Rounded(px, grid),
   stop |-> Rounded(px - risk, grid), target |-> Rounded(px + Reward * risk, grid)]

LookForEntry(s, k, v, i, grid) ==
  LET bias == BiasOf(s, v)
      ready == s.ready \/ (bias # Null /\ SetsUp(v, bias)) IN
  IF ~Usable(v) THEN s
  ELSE [bias |-> bias, ready |-> ready,
        trade |-> IF ready /\ Triggers(v, bias) THEN Entered(k, bias, v, i, grid) ELSE Null]

\* Mutant of SetAlone: at most one of bias, setup and trigger per bar.
SetAloneStepwise(s, k, v, i, grid) ==
  IF s.trade # Null THEN ManageTrade(s, v, i)
  ELSE LET e == LookForEntry(s, k, v, i, grid) IN
       IF e.bias # s.bias THEN [s EXCEPT !.bias = e.bias]
       ELSE IF e.ready # s.ready THEN [s EXCEPT !.ready = e.ready] ELSE e

\* A set by itself leaves at one bar and enters at a later one.
SetAlone(s, k, v, i, grid) ==
  IF s.trade # Null THEN ManageTrade(s, v, i) ELSE LookForEntry(s, k, v, i, grid)

\* The trade that ends when `s' becomes flat at bar i.
Ended(s, v, i) ==
  LET out == Leaving(s.trade, v, i - s.trade.entry) IN
  [trade |-> s.trade, exit |-> i, price |-> out.price, reason |-> out.reason]

FirstOf(known, before, after, v, i) ==
  IF known = Null /\ before.trade # Null /\ after.trade # before.trade
  THEN Ended(before, v, i) ELSE known

\* A close at which a trade and the same trade at rounded levels part.
AtGrid(t) ==
  [t EXCEPT !.price = Rounded(t.price, Grid), !.stop = Rounded(t.stop, Grid), !.target = Rounded(t.target, Grid)]

Splits(t, px) ==
  ~(/\ HitStop(t, px) <=> HitStop(AtGrid(t), px)
    /\ HitTarget(t, px) <=> HitTarget(AtGrid(t), px))

-------------------------------------------------------------------------------

NativeInit ==
  /\ baseBar = 0
  /\ rows = [k \in Ladders |-> Null]
  /\ pair = [k \in Triples |-> AtRest] /\ solo = pair /\ native = pair
  /\ nativeBar = [k \in Triples |-> 0] /\ between = {}
  /\ first = [r \in Runners |-> [k \in Triples |-> Null]]
  /\ book = {}

\* Mutant of HeldThen: exit and entry of a set before those of the next.
HeldThenSetBySet(old, managed, entered, j, k) ==
  IF j < k THEN entered[j].trade ELSE old[j].trade

\* The trade set j holds when k enters.
HeldThen(old, managed, entered, j, k) ==
  IF j < k THEN entered[j].trade ELSE managed[j].trade

\* One bar of run_pair: first every set's exit, then, set by set, entries.
\* An entry is charged for each other set that holds a trade in its
\* direction at that moment.
PairBar(now, i) ==
  LET managed == [k \in Triples |-> ManageTrade(pair[k], View(now, k), i)]
      entered == [k \in Triples |->
                    IF managed[k].trade # Null THEN managed[k]
                    ELSE LookForEntry(managed[k], k, View(now, k), i, Grid)]
      Penalty(k) == Cardinality({j \in Triples \ {k} :
                      LET t == HeldThen(pair, managed, entered, j, k) IN
                      t # Null /\ t.direction = entered[k].trade.direction})
      fresh == {k \in Triples : managed[k].trade = Null /\ entered[k].trade # Null} IN
  /\ pair' = entered
  /\ book' = {IF b.exit = Null /\ managed[b.trade.set].trade = Null
              THEN [b EXCEPT !.exit = i] ELSE b : b \in book}
             \cup {[trade |-> entered[k].trade, exit |-> Null, penalty |-> Penalty(k)] : k \in fresh}

NativeNext ==
  /\ baseBar < LastBar
  /\ baseBar' = baseBar + 1
  /\ \E input \in [{k \in Ladders : Opens(k, baseBar + 1)} -> UNION {BarRows[k] : k \in Ladders}] :
       /\ \A k \in DOMAIN input : input[k] \in BarRows[k]
       /\ rows' = [k \in Ladders |->
                     IF k \in DOMAIN input THEN NextRow(rows[k], input[k]) ELSE rows[k]]
  /\ PairBar(rows', baseBar + 1)
  /\ solo' = [k \in Triples |-> SetAlone(solo[k], k, View(rows', k), baseBar + 1, Grid)]
  /\ nativeBar' = [k \in Triples |-> IF Opens(k + 2, baseBar + 1) THEN nativeBar[k] + 1 ELSE nativeBar[k]]
  /\ native' = [k \in Triples |->
       IF Opens(k + 2, baseBar + 1) THEN SetAlone(native[k], k, View(rows', k), nativeBar'[k], 1)
       ELSE native[k]]
  /\ first' = [r \in Runners |-> [k \in Triples |->
       LET v == View(rows', k) IN
       CASE r = "pair" -> FirstOf(first[r][k], pair[k], pair'[k], v, baseBar + 1)
         [] r = "solo" -> FirstOf(first[r][k], solo[k], solo'[k], v, baseBar + 1)
         [] OTHER -> FirstOf(first[r][k], native[k], native'[k], v, nativeBar'[k])]]
  /\ between' = between \cup
       {k \in Triples :
          /\ first["native"][k] = Null /\ Usable(View(rows', k))
          /\ \E t \in {native[k].trade, native'[k].trade} \ {Null} : Splits(t, View(rows', k).ltf.close)}

NativeSpec == NativeInit /\ [][NativeNext]_nativeVars

-------------------------------------------------------------------------------

ByPrice(t) == t.reason \in {"STOP", "TARGET"}
Near(x, y) == 2 * (x - y) \in -Grid..Grid
SameEntry(t, u) ==
  /\ t.direction = u.direction
  /\ Near(t.price, u.price) /\ Near(t.stop, u.stop) /\ Near(t.target, u.target)
SameExit(b, c) == b.reason = c.reason /\ Near(b.price, c.price)

\* The first trade of a set is entered alike in all three backtests, at
\* levels half a grid step apart at most.  It also ends alike, but where a
\* close lies between a level and the rounded one, and where its age or the
\* second timeframe ends it: these count the bars of different clocks, and
\* the native one, which counts fewer, then ends it later.
\* (Later trades differ: run_pair may enter at the bar of an exit.)
FirstTradesAgree ==
  \A k \in Triples :
    LET p == first["pair"][k] s == first["solo"][k] n == first["native"][k] IN
    /\ p = s
    /\ s # Null /\ n # Null => SameEntry(s.trade, n.trade)
    /\ k \notin between =>
         /\ n # Null => s # Null
         /\ s # Null /\ (ByPrice(s) \/ Openings[k + 2] = 1..LastBar) => n # Null /\ SameExit(s, n)

\* Two trades of different sets in one direction that are open together are
\* charged exactly once, to the later; sets entering at one bar are in the
\* order of their keys, and a trade that ends at the bar is not counted.
OpenTogether(b, c) ==
  /\ b.trade.set # c.trade.set /\ b.trade.direction = c.trade.direction
  /\ \/ b.trade.entry < c.trade.entry /\ (b.exit = Null \/ b.exit > c.trade.entry)
     \/ b.trade.entry = c.trade.entry /\ b.trade.set < c.trade.set

ChargedOnce ==
  \A c \in book : c.penalty = Cardinality({b \in book : OpenTogether(b, c)})

\* The three backtests tell one story.
SetsAgree == FirstTradesAgree /\ ChargedOnce
===============================================================================
