----------------------------- MODULE MarketModel -----------------------------
(***************************************************************************)
(* The batch rules of market_model: swings, structure breaks, trend,       *)
(* phase, fair value gaps, order blocks and liquidity pools, each a        *)
(* function of a whole series of bars.  Bars are numbered from 1.  A swing *)
(* or a break is found by its index, so a set of them stands for the       *)
(* ordered list of the code.                                               *)
(***************************************************************************)
EXTENDS Integers, Sequences, FiniteSetsExt

Latest(S) == CHOOSE s \in S : \A r \in S : r.index <= s.index

(* The swings of S that precede no more than count - 1 others.             *)
LastSwings(S, count) == {s \in S : Cardinality({r \in S : r.index > s.index}) < count}

OfType(S, type) == {s \in S : s.type = type}

-----------------------------------------------------------------------------
(* A pivot is strictly beyond lookback bars on each side; a bar that is    *)
(* both a high and a low is a high.                                        *)
Window(i, lookback) == (i - lookback)..(i + lookback) \ {i}

DetectSwings(bars, lookback) ==
  LET pivots == (lookback + 1)..(Len(bars) - lookback)
      highs == {i \in pivots : \A j \in Window(i, lookback) : bars[i].high > bars[j].high}
      lows == {i \in pivots : \A j \in Window(i, lookback) : bars[i].low < bars[j].low}
  IN {[index |-> i, type |-> "HIGH", price |-> bars[i].high] : i \in highs}
       \cup {[index |-> i, type |-> "LOW", price |-> bars[i].low] : i \in lows \ highs}

-----------------------------------------------------------------------------
(* A body close beyond a swing breaks it.                                  *)
Beyond(swing, close) ==
  IF swing.type = "HIGH" THEN close > swing.price ELSE close < swing.price

Way(swing) == IF swing.type = "HIGH" THEN 1 ELSE -1

(* Each swing breaks once, at the first such close after its confirmation. *)
(* A break is BOS if it is the first or continues the last one.            *)
Earlier(b, c) == b.index < c.index \/ (b.index = c.index /\ b.swing.index < c.swing.index)

LastBreak(breaks) == CHOOSE b \in breaks : \A c \in breaks \ {b} : Earlier(c, b)

DetectStructureBreaks(bars, swings, confirmation) ==
  LET closes(s) == {i \in DOMAIN bars : /\ i > s.index /\ i >= s.index + confirmation
                                        /\ Beyond(s, bars[i].close)}
      found == {[index |-> Min(closes(s)), swing |-> s, direction |-> Way(s)] :
                  s \in {s \in swings : closes(s) # {}}}
      before(b) == {c \in found : Earlier(c, b)}
      kind(b) == IF before(b) = {} \/ LastBreak(before(b)).direction = b.direction
                   THEN "BOS" ELSE "CHOCH"
  IN {[index |-> b.index, swing |-> b.swing, direction |-> b.direction, kind |-> kind(b)] :
        b \in found}

-----------------------------------------------------------------------------
(* The trend of the last break; before the first, of two higher (lower)    *)
(* highs and lows.                                                         *)
GetTrendDirection(swings, breaks) ==
  LET last(type) == Latest(OfType(swings, type)).price
      previous(type) == Latest(OfType(swings, type) \ {Latest(OfType(swings, type))}).price
      two(type) == Cardinality(OfType(swings, type)) >= 2
  IN IF breaks # {} THEN LastBreak(breaks).direction
     ELSE IF ~(two("HIGH") /\ two("LOW")) THEN 0
     ELSE IF \A t \in {"HIGH", "LOW"} : last(t) > previous(t) THEN 1
     ELSE IF \A t \in {"HIGH", "LOW"} : last(t) < previous(t) THEN -1
     ELSE 0

(* Continuation: the close has reached the latest swing of the trend.      *)
PhaseOf(swings, trend, close) ==
  LET reference == Latest(OfType(swings, IF trend > 0 THEN "HIGH" ELSE "LOW")).price
  IN IF \/ trend = 0
        \/ OfType(swings, IF trend > 0 THEN "HIGH" ELSE "LOW") = {}
        \/ trend > 0 /\ close < reference
        \/ trend < 0 /\ close > reference
       THEN "PULLBACK" ELSE "CONTINUATION"

(* MarketPhaseClassifier.classify: the trend of the breaks up to the bar.  *)
Classify(bars, swings, breaks, i) ==
  LET causal == {b \in breaks : b.index <= i}
  IN PhaseOf({s \in swings : s.index <= i},
             IF causal = {} THEN 0 ELSE LastBreak(causal).direction, bars[i].close)

-----------------------------------------------------------------------------
(* Zones.  A fair value gap is named for its third bar, an order block for *)
(* the break and the candle, a pool for its swings.                        *)
Zone(id, direction, low, high) == [id |-> id, direction |-> direction, low |-> low, high |-> high]

FairValueGaps(bars, i) ==
  IF i < 3 THEN {}
  ELSE IF bars[i].low > bars[i - 2].high
    THEN {Zone(<<"FVG", i, i, {}>>, 1, bars[i - 2].high, bars[i].low)}
  ELSE IF bars[i].high < bars[i - 2].low
    THEN {Zone(<<"FVG", i, i, {}>>, -1, bars[i].high, bars[i - 2].low)}
  ELSE {}

(* The last candle against the break, at most leg bars before it.          *)
OrderBlocks(bars, breaks, leg) ==
  LET opposing(b) == {j \in DOMAIN bars : /\ j < b.index /\ j >= b.index - leg
                                          /\ IF b.direction > 0 THEN bars[j].close < bars[j].open
                                                                ELSE bars[j].close > bars[j].open}
      block(b) == LET j == Max(opposing(b))
                  IN Zone(<<"OB", b.index, j, {}>>, b.direction, bars[j].low, bars[j].high)
  IN {block(b) : b \in {b \in breaks : opposing(b) # {}}}

(* Equal highs and lows: swings of one type that lie, in order of price,   *)
(* within tolerance of the next.  The price of a pool is the mean, kept as *)
(* a sum (low, high) over the number of its swings.                        *)
Pool(kind, cluster) ==
  LET sum == MapThenSumSet(LAMBDA s : s.price, cluster)
  IN Zone(<<kind, 0, 0, {s.index : s \in cluster}>>, 0, sum, sum)

LiquidityPools(swings, tolerance) ==
  LET reaches(r, t, S) ==
        \A u \in S : u.price >= r.price /\ u.price < t.price =>
          \E v \in S : v.price > u.price /\ v.price <= u.price + tolerance
      cluster(r, S) == {t \in S : reaches(r, t, S) /\ reaches(t, r, S)}
      pools(kind, S) == {Pool(kind, C) : C \in {C \in {cluster(s, S) : s \in S} : Cardinality(C) >= 2}}
  IN pools("EQH", OfType(swings, "HIGH")) \cup pools("EQL", OfType(swings, "LOW"))
=============================================================================
