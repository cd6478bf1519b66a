--------------------------- MODULE MarketStructure ---------------------------
(***************************************************************************)
(* The streaming state of one timeframe (fractal_engine/state_engine.py,   *)
(* _OnlineTimeframeProcessor): every closed candle is pushed once, and     *)
(* what the strategies read is updated in place of being computed anew     *)
(* from the whole series as market_model does.  The heaps of pending       *)
(* swings and of zone boundaries are sets: popping while the top is beyond *)
(* the close takes out exactly the members beyond it.                      *)
(***************************************************************************)
EXTENDS MarketModel

CONSTANTS
  Candles,     \* what a candle may be: records [open, high, low, close]
  Lookback,
  PoolWindow,  \* LIQUIDITY_POOL_SWING_LOOKBACK
  Tolerance,   \* pip_size
  Leg,         \* max_leg_bars
  MaxCandles

ASSUME StructureAssumption ==
  /\ \A c \in Candles : /\ {c.open, c.high, c.low, c.close} \subseteq Int
                        /\ c.low <= c.open /\ c.open <= c.high
                        /\ c.low <= c.close /\ c.close <= c.high
  /\ Lookback \in Nat \ {0} /\ PoolWindow \in Nat \ {0} /\ Leg \in Nat \ {0}
  /\ Tolerance \in Nat /\ MaxCandles \in Nat

VARIABLES
  bars,
  swings,     \* confirmed swings
  pending,    \* those no close has crossed: both heaps
  breaks,
  weak,       \* indices of swings a BOS broke, and ...
  protected,  \* ... the swings it protects
  range,      \* the structural ranges kept, the last three
  zones,      \* _active_zones
  seenPools,
  signature,  \* of the last snapshot, and ...
  duration    \* ... for how many it has not changed

structureVars == <<bars, swings, pending, breaks, weak, protected, range, zones, seenPools,
                   signature, duration>>

-----------------------------------------------------------------------------
(* Mutant of Confirmed: the pivot is numbered one bar too late.            *)
ConfirmedLate(B) ==
  IF Len(B) < 2 * Lookback + 1 THEN {}
  ELSE LET window == SubSeq(B, Len(B) - 2 * Lookback, Len(B))
       IN {[s EXCEPT !.index = Len(B) - Lookback + 1] : s \in DetectSwings(window, Lookback)}

(* The middle of the last 2L + 1 bars, if it is a pivot.                   *)
Confirmed(B) ==
  IF Len(B) < 2 * Lookback + 1 THEN {}
  ELSE LET window == SubSeq(B, Len(B) - 2 * Lookback, Len(B))
       IN {[s EXCEPT !.index = @ + Len(B) - Len(window)] : s \in DetectSwings(window, Lookback)}

(* Breaks of the swings the close crosses, in the order of the swings: the *)
(* first is judged by the trend before it, the others by their predecessor.*)
NewBreaks(S, crossed, i) ==
  LET before(s) == {r \in crossed : r.index < s.index}
      trend(s) == IF before(s) = {} THEN GetTrendDirection(S, breaks) ELSE Way(Latest(before(s)))
  IN {[index |-> i, swing |-> s, direction |-> Way(s),
       kind |-> IF trend(s) \in {0, Way(s)} THEN "BOS" ELSE "CHOCH"] : s \in crossed}

(* A BOS protects the latest swing of the other type.                      *)
Origins(S, fresh) ==
  LET other(b) == OfType(S, IF b.direction > 0 THEN "LOW" ELSE "HIGH")
  IN {Latest(other(b)) : b \in {b \in fresh : b.kind = "BOS" /\ other(b) # {}}}

(* A swing and the one before it, of the other type, span a range.         *)
NewRange(S, new) ==
  LET rest == S \ new
      pair == {Latest(rest)} \cup new
      high == CHOOSE s \in pair : s.type = "HIGH"
      low == CHOOSE s \in pair : s.type = "LOW"
  IN IF new = {} \/ rest = {} \/ Cardinality({s.type : s \in pair}) = 1 THEN <<>>
     ELSE IF high.price <= low.price THEN <<>>
     ELSE <<[low |-> low.price, high |-> high.price]>>

(* A close beyond its far boundary ends a gap or a block; a pool ends when *)
(* a wick, or on its first bar the close, passes its level.                *)
ClosedThrough(zone, c) ==
  IF zone.direction > 0 THEN c.close < zone.low ELSE c.close > zone.high

Passed(pool, low, high) ==
  LET size == Cardinality(pool.id[4])
  IN IF pool.id[1] = "EQH" THEN high * size > pool.high ELSE low * size < pool.low

(* Mutant of Surviving: a wick ends a gap or a block.                      *)
SurvivingWicks(old, pools, c) ==
  {z \in old : IF z.direction # 0
                 THEN ~ClosedThrough(z, [close |-> IF z.direction > 0 THEN c.low ELSE c.high])
                 ELSE ~Passed(z, c.low, c.high)}
    \cup {p \in pools : ~Passed(p, c.close, c.close)}

Surviving(old, pools, c) ==
  {z \in old : IF z.direction # 0 THEN ~ClosedThrough(z, c) ELSE ~Passed(z, c.low, c.high)}
    \cup {p \in pools : ~Passed(p, c.close, c.close)}

(* Where the close lies in the range: the only one of the last three that  *)
(* holds it, or the latest.                                                *)
Location(R, close) ==
  LET holding == {k \in DOMAIN R : R[k].low <= close /\ close <= R[k].high}
      chosen == IF Cardinality(holding) = 1 THEN R[Max(holding)] ELSE R[Len(R)]
  IN IF R = <<>> THEN <<"UNKNOWN", 0, 0>>
     ELSE <<IF 2 * close > chosen.low + chosen.high THEN "PREMIUM"
            ELSE IF 2 * close < chosen.low + chosen.high THEN "DISCOUNT"
            ELSE "EQUILIBRIUM", chosen.low, chosen.high>>

-----------------------------------------------------------------------------
StructureInit ==
  /\ bars = <<>> /\ swings = {} /\ pending = {} /\ breaks = {}
  /\ weak = {} /\ protected = {} /\ range = <<>> /\ zones = {} /\ seenPools = {}
  /\ signature = <<>> /\ duration = 0

Push(c) ==
  LET B == Append(bars, c)
      i == Len(B)
      new == Confirmed(B)
      S == swings \cup new
      crossed == {s \in pending \cup new : s.index < i /\ Beyond(s, c.close)}
      fresh == NewBreaks(S, crossed, i)
      R == range \o NewRange(S, new)
      kept == IF Len(R) > 3 THEN Tail(R) ELSE R
      pools == IF new = {} THEN {}
               ELSE {p \in LiquidityPools(LastSwings(S, PoolWindow), Tolerance) : p.id \notin seenPools}
      trend == GetTrendDirection(S, breaks \cup fresh)
      active == Surviving(zones \cup FairValueGaps(B, i) \cup OrderBlocks(B, fresh, Leg), pools, c)
      label == <<trend, PhaseOf(S, trend, c.close), Location(kept, c.close), {z.id : z \in active}>>
  IN /\ i <= MaxCandles
     /\ bars' = B
     /\ swings' = S
     /\ pending' = (pending \cup new) \ crossed
     /\ breaks' = breaks \cup fresh
     /\ weak' = weak \cup {b.swing.index : b \in {b \in fresh : b.kind = "BOS"}}
     /\ protected' = protected \cup Origins(S, fresh)
     /\ range' = kept
     /\ seenPools' = seenPools \cup {p.id : p \in pools}
     /\ zones' = active
     /\ signature' = label
     /\ duration' = IF label = signature THEN duration + 1 ELSE 1

StructureNext == \E c \in Candles : Push(c)

StructureSpec == StructureInit /\ [][StructureNext]_structureVars

-----------------------------------------------------------------------------
(* Pushed one by one, the candles give the swings and the breaks that      *)
(* market_model finds in the whole series when a swing is actionable       *)
(* Lookback bars after its pivot, the same kind of every break but the     *)
(* first and, once there is a break, the same phase: nothing is known too  *)
(* early, missed or broken twice ("Streaming implementation of canonical   *)
(* confirmed-swing and break rules").  Only the first break may differ:    *)
(* market_model always calls it BOS, the processor CHOCH against two       *)
(* higher highs and lows (or two lower ones).                              *)
StreamIsBatch ==
  LET batch == DetectStructureBreaks(bars, swings, Lookback)
      first(K) == {b \in K : \A c \in K \ {b} : Earlier(b, c)}
  IN /\ swings = DetectSwings(bars, Lookback)
     /\ breaks \ first(breaks) = batch \ first(batch)
     /\ {b.swing : b \in first(breaks)} = {b.swing : b \in first(batch)}
     /\ breaks # {} => signature[2] = Classify(bars, swings, batch, Len(bars))

(* The active gaps and blocks are those of the whole series that no close  *)
(* has passed since they formed, and the active pools the clusters of the  *)
(* swings that no close had passed when they were first seen and no wick   *)
(* since: a boundary of one zone never takes another with it, and a zone   *)
(* that ended does not come back.                                          *)
ZonesAsDefined ==
  LET batch == DetectStructureBreaks(bars, swings, Lookback)
      formed == (UNION {FairValueGaps(bars, i) : i \in DOMAIN bars}) \cup OrderBlocks(bars, batch, Leg)
      known(k) == {s \in swings : s.index + Lookback <= k}
      seen(k) == IF known(k) = known(k - 1) THEN {}
                 ELSE LiquidityPools(LastSwings(known(k), PoolWindow), Tolerance)
      first(p) == Min({k \in DOMAIN bars : p \in seen(k)})
      pools == UNION {seen(k) : k \in DOMAIN bars}
  IN zones = {z \in formed : \A k \in z.id[2]..Len(bars) : ~ClosedThrough(z, bars[k])}
               \cup {p \in pools : /\ ~Passed(p, bars[first(p)].close, bars[first(p)].close)
                                   /\ \A k \in (first(p) + 1)..Len(bars) :
                                        ~Passed(p, bars[k].low, bars[k].high)}

(* The structure that live trading sees is that of research.               *)
LiveIsResearch == StreamIsBatch /\ ZonesAsDefined
=============================================================================
