----------------------------- MODULE CandleFeed -----------------------------
(***************************************************************************)
(* How source bars become the closed candles of every timeframe            *)
(* (UniversalTimeframeStateEngine.update): bar by bar, with gaps in the    *)
(* feed, while research builds the same histories in one pass over all the *)
(* bars (build, aggregate_bars).  Time is counted in source intervals and  *)
(* a bar is its opening time; open, high, low and close of a candle follow *)
(* from its rows.                                                          *)
(***************************************************************************)
EXTENDS Integers, Sequences, FiniteSetsExt

CONSTANTS
  Timeframes,
  Edges,       \* for each timeframe the instants at which its candles begin and end
  FeedGaps,    \* what may lie between two bars
  LastTime

ASSUME FeedAssumption ==
  /\ LastTime \in Nat /\ FeedGaps \subseteq Nat \ {0}
  /\ \A tf \in Timeframes : /\ Edges[tf] \subseteq Nat
                            /\ 0 \in Edges[tf] /\ \E e \in Edges[tf] : e > LastTime

VARIABLES
  source,    \* history: the bars received
  groups,    \* _groups: the rows of the candle being formed
  history    \* _history: the candles pushed to the timeframe's processor

feedVars == <<source, groups, history>>

-----------------------------------------------------------------------------
BucketStart == [tf \in Timeframes |-> [t \in 0..LastTime |-> Max({e \in Edges[tf] : e <= t})]]
BucketEnd == [tf \in Timeframes |-> [t \in 0..LastTime |-> Min({e \in Edges[tf] : e > t})]]

Candle(tf, rows) == [close |-> BucketEnd[tf][Head(rows)], rows |-> rows]

(* Mutant of Stale: a gap in the feed closes no candle.                    *)
NeverStale(tf, t) == FALSE

(* The first bar of a new bucket closes the old one, whose last bars are   *)
(* missing; a bar that ends with its bucket closes that at once.           *)
Stale(tf, t) == groups[tf] # <<>> /\ BucketStart[tf][Head(groups[tf])] # BucketStart[tf][t]

Rows(tf, t) == IF Stale(tf, t) THEN <<t>> ELSE Append(groups[tf], t)

Complete(tf, t) == t + 1 = BucketEnd[tf][t]

Arrivals ==
  {t \in 0..LastTime : t - (IF source = <<>> THEN 0 ELSE source[Len(source)]) \in FeedGaps}

Closing(t) == {tf \in Timeframes : Stale(tf, t) \/ Complete(tf, t)}

FeedInit ==
  /\ source = <<>>
  /\ groups = [tf \in Timeframes |-> <<>>]
  /\ history = [tf \in Timeframes |-> <<>>]

Update(t) ==
  /\ source' = Append(source, t)
  /\ groups' = [tf \in Timeframes |-> IF Complete(tf, t) THEN <<>> ELSE Rows(tf, t)]
  /\ history' = [tf \in Timeframes |->
       history[tf] \o (IF Stale(tf, t) THEN <<Candle(tf, groups[tf])>> ELSE <<>>)
                   \o (IF Complete(tf, t) THEN <<Candle(tf, Rows(tf, t))>> ELSE <<>>)]

FeedNext == \E t \in Arrivals : Update(t)

FeedSpec == FeedInit /\ [][FeedNext]_feedVars

-----------------------------------------------------------------------------
(* aggregate_bars: the bars, sorted, of each bucket, of the buckets that    *)
(* have closed by the end of the last bar.                                 *)
Ascending(S) ==
  [k \in 1..Cardinality(S) |-> CHOOSE x \in {y \in S : Cardinality({z \in S : z < y}) = k - 1} : TRUE]

AggregateBars(bars, tf) ==
  LET times == {bars[i] : i \in DOMAIN bars}
      through == IF bars = <<>> THEN 0 ELSE bars[Len(bars)] + 1
      rows(start) == Ascending({t \in times : BucketStart[tf][t] = start})
      closed == {e \in {BucketStart[tf][t] : t \in times} : BucketEnd[tf][e] <= through}
  IN [k \in 1..Cardinality(closed) |-> Candle(tf, rows(Ascending(closed)[k]))]

(* "A target candle is published only after its exclusive close boundary": *)
(* at every moment the candles the strategies have seen are those a        *)
(* research build over the same bars yields, so none is early, cut short,  *)
(* dropped at a gap or published twice.                                    *)
CandlesAsBuilt == \A tf \in Timeframes : history[tf] = AggregateBars(source, tf)
=============================================================================
