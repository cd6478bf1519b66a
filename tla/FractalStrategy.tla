--------------------------- MODULE FractalStrategy ---------------------------
(***************************************************************************)
(* The institutional fractal strategy (strategy_engine/                    *)
(* fractal_institutional.py, on_bar) on the candles of CandleFeed, for one *)
(* symbol.  Sets of three adjacent timeframes look for an entry at once;   *)
(* a movement, the structural leg of the finest candle that has just       *)
(* closed, may be entered once.  What a closed candle shows (trend, break, *)
(* place in the range) is any of Outcomes, and prices are left out: an     *)
(* eligible set may or may not trigger and pass the checks of              *)
(* _build_entry, and any of the candidates may be the best.  The leg of    *)
(* the highest timeframe of a set, an audit tag, is left out.              *)
(***************************************************************************)
EXTENDS CandleFeed

CONSTANTS
  Ladder,    \* the timeframes, from the coarsest to the finest
  Outcomes,  \* what a closed candle may show: [broke, drift, place]
  Patience   \* how long a resting limit order counts as active

(* A candle ends where some candle of any finer timeframe does, except     *)
(* that a month need not end with a week (timeframe_bucket_start).         *)
ASSUME StrategyAssumption ==
  /\ Ladder \in Seq(Timeframes) /\ Ladder # <<>>
  /\ Timeframes = {Ladder[k] : k \in DOMAIN Ladder}
  /\ \A i, j \in DOMAIN Ladder : i # j => Ladder[i] # Ladder[j]
  /\ \A i, j \in DOMAIN Ladder : i < j /\ j >= 3 => Edges[Ladder[i]] \subseteq Edges[Ladder[j]]
  /\ \A o \in Outcomes : o.broke \in -1..1 /\ o.drift \in -1..1 /\ o.place \in 0..100

VARIABLES
  state,    \* get_state of every timeframe; closed = 0: none yet
  leg,      \* _movement_sequence, _direction and _signature
  used,     \* _used_movements
  resting,  \* _active_limit_order_setups
  fineLeg,  \* history: the leg of the finest timeframe by itself, ...
  lone,     \* ... the bars at which the movement was a lone candle's, ...
  entries   \* ... and the entries, each with the leg of the finest timeframe

strategyVars == <<feedVars, state, leg, used, resting, fineLeg, lone, entries>>

Finest == Ladder[Len(Ladder)]
SetKeys == 1..(Len(Ladder) - 2)

-----------------------------------------------------------------------------
(* The published state after a candle: before the first break the trend is *)
(* that of the swings, then that of the last break.                        *)
Published(old, o, close) ==
  [trend |-> IF o.broke # 0 THEN o.broke ELSE IF old.breaks > 0 THEN old.trend ELSE o.drift,
   breaks |-> IF o.broke # 0 THEN old.breaks + 1 ELSE old.breaks,
   place |-> o.place, closed |-> close]

(* A new leg begins with every break, and before the first break with      *)
(* every turn; a trend of 0 changes nothing.                               *)
Advance(l, tf, s) ==
  LET signature == <<tf, s.trend, s.breaks, IF s.breaks = 0 THEN s.closed ELSE 0>>
  IN IF \/ s.trend = 0
        \/ s.breaks = 0 /\ l.direction = s.trend
        \/ s.breaks > 0 /\ l.signature = signature
       THEN l
       ELSE [sequence |-> l.sequence + 1, direction |-> s.trend, signature |-> signature]

(* CascadingFractalCoordinator: what trend and place of the highest        *)
(* timeframe let a set expect.                                             *)
Hypothesis(s) ==
  CASE s.trend > 0 /\ s.place <= 35 -> 1
    [] s.trend > 0 /\ s.place >= 65 -> -1
    [] s.trend < 0 /\ s.place >= 65 -> -1
    [] s.trend < 0 /\ s.place <= 35 -> 1
    [] OTHER -> 0

LocationMatches(s, direction) == IF direction > 0 THEN s.place <= 70 ELSE s.place >= 30

(* Mutant of Eligible: a trigger as old as the middle timeframe is fresh.  *)
EligibleAtOnce(k, S, closed) ==
  LET htf == S[Ladder[k]]
      mtf == S[Ladder[k + 1]]
      direction == Hypothesis(htf)
  IN /\ Ladder[k + 2] \in closed
     /\ htf.closed > 0 /\ mtf.closed > 0
     /\ direction # 0 /\ mtf.trend = direction /\ LocationMatches(mtf, direction)
     /\ S[Ladder[k + 2]].closed >= mtf.closed
     /\ k > 1 /\ S[Ladder[k - 1]].closed > 0 => S[Ladder[k - 1]].trend = direction

(* A set may trigger when its lowest timeframe has just closed, later than *)
(* the middle one, which confirms the hypothesis, and the timeframe above  *)
(* the set, if it has a state, agrees.                                     *)
Eligible(k, S, closed) ==
  LET htf == S[Ladder[k]]
      mtf == S[Ladder[k + 1]]
      ltf == S[Ladder[k + 2]]
      direction == Hypothesis(htf)
  IN /\ Ladder[k + 2] \in closed
     /\ htf.closed > 0 /\ mtf.closed > 0
     /\ direction # 0 /\ mtf.trend = direction /\ LocationMatches(mtf, direction)
     /\ ltf.closed > mtf.closed
     /\ k > 1 /\ S[Ladder[k - 1]].closed > 0 => S[Ladder[k - 1]].trend = direction

(* Mutant of MayEnter: any leg.                                            *)
MayAlwaysEnter(sequence) == sequence > 0

(* A leg is entered once.                                                  *)
MayEnter(sequence) == sequence > 0 /\ sequence \notin used

-----------------------------------------------------------------------------
NoState == [trend |-> 0, breaks |-> 0, place |-> 0, closed |-> 0]
NoLeg == [sequence |-> 0, direction |-> 0, signature |-> <<>>]

StrategyInit ==
  /\ FeedInit
  /\ state = [tf \in Timeframes |-> NoState]
  /\ leg = NoLeg /\ used = {} /\ resting = {}
  /\ fineLeg = NoLeg /\ lone = {} /\ entries = {}

(* The movement is that of a coarser candle that closed alone after a gap, *)
(* and the finest timeframe has shown no trend since.                      *)
Astray == source # <<>> /\ source[Len(source)] \in lone

(* A bar arrives; the candles that close, each with its outcome, are       *)
(* published, the movement advances and resting orders expire, whether or  *)
(* not the session and loss filters let the strategy trade; candidates are *)
(* the eligible sets whose trigger and entry pass, none if a filter says   *)
(* no.  All entries are limit orders.                                      *)
OnBar(t, outcome, candidates) ==
  LET closed == DOMAIN outcome
      finest == Ladder[Max({k \in DOMAIN Ladder : Ladder[k] \in closed})]
      sequence == leg'.sequence
      kept == {r \in resting : t - r.at <= Patience}
      sides == {Hypothesis(state'[Ladder[k]]) : k \in candidates}
  IN /\ Update(t)
     /\ state' = [tf \in Timeframes |->
          IF tf \in closed
            THEN Published(state[tf], outcome[tf], history'[tf][Len(history'[tf])].close)
            ELSE state[tf]]
     /\ leg' = IF closed = {} THEN leg ELSE Advance(leg, finest, state'[finest])
     /\ \A k \in candidates :
          MayEnter(sequence) /\ Eligible(k, state', closed)
     /\ resting' = kept \cup {[set |-> k, leg |-> sequence, at |-> t] :
          k \in {k \in candidates : \A r \in kept : r.set # k \/ r.leg # sequence}}
     /\ used' = IF candidates = {} THEN used ELSE used \cup {sequence}
     /\ fineLeg' = IF Finest \in closed THEN Advance(fineLeg, Finest, state'[Finest]) ELSE fineLeg
     /\ lone' = IF \/ closed # {} /\ finest # Finest /\ leg' # leg
                   \/ Astray /\ ~(Finest \in closed /\ state'[Finest].trend # 0)
                  THEN lone \cup {t} ELSE lone
     /\ entries' = IF Cardinality(sides) = 1
                     THEN entries \cup {[leg |-> fineLeg'.sequence, at |-> t]}
                     ELSE entries

StrategyNext ==
  \E t \in Arrivals :
    \E outcome \in [Closing(t) -> Outcomes],
       candidates \in SUBSET {k \in SetKeys : Ladder[k + 2] \in Closing(t)} :
      OnBar(t, outcome, candidates)

StrategySpec == StrategyInit /\ [][StrategyNext]_strategyVars

-----------------------------------------------------------------------------
(* "One active 3M structural leg can produce at most one entry across      *)
(* overlapping views."  It can produce two when, after a gap in the feed,  *)
(* a coarser candle closes alone: the movement is then that candle's leg,  *)
(* and when the finest timeframe shows its trend again its old leg gets a  *)
(* new number, which no entry has used.                                    *)
OneEntryPerLeg == \A e, f \in entries : e.leg = f.leg => e = f

(* Nothing else gives a leg a second entry: not overlapping sets, a        *)
(* conflict that was dropped, a filter that stood in between or a break    *)
(* on another timeframe.                                                   *)
SecondEntryOnlyAfterLoneClose ==
  \A e, f \in entries :
    e.leg = f.leg /\ e.at < f.at => \E t \in lone : e.at <= t /\ t <= f.at

(* "Multiple sets may discover it, but the runtime ledger allocates only   *)
(* the highest net-RR valid expression": since all finer candles close     *)
(* together with a coarser one, and a trigger must be later than the       *)
(* middle timeframe, two sets find an entry on the same bar only when it   *)
(* publishes a candle that a gap in the feed has delayed.                  *)
OverlapOnlyAfterGap ==
  [][\A r, q \in resting' \ resting :
       r.set # q.set => \E tf \in Timeframes : Stale(tf, source'[Len(source')])]_strategyVars

(* A leg is traded once and by one set, but for what gaps do.              *)
LegsTradedOnce == []SecondEntryOnlyAfterLoneClose /\ OverlapOnlyAfterGap
=============================================================================
