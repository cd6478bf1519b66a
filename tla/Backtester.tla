----------------------------- MODULE Backtester -----------------------------
(***************************************************************************)
(* The event loop of research_engine/backtester.py: what one bar does to   *)
(* the queue of intents, to the open position and to its stop, and what    *)
(* the strategy may answer at the bar's close.  Prices are integers, bars  *)
(* are quoted at the bid and the ask is Spread above it; timestamps are    *)
(* hours since a midnight.  Money (commission, conversion, balance, equity *)
(* curve, statistics) only reads this state and is left out; the           *)
(* volatility reserve of the slippage is the constant Slippage.            *)
(***************************************************************************)
EXTENDS Integers, Sequences

CONSTANTS
  Prices,      \* the bid prices a bar can quote, positive integers
  Spread,      \* ask minus bid
  Slippage,    \* what a market execution loses
  Intents,     \* what a strategy can emit, records of Intent
  MaxSignals,  \* the intents of one bar
  Gaps,        \* the hours between the timestamps of two bars
  Starts,      \* the hour of the first bar
  MaxBars,
  Flat         \* no position, no trade, no bar

NoPrice == 0
Price == Nat \ {0}

Intent == [side: {"BUY", "SELL"}, type: {"MARKET", "LIMIT"}, limit: Nat,
           stop: Nat, target: Nat]

ASSUME BacktesterAssumption ==
  /\ Prices \subseteq Price
  /\ Spread \in Nat /\ Slippage \in Nat
  /\ Intents \subseteq Intent
  /\ \A i \in Intents : i.type = "LIMIT" => i.limit \in Price
  /\ Gaps \subseteq Nat \ {0} /\ Starts \subseteq Nat
  /\ MaxBars \in Nat /\ MaxSignals \in Nat

VARIABLES
  phase,   \* "market": the next row is due; "strategy": its close is delivered
  n,       \* bars so far
  now,     \* the timestamp of the last bar
  bar,     \* the last bar
  queue,   \* pending_intents, each with the bar that emitted it
  pos,     \* open_position and open_intent, or Flat
  stop,    \* active_stop_loss
  leave,   \* whether scheduled_exit_reason is set
  trade    \* the last element of trades, or Flat: a history variable

backtestVars == <<phase, n, now, bar, queue, pos, stop, leave, trade>>

Lesser(a, b) == IF a < b THEN a ELSE b
Greater(a, b) == IF a > b THEN a ELSE b

Bars == {q \in [open: Prices, high: Prices, low: Prices, close: Prices] :
           /\ q.low <= q.open /\ q.open <= q.high
           /\ q.low <= q.close /\ q.close <= q.high}

Ask(p) == p + Spread

(* The levels a strategy may propose for a stop.                           *)
Levels == Prices \cup {Ask(p) : p \in Prices}

-----------------------------------------------------------------------------
(* Step 1 of a bar: the head of the queue against the bar.  A LIMIT fills  *)
(* on a touch, at the open when the bar opens through it; NoPrice is no    *)
(* touch.  A MARKET intent fills at the open and pays the slippage.        *)
FillPrice(i, q) ==
  CASE i.type = "LIMIT" /\ i.side = "BUY" ->
         IF Ask(q.low) <= i.limit THEN Lesser(Ask(q.open), i.limit) ELSE NoPrice
    [] i.type = "LIMIT" /\ i.side = "SELL" ->
         IF q.high >= i.limit THEN Greater(q.open, i.limit) ELSE NoPrice
    [] i.type = "MARKET" /\ i.side = "BUY" -> Ask(q.open) + Slippage
    [] OTHER -> Greater(0, q.open - Slippage)

(* Whether a fill happens at the bar's open, not later within the bar.     *)
AtOpen(i, q) ==
  \/ i.type = "MARKET"
  \/ i.side = "BUY" /\ Ask(q.open) <= i.limit
  \/ i.side = "SELL" /\ q.open >= i.limit

(* Mutant of ResolvePending: a fill leaves the rest of the queue in place. *)
ResolveOne(b, q, t) ==
  IF b.queue = <<>> \/ b.pos # Flat THEN b
  ELSE LET h == Head(b.queue)
           i == h.intent
           price == FillPrice(i, q)
       IN IF i.type = "LIMIT" /\ price = NoPrice
            THEN b
            ELSE [b EXCEPT !.queue = Tail(@), !.stop = i.stop,
                           !.pos = [side |-> i.side, type |-> i.type, entry |-> price,
                                    risk |-> i.stop, target |-> i.target,
                                    signal |-> h.at, bar |-> n + 1, before |-> now,
                                    opened |-> t, swaps |-> 0, atOpen |-> AtOpen(i, q)]]

(* A MARKET fill is one whatever its price; the queue keeps at most the    *)
(* limit order that was not touched.                                       *)
ResolvePending(b, q, t) ==
  IF b.queue = <<>> \/ b.pos # Flat THEN b
  ELSE LET h == Head(b.queue)
           i == h.intent
           price == FillPrice(i, q)
       IN IF i.type = "LIMIT" /\ price = NoPrice
            THEN [b EXCEPT !.queue = <<h>>]
            ELSE [b EXCEPT !.queue = <<>>, !.stop = i.stop,
                           !.pos = [side |-> i.side, type |-> i.type, entry |-> price,
                                    risk |-> i.stop, target |-> i.target,
                                    signal |-> h.at, bar |-> n + 1, before |-> now,
                                    opened |-> t, swaps |-> 0, atOpen |-> AtOpen(i, q)]]

(* trades.append, and the four variables reset.                            *)
Close(b, price, why) ==
  [b EXCEPT !.pos = Flat, !.stop = NoPrice, !.leave = FALSE,
            !.trade = [pos |-> b.pos, stop |-> b.stop, exit |-> price,
                       why |-> why, bar |-> n + 1]]

MarketExit(side, quote) ==
  IF side = "BUY" THEN Greater(0, quote - Slippage) ELSE Ask(quote) + Slippage

ScheduledExit(b, q) ==
  IF b.pos # Flat /\ b.leave
    THEN [Close(b, MarketExit(b.pos.side, q.open), "SCHEDULED") EXCEPT !.queue = <<>>]
    ELSE b

Hour(t) == t % 24
Day(t) == t \div 24

(* Mutant of RolloverDue: the bar at 21:00 itself does not count.          *)
RolloverDueAfter(prev, t) ==
  \/ Hour(prev) < 21 /\ 21 < Hour(t)
  \/ Day(prev) < Day(t) /\ Hour(t) >= 21

(* Step 2: the test for a 21:00 between the timestamps of two bars.        *)
RolloverDue(prev, t) ==
  \/ Hour(prev) < 21 /\ 21 <= Hour(t)
  \/ Day(prev) < Day(t) /\ Hour(t) >= 21

Rollover(b, t) ==
  IF b.pos # Flat /\ n > 0 /\ RolloverDue(now, t)
    THEN [b EXCEPT !.pos.swaps = @ + 1]
    ELSE b

(* Step 3: stop and target within the bar, the stop first.                 *)
StopHit(side, s, q) ==
  s # NoPrice /\ IF side = "BUY" THEN q.low <= s ELSE Ask(q.high) >= s

TargetHit(side, t, q) ==
  t # NoPrice /\ IF side = "BUY" THEN q.high >= t ELSE Ask(q.low) <= t

StopPrice(side, s, q) ==
  IF side = "BUY" THEN Lesser(q.open, s) - Slippage ELSE Greater(Ask(q.open), s) + Slippage

TargetPrice(side, t, q) ==
  IF side = "BUY" THEN Greater(q.open, t) - Slippage ELSE Lesser(Ask(q.open), t) + Slippage

(* Mutant of StopOrTarget: the target first.                               *)
TargetOrStop(b, q) ==
  IF b.pos = Flat THEN b
  ELSE CASE TargetHit(b.pos.side, b.pos.target, q) ->
              Close(b, TargetPrice(b.pos.side, b.pos.target, q), "TARGET")
         [] StopHit(b.pos.side, b.stop, q) /\ ~TargetHit(b.pos.side, b.pos.target, q) ->
              Close(b, StopPrice(b.pos.side, b.stop, q), "STOP")
         [] OTHER -> b

StopOrTarget(b, q) ==
  IF b.pos = Flat THEN b
  ELSE CASE StopHit(b.pos.side, b.stop, q) ->
              Close(b, StopPrice(b.pos.side, b.stop, q), "STOP")
         [] TargetHit(b.pos.side, b.pos.target, q) /\ ~StopHit(b.pos.side, b.stop, q) ->
              Close(b, TargetPrice(b.pos.side, b.pos.target, q), "TARGET")
         [] OTHER -> b

-----------------------------------------------------------------------------
Book == [queue |-> queue, pos |-> pos, stop |-> stop, leave |-> leave, trade |-> trade]

SetBook(b) ==
  /\ queue' = b.queue
  /\ pos' = b.pos
  /\ stop' = b.stop
  /\ leave' = b.leave
  /\ trade' = b.trade

(* Steps 1 to 3 of run for the next row.                                   *)
Row(q, t) ==
  /\ phase = "market"
  /\ n < MaxBars
  /\ SetBook(StopOrTarget(Rollover(ScheduledExit(ResolvePending(Book, q, t), q), t), q))
  /\ bar' = q
  /\ now' = t
  /\ n' = n + 1
  /\ phase' = "strategy"

(* Mutant of Ratchets: a wider stop is taken too.                          *)
RatchetsEitherWay(side, proposed) ==
  /\ proposed # NoPrice
  /\ IF side = "BUY" THEN proposed < bar.close ELSE proposed > Ask(bar.close)

(* Whether a proposed stop replaces the active one: only a tighter stop,   *)
(* and only on the far side of the close.                                  *)
Ratchets(side, proposed) ==
  /\ proposed # NoPrice
  /\ IF side = "BUY"
       THEN proposed < bar.close /\ (stop = NoPrice \/ proposed > stop)
       ELSE proposed > Ask(bar.close) /\ (stop = NoPrice \/ proposed < stop)

(* Step 4 while flat: the strategy's intents wait for the next row.        *)
Signal(emitted) ==
  /\ phase = "strategy"
  /\ pos = Flat
  /\ queue' = queue \o [k \in DOMAIN emitted |-> [intent |-> emitted[k], at |-> n]]
  /\ phase' = "market"
  /\ UNCHANGED <<n, now, bar, pos, stop, leave, trade>>

(* Step 4 with a position: intents are dropped, manage_open_position may   *)
(* tighten the stop and schedule a market exit for the next open.          *)
Manage(proposed, exit) ==
  /\ phase = "strategy"
  /\ pos # Flat
  /\ stop' = IF Ratchets(pos.side, proposed) THEN proposed ELSE stop
  /\ leave' = (leave \/ exit)
  /\ phase' = "market"
  /\ UNCHANGED <<n, now, bar, queue, pos, trade>>

(* The rows are used up: an open position is liquidated at the last close. *)
Liquidate ==
  /\ phase = "market"
  /\ n > 0
  /\ IF pos = Flat
       THEN UNCHANGED <<queue, pos, stop, leave, trade>>
       ELSE /\ trade' = [pos |-> pos, stop |-> stop, why |-> "END", bar |-> n,
                         exit |-> MarketExit(pos.side, bar.close)]
            /\ pos' = Flat
            /\ UNCHANGED <<queue, stop, leave>>
  /\ phase' = "done"
  /\ UNCHANGED <<n, now, bar>>

BacktestInit ==
  /\ phase = "market"
  /\ n = 0
  /\ now \in Starts
  /\ bar = Flat
  /\ queue = <<>>
  /\ pos = Flat
  /\ stop = NoPrice
  /\ leave = FALSE
  /\ trade = Flat

Emissions == UNION {[1..k -> Intents] : k \in 0..MaxSignals}

BacktestNext ==
  \/ \E q \in Bars, g \in Gaps : Row(q, now + g)
  \/ \E emitted \in Emissions : Signal(emitted)
  \/ \E proposed \in Levels \cup {NoPrice}, exit \in BOOLEAN : Manage(proposed, exit)
  \/ Liquidate

BacktestSpec == BacktestInit /\ [][BacktestNext]_backtestVars

-----------------------------------------------------------------------------
(* Both ways to walk through a bar, as the value of closing the position:  *)
(* larger is better, whatever the side.                                    *)
Worth(side, p) == IF side = "BUY" THEN p ELSE -Ask(p)
WorthOfLevel(side, p) == IF side = "BUY" THEN p ELSE -p

Paths(side, q) ==
  LET w(p) == Worth(side, p)
  IN {<<w(q.open), w(q.low), w(q.high), w(q.close)>>,
      <<w(q.open), w(q.high), w(q.low), w(q.close)>>}

AtStop(side, s, x) == s # NoPrice /\ x <= WorthOfLevel(side, s)
AtTarget(side, t, x) == t # NoPrice /\ x >= WorthOfLevel(side, t)

Touches(path, side, s, t) == {k \in 1..4 : AtStop(side, s, path[k]) \/ AtTarget(side, t, path[k])}

(* Where a walk along the path leaves the position: at the open when that  *)
(* is beyond a level already, else at the first level it meets.            *)
PathExit(path, side, s, t) ==
  LET k == CHOOSE j \in Touches(path, side, s, t) :
             \A m \in Touches(path, side, s, t) : j <= m
  IN IF k = 1 THEN path[1]
     ELSE IF AtStop(side, s, path[k]) THEN WorthOfLevel(side, s) ELSE WorthOfLevel(side, t)

(* The last trade ended within the last bar, by its stop or its target.    *)
JustHit == phase = "strategy" /\ trade # Flat /\ trade.bar = n /\ trade.why \in {"STOP", "TARGET"}

(* A position held since the open of the bar.                              *)
FromOpen(p) == p.bar < n \/ p.atOpen

(* The times t of (a, b] with Hour(t) = 21.                                *)
Rollovers(a, b) == (b + 3) \div 24 - (a + 3) \div 24

-----------------------------------------------------------------------------
(* "Order intents generated on bar[t] are filled at bar[t+1].open": no     *)
(* position comes from an intent of its own bar, a MARKET order fills on   *)
(* the very next bar, and none comes from a signal older than the trade    *)
(* before it.                                                              *)
NextBarFill ==
  pos # Flat =>
    /\ pos.signal < pos.bar
    /\ pos.type = "MARKET" => pos.bar = pos.signal + 1
    /\ trade # Flat => pos.signal >= trade.bar

(* Adverse first: what the engine books for a position held since the open *)
(* is the worst that any walk through the bar gives, and a position it     *)
(* leaves open is one that no walk closes.                                 *)
AdverseFirst ==
  /\ (JustHit /\ FromOpen(trade.pos)) =>
       LET side == trade.pos.side
       IN \A path \in Paths(side, bar) :
            /\ Touches(path, side, trade.stop, trade.pos.target) # {}
            /\ WorthOfLevel(side, trade.exit) + Slippage
                 <= PathExit(path, side, trade.stop, trade.pos.target)
  /\ (phase = "strategy" /\ pos # Flat) =>
       \A path \in Paths(pos.side, bar) : Touches(path, pos.side, stop, pos.target) = {}

(* A trade never loses more than the stop it was opened with allows: its   *)
(* exit is no worse than that stop or, through a gap, the open of the bar, *)
(* whatever the strategy did with the stop in between.                     *)
RiskHolds ==
  (trade # Flat /\ trade.pos.risk # NoPrice /\ trade.bar = n) =>
    LET side == trade.pos.side
    IN WorthOfLevel(side, trade.exit) + Slippage
         >= Lesser(Worth(side, bar.open), WorthOfLevel(side, trade.pos.risk))

(* With bars at most three hours apart an open position has paid every     *)
(* rollover since it was opened, and at most the one of its first bar      *)
(* besides.                                                                *)
RolloversCharged ==
  (pos # Flat /\ \A g \in Gaps : g <= 3) =>
    /\ Rollovers(pos.opened, now) <= pos.swaps
    /\ pos.swaps <= Rollovers(pos.before, now)

(* What the book shows of any series of bars and answers.                  *)
BookedAsTraded == NextBarFill /\ AdverseFirst /\ RiskHolds /\ RolloversCharged
=============================================================================
