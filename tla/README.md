# TLA+ verification of forex_platform

The paths below are relative to `src/forex_platform/` unless they begin with `src/`.

## 1. The system

forex_platform is a Python trading platform. Its production half is one process: an HTTP API whose
request threads, a handful of supervisor loops and an operator's commands all work on the same
in-memory objects, mostly without a common lock, in front of one or more remote MT5 agents and a
SQLite database. Beside it stand an auto-trading controller with threads of its own, a paper-trading
daemon on a SQLite ledger, a learning pipeline that promotes strategies, and an evolution daemon.
Its research half is a set of programs that an operator starts by hand: downloaders, backtests,
sweeps and discovery pipelines. They share files without locks, replay bars through the same
structure engine the live strategy uses, and decide which strategies deserve promotion.

### 1.1 Components

| Component (source) | State | Operations | What makes it correct |
|---|---|---|---|
| Order lifecycle (`order_management/state_machine.py`) | one state per order | `transition_to` | only moves of the table; terminal states are final |
| Execution service (`production/execution.py`) | none of its own; drives everything below | `submit_intent`, `submit_targets`, `reconcile`, `flatten_all`, `cancel` | an order leaves only with every covering kill switch unarmed and its row written; it is not executed without limit; requests return; divergence is noticed |
| Kill switches (`risk_engine/kill_switches.py`) | armed flags: global, tenant, broker, pair, strategy | `arm_*`, `disarm_*`, `is_killed` | an armed switch stops what it covers |
| Firewall (`risk_engine/firewall.py`) | references to breaker and switches | `evaluate` (tiers 1 to 5) | fail closed; run twice per order: by the risk kernel and by the OMS |
| Circuit breaker (`risk_engine/circuit_breakers.py`) | equity, daily open, high-water mark, date, two latched flags | `update_equity`, called by the risk loop and by every firewall evaluation | a loss of 4% of the day halts, a drawdown of 10% is SAFE_MODE; neither is undone by a race |
| Exposure governor, allocator (`portfolio_engine/`) | none; read the OMS positions | `evaluate_intent`, `_attempt_downsize`, `allocate` | the search is exact; the cap is broken only in ways that can be named; targets are reached |
| Router (`order_management/router.py`) | idempotency cache | `route_intent`, `slice_intent` | one set of child orders per intent |
| OMS (`order_management/oms.py`) | orders, state machines, filled units, net positions | `submit_intent`, `acknowledge_order`, `process_fill`, `cancel_order`, `mark_order_unknown` | positions are the sum of the fills; an order that may be executed is UNKNOWN and locks its pair |
| Broker registry, remote adapter (`production/brokers.py`) | accounts, priorities, connections | `send_order` (retries, failover), `positions`, `cancel` | a bounded number of attempts |
| MT5 agent (`src/tools/mt5_agent.py`) | the terminal's book | `order`, `positions`, `cancel` | outside this process; answers may be lost |
| Order repository (`production/store.py`) | tables `orders`, `fills` | `upsert_order`, `add_fill` | the journal is ahead of the brokers; survives crashes |
| Runtime (`production/runtime.py`) | the object graph, supervisor threads | construction, `start`, `stop`, loops, operator commands | loops never die; a restart loses memory only |
| Auto-trading controller (`auto_trading/controller.py`) | status, per-account manager state, two kinds of monitor thread, stop events | `start`, `stop`, monitor loops, order path from the feed's callback | a lost connection is retried within bounds; nothing is up after stop but for named reasons; monitors end; positions are known |
| Paper trading (`paper_trading/daemon.py`, `persistence.py`) | OMS in memory; SQLite ledger of orders, fills, one position row, snapshots | event handler, `recover_state` | what is recovered is what was saved; a crash costs a bounded amount |
| Learning (`production/learning.py`) | candidates, champions, history, promotions | `register_candidate`, `promote`, `rollback` | a champion passed; a rollback undoes the latest change; stages follow the record |
| Evolution daemon (`execution/autonomous_forex_daemon.py`) | registry of variants, generation | propose, register result | one incumbent, beaten only by better ones |
| Backtester (`research_engine/backtester.py`) | queue of intents, one position, its stop | `run`, bar by bar | no fill on the signal's own bar; adverse path first; risk bounded by the first stop; every rollover charged |
| Candle feed and structure (`fractal_engine/state_engine.py`) | groups of rows, swing heaps, breaks, zones, ranges | `update`, `push`, `build` | streaming equals batch |
| Market model (`market_model/`) | none: rules over whole series | detectors | the reference of the structure engine |
| Fractal strategy (`strategy_engine/fractal_institutional.py`) | movement ledger, resting setups | `on_bar` | one entry per structural leg |
| Set reads (`fractal_engine/requirements.py`, `state_graph.py`, `consistency.py`, `hypothesis_engine.py`, `research.py`) | none: joins over histories | lifecycles, views, verdicts, hypotheses | nothing said of an instant changes later |
| History cache (`market_data/historical_fetcher.py`) | a Parquet file and its classification | downloaders, pipeline, calibration, sweep | what is served as real is real; real bars are not lost |
| Research sweep (`src/research/sweeper.py`) | `experiments.json`, table of survivors | gates, merge, render | no record is clobbered; table and store agree |
| Correlated sets (`src/research/correlated_engine/`) | open trade per set | `run_set`, `run_pair` on three clocks | the three backtests tell one story |
| Discovery (`research_engine/walkforward.py`, `evaluate.py`, `discovery/`) | artifacts in `research/promoted` | partitions, gates, verdicts, matrix correction | a promotion is earned on disjoint data; false discoveries are bounded |

The remaining parts (position reconciler, news and fundamentals, security and live gate,
observability, HTTP dispatch and CLI, risk analytics, costs, sessions, instruments, the in-memory
broker adapters) are in `components` of `PROJECT.json` with the reason why they are not modelled:
nothing composes them, or they are I/O, configuration, tables or formulas without state.

### 1.2 How they interact

    HTTP request --> RiskKernel.evaluate --> exposure governor, firewall --> kill switch, breaker
    --> OMS.submit_intent   --> firewall again (without positions: no governor) --> router:
    deduplicate or slice --> new state machine per child --> for each child: orders row PENDING -->
    registry.send_order --> account 1, again up to broker_max_retries times --> account 2, ...
    --> MT5 agent --> terminal acknowledgement --> OMS acknowledge, process_fill --> position fills
    row --> orders row all routes failed --> UNKNOWN, pair locked --> row REJECTED

    submit_targets:   OMS positions --> allocator --> one submit_intent per pair reconcile loop:
    registry.positions --> OMS positions --> arm the pair on a difference risk loop:        broker
    equity      --> breaker.update_equity operator:         arm, disarm, flatten_all, cancel

    controller:       feed callback --> strategy --> own OMS --> first account's adapter start /
    stop <--> health monitor per account, controller monitor paper daemon:     event --> rollover,
    strategy, own OMS --> order, fill, order, position, snapshot: five transactions --> SQLite -->
    recover_state learning:         promote --> stage, promotion record --> champions, history (two
    keys)

    downloaders, pipeline, calibration, sweep --> Parquet + classification (no lock) bars --> candle
    feed --> structure per timeframe --> set reads, fractal strategy bars --> backtester -->
    walk-forward parts --> gates --> artifact (two writes) sweep --> gates --> experiments.json -->
    SURVIVING_EDGES.md

### 1.3 What is hard

- Threads interleave between any two accesses of shared objects: the kill switch is read twice and
  used later; two threads can work on the same cached order; position attribution and
  `update_equity` take no lock; the governor judges an order on positions that other orders are
  about to change.
- Two monitors watch each account of the controller, test and write the manager's state without its
  lock and sleep inside a reconnect for longer than `stop` waits for them.
- Answers of `POST /v1/orders` are lost and the order is posted again. One account's failure sends
  the order to the next.
- The process dies between row, send and acknowledgement, and nothing in memory is rebuilt; the
  paper daemon dies between two of its five saves; a promotion is cut short between the stage, the
  record and the champion; a verdict is published in two writes.
- Promotions and rollbacks overlap: champions and history are two keys, each read, changed and
  written back whole. Sweeps read, merge and rewrite their store. The history cache and its
  classification are two files that several programs rewrite in place.
- A fill that overshoots a position leaves the OMS flat and the broker reversed.
- Streaming structure has to agree with batch rules; the feed has gaps; timeframes close at
  different moments, coarse ones sometimes alone, and are joined by time.
- The strategy may have several intents queued while a limit order rests untouched; a bar holds both
  the stop and the target.
- Many hypotheses are tested at once, on parts of one history.

The full list, each entry at its line with the properties that cover it, is `hazards` in
`PROJECT.json`.

## 2. Modules

| Module | What it is |
|---|---|
| `OrderLifecycle` | transition table of the order state machine, as data |
| `OrderGateway` | abstract specification: what the write path promises whatever fails |
| `Execution` | the write path with everything it drives; EXTENDS `OrderLifecycle`, refines `OrderGateway` |
| `CircuitBreaker` | the breaker between risk loop, request threads, midnight and restart |
| `AutoTrading` | the controller: start, stop, monitors, connections, order path |
| `ExposureGovernor` | exposure matrix, governor, allocator, and the calls that use them |
| `PaperTrading` | the paper daemon on its ledger, with crashes |
| `Learning` | candidates, promotions, champions, rollback |
| `Evolution` | the evolution lab across restarts |
| `Backtester` | the event loop of the backtester |
| `CandleFeed` | source bars to closed candles, with gaps |
| `MarketModel` | batch rules of swings, breaks, trend, phase, zones |
| `MarketStructure` | the streaming structure of one timeframe; EXTENDS `MarketModel` |
| `FractalStrategy` | `on_bar` of the fractal strategy; EXTENDS `CandleFeed` |
| `SetReads` | what the fractal engine derives from closed candles of a ladder |
| `DataCache` | the history cache and the programs that share it |
| `Sweeper` | the research sweep and its two files |
| `NativeSets` | the correlated backtests on three clocks |
| `Discovery` | partitions, gates, verdicts, artifacts, the corrected matrix |
| `MCExecution`, `MCCircuitBreaker` | small instances of the write path and of the breaker |
| `MCOperations` | small instances of `AutoTrading` and `ExposureGovernor`, one part per behaviour |
| `MCResearch` | small instances of all the other modules, one part per behaviour |
| `Execution_proofs`, `ExecutionOrders_proofs` | types, journal, refinement; fills, rows, duplicates, flattening, ledger |
| `CircuitBreaker_proofs`, `PaperTrading_proofs` | the theorems about the module of that name |
| `Operations_proofs` | theorems about `AutoTrading` and `ExposureGovernor` |
| `Learning_proofs` | theorems about `Learning` and `Evolution` |
| `Strategies_proofs` | theorems about `MarketStructure`, `NativeSets` and `SetReads` |
| `Research_proofs` | theorems about `DataCache`, `Sweeper`, `Backtester`, `CandleFeed`, `FractalStrategy` and `Discovery` |

The components around the order path and of the research side share no state, so `MCOperations` and
`MCResearch` run each of them as a *part*: a variable chosen at the beginning says which part a
behaviour runs, the others stay as they begin.

### 2.1 Execution

A thread's step is one access of `submit_intent` to state others share. Its program counter stands
for the place in the source:

| pc | next access | actions |
|---|---|---|
| idle | risk kernel asks the kill switch | `Submit` |
| checked | OMS firewall asks it again | `OmsClear`, `OmsReject` |
| cleared | remaining tiers, routing, new state machines | `OmsRoute`, `OmsReject` |
| loop | the row of the child, PENDING | `PersistPending` |
| send | the registry tries the accounts | `SendAcked`, `SendDeclined`, `SendLost`, `SendFailed`, `SendRefused`, `RoutesFailed` |
| failed | (row is REJECTED by now) order to UNKNOWN, pair locked | `MarkUnknown` |
| acked | OMS takes the acknowledgement | `Acknowledge` |
| fill, attribute | filled units and state machine; then the position | `ProcessFill`, `Attribute` |
| record, persist | the fills row; the final orders row | `RecordFill`, `PersistAck` |

`Attribute` is separate from `ProcessFill` because the OMS looks a position up and applies the fill
to the object found, with no lock: the value looked up (`seen`) may be stale, and the position may
have been closed and deleted meanwhile.

State in memory (`kills`, `cache`, `sm`, `filled`, `pos`) is emptied by `Crash`, as the runtime
builds every object anew and reads nothing back from the tables. `rows` and `fillRows` are durable.
`tickets` is every ticket the brokers ever opened, resting, open, closed or lapsed.

An execution is answered as the agent and the adapter answer it (`Answer`): FILLED if it is at least
a lot, since the agent tests `int(volume)` in lots; otherwise SUBMITTED, which the adapter turns
into PARTIALLY_FILLED when fewer units than the order's are reported, and these may be one short of
what was executed (`ReportedUnits`: `int(volume * 100000)` of a float). Only FILLED is booked as a
fill, so an order of which less than a lot was executed ends ACKED with filled units, a row
SUBMITTED or PARTIALLY_FILLED and nothing in the fills table. `RowFor` says which row goes with
which state machine and filled units.

What the brokers may do to a request: take the order wholly, in part or to rest and answer; take it
and have the answer lost; not take it and fail; refuse it (which the agent, that never looks at the
return code, reports as SUBMITTED with ticket 0); not be reachable or authorised (`SendRefused`: no
attempt is made, the next account is tried). On their own they fill, lapse and close
(`BrokerMoves`). None of this reaches the OMS, which only reconciliation makes up for.

The operator arms and disarms every level (`Arm`, `Disarm`), cancels by ticket (`Cancel`) and
flattens (`FlattenRead`, then one `FlattenTaken` or `FlattenNotTaken` per attempt). Closing orders
bypass risk kernel, OMS and orders table, as in the code.

### 2.2 OrderGateway

Five variables: armed switches, scope of each request's switches, the orders each request is cleared
for, the journal, the placed orders. A request is cleared at an instant at which no switch of its
scope is armed; orders are placed only by a request cleared for them and only from the journal; a
restart drops clearances and switches, never journal or book. `Execution!Gateway` maps it: the scope
is `Covering(req)`, the clearance is what is left in the thread's queue, the journal is the orders
with a row, and placed is every ticket that is not a flatten's.

It deliberately says nothing of a switch armed after the clearance: the code does not look again, so
the promise is about the instant of the second check (`OmsClear`).

### 2.3 CircuitBreaker

`update_equity` is cut where another caller can come between: the midnight test (`CheckDate`), the
date (`RollDate`), the daily open (`RollOpen`), the old halt (`Unhalt`), equity and comparison with
the mark (`Store`), the mark (`Raise`), the percentages (`Judge`), the rules (`SafeMode`,
`DailyHalt`), reading the flags into the status (`Answer`). Callers are the risk loop, which reports
what a broker says or, if none answers, the configured equity, and the request threads, which report
what the breaker held when their firewall read it, with the time at which their request began.
`RiskKernel` holds a lock around its own call, which excludes no firewall call. `Restart` builds the
breaker anew: mark, halt and SAFE_MODE are forgotten.

What the two percentages are computed from, the mark and the daily open, is read in one step
(`Judge`). The rules then set their flags one after the other (`SafeMode`, `DailyHalt`), and the
rollover sets the open and clears the halt one after the other (`RollOpen`, `Unhalt`), so a halt
that another caller has set by the new open may be cleared: `LossHalts` shows that the risk loop
sets it again, `HaltHoldsOnceSettled` that this is over once nobody is in the rollover.

### 2.4 AutoTrading

A monitor's program counter is its place in `_monitor_loop` / `_health_monitor_loop`: `head` (test
of the stop event, `Round`), `risk` (`RiskCheck`), `loop` (`Look`: is the account CONNECTED?),
`probe` (`Probe`: the health check, RECONNECTING), `asleep` (the thirty seconds of
`_attempt_reconnect`, `Wake`), `won`/`lost` (`Settle`: the state written once more without the
lock). `step` is the place in `start` (`connect`, `launched`) or `stop` (`join`, `health`,
`healthJoin`, `feed`, `disconnect`). A `join` with a timeout passes a monitor that has ended or is
in a sleep longer than the timeout; `start` clears the events and so revives it. Threads are indexed
by the start they belong to, so monitors of an earlier start live beside later ones. `Submit`,
`SendTaken`, `Acked`, `SendRaised`, `SendNone` are the order path.

`LateLinks` says which accounts may be up after `stop`: those a monitor that was asleep when `stop`
passed it had still to serve, or had revived (`strays`). `OneTryPerMonitor` bounds the tries since
the last success by two per start: an account whose reconnect fails is in ERROR, which no monitor
looks at, so `max_reconnect_attempts` is never reached. `PositionsKnown` relates adapters' books to
the OMS.

### 2.5 ExposureGovernor

`Exposure` and `Govern` are the matrix and the governor, `Downsize` its binary search, `Allocate`
the allocator, which takes the targets one after another (`Toward`). The steps of a request are
`Judge` (RiskKernel with the positions of that moment), then `Fill` or `Refuse`; other threads come
in between. `Fill` distinguishes what the broker executes from what the OMS books: nothing (all
answers lost, or less than a lot executed), less (a try executed twice, a float that cuts the units)
or all of it; either may be less than the order (dampening, partial fills, clips that failed).
`unbooked` counts the difference. `ExposureExplained` is `SearchIsExact` (the search finds the
largest size in steps that respects every cap), `CapBrokenInThreeWays` (a currency over its cap was
judged on other positions, sent in full after a downsize, or reversed by an overshooting fill),
`HeldAsBooked` (the broker holds the OMS position and what was executed without being booked) and
`LedToTarget` (orders of a target that were booked whole have led the broker to it, again with what
was not booked beside it), both for pairs never reversed.

### 2.6 PaperTrading

The handler's steps are `Event` (rollover), `SaveSwap`, `Routed`/`Refused`/`Repeated`
(`submit_intent`), `SaveOrder`, `Execute` or `Abort`, `SaveFill`, `SaveFilledOrder`, `SavePosition`,
`Snapshot`; each save is a transaction and `Crash` may come between any two. `Recover` reads back
what `recover_state` reads. The balance is the set of positions booked in it, so that a profit
booked twice or never is visible. `LedgerHolds` is `LedgerOrder` (the position row holds no unsaved
fill, no fill precedes its order, a FILLED row has its fill) and `BookedOnce`; `CrashCosts` is
`CrashDamage` (at most one orphaned fill and one forever active order per crash) and
`SwapsChargedOnce`.

An event says how many dates after the last one it comes and whether in the evening (from 21:00).
`RolloversBetween` is what the calendar says, `Crosses` the daemon's test of hours and dates
(`daemon.py:85`). They differ: a rollover with no event before midnight is missed, of several
rollovers before one evening event one is charged. `unwatched` counts these; `SwapsChargedOnce` says
that every other rollover of an open position is charged exactly once, but for two per crash.

### 2.7 Learning and Evolution

`Learning` cuts `promote` into stage, record and `_set_champion` (read champions, read history,
write history, write champions) and `rollback` likewise; `Die` cuts all threads short. `raced` and
`disputed` are histories: strategies whose champion requests overlapped or were cut short,
candidates promoted by two requests at once. `RegistryHolds` is `ChampionPassed` (unconditionally: a
lost update may bring back an old champion, never one that did not pass), `RollbackUndoes` (outside
`raced`: champion and history are what the requests leave when run one by one) and `StageOnRecord`
(outside `disputed`).

`Evolution` has one daemon, its registry and its restarts. `IncumbentHolds` is the invariant
`OneChampion` and the action property `BeatenOrOverwritten`: the incumbent changes only to a variant
that scores better, or back to the baseline because a mutation after a restart took its name.

### 2.8 Backtester

`Row` is steps 1 to 3 of a bar in the code's order (pending intents, scheduled exit, rollover, stop
and target), `Signal`/`Manage` is step 4 (the strategy flat or with a position), `Liquidate` the
end. Prices are integers, quotes bid with a spread, money is left out. `BookedAsTraded` is

- `NextBarFill`: no position from an intent of its own bar, MARKET fills on the very next bar, none
  from a signal older than the trade before it;
- `AdverseFirst`: what is booked is no better than what any walk through the bar gives (open, low,
  high, close or open, high, low, close), and a position left open is one no walk closes. The walks
  are stated independently of the code's tests, as values of closing the position at each point;
- `RiskHolds`: a trade loses no more than its first stop or the gap through it;
- `RolloversCharged`: with bars at most three hours apart every 21:00 is charged once.

### 2.9 CandleFeed, MarketModel, MarketStructure

`Update` of `CandleFeed` is `UniversalTimeframeStateEngine.update`: the first bar of a new bucket
closes the stale one, a bar that ends with its bucket closes it at once. `CandlesAsBuilt` compares
the histories with `aggregate_bars` over all bars. `Push` of `MarketStructure` is the processor of
one timeframe: confirmation of the pivot, the heaps of unbroken swings, breaks judged by the trend
before them, protected and weak swings, ranges, zones, pools, the signature of the snapshot.
`LiveIsResearch` is `StreamIsBatch` (swings, breaks, phase are those that `MarketModel` finds in the
whole series; only the kind of the first break may differ) and `ZonesAsDefined` (no zone ends with
another or comes back).

### 2.10 FractalStrategy

`OnBar` is one bar through candle building, published states, the movement ledger, eligible sets,
conflict resolution and resting limit orders; triggers and checks of an entry may pass or fail.
`LegsTradedOnce` is `SecondEntryOnlyAfterLoneClose` and `OverlapOnlyAfterGap`: a leg is entered
twice, or by two sets, only where a gap in the feed made a coarser candle close alone or late.
`lone` remembers the bars at which the movement was such a candle's, or still was because the finest
timeframe showed no trend (`Astray`).

### 2.11 SetReads

Batch programs over whole histories that say they use nothing later than the moment they speak of.
The model lets histories grow instant by instant and recomputes everything, with and without the
candles of the instant (`Until`). `ReadsAreCausal` is `NothingRewritten` (what is said with them
only adds to what was said without; `Lifecycle` takes one `Turn` per instant, the parent first, as
the merge of both sorted histories does), `ResolvedByFirstCause` (a requirement ends with the first
of its causes, told without the lifecycle machine) and `BridgeShared`.

### 2.12 DataCache and Sweeper

In `DataCache` a dataset is its origin and its months; each access to the Parquet file or to the
label is a step of a process; programs start, overlap and die. `met` and `disturbed` are histories
of overlaps and half-finished writes. `CacheHonest` is `TrustedIsReal` (what a program hands to
research as real is real, and a cache that nobody disturbed is what its label says) and the action
property `RealBarsGiveWay` (which steps may replace real bars).

`Sweeper` has the gates, the merge of records into the store, and the table. `ResultsAgree` is
`RecordsKept` (the store holds the last record of every experiment, except those a crossing sweep or
a cut-off file dropped) and `EdgesAgree` (the table is that of the store once nobody stores).

### 2.13 NativeSets

The correlated backtests `run_pair`, `run_set` and the native one walk the same bars with their
as-of rows. The first two round entry, stop and target to six decimals (`Rounded`, by `Grid`; prices
are integers of a finer unit), the native one does not. `SetsAgree` is `FirstTradesAgree` (the first
trade of a set is one and the same in `run_pair` and `run_set`; the native one has its direction
and, within half a rounding step, its levels, and ends alike, unless a close fell between a level
and the rounded one, which `between` remembers, or it ends by age or by the second timeframe, which
count bars: the native clock, which counts fewer, then ends it later) and `ChargedOnce` (each pair
of overlapping trades in one direction is charged once).

### 2.14 Discovery

A history is its length; partitions, rolling windows and gates are computed as the code computes
them, results of backtests are inputs. `Evaluate`, `EvaluateModel`, `Calibrate` are the programs up
to the evaluator's write, `Publish` the second write, `DieUnpublished` a death between them,
`MatrixStep` and `MatrixCorrect` the campaign. `ResearchEarned` is `TestsSound` (test windows are
disjoint and inside the history), `PromotionsEarned` (an artifact is the verdict of a candidate that
passed every gate on at least three windows, of real data where that is demanded, and is named
unless the program died) and `FamilyCorrected` (the step-up rule stated without ranks).

## 3. Runs

| Run | Instance | Shows |
|---|---|---|
| `safety` | 2 threads, 1 intent submitted twice, 2 accounts, no retry, 1 switch operation, 1 crash | `TypeOK`, `JournalBeforeExecution`, `DuplicateBound`, `FillIsReal`, refinement of `OrderGateway` |
| `ledger` | 1 thread, a buy of 3 units in clips of up to 2 and a sell of 2, a lot of 2 whose units are reported as 1, dampening by 2, 1 retry, 1 account, 1 switch operation, under fairness | `FillTableMatchesLedger`, `JournalAgrees`, `RequestsTerminate` |
| `surroundings` | 1 thread, 1 intent, 1 account, 1 retry; one each of switch operation, broker move or cancel, flatten, crash; reconciliation without limit, under fairness | `FlattenBound`, `DivergenceIsLocked`, `FlattenEnds` |
| `breaker` | 1 request thread and the risk loop, 3 equities, 1 midnight, 2 moves of the account, 1 restart, under fairness | `FloorStops`, `HaltHoldsOnceSettled`, `LossHalts`, `DrawdownStops`, `TypeOK` |
| `operations` | parts orders, restarts, exposure (3.1), under fairness | `LateLinks`, `OneTryPerMonitor`, `PositionsKnown`, `ReconnectEnds`, `MonitorsEnd`, `ExposureExplained` |
| `research` | 14 parts (3.1) | the properties of 2.6 to 2.14 |
| `resubmit` | 1 thread, an intent submitted twice | violates `TerminalIsFinal` |
| `halted` | 1 thread, 1 account | violates `HaltedBrokerReceivesNothing` |
| `retried` | 1 retry | violates `OneTicketPerSubmission` |
| `partial` | an order of 2 units | violates `FilledMeansExecuted` |
| `daily` | as `breaker`, no restart | violates `LossOfTheDayHalts` |
| `targets` | the exposure part with 1 thread, 3 requests | violates `TargetsReached` |

### 3.1 The bounds

- `safety`: two threads on one intent reach the shared cached order, the double state machine and
  the failover; either may pin the request to an account. Each of the two accounts has two ticket
  numbers, so four tickets fit: one submission may take two (one per account), so `DuplicateBound`,
  which allows two after the first submission, would be exceeded by a third attempt. Retries are 0
  here to keep two threads affordable; `ledger` and `surroundings` have 1. Orders are of one unit
  here; partial fills are in `ledger` and `partial`. Threads are symmetric; no liveness is checked
  in this run. Reconciliation is off (it only arms switches, which the operator does too).
- `ledger`: two clips make the loop over children real, dampening changes the size and so the child
  ids, a sell before, between or after the buys opens, reduces or closes. One thread, because
  `Attribute`'s lost update breaks `FillTableMatchesLedger` with two; a lot of 2 units of which 1 is
  reported, so that every booked fill is of one unit, because what a larger fill exceeds an opposite
  position by is dropped (`domain.py:481`), while whole lots, less than a lot and partial executions
  are answered each in its way; one submission, because an order submitted again may be where no
  fill moves it; one account, because fill ids are ticket numbers (`store.py:501`), so the same
  number at two accounts loses a row. All are limits of the code, not of the model (section 6);
  `FillTableKept` (4.1) proves that, a crash apart, there are no others.
- `surroundings`: one ticket of a request, plus opposing ones, plus a lost and repeated answer: four
  ticket numbers. Reconciliation is unbounded, since the liveness depends on it.
- `breaker`: 90 is exactly -10% of 100; 105 is a new high, from which 100 is a loss of the day but
  no drawdown; 90 after a midnight at 90 is a drawdown without a loss. One midnight is enough for a
  caller of yesterday to be in the middle of `update_equity`. One request thread against the risk
  loop gives every pair of a stale and a fresh report; the proofs cover any number of threads.
- `operations`, *orders* and *restarts*: 1 account, 5 attempts, 2 starts, 1 bad link, 2 orders in
  batches of up to 2. Two starts are what it takes for a monitor of an earlier start to be alive in
  a later one; orders and restarts are separate parts (with one start, or without orders); in
  *restarts* a second `stop` only comes while no link has gone bad. Five attempts are more than the
  four monitors of two starts, so `ReconnectEnds` is not cut short by the limit. The proofs cover
  any number of accounts; it was the proof of `LateLinks` that showed what two accounts add: a
  monitor asleep in one account's reconnect goes on to the others, which `strays` counts.
- `operations`, *exposure*: three pairs in a ring over three currencies, so that an order may load
  one currency and relieve another; cap 5, step 2, sizes 4 and 7 (one fits and one must be
  downsized); booked and executed amounts 0, 2, 4 and 7 (`Amounts`: nothing, a part or half, an
  order, and more than an order of 4); 2 threads, 2 requests, so that one judges while the other
  fills.
- `research`: *backtest*: 3 bars at prices 1..3, gaps of 1 or 3 hours from 18:00 (the long gap
  last), 2 signals per bar, each side at market and with a limit; enough for a signal, its fill and
  its exit, a limit left untouched beside later signals and a gap across 21:00. *structure*: 6
  candles of 5 shapes (the first of 2), lookback 1: both kinds of break, each kind of zone, ranges.
  *strategy*: ladder 4H/1H/15M/3M over 6 instants, feed gaps 1 and 2, candles that drift, break or
  show no trend: two overlapping sets, lone and delayed closes. *paper*: 3 orders of up to 2 units,
  2 slices, 2 rollovers over an open position, up to 3 days between events, 2 crashes (the second
  only while one order has been issued and no rollover has passed; a third order only without a
  crash and after at most one rollover). *rivals*: two candidates of one strategy and two threads;
  *neighbours*: a validated candidate each of two strategies on the shared champions key; 2
  promotions, history of 1, 1 stop. *evolution*: 3 generations, 1 restart. *cache*: 2 programs of 6
  modes, 3 starts (the third alone), 1 death, 2 months. *sweeps*: 2 processes, 3 starts (the third
  alone), 1 kill, 2 experiments. *sets*: 4 timeframes, hence 2 sets, the coarsest once opening
  without the next, as months do without weeks; 5 finest bars; a rounding step of 4 and closes that
  lie on, off and between levels and their rounded ones. *requirements* and *reads*: 4 instants, of
  a parent/child pair with prices, or of a ladder of 4. *promotions*: histories of 29, 250, 1300,
  2000 bars (short ones only as first verdict), 2 verdicts, 2 seconds, 1 death; *matrix*: 3 cells
  with p-values around the level.
- Deadlock is not checked in any run: all budgets spent and every thread idle is a legitimate end.
- `TicketNums`, `Budget` and every constant named `Max...` or `Last...` are bounds; everything else
  is a parameter of the code.

### 3.2 Fairness

- `WF_vars(ThreadStep(t))`, flatten: the HTTP client always passes a timeout, so every attempt has
  an outcome, and no step waits for another thread.
- `SF_vars(ReconcileRead({}))`: the loop is periodic (`runtime.py:271`), and it is assumed that once
  in a while all brokers answer at the same time. Without it, a broker that is silent for ever
  counts as flat for ever.
- `SF_vars(RiskPolls(TRUE))`: the risk loop is periodic, and once in a while a broker answers;
  `WF_vars(RiskCalls \/ Update(Risk))`: nothing blocks the loop, which survives exceptions.
- `AutoFairness`: each monitor thread runs, a call of `start` or `stop` that has begun goes on (its
  joins have timeouts), an order in hand is worked on. Nothing is assumed of the operator's next
  call, or of links.
- Nothing is assumed of request threads in `CircuitBreaker`, of the operator, of broker moves, or of
  crashes. The research modules have no liveness property and no fairness.

### 3.3 What the code does differently from what it says

1. `resubmit`: a second submission of an intent id returns the cached orders and gives each a new
   state machine. A FILLED order becomes SUBMITTED and is sent again, against `state_machine.py:88`
   ("Terminal states have no forward transitions").
2. `halted`: a request that names no account asks the broker level about nobody, and is routed to
   the best account although its switch is armed, against `kill_switches.py:18`.
3. `retried`: a repeated post executes again. The agent puts the client order id in the comment of
   the order and nowhere else, against `execution.py:275`.
4. `partial`: a partial fill is stored, then added again: half filled is FILLED (`execution.py:406`,
   `oms.py:189`).
5. `daily`: the daily open is the configured equity at start and may be a stale or the configured
   one after midnight, so a loss of 4% in the day need not halt, against `circuit_breakers.py:4`.
6. `targets`: `Position.apply_fill` drops what overshoots (`core/domain.py:481`), so after a target
   of the other sign the OMS is flat, the broker reversed, and the next delta wrong, without any
   execution left unbooked, against `docs/ARCHITECTURE.md:123`.

`DuplicateBound`, `FillIsReal`, `LossHalts` and `ExposureExplained` are what remains true of 3, 4, 5
and 6.

## 4. Proofs

A theorem holds for every value of the constants that satisfies its module's assumption:
`ConstantsAssumption` (types; at least one intent; unit and clip sizes at least 1; no account is the
value that stands for none) and `LotsAssumption` (the agent reports what was executed or one unit
less, never nothing of something), `BreakerAssumption` (equities are positive, the configured one is
among them), and `AutoTradingAssumption`, `PaperAssumption`, `LearningAssumption`,
`EvolutionAssumption`, `CacheAssumption`, `SweeperAssumption`, `BacktesterAssumption`,
`FeedAssumption`, `StructureAssumption`, `RowsAssumption`, `SetReadsAssumption` (types and non-empty
parameters of those modules), `OpeningsAssumption` (what begins a bar of a set's first or second
timeframe begins one of its third), `ExposureAssumption` (finitely many pairs of two different
currencies, positive rates and step), `DiscoveryAssumption` (types; the level is below 1; the
divisor is a multiple of every rank), and `StrategyAssumption` (candles of the third and finer
timeframes of the ladder end wherever those of coarser ones do). TLC evaluates each of them in the
run that instantiates the module. Every inductive invariant below was an invariant of a TLC run
before it was proved.

All proofs have the same shape: the initial states satisfy the invariant; one lemma per action (or
per group of actions that leave the same parts alone) shows that the step preserves each part it can
disturb; the property follows from the invariant; one temporal step concludes.

### 4.1 The write path

`Execution_proofs`:

- `TypeCorrect`: `Spec => []TypeOK`. The inductive invariant is `TypeInv`, `TypeOK` with `Holding`:
  a thread past routing holds at least one child. Without it `Head(queue[t])` may be any value, and
  nothing typed follows.
- `JournalIsAhead`: `Spec => []JournalBeforeExecution`. The property alone is not inductive: whether
  the ticket a send opens has a row depends on what happened at `PersistPending`. The strengthening
  `Journaled` says that a thread that may send, or has sent, holds a child whose row is written.
  Rows are never deleted, not even by `Crash` (`RowsStay`), and only a send opens tickets of a child
  (`TicketsJournaled`).
- `GatewayKept`: `Spec => GatewayPromise`. Under `IInv`, each action of `Execution` is one of
  `OrderGateway` or a stutter: `Submit` is Ask, `OmsClear` is Clear, `PersistPending` is Write,
  `SendAcked` and `SendLost` are Place, and the end of a child is Settle, which may arm a switch
  (`MarkUnknown`). The hard case is Place: the child is in the clearance because it heads the queue,
  and in the journal by `Journaled`.

`ExecutionOrders_proofs` extends it, so that all of `IInv` is at hand:

- `FillsAreReal`: `Spec => []FillIsReal`. `OnSide` says that no ticket is on another side than the
  order that opened it, and `FillsWitnessed` that a thread about to record a fill, or a state
  machine that has recorded one, is witnessed by a ticket. Tickets may be closed by the operator or
  the broker, which is why the witness is what was executed and not what is held.
- `RowsAgree`: `Spec => []JournalAgrees`, for intents submitted once; for others it is false, as the
  run `resubmit` shows. The row depends on filled units too: ACKED goes with SUBMITTED or, if a part
  below a lot was reported, PARTIALLY_FILLED, so the invariant carries the acknowledgement's units
  until they are in `filled` and keeps them there. `OwnChildren`: a thread routes distinct children
  of the intent it serves. `Counted`: each request at work has been counted, two of one intent
  twice, so that one submission means one thread. `Undisturbed`: then state machine and row of the
  child in hand are where the thread's step says, and those of the children behind it are still
  SUBMITTED. `OnlyInHand` shows that a step leaves all other children alone.
- `DuplicatesBounded`: `Spec => []DuplicateBound`. What was taken is bounded only together with what
  may still be taken: `Ahead(o)` is the set of pairs of a thread and an attempt it has left for the
  order, and `Budgeted` bounds tickets and `Ahead` by what the submissions so far allow. A
  submission adds one route of attempts, a send removes a pair for each ticket it opens. `RoutesFit`
  bounds a route. Counting pairs keeps the sum over threads a cardinality.
- `FlattensBounded`: `Spec => []FlattenBound`, in the same way: `Pending(a)` is what `flatten_all`
  may still send to an account, one order per listed position and attempt (`FlattensCounted`); that
  it lists at most the tickets taken needs `UniqueTickets`, an account never issues a number twice.
- `FillTableKept`: `Spec /\ [][~Crash]_vars /\ []Undisputed => []FillTableMatchesLedger`, for any
  threads, accounts, clips and submissions. The code does not promise the property; the theorem
  names everything it leaves to luck. Besides a crash it is the four parts of `Undisputed`: `Alone`
  (no two threads between look-up and write of one pair), `NoReversal` (no fill larger than the
  opposite position it meets), `FillsMove` (the fill of an order submitted again finds it where it
  may move) and `NumbersApart` (no ticket number at two accounts). Each is a state predicate that a
  run of the system keeps or breaks; TLC found every `Undisputed` state of two threads and two
  submissions to satisfy `LedgerInv` before it was proved. `LedgerInv`: the positions are the sum of
  what is `Booked`, the table and the fills on their way to it (`Summed`); these are numbered apart,
  so that `ON CONFLICT DO NOTHING` drops none (`Numbered`); a look-up is still the position when it
  is written (`Current`). That a fill more adds its units (`UnitsAdd`) is a fact about the fold
  `MapThenSumSet`, which picks elements in an unknown order: the lemmas build the sum as a function
  on all subsets and show by the least counterexample that it does not matter which fill is taken
  out first. `LedgerOfOneThread`: with one thread, one account and single submissions only a crash
  and `NoReversal` are left.

`CircuitBreaker_proofs`:

- `BreakerTyped`: `TypeOK` is inductive; its weight is that no caller's date and no rollover is
  ahead of UTC.
- `HaltHolds`: the action property `HaltHoldsOnceSettled` follows from `TypeOK` alone, step by step:
  once the date is today's, `day[t] > date` would be a date after today.
- `FloorHolds`: `[]FloorStops`, with `Floor` as strengthening: the mark, and what a caller about to
  raise it will write, is at least the configured equity. `DrawdownGrows` carries a drawdown from
  there to any higher mark.

### 4.2 Around it

`Operations_proofs` about `AutoTrading`, for any number of accounts, starts, bad links and orders:

- `PositionsAreKnown`: `[]PositionsKnown`; `InHand` says that orders are numbered in turn and those
  in hand are distinct and still SUBMITTED.
- `OneTryEach`: `[]OneTryPerMonitor`; a monitor looks only at its own accounts (`Watching`), and the
  tries counted, with the monitors about to make one, are at most the monitors there have been
  (`TriesCounted`).
- `LinksStayDown`: `[]LateLinks`. `PhasesKept` says what each phase of `start` and `stop` has
  already seen to; `Outlived` that a monitor alive is the current thread of its owner or `Harmless`:
  it ends at the head of its loop, or all it can still come to are accounts counted as strays.
  `DownStays`: what `stop` has disconnected stays so, strays apart. This proof failed first: the
  property, as it stood, said that at most the one account in whose reconnect a monitor sleeps comes
  up after `stop`. With two accounts it is false, because the monitor's loop goes on to the
  remaining accounts; TLC confirmed it, and the property (`LeftAsleep`) now says what is true.

`PaperTrading_proofs`: `LedgerKeeps` (`[]LedgerHolds`) and `CrashesCost` (`[]CrashCosts`) rest on
one invariant. `BatchKept` and `NamesFresh`: an order still to be executed is SUBMITTED and has
named no position yet. `LedgerKept`: what is on disk of an order implies what was written before it.
`Synced`: between two events the position is that of its row, within an event that of what will be
written there. `BookedKept`: a profit is booked once. `DamageKept`, `SwapsKept`: fills, orders and
rollovers lost so far, plus those that would be lost by dying now, are within what the crashes so
far allow; the second half is what makes the count inductive. `TimeKeeps`: however many days pass,
the rollovers due and not `unwatched` grow by one just when the daemon's test says so.

`Learning_proofs`: `RegistryKeeps` (`[]RegistryHolds`). `JobKept` says what a request carries at
each of its steps; `PassedKept` that whatever sits, is shelved, has been read or will be written has
passed; `SerialKept` that champion and history of a strategy free of races are where a serial
execution would have them, halfway through a request included (`OneAtATime`: then no two requests
are on champions); `StageKept` that the record of an undisputed candidate is a chain that ends in
its stage, but for the request that is promoting it.

It also holds `IncumbentKept`, about `Evolution`. It proves the action property `IncumbentHolds`
from `SoleChampion` (no two promoted variants, the baseline unmeasured, any other promoted one with
a profit) and `FreshNames` (what is being tested is not promoted, and before the first restart no
name was given twice).

`Operations_proofs` about `ExposureGovernor`: `ExposureIsExplained` (`[]ExposureExplained`), for any
finite set of pairs and any rates, cap, step, targets and request threads.

- `Exposure`, `Downsize` and `Allocate` are recursive functions, of which nothing can be said before
  it is known that they exist. `RecursionExists` shows that a function exists that calls itself at
  an argument of smaller measure: it takes the least measure up to which there is none
  (`LeastNumber`). It needs no operator as a parameter, because what is called, and what is made of
  the answer, are functions too. What the function computes is then shown by the argument of least
  measure that would be a counterexample.
- `ExposureMoves`: an exposure is linear in the units of a pair. Hence (`Convex`, `BalancedBetween`)
  what lies between two sizes that fit, fits: this is why a binary search is right at all, and only
  from positions that respect the cap. `SearchIsOptimal` keeps the interval of the search around the
  largest size that fits, `SearchIsSound` says that what it finds fits even if the positions do not.
- `AllocatePlans`: the allocator's orders lead from the positions to its projected book, `Leads`
  being a walk through the list.
- The invariant is `ExposureInv`. `Judged`: an order under way breached nothing when it was judged,
  or was cut to a size that fits; then `AllowedKeepsCap` shows that a fill of no more than that,
  dampened or not, on the exposure it was judged on, keeps the cap. `GoalKept`: while a pair has a
  goal, one thread alone has orders of it, and they lead from the OMS position, where the allocator
  starts, to the goal. `HeldAsBooked` carries this over to the broker, beside what was never booked.
  `BookedBetween`: what is booked of an order is between nothing and what was judged.

### 4.3 Research and strategies

`Research_proofs`:

- `CacheIsHonest`: `CacheSpec => CacheHonest`. A run reads, decides and writes in separate steps,
  among others that do the same. `WritesGenuine`: what is about to be written is classified as what
  it is. `AloneAtFiles`: who met nobody is alone at the files, with its own bars in the cache.
  `RestingFit`, `ReadersFit`: bars and label fit while nobody is between the two, and for whoever
  read them and met nobody since. `Spared`: who is about to write synthetic bars has found no real
  ones it must keep. `TrustedIsReal` concludes; `GivesWay` is the action part, the steps that may
  replace real history.
- `ResultsKept`: `SweeperSpec => []ResultsAgree`. `Unstored`, `StoreKept`, `RecordsKept`: what no
  write has stored is nowhere, and what the last write stored is kept; `BaseKept`: a sweep that met
  no other since it read the store has read what is kept, unless it found it cut off;
  `TableOfStore`, `TableAgrees`: the table is that of the store its writer left.
- `BooksAreHonest`: `BacktestSpec => []BookedAsTraded`, for any prices, any gaps and any answers of
  the strategy. `Opened`, `Queued`, `Waits` (an intent that waits in the queue was signalled on an
  earlier bar and, but for the first, is behind a limit order that rests untouched), `Tight` (a stop
  is only ever tightened), `Safe`, `Charged` (rollovers charged are those crossed), `RiskKept`,
  `WorstPath`. The lemma `WorstOfPaths` is about the data: when a bar holds stop and target, the
  exit that `_check_exit` books is the worst that any walk from the open through the bar's range can
  give. It takes the first instant at which the walk reaches either level (`LeastNumber`, by the
  well-foundedness of the naturals) and shows that no exit before the stop is possible on a bar that
  opens beyond it.
- `LegsOnce`: `StrategySpec => LegsTradedOnce`, for any ladder, edges, feed and outcomes. `InStep`:
  unless the movement is astray it is at the leg of the finest timeframe, by the break or, before
  the first break, by the direction (`StaysInStep`). `Entered`: the leg that was entered is used up,
  unless the movement went astray since. For the action part `ClosedNow` and `EdgesAround` say that
  without a gap every closing candle ends with this bar, and that the middle timeframe of a finer
  set then closes with the lowest of a coarser one (`OneSetPerBar`). The first attempt failed
  because the property was false: when a coarse candle closes alone before the first entry, and the
  finest timeframe then closes without a trend, the lone close lies before both entries. TLC found
  it once candles without a trend were among the outcomes; `lone` now counts those bars.

- `ResearchIsEarned`: `DiscoverySpec(Trials) => []ResearchEarned`, for any candidates, labels and
  lengths of histories, and whatever backtests give (`Trials` is any set of their results). Three
  arguments that share no state. The tests: `WindowsApart` shows that the step between rolling
  windows is at least half a window, which is longer than the out-of-sample part (`PartitionFits`,
  the rounding of 70 and 15 per cent included), so that no two windows test the same bar. The
  promotions: `SoundVerdict` says what a verdict, reached or about to be, rests on; `Explained` that
  a promotion on disk has a verdict of the same candidate and data, or, if it names no data, is
  followed by one that does, the one now between its two writes included. The matrix: `StepUp` shows
  that a q-value is within the level just when some cut at or above the p-value satisfies the
  step-up rule. `Scaling` carries the comparison over to whole numbers, `RanksFollow` leads from
  ranks to p-values, and `LastOfTies` back: among equal p-values only the last has the rank that
  counts them all. `Judged` says that the correction is made once and reads p-values only
  (`SameTests`).

- `CandlesSound`: `[]CandlesAsBuilt` of `FeedSpec` and of `StrategySpec`, for any timeframes, bucket
  edges and feed with gaps. The invariant `FeedBuilt` says what is published and what is being
  formed from the bars received alone: published are the buckets whose end the latest bar has
  reached, in order, each with all its rows (`Built`), being formed the latest bucket unless it has
  ended (`Forming`). `ClosedByNow`: those are all buckets but the latest, which may be one too;
  `BarMovesBucket`, `BarKeepsBuilt`: a bar that begins a bucket publishes the one before.
  `AscendingGrows` is the one fact about sorting it needs: a number above all others comes last.

`Strategies_proofs` has three theorems.

`LiveFollowsResearch`: `StructureSpec => []LiveIsResearch`, for any candles, lookback, leg, pool
window and tolerance. The state machine keeps heaps of pending swings, the last break and the zones
still standing; the batch looks at all bars again.

- `Swung`, with `SwingsGrow`: a bar more leaves the earlier swings as they are and can confirm one,
  in the middle of the last bars.
- `Broken`: a swing is pending or broken once, at its first close beyond it, and each break but the
  first is BOS just if the one before it points the same way (`Precedes`). The breaks a candle
  causes at once are ordered by their swings, which is why `BrokenStep` needs that swings are told
  apart by index, and that the last of the earlier breaks precedes the first of the new ones.
  `KindsAgree` concludes: the batch, which dresses the found breaks one after another, gives the
  same kinds but for the first break.
- `Phased`: the phase follows from swings, last direction and last close.
- `Zoned`: gaps and blocks stand unless a later bar passed them; a pool counts from the bar at which
  it was first seen, and stands unless a bar passed it since (`Lasting`). `PoolById` (pools of
  different swings have different names) is what makes `seenPools`, a set of names, as good as a set
  of pools; `FormedGrow`, `FirstStep`, `LastingStep` say what one bar adds and removes.

`SetsTellOneStory`: `NativeSpec => []SetsAgree`, for any opening times (1M over 1W included), rows,
rounding step and parameters. Nothing needs to be known of later trades.

- `EnteredAlike`: whatever comes later, the first trade of the one clock is that of the other at
  rounded levels (`Alike`), and one has it when the other does.
- `AtFirst`: until the set by itself has closed its first trade, and while no close parts it from
  its rounded self, the native set is its twin: same bias and setup, trade alike (`Twins`). The hard
  part is the bars on which the native clock stands still: they bring no new row (`Together`,
  `ViewStays`: a coarser bar opens only with a bar of the set's third timeframe), and `Quiet` says
  that after each row a flat set has done what it can do (`LookAgain`) and a held trade is neither
  at its stop nor at its target, which a trade just entered is not either (`EnteredStays`).
- `TwinsLeave`: on a bar of both clocks they leave by price together, at prices within half a
  rounding step (`AlikeHit`, `AlikeNear`); by age or the second timeframe the older trade, which is
  the one counted in finer bars, leaves whenever the other does (`Aged`).
- `BetweenStep`: a close between a level and the rounded one ends the comparison of the exits, and
  only of them.
- `Booked`: each trade held has one open row of the book, every other row an exit between its entry
  and now. A closed row keeps its companions (`OldChargeKept`), and those of a new row are, one to
  one, the sets beside it that hold a trade at that moment (`NewChargeRight`).

`WhatIsSaidStays`: `SetReadsSpec => []ReadsAreCausal`, for any ladder, any shapes of candles and any
of them closing together. `HistoriesFit`, that each history is in order of time with no two candles
at once, is inductive; what the engine says is a function of the histories, so the rest is about
those functions.

- `EarlierHistories`: the histories without the candles of this instant. `AsOfStays`: what was as of
  an earlier moment is still; from it follow views, legs, graph and inferences, one lemma each.
  `VerdictsGrow`: new verdicts are all of this instant, so that `EpisodesKept` may say that an
  episode which has ended stays as it is. `RowsGrow`: a row is closed by its parent's next candle,
  before which every candle of the child it speaks of was known. `NestedGrows` compares two counts
  bar by bar.
- `LifeAt` is what a lifecycle, half an instant at a time, has recorded: every requirement is either
  pending with no cause so far, or has the one end that its first cause gives (`Settled`, in
  `Tells`), and the pending one is its parent's, with the latest price known to void it and the
  level frozen at its creation (`Asks`). A parent that asks (`ParentTurn`) supersedes, carries or
  creates; a child (`ChildTurn`) invalidates or confirms. `OneCauseAtOnce` makes the first cause
  unique: a parent comes before a child of the same instant, and a child that voids does not
  confirm. `LifeGrows`: the last instant's turn only adds to the record.
- `BridgeAlone`: if two sets show different candles of their common timeframe, the later one closed
  where the set that shows the earlier has no view.

### 4.4 What stays with TLC

- Liveness: `RequestsTerminate`, `FlattenEnds`, `DivergenceIsLocked`, `LossHalts`, `DrawdownStops`,
  `ReconnectEnds`, `MonitorsEnd`. Fairness and ENABLED are out of the prover's reach.
- Nothing else: every invariant and action property of a passing run has a theorem,
  `FillTableMatchesLedger` under the hypotheses named in 4.1.

## 5. Plan

Modelled first were the components every order passes, then those around it, then what decides which
strategy trades. What is left, in this order:

1. `BrokerRegistry` and the live gate: enabling, disabling, connecting and restarting accounts
   (`production/brokers.py:400-470`).
2. `Reconciler` as a second writer of breaker and switches, with the broker adapters whose positions
   it reads.
3. `NewsCalendar`: blackout windows and revised events.
4. Correlated and batch research, the strategies that are rules on the structure engine, risk
   analytics, the data path.

## 6. Limits of the model

What the models leave out:

- Prices, P&L, stops and order types in `Execution`: an acknowledgement says only whether and how
  much filled.
- The firewall's tiers other than the kill switch reject at any time in `Execution`; the breaker's
  is `CircuitBreaker`. The two are not composed: `Execution`'s `OmsReject` covers every answer the
  breaker gives.
- The router's cache lookup and insertion are one step.
- A rejected request changes nothing but counters and audit rows, so `Submit` is only an approved
  one.
- A crash takes the whole process; a failing database write (which raises out of `submit_intent`) is
  a crash.
- Component entries marked `partly` say in `PROJECT.json` which operations are left out.

What reading the code for the models showed and no property covers:

- OMS and execution: an order of which less than a lot (100000 units) is executed is never booked
  (`mt5_agent.py:172`, `execution.py:413`), and units may be reported one short (`int` of a float,
  `mt5_agent.py:173`): positions, rows and fills then differ from the broker without any failure;
  positions are attributed without a lock (`oms.py:206`); fill ids collide across accounts
  (`store.py:501`); `RiskKernel.record_realized_pnl` has no caller; the intent id
  `TARGET-<strategy>-<symbol>` makes an equal delta later return the cached order.
- Exposure: the governor's downsizing is discarded by the OMS's second evaluation
  (`allocator.py:46`); the ratio is rounded half up to 0.01; the exemption of risk-reducing orders
  compares absolute exposures; only the traded symbol's price is current; the allocator's gross cap
  counts reductions, and the single-order cap only the USD leg.
- Auto-trading: `stop` and `start` within 30 s revive old monitors; a late risk check overwrites
  STOPPED with ERROR, after which `start` returns False; `connect` on a connected manager returns a
  bound method; `FIXAdapter` emits partial bars while closing, so strategies run after STOPPED; the
  per-account kill switch is never consulted; nothing books fills; the new adapter of a reconnect
  has an empty book; a rate-limit exception leaves the rest SUBMITTED.
- Paper: a rollover is missed when the next event comes between 00:00 and 20:59, however regular the
  events are (`daemon.py:85`), and several before one evening event are charged once; the position
  id is constant per symbol; total equity uses the initial balance after a restart; swap is never
  added to the OMS balance; the pipeline's soak opens one daemon per promoted strategy on one
  ledger.
- Backtester: an exit on the entry bar uses that bar's whole range (`backtester.py:463` against
  `:82`); 4-hour and daily bars never meet the rollover test; a limit that rests untouched drops
  later signals.
- Structure: the first break may be CHOCH live but is always BOS in the batch; the protected anchor
  may be stale after a CHOCH; a swept pool may return under a new id; `_record_range` skips swings
  of the same type. `build()` then `update()` of the candle feed loses the earlier rows of the
  partial bucket.
- Fractal strategy: `OneEntryPerLeg` (`fractal_institutional.py:50`) can be broken after a lone
  coarse close that follows a feed gap (the definition is kept, in no run);
  `institutional_phase_rider.py` does not parse (line 554).
- Fractal engine: a requirement created while the child already trends its way is CONFIRMED without
  a shift; with union timestamps `fit_observations` stamps an observation before its condition was
  known; consistency and requirements are called by tests only.
- Cache: the strict pipeline overwrites a short real history with synthetic bars and then refuses;
  the Dukascopy raw file is plain CSV under a `.csv.gz` name, so every file is dropped; missing
  months are left out silently under REAL_VENDOR; `download_multiple` with its fallback overwrites a
  real cache.
- Sweep: gate d is never run again (`sweeper.py:778` against `:690`), so no experiment survives;
  records are stored only at the end of a sweep; a corrupt store loses the earlier records.
- Correlated sets: the fast backtests round levels to six decimals and the native one does not, so a
  close in between ends one of two equal trades (`fast_backtest.py:431`); the as-of join on open
  stamps sees a higher bar that is still open, and structure windows use later bars (against
  `fast_backtest.py:12`); losses never exceed 1R; `per_set_native_strategy.py` never trades.
- Discovery: a `WalkForwardResult` without strategy id fails every calibration combination
  (`calibration.py:399`); a history of 1000 to about 1400 bars aborts the calibration; one strategy
  object is shared by all partitions; G8 needs three rolling windows, so histories under 2000 bars
  (the `sweep` command's default is 500) never pass; `sweep` works on generated candles but writes
  to the same promoted directory; the evaluator's own artifact names no data and promotes even with
  `allow_promotion=False`; 200 to 299 bars end the pipeline with a ValueError.
- Broker registry: enabling or disabling an account registers it anew with an unconnected adapter
  (`brokers.py:426`); connecting authorises live trading before the enabled flag; a restart enables
  from the configuration over the operator's row; `positions()` is empty for an account whose read
  failed.
- Elsewhere: `render_prometheus` cumulates buckets that are cumulative already; the default blackout
  impacts leave out TIER_1; a moved news event keeps its old row; `FundamentalsService.update`
  replaces all rates.
