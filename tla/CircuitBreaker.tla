--------------------------- MODULE CircuitBreaker ---------------------------
(***************************************************************************)
(* The drawdown circuit breaker (risk_engine/circuit_breakers.py) as the   *)
(* production runtime drives it.  Its update_equity takes no lock, and two *)
(* kinds of callers run it at the same time:                               *)
(*                                                                         *)
(*  - the risk loop polls the brokers and reports the account's equity, or *)
(*    the configured one when no broker answers (runtime.py:313-329);      *)
(*  - every request thread, in tier 2 of the firewall, reports whatever    *)
(*    equity the breaker held when the firewall read it (firewall.py:241), *)
(*    with the time at which the request began (execution.py:320).         *)
(*                                                                         *)
(* Each access of update_equity to the shared fields that another caller   *)
(* can come between is a step, but for reading the mark and the open into  *)
(* the two percentages, which is one.  The account moves, midnights pass,  *)
(* and the process may restart, all at any time.                           *)
(*                                                                         *)
(* Abstracted: equity is one of a few levels; the reason texts; the sizing *)
(* multiplier (Execution lets the firewall answer any); reset_safe_mode,   *)
(* which nothing calls.                                                    *)
(***************************************************************************)
EXTENDS Integers

CONSTANTS
  Requests,     \* HTTP request threads
  Risk,         \* the risk loop
  Levels,       \* the equities the account may have
  Configured,   \* settings.account_equity
  MaxDay,       \* bound: midnights
  MaxMoves,     \* bound: changes of the account's equity
  MaxRestarts   \* bound: restarts of the process

ASSUME BreakerAssumption ==
  /\ Levels \subseteq Nat \ {0}
  /\ Configured \in Levels
  /\ Risk \notin Requests
  /\ MaxDay \in Nat /\ MaxMoves \in Nat /\ MaxRestarts \in Nat

Callers == Requests \cup {Risk}

VARIABLES
  equity,    \* current_equity
  dayOpen,   \* daily_open_equity
  hwm,       \* high_water_mark
  date,      \* current_trading_date
  halted,    \* _daily_halted
  safe,      \* _safe_mode
  pc,        \* where each caller stands
  eq,        \* the equity it reports
  day,       \* the date it reports
  account,   \* the account's equity at the broker            (external)
  opened,    \* what that was when the day, or the process, began
  today,     \* the date
  moves, restarts   \* bound counters

breaker == <<equity, dayOpen, hwm, date, halted, safe>>
calls   == <<pc, eq, day>>
world   == <<account, opened, today, moves, restarts>>
vars    == <<breaker, calls, world>>

(* -4% of the daily open halts the day, -10% of the high-water mark is     *)
(* SAFE_MODE.                                                              *)
Loss(e, base) == (e - base) * 100 <= -4 * base
Drawdown(e, peak) == (e - peak) * 100 <= -10 * peak

(* The rules that apply.                                                   *)
Verdict(down, loss) ==
  CASE down /\ loss  -> "both"
    [] down /\ ~loss -> "stop"
    [] ~down /\ loss -> "halt"
    [] OTHER         -> "answer"

Init ==
  /\ equity = Configured /\ dayOpen = Configured /\ hwm = Configured
  /\ date = 0 /\ halted = FALSE /\ safe = FALSE
  /\ pc = [t \in Callers |-> "idle"]
  /\ eq = [t \in Callers |-> Configured]
  /\ day = [t \in Callers |-> 0]
  /\ account \in Levels /\ opened = account
  /\ today = 0 /\ moves = 0 /\ restarts = 0

Goto(t, step) == pc' = [pc EXCEPT ![t] = step]
-----------------------------------------------------------------------------
(* The callers                                                             *)

(* Mutant of StampOf: local time, which is already tomorrow.               *)
StampOfLocalTime(t) == today + 1

(* The date a caller takes with its time stamp: UTC.                       *)
StampOf(t) == today

(* A request begins: its time is taken once.                               *)
RequestBegins(t) ==
  /\ t \in Requests /\ pc[t] = "idle"
  /\ day' = [day EXCEPT ![t] = StampOf(t)]
  /\ Goto(t, "begun")
  /\ UNCHANGED <<eq, breaker, world>>

(* Its firewall reads current_equity and calls update_equity with it.      *)
RequestCalls(t) ==
  /\ t \in Requests /\ pc[t] = "begun"
  /\ eq' = [eq EXCEPT ![t] = equity]
  /\ Goto(t, "called")
  /\ UNCHANGED <<day, breaker, world>>

(* The risk loop asks the brokers; if none answers, the configured equity  *)
(* is taken for the account's.                                             *)
RiskPolls(answered) ==
  /\ pc[Risk] = "idle"
  /\ eq' = [eq EXCEPT ![Risk] = IF answered THEN account ELSE Configured]
  /\ Goto(Risk, "begun")
  /\ UNCHANGED <<day, breaker, world>>

(* RiskKernel.update_equity takes the time after that.                     *)
RiskCalls ==
  /\ pc[Risk] = "begun"
  /\ day' = [day EXCEPT ![Risk] = StampOf(Risk)]
  /\ Goto(Risk, "called")
  /\ UNCHANGED <<eq, breaker, world>>
-----------------------------------------------------------------------------
(* update_equity                                                           *)

(* Mutant of RolloverDue: any other date is a new one.                     *)
RolloverDueWhenDifferent(t) == day[t] # date

RolloverDue(t) == day[t] > date

(* Is a new day's first report?                                            *)
CheckDate(t) ==
  /\ pc[t] = "called"
  /\ Goto(t, IF RolloverDue(t) THEN "roll" ELSE "store")
  /\ UNCHANGED <<eq, day, breaker, world>>

RollDate(t) ==
  /\ pc[t] = "roll"
  /\ date' = day[t]
  /\ Goto(t, "open")
  /\ UNCHANGED <<eq, day, equity, dayOpen, hwm, halted, safe, world>>

(* The report is the daily open ...                                        *)
RollOpen(t) ==
  /\ pc[t] = "open"
  /\ dayOpen' = eq[t]
  /\ Goto(t, "unhalt")
  /\ UNCHANGED <<eq, day, equity, hwm, date, halted, safe, world>>

(* ... and the halt of the day before is over.                             *)
Unhalt(t) ==
  /\ pc[t] = "unhalt"
  /\ halted' = FALSE
  /\ Goto(t, "store")
  /\ UNCHANGED <<eq, day, equity, dayOpen, hwm, date, safe, world>>

(* The report is stored, and compared with the high-water mark.            *)
Store(t) ==
  /\ pc[t] = "store"
  /\ equity' = eq[t]
  /\ Goto(t, IF eq[t] > hwm THEN "raise" ELSE "judge")
  /\ UNCHANGED <<eq, day, dayOpen, hwm, date, halted, safe, world>>

Raise(t) ==
  /\ pc[t] = "raise"
  /\ hwm' = eq[t]
  /\ Goto(t, "judge")
  /\ UNCHANGED <<eq, day, equity, dayOpen, date, halted, safe, world>>

(* Mutants of Judge: the shared equity is judged; the drawdown is taken    *)
(* from the daily open.                                                    *)
JudgeStored(t) ==
  /\ pc[t] = "judge"
  /\ Goto(t, Verdict(Drawdown(equity, hwm), Loss(equity, dayOpen)))
  /\ UNCHANGED <<eq, day, breaker, world>>

JudgeFromOpenOnly(t) ==
  /\ pc[t] = "judge"
  /\ Goto(t, Verdict(Drawdown(eq[t], dayOpen), Loss(eq[t], dayOpen)))
  /\ UNCHANGED <<eq, day, breaker, world>>

(* The two percentages are computed, before either rule is evaluated.      *)
Judge(t) ==
  /\ pc[t] = "judge"
  /\ Goto(t, Verdict(Drawdown(eq[t], hwm), Loss(eq[t], dayOpen)))
  /\ UNCHANGED <<eq, day, breaker, world>>

(* Rule 1: SAFE_MODE, which nothing ends but a restart.                    *)
SafeMode(t) ==
  /\ pc[t] \in {"stop", "both"}
  /\ safe' = TRUE
  /\ Goto(t, IF pc[t] = "both" THEN "halt" ELSE "answer")
  /\ UNCHANGED <<eq, day, equity, dayOpen, hwm, date, halted, world>>

(* Rule 2: the halt of the day.                                            *)
DailyHalt(t) ==
  /\ pc[t] = "halt"
  /\ halted' = TRUE
  /\ Goto(t, "answer")
  /\ UNCHANGED <<eq, day, equity, dayOpen, hwm, date, safe, world>>

(* The flags are read into the status: a request is rejected if one is up. *)
Answer(t) ==
  /\ pc[t] = "answer"
  /\ Goto(t, "idle")
  /\ UNCHANGED <<eq, day, breaker, world>>

Update(t) ==
  \/ CheckDate(t) \/ RollDate(t) \/ RollOpen(t) \/ Unhalt(t) \/ Store(t) \/ Raise(t)
  \/ Judge(t) \/ SafeMode(t) \/ DailyHalt(t) \/ Answer(t)
-----------------------------------------------------------------------------
(* The world                                                               *)

AccountMoves ==
  /\ moves < MaxMoves
  /\ \E e \in Levels \ {account} : account' = e
  /\ moves' = moves + 1
  /\ UNCHANGED <<breaker, calls, opened, today, restarts>>

Midnight ==
  /\ today < MaxDay
  /\ today' = today + 1
  /\ opened' = account
  /\ UNCHANGED <<breaker, calls, account, moves, restarts>>

(* The process dies and starts again: the breaker is built anew.           *)
Restart ==
  /\ restarts < MaxRestarts
  /\ restarts' = restarts + 1
  /\ equity' = Configured /\ dayOpen' = Configured /\ hwm' = Configured
  /\ date' = today /\ halted' = FALSE /\ safe' = FALSE
  /\ pc' = [t \in Callers |-> "idle"]
  /\ eq' = [t \in Callers |-> Configured]
  /\ day' = [t \in Callers |-> today]
  /\ opened' = account
  /\ UNCHANGED <<account, today, moves>>

Next ==
  \/ \E t \in Requests : RequestBegins(t) \/ RequestCalls(t)
  \/ \E answered \in BOOLEAN : RiskPolls(answered)
  \/ RiskCalls
  \/ \E t \in Callers : Update(t)
  \/ AccountMoves \/ Midnight \/ Restart

Spec == Init /\ [][Next]_vars

(* The risk loop is periodic, and once in a while a broker answers it.     *)
Fairness ==
  /\ SF_vars(RiskPolls(TRUE))
  /\ WF_vars(RiskCalls \/ Update(Risk))

LiveSpec == Spec /\ Fairness
-----------------------------------------------------------------------------
(* Properties *)

Steps ==
  {"idle", "begun", "called", "roll", "open", "unhalt", "store", "raise", "judge", "stop",
   "both", "halt", "answer"}

(* Every variable has its type; no caller and no rollover is ahead of UTC. *)
TypeOK ==
  /\ equity \in Levels /\ dayOpen \in Levels /\ hwm \in Levels
  /\ today \in 0..MaxDay
  /\ date \in 0..today
  /\ halted \in BOOLEAN /\ safe \in BOOLEAN
  /\ pc \in [Callers -> Steps]
  /\ eq \in [Callers -> Levels]
  /\ day \in [Callers -> 0..today]
  /\ account \in Levels /\ opened \in Levels
  /\ moves \in 0..MaxMoves /\ restarts \in 0..MaxRestarts

(* Nobody is in the middle of a midnight rollover, and today's is done.    *)
Settled == date = today /\ \A t \in Callers : pc[t] \notin {"roll", "open", "unhalt"}

(* Once today's rollover is over for every caller, the halt of the day     *)
(* holds until midnight or a restart, and nothing starts the rollover      *)
(* again: not a request that began yesterday, not a stale equity.          *)
HaltHoldsOnceSettled ==
  [][(Settled /\ today' = today /\ restarts' = restarts) =>
       (Settled' /\ (halted => halted'))]_vars

(* The high-water mark may be lost to a race of two callers, but it never  *)
(* falls below the configured equity: whoever reports a drawdown of 10%    *)
(* from that, leaves SAFE_MODE behind, and its request is rejected.        *)
FloorStops ==
  \A t \in Callers : (pc[t] = "answer" /\ Drawdown(eq[t], Configured)) => safe

(* Has the account lost 4% of the daily open, 10% of the high-water mark,  *)
(* 4% of what it was when the day, or the process, began?                  *)
AccountLost      == account \in {e \in Levels : Loss(e, dayOpen)}
AccountDown      == account \in {e \in Levels : Drawdown(e, hwm)}
AccountLostToday == account \in {e \in Levels : Loss(e, opened)}

(* A loss of the day halts trading, however many requests overwrite the    *)
(* equity the risk loop reported with what they had read before.           *)
LossHalts == AccountLost ~> (halted \/ ~AccountLost)

(* A drawdown from the high-water mark ends in SAFE_MODE.                  *)
DrawdownStops == AccountDown ~> (safe \/ ~AccountDown)

(* circuit_breakers.py:4: a drawdown of 4% in the day halts trading.       *)
LossOfTheDayHalts ==
  AccountLostToday ~> (halted \/ safe \/ ~AccountLostToday)
=============================================================================
