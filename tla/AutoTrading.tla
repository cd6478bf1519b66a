---------------------------- MODULE AutoTrading ----------------------------
(***************************************************************************)
(* auto_trading/controller.py: the controller's start and stop, the broker *)
(* account managers, and the threads that watch them, with the path of an  *)
(* order from the feed's callback to the first broker.                     *)
(*                                                                         *)
(* Two kinds of monitor run the same loop over a manager's state without   *)
(* its lock: one health monitor per account (_health_monitor_loop) and the *)
(* controller's own (_monitor_loop, _check_broker_health).  Both sleep     *)
(* thirty seconds inside a reconnect, longer than stop waits for them, and *)
(* stop and start share the events that end them, so a monitor of an       *)
(* earlier start may be alive during a later one.                          *)
(***************************************************************************)
EXTENDS Integers, Sequences, FiniteSets

CONSTANTS
  Accounts,     \* broker_configs
  First,        \* the account of every order
  Controller,   \* the owner of the controller's own monitor
  MaxAttempts,  \* max_reconnect_attempts
  MaxStarts,    \* calls of start
  MaxDrops,     \* links that go bad
  MaxIssued,    \* orders
  MaxBatch      \* orders of one intent

ASSUME AutoTradingAssumption ==
  /\ First \in Accounts /\ Controller \notin Accounts
  /\ MaxAttempts \in Nat /\ MaxStarts \in Nat /\ MaxDrops \in Nat
  /\ MaxIssued \in Nat /\ MaxBatch \in Nat \ {0}

Owners == Accounts \cup {Controller}
Monitors == (1..MaxStarts) \X Owners

VARIABLES
  status,    \* AutoTradingStatus
  step,      \* where start or stop is; "idle" outside of both
  todo,      \* the accounts that step has still to serve
  starts,
  halt,      \* the stop events, one per owner
  thread,    \* _monitor_thread of each owner: the start it is of, 0 for none
  monitor,   \* the monitor threads: where each is, and the accounts left
  state,     \* BrokerConnectionState of each manager
  attempts,  \* reconnect_attempts
  adapter,   \* whether a connected adapter is there
  bad,       \* whether its link has gone bad
  feed,      \* the market data thread: "off", "on", "closing"
  hand,      \* the orders the feed's callback has still to send
  orders,    \* OMS: status of each order
  sent,      \* whether the head of hand was taken by the broker
  book,      \* positions at each account's adapter
  drops,
  strays     \* history: the accounts left to a monitor that outlived a stop
             \* in a reconnect, or that outlived it and was revived by a start

lifecycle == <<status, step, todo, starts, halt, thread>>
connection == <<state, attempts, adapter, bad>>
trading == <<hand, orders, sent>>
autoVars == <<lifecycle, monitor, connection, feed, trading, book, drops, strays>>

Pc(m) == monitor[m].pc
Alive(m) == Pc(m) \notin {"none", "done"}
Watches(m) == IF m[2] = Controller THEN Accounts ELSE {m[2]}
Goto(m, pc) == monitor' = [monitor EXCEPT ![m].pc = pc]

(* On to the next account, or to the sleep at the head of the loop.        *)
After(left) == IF left = {} THEN "head" ELSE "loop"

-----------------------------------------------------------------------------
(* BrokerAccountManager.connect: a manager that is CONNECTED answers yes;  *)
(* else a new adapter, with an empty book, is connected or is not.         *)
Connect(a, ok) ==
  IF state[a] = "CONNECTED"
    THEN /\ ok
         /\ UNCHANGED <<state, attempts, adapter, bad, book>>
    ELSE /\ state' = [state EXCEPT ![a] = IF ok THEN "CONNECTED" ELSE "ERROR"]
         /\ attempts' = IF ok THEN [attempts EXCEPT ![a] = 0] ELSE attempts
         /\ adapter' = [adapter EXCEPT ![a] = ok]
         /\ bad' = [bad EXCEPT ![a] = FALSE]
         /\ book' = [book EXCEPT ![a] = {}]

Disconnect(a) ==
  /\ state' = [state EXCEPT ![a] = "DISCONNECTED"]
  /\ adapter' = [adapter EXCEPT ![a] = FALSE]
  /\ bad' = [bad EXCEPT ![a] = FALSE]
  /\ book' = [book EXCEPT ![a] = {}]
  /\ UNCHANGED attempts

-----------------------------------------------------------------------------
(* Mutant of Round: a health monitor does not look at its stop event.      *)
RoundForever(m) ==
  /\ Pc(m) = "head"
  /\ monitor' = IF m[2] = Controller /\ halt[m[2]]
                  THEN [monitor EXCEPT ![m].pc = "done"]
                  ELSE [monitor EXCEPT ![m] = [pc |-> IF m[2] = Controller THEN "risk" ELSE "loop",
                                               left |-> Watches(m), at |-> First]]
  /\ UNCHANGED <<lifecycle, connection, feed, trading, book, drops, strays>>

(* One round of a monitor.  It ends only at the head of its loop.          *)
Round(m) ==
  /\ Pc(m) = "head"
  /\ monitor' = IF halt[m[2]]
                  THEN [monitor EXCEPT ![m].pc = "done"]
                  ELSE [monitor EXCEPT ![m] = [pc |-> IF m[2] = Controller THEN "risk" ELSE "loop",
                                               left |-> Watches(m), at |-> First]]
  /\ UNCHANGED <<lifecycle, connection, feed, trading, book, drops, strays>>

(* _perform_risk_checks, when it is due: an armed switch, global or of an  *)
(* account, makes the status ERROR, whatever it is.                        *)
RiskCheck(m, killed) ==
  /\ Pc(m) = "risk"
  /\ status' = IF killed THEN "ERROR" ELSE status
  /\ Goto(m, "loop")
  /\ UNCHANGED <<step, todo, starts, halt, thread, connection, feed, trading, book, drops, strays>>

(* Mutant of Look: an account in ERROR is looked after too.                *)
LookAtErrors(m, a) ==
  /\ Pc(m) = "loop" /\ a \in monitor[m].left
  /\ monitor' = [monitor EXCEPT
       ![m] = [pc |-> IF state[a] \in {"CONNECTED", "ERROR"} THEN "probe" ELSE After(@.left \ {a}),
               left |-> @.left \ {a}, at |-> a]]
  /\ UNCHANGED <<lifecycle, connection, feed, trading, book, drops, strays>>

(* Only an account that is CONNECTED is looked after.                      *)
Look(m, a) ==
  /\ Pc(m) = "loop" /\ a \in monitor[m].left
  /\ monitor' = [monitor EXCEPT
       ![m] = [pc |-> IF state[a] = "CONNECTED" THEN "probe" ELSE After(@.left \ {a}),
               left |-> @.left \ {a}, at |-> a]]
  /\ UNCHANGED <<lifecycle, connection, feed, trading, book, drops, strays>>

(* Mutant of Probe: RECONNECTING is written before the check, and stays.   *)
ProbeMarksFirst(m) ==
  LET a == monitor[m].at
      healthy == adapter[a] /\ ~bad[a]
      tries == attempts[a] < MaxAttempts
  IN /\ Pc(m) = "probe"
     /\ Goto(m, IF ~healthy /\ tries THEN "asleep" ELSE After(monitor[m].left))
     /\ state' = [state EXCEPT ![a] = "RECONNECTING"]
     /\ attempts' = IF ~healthy /\ tries THEN [attempts EXCEPT ![a] = @ + 1] ELSE attempts
     /\ UNCHANGED <<lifecycle, adapter, bad, feed, trading, book, drops, strays>>

(* health_check, and what follows when it fails: the state is overwritten, *)
(* whatever it has become, and a reconnect begins unless they are used up. *)
Probe(m) ==
  LET a == monitor[m].at
      healthy == adapter[a] /\ ~bad[a]
      tries == attempts[a] < MaxAttempts
  IN /\ Pc(m) = "probe"
     /\ Goto(m, IF ~healthy /\ tries THEN "asleep" ELSE After(monitor[m].left))
     /\ state' = IF healthy THEN state ELSE [state EXCEPT ![a] = "RECONNECTING"]
     /\ attempts' = IF ~healthy /\ tries THEN [attempts EXCEPT ![a] = @ + 1] ELSE attempts
     /\ UNCHANGED <<lifecycle, adapter, bad, feed, trading, book, drops, strays>>

(* _attempt_reconnect after its sleep: connect under the lock, ...         *)
Wake(m, ok) ==
  /\ Pc(m) = "asleep"
  /\ Connect(monitor[m].at, ok)
  /\ Goto(m, IF ok THEN "won" ELSE "lost")
  /\ UNCHANGED <<lifecycle, feed, trading, drops, strays>>

(* ... then the state once more, without it.                               *)
Settle(m) ==
  LET a == monitor[m].at
  IN /\ Pc(m) \in {"won", "lost"}
     /\ state' = [state EXCEPT ![a] = IF Pc(m) = "won" THEN "CONNECTED" ELSE "ERROR"]
     /\ attempts' = IF Pc(m) = "won" THEN [attempts EXCEPT ![a] = 0] ELSE attempts
     /\ Goto(m, After(monitor[m].left))
     /\ UNCHANGED <<lifecycle, adapter, bad, feed, trading, book, drops, strays>>

-----------------------------------------------------------------------------
(* start                                                                   *)
Start ==
  /\ step = "idle" /\ status = "STOPPED" /\ starts < MaxStarts
  /\ status' = "STARTING"
  /\ starts' = starts + 1
  /\ step' = "connect" /\ todo' = Accounts
  /\ UNCHANGED <<halt, thread, monitor, connection, feed, trading, book, drops, strays>>

(* An account that does not connect ends in the exception handler, which   *)
(* calls stop.                                                             *)
StartConnect(a, ok) ==
  /\ step = "connect" /\ a \in todo
  /\ Connect(a, ok)
  /\ IF ok
       THEN todo' = todo \ {a} /\ UNCHANGED <<status, step, halt>>
       ELSE /\ status' = "STOPPED" /\ halt' = [halt EXCEPT ![Controller] = TRUE]
            /\ step' = "join" /\ todo' = {}
  /\ UNCHANGED <<starts, thread, monitor, feed, trading, drops, strays>>

Fresh == [pc |-> "head", left |-> {}, at |-> First]

(* Events cleared, health monitors, feed and controller monitor started.   *)
Launch ==
  /\ step = "connect" /\ todo = {}
  /\ halt' = [o \in Owners |-> FALSE]
  /\ thread' = [o \in Owners |-> starts]
  /\ monitor' = [m \in Monitors |-> IF m[1] = starts THEN Fresh ELSE monitor[m]]
  /\ feed' = "on"
  /\ step' = "launched"
  /\ strays' = strays \cup UNION {Watches(m) : m \in {x \in Monitors : Alive(x)}}
  /\ UNCHANGED <<status, todo, starts, connection, trading, book, drops>>

Run ==
  /\ step = "launched"
  /\ status' = "RUNNING"
  /\ step' = "idle"
  /\ UNCHANGED <<todo, starts, halt, thread, monitor, connection, feed, trading, book,
                 drops, strays>>

-----------------------------------------------------------------------------
(* stop                                                                    *)
Stop ==
  /\ step = "idle" /\ status # "STOPPED"
  /\ status' = "STOPPED"
  /\ halt' = [halt EXCEPT ![Controller] = TRUE]
  /\ step' = "join"
  /\ UNCHANGED <<todo, starts, thread, monitor, connection, feed, trading, book, drops, strays>>

(* join with a timeout passes a monitor that has ended, or that is in a    *)
(* sleep longer than the timeout.                                          *)
Own(o) == <<thread[o], o>>
Joined(o, sleeps) ==
  thread[o] # 0 => (~Alive(Own(o)) \/ Pc(Own(o)) \in sleeps)
LeftAsleep(o) ==
  IF thread[o] # 0 /\ Pc(Own(o)) = "asleep"
    THEN {monitor[Own(o)].at} \cup monitor[Own(o)].left ELSE {}

StopController ==
  /\ step = "join"
  /\ Joined(Controller, {"asleep"})
  /\ thread' = [thread EXCEPT ![Controller] = 0]
  /\ strays' = strays \cup LeftAsleep(Controller)
  /\ step' = "health" /\ todo' = Accounts
  /\ UNCHANGED <<status, starts, halt, monitor, connection, feed, trading, book, drops>>

StopHealth(a) ==
  /\ step = "health" /\ a \in todo
  /\ halt' = [halt EXCEPT ![a] = TRUE]
  /\ step' = "healthJoin" /\ todo' = todo \ {a}
  /\ UNCHANGED <<status, starts, thread, monitor, connection, feed, trading, book, drops, strays>>

(* The accounts are served one by one: of those begun at most one still    *)
(* has its thread.  A health monitor also sleeps thirty seconds at the     *)
(* head of its loop.                                                       *)
HealthStopped(a) ==
  /\ step = "healthJoin" /\ a \notin todo
  /\ \A b \in Accounts \ todo : thread[b] # 0 => b = a
  /\ Joined(a, {"asleep", "head"})
  /\ thread' = [thread EXCEPT ![a] = 0]
  /\ strays' = strays \cup LeftAsleep(a)
  /\ step' = IF todo = {} THEN "feed" ELSE "health"
  /\ UNCHANGED <<status, todo, starts, halt, monitor, connection, feed, trading, book, drops>>

(* market_data_adapter.disconnect asks the feed thread to end and joins it.*)
StopFeed ==
  /\ step = "feed"
  /\ IF feed = "on"
       THEN feed' = "closing" /\ UNCHANGED <<step, todo>>
       ELSE feed = "off" /\ step' = "disconnect" /\ todo' = Accounts /\ UNCHANGED feed
  /\ UNCHANGED <<status, starts, halt, thread, monitor, connection, trading, book, drops, strays>>

(* Mutant of StopDisconnect: the adapter goes, the state of the manager    *)
(* stays.                                                                  *)
StopAdapter(a) ==
  /\ step = "disconnect" /\ a \in todo
  /\ adapter' = [adapter EXCEPT ![a] = FALSE]
  /\ bad' = [bad EXCEPT ![a] = FALSE]
  /\ book' = [book EXCEPT ![a] = {}]
  /\ todo' = todo \ {a}
  /\ step' = IF todo = {a} THEN "idle" ELSE step
  /\ UNCHANGED <<status, starts, halt, thread, monitor, state, attempts, feed, trading, drops,
                 strays>>

StopDisconnect(a) ==
  /\ step = "disconnect" /\ a \in todo
  /\ Disconnect(a)
  /\ todo' = todo \ {a}
  /\ step' = IF todo = {a} THEN "idle" ELSE step
  /\ UNCHANGED <<status, starts, halt, thread, monitor, feed, trading, drops, strays>>

-----------------------------------------------------------------------------
(* The feed's callback, also for the bars it emits while it ends.  The     *)
(* status is not asked; the OMS refuses an intent for its own reasons, and *)
(* for good once an UNKNOWN order has locked the pair.                     *)
Issued == {o \in 1..MaxIssued : orders[o] # "NONE"}

Submit(k) ==
  LET new == {Cardinality(Issued) + i : i \in 1..k}
  IN /\ feed # "off" /\ hand = <<>>
     /\ "UNKNOWN" \notin {orders[o] : o \in Issued}
     /\ new \subseteq 1..MaxIssued
     /\ orders' = [o \in 1..MaxIssued |-> IF o \in new THEN "SUBMITTED" ELSE orders[o]]
     /\ hand' = [i \in 1..k |-> Cardinality(Issued) + i]
     /\ UNCHANGED <<lifecycle, monitor, connection, feed, sent, book, drops, strays>>

(* Mutant of SendTaken: the answer is lost and the order taken for unsent. *)
SendTakenUnanswered ==
  /\ hand # <<>> /\ ~sent
  /\ adapter[First] /\ ~bad[First]
  /\ book' = [book EXCEPT ![First] = @ \cup {Head(hand)}]
  /\ hand' = Tail(hand)
  /\ UNCHANGED <<lifecycle, monitor, connection, feed, orders, sent, drops, strays>>

(* send_order of the first manager takes the order, ...                    *)
SendTaken ==
  /\ hand # <<>> /\ ~sent
  /\ adapter[First] /\ ~bad[First]
  /\ book' = [book EXCEPT ![First] = @ \cup {Head(hand)}]
  /\ sent' = TRUE
  /\ UNCHANGED <<lifecycle, monitor, connection, feed, hand, orders, drops, strays>>

(* ... which the OMS then acknowledges; nothing books the fill.            *)
Acked ==
  /\ sent
  /\ orders' = [orders EXCEPT ![Head(hand)] = "ACKED"]
  /\ hand' = Tail(hand)
  /\ sent' = FALSE
  /\ UNCHANGED <<lifecycle, monitor, connection, feed, book, drops, strays>>

(* The rate limit raises: what is left of the intent stays SUBMITTED.      *)
SendRaised ==
  /\ hand # <<>> /\ ~sent
  /\ adapter[First] /\ bad[First]
  /\ hand' = <<>>
  /\ UNCHANGED <<lifecycle, monitor, connection, feed, orders, sent, book, drops, strays>>

(* No connection: None, the order is UNKNOWN and the pair is locked.       *)
SendNone ==
  /\ hand # <<>> /\ ~sent
  /\ ~adapter[First]
  /\ orders' = [orders EXCEPT ![Head(hand)] = "UNKNOWN"]
  /\ hand' = Tail(hand)
  /\ UNCHANGED <<lifecycle, monitor, connection, feed, sent, book, drops, strays>>

FeedEnds ==
  /\ feed = "closing" /\ hand = <<>>
  /\ feed' = "off"
  /\ UNCHANGED <<lifecycle, monitor, connection, trading, book, drops, strays>>

-----------------------------------------------------------------------------
(* An adapter begins to refuse its calls, and serves them again.           *)
Drop(a) ==
  /\ adapter[a] /\ ~bad[a] /\ drops < MaxDrops
  /\ bad' = [bad EXCEPT ![a] = TRUE]
  /\ drops' = drops + 1
  /\ UNCHANGED <<lifecycle, monitor, state, attempts, adapter, feed, trading, book, strays>>

Heal(a) ==
  /\ bad[a]
  /\ bad' = [bad EXCEPT ![a] = FALSE]
  /\ UNCHANGED <<lifecycle, monitor, state, attempts, adapter, feed, trading, book, drops, strays>>

-----------------------------------------------------------------------------
AutoInit ==
  /\ status = "STOPPED" /\ step = "idle" /\ todo = {} /\ starts = 0
  /\ halt = [o \in Owners |-> FALSE] /\ thread = [o \in Owners |-> 0]
  /\ monitor = [m \in Monitors |-> [pc |-> "none", left |-> {}, at |-> First]]
  /\ state = [a \in Accounts |-> "DISCONNECTED"]
  /\ attempts = [a \in Accounts |-> 0]
  /\ adapter = [a \in Accounts |-> FALSE] /\ bad = adapter
  /\ feed = "off"
  /\ hand = <<>> /\ orders = [o \in 1..MaxIssued |-> "NONE"] /\ sent = FALSE
  /\ book = [a \in Accounts |-> {}]
  /\ drops = 0 /\ strays = {}

MonitorStep(m) ==
  \/ Round(m)
  \/ \E killed \in BOOLEAN : RiskCheck(m, killed)
  \/ \E a \in Accounts : Look(m, a)
  \/ Probe(m)
  \/ \E ok \in BOOLEAN : Wake(m, ok)
  \/ Settle(m)

OperatorStep ==
  \/ \E a \in Accounts, ok \in BOOLEAN : StartConnect(a, ok)
  \/ Launch
  \/ Run
  \/ StopController
  \/ \E a \in Accounts : StopHealth(a) \/ HealthStopped(a)
  \/ StopFeed
  \/ \E a \in Accounts : StopDisconnect(a)

OrderStep == SendTaken \/ Acked \/ SendRaised \/ SendNone \/ FeedEnds

AutoNext ==
  \/ \E m \in Monitors : MonitorStep(m)
  \/ Start
  \/ Stop
  \/ OperatorStep
  \/ \E k \in 1..MaxBatch : Submit(k)
  \/ OrderStep
  \/ \E a \in Accounts : Drop(a) \/ Heal(a)

(* Threads run; a call of start or stop that has begun goes on; an order   *)
(* in hand is worked on.                                                   *)
AutoFairness ==
  /\ \A m \in Monitors : WF_monitor(MonitorStep(m))
  /\ WF_<<step, todo, feed>>(OperatorStep)
  /\ WF_<<hand, sent, feed>>(OrderStep)

AutoSpec == AutoInit /\ [][AutoNext]_autoVars /\ AutoFairness

-----------------------------------------------------------------------------
Returned == step = "idle" /\ \A o \in Owners : thread[o] = 0
Quiet == \A m \in Monitors : ~Alive(m)

(* A link is up after stop only because a monitor was asleep in a          *)
(* reconnect when stop passed it, of that account or of one it serves      *)
(* earlier in its round: nothing else undoes the disconnect, and no        *)
(* account without such a monitor is CONNECTED.                            *)
LateLinks ==
  Returned => \A a \in Accounts :
    adapter[a] \/ state[a] \in {"CONNECTED", "ERROR", "RECONNECTING"} => a \in strays

(* A monitor tries an account once and, when that fails, never again: the  *)
(* tries since the last success are at most the monitors there have been,  *)
(* two for each start, whatever the configured limit.                      *)
OneTryPerMonitor == \A a \in Accounts : attempts[a] <= 2 * starts

(* What the broker holds the OMS knows: a position is the order in hand or *)
(* one the OMS shows acknowledged, and never one it shows UNKNOWN or has   *)
(* left SUBMITTED.                                                         *)
PositionsKnown ==
  \A a \in Accounts : \A o \in book[a] :
    orders[o] = "ACKED" \/ (sent /\ o = Head(hand))

(* A reconnect ends: with fewer monitors than attempts no account stays    *)
(* RECONNECTING.                                                           *)
ReconnectEnds ==
  \A a \in Accounts : state[a] = "RECONNECTING" ~> state[a] # "RECONNECTING"

(* Monitors end: once stop has returned and nothing is started again, none *)
(* is left, those that outlived it included.                               *)
MonitorsEnd == Returned ~> (Quiet \/ ~Returned)
=============================================================================
