----------------------------- MODULE Execution ------------------------------
(***************************************************************************)
(* The production write path of forex_platform: the execution service      *)
(* (production/execution.py) with the pieces it drives synchronously from  *)
(* several threads at once, and that share state without a common lock:    *)
(*                                                                         *)
(*  - the hierarchical kill switch and the gates that read it twice,       *)
(*  - the smart order router with its deduplication cache,                 *)
(*  - the OMS: order state machines, filled units, net positions,          *)
(*  - the broker registry: retries within an account, failover to the next *)
(*    one, and the brokers' own books of tickets,                          *)
(*  - the order repository: the durable rows of orders and fills,          *)
(*  - the reconciliation loop, the operator's commands, a process crash.   *)
(*                                                                         *)
(* HTTP request threads (Threads) run submit_intent; each shared-state     *)
(* access of it is a step, so that threads, operator, reconciliation and   *)
(* crashes fall between any two of them.                                   *)
(*                                                                         *)
(* Abstracted: prices and P&L; stops and order types (an acknowledgement   *)
(* says whether the order filled at once or rests); the tiers of the       *)
(* firewall other than the kill switch, which may reject at any time; the  *)
(* check of the router's cache and the insertion into it are one step.     *)
(***************************************************************************)
EXTENDS Integers, Sequences, FiniteSetsExt, OrderLifecycle

CONSTANTS
  Threads,        \* HTTP request threads
  Intents,        \* intent ids a caller may submit
  Symbols,        \* currency pairs
  Accounts,       \* broker accounts
  AnyAccount,     \* "no account_id given": route by priority
  Global,         \* the global kill switch
  Tags,           \* tenant and strategy ids a caller may pass
  SymbolOf,       \* [Intents -> Symbols]
  SideOf,         \* [Intents -> {1, -1}]: buy or sell
  UnitsOf,        \* [Intents -> units]
  Priority,       \* the enabled accounts of the default mode, best first
  MaxUnits,       \* bound: the largest intent
  MaxClip,        \* MAX_CLIP_UNITS of the router
  Lot,            \* the units of one lot, 100000
  Reported,       \* [units executed -> units the terminal's agent reports]
  Divisors,       \* sizing multipliers 1/d the firewall may answer
  MaxRetries,     \* broker_max_retries
  TicketNums,     \* bound: ticket numbers per account
  MaxSubmits,     \* bound: how often a caller submits one intent id
  Budget          \* bound: how often the surroundings do each of Kinds

Kinds == {"switch", "move", "reconcile", "flatten", "crash"}
Unlimited == -1

ASSUME ConstantsAssumption ==
  /\ SymbolOf \in [Intents -> Symbols]
  /\ Intents # {}
  /\ MaxUnits \in Nat \ {0} /\ MaxClip \in Nat \ {0}
  /\ UnitsOf \in [Intents -> 1..MaxUnits]
  /\ SideOf \in [Intents -> {1, -1}]
  /\ Priority \in Seq(Accounts)
  /\ Divisors \subseteq Nat \ {0}
  /\ MaxRetries \in Nat /\ MaxSubmits \in Nat
  /\ Budget \in [Kinds -> Nat \cup {Unlimited}]
  /\ AnyAccount \notin Accounts

(* The truncation loses at most one unit, and never the only one.          *)
ASSUME LotsAssumption ==
  /\ Lot \in Nat \ {0}
  /\ Reported \in [1..MaxClip -> 1..MaxClip]
  /\ \A q \in 1..MaxClip : Reported[q] \in {q - 1, q}

VARIABLES
  pc,        \* where each request thread stands
  req,       \* the request it serves: [intent, account, tags]
  queue,     \* the child orders it still has to route
  route,     \* the accounts left to try for the first of them
  tries,     \* failed attempts on the first of those accounts
  ack,       \* the broker's acknowledgement
  seen,      \* the position process_fill looked up
  kills,     \* armed kill switches                          (memory)
  cache,     \* orders in the router's idempotency cache     (memory)
  sm,        \* the state machine of each order              (memory)
  filled,    \* filled_units of each order                   (memory)
  pos,       \* net OMS position per symbol                  (memory)
  tickets,   \* the brokers' books, every ticket ever opened (external)
  rows,      \* status in the orders table                   (durable)
  fillRows,  \* the fills table                              (durable)
  remote,    \* net broker positions reconcile has read
  recon,     \* where the reconciliation loop stands
  toClose,   \* the positions flatten_all still has to close
  closeTries,
  submits,   \* bound counter per intent
  spent      \* what is spent of Budget

thread == <<pc, req, queue, route, tries, ack, seen>>
oms    == <<cache, sm, filled, pos>>
db     == <<rows, fillRows>>
loops  == <<remote, recon, toClose, closeTries>>
bounds == <<submits, spent>>
vars   == <<thread, kills, oms, tickets, db, loops, bounds>>
-----------------------------------------------------------------------------
(* Data *)

(* How many clips slice_intent cuts u units into.                          *)
Clips(u) == (u + MaxClip - 1) \div MaxClip

(* A child order, identified by what its client order id hashes.           *)
Orders ==
  {o \in [intent: Intents, units: 1..MaxUnits, slice: 1..MaxUnits] :
     o.slice <= Clips(o.units)}

SliceIntent(i, u) ==
  [k \in 1..Clips(u) |-> [intent |-> i, units |-> u, slice |-> k]]

Smaller(a, b) == IF a <= b THEN a ELSE b

(* The units of one clip: the last one takes the remainder.                *)
Size(o) == Smaller(MaxClip, o.units - (o.slice - 1) * MaxClip)

(* int(units * multiplier), unless that is 0.                              *)
Dampened(u, d) == IF u \div d > 0 THEN u \div d ELSE u

(* The order id of every closing order of flatten_all: no child has it.    *)
Flat == [intent |-> AnyAccount, units |-> 0, slice |-> 0]

Ticket ==
  [acct: Accounts, num: TicketNums, order: Orders \cup {Flat}, sym: Symbols,
   units: Int, state: {"open", "closed", "resting", "lapsed"}]

NoReq == [intent |-> CHOOSE i \in Intents : TRUE, account |-> AnyAccount, tags |-> {}]
Answers == {"FILLED", "PARTIALLY_FILLED", "SUBMITTED"}
NoAck == [acct |-> AnyAccount, num |-> 0, status |-> "none", units |-> 0]
Acks ==
  [acct: Accounts, num: TicketNums \cup {0}, status: Answers, units: Nat] \cup {NoAck}

Switches == {Global} \cup Symbols \cup Accounts \cup Tags
Requests == [intent: Intents, account: Accounts \cup {AnyAccount}, tags: SUBSET Tags]
RowStatus == {NONE, "PENDING", "REJECTED"} \cup Answers
Steps ==
  {"idle", "checked", "cleared", "loop", "send", "acked", "fill", "attribute", "record",
   "persist", "failed"}

(* The switches is_killed matches for a request: the broker level is asked *)
(* only for the account the caller pinned.                                 *)
Covering(r) == {Global, SymbolOf[r.intent]} \cup ({r.account} \ {AnyAccount}) \cup r.tags
Killed(r) == Covering(r) \cap kills # {}

Used(a) == {tk.num : tk \in {x \in tickets : x.acct = a}}
Fresh(a) == CHOOSE n \in TicketNums : n \notin Used(a)

Net(s, T) == MapThenSumSet(LAMBDA tk : tk.units,
                           {tk \in T : tk.sym = s /\ tk.state = "open"})

Init ==
  /\ pc = [t \in Threads |-> "idle"]
  /\ req = [t \in Threads |-> NoReq]
  /\ queue = [t \in Threads |-> <<>>]
  /\ route = [t \in Threads |-> <<>>]
  /\ tries = [t \in Threads |-> 0]
  /\ ack = [t \in Threads |-> NoAck]
  /\ seen = [t \in Threads |-> 0]
  /\ kills = {} /\ cache = {}
  /\ sm = [o \in Orders |-> NONE]
  /\ filled = [o \in Orders |-> 0]
  /\ pos = [s \in Symbols |-> 0]
  /\ tickets = {}
  /\ rows = [o \in Orders |-> NONE]
  /\ fillRows = {}
  /\ remote = [s \in Symbols |-> 0] /\ recon = "idle"
  /\ toClose = {} /\ closeTries = 0
  /\ submits = [i \in Intents |-> 0]
  /\ spent = [kind \in Kinds |-> 0]
-----------------------------------------------------------------------------
(* Helpers of the steps.                                                   *)

Spend(kind) ==
  /\ spent[kind] # Budget[kind]
  /\ spent' = IF Budget[kind] = Unlimited THEN spent ELSE [spent EXCEPT ![kind] = @ + 1]
  /\ UNCHANGED submits

Goto(t, step) == pc' = [pc EXCEPT ![t] = step]

(* submit_intent returns.                                                  *)
Return(t) ==
  /\ Goto(t, "idle")
  /\ req' = [req EXCEPT ![t] = NoReq]
  /\ queue' = [queue EXCEPT ![t] = <<>>]
  /\ route' = [route EXCEPT ![t] = <<>>]
  /\ tries' = [tries EXCEPT ![t] = 0]
  /\ ack' = [ack EXCEPT ![t] = NoAck]
  /\ seen' = [seen EXCEPT ![t] = 0]

(* The loop over child_orders goes on, or ends.                            *)
NextChild(t) ==
  IF Len(queue[t]) = 1
  THEN Return(t)
  ELSE /\ Goto(t, "loop")
       /\ queue' = [queue EXCEPT ![t] = Tail(@)]
       /\ route' = [route EXCEPT ![t] = <<>>]
       /\ tries' = [tries EXCEPT ![t] = 0]
       /\ ack' = [ack EXCEPT ![t] = NoAck]
       /\ seen' = [seen EXCEPT ![t] = 0]
       /\ UNCHANGED req

Child(t) == Head(queue[t])
Signed(o, q) == SideOf[o.intent] * q

(* A broker opens a ticket: order o for q units, or resting when q = 0.    *)
Taken(a, o, q) ==
  [acct |-> a, num |-> Fresh(a), order |-> o, sym |-> SymbolOf[o.intent],
   units |-> Signed(o, IF q = 0 THEN Size(o) ELSE q),
   state |-> IF q = 0 THEN "resting" ELSE "open"]

Opens(a, o, q) == tickets' = tickets \cup {Taken(a, o, q)}

(* Mutant of AttemptFailed: one attempt too many.                          *)
AttemptFailedOffByOne(t) ==
  IF tries[t] <= MaxRetries
  THEN tries' = [tries EXCEPT ![t] = @ + 1] /\ UNCHANGED route
  ELSE tries' = [tries EXCEPT ![t] = 0] /\ route' = [route EXCEPT ![t] = Tail(@)]

(* A lost answer or a transport error: again on the same account while     *)
(* retries are left, then the next candidate.                              *)
AttemptFailed(t) ==
  IF tries[t] < MaxRetries
  THEN /\ tries' = [tries EXCEPT ![t] = @ + 1]
       /\ UNCHANGED route
  ELSE /\ tries' = [tries EXCEPT ![t] = 0]
       /\ route' = [route EXCEPT ![t] = Tail(@)]

(* Position.apply_fill: what an opposite fill exceeds the position by is   *)
(* dropped with the position.                                              *)
Applied(p, f) ==
  IF (p > 0 /\ p + f < 0) \/ (p < 0 /\ p + f > 0) THEN 0 ELSE p + f
-----------------------------------------------------------------------------
(* submit_intent                                                           *)

(* The risk kernel approves (a rejected request changes nothing here).     *)
Submit(t, r) ==
  /\ pc[t] = "idle"
  /\ submits[r.intent] < MaxSubmits
  /\ ~Killed(r)
  /\ Goto(t, "checked")
  /\ req' = [req EXCEPT ![t] = r]
  /\ submits' = [submits EXCEPT ![r.intent] = @ + 1]
  /\ UNCHANGED <<queue, route, tries, ack, seen, kills, oms, tickets, db, loops, spent>>

(* Mutant of OmsClear: the OMS trusts the risk kernel's earlier reading.   *)
OmsClearUnchecked(t) ==
  /\ pc[t] = "checked"
  /\ Goto(t, "cleared")
  /\ UNCHANGED <<req, queue, route, tries, ack, seen, kills, oms, tickets, db, loops, bounds>>

(* The OMS runs the firewall again: the kill switch ...                    *)
OmsClear(t) ==
  /\ pc[t] = "checked"
  /\ ~Killed(req[t])
  /\ Goto(t, "cleared")
  /\ UNCHANGED <<req, queue, route, tries, ack, seen, kills, oms, tickets, db, loops, bounds>>

(* ... and the other tiers, any of which may reject.                       *)
OmsReject(t) ==
  /\ pc[t] \in {"checked", "cleared"}
  /\ Return(t)
  /\ UNCHANGED <<kills, oms, tickets, db, loops, bounds>>

(* The firewall approves: size, deduplicate or slice, and give every child *)
(* a new state machine, taken to SUBMITTED.                                *)
OmsRoute(t) ==
  /\ pc[t] = "cleared"
  /\ \E d \in Divisors :
       LET i == req[t].intent
           u == Dampened(UnitsOf[i], d)
           first == [intent |-> i, units |-> u, slice |-> 1]
           children == IF first \in cache THEN <<first>> ELSE SliceIntent(i, u)
           new == {children[k] : k \in DOMAIN children}
       IN /\ queue' = [queue EXCEPT ![t] = children]
          /\ sm' = [o \in Orders |-> IF o \in new THEN "SUBMITTED" ELSE sm[o]]
          /\ filled' = [o \in Orders |-> IF o \in new \ cache THEN 0 ELSE filled[o]]
          /\ cache' = cache \cup new
  /\ Goto(t, "loop")
  /\ UNCHANGED <<req, route, tries, ack, seen, kills, pos, tickets, db, loops, bounds>>

(* Mutant of PersistPending: the row is left to the acknowledgement.       *)
PersistLater(t) ==
  /\ pc[t] = "loop"
  /\ route' = [route EXCEPT ![t] =
                 IF req[t].account = AnyAccount THEN Priority ELSE <<req[t].account>>]
  /\ Goto(t, "send")
  /\ UNCHANGED <<req, queue, tries, ack, seen, kills, oms, tickets, db, loops, bounds>>

(* The child's row is written before the broker hears of it.               *)
PersistPending(t) ==
  /\ pc[t] = "loop"
  /\ rows' = [rows EXCEPT ![Child(t)] = "PENDING"]
  /\ route' = [route EXCEPT ![t] =
                 IF req[t].account = AnyAccount THEN Priority ELSE <<req[t].account>>]
  /\ Goto(t, "send")
  /\ UNCHANGED <<req, queue, tries, ack, seen, kills, oms, tickets, fillRows, loops, bounds>>

(* What the agent of the terminal makes of q units executed.  It counts in *)
(* lots, in floating point: int(volume * 100000) may lose a unit (0.29 of  *)
(* a lot is reported as 28999 units).                                      *)
ReportedUnits(q) == IF q = 0 THEN 0 ELSE Reported[q]

(* It says FILLED of a whole lot or more, int(volume) > 0, and SUBMITTED of*)
(* anything less, of which the adapter judges by the units reported.       *)
Answer(o, q) ==
  IF q >= Lot THEN "FILLED"
  ELSE IF q > 0 /\ ReportedUnits(q) < Size(o) THEN "PARTIALLY_FILLED"
  ELSE "SUBMITTED"

(* The account tried first takes the order, wholly, in part or to rest,    *)
(* and its answer arrives.                                                 *)
SendAcked(t) ==
  /\ pc[t] = "send" /\ route[t] # <<>>
  /\ LET a == Head(route[t]) IN
       /\ TicketNums \ Used(a) # {}
       /\ \E q \in 0..Size(Child(t)) :
            /\ Opens(a, Child(t), q)
            /\ ack' = [ack EXCEPT ![t] =
                         [acct |-> a, num |-> Fresh(a), units |-> ReportedUnits(q),
                          status |-> Answer(Child(t), q)]]
  /\ Goto(t, "acked")
  /\ UNCHANGED <<req, queue, route, tries, seen, kills, oms, db, loops, bounds>>

(* Mutant of SendDeclined: a refusal is reported as a full fill.           *)
SendDeclinedAsFilled(t) ==
  /\ pc[t] = "send" /\ route[t] # <<>>
  /\ ack' = [ack EXCEPT ![t] = [acct |-> Head(route[t]), num |-> 0,
                                units |-> Size(Child(t)), status |-> "FILLED"]]
  /\ Goto(t, "acked")
  /\ UNCHANGED <<req, queue, route, tries, seen, kills, oms, tickets, db, loops, bounds>>

(* The terminal refuses the order.  The agent does not look at the return  *)
(* code: it answers SUBMITTED with nothing filled, and there is no ticket. *)
SendDeclined(t) ==
  /\ pc[t] = "send" /\ route[t] # <<>>
  /\ ack' = [ack EXCEPT ![t] = [acct |-> Head(route[t]), num |-> 0, units |-> 0,
                                status |-> "SUBMITTED"]]
  /\ Goto(t, "acked")
  /\ UNCHANGED <<req, queue, route, tries, seen, kills, oms, tickets, db, loops, bounds>>

(* The account takes the order, and the answer is lost.                    *)
SendLost(t) ==
  /\ pc[t] = "send" /\ route[t] # <<>>
  /\ LET a == Head(route[t]) IN
       /\ TicketNums \ Used(a) # {}
       /\ \E q \in 0..Size(Child(t)) : Opens(a, Child(t), q)
  /\ AttemptFailed(t)
  /\ UNCHANGED <<pc, req, queue, ack, seen, kills, oms, db, loops, bounds>>

(* Mutant of SendFailed: the retries begin anew on the same account.       *)
SendFailedForever(t) ==
  /\ pc[t] = "send" /\ route[t] # <<>>
  /\ tries' = [tries EXCEPT ![t] = IF @ < MaxRetries THEN @ + 1 ELSE 0]
  /\ UNCHANGED <<pc, req, queue, route, ack, seen, kills, oms, tickets, db, loops, bounds>>

(* The request does not get through.                                       *)
SendFailed(t) ==
  /\ pc[t] = "send" /\ route[t] # <<>>
  /\ AttemptFailed(t)
  /\ UNCHANGED <<pc, req, queue, ack, seen, kills, oms, tickets, db, loops, bounds>>

(* The account is not connected, or refuses: no retry, the next candidate. *)
SendRefused(t) ==
  /\ pc[t] = "send" /\ route[t] # <<>>
  /\ tries' = [tries EXCEPT ![t] = 0]
  /\ route' = [route EXCEPT ![t] = Tail(@)]
  /\ UNCHANGED <<pc, req, queue, ack, seen, kills, oms, tickets, db, loops, bounds>>

(* Mutant of RoutesFailed: the row stays PENDING.                          *)
RoutesFailedSilently(t) ==
  /\ pc[t] = "send" /\ route[t] = <<>>
  /\ Goto(t, "failed")
  /\ UNCHANGED <<req, queue, route, tries, ack, seen, kills, oms, tickets, db, loops, bounds>>

(* All broker routes failed: the row says REJECTED.                        *)
RoutesFailed(t) ==
  /\ pc[t] = "send" /\ route[t] = <<>>
  /\ rows' = [rows EXCEPT ![Child(t)] = "REJECTED"]
  /\ Goto(t, "failed")
  /\ UNCHANGED <<req, queue, route, tries, ack, seen, kills, oms, tickets, fillRows,
                 loops, bounds>>

(* mark_order_unknown: entering UNKNOWN runs the callback that locks the   *)
(* pair; an illegal move raises, and the service swallows it.              *)
MarkUnknown(t) ==
  /\ pc[t] = "failed"
  /\ LET o == Child(t) IN
       IF "UNKNOWN" \in Successors(sm[o])
       THEN /\ sm' = [sm EXCEPT ![o] = "UNKNOWN"]
            /\ kills' = kills \cup {SymbolOf[o.intent]}
       ELSE UNCHANGED <<sm, kills>>
  /\ NextChild(t)
  /\ UNCHANGED <<cache, filled, pos, tickets, db, loops, bounds>>

(* An acknowledgement overwrites filled_units and moves the machine to     *)
(* ACKED where that is legal.  A fill is made only of an answer FILLED: an *)
(* execution below one lot is never booked.                                *)
Acknowledge(t) ==
  /\ pc[t] = "acked"
  /\ LET o == Child(t) IN
       /\ filled' = [filled EXCEPT ![o] = IF ack[t].units > 0 THEN ack[t].units ELSE @]
       /\ sm' = [sm EXCEPT ![o] = IF Accepts(@, "ACKED") THEN "ACKED" ELSE @]
  /\ Goto(t, IF ack[t].status = "FILLED" THEN "fill" ELSE "persist")
  /\ UNCHANGED <<req, queue, route, tries, ack, seen, kills, cache, pos, tickets, db,
                 loops, bounds>>

(* process_fill adds the fill to filled_units, moves the machine and looks *)
(* the position up: an illegal move skips the attribution.                 *)
ProcessFill(t) ==
  /\ pc[t] = "fill"
  /\ LET o == Child(t)
         total == filled[o] + ack[t].units
         target == IF total >= Size(o) THEN "FILLED" ELSE "PARTIALLY_FILLED"
     IN /\ filled' = [filled EXCEPT ![o] = total]
        /\ IF Accepts(sm[o], target)
           THEN /\ sm' = [sm EXCEPT ![o] = target]
                /\ seen' = [seen EXCEPT ![t] = pos[SymbolOf[o.intent]]]
                /\ Goto(t, "attribute")
           ELSE Goto(t, "record") /\ UNCHANGED <<sm, seen>>
  /\ UNCHANGED <<req, queue, route, tries, ack, kills, cache, pos, tickets, db, loops, bounds>>

(* Mutant of Attribute: the fill replaces the position.                    *)
AttributeReplacing(t) ==
  /\ pc[t] = "attribute"
  /\ LET s == SymbolOf[Child(t).intent]
     IN pos' = [pos EXCEPT ![s] = Signed(Child(t), ack[t].units)]
  /\ Goto(t, "record")
  /\ UNCHANGED <<req, queue, route, tries, ack, seen, kills, cache, sm, filled, tickets, db,
                 loops, bounds>>

(* The position is updated from what was looked up, without a lock: the    *)
(* last writer wins.  If the position looked up was closed meanwhile, the  *)
(* fill goes to the closed object, and whatever position of that symbol is *)
(* open by now is deleted.                                                 *)
Attribute(t) ==
  /\ pc[t] = "attribute"
  /\ LET s == SymbolOf[Child(t).intent] IN
       \/ /\ pos[s] # 0 \/ seen[t] = 0
          /\ pos' = [pos EXCEPT ![s] = Applied(seen[t], Signed(Child(t), ack[t].units))]
       \/ /\ seen[t] \notin {0, pos[s]}
          /\ pos' = [pos EXCEPT ![s] = 0]
  /\ Goto(t, "record")
  /\ UNCHANGED <<req, queue, route, tries, ack, seen, kills, cache, sm, filled, tickets, db,
                 loops, bounds>>

(* The fill's row, whose key is the ticket number; a known key is ignored. *)
RecordFill(t) ==
  /\ pc[t] = "record"
  /\ fillRows' =
       IF \E f \in fillRows : f.num = ack[t].num
       THEN fillRows
       ELSE fillRows \cup {[num |-> ack[t].num, sym |-> SymbolOf[Child(t).intent],
                            units |-> Signed(Child(t), ack[t].units)]}
  /\ Goto(t, "persist")
  /\ UNCHANGED <<req, queue, route, tries, ack, seen, kills, oms, tickets, rows, loops, bounds>>

PersistAck(t) ==
  /\ pc[t] = "persist"
  /\ rows' = [rows EXCEPT ![Child(t)] = ack[t].status]
  /\ NextChild(t)
  /\ UNCHANGED <<kills, oms, tickets, fillRows, loops, bounds>>

ThreadStep(t) ==
  \/ OmsClear(t) \/ OmsReject(t) \/ OmsRoute(t) \/ PersistPending(t)
  \/ SendAcked(t) \/ SendDeclined(t) \/ SendLost(t) \/ SendFailed(t) \/ SendRefused(t)
  \/ RoutesFailed(t) \/ MarkUnknown(t)
  \/ Acknowledge(t) \/ ProcessFill(t) \/ Attribute(t) \/ RecordFill(t) \/ PersistAck(t)
-----------------------------------------------------------------------------
(* The brokers, the operator, the reconciliation loop, the process.        *)

Live(tk) == tk.state \in {"open", "resting"}
Becomes(tk, state) == tickets' = (tickets \ {tk}) \cup {[tk EXCEPT !.state = state]}
Ends(tk) == Becomes(tk, IF tk.state = "open" THEN "closed" ELSE "lapsed")

(* At the broker: a resting order is filled or lapses, a stop or a target  *)
(* closes a position.  Nothing reports this to the OMS.                    *)
BrokerMoves(tk) ==
  /\ \/ tk.state = "resting" /\ Becomes(tk, "open")
     \/ Live(tk) /\ Ends(tk)
  /\ Spend("move")
  /\ UNCHANGED <<thread, kills, oms, db, loops>>

(* The operator cancels by broker ticket, the one id the agent accepts:    *)
(* the ticket is deleted or closed.  The OMS has no order of that id, so   *)
(* cancel_order raises, and the service swallows it.                       *)
Cancel(tk) ==
  /\ Live(tk) /\ Ends(tk)
  /\ Spend("move")
  /\ UNCHANGED <<thread, kills, oms, db, loops>>

Arm(k) ==
  /\ kills' = kills \cup {k}
  /\ Spend("switch")
  /\ UNCHANGED <<thread, oms, tickets, db, loops>>

Disarm(k) ==
  /\ kills' = kills \ {k}
  /\ Spend("switch")
  /\ UNCHANGED <<thread, oms, tickets, db, loops>>

(* reconcile reads the brokers first; one that does not answer is skipped  *)
(* and counts as flat.                                                     *)
ReconcileRead(down) ==
  /\ recon = "idle"
  /\ remote' = [s \in Symbols |-> Net(s, {tk \in tickets : tk.acct \notin down})]
  /\ recon' = "read"
  /\ Spend("reconcile")
  /\ UNCHANGED <<thread, kills, oms, tickets, db, toClose, closeTries>>

(* Mutant of ReconcileArm: only what the brokers hold is compared.         *)
ReconcileArmRemoteOnly ==
  /\ recon = "read"
  /\ kills' = kills \cup {s \in Symbols : remote[s] # 0 /\ remote[s] # pos[s]}
  /\ remote' = [s \in Symbols |-> 0]
  /\ recon' = "idle"
  /\ UNCHANGED <<thread, oms, tickets, db, toClose, closeTries, bounds>>

(* Then it reads the OMS and locks every pair on which the two differ.     *)
ReconcileArm ==
  /\ recon = "read"
  /\ kills' = kills \cup {s \in Symbols : remote[s] # pos[s]}
  /\ remote' = [s \in Symbols |-> 0]
  /\ recon' = "idle"
  /\ UNCHANGED <<thread, oms, tickets, db, toClose, closeTries, bounds>>

(* flatten_all lists the open positions of the accounts that answer.       *)
FlattenRead(down) ==
  /\ toClose = {}
  /\ toClose' = {tk \in tickets : tk.state = "open" /\ tk.acct \notin down}
  /\ Spend("flatten")
  /\ UNCHANGED <<thread, kills, oms, tickets, db, remote, recon, closeTries>>

(* It sends the account of each an opposing market order, past the risk    *)
(* kernel, the OMS and the orders table.                                   *)
ToClose == CHOOSE tk \in toClose : TRUE

Opposing(tk, q) ==
  [acct |-> tk.acct, num |-> Fresh(tk.acct), order |-> Flat, sym |-> tk.sym,
   units |-> IF tk.units > 0 THEN -q ELSE q, state |-> "open"]

NextPosition == toClose' = toClose \ {ToClose} /\ closeTries' = 0

(* Mutants of CloseAttemptFailed: one attempt too many; the retries begin  *)
(* anew on the same position.                                              *)
CloseAttemptFailedOffByOne ==
  IF closeTries <= MaxRetries
  THEN closeTries' = closeTries + 1 /\ UNCHANGED toClose
  ELSE NextPosition

CloseAttemptFailedForever ==
  /\ closeTries' = IF closeTries < MaxRetries THEN closeTries + 1 ELSE 0
  /\ UNCHANGED toClose

CloseAttemptFailed ==
  IF closeTries < MaxRetries
  THEN closeTries' = closeTries + 1 /\ UNCHANGED toClose
  ELSE NextPosition

(* The account takes it, wholly or in part; the answer may be lost.        *)
FlattenTaken ==
  /\ toClose # {}
  /\ TicketNums \ Used(ToClose.acct) # {}
  /\ \E q \in 1..MaxUnits :
       /\ q <= ToClose.units \/ q <= -ToClose.units
       /\ tickets' = tickets \cup {Opposing(ToClose, q)}
  /\ NextPosition \/ CloseAttemptFailed
  /\ UNCHANGED <<thread, kills, oms, db, remote, recon, bounds>>

(* It does not get through, or the account refuses.                        *)
FlattenNotTaken ==
  /\ toClose # {}
  /\ NextPosition \/ CloseAttemptFailed
  /\ UNCHANGED <<thread, kills, oms, tickets, db, remote, recon, bounds>>

(* The process dies and starts again: memory is empty, and nothing of it   *)
(* is rebuilt from the tables.                                             *)
Crash ==
  /\ Spend("crash")
  /\ pc' = [t \in Threads |-> "idle"]
  /\ req' = [t \in Threads |-> NoReq]
  /\ queue' = [t \in Threads |-> <<>>]
  /\ route' = [t \in Threads |-> <<>>]
  /\ tries' = [t \in Threads |-> 0]
  /\ ack' = [t \in Threads |-> NoAck]
  /\ seen' = [t \in Threads |-> 0]
  /\ kills' = {} /\ cache' = {}
  /\ sm' = [o \in Orders |-> NONE]
  /\ filled' = [o \in Orders |-> 0]
  /\ pos' = [s \in Symbols |-> 0]
  /\ remote' = [s \in Symbols |-> 0] /\ recon' = "idle"
  /\ toClose' = {} /\ closeTries' = 0
  /\ UNCHANGED <<tickets, db>>
-----------------------------------------------------------------------------
Next ==
  \/ \E t \in Threads : ThreadStep(t) \/ \E r \in Requests : Submit(t, r)
  \/ \E tk \in tickets : BrokerMoves(tk) \/ Cancel(tk)
  \/ \E k \in Switches : Arm(k) \/ Disarm(k)
  \/ \E down \in SUBSET Accounts : ReconcileRead(down) \/ FlattenRead(down)
  \/ ReconcileArm \/ FlattenTaken \/ FlattenNotTaken \/ Crash

Spec == Init /\ [][Next]_vars

(* A request thread and flatten_all run on, and the attempt it makes has   *)
(* some outcome, if only a timeout (the HTTP client always sets one).      *)
(* The reconciliation loop is periodic, and once in a while every broker   *)
(* answers it.                                                             *)
Fairness ==
  /\ \A t \in Threads : WF_vars(ThreadStep(t))
  /\ SF_vars(ReconcileRead({}))
  /\ WF_vars(ReconcileArm)
  /\ WF_vars(FlattenTaken \/ FlattenNotTaken)

LiveSpec == Spec /\ Fairness
-----------------------------------------------------------------------------
(* Properties *)

(* Every variable has its type; in particular no route is tried more often *)
(* than broker_max_retries allows.                                         *)
TypeOK ==
  /\ pc \in [Threads -> Steps]
  /\ req \in [Threads -> Requests]
  /\ queue \in [Threads -> Seq(Orders)]
  /\ route \in [Threads -> Seq(Accounts)]
  /\ tries \in [Threads -> 0..MaxRetries]
  /\ ack \in [Threads -> Acks]
  /\ seen \in [Threads -> Int]
  /\ kills \subseteq Switches
  /\ cache \subseteq Orders
  /\ sm \in [Orders -> LifecycleState \cup {NONE}]
  /\ filled \in [Orders -> Nat]
  /\ pos \in [Symbols -> Int]
  /\ tickets \subseteq Ticket
  /\ rows \in [Orders -> RowStatus]
  /\ fillRows \subseteq [num: TicketNums \cup {0}, sym: Symbols, units: Int]
  /\ DOMAIN remote = Symbols /\ recon \in {"idle", "read"}
  /\ toClose \subseteq Ticket /\ closeTries \in 0..MaxRetries
  /\ submits \in [Intents -> 0..MaxSubmits]
  /\ spent \in [Kinds -> Nat]

(* What is routed through the risk kernel, as the promise of OrderGateway. *)
Cleared(t) ==
  IF pc[t] = "cleared"
  THEN {o \in Orders : o.intent = req[t].intent}
  ELSE {queue[t][k] : k \in DOMAIN queue[t]}

Sent == {tk \in tickets : tk.order # Flat}

Scope      == [t \in Threads |-> Covering(req[t])]
Clearances == [t \in Threads |-> Cleared(t)]
Journal    == {o \in Orders : rows[o] # NONE}
Placed     == {[order |-> tk.order, place |-> <<tk.acct, tk.num>>] : tk \in Sent}

Gateway == INSTANCE OrderGateway WITH
  Requests <- Threads,
  Places   <- Accounts \X TicketNums,
  armed    <- kills,
  scope    <- Scope,
  cleared  <- Clearances,
  journal  <- Journal,
  placed   <- Placed

(* The write path keeps the promise of OrderGateway: whatever threads, the *)
(* operator, reconciliation and crashes interleave, an order reaches a     *)
(* broker only from a request that passed the kill switch unarmed, and     *)
(* only with its row already written.                                      *)
GatewayPromise == Gateway!Spec

(* The orders table knows every order that some broker ever took, also     *)
(* after a crash: the row is written before the send (execution.py:387).   *)
JournalBeforeExecution == \A tk \in Sent : rows[tk.order] # NONE

TicketsOf(o) == {tk \in tickets : tk.order = o}
Executed(o) ==
  MapThenSumSet(LAMBDA tk : SideOf[o.intent] * tk.units,
                {tk \in TicketsOf(o) : tk.state \in {"open", "closed"}})

(* The attempts the registry may make for one child: on every account of   *)
(* the route, the pinned one or those of Priority, and on each again as    *)
(* often as it retries.                                                    *)
Attempts == (IF Priority = <<>> THEN 1 ELSE Len(Priority)) * (MaxRetries + 1)

(* However answers are lost and retried and routes fail over, an order is  *)
(* taken at most once per attempt the registry may make for a submission.  *)
DuplicateBound ==
  \A o \in Orders : Cardinality(TicketsOf(o)) <= submits[o.intent] * Attempts

(* A broker executed part of the order, on the order's side.               *)
Executes(tk) ==
  tk.state \in {"open", "closed"} /\ SideOf[tk.order.intent] * tk.units > 0

(* An order is FILLED in the OMS only if some broker executed at least     *)
(* part of it: no retry, failover, resubmission or other thread's answer   *)
(* makes a fill up.                                                        *)
FillIsReal == \A o \in Orders : sm[o] = "FILLED" => \E tk \in TicketsOf(o) : Executes(tk)

Held(o) == \E t \in Threads : \E k \in DOMAIN queue[t] : queue[t][k] = o

(* What the row says of an order that the OMS has settled.  ACKED stands   *)
(* for two: nothing reported filled (or all of it, below one lot), and a   *)
(* part below one lot, which the row calls PARTIALLY_FILLED.               *)
RowFor(o) ==
  CASE sm[o] = "UNKNOWN" -> "REJECTED"
    [] sm[o] = "ACKED" /\ filled[o] \in 1..(Size(o) - 1) -> "PARTIALLY_FILLED"
    [] sm[o] = "ACKED" /\ filled[o] \notin 1..(Size(o) - 1) -> "SUBMITTED"
    [] sm[o] \in {"PARTIALLY_FILLED", "FILLED"} -> "FILLED"
    [] OTHER -> NONE

(* Once no thread works on an order any more, its row tells the story of   *)
(* its state machine and of filled_units, if its intent was submitted only *)
(* once: no order is left in flight in either, none is unreported, and a   *)
(* row FILLED belongs to an order that was booked.                         *)
JournalAgrees ==
  \A o \in Orders :
    (sm[o] # NONE /\ submits[o.intent] <= 1 /\ ~Held(o)) => rows[o] = RowFor(o)

(* The net positions of the OMS are what the fills table adds up to: no    *)
(* fill is booked in one and not in the other.  (Threads that book fills   *)
(* of one pair at the same time break it, see Attribute.)                  *)
FillTableMatchesLedger ==
  (\A t \in Threads : pc[t] \notin {"attribute", "record"}) =>
    \A s \in Symbols :
      pos[s] = MapThenSumSet(LAMBDA f : f.units, {f \in fillRows : f.sym = s})

Diverged(s) == Net(s, tickets) # pos[s]

(* A position the OMS and the brokers disagree about does not go unnoticed:*)
(* the pair is locked, unless they come to agree again.                    *)
DivergenceIsLocked == \A s \in Symbols : Diverged(s) ~> (s \in kills \/ ~Diverged(s))

(* Every request returns, whatever the brokers do.                         *)
RequestsTerminate == \A t \in Threads : pc[t] # "idle" ~> pc[t] = "idle"

(* flatten_all ends, whatever the brokers do.                              *)
FlattenEnds == toClose # {} ~> toClose = {}

Flattening(a) == {tk \in tickets : tk.acct = a /\ tk.order = Flat}

(* A flatten may reverse a position when the answer to a closing order is  *)
(* lost and the order is sent again, but not without limit: each position  *)
(* listed gets at most as many opposing orders as an attempt has retries.  *)
(* (Stated for the first flatten, so the flattens must be counted.)        *)
FlattenBound ==
  (Budget["flatten"] # Unlimited /\ spent["flatten"] <= 1) =>
    \A a \in Accounts :
      Cardinality(Flattening(a)) <=
        (MaxRetries + 1) * Cardinality({tk \in Sent : tk.acct = a})
-----------------------------------------------------------------------------
(* What the documentation says and the code does not do.                   *)

(* state_machine.py:88: terminal states have no forward transitions.  Only *)
(* a restart may forget the order.                                         *)
TerminalIsFinal ==
  [][\A o \in Orders : sm[o] \in Terminal => sm'[o] \in {sm[o], NONE}]_sm

(* kill_switches.py:18: the broker level halts a specific broker gateway.  *)
(* (With one account in Priority: a request that names no account can only *)
(* go to it.)                                                              *)
Reach(r) ==
  Covering(r) \cup
    (IF r.account = AnyAccount THEN {Priority[k] : k \in DOMAIN Priority} ELSE {})

BrokerGateway == INSTANCE OrderGateway WITH
  Requests <- Threads,
  Places   <- Accounts \X TicketNums,
  armed    <- kills,
  scope    <- [t \in Threads |-> Reach(req[t])],
  cleared  <- Clearances,
  journal  <- Journal,
  placed   <- Placed

HaltedBrokerReceivesNothing == BrokerGateway!Spec

(* oms.py:198: FILLED is "Filled completely".                              *)
FilledMeansExecuted == \A o \in Orders : sm[o] = "FILLED" => Executed(o) >= Size(o)

(* execution.py:275: the broker gateway uses the client tag for            *)
(* idempotency, so that a retry does not execute an order again.           *)
OneTicketPerSubmission ==
  \A o \in Orders : Cardinality(TicketsOf(o)) <= submits[o.intent]
=============================================================================
