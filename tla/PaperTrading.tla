---------------------------- MODULE PaperTrading ----------------------------
(***************************************************************************)
(* The forward paper-trading daemon (paper_trading/daemon.py) on its       *)
(* SQLite ledger (persistence.py): each save is a transaction of its own,  *)
(* and the process may die between any two of them.  What a restart finds  *)
(* is what recover_state reads back.  The daemon trades one pair; prices   *)
(* are left out, a closed position's profit is the position's own number,  *)
(* and the balance the set of the positions booked in it.                  *)
(***************************************************************************)
EXTENDS Integers, Sequences, FiniteSets

CONSTANTS
  MaxOrders,     \* orders over the whole history: their ids are 1..MaxOrders
  MaxUnits,      \* units of one order
  MaxSlices,     \* orders one intent is sliced into
  MaxIntents,    \* intents the strategy returns for one event
  MaxRollovers,  \* rollovers, at 21:00 UTC, that pass over an open position
  MaxCrashes,
  Nothing        \* no position, no row, no order in work

ASSUME PaperAssumption ==
  /\ MaxOrders \in Nat /\ MaxUnits \in Nat \ {0} /\ MaxSlices \in Nat \ {0}
  /\ MaxIntents \in Nat /\ MaxRollovers \in Nat /\ MaxCrashes \in Nat
  /\ Nothing \notin [id: Nat, side: {"BUY", "SELL"}, units: Nat]
  /\ Nothing \notin [id: Nat, side: {"BUY", "SELL"}, units: Nat, swaps: Nat]

OrderIds == 1..MaxOrders
Sides == {"BUY", "SELL"}

(* ExecutionOrder and Position, without prices.  A position is open while  *)
(* it has units; it is named for the order that opened it, which its       *)
(* position_id, the same for every position of the pair, does not do.      *)
Order == [id: OrderIds, side: Sides, units: 1..MaxUnits]
Position == [id: OrderIds, side: Sides, units: Nat, swaps: Nat]

VARIABLES
  pc,         \* the step of on_tick_or_bar, "idle", or "down"
  intents,    \* intents of the event still to submit
  batch,       \* orders of the intent still to execute; the head is in work
  known,      \* OMS: orders and their status
  machines,   \* OMS: the orders that have a state machine
  position,   \* OMS: the open position
  touched,    \* the position process_fill returned, or the rollover changed
  balance,    \* OMS: positions whose profit the balance holds
  seen,       \* _last_processed_time is set
  evening,    \* the last event came between 21:00 and midnight UTC
  dbOrders, dbFills, dbPosition, dbBalance,
  issued,     \* order ids used so far, and ...
  began,      \* ... when the event in work began
  rollovers, crashes, aborts,
  applied,    \* history: fills the OMS position is made of, and ...
  dbApplied,  \* ... those of the position row
  dbClosed,   \* history: positions once saved closed
  due,        \* history: rollovers each position was held over, and ...
  unwatched   \* ... those of them that were not followed by an event before
              \* midnight, or were not the last before it

memory == <<pc, intents, began, batch, known, machines, position, touched, balance, seen, applied>>
disk == <<dbOrders, dbFills, dbPosition, dbBalance, dbApplied, dbClosed>>
clock == <<evening, rollovers, due, unwatched>>
paperVars == <<memory, disk, issued, crashes, aborts, clock>>

InWork == Head(batch)
Open(p) == p # Nothing /\ p.units > 0

-----------------------------------------------------------------------------
(* The rollovers between the last event and one that comes so many dates   *)
(* later, in the evening or not; time does not run backwards.              *)
RolloversBetween(days, late) == days + (IF late THEN 1 ELSE 0) - (IF evening THEN 1 ELSE 0)

\* The daemon's own test, of the hours and the dates of the two.
Crosses(days, late) == late /\ (~evening \/ days > 0)

(* What passes over an open position meanwhile.                            *)
TimePasses(days, late) ==
  LET passed == RolloversBetween(days, late)
      met == IF late /\ passed > 0 THEN 1 ELSE 0
  IN /\ passed >= 0
     /\ evening' = late
     /\ IF position = Nothing THEN UNCHANGED <<rollovers, due, unwatched>>
        ELSE /\ rollovers + passed <= MaxRollovers
             /\ rollovers' = rollovers + passed
             /\ due' = [due EXCEPT ![position.id] = @ + passed]
             /\ unwatched' = [unwatched EXCEPT ![position.id] = @ + (passed - met)]

(* Mutant of Event: the rollover charges a copy of the position.           *)
EventChargesCopy(days, late, k) ==
  /\ pc = "idle"
  /\ TimePasses(days, late)
  /\ seen' = TRUE
  /\ intents' = k
  /\ began' = issued
  /\ IF position # Nothing /\ seen /\ Crosses(days, late)
       THEN pc' = "swap" /\ touched' = [position EXCEPT !.swaps = @ + 1]
       ELSE pc' = "submit" /\ UNCHANGED touched
  /\ UNCHANGED <<position, batch, known, machines, balance, applied, disk, issued, crashes, aborts>>

(* A market event: when a rollover came with it, if the daemon remembers   *)
(* the last event, the open position is charged once.  Rollovers followed  *)
(* by no event before midnight are charged by none.  Then the strategy is  *)
(* asked.                                                                  *)
Event(days, late, k) ==
  LET charged == [position EXCEPT !.swaps = @ + 1]
  IN /\ pc = "idle"
     /\ TimePasses(days, late)
     /\ seen' = TRUE
     /\ intents' = k
     /\ began' = issued
     /\ IF position # Nothing /\ seen /\ Crosses(days, late)
          THEN pc' = "swap" /\ position' = charged /\ touched' = charged
          ELSE pc' = "submit" /\ UNCHANGED <<position, touched>>
     /\ UNCHANGED <<batch, known, machines, balance, applied, disk, issued, crashes, aborts>>

(* save_position writes the one row of the pair, open or closed.           *)
WritePosition ==
  /\ dbPosition' = touched
  /\ dbApplied' = applied
  /\ dbClosed' = IF Open(touched) THEN dbClosed ELSE dbClosed \cup {touched.id}

SaveSwap ==
  /\ pc = "swap"
  /\ WritePosition
  /\ pc' = "submit"
  /\ UNCHANGED <<began, intents, batch, known, machines, position, touched,
                 balance, seen, applied, dbOrders, dbFills, dbBalance, issued,
                 crashes, aborts, clock>>

(* The risk firewall refuses the intent.                                   *)
Refused ==
  /\ pc = "submit" /\ intents > 0
  /\ intents' = intents - 1
  /\ UNCHANGED <<began, pc, batch, known, machines, position, touched, balance,
                 seen, applied, disk, issued, crashes, aborts, clock>>

(* submit_intent of the OMS: the orders of the slices are SUBMITTED and    *)
(* have state machines; nothing is on disk yet.                            *)
Routed(side, sizes) ==
  LET slices == [i \in DOMAIN sizes |-> [id |-> issued + i, side |-> side, units |-> sizes[i]]]
      ids == {slices[i].id : i \in DOMAIN slices}
  IN /\ pc = "submit" /\ intents > 0
     /\ issued + Len(sizes) <= MaxOrders
     /\ intents' = intents - 1
     /\ issued' = issued + Len(sizes)
     /\ batch' = slices
     /\ known' = [o \in OrderIds |-> IF o \in ids THEN "SUBMITTED" ELSE known[o]]
     /\ machines' = machines \cup ids
     /\ pc' = "order"
     /\ UNCHANGED <<began, position, touched, balance, seen, applied, disk,
                    crashes, aborts, clock>>

(* An intent of the same event that repeats one: the router returns its    *)
(* cached first order, which the OMS makes SUBMITTED again.  It has no     *)
(* units left.                                                             *)
Repeated(o) ==
  /\ pc = "submit" /\ intents > 0
  /\ o > began /\ o \in machines /\ known[o] = "FILLED"
  /\ intents' = intents - 1
  /\ batch' = <<[id |-> o, side |-> "BUY", units |-> 0]>>
  /\ known' = [known EXCEPT ![o] = "SUBMITTED"]
  /\ pc' = "order"
  /\ UNCHANGED <<began, machines, position, touched, balance, seen, applied, disk,
                 issued, crashes, aborts, clock>>

SaveOrder ==
  /\ pc = "order"
  /\ dbOrders' = [dbOrders EXCEPT ![InWork.id] = known[InWork.id]]
  /\ pc' = "execute"
  /\ UNCHANGED <<began, intents, batch, known, machines, position, touched,
                 balance, seen, applied, dbFills, dbPosition, dbBalance,
                 dbApplied, dbClosed, issued, crashes, aborts, clock>>

(* apply_fill: same side adds, the other side reduces and what exceeds the *)
(* position is dropped.                                                    *)
AfterFill(p, o) ==
  IF p = Nothing THEN [id |-> o.id, side |-> o.side, units |-> o.units, swaps |-> 0]
  ELSE IF p.side = o.side THEN [p EXCEPT !.units = @ + o.units]
  ELSE [p EXCEPT !.units = IF @ > o.units THEN @ - o.units ELSE 0]

(* Mutant of Execute: the profit enters the balance snapshot at once.      *)
ExecuteAndSnapshot ==
  LET p == AfterFill(position, InWork)
  IN /\ pc = "execute" /\ InWork.units > 0
     /\ known' = [known EXCEPT ![InWork.id] = "FILLED"]
     /\ touched' = p
     /\ position' = IF Open(p) THEN p ELSE Nothing
     /\ balance' = IF Open(p) THEN balance ELSE balance \cup {p.id}
     /\ dbBalance' = balance'
     /\ applied' = applied \cup {InWork.id}
     /\ pc' = "fill"
     /\ UNCHANGED <<began, intents, batch, machines, seen, dbOrders, dbFills,
                    dbPosition, dbApplied, dbClosed, issued, crashes, aborts,
                    clock>>

(* simulate_execution fills all remaining units; process_fill moves the    *)
(* order to FILLED and attributes the fill.  A position that is closed     *)
(* leaves the OMS and enters the balance.                                  *)
Execute ==
  LET p == AfterFill(position, InWork)
  IN /\ pc = "execute" /\ InWork.units > 0
     /\ known' = [known EXCEPT ![InWork.id] = "FILLED"]
     /\ touched' = p
     /\ position' = IF Open(p) THEN p ELSE Nothing
     /\ balance' = IF Open(p) THEN balance ELSE balance \cup {p.id}
     /\ applied' = applied \cup {InWork.id}
     /\ pc' = "fill"
     /\ UNCHANGED <<began, intents, batch, machines, seen, disk, issued, crashes,
                    aborts, clock>>

(* LotSize.from_units(0) raises: the handler is left where it is.          *)
Abort ==
  /\ pc = "execute" /\ InWork.units = 0
  /\ pc' = "idle"
  /\ batch' = <<>> /\ intents' = 0
  /\ aborts' = aborts + 1
  /\ UNCHANGED <<began, known, machines, position, touched, balance, seen,
                 applied, disk, issued, crashes, clock>>

(* Mutant of SaveFill: it also saves the order, FILLED, and a crash may    *)
(* come between.                                                           *)
SaveOrderFirst ==
  /\ pc = "fill"
  /\ IF dbOrders[InWork.id] = known[InWork.id]
       THEN dbFills' = dbFills \cup {InWork.id} /\ pc' = "filled" /\ UNCHANGED dbOrders
       ELSE /\ dbOrders' = [dbOrders EXCEPT ![InWork.id] = known[InWork.id]]
            /\ UNCHANGED <<dbFills, pc>>
  /\ UNCHANGED <<began, intents, batch, known, machines, position, touched,
                 balance, seen, applied, dbPosition, dbBalance, dbApplied,
                 dbClosed, issued, crashes, aborts, clock>>

SaveFill ==
  /\ pc = "fill"
  /\ dbFills' = dbFills \cup {InWork.id}
  /\ pc' = "filled"
  /\ UNCHANGED <<began, intents, batch, known, machines, position, touched,
                 balance, seen, applied, dbOrders, dbPosition, dbBalance,
                 dbApplied, dbClosed, issued, crashes, aborts, clock>>

SaveFilledOrder ==
  /\ pc = "filled"
  /\ dbOrders' = [dbOrders EXCEPT ![InWork.id] = known[InWork.id]]
  /\ pc' = "position"
  /\ UNCHANGED <<began, intents, batch, known, machines, position, touched,
                 balance, seen, applied, dbFills, dbPosition, dbBalance,
                 dbApplied, dbClosed, issued, crashes, aborts, clock>>

(* Mutant of SavePosition: the position is saved with the last order of    *)
(* the batch only.                                                         *)
SavePositionLast ==
  /\ pc = "position"
  /\ IF Len(batch) > 1 THEN UNCHANGED <<dbPosition, dbApplied, dbClosed>> ELSE WritePosition
  /\ batch' = Tail(batch)
  /\ pc' = IF Len(batch) > 1 THEN "order" ELSE "submit"
  /\ UNCHANGED <<began, intents, known, machines, position, touched, balance,
                 seen, applied, dbOrders, dbFills, dbBalance, issued, crashes,
                 aborts, clock>>

SavePosition ==
  /\ pc = "position"
  /\ WritePosition
  /\ batch' = Tail(batch)
  /\ pc' = IF Len(batch) > 1 THEN "order" ELSE "submit"
  /\ UNCHANGED <<began, intents, known, machines, position, touched, balance,
                 seen, applied, dbOrders, dbFills, dbBalance, issued, crashes,
                 aborts, clock>>

(* save_equity_snapshot ends the event.                                    *)
Snapshot ==
  /\ pc = "submit" /\ intents = 0
  /\ dbBalance' = balance
  /\ pc' = "idle"
  /\ UNCHANGED <<began, intents, batch, known, machines, position, touched,
                 balance, seen, applied, dbOrders, dbFills, dbPosition, dbApplied,
                 dbClosed, issued, crashes, aborts, clock>>

-----------------------------------------------------------------------------
Crash ==
  /\ pc # "down"
  /\ crashes < MaxCrashes
  /\ crashes' = crashes + 1
  /\ pc' = "down"
  /\ intents' = 0 /\ batch' = <<>>
  /\ known' = [o \in OrderIds |-> "NONE"]
  /\ machines' = {} /\ balance' = {} /\ applied' = {}
  /\ position' = Nothing /\ touched' = Nothing
  /\ seen' = FALSE
  /\ UNCHANGED <<began, disk, issued, aborts, clock>>

(* A new process and recover(): active rows become orders without a state  *)
(* machine, the open row becomes the position, the last snapshot the       *)
(* balance.                                                                *)
Recover ==
  /\ pc = "down"
  /\ pc' = "idle"
  /\ known' = [o \in OrderIds |-> IF dbOrders[o] = "SUBMITTED" THEN "SUBMITTED" ELSE "NONE"]
  /\ position' = IF Open(dbPosition) THEN dbPosition ELSE Nothing
  /\ balance' = dbBalance
  /\ applied' = dbApplied
  /\ UNCHANGED <<began, intents, batch, machines, touched, seen, disk, issued,
                 crashes, aborts, clock>>

PaperInit ==
  /\ pc = "idle" /\ intents = 0 /\ batch = <<>>
  /\ known = [o \in OrderIds |-> "NONE"] /\ dbOrders = known
  /\ machines = {} /\ balance = {} /\ applied = {}
  /\ position = Nothing /\ touched = Nothing /\ dbPosition = Nothing
  /\ seen = FALSE
  /\ dbFills = {} /\ dbBalance = {} /\ dbApplied = {} /\ dbClosed = {}
  /\ issued = 0 /\ began = 0 /\ rollovers = 0 /\ crashes = 0 /\ aborts = 0
  /\ evening \in BOOLEAN
  /\ due = [o \in OrderIds |-> 0] /\ unwatched = due

Sizes == UNION {[1..k -> 1..MaxUnits] : k \in 1..MaxSlices}

Handler ==
  \/ SaveSwap
  \/ Refused
  \/ \E side \in Sides, sizes \in Sizes : Routed(side, sizes)
  \/ \E o \in OrderIds : Repeated(o)
  \/ SaveOrder
  \/ Execute
  \/ Abort
  \/ SaveFill
  \/ SaveFilledOrder
  \/ SavePosition
  \/ Snapshot

PaperNext ==
  \/ \E days \in 0..(MaxRollovers + 1), late \in BOOLEAN, k \in 0..MaxIntents : Event(days, late, k)
  \/ Handler
  \/ Crash
  \/ Recover

PaperSpec == PaperInit /\ [][PaperNext]_paperVars

-----------------------------------------------------------------------------
(* The steps between save_fill and save_position of one order, and between *)
(* its two save_order.                                                     *)
FillInFlight == pc \in {"filled", "position"}
OrderInFlight == pc \in {"execute", "fill", "filled"}

LostFills == dbFills \ dbApplied
Orphans == {o \in OrderIds : dbOrders[o] = "SUBMITTED"}

(* The ledger's own order of writing: the position row never holds a fill  *)
(* that is not saved, a fill never precedes its order, a row is FILLED     *)
(* only when its fill is saved.                                            *)
LedgerOrder ==
  /\ dbApplied \subseteq dbFills
  /\ \A o \in dbFills : dbOrders[o] # "NONE"
  /\ \A o \in OrderIds : dbOrders[o] = "FILLED" => o \in dbFills

(* What a crash costs: it leaves at most one saved fill that no position   *)
(* will ever hold and at most one order that stays active for good; an     *)
(* intent that repeats another leaves one active order too.                *)
CrashDamage ==
  /\ Cardinality(LostFills) <= crashes + (IF FillInFlight THEN 1 ELSE 0)
  /\ Cardinality(Orphans) <= crashes + aborts + (IF OrderInFlight THEN 1 ELSE 0)

(* A profit is booked once: the balance a restart begins with never holds  *)
(* a position that the restart also finds open, and every position in it   *)
(* was saved as closed.                                                    *)
BookedOnce ==
  /\ Open(dbPosition) => dbPosition.id \notin dbBalance
  /\ position # Nothing => position.id \notin balance
  /\ dbBalance \subseteq dbClosed

(* A rollover of an open position is charged once, if an event follows it  *)
(* before midnight; a crash loses two of these at most, the one that was   *)
(* not saved yet and the one that passes before the first event after it.  *)
SwapsChargedOnce ==
  position # Nothing =>
    due[position.id] - unwatched[position.id] - position.swaps \in 0..(2 * crashes)

(* What the ledger never shows, and what a crash costs at most.            *)
LedgerHolds == LedgerOrder /\ BookedOnce
CrashCosts == CrashDamage /\ SwapsChargedOnce
=============================================================================
