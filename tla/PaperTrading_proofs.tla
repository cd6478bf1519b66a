-------------------------- MODULE PaperTrading_proofs ------------------------
(***************************************************************************)
(* That the paper-trading ledger never shows a fill, an order or a profit  *)
(* out of order, and what crashes cost it at most, for every number of     *)
(* orders, slices, rollovers and crashes.                                  *)
(***************************************************************************)
EXTENDS PaperTrading, FiniteSetTheorems, SequenceTheorems, TLAPS

Pcs == {"idle", "swap", "submit", "order", "execute", "fill", "filled", "position", "down"}
OrderStatus == {"NONE", "SUBMITTED", "FILLED"}
WorkOrder == [id: OrderIds, side: Sides, units: 0..MaxUnits]
Held == Position \cup {Nothing}

MemoryType ==
  /\ pc \in Pcs /\ intents \in Nat /\ began \in 0..MaxOrders
  /\ batch \in Seq(WorkOrder)
  /\ known \in [OrderIds -> OrderStatus] /\ machines \in SUBSET OrderIds
  /\ position \in Held /\ touched \in Held
  /\ balance \in SUBSET OrderIds /\ applied \in SUBSET OrderIds /\ seen \in BOOLEAN

DiskType ==
  /\ dbOrders \in [OrderIds -> OrderStatus] /\ dbPosition \in Held
  /\ dbFills \in SUBSET OrderIds /\ dbApplied \in SUBSET OrderIds
  /\ dbBalance \in SUBSET OrderIds /\ dbClosed \in SUBSET OrderIds

CountType ==
  /\ issued \in 0..MaxOrders /\ crashes \in Nat /\ aborts \in Nat
  /\ evening \in BOOLEAN /\ rollovers \in Nat
  /\ due \in [OrderIds -> Nat] /\ unwatched \in [OrderIds -> Nat]
  /\ \A o \in OrderIds : unwatched[o] <= due[o]

USE DEF clock

PaperType == MemoryType /\ DiskType /\ CountType

-----------------------------------------------------------------------------
Executed == pc \in {"fill", "filled", "position"}
Working == pc \in {"order", "execute"} \/ Executed

(* The orders of the batch that are still to be executed.                  *)
Ahead == IF Executed THEN DOMAIN batch \ {1} ELSE DOMAIN batch

BatchKept ==
  /\ Working <=> batch # <<>>
  /\ \A i \in Ahead : known[batch[i].id] = "SUBMITTED"
  /\ \A i, j \in DOMAIN batch : batch[i].id = batch[j].id => i = j
  /\ Executed => known[InWork.id] = "FILLED"
  /\ OrderInFlight => dbOrders[InWork.id] = "SUBMITTED"

(* The ids that name a position, in memory or on disk, open or booked.     *)
IdsOf(p) == IF p = Nothing THEN {} ELSE {p.id}
Taken ==
  balance \cup dbBalance \cup dbClosed \cup IdsOf(position) \cup IdsOf(touched) \cup IdsOf(dbPosition)

(* An order still to be executed has named no position yet.                *)
NamesFresh ==
  /\ \A o \in Taken : o <= issued
  /\ \A o \in OrderIds : due[o] # 0 \/ known[o] = "FILLED" => o <= issued
  /\ \A i \in DOMAIN batch : batch[i].id <= issued
  /\ \A i \in Ahead : batch[i].units > 0 => batch[i].id \notin Taken /\ due[batch[i].id] = 0

LedgerKept ==
  /\ LedgerOrder
  /\ applied \subseteq dbFills \cup (IF pc = "fill" THEN {InWork.id} ELSE {})
  /\ pc = "fill" => InWork.id \in applied
  /\ pc = "filled" => InWork.id \in dbFills

OpenPart(p) == IF Open(p) THEN p ELSE Nothing

(* Between two events the position is that of its row, and in an event     *)
(* that of what will be written there.                                     *)
Synced ==
  /\ pc \in {"idle", "submit", "order", "execute"} => position = OpenPart(dbPosition)
  /\ pc = "swap" \/ Executed => touched # Nothing /\ position = OpenPart(touched)
  /\ pc = "swap" => Open(touched)
  /\ pc = "down" => position = Nothing

BookedKept ==
  /\ BookedOnce
  /\ pc # "down" => dbBalance \subseteq balance
  /\ balance \subseteq dbClosed \cup (IF Executed /\ ~Open(touched) THEN {touched.id} ELSE {})

DamageKept ==
  /\ CrashDamage
  /\ pc # "down" => Cardinality(dbFills \ applied) <= crashes

(* Rollovers that an event followed before midnight and the position was   *)
(* not charged for: while a restart has not seen an event, one is still    *)
(* allowed for that.                                                       *)
Watched(o) == due[o] - unwatched[o]
Uncharged(p) == Watched(p.id) - p.swaps
SwapsKept ==
  /\ ~seen => pc \in {"idle", "down"}
  /\ position # Nothing => Uncharged(position) \in 0..(2 * crashes - (IF seen THEN 0 ELSE 1))
  /\ Open(dbPosition) =>
       Uncharged(dbPosition) \in
         0..(2 * crashes - (IF seen THEN 0 ELSE 1) + (IF pc = "swap" THEN 1 ELSE 0))

-----------------------------------------------------------------------------
(* Types                                                                   *)

LEMMA TailElements ==
  ASSUME NEW S, NEW s \in Seq(S), s # <<>>
  PROVE  /\ Head(s) = s[1] /\ 1 \in DOMAIN s /\ Head(s) \in S /\ Tail(s) \in Seq(S)
         /\ Len(s) > 1 <=> Tail(s) # <<>>
         /\ \A k \in DOMAIN Tail(s) :
              k \in Nat /\ k + 1 # 1 /\ k + 1 \in DOMAIN s /\ Tail(s)[k] = s[k + 1]
<1>1. Len(s) \in Nat \ {0} /\ Len(Tail(s)) = Len(s) - 1 /\ DOMAIN Tail(s) = 1..Len(Tail(s))
      /\ DOMAIN s = 1..Len(s) /\ Tail(s) \in Seq(S) /\ Head(s) = s[1]
  BY HeadTailProperties, EmptySeq, LenProperties
<1>2. \A k \in 1..(Len(s) - 1) : k \in Nat /\ k + 1 # 1 /\ k + 1 \in 1..Len(s)
  BY <1>1
<1>3. 1 \in DOMAIN s /\ s[1] \in S
  BY <1>1
<1>4. Len(s) > 1 <=> Tail(s) # <<>>
  <2>1. Len(<<>>) = 0
    OBVIOUS
  <2>2. CASE Tail(s) = <<>>
    BY <1>1, <2>1, <2>2
  <2>3. CASE Tail(s) # <<>>
    <3>1. Len(Tail(s)) # 0
      BY <1>1, <2>3, EmptySeq
    <3>2. QED
      BY <1>1, <2>3, <3>1
  <2>4. QED
    BY <2>2, <2>3
<1>5. QED
  BY <1>1, <1>2, <1>3, <1>4

LEMMA InWorkType ==
  ASSUME MemoryType, batch # <<>>
  PROVE  /\ InWork = batch[1] /\ 1 \in DOMAIN batch
         /\ InWork \in WorkOrder /\ InWork.id \in OrderIds
<1>1. Head(batch) = batch[1] /\ 1 \in DOMAIN batch /\ Head(batch) \in WorkOrder
  BY TailElements DEF MemoryType
<1>2. QED
  BY <1>1 DEF InWork, WorkOrder

(* What the slices of an intent are.                                       *)
Slices(side, sizes) ==
  [i \in DOMAIN sizes |-> [id |-> issued + i, side |-> side, units |-> sizes[i]]]

LEMMA SlicesType ==
  ASSUME PaperType, NEW side \in Sides, NEW sizes \in Sizes, issued + Len(sizes) <= MaxOrders
  PROVE  /\ Slices(side, sizes) \in Seq(WorkOrder) /\ Slices(side, sizes) # <<>>
         /\ DOMAIN Slices(side, sizes) = 1..Len(sizes) /\ Len(sizes) \in Nat \ {0}
         /\ \A i \in 1..Len(sizes) :
              /\ Slices(side, sizes)[i].id = issued + i /\ issued + i \in OrderIds
              /\ Slices(side, sizes)[i].units = sizes[i]
<1>1. PICK k \in 1..MaxSlices : sizes \in [1..k -> 1..MaxUnits]
  BY DEF Sizes
<1>2. k \in Nat \ {0} /\ MaxOrders \in Nat /\ MaxUnits \in Nat \ {0} /\ issued \in Nat
  BY PaperAssumption DEF PaperType, CountType
<1>3. sizes \in Seq(1..MaxUnits) /\ Len(sizes) = k /\ DOMAIN sizes = 1..k
  BY <1>1, <1>2
<1>4. \A i \in 1..k : issued + i \in OrderIds /\ sizes[i] \in 0..MaxUnits
  BY <1>1, <1>2, <1>3 DEF OrderIds
<1>5. \A i \in 1..k : [id |-> issued + i, side |-> side, units |-> sizes[i]] \in WorkOrder
  BY <1>4 DEF WorkOrder
<1> DEFINE sl == Slices(side, sizes)
<1>6. sl = [i \in 1..k |-> [id |-> issued + i, side |-> side, units |-> sizes[i]]]
  BY <1>3 DEF Slices
<1>7. sl \in Seq(WorkOrder)
  <2>1. sl \in [1..k -> WorkOrder]
    BY <1>5, <1>6
  <2>2. QED
    BY <1>2, <2>1
<1>8. sl # <<>>
  <2>1. 1 \in DOMAIN sl
    BY <1>2, <1>6
  <2>2. DOMAIN <<>> = {}
    OBVIOUS
  <2>3. QED
    BY <2>1, <2>2
<1>9. \A i \in 1..k : sl[i].id = issued + i /\ sl[i].units = sizes[i]
  BY <1>6
<1>10. DOMAIN sl = 1..k
  BY <1>6
<1> HIDE DEF sl
<1>11. QED
  BY <1>2, <1>3, <1>4, <1>7, <1>8, <1>9, <1>10 DEF sl

LEMMA InitPaperType == PaperInit => PaperType
<1> SUFFICES ASSUME PaperInit PROVE PaperType
  OBVIOUS
<1> USE PaperAssumption DEF PaperInit
<1>1. <<>> \in Seq(WorkOrder)
  OBVIOUS
<1>2. batch \in Seq(WorkOrder) /\ known \in [OrderIds -> OrderStatus]
  BY <1>1 DEF OrderStatus
<1>3. 0 \in 0..MaxOrders
  OBVIOUS
<1>4. MemoryType
  BY <1>2, <1>3 DEF MemoryType, Pcs, Held
<1>5. QED
  BY <1>4 DEF PaperType, DiskType, CountType, OrderStatus, Held

(* What a fill makes of the position.                                      *)
LEMMA FillType ==
  ASSUME NEW p \in Held, NEW o \in WorkOrder, o.units > 0
  PROVE  /\ AfterFill(p, o) \in Position
         /\ p = Nothing => AfterFill(p, o).id = o.id /\ AfterFill(p, o).swaps = 0
         /\ p # Nothing => AfterFill(p, o).id = p.id /\ AfterFill(p, o).swaps = p.swaps
<1> MaxUnits \in Nat
  BY PaperAssumption
<1>1. CASE p = Nothing
  BY <1>1 DEF AfterFill, Position, WorkOrder
<1>2. CASE p # Nothing
  <2>1. p \in [id: OrderIds, side: Sides, units: Nat, swaps: Nat] /\ o.units \in Nat
    BY <1>2 DEF Held, Position, WorkOrder
  <2>2. p.units + o.units \in Nat /\ (p.units > o.units => p.units - o.units \in Nat)
    BY <2>1
  <2>3. QED
    BY <1>2, <2>1, <2>2 DEF AfterFill, Position
<1>3. QED
  BY <1>1, <1>2

LEMMA PositionFields ==
  ASSUME NEW p \in Held, p # Nothing
  PROVE  p.id \in OrderIds /\ p.units \in Nat /\ p.swaps \in Nat
BY DEF Held, Position

(* What time does to the counts of rollovers: the open position's go up by *)
(* one more than those nothing was watching when an event crosses one.     *)
LEMMA TimeKeeps ==
  ASSUME PaperType, NEW days \in Nat, NEW late \in BOOLEAN, TimePasses(days, late)
  PROVE  /\ evening' \in BOOLEAN /\ rollovers' \in Nat
         /\ due' \in [OrderIds -> Nat] /\ unwatched' \in [OrderIds -> Nat]
         /\ \A o \in OrderIds : unwatched'[o] <= due'[o]
         /\ position = Nothing => UNCHANGED <<due, unwatched>>
         /\ position # Nothing =>
              /\ \A o \in OrderIds \ {position.id} :
                   due'[o] = due[o] /\ unwatched'[o] = unwatched[o]
              /\ due'[position.id] - unwatched'[position.id] =
                   Watched(position.id) + (IF Crosses(days, late) THEN 1 ELSE 0)
<1> USE DEF PaperType, CountType
<1>1. CASE position = Nothing
  BY <1>1 DEF TimePasses
<1>2. CASE position # Nothing
  <2> DEFINE passed == RolloversBetween(days, late)
             met == IF late /\ passed > 0 THEN 1 ELSE 0
             id == position.id
  <2>1. /\ passed >= 0 /\ evening' = late /\ rollovers' = rollovers + passed
        /\ due' = [due EXCEPT ![id] = @ + passed]
        /\ unwatched' = [unwatched EXCEPT ![id] = @ + (passed - met)]
    BY <1>2 DEF TimePasses
  <2>2. passed \in Nat /\ met \in {0, 1} /\ met <= passed
    BY <2>1 DEF RolloversBetween
  <2>3. met = IF Crosses(days, late) THEN 1 ELSE 0
    BY DEF Crosses, RolloversBetween
  <2>4. id \in OrderIds
    BY <1>2, PositionFields DEF MemoryType
  <2> HIDE DEF passed, met, id
  <2>5. /\ due'[id] = due[id] + passed /\ unwatched'[id] = unwatched[id] + (passed - met)
        /\ \A o \in OrderIds \ {id} : due'[o] = due[o] /\ unwatched'[o] = unwatched[o]
    BY <2>1, <2>4
  <2>6. due'[id] - unwatched'[id] = Watched(id) + met
    BY <2>2, <2>4, <2>5 DEF Watched
  <2>7. rollovers' \in Nat /\ due' \in [OrderIds -> Nat] /\ unwatched' \in [OrderIds -> Nat]
    <3>1. /\ rollovers + passed \in Nat /\ due[id] + passed \in Nat
          /\ unwatched[id] + (passed - met) \in Nat
      BY <2>2, <2>4
    <3>2. due' \in [OrderIds -> Nat]
      BY <2>1, <3>1
    <3>3. unwatched' \in [OrderIds -> Nat]
      BY <2>1, <3>1
    <3>4. QED
      BY <2>1, <3>1, <3>2, <3>3
  <2>8. \A o \in OrderIds : unwatched'[o] <= due'[o]
    BY <2>2, <2>4, <2>5
  <2>9. QED
    BY <1>2, <2>1, <2>3, <2>5, <2>6, <2>7, <2>8 DEF id
<1>3. QED
  BY <1>1, <1>2

LEMMA PaperTypeStep ==
  ASSUME PaperType, BatchKept, Synced, [PaperNext]_paperVars
  PROVE  PaperType'
<1> USE DEF PaperType
<1>1. ASSUME NEW days \in 0..(MaxRollovers + 1), NEW late \in BOOLEAN, NEW k \in 0..MaxIntents,
             Event(days, late, k)
      PROVE  PaperType'
  <2>1. k \in Nat /\ days \in Nat /\ TimePasses(days, late)
    BY <1>1, PaperAssumption DEF Event
  <2>2. /\ evening' \in BOOLEAN /\ rollovers' \in Nat
        /\ due' \in [OrderIds -> Nat] /\ unwatched' \in [OrderIds -> Nat]
        /\ \A o \in OrderIds : unwatched'[o] <= due'[o]
    BY <2>1, TimeKeeps
  <2>3. pc' \in Pcs /\ position' \in Held /\ touched' \in Held
    <3>1. CASE position # Nothing /\ seen /\ Crosses(days, late)
      <4>1. [position EXCEPT !.swaps = @ + 1] \in Position
        BY <3>1 DEF MemoryType, Held, Position
      <4>2. QED
        BY <1>1, <3>1, <4>1 DEF Event, Pcs, Held
    <3>2. CASE ~(position # Nothing /\ seen /\ Crosses(days, late))
      BY <1>1, <3>2 DEF Event, MemoryType, Pcs
    <3>3. QED
      BY <3>1, <3>2
  <2>4. QED
    BY <1>1, <2>1, <2>2, <2>3 DEF Event, MemoryType, DiskType, CountType, disk
<1>2. CASE SaveSwap
  <2>1. touched # Nothing
    BY <1>2 DEF SaveSwap, Synced
  <2>2. QED
    BY <1>2, <2>1, PositionFields
    DEF SaveSwap, WritePosition, MemoryType, DiskType, CountType, Pcs
<1>3. CASE Refused
  BY <1>3 DEF Refused, MemoryType, DiskType, CountType, disk
<1>4. ASSUME NEW side \in Sides, NEW sizes \in Sizes, Routed(side, sizes) PROVE PaperType'
  <2>1. batch' = Slices(side, sizes) /\ issued + Len(sizes) <= MaxOrders
    BY <1>4 DEF Routed, Slices
  <2>2. /\ batch' \in Seq(WorkOrder) /\ Len(sizes) \in Nat
        /\ {Slices(side, sizes)[i].id : i \in DOMAIN Slices(side, sizes)} \in SUBSET OrderIds
    BY <2>1, SlicesType
  <2>3. machines' \in SUBSET OrderIds
    BY <1>4, <2>2 DEF Routed, Slices, MemoryType
  <2>4. known' \in [OrderIds -> OrderStatus]
    BY <1>4 DEF Routed, MemoryType, OrderStatus
  <2>5. issued' \in 0..MaxOrders
    BY <1>4, <2>1, <2>2, PaperAssumption DEF Routed, CountType
  <2>6. intents' \in Nat /\ pc' \in Pcs
    BY <1>4 DEF Routed, MemoryType, Pcs
  <2>7. QED
    BY <1>4, <2>2, <2>3, <2>4, <2>5, <2>6 DEF Routed, MemoryType, DiskType, CountType, disk
<1>5. ASSUME NEW o \in OrderIds, Repeated(o) PROVE PaperType'
  <2>1. [id |-> o, side |-> "BUY", units |-> 0] \in WorkOrder
    BY PaperAssumption DEF WorkOrder, Sides
  <2>2. batch' \in Seq(WorkOrder)
    BY <1>5, <2>1 DEF Repeated
  <2>3. QED
    BY <1>5, <2>2 DEF Repeated, MemoryType, DiskType, CountType, disk, OrderStatus, Pcs
<1>6. ASSUME Working PROVE InWork.id \in OrderIds /\ InWork \in WorkOrder
  BY <1>6, InWorkType DEF BatchKept
<1>7. CASE SaveOrder \/ SaveFill \/ SaveFilledOrder
  <2>1. Working
    BY <1>7 DEF SaveOrder, SaveFill, SaveFilledOrder, Working, Executed
  <2>2. QED
    BY <1>6, <1>7, <2>1
    DEF SaveOrder, SaveFill, SaveFilledOrder, MemoryType, DiskType, CountType, Pcs
<1>8. CASE Execute
  <2>1. InWork.id \in OrderIds /\ InWork \in WorkOrder
    BY <1>6, <1>8 DEF Execute, Working
  <2>2. AfterFill(position, InWork) \in Position
    BY <1>8, <2>1, FillType DEF Execute, MemoryType
  <2>3. AfterFill(position, InWork).id \in OrderIds
    BY <2>2 DEF Position
  <2>4. balance' \in SUBSET OrderIds /\ touched' \in Held /\ position' \in Held
    BY <1>8, <2>2, <2>3 DEF Execute, MemoryType, Held
  <2>5. QED
    BY <1>8, <2>1, <2>4 DEF Execute, MemoryType, DiskType, CountType, disk, OrderStatus, Pcs
<1>9. CASE Abort
  BY <1>9 DEF Abort, MemoryType, DiskType, CountType, disk, Pcs
<1>10. CASE SavePosition
  <2>1. touched # Nothing /\ Tail(batch) \in Seq(WorkOrder)
    BY <1>10, TailElements DEF SavePosition, Synced, BatchKept, Working, Executed, MemoryType
  <2>2. pc' \in Pcs
    BY <1>10 DEF SavePosition, Pcs
  <2>3. QED
    BY <1>10, <2>1, <2>2, PositionFields
    DEF SavePosition, WritePosition, MemoryType, DiskType, CountType
<1>11. CASE Snapshot
  BY <1>11 DEF Snapshot, MemoryType, DiskType, CountType, Pcs
<1>12. CASE Crash
  <2>1. <<>> \in Seq(WorkOrder)
    OBVIOUS
  <2>2. QED
    <3>1. known' \in [OrderIds -> OrderStatus] /\ batch' \in Seq(WorkOrder)
      BY <1>12, <2>1 DEF Crash, OrderStatus
    <3>2. crashes' \in Nat /\ intents' \in Nat
      BY <1>12 DEF Crash, CountType
    <3>3. QED
      BY <1>12, <3>1, <3>2 DEF Crash, MemoryType, DiskType, CountType, disk, Pcs, Held
<1>13. CASE Recover
  BY <1>13 DEF Recover, MemoryType, DiskType, CountType, disk, Pcs, OrderStatus, Held
<1>14. CASE UNCHANGED paperVars
  BY <1>14 DEF paperVars, memory, disk, MemoryType, DiskType, CountType
<1>15. QED
  BY <1>1, <1>2, <1>3, <1>4, <1>5, <1>7, <1>8, <1>9, <1>10, <1>11, <1>12, <1>13, <1>14
  DEF PaperNext, Handler


-----------------------------------------------------------------------------
(* The batch in work                                                       *)

(* Events, saves outside of a batch, failures and restarts: no work.       *)
LEMMA Idling ==
  ASSUME BatchKept,
         \/ \E days \in 0..(MaxRollovers + 1), late \in BOOLEAN, k \in 0..MaxIntents :
                Event(days, late, k)
         \/ SaveSwap \/ Refused \/ Snapshot \/ Abort \/ Crash \/ Recover
  PROVE  batch' = <<>> /\ ~Working' /\ Ahead' = {} /\ DOMAIN batch' = {}
<1>1. CASE \/ \E days \in 0..(MaxRollovers + 1), late \in BOOLEAN, k \in 0..MaxIntents :
                Event(days, late, k)
           \/ SaveSwap \/ Refused \/ Snapshot \/ Recover
  <2>1. ~Working /\ batch' = batch
    BY <1>1 DEF Event, SaveSwap, Refused, Snapshot, Recover, Working, Executed
  <2>2. ~Working' /\ ~Executed'
    BY <1>1 DEF Event, SaveSwap, Refused, Snapshot, Recover, Working, Executed
  <2>3. batch = <<>> /\ DOMAIN <<>> = {}
    BY <2>1 DEF BatchKept
  <2>4. QED
    BY <2>1, <2>2, <2>3 DEF Ahead
<1>2. CASE Abort \/ Crash
  <2>1. ~Working' /\ ~Executed' /\ batch' = <<>> /\ DOMAIN <<>> = {}
    BY <1>2 DEF Abort, Crash, Working, Executed
  <2>2. QED
    BY <2>1 DEF Ahead
<1>3. QED
  BY <1>1, <1>2

LEMMA BatchStep ==
  ASSUME PaperType, BatchKept, NamesFresh, [PaperNext]_paperVars
  PROVE  BatchKept'
<1> USE DEF PaperType, MemoryType, DiskType
<1>1. CASE \/ \E days \in 0..(MaxRollovers + 1), late \in BOOLEAN, k \in 0..MaxIntents :
                Event(days, late, k)
           \/ SaveSwap \/ Refused \/ Snapshot \/ Abort \/ Crash \/ Recover
  <2>1. batch' = <<>> /\ ~Working' /\ Ahead' = {} /\ DOMAIN batch' = {}
    BY <1>1, Idling
  <2>2. ~Executed' /\ ~OrderInFlight'
    BY <2>1 DEF Working, Executed, OrderInFlight
  <2>3. QED
    BY <2>1, <2>2 DEF BatchKept
<1>2. ASSUME NEW side \in Sides, NEW sizes \in Sizes, Routed(side, sizes) PROVE BatchKept'
  <2>1. batch' = Slices(side, sizes) /\ issued + Len(sizes) <= MaxOrders /\ pc' = "order"
    BY <1>2 DEF Routed, Slices
  <2>2. /\ batch' # <<>> /\ DOMAIN batch' = 1..Len(sizes)
        /\ \A i \in 1..Len(sizes) : batch'[i].id = issued + i /\ issued + i \in OrderIds
    BY <2>1, SlicesType
  <2>3. \A i \in DOMAIN batch' : known'[batch'[i].id] = "SUBMITTED"
    BY <1>2, <2>1, <2>2 DEF Routed, Slices
  <2>4. \A i, j \in DOMAIN batch' : batch'[i].id = batch'[j].id => i = j
    BY <2>2, SlicesType DEF CountType
  <2>5. QED
    BY <2>1, <2>2, <2>3, <2>4 DEF BatchKept, Working, Executed, Ahead, OrderInFlight
<1>3. ASSUME NEW o \in OrderIds, Repeated(o) PROVE BatchKept'
  <2>1. batch' = <<[id |-> o, side |-> "BUY", units |-> 0]>> /\ pc' = "order"
    BY <1>3 DEF Repeated
  <2>2. batch' # <<>> /\ DOMAIN batch' = {1} /\ batch'[1].id = o
    BY <2>1
  <2>3. known'[o] = "SUBMITTED"
    BY <1>3 DEF Repeated
  <2>4. QED
    BY <2>1, <2>2, <2>3 DEF BatchKept, Working, Executed, Ahead, OrderInFlight
<1>4. ASSUME Working
      PROVE  InWork = batch[1] /\ 1 \in DOMAIN batch /\ InWork.id \in OrderIds
             /\ \A i \in DOMAIN batch : batch[i].id \in OrderIds
  <2>1. InWork = batch[1] /\ 1 \in DOMAIN batch /\ InWork.id \in OrderIds
    BY <1>4, InWorkType DEF BatchKept
  <2>2. \A i \in DOMAIN batch : batch[i] \in WorkOrder
    OBVIOUS
  <2>3. QED
    BY <2>1, <2>2 DEF WorkOrder
<1>5. CASE SaveOrder
  <2>1. Working /\ Working' /\ ~Executed /\ ~Executed' /\ UNCHANGED <<batch, known>>
    BY <1>5 DEF SaveOrder, Working, Executed
  <2>2. dbOrders'[InWork.id] = "SUBMITTED"
    BY <1>4, <1>5, <2>1 DEF SaveOrder, BatchKept, Ahead
  <2>3. QED
    BY <2>1, <2>2 DEF BatchKept, Ahead, InWork
<1>6. CASE Execute
  <2>1. Working /\ Working' /\ ~Executed /\ Executed' /\ UNCHANGED <<batch, dbOrders>>
        /\ known' = [known EXCEPT ![InWork.id] = "FILLED"] /\ OrderInFlight
    BY <1>6 DEF Execute, Working, Executed, disk, OrderInFlight
  <2>2. \A i \in DOMAIN batch \ {1} : known'[batch[i].id] = "SUBMITTED"
    BY <1>4, <2>1 DEF BatchKept, Ahead
  <2>3. known'[InWork.id] = "FILLED"
    BY <1>4, <2>1
  <2>4. QED
    BY <2>1, <2>2, <2>3 DEF BatchKept, Ahead, InWork
<1>7. CASE SaveFill \/ SaveFilledOrder
  <2>1. /\ Working /\ Working' /\ Executed /\ Executed' /\ UNCHANGED <<batch, known>>
        /\ OrderInFlight' => OrderInFlight /\ dbOrders' = dbOrders
    BY <1>7 DEF SaveFill, SaveFilledOrder, Working, Executed, OrderInFlight
  <2>2. QED
    BY <2>1 DEF BatchKept, Ahead, InWork
<1>8. CASE SavePosition
  <2>1. /\ Working /\ Executed /\ batch # <<>> /\ UNCHANGED <<known, dbOrders>>
        /\ ~Executed' /\ ~OrderInFlight' /\ batch' = Tail(batch)
        /\ pc' = IF Len(batch) > 1 THEN "order" ELSE "submit"
    BY <1>8 DEF SavePosition, BatchKept, Working, Executed, OrderInFlight
  <2>2. /\ Len(batch) > 1 <=> batch' # <<>>
        /\ \A k \in DOMAIN batch' :
             k \in Nat /\ k + 1 # 1 /\ k + 1 \in DOMAIN batch /\ batch'[k] = batch[k + 1]
    BY <2>1, TailElements
  <2>3. Working' <=> batch' # <<>>
    BY <2>1, <2>2 DEF Working
  <2>4. \A i \in DOMAIN batch' : known[batch'[i].id] = "SUBMITTED"
    BY <2>1, <2>2 DEF BatchKept, Ahead
  <2>5. ASSUME NEW i \in DOMAIN batch', NEW j \in DOMAIN batch', batch'[i].id = batch'[j].id
        PROVE  i = j
    <3>1. i + 1 = j + 1 /\ i \in Nat /\ j \in Nat
      BY <2>2, <2>5 DEF BatchKept
    <3>2. QED
      BY <3>1
  <2>6. QED
    BY <2>1, <2>3, <2>4, <2>5 DEF BatchKept, Ahead
<1>9. CASE UNCHANGED paperVars
  BY <1>9 DEF paperVars, memory, disk, BatchKept, Ahead, Working, Executed, OrderInFlight, InWork
<1>10. QED
  BY <1>1, <1>2, <1>3, <1>5, <1>6, <1>7, <1>8, <1>9 DEF PaperNext, Handler

(* A step that names no new position and begins no order.                  *)
LEMMA NamesKept ==
  ASSUME NamesFresh, Taken' \subseteq Taken, due' = due, issued' = issued,
         \A o \in OrderIds : known'[o] = "FILLED" => known[o] = "FILLED",
         \/ batch' = <<>> /\ Ahead' = {} /\ DOMAIN batch' = {}
         \/ batch' = batch /\ Ahead' = Ahead
  PROVE  NamesFresh'
BY DEF NamesFresh

LEMMA NamesStep ==
  ASSUME PaperType, BatchKept, NamesFresh, Synced, [PaperNext]_paperVars
  PROVE  NamesFresh'
<1> USE DEF PaperType, MemoryType, DiskType, CountType
<1>1. ASSUME NEW days \in 0..(MaxRollovers + 1), NEW late \in BOOLEAN, NEW k \in 0..MaxIntents,
             Event(days, late, k)
      PROVE  NamesFresh'
  <2>1. batch' = <<>> /\ Ahead' = {} /\ DOMAIN batch' = {}
    BY <1>1, Idling
  <2>2. Taken' \subseteq Taken
    <3>1. CASE position # Nothing /\ seen /\ Crosses(days, late)
      <4>1. [position EXCEPT !.swaps = @ + 1].id = position.id
        BY <3>1 DEF Held, Position
      <4>2. QED
        BY <1>1, <3>1, <4>1 DEF Event, Taken, IdsOf, disk
    <3>2. CASE ~(position # Nothing /\ seen /\ Crosses(days, late))
      BY <1>1, <3>2 DEF Event, Taken, IdsOf, disk
    <3>3. QED
      BY <3>1, <3>2
  <2>3. \A o \in OrderIds : due'[o] # 0 => due[o] # 0 \/ (position # Nothing /\ o = position.id)
    <3>1. days \in Nat /\ TimePasses(days, late)
      BY <1>1, PaperAssumption DEF Event
    <3>2. QED
      BY <3>1, TimeKeeps
  <2>4. position # Nothing => position.id \in Taken
    BY DEF Taken, IdsOf
  <2>5. UNCHANGED <<issued, known>>
    BY <1>1 DEF Event
  <2>6. QED
    BY <2>1, <2>2, <2>3, <2>4, <2>5 DEF NamesFresh
<1>2. CASE SaveSwap \/ Snapshot \/ Refused \/ Abort \/ Crash \/ Recover
  <2>1. batch' = <<>> /\ Ahead' = {} /\ DOMAIN batch' = {}
    BY <1>2, Idling
  <2>2. Taken' \subseteq Taken
    <3>1. CASE SaveSwap
      BY <3>1 DEF SaveSwap, WritePosition, Taken, IdsOf, Synced
    <3>2. CASE Snapshot \/ Refused \/ Abort
      BY <3>2 DEF Snapshot, Refused, Abort, Taken, disk
    <3>3. CASE Crash \/ Recover
      BY <3>3 DEF Crash, Recover, Taken, IdsOf, disk
    <3>4. QED
      BY <1>2, <3>1, <3>2, <3>3
  <2>3. UNCHANGED <<due, issued>>
    BY <1>2 DEF SaveSwap, Snapshot, Refused, Abort, Crash, Recover
  <2>4. \A o \in OrderIds : known'[o] = "FILLED" => known[o] = "FILLED"
    BY <1>2 DEF SaveSwap, Snapshot, Refused, Abort, Crash, Recover
  <2>5. \A o \in OrderIds : due'[o] # 0 \/ known'[o] = "FILLED" => o <= issued'
    BY <2>3, <2>4 DEF NamesFresh
  <2>6. \A o \in Taken' : o <= issued'
    BY <2>2, <2>3 DEF NamesFresh
  <2>7. QED
    BY <2>1, <2>5, <2>6 DEF NamesFresh
<1>3. ASSUME NEW side \in Sides, NEW sizes \in Sizes, Routed(side, sizes) PROVE NamesFresh'
  <2>1. batch' = Slices(side, sizes) /\ issued + Len(sizes) <= MaxOrders
    BY <1>3 DEF Routed, Slices
  <2>2. /\ DOMAIN batch' = 1..Len(sizes) /\ Len(sizes) \in Nat \ {0}
        /\ \A i \in 1..Len(sizes) : batch'[i].id = issued + i /\ issued + i \in OrderIds
    BY <2>1, SlicesType
  <2>3. /\ issued' = issued + Len(sizes) /\ due' = due /\ Taken' = Taken /\ issued \in Nat
        /\ Ahead' = DOMAIN batch'
        /\ \A o \in OrderIds : known'[o] = "FILLED" => known[o] = "FILLED"
    BY <1>3 DEF Routed, Taken, disk, Ahead, Executed
  <2>4. \A o \in Taken : o <= issued'
    <3>1. Taken \subseteq OrderIds /\ OrderIds \subseteq Nat
      <4>1. \A p \in Held : IdsOf(p) \subseteq OrderIds
        BY PositionFields DEF IdsOf
      <4>2. Taken \subseteq OrderIds
        BY <4>1 DEF Taken
      <4>3. QED
        BY <4>2, PaperAssumption DEF OrderIds
    <3>2. SUFFICES ASSUME NEW o \in Taken PROVE o <= issued'
      OBVIOUS
    <3>3. o <= issued /\ o \in Nat
      BY <3>1 DEF NamesFresh
    <3>4. QED
      BY <2>2, <2>3, <3>3
  <2>5. \A o \in OrderIds : due[o] # 0 \/ known'[o] = "FILLED" => o <= issued'
    BY <2>2, <2>3 DEF NamesFresh, OrderIds
  <2>6. \A i \in DOMAIN batch' : batch'[i].id <= issued' /\ ~(batch'[i].id <= issued)
    BY <2>2, <2>3
  <2>7. QED
    BY <2>2, <2>3, <2>4, <2>5, <2>6 DEF NamesFresh
<1>4. ASSUME NEW o \in OrderIds, Repeated(o) PROVE NamesFresh'
  <2>1. DOMAIN batch' = {1} /\ batch'[1].id = o /\ batch'[1].units = 0 /\ Ahead' = {1}
    BY <1>4 DEF Repeated, Ahead, Executed
  <2>2. /\ issued' = issued /\ due' = due /\ Taken' = Taken /\ known[o] = "FILLED"
        /\ \A x \in OrderIds : known'[x] = "FILLED" => known[x] = "FILLED"
    BY <1>4 DEF Repeated, Taken, disk
  <2>3. QED
    BY <2>1, <2>2 DEF NamesFresh
<1>5. CASE SaveOrder \/ SaveFill \/ SaveFilledOrder
  <2>1. batch' = batch /\ Ahead' = Ahead /\ Taken' = Taken /\ UNCHANGED <<due, issued, known>>
    BY <1>5 DEF SaveOrder, SaveFill, SaveFilledOrder, Ahead, Executed, Taken
  <2>2. QED
    BY <2>1, NamesKept
<1>6. CASE Execute
  <2>1. /\ InWork = batch[1] /\ 1 \in DOMAIN batch /\ InWork.id \in OrderIds
        /\ InWork \in WorkOrder /\ InWork.units > 0 /\ 1 \in Ahead
    BY <1>6, InWorkType DEF Execute, BatchKept, Working, Ahead, Executed
  <2>2. Ahead' = DOMAIN batch' \ {1} /\ Ahead = DOMAIN batch /\ UNCHANGED <<batch, issued, due>>
        /\ known' = [known EXCEPT ![InWork.id] = "FILLED"]
    BY <1>6 DEF Execute, Ahead, Executed
  <2>3. Taken' \subseteq Taken \cup {InWork.id}
    <3>1. AfterFill(position, InWork).id \in IdsOf(position) \cup {InWork.id}
      BY <2>1, FillType DEF IdsOf
    <3>2. QED
      BY <1>6, <3>1 DEF Execute, Taken, IdsOf, disk
  <2>4. InWork.id <= issued /\ \A i \in DOMAIN batch \ {1} : batch[i].id # InWork.id
    BY <2>1 DEF NamesFresh, BatchKept
  <2>5. QED
    BY <2>1, <2>2, <2>3, <2>4 DEF NamesFresh
<1>7. CASE SavePosition
  <2>1. /\ Executed /\ ~Executed' /\ batch # <<>> /\ batch' = Tail(batch) /\ touched # Nothing
        /\ UNCHANGED <<due, issued, known>>
    BY <1>7 DEF SavePosition, BatchKept, Working, Executed, Synced
  <2>2. \A k \in DOMAIN batch' :
          k \in Nat /\ k + 1 # 1 /\ k + 1 \in DOMAIN batch /\ batch'[k] = batch[k + 1]
    BY <2>1, TailElements
  <2>3. Taken' \subseteq Taken
    BY <1>7, <2>1 DEF SavePosition, WritePosition, Taken, IdsOf
  <2>4. Ahead' = DOMAIN batch' /\ \A k \in DOMAIN batch' : k + 1 \in Ahead
    BY <2>1, <2>2 DEF Ahead
  <2>5. QED
    BY <2>1, <2>2, <2>3, <2>4 DEF NamesFresh
<1>8. CASE UNCHANGED paperVars
  <2>1. batch' = batch /\ Ahead' = Ahead /\ Taken' = Taken /\ UNCHANGED <<due, issued, known>>
    BY <1>8 DEF paperVars, memory, disk, Ahead, Executed, Taken
  <2>2. QED
    BY <2>1, NamesKept
<1>9. QED
  BY <1>1, <1>2, <1>3, <1>4, <1>5, <1>6, <1>7, <1>8 DEF PaperNext, Handler


-----------------------------------------------------------------------------
(* The order of writing                                                    *)

(* What the order in work is.                                              *)
LEMMA AtWork ==
  ASSUME PaperType, BatchKept, Working
  PROVE  InWork.id \in OrderIds /\ (~Executed => known[InWork.id] = "SUBMITTED")
<1>1. InWork = batch[1] /\ 1 \in DOMAIN batch /\ InWork.id \in OrderIds
  BY InWorkType DEF PaperType, BatchKept
<1>2. QED
  BY <1>1 DEF BatchKept, Ahead

LEMMA LedgerStep ==
  ASSUME PaperType, BatchKept, LedgerKept, [PaperNext]_paperVars
  PROVE  LedgerKept'
<1> USE DEF LedgerKept, LedgerOrder
<1>1. CASE \/ \E days \in 0..(MaxRollovers + 1), late \in BOOLEAN, k \in 0..MaxIntents :
                Event(days, late, k)
           \/ Refused \/ (\E side \in Sides, sizes \in Sizes : Routed(side, sizes))
           \/ (\E o \in OrderIds : Repeated(o)) \/ Abort \/ Snapshot
  <2>1. /\ UNCHANGED <<applied, dbFills, dbApplied, dbOrders>>
        /\ pc # "fill" /\ pc' # "fill" /\ pc' # "filled"
    BY <1>1 DEF Event, Refused, Routed, Repeated, Abort, Snapshot, disk
  <2>2. QED
    BY <2>1
<1>2. CASE SaveSwap
  BY <1>2 DEF SaveSwap, WritePosition
<1>3. CASE SaveOrder
  <2>1. known[InWork.id] = "SUBMITTED" /\ InWork.id \in OrderIds
    BY <1>3, AtWork DEF SaveOrder, Working, Executed
  <2>2. \A o \in OrderIds : dbOrders'[o] = IF o = InWork.id THEN "SUBMITTED" ELSE dbOrders[o]
    BY <1>3, <2>1 DEF SaveOrder, PaperType, DiskType
  <2>3. UNCHANGED <<applied, dbFills, dbApplied>> /\ pc = "order" /\ pc' = "execute"
    BY <1>3 DEF SaveOrder
  <2>4. dbFills \subseteq OrderIds
    BY DEF PaperType, DiskType
  <2>5. QED
    BY <2>2, <2>3, <2>4
<1>4. CASE Execute
  BY <1>4 DEF Execute, disk, InWork
<1>5. CASE SaveFill
  <2>1. dbOrders[InWork.id] = "SUBMITTED"
    BY <1>5 DEF SaveFill, BatchKept, OrderInFlight
  <2>2. QED
    BY <1>5, <2>1 DEF SaveFill, InWork
<1>6. CASE SaveFilledOrder
  <2>1. known[InWork.id] = "FILLED" /\ InWork.id \in OrderIds
    BY <1>6, AtWork DEF SaveFilledOrder, Working, Executed, BatchKept
  <2>2. \A o \in OrderIds : dbOrders'[o] = IF o = InWork.id THEN "FILLED" ELSE dbOrders[o]
    BY <1>6, <2>1 DEF SaveFilledOrder, PaperType, DiskType
  <2>3. UNCHANGED <<applied, dbFills, dbApplied>> /\ pc = "filled" /\ pc' = "position"
    BY <1>6 DEF SaveFilledOrder
  <2>4. dbFills \subseteq OrderIds
    BY DEF PaperType, DiskType
  <2>5. QED
    BY <2>1, <2>2, <2>3, <2>4
<1>7. CASE SavePosition
  BY <1>7 DEF SavePosition, WritePosition
<1>8. CASE Crash \/ Recover
  BY <1>8 DEF Crash, Recover, disk
<1>9. CASE UNCHANGED paperVars
  BY <1>9 DEF paperVars, memory, disk, InWork
<1>10. QED
  BY <1>1, <1>2, <1>3, <1>4, <1>5, <1>6, <1>7, <1>8, <1>9 DEF PaperNext, Handler

-----------------------------------------------------------------------------
(* The position and its row                                                *)

LEMMA SyncedStep ==
  ASSUME PaperType, BatchKept, Synced, [PaperNext]_paperVars
  PROVE  Synced'
<1> USE DEF Synced, OpenPart, Open
<1>1. ASSUME NEW days \in 0..(MaxRollovers + 1), NEW late \in BOOLEAN, NEW k \in 0..MaxIntents,
             Event(days, late, k)
      PROVE  Synced'
  <2>1. pc = "idle" /\ position = OpenPart(dbPosition) /\ dbPosition' = dbPosition
    BY <1>1 DEF Event, disk
  <2>2. CASE position # Nothing /\ seen /\ Crosses(days, late)
    <3>1. position \in Position /\ position.units > 0 /\ position.units \in Nat
      BY <2>1, <2>2, PositionFields DEF PaperType, MemoryType, Held
    <3>2. touched' = [position EXCEPT !.swaps = @ + 1] /\ position' = touched' /\ pc' = "swap"
      BY <1>1, <2>2 DEF Event
    <3>3. touched' \in Position /\ touched'.units = position.units
      BY <3>1, <3>2 DEF Position
    <3>4. Nothing \notin Position
      BY PaperAssumption DEF Position, Sides, OrderIds
    <3>5. QED
      BY <3>1, <3>2, <3>3, <3>4 DEF Executed
  <2>3. CASE ~(position # Nothing /\ seen /\ Crosses(days, late))
    BY <1>1, <2>1, <2>3 DEF Event, Executed
  <2>4. QED
    BY <2>2, <2>3
<1>2. CASE SaveSwap
  BY <1>2 DEF SaveSwap, WritePosition, Executed
<1>3. CASE \/ Refused \/ (\E side \in Sides, sizes \in Sizes : Routed(side, sizes))
           \/ (\E o \in OrderIds : Repeated(o)) \/ SaveOrder \/ Abort \/ Snapshot
  <2>1. /\ UNCHANGED <<position, dbPosition>> /\ pc \in {"submit", "order", "execute"}
        /\ pc' \in {"idle", "submit", "order", "execute"}
    BY <1>3 DEF Refused, Routed, Repeated, SaveOrder, Abort, Snapshot, disk
  <2>2. QED
    BY <2>1 DEF Executed
<1>4. CASE Execute
  <2>1. InWork \in WorkOrder /\ InWork.units > 0
    BY <1>4, InWorkType DEF Execute, BatchKept, Working, PaperType
  <2>2. AfterFill(position, InWork) \in Position
    BY <2>1, FillType DEF PaperType, MemoryType
  <2>3. Nothing \notin Position
    BY PaperAssumption DEF Position, Sides, OrderIds
  <2>4. QED
    BY <1>4, <2>2, <2>3 DEF Execute, Executed
<1>5. CASE SaveFill \/ SaveFilledOrder
  BY <1>5 DEF SaveFill, SaveFilledOrder, Executed
<1>6. CASE SavePosition
  BY <1>6 DEF SavePosition, WritePosition, Executed
<1>7. CASE Crash \/ Recover
  BY <1>7 DEF Crash, Recover, Executed, disk
<1>8. CASE UNCHANGED paperVars
  BY <1>8 DEF paperVars, memory, disk, Executed
<1>9. QED
  BY <1>1, <1>2, <1>3, <1>4, <1>5, <1>6, <1>7, <1>8 DEF PaperNext, Handler


-----------------------------------------------------------------------------
(* The balance                                                             *)

LEMMA BookedStep ==
  ASSUME PaperType, BatchKept, NamesFresh, Synced, BookedKept, [PaperNext]_paperVars
  PROVE  BookedKept'
<1> USE DEF BookedKept, BookedOnce, OpenPart, Open
<1>1. ASSUME NEW days \in 0..(MaxRollovers + 1), NEW late \in BOOLEAN, NEW k \in 0..MaxIntents,
             Event(days, late, k)
      PROVE  BookedKept'
  <2>1. pc = "idle" /\ ~Executed /\ ~Executed' /\ UNCHANGED <<balance, dbBalance, dbClosed, dbPosition>>
        /\ pc' # "down"
    BY <1>1 DEF Event, Executed, disk
  <2>2. position' # Nothing => position # Nothing /\ position'.id = position.id
    <3>1. CASE position # Nothing /\ seen /\ Crosses(days, late)
      <4>1. [position EXCEPT !.swaps = @ + 1].id = position.id
        BY <3>1 DEF PaperType, MemoryType, Held, Position
      <4>2. QED
        BY <1>1, <3>1, <4>1 DEF Event
    <3>2. CASE ~(position # Nothing /\ seen /\ Crosses(days, late))
      BY <1>1, <3>2 DEF Event
    <3>3. QED
      BY <3>1, <3>2
  <2>3. QED
    BY <2>1, <2>2
<1>2. CASE SaveSwap
  BY <1>2 DEF SaveSwap, WritePosition, Synced, Executed
<1>3. CASE \/ Refused \/ (\E side \in Sides, sizes \in Sizes : Routed(side, sizes))
           \/ (\E o \in OrderIds : Repeated(o)) \/ SaveOrder \/ Abort
  <2>1. /\ UNCHANGED <<position, balance, dbPosition, dbBalance, dbClosed>>
        /\ ~Executed /\ ~Executed' /\ pc # "down"
    BY <1>3 DEF Refused, Routed, Repeated, SaveOrder, Abort, disk, Executed
  <2>2. QED
    BY <2>1
<1>4. CASE Execute
  <2>1. InWork \in WorkOrder /\ InWork.units > 0 /\ InWork.id \in OrderIds
    BY <1>4, InWorkType DEF Execute, BatchKept, Working, PaperType
  <2>2. InWork.id \notin balance
    <3>1. InWork = batch[1] /\ 1 \in Ahead
      BY <1>4, InWorkType DEF Execute, BatchKept, Working, PaperType, Ahead, Executed
    <3>2. QED
      BY <2>1, <3>1 DEF NamesFresh, Taken
  <2> DEFINE p == AfterFill(position, InWork)
  <2>3. p \in Position /\ p.id \notin balance
    BY <2>1, <2>2, FillType DEF PaperType, MemoryType
  <2>4. /\ touched' = p /\ position' = IF Open(p) THEN p ELSE Nothing
        /\ balance' = IF Open(p) THEN balance ELSE balance \cup {p.id}
        /\ pc = "execute" /\ pc' = "fill" /\ UNCHANGED <<dbPosition, dbBalance, dbClosed>>
    BY <1>4 DEF Execute, disk
  <2> HIDE DEF p
  <2>5. balance \subseteq dbClosed /\ dbBalance \subseteq balance /\ Executed'
    BY <2>4 DEF Executed
  <2>6. CASE Open(p)
    BY <2>3, <2>4, <2>5, <2>6
  <2>7. CASE ~Open(p)
    BY <2>3, <2>4, <2>5, <2>7
  <2>8. QED
    BY <2>6, <2>7
<1>5. CASE SaveFill \/ SaveFilledOrder
  BY <1>5 DEF SaveFill, SaveFilledOrder, Executed
<1>6. CASE SavePosition
  <2>1. /\ Executed /\ touched # Nothing /\ position = OpenPart(touched) /\ ~Executed' /\ pc # "down"
        /\ dbPosition' = touched /\ UNCHANGED <<position, balance, dbBalance, touched>>
        /\ dbClosed' = IF Open(touched) THEN dbClosed ELSE dbClosed \cup {touched.id}
    BY <1>6 DEF SavePosition, WritePosition, Synced, Executed
  <2>2. CASE Open(touched)
    BY <2>1, <2>2
  <2>3. CASE ~Open(touched)
    BY <2>1, <2>3
  <2>4. QED
    BY <2>2, <2>3
<1>7. CASE Snapshot
  <2>1. pc = "submit" /\ pc' = "idle" /\ position = OpenPart(dbPosition) /\ dbBalance' = balance
        /\ UNCHANGED <<position, balance, dbPosition, dbClosed>>
    BY <1>7 DEF Snapshot, Synced
  <2>2. balance \subseteq dbClosed
    BY <2>1 DEF Executed
  <2>3. QED
    BY <2>1, <2>2
<1>8. CASE Crash \/ Recover
  BY <1>8 DEF Crash, Recover, Executed, disk
<1>9. CASE UNCHANGED paperVars
  BY <1>9 DEF paperVars, memory, disk, Executed
<1>10. QED
  BY <1>1, <1>2, <1>3, <1>4, <1>5, <1>6, <1>7, <1>8, <1>9 DEF PaperNext, Handler

-----------------------------------------------------------------------------
(* What a crash costs                                                      *)

LEMMA OrderSets ==
  /\ \A S \in SUBSET OrderIds : IsFiniteSet(S) /\ Cardinality(S) \in Nat
  /\ \A S, T \in SUBSET OrderIds : S \subseteq T => Cardinality(S) <= Cardinality(T)
  /\ \A S \in SUBSET OrderIds : \A x \in OrderIds : Cardinality(S \cup {x}) <= Cardinality(S) + 1
  /\ \A S \in SUBSET OrderIds : \A x \in S : Cardinality(S \ {x}) = Cardinality(S) - 1
<1>1. IsFiniteSet(OrderIds)
  BY FS_Interval, PaperAssumption, SMTT(30) DEF OrderIds
<1>2. \A S \in SUBSET OrderIds : IsFiniteSet(S) /\ Cardinality(S) \in Nat
  BY <1>1, FS_Subset, FS_CardinalityType
<1>3. \A S, T \in SUBSET OrderIds : S \subseteq T => Cardinality(S) <= Cardinality(T)
  BY <1>2, FS_Subset
<1>4. ASSUME NEW S \in SUBSET OrderIds, NEW x \in OrderIds
      PROVE  Cardinality(S \cup {x}) <= Cardinality(S) + 1
  <2>1. Cardinality(S \cup {x}) = IF x \in S THEN Cardinality(S) ELSE Cardinality(S) + 1
    BY <1>2, FS_AddElement
  <2>2. QED
    BY <1>2, <2>1
<1>5. ASSUME NEW S \in SUBSET OrderIds, NEW x \in S PROVE Cardinality(S \ {x}) = Cardinality(S) - 1
  BY <1>2, FS_RemoveElement
<1>6. QED
  BY <1>2, <1>3, <1>4, <1>5

Flag(b) == IF b THEN 1 ELSE 0

LEMMA DamageStep ==
  ASSUME PaperType, BatchKept, LedgerKept, DamageKept, [PaperNext]_paperVars
  PROVE  DamageKept'
<1> DEFINE Unheld == dbFills \ applied
<1>1. /\ Cardinality(LostFills) <= crashes + Flag(FillInFlight)
      /\ Cardinality(Orphans) <= crashes + aborts + Flag(OrderInFlight)
      /\ pc # "down" => Cardinality(Unheld) <= crashes
  BY DEF DamageKept, CrashDamage, Flag, Unheld
<1>2. SUFFICES /\ Cardinality(LostFills') <= crashes' + Flag(FillInFlight')
               /\ Cardinality(Orphans') <= crashes' + aborts' + Flag(OrderInFlight')
               /\ pc' # "down" => Cardinality(Unheld') <= crashes'
  BY DEF DamageKept, CrashDamage, Flag, Unheld
<1>3. LostFills \in SUBSET OrderIds /\ Orphans \in SUBSET OrderIds /\ Unheld \in SUBSET OrderIds
  BY DEF PaperType, MemoryType, DiskType, LostFills, Orphans, Unheld
<1>4. /\ crashes \in Nat /\ aborts \in Nat /\ Cardinality(LostFills) \in Nat
      /\ Cardinality(Orphans) \in Nat /\ Cardinality(Unheld) \in Nat
  BY <1>3, OrderSets DEF PaperType, CountType
<1>5. Flag(FillInFlight) \in {0, 1} /\ Flag(OrderInFlight) \in {0, 1}
  BY DEF Flag
<1> HIDE DEF Unheld
<1>6. CASE \/ \E days \in 0..(MaxRollovers + 1), late \in BOOLEAN, k \in 0..MaxIntents :
                Event(days, late, k)
           \/ Refused \/ (\E side \in Sides, sizes \in Sizes : Routed(side, sizes))
           \/ (\E o \in OrderIds : Repeated(o)) \/ Snapshot
  <2>1. /\ UNCHANGED <<dbFills, dbApplied, applied, dbOrders, crashes, aborts>>
        /\ Flag(FillInFlight) = 0 /\ Flag(FillInFlight') = 0 /\ Flag(OrderInFlight) = 0
        /\ Flag(OrderInFlight') = 0 /\ pc # "down"
    BY <1>6 DEF Event, Refused, Routed, Repeated, Snapshot, disk, FillInFlight, OrderInFlight, Flag
  <2>2. LostFills' = LostFills /\ Orphans' = Orphans /\ Unheld' = Unheld
    BY <2>1 DEF LostFills, Unheld, Orphans
  <2>3. QED
    BY <1>1, <2>1, <2>2
<1>7. CASE SaveSwap \/ SavePosition
  <2>1. /\ UNCHANGED <<dbFills, applied, dbOrders, crashes, aborts>> /\ dbApplied' = applied
        /\ Flag(FillInFlight') = 0 /\ Flag(OrderInFlight) = 0 /\ Flag(OrderInFlight') = 0 /\ pc # "down"
    BY <1>7 DEF SaveSwap, SavePosition, WritePosition, FillInFlight, OrderInFlight, Flag
  <2>2. LostFills' = Unheld /\ Orphans' = Orphans /\ Unheld' = Unheld
    BY <2>1 DEF LostFills, Unheld, Orphans
  <2>3. QED
    BY <1>1, <1>4, <1>5, <2>1, <2>2
<1>8. CASE SaveOrder
  <2>1. InWork.id \in OrderIds
    BY <1>8, AtWork DEF SaveOrder, Working
  <2>2. /\ UNCHANGED <<dbFills, dbApplied, applied, crashes, aborts>>
        /\ Flag(FillInFlight) = 0 /\ Flag(FillInFlight') = 0 /\ Flag(OrderInFlight) = 0
        /\ Flag(OrderInFlight') = 1 /\ pc # "down"
    BY <1>8 DEF SaveOrder, FillInFlight, OrderInFlight, Flag
  <2>3. LostFills' = LostFills /\ Unheld' = Unheld
    BY <2>2 DEF LostFills, Unheld
  <2>4. Orphans' \subseteq Orphans \cup {InWork.id} /\ Orphans' \in SUBSET OrderIds
    BY <1>8, <2>1 DEF SaveOrder, Orphans, PaperType, DiskType
  <2>5. /\ Cardinality(Orphans') <= Cardinality(Orphans \cup {InWork.id})
        /\ Cardinality(Orphans \cup {InWork.id}) <= Cardinality(Orphans) + 1
        /\ Cardinality(Orphans') \in Nat /\ Cardinality(Orphans \cup {InWork.id}) \in Nat
    <3>1. Orphans \cup {InWork.id} \in SUBSET OrderIds
      BY <1>3, <2>1
    <3>2. QED
      BY <1>3, <2>1, <2>4, <3>1, OrderSets
  <2>6. QED
    BY <1>1, <1>4, <1>5, <2>2, <2>3, <2>5
<1>9. CASE Execute
  <2>1. /\ UNCHANGED <<dbFills, dbApplied, dbOrders, crashes, aborts>>
        /\ Flag(FillInFlight) = 0 /\ Flag(FillInFlight') = 0 /\ Flag(OrderInFlight) = 1
        /\ Flag(OrderInFlight') = 1 /\ pc # "down" /\ applied \subseteq applied'
    BY <1>9 DEF Execute, disk, FillInFlight, OrderInFlight, Flag
  <2>2. LostFills' = LostFills /\ Orphans' = Orphans /\ Unheld' \subseteq Unheld
    BY <2>1 DEF LostFills, Unheld, Orphans
  <2>3. Cardinality(Unheld') <= Cardinality(Unheld) /\ Cardinality(Unheld') \in Nat
    <3>1. Unheld' \in SUBSET OrderIds
      BY <1>3, <2>2
    <3>2. QED
      BY <1>3, <2>2, <3>1, OrderSets
  <2>4. QED
    BY <1>1, <1>4, <1>5, <2>1, <2>2, <2>3
<1>10. CASE Abort
  <2>1. /\ UNCHANGED <<dbFills, dbApplied, applied, dbOrders, crashes>> /\ aborts' = aborts + 1
        /\ Flag(FillInFlight) = 0 /\ Flag(FillInFlight') = 0 /\ Flag(OrderInFlight) = 1
        /\ Flag(OrderInFlight') = 0 /\ pc # "down"
    BY <1>10 DEF Abort, disk, FillInFlight, OrderInFlight, Flag
  <2>2. LostFills' = LostFills /\ Orphans' = Orphans /\ Unheld' = Unheld
    BY <2>1 DEF LostFills, Unheld, Orphans
  <2>3. QED
    BY <1>1, <1>4, <1>5, <2>1, <2>2
<1>11. CASE SaveFill
  <2>1. InWork.id \in OrderIds /\ InWork.id \in applied
    BY <1>11, AtWork DEF SaveFill, Working, Executed, LedgerKept
  <2>2. /\ UNCHANGED <<dbApplied, applied, dbOrders, crashes, aborts>>
        /\ dbFills' = dbFills \cup {InWork.id}
        /\ Flag(FillInFlight) = 0 /\ Flag(FillInFlight') = 1 /\ Flag(OrderInFlight) = 1
        /\ Flag(OrderInFlight') = 1 /\ pc # "down"
    BY <1>11 DEF SaveFill, FillInFlight, OrderInFlight, Flag
  <2>3. Unheld' = Unheld /\ Orphans' = Orphans
    BY <2>1, <2>2 DEF Orphans, Unheld
  <2>4. LostFills' \subseteq LostFills \cup {InWork.id} /\ LostFills' \in SUBSET OrderIds
    BY <1>3, <2>1, <2>2 DEF LostFills
  <2>5. /\ Cardinality(LostFills') <= Cardinality(LostFills \cup {InWork.id})
        /\ Cardinality(LostFills \cup {InWork.id}) <= Cardinality(LostFills) + 1
        /\ Cardinality(LostFills') \in Nat /\ Cardinality(LostFills \cup {InWork.id}) \in Nat
    <3>1. LostFills \cup {InWork.id} \in SUBSET OrderIds
      BY <1>3, <2>1
    <3>2. QED
      BY <1>3, <2>1, <2>4, <3>1, OrderSets
  <2>6. QED
    BY <1>1, <1>4, <1>5, <2>2, <2>3, <2>5
<1>12. CASE SaveFilledOrder
  <2>1. InWork.id \in OrderIds /\ dbOrders[InWork.id] = "SUBMITTED" /\ known[InWork.id] = "FILLED"
    BY <1>12, AtWork DEF SaveFilledOrder, Working, Executed, BatchKept, OrderInFlight
  <2>2. /\ UNCHANGED <<dbFills, dbApplied, applied, crashes, aborts>>
        /\ dbOrders' = [dbOrders EXCEPT ![InWork.id] = "FILLED"]
        /\ Flag(FillInFlight) = 1 /\ Flag(FillInFlight') = 1 /\ Flag(OrderInFlight) = 1
        /\ Flag(OrderInFlight') = 0 /\ pc # "down"
    BY <1>12, <2>1 DEF SaveFilledOrder, FillInFlight, OrderInFlight, Flag
  <2>3. LostFills' = LostFills /\ Unheld' = Unheld
    BY <2>2 DEF LostFills, Unheld
  <2>4. Orphans' = Orphans \ {InWork.id} /\ InWork.id \in Orphans
    BY <2>1, <2>2 DEF Orphans, PaperType, DiskType
  <2>5. Cardinality(Orphans') = Cardinality(Orphans) - 1
    BY <1>3, <2>4, OrderSets
  <2>6. QED
    BY <1>1, <1>4, <1>5, <2>2, <2>3, <2>5
<1>13. CASE Crash
  <2>1. /\ UNCHANGED <<dbFills, dbApplied, dbOrders, aborts>> /\ crashes' = crashes + 1
        /\ Flag(FillInFlight') = 0 /\ Flag(OrderInFlight') = 0 /\ pc' = "down"
    BY <1>13 DEF Crash, disk, FillInFlight, OrderInFlight, Flag
  <2>2. LostFills' = LostFills /\ Orphans' = Orphans
    BY <2>1 DEF LostFills, Orphans
  <2>3. QED
    BY <1>1, <1>4, <1>5, <2>1, <2>2
<1>14. CASE Recover
  <2>1. /\ UNCHANGED <<dbFills, dbApplied, dbOrders, crashes, aborts>> /\ applied' = dbApplied
        /\ Flag(FillInFlight) = 0 /\ Flag(FillInFlight') = 0 /\ Flag(OrderInFlight) = 0
        /\ Flag(OrderInFlight') = 0
    BY <1>14 DEF Recover, disk, FillInFlight, OrderInFlight, Flag
  <2>2. LostFills' = LostFills /\ Orphans' = Orphans /\ Unheld' = LostFills
    BY <2>1 DEF LostFills, Unheld, Orphans
  <2>3. QED
    BY <1>1, <1>4, <1>5, <2>1, <2>2
<1>15. CASE UNCHANGED paperVars
  <2>1. /\ UNCHANGED <<dbFills, dbApplied, applied, dbOrders, crashes, aborts, pc>>
    BY <1>15 DEF paperVars, memory, disk
  <2>2. LostFills' = LostFills /\ Orphans' = Orphans /\ Unheld' = Unheld
    BY <2>1 DEF LostFills, Unheld, Orphans
  <2>3. Flag(FillInFlight') = Flag(FillInFlight) /\ Flag(OrderInFlight') = Flag(OrderInFlight)
    BY <2>1 DEF FillInFlight, OrderInFlight, Flag
  <2>4. QED
    BY <1>1, <2>1, <2>2, <2>3
<1>16. QED
  BY <1>6, <1>7, <1>8, <1>9, <1>10, <1>11, <1>12, <1>13, <1>14, <1>15 DEF PaperNext, Handler


-----------------------------------------------------------------------------
(* Rollovers                                                               *)

(* A fill keeps the name and the swaps of the position, or opens one that  *)
(* no rollover has met.                                                    *)
LEMMA FillSwaps ==
  ASSUME PaperType, BatchKept, NamesFresh, Execute
  PROVE  LET p == AfterFill(position, InWork)
         IN /\ p \in Position
            /\ position = Nothing => Watched(p.id) = 0 /\ p.swaps = 0
            /\ position # Nothing => p.id = position.id /\ p.swaps = position.swaps
<1>1. InWork \in WorkOrder /\ InWork.units > 0 /\ InWork = batch[1] /\ 1 \in Ahead
  BY InWorkType DEF Execute, BatchKept, Working, PaperType, Ahead, Executed
<1>2. InWork.id \in OrderIds /\ due[InWork.id] = 0 /\ Watched(InWork.id) = 0
  <2>1. InWork.id \in OrderIds /\ due[InWork.id] = 0
    BY <1>1 DEF NamesFresh, WorkOrder
  <2>2. unwatched[InWork.id] \in Nat /\ unwatched[InWork.id] <= due[InWork.id]
    BY <2>1 DEF PaperType, CountType
  <2>3. QED
    BY <2>1, <2>2 DEF Watched
<1>3. QED
  BY <1>1, <1>2, FillType DEF PaperType, MemoryType

LEMMA SwapsStep ==
  ASSUME PaperType, BatchKept, NamesFresh, Synced, SwapsKept, [PaperNext]_paperVars
  PROVE  SwapsKept'
<1> USE DEF SwapsKept, Uncharged, Watched, OpenPart, Open
<1>1. crashes \in Nat /\ \A o \in OrderIds : Watched(o) \in Int
  BY DEF PaperType, CountType, Watched
<1>2. /\ position # Nothing => position.id \in OrderIds /\ position.swaps \in Nat
      /\ dbPosition # Nothing => dbPosition.id \in OrderIds /\ dbPosition.swaps \in Nat
  BY PositionFields DEF PaperType, MemoryType, DiskType
<1>3. ASSUME NEW days \in 0..(MaxRollovers + 1), NEW late \in BOOLEAN, NEW k \in 0..MaxIntents,
             Event(days, late, k)
      PROVE  SwapsKept'
  <2>1. /\ pc = "idle" /\ position = OpenPart(dbPosition) /\ seen'
        /\ UNCHANGED <<dbPosition, crashes>>
    BY <1>3 DEF Event, disk, Synced
  <2>2. days \in Nat /\ TimePasses(days, late)
    BY <1>3, PaperAssumption DEF Event
  <2>3. CASE position = Nothing
    <3>1. UNCHANGED <<position, due, unwatched>> /\ pc' = "submit"
      BY <1>3, <2>2, <2>3, TimeKeeps DEF Event
    <3>2. ~Open(dbPosition)
      BY <2>1, <2>3
    <3>3. QED
      BY <2>1, <2>3, <3>1, <3>2
  <2>4. CASE position # Nothing
    <3> DEFINE met == IF Crosses(days, late) THEN 1 ELSE 0
    <3>1. PICK id \in OrderIds : id = position.id
      BY <1>2, <2>4
    <3>2. /\ due'[id] - unwatched'[id] = due[id] - unwatched[id] + met
          /\ met \in {0, 1}
      BY <2>2, <2>4, <3>1, TimeKeeps
    <3>3. position = dbPosition /\ dbPosition' = dbPosition /\ crashes' = crashes
      BY <2>1, <2>4
    <3>4. /\ position.swaps \in Nat /\ due[id] - unwatched[id] \in Int
          /\ due[id] - unwatched[id] - position.swaps
               \in 0..(2 * crashes - (IF seen THEN 0 ELSE 1))
      BY <1>1, <1>2, <2>4, <3>1
    <3>5. /\ position' # Nothing /\ position'.id = id
          /\ IF seen /\ met = 1 THEN pc' = "swap" /\ position'.swaps = position.swaps + 1
             ELSE pc' = "submit" /\ position'.swaps = position.swaps
      <4>1. CASE seen /\ met = 1
        <5>1. position' = [position EXCEPT !.swaps = position.swaps + 1] /\ pc' = "swap"
          BY <1>3, <2>4, <4>1 DEF Event
        <5>2. position \in [id: OrderIds, side: Sides, units: Nat, swaps: Nat]
          BY <2>4 DEF PaperType, MemoryType, Held, Position
        <5>3. position' \in [id: OrderIds, side: Sides, units: Nat, swaps: Nat]
          BY <5>1, <5>2
        <5>4. position' # Nothing
          BY <5>3, PaperAssumption DEF OrderIds, Sides
        <5>5. QED
          BY <3>1, <4>1, <5>1, <5>2, <5>4
      <4>2. CASE ~(seen /\ met = 1)
        BY <1>3, <2>4, <3>1, <4>2 DEF Event
      <4>3. QED
        BY <4>1, <4>2
    <3> HIDE DEF met
    <3>6. Uncharged(position)' = (due[id] - unwatched[id] + met) - position'.swaps
      BY <3>2, <3>5
    <3>7. Uncharged(dbPosition)' = (due[id] - unwatched[id] + met) - position.swaps
      BY <3>1, <3>2, <3>3
    <3>8. pc' \in {"swap", "submit"} /\ seen' = TRUE
      BY <1>3, <3>5 DEF Event
    <3> DEFINE w == due[id] - unwatched[id]
    <3>9. /\ w \in Int /\ met \in {0, 1} /\ position.swaps \in Nat /\ crashes \in Nat
          /\ 0 <= w - position.swaps /\ w - position.swaps <= 2 * crashes
          /\ ~seen => w - position.swaps <= 2 * crashes - 1
      BY <1>1, <3>2, <3>4
    <3> HIDE DEF w
    <3>10. (w + met) - position'.swaps \in 0..(2 * crashes)
      BY <3>5, <3>9
    <3>11. (w + met) - position.swaps \in 0..(2 * crashes + (IF pc' = "swap" THEN 1 ELSE 0))
      BY <3>5, <3>9
    <3>12. position' # Nothing => Uncharged(position)' \in 0..(2 * crashes' - (IF seen' THEN 0 ELSE 1))
      BY <3>3, <3>6, <3>8, <3>9, <3>10 DEF w
    <3>13. Uncharged(dbPosition)' \in
             0..(2 * crashes' - (IF seen' THEN 0 ELSE 1) + (IF pc' = "swap" THEN 1 ELSE 0))
      BY <3>3, <3>7, <3>8, <3>9, <3>11 DEF w
    <3>14. QED
      BY <3>8, <3>12, <3>13
  <2>5. QED
    BY <2>3, <2>4
<1>4. CASE SaveSwap
  <2>1. /\ pc = "swap" /\ pc' = "submit" /\ dbPosition' = touched /\ position = touched
        /\ UNCHANGED <<position, due, unwatched, crashes, seen>>
    BY <1>4 DEF SaveSwap, WritePosition, Synced
  <2>2. QED
    BY <1>1, <1>2, <2>1
<1>5. CASE \/ Refused \/ (\E side \in Sides, sizes \in Sizes : Routed(side, sizes))
           \/ (\E o \in OrderIds : Repeated(o)) \/ SaveOrder \/ Abort \/ Snapshot
           \/ SaveFill \/ SaveFilledOrder
  <2>1. /\ UNCHANGED <<position, dbPosition, due, unwatched, crashes, seen>>
        /\ pc \notin {"idle", "down", "swap"} /\ pc' # "swap"
    BY <1>5 DEF Refused, Routed, Repeated, SaveOrder, Abort, Snapshot, SaveFill, SaveFilledOrder, disk
  <2>2. QED
    BY <1>1, <1>2, <2>1
<1>6. CASE Execute
  <2> DEFINE p == AfterFill(position, InWork)
  <2>1. /\ p \in Position
        /\ position = Nothing => Watched(p.id) = 0 /\ p.swaps = 0
        /\ position # Nothing => p.id = position.id /\ p.swaps = position.swaps
    BY <1>6, FillSwaps
  <2>2. /\ position' \in {p, Nothing} /\ pc = "execute" /\ pc' = "fill"
        /\ UNCHANGED <<dbPosition, due, unwatched, crashes, seen>>
    BY <1>6 DEF Execute, disk
  <2> HIDE DEF p
  <2>3. QED
    BY <1>1, <1>2, <2>1, <2>2
<1>7. CASE SavePosition
  <2>1. /\ pc = "position" /\ pc' # "swap" /\ dbPosition' = touched /\ position = OpenPart(touched)
        /\ UNCHANGED <<position, due, unwatched, crashes, seen>>
    BY <1>7 DEF SavePosition, WritePosition, Synced, Executed
  <2>2. QED
    BY <1>1, <1>2, <2>1
<1>8. CASE Crash
  <2>1. /\ pc' = "down" /\ position' = Nothing /\ ~seen' /\ crashes' = crashes + 1
        /\ UNCHANGED <<dbPosition, due, unwatched>>
    BY <1>8 DEF Crash, disk
  <2>2. QED
    BY <1>1, <1>2, <2>1
<1>9. CASE Recover
  <2>1. /\ pc = "down" /\ pc' = "idle" /\ position' = OpenPart(dbPosition)
        /\ UNCHANGED <<dbPosition, due, unwatched, crashes, seen>>
    BY <1>9 DEF Recover, disk
  <2>2. QED
    BY <1>1, <1>2, <2>1
<1>10. CASE UNCHANGED paperVars
  BY <1>10 DEF paperVars, memory, disk
<1>11. QED
  BY <1>3, <1>4, <1>5, <1>6, <1>7, <1>8, <1>9, <1>10 DEF PaperNext, Handler

-----------------------------------------------------------------------------
(* The ledger                                                              *)

PaperInv ==
  /\ PaperType /\ BatchKept /\ NamesFresh /\ LedgerKept /\ Synced
  /\ BookedKept /\ DamageKept /\ SwapsKept

LEMMA InitPaperInv == PaperInit => PaperInv
<1> SUFFICES ASSUME PaperInit PROVE PaperInv
  OBVIOUS
<1> USE DEF PaperInit
<1>1. PaperType
  BY InitPaperType
<1>2. ~Working /\ ~Executed /\ Ahead = {} /\ DOMAIN batch = {} /\ Taken = {}
  BY DEF Working, Executed, Ahead, Taken, IdsOf
<1>3. BatchKept /\ NamesFresh
  BY <1>2 DEF BatchKept, NamesFresh, OrderInFlight
<1>4. LedgerKept /\ Synced /\ BookedKept /\ SwapsKept
  BY <1>2 DEF LedgerKept, LedgerOrder, Synced, OpenPart, Open, BookedKept, BookedOnce, SwapsKept
<1>5. LostFills = {} /\ Orphans = {} /\ dbFills \ applied = {}
  BY DEF LostFills, Orphans
<1>6. DamageKept
  BY <1>5, FS_EmptySet DEF DamageKept, CrashDamage, FillInFlight, OrderInFlight
<1>7. QED
  BY <1>1, <1>3, <1>4, <1>6 DEF PaperInv

LEMMA PaperInvKept == PaperSpec => []PaperInv
<1>1. PaperInv /\ [PaperNext]_paperVars => PaperInv'
  BY PaperTypeStep, BatchStep, NamesStep, LedgerStep, SyncedStep, BookedStep, DamageStep, SwapsStep
  DEF PaperInv
<1>2. QED
  BY InitPaperInv, <1>1, PTL DEF PaperSpec

(* Whatever moment the process dies at, the position row never holds a     *)
(* fill that is not saved, a fill never precedes its order, and a profit   *)
(* is booked once: on_tick_or_bar and recover_state                        *)
(* (paper_trading/daemon.py, persistence.py).                              *)
THEOREM LedgerKeeps == PaperSpec => []LedgerHolds
<1>1. PaperInv => LedgerHolds
  BY DEF PaperInv, LedgerKept, BookedKept, LedgerHolds
<1>2. QED
  BY PaperInvKept, <1>1, PTL

(* Each crash costs at most one fill, one order that stays active, and two *)
(* rollovers of an open position; but for those, a rollover that an event  *)
(* follows before midnight is charged exactly once, and no other one is:   *)
(* for any number of orders and crashes, and events at any hours.          *)
THEOREM CrashesCost == PaperSpec => []CrashCosts
<1>1. PaperInv => CrashCosts
  <2> SUFFICES ASSUME PaperInv PROVE CrashCosts
    OBVIOUS
  <2>1. CrashDamage
    BY DEF PaperInv, DamageKept
  <2>2. SwapsChargedOnce
    <3>1. crashes \in Nat
      BY DEF PaperInv, PaperType, CountType
    <3>2. position # Nothing => Uncharged(position) \in 0..(2 * crashes - (IF seen THEN 0 ELSE 1))
      BY DEF PaperInv, SwapsKept
    <3>3. QED
      BY <3>1, <3>2 DEF Uncharged, Watched, SwapsChargedOnce
  <2>3. QED
    BY <2>1, <2>2 DEF CrashCosts
<1>2. QED
  BY PaperInvKept, <1>1, PTL
=============================================================================
