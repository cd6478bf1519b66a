-------------------------- MODULE Operations_proofs --------------------------
(***************************************************************************)
(* The two components that act on accounts beside the execution service.   *)
(* The auto-trading controller, for every number of accounts, starts, bad  *)
(* links and orders: the positions its brokers hold are known, a monitor's *)
(* tries are bounded, and only a monitor that was asleep in a reconnect    *)
(* brings a link up after stop.  The target allocator and its governor,    *)
(* for any pairs, rates, cap, targets and number of request threads: the   *)
(* governor's search is exact, a currency gets over the cap in three ways  *)
(* only, and submit_targets leads to its targets.                          *)
(***************************************************************************)
EXTENDS AutoTrading, ExposureGovernor, FiniteSetTheorems, SequenceTheorems, TLAPS

(***************************************************************************)
(* AutoTrading.                                                            *)
(***************************************************************************)
Places == {"none", "head", "risk", "loop", "probe", "asleep", "won", "lost", "done"}
Links == {"DISCONNECTED", "CONNECTED", "ERROR", "RECONNECTING"}
Phases ==
  {"idle", "connect", "launched", "join", "health", "healthJoin", "feed", "disconnect"}
OrderStates == {"NONE", "SUBMITTED", "ACKED", "UNKNOWN"}

LifecycleType ==
  /\ status \in {"STOPPED", "STARTING", "RUNNING", "ERROR"}
  /\ step \in Phases /\ todo \in SUBSET Accounts
  /\ starts \in 0..MaxStarts
  /\ halt \in [Owners -> BOOLEAN] /\ thread \in [Owners -> 0..MaxStarts]

MonitorType == monitor \in [Monitors -> [pc: Places, left: SUBSET Accounts, at: Accounts]]

ConnectionType ==
  /\ state \in [Accounts -> Links] /\ attempts \in [Accounts -> Nat]
  /\ adapter \in [Accounts -> BOOLEAN] /\ bad \in [Accounts -> BOOLEAN]
  /\ book \in [Accounts -> SUBSET (1..MaxIssued)]

TradingType ==
  /\ hand \in Seq(1..MaxIssued) /\ orders \in [1..MaxIssued -> OrderStates]
  /\ sent \in BOOLEAN

AutoType ==
  /\ LifecycleType /\ MonitorType /\ ConnectionType /\ TradingType
  /\ feed \in {"off", "on", "closing"} /\ strays \in SUBSET Accounts

LEMMA InitAutoType == AutoInit => AutoType
<1> SUFFICES ASSUME AutoInit PROVE AutoType
  OBVIOUS
<1> USE AutoTradingAssumption DEF AutoInit
<1>1. LifecycleType
  BY DEF LifecycleType, Phases
<1>2. MonitorType
  BY DEF MonitorType, Places
<1>3. ConnectionType
  BY DEF ConnectionType, Links
<1>4. TradingType
  <2>1. <<>> \in Seq(1..MaxIssued)
    OBVIOUS
  <2>2. QED
    BY <2>1 DEF TradingType, OrderStates
<1>5. QED
  BY <1>1, <1>2, <1>3, <1>4 DEF AutoType

(* What connect does to the links: to no other account, no position is     *)
(* added, and an account that is CONNECTED has no tries counted.           *)
LEMMA ConnectEffect ==
  ASSUME ConnectionType, NEW a \in Accounts, NEW ok \in BOOLEAN, Connect(a, ok)
  PROVE  /\ ConnectionType'
         /\ \A b \in Accounts \ {a} :
              /\ state'[b] = state[b] /\ attempts'[b] = attempts[b]
              /\ adapter'[b] = adapter[b]
         /\ \A b \in Accounts : book'[b] \subseteq book[b]
         /\ \/ state' = state /\ attempts' = attempts
            \/ state'[a] = "CONNECTED" /\ attempts'[a] = 0
            \/ state'[a] = "ERROR" /\ attempts'[a] = attempts[a]
<1>1. CASE state[a] = "CONNECTED"
  BY <1>1 DEF Connect, ConnectionType
<1>2. CASE state[a] # "CONNECTED" /\ ok
  <2>1. /\ state' = [state EXCEPT ![a] = "CONNECTED"] /\ attempts' = [attempts EXCEPT ![a] = 0]
        /\ adapter' = [adapter EXCEPT ![a] = ok] /\ bad' = [bad EXCEPT ![a] = FALSE]
        /\ book' = [book EXCEPT ![a] = {}]
    BY <1>2 DEF Connect
  <2>2. ConnectionType'
    BY <2>1 DEF ConnectionType, Links
  <2>3. QED
    BY <2>1, <2>2 DEF ConnectionType
<1>3. CASE state[a] # "CONNECTED" /\ ~ok
  BY <1>3 DEF Connect, ConnectionType, Links
<1>4. QED
  BY <1>1, <1>2, <1>3

LEMMA DisconnectEffect ==
  ASSUME ConnectionType, NEW a \in Accounts, Disconnect(a)
  PROVE  /\ ConnectionType' /\ attempts' = attempts
         /\ state'[a] = "DISCONNECTED" /\ adapter'[a] = FALSE
         /\ \A b \in Accounts \ {a} : state'[b] = state[b] /\ adapter'[b] = adapter[b]
         /\ \A b \in Accounts : book'[b] \subseteq book[b]
BY DEF Disconnect, ConnectionType, Links

(* A monitor's step changes no other monitor, starts and stops nothing,    *)
(* and touches the link of the account it is at only.                      *)
LEMMA MonitorEffect ==
  ASSUME AutoType, NEW m \in Monitors, MonitorStep(m)
  PROVE  /\ MonitorType' /\ ConnectionType' /\ LifecycleType'
         /\ \A n \in Monitors \ {m} : monitor'[n] = monitor[n]
         /\ UNCHANGED <<step, todo, starts, halt, thread, feed, trading, drops, strays>>
         /\ \A b \in Accounts : book'[b] \subseteq book[b]
         /\ \A b \in Accounts :
              \/ state'[b] = state[b] /\ attempts'[b] = attempts[b] /\ adapter'[b] = adapter[b]
              \/ Pc(m) \in {"probe", "asleep", "won", "lost"} /\ monitor[m].at = b
<1> USE DEF AutoType, MonitorType
<1> monitor[m] \in [pc: Places, left: SUBSET Accounts, at: Accounts]
  OBVIOUS
<1>1. CASE Round(m)
  <2>1. Watches(m) \in SUBSET Accounts
    BY DEF Watches, Monitors, Owners
  <2>2. QED
    BY <1>1, <2>1, AutoTradingAssumption
    DEF Round, Places, ConnectionType, LifecycleType, connection, lifecycle
<1>2. CASE \E killed \in BOOLEAN : RiskCheck(m, killed)
  BY <1>2 DEF RiskCheck, Goto, Places, ConnectionType, LifecycleType, connection
<1>3. CASE \E a \in Accounts : Look(m, a)
  BY <1>3 DEF Look, After, Places, ConnectionType, LifecycleType, connection, lifecycle
<1>4. CASE Probe(m)
  BY <1>4
  DEF Probe, After, Goto, Pc, Places, Links, ConnectionType, LifecycleType, lifecycle
<1>5. CASE \E ok \in BOOLEAN : Wake(m, ok)
  <2>1. PICK ok \in BOOLEAN : Wake(m, ok)
    BY <1>5
  <2>2. Connect(monitor[m].at, ok)
    BY <2>1 DEF Wake
  <2>3. /\ ConnectionType'
        /\ \A b \in Accounts \ {monitor[m].at} :
             /\ state'[b] = state[b] /\ attempts'[b] = attempts[b]
             /\ adapter'[b] = adapter[b]
        /\ \A b \in Accounts : book'[b] \subseteq book[b]
    BY <2>2, ConnectEffect
  <2>4. MonitorType' /\ \A n \in Monitors \ {m} : monitor'[n] = monitor[n]
    BY <2>1 DEF Wake, Goto, Places
  <2>5. QED
    BY <2>1, <2>3, <2>4 DEF Wake, LifecycleType, lifecycle, Pc
<1>6. CASE Settle(m)
  BY <1>6
  DEF Settle, After, Goto, Pc, Places, Links, ConnectionType, LifecycleType, lifecycle
<1>7. QED
  BY <1>1, <1>2, <1>3, <1>4, <1>5, <1>6 DEF MonitorStep


LEMMA OperatorType ==
  ASSUME AutoType, Start \/ Stop \/ OperatorStep
  PROVE  AutoType' /\ UNCHANGED trading /\ \A b \in Accounts : book'[b] \subseteq book[b]
<1> USE DEF AutoType, LifecycleType, Phases
<1>1. CASE Start
  BY <1>1, AutoTradingAssumption DEF Start, MonitorType, ConnectionType, TradingType, connection, trading
<1>2. ASSUME NEW a \in Accounts, NEW ok \in BOOLEAN, StartConnect(a, ok)
      PROVE  AutoType' /\ UNCHANGED trading /\ \A b \in Accounts : book'[b] \subseteq book[b]
  <2>1. ConnectionType' /\ \A b \in Accounts : book'[b] \subseteq book[b]
    BY <1>2, ConnectEffect DEF StartConnect
  <2>2. LifecycleType'
    BY <1>2 DEF StartConnect, Owners
  <2>3. QED
    BY <1>2, <2>1, <2>2 DEF StartConnect, MonitorType, TradingType, trading
<1>3. CASE Launch
  <2>1. LifecycleType'
    BY <1>3 DEF Launch
  <2>2. MonitorType'
    <3>1. Fresh \in [pc: Places, left: SUBSET Accounts, at: Accounts]
      BY AutoTradingAssumption DEF Fresh, Places
    <3>2. QED
      BY <1>3, <3>1 DEF Launch, MonitorType
  <2>3. strays' \in SUBSET Accounts
    BY <1>3 DEF Launch, Watches, Monitors, Owners
  <2>4. QED
    BY <1>3, <2>1, <2>2, <2>3 DEF Launch, ConnectionType, TradingType, connection, trading
<1>4. CASE Run
  BY <1>4 DEF Run, MonitorType, ConnectionType, TradingType, connection, trading
<1>5. CASE Stop
  BY <1>5 DEF Stop, Owners, MonitorType, ConnectionType, TradingType, connection, trading
<1>6. ASSUME NEW o \in Owners PROVE LeftAsleep(o) \in SUBSET Accounts
  BY AutoTradingAssumption DEF LeftAsleep, Own, Monitors, MonitorType
<1>7. CASE StopController
  <2>1. strays' \in SUBSET Accounts
    BY <1>6, <1>7 DEF StopController, Owners
  <2>2. LifecycleType'
    <3>1. step' = "health" /\ todo' = Accounts /\ thread' = [thread EXCEPT ![Controller] = 0]
      BY <1>7 DEF StopController
    <3>2. QED
      BY <1>7, <3>1, AutoTradingAssumption DEF StopController, Owners
  <2>3. QED
    BY <1>7, <2>1, <2>2 DEF StopController, MonitorType, ConnectionType, TradingType, connection, trading
<1>8. ASSUME NEW a \in Accounts, StopHealth(a) \/ HealthStopped(a)
      PROVE  AutoType' /\ UNCHANGED trading /\ \A b \in Accounts : book'[b] \subseteq book[b]
  <2>1. CASE StopHealth(a)
    BY <2>1 DEF StopHealth, Owners, MonitorType, ConnectionType, TradingType, connection, trading
  <2>2. CASE HealthStopped(a)
    <3>1. strays' \in SUBSET Accounts
      BY <1>6, <2>2 DEF HealthStopped, Owners
    <3>2. LifecycleType'
      <4>1. step' \in {"feed", "health"} /\ thread' = [thread EXCEPT ![a] = 0]
        BY <2>2 DEF HealthStopped
      <4>2. QED
        BY <2>2, <4>1, AutoTradingAssumption DEF HealthStopped, Owners
    <3>3. QED
      BY <2>2, <3>1, <3>2
      DEF HealthStopped, MonitorType, ConnectionType, TradingType, connection, trading
  <2>3. QED
    BY <1>8, <2>1, <2>2
<1>9. CASE StopFeed
  BY <1>9 DEF StopFeed, MonitorType, ConnectionType, TradingType, connection, trading
<1>10. ASSUME NEW a \in Accounts, StopDisconnect(a)
       PROVE  AutoType' /\ UNCHANGED trading /\ \A b \in Accounts : book'[b] \subseteq book[b]
  <2>1. ConnectionType' /\ \A b \in Accounts : book'[b] \subseteq book[b]
    BY <1>10, DisconnectEffect DEF StopDisconnect
  <2>2. LifecycleType'
    <3>1. step' \in {"idle", step} /\ todo' = todo \ {a}
      BY <1>10 DEF StopDisconnect
    <3>2. QED
      BY <1>10, <3>1 DEF StopDisconnect
  <2>3. QED
    BY <1>10, <2>1, <2>2 DEF StopDisconnect, MonitorType, TradingType, trading
<1>11. QED
  BY <1>1, <1>2, <1>3, <1>4, <1>5, <1>7, <1>8, <1>9, <1>10 DEF OperatorStep

-----------------------------------------------------------------------------
(* Positions                                                               *)

(* The orders are numbered in turn; those in hand are distinct and still   *)
(* SUBMITTED, and only with an order in hand is one sent.                  *)
InHand ==
  /\ \E n \in 0..MaxIssued : Issued = 1..n
  /\ sent => hand # <<>>
  /\ \A k \in DOMAIN hand : orders[hand[k]] = "SUBMITTED"
  /\ \A j, k \in DOMAIN hand : hand[j] = hand[k] => j = k

(* The next orders get numbers that no order has yet.                      *)
LEMMA SubmitStep ==
  ASSUME AutoType, InHand, PositionsKnown, NEW k \in 1..MaxBatch, Submit(k)
  PROVE  TradingType' /\ InHand' /\ PositionsKnown'
<1> DEFINE c == Cardinality(Issued)
<1>1. c \in 0..MaxIssued /\ Issued = 1..c
  <2>1. PICK n \in 0..MaxIssued : Issued = 1..n
    BY DEF InHand
  <2>2. Cardinality(1..n) = n
    <3>1. n \in Nat
      BY AutoTradingAssumption
    <3>2. CASE n = 0
      BY <3>2, FS_EmptySet
    <3>3. CASE n > 0
      BY <3>1, <3>3, FS_Interval
    <3>4. QED
      BY <3>1, <3>2, <3>3
  <2>3. QED
    BY <2>1, <2>2
<1>2. k \in Nat \ {0} /\ MaxIssued \in Nat
  BY AutoTradingAssumption
<1> HIDE DEF c
<1>3. /\ {c + i : i \in 1..k} \subseteq 1..MaxIssued /\ hand = <<>>
      /\ orders' = [o \in 1..MaxIssued |->
                      IF o \in {c + i : i \in 1..k} THEN "SUBMITTED" ELSE orders[o]]
      /\ hand' = [i \in 1..k |-> c + i] /\ sent' = sent /\ book' = book
  BY DEF Submit, c
<1>4. {c + i : i \in 1..k} = (c + 1)..(c + k)
  <2>1. \A x \in (c + 1)..(c + k) : x = c + (x - c) /\ x - c \in 1..k
    BY <1>1, <1>2
  <2>2. QED
    BY <1>1, <1>2, <2>1
<1>5. sent = FALSE /\ c + k <= MaxIssued
  <2>1. c + k \in (c + 1)..(c + k)
    BY <1>1, <1>2
  <2>2. QED
    BY <1>2, <1>3, <1>4, <2>1 DEF InHand, AutoType, TradingType
<1>6. TradingType'
  <2>1. \A i \in 1..k : c + i \in 1..MaxIssued
    BY <1>3
  <2>2. hand' \in Seq(1..MaxIssued)
    BY <1>2, <1>3, <2>1
  <2>3. QED
    BY <1>3, <2>2 DEF AutoType, TradingType, OrderStates
<1>7. InHand'
  <2>1. Issued' = 1..(c + k)
    <3>1. Issued' = {o \in 1..MaxIssued : orders'[o] # "NONE"}
      BY DEF Issued
    <3>2. \A o \in 1..MaxIssued : orders'[o] # "NONE" <=> o \in 1..c \/ o \in (c + 1)..(c + k)
      BY <1>1, <1>3, <1>4 DEF Issued
    <3>3. QED
      BY <1>1, <1>2, <1>5, <3>1, <3>2
  <2>2. c + k \in 0..MaxIssued
    BY <1>1, <1>2, <1>5
  <2>3. DOMAIN hand' = 1..k /\ \A i \in 1..k : hand'[i] = c + i /\ orders'[c + i] = "SUBMITTED"
    BY <1>3
  <2>4. QED
    BY <1>1, <1>3, <1>5, <2>1, <2>2, <2>3 DEF InHand
<1>8. PositionsKnown'
  <2>1. \A a \in Accounts : \A o \in book[a] : o \in 1..MaxIssued /\ orders[o] = "ACKED"
    BY <1>5 DEF PositionsKnown, AutoType, ConnectionType
  <2>2. \A o \in 1..MaxIssued : orders[o] = "ACKED" => o \in 1..c
    BY <1>1 DEF Issued
  <2>3. \A o \in 1..c : o \notin (c + 1)..(c + k)
    BY <1>1, <1>2
  <2>4. QED
    BY <1>3, <1>4, <2>1, <2>2, <2>3 DEF PositionsKnown
<1>9. QED
  BY <1>6, <1>7, <1>8


LEMMA TailElements ==
  ASSUME NEW S, NEW s \in Seq(S), s # <<>>
  PROVE  /\ Head(s) = s[1] /\ 1 \in DOMAIN s /\ Head(s) \in S /\ Tail(s) \in Seq(S)
         /\ \A k \in DOMAIN Tail(s) :
              k \in Nat /\ k + 1 # 1 /\ k + 1 \in DOMAIN s /\ Tail(s)[k] = s[k + 1]
<1>1. Len(s) \in Nat \ {0} /\ Len(Tail(s)) = Len(s) - 1 /\ DOMAIN Tail(s) = 1..Len(Tail(s))
      /\ DOMAIN s = 1..Len(s) /\ Tail(s) \in Seq(S) /\ Head(s) = s[1]
  BY HeadTailProperties, EmptySeq, LenProperties
<1>2. \A k \in 1..(Len(s) - 1) : k \in Nat /\ k + 1 # 1 /\ k + 1 \in 1..Len(s)
  BY <1>1
<1>3. 1 \in DOMAIN s /\ s[1] \in S
  BY <1>1
<1>4. QED
  BY <1>1, <1>2, <1>3

LEMMA SendStep ==
  ASSUME AutoType, InHand, PositionsKnown, SendTaken \/ Acked \/ SendRaised \/ SendNone
  PROVE  TradingType' /\ InHand' /\ PositionsKnown' /\ ConnectionType'
<1> USE DEF AutoType, TradingType
<1> DEFINE o == Head(hand)
<1>1. hand # <<>>
  BY DEF SendTaken, Acked, SendRaised, SendNone, InHand
<1>2. /\ o = hand[1] /\ 1 \in DOMAIN hand /\ o \in 1..MaxIssued /\ orders[o] = "SUBMITTED"
      /\ Tail(hand) \in Seq(1..MaxIssued)
      /\ \A k \in DOMAIN Tail(hand) : k + 1 \in DOMAIN hand /\ Tail(hand)[k] = hand[k + 1]
      /\ \A k \in DOMAIN Tail(hand) : Tail(hand)[k] # o
  <2>1. /\ o = hand[1] /\ 1 \in DOMAIN hand /\ o \in 1..MaxIssued
        /\ Tail(hand) \in Seq(1..MaxIssued)
        /\ \A k \in DOMAIN Tail(hand) : k \in Nat /\ k + 1 # 1 /\ k + 1 \in DOMAIN hand
                                          /\ Tail(hand)[k] = hand[k + 1]
    BY <1>1, TailElements
  <2>2. orders[o] = "SUBMITTED"
    BY <2>1 DEF InHand
  <2>3. \A k \in DOMAIN Tail(hand) : Tail(hand)[k] # o
    BY <2>1 DEF InHand
  <2>4. QED
    BY <2>1, <2>2, <2>3
<1> HIDE DEF o
<1>3. \A k \in DOMAIN Tail(hand) : orders[Tail(hand)[k]] = "SUBMITTED"
  BY <1>2 DEF InHand
<1>4. \A j, k \in DOMAIN Tail(hand) : Tail(hand)[j] = Tail(hand)[k] => j = k
  <2>1. \A j, k \in DOMAIN Tail(hand) : Tail(hand)[j] = Tail(hand)[k] => j + 1 = k + 1
    BY <1>2 DEF InHand
  <2>2. DOMAIN Tail(hand) \subseteq Int
    BY <1>2
  <2>3. QED
    BY <2>1, <2>2
<1>5. CASE SendTaken
  <2>1. /\ book' = [book EXCEPT ![First] = @ \cup {o}] /\ sent' = TRUE /\ sent = FALSE
        /\ UNCHANGED <<hand, orders, connection>>
    BY <1>5 DEF SendTaken, o
  <2>2. ConnectionType'
    BY <1>2, <2>1 DEF ConnectionType, connection
  <2>3. InHand'
    BY <1>1, <2>1 DEF InHand, Issued
  <2>4. PositionsKnown'
    BY <2>1 DEF PositionsKnown, ConnectionType, o
  <2>5. QED
    BY <2>1, <2>2, <2>3, <2>4
<1>6. CASE Acked \/ SendNone
  <2>1. PICK s \in {"ACKED", "UNKNOWN"} :
          /\ orders' = [orders EXCEPT ![o] = s] /\ hand' = Tail(hand)
          /\ sent' = FALSE /\ UNCHANGED <<connection, book>> /\ (sent => s = "ACKED")
    BY <1>6 DEF Acked, SendNone, o
  <2>2. TradingType'
    BY <1>2, <2>1 DEF OrderStates
  <2>3. Issued' = Issued
    BY <1>2, <2>1 DEF Issued
  <2>4. \A k \in DOMAIN hand' : orders'[hand'[k]] = "SUBMITTED"
    BY <1>2, <1>3, <2>1
  <2>5. InHand'
    BY <1>4, <2>1, <2>3, <2>4 DEF InHand
  <2>6. PositionsKnown'
    <3>1. SUFFICES ASSUME NEW a \in Accounts, NEW x \in book[a] PROVE orders'[x] = "ACKED"
      BY <2>1 DEF PositionsKnown
    <3>2. x \in 1..MaxIssued
      BY DEF ConnectionType
    <3>3. CASE x = o
      <4>1. sent
        BY <1>2, <3>3 DEF PositionsKnown
      <4>2. QED
        BY <1>2, <2>1, <3>3, <4>1
    <3>4. CASE x # o
      BY <2>1, <3>2, <3>4 DEF PositionsKnown, o
    <3>5. QED
      BY <3>3, <3>4
  <2>7. QED
    BY <2>1, <2>2, <2>5, <2>6 DEF ConnectionType, connection
<1>7. CASE SendRaised
  <2>1. /\ hand' = <<>> /\ UNCHANGED <<orders, sent, book, connection>> /\ sent = FALSE
    BY <1>7 DEF SendRaised
  <2>2. <<>> \in Seq(1..MaxIssued)
    OBVIOUS
  <2>3. InHand'
    BY <2>1 DEF InHand, Issued
  <2>4. PositionsKnown'
    BY <2>1 DEF PositionsKnown
  <2>5. QED
    BY <2>1, <2>2, <2>3, <2>4 DEF ConnectionType, connection
<1>8. QED
  BY <1>5, <1>6, <1>7

(* The steps that work on no order add no position.                        *)
LEMMA PositionsFrame ==
  ASSUME InHand, PositionsKnown, UNCHANGED trading, \A b \in Accounts : book'[b] \subseteq book[b]
  PROVE  InHand' /\ PositionsKnown'
BY DEF InHand, PositionsKnown, Issued, trading

LEMMA PositionsStep ==
  ASSUME AutoType, InHand, PositionsKnown, [AutoNext]_autoVars
  PROVE  AutoType' /\ InHand' /\ PositionsKnown'
<1> USE DEF AutoType
<1>1. CASE \E m \in Monitors : MonitorStep(m)
  <2>1. /\ MonitorType' /\ ConnectionType' /\ LifecycleType'
        /\ UNCHANGED <<feed, trading, strays>> /\ \A b \in Accounts : book'[b] \subseteq book[b]
    BY <1>1, MonitorEffect
  <2>2. QED
    BY <2>1, PositionsFrame DEF TradingType, trading
<1>2. CASE Start \/ Stop \/ OperatorStep
  BY <1>2, OperatorType, PositionsFrame
<1>3. CASE \E k \in 1..MaxBatch : Submit(k)
  <2>1. UNCHANGED <<lifecycle, monitor, connection, feed, book, strays>>
    BY <1>3 DEF Submit
  <2>2. QED
    BY <1>3, <2>1, SubmitStep DEF LifecycleType, MonitorType, ConnectionType, lifecycle, connection
<1>4. CASE SendTaken \/ Acked \/ SendRaised \/ SendNone
  <2>1. UNCHANGED <<lifecycle, monitor, feed, strays>>
    BY <1>4 DEF SendTaken, Acked, SendRaised, SendNone
  <2>2. QED
    BY <1>4, <2>1, SendStep DEF LifecycleType, MonitorType, lifecycle
<1>5. CASE FeedEnds \/ (\E a \in Accounts : Drop(a) \/ Heal(a)) \/ UNCHANGED autoVars
  <2>1. /\ UNCHANGED <<lifecycle, monitor, trading, strays, state, attempts, adapter, book>>
        /\ feed' \in {feed, "off"}
    BY <1>5 DEF FeedEnds, Drop, Heal, autoVars, connection
  <2>2. bad' \in [Accounts -> BOOLEAN]
    BY <1>5 DEF FeedEnds, Drop, Heal, autoVars, connection, ConnectionType
  <2>3. QED
    BY <2>1, <2>2, PositionsFrame
    DEF LifecycleType, MonitorType, ConnectionType, TradingType, lifecycle, trading
<1>6. QED
  BY <1>1, <1>2, <1>3, <1>4, <1>5 DEF AutoNext, OrderStep

LEMMA InitPositions == AutoInit => InHand /\ PositionsKnown
<1> SUFFICES ASSUME AutoInit PROVE InHand /\ PositionsKnown
  OBVIOUS
<1>1. Issued = 1..0 /\ 0 \in 0..MaxIssued
  BY AutoTradingAssumption DEF AutoInit, Issued
<1>2. QED
  BY <1>1 DEF AutoInit, InHand, PositionsKnown

(* What a broker holds the OMS knows: every position is of an order the    *)
(* OMS shows acknowledged or is about to (controller.py:765-771), through  *)
(* reconnects, restarts and refused orders.                                *)
THEOREM PositionsAreKnown == AutoSpec => []PositionsKnown
<1>1. AutoType /\ InHand /\ PositionsKnown /\ [AutoNext]_autoVars
        => (AutoType /\ InHand /\ PositionsKnown)'
  BY PositionsStep
<1>2. QED
  BY <1>1, InitAutoType, InitPositions, PTL DEF AutoSpec


-----------------------------------------------------------------------------
(* Reconnects                                                              *)

(* A monitor is of a start there has been, and looks at its own accounts.  *)
Watching ==
  \A m \in Monitors :
    /\ Pc(m) # "none" => m[1] <= starts
    /\ monitor[m].left \subseteq Watches(m)
    /\ Pc(m) \in {"probe", "asleep", "won", "lost"} => monitor[m].at \in Watches(m)

Probing(a) == {m \in Monitors : Pc(m) = "probe" /\ monitor[m].at = a}

(* A try is counted only while no monitor can begin to look: what was      *)
(* counted and the monitors about to probe are as many as the monitors.    *)
TriesCounted ==
  \A a \in Accounts :
    /\ state[a] = "CONNECTED" => attempts[a] = 0
    /\ attempts[a] + Cardinality(Probing(a)) <= 2 * starts

Stopped == \A o \in Owners : thread[o] = 0

(* What each step of start and stop has already seen to.                   *)
PhasesKept ==
  /\ step = "connect" => starts # 0
  /\ step = "launched" => thread[Controller] # 0
  /\ step = "join" => halt[Controller]
  /\ step \in {"connect", "feed", "disconnect"} => Stopped
  /\ step = "idle" /\ (thread[Controller] = 0 \/ status = "STOPPED") => Stopped
  /\ step \in {"health", "healthJoin"} =>
       /\ thread[Controller] = 0
       /\ \A a \in Accounts \ todo : halt[a]
  /\ step = "health" => \A a \in Accounts \ todo : thread[a] = 0
  /\ step = "healthJoin" =>
       \A a, b \in Accounts \ todo : thread[a] # 0 /\ thread[b] # 0 => a = b

(* A monitor that ends at the head of its loop, and until then comes to    *)
(* strays only; or one whose every account is a stray.                     *)
Harmless(m) ==
  \/ Watches(m) \subseteq strays
  \/ /\ halt[m[2]] /\ Pc(m) # "risk"
     /\ Pc(m) = "head" \/ monitor[m].left \cup {monitor[m].at} \subseteq strays

(* Whoever is alive is the current thread of its owner, or harmless.       *)
Outlived == \A m \in Monitors : Alive(m) => m = Own(m[2]) \/ Harmless(m)

Served(a) == (step = "idle" /\ thread[Controller] = 0) \/ (step = "disconnect" /\ a \notin todo)

(* What stop has disconnected stays so, strays apart.                      *)
DownStays ==
  \A a \in Accounts \ strays :
    Served(a) => adapter[a] = FALSE /\ state[a] = "DISCONNECTED"


LEMMA InitReconnects == AutoInit => Watching /\ TriesCounted /\ PhasesKept /\ Outlived /\ DownStays
<1> SUFFICES ASSUME AutoInit PROVE Watching /\ TriesCounted /\ PhasesKept /\ Outlived /\ DownStays
  OBVIOUS
<1> USE AutoTradingAssumption
<1>1. \A m \in Monitors : Pc(m) = "none" /\ monitor[m].left = {}
  BY DEF AutoInit, Pc
<1>2. Watching /\ Outlived
  BY <1>1 DEF Watching, Outlived, Alive
<1>3. \A a \in Accounts : Cardinality(Probing(a)) = 0
  <2>1. \A a \in Accounts : Probing(a) = {}
    BY <1>1 DEF Probing
  <2>2. QED
    BY <2>1, FS_EmptySet
<1>4. TriesCounted
  BY <1>3 DEF AutoInit, TriesCounted
<1>5. QED
  BY <1>2, <1>4 DEF AutoInit, PhasesKept, DownStays, Stopped, Owners

(* How a monitor goes on: it ends, begins a round if it may, or has fewer  *)
(* accounts left than before.                                              *)
StepsOn(m) ==
  \/ monitor'[m].pc = "done"
  \/ Pc(m) = "head" /\ ~halt[m[2]]
  \/ Pc(m) = "risk"
  \/ /\ Pc(m) \notin {"head", "risk"} /\ monitor'[m].pc # "risk"
     /\ monitor'[m].left \cup {monitor'[m].at} \subseteq monitor[m].left \cup {monitor[m].at}

(* What the monitor's step does to the tries of account a.                 *)
TriesMove(m, a) ==
  /\ state'[a] = "CONNECTED" => attempts'[a] = 0
  /\ \/ Probing(a)' \subseteq Probing(a) /\ attempts'[a] <= attempts[a]
     \/ state[a] = "CONNECTED" /\ attempts'[a] = attempts[a]
     \/ /\ m \in Probing(a) /\ Probing(a)' \subseteq Probing(a) \ {m}
        /\ attempts'[a] <= attempts[a] + 1

LEMMA MonitorGoes ==
  ASSUME AutoType, Watching, TriesCounted, NEW m \in Monitors, MonitorStep(m)
  PROVE  /\ Watching' /\ StepsOn(m) /\ Alive(m)
         /\ \A a \in Accounts : TriesMove(m, a)
<1> USE DEF AutoType, MonitorType
<1> DEFINE old == monitor[m]
           new == monitor'[m]
<1>1. /\ old \in [pc: Places, left: SUBSET Accounts, at: Accounts]
      /\ new \in [pc: Places, left: SUBSET Accounts, at: Accounts]
      /\ \A n \in Monitors \ {m} : monitor'[n] = monitor[n] /\ Pc(n)' = Pc(n)
      /\ Pc(m) = old.pc /\ Pc(m)' = new.pc /\ starts' = starts
  BY MonitorEffect DEF Pc
<1>2. \A a \in Accounts : attempts[a] \in Nat /\ (state[a] = "CONNECTED" => attempts[a] = 0)
  BY DEF TriesCounted, ConnectionType
<1>3. ASSUME new.pc # "none", old.pc # "none", new.left \subseteq Watches(m),
             new.pc \in {"probe", "asleep", "won", "lost"} => new.at \in Watches(m)
      PROVE  Watching'
  BY <1>1, <1>3 DEF Watching, Watches
<1>4. ASSUME NEW a \in Accounts, new.pc # "probe" \/ new = old
      PROVE  /\ Probing(a)' \subseteq Probing(a)
             /\ new.pc # "probe" => Probing(a)' \subseteq Probing(a) \ {m}
  BY <1>1, <1>4 DEF Probing
<1>5. CASE Round(m)
  <2>1. /\ old.pc = "head" /\ UNCHANGED <<state, attempts>>
        /\ \/ halt[m[2]] /\ new = [old EXCEPT !.pc = "done"]
           \/ /\ ~halt[m[2]] /\ new.pc \in {"risk", "loop"} /\ new.left = Watches(m)
    BY <1>5 DEF Round, Pc, connection
  <2>2. Watching' /\ StepsOn(m) /\ Alive(m)
    BY <1>1, <1>3, <2>1 DEF Watching, StepsOn, Alive
  <2>3. QED
    BY <1>2, <1>4, <2>1, <2>2 DEF TriesMove
<1>6. CASE \E killed \in BOOLEAN : RiskCheck(m, killed)
  <2>1. old.pc = "risk" /\ UNCHANGED <<state, attempts>> /\ new = [old EXCEPT !.pc = "loop"]
    BY <1>6 DEF RiskCheck, Goto, Pc, connection
  <2>2. Watching' /\ StepsOn(m) /\ Alive(m)
    BY <1>1, <1>3, <2>1 DEF Watching, StepsOn, Alive
  <2>3. QED
    BY <1>2, <1>4, <2>1, <2>2 DEF TriesMove
<1>7. ASSUME NEW a \in Accounts, Look(m, a)
      PROVE  /\ Watching' /\ StepsOn(m) /\ Alive(m)
             /\ \A b \in Accounts : TriesMove(m, b)
  <2>1. /\ old.pc = "loop" /\ a \in old.left /\ UNCHANGED <<state, attempts>>
        /\ new = [pc |-> IF state[a] = "CONNECTED" THEN "probe" ELSE After(old.left \ {a}),
                  left |-> old.left \ {a}, at |-> a]
    BY <1>7 DEF Look, Pc, connection
  <2>2. After(old.left \ {a}) \in {"head", "loop"}
    BY DEF After
  <2>3. Watching' /\ StepsOn(m) /\ Alive(m)
    BY <1>1, <1>3, <2>1, <2>2 DEF Watching, StepsOn, Alive
  <2>4. ASSUME NEW b \in Accounts PROVE TriesMove(m, b)
    <3>1. CASE state[a] = "CONNECTED" /\ b = a
      BY <1>2, <2>1, <3>1 DEF TriesMove
    <3>2. CASE state[a] = "CONNECTED" /\ b # a
      <4>1. Probing(b)' \subseteq Probing(b)
        BY <1>1, <2>1, <3>2 DEF Probing
      <4>2. QED
        BY <1>2, <2>1, <4>1 DEF TriesMove
    <3>3. CASE state[a] # "CONNECTED"
      BY <1>2, <1>4, <2>1, <2>2, <3>3 DEF TriesMove
    <3>4. QED
      BY <3>1, <3>2, <3>3
  <2>5. QED
    BY <2>3, <2>4
<1>8. CASE Probe(m)
  <2>1. /\ old.pc = "probe" /\ new.pc \in {"asleep", "head", "loop"}
        /\ new.left = old.left /\ new.at = old.at
    BY <1>8 DEF Probe, Goto, Pc, After
  <2>2. Watching' /\ StepsOn(m) /\ Alive(m)
    BY <1>1, <1>3, <2>1 DEF Watching, StepsOn, Alive
  <2>3. ASSUME NEW b \in Accounts PROVE TriesMove(m, b)
    <3>1. CASE b = old.at
      <4>1. m \in Probing(b)
        BY <1>1, <2>1, <3>1 DEF Probing
      <4>2. attempts'[b] <= attempts[b] + 1
        BY <1>2, <1>8, <3>1 DEF Probe, ConnectionType
      <4>3. state'[b] = "CONNECTED" => attempts'[b] = 0
        BY <1>2, <1>8, <3>1 DEF Probe, ConnectionType
      <4>4. QED
        BY <1>4, <2>1, <4>1, <4>2, <4>3 DEF TriesMove
    <3>2. CASE b # old.at
      <4>1. state'[b] = state[b] /\ attempts'[b] = attempts[b]
        BY <1>8, <3>2 DEF Probe, ConnectionType
      <4>2. QED
        BY <1>2, <1>4, <2>1, <4>1 DEF TriesMove
    <3>3. QED
      BY <3>1, <3>2
  <2>4. QED
    BY <2>2, <2>3
<1>9. ASSUME (\E ok \in BOOLEAN : Wake(m, ok)) \/ Settle(m)
      PROVE  /\ Watching' /\ StepsOn(m) /\ Alive(m)
             /\ \A b \in Accounts : TriesMove(m, b)
  <2>1. /\ old.pc \in {"asleep", "won", "lost"} /\ new.pc \in {"won", "lost", "head", "loop"}
        /\ new.left = old.left /\ new.at = old.at
    BY <1>9 DEF Wake, Settle, Goto, Pc, After
  <2>2. Watching' /\ StepsOn(m) /\ Alive(m)
    BY <1>1, <1>3, <2>1 DEF Watching, StepsOn, Alive
  <2>3. ASSUME NEW b \in Accounts
        PROVE  /\ state'[b] = "CONNECTED" => attempts'[b] = 0
               /\ attempts'[b] <= attempts[b]
    <3>1. CASE \E ok \in BOOLEAN : Wake(m, ok)
      <4>1. PICK ok \in BOOLEAN : Connect(old.at, ok)
        BY <3>1 DEF Wake
      <4>2. /\ \A c \in Accounts \ {old.at} : state'[c] = state[c] /\ attempts'[c] = attempts[c]
            /\ \/ state' = state /\ attempts' = attempts
               \/ state'[old.at] = "CONNECTED" /\ attempts'[old.at] = 0
               \/ state'[old.at] = "ERROR" /\ attempts'[old.at] = attempts[old.at]
        BY <1>1, <4>1, ConnectEffect
      <4>3. QED
        BY <1>2, <4>2
    <3>2. CASE Settle(m)
      BY <1>2, <3>2 DEF Settle, ConnectionType
    <3>3. QED
      BY <1>9, <3>1, <3>2
  <2>4. QED
    BY <1>4, <2>1, <2>2, <2>3 DEF TriesMove
<1>10. QED
  BY <1>5, <1>6, <1>7, <1>8, <1>9 DEF MonitorStep


(* The other steps: no monitor comes to probe, no try is counted.          *)
LEMMA OthersGo ==
  ASSUME AutoType, Watching, TriesCounted, [AutoNext]_autoVars,
         ~ \E m \in Monitors : MonitorStep(m)
  PROVE  /\ Watching' /\ starts <= starts' /\ starts' \in Nat
         /\ \A a \in Accounts :
              /\ Probing(a)' \subseteq Probing(a)
              /\ attempts'[a] <= attempts[a]
              /\ state'[a] = "CONNECTED" => attempts'[a] = 0
<1> USE DEF AutoType
<1>1. \A a \in Accounts :
        /\ attempts[a] \in Nat /\ attempts[a] <= attempts[a]
        /\ state[a] = "CONNECTED" => attempts[a] = 0
  BY DEF TriesCounted, ConnectionType
<1>2. starts \in Nat /\ starts <= starts
  BY AutoTradingAssumption DEF LifecycleType
<1>3. ASSUME UNCHANGED <<monitor, state, attempts>>, starts' \in {starts, starts + 1}
      PROVE  /\ Watching' /\ starts <= starts' /\ starts' \in Nat
             /\ \A a \in Accounts :
                  /\ Probing(a)' \subseteq Probing(a)
                  /\ attempts'[a] <= attempts[a]
                  /\ state'[a] = "CONNECTED" => attempts'[a] = 0
  <2>1. \A m \in Monitors : Pc(m)' = Pc(m) /\ m[1] \in Nat
    BY <1>3, AutoTradingAssumption DEF Pc, Monitors
  <2>2. Watching'
    BY <1>2, <1>3, <2>1 DEF Watching, Watches
  <2>3. QED
    BY <1>1, <1>2, <1>3, <2>1, <2>2 DEF Probing
<1>4. CASE Launch
  <2>1. \A m \in Monitors :
          \/ monitor'[m] = monitor[m]
          \/ m[1] = starts /\ monitor'[m] = Fresh
    BY <1>4 DEF Launch
  <2>2. UNCHANGED <<state, attempts, starts>>
    BY <1>4 DEF Launch, connection
  <2>3. Watching'
    BY <1>2, <2>1, <2>2 DEF Watching, Watches, Pc, Fresh
  <2>4. \A a \in Accounts : Probing(a)' \subseteq Probing(a)
    BY <2>1 DEF Probing, Pc, Fresh
  <2>5. QED
    BY <1>1, <1>2, <2>2, <2>3, <2>4
<1>5. ASSUME NEW a \in Accounts, NEW ok \in BOOLEAN, StartConnect(a, ok)
      PROVE  /\ Watching' /\ starts <= starts' /\ starts' \in Nat
             /\ \A b \in Accounts :
                  /\ Probing(b)' \subseteq Probing(b)
                  /\ attempts'[b] <= attempts[b]
                  /\ state'[b] = "CONNECTED" => attempts'[b] = 0
  <2>1. UNCHANGED <<monitor, starts>> /\ Connect(a, ok)
    BY <1>5 DEF StartConnect
  <2>2. /\ \A b \in Accounts \ {a} : state'[b] = state[b] /\ attempts'[b] = attempts[b]
        /\ \/ state' = state /\ attempts' = attempts
           \/ state'[a] = "CONNECTED" /\ attempts'[a] = 0
           \/ state'[a] = "ERROR" /\ attempts'[a] = attempts[a]
    BY <2>1, ConnectEffect
  <2>3. Watching' /\ \A b \in Accounts : Probing(b)' \subseteq Probing(b)
    BY <2>1 DEF Watching, Watches, Pc, Probing
  <2>4. QED
    BY <1>1, <1>2, <2>1, <2>2, <2>3
<1>6. ASSUME NEW a \in Accounts, StopDisconnect(a)
      PROVE  /\ Watching' /\ starts <= starts' /\ starts' \in Nat
             /\ \A b \in Accounts :
                  /\ Probing(b)' \subseteq Probing(b)
                  /\ attempts'[b] <= attempts[b]
                  /\ state'[b] = "CONNECTED" => attempts'[b] = 0
  <2>1. UNCHANGED <<monitor, starts>> /\ Disconnect(a)
    BY <1>6 DEF StopDisconnect
  <2>2. /\ \A b \in Accounts \ {a} : state'[b] = state[b]
        /\ attempts' = attempts /\ state'[a] = "DISCONNECTED"
    BY <2>1, DisconnectEffect
  <2>3. Watching' /\ \A b \in Accounts : Probing(b)' \subseteq Probing(b)
    BY <2>1 DEF Watching, Watches, Pc, Probing
  <2>4. QED
    BY <1>1, <1>2, <2>1, <2>2, <2>3
<1>7. CASE Start
  BY <1>3, <1>7 DEF Start, connection
<1>8. CASE Run \/ Stop \/ StopController \/ StopFeed
             \/ \E a \in Accounts : StopHealth(a) \/ HealthStopped(a)
  BY <1>3, <1>8 DEF Run, Stop, StopController, StopFeed, StopHealth, HealthStopped, connection
<1>9. CASE (\E k \in 1..MaxBatch : Submit(k)) \/ OrderStep
             \/ (\E a \in Accounts : Drop(a) \/ Heal(a)) \/ UNCHANGED autoVars
  BY <1>3, <1>9
  DEF Submit, OrderStep, SendTaken, Acked, SendRaised, SendNone, FeedEnds, Drop, Heal,
      autoVars, connection, lifecycle
<1>10. QED
  BY <1>4, <1>5, <1>6, <1>7, <1>8, <1>9 DEF AutoNext, OperatorStep

(* Two monitors watch an account for each start.                           *)
LEMMA FewMonitors ==
  ASSUME NEW n \in Nat, NEW a \in Accounts, NEW P \in SUBSET Monitors,
         \A m \in P : m[1] <= n /\ m[2] \in {a, Controller}
  PROVE  IsFiniteSet(P) /\ Cardinality(P) \in Nat /\ Cardinality(P) <= 2 * n
<1> DEFINE S == 1..n
           T == {a, Controller}
<1>1. IsFiniteSet(S) /\ Cardinality(S) = n
  <2>1. CASE n = 0
    BY <2>1, FS_EmptySet
  <2>2. CASE n > 0
    BY <2>2, FS_Interval
  <2>3. QED
    BY <2>1, <2>2
<1>2. IsFiniteSet(T) /\ Cardinality(T) = 2
  <2>1. a # Controller
    BY AutoTradingAssumption
  <2>2. IsFiniteSet({a}) /\ Cardinality({a}) = 1
    BY FS_Singleton
  <2>3. T = {a} \cup {Controller} /\ Controller \notin {a}
    BY <2>1
  <2>4. Cardinality({a} \cup {Controller}) = 1 + 1
    BY <2>2, <2>3, FS_AddElement
  <2>5. QED
    BY <2>2, <2>3, <2>4, FS_AddElement
<1> HIDE DEF S, T
<1>3. IsFiniteSet(S \X T) /\ Cardinality(S \X T) = Cardinality(S) * Cardinality(T)
  BY <1>1, <1>2, FS_Product, Zenon
<1>4. P \in SUBSET (S \X T)
  <2>1. ASSUME NEW m \in P PROVE m[1] \in S /\ m[2] \in T /\ m = <<m[1], m[2]>>
    BY <2>1, AutoTradingAssumption DEF Monitors, S, T
  <2>2. QED
    BY <2>1
<1>5. IsFiniteSet(P) /\ Cardinality(P) <= Cardinality(S \X T)
  BY <1>3, <1>4, FS_Subset
<1>6. Cardinality(S \X T) = 2 * n
  BY <1>1, <1>2, <1>3
<1>7. QED
  BY <1>5, <1>6, FS_CardinalityType

LEMMA TriesStep ==
  ASSUME AutoType, AutoType', Watching, TriesCounted, [AutoNext]_autoVars
  PROVE  Watching' /\ TriesCounted'
<1> USE DEF AutoType
<1>1. starts \in Nat /\ starts' \in Nat /\ starts <= starts'
  <2>1. CASE \E m \in Monitors : MonitorStep(m)
    BY <2>1, MonitorEffect, AutoTradingAssumption DEF LifecycleType
  <2>2. CASE ~ \E m \in Monitors : MonitorStep(m)
    BY <2>2, OthersGo, AutoTradingAssumption DEF LifecycleType
  <2>3. QED
    BY <2>1, <2>2
<1>2. Watching'
  <2>1. CASE \E m \in Monitors : MonitorStep(m)
    BY <2>1, MonitorGoes
  <2>2. CASE ~ \E m \in Monitors : MonitorStep(m)
    BY <2>2, OthersGo
  <2>3. QED
    BY <2>1, <2>2
<1>3. ASSUME NEW a \in Accounts
      PROVE  /\ Probing(a) \in SUBSET Monitors /\ Probing(a)' \in SUBSET Monitors
             /\ \A m \in Probing(a) : m[1] <= starts /\ m[2] \in {a, Controller}
             /\ \A m \in Probing(a)' : m[1] <= starts' /\ m[2] \in {a, Controller}
  BY <1>2 DEF Probing, Watching, Watches
<1>4. ASSUME NEW a \in Accounts
      PROVE  /\ IsFiniteSet(Probing(a))
             /\ Cardinality(Probing(a)) \in Nat /\ Cardinality(Probing(a)') \in Nat
             /\ Cardinality(Probing(a)') <= 2 * starts'
  BY <1>1, <1>3, FewMonitors
<1>5. ASSUME NEW a \in Accounts
      PROVE  /\ state'[a] = "CONNECTED" => attempts'[a] = 0
             /\ \/ Probing(a)' \subseteq Probing(a) /\ attempts'[a] <= attempts[a]
                \/ state[a] = "CONNECTED" /\ attempts'[a] = attempts[a]
                \/ \E m \in Probing(a) :
                     /\ Probing(a)' \subseteq Probing(a) \ {m}
                     /\ attempts'[a] <= attempts[a] + 1
  <2>1. CASE \E m \in Monitors : MonitorStep(m)
    BY <2>1, MonitorGoes DEF TriesMove
  <2>2. CASE ~ \E m \in Monitors : MonitorStep(m)
    BY <2>2, OthersGo
  <2>3. QED
    BY <2>1, <2>2
<1>6. ASSUME NEW a \in Accounts
      PROVE  attempts'[a] + Cardinality(Probing(a)') <= 2 * starts'
  <2>1. /\ attempts[a] \in Nat /\ attempts'[a] \in Nat
        /\ attempts[a] + Cardinality(Probing(a)) <= 2 * starts
        /\ state[a] = "CONNECTED" => attempts[a] = 0
    BY DEF ConnectionType, TriesCounted
  <2>2. CASE Probing(a)' \subseteq Probing(a) /\ attempts'[a] <= attempts[a]
    <3>1. Cardinality(Probing(a)') <= Cardinality(Probing(a))
      BY <1>4, <2>2, FS_Subset
    <3>2. QED
      BY <1>1, <1>4, <2>1, <2>2, <3>1
  <2>3. CASE state[a] = "CONNECTED" /\ attempts'[a] = attempts[a]
    BY <1>1, <1>4, <2>1, <2>3
  <2>4. ASSUME NEW m \in Probing(a), Probing(a)' \subseteq Probing(a) \ {m},
               attempts'[a] <= attempts[a] + 1
        PROVE  attempts'[a] + Cardinality(Probing(a)') <= 2 * starts'
    <3>1. /\ IsFiniteSet(Probing(a) \ {m})
          /\ Cardinality(Probing(a) \ {m}) = Cardinality(Probing(a)) - 1
      BY <1>4, <2>4, FS_RemoveElement
    <3>2. Cardinality(Probing(a)') <= Cardinality(Probing(a) \ {m})
      BY <2>4, <3>1, FS_Subset
    <3>3. QED
      BY <1>1, <1>4, <2>1, <2>4, <3>1, <3>2
  <2>5. QED
    BY <1>5, <2>2, <2>3, <2>4
<1>7. QED
  BY <1>2, <1>5, <1>6 DEF TriesCounted

(* However many accounts there are and whatever max_reconnect_attempts is  *)
(* (controller.py:294-325), a reconnect that failed is not tried again but *)
(* by a monitor that was already past its look at the state.               *)
THEOREM OneTryEach == AutoSpec => []OneTryPerMonitor
<1>1. AutoType /\ Watching /\ TriesCounted => OneTryPerMonitor
  <2>1. SUFFICES ASSUME AutoType, Watching, TriesCounted, NEW a \in Accounts
                 PROVE  attempts[a] <= 2 * starts
    BY DEF OneTryPerMonitor
  <2>2. starts \in Nat /\ attempts[a] \in Nat
    BY <2>1, AutoTradingAssumption DEF AutoType, LifecycleType, ConnectionType
  <2>3. /\ Probing(a) \in SUBSET Monitors
        /\ \A m \in Probing(a) : m[1] <= starts /\ m[2] \in {a, Controller}
    BY <2>1 DEF Probing, Watching, Watches
  <2>4. Cardinality(Probing(a)) \in Nat
    BY <2>2, <2>3, FewMonitors
  <2>5. QED
    BY <2>1, <2>2, <2>4 DEF TriesCounted
<1>2. AutoType /\ InHand /\ PositionsKnown /\ [AutoNext]_autoVars
        => (AutoType /\ InHand /\ PositionsKnown)'
  BY PositionsStep
<1>3. AutoType /\ AutoType' /\ Watching /\ TriesCounted /\ [AutoNext]_autoVars
        => (Watching /\ TriesCounted)'
  BY TriesStep
<1>4. QED
  BY <1>1, <1>2, <1>3, InitAutoType, InitPositions, InitReconnects, PTL DEF AutoSpec


(* The steps outside of start and stop.                                    *)
LEMMA LifecycleFrame ==
  ASSUME AutoType, [AutoNext]_autoVars, ~(Start \/ Stop \/ OperatorStep)
  PROVE  UNCHANGED <<step, todo, starts, halt, thread, strays>> /\ status' \in {status, "ERROR"}
<1>1. ASSUME NEW m \in Monitors, MonitorStep(m)
      PROVE  UNCHANGED <<step, todo, starts, halt, thread, strays>> /\ status' \in {status, "ERROR"}
  <2>1. status' \in {status, "ERROR"}
    BY <1>1 DEF MonitorStep, Round, RiskCheck, Look, Probe, Wake, Settle, lifecycle
  <2>2. QED
    BY <1>1, <2>1, MonitorEffect
<1>2. CASE (\E k \in 1..MaxBatch : Submit(k)) \/ OrderStep
             \/ (\E a \in Accounts : Drop(a) \/ Heal(a)) \/ UNCHANGED autoVars
  BY <1>2
  DEF Submit, OrderStep, SendTaken, Acked, SendRaised, SendNone, FeedEnds, Drop, Heal,
      autoVars, lifecycle
<1>3. QED
  BY <1>1, <1>2 DEF AutoNext

LEMMA PhasesStep ==
  ASSUME AutoType, PhasesKept, [AutoNext]_autoVars
  PROVE  PhasesKept'
<1> USE DEF AutoType, LifecycleType
<1> First \in Accounts /\ Controller \notin Accounts
  BY AutoTradingAssumption
<1>1. CASE ~(Start \/ Stop \/ OperatorStep)
  BY <1>1, LifecycleFrame DEF PhasesKept, Stopped
<1>2. CASE Start
  <2>1. UNCHANGED <<halt, thread>> /\ step = "idle" /\ step' = "connect" /\ starts' = starts + 1
    BY <1>2 DEF Start
  <2>2. Stopped'
    BY <1>2, <2>1 DEF Start, PhasesKept, Stopped
  <2>3. QED
    BY <2>1, <2>2, AutoTradingAssumption DEF PhasesKept
<1>3. ASSUME NEW a \in Accounts, NEW ok \in BOOLEAN, StartConnect(a, ok) PROVE PhasesKept'
  <2>1. CASE ok
    BY <1>3, <2>1 DEF StartConnect, PhasesKept, Stopped
  <2>2. CASE ~ok
    BY <1>3, <2>2 DEF StartConnect, PhasesKept, Stopped, Owners
  <2>3. QED
    BY <2>1, <2>2
<1>4. CASE Launch
  <2>1. step = "connect" /\ step' = "launched" /\ starts' = starts
    BY <1>4 DEF Launch
  <2>2. thread'[Controller] = starts
    BY <1>4 DEF Launch, Owners
  <2>3. QED
    BY <2>1, <2>2 DEF PhasesKept
<1>5. CASE Run
  BY <1>5 DEF Run, PhasesKept
<1>6. CASE Stop
  BY <1>6 DEF Stop, PhasesKept, Stopped, Owners
<1>7. CASE StopController
  BY <1>7 DEF StopController, PhasesKept, Owners
<1>8. ASSUME NEW a \in Accounts, StopHealth(a) PROVE PhasesKept'
  <2>1. /\ step = "health" /\ step' = "healthJoin" /\ todo' = todo \ {a}
        /\ halt' = [halt EXCEPT ![a] = TRUE] /\ UNCHANGED <<starts, thread>>
    BY <1>8 DEF StopHealth
  <2>2. \A b \in Accounts \ todo' : halt'[b] /\ (thread'[b] # 0 => b = a)
    BY <2>1 DEF PhasesKept, Owners
  <2>3. QED
    BY <2>1, <2>2 DEF PhasesKept
<1>9. ASSUME NEW a \in Accounts, HealthStopped(a) PROVE PhasesKept'
  <2>1. /\ step = "healthJoin" /\ thread' = [thread EXCEPT ![a] = 0]
        /\ step' = IF todo = {} THEN "feed" ELSE "health"
        /\ \A b \in Accounts \ todo : thread[b] # 0 => b = a
        /\ UNCHANGED <<todo, starts, halt>>
    BY <1>9 DEF HealthStopped
  <2>2. thread'[Controller] = 0 /\ \A b \in Accounts \ todo : thread'[b] = 0 /\ halt'[b]
    BY <2>1 DEF PhasesKept, Owners
  <2>3. todo = {} => Stopped'
    BY <2>2 DEF Stopped, Owners
  <2>4. step' \in {"feed", "health"} /\ (step' = "feed" => todo = {})
    BY <2>1
  <2>5. QED
    BY <2>1, <2>2, <2>3, <2>4 DEF PhasesKept
<1>10. CASE StopFeed
  BY <1>10 DEF StopFeed, PhasesKept, Stopped
<1>11. ASSUME NEW a \in Accounts, StopDisconnect(a) PROVE PhasesKept'
  <2>1. step = "disconnect" /\ step' \in {"idle", "disconnect"} /\ UNCHANGED <<starts, halt, thread>>
    BY <1>11 DEF StopDisconnect
  <2>2. QED
    BY <2>1 DEF PhasesKept, Stopped
<1>12. QED
  BY <1>1, <1>2, <1>3, <1>4, <1>5, <1>6, <1>7, <1>8, <1>9, <1>10, <1>11 DEF OperatorStep

(* A step that clears no stop event and takes no account off the strays    *)
(* keeps harmless whoever does not move, ...                               *)
LEMMA HarmlessKept ==
  ASSUME NEW m \in Monitors, Harmless(m), monitor'[m] = monitor[m],
         halt[m[2]] => halt'[m[2]], strays \subseteq strays'
  PROVE  Harmless(m)'
BY DEF Harmless, Pc, Watches

(* ... and the harmless monitor that moves, too.                           *)
LEMMA HarmlessMoves ==
  ASSUME AutoType, AutoType', Watching, NEW m \in Monitors, Harmless(m), StepsOn(m), Alive(m)',
         UNCHANGED <<halt, strays>>
  PROVE  Harmless(m)'
BY DEF Harmless, StepsOn, Alive, Pc, Watches

LEMMA OutlivedStep ==
  ASSUME AutoType, AutoType', Watching, TriesCounted, PhasesKept, Outlived, [AutoNext]_autoVars
  PROVE  Outlived'
<1> USE DEF AutoType, LifecycleType
<1>1. \A m \in Monitors : m[2] \in Owners /\ m[1] # 0
  BY AutoTradingAssumption DEF Monitors
<1>2. ASSUME monitor' = monitor, thread' = thread, strays \subseteq strays',
             \A o \in Owners : halt[o] => halt'[o]
      PROVE  Outlived'
  <2>1. SUFFICES ASSUME NEW m \in Monitors, Alive(m)' PROVE m = Own(m[2])' \/ Harmless(m)'
    BY DEF Outlived
  <2>2. Alive(m) /\ Own(m[2])' = Own(m[2])
    BY <1>2, <2>1 DEF Alive, Pc, Own
  <2>3. QED
    BY <1>1, <1>2, <2>2, HarmlessKept DEF Outlived
<1>3. ASSUME NEW m \in Monitors, MonitorStep(m) PROVE Outlived'
  <2>1. SUFFICES ASSUME NEW n \in Monitors, Alive(n)' PROVE n = Own(n[2])' \/ Harmless(n)'
    BY DEF Outlived
  <2>2. UNCHANGED <<halt, thread, strays>> /\ Own(n[2])' = Own(n[2])
    BY <1>3, MonitorEffect DEF Own
  <2>3. StepsOn(m) /\ Alive(m)
    BY <1>3, MonitorGoes
  <2>4. CASE n = m
    BY <2>1, <2>2, <2>3, <2>4, HarmlessMoves DEF Outlived
  <2>5. CASE n # m
    <3>1. monitor'[n] = monitor[n]
      BY <1>3, <2>5, MonitorEffect
    <3>2. Alive(n)
      BY <2>1, <3>1 DEF Alive, Pc
    <3>3. QED
      BY <2>2, <3>1, <3>2, HarmlessKept DEF Outlived
  <2>6. QED
    BY <2>4, <2>5
<1>4. CASE Launch
  <2>1. SUFFICES ASSUME NEW m \in Monitors, Alive(m)' PROVE m = Own(m[2])' \/ Harmless(m)'
    BY DEF Outlived
  <2>2. CASE m[1] = starts
    <3>1. thread'[m[2]] = starts
      BY <1>1, <1>4 DEF Launch
    <3>2. m = <<m[1], m[2]>>
      BY DEF Monitors
    <3>3. QED
      BY <2>2, <3>1, <3>2 DEF Own
  <2>3. CASE m[1] # starts
    <3>1. monitor'[m] = monitor[m]
      BY <1>4, <2>3 DEF Launch
    <3>2. Alive(m)
      BY <2>1, <3>1 DEF Alive, Pc
    <3>3. Watches(m) \subseteq strays'
      BY <1>4, <3>2 DEF Launch
    <3>4. QED
      BY <3>3 DEF Harmless, Watches
  <2>4. QED
    BY <2>2, <2>3
<1>5. ASSUME NEW o \in Owners, NEW sleeps \in SUBSET {"asleep", "head"}, Joined(o, sleeps), halt[o],
             thread' = [thread EXCEPT ![o] = 0], strays' = strays \cup LeftAsleep(o),
             UNCHANGED <<monitor, halt>>
      PROVE  Outlived'
  <2>1. SUFFICES ASSUME NEW m \in Monitors, Alive(m)' PROVE m = Own(m[2])' \/ Harmless(m)'
    BY DEF Outlived
  <2>2. Alive(m) /\ monitor'[m] = monitor[m]
    BY <1>5, <2>1 DEF Alive, Pc
  <2>3. CASE Harmless(m)
    BY <1>5, <2>2, <2>3, HarmlessKept
  <2>4. CASE ~Harmless(m) /\ m[2] # o
    BY <1>1, <1>5, <2>2, <2>4 DEF Outlived, Own
  <2>5. CASE ~Harmless(m) /\ m[2] = o
    <3>1. m = Own(o) /\ thread[o] # 0
      BY <1>1, <2>2, <2>5 DEF Outlived, Own
    <3>2. Pc(m) \in {"asleep", "head"}
      BY <1>5, <2>2, <3>1 DEF Joined
    <3>3. Pc(m) = "asleep" => monitor[m].left \cup {monitor[m].at} \subseteq strays'
      BY <1>5, <3>1 DEF LeftAsleep
    <3>4. Harmless(m)'
      BY <1>5, <2>2, <2>5, <3>2, <3>3 DEF Harmless, Pc
    <3>5. QED
      BY <3>4
  <2>6. QED
    BY <2>3, <2>4, <2>5
<1>6. CASE StopController
  <2>1. Controller \in Owners /\ halt[Controller]
    BY <1>6 DEF StopController, PhasesKept, Owners
  <2>2. QED
    BY <1>5, <1>6, <2>1 DEF StopController
<1>7. ASSUME NEW a \in Accounts, HealthStopped(a) PROVE Outlived'
  <2>1. a \in Owners /\ halt[a]
    BY <1>7 DEF HealthStopped, PhasesKept, Owners
  <2>2. QED
    BY <1>5, <1>7, <2>1 DEF HealthStopped
<1>8. ASSUME NEW a \in Accounts,
             StopHealth(a) \/ StopDisconnect(a) \/ (\E ok \in BOOLEAN : StartConnect(a, ok))
      PROVE  Outlived'
  <2>1. monitor' = monitor /\ thread' = thread /\ strays' = strays
    BY <1>8 DEF StopHealth, StopDisconnect, StartConnect
  <2>2. \A o \in Owners : halt[o] => halt'[o]
    BY <1>8 DEF StopHealth, StopDisconnect, StartConnect
  <2>3. QED
    BY <1>2, <2>1, <2>2
<1>9. CASE Start \/ Run \/ Stop \/ StopFeed
  <2>1. monitor' = monitor /\ thread' = thread /\ strays' = strays
    BY <1>9 DEF Start, Run, Stop, StopFeed
  <2>2. \A o \in Owners : halt[o] => halt'[o]
    BY <1>9 DEF Start, Run, Stop, StopFeed
  <2>3. QED
    BY <1>2, <2>1, <2>2
<1>10. CASE (\E k \in 1..MaxBatch : Submit(k)) \/ OrderStep
              \/ (\E a \in Accounts : Drop(a) \/ Heal(a)) \/ UNCHANGED autoVars
  <2>1. UNCHANGED <<monitor, thread, strays, halt>>
    BY <1>10
    DEF Submit, OrderStep, SendTaken, Acked, SendRaised, SendNone, FeedEnds, Drop, Heal,
        autoVars, lifecycle
  <2>2. QED
    BY <1>2, <2>1
<1>11. QED
  BY <1>3, <1>4, <1>6, <1>7, <1>8, <1>9, <1>10 DEF AutoNext, OperatorStep


LEMMA DownStep ==
  ASSUME AutoType, Watching, TriesCounted, PhasesKept, Outlived, DownStays, [AutoNext]_autoVars
  PROVE  DownStays'
<1> USE DEF AutoType, LifecycleType
<1> First \in Accounts /\ Controller \notin Accounts
  BY AutoTradingAssumption
<1>1. ASSUME strays \subseteq strays', step' = step, todo' = todo, thread' = thread,
             \A a \in Accounts \ strays : Served(a) => adapter'[a] = adapter[a] /\ state'[a] = state[a]
      PROVE  DownStays'
  BY <1>1 DEF DownStays, Served
<1>2. ASSUME NEW m \in Monitors, MonitorStep(m) PROVE DownStays'
  <2>1. UNCHANGED <<step, todo, thread, strays>> /\ Alive(m)
    BY <1>2, MonitorEffect, MonitorGoes
  <2>2. ASSUME NEW a \in Accounts \ strays, Served(a)
        PROVE  adapter'[a] = adapter[a] /\ state'[a] = state[a]
    <3>1. Harmless(m)
      <4>1. m[2] \in Owners /\ m[1] # 0 /\ thread[m[2]] = 0
        BY <2>2, AutoTradingAssumption DEF Monitors, Served, PhasesKept, Stopped
      <4>2. m # Own(m[2])
        BY <4>1 DEF Own
      <4>3. QED
        BY <2>1, <4>2 DEF Outlived
    <3>2. Pc(m) \in {"probe", "asleep", "won", "lost"} => monitor[m].at # a
      BY <2>2, <3>1 DEF Harmless, Watching
    <3>3. QED
      BY <1>2, <3>2, MonitorEffect
  <2>3. QED
    BY <1>1, <2>1, <2>2
<1>3. ASSUME step' \notin {"idle", "disconnect"} PROVE DownStays'
  BY <1>3 DEF DownStays, Served
<1>4. CASE Start \/ Launch \/ Stop \/ StopController
             \/ \E a \in Accounts : StopHealth(a) \/ HealthStopped(a)
  BY <1>3, <1>4 DEF Start, Launch, Stop, StopController, StopHealth, HealthStopped
<1>5. ASSUME NEW a \in Accounts, NEW ok \in BOOLEAN, StartConnect(a, ok) PROVE DownStays'
  BY <1>3, <1>5 DEF StartConnect
<1>6. CASE Run
  BY <1>6 DEF Run, DownStays, Served, PhasesKept
<1>7. CASE StopFeed
  BY <1>3, <1>7 DEF StopFeed, DownStays, Served
<1>8. ASSUME NEW a \in Accounts, StopDisconnect(a) PROVE DownStays'
  <2>1. /\ step = "disconnect" /\ todo' = todo \ {a} /\ UNCHANGED <<thread, strays>>
        /\ step' = IF todo = {a} THEN "idle" ELSE step
        /\ Disconnect(a)
    BY <1>8 DEF StopDisconnect
  <2>2. /\ state'[a] = "DISCONNECTED" /\ adapter'[a] = FALSE
        /\ \A b \in Accounts \ {a} : state'[b] = state[b] /\ adapter'[b] = adapter[b]
    BY <2>1, DisconnectEffect
  <2>3. ASSUME NEW b \in Accounts, Served(b)' PROVE b = a \/ Served(b)
    BY <2>1, <2>3 DEF Served
  <2>4. QED
    BY <2>1, <2>2, <2>3 DEF DownStays
<1>9. CASE (\E k \in 1..MaxBatch : Submit(k)) \/ OrderStep
             \/ (\E a \in Accounts : Drop(a) \/ Heal(a)) \/ UNCHANGED autoVars
  <2>1. UNCHANGED <<step, todo, thread, strays, adapter, state>>
    BY <1>9
    DEF Submit, OrderStep, SendTaken, Acked, SendRaised, SendNone, FeedEnds, Drop, Heal,
        autoVars, lifecycle, connection
  <2>2. QED
    BY <1>1, <2>1
<1>10. QED
  BY <1>2, <1>4, <1>5, <1>6, <1>7, <1>8, <1>9 DEF AutoNext, OperatorStep

(* After stop (controller.py:563-588) no link is up but through a monitor  *)
(* that outlived it in a reconnect, whatever the accounts, the starts and  *)
(* the moments at which the links went bad.                                *)
THEOREM LinksStayDown == AutoSpec => []LateLinks
<1>1. PhasesKept /\ DownStays => LateLinks
  BY DEF LateLinks, Returned, DownStays, Served, Owners
<1>2. AutoType /\ InHand /\ PositionsKnown /\ [AutoNext]_autoVars
        => (AutoType /\ InHand /\ PositionsKnown)'
  BY PositionsStep
<1>3. AutoType /\ AutoType' /\ Watching /\ TriesCounted /\ [AutoNext]_autoVars
        => (Watching /\ TriesCounted)'
  BY TriesStep
<1>4. AutoType /\ AutoType' /\ Watching /\ TriesCounted /\ PhasesKept /\ Outlived /\ DownStays
        /\ [AutoNext]_autoVars
        => (PhasesKept /\ Outlived /\ DownStays)'
  BY PhasesStep, OutlivedStep, DownStep
<1>5. QED
  BY <1>1, <1>2, <1>3, <1>4, InitAutoType, InitPositions, InitReconnects, PTL DEF AutoSpec

(***************************************************************************)
(* ExposureGovernor.  Three of its operators are recursive functions: the  *)
(* sum of Exposure, the search of Downsize and the fold of Allocate.  That *)
(* such a function exists at all is RecursionExists, by a measure in the   *)
(* naturals that each call makes smaller; what it computes is shown by the *)
(* argument with the least measure that would contradict it.               *)
(***************************************************************************)

(* A set of naturals has a least element, a bounded one a greatest.        *)
LEMMA LeastNumber ==
  ASSUME NEW T \in SUBSET Nat, T # {}
  PROVE  \E least \in T : \A other \in T : least <= other
<1>1. IsWellFoundedOn(OpToRel(<, Nat), Nat)
  BY NatLessThanWellFounded
<1>2. PICK least \in T : \A other \in T : <<other, least>> \notin OpToRel(<, Nat)
  BY <1>1, WFMin
<1>3. \A other \in T : ~(other < least)
  BY <1>2 DEF OpToRel
<1>4. QED
  BY <1>3

LEMMA GreatestNumber ==
  ASSUME NEW n \in Nat, NEW T \in SUBSET (0..n), T # {}
  PROVE  \E greatest \in T : \A other \in T : other <= greatest
<1> DEFINE U == {n - x : x \in T}
<1>1. U \in SUBSET Nat /\ U # {}
  <2>1. \A x \in T : n - x \in Nat
    OBVIOUS
  <2>2. QED
    BY <2>1, Zenon
<1>2. PICK least \in U : \A other \in U : least <= other
  BY <1>1, LeastNumber
<1>3. PICK greatest \in T : least = n - greatest
  BY <1>2
<1>4. \A other \in T : n - other \in U
  OBVIOUS
<1>5. \A other \in T : n - greatest <= n - other
  BY <1>2, <1>3, <1>4
<1>6. QED
  BY <1>3, <1>5

LEMMA GreatestIsMax ==
  ASSUME NEW n \in Nat, NEW T \in SUBSET (0..n), T # {}
  PROVE  Max(T) \in T /\ \A x \in T : x <= Max(T)
<1>1. PICK greatest \in T : \A other \in T : other <= greatest
  BY GreatestNumber
<1>2. \A other \in T : greatest >= other
  BY <1>1
<1>3. Max(T) \in T /\ \A x \in T : Max(T) >= x
  BY <1>2, Zenon DEF Max
<1>4. QED
  BY <1>3

(* A function that is defined by itself at a smaller argument exists.      *)
Recurses(D, V, size, Ends, first, pred, move) ==
  /\ size \in [D -> Nat] /\ Ends \in SUBSET D /\ first \in [Ends -> V]
  /\ pred \in [D \ Ends -> D] /\ move \in [D \ Ends -> [V -> V]]
  /\ \A d \in D \ Ends : size[pred[d]] < size[d]

Recursive(f, D, V, Ends, first, pred, move) ==
  /\ f \in [D -> V]
  /\ \A d \in D : f[d] = IF d \in Ends THEN first[d] ELSE move[d][f[pred[d]]]

LEMMA RecursionExists ==
  ASSUME NEW D, NEW V, NEW size, NEW Ends, NEW first, NEW pred, NEW move,
         Recurses(D, V, size, Ends, first, pred, move)
  PROVE  \E f : Recursive(f, D, V, Ends, first, pred, move)
<1>0. /\ size \in [D -> Nat] /\ Ends \in SUBSET D /\ first \in [Ends -> V]
      /\ pred \in [D \ Ends -> D] /\ move \in [D \ Ends -> [V -> V]]
      /\ \A d \in D \ Ends : size[pred[d]] < size[d]
  BY DEF Recurses
<1> USE <1>0
<1> DEFINE Below(n) == {d \in D : size[d] < n}
           Solves(g, n) ==
             /\ g \in [Below(n) -> V]
             /\ \A d \in Below(n) : g[d] = IF d \in Ends THEN first[d] ELSE move[d][g[pred[d]]]
<1>1. ASSUME NEW n \in Nat, NEW g, Solves(g, n) PROVE \E h : Solves(h, n + 1)
  <2> DEFINE h == [d \in Below(n + 1) |-> IF d \in Ends THEN first[d] ELSE move[d][g[pred[d]]]]
  <2>1. \A d \in Below(n + 1) \ Ends : pred[d] \in Below(n)
    <3>1. ASSUME NEW d \in Below(n + 1) \ Ends PROVE pred[d] \in Below(n)
      <4>1. d \in D \ Ends /\ size[d] < n + 1 /\ size[d] \in Nat
        BY <3>1
      <4>2. pred[d] \in D /\ size[pred[d]] < size[d] /\ size[pred[d]] \in Nat
        BY <4>1
      <4>3. QED
        BY <4>1, <4>2
    <3>2. QED
      BY <3>1
  <2>2. \A d \in Below(n + 1) : h[d] \in V
    BY <1>1, <2>1
  <2>3. \A d \in Below(n) : d \in Below(n + 1) /\ h[d] = g[d]
    <3>1. ASSUME NEW d \in Below(n) PROVE d \in Below(n + 1) /\ h[d] = g[d]
      <4>1. size[d] \in Nat /\ d \in D /\ size[d] < n
        BY <3>1
      <4>2. d \in Below(n + 1)
        BY <1>1, <4>1
      <4>3. QED
        BY <1>1, <3>1, <4>2
    <3>2. QED
      BY <3>1
  <2>4. \A d \in Below(n + 1) : h[d] = IF d \in Ends THEN first[d] ELSE move[d][h[pred[d]]]
    BY <2>1, <2>3
  <2>5. h \in [Below(n + 1) -> V]
    BY <2>2
  <2>6. Solves(h, n + 1)
    BY <2>4, <2>5
  <2>7. QED
    BY <2>6
<1>2. ASSUME NEW n \in Nat PROVE \E g : Solves(g, n)
  <2> DEFINE Unsolved == {m \in Nat : ~\E g : Solves(g, m)}
  <2>1. Solves(<<>>, 0)
    <3>1. Below(0) = {}
      BY SMT
    <3>2. QED
      BY <3>1, SMT
  <2> HIDE DEF Solves
  <2>2. SUFFICES ASSUME Unsolved # {} PROVE FALSE
    BY <1>2
  <2>3. PICK m \in Unsolved : \A other \in Unsolved : m <= other
    BY <2>2, LeastNumber
  <2>4. m # 0
    BY <2>1, <2>3
  <2>5. m - 1 \in Nat /\ m - 1 \notin Unsolved
    <3>1. m \in Nat
      BY <2>3
    <3> HIDE DEF Unsolved
    <3>2. m - 1 \in Nat /\ ~(m <= m - 1)
      BY <2>4, <3>1
    <3>3. QED
      BY <2>3, <3>2
  <2>6. PICK g : Solves(g, m - 1)
    BY <2>5
  <2>7. \E h : Solves(h, (m - 1) + 1)
    BY <1>1, <2>5, <2>6
  <2>8. m = (m - 1) + 1
    BY <2>3
  <2>9. QED
    BY <2>3, <2>7, <2>8
<1>3. ASSUME NEW n \in Nat, NEW g, Solves(g, n), NEW m \in Nat, NEW h, Solves(h, m),
             NEW e \in Below(n) \cap Below(m)
      PROVE  g[e] = h[e]
  <2> DEFINE Differ == {size[d] : d \in {d \in Below(n) \cap Below(m) : g[d] # h[d]}}
  <2>1. Differ \in SUBSET Nat
    OBVIOUS
  <2>2. SUFFICES ASSUME Differ # {} PROVE FALSE
    <3>1. g[e] # h[e] => size[e] \in Differ
      BY <1>3
    <3> HIDE DEF Differ
    <3>2. QED
      BY <3>1
  <2>3. PICK least \in Differ : \A other \in Differ : least <= other
    BY <2>1, <2>2, LeastNumber
  <2>4. PICK d \in Below(n) \cap Below(m) : g[d] # h[d] /\ least = size[d]
    BY <2>3
  <2>5. d \notin Ends
    BY <1>3, <2>4
  <2>6. d \in D /\ size[d] \in Nat /\ size[d] < n /\ size[d] < m
    BY <2>4
  <2>7. pred[d] \in D /\ size[pred[d]] \in Nat /\ size[pred[d]] < size[d]
    BY <2>5, <2>6
  <2>8. pred[d] \in Below(n) \cap Below(m)
    BY <1>3, <2>6, <2>7
  <2>9. g[pred[d]] # h[pred[d]]
    BY <1>3, <2>4, <2>5
  <2>10. size[pred[d]] \in Differ
    BY <2>8, <2>9
  <2> HIDE DEF Differ
  <2>11. QED
    BY <2>3, <2>4, <2>6, <2>7, <2>10
<1> DEFINE Upto(d) == CHOOSE g : Solves(g, size[d] + 1)
           f == [d \in D |-> Upto(d)[d]]
<1>4. ASSUME NEW d \in D
      PROVE  size[d] + 1 \in Nat /\ Solves(Upto(d), size[d] + 1) /\ d \in Below(size[d] + 1)
  <2>1. size[d] \in Nat /\ size[d] + 1 \in Nat
    BY <1>4
  <2>2. d \in Below(size[d] + 1)
    BY <1>4, <2>1
  <2> HIDE DEF Solves
  <2>3. \E g : Solves(g, size[d] + 1)
    BY <1>2, <2>1
  <2>4. Solves(Upto(d), size[d] + 1)
    BY <2>3, Zenon
  <2>5. QED
    BY <2>1, <2>2, <2>4
<1>5. ASSUME NEW d \in D
      PROVE  f[d] \in V /\ f[d] = IF d \in Ends THEN first[d] ELSE move[d][f[pred[d]]]
  <2> HIDE DEF Upto
  <2>1. /\ Upto(d)[d] \in V
        /\ Upto(d)[d] = IF d \in Ends THEN first[d] ELSE move[d][Upto(d)[pred[d]]]
    BY <1>4, <1>5
  <2>2. CASE d \in Ends
    BY <1>5, <2>1, <2>2
  <2>3. CASE d \notin Ends
    <3>1. pred[d] \in D /\ size[pred[d]] < size[d] /\ size[pred[d]] \in Nat /\ size[d] \in Nat
      BY <1>5, <2>3
    <3>2. pred[d] \in Below(size[d] + 1)
      BY <3>1
    <3>3. /\ size[d] + 1 \in Nat /\ Solves(Upto(d), size[d] + 1)
          /\ size[pred[d]] + 1 \in Nat /\ Solves(Upto(pred[d]), size[pred[d]] + 1)
          /\ pred[d] \in Below(size[pred[d]] + 1)
      BY <1>4, <1>5, <3>1
    <3> HIDE DEF Solves, Below
    <3>4. Upto(d)[pred[d]] = Upto(pred[d])[pred[d]]
      BY <1>3, <3>2, <3>3
    <3>5. f[pred[d]] = Upto(pred[d])[pred[d]] /\ f[d] = Upto(d)[d]
      BY <1>5, <3>1
    <3>6. QED
      BY <2>1, <2>3, <3>4, <3>5
  <2>4. QED
    BY <2>2, <2>3
<1>6. QED
  <2>1. f \in [D -> V]
    BY <1>5
  <2> HIDE DEF f
  <2>2. Recursive(f, D, V, Ends, first, pred, move)
    BY <1>5, <2>1 DEF Recursive
  <2>3. QED
    BY <2>2

(***************************************************************************)
(* Exposures                                                               *)
(***************************************************************************)
Books == [Pairs -> Int]

(* What a unit of a pair adds to the exposure of a currency.               *)
Weight(p, c) == IF c = Base[p] THEN Rate[Base[p]] ELSE IF c = Quote[p] THEN -Rate[Base[p]] ELSE 0

Some(s) == CHOOSE p \in s : TRUE

SumsUp(b, c, sum) ==
  sum = [s \in SUBSET Pairs |->
           IF s = {} THEN 0
           ELSE (CASE c = Base[Some(s)]  -> b[Some(s)] * Rate[Base[Some(s)]]
                   [] c = Quote[Some(s)] -> -b[Some(s)] * Rate[Base[Some(s)]]
                   [] OTHER              -> 0) + sum[s \ {Some(s)}]]

LEMMA WeightFits ==
  ASSUME NEW p \in Pairs, NEW c
  PROVE  Weight(p, c) \in Int /\ (c \notin Legs(p) => Weight(p, c) = 0)
<1>1. Rate[Base[p]] \in Nat
  BY ExposureAssumption
<1>2. QED
  BY <1>1 DEF Weight, Legs

(* What a pair adds to an exposure is linear in its units.                 *)
LEMMA TermIsWeighted ==
  ASSUME NEW b \in Books, NEW c, NEW p \in Pairs
  PROVE  (CASE c = Base[p]  -> b[p] * Rate[Base[p]]
            [] c = Quote[p] -> -b[p] * Rate[Base[p]]
            [] OTHER        -> 0) = b[p] * Weight(p, c)
<1>1. Rate[Base[p]] \in Int /\ b[p] \in Int /\ Base[p] # Quote[p]
  BY ExposureAssumption DEF Books
<1>2. CASE c = Base[p]
  BY <1>1, <1>2 DEF Weight
<1>3. CASE c = Quote[p]
  BY <1>1, <1>3 DEF Weight
<1>4. CASE c # Base[p] /\ c # Quote[p]
  BY <1>1, <1>4 DEF Weight
<1>5. QED
  BY <1>2, <1>3, <1>4

LEMMA SomePair ==
  ASSUME NEW s \in SUBSET Pairs, s # {}
  PROVE  /\ Some(s) \in s /\ Some(s) \in Pairs /\ s \ {Some(s)} \in SUBSET Pairs
         /\ Cardinality(s) \in Nat /\ Cardinality(s \ {Some(s)}) \in Nat
         /\ Cardinality(s \ {Some(s)}) < Cardinality(s)
<1>1. Some(s) \in s
  BY Zenon DEF Some
<1>2. IsFiniteSet(s)
  BY ExposureAssumption, FS_Subset
<1>3. /\ Cardinality(s) \in Nat /\ IsFiniteSet(s \ {Some(s)})
      /\ Cardinality(s \ {Some(s)}) = Cardinality(s) - 1
  BY <1>1, <1>2, FS_CardinalityType, FS_RemoveElement
<1>4. QED
  BY <1>1, <1>2, <1>3, FS_CardinalityType

LEMMA SumExists ==
  ASSUME NEW b \in Books, NEW c
  PROVE  \E sum : SumsUp(b, c, sum)
<1> DEFINE D == SUBSET Pairs
           size == [s \in D |-> Cardinality(s)]
           Ends == {{}}
           first == [s \in Ends |-> 0]
           pred == [s \in D \ Ends |-> s \ {Some(s)}]
           move == [s \in D \ Ends |-> [v \in Int |-> b[Some(s)] * Weight(Some(s), c) + v]]
<1>1. size \in [D -> Nat]
  <2>1. \A s \in D : Cardinality(s) \in Nat
    BY ExposureAssumption, FS_Subset, FS_CardinalityType
  <2>2. QED
    BY <2>1
<1>2. first \in [Ends -> Int] /\ Ends \in SUBSET D
  OBVIOUS
<1>3. /\ pred \in [D \ Ends -> D]
      /\ \A s \in D \ Ends : size[pred[s]] < size[s]
  BY SomePair
<1>4. move \in [D \ Ends -> [Int -> Int]]
  <2>1. \A s \in D \ Ends : b[Some(s)] * Weight(Some(s), c) \in Int
    BY SomePair, WeightFits DEF Books
  <2>2. QED
    BY <2>1
<1>5. PICK f : /\ f \in [D -> Int]
               /\ \A s \in D : f[s] = IF s \in Ends THEN first[s] ELSE move[s][f[pred[s]]]
  <2> HIDE DEF D, size, Ends, first, pred, move
  <2>1. Recurses(D, Int, size, Ends, first, pred, move)
    BY <1>1, <1>2, <1>3, <1>4 DEF Recurses
  <2>2. PICK f : Recursive(f, D, Int, Ends, first, pred, move)
    BY <2>1, RecursionExists, Zenon
  <2>3. QED
    BY <2>2 DEF Recursive
<1>6. ASSUME NEW s \in D
      PROVE  f[s] = IF s = {} THEN 0
                    ELSE (CASE c = Base[Some(s)]  -> b[Some(s)] * Rate[Base[Some(s)]]
                            [] c = Quote[Some(s)] -> -b[Some(s)] * Rate[Base[Some(s)]]
                            [] OTHER              -> 0) + f[s \ {Some(s)}]
  <2>1. CASE s = {}
    BY <1>5, <2>1
  <2>2. CASE s # {}
    <3>1. Some(s) \in Pairs /\ s \ {Some(s)} \in D /\ f[s \ {Some(s)}] \in Int
      BY <1>5, <1>6, <2>2, SomePair
    <3>2. f[s] = b[Some(s)] * Weight(Some(s), c) + f[s \ {Some(s)}]
      BY <1>5, <1>6, <2>2, <3>1
    <3>3. QED
      BY <2>2, <3>1, <3>2, TermIsWeighted
  <2>3. QED
    BY <2>1, <2>2
<1>7. SumsUp(b, c, f)
  BY <1>5, <1>6 DEF SumsUp
<1>8. QED
  BY <1>7

(* The exposure is such a sum.                                             *)
AddsUp(sum, b, c) ==
  /\ Exposure(b, c) = sum[Pairs] /\ sum[{}] = 0
  /\ \A s \in SUBSET Pairs : s # {} =>
       sum[s] = b[Some(s)] * Weight(Some(s), c) + sum[s \ {Some(s)}]

(* The exposure is the sum, pair by pair.                                  *)
LEMMA ExposureIsSum ==
  ASSUME NEW b \in Books, NEW c
  PROVE  \E sum : AddsUp(sum, b, c)
<1> DEFINE sum == CHOOSE sum : SumsUp(b, c, sum)
<1>1. Exposure(b, c) = sum[Pairs]
  BY Zenon DEF Exposure, MapThenSumSet, MapThenFoldSet, SumsUp, Some
<1>2. SumsUp(b, c, sum)
  BY SumExists, Zenon
<1> HIDE DEF sum
<1>3. sum[{}] = 0
  BY <1>2 DEF SumsUp
<1>4. ASSUME NEW s \in SUBSET Pairs, s # {}
      PROVE  sum[s] = b[Some(s)] * Weight(Some(s), c) + sum[s \ {Some(s)}]
  <2>1. sum[s] = (CASE c = Base[Some(s)]  -> b[Some(s)] * Rate[Base[Some(s)]]
                    [] c = Quote[Some(s)] -> -b[Some(s)] * Rate[Base[Some(s)]]
                    [] OTHER              -> 0) + sum[s \ {Some(s)}]
    BY <1>2, <1>4 DEF SumsUp
  <2>2. Some(s) \in Pairs
    BY <1>4, SomePair
  <2>3. QED
    BY <2>1, <2>2, TermIsWeighted
<1>5. AddsUp(sum, b, c)
  BY <1>1, <1>3, <1>4 DEF AddsUp
<1>6. QED
  BY <1>5

LEMMA ExposureIsInt ==
  ASSUME NEW b \in Books, NEW c
  PROVE  Exposure(b, c) \in Int
<1>1. PICK sum : AddsUp(sum, b, c)
  BY ExposureIsSum
<1> USE DEF AddsUp
<1> DEFINE Others == {s \in SUBSET Pairs : sum[s] \notin Int}
           Counts == {Cardinality(s) : s \in Others}
<1>2. SUFFICES ASSUME Others # {} PROVE FALSE
  BY <1>1
<1>3. Counts \in SUBSET Nat /\ Counts # {}
  <2>1. \A s \in SUBSET Pairs : Cardinality(s) \in Nat
    BY ExposureAssumption, FS_Subset, FS_CardinalityType
  <2>2. QED
    BY <1>2, <2>1
<1>4. PICK least \in Counts : \A other \in Counts : least <= other
  BY <1>3, LeastNumber
<1>5. PICK s \in Others : least = Cardinality(s)
  BY <1>4
<1>6. s # {} /\ s \in SUBSET Pairs
  <2>1. sum[{}] \in Int
    BY <1>1
  <2>2. QED
    BY <1>5, <2>1
<1>7. /\ Some(s) \in Pairs /\ s \ {Some(s)} \in SUBSET Pairs
      /\ Cardinality(s) \in Nat /\ Cardinality(s \ {Some(s)}) \in Nat
      /\ Cardinality(s \ {Some(s)}) < Cardinality(s)
  BY <1>6, SomePair
<1>8. s \ {Some(s)} \notin Others
  <2>1. s \ {Some(s)} \in Others => Cardinality(s \ {Some(s)}) \in Counts
    OBVIOUS
  <2> HIDE DEF Counts
  <2>2. QED
    BY <1>4, <1>5, <1>7, <2>1
<1>9. sum[s \ {Some(s)}] \in Int
  BY <1>7, <1>8
<1>10. b[Some(s)] * Weight(Some(s), c) \in Int
  BY <1>7, WeightFits DEF Books
<1>11. sum[s] \in Int
  BY <1>1, <1>6, <1>9, <1>10
<1>12. QED
  BY <1>5, <1>11

LEMMA PlusFits ==
  ASSUME NEW b \in Books, NEW p \in Pairs, NEW n \in Int
  PROVE  /\ Plus(b, p, n) \in Books /\ Plus(b, p, n)[p] = b[p] + n
         /\ \A q \in Pairs \ {p} : Plus(b, p, n)[q] = b[q]
BY DEF Plus, Books

(* Units added to a pair move an exposure in proportion.                   *)
LEMMA ExposureMoves ==
  ASSUME NEW b \in Books, NEW p \in Pairs, NEW n \in Int, NEW c
  PROVE  Exposure(Plus(b, p, n), c) = Exposure(b, c) + n * Weight(p, c)
<1> DEFINE d == Plus(b, p, n)
           moved(s) == IF p \in s THEN n * Weight(p, c) ELSE 0
<1>1. d \in Books /\ d[p] = b[p] + n /\ \A q \in Pairs \ {p} : d[q] = b[q]
  BY PlusFits
<1> HIDE DEF d
<1>2. PICK sum : AddsUp(sum, b, c)
  BY ExposureIsSum
<1>3. PICK tot : AddsUp(tot, d, c)
  BY <1>1, ExposureIsSum
<1> USE DEF AddsUp
<1> DEFINE Good(s) == sum[s] \in Int /\ tot[s] = sum[s] + moved(s)
           Others == {s \in SUBSET Pairs : ~Good(s)}
           Counts == {Cardinality(s) : s \in Others}
<1>4. \A s : moved(s) \in Int
  BY WeightFits
<1>5. ASSUME Others = {} PROVE Exposure(d, c) = Exposure(b, c) + n * Weight(p, c)
  <2>1. Good(Pairs)
    BY <1>5
  <2>2. QED
    BY <1>2, <1>3, <2>1
<1>6. ASSUME Others # {} PROVE FALSE
  <2>1. Counts \in SUBSET Nat /\ Counts # {}
    <3>1. \A s \in SUBSET Pairs : Cardinality(s) \in Nat
      BY ExposureAssumption, FS_Subset, FS_CardinalityType
    <3> HIDE DEF Good
    <3>2. QED
      BY <1>6, <3>1
  <2>2. PICK least \in Counts : \A other \in Counts : least <= other
    BY <2>1, LeastNumber
  <2>3. PICK s \in Others : least = Cardinality(s)
    BY <2>2
  <2>4. Good({})
    BY <1>2, <1>3
  <2>5. s # {} /\ s \in SUBSET Pairs /\ ~Good(s)
    <3> HIDE DEF Good
    <3>1. QED
      BY <2>3, <2>4
  <2> DEFINE q == Some(s)
             rest == s \ {q}
  <2>6. /\ q \in s /\ q \in Pairs /\ rest \in SUBSET Pairs
        /\ Cardinality(s) \in Nat /\ Cardinality(rest) \in Nat
        /\ Cardinality(rest) < Cardinality(s)
    BY <2>5, SomePair
  <2>7. Good(rest)
    <3>1. rest \in Others => Cardinality(rest) \in Counts
      OBVIOUS
    <3> HIDE DEF Counts, Good, rest
    <3>2. rest \notin Others
      BY <2>2, <2>3, <2>6, <3>1
    <3>3. QED
      BY <2>6, <3>2
  <2>8. /\ sum[s] = b[q] * Weight(q, c) + sum[rest]
        /\ tot[s] = d[q] * Weight(q, c) + tot[rest]
    BY <1>2, <1>3, <2>5
  <2>9. b[q] \in Int /\ Weight(q, c) \in Int /\ Weight(p, c) \in Int
    BY <2>6, WeightFits DEF Books
  <2>10. CASE q = p
    <3>1. moved(rest) = 0 /\ moved(s) = n * Weight(p, c)
      BY <2>6, <2>10
    <3>2. d[q] = b[q] + n
      BY <1>1, <2>10
    <3> HIDE DEF q, rest, moved
    <3>3. (b[q] + n) * Weight(q, c) = b[q] * Weight(q, c) + n * Weight(q, c)
      BY <2>9
    <3>4. sum[rest] \in Int /\ tot[rest] = sum[rest]
      BY <2>7, <3>1
    <3>5. QED
      BY <2>5, <2>8, <2>9, <2>10, <3>1, <3>2, <3>3, <3>4
  <2>11. CASE q # p
    <3>1. moved(rest) = moved(s)
      BY <2>6, <2>11
    <3>2. d[q] = b[q]
      BY <1>1, <2>6, <2>11
    <3>3. moved(s) \in Int
      BY <1>4
    <3> HIDE DEF q, rest, moved
    <3>4. QED
      BY <2>5, <2>7, <2>8, <2>9, <3>1, <3>2, <3>3
  <2>12. QED
    BY <2>10, <2>11
<1>7. QED
  BY <1>5, <1>6 DEF d

LEMMA NothingIsExposed ==
  ASSUME NEW b \in Books, \A p \in Pairs : b[p] = 0, NEW c
  PROVE  Exposure(b, c) = 0
<1>1. PICK sum : AddsUp(sum, b, c)
  BY ExposureIsSum
<1> USE DEF AddsUp
<1> DEFINE Others == {s \in SUBSET Pairs : sum[s] # 0}
           Counts == {Cardinality(s) : s \in Others}
<1>2. SUFFICES ASSUME Others # {} PROVE FALSE
  BY <1>1
<1>3. Counts \in SUBSET Nat /\ Counts # {}
  <2>1. \A s \in SUBSET Pairs : Cardinality(s) \in Nat
    BY ExposureAssumption, FS_Subset, FS_CardinalityType
  <2>2. QED
    BY <1>2, <2>1
<1>4. PICK least \in Counts : \A other \in Counts : least <= other
  BY <1>3, LeastNumber
<1>5. PICK s \in Others : least = Cardinality(s)
  BY <1>4
<1>6. s # {} /\ s \in SUBSET Pairs
  <2>1. sum[{}] = 0
    BY <1>1
  <2>2. QED
    BY <1>5, <2>1
<1>7. /\ Some(s) \in Pairs /\ s \ {Some(s)} \in SUBSET Pairs
      /\ Cardinality(s) \in Nat /\ Cardinality(s \ {Some(s)}) \in Nat
      /\ Cardinality(s \ {Some(s)}) < Cardinality(s)
  BY <1>6, SomePair
<1>8. s \ {Some(s)} \notin Others
  <2>1. s \ {Some(s)} \in Others => Cardinality(s \ {Some(s)}) \in Counts
    OBVIOUS
  <2> HIDE DEF Counts
  <2>2. QED
    BY <1>4, <1>5, <1>7, <2>1
<1>9. sum[s \ {Some(s)}] = 0
  BY <1>7, <1>8
<1>10. b[Some(s)] * Weight(Some(s), c) = 0
  BY <1>7, WeightFits DEF Books
<1>11. sum[s] = 0
  <2>1. sum[s] = b[Some(s)] * Weight(Some(s), c) + sum[s \ {Some(s)}]
    BY <1>1, <1>6
  <2>2. QED
    BY <1>9, <1>10, <2>1
<1>12. QED
  BY <1>5, <1>11

(* Between two points the size of a linear value is no larger than at one  *)
(* of them.                                                                *)
LEMMA Convex ==
  ASSUME NEW e \in Int, NEW k \in Int, NEW h \in Int, NEW m \in Int,
         (0 <= h /\ h <= m) \/ (m <= h /\ h <= 0)
  PROVE  Size(e + h * k) <= Size(e) \/ Size(e + h * k) <= Size(e + m * k)
<1>1. h * k \in Int /\ m * k \in Int
  OBVIOUS
<1>2. (0 <= h * k /\ h * k <= m * k) \/ (m * k <= h * k /\ h * k <= 0)
  <2>1. CASE 0 <= h /\ h <= m /\ k >= 0
    BY <2>1
  <2>2. CASE 0 <= h /\ h <= m /\ k < 0
    BY <2>2
  <2>3. CASE m <= h /\ h <= 0 /\ k >= 0
    BY <2>3
  <2>4. CASE m <= h /\ h <= 0 /\ k < 0
    BY <2>4
  <2>5. QED
    BY <2>1, <2>2, <2>3, <2>4
<1>3. ASSUME NEW x \in Int, NEW y \in Int, (0 <= x /\ x <= y) \/ (y <= x /\ x <= 0)
      PROVE  Size(e + x) <= Size(e) \/ Size(e + x) <= Size(e + y)
  BY <1>3 DEF Size
<1>4. QED
  BY <1>1, <1>2, <1>3

(* What lies between a book within the cap and another one is within it.   *)
LEMMA BalancedBetween ==
  ASSUME NEW b \in Books, NEW p \in Pairs, NEW h \in Int, NEW m \in Int,
         (0 <= h /\ h <= m) \/ (m <= h /\ h <= 0),
         Balanced(b), Balanced(Plus(b, p, m))
  PROVE  Balanced(Plus(b, p, h))
<1> SUFFICES ASSUME NEW c \in Currencies PROVE Size(Exposure(Plus(b, p, h), c)) <= Cap
  BY DEF Balanced
<1>1. Size(Exposure(b, c)) <= Cap /\ Size(Exposure(Plus(b, p, m), c)) <= Cap
  BY DEF Balanced
<1>2. /\ Exposure(Plus(b, p, h), c) = Exposure(b, c) + h * Weight(p, c)
      /\ Exposure(Plus(b, p, m), c) = Exposure(b, c) + m * Weight(p, c)
  BY ExposureMoves
<1>3. Exposure(b, c) \in Int /\ Weight(p, c) \in Int
  BY ExposureIsInt, WeightFits
<1>4. \/ Size(Exposure(Plus(b, p, h), c)) <= Size(Exposure(b, c))
      \/ Size(Exposure(Plus(b, p, h), c)) <= Size(Exposure(Plus(b, p, m), c))
  BY <1>2, <1>3, Convex
<1>5. /\ Exposure(Plus(b, p, h), c) \in Int /\ Exposure(Plus(b, p, m), c) \in Int
      /\ Cap \in Nat
  BY PlusFits, ExposureIsInt, ExposureAssumption
<1>6. \A x \in Int : Size(x) \in Nat
  BY DEF Size
<1>7. QED
  BY <1>1, <1>3, <1>4, <1>5, <1>6

(***************************************************************************)
(* The search                                                              *)
(***************************************************************************)
Spots == Nat \X Nat \X Nat

Mid(s) == ((s[1] + s[2]) \div (2 * Step)) * Step

Halts(s) == s[1] > s[2] \/ Mid(s) < Step

Onward(b, p, n, s) ==
  IF Balanced(Plus(b, p, Sense(n) * Mid(s))) THEN <<Mid(s) + Step, s[2], Mid(s)>>
                                             ELSE <<s[1], Mid(s) - Step, s[3]>>

Searches(b, p, n, f) ==
  f = [s \in Nat \X Nat \X Nat |->
         IF s[1] > s[2] \/ ((s[1] + s[2]) \div (2 * Step)) * Step < Step THEN s[3]
         ELSE IF Balanced(Plus(b, p, Sense(n) * (((s[1] + s[2]) \div (2 * Step)) * Step)))
                THEN f[<<((s[1] + s[2]) \div (2 * Step)) * Step + Step, s[2],
                         ((s[1] + s[2]) \div (2 * Step)) * Step>>]
                ELSE f[<<s[1], ((s[1] + s[2]) \div (2 * Step)) * Step - Step, s[3]>>]]

Found(b, p, n, f) == \A s \in Spots : f[s] = IF Halts(s) THEN s[3] ELSE f[Onward(b, p, n, s)]

(* The middle of the interval, in steps.                                   *)
LEMMA Halving ==
  ASSUME NEW x \in Nat, NEW y \in Nat \ {0}
  PROVE  /\ x \div (2 * y) \in Nat
         /\ (x \div (2 * y)) * y + (x \div (2 * y)) * y <= x
         /\ x < (x \div (2 * y)) * y + (x \div (2 * y)) * y + y + y
<1> DEFINE q == x \div (2 * y)
<1>1. q \in Int /\ q * (2 * y) <= x /\ x < (q + 1) * (2 * y)
  OBVIOUS
<1> HIDE DEF q
<1>2. q * (2 * y) = q * y + q * y /\ (q + 1) * (2 * y) = q * y + q * y + y + y
  BY <1>1
<1>3. q >= 0
  <2>1. CASE q < 0
    <3>1. q + 1 <= 0
      BY <1>1, <2>1
    <3>2. (q + 1) * (2 * y) <= 0
      BY <1>1, <3>1
    <3>3. QED
      BY <1>1, <3>2
  <2>2. QED
    BY <1>1, <2>1
<1>4. QED
  BY <1>1, <1>2, <1>3 DEF q

(* The search keeps to the naturals and narrows the interval.              *)
LEMMA SearchNarrows ==
  ASSUME NEW b, NEW p, NEW n, NEW s \in Spots, ~Halts(s)
  PROVE  /\ Mid(s) \in Nat /\ Mid(s) >= Step /\ Mid(s) <= s[2] /\ s[1] < Mid(s) + Step
         /\ Onward(b, p, n, s) \in Spots
         /\ Onward(b, p, n, s)[2] - Onward(b, p, n, s)[1] < s[2] - s[1]
<1>1. s[1] \in Nat /\ s[2] \in Nat /\ s[3] \in Nat /\ Step \in Nat \ {0}
  BY ExposureAssumption DEF Spots
<1>2. s[1] + s[2] \in Nat
  BY <1>1
<1> DEFINE q == (s[1] + s[2]) \div (2 * Step)
<1>3. q \in Nat /\ q * Step + q * Step <= s[1] + s[2]
      /\ s[1] + s[2] < q * Step + q * Step + Step + Step
  BY <1>1, <1>2, Halving
<1>4. Mid(s) = q * Step
  BY DEF Mid
<1> HIDE DEF q
<1>5. q * Step \in Nat
  BY <1>1, <1>3
<1>6. s[1] <= s[2] /\ Mid(s) >= Step /\ Mid(s) \in Nat
  BY <1>1, <1>4, <1>5 DEF Halts
<1>7. Mid(s) <= s[2] /\ s[1] < Mid(s) + Step
  BY <1>1, <1>3, <1>4, <1>5, <1>6
<1>8. CASE Balanced(Plus(b, p, Sense(n) * Mid(s)))
  <2>1. Onward(b, p, n, s) = <<Mid(s) + Step, s[2], Mid(s)>>
    BY <1>8 DEF Onward
  <2>2. Mid(s) + Step \in Nat /\ s[2] - (Mid(s) + Step) < s[2] - s[1]
    BY <1>1, <1>6, <1>7
  <2>3. QED
    BY <1>1, <1>6, <1>7, <2>1, <2>2 DEF Spots
<1>9. CASE ~Balanced(Plus(b, p, Sense(n) * Mid(s)))
  <2>1. Onward(b, p, n, s) = <<s[1], Mid(s) - Step, s[3]>>
    BY <1>9 DEF Onward
  <2>2. Mid(s) - Step \in Nat /\ (Mid(s) - Step) - s[1] < s[2] - s[1]
    BY <1>1, <1>6, <1>7
  <2>3. QED
    BY <1>1, <1>6, <1>7, <2>1, <2>2 DEF Spots
<1>10. QED
  BY <1>8, <1>9

Left(s) == IF s[1] > s[2] THEN 0 ELSE s[2] - s[1] + 1

LEMMA LeftShrinks ==
  ASSUME NEW b, NEW p, NEW n, NEW s \in Spots, ~Halts(s)
  PROVE  Left(Onward(b, p, n, s)) < Left(s)
<1>1. /\ Onward(b, p, n, s) \in Spots
      /\ Onward(b, p, n, s)[2] - Onward(b, p, n, s)[1] < s[2] - s[1]
  BY SearchNarrows
<1>2. s[1] \in Nat /\ s[2] \in Nat /\ s[1] <= s[2]
  BY DEF Spots, Halts
<1>3. Onward(b, p, n, s)[1] \in Nat /\ Onward(b, p, n, s)[2] \in Nat
  BY <1>1 DEF Spots
<1>4. QED
  BY <1>1, <1>2, <1>3 DEF Left

(* The search ends: the recursive function of Downsize exists.             *)
LEMMA SearchExists ==
  ASSUME NEW b, NEW p, NEW n
  PROVE  \E f : Searches(b, p, n, f)
<1> DEFINE size == [s \in Spots |-> Left(s)]
           Ends == {s \in Spots : Halts(s)}
           first == [s \in Ends |-> s[3]]
           pred == [s \in Spots \ Ends |-> Onward(b, p, n, s)]
           move == [s \in Spots \ Ends |-> [v \in Nat |-> v]]
<1>1. size \in [Spots -> Nat]
  <2>1. \A s \in Spots : Left(s) \in Nat
    BY DEF Left, Spots
  <2>2. QED
    BY <2>1
<1>2. first \in [Ends -> Nat] /\ Ends \in SUBSET Spots /\ move \in [Spots \ Ends -> [Nat -> Nat]]
  <2>1. \A s \in Spots : s[3] \in Nat
    BY DEF Spots
  <2>2. QED
    BY <2>1
<1>3. /\ pred \in [Spots \ Ends -> Spots]
      /\ \A s \in Spots \ Ends : size[pred[s]] < size[s]
  <2>1. ASSUME NEW s \in Spots \ Ends
        PROVE  Onward(b, p, n, s) \in Spots /\ Left(Onward(b, p, n, s)) < Left(s)
    <3>1. s \in Spots /\ ~Halts(s)
      OBVIOUS
    <3>2. QED
      BY <3>1, SearchNarrows, LeftShrinks
  <2> HIDE DEF Ends
  <2>2. QED
    BY <1>2, <2>1
<1>4. PICK f : Recursive(f, Spots, Nat, Ends, first, pred, move)
  <2> HIDE DEF size, Ends, first, pred, move
  <2>1. Recurses(Spots, Nat, size, Ends, first, pred, move)
    BY <1>1, <1>2, <1>3 DEF Recurses
  <2>2. QED
    BY <2>1, RecursionExists, Zenon
<1>5. /\ f \in [Spots -> Nat]
      /\ \A s \in Spots : f[s] = IF s \in Ends THEN first[s] ELSE move[s][f[pred[s]]]
  BY <1>4 DEF Recursive
<1>6. ASSUME NEW s \in Spots
      PROVE  f[s] = IF Halts(s) THEN s[3] ELSE f[Onward(b, p, n, s)]
  <2>1. CASE Halts(s)
    <3>1. s \in Ends
      BY <1>6, <2>1
    <3> HIDE DEF Ends
    <3>2. QED
      BY <1>5, <1>6, <2>1, <3>1
  <2>2. CASE ~Halts(s)
    <3>1. s \in Spots \ Ends
      BY <1>6, <2>2
    <3>2. Onward(b, p, n, s) \in Spots
      BY <1>6, <2>2, SearchNarrows
    <3> HIDE DEF Ends
    <3>3. f[s] = move[s][f[pred[s]]]
      BY <1>5, <1>6, <3>1
    <3>4. pred[s] = Onward(b, p, n, s)
      BY <3>1
    <3>5. move[s][f[Onward(b, p, n, s)]] = f[Onward(b, p, n, s)]
      BY <1>5, <3>1, <3>2
    <3> HIDE DEF pred, move
    <3>6. QED
      BY <2>2, <3>3, <3>4, <3>5
  <2>3. QED
    BY <2>1, <2>2
<1>7. f = [s \in Spots |-> IF Halts(s) THEN s[3] ELSE f[Onward(b, p, n, s)]]
  BY <1>5, <1>6
<1>8. ASSUME NEW s \in Spots
      PROVE  (IF Halts(s) THEN s[3] ELSE f[Onward(b, p, n, s)])
           = IF s[1] > s[2] \/ ((s[1] + s[2]) \div (2 * Step)) * Step < Step THEN s[3]
             ELSE IF Balanced(Plus(b, p, Sense(n) * (((s[1] + s[2]) \div (2 * Step)) * Step)))
                    THEN f[<<((s[1] + s[2]) \div (2 * Step)) * Step + Step, s[2],
                             ((s[1] + s[2]) \div (2 * Step)) * Step>>]
                    ELSE f[<<s[1], ((s[1] + s[2]) \div (2 * Step)) * Step - Step, s[3]>>]
  BY Zenon DEF Halts, Onward, Mid
<1>9. Searches(b, p, n, f)
  BY <1>7, <1>8 DEF Searches, Spots
<1>10. QED
  BY <1>9

Opening(n) == <<Step, Size(n), 0>>

LEMMA DownsizeFinds ==
  ASSUME NEW b, NEW p, NEW n
  PROVE  \E f : /\ Found(b, p, n, f)
                /\ Downsize(b, p, n) = IF Size(n) > Step /\ f[Opening(n)] < Size(n)
                                         THEN f[Opening(n)] ELSE 0
<1> DEFINE f == CHOOSE f : Searches(b, p, n, f)
<1>1. Downsize(b, p, n) = IF Size(n) > Step /\ f[Opening(n)] < Size(n) THEN f[Opening(n)] ELSE 0
  BY Zenon DEF Downsize, Searches, Opening
<1>2. Searches(b, p, n, f)
  BY SearchExists, Zenon
<1> HIDE DEF f
<1>3. Found(b, p, n, f)
  <2>1. SUFFICES ASSUME NEW s \in Spots
                 PROVE  f[s] = IF Halts(s) THEN s[3] ELSE f[Onward(b, p, n, s)]
    BY DEF Found
  <2>2. f[s] = IF s[1] > s[2] \/ ((s[1] + s[2]) \div (2 * Step)) * Step < Step THEN s[3]
               ELSE IF Balanced(Plus(b, p, Sense(n) * (((s[1] + s[2]) \div (2 * Step)) * Step)))
                      THEN f[<<((s[1] + s[2]) \div (2 * Step)) * Step + Step, s[2],
                               ((s[1] + s[2]) \div (2 * Step)) * Step>>]
                      ELSE f[<<s[1], ((s[1] + s[2]) \div (2 * Step)) * Step - Step, s[3]>>]
    BY <1>2, <2>1, Zenon DEF Searches, Spots
  <2>3. QED
    BY <2>2, Zenon DEF Halts, Onward, Mid
<1>4. QED
  BY <1>1, <1>3

(* What holds where the search halts, and of a spot if it holds of the     *)
(* next one, holds of every spot.                                          *)
LEMMA SearchReaches ==
  ASSUME NEW b, NEW p, NEW n, NEW X \in SUBSET Spots,
         \A s \in Spots : Halts(s) \/ Onward(b, p, n, s) \in X => s \in X
  PROVE  X = Spots
<1> DEFINE Counts == {Left(s) : s \in Spots \ X}
<1>1. SUFFICES ASSUME Spots \ X # {} PROVE FALSE
  OBVIOUS
<1>2. Counts \in SUBSET Nat /\ Counts # {}
  <2>1. \A s \in Spots : Left(s) \in Nat
    BY DEF Left, Spots
  <2>2. QED
    BY <1>1, <2>1
<1>3. PICK least \in Counts : \A other \in Counts : least <= other
  BY <1>2, LeastNumber
<1>4. PICK s \in Spots \ X : least = Left(s)
  BY <1>3
<1>5. ~Halts(s) /\ Onward(b, p, n, s) \notin X
  BY <1>4
<1>6. Onward(b, p, n, s) \in Spots /\ Left(Onward(b, p, n, s)) < Left(s)
  BY <1>4, <1>5, SearchNarrows, LeftShrinks
<1>7. Left(Onward(b, p, n, s)) \in Counts
  BY <1>5, <1>6
<1>8. least \in Nat /\ Left(Onward(b, p, n, s)) \in Nat
  BY <1>2, <1>3, <1>7
<1> HIDE DEF Counts
<1>9. QED
  BY <1>3, <1>4, <1>6, <1>7, <1>8

(* Whatever the search finds keeps the cap.                                *)
LEMMA SearchIsSound ==
  ASSUME NEW b, NEW p, NEW n, NEW f, Found(b, p, n, f), NEW s \in Spots
  PROVE  f[s] = s[3] \/ (/\ f[s] \in Nat /\ f[s] >= Step
                         /\ Balanced(Plus(b, p, Sense(n) * f[s])))
<1> DEFINE X == {u \in Spots : f[u] = u[3] \/ (/\ f[u] \in Nat /\ f[u] >= Step
                                               /\ Balanced(Plus(b, p, Sense(n) * f[u])))}
<1>1. ASSUME NEW u \in Spots, Halts(u) PROVE u \in X
  BY <1>1 DEF Found
<1>2. ASSUME NEW u \in Spots, ~Halts(u), Onward(b, p, n, u) \in X PROVE u \in X
  <2>1. f[u] = f[Onward(b, p, n, u)]
    BY <1>2 DEF Found
  <2>2. CASE f[Onward(b, p, n, u)] # Onward(b, p, n, u)[3]
    BY <1>2, <2>1, <2>2
  <2>3. CASE /\ f[Onward(b, p, n, u)] = Onward(b, p, n, u)[3]
             /\ Balanced(Plus(b, p, Sense(n) * Mid(u)))
    <3>1. Onward(b, p, n, u)[3] = Mid(u)
      BY <2>3 DEF Onward
    <3>2. Mid(u) \in Nat /\ Mid(u) >= Step
      BY <1>2, SearchNarrows
    <3>3. f[u] = Mid(u)
      BY <2>1, <2>3, <3>1
    <3>4. QED
      BY <1>2, <2>3, <3>2, <3>3
  <2>4. CASE /\ f[Onward(b, p, n, u)] = Onward(b, p, n, u)[3]
             /\ ~Balanced(Plus(b, p, Sense(n) * Mid(u)))
    <3>1. Onward(b, p, n, u)[3] = u[3]
      BY <2>4 DEF Onward
    <3>2. QED
      BY <1>2, <2>1, <2>4, <3>1
  <2>5. QED
    BY <2>2, <2>3, <2>4
<1>3. X = Spots
  <2> HIDE DEF X
  <2>1. X \in SUBSET Spots
    BY DEF X
  <2>2. \A u \in Spots : Halts(u) \/ Onward(b, p, n, u) \in X => u \in X
    BY <1>1, <1>2
  <2>3. QED
    BY <2>1, <2>2, SearchReaches
<1>4. s \in X
  BY <1>3
<1>5. QED
  BY <1>4

(* A number of steps that fits, within the order.                          *)
Right(b, p, n, k) == k * Step <= Size(n) /\ Balanced(Plus(b, p, Sense(n) * (k * Step)))

(* All that fits below the interval is known, nothing above it fits.       *)
Bracket(b, p, n, s) ==
  /\ s[2] <= Size(n)
  /\ \E a \in Nat \ {0} : /\ s[1] = a * Step /\ s[3] = (a - 1) * Step
                          /\ a = 1 \/ Right(b, p, n, a - 1)
  /\ \A k \in Nat : Right(b, p, n, k) => k * Step <= s[2]

Answer(b, p, n, r) ==
  \E a \in Nat : /\ r = a * Step /\ (a = 0 \/ Right(b, p, n, a))
                 /\ \A k \in Nat : Right(b, p, n, k) => k <= a

LEMMA StepsOrder ==
  ASSUME NEW k \in Int, NEW m \in Int
  PROVE  /\ k * Step \in Int /\ (k + 1) * Step = k * Step + Step /\ (k - 1) * Step = k * Step - Step
         /\ k <= m => k * Step <= m * Step
         /\ k * Step < m * Step => k < m
<1>1. Step \in Nat \ {0}
  BY ExposureAssumption
<1>2. k * Step \in Int /\ m * Step \in Int
  BY <1>1
<1>3. (k + 1) * Step = k * Step + Step /\ (k - 1) * Step = k * Step - Step
  BY <1>1
<1>4. k <= m => k * Step <= m * Step
  BY <1>1
<1>5. m <= k => m * Step <= k * Step
  BY <1>1
<1>6. QED
  BY <1>2, <1>3, <1>4, <1>5

LEMMA SizeFits ==
  ASSUME NEW n \in Int
  PROVE  /\ Size(n) \in Nat /\ Sense(n) \in {-1, 1} /\ Sense(n) * Size(n) = n
         /\ (n # 0 => Size(n) > 0)
BY DEF Size, Sense

LEMMA RightBelow ==
  ASSUME NEW b \in Books, Balanced(b), NEW p \in Pairs, NEW n \in Int,
         NEW k \in Nat, NEW q \in Nat, q <= k, Right(b, p, n, k)
  PROVE  Right(b, p, n, q)
<1>1. q * Step <= k * Step /\ q * Step \in Int /\ k * Step \in Int
  <2>1. q \in Int /\ k \in Int
    OBVIOUS
  <2>2. QED
    BY <2>1, StepsOrder
<1>2. Size(n) \in Nat /\ Sense(n) \in {-1, 1}
  BY SizeFits
<1>3. k * Step <= Size(n) /\ Balanced(Plus(b, p, Sense(n) * (k * Step)))
  BY DEF Right
<1>4. q * Step >= 0
  BY ExposureAssumption
<1> DEFINE h == Sense(n) * (q * Step)
           m == Sense(n) * (k * Step)
<1>5. h \in Int /\ m \in Int /\ ((0 <= h /\ h <= m) \/ (m <= h /\ h <= 0))
  <2>1. CASE Sense(n) = 1
    BY <1>1, <1>4, <2>1
  <2>2. CASE Sense(n) = -1
    BY <1>1, <1>4, <2>2
  <2>3. QED
    BY <1>2, <2>1, <2>2
<1>6. Balanced(Plus(b, p, m))
  BY <1>3
<1> HIDE DEF h, m
<1>7. Balanced(Plus(b, p, h))
  BY <1>5, <1>6, BalancedBetween
<1>8. QED
  BY <1>1, <1>2, <1>3, <1>7 DEF Right, h

LEMMA SearchIsOptimal ==
  ASSUME NEW b \in Books, Balanced(b), NEW p \in Pairs, NEW n \in Int,
         NEW f, Found(b, p, n, f), NEW s \in Spots, Bracket(b, p, n, s)
  PROVE  Answer(b, p, n, f[s])
<1> DEFINE X == {u \in Spots : Bracket(b, p, n, u) => Answer(b, p, n, f[u])}
<1>1. Step \in Nat \ {0} /\ Size(n) \in Nat
  BY ExposureAssumption, SizeFits
<1>2. ASSUME NEW u \in Spots, Halts(u), Bracket(b, p, n, u) PROVE Answer(b, p, n, f[u])
  <2>1. PICK a \in Nat \ {0} : /\ u[1] = a * Step /\ u[3] = (a - 1) * Step
                               /\ a = 1 \/ Right(b, p, n, a - 1)
    BY <1>2 DEF Bracket
  <2>2. f[u] = (a - 1) * Step
    BY <1>2, <2>1 DEF Found
  <2>3. u[1] > u[2]
    <3>1. SUFFICES ASSUME u[1] <= u[2] PROVE Mid(u) >= Step
      BY <1>1, <1>2 DEF Halts, Spots, Mid
    <3> DEFINE q == (u[1] + u[2]) \div (2 * Step)
    <3>2. u[1] \in Nat /\ u[2] \in Nat /\ u[1] + u[2] \in Nat
      BY <1>2 DEF Spots
    <3>3. q \in Nat /\ u[1] + u[2] < q * Step + q * Step + Step + Step
      BY <1>1, <3>2, Halving
    <3>4. Mid(u) = q * Step
      BY DEF Mid
    <3> HIDE DEF q
    <3>5. u[1] >= Step
      BY <1>1, <2>1
    <3>6. q * Step \in Int /\ q * Step > 0
      BY <1>1, <3>1, <3>2, <3>3, <3>5
    <3>7. q # 0
      BY <1>1, <3>6
    <3>8. q * Step >= 1 * Step
      BY <3>3, <3>7, StepsOrder
    <3>9. QED
      BY <1>1, <3>4, <3>8
  <2>4. ASSUME NEW k \in Nat, Right(b, p, n, k) PROVE k <= a - 1
    <3>1. k * Step <= u[2] /\ u[2] < a * Step /\ u[2] \in Nat
      BY <1>2, <2>1, <2>3, <2>4 DEF Bracket, Spots
    <3>2. k * Step \in Int /\ a * Step \in Int
      BY <1>1
    <3>3. k * Step < a * Step
      BY <3>1, <3>2
    <3>4. k < a
      BY <3>3, StepsOrder
    <3>5. QED
      BY <3>4
  <2>5. a - 1 \in Nat /\ (a - 1 = 0 \/ Right(b, p, n, a - 1))
    BY <2>1
  <2>6. QED
    BY <2>2, <2>4, <2>5 DEF Answer
<1>3. ASSUME NEW u \in Spots, ~Halts(u), Bracket(b, p, n, u)
      PROVE  Bracket(b, p, n, Onward(b, p, n, u))
  <2> DEFINE q == (u[1] + u[2]) \div (2 * Step)
             o == Onward(b, p, n, u)
  <2>1. u[1] \in Nat /\ u[2] \in Nat /\ u[1] + u[2] \in Nat
    BY <1>3 DEF Spots
  <2>2. q \in Nat /\ Mid(u) = q * Step
    BY <1>1, <2>1, Halving DEF Mid
  <2>3. Mid(u) \in Nat /\ Mid(u) >= Step /\ Mid(u) <= u[2]
    BY <1>3, SearchNarrows
  <2> HIDE DEF q
  <2>4. q # 0
    BY <1>1, <2>2, <2>3
  <2>5. /\ u[2] <= Size(n)
        /\ \A k \in Nat : Right(b, p, n, k) => k * Step <= u[2]
    BY <1>3 DEF Bracket
  <2>6. Mid(u) <= Size(n)
    BY <1>1, <2>1, <2>3, <2>5
  <2>7. CASE Balanced(Plus(b, p, Sense(n) * Mid(u)))
    <3>1. o[1] = Mid(u) + Step /\ o[2] = u[2] /\ o[3] = Mid(u)
      BY <2>7 DEF Onward
    <3>2. (q + 1) * Step = q * Step + Step /\ (q + 1) - 1 = q /\ q + 1 \in Nat \ {0}
      BY <2>2, StepsOrder
    <3>3. Right(b, p, n, q)
      BY <2>2, <2>6, <2>7 DEF Right
    <3> HIDE DEF o
    <3>4. o[1] = (q + 1) * Step /\ o[3] = ((q + 1) - 1) * Step /\ Right(b, p, n, (q + 1) - 1)
      BY <2>2, <3>1, <3>2, <3>3
    <3>5. \E a \in Nat \ {0} : /\ o[1] = a * Step /\ o[3] = (a - 1) * Step
                               /\ a = 1 \/ Right(b, p, n, a - 1)
      BY <3>2, <3>4, Zenon
    <3>6. Bracket(b, p, n, o)
      BY <2>5, <3>1, <3>5 DEF Bracket
    <3>7. QED
      BY <3>6 DEF o
  <2>8. CASE ~Balanced(Plus(b, p, Sense(n) * Mid(u)))
    <3>1. o[1] = u[1] /\ o[2] = Mid(u) - Step /\ o[3] = u[3]
      BY <2>8 DEF Onward
    <3>2. ~Right(b, p, n, q)
      BY <2>2, <2>8 DEF Right
    <3>3. ASSUME NEW k \in Nat, Right(b, p, n, k) PROVE k * Step <= o[2]
      <4>1. ~(q <= k)
        BY <2>2, <3>2, <3>3, RightBelow
      <4>2. k <= q - 1
        BY <2>2, <4>1
      <4>3. k * Step <= (q - 1) * Step /\ (q - 1) * Step = q * Step - Step
        BY <2>2, <4>2, StepsOrder
      <4>4. QED
        BY <2>2, <3>1, <4>3
    <3>4. o[2] <= Size(n)
      BY <1>1, <2>3, <2>6, <3>1
    <3>5. \E a \in Nat \ {0} : /\ u[1] = a * Step /\ u[3] = (a - 1) * Step
                               /\ a = 1 \/ Right(b, p, n, a - 1)
      BY <1>3 DEF Bracket
    <3> HIDE DEF o
    <3>6. Bracket(b, p, n, o)
      BY <3>1, <3>3, <3>4, <3>5 DEF Bracket
    <3>7. QED
      BY <3>6 DEF o
  <2>9. QED
    BY <2>7, <2>8
<1>4. X = Spots
  <2>1. ASSUME NEW u \in Spots, Halts(u) \/ Onward(b, p, n, u) \in X PROVE u \in X
    <3>1. CASE Halts(u)
      BY <1>2, <2>1, <3>1
    <3>2. CASE ~Halts(u)
      <4>1. f[u] = f[Onward(b, p, n, u)]
        BY <2>1, <3>2 DEF Found
      <4>2. Bracket(b, p, n, u) => Answer(b, p, n, f[Onward(b, p, n, u)])
        BY <1>3, <2>1, <3>2
      <4>3. QED
        BY <2>1, <4>1, <4>2
    <3>3. QED
      BY <3>1, <3>2
  <2>2. X \in SUBSET Spots
    OBVIOUS
  <2> HIDE DEF X
  <2>3. QED
    BY <2>1, <2>2, SearchReaches
<1>5. QED
  BY <1>4

(* What an order may be downsized to.                                      *)
LEMMA DownsizeKeepsCap ==
  ASSUME NEW b, NEW p, NEW n \in Int, Downsize(b, p, n) # 0
  PROVE  /\ Downsize(b, p, n) \in Nat \ {0} /\ Downsize(b, p, n) < Size(n)
         /\ Balanced(Plus(b, p, Sense(n) * Downsize(b, p, n)))
<1>1. PICK f : /\ Found(b, p, n, f)
               /\ Downsize(b, p, n) = IF Size(n) > Step /\ f[Opening(n)] < Size(n)
                                        THEN f[Opening(n)] ELSE 0
  BY DownsizeFinds
<1>2. Opening(n) \in Spots /\ Opening(n)[3] = 0
  BY ExposureAssumption, SizeFits DEF Opening, Spots
<1>3. Downsize(b, p, n) = f[Opening(n)] /\ f[Opening(n)] < Size(n)
  BY <1>1
<1>4. f[Opening(n)] = 0 \/ (/\ f[Opening(n)] \in Nat /\ f[Opening(n)] >= Step
                          /\ Balanced(Plus(b, p, Sense(n) * f[Opening(n)])))
  BY <1>1, <1>2, SearchIsSound
<1>5. QED
  BY <1>3, <1>4

(* The steps that fit into a size.                                         *)
LEMMA DividedBy ==
  ASSUME NEW x \in Nat, NEW k \in Int
  PROVE  k <= x \div Step <=> k * Step <= x
<1> DEFINE q == x \div Step
<1>1. Step \in Nat \ {0}
  BY ExposureAssumption
<1>2. q \in Int /\ q * Step <= x /\ x < (q + 1) * Step
  BY <1>1
<1> HIDE DEF q
<1>3. k <= q => k * Step <= q * Step
  BY <1>2, StepsOrder
<1>4. k >= q + 1 => (q + 1) * Step <= k * Step
  <2>1. q + 1 \in Int
    BY <1>2
  <2>2. QED
    BY <2>1, StepsOrder
<1>5. k * Step \in Int /\ q * Step \in Int /\ (q + 1) * Step \in Int
  BY <1>1, <1>2
<1>6. k <= q <=> k * Step <= x
  BY <1>2, <1>3, <1>4, <1>5
<1>7. QED
  BY <1>6 DEF q

(* From a book within the cap the search finds the largest size.           *)
LEMMA DownsizeIsExact ==
  ASSUME NEW b \in Books, Balanced(b), NEW p \in Pairs, NEW size \in Sizes, NEW sense \in {-1, 1},
         BreachedBy(b, p, sense * size) # {}
  PROVE  Downsize(b, p, sense * size) =
           Max({0} \cup {m \in {k * Step : k \in 1..(size \div Step)} :
                           Balanced(Plus(b, p, sense * m))})
<1> DEFINE n == sense * size
           fitting == {m \in {k * Step : k \in 1..(size \div Step)} : Balanced(Plus(b, p, sense * m))}
<1>1. /\ Step \in Nat \ {0} /\ size \in Nat \ {0} /\ n \in Int
      /\ Size(n) = size /\ Sense(n) = sense
  BY ExposureAssumption DEF Size, Sense
<1>2. PICK f : /\ Found(b, p, n, f)
               /\ Downsize(b, p, n) = IF Size(n) > Step /\ f[Opening(n)] < Size(n)
                                        THEN f[Opening(n)] ELSE 0
  BY DownsizeFinds
<1> HIDE DEF n
<1>3. Opening(n) \in Spots
  BY <1>1 DEF Opening, Spots
<1>4. Bracket(b, p, n, Opening(n))
  <2>1. Opening(n)[1] = 1 * Step /\ Opening(n)[2] = Size(n) /\ Opening(n)[3] = (1 - 1) * Step
    BY <1>1 DEF Opening
  <2>2. \A k \in Nat : Right(b, p, n, k) => k * Step <= Size(n)
    BY DEF Right
  <2>3. \E a \in Nat \ {0} : /\ Opening(n)[1] = a * Step /\ Opening(n)[3] = (a - 1) * Step
                             /\ a = 1 \/ Right(b, p, n, a - 1)
    BY <2>1
  <2>4. QED
    BY <1>1, <2>1, <2>2, <2>3 DEF Bracket
<1>5. PICK a \in Nat : /\ f[Opening(n)] = a * Step /\ (a = 0 \/ Right(b, p, n, a))
                       /\ \A k \in Nat : Right(b, p, n, k) => k <= a
  BY <1>1, <1>2, <1>3, <1>4, SearchIsOptimal DEF Answer
(* What fits are the steps that are right.                                 *)
<1>6. fitting = {k * Step : k \in {k \in Nat \ {0} : Right(b, p, n, k)}}
  <2>1. ASSUME NEW k \in Nat \ {0} PROVE k \in 1..(size \div Step) <=> k * Step <= size
    <3>1. size \div Step \in Int
      BY <1>1
    <3>2. k <= size \div Step <=> k * Step <= size
      BY <1>1, DividedBy
    <3>3. QED
      BY <3>1, <3>2
  <2>2. \A k \in 1..(size \div Step) : k \in Nat \ {0}
    BY <1>1
  <2>3. ASSUME NEW k \in Nat \ {0}
        PROVE  k * Step \in fitting <=> Right(b, p, n, k)
    <3>1. k * Step \in fitting => \E i \in 1..(size \div Step) : i * Step = k * Step
      BY Zenon
    <3>2. \A i \in 1..(size \div Step) : i * Step = k * Step => i = k
      <4>1. ASSUME NEW i \in 1..(size \div Step), i * Step = k * Step PROVE i = k
        BY <1>1, <2>2, <4>1
      <4>2. QED
        BY <4>1
    <3>3. k * Step \in fitting <=>
            k \in 1..(size \div Step) /\ Balanced(Plus(b, p, sense * (k * Step)))
      BY <3>1, <3>2
    <3> HIDE DEF fitting
    <3>4. QED
      BY <1>1, <2>1, <3>3 DEF Right
  <2>4. \A m \in fitting : \E k \in Nat \ {0} : m = k * Step
    BY <2>2
  <2> HIDE DEF fitting
  <2>5. QED
    BY <2>3, <2>4
<1> DEFINE best == f[Opening(n)]
           all == {0} \cup fitting
<1>7. best \in all /\ \A m \in all : m \in Nat /\ m <= best
  <2>1. best \in all
    BY <1>1, <1>5, <1>6
  <2>2. ASSUME NEW m \in all PROVE m \in Nat /\ m <= best
    <3>1. CASE m = 0
      BY <1>1, <1>5, <3>1
    <3>2. CASE m \in fitting
      <4>1. PICK k \in Nat \ {0} : Right(b, p, n, k) /\ m = k * Step
        BY <1>6, <3>2
      <4>2. k <= a
        BY <1>5, <4>1
      <4>3. k * Step <= a * Step
        BY <4>1, <4>2, StepsOrder
      <4>4. QED
        BY <1>1, <1>5, <4>1, <4>3
    <3>3. QED
      BY <2>2, <3>1, <3>2
  <2>3. QED
    BY <2>1, <2>2
<1>8. Max(all) = best
  <2> HIDE DEF best, all
  <2>1. best \in all /\ \A m \in all : best >= m
    BY <1>7
  <2>2. Max(all) \in all /\ \A m \in all : Max(all) >= m
    BY <2>1, Zenon DEF Max
  <2>3. QED
    BY <1>7, <2>1, <2>2
(* The size asked for is not right, so that the best is smaller.           *)
<1>9. ~Balanced(Plus(b, p, n))
  <2>1. PICK c \in Currencies : Size(Exposure(Plus(b, p, n), c)) > Cap
    BY DEF BreachedBy, n
  <2>2. Exposure(Plus(b, p, n), c) \in Int /\ Cap \in Nat
    BY <1>1, PlusFits, ExposureIsInt, ExposureAssumption
  <2>3. QED
    BY <2>1, <2>2 DEF Balanced, Size
<1>10. ~Right(b, p, n, a) \/ best < size
  <2>1. ASSUME Right(b, p, n, a), best = size PROVE FALSE
    <3>1. Balanced(Plus(b, p, Sense(n) * size))
      BY <1>5, <2>1 DEF Right
    <3>2. Sense(n) * size = n
      BY <1>1, SizeFits
    <3>3. QED
      BY <1>9, <3>1, <3>2
  <2>2. Right(b, p, n, a) => best <= size /\ best \in Int
    BY <1>1, <1>5 DEF Right
  <2>3. QED
    BY <1>1, <2>1, <2>2
<1>11. CASE Size(n) > Step
  <2>1. best < size
    BY <1>1, <1>5, <1>10
  <2>2. Downsize(b, p, n) = best
    BY <1>1, <1>2, <1>11, <2>1
  <2>3. QED
    BY <1>8, <2>2 DEF n
<1>12. CASE ~(Size(n) > Step)
  <2>1. best = 0
    <3>1. SUFFICES ASSUME a # 0 PROVE FALSE
      BY <1>1, <1>5
    <3>2. Right(b, p, n, a) /\ a * Step <= size
      BY <1>1, <1>5, <3>1 DEF Right
    <3>3. 1 * Step <= a * Step
      BY <3>1, StepsOrder
    <3>4. best < size /\ a * Step \in Int
      BY <1>1, <1>10, <3>2
    <3>5. QED
      BY <1>1, <1>5, <1>12, <3>3, <3>4
  <2>2. QED
    BY <1>2, <1>8, <1>12, <2>1 DEF n
<1>13. QED
  BY <1>11, <1>12

(***************************************************************************)
(* Lists of orders                                                         *)
(***************************************************************************)
Orders == Seq(Pairs \X Int)

Share(t, p) == IF t[1] = p THEN t[2] ELSE 0

Walk(w, from, list, to, p) ==
  /\ w \in [0..Len(list) -> Int] /\ w[0] = from /\ w[Len(list)] = to
  /\ \A k \in 1..Len(list) : w[k] = w[k - 1] + Share(list[k], p)

(* The orders of a list bring a pair from one number of units to another.  *)
Leads(from, list, to, p) == \E w : Walk(w, from, list, to, p)

(* Orders of other pairs leave a pair where it is.                         *)
LEMMA LeadsNowhere ==
  ASSUME NEW from \in Int, NEW list \in Orders, NEW p,
         \A k \in DOMAIN list : list[k][1] # p
  PROVE  /\ Leads(from, list, from, p)
         /\ \A to : Leads(from, list, to, p) => to = from
<1>1. Len(list) \in Nat /\ DOMAIN list = 1..Len(list)
  BY DEF Orders
<1>2. \A k \in 1..Len(list) : Share(list[k], p) = 0
  BY <1>1 DEF Share
<1>3. Leads(from, list, from, p)
  <2> DEFINE w == [k \in 0..Len(list) |-> from]
  <2>1. Walk(w, from, list, from, p)
    BY <1>1, <1>2 DEF Walk
  <2>2. QED
    BY <2>1 DEF Leads
<1>4. ASSUME NEW to, NEW w, Walk(w, from, list, to, p) PROVE to = from
  <2> DEFINE Off == {k \in 0..Len(list) : w[k] # from}
  <2>1. SUFFICES ASSUME Off # {} PROVE FALSE
    <3>1. Len(list) \in 0..Len(list) /\ w[Len(list)] = to
      BY <1>1, <1>4 DEF Walk
    <3>2. QED
      BY <3>1
  <2>2. Off \in SUBSET Nat
    OBVIOUS
  <2>3. PICK k \in Off : \A other \in Off : k <= other
    BY <2>1, <2>2, LeastNumber
  <2>4. k # 0 /\ k \in 0..Len(list)
    BY <1>4, <2>3 DEF Walk
  <2>5. k \in 1..Len(list) /\ k - 1 \in 0..Len(list)
    BY <1>1, <2>4
  <2>6. w[k] = w[k - 1] + 0 /\ w[k - 1] \in Int
    BY <1>2, <1>4, <2>5 DEF Walk
  <2>7. k - 1 \in Off
    BY <2>3, <2>5, <2>6
  <2> HIDE DEF Off
  <2>8. QED
    BY <2>3, <2>5, <2>7
<1>5. QED
  BY <1>3, <1>4 DEF Leads

(* One more order leads on from where the list led.                        *)
LEMMA LeadsOn ==
  ASSUME NEW from, NEW list \in Orders, NEW to, NEW p, Leads(from, list, to, p),
         NEW t \in Pairs \X Int
  PROVE  to \in Int /\ Leads(from, Append(list, t), to + Share(t, p), p)
<1>1. PICK w : Walk(w, from, list, to, p)
  BY DEF Leads
<1>2. Len(list) \in Nat /\ list \in Seq(Pairs \X Int)
  BY DEF Orders
<1>3. to \in Int /\ Share(t, p) \in Int /\ to + Share(t, p) \in Int
  <2>1. w \in [0..Len(list) -> Int] /\ w[Len(list)] = to
    BY <1>1 DEF Walk
  <2>2. Len(list) \in 0..Len(list)
    BY <1>2
  <2>3. to \in Int
    BY <2>1, <2>2
  <2>4. Share(t, p) \in Int
    BY DEF Share
  <2>5. QED
    BY <2>3, <2>4
<1> DEFINE longer == Append(list, t)
           v == [k \in 0..Len(list) + 1 |-> IF k <= Len(list) THEN w[k] ELSE to + Share(t, p)]
<1>4. /\ Len(longer) = Len(list) + 1 /\ longer[Len(list) + 1] = t
      /\ \A k \in 1..Len(list) : longer[k] = list[k]
  BY <1>2
<1> HIDE DEF longer
<1>5. v \in [0..Len(longer) -> Int] /\ v[0] = from /\ v[Len(longer)] = to + Share(t, p)
  BY <1>1, <1>2, <1>3, <1>4 DEF Walk
<1>6. ASSUME NEW k \in 1..Len(longer) PROVE v[k] = v[k - 1] + Share(longer[k], p)
  <2>1. CASE k <= Len(list)
    <3>1. k \in 1..Len(list) /\ k - 1 \in 0..Len(list) /\ k \in 0..Len(list) + 1
          /\ k - 1 \in 0..Len(list) + 1
      BY <1>2, <1>4, <1>6, <2>1
    <3>2. v[k] = w[k] /\ v[k - 1] = w[k - 1]
      BY <1>2, <3>1
    <3>3. QED
      BY <1>1, <1>4, <3>1, <3>2 DEF Walk
  <2>2. CASE ~(k <= Len(list))
    <3>1. k = Len(list) + 1 /\ k - 1 = Len(list)
      BY <1>2, <1>4, <1>6, <2>2
    <3>2. v[k] = to + Share(t, p) /\ v[k - 1] = to
      BY <1>1, <1>2, <3>1 DEF Walk
    <3>3. QED
      BY <1>4, <3>1, <3>2
  <2>3. QED
    BY <2>1, <2>2
<1>7. Walk(v, from, longer, to + Share(t, p), p)
  BY <1>5, <1>6 DEF Walk
<1>8. QED
  BY <1>3, <1>7 DEF Leads, longer

(* The first order taken, the rest leads from where it led.                *)
LEMMA LeadsAfterFirst ==
  ASSUME NEW from \in Int, NEW list \in Orders, list # <<>>, NEW to, NEW p,
         Leads(from, list, to, p)
  PROVE  Leads(from + Share(list[1], p), Tail(list), to, p)
<1>1. PICK w : Walk(w, from, list, to, p)
  BY DEF Leads
<1>2. /\ Len(list) \in Nat /\ Len(list) >= 1 /\ Len(Tail(list)) = Len(list) - 1
      /\ \A k \in 1..Len(Tail(list)) : Tail(list)[k] = list[k + 1]
  BY DEF Orders
<1> DEFINE v == [k \in 0..Len(list) - 1 |-> w[k + 1]]
<1>3. /\ v \in [0..Len(Tail(list)) -> Int] /\ v[Len(Tail(list))] = to
      /\ v[0] = from + Share(list[1], p)
  <2>1. w[1] = w[1 - 1] + Share(list[1], p) /\ w[0] = from
    BY <1>1, <1>2 DEF Walk
  <2>2. \A k \in 0..Len(list) - 1 : k + 1 \in 0..Len(list)
    BY <1>2
  <2>3. v \in [0..Len(list) - 1 -> Int] /\ v[0] = w[1] /\ v[Len(list) - 1] = w[Len(list)]
    BY <1>1, <1>2, <2>2 DEF Walk
  <2> HIDE DEF v
  <2>4. QED
    BY <1>1, <1>2, <2>1, <2>3 DEF Walk
<1>4. ASSUME NEW k \in 1..Len(Tail(list)) PROVE v[k] = v[k - 1] + Share(Tail(list)[k], p)
  <2>1. k + 1 \in 1..Len(list) /\ k \in 0..Len(list) - 1 /\ k - 1 \in 0..Len(list) - 1
    BY <1>2, <1>4
  <2>2. v[k] = w[k + 1] /\ v[k - 1] = w[k]
    BY <2>1
  <2>3. w[k + 1] = w[(k + 1) - 1] + Share(list[k + 1], p)
    BY <1>1, <2>1 DEF Walk
  <2>4. QED
    BY <1>2, <1>4, <2>1, <2>2, <2>3
<1> HIDE DEF v
<1>5. Walk(v, from + Share(list[1], p), Tail(list), to, p)
  BY <1>3, <1>4 DEF Walk
<1>6. QED
  BY <1>5 DEF Leads

(***************************************************************************)
(* The allocator                                                           *)
(***************************************************************************)
Plans == [book: Books, intents: Orders]

(* The orders of a plan lead to its book.                                  *)
Planned(b, plan) ==
  plan \in Plans /\ \A p \in Pairs : Leads(b[p], plan.intents, plan.book[p], p)

(* A target taken in keeps the plan's orders in line with its book.        *)
LEMMA TowardPlans ==
  ASSUME NEW plan \in Plans, NEW t \in Pairs \X Int
  PROVE  /\ Toward(plan, t) \in Plans
         /\ \A b : Planned(b, plan) => Planned(b, Toward(plan, t))
<1> DEFINE n == t[2] - plan.book[t[1]]
           more == [book |-> Plus(plan.book, t[1], n), intents |-> Append(plan.intents, <<t[1], n>>)]
<1>1. Toward(plan, t) = plan \/ Toward(plan, t) = more
  BY DEF Toward
<1>2. /\ plan.book \in Books /\ plan.intents \in Orders
      /\ t[1] \in Pairs /\ t[2] \in Int /\ n \in Int /\ <<t[1], n>> \in Pairs \X Int
  BY DEF Plans, Books
<1> HIDE DEF n
<1>3. /\ Plus(plan.book, t[1], n) \in Books
      /\ Plus(plan.book, t[1], n)[t[1]] = plan.book[t[1]] + n
      /\ \A q \in Pairs \ {t[1]} : Plus(plan.book, t[1], n)[q] = plan.book[q]
  BY <1>2, PlusFits
<1>4. more \in Plans
  BY <1>2, <1>3 DEF Plans, Orders
<1>5. ASSUME NEW b, Planned(b, plan) PROVE Planned(b, more)
  <2>1. ASSUME NEW p \in Pairs PROVE Leads(b[p], more.intents, more.book[p], p)
    <3>1. Leads(b[p], plan.intents, plan.book[p], p)
      BY <1>5, <2>1 DEF Planned
    <3>2. Leads(b[p], Append(plan.intents, <<t[1], n>>), plan.book[p] + Share(<<t[1], n>>, p), p)
      BY <1>2, <3>1, LeadsOn
    <3>3. plan.book[p] + Share(<<t[1], n>>, p) = Plus(plan.book, t[1], n)[p]
      BY <1>2, <1>3, <2>1 DEF Share, Books
    <3>4. QED
      BY <3>2, <3>3
  <2>2. QED
    BY <1>4, <2>1 DEF Planned
<1> HIDE DEF more
<1>6. QED
  BY <1>1, <1>4, <1>5

Folds(b, targets, it) ==
  it = [s \in SUBSET DOMAIN targets |->
          IF s = {} THEN [book |-> b, intents |-> <<>>]
                    ELSE Toward(it[s \ {Max(s)}], targets[Max(s)])]

LEMMA LastTarget ==
  ASSUME NEW targets \in Orders, NEW s \in SUBSET DOMAIN targets, s # {}
  PROVE  /\ Max(s) \in s /\ targets[Max(s)] \in Pairs \X Int /\ s \ {Max(s)} \in SUBSET DOMAIN targets
         /\ Cardinality(s) \in Nat /\ Cardinality(s \ {Max(s)}) \in Nat
         /\ Cardinality(s \ {Max(s)}) < Cardinality(s)
<1>1. Len(targets) \in Nat /\ DOMAIN targets = 1..Len(targets) /\ s \in SUBSET (0..Len(targets))
  BY DEF Orders
<1>2. Max(s) \in s
  BY <1>1, GreatestIsMax
<1>3. targets[Max(s)] \in Pairs \X Int
  BY <1>2 DEF Orders
<1>4. IsFiniteSet(s)
  <2>1. 0 \in Int /\ Len(targets) \in Int
    BY <1>1
  <2>2. IsFiniteSet(0..Len(targets))
    BY <2>1, FS_Interval
  <2>3. QED
    BY <1>1, <2>2, FS_Subset
<1>5. /\ Cardinality(s) \in Nat /\ IsFiniteSet(s \ {Max(s)})
      /\ Cardinality(s \ {Max(s)}) = Cardinality(s) - 1
  BY <1>2, <1>4, FS_CardinalityType, FS_RemoveElement
<1>6. QED
  BY <1>2, <1>3, <1>5, FS_CardinalityType

(* The fold over a list of targets exists.                                 *)
LEMMA FoldsExist ==
  ASSUME NEW b \in Books, NEW targets \in Orders
  PROVE  \E it : Folds(b, targets, it)
<1> DEFINE D == SUBSET DOMAIN targets
           size == [s \in D |-> Cardinality(s)]
           Ends == {{}}
           first == [s \in Ends |-> [book |-> b, intents |-> <<>>]]
           pred == [s \in D \ Ends |-> s \ {Max(s)}]
           move == [s \in D \ Ends |-> [v \in Plans |-> Toward(v, targets[Max(s)])]]
<1>1. size \in [D -> Nat]
  <2>1. \A s \in D : s # {} => Cardinality(s) \in Nat
    BY LastTarget
  <2>2. Cardinality({}) \in Nat
    BY FS_EmptySet
  <2>3. QED
    BY <2>1, <2>2
<1>2. first \in [Ends -> Plans] /\ Ends \in SUBSET D
  BY DEF Plans, Orders
<1>3. /\ pred \in [D \ Ends -> D]
      /\ \A s \in D \ Ends : size[pred[s]] < size[s]
  BY LastTarget
<1>4. move \in [D \ Ends -> [Plans -> Plans]]
  <2>1. ASSUME NEW s \in D \ Ends, NEW v \in Plans PROVE Toward(v, targets[Max(s)]) \in Plans
    <3>1. targets[Max(s)] \in Pairs \X Int
      BY <2>1, LastTarget
    <3>2. QED
      BY <2>1, <3>1, TowardPlans
  <2>2. QED
    BY <2>1
<1>5. PICK it : Recursive(it, D, Plans, Ends, first, pred, move)
  <2> HIDE DEF D, size, Ends, first, pred, move
  <2>1. Recurses(D, Plans, size, Ends, first, pred, move)
    BY <1>1, <1>2, <1>3, <1>4 DEF Recurses
  <2>2. QED
    BY <2>1, RecursionExists, Zenon
<1>6. /\ it \in [D -> Plans]
      /\ \A s \in D : it[s] = IF s \in Ends THEN first[s] ELSE move[s][it[pred[s]]]
  BY <1>5 DEF Recursive
<1>7. ASSUME NEW s \in D
      PROVE  it[s] = IF s = {} THEN [book |-> b, intents |-> <<>>]
                     ELSE Toward(it[s \ {Max(s)}], targets[Max(s)])
  <2>1. CASE s = {}
    BY <1>6, <1>7, <2>1
  <2>2. CASE s # {}
    <3>1. s \ {Max(s)} \in D /\ it[s \ {Max(s)}] \in Plans
      BY <1>6, <1>7, <2>2, LastTarget
    <3>2. QED
      BY <1>6, <1>7, <2>2, <3>1
  <2>3. QED
    BY <2>1, <2>2
<1>8. Folds(b, targets, it)
  BY <1>6, <1>7 DEF Folds
<1>9. QED
  BY <1>8

(* The allocator's orders lead from the positions to the projected book.   *)
LEMMA AllocatePlans ==
  ASSUME NEW b \in Books, NEW targets \in Orders
  PROVE  Planned(b, Allocate(b, targets))
<1> DEFINE it == CHOOSE it : Folds(b, targets, it)
           D == SUBSET DOMAIN targets
<1>1. Allocate(b, targets) = it[DOMAIN targets]
  BY Zenon DEF Allocate, FoldLeft, MapThenFoldSet, Folds
<1>2. Folds(b, targets, it)
  BY FoldsExist, Zenon
<1> HIDE DEF it
<1>3. /\ it[{}] = [book |-> b, intents |-> <<>>]
      /\ \A s \in D : s # {} => it[s] = Toward(it[s \ {Max(s)}], targets[Max(s)])
  BY <1>2 DEF Folds
<1>4. Planned(b, it[{}])
  <2>1. [book |-> b, intents |-> <<>>] \in Plans
    BY DEF Plans, Orders
  <2>2. ASSUME NEW p \in Pairs PROVE Leads(b[p], <<>>, b[p], p)
    <3>1. <<>> \in Orders /\ b[p] \in Int /\ DOMAIN <<>> = {}
      BY DEF Orders, Books
    <3>2. QED
      BY <3>1, LeadsNowhere
  <2>3. QED
    BY <1>3, <2>1, <2>2 DEF Planned
<1> DEFINE Others == {s \in D : ~Planned(b, it[s])}
           Counts == {Cardinality(s) : s \in Others}
<1>5. ASSUME Others # {} PROVE FALSE
  <2>1. \A s \in Others : s # {}
    BY <1>4
  <2>2. Counts \in SUBSET Nat /\ Counts # {}
    BY <1>5, <2>1, LastTarget
  <2>3. PICK least \in Counts : \A other \in Counts : least <= other
    BY <2>2, LeastNumber
  <2>4. PICK s \in Others : least = Cardinality(s)
    BY <2>3
  <2>5. /\ targets[Max(s)] \in Pairs \X Int /\ s \ {Max(s)} \in D
        /\ Cardinality(s) \in Nat /\ Cardinality(s \ {Max(s)}) \in Nat
        /\ Cardinality(s \ {Max(s)}) < Cardinality(s)
    BY <2>1, <2>4, LastTarget
  <2>6. Planned(b, it[s \ {Max(s)}])
    <3>1. s \ {Max(s)} \in Others => Cardinality(s \ {Max(s)}) \in Counts
      OBVIOUS
    <3> HIDE DEF Counts
    <3>2. s \ {Max(s)} \notin Others
      BY <2>3, <2>4, <2>5, <3>1
    <3>3. QED
      BY <2>5, <3>2
  <2>7. Planned(b, Toward(it[s \ {Max(s)}], targets[Max(s)]))
    <3>1. it[s \ {Max(s)}] \in Plans
      BY <2>6 DEF Planned
    <3>2. QED
      BY <2>5, <2>6, <3>1, TowardPlans
  <2>8. QED
    BY <1>3, <2>1, <2>4, <2>7
<1>6. Planned(b, it[DOMAIN targets])
  BY <1>5
<1>7. QED
  BY <1>1, <1>6

(***************************************************************************)
(* The state                                                               *)
(***************************************************************************)
Sent == [pair: Pairs, units: Int, allowed: Nat \ {0}, read: Books]

ExposureTyped ==
  /\ positions \in Books /\ holding \in Books /\ unbooked \in Books
  /\ queue \in [Askers -> Orders] /\ sending \in [Askers -> Sent \cup {NoOrder}]
  /\ goal \in [Pairs -> Int \cup {NoGoal}] /\ reversed \in SUBSET Pairs

(* An order under way was allowed as it is, or cut to a size that fits.    *)
Allowed(o) ==
  \/ o.allowed = Size(o.units) /\ BreachedBy(o.read, o.pair, o.units) = {}
  \/ Balanced(Plus(o.read, o.pair, Sense(o.units) * o.allowed))

Judged == \A a \in Askers : sending[a] # NoOrder => Allowed(sending[a])

Has(a, p) ==
  \/ sending[a] # NoOrder /\ sending[a].pair = p
  \/ \E k \in DOMAIN queue[a] : queue[a][k][1] = p

Carried(a, p) == IF sending[a] # NoOrder /\ sending[a].pair = p THEN sending[a].units ELSE 0

(* One thread alone moves the pair, and what it has still to send leads    *)
(* from where the OMS is to the goal.                                      *)
Leading(a, p) ==
  /\ \A other \in Askers \ {a} : ~Has(other, p)
  /\ Leads(positions[p] + Carried(a, p), queue[a], goal[p], p)

GoalKept == \A p \in Pairs \ reversed : goal[p] # NoGoal => \E a \in Askers : Leading(a, p)

ExposureInv == ExposureTyped /\ Judged /\ CapBrokenInThreeWays /\ HeldAsBooked /\ GoalKept

LEMMA NoOrderIsNone == NoOrder \notin Sent
BY DEF NoOrder, Sent

LEMMA UnderWay ==
  ASSUME ExposureTyped, NEW a \in Askers, sending[a] # NoOrder
  PROVE  /\ sending[a] \in Sent /\ sending[a].pair \in Pairs /\ sending[a].units \in Int
         /\ sending[a].allowed \in Nat \ {0} /\ sending[a].read \in Books
BY DEF ExposureTyped, Sent

LEMMA NextOrder ==
  ASSUME ExposureTyped, NEW a \in Askers, queue[a] # <<>>
  PROVE  /\ queue[a] \in Orders /\ queue[a][1] \in Pairs \X Int /\ Tail(queue[a]) \in Orders
         /\ 1 \in DOMAIN queue[a]
         /\ \A p : (\E k \in DOMAIN Tail(queue[a]) : Tail(queue[a])[k][1] = p) =>
                   \E k \in DOMAIN queue[a] : queue[a][k][1] = p
<1>1. queue[a] \in Seq(Pairs \X Int)
  BY DEF ExposureTyped, Orders
<1>2. /\ Tail(queue[a]) \in Seq(Pairs \X Int) /\ 1 \in DOMAIN queue[a]
      /\ queue[a][1] \in Pairs \X Int
  BY <1>1
<1>3. \A k \in DOMAIN Tail(queue[a]) : Tail(queue[a])[k] = queue[a][k + 1] /\ k + 1 \in DOMAIN queue[a]
  BY <1>1
<1>4. QED
  BY <1>1, <1>2, <1>3 DEF Orders

LEMMA CarriedFits ==
  ASSUME ExposureTyped, NEW a \in Askers, NEW p
  PROVE  Carried(a, p) \in Int /\ (sending[a] = NoOrder => Carried(a, p) = 0)
BY UnderWay DEF Carried

(* What the governor allows is the whole order, when it breaches nothing,  *)
(* or a smaller one that keeps every currency under the cap.               *)
LEMMA GovernAllows ==
  ASSUME NEW b, NEW p, NEW n \in Int, Govern(b, p, n) # 0
  PROVE  /\ Govern(b, p, n) \in Nat \ {0}
         /\ \/ Govern(b, p, n) = Size(n) /\ BreachedBy(b, p, n) = {}
            \/ Balanced(Plus(b, p, Sense(n) * Govern(b, p, n)))
<1>1. CASE BreachedBy(b, p, n) = {}
  BY <1>1, SizeFits DEF Govern
<1>2. CASE BreachedBy(b, p, n) # {}
  <2>1. Govern(b, p, n) = Downsize(b, p, n)
    BY <1>2 DEF Govern
  <2>2. QED
    BY <2>1, DownsizeKeepsCap
<1>3. QED
  BY <1>1, <1>2

(***************************************************************************)
(* Orders are asked for                                                    *)
(***************************************************************************)
LEMMA AskKeeps ==
  ASSUME ExposureInv, NEW a \in Askers, NEW intents \in Orders, NEW aim \in [Pairs -> Int \cup {NoGoal}],
         Ask(a, intents, aim),
         \A p \in Pairs \ reversed : aim[p] # NoGoal => Leads(positions[p], intents, aim[p], p)
  PROVE  ExposureInv'
<1> USE DEF ExposureInv
<1>1. /\ queue[a] = <<>> /\ sending[a] = NoOrder
      /\ queue' = [queue EXCEPT ![a] = intents]
      /\ goal' = [p \in Pairs |-> IF \A k \in DOMAIN intents : intents[k][1] # p THEN goal[p]
                                  ELSE IF Busy(p) THEN NoGoal ELSE aim[p]]
      /\ UNCHANGED <<positions, holding, sending, unbooked, blind, oversized, reversed>>
  BY Zenon DEF Ask
<1>2. ExposureTyped'
  <2>1. goal' \in [Pairs -> Int \cup {NoGoal}]
    BY <1>1 DEF ExposureTyped
  <2>2. QED
    BY <1>1, <2>1 DEF ExposureTyped
<1>3. Judged'
  BY <1>1 DEF Judged
<1>4. CapBrokenInThreeWays'
  BY <1>1 DEF CapBrokenInThreeWays
<1>5. HeldAsBooked'
  BY <1>1 DEF HeldAsBooked
<1>6. /\ queue'[a] = intents /\ sending' = sending /\ positions' = positions
      /\ \A other \in Askers \ {a} : queue'[other] = queue[other]
  BY <1>1 DEF ExposureTyped
<1>7. \A p : \A other \in Askers \ {a} : Has(other, p)' <=> Has(other, p)
  BY <1>6 DEF Has
<1>8. \A p : \A other \in Askers : Carried(other, p)' = Carried(other, p)
  BY <1>6 DEF Carried
<1>9. ASSUME NEW p \in Pairs \ reversed, goal'[p] # NoGoal
      PROVE  \E x \in Askers : Leading(x, p)'
  <2>1. positions[p] \in Int /\ Carried(a, p) = 0 /\ positions[p] + Carried(a, p) = positions[p]
    BY <1>1, CarriedFits DEF ExposureTyped, Books
  <2>2. CASE \A k \in DOMAIN intents : intents[k][1] # p
    <3>1. goal'[p] = goal[p]
      BY <1>1, <2>2
    <3>2. PICK x \in Askers : Leading(x, p)
      BY <1>9, <3>1 DEF GoalKept
    <3>3. ~Has(a, p)'
      BY <1>1, <1>6, <2>2 DEF Has
    <3>4. \A other \in Askers \ {x} : ~Has(other, p)'
      BY <1>7, <3>2, <3>3 DEF Leading
    <3>5. Leads(positions[p] + Carried(x, p), queue'[x], goal[p], p)
      <4>1. CASE x # a
        BY <1>6, <3>2, <4>1 DEF Leading
      <4>2. CASE x = a
        <5>1. Leads(positions[p], <<>>, goal[p], p)
          BY <1>1, <2>1, <3>2, <4>2 DEF Leading
        <5>2. <<>> \in Orders /\ DOMAIN <<>> = {}
          BY DEF Orders
        <5>3. goal[p] = positions[p]
          BY <2>1, <5>1, <5>2, LeadsNowhere
        <5>4. Leads(positions[p], intents, positions[p], p)
          BY <2>1, <2>2, LeadsNowhere
        <5>5. QED
          BY <1>6, <2>1, <4>2, <5>3, <5>4
      <4>3. QED
        BY <4>1, <4>2
    <3>6. Leading(x, p)'
      BY <1>6, <1>8, <3>1, <3>4, <3>5 DEF Leading
    <3>7. QED
      BY <3>6
  <2>3. CASE ~(\A k \in DOMAIN intents : intents[k][1] # p)
    <3>1. goal'[p] = IF Busy(p) THEN NoGoal ELSE aim[p]
      BY <1>1, <2>3
    <3>2. ~Busy(p) /\ goal'[p] = aim[p]
      BY <1>9, <3>1
    <3>3. \A other \in Askers \ {a} : ~Has(other, p)'
      BY <1>7, <3>2 DEF Busy, Has
    <3>4. Leads(positions[p] + Carried(a, p), queue'[a], goal'[p], p)
      BY <1>6, <1>9, <2>1, <3>2
    <3>5. Leading(a, p)'
      BY <1>6, <1>8, <3>3, <3>4 DEF Leading
    <3>6. QED
      BY <3>5
  <2>4. QED
    BY <2>2, <2>3
<1>10. GoalKept'
  BY <1>1, <1>9 DEF GoalKept
<1>11. QED
  BY <1>2, <1>3, <1>4, <1>5, <1>10

LEMMA AskTargetsKeeps ==
  ASSUME ExposureInv, NEW a \in Askers, AskTargets(a)
  PROVE  ExposureInv'
<1>1. PICK targets \in Targets : Ask(a, Allocate(positions, targets).intents, Allocate(positions, targets).book)
  BY Zenon DEF AskTargets
<1> DEFINE plan == Allocate(positions, targets)
<1>2. targets \in Orders /\ positions \in Books
  BY ExposureAssumption DEF ExposureInv, ExposureTyped, Orders
<1>3. plan \in Plans /\ \A p \in Pairs : Leads(positions[p], plan.intents, plan.book[p], p)
  BY <1>2, AllocatePlans DEF Planned
<1>4. Ask(a, plan.intents, plan.book)
  BY <1>1
<1> HIDE DEF plan
<1>5. plan.intents \in Orders /\ plan.book \in [Pairs -> Int \cup {NoGoal}]
  BY <1>3 DEF Plans, Books
<1>6. \A p \in Pairs \ reversed : Leads(positions[p], plan.intents, plan.book[p], p)
  BY <1>3 DEF ExposureInv
<1>7. QED
  BY <1>4, <1>5, <1>6, AskKeeps

LEMMA AskOrderKeeps ==
  ASSUME ExposureInv, NEW a \in Askers, AskOrder(a)
  PROVE  ExposureInv'
<1>1. PICK p \in Pairs, n \in Sizes, sense \in {-1, 1} :
        Ask(a, <<<<p, sense * n>>>>, [q \in Pairs |-> NoGoal])
  BY Zenon DEF AskOrder
<1>2. <<p, sense * n>> \in Pairs \X Int
  BY ExposureAssumption
<1>3. <<<<p, sense * n>>>> \in Orders
  BY <1>2 DEF Orders
<1>4. [q \in Pairs |-> NoGoal] \in [Pairs -> Int \cup {NoGoal}]
  OBVIOUS
<1>5. \A q \in Pairs : [r \in Pairs |-> NoGoal][q] = NoGoal
  OBVIOUS
<1>6. QED
  BY <1>1, <1>3, <1>4, <1>5, AskKeeps

(***************************************************************************)
(* Orders are judged, dropped and refused                                  *)
(***************************************************************************)

(* The first order of a list goes: the goal of its pair is dropped, or the *)
(* order is the one now under way.                                         *)
LEMMA FirstTaken ==
  ASSUME ExposureInv, ExposureTyped', NEW a \in Askers, queue[a] # <<>>, sending[a] = NoOrder,
         queue' = [queue EXCEPT ![a] = Tail(@)],
         UNCHANGED <<positions, reversed>>,
         \A other \in Askers \ {a} : sending'[other] = sending[other],
         \/ /\ sending'[a] = NoOrder
            /\ goal' = [goal EXCEPT ![queue[a][1][1]] = NoGoal]
         \/ /\ sending'[a] # NoOrder
            /\ sending'[a].pair = queue[a][1][1] /\ sending'[a].units = queue[a][1][2]
            /\ goal' = goal
  PROVE  GoalKept'
<1> USE DEF ExposureInv
<1>1. /\ queue[a] \in Orders /\ queue[a][1] \in Pairs \X Int /\ 1 \in DOMAIN queue[a]
      /\ \A p : (\E k \in DOMAIN Tail(queue[a]) : Tail(queue[a])[k][1] = p) =>
                \E k \in DOMAIN queue[a] : queue[a][k][1] = p
  BY NextOrder
<1>2. queue'[a] = Tail(queue[a]) /\ \A other \in Askers \ {a} : queue'[other] = queue[other]
  BY DEF ExposureTyped
<1>3. ASSUME NEW p, NEW x \in Askers, Has(x, p)' PROVE Has(x, p)
  <2>1. CASE x # a
    BY <1>2, <1>3, <2>1 DEF Has
  <2>2. CASE x = a
    <3>1. CASE \E k \in DOMAIN Tail(queue[a]) : Tail(queue[a])[k][1] = p
      BY <1>1, <2>2, <3>1 DEF Has
    <3>2. CASE sending'[a] # NoOrder /\ sending'[a].pair = p
      BY <1>1, <2>2, <3>2 DEF Has
    <3>3. QED
      BY <1>2, <1>3, <2>2, <3>1, <3>2 DEF Has
  <2>3. QED
    BY <2>1, <2>2
<1>4. SUFFICES ASSUME NEW p \in Pairs \ reversed, goal'[p] # NoGoal
               PROVE  \E x \in Askers : Leading(x, p)'
  BY DEF GoalKept
<1>5. goal'[p] = goal[p] /\ (queue[a][1][1] = p => sending'[a] # NoOrder)
  <2>1. CASE goal' = goal /\ sending'[a] # NoOrder
    BY <2>1
  <2>2. CASE goal' = [goal EXCEPT ![queue[a][1][1]] = NoGoal]
    <3>1. queue[a][1][1] # p
      BY <1>4, <2>2 DEF ExposureTyped
    <3>2. QED
      BY <2>2, <3>1 DEF ExposureTyped
  <2>3. QED
    BY <2>1, <2>2
<1>6. PICK x \in Askers : Leading(x, p)
  BY <1>4, <1>5 DEF GoalKept
<1>7. \A other \in Askers \ {x} : ~Has(other, p)'
  BY <1>3, <1>6 DEF Leading
<1>8. positions[p] \in Int
  BY DEF ExposureTyped, Books
<1>9. Leads(positions[p] + Carried(x, p)', queue'[x], goal[p], p)
  <2>1. CASE x # a
    <3>1. Carried(x, p)' = Carried(x, p)
      BY <2>1 DEF Carried
    <3>2. QED
      BY <1>2, <1>6, <2>1, <3>1 DEF Leading
  <2>2. CASE x = a
    <3>1. Carried(a, p) = 0 /\ Carried(a, p)' = Share(queue[a][1], p)
      BY <1>5 DEF Carried, Share
    <3>2. Leads(positions[p] + 0, queue[a], goal[p], p) /\ positions[p] + 0 = positions[p]
      BY <1>6, <1>8, <2>2, <3>1 DEF Leading
    <3>3. Leads(positions[p] + Share(queue[a][1], p), Tail(queue[a]), goal[p], p)
      BY <1>1, <1>8, <3>2, LeadsAfterFirst
    <3>4. QED
      BY <1>2, <2>2, <3>1, <3>3
  <2>3. QED
    BY <2>1, <2>2
<1>10. Leading(x, p)'
  BY <1>5, <1>7, <1>9 DEF Leading
<1>11. QED
  BY <1>10

LEMMA JudgeKeeps ==
  ASSUME ExposureInv, NEW a \in Askers, Judge(a)
  PROVE  ExposureInv'
<1> USE DEF ExposureInv
<1> DEFINE p == queue[a][1][1]
           n == queue[a][1][2]
           allowed == Govern(positions, p, n)
           order == [pair |-> p, units |-> n, allowed |-> allowed, read |-> positions]
<1>1. /\ queue[a] # <<>> /\ sending[a] = NoOrder
      /\ queue' = [queue EXCEPT ![a] = Tail(@)]
      /\ sending' = [sending EXCEPT ![a] = IF allowed = 0 THEN NoOrder ELSE order]
      /\ goal' = IF allowed = 0 THEN [goal EXCEPT ![p] = NoGoal] ELSE goal
      /\ UNCHANGED <<positions, holding, asked, unbooked, blind, oversized, reversed>>
  BY Zenon DEF Judge
<1>2. queue[a][1] \in Pairs \X Int /\ Tail(queue[a]) \in Orders
  BY <1>1, NextOrder
<1>3. p \in Pairs /\ n \in Int /\ positions \in Books
  BY <1>2 DEF ExposureTyped
<1> HIDE DEF p, n
<1>4. allowed # 0 => /\ order \in Sent /\ order # NoOrder /\ Allowed(order)
                     /\ order.pair = p /\ order.units = n
  <2>1. SUFFICES ASSUME allowed # 0
                 PROVE  order \in Sent /\ order # NoOrder /\ Allowed(order)
    OBVIOUS
  <2>2. /\ allowed \in Nat \ {0}
        /\ \/ allowed = Size(n) /\ BreachedBy(positions, p, n) = {}
           \/ Balanced(Plus(positions, p, Sense(n) * allowed))
    BY <1>3, <2>1, GovernAllows
  <2> HIDE DEF allowed
  <2>3. order \in Sent
    BY <1>3, <2>2 DEF Sent
  <2>4. Allowed(order)
    BY <2>2 DEF Allowed
  <2>5. QED
    BY <2>3, <2>4, NoOrderIsNone
<1> HIDE DEF allowed, order
<1>5. /\ sending'[a] = IF allowed = 0 THEN NoOrder ELSE order
      /\ \A other \in Askers \ {a} : sending'[other] = sending[other]
  BY <1>1 DEF ExposureTyped
<1>6. ExposureTyped'
  <2>1. goal' \in [Pairs -> Int \cup {NoGoal}]
    BY <1>1 DEF ExposureTyped
  <2>2. sending' \in [Askers -> Sent \cup {NoOrder}]
    BY <1>1, <1>4 DEF ExposureTyped
  <2>3. QED
    BY <1>1, <1>2, <2>1, <2>2 DEF ExposureTyped
<1>7. Judged'
  BY <1>4, <1>5 DEF Judged
<1>8. CapBrokenInThreeWays'
  BY <1>1 DEF CapBrokenInThreeWays
<1>9. HeldAsBooked'
  BY <1>1 DEF HeldAsBooked
<1>10. \/ sending'[a] = NoOrder /\ goal' = [goal EXCEPT ![p] = NoGoal]
       \/ /\ sending'[a] # NoOrder /\ sending'[a].pair = p /\ sending'[a].units = n
          /\ goal' = goal
  BY <1>1, <1>4, <1>5
<1>11. GoalKept'
  BY <1>1, <1>5, <1>6, <1>10, FirstTaken DEF p, n
<1>12. QED
  BY <1>6, <1>7, <1>8, <1>9, <1>11

LEMMA OutdatedKeeps ==
  ASSUME ExposureInv, NEW a \in Askers, Outdated(a)
  PROVE  ExposureInv'
<1> USE DEF ExposureInv
<1>1. /\ queue[a] # <<>> /\ sending[a] = NoOrder
      /\ queue' = [queue EXCEPT ![a] = Tail(@)]
      /\ goal' = [goal EXCEPT ![queue[a][1][1]] = NoGoal]
      /\ UNCHANGED <<positions, holding, sending, unbooked, blind, oversized, reversed>>
  BY DEF Outdated
<1>2. Tail(queue[a]) \in Orders
  BY <1>1, NextOrder
<1>3. ExposureTyped'
  BY <1>1, <1>2 DEF ExposureTyped
<1>4. Judged' /\ CapBrokenInThreeWays' /\ HeldAsBooked'
  BY <1>1 DEF Judged, CapBrokenInThreeWays, HeldAsBooked
<1>5. GoalKept'
  BY <1>1, <1>3, FirstTaken
<1>6. QED
  BY <1>3, <1>4, <1>5

LEMMA RefuseKeeps ==
  ASSUME ExposureInv, NEW a \in Askers, Refuse(a)
  PROVE  ExposureInv'
<1> USE DEF ExposureInv
<1>1. /\ sending[a] # NoOrder
      /\ sending' = [sending EXCEPT ![a] = NoOrder]
      /\ goal' = [goal EXCEPT ![sending[a].pair] = NoGoal]
      /\ UNCHANGED <<positions, holding, queue, asked, unbooked, blind, oversized, reversed>>
  BY DEF Refuse
<1>2. sending'[a] = NoOrder /\ \A other \in Askers \ {a} : sending'[other] = sending[other]
  BY <1>1 DEF ExposureTyped
<1>3. ExposureTyped'
  BY <1>1 DEF ExposureTyped
<1>4. Judged'
  BY <1>2 DEF Judged
<1>5. CapBrokenInThreeWays' /\ HeldAsBooked'
  BY <1>1 DEF CapBrokenInThreeWays, HeldAsBooked
<1>6. ASSUME NEW p \in Pairs \ reversed, goal'[p] # NoGoal
      PROVE  \E x \in Askers : Leading(x, p)'
  <2>1. sending[a].pair # p /\ goal'[p] = goal[p]
    BY <1>1, <1>6, UnderWay DEF ExposureTyped
  <2>2. PICK x \in Askers : Leading(x, p)
    BY <1>6, <2>1 DEF GoalKept
  <2>3. \A other \in Askers : Has(other, p)' => Has(other, p)
    BY <1>1, <1>2 DEF Has
  <2>4. Carried(x, p)' = Carried(x, p)
    BY <1>1, <1>2, <2>1 DEF Carried
  <2>5. Leading(x, p)'
    BY <1>1, <2>1, <2>2, <2>3, <2>4 DEF Leading
  <2>6. QED
    BY <2>5
<1>7. GoalKept'
  BY <1>1, <1>6 DEF GoalKept
<1>8. QED
  BY <1>3, <1>4, <1>5, <1>7

(***************************************************************************)
(* Orders are filled                                                       *)
(***************************************************************************)
(* What is booked lies between nothing and the order, and between nothing  *)
(* and every size it does not exceed.                                      *)
LEMMA BookedBetween ==
  ASSUME NEW units \in Int, NEW booked \in Nat, booked <= Size(units)
  PROVE  LET n == Sense(units) * booked
         IN /\ n \in Int
            /\ (0 <= n /\ n <= units) \/ (units <= n /\ n <= 0)
            /\ booked = 0 => n = 0
            /\ booked = Size(units) => n = units
            /\ \A m \in Nat : booked <= m => LET to == Sense(units) * m
                 IN to \in Int /\ ((0 <= n /\ n <= to) \/ (to <= n /\ n <= 0))
BY DEF Size, Sense

LEMMA TakenIsMore ==
  ASSUME NEW units \in Int, NEW booked \in Nat, NEW taken \in Nat
  PROVE  /\ Sense(units) * booked \in Int /\ Sense(units) * (taken - booked) \in Int
         /\ Sense(units) * taken = Sense(units) * booked + Sense(units) * (taken - booked)
<1>1. Sense(units) = 1 \/ Sense(units) = -1
  BY DEF Sense
<1>2. QED
  BY <1>1

(* An order the governor allowed, judged on the exposure it meets and not  *)
(* sent larger than allowed, leaves a currency under the cap.              *)
LEMMA AllowedKeepsCap ==
  ASSUME NEW o \in Sent, Allowed(o), NEW n \in Int, NEW c \in Currencies, NEW b \in Books,
         Exposure(b, c) = Exposure(o.read, c), Size(Exposure(b, c)) <= Cap,
         (0 <= n /\ n <= o.units) \/ (o.units <= n /\ n <= 0),
         LET to == Sense(o.units) * o.allowed
         IN to \in Int /\ ((0 <= n /\ n <= to) \/ (to <= n /\ n <= 0))
  PROVE  Size(Exposure(Plus(b, o.pair, n), c)) <= Cap
<1> DEFINE to == Sense(o.units) * o.allowed
           k == Weight(o.pair, c)
           e == Exposure(b, c)
<1>1. o.units \in Int /\ o.read \in Books /\ o.pair \in Pairs
  BY DEF Sent
<1>2. k \in Int /\ e \in Int /\ Cap \in Int /\ to \in Int
  BY <1>1, WeightFits, ExposureIsInt, ExposureAssumption
<1>3. Exposure(Plus(b, o.pair, n), c) = e + n * k
  BY <1>1, ExposureMoves
<1>4. Exposure(Plus(o.read, o.pair, o.units), c) = e + o.units * k
  BY <1>1, ExposureMoves
<1>5. Exposure(Plus(o.read, o.pair, to), c) = e + to * k
  BY <1>1, <1>2, ExposureMoves
<1>6. (0 <= n /\ n <= to) \/ (to <= n /\ n <= 0)
  OBVIOUS
<1>7. e + n * k \in Int /\ e + to * k \in Int /\ e + o.units * k \in Int
  BY <1>1, <1>2
<1>8. \A x \in Int : Size(x) \in Nat
  BY SizeFits
<1>9. CASE BreachedBy(o.read, o.pair, o.units) = {}
  <2>1. \/ ~(Size(e + o.units * k) > Cap)
        \/ ~(Size(e + o.units * k) >= Size(e))
    BY <1>4, <1>9 DEF BreachedBy
  <2>2. Size(e + n * k) <= Size(e) \/ Size(e + n * k) <= Size(e + o.units * k)
    <3> HIDE DEF e, k
    <3>1. QED
      BY <1>1, <1>2, Convex
  <2> HIDE DEF e, k
  <2>3. Size(e + n * k) <= Cap
    BY <1>2, <1>7, <1>8, <2>1, <2>2 DEF e
  <2>4. QED
    BY <1>3, <2>3
<1>10. CASE Balanced(Plus(o.read, o.pair, to))
  <2>1. Size(e + to * k) <= Cap
    BY <1>5, <1>10 DEF Balanced
  <2>2. Size(e + n * k) <= Size(e) \/ Size(e + n * k) <= Size(e + to * k)
    <3> HIDE DEF e, k, to
    <3>1. QED
      BY <1>2, <1>6, Convex
  <2>3. Size(e) <= Cap
    OBVIOUS
  <2> HIDE DEF e, k, to
  <2>4. Size(e + n * k) <= Cap
    BY <1>2, <1>7, <1>8, <2>1, <2>2, <2>3
  <2>5. QED
    BY <1>3, <2>4
<1>11. QED
  BY <1>9, <1>10 DEF Allowed

LEMMA FillKeeps ==
  ASSUME ExposureInv, NEW a \in Askers, NEW booked \in Amounts, NEW taken \in Amounts,
         Fill(a, booked, taken)
  PROVE  ExposureInv'
<1> USE DEF ExposureInv
<1> DEFINE o == sending[a]
           n == Sense(o.units) * booked
           more == Sense(o.units) * (taken - booked)
           seen == {c \in Currencies : Exposure(o.read, c) # Exposure(positions, c)}
           held == positions[o.pair]
<1>1. /\ o # NoOrder /\ booked <= Size(o.units) /\ booked <= taken
      /\ positions' = [positions EXCEPT ![o.pair] = Netted(@, n)]
      /\ holding' = Plus(holding, o.pair, Sense(o.units) * taken)
      /\ unbooked' = Plus(unbooked, o.pair, more)
      /\ sending' = [sending EXCEPT ![a] = NoOrder]
      /\ goal' = IF booked = Size(o.units) THEN goal ELSE [goal EXCEPT ![o.pair] = NoGoal]
      /\ blind' = IF booked = 0 THEN blind ELSE blind \cup (seen \cap Legs(o.pair))
      /\ oversized' = IF booked > o.allowed THEN oversized \cup Legs(o.pair) ELSE oversized
      /\ reversed' = IF Netted(held, n) = held + n THEN reversed ELSE reversed \cup {o.pair}
      /\ UNCHANGED <<queue, asked>>
  BY Zenon DEF Fill
<1>2. /\ o \in Sent /\ o.pair \in Pairs /\ o.units \in Int /\ o.allowed \in Nat \ {0}
      /\ o.read \in Books /\ booked \in Nat /\ taken \in Nat
  BY <1>1, UnderWay, ExposureAssumption
<1>3. /\ n \in Int /\ ((0 <= n /\ n <= o.units) \/ (o.units <= n /\ n <= 0))
      /\ (booked = 0 => n = 0) /\ (booked = Size(o.units) => n = o.units)
  BY <1>1, <1>2, BookedBetween
<1>4. positions \in Books /\ holding \in Books /\ unbooked \in Books /\ held \in Int
  BY <1>2 DEF ExposureTyped, Books
<1>5. Allowed(o)
  BY <1>1 DEF Judged
<1>6. sending'[a] = NoOrder /\ \A other \in Askers \ {a} : sending'[other] = sending[other]
  BY <1>1 DEF ExposureTyped
<1>7. /\ holding' \in Books /\ holding'[o.pair] = holding[o.pair] + n + more
      /\ unbooked' \in Books /\ unbooked'[o.pair] = unbooked[o.pair] + more
      /\ \A q \in Pairs \ {o.pair} : holding'[q] = holding[q] /\ unbooked'[q] = unbooked[q]
      /\ more \in Int
  <2>1. more \in Int /\ Sense(o.units) * taken = n + more
    BY <1>2, TakenIsMore
  <2>2. holding' = Plus(holding, o.pair, n + more) /\ unbooked' = Plus(unbooked, o.pair, more)
    BY <1>1, <2>1
  <2>3. o.pair \in Pairs /\ n \in Int /\ more \in Int
    BY <1>2, <1>3, <2>1
  <2> DEFINE both == n + more
  <2> HIDE DEF o, n, more
  <2>4. both \in Int /\ holding' = Plus(holding, o.pair, both)
    BY <2>2, <2>3
  <2> HIDE DEF both
  <2>5. /\ holding' \in Books /\ holding'[o.pair] = holding[o.pair] + both
        /\ \A q \in Pairs \ {o.pair} : holding'[q] = holding[q]
    BY <1>4, <2>3, <2>4, PlusFits, Zenon
  <2>6. /\ unbooked' \in Books /\ unbooked'[o.pair] = unbooked[o.pair] + more
        /\ \A q \in Pairs \ {o.pair} : unbooked'[q] = unbooked[q]
    BY <1>4, <2>2, <2>3, PlusFits, Zenon
  <2>7. holding[o.pair] \in Int
    BY <1>4, <2>3 DEF Books
  <2>8. QED
    BY <2>3, <2>5, <2>6, <2>7 DEF both
<1> HIDE DEF more
<1>8. /\ positions' \in Books /\ positions'[o.pair] = Netted(held, n)
      /\ \A q \in Pairs \ {o.pair} : positions'[q] = positions[q]
  <2>1. Netted(held, n) \in Int
    <3> HIDE DEF held, n
    <3>1. QED
      BY <1>3, <1>4 DEF Netted
  <2> HIDE DEF n
  <2>2. QED
    BY <1>1, <1>2, <1>4, <2>1 DEF Books
<1>9. Netted(held, n) = held + n => positions' = Plus(positions, o.pair, n)
  <2> HIDE DEF n
  <2>1. QED
    BY <1>1 DEF Plus
<1>10. ExposureTyped'
  <2>1. goal' \in [Pairs -> Int \cup {NoGoal}]
    BY <1>1 DEF ExposureTyped
  <2>2. sending' \in [Askers -> Sent \cup {NoOrder}]
    BY <1>1 DEF ExposureTyped
  <2>3. reversed' \in SUBSET Pairs
    BY <1>1, <1>2 DEF ExposureTyped
  <2>4. queue' \in [Askers -> Orders]
    BY <1>1 DEF ExposureTyped
  <2> HIDE DEF o, n, held, seen
  <2>5. QED
    BY <1>7, <1>8, <2>1, <2>2, <2>3, <2>4 DEF ExposureTyped
<1>11. Judged'
  BY <1>6 DEF Judged
<1> HIDE DEF n, held
<1>12. CapBrokenInThreeWays'
  <2>1. SUFFICES ASSUME NEW c \in Currencies, c \notin blind' \cup oversized',
                        \A p \in reversed' : c \notin Legs(p)
                 PROVE  Size(Exposure(positions', c)) <= Cap
    BY Zenon DEF CapBrokenInThreeWays
  <2>2. c \notin blind \cup oversized /\ \A p \in reversed : c \notin Legs(p)
    BY <1>1, <2>1
  <2>3. Size(Exposure(positions, c)) <= Cap
    BY <2>2 DEF CapBrokenInThreeWays
  <2>4. CASE c \notin Legs(o.pair)
    <3>1. Exposure(positions', c) = Exposure(positions, c)
      <4> DEFINE m == Netted(held, n) - held
      <4>1. m \in Int /\ held + m = Netted(held, n)
        <5>1. Netted(held, n) \in Int
          BY <1>3, <1>4 DEF Netted
        <5>2. QED
          BY <1>4, <5>1
      <4> HIDE DEF m
      <4>2. positions' = Plus(positions, o.pair, m)
        BY <1>1, <4>1 DEF Plus, held
      <4>3. Weight(o.pair, c) = 0 /\ Exposure(positions, c) \in Int
        BY <1>2, <1>4, <2>4, WeightFits, ExposureIsInt
      <4>4. Exposure(positions', c) = Exposure(positions, c) + m * Weight(o.pair, c)
        BY <1>2, <1>4, <4>1, <4>2, ExposureMoves
      <4>5. QED
        BY <4>1, <4>3, <4>4
    <3>2. QED
      BY <2>3, <3>1
  <2>5. CASE c \in Legs(o.pair) /\ booked = 0
    <3>1. Netted(held, n) = held
      BY <1>3, <1>4, <2>5 DEF Netted
    <3>2. positions' = positions
      BY <1>1, <1>4, <3>1 DEF held, Books
    <3>3. QED
      BY <2>3, <3>2
  <2>6. CASE c \in Legs(o.pair) /\ booked # 0
    <3>1. positions' = Plus(positions, o.pair, n)
      BY <1>1, <1>9, <2>1, <2>6
    <3>2. Exposure(positions, c) = Exposure(o.read, c)
      BY <1>1, <2>1, <2>6
    <3>3. booked <= o.allowed
      BY <1>1, <1>2, <2>1, <2>6
    <3>4. LET to == Sense(o.units) * o.allowed
          IN to \in Int /\ ((0 <= n /\ n <= to) \/ (to <= n /\ n <= 0))
      BY <1>1, <1>2, <3>3, BookedBetween DEF n
    <3> HIDE DEF o
    <3>5. QED
      BY <1>2, <1>3, <1>4, <1>5, <2>3, <3>1, <3>2, <3>4, AllowedKeepsCap
  <2>7. QED
    BY <2>4, <2>5, <2>6
<1>13. HeldAsBooked'
  <2>1. SUFFICES ASSUME NEW p \in Pairs \ reversed'
                 PROVE  holding'[p] = positions'[p] + unbooked'[p]
    BY DEF HeldAsBooked
  <2>2. p \in Pairs \ reversed
    BY <1>1, <2>1
  <2>3. /\ holding[p] = positions[p] + unbooked[p]
        /\ holding[p] \in Int /\ positions[p] \in Int /\ unbooked[p] \in Int
    BY <1>4, <2>2 DEF HeldAsBooked, Books
  <2>4. CASE p = o.pair
    <3>1. Netted(held, n) = held + n
      BY <1>1, <2>1, <2>4
    <3>2. QED
      BY <1>3, <1>7, <1>8, <2>3, <2>4, <3>1 DEF held
  <2>5. CASE p # o.pair
    BY <1>7, <1>8, <2>3, <2>5
  <2>6. QED
    BY <2>4, <2>5
<1>14. GoalKept'
  <2>1. SUFFICES ASSUME NEW p \in Pairs \ reversed', goal'[p] # NoGoal
                 PROVE  \E x \in Askers : Leading(x, p)'
    BY DEF GoalKept
  <2>2. p \in Pairs \ reversed
    BY <1>1, <2>1
  <2>3. goal'[p] = goal[p] /\ (p = o.pair => booked = Size(o.units))
    BY <1>1, <1>2, <2>1 DEF ExposureTyped
  <2>4. PICK x \in Askers : Leading(x, p)
    BY <2>1, <2>2, <2>3 DEF GoalKept
  <2>5. \A other \in Askers : Has(other, p)' => Has(other, p)
    BY <1>1, <1>6 DEF Has
  <2>6. positions'[p] + Carried(x, p)' = positions[p] + Carried(x, p)
    <3>1. CASE p # o.pair
      <4>1. Carried(x, p)' = Carried(x, p)
        BY <1>6, <3>1 DEF Carried
      <4>2. QED
        BY <1>8, <3>1, <4>1
    <3>2. CASE p = o.pair
      <4>1. Has(a, p)
        BY <1>1, <3>2 DEF Has
      <4>2. x = a
        BY <2>4, <4>1 DEF Leading
      <4>3. n = o.units
        BY <1>3, <2>3, <3>2
      <4>4. Carried(x, p)' = 0 /\ Carried(x, p) = o.units
        BY <1>1, <1>6, <3>2, <4>2 DEF Carried
      <4>5. positions'[p] = positions[p] + n
        BY <1>1, <1>8, <2>1, <3>2 DEF held
      <4>6. positions[p] \in Int
        BY <1>4 DEF Books
      <4>7. QED
        BY <1>2, <4>3, <4>4, <4>5, <4>6
    <3>3. QED
      BY <3>1, <3>2
  <2>7. Leading(x, p)'
    BY <1>1, <2>3, <2>4, <2>5, <2>6 DEF Leading
  <2>8. QED
    BY <2>7
<1>15. QED
  BY <1>10, <1>11, <1>12, <1>13, <1>14

LEMMA ExposureStarts == ExposureInit => ExposureInv
<1> SUFFICES ASSUME ExposureInit PROVE ExposureInv
  OBVIOUS
<1> USE DEF ExposureInit
<1>1. ExposureTyped
  BY DEF ExposureTyped, Books, Orders
<1>2. Judged
  BY DEF Judged
<1>3. HeldAsBooked /\ GoalKept
  BY DEF HeldAsBooked, GoalKept
<1>4. CapBrokenInThreeWays
  <2>1. SUFFICES ASSUME NEW c \in Currencies PROVE Size(Exposure(positions, c)) <= Cap
    BY DEF CapBrokenInThreeWays
  <2>2. Exposure(positions, c) = 0
    <3>1. \A p \in Pairs : positions[p] = 0
      OBVIOUS
    <3>2. positions \in Books
      BY DEF Books
    <3>3. QED
      BY <3>1, <3>2, NothingIsExposed
  <2>3. QED
    BY <2>2, ExposureAssumption DEF Size
<1>5. QED
  BY <1>1, <1>2, <1>3, <1>4 DEF ExposureInv

LEMMA ExposureStep == ExposureInv /\ [ExposureNext]_exposureVars => ExposureInv'
<1> SUFFICES ASSUME ExposureInv, [ExposureNext]_exposureVars PROVE ExposureInv'
  OBVIOUS
<1>1. ASSUME NEW a \in Askers,
             \/ AskTargets(a) \/ AskOrder(a) \/ Judge(a) \/ Outdated(a) \/ Refuse(a)
             \/ \E booked, taken \in Amounts : Fill(a, booked, taken)
      PROVE  ExposureInv'
  BY <1>1, AskTargetsKeeps, AskOrderKeeps, JudgeKeeps, OutdatedKeeps, RefuseKeeps, FillKeeps
<1>2. CASE UNCHANGED exposureVars
  BY <1>2 DEF exposureVars, ExposureInv, ExposureTyped, Judged, CapBrokenInThreeWays, HeldAsBooked,
              GoalKept, Leading, Has, Carried
<1>3. QED
  BY <1>1, <1>2 DEF ExposureNext

LEMMA Explains == ExposureInv => ExposureExplained
<1> SUFFICES ASSUME ExposureInv PROVE ExposureExplained
  OBVIOUS
<1> USE DEF ExposureInv
<1>1. SearchIsExact
  <2>1. positions \in Books
    BY DEF ExposureTyped
  <2>2. QED
    BY <2>1, DownsizeIsExact, Zenon DEF SearchIsExact
<1>2. LedToTarget
  <2>1. SUFFICES ASSUME NEW p \in Pairs \ reversed, goal[p] # NoGoal, ~Busy(p)
                 PROVE  holding[p] = goal[p] + unbooked[p]
    BY DEF LedToTarget, AtTarget
  <2>2. PICK a \in Askers : Leading(a, p)
    BY <2>1 DEF GoalKept
  <2>3. Carried(a, p) = 0 /\ \A k \in DOMAIN queue[a] : queue[a][k][1] # p
    BY <2>1 DEF Busy, Carried
  <2>4. positions[p] \in Int /\ queue[a] \in Orders /\ positions[p] + 0 = positions[p]
    BY DEF ExposureTyped, Books
  <2>5. Leads(positions[p], queue[a], goal[p], p)
    BY <2>2, <2>3, <2>4 DEF Leading
  <2>6. positions[p] = goal[p]
    BY <2>3, <2>4, <2>5, LeadsNowhere
  <2>7. QED
    BY <2>1, <2>6 DEF HeldAsBooked
<1>3. QED
  BY <1>1, <1>2 DEF ExposureExplained

(* Whatever part of an order a broker executes and the OMS books: the      *)
(* search for a smaller order is exact, a currency gets over the cap in    *)
(* three ways only, and but for reversed pairs the broker holds what the   *)
(* OMS has and what was never booked, and submit_targets leads to its      *)
(* targets and that beside them: for any pairs, rates, cap, step, targets  *)
(* and number of request threads.                                          *)
THEOREM ExposureIsExplained == ExposureSpec => []ExposureExplained
<1>1. ExposureInit => ExposureInv
  BY ExposureStarts
<1>2. ExposureInv /\ [ExposureNext]_exposureVars => ExposureInv'
  BY ExposureStep
<1>3. ExposureInv => ExposureExplained
  BY Explains
<1>4. QED
  BY <1>1, <1>2, <1>3, PTL DEF ExposureSpec
=============================================================================
