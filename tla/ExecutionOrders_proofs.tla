----------------------- MODULE ExecutionOrders_proofs -----------------------
(***************************************************************************)
(* Theorems about what Execution does with orders, for every value of its  *)
(* constants: a fill in the OMS is a fill at a broker; the orders table    *)
(* and the state machines agree; how often an order can be taken, and how  *)
(* often a position can be flattened; when the fills table adds up to the  *)
(* positions.                                                              *)
(***************************************************************************)
EXTENDS Execution_proofs, FiniteSetTheorems, WellFoundedInduction

-----------------------------------------------------------------------------
(* What a step does                                                        *)

(* A thread's step leaves what belongs to the other threads alone.         *)
LEMMA OthersKeep ==
  ASSUME TypeInv, NEW t \in Threads,
         ThreadStep(t) \/ \E r \in Requests : Submit(t, r),
         NEW u \in Threads, u # t
  PROVE  /\ pc'[u] = pc[u] /\ req'[u] = req[u] /\ queue'[u] = queue[u]
         /\ route'[u] = route[u] /\ tries'[u] = tries[u] /\ ack'[u] = ack[u]
<1> USE DEF thread, oms, db, loops, bounds, TypeInv, TypeOK
<1>1. ASSUME NEW r \in Requests, Submit(t, r)
      PROVE  /\ pc'[u] = pc[u] /\ req'[u] = req[u] /\ queue'[u] = queue[u]
             /\ route'[u] = route[u] /\ tries'[u] = tries[u] /\ ack'[u] = ack[u]
  BY <1>1 DEF Submit, Goto
<1>2. CASE OmsReject(t) \/ MarkUnknown(t) \/ PersistAck(t)
  BY <1>2 DEF OmsReject, MarkUnknown, PersistAck, NextChild, Return, Goto
<1>3. CASE SendLost(t) \/ SendFailed(t)
  BY <1>3 DEF SendLost, SendFailed, AttemptFailed
<1>4. CASE OmsRoute(t)
  <2>1. \E c : queue' = [queue EXCEPT ![t] = c]
    BY <1>4 DEF OmsRoute
  <2>2. pc' = [pc EXCEPT ![t] = "loop"] /\ UNCHANGED <<req, route, tries, ack>>
    BY <1>4 DEF OmsRoute, Goto
  <2>3. QED
    BY <2>1, <2>2
<1>5. CASE \/ OmsClear(t) \/ PersistPending(t) \/ SendAcked(t) \/ SendDeclined(t)
           \/ SendRefused(t) \/ RoutesFailed(t) \/ Acknowledge(t) \/ ProcessFill(t)
           \/ Attribute(t) \/ RecordFill(t)
  <2>1. CASE OmsClear(t) \/ PersistPending(t)
    BY <2>1 DEF OmsClear, PersistPending, Goto
  <2>2. CASE SendAcked(t) \/ SendDeclined(t)
    <3>1. \E a : ack' = [ack EXCEPT ![t] = a]
      BY <2>2 DEF SendAcked, SendDeclined
    <3>2. pc' = [pc EXCEPT ![t] = "acked"] /\ UNCHANGED <<req, queue, route, tries>>
      BY <2>2 DEF SendAcked, SendDeclined, Goto
    <3>3. QED
      BY <3>1, <3>2
  <2>3. CASE SendRefused(t) \/ RoutesFailed(t)
    BY <2>3 DEF SendRefused, RoutesFailed, Goto
  <2>4. CASE Acknowledge(t) \/ ProcessFill(t) \/ Attribute(t) \/ RecordFill(t)
    <3>1. \E s : pc' = [pc EXCEPT ![t] = s]
      BY <2>4 DEF Acknowledge, ProcessFill, Attribute, RecordFill, Goto
    <3>2. UNCHANGED <<req, queue, route, tries, ack>>
      BY <2>4 DEF Acknowledge, ProcessFill, Attribute, RecordFill
    <3>3. QED
      BY <3>1, <3>2
  <2>5. QED
    BY <1>5, <2>1, <2>2, <2>3, <2>4
<1>6. QED
  BY <1>1, <1>2, <1>3, <1>4, <1>5 DEF ThreadStep

(* What a thread routes: distinct children of its intent.                  *)
LEMMA RouteEffect ==
  ASSUME TypeInv, NEW t \in Threads, OmsRoute(t)
  PROVE  \E children \in Seq(Orders) :
           /\ children # <<>>
           /\ \A k \in DOMAIN children : children[k].intent = req[t].intent
           /\ \A j, k \in DOMAIN children : children[j] = children[k] => j = k
           /\ queue' = [queue EXCEPT ![t] = children]
           /\ sm' = [o \in Orders |->
                IF \E k \in DOMAIN children : children[k] = o THEN "SUBMITTED" ELSE sm[o]]
           /\ filled' = [o \in Orders |->
                IF (\E k \in DOMAIN children : children[k] = o) /\ o \notin cache
                THEN 0 ELSE filled[o]]
<1>1. PICK d \in Divisors :
        LET i == req[t].intent
            u == Dampened(UnitsOf[i], d)
            first == [intent |-> i, units |-> u, slice |-> 1]
            children == IF first \in cache THEN <<first>> ELSE SliceIntent(i, u)
            new == {children[k] : k \in DOMAIN children}
        IN /\ queue' = [queue EXCEPT ![t] = children]
           /\ sm' = [o \in Orders |-> IF o \in new THEN "SUBMITTED" ELSE sm[o]]
           /\ filled' = [o \in Orders |-> IF o \in new \ cache THEN 0 ELSE filled[o]]
  BY DEF OmsRoute
<1> DEFINE i == req[t].intent
           u == Dampened(UnitsOf[i], d)
           first == [intent |-> i, units |-> u, slice |-> 1]
           children == IF first \in cache THEN <<first>> ELSE SliceIntent(i, u)
           new == {children[k] : k \in DOMAIN children}
<1>2. i \in Intents
  BY DEF TypeInv, TypeOK, Requests
<1>3. u \in 1..MaxUnits
  BY <1>2, DampenedType, ConstantsAssumption
<1> HIDE DEF i, u
<1>4. /\ children \in Seq(Orders) /\ children # <<>>
      /\ \A k \in DOMAIN children : children[k].intent = i
  BY <1>2, <1>3, SlicesType
<1>5. \A j, k \in DOMAIN children : children[j] = children[k] => j = k
  <2>1. \A k \in DOMAIN SliceIntent(i, u) : SliceIntent(i, u)[k].slice = k
    BY DEF SliceIntent
  <2>2. \A k \in DOMAIN <<first>> : k = 1
    OBVIOUS
  <2>3. QED
    BY <2>1, <2>2
<1> HIDE DEF children
<1>6. /\ queue' = [queue EXCEPT ![t] = children]
      /\ sm' = [o \in Orders |-> IF o \in new THEN "SUBMITTED" ELSE sm[o]]
      /\ filled' = [o \in Orders |-> IF o \in new \ cache THEN 0 ELSE filled[o]]
  BY <1>1 DEF i, u, children
<1>7. \A o : o \in new <=> \E k \in DOMAIN children : children[k] = o
  OBVIOUS
<1> HIDE DEF new
<1>8. sm' = [o \in Orders |->
               IF \E k \in DOMAIN children : children[k] = o THEN "SUBMITTED" ELSE sm[o]]
  BY <1>6, <1>7
<1>9. filled' = [o \in Orders |->
                   IF (\E k \in DOMAIN children : children[k] = o) /\ o \notin cache
                   THEN 0 ELSE filled[o]]
  BY <1>6, <1>7
<1>10. QED
  BY <1>4, <1>5, <1>6, <1>8, <1>9 DEF i

(* The surroundings of the threads leave them and the orders alone, or     *)
(* crash the process.                                                      *)
ThreadMoves == \E t \in Threads : ThreadStep(t) \/ \E r \in Requests : Submit(t, r)

LEMMA SurroundingsKeep ==
  ASSUME TypeInv, [Next]_vars, ~ThreadMoves, ~Crash
  PROVE  UNCHANGED <<thread, sm, filled, rows, submits>>
<1> USE DEF thread, oms, db, loops, bounds
<1>1. CASE \E tk \in tickets : BrokerMoves(tk) \/ Cancel(tk)
  BY <1>1 DEF BrokerMoves, Cancel, Spend
<1>2. CASE \E k \in Switches : Arm(k) \/ Disarm(k)
  BY <1>2 DEF Arm, Disarm, Spend
<1>3. CASE \E down \in SUBSET Accounts : ReconcileRead(down) \/ FlattenRead(down)
  BY <1>3 DEF ReconcileRead, FlattenRead, Spend
<1>4. CASE ReconcileArm \/ FlattenTaken \/ FlattenNotTaken \/ UNCHANGED vars
  BY <1>4 DEF ReconcileArm, FlattenTaken, FlattenNotTaken, vars
<1>5. QED
  BY <1>1, <1>2, <1>3, <1>4 DEF Next, ThreadMoves

(* What can become of the brokers' books in one step: a thread has an      *)
(* order taken, a ticket moves on, or flatten_all has one taken.           *)
MovesOn(tk, state) ==
  \/ tk.state = "resting" /\ state \in {"open", "lapsed"}
  \/ tk.state = "open" /\ state = "closed"

LEMMA BooksStep ==
  ASSUME TypeInv, [Next]_vars
  PROVE  \/ UNCHANGED tickets
         \/ \E t \in Threads : SendAcked(t) \/ SendLost(t)
         \/ \E tk \in tickets : \E state : MovesOn(tk, state) /\ Becomes(tk, state)
         \/ FlattenTaken
<1> USE DEF thread, oms, db, loops, bounds
<1>1. ASSUME NEW t \in Threads, ThreadStep(t)
      PROVE  SendAcked(t) \/ SendLost(t) \/ UNCHANGED tickets
  BY <1>1 DEF ThreadStep, OmsClear, OmsReject, OmsRoute, PersistPending, SendDeclined,
     SendFailed, SendRefused, RoutesFailed, MarkUnknown, Acknowledge, ProcessFill, Attribute,
     RecordFill, PersistAck
<1>2. ASSUME NEW t \in Threads, NEW r \in Requests, Submit(t, r)
      PROVE  UNCHANGED tickets
  BY <1>2 DEF Submit
<1>3. ASSUME NEW tk \in tickets, BrokerMoves(tk) \/ Cancel(tk)
      PROVE  \E state : MovesOn(tk, state) /\ Becomes(tk, state)
  BY <1>3 DEF BrokerMoves, Cancel, Ends, Live, MovesOn
<1>4. CASE \/ \E k \in Switches : Arm(k) \/ Disarm(k)
           \/ \E down \in SUBSET Accounts : ReconcileRead(down) \/ FlattenRead(down)
           \/ ReconcileArm \/ FlattenNotTaken \/ Crash \/ UNCHANGED vars
  BY <1>4 DEF Arm, Disarm, ReconcileRead, ReconcileArm, FlattenRead, FlattenNotTaken, Crash,
     vars
<1>5. QED
  BY <1>1, <1>2, <1>3, <1>4 DEF Next

(* What a thread has taken is a fresh ticket of the child in hand.         *)
LEMMA TakenEffect ==
  ASSUME TypeInv, NEW t \in Threads, SendAcked(t) \/ SendLost(t)
  PROVE  \E a \in Accounts : \E q \in 0..Size(Child(t)) :
           /\ pc[t] = "send" /\ route[t] # <<>> /\ a = Head(route[t])
           /\ TicketNums \ Used(a) # {}
           /\ Opens(a, Child(t), q)
           /\ SendAcked(t) =>
                ack' = [ack EXCEPT ![t] =
                          [acct |-> a, num |-> Fresh(a), units |-> ReportedUnits(q),
                           status |-> Answer(Child(t), q)]]
<1>1. Head(route[t]) \in Accounts
  BY HeadTailProperties DEF SendAcked, SendLost, TypeInv, TypeOK
<1>2. CASE SendAcked(t)
  BY <1>1, <1>2 DEF SendAcked
<1>3. CASE SendLost(t)
  <2>1. ~SendAcked(t)
    <3>1. pc'[t] # "acked"
      BY <1>3 DEF SendLost
    <3>2. SendAcked(t) => pc'[t] = "acked"
      BY DEF SendAcked, Goto, TypeInv, TypeOK
    <3>3. QED
      BY <3>1, <3>2
  <2>2. QED
    BY <1>1, <1>3, <2>1 DEF SendLost
<1>4. QED
  BY <1>2, <1>3

-----------------------------------------------------------------------------
(* A fill in the OMS is a fill at a broker                                 *)

Witnessed(o) == \E tk \in TicketsOf(o) : Executes(tk)

(* Every ticket of a child, resting or not, is on the side of its intent.  *)
OnSide == \A tk \in Sent : SideOf[tk.order.intent] * tk.units > 0

(* A fill on its way to the OMS has its ticket already.                    *)
FillsWitnessed ==
  \A t \in Threads :
    /\ pc[t] = "fill" => ack[t].status = "FILLED"
    /\ pc[t] \in {"acked", "fill"} /\ ack[t].status = "FILLED" => Witnessed(Child(t))

(* FillIsReal is not inductive: the OMS books what an answer says, so the  *)
(* answer must be true, and what made it true must not go away.            *)
FillInv == OnSide /\ FillsWitnessed /\ FillIsReal

LEMMA InitFill == Init => FillInv
  BY DEF Init, FillInv, OnSide, FillsWitnessed, FillIsReal, Sent, NONE

(* The child of a new ticket, its side and its state.                      *)
LEMMA TakenFields ==
  ASSUME NEW a \in Accounts, NEW o \in Orders, NEW q \in 0..Size(o)
  PROVE  /\ Taken(a, o, q).order = o
         /\ SideOf[o.intent] * Taken(a, o, q).units > 0
         /\ q # 0 => Taken(a, o, q).state = "open"
         /\ o # Flat
<1>1. Size(o) \in Nat \ {0} /\ q \in Nat
  BY SizeBounds, ConstantsAssumption
<1>2. SideOf[o.intent] \in {1, -1}
  BY ConstantsAssumption DEF Orders
<1>3. \A u \in Nat \ {0} : SideOf[o.intent] * Signed(o, u) > 0
  BY <1>2 DEF Signed
<1>4. o # Flat
  BY DEF Orders, Flat
<1>5. QED
  BY <1>1, <1>3, <1>4 DEF Taken

(* Tickets stay on the side of their order.                                *)
LEMMA OnSideStep ==
  ASSUME TypeInv, OnSide, [Next]_vars
  PROVE  OnSide'
<1>1. SUFFICES ASSUME NEW tk \in tickets', tk.order # Flat
               PROVE  SideOf[tk.order.intent] * tk.units > 0
  BY DEF OnSide, Sent
<1>2. CASE tk \in tickets
  BY <1>1, <1>2 DEF OnSide, Sent
<1>3. ASSUME NEW t \in Threads, SendAcked(t) \/ SendLost(t), tk \notin tickets
      PROVE  SideOf[tk.order.intent] * tk.units > 0
  <2>1. PICK a \in Accounts, q \in 0..Size(Child(t)) : Opens(a, Child(t), q) /\ pc[t] = "send"
    BY <1>3, TakenEffect
  <2>2. Child(t) \in Orders
    BY <2>1, ChildType
  <2>3. tk = Taken(a, Child(t), q)
    BY <1>3, <2>1 DEF Opens
  <2>4. QED
    BY <2>2, <2>3, TakenFields
<1>4. ASSUME NEW x \in tickets, NEW state, Becomes(x, state), tk \notin tickets
      PROVE  SideOf[tk.order.intent] * tk.units > 0
  <2>1. tk = [x EXCEPT !.state = state] /\ x \in Ticket
    BY <1>4 DEF Becomes, TypeInv, TypeOK
  <2>2. tk.order = x.order /\ tk.units = x.units
    BY <2>1 DEF Ticket
  <2>3. QED
    BY <1>1, <2>2 DEF OnSide, Sent
<1>5. ASSUME FlattenTaken, tk \notin tickets
      PROVE  FALSE
  BY <1>1, <1>5 DEF FlattenTaken, Opposing
<1>6. QED
  BY <1>2, <1>3, <1>4, <1>5, BooksStep

(* What a broker has executed stays executed.                              *)
LEMMA WitnessKept ==
  ASSUME TypeInv, [Next]_vars, NEW o \in Orders, Witnessed(o)
  PROVE  Witnessed(o)'
<1>1. PICK tk \in tickets : tk.order = o /\ Executes(tk)
  BY DEF Witnessed, TicketsOf
<1>2. tk \in tickets' => Witnessed(o)'
  BY <1>1 DEF Witnessed, TicketsOf, Executes
<1>3. CASE \E t \in Threads : SendAcked(t) \/ SendLost(t)
  <2>1. tk \in tickets'
    BY <1>1, <1>3 DEF SendAcked, SendLost, Opens
  <2>2. QED
    BY <1>2, <2>1
<1>4. ASSUME NEW x \in tickets, NEW state, MovesOn(x, state), Becomes(x, state)
      PROVE  Witnessed(o)'
  <2>1. CASE x # tk
    BY <1>1, <1>2, <1>4, <2>1 DEF Becomes
  <2>2. CASE x = tk
    <3> DEFINE new == [tk EXCEPT !.state = "closed"]
    <3>1. state = "closed"
      BY <1>1, <1>4, <2>2 DEF MovesOn, Executes
    <3>2. new \in tickets'
      BY <1>4, <2>2, <3>1 DEF Becomes
    <3>3. new.order = o /\ new.units = tk.units /\ new.state = "closed"
      BY <1>1 DEF TypeInv, TypeOK, Ticket
    <3>4. QED
      BY <1>1, <3>2, <3>3 DEF Witnessed, TicketsOf, Executes
  <2>3. QED
    BY <2>1, <2>2
<1>5. CASE FlattenTaken
  BY <1>1, <1>2, <1>5 DEF FlattenTaken
<1>6. CASE UNCHANGED tickets
  BY <1>1, <1>2, <1>6
<1>7. QED
  BY <1>3, <1>4, <1>5, <1>6, BooksStep

(* After a step a thread is about to book a fill only if it was before, or *)
(* its order has just been taken.                                          *)
LEMMA FillSteps ==
  ASSUME TypeInv, NEW t \in Threads, ThreadStep(t), pc'[t] \in {"acked", "fill"}
  PROVE  \/ SendAcked(t) \/ SendDeclined(t) \/ Acknowledge(t)
         \/ pc'[t] = pc[t] /\ ack' = ack
<1> USE DEF TypeInv, TypeOK, Goto
<1>1. CASE \/ OmsClear(t) \/ OmsRoute(t) \/ PersistPending(t) \/ RoutesFailed(t)
           \/ Attribute(t) \/ RecordFill(t)
  BY <1>1 DEF OmsClear, OmsRoute, PersistPending, RoutesFailed, Attribute, RecordFill
<1>2. CASE ProcessFill(t)
  <2>1. pc'[t] = "attribute" \/ pc'[t] = "record"
    BY <1>2 DEF ProcessFill
  <2>2. QED
    BY <2>1
<1>3. CASE OmsReject(t)
  BY <1>3 DEF OmsReject, Return
<1>4. CASE MarkUnknown(t) \/ PersistAck(t)
  BY <1>4, NextChildJournaled DEF MarkUnknown, PersistAck
<1>5. CASE SendLost(t) \/ SendFailed(t) \/ SendRefused(t)
  BY <1>5 DEF SendLost, SendFailed, SendRefused
<1>6. QED
  BY <1>1, <1>2, <1>3, <1>4, <1>5 DEF ThreadStep

LEMMA FillsWitnessedStep ==
  ASSUME TypeInv, FillsWitnessed, [Next]_vars
  PROVE  FillsWitnessed'
<1> USE DEF TypeInv, TypeOK
<1>1. ASSUME NEW u \in Threads, pc'[u] = pc[u], queue'[u] = queue[u], ack'[u] = ack[u]
      PROVE  /\ pc'[u] = "fill" => ack'[u].status = "FILLED"
             /\ pc'[u] \in {"acked", "fill"} /\ ack'[u].status = "FILLED" =>
                  Witnessed(Child(u))'
  <2>1. Child(u)' = Child(u)
    BY <1>1 DEF Child
  <2>2. pc'[u] \in {"acked", "fill"} => Child(u) \in Orders
    BY <1>1, ChildType
  <2>3. Witnessed(Child(u))' = \E tk \in TicketsOf(Child(u))' : Executes(tk)'
    BY DEF Witnessed
  <2>4. Child(u) \in Orders /\ Witnessed(Child(u)) => Witnessed(Child(u))'
    <3>1. SUFFICES ASSUME Child(u) \in Orders, Witnessed(Child(u))
                   PROVE  Witnessed(Child(u))'
      OBVIOUS
    <3>2. PICK o \in Orders : o = Child(u)
      BY <3>1
    <3>3. Witnessed(o)'
      BY <3>1, <3>2, WitnessKept
    <3>4. QED
      BY <2>1, <3>2, <3>3 DEF Witnessed, TicketsOf
  <2>5. QED
    BY <1>1, <2>2, <2>4 DEF FillsWitnessed
<1>2. ASSUME NEW t \in Threads, ThreadStep(t)
      PROVE  /\ pc'[t] = "fill" => ack'[t].status = "FILLED"
             /\ pc'[t] \in {"acked", "fill"} /\ ack'[t].status = "FILLED" =>
                  Witnessed(Child(t))'
  <2>1. CASE SendAcked(t)
    <3>1. PICK a \in Accounts, q \in 0..Size(Child(t)) :
            /\ Opens(a, Child(t), q) /\ pc[t] = "send"
            /\ ack' = [ack EXCEPT ![t] =
                         [acct |-> a, num |-> Fresh(a), units |-> ReportedUnits(q),
                          status |-> Answer(Child(t), q)]]
      BY <2>1, TakenEffect
    <3>2. pc'[t] = "acked" /\ queue' = queue
      BY <2>1 DEF SendAcked, Goto
    <3>3. Child(t) \in Orders /\ Child(t)' = Child(t)
      BY <3>1, <3>2, ChildType DEF Child
    <3>4. ASSUME q # 0 PROVE Witnessed(Child(t))'
      <4> DEFINE new == Taken(a, Child(t), q)
      <4>1. new.order = Child(t) /\ new.state = "open" /\ SideOf[Child(t).intent] * new.units > 0
        BY <3>3, <3>4, TakenFields
      <4>2. new \in tickets'
        BY <3>1 DEF Opens
      <4> HIDE DEF new
      <4>3. QED
        BY <3>3, <4>1, <4>2 DEF Witnessed, TicketsOf, Executes
    <3>5. ack'[t].status = Answer(Child(t), q)
      BY <3>1
    <3>6. ack'[t].status = "FILLED" => q # 0
      BY <3>3, <3>5, AnswerType
    <3>7. QED
      BY <3>2, <3>4, <3>6
  <2>2. CASE SendDeclined(t)
    BY <2>2 DEF SendDeclined, Goto
  <2>3. CASE Acknowledge(t)
    <3>1. /\ queue' = queue /\ ack' = ack /\ UNCHANGED tickets /\ pc[t] = "acked"
          /\ pc'[t] = "fill" => ack[t].status = "FILLED"
      BY <2>3 DEF Acknowledge, Goto, oms
    <3>2. Witnessed(Child(t)) => Witnessed(Child(t))'
      BY <3>1 DEF Child, Witnessed, TicketsOf
    <3>3. QED
      BY <3>1, <3>2 DEF FillsWitnessed
  <2>4. CASE pc'[t] \notin {"acked", "fill"}
    BY <2>4
  <2>5. CASE pc'[t] \in {"acked", "fill"} /\ pc'[t] = pc[t] /\ ack' = ack
    <3>1. queue'[t] = queue[t]
      BY <1>2, <2>5
      DEF ThreadStep, OmsClear, OmsReject, OmsRoute, PersistPending, SendAcked, SendDeclined,
          SendLost, SendFailed, SendRefused, RoutesFailed, MarkUnknown, Acknowledge,
          ProcessFill, Attribute, RecordFill, PersistAck
    <3>2. QED
      BY <1>1, <2>5, <3>1
  <2>6. QED
    BY <1>2, <2>1, <2>2, <2>3, <2>4, <2>5, FillSteps
<1>3. ASSUME NEW t \in Threads, NEW r \in Requests, Submit(t, r)
      PROVE  pc'[t] = "checked"
  BY <1>3 DEF Submit, Goto
<1>4. CASE ThreadMoves
  <2>1. PICK t \in Threads : ThreadStep(t) \/ \E r \in Requests : Submit(t, r)
    BY <1>4 DEF ThreadMoves
  <2>2. \A u \in Threads \ {t} : pc'[u] = pc[u] /\ queue'[u] = queue[u] /\ ack'[u] = ack[u]
    BY <2>1, OthersKeep
  <2>3. QED
    BY <1>1, <1>2, <1>3, <2>1, <2>2 DEF FillsWitnessed
<1>5. CASE Crash
  BY <1>5 DEF Crash, FillsWitnessed
<1>6. CASE ~ThreadMoves /\ ~Crash
  <2>1. UNCHANGED thread
    BY <1>6, SurroundingsKeep
  <2>2. QED
    BY <1>1, <2>1 DEF thread, FillsWitnessed
<1>7. QED
  BY <1>4, <1>5, <1>6

(* Only a fill on its way makes an order FILLED.                           *)
LEMMA FilledBy ==
  ASSUME TypeInv, [Next]_vars, NEW o \in Orders, sm'[o] = "FILLED", sm[o] # "FILLED"
  PROVE  \E t \in Threads : pc[t] = "fill" /\ o = Child(t)
<1> USE DEF TypeInv, TypeOK, oms, thread, db, loops, bounds
<1>1. ASSUME NEW t \in Threads, ThreadStep(t)
      PROVE  pc[t] = "fill" /\ o = Child(t)
  <2>1. CASE ProcessFill(t)
    BY <2>1 DEF ProcessFill
  <2>2. CASE Acknowledge(t)
    BY <2>2 DEF Acknowledge
  <2>3. CASE MarkUnknown(t)
    BY <2>3 DEF MarkUnknown
  <2>4. CASE OmsRoute(t)
    BY <2>4, RouteEffect
  <2>5. CASE UNCHANGED sm
    BY <2>5
  <2>6. QED
    BY <1>1, <2>1, <2>2, <2>3, <2>4, <2>5
    DEF ThreadStep, OmsClear, OmsReject, PersistPending, SendAcked, SendDeclined, SendLost,
        SendFailed, SendRefused, RoutesFailed, Attribute, RecordFill, PersistAck
<1>2. ASSUME NEW t \in Threads, NEW r \in Requests, Submit(t, r)
      PROVE  FALSE
  BY <1>2 DEF Submit
<1>3. CASE Crash
  BY <1>3 DEF Crash, NONE
<1>4. CASE ~ThreadMoves /\ ~Crash
  BY <1>4, SurroundingsKeep
<1>5. QED
  BY <1>1, <1>2, <1>3, <1>4 DEF ThreadMoves

LEMMA FillStep == TypeInv /\ FillInv /\ [Next]_vars => FillInv'
<1>1. SUFFICES ASSUME TypeInv, FillInv, [Next]_vars PROVE FillInv'
  OBVIOUS
<1>2. OnSide' /\ FillsWitnessed'
  BY <1>1, OnSideStep, FillsWitnessedStep DEF FillInv
<1>3. ASSUME NEW o \in Orders, sm'[o] = "FILLED" PROVE Witnessed(o)'
  <2>1. CASE sm[o] = "FILLED"
    BY <1>1, <2>1, WitnessKept DEF FillInv, FillIsReal, Witnessed
  <2>2. CASE sm[o] # "FILLED"
    <3>1. PICK t \in Threads : pc[t] = "fill" /\ o = Child(t)
      BY <1>1, <1>3, <2>2, FilledBy
    <3>2. Witnessed(o)
      BY <1>1, <3>1 DEF FillInv, FillsWitnessed
    <3>3. QED
      BY <1>1, <3>2, WitnessKept
  <2>3. QED
    BY <2>1, <2>2
<1>4. FillIsReal'
  BY <1>3 DEF FillIsReal, Witnessed
<1>5. QED
  BY <1>2, <1>4 DEF FillInv

(* Whatever is lost, retried, resubmitted or restarted: when the OMS says  *)
(* FILLED (oms.py:198), some broker has executed a part of the order.      *)
THEOREM FillsAreReal == Spec => []FillIsReal
<1>1. FillInv => FillIsReal
  BY DEF FillInv
<1>2. QED
  BY <1>1, InitType, TypeStep, InitFill, FillStep, PTL DEF Spec

-----------------------------------------------------------------------------
(* The orders table and the state machines agree                           *)

(* A thread routes distinct children, all of the intent it serves.         *)
OwnChildren ==
  \A t \in Threads :
    /\ \A k \in DOMAIN queue[t] : queue[t][k].intent = req[t].intent
    /\ \A j, k \in DOMAIN queue[t] : queue[t][j] = queue[t][k] => j = k

(* Each request at work has been counted, two of one intent twice.         *)
Counted ==
  \A t \in Threads : pc[t] # "idle" =>
    /\ submits[req[t].intent] >= 1
    /\ \A u \in Threads \ {t} :
         pc[u] # "idle" /\ req[u].intent = req[t].intent => submits[req[t].intent] >= 2

(* What is written of an answer other than FILLED, given the units in it.  *)
Told(o, units) == IF 0 < units /\ units < Size(o) THEN "PARTIALLY_FILLED" ELSE "SUBMITTED"

(* How far the state machine, the filled units and the row of the child in *)
(* hand are at each step, and with which answer.                           *)
InFlight(t, o) ==
  /\ pc[t] \in {"loop", "send", "acked"} => sm[o] = "SUBMITTED" /\ filled[o] = 0
  /\ pc[t] = "acked" /\ ack[t].status # "FILLED" => ack[t].status = Told(o, ack[t].units)
  /\ pc[t] = "failed" => sm[o] = "SUBMITTED" /\ rows[o] = "REJECTED"
  /\ pc[t] = "fill" => sm[o] = "ACKED" /\ ack[t].status = "FILLED"
  /\ pc[t] \in {"attribute", "record"} =>
       sm[o] \in {"PARTIALLY_FILLED", "FILLED"} /\ ack[t].status = "FILLED"
  /\ pc[t] = "persist" =>
       IF ack[t].status = "FILLED"
       THEN sm[o] \in {"PARTIALLY_FILLED", "FILLED"}
       ELSE sm[o] = "ACKED" /\ ack[t].status = Told(o, filled[o])

(* While an intent has been submitted once, nobody else touches what its   *)
(* thread has in hand: the orders behind the first are still SUBMITTED,    *)
(* with nothing filled.                                                    *)
Untouched(o) == sm[o] = "SUBMITTED" /\ filled[o] = 0

Undisturbed ==
  \A t \in Threads : \A k \in DOMAIN queue[t] :
    submits[req[t].intent] <= 1 =>
      IF k = 1 THEN InFlight(t, queue[t][1]) ELSE Untouched(queue[t][k])

(* An order has nothing filled before its intent is first routed.          *)
Unrouted(i) ==
  \/ submits[i] = 0
  \/ submits[i] <= 1 /\ \E t \in Threads : pc[t] \in {"checked", "cleared"} /\ req[t].intent = i

Unfilled == \A o \in Orders : Unrouted(o.intent) => filled[o] = 0

AgreeInv == OwnChildren /\ Counted /\ Unfilled /\ Undisturbed /\ JournalAgrees

LEMMA InitAgree == Init => AgreeInv
  BY DEF Init, AgreeInv, OwnChildren, Counted, Unfilled, Undisturbed, JournalAgrees

(* A step of a thread leaves the orders alone that it has not in hand.     *)
InHand(t) == {queue[t][k] : k \in DOMAIN queue[t]}

LEMMA OnlyInHand ==
  ASSUME TypeInv, NEW t \in Threads, ThreadStep(t), NEW o \in Orders,
         o \notin InHand(t), o \notin InHand(t)'
  PROVE  sm'[o] = sm[o] /\ filled'[o] = filled[o] /\ rows'[o] = rows[o]
<1> USE DEF TypeInv, TypeOK, oms, db
<1>1. pc[t] \notin {"idle", "checked", "cleared"} => Child(t) \in Orders /\ Child(t) # o
  <2>1. SUFFICES ASSUME pc[t] \notin {"idle", "checked", "cleared"}
                 PROVE  Child(t) \in Orders /\ Child(t) # o
    OBVIOUS
  <2>2. Child(t) \in Orders /\ queue[t] # <<>>
    BY <2>1, ChildType
  <2>3. 1 \in DOMAIN queue[t] /\ queue[t][1] = Child(t)
    BY <2>2, EmptySeq DEF Child
  <2>4. QED
    BY <2>2, <2>3 DEF InHand
<1>2. CASE OmsRoute(t)
  <2>1. rows' = rows
    BY <1>2 DEF OmsRoute
  <2>2. PICK children \in Seq(Orders) :
          /\ queue' = [queue EXCEPT ![t] = children]
          /\ sm' = [x \in Orders |->
               IF \E k \in DOMAIN children : children[k] = x THEN "SUBMITTED" ELSE sm[x]]
          /\ filled' = [x \in Orders |->
               IF (\E k \in DOMAIN children : children[k] = x) /\ x \notin cache
               THEN 0 ELSE filled[x]]
    BY <1>2, RouteEffect
  <2>3. queue'[t] = children
    BY <2>2
  <2>4. ~ \E k \in DOMAIN children : children[k] = o
    BY <2>3 DEF InHand
  <2>5. QED
    BY <2>1, <2>2, <2>4
<1>3. CASE MarkUnknown(t)
  BY <1>1, <1>3 DEF MarkUnknown
<1>4. CASE Acknowledge(t) \/ ProcessFill(t)
  <2>1. pc[t] \notin {"idle", "checked", "cleared"} /\ rows' = rows
    BY <1>4 DEF Acknowledge, ProcessFill
  <2>2. \E x : sm' = [sm EXCEPT ![Child(t)] = x] \/ sm' = sm
    BY <1>4 DEF Acknowledge, ProcessFill
  <2>3. \E x : filled' = [filled EXCEPT ![Child(t)] = x]
    BY <1>4 DEF Acknowledge, ProcessFill
  <2>4. QED
    BY <1>1, <2>1, <2>2, <2>3
<1>5. CASE PersistPending(t) \/ RoutesFailed(t) \/ PersistAck(t)
  BY <1>1, <1>5 DEF PersistPending, RoutesFailed, PersistAck
<1>6. CASE UNCHANGED <<sm, filled, rows>>
  BY <1>6
<1>7. QED
  BY <1>2, <1>3, <1>4, <1>5, <1>6
  DEF ThreadStep, OmsClear, OmsReject, SendAcked, SendDeclined, SendLost, SendFailed,
      SendRefused, Attribute, RecordFill

(* What a step does with the queue of a thread: it is emptied, filled with *)
(* distinct children of the intent, shortened by its head, or kept.        *)
LEMMA QueueSteps ==
  ASSUME TypeInv, NEW t \in Threads, ThreadStep(t)
  PROVE  \/ pc'[t] = "idle" /\ queue'[t] = <<>>
         \/ /\ req'[t] = req[t]
            /\ \/ queue'[t] = queue[t] /\ pc[t] # "idle"
               \/ OmsRoute(t)
               \/ /\ MarkUnknown(t) \/ PersistAck(t)
                  /\ queue[t] # <<>> /\ Len(queue[t]) # 1
                  /\ pc'[t] = "loop" /\ queue'[t] = Tail(queue[t])
<1> USE DEF TypeInv, TypeOK, Goto, thread
<1>1. CASE OmsReject(t)
  BY <1>1 DEF OmsReject, Return
<1>2. CASE OmsRoute(t)
  BY <1>2 DEF OmsRoute
<1>3. CASE MarkUnknown(t) \/ PersistAck(t)
  <2>1. NextChild(t) /\ queue[t] # <<>>
    BY <1>3, ChildType DEF MarkUnknown, PersistAck
  <2>2. CASE Len(queue[t]) = 1
    BY <2>1, <2>2 DEF NextChild, Return
  <2>3. CASE Len(queue[t]) # 1
    BY <1>3, <2>1, <2>3 DEF NextChild
  <2>4. QED
    BY <2>2, <2>3
<1>4. CASE \/ OmsClear(t) \/ PersistPending(t) \/ SendAcked(t) \/ SendDeclined(t)
           \/ SendLost(t) \/ SendFailed(t) \/ SendRefused(t) \/ RoutesFailed(t)
           \/ Acknowledge(t) \/ ProcessFill(t) \/ Attribute(t) \/ RecordFill(t)
  <2>1. req' = req /\ queue' = queue /\ pc[t] # "idle"
    BY <1>4
    DEF OmsClear, PersistPending, SendAcked, SendDeclined, SendLost, SendFailed, SendRefused,
        RoutesFailed, Acknowledge, ProcessFill, Attribute, RecordFill
  <2>2. QED
    BY <2>1
<1>5. QED
  BY <1>1, <1>2, <1>3, <1>4 DEF ThreadStep

(* The elements behind the head.                                           *)
LEMMA TailElements ==
  ASSUME NEW s \in Seq(Orders), s # <<>>, NEW k \in DOMAIN Tail(s)
  PROVE  k + 1 \in DOMAIN s /\ Tail(s)[k] = s[k + 1] /\ k \in Nat \ {0}
<1>1. Len(s) \in Nat \ {0} /\ Len(Tail(s)) = Len(s) - 1 /\ DOMAIN Tail(s) = 1..Len(Tail(s))
      /\ DOMAIN s = 1..Len(s)
  BY HeadTailProperties, EmptySeq, LenProperties
<1>2. k \in 1..(Len(s) - 1)
  BY <1>1
<1>3. QED
  BY <1>1, <1>2

LEMMA OwnChildrenStep ==
  ASSUME TypeInv, OwnChildren, [Next]_vars
  PROVE  OwnChildren'
<1> USE DEF TypeInv, TypeOK
<1> DEFINE Own(u) == /\ \A k \in DOMAIN queue'[u] : queue'[u][k].intent = req'[u].intent
                     /\ \A j, k \in DOMAIN queue'[u] : queue'[u][j] = queue'[u][k] => j = k
<1>1. ASSUME NEW u \in Threads, queue'[u] = <<>> PROVE Own(u)
  BY <1>1
<1>2. ASSUME NEW u \in Threads, queue'[u] = queue[u], req'[u] = req[u] PROVE Own(u)
  BY <1>2 DEF OwnChildren
<1>3. ASSUME NEW t \in Threads, ThreadStep(t) PROVE Own(t)
  <2>1. CASE OmsRoute(t)
    <3>1. PICK children \in Seq(Orders) :
            /\ \A k \in DOMAIN children : children[k].intent = req[t].intent
            /\ \A j, k \in DOMAIN children : children[j] = children[k] => j = k
            /\ queue' = [queue EXCEPT ![t] = children]
      BY <2>1, RouteEffect
    <3>2. queue'[t] = children /\ req'[t] = req[t]
      BY <2>1, <3>1 DEF OmsRoute
    <3>3. QED
      BY <3>1, <3>2
  <2>2. CASE queue[t] # <<>> /\ queue'[t] = Tail(queue[t]) /\ req'[t] = req[t]
    <3>1. queue[t] \in Seq(Orders)
      OBVIOUS
    <3>2. ASSUME NEW k \in DOMAIN queue'[t]
          PROVE  k + 1 \in DOMAIN queue[t] /\ queue'[t][k] = queue[t][k + 1] /\ k \in Nat
      BY <2>2, <3>1, TailElements
    <3>3. ASSUME NEW j \in DOMAIN queue'[t], NEW k \in DOMAIN queue'[t],
                 queue'[t][j] = queue'[t][k]
          PROVE  j = k
      <4>1. j + 1 = k + 1 /\ j \in Nat /\ k \in Nat
        BY <3>2, <3>3 DEF OwnChildren
      <4>2. QED
        BY <4>1
    <3>4. QED
      BY <2>2, <3>2, <3>3 DEF OwnChildren
  <2>3. QED
    BY <1>1, <1>2, <1>3, <2>1, <2>2, QueueSteps
<1>4. ASSUME NEW t \in Threads, NEW r \in Requests, Submit(t, r) PROVE Own(t)
  BY <1>1, <1>4 DEF Submit, Holding
<1> HIDE DEF Own
<1>5. CASE ThreadMoves
  <2>1. PICK t \in Threads : ThreadStep(t) \/ \E r \in Requests : Submit(t, r)
    BY <1>5 DEF ThreadMoves
  <2>2. \A u \in Threads \ {t} : Own(u)
    BY <1>2, <2>1, OthersKeep
  <2>3. \A u \in Threads : Own(u)
    BY <1>3, <1>4, <2>1, <2>2
  <2>4. QED
    BY <2>3 DEF OwnChildren, Own
<1>6. CASE Crash
  BY <1>6 DEF Crash, OwnChildren
<1>7. CASE ~ThreadMoves /\ ~Crash
  BY <1>7, SurroundingsKeep DEF thread, OwnChildren
<1>8. QED
  BY <1>5, <1>6, <1>7

(* A step other than Submit counts nothing, and nobody becomes busy.       *)
LEMMA CountedStep ==
  ASSUME TypeInv, Counted, [Next]_vars
  PROVE  Counted'
<1> USE DEF TypeInv, TypeOK
<1>1. ASSUME NEW t \in Threads, NEW r \in Requests, Submit(t, r) PROVE Counted'
  <2>1. /\ pc[t] = "idle" /\ pc'[t] = "checked" /\ req'[t] = r /\ r.intent \in Intents
        /\ submits' = [submits EXCEPT ![r.intent] = @ + 1]
    BY <1>1 DEF Submit, Goto, Requests
  <2>2. \A i \in Intents : submits[i] \in Nat
    BY ConstantsAssumption
  <2>3. submits'[r.intent] >= 1 /\ \A i \in Intents : submits'[i] \in Nat /\ submits'[i] >= submits[i]
    BY <2>1, <2>2
  <2>4. \A u \in Threads \ {t} : pc'[u] = pc[u] /\ req'[u] = req[u] /\ req[u].intent \in Intents
    BY <1>1, OthersKeep DEF Requests
  <2>5. ASSUME NEW u \in Threads \ {t}, pc[u] # "idle", req[u].intent = r.intent
        PROVE  submits'[r.intent] >= 2
    BY <2>1, <2>2, <2>5 DEF Counted
  <2>6. ASSUME NEW u \in Threads, NEW v \in Threads, u # v, pc'[u] # "idle", pc'[v] # "idle",
               req'[u].intent = req'[v].intent
        PROVE  submits'[req'[u].intent] >= 2
    <3>1. CASE u = t
      <4>1. pc[v] # "idle" /\ req[v].intent = r.intent /\ v \in Threads \ {t}
        BY <2>1, <2>4, <2>6, <3>1
      <4>2. QED
        BY <2>1, <2>5, <3>1, <4>1
    <3>3. CASE v = t
      <4>1. pc[u] # "idle" /\ req[u].intent = r.intent /\ u \in Threads \ {t}
        BY <2>1, <2>4, <2>6, <3>3
      <4>2. QED
        BY <2>1, <2>4, <2>5, <4>1
    <3>2. CASE u # t /\ v # t
      <4>1. submits[req[u].intent] >= 2
        BY <2>4, <2>6, <3>2 DEF Counted
      <4>2. req'[u] = req[u] /\ req[u].intent \in Intents
        BY <2>4, <3>2
      <4>3. \A i \in Intents : submits[i] >= 2 => submits'[i] >= 2
        BY <2>2, <2>3, SMTT(30)
      <4>4. QED
        BY <4>1, <4>2, <4>3
    <3>4. QED
      BY <3>1, <3>2, <3>3
  <2>7. ASSUME NEW u \in Threads, pc'[u] # "idle" PROVE submits'[req'[u].intent] >= 1
    <3>1. CASE u = t
      BY <2>1, <2>3, <3>1
    <3>2. CASE u # t
      BY <2>2, <2>3, <2>4, <2>7, <3>2, SMTT(30) DEF Counted
    <3>3. QED
      BY <3>1, <3>2
  <2>8. QED
    BY <2>6, <2>7 DEF Counted
<1>2. ASSUME NEW t \in Threads, ThreadStep(t) PROVE Counted'
  <2>1. submits' = submits
    BY <1>2 DEF ThreadStep, OmsClear, OmsReject, OmsRoute, PersistPending, SendAcked,
       SendDeclined, SendLost, SendFailed, SendRefused, RoutesFailed, MarkUnknown, Acknowledge,
       ProcessFill, Attribute, RecordFill, PersistAck, bounds
  <2>2. pc'[t] # "idle" => req'[t] = req[t] /\ pc[t] # "idle"
    BY <1>2, QueueSteps, ChildType DEF OmsRoute, MarkUnknown, PersistAck
  <2>3. \A u \in Threads \ {t} : pc'[u] = pc[u] /\ req'[u] = req[u]
    BY <1>2, OthersKeep
  <2>4. \A u \in Threads : pc'[u] # "idle" => pc[u] # "idle" /\ req'[u] = req[u]
    BY <2>2, <2>3
  <2>5. QED
    BY <2>1, <2>4 DEF Counted
<1>3. CASE Crash
  BY <1>3 DEF Crash, Counted
<1>4. CASE ~ThreadMoves /\ ~Crash
  BY <1>4, SurroundingsKeep DEF thread, Counted
<1>5. QED
  BY <1>1, <1>2, <1>3, <1>4 DEF ThreadMoves

(* Only a thread that serves the intent fills an order of it, and two such *)
(* threads have submitted it twice.                                        *)
LEMMA UnfilledStep ==
  ASSUME TypeInv, OwnChildren, Counted, Unfilled, [Next]_vars
  PROVE  Unfilled'
<1> USE DEF TypeInv, TypeOK
<1>1. SUFFICES ASSUME NEW o \in Orders, Unrouted(o.intent)' PROVE filled'[o] = 0
  BY DEF Unfilled
<1> DEFINE i == o.intent
<1>2. i \in Intents /\ \A j \in Intents : submits[j] \in Nat
  BY ConstantsAssumption DEF Orders
<1> HIDE DEF i
<1>3. ASSUME filled'[o] = filled[o], Unrouted(i) PROVE filled'[o] = 0
  BY <1>3 DEF Unfilled, i
<1>4. ASSUME NEW t \in Threads, ThreadStep(t) PROVE filled'[o] = 0
  <2>1. submits' = submits
    BY <1>4 DEF ThreadStep, OmsClear, OmsReject, OmsRoute, PersistPending, SendAcked,
       SendDeclined, SendLost, SendFailed, SendRefused, RoutesFailed, MarkUnknown, Acknowledge,
       ProcessFill, Attribute, RecordFill, PersistAck, bounds
  <2>2. pc[t] # "idle" /\ (req'[t] = req[t] \/ queue'[t] = <<>>)
    BY <1>4, QueueSteps, ChildType
    DEF ThreadStep, OmsClear, OmsReject, OmsRoute, PersistPending, SendAcked, SendDeclined,
        SendLost, SendFailed, SendRefused, RoutesFailed, MarkUnknown, Acknowledge,
        ProcessFill, Attribute, RecordFill, PersistAck
  <2>3. ASSUME i # req[t].intent PROVE filled'[o] = filled[o]
    <3>1. o \notin InHand(t)
      BY <2>3 DEF InHand, OwnChildren, i
    <3>2. OwnChildren'
      BY OwnChildrenStep
    <3>3. \A k \in DOMAIN queue'[t] : queue'[t][k].intent = req[t].intent
      BY <2>2, <3>2 DEF OwnChildren
    <3>4. o \notin InHand(t)'
      BY <2>3, <3>3 DEF InHand, i
    <3>5. QED
      BY <1>4, <3>1, <3>4, OnlyInHand
  <2>4. CASE submits[i] = 0
    <3>1. i # req[t].intent
      BY <2>2, <2>4 DEF Counted
    <3>2. QED
      BY <1>3, <2>3, <2>4, <3>1 DEF Unrouted
  <2>5. CASE submits[i] # 0
    <3>1. PICK u \in Threads :
            submits[i] <= 1 /\ pc'[u] \in {"checked", "cleared"} /\ req'[u].intent = i
      BY <1>1, <2>1, <2>5 DEF Unrouted, i
    <3>2. CASE u = t
      <4>1. OmsClear(t)
        BY <1>4, <3>1, <3>2, NextChildJournaled
        DEF ThreadStep, OmsClear, OmsReject, OmsRoute, PersistPending, SendAcked, SendDeclined,
            SendLost, SendFailed, SendRefused, RoutesFailed, MarkUnknown, Acknowledge,
            ProcessFill, Attribute, RecordFill, PersistAck, Return, Goto
      <4>2. pc[t] = "checked" /\ req' = req /\ filled' = filled
        BY <4>1 DEF OmsClear, oms
      <4>3. QED
        BY <1>3, <3>1, <3>2, <4>2 DEF Unrouted
    <3>3. CASE u # t
      <4>1. pc[u] = pc'[u] /\ req[u] = req'[u]
        BY <1>4, <3>3, OthersKeep
      <4>2. pc[u] # "idle" /\ req[u].intent = i
        BY <3>1, <4>1
      <4>3. i = req[t].intent => submits[i] >= 2
        BY <2>2, <3>3, <4>2 DEF Counted
      <4>4. i # req[t].intent
        BY <1>2, <3>1, <4>3
      <4>5. Unrouted(i)
        BY <3>1, <4>1 DEF Unrouted
      <4>6. QED
        BY <1>3, <2>3, <4>4, <4>5
    <3>4. QED
      BY <3>2, <3>3
  <2>6. QED
    BY <2>4, <2>5
<1>5. ASSUME NEW t \in Threads, NEW r \in Requests, Submit(t, r) PROVE filled'[o] = 0
  <2>1. /\ filled' = filled /\ r.intent \in Intents /\ req'[t] = r
        /\ submits' = [submits EXCEPT ![r.intent] = @ + 1]
    BY <1>5 DEF Submit, oms, Requests
  <2>2. CASE submits'[i] = 0
    <3>1. submits[i] = 0
      BY <1>2, <2>1, <2>2
    <3>2. QED
      BY <1>3, <2>1, <3>1 DEF Unrouted
  <2>3. CASE submits'[i] # 0
    <3>1. PICK u \in Threads :
            submits'[i] <= 1 /\ pc'[u] \in {"checked", "cleared"} /\ req'[u].intent = i
      BY <1>1, <2>3 DEF Unrouted, i
    <3>2. CASE u = t
      <4>1. submits[i] = 0
        BY <1>2, <2>1, <3>1, <3>2
      <4>2. QED
        BY <1>3, <2>1, <4>1 DEF Unrouted
    <3>3. CASE u # t
      <4>1. pc[u] = pc'[u] /\ req[u] = req'[u]
        BY <1>5, <3>3, OthersKeep
      <4>2. submits[i] <= 1
        BY <1>2, <2>1, <3>1
      <4>3. QED
        BY <1>3, <2>1, <3>1, <4>1, <4>2 DEF Unrouted
    <3>4. QED
      BY <3>2, <3>3
  <2>4. QED
    BY <2>2, <2>3
<1>6. CASE Crash
  BY <1>6 DEF Crash
<1>7. CASE ~ThreadMoves /\ ~Crash
  <2>1. UNCHANGED <<pc, req, filled, submits>>
    BY <1>7, SurroundingsKeep DEF thread
  <2>2. Unrouted(i)
    BY <1>1, <2>1 DEF Unrouted, i
  <2>3. QED
    BY <1>3, <2>1, <2>2
<1>8. QED
  BY <1>4, <1>5, <1>6, <1>7 DEF ThreadMoves

(* The steps at the child in hand keep its state machine and row in step   *)
(* with the thread.                                                        *)
LEMMA InFlightStep ==
  ASSUME TypeInv, NEW t \in Threads, ThreadStep(t), queue[t] # <<>>, queue'[t] = queue[t],
         InFlight(t, Child(t))
  PROVE  InFlight(t, Child(t))'
<1> USE DEF TypeInv, TypeOK, oms, db, Goto
<1> DEFINE o == Child(t)
<1>1. Child(t)' = o
  BY DEF Child
<1>2. o \in Orders /\ pc[t] \in Steps \ {"idle", "checked", "cleared"}
  BY ChildType DEF Holding
<1> HIDE DEF o
<1>3. InFlight(t, o)
  BY DEF o
<1>4. CASE PersistPending(t)
  <2>1. sm' = sm /\ filled' = filled /\ pc'[t] = "send" /\ pc[t] = "loop"
    BY <1>4 DEF PersistPending
  <2>2. QED
    BY <1>1, <1>3, <2>1 DEF InFlight
<1>5. CASE SendAcked(t) \/ SendDeclined(t)
  <2>1. sm' = sm /\ filled' = filled /\ pc'[t] = "acked" /\ pc[t] = "send"
    BY <1>5 DEF SendAcked, SendDeclined
  <2>2. ack'[t].status # "FILLED" => ack'[t].status = Told(o, ack'[t].units)
    <3>1. CASE SendAcked(t)
      <4>1. PICK a \in Accounts, q \in 0..Size(o) :
              ack' = [ack EXCEPT ![t] = [acct |-> a, num |-> Fresh(a), units |-> ReportedUnits(q),
                                         status |-> Answer(o, q)]]
        BY <3>1, TakenEffect DEF o
      <4>2. ack'[t].status = Answer(o, q) /\ ack'[t].units = ReportedUnits(q)
        BY <4>1
      <4>3. QED
        BY <1>2, <4>2, AnswerType DEF Told
    <3>2. CASE SendDeclined(t)
      <4>1. ack'[t].status = "SUBMITTED" /\ ack'[t].units = 0
        BY <3>2 DEF SendDeclined
      <4>2. QED
        BY <4>1 DEF Told
    <3>3. QED
      BY <1>5, <3>1, <3>2
  <2>3. QED
    BY <1>1, <1>3, <2>1, <2>2 DEF InFlight
<1>6. CASE SendLost(t) \/ SendFailed(t) \/ SendRefused(t)
  <2>1. sm' = sm /\ filled' = filled /\ pc'[t] = "send" /\ pc[t] = "send"
    BY <1>6 DEF SendLost, SendFailed, SendRefused
  <2>2. QED
    BY <1>1, <1>3, <2>1 DEF InFlight
<1>12. CASE RoutesFailed(t)
  <2>1. sm' = sm /\ pc'[t] = "failed" /\ pc[t] = "send" /\ rows'[o] = "REJECTED"
    BY <1>2, <1>12 DEF RoutesFailed, o
  <2>2. QED
    BY <1>1, <1>3, <2>1 DEF InFlight
<1>7. CASE Acknowledge(t)
  <2>1. /\ sm[o] = "SUBMITTED" /\ filled[o] = 0 /\ ack' = ack
        /\ ack[t].status # "FILLED" => ack[t].status = Told(o, ack[t].units)
        /\ pc'[t] = (IF ack[t].status = "FILLED" THEN "fill" ELSE "persist")
        /\ sm'[o] = IF Accepts(sm[o], "ACKED") THEN "ACKED" ELSE sm[o]
        /\ filled'[o] = IF ack[t].units > 0 THEN ack[t].units ELSE filled[o]
    BY <1>2, <1>3, <1>7 DEF Acknowledge, InFlight, o
  <2>2. Accepts("SUBMITTED", "ACKED")
    BY DEF Accepts, Successors
  <2>3. filled'[o] = ack[t].units
    BY <2>1, AckFields
  <2>4. QED
    BY <1>1, <2>1, <2>2, <2>3 DEF InFlight
<1>8. CASE ProcessFill(t)
  <2>1. sm[o] = "ACKED" /\ ack' = ack /\ ack[t].status = "FILLED"
    BY <1>3, <1>8 DEF ProcessFill, InFlight
  <2>2. PICK target \in {"FILLED", "PARTIALLY_FILLED"} :
          IF Accepts(sm[o], target)
          THEN sm' = [sm EXCEPT ![o] = target] /\ pc' = [pc EXCEPT ![t] = "attribute"]
          ELSE pc' = [pc EXCEPT ![t] = "record"]
    BY <1>8 DEF ProcessFill, o
  <2>3. Accepts("ACKED", target)
    BY DEF Accepts, Successors
  <2>4. sm'[o] = target /\ pc'[t] = "attribute"
    BY <1>2, <2>1, <2>2, <2>3
  <2>5. QED
    BY <1>1, <2>1, <2>4 DEF InFlight
<1>9. CASE Attribute(t) \/ RecordFill(t)
  <2>1. sm' = sm /\ filled' = filled /\ ack' = ack /\ pc[t] \in {"attribute", "record"}
        /\ pc'[t] \in {"record", "persist"}
    BY <1>9 DEF Attribute, RecordFill
  <2>2. QED
    BY <1>1, <1>3, <2>1 DEF InFlight
<1>10. CASE MarkUnknown(t) \/ PersistAck(t)
  <2>1. queue[t] \in Seq(Orders) /\ NextChild(t)
    BY <1>10 DEF MarkUnknown, PersistAck
  <2>2. queue'[t] = <<>> \/ queue'[t] = Tail(queue[t])
    BY <2>1 DEF NextChild, Return
  <2>3. Len(Tail(queue[t])) # Len(queue[t])
    BY <2>1, HeadTailProperties, EmptySeq, LenProperties
  <2>4. FALSE
    BY <2>2, <2>3
  <2>5. QED
    BY <2>4
<1>11. QED
  BY <1>2, <1>4, <1>5, <1>6, <1>7, <1>8, <1>9, <1>10, <1>12
  DEF ThreadStep, OmsClear, OmsReject, OmsRoute

(* An order leaves a thread's hand only when the thread is done with it.   *)
LEMMA LeavesHand ==
  ASSUME TypeInv, NEW t \in Threads, ThreadStep(t), NEW o \in InHand(t), o \notin InHand(t)'
  PROVE  queue[t] # <<>> /\ o = Child(t) /\ (MarkUnknown(t) \/ PersistAck(t))
<1> USE DEF TypeInv, TypeOK
<1>1. PICK k \in DOMAIN queue[t] : o = queue[t][k]
  BY DEF InHand
<1>2. queue[t] \in Seq(Orders) /\ queue[t] # <<>> /\ k \in 1..Len(queue[t])
  BY <1>1, EmptySeq, LenProperties
<1>3. pc[t] \notin {"idle", "checked", "cleared"}
  BY <1>2 DEF Holding
<1>4. queue'[t] # queue[t]
  BY DEF InHand
<1>5. MarkUnknown(t) \/ PersistAck(t)
  BY <1>3, <1>4
  DEF ThreadStep, OmsClear, OmsReject, OmsRoute, PersistPending, SendAcked, SendDeclined,
      SendLost, SendFailed, SendRefused, RoutesFailed, Acknowledge, ProcessFill, Attribute,
      RecordFill
<1>6. k = 1
  <2>1. CASE Len(queue[t]) = 1
    BY <1>2, <2>1
  <2>2. CASE Len(queue[t]) # 1
    <3>1. queue'[t] = Tail(queue[t])
      BY <1>5, <2>2 DEF MarkUnknown, PersistAck, NextChild
    <3>2. k # 1 => k - 1 \in DOMAIN Tail(queue[t]) /\ Tail(queue[t])[k - 1] = queue[t][k]
      BY <1>2, HeadTailProperties, LenProperties
    <3>3. QED
      BY <1>1, <3>1, <3>2 DEF InHand
  <2>3. QED
    BY <2>1, <2>2
<1>7. QED
  BY <1>1, <1>2, <1>5, <1>6 DEF Child

(* A thread's step keeps what Undisturbed says of the thread itself.       *)
LEMMA UndisturbedOwn ==
  ASSUME TypeInv, OwnChildren, Unfilled, Undisturbed, NEW t \in Threads, ThreadStep(t),
         submits[req[t].intent] <= 1, req'[t] = req[t], NEW k \in DOMAIN queue'[t]
  PROVE  IF k = 1 THEN InFlight(t, queue[t][1])'
                  ELSE sm'[queue'[t][k]] = "SUBMITTED" /\ filled'[queue'[t][k]] = 0
<1> USE DEF TypeInv, TypeOK
<1>1. CASE OmsRoute(t)
  <2>1. PICK children \in Seq(Orders) :
          /\ \A j \in DOMAIN children : children[j].intent = req[t].intent
          /\ queue' = [queue EXCEPT ![t] = children]
          /\ sm' = [o \in Orders |->
               IF \E j \in DOMAIN children : children[j] = o THEN "SUBMITTED" ELSE sm[o]]
          /\ filled' = [o \in Orders |->
               IF (\E j \in DOMAIN children : children[j] = o) /\ o \notin cache
               THEN 0 ELSE filled[o]]
    BY <1>1, RouteEffect
  <2>2. queue'[t] = children /\ pc'[t] = "loop"
    BY <1>1, <2>1 DEF OmsRoute, Goto
  <2>3. \A j \in DOMAIN children : children[j] \in Orders
    BY <2>1
  <2>4. \A j \in DOMAIN queue'[t] : sm'[queue'[t][j]] = "SUBMITTED"
    BY <2>1, <2>2, <2>3
  <2>5. pc[t] = "cleared"
    BY <1>1 DEF OmsRoute
  <2>6. \A o \in Orders : o.intent = req[t].intent => filled[o] = 0
    BY <2>5 DEF Unfilled, Unrouted
  <2>7. \A j \in DOMAIN queue'[t] : filled'[queue'[t][j]] = 0
    BY <2>1, <2>2, <2>3, <2>6
  <2>8. QED
    BY <2>2, <2>4, <2>7 DEF InFlight
<1>2. CASE /\ MarkUnknown(t) \/ PersistAck(t)
           /\ queue[t] # <<>> /\ pc'[t] = "loop" /\ queue'[t] = Tail(queue[t])
  <2>1. queue[t] \in Seq(Orders) /\ pc[t] \notin {"idle", "checked", "cleared"}
    BY <1>2 DEF MarkUnknown, PersistAck
  <2>2. Child(t) = queue[t][1] /\ 1 \in DOMAIN queue[t]
    BY <1>2, <2>1, EmptySeq DEF Child
  <2>3. ASSUME NEW j \in DOMAIN queue'[t]
        PROVE  sm'[queue'[t][j]] = "SUBMITTED" /\ filled'[queue'[t][j]] = 0
    <3>1. j + 1 \in DOMAIN queue[t] /\ queue'[t][j] = queue[t][j + 1] /\ j + 1 # 1
      BY <1>2, <2>1, <2>3, TailElements
    <3>2. Untouched(queue[t][j + 1]) /\ queue[t][j + 1] # Child(t)
      BY <2>2, <3>1 DEF Undisturbed, OwnChildren
    <3>3. (sm' = [sm EXCEPT ![Child(t)] = "UNKNOWN"] \/ sm' = sm) /\ filled' = filled
      BY <1>2 DEF MarkUnknown, PersistAck, oms
    <3>4. queue[t][j + 1] \in Orders
      BY <2>1, <3>1
    <3>5. QED
      BY <3>1, <3>2, <3>3, <3>4 DEF Untouched
  <2>4. QED
    BY <1>2, <2>3 DEF InFlight
<1>3. CASE queue'[t] = queue[t] /\ pc[t] # "idle"
  <2>1. queue[t] \in Seq(Orders) /\ queue[t] # <<>>
    BY <1>3, EmptySeq
  <2>2. Child(t) = queue[t][1] /\ 1 \in DOMAIN queue[t]
    BY <2>1, EmptySeq DEF Child
  <2>3. InFlight(t, Child(t))
    BY <2>2 DEF Undisturbed
  <2>4. InFlight(t, Child(t))'
    BY <1>3, <2>1, <2>3, InFlightStep
  <2>5. InFlight(t, queue[t][1])'
    BY <2>2, <2>4, <1>3 DEF Child, InFlight
  <2>6. CASE k # 1
    <3> DEFINE o == queue[t][k]
    <3>1. o \in Orders /\ o # Child(t) /\ Untouched(o)
      BY <1>3, <2>1, <2>2, <2>6 DEF OwnChildren, Undisturbed
    <3>2. CASE MarkUnknown(t) \/ Acknowledge(t) \/ ProcessFill(t)
      <4>1. \E x : sm' = [sm EXCEPT ![Child(t)] = x] \/ sm' = sm
        BY <3>2 DEF MarkUnknown, Acknowledge, ProcessFill
      <4>2. \E x : filled' = [filled EXCEPT ![Child(t)] = x] \/ filled' = filled
        BY <3>2 DEF MarkUnknown, Acknowledge, ProcessFill
      <4>3. sm'[o] = "SUBMITTED" /\ filled'[o] = 0
        BY <3>1, <4>1, <4>2 DEF Untouched
      <4>4. QED
        BY <1>3, <2>6, <4>3
    <3>3. CASE sm' = sm /\ filled' = filled
      BY <1>3, <2>6, <3>1, <3>3 DEF Untouched
    <3>4. ~OmsRoute(t)
      BY <2>1 DEF OmsRoute, Holding
    <3>5. QED
      BY <3>2, <3>3, <3>4
      DEF ThreadStep, OmsClear, OmsReject, PersistPending, SendAcked, SendDeclined, SendLost,
          SendFailed, SendRefused, RoutesFailed, Attribute, RecordFill, PersistAck, oms
  <2>7. QED
    BY <2>5, <2>6
<1>4. CASE queue'[t] = <<>>
  BY <1>4
<1>5. QED
  BY <1>1, <1>2, <1>3, <1>4, QueueSteps

LEMMA UndisturbedStep ==
  ASSUME TypeInv, OwnChildren, OwnChildren', Counted, Unfilled, Undisturbed, [Next]_vars
  PROVE  Undisturbed'
<1> USE DEF TypeInv, TypeOK
<1> DEFINE Calm(u) ==
      \A k \in DOMAIN queue'[u] :
        submits'[req'[u].intent] <= 1 =>
          IF k = 1 THEN InFlight(u, queue[u][1])'
                   ELSE sm'[queue'[u][k]] = "SUBMITTED" /\ filled'[queue'[u][k]] = 0
<1>1. ASSUME NEW u \in Threads,
             pc'[u] = pc[u] /\ req'[u] = req[u] /\ queue'[u] = queue[u] /\ ack'[u] = ack[u],
             submits'[req[u].intent] <= 1 => submits[req[u].intent] <= 1,
             \A o \in InHand(u) : submits'[req[u].intent] <= 1 =>
                                    sm'[o] = sm[o] /\ filled'[o] = filled[o] /\ rows'[o] = rows[o]
      PROVE  Calm(u)
  <2>1. SUFFICES ASSUME NEW k \in DOMAIN queue[u], submits'[req[u].intent] <= 1
                 PROVE  IF k = 1 THEN InFlight(u, queue[u][1])'
                                 ELSE sm'[queue'[u][k]] = "SUBMITTED" /\ filled'[queue'[u][k]] = 0
    BY <1>1
  <2>2. queue[u][k] \in InHand(u)
    BY DEF InHand
  <2>3. /\ sm'[queue[u][k]] = sm[queue[u][k]] /\ filled'[queue[u][k]] = filled[queue[u][k]]
        /\ rows'[queue[u][k]] = rows[queue[u][k]]
    BY <1>1, <2>1, <2>2
  <2>4. IF k = 1 THEN InFlight(u, queue[u][1]) ELSE Untouched(queue[u][k])
    BY <1>1, <2>1 DEF Undisturbed
  <2>5. CASE k = 1
    BY <1>1, <2>3, <2>4, <2>5 DEF InFlight
  <2>6. CASE k # 1
    BY <1>1, <2>3, <2>4, <2>6 DEF Untouched
  <2>7. QED
    BY <2>5, <2>6
<1>2. ASSUME NEW u \in Threads, queue'[u] = <<>> PROVE Calm(u)
  BY <1>2
<1>3. ASSUME NEW t \in Threads, ThreadStep(t), NEW u \in Threads PROVE Calm(u)
  <2>0. submits' = submits
    BY <1>3 DEF ThreadStep, OmsClear, OmsReject, OmsRoute, PersistPending, SendAcked,
       SendDeclined, SendLost, SendFailed, SendRefused, RoutesFailed, MarkUnknown, Acknowledge,
       ProcessFill, Attribute, RecordFill, PersistAck, bounds
  <2>1. CASE u = t
    <3>1. CASE queue'[t] = <<>>
      BY <1>2, <2>1, <3>1
    <3>2. CASE req'[t] = req[t]
      BY <1>3, <2>0, <2>1, <3>2, UndisturbedOwn
    <3>3. QED
      BY <1>3, <3>1, <3>2, QueueSteps
  <2>2. CASE u # t
    <3>1. /\ pc'[u] = pc[u] /\ req'[u] = req[u] /\ queue'[u] = queue[u] /\ ack'[u] = ack[u]
      BY <1>3, <2>2, OthersKeep
    <3>2. ASSUME NEW o \in InHand(u), submits'[req[u].intent] <= 1
          PROVE  sm'[o] = sm[o] /\ filled'[o] = filled[o] /\ rows'[o] = rows[o]
      <4>1. o.intent = req[u].intent /\ o \in Orders /\ pc[u] # "idle"
        BY <3>2 DEF InHand, OwnChildren, Holding
      <4>2. submits[req[u].intent] \in Nat
        BY ConstantsAssumption DEF Requests
      <4>3. o.intent # req[t].intent \/ pc[t] = "idle"
        BY <2>0, <2>2, <3>2, <4>1, <4>2, SMTT(30) DEF Counted
      <4>4. pc[t] # "idle"
        BY <1>3, QueueSteps, ChildType
        DEF ThreadStep, OmsClear, OmsReject, OmsRoute, PersistPending, SendAcked, SendDeclined,
            SendLost, SendFailed, SendRefused, RoutesFailed, MarkUnknown, Acknowledge,
            ProcessFill, Attribute, RecordFill, PersistAck
      <4>5. o \notin InHand(t)
        BY <4>3, <4>4, SMTT(30) DEF InHand, OwnChildren
      <4>6. o \notin InHand(t)'
        <5>1. req'[t] = req[t] \/ queue'[t] = <<>>
          BY <1>3, QueueSteps
        <5>2. QED
          BY <4>3, <4>4, <5>1 DEF InHand, OwnChildren
      <4>7. QED
        BY <1>3, <4>1, <4>5, <4>6, OnlyInHand
    <3>3. QED
      BY <1>1, <2>0, <3>1, <3>2
  <2>3. QED
    BY <2>1, <2>2
<1>4. ASSUME NEW t \in Threads, NEW r \in Requests, Submit(t, r), NEW u \in Threads PROVE Calm(u)
  <2>1. /\ UNCHANGED <<queue, sm, filled, rows>> /\ r.intent \in Intents
        /\ submits' = [submits EXCEPT ![r.intent] = @ + 1]
        /\ queue[t] = <<>>
    BY <1>4 DEF Submit, Holding, oms, db, Requests
  <2>2. CASE u = t
    BY <1>2, <2>1, <2>2
  <2>3. CASE u # t
    <3>1. \A i \in Intents : submits[i] \in Nat
      BY ConstantsAssumption
    <3>2. req[u].intent \in Intents
      BY DEF Requests
    <3>3. submits'[req[u].intent] <= 1 => submits[req[u].intent] <= 1
      BY <2>1, <3>1, <3>2
    <3>4. pc'[u] = pc[u] /\ req'[u] = req[u] /\ queue'[u] = queue[u] /\ ack'[u] = ack[u]
      BY <1>4, <2>3, OthersKeep
    <3>5. \A o : sm'[o] = sm[o] /\ filled'[o] = filled[o] /\ rows'[o] = rows[o]
      BY <2>1
    <3> HIDE DEF Calm
    <3>6. QED
      BY <1>1, <3>3, <3>4, <3>5
  <2>4. QED
    BY <2>2, <2>3
<1>5. CASE ~ThreadMoves /\ ~Crash
  BY <1>5, SurroundingsKeep, <1>1 DEF thread, Undisturbed, Untouched
<1>6. CASE Crash
  BY <1>6 DEF Crash, Undisturbed
<1> HIDE DEF Calm
<1>7. CASE ThreadMoves
  <2>1. \A u \in Threads : Calm(u)
    BY <1>3, <1>4, <1>7 DEF ThreadMoves
  <2>2. QED
    BY <2>1 DEF Undisturbed, Untouched, Calm
<1>8. QED
  BY <1>5, <1>6, <1>7

(* The last step on an order writes the row its state machine calls for.   *)
LEMMA Settles ==
  ASSUME TypeInv, Undisturbed, NEW t \in Threads, MarkUnknown(t) \/ PersistAck(t),
         queue[t] # <<>>, submits[req[t].intent] <= 1, NEW o \in Orders, o = Child(t)
  PROVE  rows'[o] = RowFor(o)'
<1> USE DEF TypeInv, TypeOK
<1>1. InFlight(t, o)
  <2>1. queue[t] \in Seq(Orders) /\ pc[t] \notin {"idle", "checked", "cleared"}
    BY DEF MarkUnknown, PersistAck
  <2>2. Child(t) = queue[t][1] /\ 1 \in DOMAIN queue[t]
    BY <2>1, EmptySeq DEF Child
  <2>3. QED
    BY <2>1, <2>2, ChildType DEF Undisturbed
<1>2. CASE MarkUnknown(t)
  <2>1. sm[o] = "SUBMITTED" /\ rows[o] = "REJECTED"
    BY <1>1, <1>2 DEF MarkUnknown, InFlight
  <2>2. "UNKNOWN" \in Successors("SUBMITTED")
    BY DEF Successors
  <2>3. sm'[o] = "UNKNOWN" /\ rows' = rows
    BY <1>1, <1>2, <2>1, <2>2 DEF MarkUnknown, db
  <2>4. QED
    BY <2>1, <2>3 DEF RowFor
<1>3. CASE PersistAck(t)
  <2>1. /\ rows'[o] = ack[t].status /\ sm' = sm /\ filled' = filled
        /\ IF ack[t].status = "FILLED"
           THEN sm[o] \in {"PARTIALLY_FILLED", "FILLED"}
           ELSE sm[o] = "ACKED" /\ ack[t].status = Told(o, filled[o])
    BY <1>1, <1>3 DEF PersistAck, InFlight, oms
  <2>2. CASE ack[t].status = "FILLED"
    BY <2>1, <2>2 DEF RowFor
  <2>3. CASE ack[t].status # "FILLED"
    <3>0. \A n, m \in Nat : n \in 1..(m - 1) <=> 0 < n /\ n < m
      OBVIOUS
    <3>1. Size(o) \in Nat /\ filled[o] \in Nat
      BY SizeBounds
    <3>2. filled[o] \in 1..(Size(o) - 1) <=> 0 < filled[o] /\ filled[o] < Size(o)
      BY <3>0, <3>1
    <3>3. sm'[o] = "ACKED" /\ filled'[o] = filled[o] /\ rows'[o] = Told(o, filled[o])
      BY <2>1, <2>3
    <3>4. QED
      BY <3>2, <3>3 DEF RowFor, Told
  <2>4. QED
    BY <2>2, <2>3
<1>4. QED
  BY <1>2, <1>3

LEMMA AgreeStep == TypeInv /\ AgreeInv /\ [Next]_vars => AgreeInv'
<1> USE DEF TypeInv, TypeOK
<1>1. SUFFICES ASSUME TypeInv, AgreeInv, [Next]_vars PROVE AgreeInv'
  OBVIOUS
<1>2. OwnChildren' /\ Counted' /\ Unfilled' /\ Undisturbed'
  BY <1>1, OwnChildrenStep, CountedStep, UnfilledStep, UndisturbedStep DEF AgreeInv
<1>3. SUFFICES ASSUME NEW o \in Orders, sm'[o] # NONE, submits'[o.intent] <= 1, ~Held(o)'
               PROVE  rows'[o] = RowFor(o)'
  BY <1>2 DEF AgreeInv, JournalAgrees
<1>4. submits[o.intent] \in Nat /\ o.intent \in Intents
  BY <1>1, ConstantsAssumption DEF Orders
<1>5. ASSUME sm'[o] = sm[o], filled'[o] = filled[o], rows'[o] = rows[o], submits[o.intent] <= 1, ~Held(o)
      PROVE  rows'[o] = RowFor(o)'
  <2>1. rows[o] = RowFor(o)
    BY <1>1, <1>3, <1>5 DEF AgreeInv, JournalAgrees
  <2>2. RowFor(o)' = RowFor(o)
    BY <1>5 DEF RowFor
  <2>3. QED
    BY <1>5, <2>1, <2>2
<1>6. ASSUME NEW t \in Threads, ThreadStep(t) PROVE rows'[o] = RowFor(o)'
  <2>1. submits' = submits /\ pc[t] # "idle"
    BY <1>6 DEF ThreadStep, OmsClear, OmsReject, OmsRoute, PersistPending, SendAcked,
       SendDeclined, SendLost, SendFailed, SendRefused, RoutesFailed, MarkUnknown, Acknowledge,
       ProcessFill, Attribute, RecordFill, PersistAck, bounds
  <2>2. o \notin InHand(t)'
    BY <1>3 DEF Held, InHand
  <2>3. CASE o \in InHand(t)
    <3>1. queue[t] # <<>> /\ o = Child(t) /\ (MarkUnknown(t) \/ PersistAck(t))
      BY <1>1, <1>6, <2>2, <2>3, LeavesHand
    <3>2. req[t].intent = o.intent
      BY <1>1, <2>3 DEF AgreeInv, OwnChildren, InHand
    <3>3. QED
      BY <1>1, <1>3, <2>1, <3>1, <3>2, Settles DEF AgreeInv
  <2>4. CASE o \notin InHand(t)
    <3>1. sm'[o] = sm[o] /\ filled'[o] = filled[o] /\ rows'[o] = rows[o]
      BY <1>1, <1>6, <2>2, <2>4, OnlyInHand
    <3>2. ~Held(o)
      <4>1. ASSUME NEW u \in Threads, o \in InHand(u) PROVE FALSE
        <5>1. u # t
          BY <2>4, <4>1
        <5>2. queue'[u] = queue[u]
          BY <1>1, <1>6, <5>1, OthersKeep
        <5>3. QED
          BY <1>3, <4>1, <5>2 DEF Held, InHand
      <4>2. QED
        BY <4>1 DEF Held, InHand
    <3>3. QED
      BY <1>3, <1>5, <2>1, <3>1, <3>2
  <2>5. QED
    BY <2>3, <2>4
<1>7. ASSUME NEW t \in Threads, NEW r \in Requests, Submit(t, r)
      PROVE  rows'[o] = RowFor(o)'
  <2>1. /\ UNCHANGED <<queue, sm, filled, rows>> /\ r.intent \in Intents
        /\ submits' = [submits EXCEPT ![r.intent] = @ + 1]
    BY <1>7 DEF Submit, oms, db, Requests
  <2>2. \A i \in Intents : submits[i] \in Nat
    BY <1>1, ConstantsAssumption
  <2>3. submits[o.intent] <= 1
    BY <1>1, <1>3, <1>4, <2>1, <2>2
  <2>4. ~Held(o)
    BY <1>3, <2>1 DEF Held
  <2>5. QED
    BY <1>5, <2>1, <2>3, <2>4
<1>8. CASE Crash
  BY <1>3, <1>8 DEF Crash
<1>9. CASE ~ThreadMoves /\ ~Crash
  <2>1. UNCHANGED <<thread, sm, filled, rows, submits>>
    BY <1>1, <1>9, SurroundingsKeep
  <2>2. ~Held(o)
    BY <1>3, <2>1 DEF Held, thread
  <2>3. QED
    BY <1>3, <1>5, <2>1, <2>2
<1>10. QED
  BY <1>6, <1>7, <1>8, <1>9 DEF ThreadMoves

(* The orders table and the OMS tell the same story of every order that    *)
(* nobody works on any more (execution.py:387, :392, :406 and :442), also  *)
(* of one that was executed below one lot and never booked, if its intent  *)
(* was submitted only once.                                                *)
THEOREM RowsAgree == Spec => []JournalAgrees
<1>1. AgreeInv => JournalAgrees
  BY DEF AgreeInv
<1>2. QED
  BY <1>1, InitType, TypeStep, InitAgree, AgreeStep, PTL DEF Spec

-----------------------------------------------------------------------------
(* How often an order is taken                                             *)

(* The attempts thread t may still make for order o.                       *)
Left(t, o) ==
  IF pc[t] \in {"checked", "cleared"}
  THEN IF req[t].intent = o.intent THEN Attempts ELSE 0
  ELSE IF o \notin InHand(t) THEN 0
  ELSE IF o # Child(t) \/ pc[t] = "loop" THEN Attempts
  ELSE IF pc[t] = "send" THEN Len(route[t]) * (MaxRetries + 1) - tries[t]
  ELSE 0

(* ... and those of all threads, one by one.                               *)
Ahead(o) == {p \in Threads \X (1..Attempts) : p[2] <= Left(p[1], o)}

(* A route is never longer than what Attempts counts, and its first        *)
(* account starts without failed attempts.                                 *)
RoutesFit ==
  \A t \in Threads :
    /\ pc[t] \in {"idle", "checked", "cleared", "loop"} => tries[t] = 0
    /\ route[t] = <<>> => tries[t] = 0
    /\ Len(route[t]) * (MaxRetries + 1) <= Attempts

(* What was taken and what may still be taken is within what the           *)
(* submissions of the intent allow.                                        *)
Budgeted ==
  \A o \in Orders :
    /\ IsFiniteSet(TicketsOf(o)) /\ IsFiniteSet(Ahead(o))
    /\ Cardinality(TicketsOf(o)) + Cardinality(Ahead(o)) <= submits[o.intent] * Attempts

DuplicateInv == OwnChildren /\ RoutesFit /\ Budgeted

LEMMA AttemptsType ==
  /\ Attempts \in Nat \ {0}
  /\ MaxRetries + 1 \in Nat \ {0}
  /\ Len(Priority) * (MaxRetries + 1) <= Attempts
  /\ 1 * (MaxRetries + 1) <= Attempts
<1> DEFINE R == MaxRetries + 1
           L == IF Priority = <<>> THEN 1 ELSE Len(Priority)
<1>1. R \in Nat \ {0}
  BY ConstantsAssumption
<1>2. Len(Priority) \in Nat /\ L \in Nat \ {0} /\ Len(Priority) <= L
  BY ConstantsAssumption, EmptySeq, LenProperties
<1>3. Attempts = L * R
  BY DEF Attempts
<1> HIDE DEF R, L
<1>4. L * R \in Nat \ {0} /\ Len(Priority) * R <= L * R /\ 1 * R <= L * R
  BY <1>1, <1>2
<1>5. QED
  BY <1>1, <1>3, <1>4 DEF R

LEMMA InitDuplicate == Init => DuplicateInv
<1>1. SUFFICES ASSUME Init PROVE DuplicateInv
  OBVIOUS
<1>2. OwnChildren
  BY <1>1 DEF Init, OwnChildren
<1>3. RoutesFit
  <2>1. Len(<<>>) = 0 /\ 0 * (MaxRetries + 1) = 0
    BY ConstantsAssumption
  <2>2. QED
    BY <1>1, <2>1, AttemptsType DEF Init, RoutesFit
<1>4. ASSUME NEW o \in Orders
      PROVE  /\ IsFiniteSet(TicketsOf(o)) /\ IsFiniteSet(Ahead(o))
             /\ Cardinality(TicketsOf(o)) + Cardinality(Ahead(o))
                  <= submits[o.intent] * Attempts
  <2>1. TicketsOf(o) = {}
    BY <1>1 DEF Init, TicketsOf
  <2>2. \A t \in Threads : Left(t, o) = 0
    BY <1>1 DEF Init, Left, InHand
  <2>3. Ahead(o) = {}
    BY <2>2 DEF Ahead
  <2>4. submits[o.intent] = 0
    BY <1>1 DEF Init, Orders
  <2>5. QED
    BY <2>1, <2>3, <2>4, FS_EmptySet, AttemptsType
<1>5. QED
  BY <1>2, <1>3, <1>4 DEF DuplicateInv, Budgeted

(* Left is a number of attempts.                                           *)
LEMMA LeftType ==
  ASSUME TypeInv, RoutesFit, NEW t \in Threads, NEW o \in Orders
  PROVE  Left(t, o) \in 0..Attempts
<1> USE DEF TypeInv, TypeOK
<1>1. Attempts \in Nat /\ MaxRetries \in Nat /\ tries[t] \in 0..MaxRetries
  BY AttemptsType, ConstantsAssumption
<1>2. Len(route[t]) * (MaxRetries + 1) - tries[t] \in 0..Attempts
  <2>1. route[t] \in Seq(Accounts) /\ Len(route[t]) \in Nat
    BY LenProperties
  <2>2. CASE route[t] = <<>>
    <3>1. Len(route[t]) = 0 /\ tries[t] = 0
      BY <2>2 DEF RoutesFit
    <3>2. QED
      BY <1>1, <3>1
  <2>3. CASE route[t] # <<>>
    <3>1. Len(route[t]) >= 1
      BY <2>1, <2>3, EmptySeq
    <3>2. Len(route[t]) * (MaxRetries + 1) >= MaxRetries + 1
      <4>1. \A n \in Nat \ {0} : \A m \in Nat : n * m >= m
        OBVIOUS
      <4>2. Len(route[t]) \in Nat \ {0} /\ MaxRetries + 1 \in Nat
        BY <1>1, <2>1, <3>1
      <4>3. QED
        BY <4>1, <4>2
    <3>3. Len(route[t]) * (MaxRetries + 1) \in Nat
      BY <1>1, <2>1
    <3>4. Len(route[t]) * (MaxRetries + 1) <= Attempts
      BY DEF RoutesFit
    <3>5. QED
      BY <1>1, <3>2, <3>3, <3>4
  <2>4. QED
    BY <2>2, <2>3
<1>3. QED
  BY <1>1, <1>2 DEF Left

(* A failed attempt, lost or not, leaves one attempt less.                 *)
LEMMA AttemptCounts ==
  ASSUME TypeInv, NEW t \in Threads, route[t] # <<>>, AttemptFailed(t)
  PROVE  /\ Len(route'[t]) * (MaxRetries + 1) - tries'[t]
              = Len(route[t]) * (MaxRetries + 1) - tries[t] - 1
         /\ Len(route'[t]) <= Len(route[t])
         /\ route'[t] = <<>> => tries'[t] = 0
<1> USE DEF TypeInv, TypeOK
<1>1. /\ MaxRetries \in Nat /\ tries[t] \in 0..MaxRetries /\ route[t] \in Seq(Accounts)
      /\ Len(route[t]) \in Nat
  BY ConstantsAssumption, LenProperties
<1>2. CASE tries[t] < MaxRetries
  <2>1. route' = route /\ tries'[t] = tries[t] + 1
    BY <1>2 DEF AttemptFailed
  <2>2. Len(route[t]) * (MaxRetries + 1) \in Int
    BY <1>1
  <2>3. QED
    BY <1>1, <2>1, <2>2
<1>3. CASE ~(tries[t] < MaxRetries)
  <2>1. tries'[t] = 0 /\ route'[t] = Tail(route[t]) /\ tries[t] = MaxRetries
    BY <1>1, <1>3 DEF AttemptFailed
  <2>2. Len(Tail(route[t])) = Len(route[t]) - 1
    BY <1>1, HeadTailProperties
  <2>3. (Len(route[t]) - 1) * (MaxRetries + 1)
           = Len(route[t]) * (MaxRetries + 1) - (MaxRetries + 1)
    BY <1>1
  <2>4. Len(route[t]) * (MaxRetries + 1) \in Int
    BY <1>1
  <2>5. QED
    BY <1>1, <2>1, <2>2, <2>3, <2>4
<1>4. QED
  BY <1>2, <1>3

(* A route that is not empty has an attempt left.                          *)
LEMMA AttemptIsLeft ==
  ASSUME TypeInv, NEW t \in Threads, route[t] # <<>>
  PROVE  /\ Len(route[t]) * (MaxRetries + 1) - tries[t] >= 1
         /\ (Len(route[t]) - 1) * (MaxRetries + 1)
              <= Len(route[t]) * (MaxRetries + 1) - tries[t] - 1
         /\ (Len(route[t]) - 1) * (MaxRetries + 1) <= Len(route[t]) * (MaxRetries + 1)
<1>1. /\ MaxRetries \in Nat /\ tries[t] \in 0..MaxRetries /\ route[t] \in Seq(Accounts)
      /\ Len(route[t]) \in Nat \ {0}
  BY ConstantsAssumption, LenProperties, EmptySeq DEF TypeInv, TypeOK
<1>2. \A n \in Nat \ {0} : \A m \in Nat \ {0} :
        n * m \in Int /\ (n - 1) * m \in Nat /\ (n - 1) * m = n * m - m
  OBVIOUS
<1>3. MaxRetries + 1 \in Nat \ {0}
  BY <1>1
<1> DEFINE a == Len(route[t]) * (MaxRetries + 1)
           b == (Len(route[t]) - 1) * (MaxRetries + 1)
<1>4. a \in Int /\ b \in Nat /\ b = a - (MaxRetries + 1)
  BY <1>1, <1>2, <1>3
<1> HIDE DEF a, b
<1>5. a - tries[t] >= 1 /\ b <= a - tries[t] - 1 /\ b <= a
  BY <1>1, <1>4
<1>6. QED
  BY <1>5 DEF a, b

LEMMA RoutesFitStep ==
  ASSUME TypeInv, RoutesFit, [Next]_vars
  PROVE  RoutesFit'
<1> USE DEF TypeInv, TypeOK, Goto
<1> DEFINE Fits(u) ==
      /\ pc'[u] \in {"idle", "checked", "cleared", "loop"} => tries'[u] = 0
      /\ route'[u] = <<>> => tries'[u] = 0
      /\ Len(route'[u]) * (MaxRetries + 1) <= Attempts
<1>1. ASSUME NEW u \in Threads, route'[u] = <<>>, tries'[u] = 0 PROVE Fits(u)
  <2>1. Len(<<>>) * (MaxRetries + 1) = 0
    BY AttemptsType
  <2>2. QED
    BY <1>1, <2>1, AttemptsType
<1>2. ASSUME NEW u \in Threads, route'[u] = route[u], tries'[u] = tries[u],
             pc'[u] \in {"idle", "checked", "cleared", "loop"} =>
               pc[u] \in {"idle", "checked", "cleared", "loop"}
      PROVE  Fits(u)
  BY <1>2 DEF RoutesFit
<1>3. ASSUME NEW t \in Threads, ThreadStep(t) PROVE Fits(t)
  <2>1. CASE OmsReject(t)
    BY <1>1, <2>1 DEF OmsReject, Return
  <2>2. CASE MarkUnknown(t) \/ PersistAck(t)
    <3>1. NextChild(t)
      BY <2>2 DEF MarkUnknown, PersistAck
    <3>2. route'[t] = <<>> /\ tries'[t] = 0
      BY <3>1 DEF NextChild, Return
    <3>3. QED
      BY <1>1, <3>2
  <2>3. CASE PersistPending(t)
    <3>1. tries'[t] = 0 /\ pc'[t] = "send"
      BY <2>3 DEF PersistPending, RoutesFit
    <3>2. route'[t] = Priority \/ route'[t] = <<req[t].account>>
      BY <2>3 DEF PersistPending
    <3>3. Len(<<req[t].account>>) = 1
      OBVIOUS
    <3>4. QED
      BY <3>1, <3>2, <3>3, AttemptsType
  <2>4. CASE SendLost(t) \/ SendFailed(t)
    <3>1. AttemptFailed(t) /\ route[t] # <<>> /\ pc'[t] = "send"
      BY <2>4 DEF SendLost, SendFailed
    <3>2. route'[t] = <<>> => tries'[t] = 0
      BY <3>1, AttemptCounts
    <3>3. CASE route'[t] = route[t]
      BY <3>1, <3>2, <3>3 DEF RoutesFit
    <3>4. CASE route'[t] = Tail(route[t])
      <4>1. Len(route'[t]) = Len(route[t]) - 1
        BY <3>1, <3>4, HeadTailProperties
      <4>2. (Len(route[t]) - 1) * (MaxRetries + 1) <= Len(route[t]) * (MaxRetries + 1)
        BY <3>1, AttemptIsLeft
      <4>3. Len(route[t]) * (MaxRetries + 1) <= Attempts
        BY DEF RoutesFit
      <4>4. Len(route[t]) * (MaxRetries + 1) \in Int /\ (Len(route[t]) - 1) * (MaxRetries + 1) \in Int
        BY ConstantsAssumption, LenProperties
      <4>5. Len(route'[t]) * (MaxRetries + 1) <= Attempts
        BY <4>1, <4>2, <4>3, <4>4, AttemptsType
      <4>6. QED
        BY <3>1, <3>2, <4>5
    <3>5. QED
      BY <3>1, <3>3, <3>4 DEF AttemptFailed
  <2>5. CASE SendRefused(t)
    <3>1. route[t] # <<>> /\ pc'[t] = "send" /\ tries'[t] = 0 /\ route'[t] = Tail(route[t])
      BY <2>5 DEF SendRefused
    <3>2. Len(route'[t]) = Len(route[t]) - 1
      BY <3>1, HeadTailProperties
    <3>3. (Len(route[t]) - 1) * (MaxRetries + 1) <= Len(route[t]) * (MaxRetries + 1)
      BY <3>1, AttemptIsLeft
    <3>4. Len(route[t]) * (MaxRetries + 1) <= Attempts
      BY DEF RoutesFit
    <3>5. Len(route[t]) * (MaxRetries + 1) \in Int /\ (Len(route[t]) - 1) * (MaxRetries + 1) \in Int
      BY ConstantsAssumption, LenProperties
    <3>6. Len(route'[t]) * (MaxRetries + 1) <= Attempts
      BY <3>2, <3>3, <3>4, <3>5, AttemptsType
    <3>7. QED
      BY <3>1, <3>6
  <2>6. CASE \/ OmsClear(t) \/ OmsRoute(t) \/ SendAcked(t) \/ SendDeclined(t) \/ RoutesFailed(t)
             \/ Acknowledge(t) \/ ProcessFill(t) \/ Attribute(t) \/ RecordFill(t)
    <3>1. /\ route' = route /\ tries' = tries
          /\ pc'[t] \in {"idle", "checked", "cleared", "loop"} =>
               pc[t] \in {"idle", "checked", "cleared", "loop"}
      BY <2>6
      DEF OmsClear, OmsRoute, SendAcked, SendDeclined, RoutesFailed, Acknowledge, ProcessFill,
          Attribute, RecordFill
    <3> HIDE DEF Fits
    <3>2. QED
      BY <1>2, <3>1
  <2>7. QED
    BY <1>3, <2>1, <2>2, <2>3, <2>4, <2>5, <2>6 DEF ThreadStep
<1>4. ASSUME NEW t \in Threads, NEW r \in Requests, Submit(t, r) PROVE Fits(t)
  BY <1>2, <1>4 DEF Submit
<1> HIDE DEF Fits
<1>5. CASE ThreadMoves
  <2>1. PICK t \in Threads : ThreadStep(t) \/ \E r \in Requests : Submit(t, r)
    BY <1>5 DEF ThreadMoves
  <2>2. \A u \in Threads \ {t} : pc'[u] = pc[u] /\ route'[u] = route[u] /\ tries'[u] = tries[u]
    BY <2>1, OthersKeep
  <2>3. \A u \in Threads : Fits(u)
    BY <1>2, <1>3, <1>4, <2>1, <2>2
  <2>4. QED
    BY <2>3 DEF Fits, RoutesFit
<1>6. CASE Crash
  <2>1. \A u \in Threads : Fits(u)
    BY <1>1, <1>6 DEF Crash
  <2>2. QED
    BY <2>1 DEF Fits, RoutesFit
<1>7. CASE ~ThreadMoves /\ ~Crash
  BY <1>7, SurroundingsKeep DEF thread, RoutesFit
<1>8. QED
  BY <1>5, <1>6, <1>7

(* The child in hand is the first of the queue.                            *)
LEMMA ChildInHand ==
  ASSUME TypeInv, NEW t \in Threads, pc[t] \notin {"idle", "checked", "cleared"}
  PROVE  /\ queue[t] \in Seq(Orders) /\ queue[t] # <<>>
         /\ 1 \in DOMAIN queue[t] /\ Child(t) = queue[t][1] /\ Child(t) \in InHand(t)
<1>1. queue[t] \in Seq(Orders) /\ queue[t] # <<>>
  BY ChildType DEF TypeInv, TypeOK
<1>2. 1 \in DOMAIN queue[t] /\ Child(t) = queue[t][1]
  BY <1>1, EmptySeq DEF Child
<1>3. QED
  BY <1>1, <1>2 DEF InHand

(* A step of a thread leaves it no more attempts than before, and one less *)
(* for the child that was taken.                                           *)
LEMMA LeftStep ==
  ASSUME TypeInv, TypeInv', OwnChildren, RoutesFit, RoutesFit', NEW t \in Threads,
         ThreadStep(t), NEW o \in Orders
  PROVE  /\ Left(t, o)' <= Left(t, o)
         /\ (SendAcked(t) \/ SendLost(t)) /\ o = Child(t) => Left(t, o)' <= Left(t, o) - 1
<1> USE DEF TypeInv, TypeOK, Goto
<1> DEFINE Result == /\ Left(t, o)' <= Left(t, o)
                     /\ (SendAcked(t) \/ SendLost(t)) /\ o = Child(t) =>
                          Left(t, o)' <= Left(t, o) - 1
<1>1. Left(t, o) \in 0..Attempts
  BY LeftType
<1>2. Attempts \in Nat
  BY AttemptsType
<1>3. ASSUME pc'[t] = "idle", queue'[t] = <<>> PROVE Left(t, o)' = 0
  BY <1>3 DEF Left, InHand
<1>4. CASE OmsReject(t)
  <2>1. pc'[t] = "idle" /\ queue'[t] = <<>> /\ pc[t] # "send"
    BY <1>4 DEF OmsReject, Return
  <2>2. QED
    BY <1>1, <1>2, <1>3, <2>1 DEF SendAcked, SendLost
<1>5. CASE MarkUnknown(t) \/ PersistAck(t)
  <2>1. NextChild(t) /\ pc[t] \in {"failed", "persist"}
    BY <1>5 DEF MarkUnknown, PersistAck
  <2>2. queue[t] \in Seq(Orders) /\ queue[t] # <<>> /\ Child(t) = queue[t][1]
        /\ 1 \in DOMAIN queue[t]
    BY <2>1, ChildInHand
  <2>3. CASE Len(queue[t]) = 1
    <3>1. pc'[t] = "idle" /\ queue'[t] = <<>>
      BY <2>1, <2>3 DEF NextChild, Return
    <3>2. QED
      BY <1>1, <1>2, <1>3, <2>1, <3>1 DEF SendAcked, SendLost
  <2>4. CASE Len(queue[t]) # 1
    <3>1. pc'[t] = "loop" /\ queue'[t] = Tail(queue[t])
      BY <2>1, <2>4 DEF NextChild
    <3>2. CASE o \in InHand(t)'
      <4>1. PICK k \in DOMAIN queue'[t] : queue'[t][k] = o
        BY <3>2 DEF InHand
      <4>2. k + 1 \in DOMAIN queue[t] /\ o = queue[t][k + 1] /\ k + 1 # 1
        BY <2>2, <3>1, <4>1, TailElements, SMTT(30)
      <4>3. o \in InHand(t) /\ o # Child(t)
        <5>1. o \in InHand(t)
          BY <4>2 DEF InHand
        <5>2. queue[t][k + 1] # queue[t][1]
          BY <2>2, <4>2 DEF OwnChildren
        <5>3. QED
          BY <2>2, <4>2, <5>1, <5>2
      <4>4. Left(t, o) = Attempts
        BY <2>1, <4>3 DEF Left
      <4>5. Left(t, o)' = Attempts
        BY <3>1, <3>2 DEF Left
      <4>6. QED
        BY <1>2, <4>3, <4>4, <4>5
    <3>3. CASE o \notin InHand(t)'
      <4>1. Left(t, o)' = 0
        BY <3>1, <3>3 DEF Left
      <4>2. QED
        BY <1>1, <1>2, <2>1, <4>1 DEF SendAcked, SendLost
    <3>4. QED
      BY <3>2, <3>3
  <2>5. QED
    BY <2>3, <2>4
<1>6. CASE OmsClear(t)
  <2>1. Left(t, o)' = Left(t, o) /\ pc[t] # "send"
    BY <1>6 DEF OmsClear, Left
  <2>2. QED
    BY <1>1, <1>2, <2>1 DEF SendAcked, SendLost
<1>7. CASE OmsRoute(t)
  <2>1. PICK children \in Seq(Orders) :
          /\ \A k \in DOMAIN children : children[k].intent = req[t].intent
          /\ queue' = [queue EXCEPT ![t] = children]
    BY <1>7, RouteEffect
  <2>2. pc[t] = "cleared" /\ pc'[t] = "loop" /\ queue'[t] = children
    BY <1>7, <2>1 DEF OmsRoute
  <2>3. Left(t, o)' = IF o \in InHand(t)' THEN Attempts ELSE 0
    BY <2>2 DEF Left
  <2>4. o \in InHand(t)' => o.intent = req[t].intent
    BY <2>1, <2>2, SMTT(30) DEF InHand
  <2>5. Left(t, o) = IF req[t].intent = o.intent THEN Attempts ELSE 0
    BY <2>2 DEF Left
  <2>6. QED
    BY <1>2, <2>2, <2>3, <2>4, <2>5 DEF SendAcked, SendLost
<1>8. CASE PersistPending(t)
  <2>1. pc[t] = "loop" /\ pc'[t] = "send" /\ queue' = queue /\ tries'[t] = 0
    BY <1>8 DEF PersistPending, RoutesFit
  <2>2. InHand(t)' = InHand(t) /\ Child(t)' = Child(t)
    BY <2>1 DEF InHand, Child
  <2>3. Len(route'[t]) * (MaxRetries + 1) <= Attempts
        /\ Len(route'[t]) * (MaxRetries + 1) \in Int
    BY ConstantsAssumption, LenProperties DEF RoutesFit
  <2>4. Left(t, o) = IF o \notin InHand(t) THEN 0 ELSE Attempts
    BY <2>1 DEF Left
  <2>5. Left(t, o)' = IF o \notin InHand(t) THEN 0
                      ELSE IF o # Child(t) THEN Attempts
                      ELSE Len(route'[t]) * (MaxRetries + 1) - 0
    BY <2>1, <2>2 DEF Left
  <2>6. QED
    BY <1>2, <2>1, <2>3, <2>4, <2>5 DEF SendAcked, SendLost
<1>9. CASE SendAcked(t) \/ SendDeclined(t)
  <2>1. pc[t] = "send" /\ pc'[t] = "acked" /\ queue' = queue /\ route[t] # <<>>
    BY <1>9 DEF SendAcked, SendDeclined
  <2>2. InHand(t)' = InHand(t) /\ Child(t)' = Child(t) /\ Child(t) \in InHand(t)
    <3>1. Child(t) \in InHand(t)
      BY <2>1, ChildInHand
    <3>2. QED
      BY <2>1, <3>1 DEF InHand, Child
  <2>3. CASE o = Child(t)
    <3>1. Left(t, o)' = 0
      BY <2>1, <2>2, <2>3 DEF Left
    <3>2. Left(t, o) >= 1
      BY <2>1, <2>2, <2>3, AttemptIsLeft DEF Left
    <3>3. QED
      BY <1>1, <1>2, <3>1, <3>2
  <2>4. CASE o # Child(t)
    <3>1. Left(t, o)' = Left(t, o)
      BY <2>1, <2>2, <2>4 DEF Left
    <3>2. QED
      BY <1>1, <1>2, <2>4, <3>1
  <2>5. QED
    BY <2>3, <2>4
<1>10. CASE SendLost(t) \/ SendFailed(t) \/ SendRefused(t)
  <2>1. pc[t] = "send" /\ pc'[t] = "send" /\ queue' = queue /\ route[t] # <<>>
    BY <1>10 DEF SendLost, SendFailed, SendRefused
  <2>2. InHand(t)' = InHand(t) /\ Child(t)' = Child(t) /\ Child(t) \in InHand(t)
    <3>1. Child(t) \in InHand(t)
      BY <2>1, ChildInHand
    <3>2. QED
      BY <2>1, <3>1 DEF InHand, Child
  <2>3. CASE o = Child(t)
    <3>1. /\ Left(t, o) = Len(route[t]) * (MaxRetries + 1) - tries[t]
          /\ Left(t, o)' = Len(route'[t]) * (MaxRetries + 1) - tries'[t]
      BY <2>1, <2>2, <2>3 DEF Left
    <3>2. /\ Len(route[t]) * (MaxRetries + 1) \in Int
          /\ tries[t] \in Nat /\ MaxRetries \in Nat
      <4>1. MaxRetries \in Nat /\ tries[t] \in 0..MaxRetries
        BY ConstantsAssumption
      <4>2. Len(route[t]) \in Nat
        BY LenProperties
      <4>3. QED
        BY <4>1, <4>2
    <3>3. CASE SendLost(t) \/ SendFailed(t)
      <4>1. AttemptFailed(t)
        BY <3>3 DEF SendLost, SendFailed
      <4>2. Left(t, o)' = Left(t, o) - 1
        BY <2>1, <3>1, <4>1, AttemptCounts
      <4>3. QED
        BY <1>1, <1>2, <4>2, SMTT(30)
    <3>4. CASE SendRefused(t)
      <4>1. tries'[t] = 0 /\ route'[t] = Tail(route[t])
        BY <3>4 DEF SendRefused
      <4>2. Len(route'[t]) = Len(route[t]) - 1
        BY <2>1, <4>1, HeadTailProperties
      <4>3. (Len(route[t]) - 1) * (MaxRetries + 1)
              <= Len(route[t]) * (MaxRetries + 1) - tries[t] - 1
        BY <2>1, AttemptIsLeft
      <4> DEFINE b == (Len(route[t]) - 1) * (MaxRetries + 1)
      <4>4. b \in Int
        <5>1. Len(route[t]) \in Nat
          BY LenProperties
        <5>2. QED
          BY <3>2, <5>1
      <4>5. b <= Left(t, o) - 1 /\ Left(t, o)' = b - 0
        BY <3>1, <4>1, <4>2, <4>3
      <4> HIDE DEF b
      <4>6. Left(t, o)' <= Left(t, o) - 1
        BY <4>4, <4>5
      <4>7. Left(t, o)' <= Left(t, o)
        BY <1>1, <1>2, <4>4, <4>5
      <4>8. QED
        BY <4>6, <4>7
    <3>5. QED
      BY <1>10, <3>3, <3>4
  <2>4. CASE o # Child(t)
    <3>1. Left(t, o)' = Left(t, o)
      BY <2>1, <2>2, <2>4 DEF Left
    <3>2. QED
      BY <1>1, <1>2, <2>4, <3>1
  <2>5. QED
    BY <2>3, <2>4
<1>11. CASE \/ RoutesFailed(t) \/ Acknowledge(t) \/ ProcessFill(t) \/ Attribute(t)
            \/ RecordFill(t)
  <2>1. /\ pc[t] \in {"send", "acked", "fill", "attribute", "record"} /\ queue' = queue
        /\ pc'[t] \in {"failed", "fill", "persist", "attribute", "record"}
        /\ ~SendAcked(t) /\ ~SendLost(t)
    BY <1>11 DEF RoutesFailed, Acknowledge, ProcessFill, Attribute, RecordFill, SendAcked,
       SendLost
  <2>2. InHand(t)' = InHand(t) /\ Child(t)' = Child(t)
    BY <2>1 DEF InHand, Child
  <2>3. CASE o \in InHand(t) /\ o # Child(t)
    <3>1. Left(t, o)' = Left(t, o)
      BY <2>1, <2>2, <2>3 DEF Left
    <3>2. QED
      BY <1>1, <1>2, <2>1, <3>1
  <2>4. CASE ~(o \in InHand(t) /\ o # Child(t))
    <3>1. Left(t, o)' = 0
      BY <2>1, <2>2, <2>4 DEF Left
    <3>2. QED
      BY <1>1, <1>2, <2>1, <3>1
  <2>5. QED
    BY <2>3, <2>4
<1>12. QED
  BY <1>4, <1>5, <1>6, <1>7, <1>8, <1>9, <1>10, <1>11 DEF ThreadStep

(* A step adds at most one ticket of an order, and only the send of a      *)
(* thread that has the order in hand does.                                 *)
Sends(t) == SendAcked(t) \/ SendLost(t)

LEMMA TicketsOfStep ==
  ASSUME TypeInv, [Next]_vars, NEW o \in Orders, IsFiniteSet(TicketsOf(o))
  PROVE  /\ IsFiniteSet(TicketsOf(o)')
         /\ \/ Cardinality(TicketsOf(o)') <= Cardinality(TicketsOf(o))
            \/ /\ Cardinality(TicketsOf(o)') <= Cardinality(TicketsOf(o)) + 1
               /\ \E t \in Threads : Sends(t) /\ o = Child(t)
<1>0. Cardinality(TicketsOf(o)) \in Nat
  BY FS_CardinalityType
<1>1. ASSUME TicketsOf(o)' = TicketsOf(o)
      PROVE  IsFiniteSet(TicketsOf(o)') /\ Cardinality(TicketsOf(o)') <= Cardinality(TicketsOf(o))
  BY <1>0, <1>1
<1>2. ASSUME NEW t \in Threads, Sends(t)
      PROVE  /\ IsFiniteSet(TicketsOf(o)')
             /\ \/ Cardinality(TicketsOf(o)') <= Cardinality(TicketsOf(o))
                \/ o = Child(t) /\ Cardinality(TicketsOf(o)') <= Cardinality(TicketsOf(o)) + 1
  <2>1. PICK a \in Accounts, q \in 0..Size(Child(t)) : Opens(a, Child(t), q) /\ pc[t] = "send"
    BY <1>2, TakenEffect DEF Sends
  <2> DEFINE new == Taken(a, Child(t), q)
  <2>2. new.order = Child(t)
    BY DEF Taken
  <2>3. tickets' = tickets \cup {new}
    BY <2>1 DEF Opens
  <2> HIDE DEF new
  <2>4. CASE o = Child(t)
    <3>1. TicketsOf(o)' = TicketsOf(o) \cup {new}
      BY <2>2, <2>3, <2>4 DEF TicketsOf
    <3>2. /\ IsFiniteSet(TicketsOf(o) \cup {new})
          /\ Cardinality(TicketsOf(o) \cup {new}) <= Cardinality(TicketsOf(o)) + 1
      <4>1. /\ IsFiniteSet(TicketsOf(o) \cup {new})
            /\ Cardinality(TicketsOf(o) \cup {new})
                 = IF new \in TicketsOf(o) THEN Cardinality(TicketsOf(o))
                                           ELSE Cardinality(TicketsOf(o)) + 1
        BY FS_AddElement
      <4>2. QED
        BY <1>0, <4>1
    <3>3. QED
      BY <2>4, <3>1, <3>2
  <2>5. CASE o # Child(t)
    <3>1. TicketsOf(o)' = TicketsOf(o)
      BY <2>2, <2>3, <2>5 DEF TicketsOf
    <3>2. QED
      BY <1>1, <3>1
  <2>6. QED
    BY <2>4, <2>5
<1>3. ASSUME NEW tk \in tickets, NEW state, Becomes(tk, state)
      PROVE  IsFiniteSet(TicketsOf(o)') /\ Cardinality(TicketsOf(o)') <= Cardinality(TicketsOf(o))
  <2> DEFINE new == [tk EXCEPT !.state = state]
  <2>1. new.order = tk.order
    BY DEF TypeInv, TypeOK, Ticket
  <2>2. tickets' = (tickets \ {tk}) \cup {new}
    BY <1>3 DEF Becomes
  <2> HIDE DEF new
  <2>3. CASE tk.order = o
    <3>1. TicketsOf(o)' = (TicketsOf(o) \ {tk}) \cup {new} /\ tk \in TicketsOf(o)
      BY <2>1, <2>2, <2>3 DEF TicketsOf
    <3>2. /\ IsFiniteSet(TicketsOf(o) \ {tk})
          /\ Cardinality(TicketsOf(o) \ {tk}) = Cardinality(TicketsOf(o)) - 1
      BY <3>1, FS_RemoveElement
    <3>3. QED
      BY <1>0, <3>1, <3>2, FS_AddElement
  <2>4. CASE tk.order # o
    <3>1. TicketsOf(o)' = TicketsOf(o)
      BY <2>1, <2>2, <2>4 DEF TicketsOf
    <3>2. QED
      BY <1>1, <3>1
  <2>5. QED
    BY <2>3, <2>4
<1>4. CASE FlattenTaken
  <2>1. o # Flat
    BY DEF Orders, Flat
  <2>2. PICK q : tickets' = tickets \cup {Opposing(ToClose, q)}
    BY <1>4 DEF FlattenTaken
  <2>3. Opposing(ToClose, q).order = Flat
    BY DEF Opposing
  <2>4. TicketsOf(o)' = TicketsOf(o)
    BY <2>1, <2>2, <2>3 DEF TicketsOf
  <2>5. QED
    BY <1>1, <2>4
<1>5. CASE UNCHANGED tickets
  BY <1>1, <1>5 DEF TicketsOf
<1>6. QED
  BY <1>2, <1>3, <1>4, <1>5, BooksStep DEF Sends

(* Nobody else's attempts change with a thread's step.                     *)
LEMMA LeftFrame ==
  ASSUME TypeInv, NEW t \in Threads,
         ThreadStep(t) \/ \E r \in Requests : Submit(t, r),
         NEW u \in Threads, u # t, NEW o \in Orders
  PROVE  Left(u, o)' = Left(u, o)
<1>1. /\ pc'[u] = pc[u] /\ req'[u] = req[u] /\ queue'[u] = queue[u] /\ route'[u] = route[u]
      /\ tries'[u] = tries[u]
  BY OthersKeep
<1>2. InHand(u)' = InHand(u) /\ Child(u)' = Child(u)
  BY <1>1 DEF InHand, Child
<1>3. QED
  BY <1>1, <1>2 DEF Left

(* The step of a thread takes from its attempts what it adds to the        *)
(* tickets.                                                                *)
LEMMA BudgetThread ==
  ASSUME TypeInv, TypeInv', [Next]_vars, OwnChildren, RoutesFit, RoutesFit', Budgeted,
         NEW t \in Threads, ThreadStep(t), NEW o \in Orders
  PROVE  /\ IsFiniteSet(TicketsOf(o)') /\ IsFiniteSet(Ahead(o)')
         /\ Cardinality(TicketsOf(o)') + Cardinality(Ahead(o)') <= submits'[o.intent] * Attempts
<1>1. submits' = submits
  BY DEF ThreadStep, OmsClear, OmsReject, OmsRoute, PersistPending, SendAcked,
     SendDeclined, SendLost, SendFailed, SendRefused, RoutesFailed, MarkUnknown, Acknowledge,
     ProcessFill, Attribute, RecordFill, PersistAck, bounds
<1>2. /\ IsFiniteSet(TicketsOf(o)) /\ IsFiniteSet(Ahead(o))
      /\ Cardinality(TicketsOf(o)) + Cardinality(Ahead(o)) <= submits[o.intent] * Attempts
      /\ Cardinality(TicketsOf(o)) \in Nat /\ Cardinality(Ahead(o)) \in Nat
  BY FS_CardinalityType DEF Budgeted
<1>3. \A u \in Threads : Left(u, o) \in 0..Attempts /\ Left(u, o)' \in Int
  <2>1. \A u \in Threads : u # t => Left(u, o)' = Left(u, o)
    BY LeftFrame
  <2>2. \A u \in Threads : Left(u, o) \in 0..Attempts
    BY LeftType
  <2>3. Left(t, o)' \in Int
    <3>1. Len(route'[t]) \in Nat /\ tries'[t] \in 0..MaxRetries /\ MaxRetries \in Nat
      BY LenProperties, ConstantsAssumption DEF TypeInv, TypeOK
    <3> DEFINE a == Len(route'[t]) * (MaxRetries + 1)
    <3>2. a \in Int
      BY <3>1
    <3> HIDE DEF a
    <3>3. a - tries'[t] \in Int
      BY <3>1, <3>2
    <3>4. Len(route'[t]) * (MaxRetries + 1) - tries'[t] \in Int
      BY <3>3 DEF a
    <3>5. QED
      BY <3>4, AttemptsType DEF Left
  <2>4. QED
    BY <2>1, <2>2, <2>3, AttemptsType
<1>4. Ahead(o)' = {p \in Threads \X (1..Attempts) : p[2] <= Left(p[1], o)'}
  BY DEF Ahead
<1>5. \A u \in Threads : Left(u, o)' <= Left(u, o)
  <2>1. \A u \in Threads : u # t => Left(u, o)' = Left(u, o)
    BY LeftFrame
  <2>2. Left(t, o)' <= Left(t, o)
    BY LeftStep
  <2>3. QED
    BY <1>3, <2>1, <2>2, AttemptsType
<1>6. Ahead(o)' \subseteq Ahead(o)
  BY <1>3, <1>4, <1>5, AttemptsType DEF Ahead
<1>7. CASE Sends(t) /\ o = Child(t)
  <2> DEFINE p == <<t, Left(t, o)>>
  <2>1. Left(t, o)' <= Left(t, o) - 1
    BY <1>7, LeftStep DEF Sends
  <2>2. Left(t, o) >= 1
    <3>1. pc[t] = "send" /\ route[t] # <<>>
      BY <1>7 DEF Sends, SendAcked, SendLost
    <3>2. o \in InHand(t)
      BY <1>7, <3>1, ChildInHand
    <3>3. QED
      BY <1>7, <3>1, <3>2, AttemptIsLeft DEF Left
  <2>3. p \in Ahead(o)
    BY <1>3, <2>2, AttemptsType DEF Ahead
  <2>4. p \notin Ahead(o)'
    BY <1>3, <1>4, <2>1, AttemptsType
  <2> HIDE DEF p
  <2>5. Ahead(o)' \in SUBSET (Ahead(o) \ {p})
    BY <1>6, <2>4
  <2>6. /\ IsFiniteSet(Ahead(o) \ {p})
        /\ Cardinality(Ahead(o) \ {p}) = Cardinality(Ahead(o)) - 1
    BY <1>2, <2>3, FS_RemoveElement
  <2>7. IsFiniteSet(Ahead(o)') /\ Cardinality(Ahead(o)') <= Cardinality(Ahead(o)) - 1
    BY <2>5, <2>6, FS_Subset
  <2>8. IsFiniteSet(TicketsOf(o)') /\ Cardinality(TicketsOf(o)') <= Cardinality(TicketsOf(o)) + 1
    <3>1. IsFiniteSet(TicketsOf(o)')
      BY <1>2, TicketsOfStep
    <3>2. Cardinality(TicketsOf(o)') \in Nat
      BY <3>1, FS_CardinalityType
    <3>3. QED
      BY <1>2, <3>1, <3>2, TicketsOfStep
  <2>9. Cardinality(TicketsOf(o)') \in Nat /\ Cardinality(Ahead(o)') \in Nat
    BY <2>7, <2>8, FS_CardinalityType
  <2>10. Cardinality(TicketsOf(o)') + Cardinality(Ahead(o)')
           <= Cardinality(TicketsOf(o)) + Cardinality(Ahead(o))
    BY <1>2, <2>7, <2>8, <2>9
  <2>11. submits[o.intent] * Attempts \in Int
    <3>1. submits[o.intent] \in Nat
      BY ConstantsAssumption DEF Orders, TypeInv, TypeOK
    <3>2. QED
      BY <3>1, AttemptsType
  <2>12. QED
    BY <1>1, <1>2, <2>7, <2>8, <2>9, <2>10, <2>11
<1>8. CASE ~(Sends(t) /\ o = Child(t))
  <2>1. IsFiniteSet(Ahead(o)') /\ Cardinality(Ahead(o)') <= Cardinality(Ahead(o))
    BY <1>2, <1>6, FS_Subset
  <2>2. \A u \in Threads : Sends(u) => u = t
    <3>1. ASSUME NEW u \in Threads, Sends(u), u # t PROVE FALSE
      <4>1. PICK a \in Accounts, q \in 0..Size(Child(u)) :
              Opens(a, Child(u), q) /\ pc[u] = "send" /\ route[u] # <<>>
        BY <3>1, TakenEffect DEF Sends
      <4>2. PICK x \in Orders : x = Child(u)
        BY <4>1, ChildType
      <4>3. ThreadStep(u)
        BY <3>1 DEF Sends, ThreadStep
      <4>4. Left(u, x)' <= Left(u, x) - 1
        BY <3>1, <4>2, <4>3, LeftStep DEF Sends
      <4>5. Left(u, x)' = Left(u, x) /\ Left(u, x) \in 0..Attempts
        BY <3>1, LeftFrame, LeftType
      <4>6. QED
        BY <4>4, <4>5, AttemptsType
    <3>2. QED
      BY <3>1
  <2>3. IsFiniteSet(TicketsOf(o)') /\ Cardinality(TicketsOf(o)') <= Cardinality(TicketsOf(o))
    BY <1>2, <1>8, <2>2, TicketsOfStep
  <2>4. Cardinality(TicketsOf(o)') \in Nat /\ Cardinality(Ahead(o)') \in Nat
    BY <2>1, <2>3, FS_CardinalityType
  <2>5. submits[o.intent] * Attempts \in Int
    <3>1. submits[o.intent] \in Nat
      BY ConstantsAssumption DEF Orders, TypeInv, TypeOK
    <3>2. QED
      BY <3>1, AttemptsType
  <2>6. QED
    BY <1>1, <1>2, <2>1, <2>3, <2>4, <2>5
<1>9. QED
  BY <1>7, <1>8

(* A submission brings the attempts it may make.                           *)
LEMMA BudgetSubmit ==
  ASSUME TypeInv, [Next]_vars, RoutesFit, Budgeted,
         NEW t \in Threads, NEW r \in Requests, Submit(t, r), NEW o \in Orders
  PROVE  /\ IsFiniteSet(TicketsOf(o)') /\ IsFiniteSet(Ahead(o)')
         /\ Cardinality(TicketsOf(o)') + Cardinality(Ahead(o)') <= submits'[o.intent] * Attempts
<1> DEFINE New == {t} \X (1..Attempts)
<1>1. /\ IsFiniteSet(TicketsOf(o)) /\ IsFiniteSet(Ahead(o))
      /\ Cardinality(TicketsOf(o)) + Cardinality(Ahead(o)) <= submits[o.intent] * Attempts
      /\ Cardinality(TicketsOf(o)) \in Nat /\ Cardinality(Ahead(o)) \in Nat
  BY FS_CardinalityType DEF Budgeted
<1>2. /\ pc[t] = "idle" /\ pc'[t] = "checked" /\ req'[t] = r /\ r.intent \in Intents
      /\ submits' = [submits EXCEPT ![r.intent] = @ + 1] /\ UNCHANGED <<queue, tickets>>
  BY DEF Submit, Goto, Requests, TypeInv, TypeOK
<1>3. submits[o.intent] \in Nat /\ o.intent \in Intents
  BY ConstantsAssumption DEF Orders, TypeInv, TypeOK
<1>4. TicketsOf(o)' = TicketsOf(o)
  BY <1>2 DEF TicketsOf
<1>5. \A u \in Threads : u # t => Left(u, o)' = Left(u, o)
  BY LeftFrame
<1>6. Left(t, o)' = IF r.intent = o.intent THEN Attempts ELSE 0
  BY <1>2 DEF Left
<1>7. Ahead(o)' = {p \in Threads \X (1..Attempts) : p[2] <= Left(p[1], o)'}
  BY DEF Ahead
<1>8. CASE r.intent # o.intent
  <2>1. Ahead(o)' \in SUBSET Ahead(o)
    BY <1>5, <1>6, <1>7, <1>8, AttemptsType DEF Ahead
  <2>2. IsFiniteSet(Ahead(o)') /\ Cardinality(Ahead(o)') <= Cardinality(Ahead(o))
    BY <1>1, <2>1, FS_Subset
  <2>3. Cardinality(Ahead(o)') \in Nat /\ submits'[o.intent] = submits[o.intent]
    BY <1>2, <1>3, <1>8, <2>2, FS_CardinalityType DEF TypeInv, TypeOK
  <2>4. submits[o.intent] * Attempts \in Int
    BY <1>3, AttemptsType
  <2>5. QED
    BY <1>1, <1>4, <2>2, <2>3, <2>4
<1>9. CASE r.intent = o.intent
  <2>1. Ahead(o)' \in SUBSET (Ahead(o) \cup New)
    BY <1>5, <1>7 DEF Ahead
  <2>2. IsFiniteSet(New) /\ Cardinality(New) = Attempts
    <3>1. IsFiniteSet({t}) /\ Cardinality({t}) = 1
      BY FS_Singleton
    <3>2. IsFiniteSet(1..Attempts) /\ Cardinality(1..Attempts) = Attempts
      BY FS_Interval, AttemptsType
    <3>3. /\ IsFiniteSet({t} \X (1..Attempts))
          /\ Cardinality({t} \X (1..Attempts)) = Cardinality({t}) * Cardinality(1..Attempts)
      BY <3>1, <3>2, FS_Product, Zenon
    <3>4. 1 * Attempts = Attempts
      BY AttemptsType
    <3>5. QED
      BY <3>1, <3>2, <3>3, <3>4
  <2> HIDE DEF New
  <2>3. /\ IsFiniteSet(Ahead(o) \cup New)
        /\ Cardinality(Ahead(o) \cup New)
             = Cardinality(Ahead(o)) + Attempts - Cardinality(Ahead(o) \cap New)
    BY <1>1, <2>2, FS_Union
  <2>4. IsFiniteSet(Ahead(o) \cap New)
    BY <1>1, FS_Subset
  <2>5. Cardinality(Ahead(o) \cap New) \in Nat
    BY <2>4, FS_CardinalityType
  <2>6. /\ IsFiniteSet(Ahead(o)')
        /\ Cardinality(Ahead(o)') <= Cardinality(Ahead(o) \cup New)
    BY <2>1, <2>3, FS_Subset
  <2>7. Cardinality(Ahead(o)') \in Nat
    BY <2>6, FS_CardinalityType
  <2>8. Cardinality(Ahead(o)') <= Cardinality(Ahead(o)) + Attempts
    BY <1>1, <2>3, <2>5, <2>6, <2>7, AttemptsType
  <2>9. submits'[o.intent] * Attempts = submits[o.intent] * Attempts + Attempts
    <3>1. submits'[o.intent] = submits[o.intent] + 1
      BY <1>2, <1>3, <1>9 DEF TypeInv, TypeOK
    <3>2. QED
      BY <1>3, <3>1, AttemptsType
  <2>10. submits[o.intent] * Attempts \in Int
    BY <1>3, AttemptsType
  <2>11. QED
    BY <1>1, <1>4, <2>6, <2>7, <2>8, <2>9, <2>10, AttemptsType
<1>10. QED
  BY <1>8, <1>9

LEMMA DuplicateStep ==
  ASSUME TypeInv, TypeInv', DuplicateInv, [Next]_vars
  PROVE  DuplicateInv'
<1>1. OwnChildren' /\ RoutesFit'
  BY OwnChildrenStep, RoutesFitStep DEF DuplicateInv
<1>2. SUFFICES ASSUME NEW o \in Orders
               PROVE  /\ IsFiniteSet(TicketsOf(o)') /\ IsFiniteSet(Ahead(o)')
                      /\ Cardinality(TicketsOf(o)') + Cardinality(Ahead(o)')
                           <= submits'[o.intent] * Attempts
  BY <1>1 DEF DuplicateInv, Budgeted
<1>3. CASE ThreadMoves
  BY <1>1, <1>3, BudgetThread, BudgetSubmit DEF ThreadMoves, DuplicateInv
<1>4. CASE ~ThreadMoves
  <2>1. /\ IsFiniteSet(TicketsOf(o)) /\ IsFiniteSet(Ahead(o))
        /\ Cardinality(TicketsOf(o)) + Cardinality(Ahead(o)) <= submits[o.intent] * Attempts
        /\ Cardinality(TicketsOf(o)) \in Nat /\ Cardinality(Ahead(o)) \in Nat
    BY FS_CardinalityType DEF DuplicateInv, Budgeted
  <2>2. submits[o.intent] * Attempts \in Int
    <3>1. submits[o.intent] \in Nat
      BY ConstantsAssumption DEF Orders, TypeInv, TypeOK
    <3>2. QED
      BY <3>1, AttemptsType
  <2>3. Ahead(o)' \in SUBSET Ahead(o) /\ submits' = submits
    <3>1. CASE Crash
      <4>1. \A u \in Threads : Left(u, o)' = 0
        BY <3>1 DEF Crash, Left, InHand
      <4>2. Ahead(o)' = {}
        BY <4>1, AttemptsType DEF Ahead
      <4>3. QED
        BY <3>1, <4>2 DEF Crash, Spend
    <3>2. CASE ~Crash
      <4>1. UNCHANGED <<thread, submits>>
        BY <1>4, <3>2, SurroundingsKeep
      <4>2. \A u \in Threads : Left(u, o)' = Left(u, o)
        BY <4>1 DEF thread, Left, InHand, Child
      <4>3. QED
        BY <4>1, <4>2 DEF Ahead
    <3>3. QED
      BY <3>1, <3>2
  <2>4. IsFiniteSet(Ahead(o)') /\ Cardinality(Ahead(o)') <= Cardinality(Ahead(o))
    BY <2>1, <2>3, FS_Subset
  <2>5. \A t \in Threads : ~Sends(t)
    BY <1>4 DEF ThreadMoves, ThreadStep, Sends
  <2>6. IsFiniteSet(TicketsOf(o)') /\ Cardinality(TicketsOf(o)') <= Cardinality(TicketsOf(o))
    BY <2>1, <2>5, TicketsOfStep
  <2>7. Cardinality(TicketsOf(o)') \in Nat /\ Cardinality(Ahead(o)') \in Nat
    BY <2>4, <2>6, FS_CardinalityType
  <2>8. QED
    BY <2>1, <2>2, <2>3, <2>4, <2>6, <2>7
<1>5. QED
  BY <1>3, <1>4

(* An order is taken at most once per attempt: with retries and failover   *)
(* (brokers.py:520-551), lost answers, several threads that submit the     *)
(* same intent, and crashes in between.                                    *)
THEOREM DuplicatesBounded == Spec => []DuplicateBound
<1>1. TypeInv /\ DuplicateInv => DuplicateBound
  <2>1. SUFFICES ASSUME TypeInv, DuplicateInv, NEW o \in Orders
                 PROVE  Cardinality(TicketsOf(o)) <= submits[o.intent] * Attempts
    BY DEF DuplicateBound
  <2>2. /\ Cardinality(TicketsOf(o)) + Cardinality(Ahead(o)) <= submits[o.intent] * Attempts
        /\ Cardinality(TicketsOf(o)) \in Nat /\ Cardinality(Ahead(o)) \in Nat
    BY <2>1, FS_CardinalityType DEF DuplicateInv, Budgeted
  <2>3. submits[o.intent] * Attempts \in Int
    <3>1. submits[o.intent] \in Nat
      BY <2>1, ConstantsAssumption DEF Orders, TypeInv, TypeOK
    <3>2. QED
      BY <3>1, AttemptsType
  <2>4. QED
    BY <2>2, <2>3
<1>2. TypeInv /\ DuplicateInv /\ [Next]_vars => DuplicateInv'
  BY TypeStep, DuplicateStep
<1>3. QED
  BY <1>1, <1>2, InitType, TypeStep, InitDuplicate, PTL DEF Spec

-----------------------------------------------------------------------------
(* How often a position is flattened                                       *)

(* A broker numbers its tickets: no two of an account share a number.      *)
UniqueTickets ==
  \A x, y \in tickets : x.acct = y.acct /\ x.num = y.num => x = y

SentOf(a) == {tk \in Sent : tk.acct = a}

(* The closing orders flatten_all may still send to account a: one per     *)
(* position listed and attempt, but for the failed ones of the position it *)
(* is at.                                                                  *)
Pending(a) ==
  {p \in toClose \X (1..(MaxRetries + 1)) :
     p[1].acct = a /\ (p[1] = ToClose => p[2] > closeTries)}

FlattensCounted ==
  Budget["flatten"] # Unlimited =>
    /\ spent["flatten"] = 0 => toClose = {} /\ \A a \in Accounts : Flattening(a) = {}
    /\ spent["flatten"] <= 1 =>
         \A a \in Accounts :
           /\ IsFiniteSet(Pending(a))
           /\ Cardinality(Flattening(a)) + Cardinality(Pending(a))
                <= (MaxRetries + 1) * Cardinality(SentOf(a))

FlattenInv == IsFiniteSet(tickets) /\ UniqueTickets /\ FlattensCounted

LEMMA InitFlatten == Init => FlattenInv
<1>1. SUFFICES ASSUME Init PROVE FlattenInv
  OBVIOUS
<1>2. tickets = {} /\ toClose = {} /\ Sent = {}
  BY <1>1 DEF Init, Sent
<1>3. \A a \in Accounts : Flattening(a) = {} /\ Pending(a) = {} /\ SentOf(a) = {}
  BY <1>2 DEF Flattening, Pending, SentOf
<1>4. IsFiniteSet({}) /\ Cardinality({}) = 0 /\ (MaxRetries + 1) * 0 = 0
  BY FS_EmptySet, ConstantsAssumption
<1>5. QED
  BY <1>2, <1>3, <1>4 DEF FlattenInv, UniqueTickets, FlattensCounted

(* To put one element in another's place does not change the size.         *)
LEMMA Replaced ==
  ASSUME NEW S, IsFiniteSet(S), NEW x \in S, NEW y, y \notin S \ {x}
  PROVE  Cardinality((S \ {x}) \cup {y}) = Cardinality(S)
<1>1. Cardinality(S) \in Nat
  BY FS_CardinalityType
<1>2. IsFiniteSet(S \ {x}) /\ Cardinality(S \ {x}) = Cardinality(S) - 1
  BY FS_RemoveElement
<1>3. Cardinality((S \ {x}) \cup {y}) = Cardinality(S \ {x}) + 1
  BY <1>2, FS_AddElement
<1>4. QED
  BY <1>1, <1>2, <1>3

(* What a step does to the books of one account: tickets stay finite and   *)
(* unique, the orders sent stay, and only flatten_all adds closing orders, *)
(* one at a time.                                                          *)
BooksKept(a) ==
  /\ IsFiniteSet(tickets') /\ UniqueTickets'
  /\ Cardinality(SentOf(a)) <= Cardinality(SentOf(a)')
  /\ \/ Cardinality(Flattening(a)') <= Cardinality(Flattening(a))
     \/ /\ FlattenTaken /\ a = ToClose.acct
        /\ Cardinality(Flattening(a)') <= Cardinality(Flattening(a)) + 1

(* The account's tickets are finitely many.                                *)
LEMMA AccountFinite ==
  ASSUME IsFiniteSet(tickets), NEW a
  PROVE  /\ IsFiniteSet(SentOf(a)) /\ IsFiniteSet(Flattening(a))
         /\ Cardinality(SentOf(a)) \in Nat /\ Cardinality(Flattening(a)) \in Nat
<1>1. SentOf(a) \in SUBSET tickets /\ Flattening(a) \in SUBSET tickets
  BY DEF SentOf, Sent, Flattening
<1>2. IsFiniteSet(SentOf(a)) /\ IsFiniteSet(Flattening(a))
  BY <1>1, FS_Subset
<1>3. QED
  BY <1>2, FS_CardinalityType

(* A fresh ticket.                                                         *)
LEMMA FreshTicket ==
  ASSUME IsFiniteSet(tickets), UniqueTickets, NEW new, new.num = Fresh(new.acct),
         TicketNums \ Used(new.acct) # {}, tickets' = tickets \cup {new}
  PROVE  IsFiniteSet(tickets') /\ UniqueTickets'
<1>1. Fresh(new.acct) \notin Used(new.acct)
  BY DEF Fresh
<1>2. \A x \in tickets : x.acct = new.acct => x.num # new.num
  BY <1>1 DEF Used
<1>3. UniqueTickets'
  BY <1>2 DEF UniqueTickets
<1>4. QED
  BY <1>3, FS_AddElement

LEMMA BooksOfSend ==
  ASSUME TypeInv, IsFiniteSet(tickets), UniqueTickets, NEW t \in Threads, Sends(t),
         NEW a \in Accounts
  PROVE  BooksKept(a)
<1>1. PICK b \in Accounts, q \in 0..Size(Child(t)) :
        Opens(b, Child(t), q) /\ pc[t] = "send" /\ TicketNums \ Used(b) # {}
  BY TakenEffect DEF Sends
<1> DEFINE new == Taken(b, Child(t), q)
<1>2. new.order = Child(t) /\ new.acct = b /\ new.num = Fresh(b) /\ tickets' = tickets \cup {new}
  BY <1>1 DEF Taken, Opens
<1>3. new.order # Flat
  BY <1>1, <1>2, ChildType DEF Orders, Flat
<1> HIDE DEF new
<1>4. IsFiniteSet(tickets') /\ UniqueTickets'
  BY <1>1, <1>2, FreshTicket
<1>5. SentOf(a) \in SUBSET SentOf(a)' /\ SentOf(a)' \in SUBSET tickets'
  BY <1>2 DEF SentOf, Sent
<1>6. Cardinality(SentOf(a)) <= Cardinality(SentOf(a)')
  <2>1. IsFiniteSet(SentOf(a)')
    BY <1>4, <1>5, FS_Subset
  <2>2. QED
    BY <1>5, <2>1, FS_Subset
<1>7. Flattening(a)' = Flattening(a)
  BY <1>2, <1>3 DEF Flattening
<1>8. Cardinality(Flattening(a)') <= Cardinality(Flattening(a))
  BY <1>7, AccountFinite
<1>9. QED
  BY <1>4, <1>6, <1>8 DEF BooksKept

LEMMA BooksOfMove ==
  ASSUME TypeInv, IsFiniteSet(tickets), UniqueTickets, NEW tk \in tickets, NEW state,
         Becomes(tk, state), NEW a \in Accounts
  PROVE  BooksKept(a)
<1> DEFINE new == [tk EXCEPT !.state = state]
<1>1. new.order = tk.order /\ new.acct = tk.acct /\ new.num = tk.num
  BY DEF TypeInv, TypeOK, Ticket
<1>2. tickets' = (tickets \ {tk}) \cup {new}
  BY DEF Becomes
<1> HIDE DEF new
<1>3. new \notin tickets \ {tk}
  BY <1>1 DEF UniqueTickets
<1>4. IsFiniteSet(tickets')
  BY <1>2, FS_AddElement, FS_RemoveElement
<1>5. UniqueTickets'
  BY <1>1, <1>2 DEF UniqueTickets
<1>6. Cardinality(SentOf(a)') = Cardinality(SentOf(a))
  <2>1. CASE tk \in SentOf(a)
    <3>1. SentOf(a)' = (SentOf(a) \ {tk}) \cup {new}
      BY <1>1, <1>2, <2>1 DEF SentOf, Sent
    <3>2. new \notin SentOf(a) \ {tk}
      BY <1>3 DEF SentOf, Sent
    <3>3. QED
      BY <2>1, <3>1, <3>2, AccountFinite, Replaced
  <2>2. CASE tk \notin SentOf(a)
    <3>1. SentOf(a)' = SentOf(a)
      BY <1>1, <1>2, <2>2 DEF SentOf, Sent
    <3>2. QED
      BY <3>1
  <2>3. QED
    BY <2>1, <2>2
<1>7. Cardinality(Flattening(a)') = Cardinality(Flattening(a))
  <2>1. CASE tk \in Flattening(a)
    <3>1. Flattening(a)' = (Flattening(a) \ {tk}) \cup {new}
      BY <1>1, <1>2, <2>1 DEF Flattening
    <3>2. new \notin Flattening(a) \ {tk}
      BY <1>3 DEF Flattening
    <3>3. QED
      BY <2>1, <3>1, <3>2, AccountFinite, Replaced
  <2>2. CASE tk \notin Flattening(a)
    <3>1. Flattening(a)' = Flattening(a)
      BY <1>1, <1>2, <2>2 DEF Flattening
    <3>2. QED
      BY <3>1
  <2>3. QED
    BY <2>1, <2>2
<1>8. QED
  BY <1>4, <1>5, <1>6, <1>7, AccountFinite DEF BooksKept

LEMMA BooksOfFlatten ==
  ASSUME TypeInv, IsFiniteSet(tickets), UniqueTickets, FlattenTaken, NEW a \in Accounts
  PROVE  BooksKept(a)
<1>1. PICK q : tickets' = tickets \cup {Opposing(ToClose, q)}
  BY DEF FlattenTaken
<1> DEFINE new == Opposing(ToClose, q)
<1>2. new.order = Flat /\ new.acct = ToClose.acct /\ new.num = Fresh(ToClose.acct)
  BY DEF Opposing
<1>3. tickets' = tickets \cup {new} /\ TicketNums \ Used(ToClose.acct) # {}
  BY <1>1 DEF FlattenTaken
<1> HIDE DEF new
<1>4. IsFiniteSet(tickets') /\ UniqueTickets'
  BY <1>2, <1>3, FreshTicket
<1>5. SentOf(a)' = SentOf(a)
  BY <1>2, <1>3 DEF SentOf, Sent
<1>6. CASE a = ToClose.acct
  <2>1. Flattening(a)' = Flattening(a) \cup {new}
    BY <1>2, <1>3, <1>6 DEF Flattening
  <2>2. Cardinality(Flattening(a) \cup {new})
          = IF new \in Flattening(a) THEN Cardinality(Flattening(a))
                                     ELSE Cardinality(Flattening(a)) + 1
    BY AccountFinite, FS_AddElement
  <2>3. Cardinality(Flattening(a)') <= Cardinality(Flattening(a)) + 1
    BY <2>1, <2>2, AccountFinite
  <2>4. QED
    BY <1>4, <1>5, <1>6, <2>3, AccountFinite DEF BooksKept
<1>7. CASE a # ToClose.acct
  <2>1. Flattening(a)' = Flattening(a)
    BY <1>2, <1>3, <1>7 DEF Flattening
  <2>2. QED
    BY <1>4, <1>5, <2>1, AccountFinite DEF BooksKept
<1>8. QED
  BY <1>6, <1>7

LEMMA BooksKeptStep ==
  ASSUME TypeInv, [Next]_vars, IsFiniteSet(tickets), UniqueTickets, NEW a \in Accounts
  PROVE  BooksKept(a)
<1>1. CASE UNCHANGED tickets
  <2>1. SentOf(a)' = SentOf(a) /\ Flattening(a)' = Flattening(a) /\ UniqueTickets'
    BY <1>1 DEF SentOf, Sent, Flattening, UniqueTickets
  <2>2. QED
    BY <1>1, <2>1, AccountFinite DEF BooksKept
<1>2. QED
  BY <1>1, BooksStep, BooksOfSend, BooksOfMove, BooksOfFlatten DEF Sends

(* What was sent and what may still be sent keeps within the bound when    *)
(* the attempts left make up for the closing orders added.                 *)
LEMMA FlattenArithmetic ==
  ASSUME NEW M \in Nat, NEW f \in Nat, NEW g \in Nat, NEW p \in Nat, NEW q \in Nat,
         NEW s \in Nat, NEW r \in Nat,
         f + p <= M * s, s <= r, g + q <= f + p
  PROVE  g + q <= M * r
<1>1. M * s \in Int /\ M * r \in Int
  OBVIOUS
<1>2. M * s <= M * r
  BY <1>1
<1>3. QED
  BY <1>1, <1>2

(* Each closing attempt, through or not, is one attempt less for its       *)
(* account.                                                                *)
LEMMA PendingShrinks ==
  ASSUME TypeInv, toClose # {}, NextPosition \/ CloseAttemptFailed, NEW a \in Accounts,
         IsFiniteSet(Pending(a))
  PROVE  /\ IsFiniteSet(Pending(a)') /\ Cardinality(Pending(a)') <= Cardinality(Pending(a))
         /\ a = ToClose.acct => Cardinality(Pending(a)') <= Cardinality(Pending(a)) - 1
<1> DEFINE gone == <<ToClose, closeTries + 1>>
<1>1. ToClose \in toClose /\ closeTries \in 0..MaxRetries /\ MaxRetries \in Nat
  BY ConstantsAssumption DEF ToClose, TypeInv, TypeOK
<1>2. Pending(a)' = {p \in toClose' \X (1..(MaxRetries + 1)) :
                       p[1].acct = a /\ (p[1] = ToClose' => p[2] > closeTries')}
  BY DEF Pending
<1>3. Pending(a)' \subseteq Pending(a) /\ gone \notin Pending(a)'
  <2>1. CASE NextPosition
    <3>1. toClose' = toClose \ {ToClose}
      BY <2>1 DEF NextPosition
    <3>2. QED
      BY <1>2, <3>1 DEF Pending
  <2>2. CASE CloseAttemptFailed /\ ~NextPosition
    <3>1. closeTries' = closeTries + 1 /\ toClose' = toClose
      BY <2>2 DEF CloseAttemptFailed
    <3>2. ToClose' = ToClose
      BY <3>1 DEF ToClose
    <3>3. QED
      BY <1>1, <1>2, <3>1, <3>2 DEF Pending
  <2>3. QED
    BY <2>1, <2>2
<1>4. a = ToClose.acct => gone \in Pending(a)
  BY <1>1 DEF Pending
<1> HIDE DEF gone
<1>5. IsFiniteSet(Pending(a)') /\ Cardinality(Pending(a)') <= Cardinality(Pending(a))
  BY <1>3, FS_Subset
<1>6. CASE a = ToClose.acct
  <2>1. /\ IsFiniteSet(Pending(a) \ {gone})
        /\ Cardinality(Pending(a) \ {gone}) = Cardinality(Pending(a)) - 1
    BY <1>4, <1>6, FS_RemoveElement
  <2>2. Pending(a)' \in SUBSET (Pending(a) \ {gone})
    BY <1>3
  <2>3. Cardinality(Pending(a)') <= Cardinality(Pending(a) \ {gone})
    BY <2>1, <2>2, FS_Subset
  <2>4. QED
    BY <1>5, <2>1, <2>3
<1>7. QED
  BY <1>5, <1>6

(* The steps that neither list positions nor close one.                    *)
LEMMA FlattenFrame ==
  ASSUME TypeInv, [Next]_vars, Budget["flatten"] # Unlimited,
         ~ \E down \in SUBSET Accounts : FlattenRead(down),
         ~FlattenTaken, ~FlattenNotTaken
  PROVE  /\ spent'["flatten"] = spent["flatten"]
         /\ toClose' = {} \/ UNCHANGED <<toClose, closeTries>>
<1> USE DEF TypeInv, TypeOK
<1>1. ASSUME NEW kind \in Kinds \ {"flatten"}, Spend(kind)
      PROVE  spent'["flatten"] = spent["flatten"]
  BY <1>1 DEF Spend, Kinds
<1>2. CASE ThreadMoves
  BY <1>2, ZenonT(40)
  DEF ThreadMoves, ThreadStep, OmsClear, OmsReject, OmsRoute, PersistPending, SendAcked,
      SendDeclined, SendLost, SendFailed, SendRefused, RoutesFailed, MarkUnknown, Acknowledge,
      ProcessFill, Attribute, RecordFill, PersistAck, Submit, bounds, loops
<1>3. CASE \E tk \in tickets : BrokerMoves(tk) \/ Cancel(tk)
  BY <1>1, <1>3 DEF BrokerMoves, Cancel, loops, Kinds
<1>4. CASE \E k \in Switches : Arm(k) \/ Disarm(k)
  BY <1>1, <1>4 DEF Arm, Disarm, loops, Kinds
<1>5. CASE (\E down \in SUBSET Accounts : ReconcileRead(down)) \/ ReconcileArm
  BY <1>1, <1>5 DEF ReconcileRead, ReconcileArm, Kinds, bounds
<1>6. CASE Crash
  BY <1>1, <1>6 DEF Crash, Kinds
<1>7. CASE UNCHANGED vars
  BY <1>7 DEF vars, bounds, loops
<1>8. QED
  BY <1>2, <1>3, <1>4, <1>5, <1>6, <1>7 DEF Next, ThreadMoves

(* A first flatten lists only positions of orders sent.                    *)
LEMMA FirstFlatten ==
  ASSUME TypeInv, FlattenInv, Budget["flatten"] # Unlimited, spent["flatten"] = 0,
         NEW down \in SUBSET Accounts, FlattenRead(down), NEW a \in Accounts
  PROVE  /\ IsFiniteSet(Pending(a)')
         /\ Cardinality(Flattening(a)') + Cardinality(Pending(a)')
              <= (MaxRetries + 1) * Cardinality(SentOf(a)')
<1>1. tickets' = tickets /\ Flattening(a) = {}
  BY DEF FlattenRead, FlattenInv, FlattensCounted
<1>2. Flattening(a)' = {} /\ SentOf(a)' = SentOf(a)
  BY <1>1 DEF Flattening, SentOf, Sent
<1>3. \A tk \in toClose' : tk.acct = a => tk \in SentOf(a)
  <2>1. \A tk \in toClose' : tk \in tickets
    BY DEF FlattenRead
  <2>2. QED
    BY <1>1, <2>1 DEF SentOf, Sent, Flattening
<1>4. Pending(a)' \in SUBSET (SentOf(a) \X (1..(MaxRetries + 1)))
  BY <1>3 DEF Pending
<1>5. IsFiniteSet(SentOf(a)) /\ Cardinality(SentOf(a)) \in Nat
  BY AccountFinite DEF FlattenInv
<1>6. IsFiniteSet(1..(MaxRetries + 1)) /\ Cardinality(1..(MaxRetries + 1)) = MaxRetries + 1
  <2>1. MaxRetries + 1 \in Nat \ {0}
    BY ConstantsAssumption
  <2>2. \A n \in Nat \ {0} : IsFiniteSet(1..n) /\ Cardinality(1..n) = n
    BY FS_Interval
  <2>3. QED
    BY <2>1, <2>2
<1>7. /\ IsFiniteSet(SentOf(a) \X (1..(MaxRetries + 1)))
      /\ Cardinality(SentOf(a) \X (1..(MaxRetries + 1)))
           = Cardinality(SentOf(a)) * Cardinality(1..(MaxRetries + 1))
  BY <1>5, <1>6, FS_Product, Zenon
<1>8. /\ IsFiniteSet(Pending(a)')
      /\ Cardinality(Pending(a)') <= Cardinality(SentOf(a)) * (MaxRetries + 1)
  BY <1>4, <1>6, <1>7, FS_Subset
<1>9. Cardinality(Pending(a)') \in Nat /\ Cardinality({}) = 0
  BY <1>8, FS_CardinalityType, FS_EmptySet
<1>10. Cardinality(SentOf(a)) * (MaxRetries + 1) = (MaxRetries + 1) * Cardinality(SentOf(a))
  BY <1>5, ConstantsAssumption
<1>11. QED
  BY <1>2, <1>8, <1>9, <1>10

LEMMA FlattensCountedStep ==
  ASSUME TypeInv, TypeInv', FlattenInv, [Next]_vars
  PROVE  FlattensCounted'
<1> USE DEF TypeInv, TypeOK
<1> DEFINE Bounded(a) ==
      /\ IsFiniteSet(Pending(a)')
      /\ Cardinality(Flattening(a)') + Cardinality(Pending(a)')
           <= (MaxRetries + 1) * Cardinality(SentOf(a)')
<1>1. SUFFICES ASSUME Budget["flatten"] # Unlimited
               PROVE  /\ spent'["flatten"] = 0 =>
                           toClose' = {} /\ \A a \in Accounts : Flattening(a)' = {}
                      /\ spent'["flatten"] <= 1 => \A a \in Accounts : Bounded(a)
  BY DEF FlattensCounted
<1>2. spent["flatten"] \in Nat /\ spent'["flatten"] \in Nat
  BY DEF Kinds
<1>3. MaxRetries + 1 \in Nat
  BY ConstantsAssumption
<1>4. IsFiniteSet(tickets) /\ UniqueTickets /\ FlattensCounted
  BY DEF FlattenInv
<1>5. \A a \in Accounts : BooksKept(a)
  BY <1>4, BooksKeptStep
<1>6. ASSUME NEW a \in Accounts
      PROVE  /\ Cardinality(SentOf(a)) \in Nat /\ Cardinality(Flattening(a)) \in Nat
             /\ Cardinality(SentOf(a)') \in Nat /\ Cardinality(Flattening(a)') \in Nat
  <2>1. SentOf(a)' \in SUBSET tickets' /\ Flattening(a)' \in SUBSET tickets'
    BY DEF SentOf, Sent, Flattening
  <2>2. IsFiniteSet(SentOf(a)') /\ IsFiniteSet(Flattening(a)')
    BY <1>5, <2>1, FS_Subset DEF BooksKept
  <2>3. QED
    BY <1>4, <2>2, AccountFinite, FS_CardinalityType
<1>7. ASSUME spent["flatten"] <= 1, NEW a \in Accounts,
             IsFiniteSet(Pending(a)'),
             Cardinality(Flattening(a)') + Cardinality(Pending(a)')
               <= Cardinality(Flattening(a)) + Cardinality(Pending(a))
      PROVE  Bounded(a)
  <2>1. /\ IsFiniteSet(Pending(a))
        /\ Cardinality(Flattening(a)) + Cardinality(Pending(a))
             <= (MaxRetries + 1) * Cardinality(SentOf(a))
    BY <1>1, <1>4, <1>7 DEF FlattensCounted
  <2>2. Cardinality(Pending(a)) \in Nat /\ Cardinality(Pending(a)') \in Nat
    BY <1>7, <2>1, FS_CardinalityType
  <2>3. Cardinality(SentOf(a)) <= Cardinality(SentOf(a)')
    BY <1>5 DEF BooksKept
  <2>4. QED
    BY <1>3, <1>6, <1>7, <2>1, <2>2, <2>3, FlattenArithmetic
<1> DEFINE Goal ==
      /\ spent'["flatten"] = 0 => toClose' = {} /\ \A a \in Accounts : Flattening(a)' = {}
      /\ spent'["flatten"] <= 1 => \A a \in Accounts : Bounded(a)
<1>8. ASSUME NEW down \in SUBSET Accounts, FlattenRead(down) PROVE Goal
  <2>1. spent'["flatten"] = spent["flatten"] + 1
    BY <1>1, <1>8 DEF FlattenRead, Spend, Kinds
  <2>2. spent'["flatten"] <= 1 => spent["flatten"] = 0
    BY <1>2, <2>1
  <2>3. spent["flatten"] = 0 => \A a \in Accounts : Bounded(a)
    <3>1. SUFFICES ASSUME spent["flatten"] = 0, NEW a \in Accounts PROVE Bounded(a)
      OBVIOUS
    <3>2. SentOf(a)' = SentOf(a)
      BY <1>8 DEF FlattenRead, SentOf, Sent
    <3>3. QED
      BY <1>1, <1>8, <3>1, <3>2, FirstFlatten
  <2>4. spent'["flatten"] # 0
    BY <1>2, <2>1
  <2> HIDE DEF Bounded
  <2>5. QED
    BY <2>2, <2>3, <2>4
<1>9. ASSUME FlattenTaken \/ FlattenNotTaken PROVE Goal
  <2>1. toClose # {} /\ spent' = spent /\ (NextPosition \/ CloseAttemptFailed)
    BY <1>9 DEF FlattenTaken, FlattenNotTaken, bounds
  <2>2. spent["flatten"] # 0
    BY <1>1, <1>4, <2>1 DEF FlattensCounted
  <2>3. ASSUME spent["flatten"] <= 1, NEW a \in Accounts PROVE Bounded(a)
    <3>1. IsFiniteSet(Pending(a))
      BY <1>1, <1>4, <2>3 DEF FlattensCounted
    <3>2. /\ IsFiniteSet(Pending(a)') /\ Cardinality(Pending(a)') <= Cardinality(Pending(a))
          /\ a = ToClose.acct => Cardinality(Pending(a)') <= Cardinality(Pending(a)) - 1
      BY <2>1, <3>1, PendingShrinks
    <3>3. Cardinality(Pending(a)) \in Nat /\ Cardinality(Pending(a)') \in Nat
      BY <3>1, <3>2, FS_CardinalityType
    <3>4. \/ Cardinality(Flattening(a)') <= Cardinality(Flattening(a))
          \/ /\ a = ToClose.acct
             /\ Cardinality(Flattening(a)') <= Cardinality(Flattening(a)) + 1
      BY <1>5 DEF BooksKept
    <3>5. Cardinality(Flattening(a)') + Cardinality(Pending(a)')
            <= Cardinality(Flattening(a)) + Cardinality(Pending(a))
      BY <1>6, <3>2, <3>3, <3>4
    <3>6. QED
      BY <1>7, <2>3, <3>2, <3>5
  <2> HIDE DEF Bounded
  <2>4. QED
    BY <2>1, <2>2, <2>3
<1>10. ASSUME ~ \E down \in SUBSET Accounts : FlattenRead(down),
              ~FlattenTaken, ~FlattenNotTaken
       PROVE  Goal
  <2>1. /\ spent'["flatten"] = spent["flatten"]
        /\ toClose' = {} \/ UNCHANGED <<toClose, closeTries>>
    BY <1>1, <1>10, FlattenFrame
  <2>2. \A a \in Accounts : Cardinality(Flattening(a)') <= Cardinality(Flattening(a))
    BY <1>5, <1>10 DEF BooksKept
  <2>3. \A a \in Accounts : Pending(a)' \in SUBSET Pending(a)
    <3>1. CASE toClose' = {}
      BY <3>1 DEF Pending
    <3>2. CASE UNCHANGED <<toClose, closeTries>>
      BY <3>2 DEF Pending, ToClose
    <3>3. QED
      BY <2>1, <3>1, <3>2
  <2>4. ASSUME spent["flatten"] <= 1, NEW a \in Accounts PROVE Bounded(a)
    <3>1. IsFiniteSet(Pending(a))
      BY <1>1, <1>4, <2>4 DEF FlattensCounted
    <3>2. IsFiniteSet(Pending(a)') /\ Cardinality(Pending(a)') <= Cardinality(Pending(a))
      BY <2>3, <3>1, FS_Subset
    <3>3. Cardinality(Pending(a)) \in Nat /\ Cardinality(Pending(a)') \in Nat
      BY <3>1, <3>2, FS_CardinalityType
    <3>4. Cardinality(Flattening(a)') + Cardinality(Pending(a)')
            <= Cardinality(Flattening(a)) + Cardinality(Pending(a))
      BY <1>6, <2>2, <3>2, <3>3
    <3>5. QED
      BY <1>7, <2>4, <3>2, <3>4
  <2>5. ASSUME spent["flatten"] = 0
        PROVE  toClose' = {} /\ \A a \in Accounts : Flattening(a)' = {}
    <3>1. toClose = {} /\ \A a \in Accounts : Flattening(a) = {}
      BY <1>1, <1>4, <2>5 DEF FlattensCounted
    <3>2. \A a \in Accounts : IsFiniteSet(Flattening(a)')
      <4>1. \A a \in Accounts : Flattening(a)' \in SUBSET tickets'
        BY DEF Flattening
      <4>2. \A a \in Accounts : IsFiniteSet(tickets')
        BY <1>5 DEF BooksKept
      <4>3. QED
        BY <4>1, <4>2, FS_Subset
    <3>3. \A a \in Accounts : Cardinality(Flattening(a)') = 0
      <4>1. \A a \in Accounts : Cardinality(Flattening(a)) = 0
        BY <3>1, FS_EmptySet
      <4>2. QED
        BY <1>6, <2>2, <4>1
    <3>4. QED
      BY <2>1, <3>1, <3>2, <3>3, FS_EmptySet
  <2> HIDE DEF Bounded
  <2>6. QED
    BY <2>1, <2>4, <2>5
<1> HIDE DEF Goal
<1>11. Goal
  BY <1>8, <1>9, <1>10
<1>12. QED
  BY <1>11 DEF Goal


LEMMA FlattenStep ==
  ASSUME TypeInv, TypeInv', FlattenInv, [Next]_vars
  PROVE  FlattenInv'
<1>1. IsFiniteSet(tickets) /\ UniqueTickets
  BY DEF FlattenInv
<1>2. IsFiniteSet(tickets') /\ UniqueTickets'
  <2>1. CASE Accounts = {}
    <3>1. tickets' = {}
      BY <2>1 DEF TypeInv, TypeOK, Ticket
    <3>2. QED
      BY <3>1, FS_EmptySet DEF UniqueTickets
  <2>2. CASE Accounts # {}
    <3>1. PICK a \in Accounts : TRUE
      BY <2>2
    <3>2. BooksKept(a)
      BY <1>1, <3>1, BooksKeptStep
    <3>3. QED
      BY <3>2 DEF BooksKept
  <2>3. QED
    BY <2>1, <2>2
<1>3. FlattensCounted'
  BY FlattensCountedStep
<1>4. QED
  BY <1>2, <1>3 DEF FlattenInv

(* Flattening the accounts (execution.py:602-658) sends an account at most *)
(* one closing order per position and attempt: a lost answer makes it send *)
(* another, and what it has sent and may still send is within the bound.   *)
THEOREM FlattensBounded == Spec => []FlattenBound
<1>1. TypeInv /\ FlattenInv => FlattenBound
  <2>1. SUFFICES ASSUME TypeInv, FlattenInv, Budget["flatten"] # Unlimited,
                        spent["flatten"] <= 1, NEW a \in Accounts
                 PROVE  Cardinality(Flattening(a)) <= (MaxRetries + 1) * Cardinality(SentOf(a))
    BY DEF FlattenBound, SentOf
  <2>2. /\ IsFiniteSet(Pending(a))
        /\ Cardinality(Flattening(a)) + Cardinality(Pending(a))
             <= (MaxRetries + 1) * Cardinality(SentOf(a))
    BY <2>1 DEF FlattenInv, FlattensCounted
  <2>3. /\ Cardinality(Flattening(a)) \in Nat /\ Cardinality(SentOf(a)) \in Nat
        /\ Cardinality(Pending(a)) \in Nat
    BY <2>1, <2>2, AccountFinite, FS_CardinalityType DEF FlattenInv
  <2>4. (MaxRetries + 1) * Cardinality(SentOf(a)) \in Int
    BY <2>3, ConstantsAssumption
  <2>5. QED
    BY <2>2, <2>3, <2>4
<1>2. TypeInv /\ TypeInv' /\ FlattenInv /\ [Next]_vars => FlattenInv'
  BY FlattenStep
<1>3. QED
  BY <1>1, <1>2, InitType, TypeStep, InitFlatten, PTL DEF Spec

-----------------------------------------------------------------------------
(* The fills table and the ledger                                          *)

(* A set of naturals has a least element.                                  *)
LEMMA LeastNumber ==
  ASSUME NEW T \in SUBSET Nat, T # {}
  PROVE  \E least \in T : \A other \in T : least <= other
<1>1. IsWellFoundedOn(OpToRel(<, Nat), Nat)
  BY NatLessThanWellFounded
<1>2. PICK least \in T : \A other \in T : <<other, least>> \notin OpToRel(<, Nat)
  BY <1>1, WFMin
<1>3. \A other \in T : ~(other < least)
  BY <1>2 DEF OpToRel
<1>4. QED
  BY <1>3

(* A finite set some subset of which is bad has a least bad one.           *)
LEMMA LeastSubset ==
  ASSUME NEW U, IsFiniteSet(U), NEW Bad \in SUBSET (SUBSET U), Bad # {}
  PROVE  \E s \in Bad : \A d \in SUBSET U : Cardinality(d) < Cardinality(s) => d \notin Bad
<1> DEFINE Sizes == {Cardinality(s) : s \in Bad}
<1>1. \A s \in SUBSET U : Cardinality(s) \in Nat
  BY FS_Subset, FS_CardinalityType
<1>2. Sizes \in SUBSET Nat /\ Sizes # {}
  BY <1>1
<1>3. PICK least \in Sizes : \A other \in Sizes : least <= other
  BY <1>2, LeastNumber
<1>4. PICK s \in Bad : least = Cardinality(s)
  BY <1>3
<1>5. ASSUME NEW d \in SUBSET U, Cardinality(d) < Cardinality(s) PROVE d \notin Bad
  <2>1. d \in Bad => Cardinality(d) \in Sizes
    OBVIOUS
  <2>2. Cardinality(d) \in Nat /\ Cardinality(s) \in Nat
    BY <1>1
  <2> HIDE DEF Sizes
  <2>3. QED
    BY <1>3, <1>4, <1>5, <2>1, <2>2
<1>6. QED
  BY <1>5

(* The sum of the units of a set of fills, as a function of its subsets.   *)
Units(S) == MapThenSumSet(LAMBDA f : f.units, S)
OneOf(s) == CHOOSE f \in s : TRUE
Totals(U, sum) ==
  sum = [s \in SUBSET U |-> IF s = {} THEN 0 ELSE OneOf(s).units + sum[s \ {OneOf(s)}]]

Fills(U) == IsFiniteSet(U) /\ \A f \in U : f.units \in Int

LEMMA OneLess ==
  ASSUME NEW U, IsFiniteSet(U), NEW s \in SUBSET U, NEW f \in s
  PROVE  /\ s \ {f} \in SUBSET U /\ Cardinality(s) \in Nat /\ Cardinality(s \ {f}) \in Nat
         /\ Cardinality(s \ {f}) = Cardinality(s) - 1 /\ Cardinality(s \ {f}) < Cardinality(s)
<1>1. IsFiniteSet(s)
  BY FS_Subset
<1>2. /\ Cardinality(s) \in Nat /\ IsFiniteSet(s \ {f})
      /\ Cardinality(s \ {f}) = Cardinality(s) - 1
  BY <1>1, FS_CardinalityType, FS_RemoveElement
<1>3. QED
  BY <1>2, FS_CardinalityType

LEMMA OneOfFits ==
  ASSUME NEW s, s # {}
  PROVE  OneOf(s) \in s
BY Zenon DEF OneOf

LEMMA TotalsExist ==
  ASSUME NEW U, Fills(U)
  PROVE  \E sum \in [SUBSET U -> Int] : Totals(U, sum)
<1> USE DEF Fills
<1> DEFINE Below(n) == {s \in SUBSET U : Cardinality(s) <= n}
           Total(g, s) == IF s = {} THEN 0 ELSE OneOf(s).units + g[s \ {OneOf(s)}]
           Solves(g, n) == g \in [Below(n) -> Int] /\ \A s \in Below(n) : g[s] = Total(g, s)
<1>1. \A s \in SUBSET U : s # {} =>
        /\ OneOf(s) \in s /\ OneOf(s).units \in Int /\ s \ {OneOf(s)} \in SUBSET U
        /\ Cardinality(s) \in Nat /\ Cardinality(s \ {OneOf(s)}) \in Nat
        /\ Cardinality(s \ {OneOf(s)}) = Cardinality(s) - 1
  BY OneLess, OneOfFits
<1>2. \A s \in SUBSET U : Cardinality(s) \in Nat /\ (Cardinality(s) = 0 => s = {})
  BY FS_Subset, FS_CardinalityType, FS_EmptySet
<1>3. Cardinality({}) = 0
  BY FS_EmptySet
<1>4. ASSUME NEW n \in Nat, NEW g, Solves(g, n) PROVE \E h : Solves(h, n + 1)
  <2> DEFINE h == [s \in Below(n + 1) |-> Total(g, s)]
  <2>1. \A s \in Below(n + 1) : s # {} => s \ {OneOf(s)} \in Below(n)
    BY <1>1
  <2>2. \A s \in Below(n) : s \in Below(n + 1) /\ h[s] = g[s]
    BY <1>2, <1>4
  <2>3. h \in [Below(n + 1) -> Int]
    BY <1>1, <1>4, <2>1
  <2>4. \A s \in Below(n + 1) : h[s] = Total(h, s)
    BY <2>1, <2>2
  <2>5. QED
    BY <2>3, <2>4
<1>5. ASSUME NEW n \in Nat PROVE \E g : Solves(g, n)
  <2> DEFINE Unsolved == {m \in Nat : ~\E g : Solves(g, m)}
  <2>1. Solves([s \in {{}} |-> 0], 0)
    <3>1. Below(0) = {{}}
      BY <1>2, <1>3
    <3>2. QED
      BY <3>1
  <2> HIDE DEF Solves
  <2>2. SUFFICES ASSUME Unsolved # {} PROVE FALSE
    BY <1>5
  <2>3. PICK m \in Unsolved : \A other \in Unsolved : m <= other
    BY <2>2, LeastNumber
  <2>4. m \in Nat /\ m # 0
    BY <2>1, <2>3
  <2>5. m - 1 \in Nat /\ m - 1 \notin Unsolved
    <3> HIDE DEF Unsolved
    <3>1. m - 1 \in Nat /\ ~(m <= m - 1)
      BY <2>4
    <3>2. QED
      BY <2>3, <3>1
  <2>6. PICK g : Solves(g, m - 1)
    BY <2>5
  <2>7. (m - 1) + 1 = m
    BY <2>4
  <2>8. \E h : Solves(h, m)
    BY <1>4, <2>5, <2>6, <2>7
  <2>9. QED
    BY <2>3, <2>8
<1>6. Cardinality(U) \in Nat /\ Below(Cardinality(U)) = SUBSET U
  <2>1. \A s \in SUBSET U : Cardinality(s) <= Cardinality(U)
    BY FS_Subset
  <2>2. QED
    BY <2>1, FS_CardinalityType
<1>7. PICK g : Solves(g, Cardinality(U))
  BY <1>5, <1>6
<1>8. g \in [SUBSET U -> Int] /\ Totals(U, g)
  BY <1>6, <1>7 DEF Totals
<1>9. QED
  BY <1>8

LEMMA UnitsAre ==
  ASSUME NEW U, Fills(U)
  PROVE  \E sum \in [SUBSET U -> Int] : Totals(U, sum) /\ Units(U) = sum[U]
<1> DEFINE sum == CHOOSE sum : Totals(U, sum)
<1>1. Units(U) = sum[U]
  BY Zenon DEF Units, MapThenSumSet, MapThenFoldSet, Totals, OneOf
<1>2. PICK any \in [SUBSET U -> Int] : Totals(U, any)
  BY TotalsExist
<1>3. Totals(U, sum)
  BY <1>2, Zenon
<1> HIDE DEF sum
<1>4. sum = any
  <2> DEFINE Bad == {s \in SUBSET U : sum[s] # any[s]}
  <2>1. \A s \in SUBSET U :
          /\ sum[s] = IF s = {} THEN 0 ELSE OneOf(s).units + sum[s \ {OneOf(s)}]
          /\ any[s] = IF s = {} THEN 0 ELSE OneOf(s).units + any[s \ {OneOf(s)}]
    BY <1>2, <1>3 DEF Totals
  <2>2. Bad = {}
    <3>1. SUFFICES ASSUME Bad # {} PROVE FALSE
      OBVIOUS
    <3>2. PICK s \in Bad : \A d \in SUBSET U : Cardinality(d) < Cardinality(s) => d \notin Bad
      <4>1. IsFiniteSet(U) /\ Bad \in SUBSET (SUBSET U)
        BY DEF Fills
      <4> HIDE DEF Bad
      <4>2. QED
        BY <3>1, <4>1, LeastSubset
    <3>3. s # {} /\ s \in SUBSET U
      BY <2>1, <3>2
    <3>4. s \ {OneOf(s)} \in SUBSET U /\ Cardinality(s \ {OneOf(s)}) < Cardinality(s)
      BY <3>3, OneLess, OneOfFits DEF Fills
    <3>5. sum[s \ {OneOf(s)}] = any[s \ {OneOf(s)}]
      BY <3>2, <3>4
    <3>6. QED
      BY <2>1, <3>2, <3>3, <3>5
  <2>3. sum = [s \in SUBSET U |-> sum[s]]
    BY <1>3 DEF Totals
  <2>4. QED
    BY <1>2, <2>2, <2>3
<1>5. QED
  BY <1>1, <1>2, <1>3, <1>4

(* It does not matter which fill is taken out first.                       *)
LEMMA TotalsWithout ==
  ASSUME NEW U, Fills(U), NEW sum \in [SUBSET U -> Int], Totals(U, sum), NEW f \in U
  PROVE  sum[U] = f.units + sum[U \ {f}]
<1> DEFINE Bad == {s \in SUBSET U : \E y \in s : sum[s] # y.units + sum[s \ {y}]}
<1>1. \A s \in SUBSET U : s # {} => sum[s] = OneOf(s).units + sum[s \ {OneOf(s)}]
  BY DEF Totals
<1>2. Bad = {}
  <2>1. SUFFICES ASSUME Bad # {} PROVE FALSE
    OBVIOUS
  <2>2. PICK s \in Bad : \A d \in SUBSET U : Cardinality(d) < Cardinality(s) => d \notin Bad
    BY <2>1, LeastSubset DEF Fills
  <2>3. PICK y \in s : sum[s] # y.units + sum[s \ {y}]
    BY <2>2
  <2> DEFINE z == OneOf(s)
  <2>4. s \in SUBSET U /\ s # {} /\ z \in s
    BY <2>2, <2>3, OneOfFits
  <2>5. sum[s] = z.units + sum[s \ {z}]
    BY <1>1, <2>4
  <2> HIDE DEF z
  <2>6. y # z
    BY <2>3, <2>5
  <2>7. /\ s \ {z} \in SUBSET U /\ Cardinality(s \ {z}) < Cardinality(s)
        /\ s \ {y} \in SUBSET U /\ Cardinality(s \ {y}) < Cardinality(s)
    BY <2>4, OneLess DEF Fills
  <2>8. sum[s \ {z}] = y.units + sum[(s \ {z}) \ {y}]
    BY <2>2, <2>4, <2>6, <2>7
  <2>9. sum[s \ {y}] = z.units + sum[(s \ {y}) \ {z}]
    BY <2>2, <2>4, <2>6, <2>7
  <2>10. (s \ {z}) \ {y} = (s \ {y}) \ {z} /\ (s \ {z}) \ {y} \in SUBSET U
    BY <2>4
  <2>11. y.units \in Int /\ z.units \in Int /\ sum[(s \ {z}) \ {y}] \in Int
    BY <2>4, <2>10 DEF Fills
  <2>12. sum[s] = z.units + (y.units + sum[(s \ {z}) \ {y}])
    BY <2>5, <2>8
  <2>13. y.units + sum[s \ {y}] = y.units + (z.units + sum[(s \ {z}) \ {y}])
    BY <2>9, <2>10
  <2>14. \A a, b, c \in Int : a + (b + c) = b + (a + c)
    OBVIOUS
  <2>15. QED
    BY <2>3, <2>11, <2>12, <2>13, <2>14
<1>3. U \notin Bad
  BY <1>2
<1>4. QED
  BY <1>3

(* A fill more adds its units.                                             *)
LEMMA UnitsAdd ==
  ASSUME NEW S, Fills(S), NEW f, f \notin S, f.units \in Int
  PROVE  Fills(S \cup {f}) /\ Units(S \cup {f}) = Units(S) + f.units /\ Units(S) \in Int
<1> DEFINE U == S \cup {f}
<1>1. Fills(U)
  BY FS_AddElement DEF Fills
<1>2. PICK sum \in [SUBSET U -> Int] : Totals(U, sum) /\ Units(U) = sum[U]
  BY <1>1, UnitsAre
<1>3. PICK part \in [SUBSET S -> Int] : Totals(S, part) /\ Units(S) = part[S]
  BY UnitsAre
<1>4. U \ {f} = S /\ S \in SUBSET U /\ f \in U /\ SUBSET S \subseteq SUBSET U
  OBVIOUS
<1> HIDE DEF U
<1>5. sum[U] = f.units + sum[S]
  BY <1>1, <1>2, <1>4, TotalsWithout
<1>6. part[S] = sum[S]
  <2> DEFINE Bad == {s \in SUBSET S : part[s] # sum[s]}
  <2>1. \A s \in SUBSET S :
          /\ part[s] = IF s = {} THEN 0 ELSE OneOf(s).units + part[s \ {OneOf(s)}]
          /\ sum[s] = IF s = {} THEN 0 ELSE OneOf(s).units + sum[s \ {OneOf(s)}]
    BY <1>2, <1>3, <1>4 DEF Totals
  <2>2. Bad = {}
    <3>1. SUFFICES ASSUME Bad # {} PROVE FALSE
      OBVIOUS
    <3>2. PICK s \in Bad : \A d \in SUBSET S : Cardinality(d) < Cardinality(s) => d \notin Bad
      <4>1. IsFiniteSet(S) /\ Bad \in SUBSET (SUBSET S)
        BY DEF Fills
      <4> HIDE DEF Bad
      <4>2. QED
        BY <3>1, <4>1, LeastSubset
    <3>3. s # {} /\ s \in SUBSET S
      BY <2>1, <3>2
    <3>4. s \ {OneOf(s)} \in SUBSET S /\ Cardinality(s \ {OneOf(s)}) < Cardinality(s)
      BY <3>3, OneLess, OneOfFits DEF Fills
    <3>5. part[s \ {OneOf(s)}] = sum[s \ {OneOf(s)}]
      BY <3>2, <3>4
    <3>6. QED
      BY <2>1, <3>2, <3>3, <3>5
  <2>3. S \notin Bad
    BY <2>2
  <2>4. QED
    BY <2>3
<1>7. sum[S] \in Int
  BY <1>2, <1>4
<1>8. QED
  BY <1>1, <1>2, <1>3, <1>5, <1>6, <1>7 DEF U

(* The fill a thread is about to book, as a row of the fills table.        *)
Due(t) ==
  [num |-> ack[t].num, sym |-> SymbolOf[Child(t).intent],
   units |-> Signed(Child(t), ack[t].units)]

(* One thread at a time is between the look-up and the write of a pair.    *)
Alone ==
  \A t, u \in Threads :
    /\ pc[t] = "attribute" /\ pc[u] = "attribute"
    /\ SymbolOf[Child(t).intent] = SymbolOf[Child(u).intent]
    => t = u

(* No fill is larger than the opposite position it meets.                  *)
NoReversal ==
  \A t \in Threads :
    pc[t] = "attribute" => Applied(seen[t], Due(t).units) = seen[t] + Due(t).units

(* The fill of an intent submitted again finds its order where it may      *)
(* move.                                                                   *)
Movable(t) ==
  LET o == Child(t) IN
  Accepts(sm[o], IF filled[o] + ack[t].units >= Size(o) THEN "FILLED" ELSE "PARTIALLY_FILLED")

FillsMove ==
  \A t \in Threads : pc[t] = "fill" => Movable(t) \/ submits[Child(t).intent] <= 1

(* The ticket numbers of two accounts do not meet.                         *)
NumbersApart == \A x, y \in tickets : x.num = y.num => x.acct = y.acct

(* What the code leaves to luck.                                           *)
Undisputed == Alone /\ NoReversal /\ FillsMove /\ NumbersApart

(* A thread has a fill in hand that is not in the fills table.             *)
Dealt(t) ==
  pc[t] \in {"acked", "fill", "attribute", "record"} /\ ack[t].status = "FILLED"

(* The fills the positions contain: those of the table, and those that are *)
(* about to be written to it.                                              *)
Booked == fillRows \cup {Due(t) : t \in {u \in Threads : pc[u] = "record"}}

Numbers == {tk.num : tk \in tickets}

(* Each fill, in the table or in hand, has a ticket number of its own.     *)
Numbered ==
  /\ \A t \in Threads : pc[t] \in {"fill", "attribute", "record"} => ack[t].status = "FILLED"
  /\ \A t \in Threads : Dealt(t) => ack[t].num \in Numbers
  /\ \A f \in fillRows : f.num \in Numbers
  /\ \A t \in Threads : Dealt(t) => \A f \in fillRows : f.num # ack[t].num
  /\ \A t, u \in Threads : Dealt(t) /\ Dealt(u) /\ ack[t].num = ack[u].num => t = u

(* What a thread has looked up is still the position.                      *)
Current == \A t \in Threads : pc[t] = "attribute" => seen[t] = pos[SymbolOf[Child(t).intent]]

Of(s) == {f \in Booked : f.sym = s}

Summed == Fills(Booked) /\ \A s \in Symbols : pos[s] = Units(Of(s))

(* FillTableMatchesLedger says nothing while a fill is being booked; that  *)
(* the positions are right then takes the fills in between, that they are  *)
(* new to the table, and that they meet the position they looked up.       *)
LedgerInv == Numbered /\ Current /\ Summed

(* Nothing adds up to nothing.                                             *)
LEMMA UnitsOfNone == Fills({}) /\ Units({}) = 0
<1>1. Fills({})
  BY FS_EmptySet DEF Fills
<1>2. PICK sum \in [SUBSET {} -> Int] : Totals({}, sum) /\ Units({}) = sum[{}]
  BY <1>1, UnitsAre
<1>3. sum[{}] = 0
  BY <1>2 DEF Totals
<1>4. QED
  BY <1>1, <1>2, <1>3

LEMMA InitLedger == Init => LedgerInv
<1>1. SUFFICES ASSUME Init PROVE LedgerInv
  OBVIOUS
<1>2. \A t \in Threads : pc[t] = "idle"
  BY <1>1 DEF Init
<1>3. fillRows = {} /\ Booked = {} /\ \A s \in Symbols : Of(s) = {} /\ pos[s] = 0
  BY <1>1, <1>2 DEF Init, Booked, Of
<1>4. Numbered /\ Current
  BY <1>2, <1>3 DEF Numbered, Current, Dealt
<1>5. QED
  BY <1>3, <1>4, UnitsOfNone DEF LedgerInv, Summed

(* No ticket number is ever lost.                                          *)
LEMMA NumbersStay ==
  ASSUME TypeInv, [Next]_vars, NEW n, n \in Numbers
  PROVE  n \in Numbers'
<1>1. PICK tk \in tickets : tk.num = n
  BY DEF Numbers
<1>2. CASE tickets \subseteq tickets'
  BY <1>1, <1>2 DEF Numbers
<1>3. CASE \E x \in tickets : \E state : Becomes(x, state)
  <2>1. PICK x \in tickets : \E state : Becomes(x, state)
    BY <1>3
  <2>2. PICK state : tickets' = (tickets \ {x}) \cup {[x EXCEPT !.state = state]}
    BY <2>1 DEF Becomes
  <2>3. [x EXCEPT !.state = state].num = x.num
    BY DEF TypeInv, TypeOK, Ticket
  <2>4. QED
    BY <1>1, <2>2, <2>3 DEF Numbers
<1>4. CASE \E t \in Threads : SendAcked(t) \/ SendLost(t)
  <2>1. tickets \subseteq tickets'
    BY <1>4, TakenEffect DEF Opens
  <2>2. QED
    BY <1>2, <2>1
<1>5. CASE FlattenTaken
  BY <1>2, <1>5 DEF FlattenTaken
<1>6. QED
  BY <1>2, <1>3, <1>4, <1>5, BooksStep

(* The surroundings touch neither positions nor fills, unless they crash   *)
(* the process.                                                            *)
LEMMA SurroundingsBookNothing ==
  ASSUME [Next]_vars, ~ThreadMoves, ~Crash
  PROVE  UNCHANGED <<pos, fillRows>>
<1> USE DEF thread, oms, db, loops, bounds
<1>1. CASE \E tk \in tickets : BrokerMoves(tk) \/ Cancel(tk)
  BY <1>1 DEF BrokerMoves, Cancel, Spend
<1>2. CASE \E k \in Switches : Arm(k) \/ Disarm(k)
  BY <1>2 DEF Arm, Disarm, Spend
<1>3. CASE \E down \in SUBSET Accounts : ReconcileRead(down) \/ FlattenRead(down)
  BY <1>3 DEF ReconcileRead, FlattenRead, Spend
<1>4. CASE ReconcileArm \/ FlattenTaken \/ FlattenNotTaken \/ UNCHANGED vars
  BY <1>4 DEF ReconcileArm, FlattenTaken, FlattenNotTaken, vars
<1>5. QED
  BY <1>1, <1>2, <1>3, <1>4 DEF Next, ThreadMoves

(* The five steps that book a fill, from its answer to its row.            *)
Books(t) == SendAcked(t) \/ Acknowledge(t) \/ ProcessFill(t) \/ Attribute(t) \/ RecordFill(t)

(* The other steps of a thread book nothing, begin and end with no fill in *)
(* hand, or with none that is booked.                                      *)
LEMMA OthersBookNothing ==
  ASSUME TypeInv, NEW t \in Threads,
         ThreadStep(t) \/ \E r \in Requests : Submit(t, r), ~Books(t)
  PROVE  /\ UNCHANGED <<pos, fillRows>>
         /\ pc[t] \notin {"fill", "attribute", "record"}
         /\ pc'[t] \notin {"fill", "attribute", "record"}
         /\ pc'[t] = "acked" => ack'[t].status # "FILLED"
<1> USE DEF thread, oms, db, loops, bounds, TypeInv, TypeOK, Goto
<1>1. ASSUME NEW r \in Requests, Submit(t, r)
      PROVE  /\ UNCHANGED <<pos, fillRows>>
             /\ pc[t] \notin {"fill", "attribute", "record"} /\ pc'[t] = "checked"
  BY <1>1 DEF Submit
<1>2. ASSUME NextChild(t) PROVE pc'[t] \in {"idle", "loop"}
  BY <1>2 DEF NextChild, Return
<1>3. CASE OmsReject(t) \/ MarkUnknown(t) \/ PersistAck(t)
  <2>1. OmsReject(t) => pc'[t] = "idle"
    BY DEF OmsReject, Return
  <2>2. /\ UNCHANGED <<pos, fillRows>>
        /\ pc[t] \notin {"fill", "attribute", "record"} /\ pc'[t] \in {"idle", "loop"}
    BY <1>2, <1>3, <2>1 DEF OmsReject, MarkUnknown, PersistAck
  <2>3. QED
    BY <2>2
<1>4. CASE OmsClear(t) \/ OmsRoute(t) \/ PersistPending(t) \/ RoutesFailed(t)
  <2>1. /\ UNCHANGED <<pos, fillRows>>
        /\ pc[t] \notin {"fill", "attribute", "record"}
    BY <1>4 DEF OmsClear, OmsRoute, PersistPending, RoutesFailed
  <2>2. pc'[t] \in {"cleared", "loop", "send", "failed"}
    BY <1>4 DEF OmsClear, OmsRoute, PersistPending, RoutesFailed
  <2>3. QED
    BY <2>1, <2>2
<1>5. CASE SendLost(t) \/ SendFailed(t) \/ SendRefused(t)
  <2>1. UNCHANGED <<pos, fillRows>> /\ pc[t] = "send" /\ pc' = pc
    BY <1>5 DEF SendLost, SendFailed, SendRefused
  <2>2. QED
    BY <2>1
<1>6. CASE SendDeclined(t)
  <2>1. UNCHANGED <<pos, fillRows>> /\ pc[t] = "send" /\ pc'[t] = "acked"
    BY <1>6 DEF SendDeclined
  <2>2. ack'[t].status = "SUBMITTED"
    BY <1>6 DEF SendDeclined
  <2>3. QED
    BY <2>1, <2>2
<1>7. QED
  BY <1>1, <1>3, <1>4, <1>5, <1>6 DEF ThreadStep, Books

(* What a thread has looked up is its own.                                 *)
LEMMA SeenKept ==
  ASSUME TypeInv, NEW t \in Threads,
         ThreadStep(t) \/ \E r \in Requests : Submit(t, r),
         NEW u \in Threads, u # t
  PROVE  seen'[u] = seen[u]
<1> USE DEF thread, TypeInv, TypeOK
<1>1. ASSUME NEW r \in Requests, Submit(t, r) PROVE seen' = seen
  BY <1>1 DEF Submit
<1>2. CASE OmsReject(t) \/ MarkUnknown(t) \/ PersistAck(t)
  BY <1>2 DEF OmsReject, MarkUnknown, PersistAck, NextChild, Return
<1>3. CASE ProcessFill(t)
  <2>1. seen' = [seen EXCEPT ![t] = pos[SymbolOf[Child(t).intent]]] \/ seen' = seen
    BY <1>3 DEF ProcessFill
  <2>2. QED
    BY <2>1
<1>4. CASE \/ OmsClear(t) \/ OmsRoute(t) \/ PersistPending(t) \/ SendAcked(t)
           \/ SendDeclined(t) \/ SendLost(t) \/ SendFailed(t) \/ SendRefused(t)
           \/ RoutesFailed(t) \/ Acknowledge(t) \/ Attribute(t) \/ RecordFill(t)
  <2>1. seen' = seen
    BY <1>4
    DEF OmsClear, OmsRoute, PersistPending, SendAcked, SendDeclined, SendLost, SendFailed,
        SendRefused, RoutesFailed, Acknowledge, Attribute, RecordFill
  <2>2. QED
    BY <2>1
<1>5. QED
  BY <1>1, <1>2, <1>3, <1>4 DEF ThreadStep

(* What a step leaves of a thread's fill when the step is not its own.     *)
LEMMA DueKept ==
  ASSUME TypeInv, NEW t \in Threads,
         ThreadStep(t) \/ \E r \in Requests : Submit(t, r),
         NEW u \in Threads, u # t
  PROVE  /\ pc'[u] = pc[u] /\ ack'[u] = ack[u] /\ Child(u)' = Child(u)
         /\ Due(u)' = Due(u) /\ Dealt(u)' = Dealt(u)
<1>1. pc'[u] = pc[u] /\ ack'[u] = ack[u] /\ queue'[u] = queue[u]
  BY OthersKeep
<1>2. Child(u)' = Child(u)
  BY <1>1 DEF Child
<1>3. QED
  BY <1>1, <1>2 DEF Due, Dealt

(* A thread that books a fill keeps the child and, but for the send, the   *)
(* answer.                                                                 *)
LEMMA BooksEffect ==
  ASSUME TypeInv, NEW t \in Threads
  PROVE  /\ Acknowledge(t) =>
              /\ pc[t] = "acked" /\ UNCHANGED <<queue, ack, pos, fillRows>>
              /\ pc'[t] = IF ack[t].status = "FILLED" THEN "fill" ELSE "persist"
         /\ ProcessFill(t) =>
              /\ pc[t] = "fill" /\ UNCHANGED <<queue, ack, pos, fillRows>>
              /\ IF Movable(t)
                 THEN pc'[t] = "attribute" /\ seen'[t] = pos[SymbolOf[Child(t).intent]]
                 ELSE pc'[t] = "record"
         /\ Attribute(t) =>
              /\ pc[t] = "attribute" /\ pc'[t] = "record"
              /\ UNCHANGED <<queue, ack, fillRows>>
         /\ RecordFill(t) =>
              /\ pc[t] = "record" /\ pc'[t] = "persist"
              /\ UNCHANGED <<queue, ack, pos>>
              /\ fillRows' = IF \E f \in fillRows : f.num = ack[t].num
                             THEN fillRows ELSE fillRows \cup {Due(t)}
<1> USE DEF TypeInv, TypeOK, Goto, oms, db, loops, bounds
<1>1. ASSUME Acknowledge(t)
      PROVE  /\ pc[t] = "acked" /\ UNCHANGED <<queue, ack, pos, fillRows>>
             /\ pc'[t] = IF ack[t].status = "FILLED" THEN "fill" ELSE "persist"
  BY <1>1 DEF Acknowledge
<1>2. ASSUME ProcessFill(t)
      PROVE  /\ pc[t] = "fill" /\ UNCHANGED <<queue, ack, pos, fillRows>>
             /\ IF Movable(t)
                THEN pc'[t] = "attribute" /\ seen'[t] = pos[SymbolOf[Child(t).intent]]
                ELSE pc'[t] = "record"
  BY <1>2 DEF ProcessFill, Movable
<1>3. ASSUME Attribute(t)
      PROVE  /\ pc[t] = "attribute" /\ pc'[t] = "record"
             /\ UNCHANGED <<queue, ack, fillRows>>
  BY <1>3 DEF Attribute
<1>4. ASSUME RecordFill(t)
      PROVE  /\ pc[t] = "record" /\ pc'[t] = "persist"
             /\ UNCHANGED <<queue, ack, pos>>
             /\ fillRows' = IF \E f \in fillRows : f.num = ack[t].num
                            THEN fillRows ELSE fillRows \cup {Due(t)}
  BY <1>4 DEF RecordFill, Due
<1>5. QED
  BY <1>1, <1>2, <1>3, <1>4

(* The fill in hand finds its order where it may move: if the intent was   *)
(* submitted once, nobody else has touched the order.                      *)
LEMMA FillMoves ==
  ASSUME TypeInv, AgreeInv, FillsMove, NEW t \in Threads, pc[t] = "fill"
  PROVE  Movable(t)
<1>1. queue[t] # <<>> /\ queue[t] \in Seq(Orders)
  BY ChildType DEF TypeInv, TypeOK
<1>2. 1 \in DOMAIN queue[t] /\ Child(t) = queue[t][1]
  BY <1>1 DEF Child
<1>3. Child(t).intent = req[t].intent
  BY <1>2 DEF AgreeInv, OwnChildren
<1>4. CASE submits[Child(t).intent] <= 1
  <2>1. sm[Child(t)] = "ACKED"
    BY <1>2, <1>3, <1>4 DEF AgreeInv, Undisturbed, InFlight
  <2>2. QED
    BY <2>1 DEF Movable, Accepts, Successors
<1>5. QED
  BY <1>4 DEF FillsMove

(* A send moves no position and writes no fill.                            *)
LEMMA SendBooksNothing ==
  ASSUME TypeInv, NEW t \in Threads, SendAcked(t)
  PROVE  UNCHANGED <<pos, fillRows>> /\ pc[t] = "send" /\ pc'[t] = "acked"
BY DEF SendAcked, Goto, oms, db, TypeInv, TypeOK

(* The number a broker gives is nobody's yet, at any account.              *)
LEMMA NumberIsNew ==
  ASSUME TypeInv, NumbersApart', NEW t \in Threads, SendAcked(t)
  PROVE  ack'[t].num \in Numbers' /\ ack'[t].num \notin Numbers
<1>1. PICK a \in Accounts, q \in 0..Size(Child(t)) :
        /\ pc[t] = "send" /\ TicketNums \ Used(a) # {}
        /\ Opens(a, Child(t), q)
        /\ ack' = [ack EXCEPT ![t] =
                     [acct |-> a, num |-> Fresh(a), units |-> ReportedUnits(q),
                      status |-> Answer(Child(t), q)]]
  BY TakenEffect
<1>2. ack'[t].num = Fresh(a)
  BY <1>1 DEF TypeInv, TypeOK
<1> DEFINE new == Taken(a, Child(t), q)
<1>3. new.acct = a /\ new.num = Fresh(a) /\ tickets' = tickets \cup {new}
  BY <1>1 DEF Opens, Taken
<1> HIDE DEF new
<1>4. ack'[t].num \in Numbers'
  BY <1>2, <1>3 DEF Numbers
<1>5. ASSUME NEW tk \in tickets PROVE tk.num # Fresh(a)
  <2>1. Fresh(a) \notin Used(a)
    BY <1>1 DEF Fresh
  <2>2. tk.acct = a => tk.num # Fresh(a)
    BY <2>1 DEF Used
  <2>3. tk.num = Fresh(a) => tk.acct = a
    BY <1>3 DEF NumbersApart
  <2>4. QED
    BY <2>2, <2>3
<1>6. ack'[t].num \notin Numbers
  BY <1>2, <1>5 DEF Numbers
<1>7. QED
  BY <1>4, <1>6

(* A fill in hand stays numbered apart from the table's and the others'.   *)
LEMMA NumberedThread ==
  ASSUME TypeInv, Numbered, NumbersApart', [Next]_vars, NEW t \in Threads,
         ThreadStep(t) \/ \E r \in Requests : Submit(t, r)
  PROVE  Numbered'
<1>1. \A u \in Threads \ {t} :
        pc'[u] = pc[u] /\ ack'[u] = ack[u] /\ (Dealt(u)' <=> Dealt(u))
  BY DueKept
<1>2. ASSUME NEW n, n \in Numbers PROVE n \in Numbers'
  BY <1>2, NumbersStay
<1>3. CASE SendAcked(t)
  <2>1. fillRows' = fillRows /\ pc'[t] = "acked"
    BY <1>3, SendBooksNothing
  <2>2. ack'[t].num \in Numbers' /\ ack'[t].num \notin Numbers
    BY <1>3, NumberIsNew
  <2>3. \A u \in Threads : pc'[u] \in {"fill", "attribute", "record"} => ack'[u].status = "FILLED"
    BY <1>1, <2>1 DEF Numbered
  <2>4. \A u \in Threads : Dealt(u)' => ack'[u].num \in Numbers'
    BY <1>1, <1>2, <2>2 DEF Numbered
  <2>5. \A f \in fillRows' : f.num \in Numbers'
    BY <1>2, <2>1 DEF Numbered
  <2>6. \A u \in Threads : Dealt(u)' => \A f \in fillRows' : f.num # ack'[u].num
    BY <1>1, <2>1, <2>2 DEF Numbered
  <2>7. \A u, v \in Threads : Dealt(u)' /\ Dealt(v)' /\ ack'[u].num = ack'[v].num => u = v
    BY <1>1, <2>2 DEF Numbered
  <2>8. QED
    BY <2>3, <2>4, <2>5, <2>6, <2>7 DEF Numbered
<1>4. ASSUME Dealt(t)' => Dealt(t) /\ ack'[t] = ack[t],
             pc'[t] \in {"fill", "attribute", "record"} => ack'[t].status = "FILLED",
             fillRows' = fillRows
      PROVE  Numbered'
  <2>1. \A u \in Threads : Dealt(u)' => Dealt(u) /\ ack'[u] = ack[u]
    BY <1>1, <1>4
  <2>2. \A u \in Threads : pc'[u] \in {"fill", "attribute", "record"} => ack'[u].status = "FILLED"
    BY <1>1, <1>4 DEF Numbered
  <2>3. \A u \in Threads : Dealt(u)' => ack'[u].num \in Numbers'
    BY <1>2, <2>1 DEF Numbered
  <2>4. \A f \in fillRows' : f.num \in Numbers'
    BY <1>2, <1>4 DEF Numbered
  <2>5. \A u \in Threads : Dealt(u)' => \A f \in fillRows' : f.num # ack'[u].num
    BY <1>4, <2>1 DEF Numbered
  <2>6. \A u, v \in Threads : Dealt(u)' /\ Dealt(v)' /\ ack'[u].num = ack'[v].num => u = v
    BY <2>1 DEF Numbered
  <2>7. QED
    BY <2>2, <2>3, <2>4, <2>5, <2>6 DEF Numbered
<1>5. CASE Acknowledge(t) \/ ProcessFill(t) \/ Attribute(t)
  <2>1. /\ ack' = ack /\ fillRows' = fillRows /\ pc[t] \in {"acked", "fill", "attribute"}
        /\ pc[t] = "acked" /\ pc'[t] \in {"fill", "attribute", "record"}
             => ack[t].status = "FILLED"
    BY <1>5, BooksEffect
  <2>2. pc'[t] \in {"fill", "attribute", "record"} => ack'[t].status = "FILLED"
    BY <2>1 DEF Numbered
  <2>3. Dealt(t)' => Dealt(t) /\ ack'[t] = ack[t]
    BY <2>1 DEF Dealt
  <2>4. QED
    BY <1>4, <2>1, <2>2, <2>3
<1>6. CASE RecordFill(t)
  <2>1. /\ pc[t] = "record" /\ pc'[t] = "persist" /\ ack' = ack
        /\ fillRows' \subseteq fillRows \cup {Due(t)} /\ Due(t).num = ack[t].num
    BY <1>6, BooksEffect DEF Due
  <2>2. Dealt(t) /\ ~Dealt(t)'
    BY <2>1 DEF Dealt, Numbered
  <2>3. \A u \in Threads : Dealt(u)' => Dealt(u) /\ u # t
    BY <1>1, <2>2
  <2>4. \A u \in Threads : pc'[u] \in {"fill", "attribute", "record"} => ack'[u].status = "FILLED"
    BY <1>1, <2>1 DEF Numbered
  <2>5. \A u \in Threads : Dealt(u)' => ack'[u].num \in Numbers'
    BY <1>2, <2>1, <2>3 DEF Numbered
  <2>6. \A f \in fillRows' : f.num \in Numbers'
    BY <1>2, <2>1, <2>2 DEF Numbered
  <2>7. \A u \in Threads : Dealt(u)' => \A f \in fillRows' : f.num # ack'[u].num
    BY <2>1, <2>2, <2>3 DEF Numbered
  <2>8. \A u, v \in Threads : Dealt(u)' /\ Dealt(v)' /\ ack'[u].num = ack'[v].num => u = v
    BY <2>1, <2>3 DEF Numbered
  <2>9. QED
    BY <2>4, <2>5, <2>6, <2>7, <2>8 DEF Numbered
<1>7. CASE ~Books(t)
  <2>1. /\ fillRows' = fillRows
        /\ pc'[t] \notin {"fill", "attribute", "record"}
        /\ pc'[t] = "acked" => ack'[t].status # "FILLED"
    BY <1>7, OthersBookNothing
  <2>2. ~Dealt(t)'
    BY <2>1 DEF Dealt
  <2>3. QED
    BY <1>4, <2>1, <2>2
<1>8. QED
  BY <1>3, <1>5, <1>6, <1>7 DEF Books

(* Only the thread at a pair writes its position, so what it looked up is  *)
(* still there.                                                            *)
LEMMA CurrentThread ==
  ASSUME TypeInv, Current, Alone, [Next]_vars, NEW t \in Threads,
         ThreadStep(t) \/ \E r \in Requests : Submit(t, r)
  PROVE  Current'
<1> DEFINE Pair(u) == SymbolOf[Child(u).intent]
<1>1. SUFFICES ASSUME NEW u \in Threads, pc'[u] = "attribute"
               PROVE  seen'[u] = pos'[Pair(u)']
  BY DEF Current
<1>2. CASE u = t
  <2>1. ProcessFill(t)
    BY <1>1, <1>2, OthersBookNothing, BooksEffect, SendBooksNothing DEF Books
  <2>2. seen'[t] = pos[Pair(t)] /\ pos' = pos /\ queue' = queue
    BY <1>1, <1>2, <2>1, BooksEffect
  <2>3. Pair(t)' = Pair(t)
    BY <2>2 DEF Child
  <2>4. QED
    BY <1>2, <2>2, <2>3
<1>3. CASE u # t
  <2>1. pc[u] = "attribute" /\ seen'[u] = seen[u] /\ Pair(u)' = Pair(u)
    BY <1>1, <1>3, DueKept, SeenKept
  <2>2. seen[u] = pos[Pair(u)]
    BY <2>1 DEF Current
  <2>3. pos'[Pair(u)] = pos[Pair(u)]
    <3>1. CASE Attribute(t)
      <4>1. pc[t] = "attribute" /\ Pair(t) # Pair(u)
        BY <1>3, <2>1, <3>1, BooksEffect DEF Alone
      <4>2. \E p : pos' = [pos EXCEPT ![Pair(t)] = p]
        BY <3>1 DEF Attribute
      <4>3. Pair(u) \in Symbols
        BY <2>1, ChildType, OrderFields
      <4>4. QED
        BY <4>1, <4>2, <4>3 DEF TypeInv, TypeOK
    <3>2. CASE ~Attribute(t)
      <4>1. pos' = pos
        BY <3>2, OthersBookNothing, BooksEffect, SendBooksNothing DEF Books
      <4>2. QED
        BY <4>1
    <3>3. QED
      BY <3>1, <3>2
  <2>4. QED
    BY <2>1, <2>2, <2>3
<1>4. QED
  BY <1>2, <1>3

(* A fill is booked by Attribute alone, as one more; its row changes       *)
(* nothing of what is booked.                                              *)
LEMMA BookedStep ==
  ASSUME TypeInv, AgreeInv, Numbered, FillsMove, NEW t \in Threads,
         ThreadStep(t) \/ \E r \in Requests : Submit(t, r)
  PROVE  /\ Attribute(t) => Booked' = Booked \cup {Due(t)} /\ Due(t) \notin Booked
         /\ ~Attribute(t) => Booked' = Booked
<1> DEFINE Rest == {Due(u) : u \in {v \in Threads \ {t} : pc[v] = "record"}}
<1>1. Booked = fillRows \cup Rest \cup (IF pc[t] = "record" THEN {Due(t)} ELSE {})
  BY DEF Booked
<1>2. \A u \in Threads \ {t} : pc'[u] = pc[u] /\ Due(u)' = Due(u)
  BY DueKept
<1>3. Rest' = Rest
  BY <1>2
<1>4. Booked' = fillRows' \cup Rest \cup (IF pc'[t] = "record" THEN {Due(t)'} ELSE {})
  <2>1. Booked' = fillRows' \cup {Due(u)' : u \in {v \in Threads : pc'[v] = "record"}}
    BY DEF Booked
  <2>2. Rest = {Due(u)' : u \in {v \in Threads \ {t} : pc'[v] = "record"}}
    BY <1>2
  <2> HIDE DEF Rest
  <2>3. QED
    BY <2>1, <2>2
<1> HIDE DEF Rest
<1>5. CASE Attribute(t)
  <2>1. pc[t] = "attribute" /\ pc'[t] = "record" /\ UNCHANGED <<queue, ack, fillRows>>
    BY <1>5, BooksEffect
  <2>2. Due(t)' = Due(t)
    BY <2>1 DEF Due, Child
  <2>3. Booked' = Booked \cup {Due(t)}
    BY <1>1, <1>4, <2>1, <2>2
  <2>4. Dealt(t) /\ Due(t).num = ack[t].num
    BY <2>1 DEF Dealt, Numbered, Due
  <2>5. Due(t) \notin fillRows
    BY <2>4 DEF Numbered
  <2>6. ASSUME NEW u \in Threads, pc[u] = "record" PROVE Due(t) # Due(u)
    <3>1. Dealt(u) /\ Due(u).num = ack[u].num /\ u # t
      BY <2>1, <2>6 DEF Dealt, Numbered, Due
    <3>2. ack[t].num # ack[u].num
      BY <2>4, <3>1 DEF Numbered
    <3>3. QED
      BY <2>4, <3>1, <3>2
  <2>7. Due(t) \notin Booked
    BY <2>5, <2>6 DEF Booked
  <2>8. QED
    BY <1>5, <2>3, <2>7
<1>6. CASE RecordFill(t)
  <2>1. /\ pc[t] = "record" /\ pc'[t] = "persist"
        /\ fillRows' = IF \E f \in fillRows : f.num = ack[t].num
                       THEN fillRows ELSE fillRows \cup {Due(t)}
    BY <1>6, BooksEffect
  <2>2. Dealt(t)
    BY <2>1 DEF Dealt, Numbered
  <2>3. fillRows' = fillRows \cup {Due(t)}
    BY <2>1, <2>2 DEF Numbered
  <2>4. ~Attribute(t)
    BY <2>1, BooksEffect
  <2>5. Booked' = Booked
    BY <1>1, <1>4, <2>1, <2>3
  <2>6. QED
    BY <2>4, <2>5
<1>7. CASE ~Attribute(t) /\ ~RecordFill(t)
  <2>1. fillRows' = fillRows
    BY <1>7, BooksEffect, SendBooksNothing, OthersBookNothing DEF Books
  <2>2. pc[t] # "record" /\ pc'[t] # "record"
    <3>1. CASE ProcessFill(t)
      BY <3>1, BooksEffect, FillMoves
    <3>2. CASE Acknowledge(t)
      BY <3>2, BooksEffect
    <3>3. CASE SendAcked(t)
      BY <3>3, SendBooksNothing
    <3>4. CASE ~Books(t)
      BY <3>4, OthersBookNothing
    <3>5. QED
      BY <1>7, <3>1, <3>2, <3>3, <3>4 DEF Books
  <2>3. QED
    BY <1>1, <1>4, <1>7, <2>1, <2>2
<1>8. QED
  BY <1>5, <1>6, <1>7

(* The write adds the fill to the position.                                *)
LEMMA AttributeAdds ==
  ASSUME TypeInv, Current, NoReversal, NEW t \in Threads, Attribute(t)
  PROVE  /\ Due(t).sym \in Symbols /\ Due(t).units \in Int
         /\ pos' = [pos EXCEPT ![Due(t).sym] = pos[Due(t).sym] + Due(t).units]
<1> DEFINE s == SymbolOf[Child(t).intent]
<1>1. pc[t] = "attribute"
  BY BooksEffect
<1>2. Child(t) \in Orders /\ ack[t] \in Acks
  BY <1>1, ChildType DEF TypeInv, TypeOK
<1>3. Due(t).sym = s /\ Due(t).units = Signed(Child(t), ack[t].units)
  BY DEF Due
<1>4. s \in Symbols /\ Due(t).units \in Int
  BY <1>2, <1>3, OrderFields, AckFields
<1>5. seen[t] = pos[s]
  BY <1>1 DEF Current
<1>6. Applied(seen[t], Due(t).units) = seen[t] + Due(t).units
  BY <1>1 DEF NoReversal
<1>7. \/ pos' = [pos EXCEPT ![s] = Applied(seen[t], Signed(Child(t), ack[t].units))]
      \/ seen[t] # pos[s]
  BY DEF Attribute
<1>8. QED
  BY <1>3, <1>4, <1>5, <1>6, <1>7

LEMMA SummedThread ==
  ASSUME TypeInv, AgreeInv, LedgerInv, FillsMove, NoReversal, NEW t \in Threads,
         ThreadStep(t) \/ \E r \in Requests : Submit(t, r)
  PROVE  Summed'
<1>1. Numbered /\ Current /\ Fills(Booked) /\ \A s \in Symbols : pos[s] = Units(Of(s))
  BY DEF LedgerInv, Summed
<1>2. CASE ~Attribute(t)
  <2>1. Booked' = Booked
    BY <1>1, <1>2, BookedStep
  <2>2. pos' = pos
    BY <1>2, BooksEffect, SendBooksNothing, OthersBookNothing DEF Books
  <2>3. Fills(Booked') /\ \A s \in Symbols : Of(s)' = Of(s)
    BY <1>1, <2>1 DEF Of
  <2>4. Fills(Booked)' /\ \A s \in Symbols : Units(Of(s))' = Units(Of(s))
    BY <2>3 DEF Fills
  <2>5. QED
    BY <1>1, <2>2, <2>4 DEF Summed
<1>3. CASE Attribute(t)
  <2> DEFINE f == Due(t)
  <2>1. Booked' = Booked \cup {f} /\ f \notin Booked
    BY <1>1, <1>3, BookedStep
  <2>2. /\ f.sym \in Symbols /\ f.units \in Int
        /\ pos' = [pos EXCEPT ![f.sym] = pos[f.sym] + f.units]
    BY <1>1, <1>3, AttributeAdds
  <2> HIDE DEF f
  <2>3. Fills(Booked \cup {f})
    BY <1>1, <2>1, <2>2, UnitsAdd
  <2>4. \A s \in Symbols : Of(s)' = IF s = f.sym THEN Of(s) \cup {f} ELSE Of(s)
    BY <2>1 DEF Of
  <2>5. ASSUME NEW s \in Symbols PROVE pos'[s] = Units(Of(s)')
    <3>1. CASE s = f.sym
      <4>1. Of(s) \in SUBSET Booked /\ f \notin Of(s)
        BY <2>1 DEF Of
      <4>2. Fills(Of(s))
        BY <1>1, <4>1, FS_Subset DEF Fills
      <4>3. Units(Of(s) \cup {f}) = Units(Of(s)) + f.units
        BY <2>2, <4>1, <4>2, UnitsAdd
      <4>4. pos'[s] = pos[s] + f.units
        BY <2>2, <3>1 DEF TypeInv, TypeOK
      <4>5. QED
        BY <1>1, <2>4, <3>1, <4>3, <4>4
    <3>2. CASE s # f.sym
      <4>1. pos'[s] = pos[s] /\ Of(s)' = Of(s)
        BY <2>2, <2>4, <3>2 DEF TypeInv, TypeOK
      <4>2. QED
        BY <1>1, <4>1
    <3>3. QED
      BY <3>1, <3>2
  <2>6. QED
    BY <2>1, <2>3, <2>5 DEF Summed, Fills
<1>4. QED
  BY <1>2, <1>3

(* Positions, fills and threads untouched, and no ticket number lost.      *)
LEMMA LedgerFrame ==
  ASSUME LedgerInv, UNCHANGED <<pc, queue, ack, seen, pos, fillRows>>,
         \A n : n \in Numbers => n \in Numbers'
  PROVE  LedgerInv'
<1>1. /\ \A t \in Threads : Child(t)' = Child(t) /\ (Dealt(t)' <=> Dealt(t))
      /\ \A t \in Threads : Due(t)' = Due(t)
  BY DEF Child, Due, Dealt
<1>2. Numbered'
  BY <1>1 DEF LedgerInv, Numbered
<1>3. Current'
  BY <1>1 DEF LedgerInv, Current
<1>4. Booked' = Booked
  BY <1>1 DEF Booked
<1>5. Fills(Booked') /\ \A s \in Symbols : Of(s)' = Of(s)
  BY <1>4 DEF LedgerInv, Summed, Of
<1>6. Summed'
  BY <1>5 DEF LedgerInv, Summed, Fills
<1>7. QED
  BY <1>2, <1>3, <1>6 DEF LedgerInv

LEMMA LedgerStep ==
  ASSUME TypeInv, AgreeInv, LedgerInv, Undisputed, Undisputed', [Next]_vars, ~Crash
  PROVE  LedgerInv'
<1>1. CASE ThreadMoves
  <2>1. PICK t \in Threads : ThreadStep(t) \/ \E r \in Requests : Submit(t, r)
    BY <1>1 DEF ThreadMoves
  <2>2. Numbered' /\ Current' /\ Summed'
    BY <2>1, NumberedThread, CurrentThread, SummedThread DEF LedgerInv, Undisputed
  <2>3. QED
    BY <2>2 DEF LedgerInv
<1>2. CASE ~ThreadMoves
  <2>1. UNCHANGED <<pc, queue, ack, seen, pos, fillRows>>
    BY <1>2, SurroundingsKeep, SurroundingsBookNothing DEF thread
  <2>2. \A n : n \in Numbers => n \in Numbers'
    BY NumbersStay
  <2>3. QED
    BY <2>1, <2>2, LedgerFrame
<1>3. QED
  BY <1>1, <1>2

(* The OMS and the fills table agree on every position (oms.py:437-466,    *)
(* execution.py:435-446) unless one of these happens: the process crashes; *)
(* two threads are between the look-up and the write of one pair; a fill   *)
(* reverses a position; a fill of an order submitted again may not move    *)
(* it; two accounts give the same ticket number.                           *)
THEOREM FillTableKept ==
  Spec /\ [][~Crash]_vars /\ []Undisputed => []FillTableMatchesLedger
<1>1. LedgerInv => FillTableMatchesLedger
  <2>1. SUFFICES ASSUME LedgerInv, \A t \in Threads : pc[t] \notin {"attribute", "record"},
                        NEW s \in Symbols
                 PROVE  pos[s] = MapThenSumSet(LAMBDA f : f.units, {f \in fillRows : f.sym = s})
    BY DEF FillTableMatchesLedger
  <2>2. Booked = fillRows
    BY <2>1 DEF Booked
  <2>3. pos[s] = Units({f \in fillRows : f.sym = s})
    BY <2>1, <2>2 DEF LedgerInv, Summed, Of
  <2>4. QED
    BY <2>3 DEF Units
<1>2. /\ TypeInv /\ AgreeInv /\ LedgerInv /\ Undisputed /\ Undisputed'
      /\ [Next]_vars /\ [~Crash]_vars
      => LedgerInv'
  <2>1. SUFFICES ASSUME TypeInv, AgreeInv, LedgerInv, Undisputed, Undisputed', [Next]_vars,
                        [~Crash]_vars
                 PROVE  LedgerInv'
    BY Zenon
  <2>2. CASE ~Crash
    BY <2>1, <2>2, LedgerStep
  <2>3. CASE UNCHANGED vars
    <3>1. UNCHANGED <<pc, queue, ack, seen, pos, fillRows, tickets>>
      BY <2>3 DEF vars, thread, oms, db
    <3>2. Numbers' = Numbers
      BY <3>1 DEF Numbers
    <3>3. QED
      BY <2>1, <3>1, <3>2, LedgerFrame
  <2>4. QED
    BY <2>1, <2>2, <2>3
<1>3. QED
  BY <1>1, <1>2, InitType, TypeStep, InitAgree, AgreeStep, InitLedger, PTL DEF Spec

(* One request thread, one account and every intent submitted once: then   *)
(* only a crash and a reversed position set the fills table and the        *)
(* positions apart.                                                        *)
THEOREM LedgerOfOneThread ==
  ASSUME \A t, u \in Threads : t = u, \A a, b \in Accounts : a = b, MaxSubmits <= 1
  PROVE  Spec /\ [][~Crash]_vars /\ []NoReversal => []FillTableMatchesLedger
<1>1. TypeInv => Alone /\ FillsMove /\ NumbersApart
  <2>1. SUFFICES ASSUME TypeInv PROVE Alone /\ FillsMove /\ NumbersApart
    OBVIOUS
  <2>2. Alone
    BY DEF Alone
  <2>3. NumbersApart
    BY <2>1 DEF NumbersApart, TypeInv, TypeOK, Ticket
  <2>4. FillsMove
    <3>1. SUFFICES ASSUME NEW t \in Threads, pc[t] = "fill"
                   PROVE  submits[Child(t).intent] <= 1
      BY DEF FillsMove
    <3>2. Child(t).intent \in Intents
      BY <2>1, <3>1, ChildType, OrderFields
    <3>3. submits[Child(t).intent] \in 0..MaxSubmits
      BY <2>1, <3>2 DEF TypeInv, TypeOK
    <3>4. QED
      BY <3>3, ConstantsAssumption
  <2>5. QED
    BY <2>2, <2>3, <2>4
<1>2. TypeInv /\ NoReversal => Undisputed
  BY <1>1 DEF Undisputed
<1>3. QED
  BY <1>2, InitType, TypeStep, FillTableKept, PTL DEF Spec
=============================================================================
