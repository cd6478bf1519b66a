-------------------------- MODULE Execution_proofs --------------------------
(***************************************************************************)
(* Theorems about Execution, for every value of its constants: the types,  *)
(* the journal that is always ahead of the brokers, and the refinement of  *)
(* OrderGateway.                                                           *)
(***************************************************************************)
EXTENDS Execution, TLAPS, SequenceTheorems

-----------------------------------------------------------------------------
(* Facts about the data                                                    *)

(* An intent is cut into at least one clip.                                *)
LEMMA ClipsType == \A u \in 1..MaxUnits : Clips(u) \in Nat \ {0}
<1>1. SUFFICES ASSUME NEW u \in 1..MaxUnits
               PROVE  (u + MaxClip - 1) \div MaxClip \in Nat \ {0}
  BY DEF Clips
<1>2. MaxClip \in Nat \ {0} /\ u \in Nat \ {0}
  BY ConstantsAssumption
<1>3. QED
  BY <1>2

(* ... and into at most as many as it has units.                           *)
LEMMA ClipsBound == \A u \in 1..MaxUnits : Clips(u) <= u
<1>1. SUFFICES ASSUME NEW u \in 1..MaxUnits
               PROVE  (u + MaxClip - 1) \div MaxClip <= u
  BY DEF Clips
<1>2. MaxClip \in Nat \ {0} /\ u \in Nat \ {0}
  BY ConstantsAssumption
<1>3. u + MaxClip - 1 < (u + 1) * MaxClip
  <2>1. (u + 1) * MaxClip = u * MaxClip + MaxClip
    BY <1>2
  <2>2. u <= u * MaxClip
    BY <1>2
  <2>3. QED
    BY <1>2, <2>1, <2>2
<1>4. QED
  BY <1>2, <1>3

(* The values of an idle thread are well typed.                            *)
LEMMA NoReqType == NoReq \in Requests /\ NoAck \in Acks
  BY ConstantsAssumption DEF NoReq, Requests, Acks

(* The fields of an acknowledgement.                                       *)
LEMMA AckFields ==
  ASSUME NEW a \in Acks
  PROVE  a.num \in TicketNums \cup {0} /\ a.units \in Nat
<1>1. CASE a = NoAck
  BY <1>1 DEF NoAck
<1>2. CASE a # NoAck
  BY <1>2 DEF Acks
<1>3. QED
  BY <1>1, <1>2

(* A clip is never empty and never larger than the largest clip.           *)
LEMMA SizeBounds ==
  ASSUME NEW o \in Orders
  PROVE  Size(o) \in 1..MaxClip
<1>1. /\ MaxClip \in Nat \ {0} /\ o.units \in Nat \ {0} /\ o.slice \in Nat \ {0}
      /\ o.slice <= Clips(o.units)
  BY ConstantsAssumption DEF Orders
<1> DEFINE n == (o.units + MaxClip - 1) \div MaxClip
<1>2. n \in Int /\ n * MaxClip <= o.units + MaxClip - 1
  BY <1>1
<1>3. o.slice <= n
  BY <1>1 DEF Clips
<1> HIDE DEF n
<1>4. o.slice * MaxClip <= n * MaxClip
  BY <1>1, <1>2, <1>3
<1>5. (o.slice - 1) * MaxClip = o.slice * MaxClip - MaxClip
  BY <1>1
<1>6. o.slice * MaxClip \in Int /\ n * MaxClip \in Int
  BY <1>1, <1>2
<1>7. o.units - (o.slice - 1) * MaxClip >= 1
  BY <1>1, <1>2, <1>4, <1>5, <1>6
<1>8. QED
  BY <1>1, <1>5, <1>6, <1>7 DEF Size, Smaller

(* The fields of a child order.                                            *)
LEMMA OrderFields ==
  ASSUME NEW o \in Orders
  PROVE  /\ o.intent \in Intents /\ o.units \in 1..MaxUnits
         /\ SymbolOf[o.intent] \in Symbols
         /\ Size(o) \in Int
         /\ \A q \in Nat : Signed(o, q) \in Int
         /\ \A q \in Int : Signed(o, q) \in Int
<1>1. o.intent \in Intents /\ o.units \in 1..MaxUnits /\ o.slice \in 1..MaxUnits
  BY DEF Orders
<1>2. SymbolOf[o.intent] \in Symbols /\ SideOf[o.intent] \in {1, -1}
  BY <1>1, ConstantsAssumption
<1>3. Size(o) \in Int
  BY SizeBounds
<1>4. \A q \in Int : Signed(o, q) \in Int
  BY <1>2 DEF Signed
<1>5. QED
  BY <1>1, <1>2, <1>3, <1>4

(* What an account reports of the units it executed: a number of units, at *)
(* most those, and FILLED only if there are any.                           *)
LEMMA AnswerType ==
  ASSUME NEW o \in Orders, NEW q \in 0..Size(o)
  PROVE  /\ q \in Nat /\ ReportedUnits(q) \in Nat /\ ReportedUnits(q) <= q
         /\ Answer(o, q) \in Answers
         /\ Answer(o, q) = "FILLED" => q # 0
         /\ Answer(o, q) # "FILLED" =>
              Answer(o, q) = IF 0 < ReportedUnits(q) /\ ReportedUnits(q) < Size(o)
                             THEN "PARTIALLY_FILLED" ELSE "SUBMITTED"
<1>1. MaxClip \in Nat \ {0} /\ Lot \in Nat \ {0} /\ Size(o) \in 1..MaxClip /\ q \in Nat
  BY SizeBounds, ConstantsAssumption, LotsAssumption
<1>2. Answer(o, q) \in Answers /\ (Answer(o, q) = "FILLED" => q # 0)
  BY <1>1 DEF Answer, Answers
<1>3. CASE q = 0
  BY <1>1, <1>2, <1>3 DEF Answer, ReportedUnits
<1>4. CASE q # 0
  <2>1. q \in 1..MaxClip
    BY <1>1, <1>4
  <2>2. Reported[q] \in 1..MaxClip /\ Reported[q] \in {q - 1, q}
    BY <2>1, LotsAssumption
  <2>3. Reported[q] \in Nat \ {0} /\ Reported[q] <= q
    BY <1>1, <2>2
  <2>4. ReportedUnits(q) = Reported[q]
    BY <1>4 DEF ReportedUnits
  <2>5. QED
    BY <1>1, <1>2, <1>4, <2>1, <2>3, <2>4 DEF Answer
<1>5. QED
  BY <1>3, <1>4

(* Dampening keeps an intent within 1..MaxUnits.                           *)
LEMMA DampenedType ==
  ASSUME NEW u \in 1..MaxUnits, NEW d \in Divisors
  PROVE  Dampened(u, d) \in 1..MaxUnits
<1>1. u \in Nat \ {0} /\ d \in Nat \ {0} /\ MaxUnits \in Nat
  BY ConstantsAssumption
<1>2. u \div d \in Int /\ u \div d <= u
  BY <1>1
<1>3. QED
  BY <1>1, <1>2 DEF Dampened

(* What route_intent returns, sliced or from the cache: a non-empty list   *)
(* of child orders of the intent.                                          *)
LEMMA SlicesType ==
  ASSUME NEW i \in Intents, NEW u \in 1..MaxUnits
  PROVE  /\ SliceIntent(i, u) \in Seq(Orders) /\ SliceIntent(i, u) # <<>>
         /\ \A k \in DOMAIN SliceIntent(i, u) : SliceIntent(i, u)[k].intent = i
         /\ [intent |-> i, units |-> u, slice |-> 1] \in Orders
<1>1. Clips(u) \in Nat \ {0} /\ Clips(u) <= u
  BY ClipsType, ClipsBound
<1>2. \A k \in 1..Clips(u) : [intent |-> i, units |-> u, slice |-> k] \in Orders
  BY <1>1, ConstantsAssumption DEF Orders
<1>3. QED
  BY <1>1, <1>2 DEF SliceIntent

-----------------------------------------------------------------------------
(* The inductive invariant                                                 *)

(* A thread holds child orders exactly while it routes them, and an        *)
(* acknowledgement from the answer to the row.                             *)
Holding ==
  \A t \in Threads :
    /\ queue[t] = <<>> <=> pc[t] \in {"idle", "checked", "cleared"}
    /\ pc[t] \in {"acked", "fill", "attribute", "record", "persist"} =>
         ack[t].status \in Answers

(* From the send on, the row of the child in hand is written.              *)
Journaled ==
  \A t \in Threads :
    pc[t] \notin {"idle", "checked", "cleared", "loop"} => rows[Child(t)] # NONE

(* Types alone are not inductive: that the child in hand is an order needs *)
(* a non-empty queue.                                                      *)
TypeInv == TypeOK /\ Holding

IInv == TypeInv /\ Journaled /\ JournalBeforeExecution

(* The child in hand of a routing thread is an order.                      *)
LEMMA ChildType ==
  ASSUME TypeInv, NEW t \in Threads, pc[t] \notin {"idle", "checked", "cleared"}
  PROVE  Child(t) \in Orders /\ queue[t] # <<>>
  BY DEF TypeInv, TypeOK, Holding, Child

(* What a broker opens is a ticket.                                        *)
LEMMA TakenType ==
  ASSUME NEW a \in Accounts, NEW o \in Orders, NEW q \in 0..Size(o),
         TicketNums \ Used(a) # {}
  PROVE  Taken(a, o, q) \in Ticket
<1>1. Fresh(a) \in TicketNums
  BY DEF Fresh
<1>2. Signed(o, IF q = 0 THEN Size(o) ELSE q) \in Int /\ SymbolOf[o.intent] \in Symbols
  BY OrderFields
<1>3. QED
  BY <1>1, <1>2 DEF Taken, Ticket

(* A thread that returns, or goes on to the next child, stays well-typed.  *)
LEMMA ReturnType ==
  ASSUME TypeInv, NEW t \in Threads, Return(t)
  PROVE  /\ pc' \in [Threads -> Steps] /\ req' \in [Threads -> Requests]
         /\ queue' \in [Threads -> Seq(Orders)] /\ route' \in [Threads -> Seq(Accounts)]
         /\ tries' \in [Threads -> 0..MaxRetries] /\ ack' \in [Threads -> Acks]
         /\ seen' \in [Threads -> Int]
         /\ Holding'
<1>1. pc' = [pc EXCEPT ![t] = "idle"] /\ queue' = [queue EXCEPT ![t] = <<>>]
  BY DEF Return, Goto
<1>2. <<>> \in Seq(Orders) /\ <<>> \in Seq(Accounts) /\ 0 \in 0..MaxRetries
  BY ConstantsAssumption
<1>3. QED
  BY <1>1, <1>2, NoReqType DEF Return, TypeInv, TypeOK, Holding, Steps

(* Going on to the next child keeps the types of the thread.               *)
LEMMA NextChildType ==
  ASSUME TypeInv, NEW t \in Threads, queue[t] # <<>>, NextChild(t)
  PROVE  /\ pc' \in [Threads -> Steps] /\ req' \in [Threads -> Requests]
         /\ queue' \in [Threads -> Seq(Orders)] /\ route' \in [Threads -> Seq(Accounts)]
         /\ tries' \in [Threads -> 0..MaxRetries] /\ ack' \in [Threads -> Acks]
         /\ seen' \in [Threads -> Int]
         /\ Holding'
<1>1. CASE Len(queue[t]) = 1
  BY <1>1, ReturnType DEF NextChild
<1>2. CASE Len(queue[t]) # 1
  <2>1. /\ pc' = [pc EXCEPT ![t] = "loop"] /\ queue' = [queue EXCEPT ![t] = Tail(@)]
        /\ route' = [route EXCEPT ![t] = <<>>] /\ tries' = [tries EXCEPT ![t] = 0]
        /\ ack' = [ack EXCEPT ![t] = NoAck] /\ seen' = [seen EXCEPT ![t] = 0]
        /\ req' = req
    BY <1>2 DEF NextChild, Goto
  <2>2. queue[t] \in Seq(Orders)
    BY DEF TypeInv, TypeOK
  <2>3. Tail(queue[t]) \in Seq(Orders) /\ Tail(queue[t]) # <<>>
    <3>1. /\ Len(queue[t]) \in Nat \ {0}
          /\ Tail(queue[t]) \in Seq(Orders)
          /\ Len(Tail(queue[t])) = Len(queue[t]) - 1
      BY <2>2, HeadTailProperties, EmptySeq
    <3>2. Len(Tail(queue[t])) # 0
      BY <1>2, <3>1
    <3>3. Len(<<>>) = 0
      BY EmptySeq
    <3>4. QED
      BY <3>1, <3>2, <3>3, ZenonT(20)
  <2>4. <<>> \in Seq(Accounts) /\ 0 \in 0..MaxRetries
    BY ConstantsAssumption
  <2>5. pc' \in [Threads -> Steps] /\ req' \in [Threads -> Requests]
    BY <2>1 DEF TypeInv, TypeOK, Steps
  <2>6. queue' \in [Threads -> Seq(Orders)]
    BY <2>1, <2>3 DEF TypeInv, TypeOK
  <2>7. /\ route' \in [Threads -> Seq(Accounts)]
        /\ tries' \in [Threads -> 0..MaxRetries]
    BY <2>1, <2>4 DEF TypeInv, TypeOK
  <2>8. ack' \in [Threads -> Acks] /\ seen' \in [Threads -> Int]
    BY <2>1, NoReqType DEF TypeInv, TypeOK
  <2>9. Holding'
    BY <2>1, <2>3 DEF TypeInv, TypeOK, Holding
  <2>10. QED
    BY <2>5, <2>6, <2>7, <2>8, <2>9
<1>3. QED
  BY <1>1, <1>2

(* A failed attempt never counts beyond broker_max_retries.                *)
LEMMA AttemptFailedType ==
  ASSUME TypeInv, NEW t \in Threads, route[t] # <<>>, AttemptFailed(t)
  PROVE  /\ route' \in [Threads -> Seq(Accounts)]
         /\ tries' \in [Threads -> 0..MaxRetries]
<1>1. route[t] \in Seq(Accounts) /\ tries[t] \in 0..MaxRetries /\ MaxRetries \in Nat
  BY ConstantsAssumption DEF TypeInv, TypeOK
<1>2. Tail(route[t]) \in Seq(Accounts)
  BY <1>1, HeadTailProperties
<1>3. CASE tries[t] < MaxRetries
  <2>1. tries[t] + 1 \in 0..MaxRetries
    BY <1>1, <1>3
  <2>2. QED
    BY <1>3, <2>1 DEF AttemptFailed, TypeInv, TypeOK
<1>4. CASE ~(tries[t] < MaxRetries)
  <2>1. 0 \in 0..MaxRetries
    BY <1>1
  <2>2. QED
    BY <1>2, <1>4, <2>1 DEF AttemptFailed, TypeInv, TypeOK
<1>5. QED
  BY <1>3, <1>4

(* Spending a budget keeps its type and no submission is counted.          *)
LEMMA SpendType ==
  ASSUME TypeOK, NEW kind \in Kinds, Spend(kind)
  PROVE  spent' \in [Kinds -> Nat] /\ submits' = submits
  BY DEF Spend, TypeOK

(* The initial state is well typed.                                        *)
LEMMA InitType == Init => TypeInv
<1>1. SUFFICES ASSUME Init PROVE TypeInv
  OBVIOUS
<1>2. <<>> \in Seq(Orders) /\ <<>> \in Seq(Accounts) /\ 0 \in 0..MaxRetries
      /\ 0 \in 0..MaxSubmits
  BY ConstantsAssumption
<1>3. QED
  BY <1>1, <1>2, NoReqType
  DEF Init, TypeInv, TypeOK, Holding, Steps, RowStatus, LifecycleState

(* A failed closing attempt never counts beyond the retries.               *)
LEMMA CloseType ==
  ASSUME TypeInv, NextPosition \/ CloseAttemptFailed
  PROVE  toClose' \subseteq Ticket /\ closeTries' \in 0..MaxRetries
  BY ConstantsAssumption DEF NextPosition, CloseAttemptFailed, TypeInv, TypeOK

(* Every step keeps the types.                                             *)
LEMMA TypeStep == TypeInv /\ [Next]_vars => TypeInv'
<1> USE DEF thread, oms, db, loops, bounds, Goto
<1>1. ASSUME TypeInv, NEW t \in Threads, NEW r \in Requests, Submit(t, r) PROVE TypeInv'
  <2>1. submits[r.intent] \in Nat /\ submits[r.intent] + 1 \in 0..MaxSubmits
    <3>1. r.intent \in Intents
      BY DEF Requests
    <3>2. submits[r.intent] \in 0..MaxSubmits
      BY <1>1, <3>1 DEF TypeInv, TypeOK
    <3>3. submits[r.intent] < MaxSubmits
      BY <1>1 DEF Submit
    <3>4. QED
      BY <3>2, <3>3, ConstantsAssumption
  <2>2. QED
    BY <1>1, <2>1 DEF Submit, Steps, TypeInv, TypeOK, Holding
<1>2. ASSUME TypeInv, NEW t \in Threads, OmsClear(t) PROVE TypeInv'
  BY <1>2 DEF OmsClear, Steps, TypeInv, TypeOK, Holding
<1>3. ASSUME TypeInv, NEW t \in Threads, OmsReject(t) PROVE TypeInv'
  BY <1>3, ReturnType DEF OmsReject, TypeInv, TypeOK
<1>4. ASSUME TypeInv, NEW t \in Threads, OmsRoute(t) PROVE TypeInv'
  <2>1. PICK d \in Divisors :
          LET i == req[t].intent
              u == Dampened(UnitsOf[i], d)
              first == [intent |-> i, units |-> u, slice |-> 1]
              children == IF first \in cache THEN <<first>> ELSE SliceIntent(i, u)
              new == {children[k] : k \in DOMAIN children}
          IN /\ queue' = [queue EXCEPT ![t] = children]
             /\ sm' = [o \in Orders |-> IF o \in new THEN "SUBMITTED" ELSE sm[o]]
             /\ filled' = [o \in Orders |-> IF o \in new \ cache THEN 0 ELSE filled[o]]
             /\ cache' = cache \cup new
    BY <1>4 DEF OmsRoute
  <2> DEFINE i == req[t].intent
             u == Dampened(UnitsOf[i], d)
             first == [intent |-> i, units |-> u, slice |-> 1]
             children == IF first \in cache THEN <<first>> ELSE SliceIntent(i, u)
             new == {children[k] : k \in DOMAIN children}
  <2>2. i \in Intents
    BY <1>4 DEF TypeInv, TypeOK, Requests
  <2>3. u \in 1..MaxUnits
    BY <2>2, DampenedType, ConstantsAssumption
  <2> HIDE DEF i, u
  <2>4. children \in Seq(Orders) /\ children # <<>>
    BY <2>2, <2>3, SlicesType
  <2> HIDE DEF children
  <2>5. new \subseteq Orders
    BY <2>4
  <2> HIDE DEF new
  <2>6. /\ queue' = [queue EXCEPT ![t] = children]
        /\ sm' = [o \in Orders |-> IF o \in new THEN "SUBMITTED" ELSE sm[o]]
        /\ filled' = [o \in Orders |-> IF o \in new \ cache THEN 0 ELSE filled[o]]
        /\ cache' = cache \cup new
    BY <2>1 DEF i, u, children, new
  <2>7. pc[t] = "cleared" /\ pc' = [pc EXCEPT ![t] = "loop"]
        /\ UNCHANGED <<req, route, tries, ack, seen, kills, pos, tickets, db, loops, bounds>>
    BY <1>4 DEF OmsRoute
  <2>8. QED
    BY <1>4, <2>4, <2>5, <2>6, <2>7 DEF Steps, LifecycleState, TypeInv, TypeOK, Holding
<1>5. ASSUME TypeInv, NEW t \in Threads, PersistPending(t) PROVE TypeInv'
  <2>1. (IF req[t].account = AnyAccount THEN Priority ELSE <<req[t].account>>) \in Seq(Accounts)
    <3>1. req[t].account \in Accounts \cup {AnyAccount}
      BY <1>5 DEF TypeInv, TypeOK, Requests
    <3>2. CASE req[t].account = AnyAccount
      BY <3>2, ConstantsAssumption
    <3>3. CASE req[t].account # AnyAccount
      BY <3>1, <3>3
    <3>4. QED
      BY <3>2, <3>3
  <2>2. QED
    BY <1>5, <2>1 DEF PersistPending, Steps, RowStatus, TypeInv, TypeOK, Holding
<1>6. ASSUME TypeInv, NEW t \in Threads, SendAcked(t) PROVE TypeInv'
  <2>1. Head(route[t]) \in Accounts /\ Child(t) \in Orders
    BY <1>6, ChildType, HeadTailProperties DEF SendAcked, TypeInv, TypeOK
  <2>2. PICK q \in 0..Size(Child(t)) :
          /\ Opens(Head(route[t]), Child(t), q)
          /\ ack' = [ack EXCEPT ![t] =
               [acct |-> Head(route[t]), num |-> Fresh(Head(route[t])),
                units |-> ReportedUnits(q), status |-> Answer(Child(t), q)]]
    BY <1>6 DEF SendAcked
  <2>3. Fresh(Head(route[t])) \in TicketNums /\ TicketNums \ Used(Head(route[t])) # {}
    BY <1>6 DEF SendAcked, Fresh
  <2>4. tickets' \subseteq Ticket
    BY <1>6, <2>1, <2>2, <2>3, TakenType DEF Opens, TypeInv, TypeOK
  <2>5. ReportedUnits(q) \in Nat /\ Answer(Child(t), q) \in Answers
    BY <2>1, <2>2, AnswerType
  <2>6. ack' \in [Threads -> Acks]
    BY <1>6, <2>1, <2>2, <2>3, <2>5 DEF Acks, TypeInv, TypeOK
  <2>7. QED
    BY <1>6, <2>2, <2>4, <2>5, <2>6 DEF SendAcked, Steps, TypeInv, TypeOK, Holding
<1>7. ASSUME TypeInv, NEW t \in Threads, SendDeclined(t) PROVE TypeInv'
  <2>1. Head(route[t]) \in Accounts
    BY <1>7, HeadTailProperties DEF SendDeclined, TypeInv, TypeOK
  <2>2. QED
    BY <1>7, <2>1 DEF SendDeclined, Steps, Acks, Answers, TypeInv, TypeOK, Holding
<1>8. ASSUME TypeInv, NEW t \in Threads, SendLost(t) PROVE TypeInv'
  <2>1. Head(route[t]) \in Accounts /\ Child(t) \in Orders
    BY <1>8, ChildType, HeadTailProperties DEF SendLost, TypeInv, TypeOK
  <2>2. tickets' \subseteq Ticket
    BY <1>8, <2>1, TakenType DEF SendLost, Opens, TypeInv, TypeOK
  <2>3. QED
    BY <1>8, <2>2, AttemptFailedType DEF SendLost, TypeInv, TypeOK, Holding
<1>9. ASSUME TypeInv, NEW t \in Threads, SendFailed(t) PROVE TypeInv'
  BY <1>9, AttemptFailedType DEF SendFailed, TypeInv, TypeOK, Holding
<1>10. ASSUME TypeInv, NEW t \in Threads, SendRefused(t) PROVE TypeInv'
  <2>1. Tail(route[t]) \in Seq(Accounts) /\ 0 \in 0..MaxRetries
    BY <1>10, HeadTailProperties, ConstantsAssumption DEF SendRefused, TypeInv, TypeOK
  <2>2. QED
    BY <1>10, <2>1 DEF SendRefused, TypeInv, TypeOK, Holding
<1>11. ASSUME TypeInv, NEW t \in Threads, RoutesFailed(t) PROVE TypeInv'
  BY <1>11 DEF RoutesFailed, Steps, RowStatus, TypeInv, TypeOK, Holding
<1>12. ASSUME TypeInv, NEW t \in Threads, MarkUnknown(t) PROVE TypeInv'
  <2>1. Child(t) \in Orders /\ queue[t] # <<>>
    BY <1>12, ChildType DEF MarkUnknown
  <2>2. sm' \in [Orders -> LifecycleState \cup {NONE}]
    BY <1>12 DEF MarkUnknown, TypeInv, TypeOK, LifecycleState
  <2>3. kills' \subseteq Switches
    <3>1. SymbolOf[Child(t).intent] \in Switches
      BY <2>1, OrderFields DEF Switches
    <3>2. QED
      BY <1>12, <3>1 DEF MarkUnknown, TypeInv, TypeOK
  <2>4. NextChild(t)
    BY <1>12 DEF MarkUnknown
  <2>5. QED
    BY <1>12, <2>1, <2>2, <2>3, <2>4, NextChildType DEF MarkUnknown, TypeInv, TypeOK
<1>13. ASSUME TypeInv, NEW t \in Threads, Acknowledge(t) PROVE TypeInv'
  <2>1. Child(t) \in Orders /\ ack[t].units \in Nat
    BY <1>13, ChildType, AckFields DEF Acknowledge, TypeInv, TypeOK
  <2>2. filled' \in [Orders -> Nat] /\ sm' \in [Orders -> LifecycleState \cup {NONE}]
    BY <1>13, <2>1 DEF Acknowledge, TypeInv, TypeOK, LifecycleState
  <2>3. QED
    BY <1>13, <2>2 DEF Acknowledge, Steps, TypeInv, TypeOK, Holding
<1>14. ASSUME TypeInv, NEW t \in Threads, ProcessFill(t) PROVE TypeInv'
  <2>1. /\ Child(t) \in Orders /\ ack[t].units \in Nat
        /\ SymbolOf[Child(t).intent] \in Symbols
    BY <1>14, ChildType, OrderFields, AckFields
    DEF ProcessFill, TypeInv, TypeOK
  <2>2. filled[Child(t)] + ack[t].units \in Nat
    BY <1>14, <2>1 DEF TypeInv, TypeOK
  <2>3. filled' \in [Orders -> Nat]
    BY <1>14, <2>2 DEF ProcessFill, TypeInv, TypeOK
  <2>4. sm' \in [Orders -> LifecycleState \cup {NONE}]
    BY <1>14 DEF ProcessFill, TypeInv, TypeOK, LifecycleState, Terminal
  <2>5. seen' \in [Threads -> Int]
    BY <1>14, <2>1 DEF ProcessFill, TypeInv, TypeOK
  <2>6. pc' = [pc EXCEPT ![t] = "attribute"] \/ pc' = [pc EXCEPT ![t] = "record"]
    BY <1>14 DEF ProcessFill
  <2>7. pc' \in [Threads -> Steps]
    BY <1>14, <2>6 DEF Steps, TypeInv, TypeOK
  <2>8. Holding'
    BY <1>14, <2>6 DEF ProcessFill, TypeInv, TypeOK, Holding
  <2>9. QED
    BY <1>14, <2>3, <2>4, <2>5, <2>7, <2>8 DEF ProcessFill, TypeInv, TypeOK
<1>15. ASSUME TypeInv, NEW t \in Threads, Attribute(t) PROVE TypeInv'
  <2>1. /\ Child(t) \in Orders /\ seen[t] \in Int
        /\ Signed(Child(t), ack[t].units) \in Int
    BY <1>15, ChildType, OrderFields, AckFields
    DEF Attribute, TypeInv, TypeOK
  <2>2. Applied(seen[t], Signed(Child(t), ack[t].units)) \in Int
    BY <2>1 DEF Applied
  <2>3. pos' \in [Symbols -> Int]
    BY <1>15, <2>2 DEF Attribute, TypeInv, TypeOK
  <2>4. Holding'
    BY <1>15 DEF Attribute, TypeInv, TypeOK, Holding
  <2>5. QED
    BY <1>15, <2>3, <2>4 DEF Attribute, Steps, TypeInv, TypeOK
<1>16. ASSUME TypeInv, NEW t \in Threads, RecordFill(t) PROVE TypeInv'
  <2>1. /\ Child(t) \in Orders /\ ack[t].num \in TicketNums \cup {0}
        /\ Signed(Child(t), ack[t].units) \in Int
        /\ SymbolOf[Child(t).intent] \in Symbols
    BY <1>16, ChildType, OrderFields, AckFields
    DEF RecordFill, TypeInv, TypeOK
  <2>2. [num |-> ack[t].num, sym |-> SymbolOf[Child(t).intent],
         units |-> Signed(Child(t), ack[t].units)]
          \in [num: TicketNums \cup {0}, sym: Symbols, units: Int]
    BY <2>1
  <2>3. fillRows' \subseteq [num: TicketNums \cup {0}, sym: Symbols, units: Int]
    BY <1>16, <2>2 DEF RecordFill, TypeInv, TypeOK
  <2>4. QED
    BY <1>16, <2>3 DEF RecordFill, Steps, TypeInv, TypeOK, Holding
<1>17. ASSUME TypeInv, NEW t \in Threads, PersistAck(t) PROVE TypeInv'
  <2>1. Child(t) \in Orders /\ queue[t] # <<>>
    BY <1>17, ChildType DEF PersistAck
  <2>2. ack[t].status \in RowStatus
    BY <1>17 DEF PersistAck, RowStatus, TypeInv, Holding
  <2>3. rows' \in [Orders -> RowStatus]
    BY <1>17, <2>2 DEF PersistAck, TypeInv, TypeOK
  <2>4. QED
    BY <1>17, <2>1, <2>3, NextChildType DEF PersistAck, TypeInv, TypeOK
<1>18. ASSUME TypeInv, NEW tk \in tickets, BrokerMoves(tk) \/ Cancel(tk) PROVE TypeInv'
  <2>1. tk \in Ticket
    BY <1>18 DEF TypeInv, TypeOK
  <2>2. \A x \in {"open", "closed", "lapsed"} : [tk EXCEPT !.state = x] \in Ticket
    BY <2>1 DEF Ticket
  <2>3. tickets' \subseteq Ticket /\ Spend("move")
    BY <1>18, <2>2 DEF BrokerMoves, Cancel, Becomes, Ends, TypeInv, TypeOK
  <2>4. QED
    BY <1>18, <2>3, SpendType DEF BrokerMoves, Cancel, Kinds, TypeInv, TypeOK, Holding
<1>19. ASSUME TypeInv, NEW k \in Switches, Arm(k) \/ Disarm(k) PROVE TypeInv'
  BY <1>19, SpendType DEF Arm, Disarm, Kinds, TypeInv, TypeOK, Holding
<1>20. ASSUME TypeInv, NEW down \in SUBSET Accounts, ReconcileRead(down) PROVE TypeInv'
  BY <1>20, SpendType DEF ReconcileRead, Kinds, TypeInv, TypeOK, Holding
<1>21. ASSUME TypeInv, ReconcileArm PROVE TypeInv'
  BY <1>21 DEF ReconcileArm, Switches, TypeInv, TypeOK, Holding
<1>22. ASSUME TypeInv, NEW down \in SUBSET Accounts, FlattenRead(down) PROVE TypeInv'
  BY <1>22, SpendType DEF FlattenRead, Kinds, TypeInv, TypeOK, Holding
<1>23. ASSUME TypeInv, FlattenTaken PROVE TypeInv'
  <2>1. ToClose \in Ticket
    BY <1>23 DEF FlattenTaken, ToClose, TypeInv, TypeOK
  <2>2. Fresh(ToClose.acct) \in TicketNums
    BY <1>23 DEF FlattenTaken, Fresh
  <2>3. \A q \in 1..MaxUnits : Opposing(ToClose, q) \in Ticket
    BY <2>1, <2>2, ConstantsAssumption DEF Opposing, Ticket
  <2>4. tickets' \subseteq Ticket
    BY <1>23, <2>3 DEF FlattenTaken, TypeInv, TypeOK
  <2>5. toClose' \subseteq Ticket /\ closeTries' \in 0..MaxRetries
    BY <1>23, CloseType DEF FlattenTaken
  <2>6. QED
    BY <1>23, <2>4, <2>5 DEF FlattenTaken, TypeInv, TypeOK, Holding
<1>24. ASSUME TypeInv, FlattenNotTaken PROVE TypeInv'
  <2>1. toClose' \subseteq Ticket /\ closeTries' \in 0..MaxRetries
    BY <1>24, CloseType DEF FlattenNotTaken
  <2>2. QED
    BY <1>24, <2>1 DEF FlattenNotTaken, TypeInv, TypeOK, Holding
<1>25. ASSUME TypeInv, Crash PROVE TypeInv'
  <2>1. <<>> \in Seq(Orders) /\ <<>> \in Seq(Accounts) /\ 0 \in 0..MaxRetries
    BY ConstantsAssumption
  <2>2. spent' \in [Kinds -> Nat] /\ submits' = submits
    BY <1>25, SpendType DEF Crash, Kinds, TypeInv
  <2>3. sm' \in [Orders -> LifecycleState \cup {NONE}] /\ filled' \in [Orders -> Nat]
        /\ pos' \in [Symbols -> Int] /\ DOMAIN remote' = Symbols
    BY <1>25 DEF Crash
  <2>4. /\ pc' \in [Threads -> Steps] /\ req' \in [Threads -> Requests]
        /\ queue' \in [Threads -> Seq(Orders)] /\ route' \in [Threads -> Seq(Accounts)]
        /\ tries' \in [Threads -> 0..MaxRetries] /\ ack' \in [Threads -> Acks]
        /\ seen' \in [Threads -> Int] /\ Holding'
    BY <1>25, <2>1, NoReqType DEF Crash, Steps, Holding
  <2>5. QED
    BY <1>25, <2>1, <2>2, <2>3, <2>4 DEF Crash, TypeInv, TypeOK
<1>26. ASSUME TypeInv, UNCHANGED vars PROVE TypeInv'
  BY <1>26 DEF vars, TypeInv, TypeOK, Holding
<1>27. QED
  BY <1>1, <1>2, <1>3, <1>4, <1>5, <1>6, <1>7, <1>8, <1>9, <1>10, <1>11, <1>12, <1>13,
     <1>14, <1>15, <1>16, <1>17, <1>18, <1>19, <1>20, <1>21, <1>22, <1>23, <1>24, <1>25,
     <1>26
  DEF Next, ThreadStep

(* Type correctness: every reachable state is a state of the program.      *)
THEOREM TypeCorrect == Spec => []TypeOK
<1>1. TypeInv => TypeOK
  BY DEF TypeInv
<1>2. QED
  BY <1>1, InitType, TypeStep, PTL DEF Spec

-----------------------------------------------------------------------------
(* The journal is ahead of the brokers                                     *)

(* The inductive invariant holds initially.                                *)
LEMMA InitJournal == Init => IInv
<1>1. SUFFICES ASSUME Init PROVE IInv
  OBVIOUS
<1>2. TypeInv
  BY <1>1, InitType
<1>3. Journaled /\ JournalBeforeExecution
  BY <1>1 DEF Init, Journaled, JournalBeforeExecution, Sent
<1>4. QED
  BY <1>2, <1>3 DEF IInv

(* No step takes an order out of the journal.                              *)
LEMMA RowsStay ==
  ASSUME IInv, [Next]_vars, NEW o \in Orders, rows[o] # NONE
  PROVE  rows'[o] # NONE
<1> USE DEF thread, oms, db, loops, bounds
<1>1. ASSUME NEW t \in Threads, NEW r \in Requests, Submit(t, r) PROVE rows'[o] # NONE
  BY <1>1 DEF Submit
<1>2. ASSUME NEW t \in Threads, ThreadStep(t) PROVE rows'[o] # NONE
  <2>1. CASE PersistPending(t)
    BY <2>1 DEF PersistPending, IInv, TypeInv, TypeOK, NONE
  <2>2. CASE RoutesFailed(t)
    BY <2>2 DEF RoutesFailed, IInv, TypeInv, TypeOK, NONE
  <2>3. CASE PersistAck(t)
    BY <2>3 DEF PersistAck, IInv, TypeInv, TypeOK, Holding, Answers, NONE
  <2>4. CASE UNCHANGED rows
    BY <2>4
  <2>5. QED
    BY <1>2, <2>1, <2>2, <2>3, <2>4
    DEF ThreadStep, OmsClear, OmsReject, OmsRoute, SendAcked, SendDeclined, SendLost,
        SendFailed, SendRefused, MarkUnknown, Acknowledge, ProcessFill, Attribute, RecordFill
<1>3. CASE ~ \E t \in Threads : ThreadStep(t) \/ \E r \in Requests : Submit(t, r)
  BY <1>3
  DEF Next, BrokerMoves, Cancel, Arm, Disarm, ReconcileRead, ReconcileArm, FlattenRead,
      FlattenTaken, FlattenNotTaken, Crash, vars
<1>4. QED
  BY <1>1, <1>2, <1>3

(* Every ticket that appears is a closing order, or an order whose row is  *)
(* written.                                                                *)
LEMMA TicketsJournaled ==
  ASSUME IInv, [Next]_vars, NEW tk \in Sent'
  PROVE  rows[tk.order] # NONE /\ tk.order \in Orders
<1> USE DEF thread, oms, db, loops, bounds
<1>1. \A x \in Sent : rows[x.order] # NONE /\ x.order \in Orders
  BY DEF IInv, JournalBeforeExecution, TypeInv, TypeOK, Ticket, Sent
<1>2. CASE UNCHANGED tickets
  BY <1>1, <1>2 DEF Sent
<1>3. ASSUME NEW t \in Threads, SendAcked(t) \/ SendLost(t)
      PROVE  rows[tk.order] # NONE /\ tk.order \in Orders
  <2>1. pc[t] = "send"
    BY <1>3 DEF SendAcked, SendLost
  <2>2. rows[Child(t)] # NONE /\ Child(t) \in Orders
    BY <2>1, ChildType DEF IInv, Journaled
  <2>3. tk \in tickets \/ tk.order = Child(t)
    BY <1>3 DEF SendAcked, SendLost, Opens, Taken, Sent
  <2>4. QED
    BY <1>1, <2>2, <2>3 DEF Sent
<1>4. ASSUME NEW x \in tickets, BrokerMoves(x) \/ Cancel(x)
      PROVE  rows[tk.order] # NONE /\ tk.order \in Orders
  <2>1. x \in Ticket
    BY DEF IInv, TypeInv, TypeOK
  <2>2. \A y : [x EXCEPT !.state = y].order = x.order
    BY <2>1 DEF Ticket
  <2>3. tk \in tickets \/ tk.order = x.order
    BY <1>4, <2>2 DEF BrokerMoves, Cancel, Becomes, Ends, Sent
  <2>4. QED
    BY <1>1, <2>3 DEF Sent
<1>5. CASE FlattenTaken
  <2>1. tk \in tickets
    BY <1>5 DEF FlattenTaken, Opposing, Sent
  <2>2. QED
    BY <1>1, <2>1 DEF Sent
<1>6. ASSUME NEW t \in Threads, ThreadStep(t)
      PROVE  SendAcked(t) \/ SendLost(t) \/ UNCHANGED tickets
  BY <1>6 DEF ThreadStep, OmsClear, OmsReject, OmsRoute, PersistPending, SendDeclined,
     SendFailed, SendRefused, RoutesFailed, MarkUnknown, Acknowledge, ProcessFill, Attribute,
     RecordFill, PersistAck
<1>7. ASSUME NEW t \in Threads, NEW r \in Requests, Submit(t, r)
      PROVE  UNCHANGED tickets
  BY <1>7 DEF Submit
<1>8. CASE \/ \E k \in Switches : Arm(k) \/ Disarm(k)
           \/ \E down \in SUBSET Accounts : ReconcileRead(down) \/ FlattenRead(down)
           \/ ReconcileArm \/ FlattenNotTaken \/ Crash \/ UNCHANGED vars
  <2>1. UNCHANGED tickets
    BY <1>8 DEF Arm, Disarm, ReconcileRead, ReconcileArm, FlattenRead, FlattenNotTaken, Crash,
       vars
  <2>2. QED
    BY <1>2, <2>1
<1>9. QED
  BY <1>2, <1>3, <1>4, <1>5, <1>6, <1>7, <1>8 DEF Next

(* A thread that goes on to the next child has no row to vouch for yet.    *)
LEMMA NextChildJournaled ==
  ASSUME TypeInv, NEW t \in Threads, NextChild(t)
  PROVE  /\ pc'[t] \in {"idle", "loop"}
         /\ \A u \in Threads \ {t} : pc'[u] = pc[u] /\ queue'[u] = queue[u]
<1>1. CASE Len(queue[t]) = 1
  BY <1>1 DEF NextChild, Return, Goto, TypeInv, TypeOK
<1>2. CASE Len(queue[t]) # 1
  BY <1>2 DEF NextChild, Goto, TypeInv, TypeOK
<1>3. QED
  BY <1>1, <1>2

(* Only PersistPending takes a thread from the loop towards a broker.      *)
LEMMA JournaledStep ==
  ASSUME IInv, [Next]_vars
  PROVE  Journaled'
<1> USE DEF thread, oms, db, loops, bounds
<1>0. SUFFICES ASSUME NEW u \in Threads,
                      pc'[u] \notin {"idle", "checked", "cleared", "loop"}
               PROVE  rows'[Child(u)'] # NONE
  BY DEF Journaled
<1>1. ASSUME pc[u] \notin {"idle", "checked", "cleared", "loop"}, queue'[u] = queue[u]
      PROVE  rows'[Child(u)'] # NONE
  <2>1. Child(u)' = Child(u)
    BY <1>1 DEF Child
  <2>2. Child(u) \in Orders /\ rows[Child(u)] # NONE
    BY <1>1, ChildType DEF IInv, Journaled
  <2>3. QED
    BY <2>1, <2>2, RowsStay
<1>2. ASSUME NEW t \in Threads, NEW r \in Requests, Submit(t, r)
      PROVE  rows'[Child(u)'] # NONE
  BY <1>0, <1>1, <1>2 DEF Submit, Goto, IInv, TypeInv, TypeOK
<1>3. ASSUME NEW t \in Threads, PersistPending(t)
      PROVE  rows'[Child(u)'] # NONE
  <2>1. CASE u # t
    BY <1>0, <1>1, <1>3, <2>1 DEF PersistPending, Goto, IInv, TypeInv, TypeOK
  <2>2. CASE u = t
    <3>1. Child(t) \in Orders
      BY <1>3, ChildType DEF PersistPending, IInv
    <3>2. Child(t)' = Child(t) /\ rows'[Child(t)] = "PENDING"
      BY <1>3, <3>1 DEF PersistPending, Child, IInv, TypeInv, TypeOK
    <3>3. QED
      BY <2>2, <3>2 DEF NONE
  <2>3. QED
    BY <2>1, <2>2
<1>4. ASSUME NEW t \in Threads, OmsClear(t) \/ OmsReject(t) \/ OmsRoute(t)
      PROVE  rows'[Child(u)'] # NONE
  <2>1. /\ pc'[t] \in {"idle", "cleared", "loop"}
        /\ u # t => pc'[u] = pc[u] /\ queue'[u] = queue[u]
    BY <1>4 DEF OmsClear, OmsReject, OmsRoute, Return, Goto, IInv, TypeInv, TypeOK
  <2>2. QED
    BY <1>0, <1>1, <2>1
<1>5. ASSUME NEW t \in Threads,
             SendAcked(t) \/ SendDeclined(t) \/ SendLost(t) \/ SendFailed(t) \/ SendRefused(t)
             \/ RoutesFailed(t) \/ Acknowledge(t) \/ ProcessFill(t) \/ Attribute(t)
             \/ RecordFill(t)
      PROVE  rows'[Child(u)'] # NONE
  <2>1. /\ queue' = queue
        /\ pc[t] \notin {"idle", "checked", "cleared", "loop"}
        /\ u # t => pc'[u] = pc[u]
    BY <1>5
    DEF SendAcked, SendDeclined, SendLost, SendFailed, SendRefused, RoutesFailed, Acknowledge,
        ProcessFill, Attribute, RecordFill, Goto, IInv, TypeInv, TypeOK
  <2>2. QED
    BY <1>0, <1>1, <2>1
<1>6. ASSUME NEW t \in Threads, MarkUnknown(t) \/ PersistAck(t)
      PROVE  rows'[Child(u)'] # NONE
  <2>1. NextChild(t)
    BY <1>6 DEF MarkUnknown, PersistAck
  <2>2. QED
    BY <1>0, <1>1, <2>1, NextChildJournaled DEF IInv
<1>7. CASE Crash
  BY <1>0, <1>7 DEF Crash
<1>8. CASE UNCHANGED <<pc, queue>>
  BY <1>0, <1>1, <1>8
<1>9. QED
  BY <1>2, <1>3, <1>4, <1>5, <1>6, <1>7, <1>8
  DEF Next, ThreadStep, BrokerMoves, Cancel, Arm, Disarm, ReconcileRead, ReconcileArm,
      FlattenRead, FlattenTaken, FlattenNotTaken, vars

(* Every step preserves the inductive invariant.                           *)
LEMMA InvStep == IInv /\ [Next]_vars => IInv'
<1>1. SUFFICES ASSUME IInv, [Next]_vars PROVE IInv'
  OBVIOUS
<1>2. TypeInv'
  BY <1>1, TypeStep DEF IInv
<1>3. Journaled'
  BY <1>1, JournaledStep
<1>4. JournalBeforeExecution'
  <2>1. SUFFICES ASSUME NEW tk \in Sent' PROVE rows'[tk.order] # NONE
    BY DEF JournalBeforeExecution
  <2>2. QED
    BY <1>1, TicketsJournaled, RowsStay
<1>5. QED
  BY <1>2, <1>3, <1>4 DEF IInv

(* The orders table knows every order a broker ever took, whatever fails   *)
(* and whenever the process dies.                                          *)
THEOREM JournalIsAhead == Spec => []JournalBeforeExecution
<1>1. IInv => JournalBeforeExecution
  BY DEF IInv
<1>2. QED
  BY <1>1, InitJournal, InvStep, PTL DEF Spec

-----------------------------------------------------------------------------
(* The refinement                                                          *)

(* A step of one thread touches no other thread's scope or clearance.      *)
LEMMA ThreadFrame ==
  ASSUME TypeInv, TypeInv', NEW t \in Threads,
         \A u \in Threads \ {t} : pc'[u] = pc[u] /\ queue'[u] = queue[u] /\ req'[u] = req[u]
  PROVE  /\ Scope' = [Scope EXCEPT ![t] = Covering(req'[t])]
         /\ Clearances' = [Clearances EXCEPT ![t] = Cleared(t)']
<1>1. \A u \in Threads \ {t} : Covering(req'[u]) = Covering(req[u]) /\ Cleared(u)' = Cleared(u)
  BY DEF Cleared
<1>2. Scope' = [u \in Threads |-> Covering(req'[u])]
  BY DEF Scope, Covering
<1>3. Clearances' = [u \in Threads |-> Cleared(u)']
  BY DEF Clearances
<1>4. QED
  BY <1>1, <1>2, <1>3 DEF Scope, Clearances

(* What covers a request is a set of kill switches.                        *)
LEMMA CoveringType == \A r \in Requests : Covering(r) \in SUBSET Switches
<1>1. SUFFICES ASSUME NEW r \in Requests PROVE Covering(r) \in SUBSET Switches
  OBVIOUS
<1>2. SymbolOf[r.intent] \in Symbols
  BY ConstantsAssumption DEF Requests
<1>3. QED
  BY <1>2 DEF Covering, Requests, Switches

(* A request is covered by switches, and cleared for orders.               *)
LEMMA MappedTypes ==
  ASSUME TypeInv, NEW t \in Threads
  PROVE  /\ Covering(req[t]) \in SUBSET Switches
         /\ Cleared(t) \in SUBSET Orders
         /\ Scope[t] = Covering(req[t]) /\ Clearances[t] = Cleared(t)
<1>1. req[t] \in Requests
  BY DEF TypeInv, TypeOK
<1>2. Covering(req[t]) \in SUBSET Switches
  BY <1>1, CoveringType
<1>3. queue[t] \in Seq(Orders)
  BY DEF TypeInv, TypeOK
<1>4. Cleared(t) \in SUBSET Orders
  BY <1>3 DEF Cleared
<1>5. QED
  BY <1>2, <1>4 DEF Scope, Clearances

(* The initial states map to initial states of OrderGateway.               *)
LEMMA InitRefines == Init => Gateway!Init
<1>1. SUFFICES ASSUME Init PROVE Gateway!Init
  OBVIOUS
<1>2. TypeInv
  BY <1>1, InitType
<1>3. Scope \in [Threads -> SUBSET Switches]
  BY <1>2, MappedTypes DEF Scope
<1>4. Clearances = [t \in Threads |-> {}]
  BY <1>1 DEF Init, Clearances, Cleared
<1>5. Journal = {} /\ Placed = {} /\ kills = {}
  BY <1>1 DEF Init, Journal, Placed, Sent
<1>6. QED
  BY <1>3, <1>4, <1>5 DEF Gateway!Init

(* What a thread goes on to after a child: what it is cleared for shrinks, *)
(* and its scope may change only when nothing is left.                     *)
LEMMA NextChildSettles ==
  ASSUME TypeInv, TypeInv', NEW t \in Threads, NextChild(t),
         pc[t] \notin {"idle", "checked", "cleared"},
         kills \subseteq kills', UNCHANGED <<Journal, Placed>>
  PROVE  Gateway!Settle(t)
<1>1. queue[t] \in Seq(Orders) /\ queue[t] # <<>>
  BY ChildType DEF TypeInv, TypeOK
<1>2. /\ \A u \in Threads \ {t} : pc'[u] = pc[u] /\ queue'[u] = queue[u] /\ req'[u] = req[u]
      /\ Cleared(t)' \in SUBSET Cleared(t)
      /\ Cleared(t)' # {} => Covering(req'[t]) = Covering(req[t])
  <2>1. CASE Len(queue[t]) = 1
    <3>1. /\ pc' = [pc EXCEPT ![t] = "idle"] /\ req' = [req EXCEPT ![t] = NoReq]
          /\ queue' = [queue EXCEPT ![t] = <<>>]
      BY <2>1 DEF NextChild, Return, Goto
    <3>2. pc'[t] = "idle" /\ queue'[t] = <<>>
      BY <3>1 DEF TypeInv, TypeOK
    <3>3. Cleared(t)' = {}
      BY <3>2 DEF Cleared
    <3>4. QED
      BY <3>1, <3>3 DEF TypeInv, TypeOK
  <2>2. CASE Len(queue[t]) # 1
    <3>1. /\ pc' = [pc EXCEPT ![t] = "loop"] /\ req' = req
          /\ queue' = [queue EXCEPT ![t] = Tail(@)]
      BY <2>2 DEF NextChild, Goto
    <3>2. pc'[t] = "loop" /\ queue'[t] = Tail(queue[t]) /\ pc[t] # "cleared"
      BY <3>1 DEF TypeInv, TypeOK
    <3>3. \A k \in DOMAIN Tail(queue[t]) :
            k + 1 \in DOMAIN queue[t] /\ Tail(queue[t])[k] = queue[t][k + 1]
      BY <1>1, HeadTailProperties, LenProperties
    <3>4. Cleared(t)' \in SUBSET Cleared(t)
      BY <3>2, <3>3 DEF Cleared
    <3>5. QED
      BY <3>1, <3>4 DEF TypeInv, TypeOK
  <2>3. QED
    BY <2>1, <2>2
<1>3. /\ Scope' = [Scope EXCEPT ![t] = Covering(req'[t])]
      /\ Clearances' = [Clearances EXCEPT ![t] = Cleared(t)']
  BY <1>2, ThreadFrame
<1>4. Covering(req'[t]) \in SUBSET Switches /\ kills' \subseteq Switches
  BY CoveringType DEF TypeInv, TypeOK
<1>5. Scope[t] = Covering(req[t]) /\ Clearances[t] = Cleared(t)
  BY MappedTypes
<1>6. QED
  BY <1>2, <1>3, <1>4, <1>5 DEF Gateway!Settle

(* A step that maps to nothing.                                            *)
LEMMA Stutter ==
  ASSUME TypeInv, TypeInv', NEW t \in Threads,
         \A u \in Threads \ {t} : pc'[u] = pc[u],
         pc[t] # "cleared" /\ pc'[t] # "cleared",
         UNCHANGED <<queue, req, kills, Journal, Placed>>
  PROVE  UNCHANGED Gateway!vars
<1>1. Scope' = Scope
  BY DEF Scope, Covering
<1>2. \A u \in Threads : Cleared(u)' = Cleared(u)
  BY DEF Cleared
<1>3. Clearances' = Clearances
  BY <1>2 DEF Clearances
<1>4. QED
  BY <1>1, <1>3 DEF Gateway!vars

(* What a broker takes from a thread is in hand and journaled.             *)
LEMMA TakenPlaces ==
  ASSUME IInv, TypeInv', NEW t \in Threads, NEW a \in Accounts, NEW q,
         pc[t] = "send", TicketNums \ Used(a) # {}, Opens(a, Child(t), q),
         \A u \in Threads \ {t} : pc'[u] = pc[u], pc'[t] # "cleared",
         UNCHANGED <<queue, req, kills, rows>>
  PROVE  Gateway!Place(t)
<1>1. Child(t) \in Orders /\ queue[t] # <<>> /\ queue[t] \in Seq(Orders)
  BY ChildType DEF IInv, TypeInv, TypeOK
<1>2. Child(t) \in Cleared(t)
  <2>1. 1 \in DOMAIN queue[t] /\ queue[t][1] = Child(t)
    BY <1>1, EmptySeq DEF Child
  <2>2. QED
    BY <2>1 DEF Cleared
<1>3. Child(t) \in Journal
  BY <1>1 DEF IInv, Journaled, Journal
<1>4. Fresh(a) \in TicketNums
  BY DEF Fresh
<1>5. Child(t) # Flat
  BY <1>1 DEF Orders, Flat
<1>6. Sent' = Sent \cup {Taken(a, Child(t), q)}
  BY <1>5 DEF Opens, Sent, Taken
<1>7. Placed' = Placed \cup {[order |-> Child(t), place |-> <<a, Fresh(a)>>]}
  <2> DEFINE T == Taken(a, Child(t), q)
  <2>1. T.order = Child(t) /\ T.acct = a /\ T.num = Fresh(a)
    BY DEF Taken
  <2>2. Sent' = Sent \cup {T}
    BY <1>6
  <2> HIDE DEF T
  <2>3. Placed' = Placed \cup {[order |-> T.order, place |-> <<T.acct, T.num>>]}
    BY <2>2, Zenon DEF Placed
  <2>4. QED
    BY <2>1, <2>3
<1>8. Scope' = Scope /\ Journal' = Journal
  BY DEF Scope, Covering, Journal
<1>9. Clearances' = Clearances
  <2>1. \A u \in Threads : Cleared(u)' = Cleared(u)
    BY DEF Cleared
  <2>2. QED
    BY <2>1 DEF Clearances
<1>10. Clearances[t] = Cleared(t)
  BY DEF Clearances
<1>11. QED
  BY <1>2, <1>3, <1>4, <1>7, <1>8, <1>9, <1>10 DEF Gateway!Place

(* Rows may change their status: the journal stays as it is when the order *)
(* was in it.                                                              *)
LEMMA JournalKept ==
  ASSUME IInv, TypeInv', NEW t \in Threads, NEW status,
         pc[t] \notin {"idle", "checked", "cleared", "loop"}, status # NONE,
         rows' = [rows EXCEPT ![Child(t)] = status]
  PROVE  Journal' = Journal
<1>1. Child(t) \in Orders /\ rows[Child(t)] # NONE
  BY ChildType DEF IInv, Journaled
<1>2. QED
  BY <1>1 DEF Journal, IInv, TypeInv, TypeOK

(* A step of submit_intent is a step of the gateway for that request.      *)
LEMMA ThreadRefines ==
  ASSUME IInv, TypeInv', NEW t \in Threads,
         ThreadStep(t) \/ \E r \in Requests : Submit(t, r)
  PROVE  Gateway!Next \/ UNCHANGED Gateway!vars
<1> USE DEF thread, oms, db, loops, bounds
<1>0. TypeInv /\ TypeOK
  BY DEF IInv, TypeInv
<1>1. ASSUME NEW r \in Requests, Submit(t, r) PROVE Gateway!Ask(t)
  <2>1. /\ \A u \in Threads \ {t} : pc'[u] = pc[u] /\ queue'[u] = queue[u] /\ req'[u] = req[u]
        /\ req'[t] = r /\ queue'[t] = <<>> /\ queue[t] = <<>>
        /\ pc[t] # "cleared" /\ pc'[t] # "cleared"
    BY <1>0, <1>1 DEF Submit, Goto, TypeOK, TypeInv, Holding
  <2>2. Cleared(t) = {} /\ Cleared(t)' = {}
    BY <2>1 DEF Cleared
  <2>3. /\ Scope' = [Scope EXCEPT ![t] = Covering(r)]
        /\ Clearances' = [Clearances EXCEPT ![t] = {}]
    BY <1>0, <2>1, <2>2, ThreadFrame
  <2>4. Clearances[t] = {} /\ Covering(r) \in SUBSET Switches
    BY <2>2, CoveringType DEF Clearances
  <2>5. Clearances' = Clearances
    BY <2>3, <2>4 DEF Clearances
  <2>6. kills' = kills /\ Journal' = Journal /\ Placed' = Placed
    BY <1>1 DEF Submit, Journal, Placed, Sent
  <2>7. QED
    BY <2>3, <2>4, <2>5, <2>6 DEF Gateway!Ask
<1>2. ASSUME OmsClear(t) PROVE Gateway!Clear(t)
  <2>1. /\ \A u \in Threads \ {t} : pc'[u] = pc[u] /\ queue'[u] = queue[u] /\ req'[u] = req[u]
        /\ pc[t] = "checked" /\ queue[t] = <<>> /\ req' = req
    BY <1>0, <1>2 DEF OmsClear, Goto, TypeOK, TypeInv, Holding
  <2>2. Cleared(t) = {} /\ Covering(req[t]) \cap kills = {}
    BY <1>2, <2>1 DEF OmsClear, Killed, Cleared
  <2>3. Clearances' = [Clearances EXCEPT ![t] = Cleared(t)']
    BY <1>0, <2>1, ThreadFrame
  <2>4. Cleared(t)' \in SUBSET Orders
    BY <1>2, <1>0 DEF OmsClear, Goto, Cleared, TypeOK
  <2>5. Clearances[t] = {} /\ Scope[t] = Covering(req[t])
    BY <2>2 DEF Clearances, Scope
  <2>6. kills' = kills /\ Scope' = Scope /\ Journal' = Journal /\ Placed' = Placed
    BY <1>2 DEF OmsClear, Scope, Covering, Journal, Placed, Sent
  <2>7. QED
    BY <2>2, <2>3, <2>4, <2>5, <2>6 DEF Gateway!Clear
<1>3. ASSUME OmsReject(t) PROVE Gateway!Settle(t)
  <2>1. /\ \A u \in Threads \ {t} : pc'[u] = pc[u] /\ queue'[u] = queue[u] /\ req'[u] = req[u]
        /\ pc'[t] = "idle" /\ queue'[t] = <<>> /\ req'[t] = NoReq
    BY <1>0, <1>3 DEF OmsReject, Return, Goto, TypeOK
  <2>2. Cleared(t)' = {}
    BY <2>1 DEF Cleared
  <2>3. /\ Scope' = [Scope EXCEPT ![t] = Covering(NoReq)]
        /\ Clearances' = [Clearances EXCEPT ![t] = {}]
    BY <1>0, <2>1, <2>2, ThreadFrame
  <2>4. Covering(NoReq) \in SUBSET Switches
    BY NoReqType, CoveringType
  <2>5. kills' = kills /\ kills \subseteq Switches /\ Journal' = Journal /\ Placed' = Placed
    BY <1>0, <1>3 DEF OmsReject, Journal, Placed, Sent, TypeOK
  <2>6. QED
    BY <2>3, <2>4, <2>5 DEF Gateway!Settle
<1>4. ASSUME OmsRoute(t) PROVE Gateway!Settle(t)
  <2>1. PICK d \in Divisors :
          LET i == req[t].intent
              u == Dampened(UnitsOf[i], d)
              first == [intent |-> i, units |-> u, slice |-> 1]
          IN queue' = [queue EXCEPT ![t] =
                         IF first \in cache THEN <<first>> ELSE SliceIntent(i, u)]
    BY <1>4 DEF OmsRoute
  <2> DEFINE i == req[t].intent
             u == Dampened(UnitsOf[i], d)
             first == [intent |-> i, units |-> u, slice |-> 1]
             children == IF first \in cache THEN <<first>> ELSE SliceIntent(i, u)
  <2>2. i \in Intents
    BY <1>0 DEF TypeOK, Requests
  <2>3. u \in 1..MaxUnits
    BY <2>2, DampenedType, ConstantsAssumption
  <2> HIDE DEF i, u
  <2>4. children \in Seq(Orders) /\ \A k \in DOMAIN children : children[k].intent = i
    BY <2>2, <2>3, SlicesType
  <2>5. \A k \in DOMAIN children : children[k] \in Orders
    BY <2>4
  <2> HIDE DEF children
  <2>6. /\ \A v \in Threads \ {t} : pc'[v] = pc[v] /\ queue'[v] = queue[v] /\ req'[v] = req[v]
        /\ pc[t] = "cleared" /\ pc'[t] = "loop" /\ req' = req /\ queue'[t] = children
    BY <1>0, <1>4, <2>1 DEF OmsRoute, Goto, TypeOK, i, u, children
  <2>7. Cleared(t)' \in SUBSET Cleared(t)
    BY <2>4, <2>5, <2>6 DEF Cleared, i
  <2>8. /\ Scope' = [Scope EXCEPT ![t] = Covering(req[t])]
        /\ Clearances' = [Clearances EXCEPT ![t] = Cleared(t)']
    BY <1>0, <2>6, ThreadFrame
  <2>9. kills' = kills /\ kills \subseteq Switches /\ Journal' = Journal /\ Placed' = Placed
    BY <1>0, <1>4 DEF OmsRoute, Journal, Placed, Sent, TypeOK
  <2>10. QED
    BY <1>0, <2>7, <2>8, <2>9, MappedTypes DEF Gateway!Settle
<1>5. ASSUME PersistPending(t) PROVE Gateway!Write(t)
  <2>1. Child(t) \in Orders /\ queue[t] # <<>> /\ queue[t] \in Seq(Orders)
    BY <1>0, <1>5, ChildType DEF PersistPending, TypeOK
  <2>2. /\ \A v \in Threads \ {t} : pc'[v] = pc[v]
        /\ pc[t] # "cleared" /\ pc'[t] # "cleared" /\ req' = req /\ queue' = queue
    BY <1>0, <1>5 DEF PersistPending, Goto, TypeOK
  <2>3. Child(t) \in Cleared(t)
    <3>1. 1 \in DOMAIN queue[t] /\ queue[t][1] = Child(t)
      BY <2>1, EmptySeq DEF Child
    <3>2. QED
      BY <2>2, <3>1 DEF Cleared
  <2>4. \A v \in Threads : Cleared(v)' = Cleared(v)
    BY <2>2 DEF Cleared
  <2>5. Clearances' = Clearances /\ Clearances[t] = Cleared(t)
    BY <2>4 DEF Clearances
  <2>6. Journal' = Journal \cup {Child(t)}
    BY <1>0, <1>5, <2>1 DEF PersistPending, Journal, NONE, TypeOK
  <2>7. kills' = kills /\ Scope' = Scope /\ Placed' = Placed
    BY <1>5 DEF PersistPending, Scope, Covering, Placed, Sent
  <2>8. QED
    BY <2>3, <2>5, <2>6, <2>7 DEF Gateway!Write
<1>6. ASSUME SendAcked(t) \/ SendLost(t) PROVE Gateway!Place(t)
  <2>1. Head(route[t]) \in Accounts
    BY <1>0, <1>6, HeadTailProperties DEF SendAcked, SendLost, TypeOK
  <2>2. PICK q : Opens(Head(route[t]), Child(t), q)
    BY <1>6 DEF SendAcked, SendLost
  <2>3. /\ pc[t] = "send" /\ TicketNums \ Used(Head(route[t])) # {}
        /\ \A v \in Threads \ {t} : pc'[v] = pc[v]
        /\ pc'[t] # "cleared"
        /\ UNCHANGED <<queue, req, kills, rows>>
    BY <1>0, <1>6 DEF SendAcked, SendLost, Goto, TypeOK
  <2>4. QED
    BY <2>1, <2>2, <2>3, TakenPlaces
<1>7. ASSUME \/ SendDeclined(t) \/ SendFailed(t) \/ SendRefused(t) \/ RoutesFailed(t)
             \/ Acknowledge(t) \/ ProcessFill(t) \/ Attribute(t) \/ RecordFill(t)
      PROVE  UNCHANGED Gateway!vars
  <2>1. /\ \A v \in Threads \ {t} : pc'[v] = pc[v]
        /\ pc[t] # "cleared" /\ pc'[t] # "cleared"
        /\ UNCHANGED <<queue, req, kills, tickets>>
    BY <1>0, <1>7
    DEF SendDeclined, SendFailed, SendRefused, RoutesFailed, Acknowledge, ProcessFill,
        Attribute, RecordFill, Goto, TypeOK
  <2>2. Journal' = Journal
    <3>1. CASE RoutesFailed(t)
      BY <3>1, JournalKept DEF RoutesFailed, NONE
    <3>2. CASE UNCHANGED rows
      BY <3>2 DEF Journal
    <3>3. QED
      BY <1>7, <3>1, <3>2
      DEF SendDeclined, SendFailed, SendRefused, Acknowledge, ProcessFill, Attribute, RecordFill
  <2>3. Placed' = Placed
    BY <2>1 DEF Placed, Sent
  <2>4. QED
    BY <1>0, <2>1, <2>2, <2>3, Stutter
<1>8. ASSUME MarkUnknown(t) \/ PersistAck(t) PROVE Gateway!Settle(t)
  <2>1. /\ NextChild(t) /\ kills \subseteq kills' /\ UNCHANGED tickets
        /\ pc[t] \notin {"idle", "checked", "cleared", "loop"}
    BY <1>8 DEF MarkUnknown, PersistAck
  <2>2. Placed' = Placed
    BY <2>1 DEF Placed, Sent
  <2>3. Journal' = Journal
    <3>1. CASE MarkUnknown(t)
      BY <3>1 DEF MarkUnknown, Journal
    <3>2. CASE PersistAck(t)
      <4>1. ack[t].status # NONE
        BY <1>0, <3>2 DEF PersistAck, TypeInv, Holding, Answers, NONE
      <4>2. QED
        BY <2>1, <3>2, <4>1, JournalKept DEF PersistAck
    <3>3. QED
      BY <1>8, <3>1, <3>2
  <2>4. QED
    BY <1>0, <2>1, <2>2, <2>3, NextChildSettles
<1>9. QED
  BY <1>1, <1>2, <1>3, <1>4, <1>5, <1>6, <1>7, <1>8 DEF ThreadStep, Gateway!Next

(* A step of the surroundings switches, restarts, or is invisible.         *)
LEMMA SurroundingsRefine ==
  ASSUME IInv, IInv', [Next]_vars,
         ~ \E t \in Threads : ThreadStep(t) \/ \E r \in Requests : Submit(t, r)
  PROVE  [Gateway!Next]_(Gateway!vars)
<1> USE DEF thread, oms, db, loops, bounds
<1>0. TypeInv /\ TypeOK /\ TypeInv' /\ TypeOK'
  BY DEF IInv, TypeInv
<1>1. ASSUME UNCHANGED <<thread, rows>>
      PROVE  Scope' = Scope /\ Clearances' = Clearances /\ Journal' = Journal
  <2>1. \A u \in Threads : Cleared(u)' = Cleared(u)
    BY <1>1 DEF Cleared
  <2>2. QED
    BY <1>1, <2>1 DEF Scope, Covering, Clearances, Journal
<1>2. ASSUME NEW tk \in tickets, BrokerMoves(tk) \/ Cancel(tk)
      PROVE  UNCHANGED Gateway!vars
  <2>1. tk \in Ticket /\ UNCHANGED <<thread, rows, kills>>
    BY <1>0, <1>2 DEF BrokerMoves, Cancel, TypeOK
  <2>2. PICK state \in {"open", "closed", "lapsed"} :
          tickets' = (tickets \ {tk}) \cup {[tk EXCEPT !.state = state]}
    BY <1>2 DEF BrokerMoves, Cancel, Becomes, Ends
  <2> DEFINE new == [tk EXCEPT !.state = state]
  <2>3. new.order = tk.order /\ new.acct = tk.acct /\ new.num = tk.num
    BY <2>1 DEF Ticket
  <2>4. tickets' = (tickets \ {tk}) \cup {new}
    BY <2>2
  <2> HIDE DEF new
  <2>5. Placed' = Placed
    <3>1. \A x : x \in Placed' <=> x \in Placed
      <4>1. ASSUME NEW x \in Sent' PROVE [order |-> x.order, place |-> <<x.acct, x.num>>] \in Placed
        <5>1. CASE x = new
          BY <2>3, <4>1, <5>1 DEF Placed, Sent
        <5>2. CASE x # new
          BY <2>4, <4>1, <5>2 DEF Placed, Sent
        <5>3. QED
          BY <5>1, <5>2
      <4>2. ASSUME NEW x \in Sent PROVE [order |-> x.order, place |-> <<x.acct, x.num>>] \in Placed'
        <5>1. CASE x = tk
          <6>1. new \in Sent'
            BY <2>3, <2>4, <4>2, <5>1 DEF Sent
          <6>2. QED
            BY <2>3, <5>1, <6>1 DEF Placed
        <5>2. CASE x # tk
          <6>1. x \in Sent'
            BY <2>4, <4>2, <5>2 DEF Sent
          <6>2. QED
            BY <6>1 DEF Placed
        <5>3. QED
          BY <5>1, <5>2
      <4>3. QED
        BY <4>1, <4>2 DEF Placed
    <3>2. QED
      BY <3>1 DEF Placed
  <2>6. QED
    BY <1>1, <2>1, <2>5 DEF Gateway!vars
<1>3. ASSUME (\E k \in Switches : Arm(k) \/ Disarm(k)) \/ ReconcileArm
      PROVE  Gateway!Switch
  <2>1. UNCHANGED <<thread, rows, tickets>> /\ kills' \subseteq Switches
    BY <1>0, <1>3 DEF Arm, Disarm, ReconcileArm, TypeOK
  <2>2. Placed' = Placed
    BY <2>1 DEF Placed, Sent
  <2>3. QED
    BY <1>1, <2>1, <2>2 DEF Gateway!Switch
<1>4. ASSUME (\E down \in SUBSET Accounts : ReconcileRead(down) \/ FlattenRead(down))
             \/ FlattenNotTaken \/ UNCHANGED vars
      PROVE  UNCHANGED Gateway!vars
  <2>1. UNCHANGED <<thread, rows, tickets, kills>>
    BY <1>4 DEF ReconcileRead, FlattenRead, FlattenNotTaken, vars
  <2>2. Placed' = Placed
    BY <2>1 DEF Placed, Sent
  <2>3. QED
    BY <1>1, <2>1, <2>2 DEF Gateway!vars
<1>5. ASSUME FlattenTaken PROVE UNCHANGED Gateway!vars
  <2>1. UNCHANGED <<thread, rows, kills>>
    BY <1>5 DEF FlattenTaken
  <2>2. PICK q : tickets' = tickets \cup {Opposing(ToClose, q)}
    BY <1>5 DEF FlattenTaken
  <2>3. Opposing(ToClose, q).order = Flat
    BY DEF Opposing
  <2>4. Sent' = Sent
    BY <2>2, <2>3 DEF Sent
  <2>5. Placed' = Placed
    BY <2>4 DEF Placed
  <2>6. QED
    BY <1>1, <2>1, <2>5 DEF Gateway!vars
<1>6. ASSUME Crash PROVE Gateway!Restart
  <2>1. Clearances' = [t \in Threads |-> {}]
    BY <1>6 DEF Crash, Clearances, Cleared
  <2>2. Scope' \in [Threads -> SUBSET Switches]
    <3>1. \A t \in Threads : req'[t] \in Requests
      BY <1>0 DEF TypeOK
    <3>2. Scope' = [t \in Threads |-> Covering(req'[t])]
      BY DEF Scope, Covering
    <3>3. QED
      BY <3>1, <3>2, CoveringType
  <2>3. kills' = {} /\ Journal' = Journal /\ Placed' = Placed
    BY <1>6 DEF Crash, Journal, Placed, Sent
  <2>4. QED
    BY <2>1, <2>2, <2>3 DEF Gateway!Restart
<1>7. QED
  BY <1>2, <1>3, <1>4, <1>5, <1>6 DEF Next, Gateway!Next

(* The write path keeps the promise of OrderGateway: every order a broker  *)
(* takes was cleared at an instant without a covering kill switch, and was *)
(* in the journal by then.                                                 *)
THEOREM GatewayKept == Spec => GatewayPromise
<1>1. IInv /\ IInv' /\ [Next]_vars => [Gateway!Next]_(Gateway!vars)
  <2>1. SUFFICES ASSUME IInv, IInv', [Next]_vars PROVE [Gateway!Next]_(Gateway!vars)
    OBVIOUS
  <2>2. TypeInv'
    BY <2>1 DEF IInv
  <2>3. CASE \E t \in Threads : ThreadStep(t) \/ \E r \in Requests : Submit(t, r)
    BY <2>1, <2>2, <2>3, ThreadRefines
  <2>4. CASE ~ \E t \in Threads : ThreadStep(t) \/ \E r \in Requests : Submit(t, r)
    BY <2>1, <2>4, SurroundingsRefine
  <2>5. QED
    BY <2>3, <2>4
<1>2. QED
  BY <1>1, InitJournal, InvStep, InitRefines, PTL DEF Spec, GatewayPromise, Gateway!Spec
=============================================================================
