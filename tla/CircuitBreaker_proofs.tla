------------------------ MODULE CircuitBreaker_proofs ------------------------
(***************************************************************************)
(* What CircuitBreaker promises for any number of request threads, any     *)
(* equities, any number of midnights and restarts.  TypeOK is inductive    *)
(* and carries the one fact about time the rollover needs: no caller's     *)
(* date is ahead of UTC.  FloorStops needs Floor besides: the high-water   *)
(* mark, and what a racing caller is about to write into it, is at least   *)
(* the configured equity, and rule 2 comes after rule 1.                   *)
(***************************************************************************)
EXTENDS CircuitBreaker, TLAPS

Floor ==
  /\ hwm >= Configured
  /\ \A t \in Callers : pc[t] = "raise" => eq[t] >= Configured
  /\ \A t \in Callers : (pc[t] = "halt" /\ Drawdown(eq[t], Configured)) => safe

IInv == TypeOK /\ Floor /\ FloorStops

(* The initial state has the right types.                                  *)
LEMMA InitTyped == Init => TypeOK
<1> SUFFICES ASSUME Init PROVE TypeOK
  OBVIOUS
<1>1. pc \in [Callers -> Steps]
  BY DEF Init, Steps
<1>2. day \in [Callers -> 0..today]
  BY DEF Init
<1>3. eq \in [Callers -> Levels]
  BY BreakerAssumption DEF Init
<1>4. /\ today \in 0..MaxDay /\ date \in 0..today
      /\ moves \in 0..MaxMoves /\ restarts \in 0..MaxRestarts
  BY BreakerAssumption DEF Init
<1>5. /\ equity \in Levels /\ dayOpen \in Levels /\ hwm \in Levels
      /\ account \in Levels /\ opened \in Levels
  BY BreakerAssumption DEF Init
<1>6. halted \in BOOLEAN /\ safe \in BOOLEAN
  BY DEF Init
<1> QED BY <1>1, <1>2, <1>3, <1>4, <1>5, <1>6 DEF TypeOK

(* So has whatever a step of update_equity leaves.                         *)
LEMMA UpdateTyped ==
  ASSUME TypeOK, NEW t \in Callers, Update(t) PROVE TypeOK'
<1> USE BreakerAssumption DEF TypeOK, Goto, Steps, world
<1>1. CASE CheckDate(t)  BY <1>1 DEF CheckDate, breaker
<1>2. CASE RollDate(t)   BY <1>2 DEF RollDate
<1>3. CASE RollOpen(t)   BY <1>3 DEF RollOpen
<1>4. CASE Store(t)      BY <1>4 DEF Store
<1>5. CASE Raise(t)      BY <1>5 DEF Raise
<1>6. CASE Unhalt(t)     BY <1>6 DEF Unhalt
<1>7. CASE Judge(t)      BY <1>7 DEF Judge, Verdict, breaker
<1>8. CASE SafeMode(t)   BY <1>8 DEF SafeMode
<1>9. CASE DailyHalt(t)  BY <1>9 DEF DailyHalt
<1>10. CASE Answer(t)    BY <1>10 DEF Answer, breaker
<1> QED BY <1>1, <1>2, <1>3, <1>4, <1>5, <1>6, <1>7, <1>8, <1>9, <1>10 DEF Update

(* And whatever any step leaves.                                           *)
LEMMA StepTyped == TypeOK /\ [Next]_vars => TypeOK'
<1> SUFFICES ASSUME TypeOK, [Next]_vars PROVE TypeOK'
  OBVIOUS
<1> USE BreakerAssumption DEF TypeOK, Goto, Steps, Callers, breaker, calls, world
<1>1. CASE \E t \in Requests : RequestBegins(t)
  BY <1>1 DEF RequestBegins, StampOf
<1>2. CASE \E t \in Requests : RequestCalls(t)
  BY <1>2 DEF RequestCalls
<1>3. CASE \E answered \in BOOLEAN : RiskPolls(answered)
  BY <1>3 DEF RiskPolls
<1>4. CASE RiskCalls
  BY <1>4 DEF RiskCalls, StampOf
<1>5. CASE \E t \in Callers : Update(t)
  BY <1>5, UpdateTyped
<1>6. CASE AccountMoves
  BY <1>6 DEF AccountMoves
<1>7. CASE Midnight
  BY <1>7 DEF Midnight
<1>8. CASE Restart
  <2>1. pc' \in [Callers -> Steps]
    BY <1>8 DEF Restart
  <2>2. day' \in [Callers -> 0..today']
    BY <1>8 DEF Restart
  <2>3. eq' \in [Callers -> Levels]
    BY <1>8 DEF Restart
  <2>4. date' \in 0..today' /\ today' \in 0..MaxDay
    BY <1>8 DEF Restart
  <2>5. moves' \in 0..MaxMoves /\ restarts' \in 0..MaxRestarts
    BY <1>8 DEF Restart
  <2>6. /\ equity' \in Levels /\ dayOpen' \in Levels /\ hwm' \in Levels
        /\ account' \in Levels /\ opened' \in Levels
    BY <1>8 DEF Restart
  <2>7. halted' \in BOOLEAN /\ safe' \in BOOLEAN
    BY <1>8 DEF Restart
  <2> QED BY <2>1, <2>2, <2>3, <2>4, <2>5, <2>6, <2>7
<1>9. CASE UNCHANGED vars
  BY <1>9 DEF vars
<1> QED BY <1>1, <1>2, <1>3, <1>4, <1>5, <1>6, <1>7, <1>8, <1>9 DEF Next

(* TypeOK always holds: in particular no rollover, and no caller, is ever  *)
(* ahead of UTC.                                                           *)
THEOREM BreakerTyped == Spec => []TypeOK
BY InitTyped, StepTyped, PTL DEF Spec

(* Once settled, a step of update_equity neither leaves the halt of the    *)
(* day behind nor starts the rollover again: nobody's date is after today. *)
LEMMA SettledUpdate ==
  ASSUME TypeOK, Settled, NEW t \in Callers, Update(t)
  PROVE Settled' /\ (halted => halted')
<1> USE DEF TypeOK, Settled, Goto, world
<1>1. CASE CheckDate(t)
  <2>1. ~RolloverDue(t)  BY <1>1 DEF RolloverDue
  <2> QED BY <1>1, <2>1 DEF CheckDate, breaker
<1>2. CASE RollDate(t)   BY <1>2 DEF RollDate
<1>3. CASE RollOpen(t)   BY <1>3 DEF RollOpen
<1>4. CASE Store(t)      BY <1>4 DEF Store
<1>5. CASE Raise(t)      BY <1>5 DEF Raise
<1>6. CASE Unhalt(t)     BY <1>6 DEF Unhalt
<1>7. CASE Judge(t)      BY <1>7 DEF Judge, Verdict, breaker
<1>8. CASE SafeMode(t)   BY <1>8 DEF SafeMode
<1>9. CASE DailyHalt(t)  BY <1>9 DEF DailyHalt
<1>10. CASE Answer(t)    BY <1>10 DEF Answer, breaker
<1> QED BY <1>1, <1>2, <1>3, <1>4, <1>5, <1>6, <1>7, <1>8, <1>9, <1>10 DEF Update

(* The halt of the day holds, from the end of today's rollover until       *)
(* midnight or a restart, whatever the callers report.                     *)
THEOREM HaltHolds == Spec => HaltHoldsOnceSettled
<1>1. TypeOK /\ [Next]_vars
      => [(Settled /\ today' = today /\ restarts' = restarts) =>
            (Settled' /\ (halted => halted'))]_vars
  <2> SUFFICES ASSUME TypeOK, Next, Settled, today' = today, restarts' = restarts
               PROVE Settled' /\ (halted => halted')
    OBVIOUS
  <2> USE DEF Goto, breaker, calls, world
  <2>1. CASE \E t \in Requests : RequestBegins(t) \/ RequestCalls(t)
    BY <2>1 DEF RequestBegins, RequestCalls, TypeOK, Settled, Callers
  <2>2. CASE \E answered \in BOOLEAN : RiskPolls(answered)
    BY <2>2 DEF RiskPolls, TypeOK, Settled, Callers
  <2>3. CASE RiskCalls
    BY <2>3 DEF RiskCalls, TypeOK, Settled, Callers
  <2>4. CASE \E t \in Callers : Update(t)
    BY <2>4, SettledUpdate
  <2>5. CASE AccountMoves
    BY <2>5 DEF AccountMoves, Settled
  <2>6. CASE Midnight
    BY <2>6 DEF Midnight, TypeOK
  <2>7. CASE Restart
    BY <2>7, BreakerAssumption DEF Restart, TypeOK
  <2> QED BY <2>1, <2>2, <2>3, <2>4, <2>5, <2>6, <2>7 DEF Next
<1> QED BY <1>1, BreakerTyped, PTL DEF Spec, HaltHoldsOnceSettled

(* A drawdown from the configured equity is one from any mark above it.    *)
LEMMA DrawdownGrows ==
  ASSUME NEW e \in Nat, NEW low \in Nat, NEW high \in Nat, low <= high,
         Drawdown(e, low)
  PROVE Drawdown(e, high)
BY DEF Drawdown

(* No step of update_equity takes the mark below the configured equity or  *)
(* forgets a drawdown from it.                                             *)
LEMMA UpdateFloor ==
  ASSUME IInv, NEW t \in Callers, Update(t)
  PROVE (Floor /\ FloorStops)'
<1> USE BreakerAssumption DEF IInv, TypeOK, Floor, FloorStops, Goto, world
<1>1. CASE CheckDate(t)  BY <1>1 DEF CheckDate, breaker
<1>2. CASE RollDate(t)   BY <1>2 DEF RollDate
<1>3. CASE RollOpen(t)   BY <1>3 DEF RollOpen
<1>4. CASE Store(t)      BY <1>4 DEF Store
<1>5. CASE Raise(t)      BY <1>5 DEF Raise
<1>6. CASE Unhalt(t)     BY <1>6 DEF Unhalt
<1>7. CASE Judge(t)
  <2>1. Drawdown(eq[t], Configured) => pc'[t] \in {"stop", "both"}
    BY <1>7, DrawdownGrows DEF Judge, Verdict
  <2>2. pc'[t] \in {"stop", "both", "halt", "answer"}
    BY <1>7 DEF Judge, Verdict
  <2> QED BY <1>7, <2>1, <2>2 DEF Judge, breaker
<1>8. CASE SafeMode(t)   BY <1>8 DEF SafeMode
<1>9. CASE DailyHalt(t)  BY <1>9 DEF DailyHalt
<1>10. CASE Answer(t)    BY <1>10 DEF Answer, breaker
<1> QED BY <1>1, <1>2, <1>3, <1>4, <1>5, <1>6, <1>7, <1>8, <1>9, <1>10 DEF Update

(* IInv is inductive.                                                      *)
LEMMA StepFloor == IInv /\ [Next]_vars => (Floor /\ FloorStops)'
<1> SUFFICES ASSUME IInv, [Next]_vars PROVE (Floor /\ FloorStops)'
  OBVIOUS
<1> USE BreakerAssumption
    DEF IInv, TypeOK, Floor, FloorStops, Goto, Callers, breaker, calls, world
<1>1. CASE \E t \in Requests : RequestBegins(t) \/ RequestCalls(t)
  BY <1>1 DEF RequestBegins, RequestCalls
<1>2. CASE \E answered \in BOOLEAN : RiskPolls(answered)
  BY <1>2 DEF RiskPolls
<1>3. CASE RiskCalls
  BY <1>3 DEF RiskCalls
<1>4. CASE \E t \in Callers : Update(t)
  BY <1>4, UpdateFloor
<1>5. CASE AccountMoves \/ Midnight
  BY <1>5 DEF AccountMoves, Midnight
<1>6. CASE Restart
  BY <1>6 DEF Restart
<1>7. CASE UNCHANGED vars
  BY <1>7 DEF vars
<1> QED BY <1>1, <1>2, <1>3, <1>4, <1>5, <1>6, <1>7 DEF Next

(* Whoever reports a drawdown of 10% from the configured equity leaves     *)
(* SAFE_MODE behind, however the callers race for the high-water mark.     *)
THEOREM FloorHolds == Spec => []FloorStops
<1>1. Init => IInv
  <2>1. Init => Floor /\ FloorStops
    BY BreakerAssumption DEF Init, Floor, FloorStops
  <2> QED BY <2>1, InitTyped DEF IInv
<1>2. IInv /\ [Next]_vars => IInv'
  BY StepTyped, StepFloor DEF IInv
<1>3. IInv => FloorStops
  BY DEF IInv
<1> QED BY <1>1, <1>2, <1>3, PTL DEF Spec
=============================================================================
