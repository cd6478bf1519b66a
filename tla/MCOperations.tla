----------------------------- MODULE MCOperations -----------------------------
(* The controller and the services around the order path, on small         *)
(* instances.  They share no state: each behaviour runs one part and       *)
(* leaves the others as they begin.  AutoTrading runs in two ways: with    *)
(* orders and one start, or with restarts but without orders and without   *)
(* an armed switch, which makes the status ERROR and start impossible, and *)
(* without a second stop once a link has gone bad.                         *)
EXTENDS AutoTrading, ExposureGovernor

CONSTANTS r1, r2, EURUSD, GBPUSD, EURGBP, EUR, USD, GBP

VARIABLE part

Parts == {"orders", "restarts", "exposure"}

(* ExposureGovernor: three pairs in a ring, so that an order may load one  *)
(* currency and relieve another.                                           *)
MCBase == [p \in Pairs |-> IF p = GBPUSD THEN GBP ELSE EUR]
MCQuote == [p \in Pairs |-> IF p = EURGBP THEN GBP ELSE USD]
MCRate == [c \in Currencies |-> IF c = GBP THEN 2 ELSE 1]
MCTargets == {<<<<EURUSD, 4>>>>, <<<<EURUSD, -3>>, <<GBPUSD, 2>>>>, <<<<EURGBP, 9>>, <<EURUSD, 0>>>>}

operationsVars == <<part, autoVars, exposureVars>>

Only(p) ==
  /\ part = p /\ UNCHANGED part
  /\ p \notin {"orders", "restarts"} => UNCHANGED autoVars
  /\ p # "exposure" => UNCHANGED exposureVars

OperationsInit == part \in Parts /\ AutoInit /\ ExposureInit

(* Of two threads that are both idle the first takes the request.          *)
OperationsNext ==
  \/ Only("orders") /\ AutoNext /\ starts' <= 1
  \/ /\ Only("restarts") /\ AutoNext
     /\ UNCHANGED hand /\ status' # "ERROR"
     /\ (step' = "join" => starts = 1 \/ drops = 0)
  \/ /\ Only("exposure") /\ ExposureNext
     /\ (asked = 0 => \A a \in Askers \ {r1} : queue'[a] = <<>>)

OperationsSpec == OperationsInit /\ [][OperationsNext]_operationsVars /\ AutoFairness
===============================================================================
