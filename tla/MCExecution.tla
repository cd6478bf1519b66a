---------------------------- MODULE MCExecution -----------------------------
(* Small instances of Execution for TLC.                                   *)
EXTENDS Execution, TLC

CONSTANTS i1, i2, s1, a1, a2

OneIntent == {i1}
TwoIntents == {i1, i2}
MCSymbolOf == [i \in Intents |-> s1]
AllBuy == [i \in Intents |-> 1]
BuyAndSell == [i \in Intents |-> IF i = i1 THEN 1 ELSE -1]
LargestUnits == [i \in Intents |-> MaxUnits]
ThreeThenTwo == [i \in Intents |-> IF i = i1 THEN 3 ELSE 2]
Exact == [q \in 1..MaxClip |-> q]
TwoAsOne == [q \in 1..MaxClip |-> IF q = 2 THEN 1 ELSE q]
OneAccount == <<a1>>
TwoAccounts == <<a1, a2>>

(* Bounds on the surroundings.                                             *)
Bounds(switch, move, reconcile, flatten, crash) ==
  "switch" :> switch @@ "move" :> move @@ "reconcile" :> reconcile
    @@ "flatten" :> flatten @@ "crash" :> crash
SafetyBudget == Bounds(1, 0, 0, 0, 1)
LedgerBudget == Bounds(1, 0, 0, 0, 0)
FindingBudget == Bounds(1, 0, 0, 0, 0)
SurroundingsBudget == Bounds(1, 1, Unlimited, 1, 1)

ThreadsAreAlike == Permutations(Threads)
=============================================================================
