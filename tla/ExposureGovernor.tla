--------------------------- MODULE ExposureGovernor ---------------------------
(***************************************************************************)
(* portfolio_engine/: the exposure matrix and the governor that keeps the  *)
(* net exposure of every currency under a share of the equity, and the     *)
(* allocator of target positions, as production/execution.py uses them.    *)
(*                                                                         *)
(* RiskKernel.evaluate asks the governor with the positions the OMS holds  *)
(* at that moment, and submit_intent looks at "approved" only.  The OMS    *)
(* then runs the firewall again without positions, where the governor is   *)
(* not asked, so an order the governor downsized goes out in full.  Orders *)
(* on their way count in no exposure, and a fill that overshoots a         *)
(* position leaves the OMS flat while the broker is on the other side.     *)
(* What a broker executes is not always what the OMS books: an answer may  *)
(* be lost on every try and every account, a try be executed twice, the    *)
(* units of the answer be cut by a float, and an execution under one lot   *)
(* is answered SUBMITTED and booked by nobody (see Execution).             *)
(*                                                                         *)
(* Amounts are whole units; Rate translates a currency to the account's,   *)
(* and the price of a pair is the quotient of the rates of its currencies. *)
(* Rates rest; percentages of the equity are amounts, not yet rounded.     *)
(***************************************************************************)
EXTENDS Integers, Sequences, FiniteSets, FiniteSetsExt, SequencesExt

CONSTANTS
  Pairs, Currencies,
  Base, Quote,      \* the currencies of each pair
  Account,          \* the account's currency, of which the allocator knows
  Rate,             \* of each currency in the account's
  Cap,              \* max_exposure_pct of the equity
  Step,             \* MINIMUM_TRADE_UNITS, and the step of the search
  Sizes,            \* units of the orders that come by themselves
  Targets,          \* lists of <<pair, target units>> for submit_targets
  SymbolCap, GrossCap, CurrencyCap,  \* of the allocator
  Amounts,          \* units of an order that may be booked, and executed
  Askers,           \* request threads
  MaxAsked,         \* calls of submit_intent or submit_targets
  NoGoal               \* no goal

ASSUME ExposureAssumption ==
  /\ IsFiniteSet(Pairs)
  /\ Base \in [Pairs -> Currencies] /\ Quote \in [Pairs -> Currencies]
  /\ \A p \in Pairs : Base[p] # Quote[p]
  /\ Rate \in [Currencies -> Nat \ {0}]
  /\ Cap \in Nat /\ Step \in Nat \ {0} /\ Sizes \subseteq Nat \ {0} /\ MaxAsked \in Nat
  /\ Amounts \subseteq Nat
  /\ Targets \subseteq Seq(Pairs \X Int)

VARIABLES
  positions,  \* OMS: net units of each pair
  holding,    \* the broker's net units
  queue,      \* each thread: the orders it has still to submit
  sending,    \* each thread: the order judged and not yet executed
  asked,
  unbooked,   \* history: each pair: net units executed that were never booked
  goal,       \* history: where submit_targets leads a pair, NoGoal when an order
              \* of its own was not booked whole or another came in between
  blind,      \* history: currencies in which an order was executed that had
              \* been judged on other positions
  oversized,  \* history: currencies of orders sent larger than allowed
  reversed    \* history: pairs in which a fill overshot the position

exposureVars ==
  <<positions, holding, queue, sending, asked, unbooked, goal, blind, oversized, reversed>>

NoOrder == [pair |-> {}, units |-> 0, allowed |-> 0, read |-> <<>>]

Size(n) == IF n < 0 THEN -n ELSE n
Sense(n) == IF n < 0 THEN -1 ELSE 1
Legs(p) == {Base[p], Quote[p]}

-----------------------------------------------------------------------------
(* decompose_position and calculate_portfolio_exposure: a pair's units are *)
(* held in its base currency and owed in its quote currency.               *)
Exposure(b, c) ==
  MapThenSumSet(LAMBDA p : CASE c = Base[p]  -> b[p] * Rate[Base[p]]
                             [] c = Quote[p] -> -b[p] * Rate[Base[p]]
                             [] OTHER        -> 0, Pairs)

Plus(b, p, n) == [b EXCEPT ![p] = @ + n]
Balanced(b) == \A c \in Currencies : Size(Exposure(b, c)) <= Cap

\* evaluate_intent: a currency over the cap is let pass when its exposure shrinks.
BreachedBy(b, p, n) ==
  {c \in Currencies :
     /\ Size(Exposure(Plus(b, p, n), c)) > Cap
     /\ Size(Exposure(Plus(b, p, n), c)) >= Size(Exposure(b, c))}

(* _attempt_downsize: a binary search in steps, for the largest size with  *)
(* which every currency is under the cap; 0 when none is found.            *)
Downsize(b, p, n) ==
  LET search[s \in Nat \X Nat \X Nat] ==
        LET low == s[1]
            high == s[2]
            mid == ((low + high) \div (2 * Step)) * Step
        IN IF low > high \/ mid < Step THEN s[3]
           ELSE IF Balanced(Plus(b, p, Sense(n) * mid)) THEN search[<<mid + Step, high, mid>>]
           ELSE search[<<low, mid - Step, s[3]>>]
      best == search[<<Step, Size(n), 0>>]
  IN IF Size(n) > Step /\ best < Size(n) THEN best ELSE 0

\* The size the governor allows, 0 for a rejection.
Govern(b, p, n) == IF BreachedBy(b, p, n) = {} THEN Size(n) ELSE Downsize(b, p, n)

-----------------------------------------------------------------------------
(* TargetPositionAllocator.allocate: the orders that lead from the         *)
(* positions to the targets, one after another on the projected book; a    *)
(* target over a cap is left out.  The gross counts a reduction too, and   *)
(* only the account currency's leg of a single order has a cap.            *)
Gross(b) == MapThenSumSet(LAMBDA p : Size(b[p]), Pairs)

Toward(plan, t) ==
  LET n == t[2] - plan.book[t[1]]
      capped == Account \in Legs(t[1]) /\ Size(n) > CurrencyCap
  IN IF n = 0 \/ Size(t[2]) > SymbolCap \/ Gross(plan.book) + Size(n) > GrossCap \/ capped THEN plan
     ELSE [book |-> Plus(plan.book, t[1], n), intents |-> Append(plan.intents, <<t[1], n>>)]

Allocate(b, targets) == FoldLeft(Toward, [book |-> b, intents |-> <<>>], targets)

ExposureInit ==
  /\ positions = [p \in Pairs |-> 0] /\ holding = [p \in Pairs |-> 0]
  /\ queue = [a \in Askers |-> <<>>] /\ sending = [a \in Askers |-> NoOrder]
  /\ asked = 0 /\ unbooked = [p \in Pairs |-> 0]
  /\ goal = [p \in Pairs |-> NoGoal] /\ blind = {} /\ oversized = {} /\ reversed = {}

Busy(p) ==
  \E a \in Askers : sending[a].pair = p \/ \E k \in DOMAIN queue[a] : queue[a][k][1] = p

(* submit_intent from a client, or submit_targets.                         *)
Ask(a, intents, book) ==
  /\ queue[a] = <<>> /\ sending[a] = NoOrder /\ intents # <<>>
  /\ asked < MaxAsked
  /\ asked' = asked + 1
  /\ queue' = [queue EXCEPT ![a] = intents]
  /\ goal' = [p \in Pairs |-> IF \A k \in DOMAIN intents : intents[k][1] # p THEN goal[p]
                              ELSE IF Busy(p) THEN NoGoal ELSE book[p]]
  /\ UNCHANGED <<positions, holding, sending, unbooked, blind, oversized, reversed>>

AskTargets(a) ==
  \E targets \in Targets :
    LET plan == Allocate(positions, targets)
    IN Ask(a, plan.intents, plan.book)

AskOrder(a) ==
  \E p \in Pairs, n \in Sizes, sense \in {-1, 1} :
    Ask(a, <<<<p, sense * n>>>>, [q \in Pairs |-> NoGoal])

(* Mutant of Judge: the verdict counts for every order of the list.        *)
JudgeUnread(a) ==
  LET p == queue[a][1][1]
      n == queue[a][1][2]
  IN /\ queue[a] # <<>> /\ sending[a] = NoOrder
     /\ queue' = [queue EXCEPT ![a] = Tail(@)]
     /\ sending' = [sending EXCEPT ![a] = [pair |-> p, units |-> n, allowed |-> Size(n), read |-> positions]]
     /\ UNCHANGED <<positions, holding, asked, unbooked, goal, blind, oversized, reversed>>

(* RiskKernel.evaluate for the next order: a rejection ends it, a smaller  *)
(* size does not.                                                          *)
Judge(a) ==
  LET p == queue[a][1][1]
      n == queue[a][1][2]
      allowed == Govern(positions, p, n)
  IN /\ queue[a] # <<>> /\ sending[a] = NoOrder
     /\ queue' = [queue EXCEPT ![a] = Tail(@)]
     /\ sending' = [sending EXCEPT
          ![a] = IF allowed = 0 THEN NoOrder
                 ELSE [pair |-> p, units |-> n, allowed |-> allowed, read |-> positions]]
     /\ goal' = IF allowed = 0 THEN [goal EXCEPT ![p] = NoGoal] ELSE goal
     /\ UNCHANGED <<positions, holding, asked, unbooked, blind, oversized, reversed>>

(* The clock gate: the orders of submit_targets carry the time they were   *)
(* allocated at, so that one that follows a slow broker call is too old.   *)
Outdated(a) ==
  /\ queue[a] # <<>> /\ sending[a] = NoOrder
  /\ queue' = [queue EXCEPT ![a] = Tail(@)]
  /\ goal' = [goal EXCEPT ![queue[a][1][1]] = NoGoal]
  /\ UNCHANGED <<positions, holding, sending, asked, unbooked, blind, oversized, reversed>>

(* Position.apply_fill: what overshoots a position is dropped.             *)
Netted(held, n) == IF held * n < 0 /\ Size(n) > Size(held) THEN 0 ELSE held + n

(* The order is sent: the broker executes `taken` units of it and the OMS  *)
(* books `booked`.  They differ when an answer is lost, an execution is    *)
(* repeated or the answer is cut or short of a lot.  Less than the order   *)
(* is booked also when the breaker has dampened it, when the broker fills  *)
(* a part and when some of its children fail.                              *)
Fill(a, booked, taken) ==
  LET o == sending[a]
      n == Sense(o.units) * booked
      seen == {c \in Currencies : Exposure(o.read, c) # Exposure(positions, c)}
  IN /\ o # NoOrder
     /\ booked <= Size(o.units) /\ booked <= taken /\ taken # 0
     /\ positions' = [positions EXCEPT ![o.pair] = Netted(@, n)]
     /\ holding' = Plus(holding, o.pair, Sense(o.units) * taken)
     /\ unbooked' = Plus(unbooked, o.pair, Sense(o.units) * (taken - booked))
     /\ sending' = [sending EXCEPT ![a] = NoOrder]
     /\ goal' = IF booked = Size(o.units) THEN goal ELSE [goal EXCEPT ![o.pair] = NoGoal]
     /\ blind' = IF booked = 0 THEN blind ELSE blind \cup (seen \cap Legs(o.pair))
     /\ oversized' = IF booked > o.allowed THEN oversized \cup Legs(o.pair) ELSE oversized
     /\ reversed' = IF Netted(positions[o.pair], n) = positions[o.pair] + n THEN reversed
                    ELSE reversed \cup {o.pair}
     /\ UNCHANGED <<queue, asked>>

\* It is refused, by a later gate or by the broker.
Refuse(a) ==
  /\ sending[a] # NoOrder
  /\ sending' = [sending EXCEPT ![a] = NoOrder]
  /\ goal' = [goal EXCEPT ![sending[a].pair] = NoGoal]
  /\ UNCHANGED <<positions, holding, queue, asked, unbooked, blind, oversized, reversed>>

ExposureNext ==
  \E a \in Askers :
    \/ AskTargets(a) \/ AskOrder(a) \/ Judge(a) \/ Outdated(a) \/ Refuse(a)
    \/ \E booked, taken \in Amounts : Fill(a, booked, taken)

ExposureSpec == ExposureInit /\ [][ExposureNext]_exposureVars

-----------------------------------------------------------------------------
(* From positions that respect the cap, the binary search finds the        *)
(* largest size in steps that respects it too.                             *)
SearchIsExact ==
  Balanced(positions) =>
    \A p \in Pairs, n \in Sizes, sense \in {-1, 1} :
      LET fitting == {m \in {k * Step : k \in 1..(n \div Step)} :
                        Balanced(Plus(positions, p, sense * m))}
      IN BreachedBy(positions, p, sense * n) # {} =>
           Downsize(positions, p, sense * n) = Max({0} \cup fitting)

(* A currency gets over the cap in three ways only: an order the governor  *)
(* had downsized and that went out in full, an order judged before another *)
(* fill changed that currency's exposure, or a fill that overshot.         *)
CapBrokenInThreeWays ==
  \A c \in Currencies :
    \/ Size(Exposure(positions, c)) <= Cap
    \/ c \in blind \cup oversized \/ \E p \in reversed : c \in Legs(p)

(* The OMS has the broker's positions but for what was executed and never  *)
(* booked, and for pairs that were reversed.                               *)
HeldAsBooked == \A p \in Pairs \ reversed : holding[p] = positions[p] + unbooked[p]

(* submit_targets whose orders were all booked whole has led the broker's  *)
(* position to the target, and to what was never booked beside it.         *)
AtTarget(p) == goal[p] = NoGoal \/ Busy(p) \/ holding[p] = goal[p] + unbooked[p]

(* It does so for every pair that was never reversed.                      *)
LedToTarget == \A p \in Pairs \ reversed : AtTarget(p)

(* What "converts targets to deltas" (docs/ARCHITECTURE.md) says of every  *)
(* pair.                                                                   *)
TargetsReached == \A p \in Pairs : AtTarget(p)

(* The four together: what holds of exposures and positions between the    *)
(* governor, the allocator, the OMS and the broker.                        *)
ExposureExplained == SearchIsExact /\ CapBrokenInThreeWays /\ HeldAsBooked /\ LedToTarget
===============================================================================
