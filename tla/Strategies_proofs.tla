-------------------------- MODULE Strategies_proofs --------------------------
(***************************************************************************)
(* Three computations that must tell the same twice.  The streaming        *)
(* structure of one timeframe, for every series of candles and any         *)
(* parameters of its detectors: live swings, breaks, phase and zones are   *)
(* those of the batch rules over the candles so far.  The three backtests  *)
(* of correlated sets, for any timeframes, rows and parameters: they agree *)
(* on the first trade of each set, and overlapping trades are charged      *)
(* once.  And the fractal engine, for any ladder of timeframes and any     *)
(* candles: what it says of an instant is never said otherwise later.      *)
(***************************************************************************)
EXTENDS MarketStructure, NativeSets, SetReads, FiniteSetTheorems, SequenceTheorems, WellFoundedInduction, TLAPS

(* A set of naturals has a least element, a bounded one a greatest.        *)
LEMMA LeastNumber ==
  ASSUME NEW T \in SUBSET Nat, T # {}
  PROVE  \E least \in T : \A other \in T : least <= other
<1>1. IsWellFoundedOn(OpToRel(<, Nat), Nat)
  BY NatLessThanWellFounded
<1>2. PICK least \in T : \A other \in T : <<other, least>> \notin OpToRel(<, Nat)
  BY <1>1, WFMin
<1>3. \A other \in T : ~(other < least)
  BY <1>2 DEF OpToRel
<1>4. QED
  BY <1>3

LEMMA GreatestNumber ==
  ASSUME NEW top \in Nat, NEW T \in SUBSET (0..top), T # {}
  PROVE  \E greatest \in T : \A other \in T : other <= greatest
<1> DEFINE U == {top - x : x \in T}
<1>1. U \in SUBSET Nat /\ U # {}
  <2>1. \A x \in T : top - x \in Nat
    OBVIOUS
  <2>2. QED
    BY <2>1, Zenon
<1>2. PICK least \in U : \A other \in U : least <= other
  BY <1>1, LeastNumber
<1>3. PICK greatest \in T : least = top - greatest
  BY <1>2
<1>4. \A other \in T : top - other \in U
  OBVIOUS
<1>5. \A other \in T : top - greatest <= top - other
  BY <1>2, <1>3, <1>4
<1>6. QED
  BY <1>3, <1>5

LEMMA GreatestIsMax ==
  ASSUME NEW top \in Nat, NEW T \in SUBSET (0..top), T # {}
  PROVE  Max(T) \in T /\ \A x \in T : x <= Max(T)
<1>1. PICK greatest \in T : \A other \in T : other <= greatest
  BY GreatestNumber
<1>2. \A other \in T : greatest >= other
  BY <1>1
<1>3. Max(T) \in T /\ \A x \in T : Max(T) >= x
  BY <1>2, Zenon DEF Max
<1>4. QED
  BY <1>3

(***************************************************************************)
(* MarketStructure: swings                                                 *)
(***************************************************************************)
LEMMA LeastIsMin ==
  ASSUME NEW T \in SUBSET Nat, T # {}
  PROVE  Min(T) \in T /\ \A x \in T : Min(T) <= x
<1>1. PICK least \in T : \A other \in T : least <= other
  BY LeastNumber
<1>2. QED
  BY <1>1, Zenon DEF Min

PeakAt(B, i) == \A j \in Window(i, Lookback) : B[i].high > B[j].high
TroughAt(B, i) == ~PeakAt(B, i) /\ \A j \in Window(i, Lookback) : B[i].low < B[j].low
SwingAt(B, i) ==
  IF PeakAt(B, i) THEN [index |-> i, type |-> "HIGH", price |-> B[i].high]
                  ELSE [index |-> i, type |-> "LOW", price |-> B[i].low]

LEMMA SwingsAre ==
  ASSUME NEW B
  PROVE  DetectSwings(B, Lookback) =
           {SwingAt(B, i) : i \in {j \in (Lookback + 1)..(Len(B) - Lookback) : PeakAt(B, j) \/ TroughAt(B, j)}}
<1> DEFINE pivots == (Lookback + 1)..(Len(B) - Lookback)
           highs == {i \in pivots : \A j \in Window(i, Lookback) : B[i].high > B[j].high}
           lows == {i \in pivots : \A j \in Window(i, Lookback) : B[i].low < B[j].low}
           High(i) == [index |-> i, type |-> "HIGH", price |-> B[i].high]
           Low(i) == [index |-> i, type |-> "LOW", price |-> B[i].low]
           turns == {j \in pivots : PeakAt(B, j) \/ TroughAt(B, j)}
<1>1. DetectSwings(B, Lookback) = {High(i) : i \in highs} \cup {Low(i) : i \in lows \ highs}
  BY DEF DetectSwings
<1>2. \A i \in pivots : (i \in highs <=> PeakAt(B, i)) /\ (i \in lows \ highs <=> TroughAt(B, i))
  BY DEF PeakAt, TroughAt
<1>3. highs \subseteq pivots /\ lows \subseteq pivots
  OBVIOUS
<1>4. \A i : (PeakAt(B, i) => SwingAt(B, i) = High(i)) /\ (TroughAt(B, i) => SwingAt(B, i) = Low(i))
  BY DEF SwingAt, TroughAt
<1> HIDE DEF pivots, highs, lows, High, Low
<1>5. {High(i) : i \in highs} \cup {Low(i) : i \in lows \ highs} = {SwingAt(B, i) : i \in turns}
  BY <1>2, <1>3, <1>4
<1>6. QED
  BY <1>1, <1>5 DEF pivots

LEMMA SwingFields ==
  ASSUME NEW B \in Seq(Candles), NEW s \in DetectSwings(B, Lookback)
  PROVE  /\ s.index \in Nat /\ s.index >= Lookback + 1 /\ s.index + Lookback <= Len(B)
         /\ s = SwingAt(B, s.index) /\ s.type \in {"HIGH", "LOW"}
<1>1. PICK i \in (Lookback + 1)..(Len(B) - Lookback) : s = SwingAt(B, i)
  BY SwingsAre
<1>2. Lookback \in Nat /\ Len(B) \in Nat
  BY StructureAssumption
<1>3. SwingAt(B, i).index = i /\ SwingAt(B, i).type \in {"HIGH", "LOW"}
  BY DEF SwingAt
<1>4. QED
  BY <1>1, <1>2, <1>3

(* A bar more: the swings so far are the same, and the bar in the middle   *)
(* of the last ones may be one too.                                        *)
LEMMA EarlierSwings ==
  ASSUME NEW B \in Seq(Candles), NEW c \in Candles
  PROVE  \A i \in (Lookback + 1)..(Len(B) - Lookback) :
           /\ PeakAt(Append(B, c), i) <=> PeakAt(B, i)
           /\ TroughAt(Append(B, c), i) <=> TroughAt(B, i)
           /\ SwingAt(Append(B, c), i) = SwingAt(B, i)
<1> DEFINE A == Append(B, c)
<1>1. Lookback \in Nat /\ Len(B) \in Nat /\ \A k \in 1..Len(B) : A[k] = B[k]
  BY StructureAssumption
<1> HIDE DEF A
<1>2. ASSUME NEW i \in (Lookback + 1)..(Len(B) - Lookback)
      PROVE  i \in 1..Len(B) /\ \A j \in Window(i, Lookback) : j \in 1..Len(B)
  <2>1. i \in Int /\ i >= Lookback + 1 /\ i <= Len(B) - Lookback
    BY <1>1
  <2>2. \A j \in Window(i, Lookback) : j \in Int /\ j >= i - Lookback /\ j <= i + Lookback
    BY <1>1, <2>1 DEF Window
  <2>3. QED
    BY <1>1, <2>1, <2>2
<1>3. ASSUME NEW i \in (Lookback + 1)..(Len(B) - Lookback)
      PROVE  A[i] = B[i] /\ \A j \in Window(i, Lookback) : A[j] = B[j]
  BY <1>1, <1>2
<1>4. ASSUME NEW i \in (Lookback + 1)..(Len(B) - Lookback)
      PROVE  /\ PeakAt(A, i) <=> PeakAt(B, i)
             /\ TroughAt(A, i) <=> TroughAt(B, i)
             /\ SwingAt(A, i) = SwingAt(B, i)
  <2>1. PeakAt(A, i) <=> PeakAt(B, i)
    BY <1>3 DEF PeakAt
  <2>2. QED
    BY <1>3, <2>1 DEF TroughAt, SwingAt
<1>5. QED
  BY <1>4 DEF A

(* The window of a new bar has one pivot.                                  *)
LEMMA ConfirmedIs ==
  ASSUME NEW A \in Seq(Candles)
  PROVE  Confirmed(A) = IF Len(A) < 2 * Lookback + 1 THEN {}
                        ELSE {SwingAt(A, i) : i \in {j \in {Len(A) - Lookback} : PeakAt(A, j) \/ TroughAt(A, j)}}
<1> DEFINE W == SubSeq(A, Len(A) - 2 * Lookback, Len(A))
           mid == Len(A) - Lookback
<1>1. Lookback \in Nat \ {0} /\ Len(A) \in Nat
  BY StructureAssumption
<1>2. CASE Len(A) < 2 * Lookback + 1
  BY <1>2 DEF Confirmed
<1>3. CASE ~(Len(A) < 2 * Lookback + 1)
  <2>1. Confirmed(A) = {[s EXCEPT !.index = @ + Len(A) - Len(W)] : s \in DetectSwings(W, Lookback)}
    BY <1>3, Zenon DEF Confirmed
  <2>2. /\ Len(W) = 2 * Lookback + 1
        /\ \A k \in 1..(2 * Lookback + 1) : W[k] = A[k + (Len(A) - 2 * Lookback - 1)]
    <3>1. Len(A) - 2 * Lookback \in 1..Len(A) /\ Len(A) - 2 * Lookback <= Len(A) /\ Len(A) \in 1..Len(A)
      BY <1>1, <1>3
    <3>2. /\ Len(W) = Len(A) - (Len(A) - 2 * Lookback) + 1
          /\ \A k \in 1..(Len(A) - (Len(A) - 2 * Lookback) + 1) : W[k] = A[(Len(A) - 2 * Lookback) + k - 1]
      BY <1>1, <3>1
    <3>3. QED
      BY <1>1, <3>2
  <2> HIDE DEF W
  <2>3. (Lookback + 1)..(Len(W) - Lookback) = {Lookback + 1} /\ mid \in Nat
    BY <1>1, <1>3, <2>2
  <2>4. /\ W[Lookback + 1] = A[mid]
        /\ \A k \in Window(Lookback + 1, Lookback) : W[k] = A[k + mid - (Lookback + 1)]
    <3>1. \A k \in Window(Lookback + 1, Lookback) : k \in 1..(2 * Lookback + 1)
      BY <1>1 DEF Window
    <3>2. \A k \in 1..(2 * Lookback + 1) : k + (Len(A) - 2 * Lookback - 1) = k + mid - (Lookback + 1)
      BY <1>1
    <3>3. Lookback + 1 \in 1..(2 * Lookback + 1) /\ Lookback + 1 + mid - (Lookback + 1) = mid
      BY <1>1, <2>3
    <3>4. QED
      BY <2>2, <3>1, <3>2, <3>3
  <2>5. /\ \A k \in Window(Lookback + 1, Lookback) : k + mid - (Lookback + 1) \in Window(mid, Lookback)
        /\ \A j \in Window(mid, Lookback) : /\ j - mid + (Lookback + 1) \in Window(Lookback + 1, Lookback)
                                            /\ (j - mid + (Lookback + 1)) + mid - (Lookback + 1) = j
    BY <1>1, <2>3 DEF Window
  <2>6. PeakAt(W, Lookback + 1) <=> PeakAt(A, mid)
    BY <2>4, <2>5 DEF PeakAt
  <2>7. TroughAt(W, Lookback + 1) <=> TroughAt(A, mid)
    BY <2>4, <2>5, <2>6 DEF TroughAt
  <2>8. [SwingAt(W, Lookback + 1) EXCEPT !.index = @ + Len(A) - Len(W)] = SwingAt(A, mid)
    <3>1. Lookback + 1 + Len(A) - Len(W) = mid
      BY <1>1, <2>2
    <3>2. QED
      BY <2>4, <2>6, <3>1 DEF SwingAt
  <2>9. DetectSwings(W, Lookback) =
          {SwingAt(W, i) : i \in {j \in {Lookback + 1} : PeakAt(W, j) \/ TroughAt(W, j)}}
    BY <2>3, SwingsAre
  <2> HIDE DEF mid
  <2>10. Confirmed(A) = {SwingAt(A, i) : i \in {j \in {mid} : PeakAt(A, j) \/ TroughAt(A, j)}}
    <3>1. CASE PeakAt(A, mid) \/ TroughAt(A, mid)
      <4>1. DetectSwings(W, Lookback) = {SwingAt(W, Lookback + 1)}
        BY <2>6, <2>7, <2>9, <3>1
      <4>2. QED
        BY <2>1, <2>8, <3>1, <4>1
    <3>2. CASE ~(PeakAt(A, mid) \/ TroughAt(A, mid))
      <4>1. DetectSwings(W, Lookback) = {}
        BY <2>6, <2>7, <2>9, <3>2
      <4>2. QED
        BY <2>1, <3>2, <4>1
    <3>3. QED
      BY <3>1, <3>2
  <2>11. QED
    BY <1>3, <2>10 DEF mid
<1>4. QED
  BY <1>2, <1>3

LEMMA SwingsGrow ==
  ASSUME NEW B \in Seq(Candles), NEW c \in Candles
  PROVE  /\ DetectSwings(Append(B, c), Lookback) = DetectSwings(B, Lookback) \cup Confirmed(Append(B, c))
         /\ \A s \in Confirmed(Append(B, c)) : s.index + Lookback = Len(B) + 1
<1> DEFINE A == Append(B, c)
           Turns(X, D) == {SwingAt(X, i) : i \in {j \in D : PeakAt(X, j) \/ TroughAt(X, j)}}
           old == (Lookback + 1)..(Len(B) - Lookback)
           mid == Len(A) - Lookback
<1>1. Lookback \in Nat \ {0} /\ Len(B) \in Nat /\ A \in Seq(Candles) /\ Len(A) = Len(B) + 1
  BY StructureAssumption
<1>2. DetectSwings(A, Lookback) = Turns(A, (Lookback + 1)..(Len(A) - Lookback))
  BY SwingsAre
<1>3. DetectSwings(B, Lookback) = Turns(B, old)
  BY SwingsAre
<1>4. Turns(A, old) = Turns(B, old)
  BY EarlierSwings
<1>5. Confirmed(A) = IF Len(A) < 2 * Lookback + 1 THEN {} ELSE Turns(A, {mid})
  BY <1>1, ConfirmedIs
<1>6. (Lookback + 1)..(Len(A) - Lookback) =
        old \cup (IF Len(A) < 2 * Lookback + 1 THEN {} ELSE {mid})
  BY <1>1
<1>7. \A D, E : Turns(A, D \cup E) = Turns(A, D) \cup Turns(A, E)
  OBVIOUS
<1>8. Turns(A, {}) = {}
  OBVIOUS
<1>9. \A s \in Turns(A, {mid}) : s.index = mid
  BY DEF SwingAt
<1> HIDE DEF Turns, old, mid, A
<1>10. DetectSwings(A, Lookback) = DetectSwings(B, Lookback) \cup Confirmed(A)
  <2>1. Turns(A, old \cup {}) = Turns(A, old) \cup Turns(A, {})
    BY <1>7
  <2>2. Turns(A, old \cup {mid}) = Turns(A, old) \cup Turns(A, {mid})
    BY <1>7
  <2>3. QED
    BY <1>2, <1>3, <1>4, <1>5, <1>6, <1>8, <2>1, <2>2
<1>11. \A s \in Confirmed(A) : s.index + Lookback = Len(B) + 1
  <2>1. \A s \in Confirmed(A) : s.index = mid
    BY <1>5, <1>9
  <2>2. mid + Lookback = Len(B) + 1
    BY <1>1 DEF mid
  <2>3. QED
    BY <2>1, <2>2
<1>12. QED
  BY <1>10, <1>11 DEF A

(* A swing is found by its index.                                          *)
LEMMA SwingByIndex ==
  ASSUME NEW B \in Seq(Candles), NEW s \in DetectSwings(B, Lookback), NEW r \in DetectSwings(B, Lookback),
         s.index = r.index
  PROVE  s = r
BY SwingFields

(***************************************************************************)
(* MarketStructure: breaks                                                 *)
(***************************************************************************)
Closes(B, s) ==
  {i \in DOMAIN B : i > s.index /\ i >= s.index + Lookback /\ Beyond(s, B[i].close)}

(* A break without its kind, and those of a series.                        *)
Bare(b) == [index |-> b.index, swing |-> b.swing, direction |-> b.direction]
BreakOf(B, s) == [index |-> Min(Closes(B, s)), swing |-> s, direction |-> Way(s)]
Found(B, S) == {BreakOf(B, s) : s \in {r \in S : Closes(B, r) # {}}}

KindAmong(F, b) ==
  LET before == {c \in F : Earlier(c, b)}
  IN IF before = {} \/ LastBreak(before).direction = b.direction THEN "BOS" ELSE "CHOCH"

LEMMA BatchAre ==
  ASSUME NEW B, NEW S
  PROVE  DetectStructureBreaks(B, S, Lookback) =
           {[index |-> b.index, swing |-> b.swing, direction |-> b.direction,
             kind |-> KindAmong(Found(B, S), b)] : b \in Found(B, S)}
BY Zenon DEF DetectStructureBreaks, KindAmong, Found, BreakOf, Closes

(* Breaks of distinct swings, in order.                                    *)
Ordered(K) ==
  /\ \A b \in K : b.index \in Nat /\ b.swing.index \in Nat
  /\ \A b, c \in K : b.index = c.index /\ b.swing.index = c.swing.index => b = c

LEMMA EarlierOrders ==
  ASSUME NEW K, Ordered(K)
  PROVE  /\ \A b \in K : ~Earlier(b, b)
         /\ \A b, c \in K : b # c => Earlier(b, c) \/ Earlier(c, b)
         /\ \A b, c \in K : Earlier(b, c) => ~Earlier(c, b) /\ b # c
         /\ \A b, c, d \in K : Earlier(b, c) /\ Earlier(c, d) => Earlier(b, d)
<1>1. \A b \in K : b.index \in Nat /\ b.swing.index \in Nat
  BY DEF Ordered
<1>2. \A b \in K : ~Earlier(b, b)
  BY <1>1 DEF Earlier
<1>3. \A b, c \in K : b # c => Earlier(b, c) \/ Earlier(c, b)
  BY <1>1 DEF Earlier, Ordered
<1>4. \A b, c \in K : Earlier(b, c) => ~Earlier(c, b)
  BY <1>1 DEF Earlier
<1>5. \A b, c, d \in K : Earlier(b, c) /\ Earlier(c, d) => Earlier(b, d)
  BY <1>1 DEF Earlier
<1>6. QED
  BY <1>2, <1>3, <1>4, <1>5

IsLast(b, K) == b \in K /\ \A c \in K \ {b} : Earlier(c, b)

LEMMA LastIsOne ==
  ASSUME NEW K, Ordered(K), NEW b, NEW c, IsLast(b, K), IsLast(c, K)
  PROVE  b = c
BY EarlierOrders DEF IsLast

LEMMA LastOfBreaks ==
  ASSUME NEW K, Ordered(K), K # {}, NEW top \in Nat,
         \A b \in K : b.index <= top /\ b.swing.index <= top
  PROVE  IsLast(LastBreak(K), K)
<1> DEFINE T == {b.index : b \in K}
<1>1. \A b \in K : b.index \in Nat /\ b.swing.index \in Nat /\ b.index <= top /\ b.swing.index <= top
  BY DEF Ordered
<1>2. PICK last \in T : \A other \in T : other <= last
  <2>1. T \in SUBSET (0..top) /\ T # {}
    BY <1>1
  <2> HIDE DEF T
  <2>2. QED
    BY <2>1, GreatestNumber
<1> DEFINE U == {b.swing.index : b \in {c \in K : c.index = last}}
<1>3. PICK swing \in U : \A other \in U : other <= swing
  <2>1. U \in SUBSET (0..top) /\ U # {}
    BY <1>1, <1>2
  <2> HIDE DEF U
  <2>2. QED
    BY <2>1, GreatestNumber
<1>4. PICK b \in K : b.index = last /\ b.swing.index = swing
  BY <1>3
<1>5. ASSUME NEW c \in K \ {b} PROVE Earlier(c, b)
  <2>1. c.index <= b.index
    BY <1>2, <1>4
  <2>2. c.index = b.index => c.swing.index <= b.swing.index
    BY <1>3, <1>4
  <2>3. ~(c.index = b.index /\ c.swing.index = b.swing.index)
    BY <1>4 DEF Ordered
  <2>4. QED
    BY <1>1, <1>4, <2>1, <2>2, <2>3 DEF Earlier
<1>6. QED
  BY <1>4, <1>5, Zenon DEF LastBreak, IsLast

(* A set of breaks dresses the found ones when each of these has its kind  *)
(* once.                                                                   *)
Dresses(K, F) ==
  /\ \A b \in K : Bare(b) \in F
  /\ \A f \in F : \E b \in K : Bare(b) = f
  /\ \A b, c \in K : Bare(b) = Bare(c) => b = c

IsFirst(b, K) == b \in K /\ \A c \in K \ {b} : Earlier(b, c)

LEMMA EarlierIsBare ==
  \A b, c : Earlier(b, c) <=> Earlier(Bare(b), Bare(c))
BY DEF Earlier, Bare

LEMMA DressedEnds ==
  ASSUME NEW K, NEW F, Dresses(K, F), NEW b \in K
  PROVE  /\ IsFirst(b, K) <=> IsFirst(Bare(b), F)
         /\ IsLast(b, K) <=> IsLast(Bare(b), F)
<1>1. Bare(b) \in F
  BY DEF Dresses
<1>2. (\A c \in K \ {b} : Earlier(b, c)) <=> \A f \in F \ {Bare(b)} : Earlier(Bare(b), f)
  BY EarlierIsBare DEF Dresses
<1>3. (\A c \in K \ {b} : Earlier(c, b)) <=> \A f \in F \ {Bare(b)} : Earlier(f, Bare(b))
  BY EarlierIsBare DEF Dresses
<1>4. QED
  BY <1>1, <1>2, <1>3 DEF IsFirst, IsLast

LEMMA BatchDresses ==
  ASSUME NEW B, NEW S
  PROVE  Dresses(DetectStructureBreaks(B, S, Lookback), Found(B, S))
<1> DEFINE K == DetectStructureBreaks(B, S, Lookback)
           Clad(f) == [index |-> f.index, swing |-> f.swing, direction |-> f.direction,
                       kind |-> KindAmong(Found(B, S), f)]
<1>1. K = {Clad(f) : f \in Found(B, S)}
  BY BatchAre
<1>2. \A f \in Found(B, S) : Bare(Clad(f)) = f
  BY DEF Found, BreakOf, Bare
<1> HIDE DEF Clad, K
<1>3. QED
  BY <1>1, <1>2 DEF Dresses, K

Swung == bars \in Seq(Candles) /\ swings = DetectSwings(bars, Lookback)

Kinds == {"BOS", "CHOCH"}
BreakWith(B, s, kind) == [index |-> Min(Closes(B, s)), swing |-> s, direction |-> Way(s), kind |-> kind]

\* p is the break before b.
Precedes(p, b, K) == p \in K /\ Earlier(p, b) /\ \A q \in K : Earlier(q, b) => q = p \/ Earlier(q, p)

(* Of the swings so far each is pending or broken once, at its first close *)
(* beyond; the kind of a break follows from the one before it.             *)
Broken ==
  /\ pending = {s \in swings : Closes(bars, s) = {}}
  /\ \A b \in breaks : \E s \in swings, kind \in Kinds :
        Closes(bars, s) # {} /\ b = BreakWith(bars, s, kind)
  /\ \A s \in swings : Closes(bars, s) # {} => \E b \in breaks : b.swing = s
  /\ \A b, c \in breaks : b.swing = c.swing => b = c
  /\ \A b, p \in breaks : Precedes(p, b, breaks) => (b.kind = "BOS" <=> p.direction = b.direction)

Phased == breaks # {} => signature[2] = PhaseOf(swings, LastBreak(breaks).direction, bars[Len(bars)].close)

LEMMA ClosesFit ==
  ASSUME NEW B \in Seq(Candles), NEW s, s.index \in Nat
  PROVE  /\ Closes(B, s) \in SUBSET Nat /\ \A i \in Closes(B, s) : i <= Len(B) /\ i > s.index
         /\ Closes(B, s) # {} => /\ Min(Closes(B, s)) \in Closes(B, s)
                                 /\ Min(Closes(B, s)) \in Nat /\ Min(Closes(B, s)) <= Len(B)
                                 /\ \A i \in Closes(B, s) : Min(Closes(B, s)) <= i
<1>1. Closes(B, s) \in SUBSET Nat /\ \A i \in Closes(B, s) : i <= Len(B) /\ i > s.index
  BY DEF Closes
<1> DEFINE T == Closes(B, s)
<1>2. ASSUME T # {} PROVE Min(T) \in T /\ \A i \in T : Min(T) <= i
  <2> HIDE DEF T
  <2>1. QED
    BY <1>1, <1>2, LeastIsMin DEF T
<1>3. QED
  BY <1>1, <1>2

LEMMA BreakFields ==
  ASSUME Swung, Broken, NEW b \in breaks
  PROVE  /\ b.swing \in swings /\ Closes(bars, b.swing) # {} /\ b.index = Min(Closes(bars, b.swing))
         /\ b.direction = Way(b.swing) /\ b.kind \in Kinds
         /\ b = [index |-> b.index, swing |-> b.swing, direction |-> b.direction, kind |-> b.kind]
         /\ b.index \in Nat /\ b.index <= Len(bars)
         /\ b.swing.index \in Nat /\ b.swing.index <= Len(bars)
         /\ Bare(b) = BreakOf(bars, b.swing)
<1>1. PICK s \in swings, kind \in Kinds : Closes(bars, s) # {} /\ b = BreakWith(bars, s, kind)
  BY DEF Broken
<1>2. /\ b.swing = s /\ b.index = Min(Closes(bars, s)) /\ b.direction = Way(s) /\ b.kind = kind
      /\ b = [index |-> b.index, swing |-> b.swing, direction |-> b.direction, kind |-> b.kind]
  BY <1>1 DEF BreakWith
<1>3. s.index \in Nat /\ s.index + Lookback <= Len(bars)
  BY SwingFields DEF Swung
<1>4. Min(Closes(bars, s)) \in Nat /\ Min(Closes(bars, s)) <= Len(bars)
  BY <1>1, <1>3, ClosesFit DEF Swung
<1>5. s.index <= Len(bars)
  BY <1>3, StructureAssumption DEF Swung
<1>6. Bare(b) = BreakOf(bars, s)
  BY <1>2 DEF Bare, BreakOf
<1>7. QED
  BY <1>1, <1>2, <1>3, <1>4, <1>5, <1>6

LEMMA BreaksDress ==
  ASSUME Swung, Broken
  PROVE  Dresses(breaks, Found(bars, swings)) /\ Ordered(breaks)
<1>1. \A b \in breaks : Bare(b) \in Found(bars, swings)
  BY BreakFields DEF Found
<1>2. ASSUME NEW f \in Found(bars, swings) PROVE \E b \in breaks : Bare(b) = f
  <2>1. PICK s \in swings : Closes(bars, s) # {} /\ f = BreakOf(bars, s)
    BY DEF Found
  <2>2. PICK b \in breaks : b.swing = s
    BY <2>1 DEF Broken
  <2>3. QED
    BY <2>1, <2>2, BreakFields
<1>3. \A b, c \in breaks : Bare(b) = Bare(c) => b = c
  <2>1. \A b \in breaks : Bare(b).swing = b.swing
    BY DEF Bare
  <2>2. QED
    BY <2>1 DEF Broken
<1>4. ASSUME NEW b \in breaks, NEW c \in breaks, b.index = c.index, b.swing.index = c.swing.index
      PROVE  b = c
  <2>1. b.swing = c.swing
    BY <1>4, BreakFields, SwingByIndex DEF Swung
  <2>2. QED
    BY <2>1 DEF Broken
<1>5. QED
  BY <1>1, <1>2, <1>3, <1>4, BreakFields DEF Dresses, Ordered

LEMMA FoundIsOrdered ==
  ASSUME Swung
  PROVE  /\ Ordered(Found(bars, swings))
         /\ \A f \in Found(bars, swings) : f.index <= Len(bars) /\ f.swing.index <= Len(bars)
<1>1. ASSUME NEW f \in Found(bars, swings)
      PROVE  /\ f.swing \in swings /\ f = BreakOf(bars, f.swing)
             /\ f.index \in Nat /\ f.index <= Len(bars)
             /\ f.swing.index \in Nat /\ f.swing.index <= Len(bars)
  <2>1. PICK s \in swings : Closes(bars, s) # {} /\ f = BreakOf(bars, s)
    BY DEF Found
  <2>2. s.index \in Nat /\ s.index + Lookback <= Len(bars)
    BY SwingFields DEF Swung
  <2>3. Min(Closes(bars, s)) \in Nat /\ Min(Closes(bars, s)) <= Len(bars)
    BY <2>1, <2>2, ClosesFit DEF Swung
  <2>4. s.index <= Len(bars)
    BY <2>2, StructureAssumption DEF Swung
  <2>5. QED
    BY <2>1, <2>2, <2>3, <2>4 DEF BreakOf
<1>2. ASSUME NEW f \in Found(bars, swings), NEW g \in Found(bars, swings), f.swing.index = g.swing.index
      PROVE  f = g
  BY <1>1, <1>2, SwingByIndex DEF Swung
<1>3. QED
  BY <1>1, <1>2 DEF Ordered

(* The kind of every break but the first is that of the batch rule.        *)
LEMMA KindsAgree ==
  ASSUME Swung, Broken, NEW b \in breaks, NEW c \in breaks, Earlier(c, b)
  PROVE  b.kind = KindAmong(Found(bars, swings), Bare(b))
<1> DEFINE F == Found(bars, swings)
           before == {f \in F : Earlier(f, Bare(b))}
           last == LastBreak(before)
<1>1. Dresses(breaks, F) /\ Ordered(F) /\ \A f \in F : f.index <= Len(bars) /\ f.swing.index <= Len(bars)
  BY BreaksDress, FoundIsOrdered
<1>2. Bare(c) \in before
  BY <1>1, EarlierIsBare DEF Dresses
<1>3. IsLast(last, before)
  <2>1. Ordered(before) /\ before # {}
    BY <1>1, <1>2 DEF Ordered
  <2>2. Len(bars) \in Nat /\ \A f \in before : f.index <= Len(bars) /\ f.swing.index <= Len(bars)
    BY <1>1 DEF Swung
  <2> HIDE DEF before
  <2>3. QED
    BY <2>1, <2>2, LastOfBreaks
<1> HIDE DEF last
<1>4. PICK p \in breaks : Bare(p) = last
  BY <1>1, <1>3 DEF Dresses, IsLast
<1>5. Precedes(p, b, breaks)
  <2>1. Earlier(p, b)
    BY <1>3, <1>4, EarlierIsBare DEF IsLast
  <2>2. ASSUME NEW q \in breaks, Earlier(q, b) PROVE q = p \/ Earlier(q, p)
    <3>1. Bare(q) \in before
      BY <1>1, <2>2, EarlierIsBare DEF Dresses
    <3>2. Bare(q) = last \/ Earlier(Bare(q), last)
      BY <1>3, <3>1 DEF IsLast
    <3>3. QED
      BY <1>1, <1>4, <3>2, EarlierIsBare DEF Dresses
  <2>3. QED
    BY <2>1, <2>2 DEF Precedes
<1>6. b.kind = "BOS" <=> last.direction = Bare(b).direction
  <2>1. last.direction = p.direction /\ Bare(b).direction = b.direction
    BY <1>4 DEF Bare
  <2>2. QED
    BY <1>5, <2>1 DEF Broken
<1>7. KindAmong(F, Bare(b)) = IF before = {} \/ last.direction = Bare(b).direction THEN "BOS" ELSE "CHOCH"
  BY DEF KindAmong, last
<1>8. b.kind \in {"BOS", "CHOCH"} /\ before # {}
  BY <1>2, BreakFields DEF Kinds
<1> HIDE DEF before, F
<1>9. QED
  BY <1>6, <1>7, <1>8 DEF F

LEMMA StreamFollowsBatch ==
  ASSUME Swung, Broken, Phased PROVE StreamIsBatch
<1> DEFINE F == Found(bars, swings)
           batch == DetectStructureBreaks(bars, swings, Lookback)
           begin(K) == {b \in K : \A c \in K \ {b} : Earlier(b, c)}
<1>1. Dresses(breaks, F) /\ Ordered(breaks) /\ Dresses(batch, F) /\ Ordered(F)
  BY BreaksDress, BatchDresses, FoundIsOrdered
<1>2. /\ \A f \in F : f.index <= Len(bars) /\ f.swing.index <= Len(bars)
      /\ Len(bars) \in Nat
  BY FoundIsOrdered DEF Swung
<1>3. /\ \A b \in breaks : b = [index |-> b.index, swing |-> b.swing, direction |-> b.direction, kind |-> b.kind]
      /\ \A x \in batch : x = [index |-> x.index, swing |-> x.swing, direction |-> x.direction,
                               kind |-> KindAmong(F, Bare(x))]
  <2>1. ASSUME NEW x \in batch
        PROVE  x = [index |-> x.index, swing |-> x.swing, direction |-> x.direction,
                    kind |-> KindAmong(F, Bare(x))]
    <3>1. PICK f \in F : x = [index |-> f.index, swing |-> f.swing, direction |-> f.direction,
                              kind |-> KindAmong(F, f)]
      BY BatchAre
    <3>2. Bare(x) = f
      BY <3>1 DEF Bare, Found, BreakOf
    <3>3. QED
      BY <3>1, <3>2
  <2>2. QED
    BY <2>1, BreakFields
<1> HIDE DEF F, batch
<1>4. ASSUME NEW b \in breaks, NEW x \in batch, Bare(b) = Bare(x), ~IsFirst(b, breaks)
      PROVE  b = x
  <2>1. PICK c \in breaks : c # b /\ ~Earlier(b, c)
    BY <1>4 DEF IsFirst
  <2>2. Earlier(c, b)
    BY <1>1, <2>1, EarlierOrders
  <2>3. b.kind = KindAmong(F, Bare(x))
    BY <1>4, <2>2, KindsAgree DEF F
  <2>4. b.index = x.index /\ b.swing = x.swing /\ b.direction = x.direction
    BY <1>4 DEF Bare
  <2>5. QED
    BY <1>3, <2>3, <2>4
<1>5. \A b \in breaks, x \in batch : Bare(b) = Bare(x) => (IsFirst(b, breaks) <=> IsFirst(x, batch))
  BY <1>1, DressedEnds
<1>6. \A K, b : b \in begin(K) <=> IsFirst(b, K)
  BY DEF IsFirst
<1> HIDE DEF begin
<1>7. breaks \ begin(breaks) = batch \ begin(batch)
  <2>1. ASSUME NEW b \in breaks, ~IsFirst(b, breaks) PROVE b \in batch /\ ~IsFirst(b, batch)
    <3>1. PICK x \in batch : Bare(x) = Bare(b)
      BY <1>1 DEF Dresses
    <3>2. QED
      BY <1>4, <1>5, <2>1, <3>1
  <2>2. ASSUME NEW x \in batch, ~IsFirst(x, batch) PROVE x \in breaks /\ ~IsFirst(x, breaks)
    <3>1. PICK b \in breaks : Bare(x) = Bare(b)
      BY <1>1 DEF Dresses
    <3>2. QED
      BY <1>4, <1>5, <2>2, <3>1
  <2>3. \A b : b \in breaks \ begin(breaks) <=> b \in batch \ begin(batch)
    BY <1>6, <2>1, <2>2
  <2>4. QED
    BY <2>3
<1>8. {b.swing : b \in begin(breaks)} = {b.swing : b \in begin(batch)}
  <2>1. \A b, x : Bare(b) = Bare(x) => b.swing = x.swing
    BY DEF Bare
  <2>2. ASSUME NEW b \in begin(breaks) PROVE \E x \in begin(batch) : b.swing = x.swing
    <3>1. b \in breaks /\ IsFirst(b, breaks)
      BY <1>6 DEF IsFirst
    <3>2. PICK x \in batch : Bare(x) = Bare(b)
      BY <1>1, <3>1 DEF Dresses
    <3>3. QED
      BY <1>5, <1>6, <2>1, <3>1, <3>2
  <2>3. ASSUME NEW x \in begin(batch) PROVE \E b \in begin(breaks) : b.swing = x.swing
    <3>1. x \in batch /\ IsFirst(x, batch)
      BY <1>6 DEF IsFirst
    <3>2. PICK b \in breaks : Bare(x) = Bare(b)
      BY <1>1, <3>1 DEF Dresses
    <3>3. QED
      BY <1>5, <1>6, <2>1, <3>1, <3>2
  <2>4. \A s : s \in {b.swing : b \in begin(breaks)} <=> s \in {b.swing : b \in begin(batch)}
    BY <2>2, <2>3
  <2>5. QED
    BY <2>4
<1>9. ASSUME breaks # {}
      PROVE  signature[2] = Classify(bars, swings, batch, Len(bars))
  <2>1. IsLast(LastBreak(breaks), breaks)
    <3>1. \A b \in breaks : b.index <= Len(bars) /\ b.swing.index <= Len(bars)
      BY BreakFields
    <3>2. QED
      BY <1>1, <1>2, <1>9, <3>1, LastOfBreaks
  <2>2. /\ batch # {} /\ Ordered(batch)
        /\ \A x \in batch : x.index <= Len(bars) /\ x.swing.index <= Len(bars)
    <3>1. \A x \in batch : x.index = Bare(x).index /\ x.swing = Bare(x).swing /\ Bare(x) \in F
      BY <1>1 DEF Bare, Dresses
    <3>2. \A x, y \in batch : Bare(x) = Bare(y) => x = y
      BY <1>1 DEF Dresses
    <3>3. Ordered(batch)
      BY <1>1, <3>1, <3>2 DEF Ordered
    <3>4. batch # {}
      BY <1>1, <1>9 DEF Dresses
    <3>5. QED
      BY <1>2, <3>1, <3>3, <3>4
  <2>3. IsLast(LastBreak(batch), batch)
    BY <1>2, <2>2, LastOfBreaks
  <2>4. Bare(LastBreak(breaks)) = Bare(LastBreak(batch))
    <3>1. IsLast(Bare(LastBreak(breaks)), F) /\ IsLast(Bare(LastBreak(batch)), F)
      BY <1>1, <2>1, <2>3, DressedEnds DEF IsLast
    <3>2. QED
      BY <1>1, <3>1, LastIsOne
  <2>5. LastBreak(breaks).direction = LastBreak(batch).direction
    BY <2>4 DEF Bare
  <2>6. {b \in batch : b.index <= Len(bars)} = batch
    BY <2>2
  <2>7. {s \in swings : s.index <= Len(bars)} = swings
    <3>1. \A s \in swings : s.index \in Nat /\ s.index + Lookback <= Len(bars)
      BY SwingFields DEF Swung
    <3>2. \A s \in swings : s.index <= Len(bars)
      BY <1>2, <3>1, StructureAssumption
    <3>3. QED
      BY <3>2
  <2>8. Classify(bars, swings, batch, Len(bars)) =
          PhaseOf(swings, LastBreak(batch).direction, bars[Len(bars)].close)
    BY <2>2, <2>6, <2>7 DEF Classify
  <2>9. QED
    BY <1>9, <2>5, <2>8 DEF Phased
<1>10. QED
  BY <1>7, <1>8, <1>9 DEF StreamIsBatch, Swung, batch, begin

(* A candle more.                                                          *)
LEMMA SwungStep ==
  ASSUME Swung, NEW c \in Candles, Push(c)
  PROVE  /\ bars' = Append(bars, c) /\ bars' \in Seq(Candles) /\ Len(bars') = Len(bars) + 1
         /\ bars'[Len(bars) + 1] = c /\ \A k \in 1..Len(bars) : bars'[k] = bars[k]
         /\ swings' = swings \cup Confirmed(bars') /\ Swung'
         /\ \A s \in swings : s.index \in Nat /\ s.index + Lookback <= Len(bars) /\ s.index < Len(bars) + 1
         /\ \A s \in Confirmed(bars') : /\ s.index \in Nat /\ s.index + Lookback = Len(bars) + 1
                                        /\ s.index < Len(bars) + 1
<1>1. Lookback \in Nat \ {0} /\ bars \in Seq(Candles) /\ Len(bars) \in Nat
  BY StructureAssumption DEF Swung
<1>2. bars' = Append(bars, c) /\ swings' = swings \cup Confirmed(bars')
  BY DEF Push
<1>3. /\ bars' \in Seq(Candles) /\ Len(bars') = Len(bars) + 1
      /\ bars'[Len(bars) + 1] = c /\ \A k \in 1..Len(bars) : bars'[k] = bars[k]
  BY <1>1, <1>2
<1>4. /\ DetectSwings(bars', Lookback) = swings \cup Confirmed(bars')
      /\ \A s \in Confirmed(bars') : s.index + Lookback = Len(bars) + 1
  BY <1>1, <1>2, SwingsGrow DEF Swung
<1>5. Swung'
  BY <1>2, <1>3, <1>4 DEF Swung
<1>6. ASSUME NEW s \in swings
      PROVE  s.index \in Nat /\ s.index + Lookback <= Len(bars) /\ s.index < Len(bars) + 1
  <2>1. s.index \in Nat /\ s.index + Lookback <= Len(bars)
    BY <1>1, SwingFields DEF Swung
  <2>2. QED
    BY <1>1, <2>1
<1>7. ASSUME NEW s \in Confirmed(bars')
      PROVE  s.index \in Nat /\ s.index + Lookback = Len(bars) + 1 /\ s.index < Len(bars) + 1
  <2>1. s.index \in Nat /\ s.index + Lookback = Len(bars) + 1
    <3>1. s \in DetectSwings(bars', Lookback)
      BY <1>4
    <3>2. QED
      BY <1>3, <1>4, <3>1, SwingFields
  <2>2. QED
    BY <1>1, <2>1
<1>8. QED
  BY <1>2, <1>3, <1>5, <1>6, <1>7

(* What it does to the closes beyond each swing.                           *)
LEMMA ClosesStep ==
  ASSUME Swung, NEW c \in Candles, Push(c), NEW s \in swings'
  PROVE  /\ Closes(bars', s) = Closes(bars, s) \cup (IF Beyond(s, c.close) THEN {Len(bars) + 1} ELSE {})
         /\ s \notin swings => Closes(bars, s) = {}
         /\ Closes(bars, s) # {} => Min(Closes(bars', s)) = Min(Closes(bars, s))
         /\ Closes(bars, s) = {} /\ Beyond(s, c.close) => Min(Closes(bars', s)) = Len(bars) + 1
<1> DEFINE i == Len(bars) + 1
<1>1. /\ bars \in Seq(Candles) /\ Len(bars) \in Nat /\ i \in Nat /\ Lookback \in Nat \ {0}
      /\ DOMAIN bars = 1..Len(bars) /\ DOMAIN bars' = 1..i
      /\ bars'[i] = c /\ \A k \in 1..Len(bars) : bars'[k] = bars[k]
  BY SwungStep, StructureAssumption DEF Swung
<1>2. s.index \in Nat /\ s.index < i /\ s.index + Lookback <= i
  <2>1. CASE s \in swings
    BY <1>1, <2>1, SwungStep
  <2>2. CASE s \in Confirmed(bars')
    BY <1>1, <2>2, SwungStep
  <2>3. QED
    BY <2>1, <2>2, SwungStep
<1>3. \A k : k \in 1..i <=> k \in 1..Len(bars) \/ k = i
  BY <1>1
<1>4. \A k : k \in Closes(bars', s) <=> k \in Closes(bars, s) \/ (k = i /\ Beyond(s, c.close))
  BY <1>1, <1>2, <1>3 DEF Closes
<1>5. Closes(bars', s) = Closes(bars, s) \cup (IF Beyond(s, c.close) THEN {i} ELSE {})
  BY <1>4
<1>6. s \notin swings => Closes(bars, s) = {}
  <2>1. s \notin swings => s.index + Lookback = i
    BY SwungStep
  <2>2. QED
    BY <1>1, <2>1 DEF Closes
<1>7. ASSUME Closes(bars, s) # {} PROVE Min(Closes(bars', s)) = Min(Closes(bars, s))
  <2>1. /\ Min(Closes(bars, s)) \in Closes(bars, s) /\ Min(Closes(bars, s)) \in Nat
        /\ Min(Closes(bars, s)) <= Len(bars) /\ \A k \in Closes(bars, s) : Min(Closes(bars, s)) <= k
    BY <1>1, <1>2, <1>7, ClosesFit
  <2>2. Min(Closes(bars', s)) \in Closes(bars', s) /\ \A k \in Closes(bars', s) : Min(Closes(bars', s)) <= k
        /\ Min(Closes(bars', s)) \in Nat
    <3>1. bars' \in Seq(Candles) /\ Closes(bars', s) # {}
      BY <1>5, <1>7, SwungStep
    <3>2. QED
      BY <1>2, <3>1, ClosesFit
  <2>3. Min(Closes(bars, s)) < i
    BY <1>1, <2>1
  <2>4. Min(Closes(bars', s)) <= Min(Closes(bars, s))
    BY <1>5, <2>1, <2>2
  <2>5. Min(Closes(bars', s)) \in Closes(bars, s)
    BY <1>1, <1>4, <2>1, <2>2, <2>3, <2>4
  <2>6. QED
    BY <2>1, <2>2, <2>4, <2>5
<1>8. ASSUME Closes(bars, s) = {}, Beyond(s, c.close) PROVE Min(Closes(bars', s)) = i
  <2>1. Closes(bars', s) = {i}
    BY <1>5, <1>8
  <2>2. {i} \in SUBSET Nat /\ {i} # {}
    BY <1>1
  <2>3. Min({i}) \in {i}
    BY <2>2, LeastIsMin
  <2>4. QED
    BY <2>1, <2>3
<1>9. QED
  BY <1>5, <1>6, <1>7, <1>8

(* The swings a candle breaks, and the breaks they give.                   *)
Crossed(c) == {s \in swings' : Closes(bars, s) = {} /\ Beyond(s, c.close)}
Fresh(c) == NewBreaks(swings', Crossed(c), Len(bars) + 1)

LEMMA PushBreaks ==
  ASSUME Swung, Broken, NEW c \in Candles, Push(c)
  PROVE  /\ pending' = {s \in swings' : Closes(bars', s) = {}}
         /\ breaks' = breaks \cup Fresh(c)
         /\ {s \in pending \cup Confirmed(bars') : s.index < Len(bars) + 1 /\ Beyond(s, c.close)} = Crossed(c)
<1> DEFINE new == Confirmed(bars')
           S == swings \cup new
           crossed == {s \in pending \cup new : s.index < Len(bars') /\ Beyond(s, c.close)}
<1>1. Len(bars') = Len(bars) + 1 /\ swings' = S
  BY SwungStep
<1>2. \A s \in S : s.index < Len(bars')
  BY <1>1, SwungStep
<1>3. pending = {s \in swings : Closes(bars, s) = {}}
  BY DEF Broken
<1>4. \A s \in S : s \notin swings => Closes(bars, s) = {}
  BY <1>1, ClosesStep
<1>5. new \subseteq swings' /\ \A s \in new : Closes(bars, s) = {}
  <2>1. ASSUME NEW s \in new PROVE Closes(bars, s) = {}
    <3>1. CASE s \in swings
      <4>1. s.index + Lookback <= Len(bars) /\ s.index + Lookback = Len(bars) + 1 /\ Len(bars) \in Nat
        BY <3>1, SwungStep DEF Swung
      <4>2. QED
        BY <4>1
    <3>2. CASE s \notin swings
      BY <1>4, <3>2
    <3>3. QED
      BY <3>1, <3>2
  <2>2. QED
    BY <1>1, <2>1
<1>6. pending \cup new = {s \in S : Closes(bars, s) = {}}
  BY <1>1, <1>3, <1>4, <1>5
<1>7. crossed = Crossed(c)
  BY <1>1, <1>2, <1>6 DEF Crossed
<1>8. (pending \cup new) \ crossed = {s \in S : Closes(bars', s) = {}}
  <2>1. \A s \in S : Closes(bars', s) = {} <=> Closes(bars, s) = {} /\ ~Beyond(s, c.close)
    BY <1>1, ClosesStep
  <2>2. QED
    BY <1>1, <1>6, <1>7, <2>1 DEF Crossed
<1>9. bars' = Append(bars, c)
  BY DEF Push
<1>10. pending' = (pending \cup new) \ crossed /\ breaks' = breaks \cup NewBreaks(S, crossed, Len(bars'))
  BY <1>9 DEF Push
<1>11. QED
  BY <1>1, <1>7, <1>8, <1>10 DEF Fresh

\* The trend against which a swing is broken.
TrendBefore(c, s) ==
  LET before == {r \in Crossed(c) : r.index < s.index}
  IN IF before = {} THEN GetTrendDirection(swings', breaks) ELSE Way(Latest(before))

LEMMA FreshAre ==
  ASSUME NEW c
  PROVE  Fresh(c) =
           {[index |-> Len(bars) + 1, swing |-> s, direction |-> Way(s),
             kind |-> IF TrendBefore(c, s) \in {0, Way(s)} THEN "BOS" ELSE "CHOCH"] : s \in Crossed(c)}
BY Zenon DEF Fresh, NewBreaks, TrendBefore

LEMMA FreshFields ==
  ASSUME Swung, NEW c \in Candles, Push(c)
  PROVE  /\ \A b \in Fresh(c) :
              /\ b.swing \in Crossed(c) /\ b.index = Len(bars) + 1 /\ b.direction = Way(b.swing)
              /\ b.kind \in Kinds /\ (b.kind = "BOS" <=> TrendBefore(c, b.swing) \in {0, Way(b.swing)})
              /\ b = BreakWith(bars', b.swing, b.kind)
         /\ \A s \in Crossed(c) : \E b \in Fresh(c) : b.swing = s
         /\ \A b, d \in Fresh(c) : b.swing = d.swing => b = d
<1> DEFINE Kind(s) == IF TrendBefore(c, s) \in {0, Way(s)} THEN "BOS" ELSE "CHOCH"
           One(s) == [index |-> Len(bars) + 1, swing |-> s, direction |-> Way(s), kind |-> Kind(s)]
<1>1. Fresh(c) = {One(s) : s \in Crossed(c)}
  BY FreshAre
<1>2. \A s \in Crossed(c) : Min(Closes(bars', s)) = Len(bars) + 1
  BY ClosesStep DEF Crossed
<1>3. ASSUME NEW s \in Crossed(c)
      PROVE  /\ One(s).swing = s /\ One(s).index = Len(bars) + 1 /\ One(s).direction = Way(s)
             /\ One(s).kind \in Kinds /\ (One(s).kind = "BOS" <=> TrendBefore(c, s) \in {0, Way(s)})
             /\ One(s) = BreakWith(bars', s, One(s).kind)
  BY <1>2 DEF Kinds, BreakWith
<1> HIDE DEF One
<1>4. QED
  BY <1>1, <1>3

LEMMA LatestOf ==
  ASSUME NEW X, NEW r \in X, \A s \in X : s.index <= r.index,
         \A s \in X : r.index <= s.index => s = r
  PROVE  Latest(X) = r
<1>1. \A s \in X : (\A t \in X : t.index <= s.index) <=> s = r
  OBVIOUS
<1>2. QED
  BY <1>1, Zenon DEF Latest

LEMMA WayIs == \A s : Way(s) \in {1, -1} /\ Way(s) # 0
BY DEF Way

LEMMA BrokenStep ==
  ASSUME Swung, Broken, NEW c \in Candles, Push(c)
  PROVE  Broken'
<1> DEFINE i == Len(bars) + 1
<1>1. /\ Len(bars) \in Nat /\ i \in Nat
      /\ swings \subseteq swings' /\ \A s \in swings' : s.index \in Nat
  BY SwungStep DEF Swung
<1>2. breaks' = breaks \cup Fresh(c) /\ pending' = {s \in swings' : Closes(bars', s) = {}}
  BY PushBreaks
<1>3. ASSUME NEW b \in breaks
      PROVE  /\ b.swing \in swings' /\ Closes(bars, b.swing) # {} /\ Closes(bars', b.swing) # {}
             /\ b = BreakWith(bars', b.swing, b.kind) /\ b.kind \in Kinds
             /\ b.index \in Nat /\ b.index < i
  <2>1. /\ b.swing \in swings /\ Closes(bars, b.swing) # {} /\ b.index = Min(Closes(bars, b.swing))
        /\ b.direction = Way(b.swing) /\ b.kind \in Kinds
        /\ b = [index |-> b.index, swing |-> b.swing, direction |-> b.direction, kind |-> b.kind]
        /\ b.index \in Nat /\ b.index <= Len(bars)
    BY BreakFields
  <2>2. Min(Closes(bars', b.swing)) = Min(Closes(bars, b.swing)) /\ Closes(bars', b.swing) # {}
    BY <1>1, <2>1, ClosesStep
  <2>3. b.index < i
    BY <1>1, <2>1
  <2>4. QED
    BY <1>1, <2>1, <2>2, <2>3 DEF BreakWith
<1>4. ASSUME NEW b \in Fresh(c)
      PROVE  /\ b.swing \in swings' /\ Closes(bars, b.swing) = {} /\ Closes(bars', b.swing) # {}
             /\ b = BreakWith(bars', b.swing, b.kind) /\ b.kind \in Kinds
             /\ b.index = i
  <2>1. b.swing \in Crossed(c) /\ b.index = i /\ b.kind \in Kinds /\ b = BreakWith(bars', b.swing, b.kind)
    BY FreshFields
  <2>2. b.swing \in swings' /\ Closes(bars, b.swing) = {} /\ Beyond(b.swing, c.close)
    BY <2>1 DEF Crossed
  <2>3. Closes(bars', b.swing) # {}
    BY <2>2, ClosesStep
  <2>4. QED
    BY <2>1, <2>2, <2>3
<1>5. \A b \in breaks' : \E s \in swings', kind \in Kinds :
        Closes(bars', s) # {} /\ b = BreakWith(bars', s, kind)
  <2>1. ASSUME NEW b \in breaks \cup Fresh(c)
        PROVE  b.swing \in swings' /\ b.kind \in Kinds /\ Closes(bars', b.swing) # {}
               /\ b = BreakWith(bars', b.swing, b.kind)
    BY <1>3, <1>4
  <2>2. QED
    BY <1>2, <2>1
<1>6. ASSUME NEW s \in swings', Closes(bars', s) # {} PROVE \E b \in breaks' : b.swing = s
  <2>1. CASE Closes(bars, s) # {}
    <3>1. s \in swings
      BY <2>1, ClosesStep
    <3>2. QED
      BY <1>2, <2>1, <3>1 DEF Broken
  <2>2. CASE Closes(bars, s) = {}
    <3>1. s \in Crossed(c)
      BY <1>6, <2>2, ClosesStep DEF Crossed
    <3>2. QED
      BY <1>2, <3>1, FreshFields
  <2>3. QED
    BY <2>1, <2>2
<1>7. ASSUME NEW b \in breaks', NEW d \in breaks', b.swing = d.swing PROVE b = d
  <2>1. CASE b \in breaks /\ d \in breaks
    BY <1>7, <2>1 DEF Broken
  <2>2. CASE b \in Fresh(c) /\ d \in Fresh(c)
    BY <1>7, <2>2, FreshFields
  <2>3. QED
    BY <1>2, <1>3, <1>4, <1>7, <2>1, <2>2
<1>8. ASSUME NEW b \in breaks', NEW p \in breaks', Precedes(p, b, breaks')
      PROVE  b.kind = "BOS" <=> p.direction = b.direction
  <2>1. p.index <= b.index /\ p.index \in Nat /\ b.index \in Nat
    <3>1. p.index \in Nat /\ b.index \in Nat
      BY <1>1, <1>2, <1>3, <1>4
    <3>2. QED
      BY <1>8, <3>1 DEF Precedes, Earlier
  <2>2. CASE b \in breaks
    <3>1. p \in breaks
      BY <1>1, <1>2, <1>3, <1>4, <2>1, <2>2
    <3>2. Precedes(p, b, breaks)
      BY <1>2, <1>8, <3>1 DEF Precedes
    <3>3. QED
      BY <2>2, <3>1, <3>2 DEF Broken
  <2>3. CASE b \in Fresh(c)
    <3> DEFINE s == b.swing
               before == {r \in Crossed(c) : r.index < s.index}
    <3>1. /\ b.index = i /\ b.direction = Way(s) /\ (b.kind = "BOS" <=> TrendBefore(c, s) \in {0, Way(s)})
          /\ s \in swings' /\ s.index \in Nat
      BY <1>1, <1>4, <2>3, FreshFields
    <3>2. CASE p \in Fresh(c)
      <4>1. p.index = i /\ p.swing \in Crossed(c) /\ p.direction = Way(p.swing) /\ p.swing \in swings'
        BY <1>4, <3>2, FreshFields
      <4>2. p.swing \in before
        BY <1>1, <1>8, <3>1, <4>1 DEF Precedes, Earlier
      <4>3. ASSUME NEW r \in before PROVE r = p.swing \/ r.index < p.swing.index
        <5>1. PICK q \in Fresh(c) : q.swing = r
          BY FreshFields
        <5>2. q.index = i
          BY <1>4
        <5>3. Earlier(q, b)
          BY <3>1, <5>1, <5>2 DEF Earlier
        <5>4. q = p \/ Earlier(q, p)
          BY <1>2, <1>8, <5>3 DEF Precedes
        <5>5. Earlier(q, p) => q.swing.index < p.swing.index
          BY <1>1, <4>1, <5>2 DEF Earlier
        <5>6. QED
          BY <5>1, <5>4, <5>5
      <4>4. \A r \in before : r.index \in Nat
        BY <1>1 DEF Crossed
      <4> HIDE DEF before
      <4>5. Latest(before) = p.swing
        <5>1. \A r \in before : r.index <= p.swing.index
          BY <4>2, <4>3, <4>4
        <5>2. \A r \in before : p.swing.index <= r.index => r = p.swing
          BY <4>2, <4>3, <4>4
        <5>3. QED
          BY <4>2, <5>1, <5>2, LatestOf
      <4>6. TrendBefore(c, s) = Way(p.swing)
        BY <4>2, <4>5 DEF TrendBefore, before
      <4>7. QED
        BY <3>1, <4>1, <4>6, WayIs
    <3>3. CASE p \in breaks
      <4>1. before = {}
        <5>1. ASSUME NEW r \in before PROVE FALSE
          <6>1. PICK q \in Fresh(c) : q.swing = r
            BY FreshFields
          <6>2. q.index = i /\ p.index < i /\ p.index \in Nat
            BY <1>3, <1>4, <3>3
          <6>3. Earlier(q, b)
            BY <3>1, <6>1, <6>2 DEF Earlier
          <6>4. q = p \/ Earlier(q, p)
            BY <1>2, <1>8, <6>3 DEF Precedes
          <6>5. QED
            BY <1>1, <6>2, <6>4 DEF Earlier
        <5>2. QED
          BY <5>1
      <4>2. TrendBefore(c, s) = LastBreak(breaks).direction
        BY <3>3, <4>1 DEF TrendBefore, GetTrendDirection
      <4>3. IsLast(LastBreak(breaks), breaks)
        <5>1. Ordered(breaks) /\ \A d \in breaks : d.index <= Len(bars) /\ d.swing.index <= Len(bars)
          BY BreaksDress, BreakFields
        <5>2. QED
          BY <1>1, <3>3, <5>1, LastOfBreaks
      <4>4. LastBreak(breaks) = p
        <5> DEFINE l == LastBreak(breaks)
        <5>1. l \in breaks /\ (p = l \/ Earlier(p, l))
          BY <3>3, <4>3 DEF IsLast
        <5>2. Earlier(l, b)
          BY <1>3, <3>1, <5>1 DEF Earlier
        <5>3. l = p \/ Earlier(l, p)
          BY <1>2, <1>8, <5>1, <5>2 DEF Precedes
        <5>4. ~(Earlier(l, p) /\ Earlier(p, l))
          BY <3>3, <5>1, BreaksDress, EarlierOrders
        <5>5. QED
          BY <5>1, <5>3, <5>4
      <4>5. p.direction = Way(p.swing)
        BY <3>3, BreakFields
      <4>6. QED
        BY <3>1, <4>2, <4>4, <4>5, WayIs
    <3>4. QED
      BY <1>2, <3>2, <3>3
  <2>4. QED
    BY <1>2, <2>2, <2>3
<1>9. QED
  BY <1>2, <1>5, <1>6, <1>7, <1>8 DEF Broken

LEMMA PhasedStep ==
  ASSUME Swung, Broken, NEW c \in Candles, Push(c)
  PROVE  Phased'
<1> DEFINE trend == GetTrendDirection(swings', breaks \cup Fresh(c))
<1>1. bars'[Len(bars')] = c /\ breaks' = breaks \cup Fresh(c)
  BY SwungStep, PushBreaks
<1>2. signature'[2] = PhaseOf(swings', trend, c.close)
  <2> DEFINE new == Confirmed(bars')
             S == swings \cup new
             crossed == {s \in pending \cup new : s.index < Len(bars') /\ Beyond(s, c.close)}
  <2>1. bars' = Append(bars, c) /\ Len(bars') = Len(bars) + 1 /\ swings' = S
    BY SwungStep
  <2>2. crossed = Crossed(c)
    BY <2>1, PushBreaks
  <2>3. signature'[2] = PhaseOf(S, GetTrendDirection(S, breaks \cup NewBreaks(S, crossed, Len(bars'))), c.close)
    BY <2>1 DEF Push
  <2>4. QED
    BY <2>1, <2>2, <2>3 DEF Fresh
<1>3. breaks' # {} => trend = LastBreak(breaks').direction
  BY <1>1 DEF GetTrendDirection
<1>4. QED
  BY <1>1, <1>2, <1>3 DEF Phased

(***************************************************************************)
(* MarketStructure: zones                                                  *)
(***************************************************************************)
FormedIn(B, K) == (UNION {FairValueGaps(B, i) : i \in DOMAIN B}) \cup OrderBlocks(B, K, Leg)
Standing(B, Z) == {z \in Z : \A k \in z.id[2]..Len(B) : ~ClosedThrough(z, B[k])}

KnownAt(S, k) == {s \in S : s.index + Lookback <= k}
SeenAt(S, k) ==
  IF KnownAt(S, k) = KnownAt(S, k - 1) THEN {}
  ELSE LiquidityPools(LastSwings(KnownAt(S, k), PoolWindow), Tolerance)
SeenBy(S, length) == UNION {SeenAt(S, k) : k \in 1..length}
FirstSeen(S, length, p) == Min({k \in 1..length : p \in SeenAt(S, k)})
Intact(B, S, p) ==
  LET begin == FirstSeen(S, Len(B), p)
  IN /\ ~Passed(p, B[begin].close, B[begin].close)
     /\ \A k \in (begin + 1)..Len(B) : ~Passed(p, B[k].low, B[k].high)
Lasting(B, S) == {p \in SeenBy(S, Len(B)) : Intact(B, S, p)}

Zoned ==
  /\ zones = Standing(bars, FormedIn(bars, breaks)) \cup Lasting(bars, swings)
  /\ seenPools = {p.id : p \in SeenBy(swings, Len(bars))}

(* What the zones of each kind look like.                                  *)
LEMMA GapFields ==
  ASSUME NEW B, NEW i, NEW z \in FairValueGaps(B, i)
  PROVE  z.id = <<"FVG", i, i, {}>> /\ z.id[2] = i /\ z.direction \in {1, -1}
BY DEF FairValueGaps, Zone

OpposingOf(B, b) ==
  {j \in DOMAIN B : /\ j < b.index /\ j >= b.index - Leg
                    /\ IF b.direction > 0 THEN B[j].close < B[j].open ELSE B[j].close > B[j].open}
BlockOf(B, b) ==
  LET j == Max(OpposingOf(B, b))
  IN Zone(<<"OB", b.index, j, {}>>, b.direction, B[j].low, B[j].high)

LEMMA BlocksAre ==
  ASSUME NEW B, NEW K
  PROVE  OrderBlocks(B, K, Leg) = {BlockOf(B, b) : b \in {d \in K : OpposingOf(B, d) # {}}}
BY Zenon DEF OrderBlocks, BlockOf, OpposingOf

LEMMA BlockFields ==
  ASSUME NEW B, NEW b
  PROVE  BlockOf(B, b).id[2] = b.index /\ BlockOf(B, b).direction = b.direction
BY DEF BlockOf, Zone

(* The blocks of a batch are those of the breaks it dresses.               *)
LEMMA BlocksOfBare ==
  ASSUME NEW B, NEW K, NEW J, NEW F, Dresses(K, F), Dresses(J, F)
  PROVE  OrderBlocks(B, K, Leg) = OrderBlocks(B, J, Leg)
<1>1. ASSUME NEW X, NEW Y, Dresses(X, F), Dresses(Y, F)
      PROVE  OrderBlocks(B, X, Leg) \subseteq OrderBlocks(B, Y, Leg)
  <2>1. ASSUME NEW b \in X PROVE \E d \in Y : b.index = d.index /\ b.direction = d.direction
    <3>1. PICK d \in Y : Bare(d) = Bare(b)
      BY <1>1 DEF Dresses
    <3>2. QED
      BY <3>1 DEF Bare
  <2>2. \A b, d : b.index = d.index /\ b.direction = d.direction =>
          OpposingOf(B, b) = OpposingOf(B, d) /\ BlockOf(B, b) = BlockOf(B, d)
    <3>1. ASSUME NEW b, NEW d, b.index = d.index, b.direction = d.direction
          PROVE  OpposingOf(B, b) = OpposingOf(B, d)
      BY <3>1 DEF OpposingOf
    <3>2. QED
      BY <3>1, Zenon DEF BlockOf
  <2>3. QED
    BY <2>1, <2>2, BlocksAre
<1>2. OrderBlocks(B, K, Leg) \subseteq OrderBlocks(B, J, Leg) /\ OrderBlocks(B, J, Leg) \subseteq OrderBlocks(B, K, Leg)
  BY <1>1
<1>3. QED
  BY <1>2

LEMMA PoolFields ==
  ASSUME NEW kind, NEW C
  PROVE  Pool(kind, C).id = <<kind, 0, 0, {s.index : s \in C}>> /\ Pool(kind, C).direction = 0
BY DEF Pool, Zone

LEMMA PoolsAre ==
  ASSUME NEW S, NEW p \in LiquidityPools(S, Tolerance)
  PROVE  \E kind \in {"EQH", "EQL"}, C \in SUBSET S : p = Pool(kind, C)
BY DEF LiquidityPools, OfType

LEMMA SeenArePools ==
  ASSUME NEW S, NEW k, NEW p \in SeenAt(S, k)
  PROVE  \E kind \in {"EQH", "EQL"}, C \in SUBSET S : p = Pool(kind, C)
<1> DEFINE T == LastSwings(KnownAt(S, k), PoolWindow)
<1>1. T \subseteq S
  BY DEF LastSwings, KnownAt
<1>2. p \in LiquidityPools(T, Tolerance)
  BY DEF SeenAt
<1> HIDE DEF T
<1>3. PICK kind \in {"EQH", "EQL"}, C \in SUBSET T : p = Pool(kind, C)
  BY <1>2, PoolsAre
<1>4. QED
  BY <1>1, <1>3

(* Pools of swings told apart by their index are told apart by their name. *)
LEMMA PoolById ==
  ASSUME NEW S, \A s, r \in S : s.index = r.index => s = r,
         NEW j, NEW k, NEW p \in SeenAt(S, j), NEW q \in SeenAt(S, k), p.id = q.id
  PROVE  p = q
<1>1. PICK a \in {"EQH", "EQL"}, C \in SUBSET S : p = Pool(a, C)
  BY SeenArePools
<1>2. PICK b \in {"EQH", "EQL"}, D \in SUBSET S : q = Pool(b, D)
  BY SeenArePools
<1>3. <<a, 0, 0, {s.index : s \in C}>> = <<b, 0, 0, {s.index : s \in D}>>
  BY <1>1, <1>2, PoolFields
<1>4. a = b /\ {s.index : s \in C} = {s.index : s \in D}
  BY <1>3
<1>5. \A X, Y \in SUBSET S : {s.index : s \in X} \subseteq {s.index : s \in Y} => X \subseteq Y
  OBVIOUS
<1>6. C \subseteq D
  BY <1>4, <1>5
<1>7. D \subseteq C
  BY <1>4, <1>5
<1>8. C = D
  BY <1>6, <1>7
<1>9. QED
  BY <1>1, <1>2, <1>4, <1>8

LEMMA SeenIsAPool ==
  ASSUME NEW S, NEW k, NEW p \in SeenAt(S, k)
  PROVE  p.direction = 0
<1>1. \E a \in {"EQH", "EQL"}, C \in SUBSET S : p = Pool(a, C)
  BY SeenArePools
<1>2. QED
  BY <1>1, PoolFields

(* A candle more: gaps and blocks.                                         *)
LEMMA EarlierGaps ==
  ASSUME NEW A, NEW B, NEW i \in Nat, \A k \in 1..i : A[k] = B[k]
  PROVE  FairValueGaps(A, i) = FairValueGaps(B, i)
<1>1. CASE i < 3
  BY <1>1 DEF FairValueGaps
<1>2. CASE ~(i < 3)
  <2>1. i \in 1..i /\ i - 2 \in 1..i
    BY <1>2
  <2>2. A[i] = B[i] /\ A[i - 2] = B[i - 2]
    BY <2>1
  <2>3. QED
    BY <2>2 DEF FairValueGaps
<1>3. QED
  BY <1>1, <1>2

LEMMA FormedGrow ==
  ASSUME Swung, Broken, NEW c \in Candles, Push(c)
  PROVE  FormedIn(bars', breaks') =
           FormedIn(bars, breaks) \cup FairValueGaps(bars', Len(bars) + 1) \cup OrderBlocks(bars', Fresh(c), Leg)
<1> DEFINE i == Len(bars) + 1
           Gaps(B, D) == UNION {FairValueGaps(B, k) : k \in D}
<1>1. /\ Len(bars) \in Nat /\ i \in Nat /\ DOMAIN bars = 1..Len(bars) /\ DOMAIN bars' = 1..i
      /\ \A k \in 1..Len(bars) : bars'[k] = bars[k]
      /\ breaks' = breaks \cup Fresh(c)
  BY SwungStep, PushBreaks DEF Swung
<1>2. 1..i = (1..Len(bars)) \cup {i}
  BY <1>1
<1>3. \A k \in 1..Len(bars) : FairValueGaps(bars', k) = FairValueGaps(bars, k)
  <2>1. ASSUME NEW k \in 1..Len(bars) PROVE FairValueGaps(bars', k) = FairValueGaps(bars, k)
    <3>1. k \in Nat /\ \A j \in 1..k : bars'[j] = bars[j]
      BY <1>1
    <3>2. QED
      BY <3>1, EarlierGaps
  <2>2. QED
    BY <2>1
<1>4. Gaps(bars', DOMAIN bars') = Gaps(bars, DOMAIN bars) \cup FairValueGaps(bars', i)
  <2>1. \A D, E : Gaps(bars', D \cup E) = Gaps(bars', D) \cup Gaps(bars', E)
    OBVIOUS
  <2>2. Gaps(bars', {i}) = FairValueGaps(bars', i)
    OBVIOUS
  <2>3. Gaps(bars', 1..Len(bars)) = Gaps(bars, 1..Len(bars))
    BY <1>3
  <2> HIDE DEF Gaps
  <2>4. Gaps(bars', (1..Len(bars)) \cup {i}) = Gaps(bars', 1..Len(bars)) \cup Gaps(bars', {i})
    BY <2>1
  <2>5. QED
    BY <1>1, <1>2, <2>2, <2>3, <2>4
<1>5. ASSUME NEW b \in breaks
      PROVE  OpposingOf(bars', b) = OpposingOf(bars, b)
             /\ (OpposingOf(bars, b) # {} => BlockOf(bars', b) = BlockOf(bars, b))
  <2>1. b.index \in Nat /\ b.index <= Len(bars)
    BY BreakFields
  <2>2. \A j : j \in 1..i /\ j < b.index <=> j \in 1..Len(bars) /\ j < b.index
    BY <1>1, <2>1
  <2>3. OpposingOf(bars', b) = OpposingOf(bars, b)
    BY <1>1, <2>2 DEF OpposingOf
  <2>4. ASSUME OpposingOf(bars, b) # {} PROVE BlockOf(bars', b) = BlockOf(bars, b)
    <3>1. OpposingOf(bars, b) \in SUBSET (0..Len(bars)) /\ OpposingOf(bars, b) \subseteq 1..Len(bars)
      BY <1>1 DEF OpposingOf
    <3>2. Max(OpposingOf(bars, b)) \in OpposingOf(bars, b)
      BY <1>1, <2>4, <3>1, GreatestIsMax
    <3>3. bars'[Max(OpposingOf(bars, b))] = bars[Max(OpposingOf(bars, b))]
      BY <1>1, <3>1, <3>2
    <3>4. QED
      BY <2>3, <3>3, Zenon DEF BlockOf
  <2>5. QED
    BY <2>3, <2>4
<1>6. OrderBlocks(bars', breaks, Leg) = OrderBlocks(bars, breaks, Leg)
  <2>1. \A B : OrderBlocks(B, breaks, Leg) = {BlockOf(B, b) : b \in {d \in breaks : OpposingOf(B, d) # {}}}
    BY BlocksAre
  <2>2. {b \in breaks : OpposingOf(bars', b) # {}} = {b \in breaks : OpposingOf(bars, b) # {}}
    BY <1>5
  <2>3. \A b \in {d \in breaks : OpposingOf(bars, d) # {}} : BlockOf(bars', b) = BlockOf(bars, b)
    BY <1>5
  <2>4. QED
    BY <2>1, <2>2, <2>3
<1>7. OrderBlocks(bars', breaks \cup Fresh(c), Leg) =
        OrderBlocks(bars', breaks, Leg) \cup OrderBlocks(bars', Fresh(c), Leg)
  BY BlocksAre
<1> HIDE DEF i
<1>8. QED
  BY <1>1, <1>4, <1>6, <1>7 DEF FormedIn, i

(* Every gap and block has a direction and begins with a bar so far.       *)
LEMMA FormedFit ==
  ASSUME Swung, Broken, NEW z \in FormedIn(bars, breaks)
  PROVE  z.direction \in {1, -1} /\ z.id[2] \in 1..Len(bars)
<1>1. CASE z \in UNION {FairValueGaps(bars, i) : i \in DOMAIN bars}
  <2>1. PICK i \in DOMAIN bars : z \in FairValueGaps(bars, i)
    BY <1>1
  <2>2. i \in 1..Len(bars)
    BY DEF Swung
  <2>3. QED
    BY <2>1, <2>2, GapFields
<1>2. CASE z \in OrderBlocks(bars, breaks, Leg)
  <2>1. PICK b \in breaks : z = BlockOf(bars, b)
    BY <1>2, BlocksAre
  <2>2. /\ b.swing.index \in Nat /\ Closes(bars, b.swing) # {} /\ b.index = Min(Closes(bars, b.swing))
        /\ b.index \in Nat /\ b.index <= Len(bars) /\ b.direction \in {1, -1}
    BY BreakFields, WayIs
  <2>3. b.index > b.swing.index
    BY <2>2, ClosesFit DEF Swung
  <2>4. b.index \in 1..Len(bars)
    BY <2>2, <2>3 DEF Swung
  <2>5. QED
    BY <2>1, <2>2, <2>4, BlockFields
<1>3. QED
  BY <1>1, <1>2 DEF FormedIn

(* A candle more: pools.                                                   *)
LEMMA SeenStep ==
  ASSUME Swung, NEW c \in Candles, Push(c)
  PROVE  /\ \A k \in 1..Len(bars) : SeenAt(swings', k) = SeenAt(swings, k)
         /\ SeenAt(swings', Len(bars) + 1) =
              IF Confirmed(bars') = {} THEN {}
              ELSE LiquidityPools(LastSwings(swings', PoolWindow), Tolerance)
         /\ SeenBy(swings', Len(bars) + 1) = SeenBy(swings, Len(bars)) \cup SeenAt(swings', Len(bars) + 1)
<1> DEFINE i == Len(bars) + 1
           new == Confirmed(bars')
<1>1. /\ Len(bars) \in Nat /\ i \in Nat /\ Lookback \in Nat \ {0} /\ swings' = swings \cup new
      /\ \A s \in swings : s.index \in Nat /\ s.index + Lookback <= Len(bars)
      /\ \A s \in new : s.index \in Nat /\ s.index + Lookback = i
  BY SwungStep, StructureAssumption DEF Swung
<1> HIDE DEF i, new
<1>2. i = Len(bars) + 1
  BY DEF i
<1>3. ASSUME NEW k \in 0..Len(bars) PROVE KnownAt(swings', k) = KnownAt(swings, k)
  <2>1. \A s \in new : ~(s.index + Lookback <= k)
    BY <1>1, <1>2
  <2>2. QED
    BY <1>1, <2>1 DEF KnownAt
<1>4. \A k \in 1..Len(bars) : SeenAt(swings', k) = SeenAt(swings, k)
  <2>1. ASSUME NEW k \in 1..Len(bars) PROVE SeenAt(swings', k) = SeenAt(swings, k)
    <3>1. k \in 0..Len(bars) /\ k - 1 \in 0..Len(bars)
      BY <1>1
    <3>2. KnownAt(swings', k) = KnownAt(swings, k) /\ KnownAt(swings', k - 1) = KnownAt(swings, k - 1)
      BY <1>3, <3>1
    <3>3. QED
      BY <3>2, Zenon DEF SeenAt
  <2>2. QED
    BY <2>1
<1>5. KnownAt(swings', i) = swings' /\ KnownAt(swings', i - 1) = swings
  <2>1. \A s \in swings' : s.index + Lookback <= i
    BY <1>1, <1>2
  <2>2. KnownAt(swings', i - 1) = KnownAt(swings, Len(bars))
    <3>1. i - 1 = Len(bars) /\ Len(bars) \in 0..Len(bars)
      BY <1>1, <1>2
    <3>2. QED
      BY <1>3, <3>1
  <2>3. KnownAt(swings, Len(bars)) = swings
    BY <1>1 DEF KnownAt
  <2>4. QED
    BY <2>1, <2>2, <2>3 DEF KnownAt
<1>6. swings' = swings <=> new = {}
  <2>1. \A s \in new : s \notin swings
    BY <1>1, <1>2
  <2>2. QED
    BY <1>1, <2>1
<1>7. SeenAt(swings', i) =
        IF new = {} THEN {} ELSE LiquidityPools(LastSwings(swings', PoolWindow), Tolerance)
  BY <1>5, <1>6, Zenon DEF SeenAt
<1>8. SeenBy(swings', i) = SeenBy(swings, Len(bars)) \cup SeenAt(swings', i)
  <2>1. \A k : k \in 1..i <=> k \in 1..Len(bars) \/ k = i
    BY <1>1, <1>2
  <2>2. \A p : (\E k \in 1..i : p \in SeenAt(swings', k)) <=>
                 (\E k \in 1..Len(bars) : p \in SeenAt(swings, k)) \/ p \in SeenAt(swings', i)
    BY <1>4, <2>1
  <2>3. \A p : /\ p \in SeenBy(swings', i) <=> \E k \in 1..i : p \in SeenAt(swings', k)
               /\ p \in SeenBy(swings, Len(bars)) <=> \E k \in 1..Len(bars) : p \in SeenAt(swings, k)
    BY Zenon DEF SeenBy
  <2>4. QED
    BY <2>2, <2>3
<1>9. QED
  BY <1>4, <1>7, <1>8 DEF i, new

LEMMA FirstStep ==
  ASSUME Swung, NEW c \in Candles, Push(c), NEW p
  PROVE  /\ p \in SeenBy(swings, Len(bars)) =>
              /\ FirstSeen(swings', Len(bars) + 1, p) = FirstSeen(swings, Len(bars), p)
              /\ FirstSeen(swings, Len(bars), p) \in 1..Len(bars)
         /\ p \in SeenAt(swings', Len(bars) + 1) /\ p \notin SeenBy(swings, Len(bars)) =>
              FirstSeen(swings', Len(bars) + 1, p) = Len(bars) + 1
<1> DEFINE i == Len(bars) + 1
           was == {k \in 1..Len(bars) : p \in SeenAt(swings, k)}
           is == {k \in 1..i : p \in SeenAt(swings', k)}
<1>1. Len(bars) \in Nat /\ i \in Nat /\ \A k : k \in 1..i <=> k \in 1..Len(bars) \/ k = i
  BY DEF Swung
<1>2. is = was \cup (IF p \in SeenAt(swings', i) THEN {i} ELSE {})
  BY <1>1, SeenStep
<1>3. p \in SeenBy(swings, Len(bars)) <=> was # {}
  BY DEF SeenBy
<1>4. was \in SUBSET Nat /\ is \in SUBSET Nat /\ was \subseteq 1..Len(bars)
  BY <1>1
<1>5. FirstSeen(swings, Len(bars), p) = Min(was) /\ FirstSeen(swings', i, p) = Min(is)
  BY Zenon DEF FirstSeen
<1> HIDE DEF was, is
<1>6. ASSUME was # {} PROVE Min(is) = Min(was) /\ Min(was) \in 1..Len(bars)
  <2>1. Min(was) \in was /\ \A x \in was : Min(was) <= x
    BY <1>4, <1>6, LeastIsMin
  <2>2. Min(is) \in is /\ \A x \in is : Min(is) <= x
    <3>1. is # {}
      BY <1>2, <1>6
    <3>2. QED
      BY <1>4, <3>1, LeastIsMin
  <2>3. Min(was) \in is /\ Min(was) \in Nat /\ Min(was) < i /\ Min(is) \in Nat
    BY <1>1, <1>2, <1>4, <2>1, <2>2
  <2>4. Min(is) <= Min(was) /\ Min(is) # i
    BY <1>1, <2>2, <2>3
  <2>5. Min(is) \in was
    BY <1>2, <2>2, <2>4
  <2>6. Min(was) <= Min(is)
    BY <2>1, <2>5
  <2>7. QED
    BY <1>4, <2>1, <2>3, <2>4, <2>6
<1>7. ASSUME was = {}, p \in SeenAt(swings', i) PROVE Min(is) = i
  <2>1. is = {i}
    BY <1>2, <1>7
  <2>2. {i} \in SUBSET Nat /\ {i} # {}
    BY <1>1
  <2>3. Min({i}) \in {i}
    BY <2>2, LeastIsMin
  <2>4. QED
    BY <2>1, <2>3
<1>8. QED
  BY <1>3, <1>5, <1>6, <1>7

LEMMA LastingStep ==
  ASSUME Swung, NEW c \in Candles, Push(c)
  PROVE  Lasting(bars', swings') =
           {p \in Lasting(bars, swings) : ~Passed(p, c.low, c.high)}
             \cup {p \in SeenAt(swings', Len(bars) + 1) \ SeenBy(swings, Len(bars)) : ~Passed(p, c.close, c.close)}
<1> DEFINE i == Len(bars) + 1
           Now(p) == Intact(bars', swings', p)
           Fades(p) == Passed(p, c.low, c.high)
           Stillborn(p) == Passed(p, c.close, c.close)
<1>1. /\ Len(bars) \in Nat /\ i \in Nat /\ Len(bars') = i
      /\ bars'[i] = c /\ \A k \in 1..Len(bars) : bars'[k] = bars[k]
  BY SwungStep DEF Swung
<1>2. SeenBy(swings', i) = SeenBy(swings, Len(bars)) \cup SeenAt(swings', i)
  BY SeenStep
<1>3. ASSUME NEW p \in SeenBy(swings, Len(bars)) PROVE Now(p) <=> Intact(bars, swings, p) /\ ~Fades(p)
  <2> DEFINE begin == FirstSeen(swings, Len(bars), p)
  <2>1. FirstSeen(swings', Len(bars'), p) = begin /\ begin \in 1..Len(bars)
    BY <1>1, <1>3, FirstStep
  <2>2. Intact(bars', swings', p) <=>
          /\ ~Passed(p, bars'[begin].close, bars'[begin].close)
          /\ \A k \in (begin + 1)..i : ~Passed(p, bars'[k].low, bars'[k].high)
    BY <1>1, <2>1, Zenon DEF Intact
  <2>3. Intact(bars, swings, p) <=>
          /\ ~Passed(p, bars[begin].close, bars[begin].close)
          /\ \A k \in (begin + 1)..Len(bars) : ~Passed(p, bars[k].low, bars[k].high)
    BY Zenon DEF Intact
  <2> HIDE DEF begin
  <2>4. \A k : k \in (begin + 1)..i <=> k \in (begin + 1)..Len(bars) \/ k = i
    BY <1>1, <2>1
  <2>5. \A k \in (begin + 1)..Len(bars) : k \in 1..Len(bars)
    BY <1>1, <2>1
  <2>6. QED
    BY <1>1, <2>1, <2>2, <2>3, <2>4, <2>5
<1>4. ASSUME NEW p \in SeenAt(swings', i), p \notin SeenBy(swings, Len(bars))
      PROVE  Now(p) <=> ~Stillborn(p)
  <2>1. FirstSeen(swings', Len(bars'), p) = i
    BY <1>1, <1>4, FirstStep
  <2>2. Intact(bars', swings', p) <=>
          /\ ~Passed(p, bars'[i].close, bars'[i].close)
          /\ \A k \in (i + 1)..i : ~Passed(p, bars'[k].low, bars'[k].high)
    BY <1>1, <2>1, Zenon DEF Intact
  <2>3. (i + 1)..i = {}
    BY <1>1
  <2>4. QED
    BY <1>1, <2>2, <2>3
<1>5. \A p : p \in Lasting(bars', swings') <=> p \in SeenBy(swings', i) /\ Now(p)
  BY <1>1 DEF Lasting
<1>6. \A p : p \in Lasting(bars, swings) <=> p \in SeenBy(swings, Len(bars)) /\ Intact(bars, swings, p)
  BY DEF Lasting
<1> HIDE DEF Now, Fades, Stillborn, i
<1>7. \A p : p \in Lasting(bars', swings') <=>
               \/ p \in Lasting(bars, swings) /\ ~Fades(p)
               \/ p \in SeenAt(swings', i) \ SeenBy(swings, Len(bars)) /\ ~Stillborn(p)
  BY <1>2, <1>3, <1>4, <1>5, <1>6
<1>8. QED
  BY <1>7 DEF Fades, Stillborn, i

(* A candle more: every zone.                                              *)
LEMMA ZonedStep ==
  ASSUME Swung, Broken, Zoned, NEW c \in Candles, Push(c)
  PROVE  Zoned'
<1> DEFINE i == Len(bars) + 1
           formed == FormedIn(bars, breaks)
           added == FairValueGaps(bars', i) \cup OrderBlocks(bars', Fresh(c), Leg)
           pools == SeenAt(swings', i) \ SeenBy(swings, Len(bars))
<1>1. /\ Len(bars) \in Nat /\ i \in Nat /\ Len(bars') = i /\ bars' = Append(bars, c)
      /\ bars'[i] = c /\ \A k \in 1..Len(bars) : bars'[k] = bars[k]
      /\ swings' = swings \cup Confirmed(bars')
  BY SwungStep DEF Swung
<1>2. FormedIn(bars', breaks') = formed \cup added
  BY FormedGrow
<1>3. /\ zones' = Surviving(zones \cup added, pools, c)
      /\ seenPools' = seenPools \cup {p.id : p \in pools}
  <2> DEFINE S == swings \cup Confirmed(bars')
             crossed == {s \in pending \cup Confirmed(bars') : s.index < Len(bars') /\ Beyond(s, c.close)}
             known == IF Confirmed(bars') = {} THEN {}
                      ELSE {p \in LiquidityPools(LastSwings(S, PoolWindow), Tolerance) : p.id \notin seenPools}
  <2>1. crossed = Crossed(c)
    BY <1>1, PushBreaks
  <2>2. \A p \in SeenAt(swings', i) : p.id \in seenPools <=> p \in SeenBy(swings, Len(bars))
    <3>1. ASSUME NEW p \in SeenAt(swings', i), NEW q \in SeenBy(swings, Len(bars)), p.id = q.id PROVE p = q
      <4>1. PICK k \in 1..Len(bars) : q \in SeenAt(swings, k)
        BY <3>1 DEF SeenBy
      <4>2. q \in SeenAt(swings', k)
        BY <4>1, SeenStep
      <4>3. bars' \in Seq(Candles) /\ swings' = DetectSwings(bars', Lookback)
        BY SwungStep DEF Swung
      <4>4. \A s, r \in swings' : s.index = r.index => s = r
        BY <4>3, SwingByIndex
      <4>5. QED
        BY <3>1, <4>2, <4>4, PoolById
    <3>2. QED
      BY <3>1 DEF Zoned
  <2>3. known = pools
    BY <1>1, <2>2, SeenStep
  <2>4. /\ zones' = Surviving((zones \cup FairValueGaps(bars', Len(bars'))) \cup
                                OrderBlocks(bars', NewBreaks(S, crossed, Len(bars')), Leg), known, c)
        /\ seenPools' = seenPools \cup {p.id : p \in known}
    <3> HIDE DEF S, crossed, known
    <3>1. bars' = Append(bars, c)
      BY <1>1
    <3>2. QED
      BY <3>1, Zenon DEF Push, S, crossed, known
  <2> HIDE DEF known
  <2>5. NewBreaks(S, crossed, Len(bars')) = Fresh(c)
    BY <1>1, <2>1 DEF Fresh
  <2>6. (zones \cup FairValueGaps(bars', Len(bars'))) \cup OrderBlocks(bars', Fresh(c), Leg) = zones \cup added
    BY <1>1
  <2>7. QED
    BY <2>3, <2>4, <2>5, <2>6
<1>4. ASSUME NEW z \in added PROVE z.direction \in {1, -1} /\ z.id[2] = i
  <2>1. CASE z \in FairValueGaps(bars', i)
    BY <2>1, GapFields
  <2>2. CASE z \in OrderBlocks(bars', Fresh(c), Leg)
    <3>1. PICK b \in Fresh(c) : z = BlockOf(bars', b)
      BY <2>2, BlocksAre
    <3>2. b.index = i /\ b.direction \in {1, -1}
      BY FreshFields, WayIs
    <3>3. QED
      BY <3>1, <3>2, BlockFields
  <2>3. QED
    BY <2>1, <2>2
<1>5. \A z \in formed : z.direction \in {1, -1} /\ z.id[2] \in 1..Len(bars)
  BY FormedFit
<1>6. \A p \in Lasting(bars, swings) : p.direction = 0
  BY SeenIsAPool DEF Lasting, SeenBy
<1> HIDE DEF formed, added, pools, i
<1>7. ASSUME NEW z \in formed
      PROVE  (\A k \in z.id[2]..Len(bars') : ~ClosedThrough(z, bars'[k])) <=>
               (\A k \in z.id[2]..Len(bars) : ~ClosedThrough(z, bars[k])) /\ ~ClosedThrough(z, c)
  <2>1. i = Len(bars) + 1 /\ z.id[2] \in 1..Len(bars)
    BY <1>5 DEF i
  <2>2. \A k : k \in z.id[2]..i <=> k \in z.id[2]..Len(bars) \/ k = i
    BY <1>1, <2>1
  <2>3. \A k \in z.id[2]..Len(bars) : k \in 1..Len(bars)
    BY <1>1, <2>1
  <2>4. QED
    BY <1>1, <2>2, <2>3
<1>8. ASSUME NEW z \in added
      PROVE  (\A k \in z.id[2]..Len(bars') : ~ClosedThrough(z, bars'[k])) <=> ~ClosedThrough(z, c)
  <2>1. z.id[2] = i /\ i..i = {i}
    BY <1>1, <1>4
  <2>2. QED
    BY <1>1, <2>1
<1>9. Standing(bars', formed \cup added) =
        {z \in Standing(bars, formed) \cup added : ~ClosedThrough(z, c)}
  <2>1. \A z : z \in Standing(bars', formed \cup added) <=>
          z \in formed \cup added /\ \A k \in z.id[2]..Len(bars') : ~ClosedThrough(z, bars'[k])
    BY DEF Standing
  <2>2. \A z : z \in Standing(bars, formed) <=>
          z \in formed /\ \A k \in z.id[2]..Len(bars) : ~ClosedThrough(z, bars[k])
    BY DEF Standing
  <2>3. \A z : z \in Standing(bars', formed \cup added) <=>
                 z \in Standing(bars, formed) \cup added /\ ~ClosedThrough(z, c)
    BY <1>7, <1>8, <2>1, <2>2
  <2>4. QED
    BY <2>3
<1>10. zones = Standing(bars, formed) \cup Lasting(bars, swings)
  BY DEF Zoned, formed
<1>11. \A z \in Standing(bars, formed) \cup added : z.direction # 0
  BY <1>4, <1>5 DEF Standing
<1>12. zones' = {z \in Standing(bars, formed) \cup added : ~ClosedThrough(z, c)}
                  \cup {p \in Lasting(bars, swings) : ~Passed(p, c.low, c.high)}
                  \cup {p \in pools : ~Passed(p, c.close, c.close)}
  BY <1>3, <1>6, <1>10, <1>11 DEF Surviving
<1>13. Lasting(bars', swings') = {p \in Lasting(bars, swings) : ~Passed(p, c.low, c.high)}
                                   \cup {p \in pools : ~Passed(p, c.close, c.close)}
  BY LastingStep DEF pools, i
<1>14. zones' = Standing(bars', FormedIn(bars', breaks')) \cup Lasting(bars', swings')
  BY <1>2, <1>9, <1>12, <1>13
<1>15. seenPools' = {p.id : p \in SeenBy(swings', Len(bars'))}
  <2>1. SeenBy(swings', Len(bars')) = SeenBy(swings, Len(bars)) \cup pools
    BY <1>1, SeenStep DEF pools, i
  <2>2. QED
    BY <1>3, <2>1 DEF Zoned
<1>16. QED
  BY <1>14, <1>15 DEF Zoned

StructureInv == Swung /\ Broken /\ Phased /\ Zoned

LEMMA StructureStarts == StructureInit => StructureInv
<1> SUFFICES ASSUME StructureInit PROVE StructureInv
  OBVIOUS
<1>1. bars = <<>> /\ swings = {} /\ pending = {} /\ breaks = {} /\ zones = {} /\ seenPools = {}
  BY DEF StructureInit
<1>2. Lookback \in Nat \ {0}
  BY StructureAssumption
<1>3. Swung
  <2>1. Len(<<>>) = 0 /\ (Lookback + 1)..(0 - Lookback) = {}
    BY <1>2
  <2>2. DetectSwings(<<>>, Lookback) = {}
    BY <2>1, SwingsAre
  <2>3. QED
    BY <1>1, <2>2 DEF Swung
<1>4. Broken /\ Phased
  BY <1>1 DEF Broken, Phased
<1>5. Zoned
  <2>1. DOMAIN bars = {} /\ 1..Len(bars) = {}
    BY <1>1
  <2>2. OrderBlocks(bars, {}, Leg) = {}
    BY BlocksAre
  <2>3. FormedIn(bars, breaks) = {}
    BY <1>1, <2>1, <2>2 DEF FormedIn
  <2>4. SeenBy(swings, Len(bars)) = {}
    BY <2>1 DEF SeenBy
  <2>5. QED
    BY <1>1, <2>3, <2>4 DEF Zoned, Standing, Lasting
<1>6. QED
  BY <1>3, <1>4, <1>5 DEF StructureInv

LEMMA StructureKeeps == StructureInv /\ [StructureNext]_structureVars => StructureInv'
<1> SUFFICES ASSUME StructureInv, [StructureNext]_structureVars PROVE StructureInv'
  OBVIOUS
<1>1. CASE StructureNext
  <2>1. PICK c \in Candles : Push(c)
    BY <1>1 DEF StructureNext
  <2>2. QED
    BY <2>1, SwungStep, BrokenStep, PhasedStep, ZonedStep DEF StructureInv
<1>2. CASE UNCHANGED structureVars
  <2>1. /\ bars' = bars /\ swings' = swings /\ pending' = pending /\ breaks' = breaks
        /\ zones' = zones /\ seenPools' = seenPools /\ signature' = signature
    BY <1>2 DEF structureVars
  <2>2. Swung' /\ Broken'
    BY <2>1 DEF StructureInv, Swung, Broken, Precedes
  <2>3. Phased'
    BY <2>1, Zenon DEF StructureInv, Phased
  <2>4. Zoned'
    BY <2>1, Zenon DEF StructureInv, Zoned
  <2>5. QED
    BY <2>2, <2>3, <2>4 DEF StructureInv
<1>3. QED
  BY <1>1, <1>2

LEMMA ZonesFollowBatch ==
  ASSUME StructureInv PROVE ZonesAsDefined
<1> DEFINE batch == DetectStructureBreaks(bars, swings, Lookback)
           formed == (UNION {FairValueGaps(bars, i) : i \in DOMAIN bars}) \cup OrderBlocks(bars, batch, Leg)
           known(k) == {s \in swings : s.index + Lookback <= k}
           seen(k) == IF known(k) = known(k - 1) THEN {}
                      ELSE LiquidityPools(LastSwings(known(k), PoolWindow), Tolerance)
           begin(p) == Min({k \in DOMAIN bars : p \in seen(k)})
           pools == UNION {seen(k) : k \in DOMAIN bars}
<1>1. DOMAIN bars = 1..Len(bars)
  BY DEF StructureInv, Swung
<1>2. formed = FormedIn(bars, breaks)
  <2>1. OrderBlocks(bars, batch, Leg) = OrderBlocks(bars, breaks, Leg)
    BY BatchDresses, BreaksDress, BlocksOfBare DEF StructureInv
  <2>2. QED
    BY <2>1, Zenon DEF FormedIn
<1>3. \A k : seen(k) = SeenAt(swings, k)
  BY Zenon DEF SeenAt, KnownAt
<1> HIDE DEF formed, seen
<1>4. pools = SeenBy(swings, Len(bars)) /\ \A p : begin(p) = FirstSeen(swings, Len(bars), p)
  BY <1>1, <1>3 DEF SeenBy, FirstSeen
<1> HIDE DEF pools, begin
<1>5. {p \in pools : /\ ~Passed(p, bars[begin(p)].close, bars[begin(p)].close)
                     /\ \A k \in (begin(p) + 1)..Len(bars) : ~Passed(p, bars[k].low, bars[k].high)}
        = Lasting(bars, swings)
  BY <1>4 DEF Lasting, Intact
<1>6. {z \in formed : \A k \in z.id[2]..Len(bars) : ~ClosedThrough(z, bars[k])} =
        Standing(bars, FormedIn(bars, breaks))
  BY <1>2 DEF Standing
<1>7. zones = {z \in formed : \A k \in z.id[2]..Len(bars) : ~ClosedThrough(z, bars[k])}
               \cup {p \in pools : /\ ~Passed(p, bars[begin(p)].close, bars[begin(p)].close)
                                   /\ \A k \in (begin(p) + 1)..Len(bars) : ~Passed(p, bars[k].low, bars[k].high)}
  BY <1>5, <1>6 DEF StructureInv, Zoned
<1>8. QED
  BY <1>7, Zenon DEF ZonesAsDefined, formed, pools, begin, seen

(* For every series of candles, of whatever prices, and every lookback,    *)
(* leg, pool window and tolerance, what is streamed candle by candle is    *)
(* what the batch rules find in the whole series: the swings, their breaks *)
(* with the kind of every one but the first, the phase and the zones.      *)
THEOREM LiveFollowsResearch == StructureSpec => []LiveIsResearch
<1>1. StructureInit => StructureInv
  BY StructureStarts
<1>2. StructureInv /\ [StructureNext]_structureVars => StructureInv'
  BY StructureKeeps
<1>3. StructureInv => LiveIsResearch
  BY StreamFollowsBatch, ZonesFollowBatch DEF StructureInv, LiveIsResearch
<1>4. QED
  BY <1>1, <1>2, <1>3, PTL DEF StructureSpec

(***************************************************************************)
(* NativeSets: clocks and rounding                                         *)
(***************************************************************************)
LEMMA Division ==
  ASSUME NEW x \in Int, NEW p \in Nat \ {0}
  PROVE  x \div p \in Int /\ x = (p * (x \div p)) + (x % p) /\ x % p \in 0..(p - 1)
OBVIOUS

(* Rounding moves a price half a grid step at most, and at its own         *)
(* precision not at all.                                                   *)
LEMMA RoundedFits ==
  ASSUME NEW x \in Int, NEW g \in Nat \ {0}
  PROVE  /\ Rounded(x, g) \in Int
         /\ 2 * (Rounded(x, g) - x) \in -g..g
         /\ g = 1 => Rounded(x, g) = x
<1> DEFINE q == x \div g
           r == x % g
           m == g * q
<1>1. q \in Int /\ x = m + r /\ r \in 0..(g - 1)
  BY Division
<1>2. m \in Int
  BY <1>1
<1>3. Rounded(x, g) = IF 2 * r > g \/ (2 * r = g /\ q % 2 = 1) THEN m + g ELSE m
  BY DEF Rounded
<1> HIDE DEF q, r, m
<1>4. CASE 2 * r > g \/ (2 * r = g /\ q % 2 = 1)
  <2>1. Rounded(x, g) = m + g /\ 2 * r >= g
    BY <1>1, <1>3, <1>4
  <2>2. 2 * (Rounded(x, g) - x) = 2 * g - 2 * r
    BY <1>1, <1>2, <2>1
  <2>3. g # 1
    BY <1>1, <1>4
  <2>4. QED
    BY <1>1, <1>2, <2>1, <2>2, <2>3
<1>5. CASE ~(2 * r > g \/ (2 * r = g /\ q % 2 = 1))
  <2>1. Rounded(x, g) = m /\ 2 * r <= g
    BY <1>1, <1>3, <1>5
  <2>2. 2 * (Rounded(x, g) - x) = -(2 * r)
    BY <1>1, <1>2, <2>1
  <2>3. QED
    BY <1>1, <1>2, <2>1, <2>2
<1>6. QED
  BY <1>4, <1>5

\* The third timeframe of set k is the finest.
Finest(k) == Openings[k + 2] = 1..LastBar

LEMMA ThirdTimeframe ==
  ASSUME NEW k \in Triples
  PROVE  k \in Nat /\ k \in Ladders /\ k + 1 \in Ladders /\ k + 2 \in Ladders
<1>1. Len(Openings) \in Nat /\ DOMAIN Openings = 1..Len(Openings)
  BY OpeningsAssumption
<1>2. QED
  BY <1>1 DEF Triples, Ladders

(* The bars of a coarser timeframe open with bars of the third one.        *)
LEMMA Together ==
  ASSUME NEW k \in Triples, NEW i, ~Opens(k + 2, i)
  PROVE  ~Opens(k, i) /\ ~Opens(k + 1, i)
BY OpeningsAssumption DEF Opens

(***************************************************************************)
(* NativeSets: a set at one bar                                            *)
(***************************************************************************)
RowFits(r) == r = Null \/ (r.close \in Int \cup {Null} /\ r.atr \in Int)
RowsFit == \A k \in Ladders : RowFits(rows[k])

SetStates(k) ==
  {s \in [bias: Directions \cup {Null}, ready: BOOLEAN, trade: SetTrades \cup {Null}] :
     (s.ready => s.bias # Null) /\ (s.trade # Null => s.trade.set = k)}

\* The trade of s was entered no later than at bar top.
Since(s, top) == s.trade # Null => s.trade.entry <= top

LEMMA InitialRows == NativeInit => RowsFit
BY DEF NativeInit, RowsFit, RowFits

LEMMA RowsStep ==
  ASSUME RowsFit, NativeNext
  PROVE  RowsFit'
<1>1. PICK input \in [{k \in Ladders : Opens(k, baseBar + 1)} -> UNION {BarRows[k] : k \in Ladders}] :
        /\ \A k \in DOMAIN input : input[k] \in BarRows[k]
        /\ rows' = [k \in Ladders |-> IF k \in DOMAIN input THEN NextRow(rows[k], input[k]) ELSE rows[k]]
  BY DEF NativeNext
<1>2. ASSUME NEW k \in Ladders PROVE RowFits(rows'[k])
  <2>1. CASE k \in DOMAIN input
    <3>1. input[k].close \in Int \cup {Null} /\ input[k].atr \in Int
      BY <1>1, <2>1, RowsAssumption
    <3>2. rows'[k].close = input[k].close /\ rows'[k].atr = input[k].atr
      BY <1>1, <2>1 DEF NextRow
    <3>3. QED
      BY <3>1, <3>2 DEF RowFits
  <2>2. CASE k \notin DOMAIN input
    BY <1>1, <2>2 DEF RowsFit
  <2>3. QED
    BY <2>1, <2>2
<1>3. QED
  BY <1>2 DEF RowsFit

(* A bar that does not open with the third timeframe's leaves the view.    *)
LEMMA ViewStays ==
  ASSUME NEW k \in Triples, NativeNext, ~Opens(k + 2, baseBar + 1)
  PROVE  View(rows', k) = View(rows, k)
<1>1. PICK input \in [{j \in Ladders : Opens(j, baseBar + 1)} -> UNION {BarRows[j] : j \in Ladders}] :
        rows' = [j \in Ladders |-> IF j \in DOMAIN input THEN NextRow(rows[j], input[j]) ELSE rows[j]]
  BY DEF NativeNext
<1>2. ~Opens(k, baseBar + 1) /\ ~Opens(k + 1, baseBar + 1) /\ k \in Ladders /\ k + 1 \in Ladders /\ k + 2 \in Ladders
  BY Together, ThirdTimeframe
<1>3. rows'[k] = rows[k] /\ rows'[k + 1] = rows[k + 1] /\ rows'[k + 2] = rows[k + 2]
  BY <1>1, <1>2
<1>4. QED
  BY <1>3 DEF View

LEMMA EnteredFits ==
  ASSUME NEW k \in Triples, NEW d \in Directions, NEW v, Usable(v), RowFits(v.ltf), NEW i \in Nat, NEW g \in Nat \ {0}
  PROVE  LET t == Entered(k, d, v, i, g) px == v.ltf.close risk == Sign[d] * v.ltf.atr IN
         /\ t \in SetTrades /\ t.set = k /\ t.direction = d /\ t.entry = i
         /\ px \in Int /\ risk \in Int /\ px - risk \in Int /\ px + Reward * risk \in Int
         /\ t.price = Rounded(px, g) /\ t.stop = Rounded(px - risk, g) /\ t.target = Rounded(px + Reward * risk, g)
<1> DEFINE t == Entered(k, d, v, i, g)
           px == v.ltf.close
           risk == Sign[d] * v.ltf.atr
<1>1. Sign[d] \in {1, -1}
  BY DEF Directions, Sign
<1>2. px \in Int /\ v.ltf.atr \in Int /\ Reward \in Nat
  BY RowsAssumption DEF Usable, RowFits
<1>3. risk \in Int
  BY <1>1, <1>2
<1>4. t = [set |-> k, direction |-> d, entry |-> i, price |-> Rounded(px, g),
           stop |-> Rounded(px - risk, g), target |-> Rounded(px + Reward * risk, g)]
  BY DEF Entered
<1> HIDE DEF t, px, risk
<1>5. px - risk \in Int /\ px + Reward * risk \in Int
  BY <1>2, <1>3
<1>6. Rounded(px, g) \in Int /\ Rounded(px - risk, g) \in Int /\ Rounded(px + Reward * risk, g) \in Int
  BY <1>2, <1>5, RoundedFits
<1>7. t \in SetTrades
  BY <1>4, <1>6 DEF SetTrades
<1>8. QED
  BY <1>2, <1>3, <1>4, <1>5, <1>7 DEF t, px, risk

LEMMA LookFits ==
  ASSUME NEW k \in Triples, NEW s \in SetStates(k), s.trade = Null, NEW v, RowFits(v.ltf), NEW i \in Nat,
         NEW g \in Nat \ {0}
  PROVE  LET e == LookForEntry(s, k, v, i, g) IN
         /\ e \in SetStates(k) /\ (e.trade # Null => e.trade.entry = i)
         /\ ~Usable(v) => e = s
         /\ (Usable(v) /\ e.trade = Null) => ~(e.ready /\ Triggers(v, e.bias))
         /\ (e.ready => e.bias \in Directions) /\ (e.trade # Null => Usable(v) /\ e.bias \in Directions)
         /\ Usable(v) => /\ e.bias = BiasOf(s, v)
                         /\ e.ready = (s.ready \/ (e.bias # Null /\ SetsUp(v, e.bias)))
                         /\ e.trade = IF e.ready /\ Triggers(v, e.bias) THEN Entered(k, e.bias, v, i, g) ELSE Null
<1> DEFINE e == LookForEntry(s, k, v, i, g)
           bias == BiasOf(s, v)
           ready == s.ready \/ (bias # Null /\ SetsUp(v, bias))
           trade == Entered(k, bias, v, i, g)
<1>1. s.bias \in Directions \cup {Null} /\ s.ready \in BOOLEAN /\ (s.ready => s.bias # Null)
  BY DEF SetStates
<1>2. bias \in Directions \cup {Null} /\ (s.bias # Null => bias = s.bias)
  BY <1>1 DEF BiasOf, Directions
<1>3. CASE ~Usable(v)
  <2>1. e = s
    BY <1>3 DEF LookForEntry
  <2>2. QED
    BY <1>1, <1>3, <2>1
<1>4. CASE Usable(v)
  <2>1. e = [bias |-> bias, ready |-> ready, trade |-> IF ready /\ Triggers(v, bias) THEN trade ELSE Null]
    BY <1>4 DEF LookForEntry
  <2>2. e.bias = bias /\ e.ready = ready /\ e.trade = IF ready /\ Triggers(v, bias) THEN trade ELSE Null
    BY <2>1
  <2>3. ready \in BOOLEAN /\ (ready => bias \in Directions)
    BY <1>1, <1>2
  <2>4. ready => trade \in SetTrades /\ trade.set = k /\ trade.entry = i
    BY <1>4, <2>3, EnteredFits
  <2> HIDE DEF trade, ready, bias
  <2>5. /\ e.trade \in SetTrades \cup {Null}
        /\ e.trade # Null => e.trade.set = k /\ e.trade.entry = i /\ bias \in Directions
    BY <2>2, <2>3, <2>4
  <2>6. e \in [bias: Directions \cup {Null}, ready: BOOLEAN, trade: SetTrades \cup {Null}]
    <3>1. e.bias \in Directions \cup {Null} /\ e.ready \in BOOLEAN
      BY <1>2, <2>2, <2>3
    <3>2. e = [bias |-> e.bias, ready |-> e.ready, trade |-> e.trade]
      BY <2>1, <2>2
    <3> HIDE DEF e
    <3>3. QED
      BY <2>5, <3>1, <3>2
  <2>7. e \in SetStates(k)
    <3>1. e.ready => e.bias # Null
      BY <2>2, <2>3, RowsAssumption
    <3>2. QED
      BY <2>5, <2>6, <3>1 DEF SetStates
  <2>8. e.trade = Null => ~(e.ready /\ Triggers(v, e.bias))
    BY <2>2, <2>4, RowsAssumption
  <2>9. QED
    BY <1>4, <2>2, <2>3, <2>5, <2>7, <2>8 DEF trade, ready, bias
<1>5. QED
  BY <1>3, <1>4

(* A second look at the same rows finds nothing more.                      *)
LEMMA LookAgain ==
  ASSUME NEW k \in Triples, NEW s \in SetStates(k), s.trade = Null, NEW v, RowFits(v.ltf), NEW i \in Nat, NEW j \in Nat,
         NEW g \in Nat \ {0}, LookForEntry(s, k, v, i, g).trade = Null
  PROVE  LookForEntry(LookForEntry(s, k, v, i, g), k, v, j, g) = LookForEntry(s, k, v, i, g)
<1> DEFINE e == LookForEntry(s, k, v, i, g)
           f == LookForEntry(e, k, v, j, g)
<1>1. e \in SetStates(k) /\ e.trade = Null
  BY LookFits
<1>2. CASE ~Usable(v)
  BY <1>2 DEF LookForEntry
<1>3. CASE Usable(v)
  <2>1. /\ e.bias = BiasOf(s, v) /\ e.ready = (s.ready \/ (e.bias # Null /\ SetsUp(v, e.bias)))
        /\ ~(e.ready /\ Triggers(v, e.bias))
    <3>1. /\ e.bias = BiasOf(s, v) /\ e.ready = (s.ready \/ (e.bias # Null /\ SetsUp(v, e.bias)))
      BY <1>3, LookFits
    <3>2. ~(e.ready /\ Triggers(v, e.bias))
      BY <1>1, <1>3, LookFits
    <3>3. QED
      BY <3>1, <3>2
  <2>2. BiasOf(e, v) = e.bias
    <3>1. CASE e.bias # Null
      BY <3>1 DEF BiasOf
    <3>2. CASE e.bias = Null
      <4>1. s.bias = Null
        BY <2>1, <3>2 DEF BiasOf
      <4>2. BiasOf(e, v) = BiasOf(s, v)
        BY <3>2, <4>1 DEF BiasOf
      <4>3. QED
        BY <2>1, <4>2
    <3>3. QED
      BY <3>1, <3>2
  <2>3. /\ f.bias = BiasOf(e, v) /\ f.ready = (e.ready \/ (f.bias # Null /\ SetsUp(v, f.bias)))
        /\ f.trade = IF f.ready /\ Triggers(v, f.bias) THEN Entered(k, f.bias, v, j, g) ELSE Null
    BY <1>1, <1>3, LookFits
  <2>4. f \in SetStates(k) /\ e.ready \in BOOLEAN /\ s.ready \in BOOLEAN
    BY <1>1, LookFits DEF SetStates
  <2>5. f.bias = e.bias
    BY <2>2, <2>3
  <2>6. f.ready = e.ready
    BY <2>1, <2>3, <2>4, <2>5
  <2>7. f.trade = e.trade
    BY <1>1, <2>1, <2>3, <2>5, <2>6
  <2> HIDE DEF f, e
  <2>8. QED
    BY <1>1, <2>4, <2>5, <2>6, <2>7 DEF SetStates, f, e
<1>4. QED
  BY <1>2, <1>3

(* Leaving by price comes first, and books the level.                      *)
LEMMA LeavingFits ==
  ASSUME NEW t \in SetTrades, NEW v, Usable(v), RowFits(v.ltf), NEW held \in Int
  PROVE  LET out == Leaving(t, v, held) px == v.ltf.close IN
         /\ out \in Exits \cup {Null}
         /\ HitStop(t, px) => out = [price |-> t.stop, reason |-> "STOP"]
         /\ ~HitStop(t, px) /\ HitTarget(t, px) => out = [price |-> t.target, reason |-> "TARGET"]
         /\ ~HitStop(t, px) /\ ~HitTarget(t, px)
              => IF Phase(v.mtf) = PullbackAgainst[t.direction] /\ held > TrailAfter
                 THEN out = [price |-> px, reason |-> "MTF_TRAIL"]
                 ELSE IF held >= MaxHeld THEN out = [price |-> px, reason |-> "TIME"] ELSE out = Null
<1>1. v.ltf.close \in Int /\ t.stop \in Int /\ t.target \in Int
  BY DEF Usable, RowFits, SetTrades
<1>2. QED
  BY <1>1 DEF Leaving, Exits, Reasons

\* The trade that s holds ends at bar i.
Ends(s, v, i) == s.trade # Null /\ Usable(v) /\ Leaving(s.trade, v, i - s.trade.entry) # Null

LEMMA EndedFits ==
  ASSUME NEW k \in Triples, NEW s \in SetStates(k), NEW v, RowFits(v.ltf), NEW i \in Nat, Ends(s, v, i)
  PROVE  /\ Ended(s, v, i) \in Closures /\ Ended(s, v, i).trade = s.trade
         /\ Ended(s, v, i).price = Leaving(s.trade, v, i - s.trade.entry).price
         /\ Ended(s, v, i).reason = Leaving(s.trade, v, i - s.trade.entry).reason
<1>1. s.trade \in SetTrades /\ s.trade.entry \in Nat
  BY DEF SetStates, Ends, SetTrades
<1>2. Leaving(s.trade, v, i - s.trade.entry) \in Exits
  <2>1. i - s.trade.entry \in Int
    BY <1>1
  <2>2. QED
    BY <1>1, <2>1, LeavingFits DEF Ends
<1>3. QED
  BY <1>1, <1>2 DEF Ended, Closures, Exits

(* What managing does to a set, and what the first trade is then.          *)
LEMMA ManageKeeps ==
  ASSUME NEW s, NEW v, NEW i, ~Ends(s, v, i)
  PROVE  ManageTrade(s, v, i) = s
BY DEF ManageTrade, Ends

LEMMA ManageEnds ==
  ASSUME NEW s, NEW v, NEW i, Ends(s, v, i)
  PROVE  ManageTrade(s, v, i) = AtRest
BY DEF ManageTrade, Ends

LEMMA AloneStep ==
  ASSUME NEW k \in Triples, NEW s \in SetStates(k), NEW v, RowFits(v.ltf), NEW i \in Nat, NEW g \in Nat \ {0}
  PROVE  LET after == SetAlone(s, k, v, i, g) IN
         /\ s.trade = Null => after = LookForEntry(s, k, v, i, g)
         /\ s.trade # Null /\ ~Ends(s, v, i) => after = s
         /\ Ends(s, v, i) => after = AtRest
         /\ ~Ends(s, v, i) => FirstOf(Null, s, after, v, i) = Null
         /\ Ends(s, v, i) => FirstOf(Null, s, after, v, i) = Ended(s, v, i)
<1>1. CASE s.trade = Null
  BY <1>1 DEF SetAlone, FirstOf, Ends
<1>2. CASE s.trade # Null /\ ~Ends(s, v, i)
  BY <1>2, ManageKeeps DEF SetAlone, FirstOf
<1>3. CASE Ends(s, v, i)
  BY <1>3, ManageEnds DEF SetAlone, FirstOf, Ends, AtRest
<1>4. QED
  BY <1>1, <1>2, <1>3

LEMMA RestFits == \A k \in Triples : AtRest \in SetStates(k) /\ AtRest.trade = Null
BY DEF AtRest, SetStates

LEMMA AloneFits ==
  ASSUME NEW k \in Triples, NEW s \in SetStates(k), NEW v, RowFits(v.ltf), NEW i \in Nat, NEW g \in Nat \ {0}
  PROVE  /\ SetAlone(s, k, v, i, g) \in SetStates(k)
         /\ s.trade = Null => Since(SetAlone(s, k, v, i, g), i)
         /\ s.trade # Null => SetAlone(s, k, v, i, g).trade \in {s.trade, Null}
<1>1. CASE s.trade = Null
  <2>1. SetAlone(s, k, v, i, g) = LookForEntry(s, k, v, i, g)
    BY <1>1, AloneStep
  <2>2. LookForEntry(s, k, v, i, g) \in SetStates(k) /\ Since(LookForEntry(s, k, v, i, g), i)
    <3>1. /\ LookForEntry(s, k, v, i, g) \in SetStates(k)
          /\ LookForEntry(s, k, v, i, g).trade # Null => LookForEntry(s, k, v, i, g).trade.entry = i
      BY <1>1, LookFits
    <3>2. QED
      BY <3>1 DEF Since
  <2>3. QED
    BY <1>1, <2>1, <2>2
<1>2. CASE s.trade # Null
  BY <1>2, AloneStep, RestFits
<1>3. QED
  BY <1>1, <1>2

(***************************************************************************)
(* NativeSets: first trades                                                *)
(***************************************************************************)
\* The first trade of a set, closed or still open.
FirstEntered(f, s) == IF f # Null THEN f.trade ELSE s.trade

\* A trade, and the native one it is at rounded levels.
Alike(t, u) ==
  /\ t.direction = u.direction
  /\ t.price = Rounded(u.price, Grid) /\ t.stop = Rounded(u.stop, Grid) /\ t.target = Rounded(u.target, Grid)

\* One set on two clocks; at bars i and j of them its trade is as old by the
\* second as by the first, or younger.
Twins(s, n) ==
  /\ s.bias = n.bias /\ s.ready = n.ready /\ (s.trade = Null <=> n.trade = Null)
  /\ s.trade # Null => Alike(s.trade, n.trade)

Aged(k, s, n, i, j) ==
  s.trade # Null =>
    /\ i - s.trade.entry >= j - n.trade.entry
    /\ Finest(k) => i - s.trade.entry = j - n.trade.entry

\* The last bar gives the set nothing more to do, unless it leaves by age or
\* by the second timeframe.
Quiet(s, k, v) ==
  /\ s.trade = Null => \A i \in Nat : LookForEntry(s, k, v, i, Grid) = s
  /\ s.trade # Null /\ Usable(v)
       => ~HitStop(s.trade, v.ltf.close) /\ ~HitTarget(s.trade, v.ltf.close)

ClosureFits(f) == f = Null \/ f.trade \in SetTrades

ClocksFit(k) ==
  /\ solo[k] \in SetStates(k) /\ native[k] \in SetStates(k)
  /\ Since(solo[k], baseBar) /\ nativeBar[k] \in Nat
  /\ ClosureFits(first["solo"][k]) /\ ClosureFits(first["native"][k])

\* While closes part no first trade from its rounded one, the two clocks
\* keep step, and end it together, as far as its price or its age decides.
AtFirst(k) ==
  /\ first["native"][k] = Null /\ Twins(solo[k], native[k])
  /\ Aged(k, solo[k], native[k], baseBar, nativeBar[k]) /\ Quiet(solo[k], k, View(rows, k))

OnceOver(k) ==
  ByPrice(first["solo"][k]) \/ Finest(k)
    => first["native"][k] # Null /\ SameExit(first["solo"][k], first["native"][k])

EnteredAlike(k) ==
  LET t == FirstEntered(first["solo"][k], solo[k]) u == FirstEntered(first["native"][k], native[k]) IN
  /\ t = Null <=> u = Null
  /\ t # Null => Alike(t, u)
  /\ k \in between => u # Null

FirstKept(k) ==
  /\ first["pair"][k] = first["solo"][k]
  /\ first["solo"][k] = Null => pair[k] = solo[k]
  /\ ClocksFit(k) /\ EnteredAlike(k)
  /\ k \notin between => IF first["solo"][k] = Null THEN AtFirst(k) ELSE OnceOver(k)

(* The step of one set.                                                    *)
LEMMA NextOfSet ==
  ASSUME NEW k \in Triples, NativeNext
  PROVE  LET v == View(rows', k) i == baseBar + 1 j == nativeBar'[k]
             managed == ManageTrade(pair[k], v, i) IN
         /\ pair'[k] = IF managed.trade # Null THEN managed ELSE LookForEntry(managed, k, v, i, Grid)
         /\ solo'[k] = SetAlone(solo[k], k, v, i, Grid)
         /\ j = IF Opens(k + 2, i) THEN nativeBar[k] + 1 ELSE nativeBar[k]
         /\ native'[k] = IF Opens(k + 2, i) THEN SetAlone(native[k], k, v, j, 1) ELSE native[k]
         /\ first'["pair"][k] = FirstOf(first["pair"][k], pair[k], pair'[k], v, i)
         /\ first'["solo"][k] = FirstOf(first["solo"][k], solo[k], solo'[k], v, i)
         /\ first'["native"][k] = FirstOf(first["native"][k], native[k], native'[k], v, j)
<1>1. "pair" \in Runners /\ "solo" \in Runners /\ "native" \in Runners
  BY DEF Runners
<1>2. pair'[k] = LET v == View(rows', k) managed == ManageTrade(pair[k], v, baseBar + 1) IN
                 IF managed.trade # Null THEN managed ELSE LookForEntry(managed, k, v, baseBar + 1, Grid)
  BY DEF NativeNext, PairBar
<1>3. /\ solo'[k] = SetAlone(solo[k], k, View(rows', k), baseBar + 1, Grid)
      /\ nativeBar'[k] = IF Opens(k + 2, baseBar + 1) THEN nativeBar[k] + 1 ELSE nativeBar[k]
      /\ native'[k] = IF Opens(k + 2, baseBar + 1)
                      THEN SetAlone(native[k], k, View(rows', k), nativeBar'[k], 1)
                      ELSE native[k]
  BY DEF NativeNext
<1>4. first' = [r \in Runners |-> [h \in Triples |->
       LET v == View(rows', h) IN
       CASE r = "pair" -> FirstOf(first[r][h], pair[h], pair'[h], v, baseBar + 1)
         [] r = "solo" -> FirstOf(first[r][h], solo[h], solo'[h], v, baseBar + 1)
         [] OTHER -> FirstOf(first[r][h], native[h], native'[h], v, nativeBar'[h])]]
  BY DEF NativeNext
<1>5. /\ first'["pair"][k] = FirstOf(first["pair"][k], pair[k], pair'[k], View(rows', k), baseBar + 1)
      /\ first'["solo"][k] = FirstOf(first["solo"][k], solo[k], solo'[k], View(rows', k), baseBar + 1)
      /\ first'["native"][k] = FirstOf(first["native"][k], native[k], native'[k], View(rows', k), nativeBar'[k])
  BY <1>1, <1>4
<1>6. QED
  BY <1>2, <1>3, <1>5, Zenon

(* The sets whose first trade a close parts from its rounded one.          *)
LEMMA BetweenIs ==
  ASSUME NEW k \in Triples, NativeNext
  PROVE  LET v == View(rows', k)
             split == /\ first["native"][k] = Null /\ Usable(v)
                      /\ \E t \in {native[k].trade, native'[k].trade} \ {Null} : Splits(t, v.ltf.close) IN
         /\ k \in between' <=> k \in between \/ split
         /\ split => native[k].trade # Null \/ native'[k].trade # Null
<1> DEFINE v(h) == View(rows', h)
           split(h) == /\ first["native"][h] = Null /\ Usable(v(h))
                       /\ \E t \in {native[h].trade, native'[h].trade} \ {Null} : Splits(t, v(h).ltf.close)
<1>1. between' = between \cup {h \in Triples : split(h)}
  BY DEF NativeNext
<1>2. split(k) => native[k].trade # Null \/ native'[k].trade # Null
  OBVIOUS
<1> HIDE DEF split
<1>3. k \in between' <=> k \in between \/ split(k)
  BY <1>1
<1>4. QED
  BY <1>2, <1>3 DEF split

LEMMA ViewFits ==
  ASSUME NEW now, \A j \in Ladders : RowFits(now[j]), NEW k \in Triples
  PROVE  RowFits(View(now, k).ltf)
BY ThirdTimeframe DEF View

(* What was closed first stays.                                            *)
LEMMA FirstStays ==
  ASSUME NEW known, known # Null, NEW before, NEW after, NEW v, NEW i
  PROVE  FirstOf(known, before, after, v, i) = known
BY DEF FirstOf

(* Up to its first exit a set is the same within the pair and by itself.   *)
LEMMA PairFollowsSolo ==
  ASSUME NEW k \in Triples, baseBar \in Nat, RowsFit', FirstKept(k), NativeNext
  PROVE  /\ first'["pair"][k] = first'["solo"][k]
         /\ first'["solo"][k] = Null => pair'[k] = solo'[k]
<1> DEFINE v == View(rows', k)
           i == baseBar + 1
           s == solo[k]
<1>1. CASE first["solo"][k] # Null
  BY <1>1, NextOfSet, FirstStays DEF FirstKept
<1>2. CASE first["solo"][k] = Null
  <2>1. /\ first["pair"][k] = Null /\ pair[k] = s
        /\ s \in SetStates(k) /\ Since(s, baseBar)
    BY <1>2 DEF FirstKept, ClocksFit
  <2>2. RowFits(v.ltf) /\ i \in Nat /\ Grid \in Nat \ {0}
    BY ViewFits, RowsAssumption DEF RowsFit
  <2>3. /\ solo'[k] = SetAlone(s, k, v, i, Grid)
        /\ first'["solo"][k] = FirstOf(Null, s, SetAlone(s, k, v, i, Grid), v, i)
        /\ first'["pair"][k] = FirstOf(Null, s, pair'[k], v, i)
        /\ pair'[k] = IF ManageTrade(s, v, i).trade # Null THEN ManageTrade(s, v, i)
                      ELSE LookForEntry(ManageTrade(s, v, i), k, v, i, Grid)
    BY <1>2, <2>1, NextOfSet
  <2> HIDE DEF s, v, i
  <2>4. CASE s.trade = Null
    <3>1. ~Ends(s, v, i)
      BY <2>4 DEF Ends
    <3>2. pair'[k] = LookForEntry(s, k, v, i, Grid) /\ solo'[k] = LookForEntry(s, k, v, i, Grid)
      BY <2>1, <2>2, <2>3, <2>4, <3>1, ManageKeeps, AloneStep
    <3>3. QED
      BY <2>3, <3>2
  <2>5. CASE s.trade # Null /\ ~Ends(s, v, i)
    <3>1. pair'[k] = s /\ solo'[k] = s
      BY <2>1, <2>2, <2>3, <2>5, ManageKeeps, AloneStep
    <3>2. QED
      BY <2>3, <3>1
  <2>6. CASE Ends(s, v, i)
    <3>1. /\ first'["solo"][k] = Ended(s, v, i) /\ Ended(s, v, i) # Null
      BY <2>1, <2>2, <2>3, <2>6, AloneStep, EndedFits, RowsAssumption
    <3>2. pair'[k] = LookForEntry(AtRest, k, v, i, Grid)
      BY <2>3, <2>6, ManageEnds, RestFits
    <3>3. pair'[k].trade # Null => pair'[k].trade.entry = i
      <4>1. AtRest \in SetStates(k) /\ AtRest.trade = Null
        BY RestFits
      <4>2. LookForEntry(AtRest, k, v, i, Grid).trade # Null => LookForEntry(AtRest, k, v, i, Grid).trade.entry = i
        BY <2>2, <4>1, LookFits
      <4>3. QED
        BY <3>2, <4>2
    <3>4. s.trade # Null /\ s.trade.entry # i
      <4>1. s.trade # Null /\ s.trade.entry \in Nat /\ s.trade.entry <= baseBar
        BY <2>1, <2>6 DEF Ends, Since, SetStates, SetTrades
      <4>2. QED
        BY <4>1 DEF i
    <3>5. first'["pair"][k] = Ended(s, v, i)
      BY <2>3, <3>3, <3>4 DEF FirstOf
    <3>6. QED
      BY <3>1, <3>5
  <2>7. QED
    BY <2>4, <2>5, <2>6 DEF Ends
<1>3. QED
  BY <1>1, <1>2

LEMMA EnteredStays ==
  ASSUME NEW k \in Triples, NEW s \in SetStates(k), NEW v, RowFits(v.ltf), NEW i \in Nat, NEW g \in Nat \ {0},
         NEW f, ClosureFits(f)
  PROVE  LET after == SetAlone(s, k, v, i, g) IN
         /\ ClosureFits(FirstOf(f, s, after, v, i))
         /\ FirstEntered(f, s) # Null => FirstEntered(FirstOf(f, s, after, v, i), after) = FirstEntered(f, s)
<1>1. CASE f # Null
  BY <1>1, FirstStays DEF FirstEntered
<1>2. CASE f = Null /\ ~Ends(s, v, i)
  <2>1. FirstOf(Null, s, SetAlone(s, k, v, i, g), v, i) = Null
    BY <1>2, AloneStep
  <2>2. s.trade # Null => SetAlone(s, k, v, i, g) = s
    BY <1>2, AloneStep
  <2>3. QED
    BY <1>2, <2>1, <2>2 DEF FirstEntered, ClosureFits
<1>3. CASE f = Null /\ Ends(s, v, i)
  <2>1. FirstOf(Null, s, SetAlone(s, k, v, i, g), v, i) = Ended(s, v, i)
    BY <1>3, AloneStep
  <2>2. Ended(s, v, i).trade = s.trade /\ Ended(s, v, i) # Null
    BY <1>3, EndedFits, RowsAssumption
  <2>3. s.trade \in SetTrades
    BY <1>3 DEF Ends, SetStates
  <2>4. QED
    BY <1>3, <2>1, <2>2, <2>3 DEF FirstEntered, ClosureFits
<1>4. QED
  BY <1>1, <1>2, <1>3

(* Twins that hold nothing do the same at a bar of both.                   *)
LEMMA TwinsEnter ==
  ASSUME NEW k \in Triples, NEW s \in SetStates(k), NEW n \in SetStates(k), Twins(s, n), s.trade = Null,
         NEW v, RowFits(v.ltf), NEW i \in Nat, NEW j \in Nat
  PROVE  LET a == SetAlone(s, k, v, i, Grid) b == SetAlone(n, k, v, j, 1) IN
         /\ a = LookForEntry(s, k, v, i, Grid) /\ b = LookForEntry(n, k, v, j, 1)
         /\ Twins(a, b) /\ (a.trade # Null => a.trade.entry = i /\ b.trade.entry = j)
         /\ b.trade # Null => Usable(v) /\ ~HitStop(b.trade, v.ltf.close) /\ ~HitTarget(b.trade, v.ltf.close)
<1> DEFINE a == LookForEntry(s, k, v, i, Grid)
           b == LookForEntry(n, k, v, j, 1)
<1>1. n.trade = Null /\ s.bias = n.bias /\ s.ready = n.ready /\ Grid \in Nat \ {0} /\ 1 \in Nat \ {0}
  BY RowsAssumption DEF Twins
<1>2. SetAlone(s, k, v, i, Grid) = a /\ SetAlone(n, k, v, j, 1) = b
  BY <1>1 DEF SetAlone
<1>3. CASE ~Usable(v)
  <2>1. a = s /\ b = n
    BY <1>3 DEF LookForEntry
  <2>2. QED
    BY <1>1, <1>2, <2>1
<1>4. CASE Usable(v)
  <2>1. BiasOf(s, v) = BiasOf(n, v)
    BY <1>1 DEF BiasOf
  <2>2. /\ a.bias = BiasOf(s, v) /\ a.ready = (s.ready \/ (a.bias # Null /\ SetsUp(v, a.bias)))
        /\ a.trade = IF a.ready /\ Triggers(v, a.bias) THEN Entered(k, a.bias, v, i, Grid) ELSE Null
    BY <1>1, <1>4, LookFits
  <2>3. a.ready => a.bias \in Directions
    BY <1>1, <1>4, LookFits
  <2>4. /\ b.bias = BiasOf(n, v) /\ b.ready = (n.ready \/ (b.bias # Null /\ SetsUp(v, b.bias)))
        /\ b.trade = IF b.ready /\ Triggers(v, b.bias) THEN Entered(k, b.bias, v, j, 1) ELSE Null
    BY <1>1, <1>4, LookFits
  <2> HIDE DEF a, b
  <2>5. a.bias = b.bias /\ a.ready = b.ready
    BY <1>1, <2>1, <2>2, <2>4
  <2>6. CASE ~(a.ready /\ Triggers(v, a.bias))
    <3>1. a.trade = Null /\ b.trade = Null
      BY <2>2, <2>4, <2>5, <2>6
    <3>2. QED
      BY <1>2, <2>5, <3>1 DEF Twins, a, b
  <2>7. CASE a.ready /\ Triggers(v, a.bias)
    <3> DEFINE d == a.bias
               px == v.ltf.close
               risk == Sign[d] * v.ltf.atr
    <3>1. d \in Directions /\ a.trade = Entered(k, d, v, i, Grid) /\ b.trade = Entered(k, d, v, j, 1)
      BY <2>2, <2>3, <2>4, <2>5, <2>7
    <3> HIDE DEF d
    <3>2. /\ a.trade \in SetTrades /\ a.trade.direction = d /\ a.trade.entry = i
          /\ a.trade.price = Rounded(px, Grid) /\ a.trade.stop = Rounded(px - risk, Grid)
          /\ a.trade.target = Rounded(px + Reward * risk, Grid)
      BY <1>1, <1>4, <3>1, EnteredFits
    <3>3. /\ b.trade \in SetTrades /\ b.trade.direction = d /\ b.trade.entry = j
          /\ b.trade.price = Rounded(px, 1) /\ b.trade.stop = Rounded(px - risk, 1)
          /\ b.trade.target = Rounded(px + Reward * risk, 1)
          /\ px \in Int /\ px - risk \in Int /\ px + Reward * risk \in Int
      BY <1>1, <1>4, <3>1, EnteredFits
    <3>4. b.trade.price = px /\ b.trade.stop = px - risk /\ b.trade.target = px + Reward * risk
      <4> HIDE DEF px, risk
      <4>1. QED
        BY <1>1, <3>3, RoundedFits
    <3>5. Alike(a.trade, b.trade)
      BY <3>2, <3>3, <3>4 DEF Alike
    <3>6. a.trade # Null /\ b.trade # Null
      BY <3>2, <3>3, RowsAssumption
    <3>7. ~HitStop(b.trade, px) /\ ~HitTarget(b.trade, px)
      <4>1. Sign[d] \in {1, -1} /\ v.ltf.atr \in Int /\ v.ltf.atr > 0 /\ Reward \in Nat /\ Reward >= 1 /\ px \in Int
        BY <1>4, <3>1, RowsAssumption DEF Usable, RowFits, Directions, Sign
      <4> DEFINE g == Sign[d]
                 w == v.ltf.atr
                 r == Reward * w
      <4>2. r \in Int /\ r > 0
        <5>1. Reward * w >= 1 * w
          BY <4>1
        <5>2. QED
          BY <4>1, <5>1
      <4>3. Reward * (g * w) = g * r
        BY <4>1
      <4>4. b.trade.stop = px - g * w /\ b.trade.target = px + g * r
        BY <3>4, <4>3
      <4>5. g \in {1, -1} /\ w \in Int /\ w > 0 /\ px \in Int
        BY <4>1
      <4> HIDE DEF g, w, r, px, risk
      <4>6. ~(g * (px - (px - g * w)) <= 0) /\ ~(g * (px - (px + g * r)) >= 0)
        BY <4>2, <4>5
      <4>7. QED
        BY <3>3, <4>4, <4>6 DEF HitStop, HitTarget, g
    <3>8. QED
      BY <1>2, <1>4, <2>5, <3>2, <3>3, <3>5, <3>6, <3>7 DEF Twins, a, b
  <2>8. QED
    BY <2>6, <2>7
<1>5. QED
  BY <1>3, <1>4

(* A close that parts no trade from its rounded one hits both or neither.  *)
LEMMA AlikeHit ==
  ASSUME NEW t \in SetTrades, NEW u \in SetTrades, Alike(t, u), NEW px, ~Splits(u, px)
  PROVE  (HitStop(t, px) <=> HitStop(u, px)) /\ (HitTarget(t, px) <=> HitTarget(u, px))
<1>1. AtGrid(u).direction = t.direction /\ AtGrid(u).stop = t.stop /\ AtGrid(u).target = t.target
  BY DEF AtGrid, Alike, SetTrades
<1>2. (HitStop(t, px) <=> HitStop(AtGrid(u), px)) /\ (HitTarget(t, px) <=> HitTarget(AtGrid(u), px))
  BY <1>1 DEF HitStop, HitTarget
<1>3. QED
  BY <1>2 DEF Splits

LEMMA AlikeNear ==
  ASSUME NEW t, NEW u \in SetTrades, Alike(t, u)
  PROVE  SameEntry(t, u)
<1>1. u.price \in Int /\ u.stop \in Int /\ u.target \in Int /\ Grid \in Nat \ {0}
  BY RowsAssumption DEF SetTrades
<1>2. QED
  BY <1>1, RoundedFits DEF Alike, SameEntry, Near

(* Twins that see the same rows leave by price together, and otherwise the *)
(* one whose trade is older leaves whenever the other does.                *)
LEMMA TwinsLeave ==
  ASSUME NEW k \in Triples, NEW s \in SetStates(k), NEW n \in SetStates(k), Twins(s, n), s.trade # Null,
         NEW v, Usable(v), RowFits(v.ltf), ~Splits(n.trade, v.ltf.close), NEW h \in Int, NEW g \in Int, h >= g
  PROVE  LET old == Leaving(s.trade, v, h) out == Leaving(n.trade, v, g) IN
         /\ out # Null => old # Null
         /\ old # Null /\ (old.reason \in {"STOP", "TARGET"} \/ h = g)
              => out # Null /\ old.reason = out.reason /\ Near(old.price, out.price)
         /\ HitStop(s.trade, v.ltf.close) \/ HitTarget(s.trade, v.ltf.close) => old # Null
<1> DEFINE px == v.ltf.close
           t == s.trade
           u == n.trade
           old == Leaving(t, v, h)
           out == Leaving(u, v, g)
           turned == Phase(v.mtf) = PullbackAgainst[t.direction]
<1>1. t \in SetTrades /\ u \in SetTrades /\ Alike(t, u) /\ t.direction = u.direction
  BY DEF SetStates, Twins, Alike
<1>2. (HitStop(t, px) <=> HitStop(u, px)) /\ (HitTarget(t, px) <=> HitTarget(u, px))
  BY <1>1, AlikeHit
<1>3. /\ px \in Int /\ t.stop \in Int /\ t.target \in Int /\ u.stop \in Int /\ u.target \in Int
      /\ Near(t.stop, u.stop) /\ Near(t.target, u.target) /\ Near(px, px)
  <2>1. px \in Int /\ t.stop \in Int /\ t.target \in Int /\ u.stop \in Int /\ u.target \in Int
    BY <1>1 DEF Usable, RowFits, SetTrades
  <2>2. Near(t.stop, u.stop) /\ Near(t.target, u.target)
    BY <1>1, AlikeNear DEF SameEntry
  <2>3. Near(px, px)
    BY <2>1, RowsAssumption DEF Near
  <2>4. QED
    BY <2>1, <2>2, <2>3
<1>4. /\ HitStop(t, px) => old = [price |-> t.stop, reason |-> "STOP"]
      /\ ~HitStop(t, px) /\ HitTarget(t, px) => old = [price |-> t.target, reason |-> "TARGET"]
      /\ ~HitStop(t, px) /\ ~HitTarget(t, px)
           => IF turned /\ h > TrailAfter THEN old = [price |-> px, reason |-> "MTF_TRAIL"]
              ELSE IF h >= MaxHeld THEN old = [price |-> px, reason |-> "TIME"] ELSE old = Null
  BY <1>1, LeavingFits
<1>5. /\ HitStop(t, px) => out = [price |-> u.stop, reason |-> "STOP"]
      /\ ~HitStop(t, px) /\ HitTarget(t, px) => out = [price |-> u.target, reason |-> "TARGET"]
      /\ ~HitStop(t, px) /\ ~HitTarget(t, px)
           => IF turned /\ g > TrailAfter THEN out = [price |-> px, reason |-> "MTF_TRAIL"]
              ELSE IF g >= MaxHeld THEN out = [price |-> px, reason |-> "TIME"] ELSE out = Null
  <2>1. /\ HitStop(u, px) => out = [price |-> u.stop, reason |-> "STOP"]
        /\ ~HitStop(u, px) /\ HitTarget(u, px) => out = [price |-> u.target, reason |-> "TARGET"]
        /\ ~HitStop(u, px) /\ ~HitTarget(u, px)
             => IF Phase(v.mtf) = PullbackAgainst[u.direction] /\ g > TrailAfter
                THEN out = [price |-> px, reason |-> "MTF_TRAIL"]
                ELSE IF g >= MaxHeld THEN out = [price |-> px, reason |-> "TIME"] ELSE out = Null
    BY <1>1, LeavingFits
  <2> HIDE DEF px, out, t, u
  <2>2. QED
    BY <1>1, <1>2, <2>1
<1>6. TrailAfter \in Nat /\ MaxHeld \in Nat /\ Null \notin Exits
  BY RowsAssumption
<1>7. \A x \in Int, r \in Reasons : [price |-> x, reason |-> r] # Null
  BY <1>6 DEF Exits
<1> HIDE DEF px, t, u, old, out, turned
<1>8. CASE HitStop(t, px)
  BY <1>3, <1>4, <1>5, <1>7, <1>8 DEF Reasons, old, out, t, u, px
<1>9. CASE ~HitStop(t, px) /\ HitTarget(t, px)
  BY <1>3, <1>4, <1>5, <1>7, <1>9 DEF Reasons, old, out, t, u, px
<1>10. CASE ~HitStop(t, px) /\ ~HitTarget(t, px)
  <2>1. out # Null => old # Null
    BY <1>3, <1>4, <1>5, <1>6, <1>7, <1>10 DEF Reasons
  <2>2. old # Null /\ (old.reason \in {"STOP", "TARGET"} \/ h = g)
          => out # Null /\ old.reason = out.reason /\ Near(old.price, out.price)
    <3>1. old # Null => old.price = px /\ old.reason \in {"MTF_TRAIL", "TIME"}
      BY <1>4, <1>10
    <3>2. h = g => old = out
      BY <1>4, <1>5, <1>10
    <3>3. QED
      BY <1>3, <3>1, <3>2
  <2>3. QED
    BY <1>10, <2>1, <2>2 DEF old, out, t, u, px
<1>11. QED
  BY <1>8, <1>9, <1>10

(* A bar of both clocks.                                                   *)
LEMMA TwinsStep ==
  ASSUME NEW k \in Triples, baseBar \in Nat, RowsFit', FirstKept(k), NativeNext,
         k \notin between', first["solo"][k] = Null, Opens(k + 2, baseBar + 1)
  PROVE  IF first'["solo"][k] = Null THEN AtFirst(k)' ELSE OnceOver(k)'
<1> DEFINE v == View(rows', k)
           px == v.ltf.close
           i == baseBar + 1
           j == nativeBar[k] + 1
           s == solo[k]
           n == native[k]
<1>1. /\ k \notin between /\ first["native"][k] = Null /\ s \in SetStates(k) /\ n \in SetStates(k)
      /\ Since(s, baseBar) /\ Twins(s, n) /\ Aged(k, s, n, baseBar, nativeBar[k]) /\ nativeBar[k] \in Nat
  BY BetweenIs DEF FirstKept, ClocksFit, AtFirst
<1>2. /\ RowFits(v.ltf) /\ i \in Nat /\ j \in Nat /\ Grid \in Nat \ {0} /\ 1 \in Nat \ {0}
      /\ baseBar' = i /\ nativeBar'[k] = j
  <2>1. RowFits(v.ltf) /\ Grid \in Nat \ {0}
    BY ViewFits, RowsAssumption DEF RowsFit
  <2>2. baseBar' = i /\ nativeBar'[k] = j
    BY NextOfSet DEF NativeNext
  <2>3. QED
    BY <1>1, <2>1, <2>2
<1>3. /\ solo'[k] = SetAlone(s, k, v, i, Grid) /\ native'[k] = SetAlone(n, k, v, j, 1)
      /\ first'["solo"][k] = FirstOf(Null, s, SetAlone(s, k, v, i, Grid), v, i)
      /\ first'["native"][k] = FirstOf(Null, n, SetAlone(n, k, v, j, 1), v, j)
  BY <1>1, <1>2, NextOfSet
<1>4. Usable(v) => /\ n.trade # Null => ~Splits(n.trade, px)
                   /\ native'[k].trade # Null => ~Splits(native'[k].trade, px)
  BY <1>1, BetweenIs
<1> HIDE DEF v, px, i, j, s, n
<1>5. solo'[k] \in SetStates(k) /\ native'[k] \in SetStates(k)
  <2>1. SetAlone(s, k, v, i, Grid) \in SetStates(k)
    BY <1>1, <1>2, AloneFits
  <2>2. SetAlone(n, k, v, j, 1) \in SetStates(k)
    BY <1>1, <1>2, AloneFits
  <2>3. QED
    BY <1>3, <2>1, <2>2
<1>6. CASE s.trade = Null
  <2>1. n.trade = Null
    BY <1>1, <1>6 DEF Twins
  <2>2. first'["solo"][k] = Null /\ first'["native"][k] = Null
    BY <1>1, <1>2, <1>3, <1>6, <2>1, AloneStep DEF Ends
  <2>3. /\ solo'[k] = LookForEntry(s, k, v, i, Grid) /\ Twins(solo'[k], native'[k])
        /\ solo'[k].trade # Null => solo'[k].trade.entry = i /\ native'[k].trade.entry = j
        /\ native'[k].trade # Null => Usable(v) /\ ~HitStop(native'[k].trade, v.ltf.close)
                                      /\ ~HitTarget(native'[k].trade, v.ltf.close)
    BY <1>1, <1>2, <1>3, <1>6, TwinsEnter
  <2>4. Aged(k, solo'[k], native'[k], i, j)
    BY <1>2, <2>3 DEF Aged
  <2>5. Quiet(solo'[k], k, v)
    <3>1. CASE solo'[k].trade = Null
      <4>1. ASSUME NEW x \in Nat PROVE LookForEntry(solo'[k], k, v, x, Grid) = solo'[k]
        BY <1>1, <1>2, <1>6, <2>3, <3>1, LookAgain
      <4>2. QED
        BY <3>1, <4>1 DEF Quiet
    <3>2. CASE solo'[k].trade # Null
      <4>1. native'[k].trade # Null /\ Alike(solo'[k].trade, native'[k].trade)
        BY <2>3, <3>2 DEF Twins
      <4>2. solo'[k].trade \in SetTrades /\ native'[k].trade \in SetTrades
        BY <1>5, <3>2, <4>1 DEF SetStates
      <4>3. ~HitStop(solo'[k].trade, px) /\ ~HitTarget(solo'[k].trade, px)
        BY <1>4, <2>3, <4>1, <4>2, AlikeHit DEF px
      <4>4. QED
        BY <3>2, <4>3 DEF Quiet, px
    <3>3. QED
      BY <3>1, <3>2
  <2>6. QED
    BY <1>2, <2>2, <2>3, <2>4, <2>5 DEF AtFirst, v
<1>7. CASE s.trade # Null
  <2> DEFINE h == i - s.trade.entry
             g == j - n.trade.entry
             old == Leaving(s.trade, v, h)
             out == Leaving(n.trade, v, g)
  <2>1. n.trade # Null /\ s.trade.entry \in Nat /\ n.trade.entry \in Nat
    <3>1. n.trade # Null /\ s.trade \in SetTrades /\ n.trade \in SetTrades
      BY <1>1, <1>7 DEF Twins, SetStates
    <3>2. QED
      BY <3>1 DEF SetTrades
  <2>2. h \in Int /\ g \in Int /\ h >= g /\ (Finest(k) => h = g)
    BY <1>1, <1>2, <1>7, <2>1 DEF Aged, i, j
  <2>3. Usable(v) =>
          /\ out # Null => old # Null
          /\ old # Null /\ (old.reason \in {"STOP", "TARGET"} \/ h = g)
               => out # Null /\ old.reason = out.reason /\ Near(old.price, out.price)
          /\ HitStop(s.trade, v.ltf.close) \/ HitTarget(s.trade, v.ltf.close) => old # Null
    BY <1>1, <1>2, <1>4, <1>7, <2>1, <2>2, TwinsLeave DEF px
  <2>4. CASE ~Ends(s, v, i)
    <3>1. Usable(v) => old = Null
      BY <1>7, <2>4 DEF Ends
    <3>2. ~Ends(n, v, j)
      BY <2>1, <2>3, <3>1 DEF Ends
    <3>3. solo'[k] = s /\ native'[k] = n /\ first'["solo"][k] = Null /\ first'["native"][k] = Null
      BY <1>1, <1>2, <1>3, <1>7, <2>1, <2>4, <3>2, AloneStep
    <3>4. Quiet(s, k, v)
      BY <1>7, <2>3, <3>1 DEF Quiet
    <3>5. Aged(k, s, n, i, j)
      BY <2>2 DEF Aged
    <3>6. QED
      BY <1>1, <1>2, <3>3, <3>4, <3>5 DEF AtFirst, v
  <2>5. CASE Ends(s, v, i)
    <3>1. /\ first'["solo"][k] = Ended(s, v, i) /\ Ended(s, v, i) # Null
          /\ Ended(s, v, i).price = old.price /\ Ended(s, v, i).reason = old.reason
      BY <1>1, <1>2, <1>3, <2>5, AloneStep, EndedFits, RowsAssumption
    <3>2. Usable(v) /\ old # Null
      BY <2>5 DEF Ends
    <3>3. SUFFICES ASSUME old.reason \in {"STOP", "TARGET"} \/ Finest(k)
                   PROVE  first'["native"][k] # Null /\ SameExit(first'["solo"][k], first'["native"][k])
      BY <3>1 DEF OnceOver, ByPrice, Finest
    <3>4. out # Null /\ old.reason = out.reason /\ Near(old.price, out.price)
      BY <2>2, <2>3, <3>2, <3>3
    <3>5. Ends(n, v, j)
      BY <2>1, <3>2, <3>4 DEF Ends
    <3>6. /\ first'["native"][k] = Ended(n, v, j) /\ Ended(n, v, j) # Null
          /\ Ended(n, v, j).price = out.price /\ Ended(n, v, j).reason = out.reason
      BY <1>1, <1>2, <1>3, <3>5, AloneStep, EndedFits, RowsAssumption
    <3> HIDE DEF old, out
    <3>7. QED
      BY <3>1, <3>4, <3>6 DEF SameExit
  <2>6. QED
    BY <2>4, <2>5
<1>8. QED
  BY <1>6, <1>7

(* A bar of the finest timeframe alone.                                    *)
LEMMA BetweenStep ==
  ASSUME NEW k \in Triples, baseBar \in Nat, RowsFit', FirstKept(k), NativeNext,
         k \notin between', first["solo"][k] = Null, ~Opens(k + 2, baseBar + 1)
  PROVE  IF first'["solo"][k] = Null THEN AtFirst(k)' ELSE OnceOver(k)'
<1> DEFINE v == View(rows', k)
           i == baseBar + 1
           s == solo[k]
<1>1. /\ first["native"][k] = Null /\ s \in SetStates(k) /\ native[k] \in SetStates(k) /\ Since(s, baseBar)
      /\ nativeBar[k] \in Nat /\ Twins(s, native[k]) /\ Aged(k, s, native[k], baseBar, nativeBar[k])
      /\ Quiet(s, k, v)
  <2>1. v = View(rows, k)
    BY ViewStays
  <2>2. k \notin between
    BY BetweenIs
  <2>3. QED
    BY <2>1, <2>2 DEF FirstKept, ClocksFit, AtFirst
<1>2. RowFits(v.ltf) /\ i \in Nat /\ Grid \in Nat \ {0} /\ baseBar' = i
  <2>1. RowFits(v.ltf) /\ Grid \in Nat \ {0}
    BY ViewFits, RowsAssumption DEF RowsFit
  <2>2. baseBar' = i
    BY DEF NativeNext
  <2>3. QED
    BY <2>1, <2>2
<1>3. /\ native'[k] = native[k] /\ nativeBar'[k] = nativeBar[k] /\ solo'[k] = SetAlone(s, k, v, i, Grid)
      /\ first'["solo"][k] = FirstOf(Null, s, SetAlone(s, k, v, i, Grid), v, i)
  BY NextOfSet
<1>4. first'["native"][k] = Null
  BY <1>1, <1>3, NextOfSet DEF FirstOf
<1>5. s.trade # Null =>
        s.trade \in SetTrades /\ s.trade.entry \in Nat /\ native[k].trade # Null /\ native[k].trade.entry \in Nat
  <2>1. s.trade # Null => s.trade \in SetTrades /\ native[k].trade # Null /\ native[k].trade \in SetTrades
    BY <1>1 DEF SetStates, Twins
  <2>2. QED
    BY <2>1 DEF SetTrades
<1>6. ~Finest(k)
  <2>1. i \in 1..LastBar
    BY RowsAssumption DEF NativeNext
  <2>2. QED
    BY <2>1 DEF Finest, Opens
<1>7. Aged(k, s, native[k], i, nativeBar[k])
  BY <1>1, <1>5, <1>6 DEF Aged
<1> HIDE DEF v, i, s
<1>8. CASE ~Ends(s, v, i)
  <2>1. solo'[k] = s
    <3>1. CASE s.trade = Null
      BY <1>1, <1>2, <1>3, <3>1, AloneStep DEF Quiet
    <3>2. CASE s.trade # Null
      BY <1>1, <1>2, <1>3, <1>8, <3>2, AloneStep
    <3>3. QED
      BY <3>1, <3>2
  <2>2. first'["solo"][k] = Null
    BY <1>1, <1>2, <1>3, <1>8, AloneStep
  <2>3. QED
    BY <1>1, <1>2, <1>3, <1>4, <1>7, <2>1, <2>2 DEF v, AtFirst
<1>9. CASE Ends(s, v, i)
  <2> DEFINE out == Leaving(s.trade, v, i - s.trade.entry)
  <2>1. /\ first'["solo"][k] = Ended(s, v, i) /\ Ended(s, v, i).reason = out.reason
        /\ Ended(s, v, i) # Null
    BY <1>1, <1>2, <1>3, <1>9, AloneStep, EndedFits, RowsAssumption
  <2>2. Usable(v) /\ ~HitStop(s.trade, v.ltf.close) /\ ~HitTarget(s.trade, v.ltf.close) /\ out # Null
    BY <1>1, <1>9 DEF Ends, Quiet
  <2>3. out.reason \notin {"STOP", "TARGET"}
    <3>1. i - s.trade.entry \in Int /\ s.trade \in SetTrades
      BY <1>2, <1>5, <1>9 DEF Ends
    <3>2. \/ out = [price |-> v.ltf.close, reason |-> "MTF_TRAIL"]
          \/ out = [price |-> v.ltf.close, reason |-> "TIME"]
      BY <1>2, <2>2, <3>1, LeavingFits
    <3> HIDE DEF out
    <3>3. QED
      BY <3>2
  <2>4. OnceOver(k)'
    BY <1>6, <2>1, <2>3 DEF OnceOver, ByPrice, Finest
  <2>5. QED
    BY <2>1, <2>4
<1>10. QED
  BY <1>8, <1>9

(* The types of a set on both clocks.                                      *)
LEMMA ClocksStep ==
  ASSUME NEW k \in Triples, baseBar \in Nat, RowsFit', FirstKept(k), NativeNext
  PROVE  /\ ClocksFit(k)'
         /\ FirstEntered(first["solo"][k], solo[k]) # Null
              => FirstEntered(first'["solo"][k], solo'[k]) = FirstEntered(first["solo"][k], solo[k])
         /\ FirstEntered(first["native"][k], native[k]) # Null
              => FirstEntered(first'["native"][k], native'[k]) = FirstEntered(first["native"][k], native[k])
<1> DEFINE v == View(rows', k)
           i == baseBar + 1
           j == nativeBar'[k]
           s == solo[k]
           n == native[k]
           f == first["solo"][k]
           o == first["native"][k]
<1>1. s \in SetStates(k) /\ n \in SetStates(k) /\ Since(s, baseBar) /\ nativeBar[k] \in Nat
      /\ ClosureFits(f) /\ ClosureFits(o)
  BY DEF FirstKept, ClocksFit
<1>2. /\ RowFits(v.ltf) /\ i \in Nat /\ j \in Nat /\ Grid \in Nat \ {0} /\ 1 \in Nat \ {0} /\ baseBar' = i
      /\ solo'[k] = SetAlone(s, k, v, i, Grid)
      /\ native'[k] = IF Opens(k + 2, i) THEN SetAlone(n, k, v, j, 1) ELSE n
      /\ first'["solo"][k] = FirstOf(f, s, solo'[k], v, i)
      /\ first'["native"][k] = FirstOf(o, n, native'[k], v, j)
  <2>1. RowFits(v.ltf) /\ Grid \in Nat \ {0}
    BY ViewFits, RowsAssumption DEF RowsFit
  <2>2. j = IF Opens(k + 2, i) THEN nativeBar[k] + 1 ELSE nativeBar[k]
    BY NextOfSet
  <2>3. j \in Nat
    BY <1>1, <2>2
  <2>4. baseBar' = i
    BY DEF NativeNext
  <2>5. QED
    BY <2>1, <2>3, <2>4, NextOfSet
<1> HIDE DEF v, j, s, n, f, o
<1>3. /\ solo'[k] \in SetStates(k) /\ ClosureFits(first'["solo"][k])
      /\ FirstEntered(f, s) # Null => FirstEntered(first'["solo"][k], solo'[k]) = FirstEntered(f, s)
  BY <1>1, <1>2, AloneFits, EnteredStays
<1>4. Since(solo'[k], i)
  <2>1. s.trade = Null => Since(SetAlone(s, k, v, i, Grid), i)
    BY <1>1, <1>2, AloneFits
  <2>2. s.trade # Null => SetAlone(s, k, v, i, Grid).trade \in {s.trade, Null}
    BY <1>1, <1>2, AloneFits
  <2>3. s.trade # Null => s.trade.entry \in Nat /\ s.trade.entry <= baseBar
    BY <1>1 DEF SetStates, Since, SetTrades
  <2>4. QED
    BY <1>2, <2>1, <2>2, <2>3 DEF Since
<1>5. /\ native'[k] \in SetStates(k) /\ ClosureFits(first'["native"][k])
      /\ FirstEntered(o, n) # Null => FirstEntered(first'["native"][k], native'[k]) = FirstEntered(o, n)
  <2>1. CASE Opens(k + 2, i)
    <3>1. native'[k] = SetAlone(n, k, v, j, 1) /\ SetAlone(n, k, v, j, 1) \in SetStates(k)
      BY <1>1, <1>2, <2>1, AloneFits
    <3>2. /\ ClosureFits(FirstOf(o, n, SetAlone(n, k, v, j, 1), v, j))
          /\ FirstEntered(o, n) # Null
               => FirstEntered(FirstOf(o, n, SetAlone(n, k, v, j, 1), v, j), SetAlone(n, k, v, j, 1))
                    = FirstEntered(o, n)
      BY <1>1, <1>2, EnteredStays
    <3>3. QED
      BY <1>2, <3>1, <3>2
  <2>2. CASE ~Opens(k + 2, i)
    <3>1. native'[k] = n /\ first'["native"][k] = o
      BY <1>2, <2>2 DEF FirstOf
    <3>2. QED
      BY <1>1, <3>1
  <2>3. QED
    BY <2>1, <2>2
<1>6. QED
  BY <1>2, <1>3, <1>4, <1>5 DEF ClocksFit, s, n, f, o, j

(* First trades are entered together, and stay what they are.              *)
LEMMA EnteredStep ==
  ASSUME NEW k \in Triples, baseBar \in Nat, RowsFit', FirstKept(k), NativeNext
  PROVE  EnteredAlike(k)'
<1> DEFINE t == FirstEntered(first["solo"][k], solo[k])
           u == FirstEntered(first["native"][k], native[k])
           t1 == FirstEntered(first'["solo"][k], solo'[k])
           u1 == FirstEntered(first'["native"][k], native'[k])
<1>1. SUFFICES (t1 = Null <=> u1 = Null) /\ (t1 # Null => Alike(t1, u1)) /\ (k \in between' => u1 # Null)
  BY DEF EnteredAlike
<1>2. (t = Null <=> u = Null) /\ (t # Null => Alike(t, u)) /\ (k \in between => u # Null)
  BY DEF FirstKept, EnteredAlike
<1>3. CASE t # Null
  <2>1. u # Null /\ t1 = t /\ u1 = u
    BY <1>2, <1>3, ClocksStep
  <2>2. QED
    BY <1>2, <1>3, <2>1
<1>4. CASE t = Null
  <2> DEFINE v == View(rows', k)
             i == baseBar + 1
             j == nativeBar'[k]
             s == solo[k]
             n == native[k]
  <2>1. /\ first["solo"][k] = Null /\ s.trade = Null /\ first["native"][k] = Null /\ n.trade = Null
        /\ s \in SetStates(k) /\ n \in SetStates(k) /\ k \notin between
    <3>1. ClosureFits(first["solo"][k]) /\ ClosureFits(first["native"][k]) /\ s \in SetStates(k) /\ n \in SetStates(k)
      BY DEF FirstKept, ClocksFit
    <3>2. Null \notin SetTrades
      BY RowsAssumption
    <3>3. QED
      BY <1>2, <1>4, <3>1, <3>2 DEF FirstEntered, ClosureFits
  <2>2. Twins(s, n) /\ Quiet(s, k, View(rows, k)) /\ nativeBar[k] \in Nat
    BY <2>1 DEF FirstKept, AtFirst, ClocksFit
  <2>3. RowFits(v.ltf) /\ i \in Nat /\ j \in Nat /\ Grid \in Nat \ {0}
    <3>1. j = IF Opens(k + 2, i) THEN nativeBar[k] + 1 ELSE nativeBar[k]
      BY NextOfSet
    <3>2. RowFits(v.ltf) /\ Grid \in Nat \ {0}
      BY ViewFits, RowsAssumption DEF RowsFit
    <3>3. QED
      BY <2>2, <3>1, <3>2
  <2>4. /\ solo'[k] = SetAlone(s, k, v, i, Grid)
        /\ native'[k] = IF Opens(k + 2, i) THEN SetAlone(n, k, v, j, 1) ELSE n
        /\ first'["solo"][k] = FirstOf(Null, s, solo'[k], v, i)
        /\ first'["native"][k] = FirstOf(Null, n, native'[k], v, j)
    BY <2>1, NextOfSet
  <2>5. k \in between' => native'[k].trade # Null
    BY <2>1, BetweenIs
  <2> HIDE DEF v, i, j, s, n
  <2>6. first'["solo"][k] = Null /\ first'["native"][k] = Null
    BY <2>1, <2>4 DEF FirstOf
  <2>7. Twins(solo'[k], native'[k])
    <3>1. CASE Opens(k + 2, i)
      BY <2>1, <2>2, <2>3, <2>4, <3>1, TwinsEnter
    <3>2. CASE ~Opens(k + 2, i)
      <4>1. View(rows, k) = v
        BY <3>2, ViewStays DEF v, i
      <4>2. solo'[k] = s
        BY <2>1, <2>2, <2>3, <2>4, <4>1, AloneStep DEF Quiet
      <4>3. QED
        BY <2>2, <2>4, <3>2, <4>2
    <3>3. QED
      BY <3>1, <3>2
  <2>8. QED
    BY <2>5, <2>6, <2>7 DEF FirstEntered, Twins
<1>5. QED
  BY <1>3, <1>4

LEMMA FirstKeeps ==
  ASSUME NEW k \in Triples, baseBar \in Nat, RowsFit', FirstKept(k), NativeNext
  PROVE  FirstKept(k)'
<1>1. /\ first'["pair"][k] = first'["solo"][k]
      /\ first'["solo"][k] = Null => pair'[k] = solo'[k]
  BY PairFollowsSolo
<1>2. ClocksFit(k)' /\ EnteredAlike(k)'
  BY ClocksStep, EnteredStep
<1>3. ASSUME k \notin between' PROVE IF first'["solo"][k] = Null THEN AtFirst(k)' ELSE OnceOver(k)'
  <2>1. k \notin between
    BY <1>3, BetweenIs
  <2>2. CASE first["solo"][k] # Null
    <3>1. first'["solo"][k] = first["solo"][k]
      BY <2>2, NextOfSet, FirstStays
    <3>2. first["native"][k] # Null => first'["native"][k] = first["native"][k]
      BY NextOfSet, FirstStays
    <3>3. OnceOver(k)
      BY <2>1, <2>2 DEF FirstKept
    <3>4. OnceOver(k)'
      BY <3>1, <3>2, <3>3 DEF OnceOver, Finest
    <3>5. QED
      BY <2>2, <3>1, <3>4
  <2>3. CASE first["solo"][k] = Null
    BY <1>3, <2>3, TwinsStep, BetweenStep
  <2>4. QED
    BY <2>2, <2>3
<1>4. QED
  BY <1>1, <1>2, <1>3 DEF FirstKept

LEMMA FirstBegins ==
  ASSUME NativeInit, NEW k \in Triples
  PROVE  FirstKept(k)
<1>1. \A r \in Runners : first[r][k] = Null
  BY DEF NativeInit
<1>2. /\ solo[k] = AtRest /\ pair[k] = AtRest /\ native[k] = AtRest /\ nativeBar[k] = 0 /\ k \notin between
  BY DEF NativeInit
<1>3. AtRest.trade = Null /\ AtRest \in SetStates(k)
  BY RestFits
<1>4. ~Usable(View(rows, k))
  <2>1. rows[k + 2] = Null
    BY ThirdTimeframe DEF NativeInit
  <2>2. QED
    BY <2>1 DEF Usable, View
<1>5. Quiet(AtRest, k, View(rows, k))
  <2>1. \A i \in Nat : LookForEntry(AtRest, k, View(rows, k), i, Grid) = AtRest
    BY <1>4 DEF LookForEntry
  <2>2. QED
    BY <1>3, <2>1 DEF Quiet
<1>6. Twins(AtRest, AtRest) /\ Since(AtRest, baseBar) /\ Aged(k, AtRest, AtRest, baseBar, nativeBar[k])
  BY <1>3 DEF Twins, Since, Aged
<1>7. first["pair"][k] = Null /\ first["solo"][k] = Null /\ first["native"][k] = Null
  BY <1>1 DEF Runners
<1>8. ClocksFit(k) /\ EnteredAlike(k)
  BY <1>2, <1>3, <1>6, <1>7 DEF ClocksFit, ClosureFits, EnteredAlike, FirstEntered
<1>9. QED
  BY <1>2, <1>5, <1>6, <1>7, <1>8 DEF FirstKept, AtFirst

LEMMA FirstAgree == (\A k \in Triples : FirstKept(k)) => FirstTradesAgree
<1> SUFFICES ASSUME \A k \in Triples : FirstKept(k) PROVE FirstTradesAgree
  OBVIOUS
<1>1. ASSUME NEW k \in Triples
      PROVE  LET p == first["pair"][k] s == first["solo"][k] n == first["native"][k] IN
             /\ p = s
             /\ s # Null /\ n # Null => SameEntry(s.trade, n.trade)
             /\ k \notin between =>
                  /\ n # Null => s # Null
                  /\ s # Null /\ (ByPrice(s) \/ Openings[k + 2] = 1..LastBar) => n # Null /\ SameExit(s, n)
  <2> DEFINE s == first["solo"][k]
             n == first["native"][k]
  <2>1. FirstKept(k)
    OBVIOUS
  <2>2. s # Null /\ n # Null => SameEntry(s.trade, n.trade)
    <3>1. s # Null /\ n # Null => s.trade \in SetTrades /\ n.trade \in SetTrades /\ Alike(s.trade, n.trade)
      BY <2>1, RowsAssumption DEF FirstKept, ClocksFit, ClosureFits, EnteredAlike, FirstEntered
    <3>2. QED
      BY <3>1, AlikeNear
  <2>3. QED
    BY <2>1, <2>2 DEF FirstKept, AtFirst, OnceOver, Finest
<1>2. QED
  BY <1>1 DEF FirstTradesAgree

(***************************************************************************)
(* NativeSets: the pair's book                                             *)
(***************************************************************************)
PairFits == \A k \in Triples : pair[k] \in SetStates(k) /\ Since(pair[k], baseBar)

BookRows == [trade: SetTrades, exit: Nat \cup {Null}, penalty: Nat]

\* Of each trade held there is one row, still open; of each other trade a
\* row with its exit, at most one.
Booked ==
  /\ book \subseteq BookRows /\ IsFiniteSet(book)
  /\ \A b, c \in book : b.trade = c.trade => b = c
  /\ \A k \in Triples : pair[k].trade # Null => \E b \in book : b.trade = pair[k].trade
  /\ \A b \in book : /\ b.exit = Null <=> pair[b.trade.set].trade = b.trade
                     /\ b.exit # Null => b.trade.entry < b.exit /\ b.exit <= baseBar
                     /\ b.trade.entry <= baseBar

LEMMA PairBarOf ==
  ASSUME NativeNext
  PROVE  PairBar(rows', baseBar + 1)
BY DEF NativeNext

Managed(k) == ManageTrade(pair[k], View(rows', k), baseBar + 1)

(* What becomes of a set of the pair.                                      *)
LEMMA ManagedIs ==
  ASSUME NEW k \in Triples, baseBar \in Nat, RowsFit', PairFits, NativeNext
  PROVE  /\ Managed(k) \in {pair[k], AtRest} /\ Managed(k) \in SetStates(k) /\ Since(Managed(k), baseBar)
         /\ pair'[k] = IF Managed(k).trade # Null THEN Managed(k)
                       ELSE LookForEntry(Managed(k), k, View(rows', k), baseBar + 1, Grid)
         /\ pair'[k] \in SetStates(k) /\ Since(pair'[k], baseBar + 1)
         /\ Managed(k).trade = Null /\ pair'[k].trade # Null => pair'[k].trade.entry = baseBar + 1
         /\ Managed(k).trade # Null => Managed(k).trade = pair[k].trade /\ pair'[k] = Managed(k)
<1> DEFINE v == View(rows', k)
           m == Managed(k)
<1>1. RowFits(v.ltf) /\ baseBar + 1 \in Nat /\ Grid \in Nat \ {0}
  BY ViewFits, RowsAssumption DEF RowsFit
<1>2. pair[k] \in SetStates(k) /\ Since(pair[k], baseBar)
  BY DEF PairFits
<1>3. m \in {pair[k], AtRest}
  BY ManageKeeps, ManageEnds DEF Managed
<1>4. m \in SetStates(k) /\ Since(m, baseBar)
  BY <1>2, <1>3, RestFits DEF Since
<1>5. pair'[k] = IF m.trade # Null THEN m ELSE LookForEntry(m, k, v, baseBar + 1, Grid)
  BY NextOfSet DEF Managed
<1> HIDE DEF v, m
<1>6. m.trade # Null => m.trade = pair[k].trade /\ pair'[k] = m
  BY <1>3, <1>5, RestFits
<1>7. CASE m.trade = Null
  <2>1. pair'[k] = LookForEntry(m, k, v, baseBar + 1, Grid)
    BY <1>5, <1>7
  <2>2. /\ LookForEntry(m, k, v, baseBar + 1, Grid) \in SetStates(k)
        /\ LookForEntry(m, k, v, baseBar + 1, Grid).trade # Null
             => LookForEntry(m, k, v, baseBar + 1, Grid).trade.entry = baseBar + 1
    BY <1>1, <1>4, <1>7, LookFits
  <2>3. Since(pair'[k], baseBar + 1)
    BY <1>1, <2>1, <2>2 DEF Since
  <2>4. QED
    BY <1>3, <1>4, <1>5, <1>6, <1>7, <2>1, <2>2, <2>3 DEF v, m
<1>8. CASE m.trade # Null
  <2>1. m.trade.entry \in Nat
    BY <1>4, <1>8 DEF SetStates, SetTrades
  <2>2. Since(m, baseBar + 1)
    BY <1>4, <2>1 DEF Since
  <2>3. QED
    BY <1>3, <1>4, <1>5, <1>6, <1>8, <2>2 DEF v, m
<1>9. QED
  BY <1>7, <1>8

(* Who enters, what it is charged, and the rows of the book.               *)
Entering == {k \in Triples : Managed(k).trade = Null /\ pair'[k].trade # Null}
Beside(k) == {j \in Triples \ {k} : /\ pair'[j].trade # Null /\ (j < k \/ Managed(j).trade # Null)
                                    /\ pair'[j].trade.direction = pair'[k].trade.direction}
Closed(b) == IF b.exit = Null /\ Managed(b.trade.set).trade = Null THEN [b EXCEPT !.exit = baseBar + 1] ELSE b
NewRow(k) == [trade |-> pair'[k].trade, exit |-> Null, penalty |-> Cardinality(Beside(k))]

LEMMA BookIs ==
  ASSUME baseBar \in Nat, RowsFit', PairFits, Booked, NativeNext
  PROVE  book' = {Closed(b) : b \in book} \cup {NewRow(k) : k \in Entering}
<1> DEFINE i == baseBar + 1
           managed == [k \in Triples |-> ManageTrade(pair[k], View(rows', k), i)]
           entered == [k \in Triples |-> IF managed[k].trade # Null THEN managed[k]
                                         ELSE LookForEntry(managed[k], k, View(rows', k), i, Grid)]
           Charge(k) == Cardinality({j \in Triples \ {k} :
                          LET t == HeldThen(pair, managed, entered, j, k) IN
                          t # Null /\ t.direction = entered[k].trade.direction})
           fresh == {k \in Triples : managed[k].trade = Null /\ entered[k].trade # Null}
           Shut(b) == IF b.exit = Null /\ managed[b.trade.set].trade = Null THEN [b EXCEPT !.exit = i] ELSE b
           Row(k) == [trade |-> entered[k].trade, exit |-> Null, penalty |-> Charge(k)]
<1>1. pair' = entered
  BY PairBarOf DEF PairBar
<1>2. book' = {Shut(b) : b \in book} \cup {Row(k) : k \in fresh}
  BY PairBarOf, Zenon DEF PairBar
<1>3. \A k \in Triples : managed[k] = Managed(k)
  BY DEF Managed
<1>4. ASSUME NEW k \in Triples, NEW j \in Triples \ {k}
      PROVE  LET t == HeldThen(pair, managed, entered, j, k) IN
             (t # Null /\ t.direction = entered[k].trade.direction) <=> j \in Beside(k)
  <2>1. HeldThen(pair, managed, entered, j, k) = IF j < k THEN pair'[j].trade ELSE Managed(j).trade
    BY <1>1, <1>3, Zenon DEF HeldThen
  <2>2. Managed(j).trade # Null => Managed(j).trade = pair'[j].trade
    BY ManagedIs
  <2> HIDE DEF managed, entered
  <2>3. QED
    BY <1>1, <2>1, <2>2 DEF Beside
<1> HIDE DEF managed, entered
<1>5. ASSUME NEW k \in Triples PROVE Row(k) = NewRow(k)
  <2>1. {j \in Triples \ {k} : LET t == HeldThen(pair, managed, entered, j, k) IN
                              t # Null /\ t.direction = entered[k].trade.direction} = Beside(k)
    <3>1. Beside(k) \subseteq Triples \ {k}
      BY DEF Beside
    <3>2. QED
      BY <1>4, <3>1
  <2>2. QED
    BY <1>1, <2>1 DEF NewRow
<1>6. ASSUME NEW b \in book PROVE Shut(b) = Closed(b)
  <2>1. b.trade.set \in Triples
    BY DEF Booked, BookRows, SetTrades
  <2>2. QED
    BY <1>3, <2>1 DEF Closed
<1>7. fresh = Entering
  BY <1>1, <1>3 DEF Entering
<1> HIDE DEF Shut, Row, fresh
<1>8. fresh \subseteq Triples
  BY <1>7 DEF Entering
<1>9. {Shut(b) : b \in book} = {Closed(b) : b \in book}
  BY <1>6, Zenon
<1>10. {Row(k) : k \in fresh} = {NewRow(k) : k \in Entering}
  BY <1>5, <1>7, <1>8
<1>11. QED
  BY <1>2, <1>9, <1>10

LEMMA OneToOne ==
  ASSUME NEW S, NEW T, IsFiniteSet(S), NEW f \in [S -> T],
         \A x, y \in S : f[x] = f[y] => x = y, \A y \in T : \E x \in S : f[x] = y
  PROVE  IsFiniteSet(T) /\ Cardinality(T) = Cardinality(S)
<1>1. f \in Bijection(S, T)
  BY DEF Bijection, Injection, Surjection, IsInjective
<1>2. ExistsBijection(S, T)
  BY <1>1 DEF ExistsBijection
<1>3. QED
  BY <1>2, FS_Bijection

LEMMA TriplesFinite == IsFiniteSet(Triples)
<1>1. Len(Openings) - 2 \in Int
  BY OpeningsAssumption
<1>2. QED
  BY <1>1, FS_Interval DEF Triples

(* A row closed keeps all but its exit.                                    *)
LEMMA ClosedFits ==
  ASSUME baseBar \in Nat, NEW b \in BookRows
  PROVE  /\ Closed(b) \in BookRows /\ Closed(b).trade = b.trade /\ Closed(b).penalty = b.penalty
         /\ Closed(b).exit = IF b.exit = Null /\ Managed(b.trade.set).trade = Null THEN baseBar + 1 ELSE b.exit
BY DEF Closed, BookRows

LEMMA BookedStep ==
  ASSUME baseBar \in Nat, RowsFit', PairFits, Booked, NativeNext
  PROVE  PairFits' /\ Booked'
<1> DEFINE i == baseBar + 1
<1>1. i \in Nat /\ i # Null /\ baseBar' = i
  BY RowsAssumption DEF NativeNext
<1>2. PairFits'
  BY <1>1, ManagedIs DEF PairFits
<1>3. book' = {Closed(b) : b \in book} \cup {NewRow(k) : k \in Entering}
  BY BookIs
<1>4. ASSUME NEW b \in book
      PROVE  /\ b \in BookRows /\ b.trade \in SetTrades /\ b.trade # Null /\ b.trade.set \in Triples /\ b.trade.entry \in Nat
             /\ Closed(b) \in BookRows /\ Closed(b).trade = b.trade /\ Closed(b).penalty = b.penalty
             /\ Closed(b).exit = IF b.exit = Null /\ Managed(b.trade.set).trade = Null THEN i ELSE b.exit
  <2>1. b \in BookRows
    BY DEF Booked
  <2>2. b.trade \in SetTrades
    BY <2>1 DEF BookRows
  <2>3. b.trade # Null
    BY <2>2, RowsAssumption
  <2>4. b.trade.set \in Triples /\ b.trade.entry \in Nat
    BY <2>2 DEF SetTrades
  <2>5. QED
    BY <2>1, <2>2, <2>3, <2>4, ClosedFits
<1>5. ASSUME NEW k \in Entering
      PROVE  /\ k \in Triples /\ Managed(k).trade = Null /\ pair'[k].trade # Null
             /\ NewRow(k).trade = pair'[k].trade /\ NewRow(k).exit = Null /\ NewRow(k).trade.set = k
             /\ NewRow(k).trade.entry = i /\ NewRow(k) \in BookRows
  <2>1. k \in Triples /\ Managed(k).trade = Null /\ pair'[k].trade # Null
    BY DEF Entering
  <2>2. pair'[k] \in SetStates(k) /\ pair'[k].trade.entry = i
    BY <2>1, ManagedIs
  <2>3. pair'[k].trade \in SetTrades /\ pair'[k].trade.set = k
    BY <2>1, <2>2 DEF SetStates
  <2>4. IsFiniteSet(Beside(k))
    BY TriplesFinite, FS_Subset DEF Beside
  <2>5. Cardinality(Beside(k)) \in Nat
    BY <2>4, FS_CardinalityType
  <2>6. QED
    BY <2>1, <2>2, <2>3, <2>5 DEF NewRow, BookRows
<1> HIDE DEF i
<1>6. book' \subseteq BookRows
  BY <1>3, <1>4, <1>5
<1>7. IsFiniteSet(book')
  <2> DEFINE f == [b \in book |-> Closed(b)]
             g == [k \in Entering |-> NewRow(k)]
  <2>1. IsFiniteSet({Closed(b) : b \in book})
    <3>1. f \in Surjection(book, {Closed(b) : b \in book})
      BY DEF Surjection
    <3>2. QED
      BY <3>1, FS_Surjection DEF Booked
  <2>2. IsFiniteSet({NewRow(k) : k \in Entering})
    <3>1. g \in Surjection(Entering, {NewRow(k) : k \in Entering})
      BY DEF Surjection
    <3>2. IsFiniteSet(Entering)
      BY TriplesFinite, FS_Subset DEF Entering
    <3>3. QED
      BY <3>1, <3>2, FS_Surjection
  <2>3. QED
    BY <1>3, <2>1, <2>2, FS_Union
<1>8. ASSUME NEW b \in book', NEW c \in book', b.trade = c.trade PROVE b = c
  <2>1. CASE (\E x \in book : b = Closed(x)) /\ (\E y \in book : c = Closed(y))
    <3>1. PICK x \in book, y \in book : b = Closed(x) /\ c = Closed(y)
      BY <2>1
    <3>2. x.trade = y.trade
      BY <1>4, <1>8, <3>1
    <3>3. x = y
      BY <3>2 DEF Booked
    <3>4. QED
      BY <3>1, <3>3
  <2>2. ASSUME NEW x \in book, NEW k \in Entering PROVE Closed(x).trade # NewRow(k).trade
    <3>1. Closed(x).trade.entry <= baseBar
      BY <1>4 DEF Booked
    <3>2. QED
      BY <1>5, <3>1 DEF i
  <2>3. CASE (\E k \in Entering : b = NewRow(k)) /\ (\E l \in Entering : c = NewRow(l))
    <3>1. PICK k \in Entering, l \in Entering : b = NewRow(k) /\ c = NewRow(l)
      BY <2>3
    <3>2. k = l
      BY <1>5, <1>8, <3>1
    <3>3. QED
      BY <3>1, <3>2
  <2>4. QED
    BY <1>3, <1>8, <2>1, <2>2, <2>3
<1>9. ASSUME NEW k \in Triples, pair'[k].trade # Null PROVE \E b \in book' : b.trade = pair'[k].trade
  <2>1. CASE Managed(k).trade # Null
    <3>1. pair'[k].trade = pair[k].trade /\ pair[k].trade # Null
      BY <2>1, ManagedIs
    <3>2. PICK b \in book : b.trade = pair[k].trade
      BY <3>1 DEF Booked
    <3>3. QED
      BY <1>3, <1>4, <3>1, <3>2
  <2>2. CASE Managed(k).trade = Null
    <3>1. k \in Entering
      BY <1>9, <2>2 DEF Entering
    <3>2. QED
      BY <1>3, <1>5, <3>1
  <2>3. QED
    BY <2>1, <2>2
<1>10. ASSUME NEW b \in book'
       PROVE  /\ b.exit = Null <=> pair'[b.trade.set].trade = b.trade
              /\ b.exit # Null => b.trade.entry < b.exit /\ b.exit <= i
              /\ b.trade.entry <= i
  <2>1. CASE \E x \in book : b = Closed(x)
    <3>1. PICK x \in book : b = Closed(x)
      BY <2>1
    <3> DEFINE k == x.trade.set
    <3>2. /\ k \in Triples /\ b.trade = x.trade /\ x.trade # Null /\ x.trade.entry \in Nat
          /\ b.exit = IF x.exit = Null /\ Managed(k).trade = Null THEN i ELSE x.exit
      BY <1>4, <3>1
    <3>3. /\ x.exit = Null <=> pair[k].trade = x.trade
          /\ x.exit # Null => x.trade.entry < x.exit /\ x.exit <= baseBar
          /\ x.trade.entry <= baseBar
      BY DEF Booked
    <3>4. x.exit \in Nat \cup {Null}
      BY <1>4 DEF BookRows
    <3> HIDE DEF k
    <3>5. b.exit = Null <=> pair'[k].trade = b.trade
      <4>1. CASE Managed(k).trade # Null
        BY <3>2, <3>3, <4>1, ManagedIs
      <4>2. CASE Managed(k).trade = Null
        <5>1. pair'[k].trade # x.trade
          <6>1. pair'[k].trade # Null => pair'[k].trade.entry = i
            BY <3>2, <4>2, ManagedIs DEF i
          <6>2. x.trade.entry # i
            BY <3>2, <3>3 DEF i
          <6>3. QED
            BY <3>2, <6>1, <6>2
        <5>2. b.exit # Null
          BY <1>1, <3>2, <4>2
        <5>3. QED
          BY <3>2, <5>1, <5>2
      <4>3. QED
        BY <4>1, <4>2
    <3>6. QED
      BY <3>2, <3>3, <3>4, <3>5 DEF i, k
  <2>2. CASE \E k \in Entering : b = NewRow(k)
    BY <1>1, <1>5, <2>2
  <2>3. QED
    BY <1>3, <2>1, <2>2
<1>11. Booked'
  BY <1>1, <1>6, <1>7, <1>8, <1>9, <1>10 DEF Booked
<1>12. QED
  BY <1>2, <1>11

(* The charges: rows closed keep their companions, and a new row has a     *)
(* companion for each set beside it.                                       *)
Companions(B, c) == {b \in B : OpenTogether(b, c)}

LEMMA OldChargeKept ==
  ASSUME baseBar \in Nat, RowsFit', PairFits, Booked, NativeNext, NEW c \in book
  PROVE  Cardinality(Companions(book', Closed(c))) = Cardinality(Companions(book, c))
<1> DEFINE S == Companions(book, c)
           T == Companions(book', Closed(c))
           f == [b \in S |-> Closed(b)]
<1>1. book' = {Closed(b) : b \in book} \cup {NewRow(k) : k \in Entering}
  BY BookIs
<1>2. ASSUME NEW b \in book
      PROVE  /\ Closed(b).trade = b.trade /\ b.trade.entry \in Nat /\ b.trade.entry <= baseBar
             /\ b.exit \in Nat \cup {Null}
             /\ Closed(b).exit = b.exit \/ (b.exit = Null /\ Closed(b).exit = baseBar + 1)
  BY ClosedFits DEF Booked, BookRows, SetTrades
<1>3. baseBar + 1 # Null /\ baseBar + 1 \in Nat
  BY RowsAssumption
<1>4. ASSUME NEW b \in book PROVE OpenTogether(Closed(b), Closed(c)) <=> OpenTogether(b, c)
  <2>1. /\ Closed(b).trade = b.trade /\ Closed(c).trade = c.trade
        /\ c.trade.entry \in Nat /\ c.trade.entry <= baseBar
        /\ Closed(b).exit = b.exit \/ (b.exit = Null /\ Closed(b).exit = baseBar + 1)
    BY <1>2
  <2>2. (Closed(b).exit = Null \/ Closed(b).exit > c.trade.entry) <=> (b.exit = Null \/ b.exit > c.trade.entry)
    BY <1>3, <2>1
  <2>3. QED
    BY <2>1, <2>2, Zenon DEF OpenTogether
<1>5. ASSUME NEW k \in Entering PROVE ~OpenTogether(NewRow(k), Closed(c))
  <2>1. NewRow(k).trade.entry = baseBar + 1
    BY ManagedIs DEF Entering, NewRow
  <2>2. Closed(c).trade.entry \in Nat /\ Closed(c).trade.entry <= baseBar
    BY <1>2
  <2>3. QED
    BY <2>1, <2>2 DEF OpenTogether
<1>6. f \in [S -> T]
  <2>1. ASSUME NEW b \in S PROVE Closed(b) \in T
    BY <1>1, <1>4 DEF Companions
  <2>2. QED
    BY <2>1
<1>7. ASSUME NEW x \in S, NEW y \in S, f[x] = f[y] PROVE x = y
  <2>1. x \in book /\ y \in book /\ Closed(x) = Closed(y)
    BY <1>7 DEF Companions
  <2>2. x.trade = y.trade
    BY <1>2, <2>1
  <2>3. QED
    BY <2>1, <2>2 DEF Booked
<1>8. ASSUME NEW y \in T PROVE \E x \in S : f[x] = y
  <2>1. y \in book' /\ OpenTogether(y, Closed(c))
    BY DEF Companions
  <2>2. PICK x \in book : y = Closed(x)
    BY <1>1, <1>5, <2>1
  <2>3. x \in S
    BY <1>4, <2>1, <2>2 DEF Companions
  <2>4. QED
    BY <2>2, <2>3
<1>9. IsFiniteSet(S)
  BY FS_Subset DEF Booked, Companions
<1> HIDE DEF f, S, T
<1>10. Cardinality(T) = Cardinality(S)
  BY <1>6, <1>7, <1>8, <1>9, OneToOne
<1>11. QED
  BY <1>10 DEF S, T

LEMMA NewChargeRight ==
  ASSUME baseBar \in Nat, RowsFit', PairFits, Booked, NativeNext, NEW k \in Entering
  PROVE  Cardinality(Companions(book', NewRow(k))) = Cardinality(Beside(k))
<1> DEFINE S == Beside(k)
           T == Companions(book', NewRow(k))
           i == baseBar + 1
           f == [j \in S |-> CHOOSE b \in book' : b.trade = pair'[j].trade]
<1>1. PairFits' /\ Booked' /\ baseBar' = i
  BY BookedStep DEF NativeNext
<1>2. /\ k \in Triples /\ NewRow(k).trade = pair'[k].trade /\ pair'[k].trade # Null
      /\ pair'[k].trade.entry = i /\ pair'[k].trade.set = k /\ Managed(k).trade = Null
  <2>1. k \in Triples /\ Managed(k).trade = Null /\ pair'[k].trade # Null
    BY DEF Entering
  <2>2. pair'[k].trade.entry = i /\ pair'[k] \in SetStates(k)
    BY <2>1, ManagedIs
  <2>3. QED
    BY <2>1, <2>2 DEF SetStates, NewRow
<1>3. ASSUME NEW j \in Triples, pair'[j].trade # Null
      PROVE  /\ pair'[j].trade.set = j /\ pair'[j].trade.entry \in Nat /\ pair'[j].trade.entry <= i
             /\ Managed(j).trade # Null <=> pair'[j].trade.entry < i
  <2>1. pair'[j] \in SetStates(j) /\ Since(pair'[j], i)
    BY <1>3, ManagedIs
  <2>2. pair'[j].trade.set = j /\ pair'[j].trade \in SetTrades /\ pair'[j].trade.entry <= i
    BY <1>3, <2>1 DEF SetStates, Since
  <2>3. pair'[j].trade.entry \in Nat
    BY <2>2 DEF SetTrades
  <2>4. CASE Managed(j).trade = Null
    <3>1. pair'[j].trade.entry = i
      BY <1>3, <2>4, ManagedIs
    <3>2. QED
      BY <2>2, <2>3, <2>4, <3>1
  <2>5. CASE Managed(j).trade # Null
    <3>1. pair'[j].trade = Managed(j).trade /\ Since(Managed(j), baseBar)
      BY <2>5, ManagedIs
    <3>2. pair'[j].trade.entry <= baseBar
      BY <2>5, <3>1 DEF Since
    <3>3. QED
      BY <2>2, <2>3, <2>5, <3>2
  <2>6. QED
    BY <2>4, <2>5
<1>4. ASSUME NEW b \in book'
      PROVE  /\ b.trade.set \in Triples /\ b.trade.entry \in Nat /\ b.trade # Null
             /\ b.exit = Null <=> pair'[b.trade.set].trade = b.trade
             /\ b.exit # Null => b.exit <= i /\ b.exit \in Nat
  <2>1. b \in BookRows
    BY <1>1 DEF Booked
  <2>2. b.trade \in SetTrades /\ b.exit \in Nat \cup {Null}
    BY <2>1 DEF BookRows
  <2>3. b.trade # Null /\ b.trade.set \in Triples /\ b.trade.entry \in Nat
    BY <2>2, RowsAssumption DEF SetTrades
  <2>4. /\ b.exit = Null <=> pair'[b.trade.set].trade = b.trade
        /\ b.exit # Null => b.exit <= i
    BY <1>1 DEF Booked
  <2>5. QED
    BY <2>2, <2>3, <2>4
<1>5. ASSUME NEW j \in S
      PROVE  j \in Triples /\ pair'[j].trade # Null /\ f[j] \in book' /\ f[j].trade = pair'[j].trade
  <2>1. j \in Triples /\ pair'[j].trade # Null
    BY DEF Beside
  <2>2. \E b \in book' : b.trade = pair'[j].trade
    BY <1>1, <2>1 DEF Booked
  <2>3. QED
    BY <2>1, <2>2
<1> HIDE DEF i
<1>6. ASSUME NEW j \in Triples, pair'[j].trade # Null, NEW b \in book', b.trade = pair'[j].trade
      PROVE  OpenTogether(b, NewRow(k)) <=> j \in S
  <2>1. b.exit = Null /\ b.trade.set = j /\ b.trade.entry = pair'[j].trade.entry
    BY <1>3, <1>4, <1>6
  <2>2. OpenTogether(b, NewRow(k))
          <=> j # k /\ pair'[j].trade.direction = pair'[k].trade.direction /\ (b.trade.entry < i \/ (b.trade.entry = i /\ j < k))
    BY <1>2, <1>6, <2>1 DEF OpenTogether
  <2>3. j \in S <=> j # k /\ pair'[j].trade.direction = pair'[k].trade.direction /\ (j < k \/ pair'[j].trade.entry < i)
    BY <1>3, <1>6 DEF Beside
  <2>4. pair'[j].trade.entry <= i /\ pair'[j].trade.entry \in Nat /\ i \in Nat
    BY <1>3, <1>6 DEF i
  <2>5. QED
    BY <2>1, <2>2, <2>3, <2>4
<1>7. f \in [S -> T]
  <2>1. ASSUME NEW j \in S PROVE f[j] \in T
    BY <1>5, <1>6 DEF Companions
  <2>2. QED
    BY <2>1
<1>8. ASSUME NEW x \in S, NEW y \in S, f[x] = f[y] PROVE x = y
  BY <1>3, <1>5, <1>8
<1>9. ASSUME NEW y \in T PROVE \E x \in S : f[x] = y
  <2>1. y \in book' /\ OpenTogether(y, NewRow(k))
    BY DEF Companions
  <2> DEFINE j == y.trade.set
  <2>2. y.exit = Null
    <3>1. y.exit = Null \/ y.exit > i \/ y.trade.entry = i
      BY <1>2, <2>1 DEF OpenTogether
    <3>2. y.exit # Null => y.trade.entry < y.exit /\ y.exit <= i
      BY <1>1, <2>1 DEF Booked
    <3>3. QED
      BY <1>4, <2>1, <3>1, <3>2 DEF i
  <2>3. j \in Triples /\ pair'[j].trade = y.trade /\ pair'[j].trade # Null
    BY <1>4, <2>1, <2>2
  <2>4. j \in S
    BY <1>6, <2>1, <2>3
  <2>5. f[j].trade = y.trade /\ f[j] \in book'
    BY <1>5, <2>3, <2>4
  <2>6. f[j] = y
    BY <1>1, <2>1, <2>5 DEF Booked
  <2>7. QED
    BY <2>4, <2>6
<1>10. IsFiniteSet(S)
  BY TriplesFinite, FS_Subset DEF Beside
<1> HIDE DEF f, S, T
<1>11. Cardinality(T) = Cardinality(S)
  BY <1>7, <1>8, <1>9, <1>10, OneToOne
<1>12. QED
  BY <1>11 DEF S, T

LEMMA ChargesStep ==
  ASSUME baseBar \in Nat, RowsFit', PairFits, Booked, ChargedOnce, NativeNext
  PROVE  ChargedOnce'
<1>1. book' = {Closed(b) : b \in book} \cup {NewRow(k) : k \in Entering}
  BY BookIs
<1>2. ASSUME NEW c \in book PROVE Closed(c).penalty = Cardinality(Companions(book', Closed(c)))
  <2>1. Closed(c).penalty = c.penalty
    BY ClosedFits DEF Booked
  <2>2. c.penalty = Cardinality(Companions(book, c))
    BY DEF ChargedOnce, Companions
  <2>3. QED
    BY <2>1, <2>2, OldChargeKept
<1>3. ASSUME NEW k \in Entering PROVE NewRow(k).penalty = Cardinality(Companions(book', NewRow(k)))
  BY NewChargeRight DEF NewRow
<1>4. \A c \in book' : c.penalty = Cardinality(Companions(book', c))
  BY <1>1, <1>2, <1>3
<1>5. QED
  BY <1>4 DEF ChargedOnce, Companions

NativeInv ==
  /\ baseBar \in Nat /\ RowsFit /\ \A k \in Triples : FirstKept(k)
  /\ PairFits /\ Booked /\ ChargedOnce

LEMMA NativeStarts == NativeInit => NativeInv
<1> SUFFICES ASSUME NativeInit PROVE NativeInv
  OBVIOUS
<1>1. baseBar \in Nat /\ RowsFit /\ book = {} /\ \A k \in Triples : pair[k] = AtRest
  BY InitialRows DEF NativeInit
<1>2. \A k \in Triples : FirstKept(k)
  BY FirstBegins
<1>3. PairFits
  BY <1>1, RestFits DEF PairFits, Since
<1>4. Booked
  BY <1>1, RestFits, FS_EmptySet DEF Booked
<1>5. ChargedOnce
  BY <1>1 DEF ChargedOnce
<1>6. QED
  BY <1>1, <1>2, <1>3, <1>4, <1>5 DEF NativeInv

LEMMA NativeKeeps == NativeInv /\ [NativeNext]_nativeVars => NativeInv'
<1> SUFFICES ASSUME NativeInv, [NativeNext]_nativeVars PROVE NativeInv'
  OBVIOUS
<1>1. CASE NativeNext
  <2>1. baseBar \in Nat /\ baseBar' \in Nat /\ RowsFit'
    <3>1. baseBar' = baseBar + 1
      BY <1>1 DEF NativeNext
    <3>2. RowsFit'
      BY <1>1, RowsStep DEF NativeInv
    <3>3. QED
      BY <3>1, <3>2 DEF NativeInv
  <2>2. \A k \in Triples : FirstKept(k)'
    BY <1>1, <2>1, FirstKeeps DEF NativeInv
  <2>3. PairFits' /\ Booked'
    BY <1>1, <2>1, BookedStep DEF NativeInv
  <2>4. ChargedOnce'
    BY <1>1, <2>1, ChargesStep DEF NativeInv
  <2>5. QED
    BY <2>1, <2>2, <2>3, <2>4 DEF NativeInv
<1>2. CASE UNCHANGED nativeVars
  BY <1>2 DEF nativeVars, NativeInv, RowsFit, FirstKept, ClocksFit, EnteredAlike, AtFirst, OnceOver, Aged,
     Quiet, PairFits, Booked, ChargedOnce, OpenTogether, Since
<1>3. QED
  BY <1>1, <1>2

(* For any timeframes, rows, parameters and precision the three backtests  *)
(* agree on the first trade of each set as far as FirstTradesAgree says    *)
(* (run_pair, run_set on either clock): its entry to half a grid step,     *)
(* and its end too unless a close fell between a level and the rounded     *)
(* one.  And run_pair charges every two trades that are open together in   *)
(* one direction once, the later one.                                      *)
THEOREM SetsTellOneStory == NativeSpec => []SetsAgree
<1>1. NativeInv => SetsAgree
  BY FirstAgree DEF NativeInv, SetsAgree
<1>2. QED
  BY <1>1, NativeStarts, NativeKeeps, PTL DEF NativeSpec

(***************************************************************************)
(* Fractal engine: histories                                               *)
(***************************************************************************)
Chronicle(s, t) ==
  /\ s \in Seq(ClosedCandles) /\ Len(s) <= t
  /\ \A i \in 1..Len(s) : s[i].at \in 1..t
  /\ \A i, j \in 1..Len(s) : i < j => s[i].at < s[j].at

HistoriesFit ==
  /\ instant \in 0..MaxInstants /\ DOMAIN histories = 1..Depth
  /\ \A k \in 1..Depth : Chronicle(histories[k], instant)

LEMMA CandleFields ==
  ASSUME NEW x \in Instants, NEW k \in DOMAIN x, NEW t \in 1..MaxInstants, NEW n \in 1..MaxInstants
  PROVE  ClosedCandle(x[k], t, n) \in ClosedCandles /\ ClosedCandle(x[k], t, n).at = t
<1>1. x[k] \in Shapes
  BY DEF Shapes
<1>2. ClosedCandle(x[k], t, n).at = t
  BY DEF ClosedCandle
<1>3. ClosedCandle(x[k], t, n) \in ClosedCandles
  BY <1>1 DEF ClosedCandles
<1>4. QED
  BY <1>2, <1>3

LEMMA ChronicleGrows ==
  ASSUME NEW s, NEW t \in Nat, Chronicle(s, t), NEW c \in ClosedCandles, c.at = t + 1
  PROVE  Chronicle(s, t + 1) /\ Chronicle(Append(s, c), t + 1)
<1>1. s \in Seq(ClosedCandles) /\ Len(s) \in Nat /\ Len(s) <= t
  BY DEF Chronicle
<1>2. Chronicle(s, t + 1)
  BY DEF Chronicle
<1> DEFINE u == Append(s, c)
<1>3. u \in Seq(ClosedCandles) /\ Len(u) = Len(s) + 1 /\ u[Len(s) + 1] = c /\ \A i \in 1..Len(s) : u[i] = s[i]
  BY <1>1
<1> HIDE DEF u
<1>4. \A i \in 1..Len(u) : i \in 1..Len(s) \/ i = Len(s) + 1
  BY <1>1, <1>3
<1>5. \A i \in 1..Len(s) : s[i].at \in 1..t
  BY DEF Chronicle
<1>6. \A i \in 1..Len(u) : u[i].at \in 1..(t + 1)
  BY <1>3, <1>4, <1>5
<1>7. \A i, j \in 1..Len(u) : i < j => u[i].at < u[j].at
  <2>1. SUFFICES ASSUME NEW i \in 1..Len(u), NEW j \in 1..Len(u), i < j PROVE u[i].at < u[j].at
    OBVIOUS
  <2>2. i \in 1..Len(s)
    BY <1>1, <1>3, <2>1
  <2>3. CASE j \in 1..Len(s)
    BY <1>3, <2>1, <2>2, <2>3 DEF Chronicle
  <2>4. CASE j = Len(s) + 1
    BY <1>3, <1>5, <2>2, <2>4
  <2>5. QED
    BY <1>4, <2>3, <2>4
<1>8. Chronicle(u, t + 1)
  BY <1>1, <1>3, <1>6, <1>7 DEF Chronicle
<1>9. QED
  BY <1>2, <1>8 DEF u

LEMMA HistoriesStart == SetReadsInit => HistoriesFit
<1>1. SUFFICES ASSUME SetReadsInit PROVE HistoriesFit
  OBVIOUS
<1>2. instant = 0 /\ 0 \in 0..MaxInstants
  BY <1>1, SetReadsAssumption DEF SetReadsInit
<1>3. DOMAIN histories = 1..Depth /\ \A k \in 1..Depth : histories[k] = <<>>
  BY <1>1 DEF SetReadsInit
<1>4. Chronicle(<<>>, 0)
  BY DEF Chronicle
<1>5. QED
  BY <1>2, <1>3, <1>4 DEF HistoriesFit

LEMMA HistoriesKeep == HistoriesFit /\ [SetReadsNext]_setReadsVars => HistoriesFit'
<1>1. SUFFICES ASSUME HistoriesFit, [SetReadsNext]_setReadsVars PROVE HistoriesFit'
  OBVIOUS
<1>2. CASE UNCHANGED setReadsVars
  BY <1>1, <1>2 DEF HistoriesFit, Chronicle, setReadsVars
<1>3. ASSUME NEW x \in Instants, CloseCandles(x) PROVE HistoriesFit'
  <2>1. instant \in Nat /\ MaxInstants \in Nat /\ instant < MaxInstants /\ instant' = instant + 1
    BY <1>1, <1>3, SetReadsAssumption DEF HistoriesFit, CloseCandles
  <2>2. DOMAIN histories' = 1..Depth
    BY <1>3 DEF CloseCandles
  <2>3. ASSUME NEW k \in 1..Depth PROVE Chronicle(histories'[k], instant + 1)
    <3>1. Chronicle(histories[k], instant) /\ Len(histories[k]) + 1 \in 1..MaxInstants
      BY <1>1, <2>1, <2>3 DEF HistoriesFit, Chronicle
    <3>2. CASE k \notin DOMAIN x
      <4>1. histories'[k] = histories[k]
        BY <1>3, <2>3, <3>2 DEF CloseCandles
      <4>2. QED
        BY <2>1, <3>1, <4>1 DEF Chronicle
    <3>3. CASE k \in DOMAIN x
      <4>1. histories'[k] = Append(histories[k], ClosedCandle(x[k], instant + 1, Len(histories[k]) + 1))
        BY <1>3, <2>1, <2>3, <3>3 DEF CloseCandles
      <4>2. instant + 1 \in 1..MaxInstants
        BY <2>1
      <4>3. QED
        BY <2>1, <3>1, <3>3, <4>1, <4>2, CandleFields, ChronicleGrows
    <3>4. QED
      BY <3>2, <3>3
  <2>4. instant' \in 0..MaxInstants
    BY <2>1
  <2>5. \A k \in 1..Depth : Chronicle(histories'[k], instant')
    BY <2>1, <2>3
  <2>6. QED
    BY <2>2, <2>4, <2>5 DEF HistoriesFit, Chronicle
<1>4. QED
  BY <1>1, <1>2, <1>3 DEF SetReadsNext

(***************************************************************************)
(* Fractal engine: what is as of an earlier moment                         *)
(***************************************************************************)

(* s is u without the candle of t.                                         *)
Older(s, u, t) ==
  /\ s \in Seq(ClosedCandles) /\ u \in Seq(ClosedCandles)
  /\ Len(s) <= Len(u) /\ Len(u) <= Len(s) + 1
  /\ \A i \in 1..Len(s) : u[i] = s[i]
  /\ \A i \in 1..Len(u) : u[i].at \in 1..t /\ (i \in 1..Len(s) <=> u[i].at < t)
  /\ \A i, j \in 1..Len(u) : i < j => u[i].at < u[j].at

EarlierHistories(h, g, t) == \A k \in 1..Depth : Older(h[k], g[k], t)

LEMMA OlderCandles ==
  ASSUME NEW s, NEW u, NEW t \in Nat, Older(s, u, t)
  PROVE  /\ Len(s) \in Nat /\ Len(u) \in Nat /\ DOMAIN s = 1..Len(s) /\ DOMAIN u = 1..Len(u)
         /\ DOMAIN s \subseteq DOMAIN u
         /\ \A i \in DOMAIN s : u[i] = s[i] /\ s[i].at \in Nat /\ s[i].at < t
         /\ \A i \in DOMAIN u : u[i].at \in Nat /\ u[i].at <= t
         /\ \A i \in (DOMAIN u) \ (DOMAIN s) : u[i].at = t /\ i = Len(u)
<1>1. Len(s) \in Nat /\ Len(u) \in Nat /\ DOMAIN s = 1..Len(s) /\ DOMAIN u = 1..Len(u)
  BY DEF Older
<1>2. Len(s) <= Len(u) /\ Len(u) <= Len(s) + 1
  BY DEF Older
<1>3. \A i \in 1..Len(u) : u[i].at \in 1..t /\ (i \in 1..Len(s) <=> u[i].at < t)
  BY DEF Older
<1>4. \A i \in 1..Len(s) : u[i] = s[i]
  BY DEF Older
<1>5. \A i \in 1..Len(s) : i \in 1..Len(u)
  BY <1>1, <1>2
<1>6. ASSUME NEW i \in 1..Len(u), i \notin 1..Len(s) PROVE i = Len(u) /\ u[i].at = t
  <2>1. i \in Nat /\ i >= 1 /\ i <= Len(u) /\ ~(i <= Len(s))
    BY <1>1, <1>6
  <2>2. i = Len(u)
    <3>1. \A a, b, c \in Nat : b <= a + 1 /\ c <= b /\ ~(c <= a) => c = b
      OBVIOUS
    <3>2. QED
      BY <1>1, <1>2, <2>1, <3>1
  <2>3. u[i].at \in 1..t /\ ~(u[i].at < t)
    BY <1>3, <1>6
  <2>4. QED
    BY <2>2, <2>3
<1>7. \A i \in 1..Len(s) : s[i].at \in Nat /\ s[i].at < t
  BY <1>3, <1>4, <1>5
<1>8. \A i \in 1..Len(u) : u[i].at \in Nat /\ u[i].at <= t
  BY <1>3
<1>9. \A i \in DOMAIN s : u[i] = s[i] /\ s[i].at \in Nat /\ s[i].at < t
  BY <1>1, <1>4, <1>7
<1>10. \A i \in (DOMAIN u) \ (DOMAIN s) : u[i].at = t /\ i = Len(u)
  BY <1>1, <1>6
<1>11. DOMAIN s \subseteq DOMAIN u /\ \A i \in DOMAIN u : u[i].at \in Nat /\ u[i].at <= t
  BY <1>1, <1>5, <1>8
<1>12. QED
  BY <1>1, <1>9, <1>10, <1>11

LEMMA LastIndex ==
  ASSUME NEW s \in Seq(ClosedCandles), NEW P \in SUBSET (DOMAIN s), P # {}
  PROVE  Max(P) \in P /\ \A i \in P : i <= Max(P)
<1>1. Len(s) \in Nat /\ P \in SUBSET (0..Len(s))
  OBVIOUS
<1>2. QED
  BY <1>1, GreatestIsMax

Past(s, t) == {i \in DOMAIN s : s[i].at <= t}

LEMMA PastStays ==
  ASSUME NEW s, NEW u, NEW t \in Nat, Older(s, u, t), NEW q \in Nat, q < t
  PROVE  Past(s, q) = Past(u, q)
<1>1. \A i \in DOMAIN u : u[i].at <= q => i \in DOMAIN s /\ s[i].at <= q
  BY OlderCandles
<1>2. \A i \in DOMAIN s : s[i].at <= q => i \in DOMAIN u /\ u[i].at <= q
  BY OlderCandles
<1>3. QED
  BY <1>1, <1>2 DEF Past

LEMMA AsOfIs == \A s, t : AsOf(s, t) = IF Past(s, t) = {} THEN Absent ELSE s[Max(Past(s, t))]
  BY DEF AsOf, Past

LEMMA AsOfStays ==
  ASSUME NEW s, NEW u, NEW t \in Nat, Older(s, u, t), NEW q \in Nat, q < t
  PROVE  AsOf(s, q) = AsOf(u, q)
<1>1. Past(s, q) = Past(u, q)
  BY PastStays
<1>2. CASE Past(s, q) = {}
  BY <1>1, <1>2, AsOfIs
<1>3. CASE Past(s, q) # {}
  <2>1. s \in Seq(ClosedCandles) /\ Past(s, q) \in SUBSET (DOMAIN s)
    BY DEF Older, Past
  <2>2. Max(Past(s, q)) \in DOMAIN s
    BY <1>3, <2>1, LastIndex
  <2>3. s[Max(Past(s, q))] = u[Max(Past(s, q))]
    BY <2>2, OlderCandles
  <2>4. QED
    BY <1>1, <1>3, <2>3, AsOfIs
<1>4. QED
  BY <1>2, <1>3

(* The candle that closed last is the one as of its close.                 *)
LEMMA LastIsAsOf ==
  ASSUME NEW s, NEW u, NEW t \in Nat, Older(s, u, t), NEW i \in DOMAIN u
  PROVE  Past(u, u[i].at) = 1..i /\ AsOf(u, u[i].at) = u[i]
<1>1. Len(u) \in Nat /\ DOMAIN u = 1..Len(u)
  BY OlderCandles
<1>2. \A j \in DOMAIN u : u[j].at \in Nat
  BY OlderCandles
<1>3. \A j \in DOMAIN u : j <= i <=> u[j].at <= u[i].at
  <2>1. \A j \in DOMAIN u : j < i => u[j].at < u[i].at
    BY <1>1 DEF Older
  <2>2. \A j \in DOMAIN u : i < j => u[i].at < u[j].at
    BY <1>1 DEF Older
  <2>3. QED
    BY <1>1, <1>2, <2>1, <2>2
<1>4. Past(u, u[i].at) = 1..i
  <2>1. \A j \in 1..i : j \in DOMAIN u
    BY <1>1
  <2>2. \A j \in DOMAIN u : j \in 1..i <=> j <= i
    BY <1>1
  <2>3. QED
    BY <1>3, <2>1, <2>2 DEF Past
<1>5. Past(u, u[i].at) # {} /\ Max(Past(u, u[i].at)) = i
  <2>1. u \in Seq(ClosedCandles) /\ Past(u, u[i].at) \in SUBSET (DOMAIN u) /\ i \in Past(u, u[i].at)
    BY <1>2 DEF Older, Past
  <2>2. Max(1..i) \in 1..i /\ i <= Max(1..i)
    BY <1>4, <2>1, LastIndex
  <2>3. QED
    BY <1>1, <1>4, <2>2
<1>6. QED
  BY <1>4, <1>5, AsOfIs

(***************************************************************************)
(* Fractal engine: views and verdicts                                      *)
(***************************************************************************)
LEMMA Roles == \A k \in ReadKeys : k \in 1..Depth /\ k + 1 \in 1..Depth /\ k + 2 \in 1..Depth
  BY SetReadsAssumption DEF ReadKeys

LEMMA SetViewStays ==
  ASSUME NEW h, NEW g, NEW t \in Nat, EarlierHistories(h, g, t), NEW k \in ReadKeys, NEW q \in Nat, q < t
  PROVE  SetView(h, k, q) = SetView(g, k, q)
<1>1. Older(h[k], g[k], t) /\ Older(h[k + 1], g[k + 1], t) /\ Older(h[k + 2], g[k + 2], t)
  BY Roles DEF EarlierHistories
<1>2. /\ AsOf(h[k], q) = AsOf(g[k], q)
      /\ AsOf(h[k + 1], q) = AsOf(g[k + 1], q)
      /\ AsOf(h[k + 2], q) = AsOf(g[k + 2], q)
  BY <1>1, AsOfStays
<1>3. QED
  BY <1>2 DEF SetView

LEMMA ViewsAre ==
  ASSUME NEW h, NEW k
  PROVE  /\ DOMAIN Views(h, k) = DOMAIN h[k + 2]
         /\ \A i \in DOMAIN h[k + 2] : /\ Views(h, k)[i] = SetView(h, k, h[k + 2][i].at)
                                       /\ Views(h, k)[i].at = h[k + 2][i].at
  BY DEF Views, SetView

LEMMA ViewsGrow ==
  ASSUME NEW h, NEW g, NEW t \in Nat, EarlierHistories(h, g, t), NEW k \in ReadKeys
  PROVE  /\ DOMAIN h[k + 2] \subseteq DOMAIN g[k + 2]
         /\ \A i \in DOMAIN h[k + 2] : Views(g, k)[i] = Views(h, k)[i] /\ Views(h, k)[i].at \in Nat /\ Views(h, k)[i].at < t
         /\ \A i \in (DOMAIN g[k + 2]) \ (DOMAIN h[k + 2]) : Views(g, k)[i].at = t
         /\ Grows(Views(h, k), Views(g, k))
<1>1. Older(h[k + 2], g[k + 2], t)
  BY Roles DEF EarlierHistories
<1>2. /\ DOMAIN h[k + 2] \subseteq DOMAIN g[k + 2]
      /\ \A i \in DOMAIN h[k + 2] : g[k + 2][i] = h[k + 2][i] /\ h[k + 2][i].at \in Nat /\ h[k + 2][i].at < t
      /\ \A i \in (DOMAIN g[k + 2]) \ (DOMAIN h[k + 2]) : g[k + 2][i].at = t
  BY <1>1, OlderCandles
<1>3. \A i \in DOMAIN h[k + 2] : SetView(h, k, h[k + 2][i].at) = SetView(g, k, g[k + 2][i].at)
  BY <1>2, SetViewStays
<1>4. \A i \in DOMAIN h[k + 2] : Views(g, k)[i] = Views(h, k)[i]
  BY <1>2, <1>3, ViewsAre
<1>5. QED
  BY <1>2, <1>4, ViewsAre DEF Grows

LEMMA LastViewStays ==
  ASSUME NEW h, NEW g, NEW t \in Nat, EarlierHistories(h, g, t), NEW k \in ReadKeys, NEW q \in Nat, q < t
  PROVE  LastView(Views(h, k), q) = LastView(Views(g, k), q)
<1>1. Older(h[k + 2], g[k + 2], t)
  BY Roles DEF EarlierHistories
<1> DEFINE Seen(f) == {i \in DOMAIN Views(f, k) : Views(f, k)[i].at <= q}
<1>2. \A f : Seen(f) = Past(f[k + 2], q)
  BY ViewsAre DEF Past
<1>3. Seen(h) = Seen(g)
  BY <1>1, <1>2, PastStays
<1>4. \A f : LastView(Views(f, k), q) = IF Seen(f) = {} THEN Absent ELSE Views(f, k)[Max(Seen(f))]
  BY DEF LastView
<1>5. Seen(h) # {} => Max(Seen(h)) \in DOMAIN h[k + 2]
  <2>1. h[k + 2] \in Seq(ClosedCandles) /\ Past(h[k + 2], q) \in SUBSET (DOMAIN h[k + 2])
    BY <1>1 DEF Older, Past
  <2>2. QED
    BY <1>2, <2>1, LastIndex
<1> HIDE DEF Seen
<1>6. Seen(h) # {} => Views(g, k)[Max(Seen(h))] = Views(h, k)[Max(Seen(h))]
  BY <1>5, ViewsGrow
<1>7. QED
  BY <1>3, <1>4, <1>6

Judged(h, k, t) == Verdict(SetRead(LastView(Views(h, k), t)), SetRead(LastView(Views(h, k + 1), t)))
Viewed(h, k) == UNION {{h[j][i].at : i \in DOMAIN h[j]} : j \in {k + 2, k + 3}}
BothSeen(h, k, t) == LastView(Views(h, k), t) # Absent /\ LastView(Views(h, k + 1), t) # Absent

LEMMA VerdictsAre ==
  \A h, k : Verdicts(h, k) = {[at |-> t, verdict |-> Judged(h, k, t)] : t \in {u \in Viewed(h, k) : BothSeen(h, k, u)}}
  BY DEF Verdicts, Judged, Viewed, BothSeen

LEMMA VerdictsGrow ==
  ASSUME NEW h, NEW g, NEW t \in Nat, EarlierHistories(h, g, t), NEW k \in ReadKeys \ {Depth - 2}
  PROVE  /\ Verdicts(h, k) \subseteq Verdicts(g, k)
         /\ \A v \in Verdicts(h, k) : v.at \in Nat /\ v.at < t
         /\ \A v \in Verdicts(g, k) \ Verdicts(h, k) : v.at = t
<1>1. k \in ReadKeys /\ k + 1 \in ReadKeys /\ k + 2 \in 1..Depth /\ k + 3 \in 1..Depth
  BY SetReadsAssumption DEF ReadKeys
<1>2. Older(h[k + 2], g[k + 2], t) /\ Older(h[k + 3], g[k + 3], t)
  BY <1>1 DEF EarlierHistories
<1>3. \A q \in Viewed(h, k) : q \in Nat /\ q < t /\ q \in Viewed(g, k)
  <2>1. \A j \in {k + 2, k + 3} : \A i \in DOMAIN h[j] :
          i \in DOMAIN g[j] /\ g[j][i].at = h[j][i].at /\ h[j][i].at \in Nat /\ h[j][i].at < t
    BY <1>2, OlderCandles
  <2>2. QED
    BY <2>1 DEF Viewed
<1>4. \A q \in Viewed(g, k) : q \in Viewed(h, k) \/ q = t
  <2>1. \A j \in {k + 2, k + 3} : \A i \in DOMAIN g[j] :
          (i \in DOMAIN h[j] /\ g[j][i].at = h[j][i].at) \/ g[j][i].at = t
    <3>1. ASSUME NEW j \in {k + 2, k + 3}, NEW i \in DOMAIN g[j]
          PROVE  (i \in DOMAIN h[j] /\ g[j][i].at = h[j][i].at) \/ g[j][i].at = t
      <4>1. Older(h[j], g[j], t)
        BY <1>2, <3>1
      <4>2. QED
        BY <3>1, <4>1, OlderCandles
    <3>2. QED
      BY <3>1
  <2>2. QED
    BY <2>1 DEF Viewed
<1>5. ASSUME NEW q \in Nat, q < t
      PROVE  (BothSeen(h, k, q) <=> BothSeen(g, k, q)) /\ Judged(h, k, q) = Judged(g, k, q)
  <2>1. /\ LastView(Views(h, k), q) = LastView(Views(g, k), q)
        /\ LastView(Views(h, k + 1), q) = LastView(Views(g, k + 1), q)
    BY <1>1, <1>5, LastViewStays
  <2>2. QED
    BY <2>1 DEF BothSeen, Judged
<1>6. ASSUME NEW v \in Verdicts(h, k) PROVE v \in Verdicts(g, k) /\ v.at \in Nat /\ v.at < t
  <2>1. PICK q \in Viewed(h, k) : BothSeen(h, k, q) /\ v = [at |-> q, verdict |-> Judged(h, k, q)]
    BY <1>6, VerdictsAre
  <2>2. v = [at |-> q, verdict |-> Judged(g, k, q)] /\ BothSeen(g, k, q) /\ q \in Viewed(g, k) /\ q \in Nat /\ q < t
    BY <1>3, <1>5, <2>1
  <2>3. QED
    BY <2>2, VerdictsAre
<1>7. ASSUME NEW v \in Verdicts(g, k), v \notin Verdicts(h, k) PROVE v.at = t
  <2>1. PICK q \in Viewed(g, k) : BothSeen(g, k, q) /\ v = [at |-> q, verdict |-> Judged(g, k, q)]
    BY <1>7, VerdictsAre
  <2>2. CASE q = t
    BY <2>1, <2>2
  <2>3. CASE q \in Viewed(h, k)
    <3>1. q \in Nat /\ q < t
      BY <1>3, <2>3
    <3>2. BothSeen(h, k, q) /\ v = [at |-> q, verdict |-> Judged(h, k, q)]
      BY <1>5, <2>1, <3>1
    <3>3. v \in Verdicts(h, k)
      BY <2>3, <3>2, VerdictsAre
    <3>4. QED
      BY <1>7, <3>3
  <2>4. QED
    BY <1>4, <2>2, <2>3
<1>8. QED
  BY <1>6, <1>7

(***************************************************************************)
(* Fractal engine: episodes                                                *)
(***************************************************************************)

(* What is said later of later moments only keeps every episode that has   *)
(* ended: those who come after its last verdict end it for good.           *)
LEMMA EpisodesKept ==
  ASSUME NEW V, NEW W, NEW t \in Nat, V \subseteq W,
         \A v \in V : v.at \in Nat /\ v.at < t,
         \A w \in W \ V : w.at = t
  PROVE  KeepsEpisodes(V, W)
<1>1. SUFFICES ASSUME NEW e \in Episodes(V), NEW after \in V, after.at > e.to PROVE e \in Episodes(W)
  BY DEF KeepsEpisodes
<1>2. PICK v \in V : StartsRun(V, v) /\ e = Episode(v, RunFrom(V, v))
  BY <1>1 DEF Episodes
<1>3. \A w \in W : w.at \in Nat /\ w.at <= t /\ (w.at < t => w \in V)
  OBVIOUS
<1>4. ASSUME NEW u \in V, NEW w \in V PROVE w \in RunFrom(V, u) <=> w \in RunFrom(W, u)
  <2>1. \A x \in W : x.at \in u.at..w.at => x \in V
    BY <1>3, <1>4
  <2>2. QED
    BY <1>4, <2>1 DEF RunFrom
<1>5. StartsRun(W, v)
  <2>1. SUFFICES ASSUME NEW u \in W, u.at < v.at PROVE v \notin RunFrom(W, u)
    BY DEF StartsRun
  <2>2. u \in V
    BY <1>2, <1>3, <2>1
  <2>3. v \notin RunFrom(V, u)
    BY <1>2, <2>1, <2>2 DEF StartsRun
  <2>4. QED
    BY <1>2, <1>4, <2>2, <2>3
<1>6. after \notin RunFrom(V, v)
  <2>1. SUFFICES ASSUME after \in RunFrom(V, v) PROVE FALSE
    OBVIOUS
  <2> DEFINE T == {w.at : w \in RunFrom(V, v)}
  <2>2. RunFrom(V, v) \subseteq V
    BY DEF RunFrom
  <2>3. T \in SUBSET (0..t) /\ T # {} /\ after.at \in T
    BY <2>1, <2>2
  <2> HIDE DEF T
  <2>4. Max(T) \in T /\ after.at <= Max(T)
    <3>1. Max(T) \in T /\ \A x \in T : x <= Max(T)
      BY <2>3, GreatestIsMax
    <3>2. QED
      BY <2>3, <3>1
  <2>5. e.to = Max(T)
    BY <1>2 DEF Episode, T
  <2>6. after.at \in Nat /\ Max(T) \in Nat
    <3>1. after.at \in Nat
      OBVIOUS
    <3>2. Max(T) \in 0..t
      BY <2>3, <2>4
    <3>3. QED
      BY <3>1, <3>2
  <2>7. QED
    BY <1>1, <2>4, <2>5, <2>6
<1>7. \A w \in W : w.at = t => w \notin RunFrom(W, v)
  <2>1. SUFFICES ASSUME NEW w \in W, w.at = t, w \in RunFrom(W, v) PROVE FALSE
    OBVIOUS
  <2>2. \A x \in V : x.at >= v.at => x.verdict = v.verdict
    <3>1. \A x \in V : x.at >= v.at => x \in W /\ x.at \in v.at..w.at
      BY <1>2, <2>1
    <3>2. QED
      BY <2>1, <3>1 DEF RunFrom
  <2>3. after.at < v.at
    <3>1. after.at >= v.at => after \in RunFrom(V, v)
      BY <2>2 DEF RunFrom
    <3>2. QED
      BY <1>2, <1>6, <3>1
  <2>4. v \in RunFrom(V, v)
    BY <1>2, <2>2 DEF RunFrom
  <2> DEFINE T == {x.at : x \in RunFrom(V, v)}
  <2>5. T \in SUBSET (0..t) /\ v.at \in T
    <3>1. RunFrom(V, v) \subseteq V
      BY DEF RunFrom
    <3>2. QED
      BY <2>4, <3>1
  <2>6. e.to = Max(T)
    BY <1>2 DEF Episode
  <2> HIDE DEF T
  <2>7. v.at <= Max(T) /\ Max(T) \in Nat
    <3>1. T # {}
      BY <2>5
    <3>2. Max(T) \in T /\ \A x \in T : x <= Max(T)
      BY <2>5, <3>1, GreatestIsMax
    <3>3. v.at <= Max(T)
      BY <2>5, <3>2, Zenon
    <3>4. Max(T) \in 0..t
      BY <2>5, <3>2, Zenon
    <3>5. QED
      BY <3>3, <3>4
  <2>8. after.at \in Nat /\ v.at \in Nat
    BY <1>2
  <2>9. QED
    BY <1>1, <2>3, <2>6, <2>7, <2>8
<1>8. RunFrom(W, v) = RunFrom(V, v)
  <2>1. RunFrom(W, v) \subseteq V
    <3>1. RunFrom(W, v) \subseteq W
      BY DEF RunFrom
    <3>2. \A w \in W \ V : w.at = t
      OBVIOUS
    <3>3. QED
      BY <1>7, <3>1, <3>2
  <2>2. RunFrom(V, v) \subseteq V
    BY DEF RunFrom
  <2>3. QED
    BY <1>2, <1>4, <2>1, <2>2
<1>9. QED
  BY <1>2, <1>5, <1>8 DEF Episodes

(***************************************************************************)
(* Fractal engine: hypotheses                                              *)
(***************************************************************************)
NewLowest(vs) == {i \in DOMAIN vs : AllRoles(vs[i]) /\ vs[i].ltf.serial > 1}
Seen(v) == [at |-> v.ltf.at, condition |-> Condition(v), outcome |-> Outcome(v.ltf)]

LEMMA ObservationsAre == \A vs : Observations(vs) = {Seen(vs[i]) : i \in NewLowest(vs)}
  BY DEF Observations, Seen, NewLowest

LEMMA InferredGrows ==
  ASSUME NEW h, NEW g, NEW t \in Nat, EarlierHistories(h, g, t), NEW k \in ReadKeys, NEW j \in DOMAIN h[k + 2]
  PROVE  Inferred(Views(h, k), Views(h, k)[j]) = Inferred(Views(g, k), Views(g, k)[j])
<1> DEFINE vs == Views(h, k)
           ws == Views(g, k)
           v == vs[j]
<1>1. ws[j] = v /\ v.at \in Nat /\ v.at < t
  BY ViewsGrow
<1>2. DOMAIN vs = DOMAIN h[k + 2] /\ DOMAIN ws = DOMAIN g[k + 2] /\ DOMAIN vs \subseteq DOMAIN ws
  BY ViewsAre, ViewsGrow
<1>3. \A i \in DOMAIN vs : ws[i] = vs[i]
  BY <1>2, ViewsGrow
<1>4. ASSUME NEW i \in DOMAIN ws, i \notin DOMAIN vs PROVE ws[i].ltf.at = t
  <2>1. Older(h[k + 2], g[k + 2], t)
    BY Roles DEF EarlierHistories
  <2>2. i \in DOMAIN g[k + 2] /\ i \notin DOMAIN h[k + 2]
    BY <1>2, <1>4
  <2>3. g[k + 2][i].at = t /\ AsOf(g[k + 2], g[k + 2][i].at) = g[k + 2][i]
    BY <2>1, <2>2, OlderCandles, LastIsAsOf
  <2>4. ws[i].ltf = AsOf(g[k + 2], g[k + 2][i].at)
    BY <2>2 DEF Views, SetView
  <2>5. QED
    BY <2>3, <2>4
<1> HIDE DEF vs, ws, v
<1>5. ASSUME NEW o \in Observations(ws), o.at < v.at PROVE o \in Observations(vs)
  <2>1. PICK i \in NewLowest(ws) : o = Seen(ws[i])
    BY <1>5, ObservationsAre
  <2>2. i \in DOMAIN ws /\ AllRoles(ws[i]) /\ ws[i].ltf.serial > 1
    BY <2>1 DEF NewLowest
  <2>3. ws[i].ltf.at # t
    BY <1>1, <1>5, <2>1 DEF Seen
  <2>4. i \in DOMAIN vs /\ vs[i] = ws[i]
    BY <1>3, <1>4, <2>2, <2>3
  <2>5. i \in NewLowest(vs)
    BY <2>2, <2>4 DEF NewLowest
  <2>6. QED
    BY <2>1, <2>4, <2>5, ObservationsAre
<1>6. Observations(vs) \subseteq Observations(ws)
  <2>1. \A i \in NewLowest(vs) : i \in NewLowest(ws) /\ ws[i] = vs[i]
    BY <1>2, <1>3 DEF NewLowest
  <2>2. QED
    BY <2>1, ObservationsAre
<1>7. Inferred(vs, v) = Inferred(ws, v)
  BY <1>5, <1>6 DEF Inferred
<1>8. QED
  BY <1>1, <1>7 DEF vs, ws, v

(***************************************************************************)
(* Fractal engine: legs                                                    *)
(***************************************************************************)
LEMMA LegsGrow ==
  ASSUME NEW h, NEW g, NEW t \in Nat, EarlierHistories(h, g, t)
  PROVE  /\ \A i \in DOMAIN h[Depth] : Movements(g)[i] = Movements(h)[i]
         /\ Grows(Movements(h), Movements(g))
<1> DEFINE s == h[Depth]
           u == g[Depth]
<1>1. Older(s, u, t)
  BY SetReadsAssumption DEF EarlierHistories
<1>2. /\ Len(s) \in Nat /\ Len(u) \in Nat /\ DOMAIN s = 1..Len(s) /\ DOMAIN u = 1..Len(u)
      /\ DOMAIN s \subseteq DOMAIN u /\ \A i \in DOMAIN s : u[i] = s[i]
  BY <1>1, OlderCandles
<1> HIDE DEF s, u
<1>3. ASSUME NEW i \in 0..Len(s) PROVE LegDirection(s, i) = LegDirection(u, i)
  <2> DEFINE D(c) == {j \in 1..i : c[j].trend # 0}
  <2>1. \A j \in 1..i : u[j] = s[j]
    BY <1>2
  <2>2. D(s) = D(u)
    BY <2>1
  <2>3. D(s) # {} => Max(D(s)) \in 1..i
    <3>1. i \in Nat /\ D(s) \in SUBSET (0..i)
      BY <1>2
    <3>2. QED
      BY <3>1, GreatestIsMax
  <2>4. \A c : LegDirection(c, i) = IF D(c) = {} THEN 0 ELSE c[Max(D(c))].trend
    BY DEF LegDirection
  <2> HIDE DEF D
  <2>5. QED
    BY <2>1, <2>2, <2>3, <2>4
<1>4. ASSUME NEW i \in DOMAIN s PROVE Movements(g)[i] = Movements(h)[i]
  <2>1. i \in DOMAIN u /\ u[i] = s[i]
    BY <1>2, <1>4
  <2>2. ASSUME NEW j \in DOMAIN u, j <= i PROVE j \in DOMAIN s /\ (j \in LegStarts(u) <=> j \in LegStarts(s))
    <3>1. j \in DOMAIN s /\ j - 1 \in 0..Len(s)
      BY <1>2, <1>4, <2>2
    <3>2. u[j] = s[j] /\ LegDirection(s, j - 1) = LegDirection(u, j - 1)
      BY <1>2, <1>3, <3>1
    <3>3. QED
      BY <2>2, <3>1, <3>2 DEF LegStarts
  <2>3. LegStarts(s) \subseteq DOMAIN s /\ LegStarts(u) \subseteq DOMAIN u
    BY DEF LegStarts
  <2>4. {j \in LegStarts(u) : j <= i} = {j \in LegStarts(s) : j <= i}
    BY <1>2, <2>2, <2>3
  <2>5. /\ Movements(h)[i] = IF s[i].trend = 0 THEN 0 ELSE Cardinality({j \in LegStarts(s) : j <= i})
        /\ Movements(g)[i] = IF u[i].trend = 0 THEN 0 ELSE Cardinality({j \in LegStarts(u) : j <= i})
    BY <1>4, <2>1 DEF Movements, s, u
  <2>6. QED
    BY <2>1, <2>4, <2>5
<1>5. DOMAIN Movements(h) = DOMAIN s /\ DOMAIN Movements(g) = DOMAIN u
  BY DEF Movements, s, u
<1>6. QED
  BY <1>2, <1>4, <1>5 DEF Grows, s

LEMMA LegAtStays ==
  ASSUME NEW h, NEW g, NEW t \in Nat, EarlierHistories(h, g, t), NEW q \in Nat, q < t
  PROVE  MovementAt(h, q) = MovementAt(g, q)
<1>1. Older(h[Depth], g[Depth], t)
  BY SetReadsAssumption DEF EarlierHistories
<1>2. Past(h[Depth], q) = Past(g[Depth], q)
  BY <1>1, PastStays
<1>3. \A f : MovementAt(f, q) = IF Past(f[Depth], q) = {} THEN 0 ELSE Movements(f)[Max(Past(f[Depth], q))]
  BY DEF MovementAt, Past
<1>4. Past(h[Depth], q) # {} => Max(Past(h[Depth], q)) \in DOMAIN h[Depth]
  <2>1. h[Depth] \in Seq(ClosedCandles) /\ Past(h[Depth], q) \in SUBSET (DOMAIN h[Depth])
    BY <1>1 DEF Older, Past
  <2>2. QED
    BY <2>1, LastIndex
<1>5. QED
  BY <1>2, <1>3, <1>4, LegsGrow

(***************************************************************************)
(* Fractal engine: graph and rows                                          *)
(***************************************************************************)
LEMMA EdgesGrow ==
  ASSUME NEW h, NEW g, NEW t \in Nat, EarlierHistories(h, g, t)
  PROVE  GraphEdges(h) \subseteq GraphEdges(g)
<1> DEFINE Follows(f, k) == {<<k, f[k][i].at, k, f[k][i + 1].at>> : i \in 1..(Len(f[k]) - 1)}
           Under(f, k) == {j \in DOMAIN f[k + 1] : AsOf(f[k], f[k + 1][j].at) # Absent}
           Link(f, k, i) == <<k, AsOf(f[k], f[k + 1][i].at).at, k + 1, f[k + 1][i].at>>
           Scales(f, k) == {Link(f, k, i) : i \in Under(f, k)}
<1>1. \A f : GraphEdges(f) = (UNION {Follows(f, k) : k \in 1..Depth}) \cup (UNION {Scales(f, k) : k \in 1..(Depth - 1)})
  BY DEF GraphEdges
<1>2. ASSUME NEW k \in 1..Depth PROVE Follows(h, k) \subseteq Follows(g, k)
  <2>1. Older(h[k], g[k], t)
    BY <1>2 DEF EarlierHistories
  <2>2. /\ Len(h[k]) \in Nat /\ Len(g[k]) \in Nat /\ Len(h[k]) <= Len(g[k])
        /\ \A i \in 1..Len(h[k]) : g[k][i] = h[k][i]
    BY <2>1 DEF Older
  <2>3. ASSUME NEW i \in 1..(Len(h[k]) - 1)
        PROVE  /\ i \in 1..(Len(g[k]) - 1)
               /\ <<k, h[k][i].at, k, h[k][i + 1].at>> = <<k, g[k][i].at, k, g[k][i + 1].at>>
    <3>1. i \in 1..(Len(g[k]) - 1) /\ i \in 1..Len(h[k]) /\ i + 1 \in 1..Len(h[k])
      BY <2>2, <2>3
    <3>2. QED
      BY <2>2, <3>1
  <2>4. QED
    BY <2>3
<1>3. ASSUME NEW k \in 1..(Depth - 1) PROVE Scales(h, k) \subseteq Scales(g, k)
  <2>1. k \in 1..Depth /\ k + 1 \in 1..Depth
    BY <1>3, SetReadsAssumption
  <2>2. Older(h[k], g[k], t) /\ Older(h[k + 1], g[k + 1], t)
    BY <2>1 DEF EarlierHistories
  <2>3. ASSUME NEW i \in DOMAIN h[k + 1]
        PROVE  i \in DOMAIN g[k + 1] /\ g[k + 1][i] = h[k + 1][i] /\ AsOf(h[k], h[k + 1][i].at) = AsOf(g[k], g[k + 1][i].at)
    <3>1. i \in DOMAIN g[k + 1] /\ g[k + 1][i] = h[k + 1][i] /\ h[k + 1][i].at \in Nat /\ h[k + 1][i].at < t
      BY <2>2, <2>3, OlderCandles
    <3>2. QED
      BY <2>2, <3>1, AsOfStays
  <2>4. \A i \in Under(h, k) : i \in Under(g, k) /\ Link(h, k, i) = Link(g, k, i)
    BY <2>3
  <2> HIDE DEF Under, Link
  <2>5. QED
    BY <2>4
<1> HIDE DEF Follows, Scales
<1>4. UNION {Follows(h, k) : k \in 1..Depth} \subseteq UNION {Follows(g, k) : k \in 1..Depth}
  BY <1>2
<1>5. UNION {Scales(h, k) : k \in 1..(Depth - 1)} \subseteq UNION {Scales(g, k) : k \in 1..(Depth - 1)}
  BY <1>3
<1>6. QED
  BY <1>1, <1>4, <1>5

NewShape(ps) == {i \in DOMAIN ps : i = 1 \/ Outcome(ps[i]) # Outcome(ps[i - 1])}
After(cs, p) == {j \in DOMAIN cs : cs[j].at > p.at}
Horizon(ps, cs, i) == IF i < Len(ps) THEN ps[i + 1].at ELSE cs[Len(cs)].at
Voided(ps, cs, i) ==
  /\ ps[i].void # Absent
  /\ \E j \in After(cs, ps[i]) : cs[j].at <= Horizon(ps, cs, i) /\ PastPrice(cs[j], ps[i].void, -ps[i].trend)
Row(ps, cs, i) ==
  [at |-> ps[i].at, closed |-> i < Len(ps), outcome |-> Outcome(cs[Min(After(cs, ps[i]))]),
   invalidated |-> Voided(ps, cs, i)]

LEMMA RowsAre ==
  \A ps, cs : ScaleRows(ps, cs) = {Row(ps, cs, i) : i \in {n \in NewShape(ps) : After(cs, ps[n]) # {}}}
  BY DEF ScaleRows, Row, NewShape, After, Voided, Horizon

(* A row is closed by the next candle of the parent, before which every    *)
(* candle of its child was known.                                          *)
LEMMA RowsGrow ==
  ASSUME NEW ps, NEW qs, NEW cs, NEW ds, NEW t \in Nat, Older(ps, qs, t), Older(cs, ds, t)
  PROVE  {r \in ScaleRows(ps, cs) : r.closed} \subseteq {r \in ScaleRows(qs, ds) : r.closed}
<1>1. SUFFICES ASSUME NEW r \in ScaleRows(ps, cs), r.closed PROVE r \in ScaleRows(qs, ds)
  OBVIOUS
<1>2. PICK i \in NewShape(ps) : After(cs, ps[i]) # {} /\ r = Row(ps, cs, i)
  BY <1>1, RowsAre
<1>3. /\ Len(ps) \in Nat /\ Len(qs) \in Nat /\ DOMAIN ps = 1..Len(ps) /\ DOMAIN qs = 1..Len(qs) /\ Len(ps) <= Len(qs)
      /\ DOMAIN ps \subseteq DOMAIN qs
      /\ \A j \in DOMAIN ps : qs[j] = ps[j] /\ ps[j].at \in Nat /\ ps[j].at < t
  BY OlderCandles DEF Older
<1>4. /\ DOMAIN cs \subseteq DOMAIN ds /\ DOMAIN cs = 1..Len(cs) /\ DOMAIN ds = 1..Len(ds) /\ Len(cs) \in Nat /\ Len(ds) \in Nat
      /\ \A j \in DOMAIN cs : ds[j] = cs[j] /\ cs[j].at \in Nat /\ cs[j].at < t
      /\ \A j \in (DOMAIN ds) \ (DOMAIN cs) : ds[j].at = t /\ j = Len(ds)
  BY OlderCandles
<1>5. i \in DOMAIN ps /\ i < Len(ps)
  BY <1>1, <1>2 DEF NewShape, Row
<1>6. i \in Nat /\ i >= 1 /\ i + 1 \in DOMAIN ps /\ (i # 1 => i - 1 \in DOMAIN ps) /\ i < Len(qs)
  BY <1>3, <1>5
<1>7. qs[i] = ps[i] /\ qs[i + 1] = ps[i + 1] /\ (i # 1 => qs[i - 1] = ps[i - 1]) /\ i \in DOMAIN qs
  BY <1>3, <1>5, <1>6
<1>8. i \in NewShape(qs)
  BY <1>2, <1>7 DEF NewShape
<1> DEFINE p == ps[i]
<1>9. p.at \in Nat /\ p.at < t /\ ps[i + 1].at \in Nat /\ ps[i + 1].at < t
  BY <1>3, <1>5, <1>6
<1>10. After(cs, p) \subseteq After(ds, p)
  BY <1>4 DEF After
<1>11. \A j \in After(ds, p) : j \in After(cs, p) \/ (ds[j].at = t /\ j = Len(ds) /\ j \notin DOMAIN cs)
  BY <1>4 DEF After
<1>12. Min(After(cs, p)) \in After(cs, p) /\ \A j \in After(cs, p) : Min(After(cs, p)) <= j
  <2>1. After(cs, p) \in SUBSET Nat /\ After(cs, p) # {}
    BY <1>2, <1>4 DEF After
  <2>2. QED
    BY <2>1, LeastIsMin
<1>13. Min(After(ds, p)) \in After(ds, p) /\ \A j \in After(ds, p) : Min(After(ds, p)) <= j
  <2>1. After(ds, p) \in SUBSET Nat /\ After(ds, p) # {}
    BY <1>4, <1>10, <1>12 DEF After
  <2>2. QED
    BY <2>1, LeastIsMin
<1>14. Min(After(ds, p)) = Min(After(cs, p))
  <2> DEFINE a == Min(After(cs, p))
             b == Min(After(ds, p))
  <2>1. a \in After(ds, p) /\ a \in DOMAIN cs /\ b <= a
    BY <1>10, <1>12, <1>13 DEF After
  <2>2. b \in DOMAIN ds
    BY <1>13 DEF After
  <2>3. b \in DOMAIN cs
    BY <1>4, <2>1, <2>2
  <2>4. b \in After(cs, p)
    BY <1>11, <1>13, <2>3
  <2>5. a <= b
    BY <1>12, <2>4
  <2>6. a \in Nat /\ b \in Nat
    BY <1>4, <2>1, <2>2
  <2> HIDE DEF a, b
  <2>7. a = b
    BY <2>1, <2>5, <2>6
  <2>8. QED
    BY <2>7 DEF a, b
<1>15. ds[Min(After(cs, p))] = cs[Min(After(cs, p))]
  BY <1>4, <1>12 DEF After
<1>16. Horizon(ps, cs, i) = ps[i + 1].at /\ Horizon(qs, ds, i) = ps[i + 1].at
  BY <1>5, <1>6, <1>7 DEF Horizon
<1>17. ASSUME NEW j \in After(ds, p), ds[j].at <= ps[i + 1].at PROVE j \in After(cs, p)
  BY <1>9, <1>11, <1>17
<1>18. \A j \in After(cs, p) : ds[j] = cs[j]
  BY <1>4 DEF After
<1>19. Voided(ps, cs, i) <=> Voided(qs, ds, i)
  BY <1>7, <1>10, <1>16, <1>17, <1>18 DEF Voided
<1>20. Row(qs, ds, i) = Row(ps, cs, i)
  <2>1. Voided(ps, cs, i) = Voided(qs, ds, i)
    BY <1>19 DEF Voided
  <2>2. (i < Len(ps)) = (i < Len(qs))
    BY <1>3, <1>5, <1>6
  <2>3. QED
    BY <1>7, <1>14, <1>15, <2>1, <2>2 DEF Row
<1>21. After(ds, qs[i]) # {}
  BY <1>7, <1>10, <1>12
<1>22. QED
  BY <1>2, <1>8, <1>20, <1>21, RowsAre

(***************************************************************************)
(* Fractal engine: nested sequences                                        *)
(***************************************************************************)
NestedStart == [move |-> -1, stage |-> 0, n |-> 0]

NestedNext(h, k, before, i) ==
  IF AllRoles(Views(h, k)[i]) THEN NestedStep(before, MovementAt(h, Views(h, k)[i].at), Views(h, k)[i]) ELSE before

Counts(h, k, m, f) ==
  f = [i \in 0..m |-> IF i = 0 THEN NestedStart ELSE NestedNext(h, k, f[i - 1], i)]

LEMMA CountsExist ==
  ASSUME NEW h, NEW k, NEW m \in Nat
  PROVE  \E f : Counts(h, k, m, f)
<1> DEFINE Without == {n \in Nat : ~\E f : Counts(h, k, n, f)}
<1>1. SUFFICES ASSUME Without # {} PROVE FALSE
  OBVIOUS
<1>2. PICK least \in Without : \A other \in Without : least <= other
  BY <1>1, LeastNumber
<1>3. least \in Nat /\ ~\E f : Counts(h, k, least, f)
  BY <1>2
<1>4. least # 0
  <2> DEFINE f == [i \in 0..0 |-> NestedStart]
  <2>1. f = [i \in 0..0 |-> IF i = 0 THEN NestedStart ELSE NestedNext(h, k, f[i - 1], i)]
    OBVIOUS
  <2>2. Counts(h, k, 0, f)
    BY <2>1 DEF Counts
  <2> HIDE DEF f
  <2>3. QED
    BY <1>3, <2>2
<1>5. PICK f : Counts(h, k, least - 1, f)
  <2>1. least - 1 \in Nat /\ ~(least <= least - 1)
    BY <1>3, <1>4
  <2>2. least - 1 \notin Without
    <3> HIDE DEF Without
    <3>1. QED
      BY <1>2, <2>1
  <2>3. QED
    BY <2>1, <2>2
<1> DEFINE g == [i \in 0..least |-> IF i < least THEN f[i] ELSE NestedNext(h, k, f[least - 1], least)]
<1>6. ASSUME NEW i \in 0..least
      PROVE  g[i] = IF i = 0 THEN NestedStart ELSE NestedNext(h, k, g[i - 1], i)
  <2>1. CASE i = 0
    <3>1. 0 \in 0..(least - 1) /\ 0 < least
      BY <1>3, <1>4
    <3>2. g[0] = f[0]
      BY <1>6, <2>1, <3>1
    <3>3. f[0] = NestedStart
      BY <1>5, <3>1 DEF Counts
    <3>4. QED
      BY <2>1, <3>2, <3>3
  <2>2. CASE i # 0 /\ i < least
    <3>1. i \in 0..(least - 1) /\ i - 1 \in 0..least /\ i - 1 < least
      BY <1>3, <1>6, <2>2
    <3>2. f[i] = NestedNext(h, k, f[i - 1], i)
      BY <1>5, <2>2, <3>1 DEF Counts
    <3>3. g[i] = f[i] /\ g[i - 1] = f[i - 1]
      BY <1>6, <2>2, <3>1
    <3> HIDE DEF g
    <3>4. QED
      BY <2>2, <3>2, <3>3
  <2>3. CASE i = least
    <3>1. least - 1 \in 0..least /\ least - 1 < least /\ ~(least < least)
      BY <1>3, <1>4
    <3>2. g[least - 1] = f[least - 1] /\ g[least] = NestedNext(h, k, f[least - 1], least)
      BY <1>6, <2>3, <3>1
    <3> HIDE DEF g
    <3>3. QED
      BY <1>4, <2>3, <3>2
  <2>4. i < least \/ i = least
    BY <1>3, <1>6
  <2> HIDE DEF g
  <2>5. QED
    BY <2>1, <2>2, <2>3, <2>4
<1>7. Counts(h, k, least, g)
  <2>1. g = [i \in 0..least |-> g[i]]
    OBVIOUS
  <2> HIDE DEF g
  <2>2. QED
    BY <1>6, <2>1 DEF Counts
<1>8. QED
  BY <1>3, <1>7

LEMMA NestedIs ==
  ASSUME NEW h, NEW k, Len(h[k + 2]) \in Nat
  PROVE  \E f : Counts(h, k, Len(h[k + 2]), f) /\ NestedCount(h, k) = f[Len(h[k + 2])].n
<1> DEFINE f == CHOOSE f : Counts(h, k, Len(h[k + 2]), f)
<1>1. NestedCount(h, k) = f[Len(h[k + 2])].n
  BY Zenon DEF NestedCount, Counts, NestedNext, NestedStart
<1>2. \E c : Counts(h, k, Len(h[k + 2]), c)
  BY CountsExist
<1>3. Counts(h, k, Len(h[k + 2]), f)
  BY <1>2, Zenon
<1>4. QED
  BY <1>1, <1>3

LEMMA NestedStepCounts ==
  \A before, move, v : before.n \in Nat =>
    NestedStep(before, move, v).n \in Nat /\ before.n <= NestedStep(before, move, v).n
  BY DEF NestedStep, Nested

LEMMA NestedGrows ==
  ASSUME NEW h, NEW g, NEW t \in Nat, EarlierHistories(h, g, t), NEW k \in ReadKeys
  PROVE  NestedCount(h, k) <= NestedCount(g, k)
<1> DEFINE m == Len(h[k + 2])
           n == Len(g[k + 2])
<1>1. Older(h[k + 2], g[k + 2], t)
  BY Roles DEF EarlierHistories
<1>2. m \in Nat /\ n \in Nat /\ m <= n /\ n <= m + 1 /\ DOMAIN h[k + 2] = 1..m /\ DOMAIN g[k + 2] = 1..n
  BY <1>1, OlderCandles DEF Older
<1>3. PICK a : Counts(h, k, m, a) /\ NestedCount(h, k) = a[m].n
  BY <1>2, NestedIs
<1>4. PICK b : Counts(g, k, n, b) /\ NestedCount(g, k) = b[n].n
  BY <1>2, NestedIs
<1> HIDE DEF m, n
<1>5. \A i \in 1..m : Views(g, k)[i] = Views(h, k)[i] /\ MovementAt(g, Views(g, k)[i].at) = MovementAt(h, Views(h, k)[i].at)
  <2>1. \A i \in 1..m : Views(g, k)[i] = Views(h, k)[i] /\ Views(h, k)[i].at \in Nat /\ Views(h, k)[i].at < t
    BY <1>2, ViewsGrow
  <2>2. QED
    BY <2>1, LegAtStays
<1>6. \A before : \A i \in 1..m : NestedNext(g, k, before, i) = NestedNext(h, k, before, i)
  BY <1>5 DEF NestedNext
<1>7. /\ a[0] = NestedStart /\ \A i \in 1..m : a[i] = NestedNext(h, k, a[i - 1], i)
      /\ b[0] = NestedStart /\ \A i \in 1..n : b[i] = NestedNext(g, k, b[i - 1], i)
  <2>1. 0 \in 0..m /\ \A i \in 1..m : i \in 0..m /\ i # 0
    BY <1>2
  <2>2. 0 \in 0..n /\ \A i \in 1..n : i \in 0..n /\ i # 0
    BY <1>2
  <2>3. a[0] = NestedStart /\ \A i \in 1..m : a[i] = NestedNext(h, k, a[i - 1], i)
    BY <1>3, <2>1 DEF Counts
  <2>4. b[0] = NestedStart /\ \A i \in 1..n : b[i] = NestedNext(g, k, b[i - 1], i)
    BY <1>4, <2>2 DEF Counts
  <2>5. QED
    BY <2>3, <2>4
<1>8. \A i \in 0..m : a[i] = b[i] /\ a[i].n \in Nat
  <2> DEFINE Apart == {i \in 0..m : ~(a[i] = b[i] /\ a[i].n \in Nat)}
  <2>1. SUFFICES ASSUME Apart # {} PROVE FALSE
    OBVIOUS
  <2>2. Apart \in SUBSET Nat
    BY <1>2
  <2>3. PICK i \in Apart : \A other \in Apart : i <= other
    BY <2>1, <2>2, LeastNumber
  <2>4. i \in 0..m /\ ~(a[i] = b[i] /\ a[i].n \in Nat)
    BY <2>3
  <2>5. i # 0
    <3>1. NestedStart.n \in Nat
      BY DEF NestedStart
    <3>2. QED
      BY <1>7, <2>4, <3>1
  <2>6. i - 1 \in 0..m /\ ~(i <= i - 1) /\ i \in 1..m /\ i \in 1..n
    BY <1>2, <2>4, <2>5
  <2>7. a[i - 1] = b[i - 1] /\ a[i - 1].n \in Nat
    <3>1. i - 1 \notin Apart
      <4> HIDE DEF Apart
      <4>1. QED
        BY <2>3, <2>6
    <3>2. QED
      BY <2>6, <3>1
  <2>8. a[i] = NestedNext(h, k, a[i - 1], i) /\ b[i] = NestedNext(g, k, b[i - 1], i)
    BY <1>7, <2>6
  <2>9. a[i] = b[i]
    BY <1>6, <2>6, <2>7, <2>8
  <2>10. a[i].n \in Nat
    BY <2>7, <2>8, NestedStepCounts DEF NestedNext
  <2>11. QED
    BY <2>4, <2>9, <2>10
<1>9. a[m] = b[m] /\ a[m].n \in Nat
  BY <1>2, <1>8
<1>10. CASE n = m
  BY <1>3, <1>4, <1>9, <1>10
<1>11. CASE n = m + 1
  <2>1. n \in 1..n /\ n - 1 = m
    BY <1>2, <1>11
  <2>2. b[n] = NestedNext(g, k, b[m], n)
    BY <1>7, <2>1
  <2>3. b[m].n <= b[n].n
    BY <1>9, <2>2, NestedStepCounts DEF NestedNext
  <2>4. QED
    BY <1>3, <1>4, <1>9, <2>3
<1>12. QED
  BY <1>2, <1>10, <1>11

(***************************************************************************)
(* Fractal engine: the life of requirements                                *)
(***************************************************************************)
Lives(h, m, f) == f = [t \in 0..m |-> IF t = 0 THEN NewLife ELSE Turn(f[t - 1], h, t)]

LEMMA LivesExist ==
  ASSUME NEW h, NEW m \in Nat
  PROVE  \E f : Lives(h, m, f)
<1> DEFINE Without == {n \in Nat : ~\E f : Lives(h, n, f)}
<1>1. SUFFICES ASSUME Without # {} PROVE FALSE
  OBVIOUS
<1>2. PICK least \in Without : \A other \in Without : least <= other
  BY <1>1, LeastNumber
<1>3. least \in Nat /\ ~\E f : Lives(h, least, f)
  BY <1>2
<1>4. least # 0
  <2> DEFINE f == [t \in 0..0 |-> NewLife]
  <2>1. f = [t \in 0..0 |-> IF t = 0 THEN NewLife ELSE Turn(f[t - 1], h, t)]
    OBVIOUS
  <2>2. Lives(h, 0, f)
    BY <2>1 DEF Lives
  <2> HIDE DEF f
  <2>3. QED
    BY <1>3, <2>2
<1>5. PICK f : Lives(h, least - 1, f)
  <2>1. least - 1 \in Nat /\ ~(least <= least - 1)
    BY <1>3, <1>4
  <2>2. least - 1 \notin Without
    <3> HIDE DEF Without
    <3>1. QED
      BY <1>2, <2>1
  <2>3. QED
    BY <2>1, <2>2
<1> DEFINE g == [t \in 0..least |-> IF t < least THEN f[t] ELSE Turn(f[least - 1], h, least)]
<1>6. ASSUME NEW t \in 0..least
      PROVE  g[t] = IF t = 0 THEN NewLife ELSE Turn(g[t - 1], h, t)
  <2>1. CASE t = 0
    <3>1. 0 \in 0..(least - 1) /\ 0 < least
      BY <1>3, <1>4
    <3>2. g[0] = f[0]
      BY <1>6, <2>1, <3>1
    <3>3. f[0] = NewLife
      BY <1>5, <3>1 DEF Lives
    <3>4. QED
      BY <2>1, <3>2, <3>3
  <2>2. CASE t # 0 /\ t < least
    <3>1. t \in 0..(least - 1) /\ t - 1 \in 0..least /\ t - 1 < least
      BY <1>3, <1>6, <2>2
    <3>2. f[t] = Turn(f[t - 1], h, t)
      BY <1>5, <2>2, <3>1 DEF Lives
    <3>3. g[t] = f[t] /\ g[t - 1] = f[t - 1]
      BY <1>6, <2>2, <3>1
    <3> HIDE DEF g
    <3>4. QED
      BY <2>2, <3>2, <3>3
  <2>3. CASE t = least
    <3>1. least - 1 \in 0..least /\ least - 1 < least /\ ~(least < least)
      BY <1>3, <1>4
    <3>2. g[least - 1] = f[least - 1] /\ g[least] = Turn(f[least - 1], h, least)
      BY <1>6, <2>3, <3>1
    <3> HIDE DEF g
    <3>3. QED
      BY <1>4, <2>3, <3>2
  <2>4. t < least \/ t = least
    BY <1>3, <1>6
  <2> HIDE DEF g
  <2>5. QED
    BY <2>1, <2>2, <2>3, <2>4
<1>7. Lives(h, least, g)
  <2>1. g = [t \in 0..least |-> g[t]]
    OBVIOUS
  <2> HIDE DEF g
  <2>2. QED
    BY <1>6, <2>1 DEF Lives
<1>8. QED
  BY <1>3, <1>7

LEMMA LifecycleIs ==
  ASSUME NEW h, instant \in Nat
  PROVE  \E f : /\ Lifecycle(h) = f[instant] /\ f[0] = NewLife
                /\ \A t \in 1..instant : f[t] = Turn(f[t - 1], h, t)
<1> DEFINE f == CHOOSE f : Lives(h, instant, f)
<1>1. Lifecycle(h) = f[instant]
  BY Zenon DEF Lifecycle, Lives
<1>2. \E c : Lives(h, instant, c)
  BY LivesExist
<1>3. Lives(h, instant, f)
  BY <1>2, Zenon
<1> HIDE DEF f
<1>4. f[0] = NewLife
  <2>1. 0 \in 0..instant
    OBVIOUS
  <2>2. QED
    BY <1>3, <2>1 DEF Lives
<1>5. ASSUME NEW t \in 1..instant PROVE f[t] = Turn(f[t - 1], h, t)
  <2>1. t \in 0..instant /\ t # 0
    BY <1>5
  <2>2. QED
    BY <1>3, <2>1 DEF Lives
<1>6. QED
  BY <1>1, <1>4, <1>5

Life(waiting, count, child, events) ==
  [pending |-> waiting, count |-> count, child |-> child, events |-> events]
Requirement(id, p, void, confirm) ==
  [id |-> id, signature |-> Signature(p), trend |-> p.trend, shift |-> ExpectedShift(p), void |-> void,
   at |-> p.at, confirm |-> confirm]
LifeKinds == {"CREATED", "CARRIED", "SUPERSEDED", "INVALIDATED", "CONFIRMED"}
LifeEvents == [at : Nat, id : Nat, kind : LifeKinds]

LEMMA NewLifeIs == NewLife = Life(NoRequirement, 0, Absent, <<>>) /\ NoRequirement.id = 0
  BY DEF NewLife, Life, NoRequirement

LEMMA LifeEventIs ==
  \A at \in Nat, id \in Nat, kind \in LifeKinds :
    /\ LifeEvent(at, id, kind) \in LifeEvents
    /\ LifeEvent(at, id, kind).at = at /\ LifeEvent(at, id, kind).id = id /\ LifeEvent(at, id, kind).kind = kind
  BY DEF LifeEvent, LifeEvents

LEMMA ResolvedIs ==
  \A r, n, c, e, at, kind :
    Resolved(Life(r, n, c, e), at, kind) = Life(NoRequirement, n, c, Append(e, LifeEvent(at, r.id, kind)))
<1>1. SUFFICES ASSUME NEW r, NEW n, NEW c, NEW e, NEW at, NEW kind
               PROVE  Resolved(Life(r, n, c, e), at, kind)
                        = Life(NoRequirement, n, c, Append(e, LifeEvent(at, r.id, kind)))
  OBVIOUS
<1> DEFINE L == Life(r, n, c, e)
<1>2. L.pending = r /\ L.events = e
  BY DEF Life
<1>3. Resolved(L, at, kind) = [L EXCEPT !.pending = NoRequirement, !.events = Append(e, LifeEvent(at, r.id, kind))]
  <2> HIDE DEF L
  <2>1. QED
    BY <1>2 DEF Resolved
<1>4. QED
  BY <1>3 DEF Life

(* What a parent does: nothing to a life that waits for nothing when it    *)
(* asks for nothing; a requirement when it asks for something.             *)
LEMMA ParentCreates ==
  ASSUME NEW n, NEW c, NEW e, NEW p
  PROVE  PushParent(Life(NoRequirement, n, c, e), p) =
           IF ExpectedShift(p) = 0 THEN Life(NoRequirement, n, c, e)
           ELSE Life(Requirement(n + 1, p, p.void, ConfirmationPrice(c, ExpectedShift(p))), n + 1, c,
                     Append(e, LifeEvent(p.at, n + 1, "CREATED")))
<1>1. CASE ExpectedShift(p) = 0
  BY <1>1 DEF PushParent, Life
<1>2. CASE ExpectedShift(p) # 0
  <2> DEFINE L == Life(NoRequirement, n, c, e)
             r == Requirement(n + 1, p, p.void, ConfirmationPrice(c, ExpectedShift(p)))
  <2>1. L.pending = NoRequirement /\ L.count = n /\ L.child = c /\ L.events = e
    BY DEF Life
  <2>2. r.id = n + 1
    BY DEF Requirement
  <2>3. PushParent(L, p) =
          [L EXCEPT !.pending = r, !.count = n + 1, !.events = Append(e, LifeEvent(p.at, n + 1, "CREATED"))]
    <3> HIDE DEF L
    <3>1. QED
      BY <1>2, <2>1, <2>2 DEF PushParent, Requirement
  <2> HIDE DEF r
  <2>4. PushParent(L, p) = Life(r, n + 1, c, Append(e, LifeEvent(p.at, n + 1, "CREATED")))
    BY <2>3 DEF Life
  <2>5. QED
    BY <1>2, <2>4 DEF r
<1>3. QED
  BY <1>1, <1>2

LEMMA ParentSupersedes ==
  ASSUME NEW id \in Nat \ {0}, NEW q, NEW v, NEW f, NEW n, NEW c, NEW e, NEW p, Signature(q) # Signature(p)
  PROVE  PushParent(Life(Requirement(id, q, v, f), n, c, e), p) =
           PushParent(Life(NoRequirement, n, c, Append(e, LifeEvent(p.at, id, "SUPERSEDED"))), p)
<1> DEFINE r == Requirement(id, q, v, f)
           L == Life(r, n, c, e)
           M == Life(NoRequirement, n, c, Append(e, LifeEvent(p.at, id, "SUPERSEDED")))
<1>1. r # NoRequirement /\ r.signature # Signature(p) /\ r.id = id /\ L.pending = r
  BY DEF Requirement, NoRequirement, Life
<1>2. M.pending = NoRequirement
  BY DEF Life
<1>3. Resolved(L, p.at, "SUPERSEDED") = M
  BY <1>1, ResolvedIs
<1> HIDE DEF r, L, M
<1>4. PushParent(L, p) = PushParent(M, p)
  BY <1>1, <1>2, <1>3 DEF PushParent
<1>5. QED
  BY <1>4 DEF L, M, r

LEMMA ParentCarries ==
  ASSUME NEW id \in Nat \ {0}, NEW q, NEW v, NEW f, NEW n, NEW c, NEW e, NEW p,
         Signature(q) = Signature(p), ExpectedShift(q) # 0
  PROVE  PushParent(Life(Requirement(id, q, v, f), n, c, e), p) =
           Life(Requirement(id, q, IF p.void = Absent THEN v ELSE p.void, f), n, c,
                Append(e, LifeEvent(p.at, id, "CARRIED")))
<1> DEFINE r == Requirement(id, q, v, f)
           L == Life(r, n, c, e)
           w == IF p.void = Absent THEN v ELSE p.void
           s == Requirement(id, q, w, f)
<1>1. ExpectedShift(p) # 0
  BY DEF Signature
<1>2. r # NoRequirement /\ r.signature = Signature(p) /\ r.id = id /\ s.id = id
  BY DEF Requirement, NoRequirement
<1>3. (IF p.void = Absent THEN r ELSE [r EXCEPT !.void = p.void]) = s
  BY DEF Requirement
<1> HIDE DEF r, s, w
<1>4. PushParent(L, p) = [L EXCEPT !.pending = s, !.events = Append(@, LifeEvent(p.at, id, "CARRIED"))]
  <2>1. L.pending = r
    BY DEF Life
  <2> HIDE DEF L
  <2>2. QED
    BY <1>1, <1>2, <1>3, <2>1 DEF PushParent
<1>5. PushParent(L, p) = Life(s, n, c, Append(e, LifeEvent(p.at, id, "CARRIED")))
  BY <1>4 DEF Life
<1>6. QED
  BY <1>5 DEF r, s, w

LEMMA ChildSeen ==
  ASSUME NEW n, NEW c, NEW e, NEW d
  PROVE  PushChild(Life(NoRequirement, n, c, e), d) = Life(NoRequirement, n, d, e)
  BY DEF PushChild, Life

LEMMA ChildResolves ==
  ASSUME NEW id \in Nat \ {0}, NEW q, NEW v, NEW f, NEW n, NEW c, NEW e, NEW d
  PROVE  PushChild(Life(Requirement(id, q, v, f), n, c, e), d) =
           IF PastPrice(d, v, -q.trend) THEN Life(NoRequirement, n, d, Append(e, LifeEvent(d.at, id, "INVALIDATED")))
           ELSE IF Confirms(d, [shift |-> ExpectedShift(q), confirm |-> f])
           THEN Life(NoRequirement, n, d, Append(e, LifeEvent(d.at, id, "CONFIRMED")))
           ELSE Life(Requirement(id, q, v, f), n, d, e)
<1> DEFINE r == Requirement(id, q, v, f)
           L == Life(r, n, c, e)
           Done(kind) == Life(NoRequirement, n, c, Append(e, LifeEvent(d.at, id, kind)))
<1>1. r # NoRequirement /\ r.id = id /\ r.void = v /\ r.trend = q.trend
  BY DEF Requirement, NoRequirement
<1>2. Breaches(d, r) <=> PastPrice(d, v, -q.trend)
  BY <1>1 DEF Breaches
<1>3. Confirms(d, r) <=> Confirms(d, [shift |-> ExpectedShift(q), confirm |-> f])
  BY DEF Confirms, Requirement
<1>4. L.pending = r /\ \A kind : Resolved(L, d.at, kind) = Done(kind)
  BY <1>1, ResolvedIs DEF Life
<1>5. \A a, b, x, y : [Life(a, b, x, y) EXCEPT !.child = d] = Life(a, b, d, y)
  BY DEF Life
<1> HIDE DEF r
<1>6. PushChild(L, d) =
        [(IF Breaches(d, r) THEN Done("INVALIDATED") ELSE IF Confirms(d, r) THEN Done("CONFIRMED") ELSE L)
           EXCEPT !.child = d]
  <2> HIDE DEF L, Done
  <2>1. QED
    BY <1>1, <1>4 DEF PushChild
<1>7. CASE Breaches(d, r)
  BY <1>2, <1>5, <1>6, <1>7 DEF r
<1>8. CASE ~Breaches(d, r) /\ Confirms(d, r)
  BY <1>2, <1>3, <1>5, <1>6, <1>8 DEF r
<1>9. CASE ~Breaches(d, r) /\ ~Confirms(d, r)
  BY <1>2, <1>3, <1>5, <1>6, <1>9 DEF r
<1>10. QED
  BY <1>7, <1>8, <1>9

(***************************************************************************)
(* Fractal engine: what ends a requirement                                 *)
(***************************************************************************)
LEMMA SideFits ==
  ASSUME NEW s, NEW t \in Nat, Chronicle(s, t)
  PROVE  /\ DOMAIN s = 1..Len(s) /\ Len(s) \in Nat
         /\ \A i \in DOMAIN s : s[i].at \in 1..t
         /\ \A i, j \in DOMAIN s : s[i].at = s[j].at => i = j
<1>1. DOMAIN s = 1..Len(s) /\ Len(s) \in Nat /\ \A i \in 1..Len(s) : s[i].at \in 1..t
  BY DEF Chronicle
<1>2. \A i, j \in 1..Len(s) : i < j => s[i].at < s[j].at
  BY DEF Chronicle
<1>3. ASSUME NEW i \in 1..Len(s), NEW j \in 1..Len(s), s[i].at = s[j].at PROVE i = j
  <2>1. ~(s[i].at < s[j].at) /\ ~(s[j].at < s[i].at)
    BY <1>1, <1>3
  <2>2. ~(i < j) /\ ~(j < i) /\ i \in Nat /\ j \in Nat
    BY <1>2, <1>3, <2>1
  <2>3. QED
    BY <2>2
<1>4. QED
  BY <1>1, <1>3

LEMMA SidesFit ==
  ASSUME HistoriesFit
  PROVE  /\ instant \in Nat
         /\ Chronicle(histories[1], instant) /\ Chronicle(histories[2], instant)
         /\ \A p \in Parents : p.at \in 1..instant /\ ParentAt(p.at) = p
         /\ \A p, q \in Parents : p.at = q.at => p = q
         /\ \A c \in Children : c.at \in 1..instant
         /\ \A c, d \in Children : c.at = d.at => c = d
<1>1. instant \in Nat /\ Chronicle(histories[1], instant) /\ Chronicle(histories[2], instant)
  BY SetReadsAssumption DEF HistoriesFit
<1>2. \A p, q \in Parents : p.at \in 1..instant /\ (p.at = q.at => p = q)
  BY <1>1, SideFits DEF Parents
<1>3. \A c, d \in Children : c.at \in 1..instant /\ (c.at = d.at => c = d)
  BY <1>1, SideFits DEF Children
<1>4. ASSUME NEW p \in Parents PROVE ParentAt(p.at) = p
  <2>1. \E q \in Parents : q.at = p.at
    BY <1>4
  <2>2. ParentAt(p.at) \in Parents /\ ParentAt(p.at).at = p.at
    BY <2>1, Zenon DEF ParentAt
  <2>3. QED
    BY <1>2, <1>4, <2>2
<1>5. QED
  BY <1>1, <1>2, <1>3, <1>4

Supersedes(q, p) == q.at > p.at /\ Signature(q) # Signature(p)

LEMMA DueAre ==
  ASSUME NEW p, NEW x
  PROVE  x \in Due(p) <=>
           \/ \E q \in Parents : Supersedes(q, p) /\ x = <<2 * q.at, "SUPERSEDED">>
           \/ \E c \in Children : c.at >= p.at /\ Voids(c, p) /\ x = <<2 * c.at + 1, "INVALIDATED">>
           \/ \E c \in Children : c.at >= p.at /\ Grants(c, p) /\ x = <<2 * c.at + 1, "CONFIRMED">>
<1>1. x \in {<<2 * q.at, "SUPERSEDED">> : q \in {r \in Parents : r.at > p.at /\ Signature(r) # Signature(p)}}
        <=> \E q \in Parents : Supersedes(q, p) /\ x = <<2 * q.at, "SUPERSEDED">>
  BY Zenon DEF Supersedes
<1>2. x \in {<<2 * c.at + 1, "INVALIDATED">> : c \in {d \in Children : d.at >= p.at /\ Voids(d, p)}}
        <=> \E c \in Children : c.at >= p.at /\ Voids(c, p) /\ x = <<2 * c.at + 1, "INVALIDATED">>
  BY Zenon
<1>3. x \in {<<2 * c.at + 1, "CONFIRMED">> : c \in {d \in Children : d.at >= p.at /\ Grants(d, p)}}
        <=> \E c \in Children : c.at >= p.at /\ Grants(c, p) /\ x = <<2 * c.at + 1, "CONFIRMED">>
  BY Zenon
<1>4. QED
  BY <1>1, <1>2, <1>3, Zenon DEF Due

LEMMA VoidsOrGrants == \A c, p : ~(Voids(c, p) /\ Grants(c, p))
  BY DEF Grants

(* No two causes fall together.                                            *)
LEMMA OneCauseAtOnce ==
  ASSUME HistoriesFit, NEW p, NEW x \in Due(p), NEW y \in Due(p), x[1] = y[1]
  PROVE  x = y
<1>1. \A q \in Parents : q.at \in Nat
  BY SidesFit
<1>2. \A c \in Children : c.at \in Nat
  BY SidesFit
<1>3. CASE \E q \in Parents : Supersedes(q, p) /\ x = <<2 * q.at, "SUPERSEDED">>
  <2>1. PICK q \in Parents : x = <<2 * q.at, "SUPERSEDED">>
    BY <1>3
  <2>2. ~\E c \in Children : y[1] = 2 * c.at + 1
    BY <1>1, <1>2, <2>1
  <2>3. PICK r \in Parents : y = <<2 * r.at, "SUPERSEDED">>
    BY <2>2, DueAre
  <2>4. QED
    BY <2>1, <2>3
<1>4. CASE \E c \in Children : x \in {<<2 * c.at + 1, "INVALIDATED">>, <<2 * c.at + 1, "CONFIRMED">>}
  <2>1. PICK c \in Children : x[1] = 2 * c.at + 1
    BY <1>4
  <2>2. ~\E q \in Parents : y[1] = 2 * q.at
    BY <1>1, <1>2, <2>1
  <2>3. \A d \in Children : y[1] = 2 * d.at + 1 => d = c
    <3>1. \A d \in Children : 2 * d.at + 1 = 2 * c.at + 1 => d.at = c.at
      BY <1>2
    <3>2. QED
      BY <2>1, <3>1, SidesFit
  <2>4. \A d \in Children : x[1] = 2 * d.at + 1 => d = c
    BY <2>3
  <2>5. \/ Voids(c, p) /\ y = <<2 * c.at + 1, "INVALIDATED">>
        \/ Grants(c, p) /\ y = <<2 * c.at + 1, "CONFIRMED">>
    BY <2>2, <2>3, DueAre
  <2>6. ~\E q \in Parents : x[1] = 2 * q.at
    BY <2>2
  <2>7. \/ Voids(c, p) /\ x = <<2 * c.at + 1, "INVALIDATED">>
        \/ Grants(c, p) /\ x = <<2 * c.at + 1, "CONFIRMED">>
    BY <2>4, <2>6, DueAre
  <2>8. QED
    BY <2>5, <2>7, VoidsOrGrants
<1>5. QED
  BY <1>3, <1>4, DueAre

Cause(T, p) == {x \in Due(p) : x[1] <= T}

LEMMA CauseNumbers ==
  ASSUME HistoriesFit, NEW p
  PROVE  \A x \in Due(p) : x[1] \in Nat /\ x[1] <= 2 * instant + 1
<1>1. instant \in Nat
  BY SidesFit
<1>2. \A q \in Parents : q.at \in Nat /\ q.at <= instant
  BY SidesFit
<1>3. \A c \in Children : c.at \in Nat /\ c.at <= instant
  BY SidesFit
<1>4. SUFFICES ASSUME NEW x \in Due(p) PROVE x[1] \in Nat /\ x[1] <= 2 * instant + 1
  OBVIOUS
<1>5. CASE \E q \in Parents : x = <<2 * q.at, "SUPERSEDED">>
  BY <1>1, <1>2, <1>5
<1>6. CASE \E c \in Children : x[1] = 2 * c.at + 1
  BY <1>1, <1>3, <1>6
<1>7. QED
  BY <1>5, <1>6, DueAre

(* At a moment the parent can end a requirement, then the child.           *)
LEMMA ParentCauses ==
  ASSUME HistoriesFit, NEW t \in 1..instant, NEW p
  PROVE  /\ (\A q \in Parents : q.at = t => ~Supersedes(q, p)) => Cause(2 * t, p) = Cause(2 * t - 1, p)
         /\ \A q \in Parents : q.at = t /\ Supersedes(q, p) =>
              Cause(2 * t, p) = Cause(2 * t - 1, p) \cup {<<2 * t, "SUPERSEDED">>}
<1>1. instant \in Nat /\ t \in Nat
  BY SidesFit
<1>2. \A q \in Parents : q.at \in Nat
  BY SidesFit
<1>3. \A c \in Children : c.at \in Nat
  BY SidesFit
<1>4. \A x \in Due(p) : x[1] \in Nat
  BY CauseNumbers
<1>5. \A x \in Due(p) : x[1] <= 2 * t <=> x[1] <= 2 * t - 1 \/ x[1] = 2 * t
  BY <1>1, <1>4
<1>6. \A x \in Due(p) : x[1] = 2 * t =>
        \E q \in Parents : q.at = t /\ Supersedes(q, p) /\ x = <<2 * t, "SUPERSEDED">>
  <2>1. SUFFICES ASSUME NEW x \in Due(p), x[1] = 2 * t
                 PROVE  \E q \in Parents : q.at = t /\ Supersedes(q, p) /\ x = <<2 * t, "SUPERSEDED">>
    OBVIOUS
  <2>2. ~\E c \in Children : x[1] = 2 * c.at + 1
    BY <1>1, <1>3, <2>1
  <2>3. PICK q \in Parents : Supersedes(q, p) /\ x = <<2 * q.at, "SUPERSEDED">>
    BY <2>2, DueAre
  <2>4. q.at = t
    BY <1>1, <1>2, <2>1, <2>3
  <2>5. QED
    BY <2>3, <2>4
<1>7. \A q \in Parents : q.at = t /\ Supersedes(q, p) => <<2 * t, "SUPERSEDED">> \in Due(p)
  BY DueAre
<1>8. <<2 * t, "SUPERSEDED">>[1] = 2 * t
  OBVIOUS
<1>9. (\A q \in Parents : q.at = t => ~Supersedes(q, p)) => Cause(2 * t, p) = Cause(2 * t - 1, p)
  BY <1>5, <1>6 DEF Cause
<1>10. ASSUME NEW q \in Parents, q.at = t, Supersedes(q, p)
       PROVE  Cause(2 * t, p) = Cause(2 * t - 1, p) \cup {<<2 * t, "SUPERSEDED">>}
  <2>1. <<2 * t, "SUPERSEDED">> \in Cause(2 * t, p)
    BY <1>1, <1>7, <1>8, <1>10 DEF Cause
  <2>2. Cause(2 * t - 1, p) \subseteq Cause(2 * t, p)
    BY <1>5 DEF Cause
  <2>3. \A x \in Cause(2 * t, p) : x \in Cause(2 * t - 1, p) \/ x = <<2 * t, "SUPERSEDED">>
    BY <1>5, <1>6 DEF Cause
  <2>4. QED
    BY <2>1, <2>2, <2>3
<1>11. QED
  BY <1>9, <1>10

LEMMA ChildCauses ==
  ASSUME HistoriesFit, NEW t \in 1..instant, NEW p \in Parents, p.at <= t
  PROVE  /\ (\A c \in Children : c.at = t => ~Voids(c, p) /\ ~Grants(c, p)) => Cause(2 * t + 1, p) = Cause(2 * t, p)
         /\ \A c \in Children : c.at = t /\ Voids(c, p) =>
              Cause(2 * t + 1, p) = Cause(2 * t, p) \cup {<<2 * t + 1, "INVALIDATED">>}
         /\ \A c \in Children : c.at = t /\ Grants(c, p) =>
              Cause(2 * t + 1, p) = Cause(2 * t, p) \cup {<<2 * t + 1, "CONFIRMED">>}
<1>1. instant \in Nat /\ t \in Nat /\ p.at \in Nat
  BY SidesFit
<1>2. \A q \in Parents : q.at \in Nat
  BY SidesFit
<1>3. \A c \in Children : c.at \in Nat
  BY SidesFit
<1>4. \A x \in Due(p) : x[1] \in Nat
  BY CauseNumbers
<1>5. \A x \in Due(p) : x[1] <= 2 * t + 1 <=> x[1] <= 2 * t \/ x[1] = 2 * t + 1
  BY <1>1, <1>4
<1>6. \A x \in Due(p) : x[1] = 2 * t + 1 =>
        \E c \in Children : /\ c.at = t
                            /\ \/ Voids(c, p) /\ x = <<2 * t + 1, "INVALIDATED">>
                               \/ Grants(c, p) /\ x = <<2 * t + 1, "CONFIRMED">>
  <2>1. SUFFICES ASSUME NEW x \in Due(p), x[1] = 2 * t + 1
                 PROVE  \E c \in Children : /\ c.at = t
                            /\ \/ Voids(c, p) /\ x = <<2 * t + 1, "INVALIDATED">>
                               \/ Grants(c, p) /\ x = <<2 * t + 1, "CONFIRMED">>
    OBVIOUS
  <2>2. ~\E q \in Parents : x[1] = 2 * q.at
    BY <1>1, <1>2, <2>1
  <2>3. PICK c \in Children : \/ Voids(c, p) /\ x = <<2 * c.at + 1, "INVALIDATED">>
                              \/ Grants(c, p) /\ x = <<2 * c.at + 1, "CONFIRMED">>
    BY <2>2, DueAre
  <2>4. c.at = t
    BY <1>1, <1>3, <2>1, <2>3
  <2>5. QED
    BY <2>3, <2>4
<1>7. \A c \in Children : c.at = t /\ Voids(c, p) => <<2 * t + 1, "INVALIDATED">> \in Due(p)
  BY <1>1, DueAre
<1>8. \A c \in Children : c.at = t /\ Grants(c, p) => <<2 * t + 1, "CONFIRMED">> \in Due(p)
  BY <1>1, DueAre
<1>9. (\A c \in Children : c.at = t => ~Voids(c, p) /\ ~Grants(c, p)) => Cause(2 * t + 1, p) = Cause(2 * t, p)
  BY <1>5, <1>6 DEF Cause
<1>10. Cause(2 * t, p) \subseteq Cause(2 * t + 1, p)
  BY <1>5 DEF Cause
<1>11. \A c, d \in Children : c.at = t /\ d.at = t => c = d
  BY SidesFit
<1>12. ASSUME NEW c \in Children, c.at = t, Voids(c, p)
       PROVE  Cause(2 * t + 1, p) = Cause(2 * t, p) \cup {<<2 * t + 1, "INVALIDATED">>}
  <2>1. <<2 * t + 1, "INVALIDATED">> \in Cause(2 * t + 1, p)
    <3>1. <<2 * t + 1, "INVALIDATED">>[1] = 2 * t + 1
      OBVIOUS
    <3>2. QED
      BY <1>1, <1>7, <1>12, <3>1 DEF Cause
  <2>2. \A x \in Cause(2 * t + 1, p) : x \in Cause(2 * t, p) \/ x = <<2 * t + 1, "INVALIDATED">>
    BY <1>5, <1>6, <1>11, <1>12, VoidsOrGrants DEF Cause
  <2>3. QED
    BY <1>10, <2>1, <2>2
<1>13. ASSUME NEW c \in Children, c.at = t, Grants(c, p)
       PROVE  Cause(2 * t + 1, p) = Cause(2 * t, p) \cup {<<2 * t + 1, "CONFIRMED">>}
  <2>1. <<2 * t + 1, "CONFIRMED">> \in Cause(2 * t + 1, p)
    <3>1. <<2 * t + 1, "CONFIRMED">>[1] = 2 * t + 1
      OBVIOUS
    <3>2. QED
      BY <1>1, <1>8, <1>13, <3>1 DEF Cause
  <2>2. \A x \in Cause(2 * t + 1, p) : x \in Cause(2 * t, p) \/ x = <<2 * t + 1, "CONFIRMED">>
    BY <1>5, <1>6, <1>11, <1>13, VoidsOrGrants DEF Cause
  <2>3. QED
    BY <1>10, <2>1, <2>2
<1>14. QED
  BY <1>9, <1>12, <1>13

(* What a parent asks for cannot have ended before it is asked.            *)
LEMMA NoCauseYet ==
  ASSUME HistoriesFit, NEW p \in Parents
  PROVE  Cause(2 * p.at, p) = {}
<1>1. p.at \in Nat
  BY SidesFit
<1>2. \A q \in Parents : q.at \in Nat
  BY SidesFit
<1>3. \A c \in Children : c.at \in Nat
  BY SidesFit
<1>4. SUFFICES ASSUME NEW x \in Due(p) PROVE ~(x[1] <= 2 * p.at)
  BY DEF Cause
<1>5. CASE \E q \in Parents : Supersedes(q, p) /\ x = <<2 * q.at, "SUPERSEDED">>
  BY <1>1, <1>2, <1>5 DEF Supersedes
<1>6. CASE \E c \in Children : c.at >= p.at /\ x[1] = 2 * c.at + 1
  BY <1>1, <1>3, <1>6
<1>7. QED
  BY <1>5, <1>6, DueAre

Known(p, t) == {q.at : q \in {r \in Parents : r.at \in p.at..t /\ r.void # Absent}}

LEMMA VoidAtIs == \A p, t : VoidAt(p, t) = IF Known(p, t) = {} THEN Absent ELSE ParentAt(Max(Known(p, t))).void
  BY DEF VoidAt, Known

(* The latest of the prices that void is the one of the moment, if it has  *)
(* one, and else the one known before.                                     *)
LEMMA VoidMoves ==
  ASSUME HistoriesFit, NEW p \in Parents, NEW t \in 1..instant, p.at <= t
  PROVE  /\ \A r \in Parents : r.at = t /\ r.void # Absent => VoidAt(p, t) = r.void
         /\ (\A r \in Parents : r.at = t => r.void = Absent) /\ p.at < t => VoidAt(p, t) = VoidAt(p, t - 1)
         /\ p.at = t => VoidAt(p, t) = p.void
<1>1. instant \in Nat /\ t \in Nat /\ p.at \in Nat
  BY SidesFit
<1>2. \A q \in Parents : q.at \in Nat
  BY SidesFit
<1>3. ASSUME NEW r \in Parents, r.at = t, r.void # Absent PROVE VoidAt(p, t) = r.void
  <2>1. t \in Known(p, t)
    BY <1>1, <1>3 DEF Known
  <2>2. Known(p, t) \in SUBSET (0..t)
    BY <1>1, <1>2 DEF Known
  <2>3. Max(Known(p, t)) \in Known(p, t) /\ t <= Max(Known(p, t))
    <3>1. Known(p, t) # {}
      BY <2>1
    <3>2. QED
      BY <1>1, <2>1, <2>2, <3>1, GreatestIsMax
  <2>4. Max(Known(p, t)) = t
    <3>1. Max(Known(p, t)) \in 0..t
      BY <2>2, <2>3
    <3>2. QED
      BY <1>1, <2>3, <3>1
  <2>5. ParentAt(t) = r
    BY <1>3, SidesFit
  <2>6. QED
    BY <2>1, <2>4, <2>5, VoidAtIs
<1>4. ASSUME \A r \in Parents : r.at = t => r.void = Absent, p.at < t PROVE VoidAt(p, t) = VoidAt(p, t - 1)
  <2>1. \A r \in Parents : r.at \in p.at..t /\ r.void # Absent <=> r.at \in p.at..(t - 1) /\ r.void # Absent
    BY <1>1, <1>2, <1>4
  <2>2. Known(p, t) = Known(p, t - 1)
    BY <2>1 DEF Known
  <2>3. QED
    BY <2>2, VoidAtIs
<1>5. ASSUME p.at = t PROVE VoidAt(p, t) = p.void
  <2>1. CASE p.void # Absent
    BY <1>3, <1>5, <2>1
  <2>2. CASE p.void = Absent
    <3>1. \A r \in Parents : r.at \in p.at..t => r = p
      BY <1>1, <1>2, <1>5, SidesFit
    <3>2. Known(p, t) = {}
      BY <2>2, <3>1 DEF Known
    <3>3. QED
      BY <2>2, <3>2, VoidAtIs
  <2>3. QED
    BY <2>1, <2>2
<1>6. QED
  BY <1>3, <1>4, <1>5

(***************************************************************************)
(* Fractal engine: a life tells what became of every requirement           *)
(***************************************************************************)
Open == {"CREATED", "CARRIED"}

Source(e, i) == ParentAt(e[i].at)

Settled(end, id, due, open) ==
  \/ due = {} /\ end = {} /\ open = id
  \/ /\ open # id
     /\ \E x \in due : /\ \A y \in due : x[1] <= y[1]
                       /\ end = {[at |-> x[1] \div 2, id |-> id, kind |-> x[2]]}

Tells(e, n, open, T, t) ==
  /\ n \in Nat /\ e \in Seq(LifeEvents)
  /\ \A i \in DOMAIN e : e[i].id \in 1..n
  /\ \A i \in Made(e) : \E p \in Parents : p.at = e[i].at /\ p.at <= t
  /\ \A i, j \in Made(e) : e[i].id = e[j].id => i = j
  /\ \A i \in Made(e) : Settled(EndOf(e, e[i].id), e[i].id, Cause(T, Source(e, i)), open)

LEMMA Appended ==
  ASSUME NEW e \in Seq(LifeEvents), NEW v \in LifeEvents
  PROVE  /\ Append(e, v) \in Seq(LifeEvents)
         /\ Len(e) + 1 \notin DOMAIN e /\ DOMAIN Append(e, v) = (DOMAIN e) \cup {Len(e) + 1}
         /\ Append(e, v)[Len(e) + 1] = v /\ \A i \in DOMAIN e : Append(e, v)[i] = e[i]
         /\ Made(Append(e, v)) = IF v.kind = "CREATED" THEN Made(e) \cup {Len(e) + 1} ELSE Made(e)
         /\ \A id : EndOf(Append(e, v), id) =
                      IF v.id = id /\ v.kind \notin Open THEN EndOf(e, id) \cup {v} ELSE EndOf(e, id)
<1> DEFINE f == Append(e, v)
           m == Len(e) + 1
<1>1. f \in Seq(LifeEvents) /\ m \notin DOMAIN e /\ DOMAIN f = (DOMAIN e) \cup {m}
  OBVIOUS
<1>2. f[m] = v /\ \A i \in DOMAIN e : f[i] = e[i]
  OBVIOUS
<1> HIDE DEF f, m
<1>3. Made(f) = IF v.kind = "CREATED" THEN Made(e) \cup {m} ELSE Made(e)
  BY <1>1, <1>2 DEF Made
<1>4. ASSUME NEW id
      PROVE  EndOf(f, id) = IF v.id = id /\ v.kind \notin Open THEN EndOf(e, id) \cup {v} ELSE EndOf(e, id)
  <2> DEFINE I(s) == {j \in DOMAIN s : s[j].id = id /\ s[j].kind \notin {"CREATED", "CARRIED"}}
  <2>1. \A s : EndOf(s, id) = {s[i] : i \in I(s)}
    BY DEF EndOf
  <2>2. I(f) = IF v.id = id /\ v.kind \notin Open THEN I(e) \cup {m} ELSE I(e)
    BY <1>1, <1>2 DEF Open
  <2>3. \A i \in I(e) : f[i] = e[i]
    BY <1>2
  <2> HIDE DEF I
  <2>4. {f[i] : i \in I(e)} = {e[i] : i \in I(e)}
    BY <2>3
  <2>5. CASE v.id = id /\ v.kind \notin Open
    <3>1. {f[i] : i \in I(e) \cup {m}} = {f[i] : i \in I(e)} \cup {f[m]}
      OBVIOUS
    <3>2. QED
      BY <1>2, <2>1, <2>2, <2>4, <2>5, <3>1
  <2>6. CASE ~(v.id = id /\ v.kind \notin Open)
    BY <2>1, <2>2, <2>4, <2>6
  <2>7. QED
    BY <2>5, <2>6
<1>5. QED
  BY <1>1, <1>2, <1>3, <1>4 DEF f, m

(* What has ended stays ended by its first cause.                          *)
LEMMA SettledStays ==
  ASSUME HistoriesFit, NEW T \in Nat, NEW U \in Nat, T <= U, NEW p, NEW id, NEW end, NEW open, NEW opens,
         Settled(end, id, Cause(T, p), open), open # id, opens # id
  PROVE  Settled(end, id, Cause(U, p), opens)
<1>1. PICK x \in Cause(T, p) : /\ \A y \in Cause(T, p) : x[1] <= y[1]
                               /\ end = {[at |-> x[1] \div 2, id |-> id, kind |-> x[2]]}
  BY DEF Settled
<1>2. \A y \in Due(p) : y[1] \in Nat
  BY CauseNumbers
<1>3. x \in Cause(U, p) /\ x[1] <= T /\ x[1] \in Nat
  BY <1>1, <1>2 DEF Cause
<1>4. \A y \in Cause(U, p) : x[1] <= y[1]
  <2>1. \A y \in Cause(U, p) : y[1] \in Nat /\ (y \in Cause(T, p) \/ ~(y[1] <= T))
    BY <1>2 DEF Cause
  <2>2. QED
    BY <1>1, <1>3, <2>1
<1>5. QED
  BY <1>1, <1>3, <1>4 DEF Settled

(* Time goes by and what is asked is not ended.                            *)
LEMMA Waits ==
  ASSUME HistoriesFit, NEW e, NEW n, NEW open, NEW T \in Nat, NEW U \in Nat, T <= U, NEW t \in Nat, NEW u \in Nat, t <= u,
         Tells(e, n, open, T, t),
         \A i \in Made(e) : e[i].id = open => Cause(U, Source(e, i)) = Cause(T, Source(e, i))
  PROVE  Tells(e, n, open, U, u)
<1>1. ASSUME NEW i \in Made(e) PROVE Settled(EndOf(e, e[i].id), e[i].id, Cause(U, Source(e, i)), open)
  <2>1. Settled(EndOf(e, e[i].id), e[i].id, Cause(T, Source(e, i)), open)
    BY <1>1 DEF Tells
  <2>2. CASE e[i].id = open
    BY <1>1, <2>1, <2>2
  <2>3. CASE e[i].id # open
    BY <2>1, <2>3, SettledStays
  <2>4. QED
    BY <2>2, <2>3
<1>2. \A i \in Made(e) : \E p \in Parents : p.at = e[i].at /\ p.at <= u
  <2>1. \A p \in Parents : p.at \in Nat
    BY SidesFit
  <2>2. QED
    BY <2>1 DEF Tells
<1>3. QED
  BY <1>1, <1>2 DEF Tells

(* A new moment ends what is asked.                                        *)
LEMMA Finishes ==
  ASSUME HistoriesFit, NEW e, NEW n, NEW T \in Nat, NEW U \in Nat, T <= U, NEW t \in Nat, NEW u \in Nat, t <= u,
         NEW i \in Made(e), Tells(e, n, e[i].id, T, t), NEW kind \in LifeKinds \ Open, U \div 2 \in Nat,
         Cause(U, Source(e, i)) = Cause(T, Source(e, i)) \cup {<<U, kind>>}
  PROVE  Tells(Append(e, LifeEvent(U \div 2, e[i].id, kind)), n, 0, U, u)
<1> DEFINE v == LifeEvent(U \div 2, e[i].id, kind)
           f == Append(e, v)
<1>1. n \in Nat /\ e \in Seq(LifeEvents) /\ \A j \in DOMAIN e : e[j].id \in 1..n
  BY DEF Tells
<1>2. Made(e) \subseteq DOMAIN e
  BY DEF Made
<1>3. v \in LifeEvents /\ v.id = e[i].id /\ v.kind = kind /\ v.at = U \div 2 /\ kind # "CREATED" /\ v.kind \notin Open
  <2>1. e[i].id \in Nat /\ kind \in LifeKinds /\ kind # "CREATED"
    BY <1>1, <1>2 DEF Open
  <2>2. QED
    BY <2>1, LifeEventIs
<1>4. /\ f \in Seq(LifeEvents) /\ DOMAIN f = (DOMAIN e) \cup {Len(e) + 1} /\ f[Len(e) + 1] = v
      /\ \A j \in DOMAIN e : f[j] = e[j]
      /\ Made(f) = Made(e)
      /\ \A id : EndOf(f, id) = IF v.id = id THEN EndOf(e, id) \cup {v} ELSE EndOf(e, id)
  <2> HIDE DEF v
  <2>1. /\ Append(e, v) \in Seq(LifeEvents) /\ DOMAIN Append(e, v) = (DOMAIN e) \cup {Len(e) + 1}
        /\ Append(e, v)[Len(e) + 1] = v /\ \A j \in DOMAIN e : Append(e, v)[j] = e[j]
    BY <1>1, <1>3, Appended
  <2>2. Made(Append(e, v)) = Made(e)
    BY <1>1, <1>3, Appended
  <2>3. \A id : EndOf(Append(e, v), id) = IF v.id = id THEN EndOf(e, id) \cup {v} ELSE EndOf(e, id)
    BY <1>1, <1>3, Appended
  <2>4. QED
    BY <2>1, <2>2, <2>3
<1> HIDE DEF v, f
<1>5. \A j \in Made(f) : f[j] = e[j] /\ j \in Made(e)
  BY <1>2, <1>4
<1>6. \A j \in Made(e) : Source(f, j) = Source(e, j)
  BY <1>4, <1>5 DEF Source
<1>7. ASSUME NEW j \in Made(e) PROVE Settled(EndOf(f, e[j].id), e[j].id, Cause(U, Source(e, j)), 0)
  <2>1. Settled(EndOf(e, e[j].id), e[j].id, Cause(T, Source(e, j)), e[i].id) /\ e[j].id # 0
    BY <1>1, <1>2, <1>7 DEF Tells
  <2>2. CASE j # i
    <3>1. e[j].id # e[i].id
      BY <1>7, <2>2 DEF Tells
    <3>2. EndOf(f, e[j].id) = EndOf(e, e[j].id)
      BY <1>3, <1>4, <3>1
    <3>3. QED
      BY <2>1, <3>1, <3>2, SettledStays
  <2>3. CASE j = i
    <3>1. Cause(T, Source(e, i)) = {} /\ EndOf(e, e[i].id) = {}
      BY <2>1, <2>3 DEF Settled
    <3>2. Cause(U, Source(e, i)) = {<<U, kind>>}
      BY <3>1
    <3>3. EndOf(f, e[i].id) = {v}
      BY <1>3, <1>4, <3>1
    <3>4. v = [at |-> U \div 2, id |-> e[i].id, kind |-> kind]
      BY DEF v, LifeEvent
    <3>5. <<U, kind>>[1] = U /\ <<U, kind>>[2] = kind
      OBVIOUS
    <3>6. \A y \in Cause(U, Source(e, i)) : <<U, kind>>[1] <= y[1]
      BY <3>2, <3>5
    <3>7. QED
      BY <2>1, <2>3, <3>2, <3>3, <3>4, <3>5, <3>6 DEF Settled
  <2>4. QED
    BY <2>2, <2>3
<1>8. \A j \in DOMAIN f : f[j].id \in 1..n
  BY <1>1, <1>2, <1>3, <1>4
<1>9. \A j \in Made(f) : \E p \in Parents : p.at = f[j].at /\ p.at <= u
  <2>1. \A p \in Parents : p.at \in Nat
    BY SidesFit
  <2>2. QED
    BY <1>5, <2>1 DEF Tells
<1>10. \A j, k \in Made(f) : f[j].id = f[k].id => j = k
  BY <1>5 DEF Tells
<1>11. \A j \in Made(f) : Settled(EndOf(f, f[j].id), f[j].id, Cause(U, Source(f, j)), 0)
  BY <1>5, <1>6, <1>7
<1>12. Tells(f, n, 0, U, u)
  BY <1>1, <1>4, <1>8, <1>9, <1>10, <1>11 DEF Tells
<1>13. QED
  BY <1>12 DEF f, v

(* A parent asks when nothing is asked.                                    *)
LEMMA Creates ==
  ASSUME HistoriesFit, NEW e, NEW n, NEW t \in Nat, NEW r \in Parents, r.at = t, Tells(e, n, 0, 2 * t, t)
  PROVE  /\ Tells(Append(e, LifeEvent(t, n + 1, "CREATED")), n + 1, n + 1, 2 * t, t)
         /\ Len(e) + 1 \in Made(Append(e, LifeEvent(t, n + 1, "CREATED")))
         /\ Append(e, LifeEvent(t, n + 1, "CREATED"))[Len(e) + 1].id = n + 1
         /\ Source(Append(e, LifeEvent(t, n + 1, "CREATED")), Len(e) + 1) = r
<1> DEFINE v == LifeEvent(t, n + 1, "CREATED")
           f == Append(e, v)
           m == Len(e) + 1
<1>1. n \in Nat /\ n + 1 \in Nat /\ e \in Seq(LifeEvents) /\ \A j \in DOMAIN e : e[j].id \in 1..n
  BY DEF Tells
<1>2. Made(e) \subseteq DOMAIN e
  BY DEF Made
<1>3. v \in LifeEvents /\ v.id = n + 1 /\ v.kind = "CREATED" /\ v.at = t
  BY <1>1, LifeEventIs DEF LifeKinds
<1>4. /\ f \in Seq(LifeEvents) /\ m \notin DOMAIN e /\ DOMAIN f = (DOMAIN e) \cup {m} /\ f[m] = v
      /\ \A j \in DOMAIN e : f[j] = e[j]
      /\ Made(f) = Made(e) \cup {m}
      /\ \A id : EndOf(f, id) = EndOf(e, id)
  BY <1>1, <1>3, Appended DEF Open
<1> HIDE DEF v, f, m
<1>5. Source(f, m) = r
  BY <1>3, <1>4, SidesFit DEF Source
<1>6. \A j \in Made(e) : f[j] = e[j] /\ Source(f, j) = Source(e, j) /\ e[j].id \in 1..n
  BY <1>1, <1>2, <1>4 DEF Source
<1>7. ASSUME NEW j \in Made(e) PROVE Settled(EndOf(f, f[j].id), f[j].id, Cause(2 * t, Source(f, j)), n + 1)
  <2>1. Settled(EndOf(e, e[j].id), e[j].id, Cause(2 * t, Source(e, j)), 0) /\ e[j].id # 0 /\ e[j].id # n + 1
    BY <1>1, <1>6, <1>7 DEF Tells
  <2>2. Settled(EndOf(e, e[j].id), e[j].id, Cause(2 * t, Source(e, j)), n + 1)
    BY <2>1 DEF Settled
  <2>3. QED
    BY <1>4, <1>6, <1>7, <2>2
<1>8. Settled(EndOf(f, f[m].id), f[m].id, Cause(2 * t, Source(f, m)), n + 1)
  <2>1. EndOf(e, n + 1) = {}
    <3>1. \A j \in DOMAIN e : e[j].id # n + 1
      BY <1>1
    <3>2. QED
      BY <3>1 DEF EndOf
  <2>2. Cause(2 * t, r) = {}
    BY NoCauseYet
  <2>3. QED
    BY <1>3, <1>4, <1>5, <2>1, <2>2 DEF Settled
<1>9. \A j \in Made(f) : Settled(EndOf(f, f[j].id), f[j].id, Cause(2 * t, Source(f, j)), n + 1)
  BY <1>4, <1>7, <1>8
<1>10. \A j \in DOMAIN f : f[j].id \in 1..(n + 1)
  <2>1. \A j \in DOMAIN e : f[j].id \in 1..(n + 1)
    BY <1>1, <1>4
  <2>2. f[m].id \in 1..(n + 1)
    BY <1>1, <1>3, <1>4
  <2>3. QED
    BY <1>4, <2>1, <2>2
<1>11. \A j \in Made(f) : \E p \in Parents : p.at = f[j].at /\ p.at <= t
  <2>1. \A j \in Made(e) : \E p \in Parents : p.at = f[j].at /\ p.at <= t
    BY <1>6 DEF Tells
  <2>2. r.at = f[m].at /\ r.at <= t
    BY <1>3, <1>4
  <2>3. QED
    BY <1>4, <2>1, <2>2
<1>12. \A j, k \in Made(f) : f[j].id = f[k].id => j = k
  <2>1. \A j, k \in Made(e) : f[j].id = f[k].id => j = k
    BY <1>6 DEF Tells
  <2>2. \A j \in Made(e) : f[j].id # f[m].id
    BY <1>1, <1>3, <1>4, <1>6
  <2>3. QED
    BY <1>4, <2>1, <2>2
<1>13. Tells(f, n + 1, n + 1, 2 * t, t)
  BY <1>1, <1>4, <1>9, <1>10, <1>11, <1>12 DEF Tells
<1>14. m \in Made(f) /\ f[m].id = n + 1
  BY <1>3, <1>4
<1>15. QED
  BY <1>5, <1>13, <1>14 DEF v, f, m

(* A parent asks for the same again.                                       *)
LEMMA Carries ==
  ASSUME HistoriesFit, NEW e, NEW n, NEW open \in Nat \ {0}, open <= n, NEW T, NEW t \in Nat, NEW at \in Nat,
         Tells(e, n, open, T, t)
  PROVE  Tells(Append(e, LifeEvent(at, open, "CARRIED")), n, open, T, t)
<1> DEFINE v == LifeEvent(at, open, "CARRIED")
           f == Append(e, v)
<1>1. n \in Nat /\ e \in Seq(LifeEvents) /\ \A j \in DOMAIN e : e[j].id \in 1..n
  BY DEF Tells
<1>2. Made(e) \subseteq DOMAIN e
  BY DEF Made
<1>3. v \in LifeEvents /\ v.id = open /\ v.kind = "CARRIED"
  BY LifeEventIs DEF LifeKinds
<1>4. /\ f \in Seq(LifeEvents) /\ DOMAIN f = (DOMAIN e) \cup {Len(e) + 1} /\ f[Len(e) + 1] = v
      /\ \A j \in DOMAIN e : f[j] = e[j]
      /\ Made(f) = Made(e)
      /\ \A id : EndOf(f, id) = EndOf(e, id)
  BY <1>1, <1>3, Appended DEF Open
<1> HIDE DEF v, f
<1>5. \A j \in Made(f) : j \in Made(e) /\ f[j] = e[j] /\ Source(f, j) = Source(e, j)
  BY <1>2, <1>4 DEF Source
<1>6. \A j \in DOMAIN f : f[j].id \in 1..n
  <2>1. open \in 1..n
    BY <1>1
  <2>2. QED
    BY <1>1, <1>3, <1>4, <2>1
<1>7. \A j \in Made(f) : \E p \in Parents : p.at = f[j].at /\ p.at <= t
  BY <1>5 DEF Tells
<1>8. \A j, k \in Made(f) : f[j].id = f[k].id => j = k
  BY <1>5 DEF Tells
<1>9. \A j \in Made(f) : Settled(EndOf(f, f[j].id), f[j].id, Cause(T, Source(f, j)), open)
  BY <1>4, <1>5 DEF Tells
<1>10. Tells(f, n, open, T, t)
  BY <1>1, <1>4, <1>6, <1>7, <1>8, <1>9 DEF Tells
<1>11. QED
  BY <1>10 DEF f, v

LEMMA SameOlder ==
  ASSUME NEW s, NEW t \in Nat, Chronicle(s, t)
  PROVE  Older(s, s, t + 1)
<1>1. s \in Seq(ClosedCandles) /\ Len(s) \in Nat /\ \A i \in 1..Len(s) : s[i].at \in 1..t
  BY DEF Chronicle
<1>2. \A i \in 1..Len(s) : s[i].at \in 1..(t + 1) /\ s[i].at < t + 1
  BY <1>1
<1>3. QED
  BY <1>1, <1>2 DEF Older, Chronicle

LEMMA AsOfMoves ==
  ASSUME NEW s, NEW N \in Nat, Chronicle(s, N), NEW t \in 1..N
  PROVE  /\ ClosedAt(s, t) = {} => AsOf(s, t) = AsOf(s, t - 1)
         /\ \A c \in ClosedAt(s, t) : AsOf(s, t) = c
<1>1. Older(s, s, N + 1) /\ N + 1 \in Nat
  BY SameOlder
<1>2. \A i \in DOMAIN s : s[i].at \in Nat
  BY SideFits
<1>3. ASSUME ClosedAt(s, t) = {} PROVE AsOf(s, t) = AsOf(s, t - 1)
  <2>1. \A i \in DOMAIN s : s[i].at # t
    BY <1>3 DEF ClosedAt
  <2>2. \A i \in DOMAIN s : s[i].at <= t <=> s[i].at <= t - 1
    BY <1>2, <2>1
  <2>3. Past(s, t) = Past(s, t - 1)
    BY <2>2 DEF Past
  <2>4. QED
    BY <2>3, AsOfIs
<1>4. ASSUME NEW c \in ClosedAt(s, t) PROVE AsOf(s, t) = c
  <2>1. PICK i \in DOMAIN s : s[i] = c /\ s[i].at = t
    BY <1>4 DEF ClosedAt
  <2>2. AsOf(s, s[i].at) = s[i]
    BY <1>1, <2>1, LastIsAsOf
  <2>3. QED
    BY <2>1, <2>2
<1>5. QED
  BY <1>3, <1>4

Asks(waiting, e, t) ==
  \/ waiting = NoRequirement
  \/ \E i \in Made(e) :
       /\ ExpectedShift(Source(e, i)) # 0
       /\ waiting = Requirement(e[i].id, Source(e, i), VoidAt(Source(e, i), t), Frozen(Source(e, i)))

(* A life that tells everything up to T, has parents up to t and children  *)
(* up to u, and kept what it told before.                                  *)
LifeAt(L, was, T, t, u) ==
  \E waiting, n, e : /\ L = Life(waiting, n, AsOf(histories[2], u), e)
                     /\ Tells(e, n, waiting.id, T, t) /\ Asks(waiting, e, t) /\ Grows(was, e)

LEMMA GrowsOn ==
  ASSUME NEW was, NEW e \in Seq(LifeEvents), NEW v, Grows(was, e)
  PROVE  Grows(was, Append(e, v))
<1>1. DOMAIN Append(e, v) = (DOMAIN e) \cup {Len(e) + 1} /\ \A i \in DOMAIN e : Append(e, v)[i] = e[i]
  OBVIOUS
<1>2. QED
  BY <1>1 DEF Grows

LEMMA EventsGrow ==
  ASSUME NEW was, NEW e, NEW n, NEW open, NEW T, NEW t, NEW v, Tells(e, n, open, T, t), Grows(was, e)
  PROVE  Grows(was, Append(e, v))
<1>1. e \in Seq(LifeEvents)
  BY DEF Tells
<1>2. QED
  BY <1>1, GrowsOn

LEMMA SourceFits ==
  ASSUME HistoriesFit, NEW e, NEW n, NEW open, NEW T, NEW t \in Nat, Tells(e, n, open, T, t), NEW i \in Made(e)
  PROVE  Source(e, i) \in Parents /\ Source(e, i).at \in Nat /\ Source(e, i).at <= t
         /\ e[i].id \in Nat \ {0} /\ e[i].id <= n /\ n \in Nat
<1>1. PICK p \in Parents : p.at = e[i].at /\ p.at <= t
  BY DEF Tells
<1>2. Source(e, i) = p /\ p.at \in Nat
  BY <1>1, SidesFit DEF Source
<1>3. i \in DOMAIN e /\ n \in Nat
  BY DEF Made, Tells
<1>4. e[i].id \in 1..n
  BY <1>3 DEF Tells
<1>5. QED
  BY <1>1, <1>2, <1>3, <1>4

(* A parent at t, when nothing is asked.                                   *)
LEMMA Asked ==
  ASSUME HistoriesFit, NEW t \in 1..instant, NEW r \in Parents, r.at = t, NEW was, NEW n, NEW e,
         Tells(e, n, 0, 2 * t, t), Grows(was, e)
  PROVE  LifeAt(PushParent(Life(NoRequirement, n, AsOf(histories[2], t - 1), e), r), was, 2 * t, t, t - 1)
<1> DEFINE c == AsOf(histories[2], t - 1)
           L == Life(NoRequirement, n, c, e)
           f == Append(e, LifeEvent(t, n + 1, "CREATED"))
           q == Requirement(n + 1, r, r.void, ConfirmationPrice(c, ExpectedShift(r)))
<1>1. t \in Nat /\ NoRequirement.id = 0
  BY SidesFit, NewLifeIs
<1>2. CASE ExpectedShift(r) = 0
  <2>1. PushParent(L, r) = L
    BY <1>2, ParentCreates
  <2>2. Asks(NoRequirement, e, t)
    BY DEF Asks
  <2> HIDE DEF c
  <2>3. LifeAt(L, was, 2 * t, t, t - 1)
    BY <1>1, <2>2 DEF LifeAt, c
  <2>4. QED
    BY <2>1, <2>3 DEF c
<1>3. CASE ExpectedShift(r) # 0
  <2>1. PushParent(L, r) = Life(q, n + 1, c, f)
    BY <1>3, ParentCreates
  <2>2. Tells(f, n + 1, n + 1, 2 * t, t) /\ Len(e) + 1 \in Made(f) /\ f[Len(e) + 1].id = n + 1 /\ Source(f, Len(e) + 1) = r
    BY <1>1, Creates
  <2>3. q = Requirement(n + 1, r, VoidAt(r, t), Frozen(r))
    <3>1. VoidAt(r, t) = r.void
      BY <1>1, VoidMoves
    <3>2. Frozen(r) = ConfirmationPrice(c, ExpectedShift(r))
      BY DEF Frozen
    <3>3. QED
      BY <3>1, <3>2
  <2>4. q.id = n + 1
    BY DEF Requirement
  <2>5. Grows(was, f)
    BY EventsGrow
  <2> HIDE DEF f, q
  <2>6. Asks(q, f, t)
    BY <1>3, <2>2, <2>3 DEF Asks
  <2>7. LifeAt(Life(q, n + 1, c, f), was, 2 * t, t, t - 1)
    BY <2>2, <2>4, <2>5, <2>6 DEF LifeAt
  <2>8. QED
    BY <2>1, <2>7
<1>4. QED
  BY <1>2, <1>3

LEMMA ClosedParents ==
  ASSUME HistoriesFit
  PROVE  \A t : ClosedAt(histories[1], t) = {p \in Parents : p.at = t} /\ ClosedAt(histories[2], t) = {c \in Children : c.at = t}
  BY DEF ClosedAt, Parents, Children

LEMMA ParentTurn ==
  ASSUME HistoriesFit, NEW t \in 1..instant, NEW L, NEW was, LifeAt(L, was, 2 * t - 1, t - 1, t - 1)
  PROVE  LifeAt(WithParent(L, ClosedAt(histories[1], t)), was, 2 * t, t, t - 1)
<1> DEFINE c == AsOf(histories[2], t - 1)
<1>1. t \in Nat /\ t - 1 \in Nat /\ t - 1 <= t /\ 2 * t - 1 \in Nat /\ 2 * t \in Nat /\ 2 * t - 1 <= 2 * t
      /\ (2 * t) \div 2 = t /\ NoRequirement.id = 0
  BY SidesFit, NewLifeIs
<1>2. PICK waiting, n, e : /\ L = Life(waiting, n, c, e) /\ Tells(e, n, waiting.id, 2 * t - 1, t - 1)
                           /\ Asks(waiting, e, t - 1) /\ Grows(was, e)
  BY DEF LifeAt
<1> HIDE DEF c
<1>3. \A i \in Made(e) : Source(e, i) \in Parents /\ Source(e, i).at \in Nat /\ Source(e, i).at <= t - 1
                         /\ e[i].id \in Nat \ {0} /\ e[i].id <= n
  BY <1>1, <1>2, SourceFits
<1>4. CASE ClosedAt(histories[1], t) = {}
  <2>1. \A r \in Parents : r.at # t
    BY <1>4, ClosedParents
  <2>2. \A i \in Made(e) : Cause(2 * t, Source(e, i)) = Cause(2 * t - 1, Source(e, i))
    BY <2>1, ParentCauses
  <2>3. Tells(e, n, waiting.id, 2 * t, t)
    BY <1>1, <1>2, <2>2, Waits
  <2>4. Asks(waiting, e, t)
    <3>1. \A i \in Made(e) : VoidAt(Source(e, i), t) = VoidAt(Source(e, i), t - 1)
      <4>1. \A i \in Made(e) : Source(e, i) \in Parents /\ Source(e, i).at <= t /\ Source(e, i).at < t
        BY <1>1, <1>3
      <4>2. QED
        BY <2>1, <4>1, VoidMoves
    <3>2. QED
      BY <1>2, <3>1 DEF Asks
  <2>5. WithParent(L, ClosedAt(histories[1], t)) = L
    BY <1>4 DEF WithParent
  <2>6. LifeAt(L, was, 2 * t, t, t - 1)
    BY <1>2, <2>3, <2>4 DEF LifeAt, c
  <2>7. QED
    BY <2>5, <2>6
<1>5. CASE ClosedAt(histories[1], t) # {}
  <2>1. PICK r \in Parents : r.at = t
    BY <1>5, ClosedParents
  <2>2. ClosedAt(histories[1], t) = {r}
    BY <2>1, ClosedParents, SidesFit
  <2>3. WithParent(L, ClosedAt(histories[1], t)) = PushParent(L, r)
    <3>1. (CHOOSE p \in {r} : TRUE) = r
      OBVIOUS
    <3>2. QED
      BY <2>2, <3>1 DEF WithParent
  <2>4. \A q \in Parents : q.at = t => q = r
    BY <2>1, SidesFit
  <2>5. CASE waiting = NoRequirement
    <3>1. \A i \in Made(e) : e[i].id # 0
      BY <1>3
    <3>2. Tells(e, n, 0, 2 * t, t)
      BY <1>1, <1>2, <2>5, <3>1, Waits
    <3>3. LifeAt(PushParent(L, r), was, 2 * t, t, t - 1)
      BY <1>2, <2>1, <2>5, <3>2, Asked DEF c
    <3>4. QED
      BY <2>3, <3>3
  <2>6. CASE waiting # NoRequirement
    <3>1. PICK i \in Made(e) :
            /\ ExpectedShift(Source(e, i)) # 0
            /\ waiting = Requirement(e[i].id, Source(e, i), VoidAt(Source(e, i), t - 1), Frozen(Source(e, i)))
      BY <1>2, <2>6 DEF Asks
    <3> DEFINE q == Source(e, i)
               id == e[i].id
               v == VoidAt(q, t - 1)
               f == Frozen(q)
    <3>2. q \in Parents /\ q.at \in Nat /\ q.at < t /\ q.at <= t /\ id \in Nat \ {0} /\ id <= n /\ waiting.id = id
      BY <1>1, <1>3, <3>1 DEF Requirement
    <3>3. waiting = Requirement(id, q, v, f) /\ ExpectedShift(q) # 0
      BY <3>1
    <3> HIDE DEF q, id, v, f
    <3>4. CASE Signature(q) # Signature(r)
      <4> DEFINE g == Append(e, LifeEvent(t, id, "SUPERSEDED"))
      <4>1. Supersedes(r, q)
        BY <2>1, <3>2, <3>4, <1>1 DEF Supersedes
      <4>2. Cause(2 * t, q) = Cause(2 * t - 1, q) \cup {<<2 * t, "SUPERSEDED">>}
        BY <2>1, <4>1, ParentCauses
      <4>3. Tells(g, n, 0, 2 * t, t)
        <5>1. "SUPERSEDED" \in LifeKinds \ Open
          BY DEF LifeKinds, Open
        <5>2. Tells(e, n, id, 2 * t - 1, t - 1)
          BY <1>2, <3>2
        <5>3. Tells(Append(e, LifeEvent((2 * t) \div 2, e[i].id, "SUPERSEDED")), n, 0, 2 * t, t)
          BY <1>1, <4>2, <5>1, <5>2, Finishes DEF q, id
        <5>4. QED
          BY <1>1, <5>3 DEF id
      <4>4. Grows(was, g)
        BY <1>2, EventsGrow
      <4>5. PushParent(L, r) = PushParent(Life(NoRequirement, n, c, g), r)
        BY <1>2, <2>1, <3>2, <3>3, <3>4, ParentSupersedes
      <4> HIDE DEF g
      <4>6. LifeAt(PushParent(Life(NoRequirement, n, c, g), r), was, 2 * t, t, t - 1)
        BY <2>1, <4>3, <4>4, Asked DEF c
      <4>7. QED
        BY <2>3, <4>5, <4>6
    <3>5. CASE Signature(q) = Signature(r)
      <4> DEFINE g == Append(e, LifeEvent(t, id, "CARRIED"))
                 w == IF r.void = Absent THEN v ELSE r.void
      <4>1. \A p \in Parents : p.at = t => ~Supersedes(p, q)
        BY <2>4, <3>5 DEF Supersedes
      <4>2. Cause(2 * t, q) = Cause(2 * t - 1, q)
        BY <4>1, ParentCauses
      <4>3. \A j \in Made(e) : e[j].id = id => Source(e, j) = q
        BY <1>2 DEF Tells, q, id
      <4>4. Tells(e, n, id, 2 * t, t)
        <5>1. \A j \in Made(e) : e[j].id = id => Cause(2 * t, Source(e, j)) = Cause(2 * t - 1, Source(e, j))
          BY <4>2, <4>3
        <5>2. Tells(e, n, id, 2 * t - 1, t - 1)
          BY <1>2, <3>2
        <5>3. QED
          BY <1>1, <5>1, <5>2, Waits
      <4>5. /\ Tells(g, n, id, 2 * t, t)
            /\ \A j \in Made(e) : j \in Made(g) /\ g[j] = e[j]
        <5>1. Tells(g, n, id, 2 * t, t)
          BY <1>1, <3>2, <4>4, Carries
        <5>2. \A j \in Made(e) : j \in Made(g) /\ g[j] = e[j]
          <6>1. LifeEvent(t, id, "CARRIED") \in LifeEvents /\ LifeEvent(t, id, "CARRIED").kind = "CARRIED"
            BY <1>1, <3>2, LifeEventIs DEF LifeKinds
          <6>2. e \in Seq(LifeEvents) /\ Made(e) \subseteq DOMAIN e
            BY <1>2 DEF Tells, Made
          <6>3. Made(g) = Made(e) /\ \A j \in DOMAIN e : g[j] = e[j]
            BY <6>1, <6>2, Appended
          <6>4. QED
            BY <6>2, <6>3
        <5>3. QED
          BY <5>1, <5>2
      <4>6. w = VoidAt(q, t)
        BY <2>1, <2>4, <3>2, VoidMoves DEF v
      <4>7. PushParent(L, r) = Life(Requirement(id, q, w, f), n, c, g)
        BY <1>2, <2>1, <3>2, <3>3, <3>5, ParentCarries
      <4>8. Grows(was, g)
        BY <1>2, EventsGrow
      <4>9. Requirement(id, q, w, f).id = id
        BY DEF Requirement
      <4> HIDE DEF g, w
      <4>10. Source(g, i) = q /\ g[i].id = id /\ i \in Made(g)
        BY <4>5 DEF Source, q, id
      <4>11. Asks(Requirement(id, q, w, f), g, t)
        BY <3>3, <4>6, <4>10 DEF Asks, f
      <4>12. LifeAt(Life(Requirement(id, q, w, f), n, c, g), was, 2 * t, t, t - 1)
        BY <4>5, <4>8, <4>9, <4>11 DEF LifeAt, c
      <4>13. QED
        BY <2>3, <4>7, <4>12
    <3>6. QED
      BY <3>4, <3>5
  <2>7. QED
    BY <2>5, <2>6
<1>6. QED
  BY <1>4, <1>5

LEMMA ChildTurn ==
  ASSUME HistoriesFit, NEW t \in 1..instant, NEW L, NEW was, LifeAt(L, was, 2 * t, t, t - 1)
  PROVE  LifeAt(WithChild(L, ClosedAt(histories[2], t)), was, 2 * t + 1, t, t)
<1> DEFINE c == AsOf(histories[2], t - 1)
           d == AsOf(histories[2], t)
<1>1. t \in Nat /\ 2 * t \in Nat /\ 2 * t + 1 \in Nat /\ 2 * t <= 2 * t + 1 /\ t <= t
      /\ (2 * t + 1) \div 2 = t /\ NoRequirement.id = 0
  BY SidesFit, NewLifeIs
<1>2. PICK waiting, n, e : /\ L = Life(waiting, n, c, e) /\ Tells(e, n, waiting.id, 2 * t, t)
                           /\ Asks(waiting, e, t) /\ Grows(was, e)
  BY DEF LifeAt
<1>3. /\ ClosedAt(histories[2], t) = {} => d = c
      /\ \A x \in ClosedAt(histories[2], t) : d = x
  BY SidesFit, AsOfMoves
<1> HIDE DEF c, d
<1>4. \A i \in Made(e) : Source(e, i) \in Parents /\ Source(e, i).at \in Nat /\ Source(e, i).at <= t
                         /\ e[i].id \in Nat \ {0} /\ e[i].id <= n
  BY <1>1, <1>2, SourceFits
<1>5. CASE ClosedAt(histories[2], t) = {}
  <2>1. \A x \in Children : x.at # t
    BY <1>5, ClosedParents
  <2>2. \A i \in Made(e) : Cause(2 * t + 1, Source(e, i)) = Cause(2 * t, Source(e, i))
    BY <1>4, <2>1, ChildCauses
  <2>3. Tells(e, n, waiting.id, 2 * t + 1, t)
    BY <1>1, <1>2, <2>2, Waits
  <2>4. WithChild(L, ClosedAt(histories[2], t)) = L
    BY <1>5 DEF WithChild
  <2>5. LifeAt(L, was, 2 * t + 1, t, t)
    BY <1>2, <1>3, <1>5, <2>3 DEF LifeAt, d
  <2>6. QED
    BY <2>4, <2>5
<1>6. CASE ClosedAt(histories[2], t) # {}
  <2>1. d \in Children /\ d.at = t /\ ClosedAt(histories[2], t) = {d}
    BY <1>3, <1>6, ClosedParents
  <2>2. WithChild(L, ClosedAt(histories[2], t)) = PushChild(L, d)
    <3>1. (CHOOSE p \in {d} : TRUE) = d
      OBVIOUS
    <3>2. QED
      BY <2>1, <3>1 DEF WithChild
  <2>3. \A x \in Children : x.at = t => x = d
    BY <2>1, SidesFit
  <2>4. CASE waiting = NoRequirement
    <3>1. \A i \in Made(e) : e[i].id # 0
      BY <1>4
    <3>2. Tells(e, n, 0, 2 * t + 1, t)
      BY <1>1, <1>2, <2>4, <3>1, Waits
    <3>3. PushChild(L, d) = Life(NoRequirement, n, d, e)
      BY <1>2, <2>4, ChildSeen
    <3>4. LifeAt(Life(NoRequirement, n, d, e), was, 2 * t + 1, t, t)
      BY <1>1, <1>2, <3>2 DEF LifeAt, d, Asks
    <3>5. QED
      BY <2>2, <3>3, <3>4
  <2>5. CASE waiting # NoRequirement
    <3>1. PICK i \in Made(e) :
            /\ ExpectedShift(Source(e, i)) # 0
            /\ waiting = Requirement(e[i].id, Source(e, i), VoidAt(Source(e, i), t), Frozen(Source(e, i)))
      BY <1>2, <2>5 DEF Asks
    <3> DEFINE q == Source(e, i)
               id == e[i].id
               v == VoidAt(q, t)
               f == Frozen(q)
    <3>2. q \in Parents /\ q.at \in Nat /\ q.at <= t /\ id \in Nat \ {0} /\ id <= n /\ waiting.id = id
      BY <1>4, <3>1 DEF Requirement
    <3>3. waiting = Requirement(id, q, v, f) /\ ExpectedShift(q) # 0
      BY <3>1
    <3>4. Voids(d, q) <=> PastPrice(d, v, -q.trend)
      BY <2>1 DEF Voids
    <3>5. Grants(d, q) <=> ~Voids(d, q) /\ Confirms(d, [shift |-> ExpectedShift(q), confirm |-> f])
      BY DEF Grants
    <3> DEFINE Done(kind) == Append(e, LifeEvent(t, id, kind))
    <3> HIDE DEF q, id, v, f
    <3>6. PushChild(L, d) =
            IF Voids(d, q) THEN Life(NoRequirement, n, d, Done("INVALIDATED"))
            ELSE IF Grants(d, q) THEN Life(NoRequirement, n, d, Done("CONFIRMED"))
            ELSE Life(waiting, n, d, e)
      BY <1>2, <2>1, <3>2, <3>3, <3>4, <3>5, ChildResolves
    <3>7. ASSUME NEW kind \in LifeKinds \ Open, Cause(2 * t + 1, q) = Cause(2 * t, q) \cup {<<2 * t + 1, kind>>}
          PROVE  LifeAt(Life(NoRequirement, n, d, Done(kind)), was, 2 * t + 1, t, t)
      <4>1. Tells(e, n, id, 2 * t, t)
        BY <1>2, <3>2
      <4>2. Tells(Append(e, LifeEvent((2 * t + 1) \div 2, e[i].id, kind)), n, 0, 2 * t + 1, t)
        BY <1>1, <3>7, <4>1, Finishes DEF q, id
      <4>3. Tells(Done(kind), n, 0, 2 * t + 1, t)
        BY <1>1, <4>2 DEF id
      <4>4. Grows(was, Done(kind))
        BY <1>2, EventsGrow
      <4>5. Asks(NoRequirement, Done(kind), t)
        BY DEF Asks
      <4> HIDE DEF Done
      <4>6. QED
        BY <1>1, <4>3, <4>4, <4>5 DEF LifeAt, d
    <3>8. CASE Voids(d, q)
      <4>1. Cause(2 * t + 1, q) = Cause(2 * t, q) \cup {<<2 * t + 1, "INVALIDATED">>}
        BY <2>1, <3>2, <3>8, ChildCauses
      <4>2. "INVALIDATED" \in LifeKinds \ Open
        BY DEF LifeKinds, Open
      <4> HIDE DEF Done
      <4>3. LifeAt(Life(NoRequirement, n, d, Done("INVALIDATED")), was, 2 * t + 1, t, t)
        BY <3>7, <4>1, <4>2
      <4>4. QED
        BY <2>2, <3>6, <3>8, <4>3
    <3>9. CASE ~Voids(d, q) /\ Grants(d, q)
      <4>1. Cause(2 * t + 1, q) = Cause(2 * t, q) \cup {<<2 * t + 1, "CONFIRMED">>}
        BY <2>1, <3>2, <3>9, ChildCauses
      <4>2. "CONFIRMED" \in LifeKinds \ Open
        BY DEF LifeKinds, Open
      <4> HIDE DEF Done
      <4>3. LifeAt(Life(NoRequirement, n, d, Done("CONFIRMED")), was, 2 * t + 1, t, t)
        BY <3>7, <4>1, <4>2
      <4>4. QED
        BY <2>2, <3>6, <3>9, <4>3
    <3>10. CASE ~Voids(d, q) /\ ~Grants(d, q)
      <4>1. Cause(2 * t + 1, q) = Cause(2 * t, q)
        BY <2>3, <3>2, <3>10, ChildCauses
      <4>2. \A j \in Made(e) : e[j].id = id => Source(e, j) = q
        BY <1>2 DEF Tells, q, id
      <4>3. \A j \in Made(e) : e[j].id = id => Cause(2 * t + 1, Source(e, j)) = Cause(2 * t, Source(e, j))
        BY <4>1, <4>2
      <4>4. Tells(e, n, waiting.id, 2 * t + 1, t)
        BY <1>1, <1>2, <3>2, <4>3, Waits
      <4>5. LifeAt(Life(waiting, n, d, e), was, 2 * t + 1, t, t)
        BY <1>2, <4>4 DEF LifeAt, d
      <4>6. QED
        BY <2>2, <3>6, <3>10, <4>5
    <3>11. QED
      BY <3>8, <3>9, <3>10
  <2>6. QED
    BY <2>4, <2>5
<1>7. QED
  BY <1>5, <1>6

LEMMA LifeStarts ==
  ASSUME HistoriesFit
  PROVE  LifeAt(NewLife, <<>>, 1, 0, 0)
<1>1. AsOf(histories[2], 0) = Absent
  <2>1. \A i \in DOMAIN histories[2] : histories[2][i].at \in 1..instant
    BY SidesFit, SideFits
  <2>2. Past(histories[2], 0) = {}
    BY <2>1, SidesFit DEF Past
  <2>3. QED
    BY <2>2, AsOfIs
<1>2. Tells(<<>>, 0, 0, 1, 0)
  BY DEF Tells, Made
<1>3. Asks(NoRequirement, <<>>, 0)
  BY DEF Asks
<1>4. Grows(<<>>, <<>>)
  BY DEF Grows
<1>5. QED
  BY <1>1, <1>2, <1>3, <1>4, NewLifeIs DEF LifeAt

LEMMA TurnTells ==
  ASSUME HistoriesFit, NEW t \in 1..instant, NEW L, NEW was, LifeAt(L, was, 2 * t - 1, t - 1, t - 1)
  PROVE  LifeAt(Turn(L, histories, t), was, 2 * t + 1, t, t)
<1>1. LifeAt(WithParent(L, ClosedAt(histories[1], t)), was, 2 * t, t, t - 1)
  BY ParentTurn
<1>2. QED
  BY <1>1, ChildTurn DEF Turn

LEMMA LifeTells ==
  ASSUME HistoriesFit, NEW f, f[0] = NewLife, \A t \in 1..instant : f[t] = Turn(f[t - 1], histories, t)
  PROVE  \A t \in 0..instant : LifeAt(f[t], <<>>, 2 * t + 1, t, t)
<1> DEFINE Wrong == {t \in 0..instant : ~LifeAt(f[t], <<>>, 2 * t + 1, t, t)}
<1>1. SUFFICES ASSUME Wrong # {} PROVE FALSE
  OBVIOUS
<1>2. instant \in Nat /\ Wrong \in SUBSET Nat
  BY SidesFit
<1>3. PICK t \in Wrong : \A other \in Wrong : t <= other
  BY <1>1, <1>2, LeastNumber
<1>4. t \in 0..instant /\ ~LifeAt(f[t], <<>>, 2 * t + 1, t, t)
  BY <1>3
<1>5. t # 0
  <2>1. 2 * 0 + 1 = 1
    OBVIOUS
  <2>2. QED
    BY <1>4, <2>1, LifeStarts
<1>6. t \in 1..instant /\ t - 1 \in 0..instant /\ ~(t <= t - 1) /\ 2 * (t - 1) + 1 = 2 * t - 1
  BY <1>2, <1>4, <1>5
<1>7. LifeAt(f[t - 1], <<>>, 2 * (t - 1) + 1, t - 1, t - 1)
  <2>1. t - 1 \notin Wrong
    <3> HIDE DEF Wrong
    <3>1. QED
      BY <1>3, <1>6
  <2>2. QED
    BY <1>6, <2>1
<1>8. LifeAt(Turn(f[t - 1], histories, t), <<>>, 2 * t + 1, t, t)
  BY <1>6, <1>7, TurnTells
<1>9. QED
  BY <1>4, <1>6, <1>8

LEMMA FirstCauseEnds == HistoriesFit => ResolvedByFirstCause
<1>1. SUFFICES ASSUME HistoriesFit PROVE ResolvedByFirstCause
  OBVIOUS
<1> DEFINE life == Lifecycle(histories)
<1>2. instant \in Nat
  BY <1>1, SidesFit
<1>3. LifeAt(life, <<>>, 2 * instant + 1, instant, instant)
  <2>1. PICK f : /\ life = f[instant] /\ f[0] = NewLife
                 /\ \A t \in 1..instant : f[t] = Turn(f[t - 1], histories, t)
    BY <1>2, LifecycleIs
  <2>2. instant \in 0..instant
    BY <1>2
  <2> HIDE DEF life
  <2>3. QED
    BY <1>1, <2>1, <2>2, LifeTells
<1> HIDE DEF life
<1>4. PICK waiting, n, e : /\ life = Life(waiting, n, AsOf(histories[2], instant), e)
                           /\ Tells(e, n, waiting.id, 2 * instant + 1, instant)
  BY <1>3 DEF LifeAt
<1>5. life.events = e /\ life.pending = waiting
  BY <1>4 DEF Life
<1>6. ASSUME NEW i \in Made(e)
      PROVE  EndsWith(EndOf(e, e[i].id), e[i].id, Due(ParentAt(e[i].at)), waiting)
  <2> DEFINE p == ParentAt(e[i].at)
             due == Due(p)
             id == e[i].id
             end == EndOf(e, id)
  <2>1. Settled(end, id, Cause(2 * instant + 1, p), waiting.id)
    BY <1>4, <1>6 DEF Tells, Source
  <2>2. Cause(2 * instant + 1, p) = due
    BY <1>1, CauseNumbers DEF Cause
  <2> HIDE DEF p, due, id, end
  <2>3. CASE due = {}
    BY <2>1, <2>2, <2>3 DEF Settled, EndsWith, due, p, id, end
  <2>4. CASE due # {}
    <3>1. PICK x \in due : /\ \A y \in due : x[1] <= y[1]
                           /\ end = {[at |-> x[1] \div 2, id |-> id, kind |-> x[2]]}
      BY <2>1, <2>2, <2>4 DEF Settled
    <3>2. FirstCause(due) \in due /\ \A y \in due : FirstCause(due)[1] <= y[1]
      BY <3>1, Zenon DEF FirstCause
    <3>3. x[1] = FirstCause(due)[1]
      <4>1. x[1] \in Nat /\ FirstCause(due)[1] \in Nat
        BY <1>1, <3>1, <3>2, CauseNumbers DEF due
      <4>2. QED
        BY <3>1, <3>2, <4>1
    <3>4. x = FirstCause(due)
      BY <1>1, <3>1, <3>2, <3>3, OneCauseAtOnce DEF due
    <3>5. EndsWith(end, id, due, waiting)
      BY <2>4, <3>1, <3>4 DEF EndsWith
    <3>6. QED
      BY <3>5 DEF due, p, id, end
  <2>5. QED
    BY <2>3, <2>4
<1>7. QED
  BY <1>5, <1>6 DEF ResolvedByFirstCause, life

(***************************************************************************)
(* Fractal engine: nothing is rewritten                                    *)
(***************************************************************************)
LEMMA UntilIsOlder ==
  ASSUME instant \in Nat, NEW s, Chronicle(s, instant)
  PROVE  Older(Until(s), s, instant)
<1>1. s \in Seq(ClosedCandles) /\ Len(s) \in Nat /\ DOMAIN s = 1..Len(s) /\ \A i \in 1..Len(s) : s[i].at \in 1..instant
  BY DEF Chronicle
<1>2. \A i, j \in 1..Len(s) : i < j => s[i].at < s[j].at
  BY DEF Chronicle
<1>3. CASE s # <<>> /\ s[Len(s)].at = instant
  <2> DEFINE u == SubSeq(s, 1, Len(s) - 1)
  <2>1. Len(s) \in 1..Len(s)
    BY <1>1, <1>3
  <2>2. u \in Seq(ClosedCandles) /\ Len(u) = Len(s) - 1 /\ \A i \in 1..Len(u) : u[i] = s[i]
    BY <1>1, <2>1
  <2>3. Until(s) = u
    BY <1>3 DEF Until
  <2> HIDE DEF u
  <2>4. \A i \in 1..Len(s) : i \in 1..Len(u) <=> i < Len(s)
    BY <1>1, <2>1, <2>2
  <2>5. \A i \in 1..Len(s) : i < Len(s) => s[i].at < instant
    BY <1>2, <1>3, <2>1
  <2>6. \A i \in 1..Len(s) : i < Len(s) \/ i = Len(s)
    <3>1. \A a, c \in Nat : c <= a /\ c >= 1 => c < a \/ c = a
      OBVIOUS
    <3>2. Len(s) \in Nat
      BY <1>1
    <3>3. \A i \in 1..Len(s) : i \in Nat /\ i <= Len(s) /\ i >= 1
      BY <3>2
    <3>4. QED
      BY <3>1, <3>2, <3>3
  <2>7. \A i \in 1..Len(s) : i \in 1..Len(u) <=> s[i].at < instant
    BY <1>3, <2>4, <2>5, <2>6
  <2>8. \A i \in 1..Len(u) : s[i] = u[i]
    BY <2>2
  <2>9. QED
    BY <1>1, <1>2, <2>1, <2>2, <2>3, <2>7, <2>8 DEF Older
<1>4. CASE ~(s # <<>> /\ s[Len(s)].at = instant)
  <2>1. Until(s) = s
    BY <1>4 DEF Until
  <2>2. \A i \in 1..Len(s) : s[i].at < instant
    <3>1. SUFFICES ASSUME NEW i \in 1..Len(s) PROVE s[i].at < instant
      OBVIOUS
    <3>2. s # <<>> /\ Len(s) \in 1..Len(s) /\ s[Len(s)].at # instant
      BY <1>1, <1>4, <3>1
    <3>3. s[Len(s)].at < instant
      BY <1>1, <3>2
    <3>4. CASE i = Len(s)
      BY <3>3, <3>4
    <3>5. CASE i < Len(s)
      BY <1>1, <1>2, <3>1, <3>2, <3>3, <3>5
    <3>6. i = Len(s) \/ i < Len(s)
      <4>1. \A a, c \in Nat : c <= a => c < a \/ c = a
        OBVIOUS
      <4>2. Len(s) \in Nat
        BY <1>1
      <4>3. i \in Nat /\ i <= Len(s)
        BY <3>1, <4>2
      <4>4. QED
        BY <4>1, <4>2, <4>3
    <3>7. QED
      BY <3>4, <3>5, <3>6
  <2>3. QED
    BY <1>1, <1>2, <2>1, <2>2 DEF Older
<1>5. QED
  BY <1>3, <1>4

LEMMA OlderClosed ==
  ASSUME NEW s, NEW u, NEW t \in Nat, Older(s, u, t)
  PROVE  ClosedAt(s, t) = {} /\ \A q \in Nat : q < t => ClosedAt(s, q) = ClosedAt(u, q)
<1>1. /\ DOMAIN s \subseteq DOMAIN u
      /\ \A i \in DOMAIN s : u[i] = s[i] /\ s[i].at \in Nat /\ s[i].at < t
      /\ \A i \in (DOMAIN u) \ (DOMAIN s) : u[i].at = t
  BY OlderCandles
<1>2. ClosedAt(s, t) = {}
  BY <1>1 DEF ClosedAt
<1>3. ASSUME NEW q \in Nat, q < t PROVE ClosedAt(s, q) = ClosedAt(u, q)
  <2>1. {j \in DOMAIN s : s[j].at = q} = {j \in DOMAIN u : u[j].at = q}
    BY <1>1, <1>3
  <2>2. \A j \in {i \in DOMAIN s : s[i].at = q} : s[j] = u[j]
    BY <1>1
  <2>3. QED
    BY <2>1, <2>2 DEF ClosedAt
<1>4. QED
  BY <1>2, <1>3

LEMMA LifeGrows ==
  ASSUME HistoriesFit, NEW h, EarlierHistories(h, histories, instant)
  PROVE  Grows(Lifecycle(h).events, Lifecycle(histories).events)
<1>1. instant \in Nat
  BY SidesFit
<1>2. PICK f : /\ Lifecycle(h) = f[instant] /\ f[0] = NewLife
               /\ \A t \in 1..instant : f[t] = Turn(f[t - 1], h, t)
  BY <1>1, LifecycleIs
<1>3. PICK g : /\ Lifecycle(histories) = g[instant] /\ g[0] = NewLife
               /\ \A t \in 1..instant : g[t] = Turn(g[t - 1], histories, t)
  BY <1>1, LifecycleIs
<1>4. Older(h[1], histories[1], instant) /\ Older(h[2], histories[2], instant)
  BY SetReadsAssumption DEF EarlierHistories
<1>5. ASSUME NEW L, NEW t \in 1..instant, t < instant PROVE Turn(L, h, t) = Turn(L, histories, t)
  BY <1>1, <1>4, <1>5, OlderClosed DEF Turn
<1>6. \A L : Turn(L, h, instant) = L
  BY <1>1, <1>4, OlderClosed DEF Turn, WithParent, WithChild
<1>7. \A t \in 0..instant : t < instant => f[t] = g[t]
  <2> DEFINE Apart == {t \in 0..instant : t < instant /\ f[t] # g[t]}
  <2>1. SUFFICES ASSUME Apart # {} PROVE FALSE
    OBVIOUS
  <2>2. Apart \in SUBSET Nat
    BY <1>1
  <2>3. PICK t \in Apart : \A other \in Apart : t <= other
    BY <2>1, <2>2, LeastNumber
  <2>4. t \in 0..instant /\ t < instant /\ f[t] # g[t]
    BY <2>3
  <2>5. t # 0
    BY <1>2, <1>3, <2>4
  <2>6. t \in 1..instant /\ t - 1 \in 0..instant /\ t - 1 < instant /\ ~(t <= t - 1)
    BY <1>1, <2>4, <2>5
  <2>7. f[t - 1] = g[t - 1]
    <3>1. t - 1 \notin Apart
      <4> HIDE DEF Apart
      <4>1. QED
        BY <2>3, <2>6
    <3>2. QED
      BY <2>6, <3>1
  <2>8. f[t] = Turn(f[t - 1], h, t) /\ g[t] = Turn(g[t - 1], histories, t)
    BY <1>2, <1>3, <2>6
  <2>9. QED
    BY <1>5, <2>4, <2>6, <2>7, <2>8
<1>8. CASE instant = 0
  <2>1. NewLife.events = <<>>
    BY DEF NewLife
  <2>2. QED
    BY <1>2, <1>3, <1>8, <2>1 DEF Grows
<1>9. CASE instant # 0
  <2>1. instant \in 1..instant /\ instant - 1 \in 0..instant /\ instant - 1 < instant
        /\ 2 * (instant - 1) + 1 = 2 * instant - 1
    BY <1>1, <1>9
  <2> DEFINE L == g[instant - 1]
  <2>2. Lifecycle(h) = L /\ Lifecycle(histories) = Turn(L, histories, instant)
    BY <1>2, <1>3, <1>6, <1>7, <2>1
  <2>3. LifeAt(L, <<>>, 2 * instant - 1, instant - 1, instant - 1)
    BY <1>3, <2>1, LifeTells
  <2> HIDE DEF L
  <2>4. LifeAt(L, L.events, 2 * instant - 1, instant - 1, instant - 1)
    <3>1. Grows(L.events, L.events)
      BY DEF Grows
    <3>2. \A p, n, c, e : Life(p, n, c, e).events = e
      BY DEF Life
    <3>3. QED
      BY <2>3, <3>1, <3>2 DEF LifeAt
  <2>5. LifeAt(Turn(L, histories, instant), L.events, 2 * instant + 1, instant, instant)
    BY <2>1, <2>4, TurnTells
  <2>6. Grows(L.events, Turn(L, histories, instant).events)
    <3>1. \A p, n, c, e : Life(p, n, c, e).events = e
      BY DEF Life
    <3>2. QED
      BY <2>5, <3>1 DEF LifeAt
  <2>7. QED
    BY <2>2, <2>6
<1>10. QED
  BY <1>8, <1>9

LEMMA NothingIsRewritten == HistoriesFit => NothingRewritten
<1>1. SUFFICES ASSUME HistoriesFit PROVE NothingRewritten
  OBVIOUS
<1> DEFINE h == [k \in 1..Depth |-> Until(histories[k])]
<1>2. instant \in Nat
  BY <1>1, SidesFit
<1>3. EarlierHistories(h, histories, instant)
  BY <1>1, <1>2, UntilIsOlder DEF HistoriesFit, EarlierHistories
<1> HIDE DEF h
<1> DEFINE I(f, k) == [i \in DOMAIN Views(f, k) |-> Inferred(Views(f, k), Views(f, k)[i])]
           Tells1(s, f) ==
             /\ s.requirements = Lifecycle(f).events /\ s.movements = Movements(f)
             /\ s.edges = GraphEdges(f) /\ s.rows = {r \in ScaleRows(f[1], f[2]) : r.closed}
           Tells2(s, f) ==
             \A k \in ReadKeys :
               s.views[k] = Views(f, k) /\ s.nested[k] = NestedCount(f, k) /\ s.inferred[k] = I(f, k)
           Tells3(s, f) == \A k \in ReadKeys \ {Depth - 2} : s.verdicts[k] = Verdicts(f, k)
<1>4. ASSUME NEW f PROVE Tells1(SaidOf(f), f) /\ Tells2(SaidOf(f), f) /\ Tells3(SaidOf(f), f)
  BY DEF SaidOf
<1> DEFINE was == SaidOf(h)
           is == SaidOf(histories)
<1>5. Tells1(was, h) /\ Tells2(was, h) /\ Tells3(was, h)
  BY <1>4
<1>6. Tells1(is, histories) /\ Tells2(is, histories) /\ Tells3(is, histories)
  BY <1>4
<1> HIDE DEF was, is, I
<1>7. Grows(was.requirements, is.requirements)
  <2>1. Grows(Lifecycle(h).events, Lifecycle(histories).events)
    BY <1>1, <1>3, LifeGrows
  <2>2. QED
    BY <1>5, <1>6, <2>1
<1>8. Grows(was.movements, is.movements)
  <2>1. Grows(Movements(h), Movements(histories))
    BY <1>2, <1>3, LegsGrow
  <2>2. QED
    BY <1>5, <1>6, <2>1
<1>9. ASSUME NEW k \in ReadKeys
      PROVE  Grows(was.views[k], is.views[k]) /\ Grows(was.inferred[k], is.inferred[k]) /\ was.nested[k] <= is.nested[k]
  <2>1. Grows(Views(h, k), Views(histories, k)) /\ NestedCount(h, k) <= NestedCount(histories, k)
    BY <1>2, <1>3, ViewsGrow, NestedGrows
  <2>2. DOMAIN I(h, k) \subseteq DOMAIN I(histories, k) /\ \A i \in DOMAIN I(h, k) : I(histories, k)[i] = I(h, k)[i]
    <3>1. DOMAIN I(h, k) = DOMAIN Views(h, k) /\ DOMAIN I(histories, k) = DOMAIN Views(histories, k)
      BY DEF I
    <3>2. DOMAIN Views(h, k) \subseteq DOMAIN Views(histories, k)
      BY <2>1 DEF Grows
    <3>3. \A i \in DOMAIN Views(h, k) :
            Inferred(Views(h, k), Views(h, k)[i]) = Inferred(Views(histories, k), Views(histories, k)[i])
      BY <1>2, <1>3, InferredGrows, ViewsAre
    <3>4. QED
      BY <3>1, <3>2, <3>3 DEF I
  <2>3. Grows(I(h, k), I(histories, k))
    BY <2>2, Zenon DEF Grows
  <2>4. /\ was.views[k] = Views(h, k) /\ was.nested[k] = NestedCount(h, k) /\ was.inferred[k] = I(h, k)
        /\ is.views[k] = Views(histories, k) /\ is.nested[k] = NestedCount(histories, k) /\ is.inferred[k] = I(histories, k)
    BY <1>5, <1>6
  <2>5. QED
    BY <2>1, <2>3, <2>4
<1>10. ASSUME NEW k \in ReadKeys \ {Depth - 2}
       PROVE  GrowsLater(was.verdicts[k], is.verdicts[k]) /\ KeepsEpisodes(was.verdicts[k], is.verdicts[k])
  <2> DEFINE V == Verdicts(h, k)
             W == Verdicts(histories, k)
  <2>1. /\ V \subseteq W
        /\ \A v \in V : v.at \in Nat /\ v.at < instant
        /\ \A w \in W \ V : w.at = instant
    BY <1>2, <1>3, VerdictsGrow
  <2>2. was.verdicts[k] = V /\ is.verdicts[k] = W
    BY <1>5, <1>6
  <2> HIDE DEF V, W
  <2>3. KeepsEpisodes(V, W)
    BY <1>2, <2>1, EpisodesKept
  <2>4. GrowsLater(V, W)
    BY <2>1 DEF GrowsLater
  <2>5. QED
    BY <2>2, <2>3, <2>4
<1>11. was.rows \subseteq is.rows
  <2>1. Older(h[1], histories[1], instant) /\ Older(h[2], histories[2], instant)
    BY <1>3, SetReadsAssumption DEF EarlierHistories
  <2>2. {r \in ScaleRows(h[1], h[2]) : r.closed} \subseteq {r \in ScaleRows(histories[1], histories[2]) : r.closed}
    BY <1>2, <2>1, RowsGrow
  <2>3. QED
    BY <1>5, <1>6, <2>2
<1>12. was.edges \subseteq is.edges
  <2>1. GraphEdges(h) \subseteq GraphEdges(histories)
    BY <1>2, <1>3, EdgesGrow
  <2>2. QED
    BY <1>5, <1>6, <2>1
<1>13. OnlyAdds(was, is)
  BY <1>7, <1>8, <1>9, <1>10, <1>11, <1>12 DEF OnlyAdds
<1>14. QED
  BY <1>13 DEF NothingRewritten, was, is, h

(***************************************************************************)
(* Fractal engine: one bridge                                              *)
(***************************************************************************)

(* If the candles of s as of a and of b differ, the later one closed where *)
(* w, whose last candle up to t is that of a, has none.                    *)
LEMMA BridgeAlone ==
  ASSUME NEW s, NEW w, NEW N \in Nat, Chronicle(s, N), Chronicle(w, N), NEW t \in Nat, Past(w, t) # {},
         NEW b \in Nat, w[Max(Past(w, t))].at <= b, b <= t, AsOf(s, w[Max(Past(w, t))].at) # AsOf(s, b)
  PROVE  AsOf(s, b) # Absent /\ \A i \in DOMAIN w : w[i].at # AsOf(s, b).at
<1> DEFINE m == Max(Past(w, t))
           a == w[m].at
           A == Past(s, a)
           B == Past(s, b)
<1>1. /\ \A i \in DOMAIN s : s[i].at \in Nat
      /\ s \in Seq(ClosedCandles) /\ \A i \in DOMAIN s : s[i] \in ClosedCandles
      /\ w \in Seq(ClosedCandles)
  BY SideFits DEF Chronicle
<1>2. \A i \in DOMAIN w : w[i].at \in Nat
  BY SideFits
<1>3. Past(w, t) \in SUBSET (DOMAIN w)
  BY DEF Past
<1>4. m \in Past(w, t) /\ (\A i \in Past(w, t) : i <= m) /\ m \in DOMAIN w
  BY <1>1, <1>3, LastIndex
<1>5. \A i \in Past(w, t) : w[i].at <= a
  <2>1. SUFFICES ASSUME NEW i \in Past(w, t) PROVE w[i].at <= a
    OBVIOUS
  <2>2. i \in 1..Len(w) /\ m \in 1..Len(w) /\ Len(w) \in Nat /\ i <= m
    BY <1>1, <1>3, <1>4, <2>1
  <2>3. CASE i = m
    BY <1>2, <1>4, <2>3
  <2>4. CASE i # m
    <3>1. i < m
      BY <2>2, <2>4
    <3>2. w[i].at < w[m].at
      BY <2>2, <3>1 DEF Chronicle
    <3>3. QED
      BY <1>2, <1>3, <1>4, <2>1, <3>2
  <2>5. QED
    BY <2>3, <2>4
<1>6. a \in Nat /\ a <= b
  BY <1>2, <1>4
<1> HIDE DEF m, a
<1>7. A \subseteq B /\ B \in SUBSET (DOMAIN s)
  BY <1>1, <1>6 DEF Past
<1>8. AsOf(s, a) # AsOf(s, b)
  BY DEF a, m
<1>9. B # {}
  BY <1>7, <1>8, AsOfIs
<1> DEFINE j == Max(B)
<1>10. j \in B /\ (\A i \in B : i <= j) /\ AsOf(s, b) = s[j] /\ j \in DOMAIN s
  BY <1>1, <1>7, <1>9, LastIndex, AsOfIs
<1> HIDE DEF j
<1>11. j \notin A
  <2>1. SUFFICES ASSUME j \in A PROVE FALSE
    OBVIOUS
  <2>2. Max(A) \in A /\ \A i \in A : i <= Max(A)
    BY <1>1, <1>7, <2>1, LastIndex
  <2>3. Max(A) <= j /\ j <= Max(A) /\ Max(A) \in DOMAIN s
    BY <1>7, <1>10, <2>1, <2>2
  <2>4. Len(s) \in Nat /\ DOMAIN s = 1..Len(s)
    BY <1>1
  <2>5. Max(A) = j
    BY <1>10, <2>3, <2>4
  <2>6. AsOf(s, a) = s[j]
    BY <2>1, <2>5, AsOfIs
  <2>7. QED
    BY <1>8, <1>10, <2>6
<1>12. s[j].at \in Nat /\ ~(s[j].at <= a) /\ s[j].at <= b
  BY <1>1, <1>10, <1>11 DEF Past
<1>13. \A i \in DOMAIN w : w[i].at # s[j].at
  <2>1. SUFFICES ASSUME NEW i \in DOMAIN w, w[i].at = s[j].at PROVE FALSE
    OBVIOUS
  <2>2. i \in Past(w, t)
    BY <1>12, <2>1 DEF Past
  <2>3. QED
    BY <1>5, <1>12, <2>1, <2>2
<1>14. s[j] # Absent
  BY <1>1, <1>10, SetReadsAssumption
<1>15. QED
  BY <1>10, <1>13, <1>14

LEMMA LastViewIs ==
  ASSUME NEW h, NEW k, NEW t, LastView(Views(h, k), t) # Absent,
         h[k + 2] \in Seq(ClosedCandles)
  PROVE  /\ Past(h[k + 2], t) # {} /\ Max(Past(h[k + 2], t)) \in Past(h[k + 2], t)
         /\ LastView(Views(h, k), t) = SetView(h, k, h[k + 2][Max(Past(h[k + 2], t))].at)
<1> DEFINE P == Past(h[k + 2], t)
<1>1. {i \in DOMAIN Views(h, k) : Views(h, k)[i].at <= t} = P
  BY ViewsAre DEF Past
<1>2. LastView(Views(h, k), t) = IF P = {} THEN Absent ELSE Views(h, k)[Max(P)]
  BY <1>1 DEF LastView
<1>3. P # {}
  BY <1>2
<1>4. P \in SUBSET (DOMAIN h[k + 2])
  BY DEF Past
<1> HIDE DEF P
<1>5. Max(P) \in P /\ Max(P) \in DOMAIN h[k + 2]
  BY <1>3, <1>4, LastIndex
<1>6. Views(h, k)[Max(P)] = SetView(h, k, h[k + 2][Max(P)].at)
  BY <1>5, ViewsAre
<1>7. QED
  BY <1>2, <1>3, <1>5, <1>6 DEF P

LEMMA OneBridge == HistoriesFit => BridgeShared
<1>1. SUFFICES ASSUME HistoriesFit, NEW k \in ReadKeys \ {Depth - 2}, NEW t \in 1..instant,
                      NEW upper, NEW lower,
                      upper = LastView(Views(histories, k), t), lower = LastView(Views(histories, k + 1), t),
                      upper # Absent, lower # Absent, upper.mtf # lower.htf
               PROVE  \E b \in {upper.mtf, lower.htf} :
                        /\ b # Absent
                        /\ \E j \in {k + 2, k + 3} : \A i \in DOMAIN histories[j] : histories[j][i].at # b.at
  BY DEF BridgeShared
<1> DEFINE s == histories[k + 1]
           u == histories[k + 2]
           v == histories[k + 3]
           a == u[Max(Past(u, t))].at
           b == v[Max(Past(v, t))].at
<1>2. k \in Nat /\ k + 1 \in 1..Depth /\ k + 2 \in 1..Depth /\ k + 3 \in 1..Depth /\ (k + 1) + 2 = k + 3
  BY SetReadsAssumption DEF ReadKeys
<1>3. instant \in Nat /\ t \in Nat /\ Chronicle(s, instant) /\ Chronicle(u, instant) /\ Chronicle(v, instant)
  BY <1>1, <1>2, SidesFit DEF HistoriesFit
<1>4. u \in Seq(ClosedCandles) /\ v \in Seq(ClosedCandles)
  BY <1>3 DEF Chronicle
<1>5. Past(u, t) # {} /\ Max(Past(u, t)) \in Past(u, t) /\ upper = SetView(histories, k, a)
  BY <1>1, <1>4, LastViewIs
<1>6. Past(v, t) # {} /\ Max(Past(v, t)) \in Past(v, t) /\ lower = SetView(histories, k + 1, b)
  BY <1>1, <1>2, <1>4, LastViewIs
<1>7. upper.mtf = AsOf(s, a) /\ lower.htf = AsOf(s, b)
  BY <1>5, <1>6 DEF SetView
<1>8. a \in Nat /\ a <= t /\ b \in Nat /\ b <= t
  <2>1. Max(Past(u, t)) \in DOMAIN u /\ Max(Past(v, t)) \in DOMAIN v /\ a <= t /\ b <= t
    BY <1>5, <1>6 DEF Past
  <2>2. a \in 1..instant /\ b \in 1..instant
    BY <1>3, <2>1, SideFits
  <2>3. QED
    BY <1>3, <2>1, <2>2
<1> HIDE DEF s
<1>9. CASE a <= b
  <2>1. AsOf(s, b) # Absent /\ \A i \in DOMAIN u : u[i].at # AsOf(s, b).at
    BY <1>1, <1>3, <1>5, <1>7, <1>8, <1>9, BridgeAlone
  <2>2. QED
    BY <1>7, <2>1
<1>10. CASE b <= a
  <2>1. AsOf(s, a) # Absent /\ \A i \in DOMAIN v : v[i].at # AsOf(s, a).at
    BY <1>1, <1>3, <1>6, <1>7, <1>8, <1>10, BridgeAlone
  <2>2. QED
    BY <1>7, <2>1
<1>11. QED
  BY <1>8, <1>9, <1>10

(* Whatever the candles and however they close together: what the engine   *)
(* says of an instant is never said otherwise later, every requirement     *)
(* ends by its first cause, and adjacent sets speak of one bridge.         *)
THEOREM WhatIsSaidStays == SetReadsSpec => []ReadsAreCausal
<1>1. HistoriesFit => ReadsAreCausal
  BY NothingIsRewritten, FirstCauseEnds, OneBridge DEF ReadsAreCausal
<1>2. QED
  BY <1>1, HistoriesStart, HistoriesKeep, PTL DEF SetReadsSpec
===============================================================================
