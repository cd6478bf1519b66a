------------------------------ MODULE Discovery ------------------------------
(***************************************************************************)
(* How a strategy earns its place in research/promoted: backtests on the   *)
(* parts of a history, eight gates, an artifact (research_engine/          *)
(* walkforward.py, evaluate.py, discovery/*.py), and the matrix of the     *)
(* fractal campaign, where many candidates are tested at once.  Programs:  *)
(*   sweep     the command that tries one candidate on generated candles   *)
(*   loop      ContinuousDiscoveryLoop with its own evaluator              *)
(*   matrix    the campaign's cells: real data, nothing published          *)
(*   strict, lenient   the pipeline that demands real data, or does not    *)
(*   calibrate the parameter calibration                                   *)
(* A history is its number of bars; the results of the backtests on its    *)
(* parts are inputs.  A verdict is published in two writes, each under a   *)
(* name that ends in the second it happens in.                             *)
(***************************************************************************)
EXTENDS Integers, Sequences, FiniteSets

CONSTANTS
  Ids,           \* candidates; ...
  Structural,    \* ... those of InstitutionalFractalStrategy
  Lengths,       \* lengths of histories
  Labels,        \* provenances of histories
  Family,        \* cells of the matrix
  Level,         \* the matrix accepts a q-value up to Level / Unit (0.05) ...
  Unit,          \* ... p-values are multiples of 1 / Unit
  Divisor,       \* multiple of every rank, to keep q-values whole
  MaxVerdicts, MaxSeconds, MaxFaults,   \* bounds
  Blank

GateNames == <<"G1", "G2", "G3", "G4", "G5", "G6", "G7", "G8">>
RealData == {"REAL_VENDOR", "BROKER_EXPORT"}
LoopPrograms == {"sweep", "loop", "matrix"}
PipelinePrograms == {"strict", "lenient"}

Judgements ==
  [program : LoopPrograms \cup PipelinePrograms \cup {"calibrate"}, id : Ids, provenance : Labels,
   bars : Lengths, failed : {GateNames[k] : k \in DOMAIN GateNames} \cup {Blank},
   status : {"REJECTED_GATES", "EXECUTION_FAILED", "PROMOTABLE_PAPER_ONLY", "HALTED", "ERROR"}]

ASSUME DiscoveryAssumption ==
  /\ Structural \subseteq Ids /\ Lengths \subseteq Nat
  /\ Unit \in Nat /\ Level \in 1..Unit - 1 /\ Family \in Nat /\ Divisor \in Nat \ {0}
  /\ \A r \in 1..Family : Divisor % r = 0
  /\ Blank \notin Labels \cup Int \cup Judgements /\ \A k \in DOMAIN GateNames : Blank # GateNames[k]

VARIABLES
  second,     \* the clock
  artifacts,  \* file name -> content
  judged,     \* the verdict between its two writes, or Blank
  verdicts,   \* (history) all verdicts, in order
  faults,     \* processes killed between two writes
  cells       \* the matrix: first as evaluated, at last as corrected

discoveryVars == <<second, artifacts, judged, verdicts, faults, cells>>

-------------------------------------------------------------------------------
(* Parts of a history.                                                     *)

Smaller(a, b) == IF a < b THEN a ELSE b
Larger(a, b) == IF a < b THEN b ELSE a
Part(from, size) == [from |-> from, to |-> from + size]   \* without bar to

Partition(from, n) ==
  LET dev == (n * 70) \div 100
      val == (n * 15) \div 100 IN
  [dev |-> Part(from, dev), val |-> Part(from + dev, val),
   oos |-> Part(from + dev + val, n - dev - val)]

\* Sizes below the minimum are raised to it; no room for that is an error.
CalibrationSizes(n) ==
  LET dev == (n * 70) \div 100
      val == (n * 15) \div 100 IN
  [dev |-> Larger(dev, 1000), val |-> Larger(val, 200), oos |-> Larger(n - dev - val, 200)]
CalibrationFits(n) ==
  LET s == CalibrationSizes(n) IN s.dev + s.val + s.oos <= n
CalibrationPartition(n) ==
  LET s == CalibrationSizes(n) IN
  [dev |-> Part(0, s.dev), val |-> Part(s.dev, s.val), oos |-> Part(s.dev + s.val, s.oos)]

\* Length of the rolling windows and the distance between them.
Rolling(program, id, n) ==
  CASE program \in PipelinePrograms ->
         LET w == Larger(300, Smaller(1000, (n * 60) \div 100)) IN
         [window |-> w, step |-> Larger(150, Smaller(500, w \div 2))]
    [] program \in LoopPrograms /\ id \in Structural ->
         LET w == Larger(30, n \div 2) IN [window |-> w, step |-> Larger(15, w \div 2)]
    [] OTHER ->
         LET w == Larger(30, Smaller(1000, (n * 60) \div 100)) IN
         [window |-> w, step |-> Larger(15, Smaller(500, w \div 2))]

RollingWindows(program, id, n) ==
  LET r == Rolling(program, id, n) IN
  {Partition(k * r.step, r.window) : k \in {j \in 0..n \div r.step : j * r.step + r.window <= n}}

Testable(program, id, n) == n >= 30 /\ RollingWindows(program, id, n) # {}

\* A backtest and what its strategy object has traded through before:
\* walk-forward and cost shock work on copies of their own.
Fresh(part) == [part |-> part, before |-> {}]
PartsOf(p) == {p.dev, p.val, p.oos}
BacktestsOf(program, id, n) ==
  {Fresh(part) : part \in UNION {PartsOf(p) : p \in {Partition(0, n)} \cup RollingWindows(program, id, n)}}

-------------------------------------------------------------------------------
(* The gates.                                                              *)

Minimum(program) ==
  IF program = "sweep" THEN [dev |-> 1, val |-> 1, oos |-> 1]
  ELSE [dev |-> 100, val |-> 30, oos |-> 30]

Parts3 == {"dev", "val", "oos"}

\* Shares in per cent, the Sharpe ratio in hundredths; losing counts the
\* rolling windows whose out-of-sample expectancy is not positive.
Gate(g, o, windows, min) ==
  CASE g = "G1" -> \A p \in Parts3 : o[p].trades >= min[p]
    [] g = "G2" -> \A p \in Parts3 : o[p].expectancy > 0
    [] g = "G3" -> o.dev.trades + o.val.trades + o.oos.trades >= 5 /\ o.bootstrap >= 95
    [] g = "G4" -> o.dev.expectancy > 0 /\ 2 * o.oos.expectancy >= o.dev.expectancy
    [] g = "G5" -> o.shocked > 0
    [] g = "G6" -> \A p \in Parts3 : o[p].drawdown <= 15
    [] g = "G7" -> o.sharpe >= 50
    [] g = "G8" -> /\ windows >= 3
                   /\ o.rolled >= min.oos
                   /\ 100 * (windows - o.losing) >= 60 * windows
                   /\ o.losing = 0    \* the worst window earns

\* The first gate failed, or Blank.
FailedGate(o, windows, min) ==
  LET fails == {k \in DOMAIN GateNames : ~Gate(GateNames[k], o, windows, min)} IN
  IF fails = {} THEN Blank ELSE GateNames[CHOOSE k \in fails : \A j \in fails : k <= j]

FailedBy(program, id, n, o) ==
  FailedGate(o, Cardinality(RollingWindows(program, id, n)), Minimum(program))

-------------------------------------------------------------------------------
(* One candidate.                                                          *)

Judgement(program, id, data, n, status, failed) ==
  [program |-> program, id |-> id, provenance |-> data, bars |-> n, status |-> status,
   failed |-> failed]

\* What is known of the data before any backtest decides alone.
RefusedData(id, data) == id \in Structural /\ data \notin RealData

Conclude(v) == verdicts' = Append(verdicts, v)

Label(gate) == IF gate = Blank THEN "PROMOTED" ELSE gate
NameOf(id, gate, at) == [id |-> id, label |-> Label(gate), second |-> at]
Write(name, content) ==
  artifacts' = [x \in DOMAIN artifacts \cup {name} |-> IF x = name THEN content ELSE artifacts[x]]

(* The discovery loop up to the evaluator's write.  A history too short    *)
(* for the partition or for one rolling window raises.                     *)
Evaluate(program, id, data, n, o) ==
  /\ Len(verdicts) < MaxVerdicts /\ judged = Blank
  /\ program = "sweep" => data = "UNKNOWN"    \* its candles are generated
  /\ CASE RefusedData(id, data) ->
            /\ Conclude(Judgement(program, id, data, n, "REJECTED_GATES", Blank))
            /\ UNCHANGED <<artifacts, judged>>
       [] ~RefusedData(id, data) /\ ~Testable(program, id, n) ->
            /\ Conclude(Judgement(program, id, data, n, "EXECUTION_FAILED", Blank))
            /\ UNCHANGED <<artifacts, judged>>
       [] OTHER ->
            LET failed == FailedBy(program, id, n, o) IN
            /\ Write(NameOf(id, failed, second), [provenance |-> Blank])
            /\ IF failed = Blank
               THEN /\ judged' = Judgement(program, id, data, n, "PROMOTABLE_PAPER_ONLY", Blank)
                    /\ UNCHANGED verdicts
               ELSE /\ Conclude(Judgement(program, id, data, n, "REJECTED_GATES", failed))
                    /\ UNCHANGED judged
  /\ UNCHANGED <<second, faults, cells>>

(* The pipeline up to the evaluator's write.  It stops without real data,  *)
(* if it demands them, and by an error in a history shorter than one       *)
(* rolling window; acquisition hands over no fewer than 200 bars.          *)
EvaluateModel(program, id, data, n, o) ==
  /\ Len(verdicts) < MaxVerdicts /\ judged = Blank
  /\ id \notin Structural /\ n >= 200
  /\ IF (program = "strict" /\ data \notin RealData) \/ ~Testable(program, id, n)
     THEN /\ Conclude(Judgement(program, id, data, n, "HALTED", Blank))
          /\ UNCHANGED <<artifacts, judged>>
     ELSE LET failed == FailedBy(program, id, n, o) IN
          /\ Write(NameOf(id, failed, second), [provenance |-> Blank])
          /\ judged' = Judgement(program, id, data, n,
                         IF failed = Blank THEN "PROMOTABLE_PAPER_ONLY" ELSE "REJECTED_GATES", failed)
          /\ UNCHANGED verdicts
  /\ UNCHANGED <<second, faults, cells>>

(* The second write, by the program itself, names the data.                *)
Publish ==
  /\ judged # Blank
  /\ Write(NameOf(judged.id, judged.failed, second), [provenance |-> judged.provenance])
  /\ Conclude(judged)
  /\ judged' = Blank
  /\ UNCHANGED <<second, faults, cells>>

(* One combination of the calibration.  Histories below 1000 bars are      *)
(* skipped; a partition that does not fit stops the whole calibration; and *)
(* the walk-forward result is built without its strategy id, which raises  *)
(* before any gate, so every combination ends as a failed result (and no   *)
(* verdict rests on the one strategy object that ran through all parts).   *)
Calibrate(id, data, n) ==
  /\ Len(verdicts) < MaxVerdicts /\ judged = Blank
  /\ id \notin Structural /\ n >= 1000
  /\ Conclude(Judgement("calibrate", id, data, n, IF CalibrationFits(n) THEN "ERROR" ELSE "HALTED", Blank))
  /\ UNCHANGED <<second, artifacts, judged, faults, cells>>

Tick ==
  /\ second < MaxSeconds
  /\ second' = second + 1
  /\ UNCHANGED <<artifacts, judged, verdicts, faults, cells>>

(* The process dies between the two writes.                                *)
DieUnpublished ==
  /\ faults < MaxFaults /\ judged # Blank
  /\ faults' = faults + 1
  /\ judged' = Blank
  /\ UNCHANGED <<second, artifacts, verdicts, cells>>

-------------------------------------------------------------------------------
(* The matrix.                                                             *)

Cell(status, p, trimmed) == [status |-> status, p |-> p, trimmed |-> trimmed, q |-> Blank]

(* The bootstrap test: fewer than 30 out-of-sample trades leave it without *)
(* a p-value, a mean that is not positive gives 1.                         *)
PValue(o) ==
  CASE o.oos.trades < 30 -> Blank
    [] o.oos.trades >= 30 /\ o.oos.expectancy <= 0 -> Unit
    [] OTHER -> o.p

(* A cell: the symbol's dataset (none, or too coarse, or M1 bars), then    *)
(* the candidate.                                                          *)
EvaluateCell(id, n, o, selected) ==
  LET total == o.dev.trades + o.val.trades + o.oos.trades IN
  CASE selected = "none" -> Cell("NOT_RUN_INSUFFICIENT_REAL_DATA", Blank, Blank)
    [] selected = "M15" -> Cell("NOT_RUN_M1_REQUIRED", Blank, Blank)
    [] selected = "M1" /\ ~Testable("matrix", id, n) -> Cell("EXECUTION_FAILED", Blank, Blank)
    [] selected = "M1" /\ Testable("matrix", id, n) ->
         Cell(CASE total < 100 -> "INSUFFICIENT_TRADES"
                [] total >= 100 /\ FailedBy("matrix", id, n, o) = Blank -> "GATES_PASSED"
                [] OTHER -> "GATES_FAILED",
              PValue(o), o.trimmed)

(* benjamini_hochberg: the p-values in order, ties as they stand; from the *)
(* last rank down the least of p * total / rank, and of 1.                 *)
Tested(cs) == {i \in DOMAIN cs : cs[i].p # Blank}
RankOf(cs, i) ==
  Cardinality({j \in Tested(cs) : cs[j].p < cs[i].p \/ (cs[j].p = cs[i].p /\ j <= i)})
(* Mutant of QValue: each p-value by its own rank alone.                   *)
QValueOfRank(cs, i) ==
  LET q == (cs[i].p * Cardinality(Tested(cs)) * Divisor) \div RankOf(cs, i) IN
  IF q < Unit * Divisor THEN q ELSE Unit * Divisor
QValue(cs, i) ==
  LET scaled == {(cs[j].p * Cardinality(Tested(cs)) * Divisor) \div RankOf(cs, j) :
                   j \in {k \in Tested(cs) : RankOf(cs, k) >= RankOf(cs, i)}} \cup {Unit * Divisor} IN
  CHOOSE q \in scaled : \A other \in scaled : q <= other

Corrected(cs) ==
  [i \in DOMAIN cs |->
     LET q == IF cs[i].p = Blank THEN Blank ELSE QValue(cs, i)
         status ==
           CASE cs[i].status # "GATES_PASSED" -> cs[i].status
             [] cs[i].status = "GATES_PASSED" /\ (q = Blank \/ q > Level * Divisor) ->
                  "REJECTED_MULTIPLE_TESTING"
             [] cs[i].status = "GATES_PASSED" /\ q # Blank /\ q <= Level * Divisor /\ cs[i].trimmed <= 0 ->
                  "REJECTED_TOP_WINNER_CONCENTRATION"
             [] OTHER -> "GATES_AND_FDR_PASSED" IN
     [cs[i] EXCEPT !.q = q, !.status = status]]

Finished == Len(cells) = Family /\ \E i \in DOMAIN cells : cells[i].q # Blank

MatrixStep(id, n, o, selected) ==
  /\ id \in Structural /\ Len(cells) < Family
  /\ cells' = Append(cells, EvaluateCell(id, n, o, selected))
  /\ UNCHANGED <<second, artifacts, judged, verdicts, faults>>

MatrixCorrect ==
  /\ Len(cells) = Family /\ ~Finished
  /\ Tested(cells) # {}    \* otherwise nothing changes
  /\ cells' = Corrected(cells)
  /\ UNCHANGED <<second, artifacts, judged, verdicts, faults>>

-------------------------------------------------------------------------------
DiscoveryInit ==
  /\ second = 1
  /\ artifacts = [x \in {} |-> Blank]
  /\ judged = Blank
  /\ verdicts = <<>>
  /\ faults = 0
  /\ cells = <<>>

(* trials: what the backtests of a candidate may give.                     *)
PromotionNext(trials) ==
  \/ \E id \in Ids, n \in Lengths, o \in trials, data \in Labels :
       \/ \E program \in {"sweep", "loop"} : Evaluate(program, id, data, n, o)
       \/ \E program \in PipelinePrograms : EvaluateModel(program, id, data, n, o)
  \/ \E id \in Ids, n \in Lengths, data \in Labels : Calibrate(id, data, n)
  \/ Publish \/ Tick \/ DieUnpublished

MatrixNext(trials) ==
  \/ \E id \in Structural, n \in Lengths, o \in trials, selected \in {"none", "M15", "M1"} :
       MatrixStep(id, n, o, selected)
  \/ MatrixCorrect

DiscoveryNext(trials) == PromotionNext(trials) \/ MatrixNext(trials)
DiscoverySpec(trials) == DiscoveryInit /\ [][DiscoveryNext(trials)]_discoveryVars

-------------------------------------------------------------------------------
(* Properties.                                                             *)

Overlap(a, b) == a.from < b.to /\ b.from < a.to

(* The verdict just reached comes of fair tests: the parts of the walk-    *)
(* forward follow each other through the whole history, no two rolling     *)
(* windows test on the same bar, and no strategy object came to a test     *)
(* with the memory of another part.  A calibration stays in its history.   *)
LastJudgement == IF judged # Blank \/ verdicts = <<>> THEN judged ELSE verdicts[Len(verdicts)]

TestedFairly(v) ==
  LET whole == Partition(0, v.bars)
      windows == RollingWindows(v.program, v.id, v.bars) IN
  /\ whole.dev.to = whole.val.from /\ whole.val.to = whole.oos.from
  /\ whole.oos.to = v.bars
  /\ \A w \in windows : w.oos.to <= v.bars /\ w.oos.from < w.oos.to
  /\ \A w, x \in windows : w # x => ~Overlap(w.oos, x.oos)
  /\ \A b \in BacktestsOf(v.program, v.id, v.bars) : b.before = {}

InsideHistory(v) ==
  LET p == CalibrationPartition(v.bars) IN
  /\ p.oos.to = v.bars
  /\ \A a, b \in PartsOf(p) : a # b => ~Overlap(a, b)

TestsSound ==
  LastJudgement # Blank =>
    /\ LastJudgement.status = "PROMOTABLE_PAPER_ONLY" \/ LastJudgement.failed # Blank =>
         TestedFairly(LastJudgement)
    /\ LastJudgement.status = "ERROR" => InsideHistory(LastJudgement)

(* An artifact in research/promoted is the verdict of a candidate that     *)
(* passed every gate on at least three rolling windows; structural ones    *)
(* and those of a pipeline that demands real data come from real data; and *)
(* one that does not name its data is followed by one that does, unless    *)
(* the program died in between.                                            *)
PromotionsEarned ==
  LET all == {verdicts[k] : k \in DOMAIN verdicts} \cup ({judged} \ {Blank})
      promoted == {v \in all : v.status = "PROMOTABLE_PAPER_ONLY"} IN
  /\ \A v \in promoted :
       /\ Cardinality(RollingWindows(v.program, v.id, v.bars)) >= 3
       /\ v.id \in Structural \/ v.program = "strict" => v.provenance \in RealData
       /\ v.program \notin {"matrix", "calibrate"}
  /\ \A f \in {name \in DOMAIN artifacts : name.label = "PROMOTED"} :
       LET named == artifacts[f].provenance IN
       IF named # Blank
       THEN \E v \in promoted : v.id = f.id /\ v.provenance = named
       ELSE \/ faults > 0
            \/ judged # Blank /\ judged.id = f.id
            \/ \E later \in DOMAIN artifacts :
                 /\ later.id = f.id /\ later.label = "PROMOTED" /\ later.second > f.second
                 /\ artifacts[later].provenance # Blank

(* A cell of the matrix stands if, and only if, it passed the gates, does  *)
(* not live on its best trade, and some cut at or above its p-value keeps  *)
(* the expected share of false discoveries among the tests below the cut   *)
(* at the level (the step-up rule, told without ranks).                    *)
FamilyCorrected ==
  LET total == Cardinality(Tested(cells))
      Below(cut) == Cardinality({j \in Tested(cells) : cells[j].p <= cut}) IN
  Finished =>
    \A i \in DOMAIN cells :
      cells[i].status = "GATES_AND_FDR_PASSED" <=>
        /\ cells[i].status \in {"GATES_AND_FDR_PASSED", "REJECTED_MULTIPLE_TESTING",
                                "REJECTED_TOP_WINNER_CONCENTRATION"}
        /\ cells[i].trimmed > 0
        /\ \E j \in Tested(cells) :
             /\ cells[j].p >= cells[i].p
             /\ cells[j].p * total <= Level * Below(cells[j].p)

ResearchEarned == TestsSound /\ PromotionsEarned /\ FamilyCorrected
===============================================================================
