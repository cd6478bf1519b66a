------------------------------ MODULE Evolution ------------------------------
(***************************************************************************)
(* The hourly evolution track of the autonomous daemon                     *)
(* (execution/autonomous_forex_daemon.py, EvolutionLab): a mutation of the *)
(* incumbent is proposed, tested and, if it clears the gates and beats the *)
(* incumbent out of sample, promoted.  Variants are named for their        *)
(* generation, which a restart counts from 0 again; the registry file is   *)
(* written whole, in place, after every change.                            *)
(***************************************************************************)
EXTENDS Integers, FiniteSets

CONSTANTS
  MaxGenerations,  \* generations 0..MaxGenerations - 1 of one process
  Scores,          \* out-of-sample expectancies
  MaxRestarts,
  Baseline,        \* the seeded incumbent
  NoVariant

ASSUME EvolutionAssumption ==
  /\ MaxGenerations \in Nat \ {0} /\ MaxRestarts \in Nat
  /\ Scores \subseteq (-98)..98
  /\ Baseline \notin Nat /\ NoVariant \notin Nat \cup {Baseline}

VariantIds == 0..(MaxGenerations - 1) \cup {Baseline}

VARIABLES
  variants,     \* the registry: status and score by id
  generation,
  testing,      \* the variant being backtested
  lab,          \* "up"; "down"; "unreadable": died while writing the file
  restarts

evolutionVars == <<variants, generation, testing, lab, restarts>>

-----------------------------------------------------------------------------
Promoted == {v \in VariantIds : variants[v].status = "PROMOTED"}

(* `or -99`: a score of 0 counts like one never measured, which 99 stands  *)
(* for.                                                                    *)
Score(v) == IF variants[v].score \in {0, 99} THEN -99 ELSE variants[v].score

(* The best of the promoted that were measured, or else the baseline.      *)
Incumbent ==
  LET scored == {v \in Promoted : variants[v].score # 99}
  IN IF scored = {} THEN Baseline
     ELSE CHOOSE v \in scored : \A w \in scored : Score(w) <= Score(v)

(* The verdict of the gates, others being that of the gates other than the *)
(* out-of-sample one.                                                      *)
GateVerdict(score, others) == IF score <= 0 THEN "REJECTED" ELSE others

EvolutionInit ==
  /\ variants = [v \in VariantIds |-> [status |-> IF v = Baseline THEN "PROMOTED" ELSE "NONE",
                                       score |-> 99]]
  /\ generation = 0
  /\ testing = NoVariant
  /\ lab = "up"
  /\ restarts = 0

ProposeMutation ==
  /\ lab = "up" /\ testing = NoVariant /\ generation < MaxGenerations
  /\ variants' = [variants EXCEPT ![generation] = [status |-> "QUARANTINE", score |-> 99]]
  /\ testing' = generation
  /\ generation' = generation + 1
  /\ UNCHANGED <<lab, restarts>>

(* Mutants of RegisterResult: what ties with the incumbent is promoted     *)
(* too, or the incumbent keeps its place.                                  *)
RegisterTies(score, others) ==
  LET v == testing
      verdict == GateVerdict(score, others)
      dominates == score >= Score(Incumbent) /\ v # Incumbent
      scored(status) == [variants EXCEPT ![v] = [status |-> status, score |-> score]]
  IN /\ lab = "up" /\ v # NoVariant
     /\ variants' = CASE verdict = "PROMOTE" /\ dominates ->
                           [scored("PROMOTED") EXCEPT ![Incumbent].status = "RETIRED"]
                      [] verdict = "REJECTED" -> scored("RETIRED")
                      [] OTHER -> scored("VALIDATING")
     /\ testing' = NoVariant
     /\ UNCHANGED <<generation, lab, restarts>>

RegisterBeside(score, others) ==
  LET v == testing
      verdict == GateVerdict(score, others)
      dominates == score > Score(Incumbent) /\ v # Incumbent
      scored(status) == [variants EXCEPT ![v] = [status |-> status, score |-> score]]
  IN /\ lab = "up" /\ v # NoVariant
     /\ variants' = CASE verdict = "PROMOTE" /\ dominates -> scored("PROMOTED")
                      [] verdict = "REJECTED" -> scored("RETIRED")
                      [] OTHER -> scored("VALIDATING")
     /\ testing' = NoVariant
     /\ UNCHANGED <<generation, lab, restarts>>

(* A challenger is promoted, and the incumbent retired, only if it beats   *)
(* the incumbent out of sample.                                            *)
RegisterResult(score, others) ==
  LET v == testing
      verdict == GateVerdict(score, others)
      dominates == score > Score(Incumbent) /\ v # Incumbent
      scored(status) == [variants EXCEPT ![v] = [status |-> status, score |-> score]]
  IN /\ lab = "up" /\ v # NoVariant
     /\ variants' = CASE verdict = "PROMOTE" /\ dominates ->
                           [scored("PROMOTED") EXCEPT ![Incumbent].status = "RETIRED"]
                      [] verdict = "PROMOTE" /\ ~dominates -> scored("VALIDATING")
                      [] verdict = "HOLD" -> scored("VALIDATING")
                      [] verdict = "REJECTED" -> scored("RETIRED")
     /\ testing' = NoVariant
     /\ UNCHANGED <<generation, lab, restarts>>

(* The backtest raises: the variant stays in quarantine.                   *)
TestFails ==
  /\ lab = "up" /\ testing # NoVariant
  /\ testing' = NoVariant
  /\ UNCHANGED <<variants, generation, lab, restarts>>

(* The daemon dies, perhaps while it writes the registry: _load then       *)
(* raises, and no daemon starts on this registry again.                    *)
DaemonDies(torn) ==
  /\ lab = "up" /\ restarts < MaxRestarts
  /\ lab' = IF torn THEN "unreadable" ELSE "down"
  /\ testing' = NoVariant
  /\ UNCHANGED <<variants, generation, restarts>>

DaemonStarts ==
  /\ lab = "down"
  /\ lab' = "up"
  /\ generation' = 0
  /\ restarts' = restarts + 1
  /\ UNCHANGED <<variants, testing>>

EvolutionNext ==
  \/ ProposeMutation
  \/ \E s \in Scores, g \in {"REJECTED", "HOLD", "PROMOTE"} : RegisterResult(s, g)
  \/ TestFails
  \/ \E torn \in BOOLEAN : DaemonDies(torn)
  \/ DaemonStarts

EvolutionSpec == EvolutionInit /\ [][EvolutionNext]_evolutionVars

-----------------------------------------------------------------------------
(* "Frozen incumbent; all challengers must beat me": the incumbent changes *)
(* only to a variant that scores better, or falls back to the baseline     *)
(* because a mutation after a restart took the incumbent's name and        *)
(* overwrote it.                                                           *)
BeatenOrOverwritten ==
  [][Incumbent' # Incumbent =>
       \/ Score(Incumbent)' > Score(Incumbent)
       \/ /\ restarts > 0 /\ testing' = Incumbent
          /\ Incumbent' = Baseline]_evolutionVars

(* Across restarts, retests and overwritten names there is never a second  *)
(* promoted variant, and what is promoted made money out of sample.        *)
OneChampion ==
  /\ Cardinality(Promoted) <= 1
  /\ \A v \in Promoted \ {Baseline} : variants[v].score \in Scores /\ variants[v].score > 0

(* The incumbent at every moment and at every change.                      *)
IncumbentHolds == []OneChampion /\ BeatenOrOverwritten
=============================================================================
