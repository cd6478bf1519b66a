------------------------------- MODULE Sweeper --------------------------------
(* The research sweep (research/sweeper.py): experiments over sets, pairs  *)
(* and variants, four elimination gates, and what is kept of them: the     *)
(* store experiments.json and the table SURVIVING_EDGES.md.  Sweeps are    *)
(* processes an operator starts; two may run at a time, and each may die.  *)
(* The store is read, merged and written as a whole, in place.             *)
EXTENDS Integers, FiniteSets

CONSTANTS
  Sweeps,        \* processes
  Experiments,   \* permutations of set, pair, variant: their ids
  Scopes,        \* sets of experiments a sweep may be asked for
  Results,      \* what the backtests of one experiment may come to
  MaxSweeps, MaxKills,   \* bounds: sweeps started, sweeps killed
  NoStore, CutOff,       \* a store that is absent, or cut off in writing
  None           \* no record, no value, no gate

\* A table of the last record of each experiment, and the sweep that stored it.
Records ==
  {None} \cup [sweep: Nat, cleared: BOOLEAN, stressed: BOOLEAN,
               rejected: {None, "a", "b", "c", "d", "error"}]
Stores == [records: [Experiments -> Records], last: Nat]

ASSUME SweeperAssumption ==
  Scopes \subseteq SUBSET Experiments /\ NoStore \notin Stores /\ CutOff \notin Stores

VARIABLES
  store,     \* experiments.json
  edges,     \* the sweep the table was rendered for, and what it counts
  sweep,     \* what each sweep is doing
  kept,      \* (history) of each experiment, the last record stored
  lost,      \* (history) experiments whose record a later write dropped
  split,     \* (history) store and table are of different sweeps
  sweeps, kills

sweeperVars == <<store, edges, sweep, kept, lost, split, sweeps, kills>>

-------------------------------------------------------------------------------
(* The gates.  An outcome gives the trade count, the winners' average and  *)
(* the expectancy in R in sample, the annualized returns in sample and out *)
(* of sample, and the expectancy of the run under stressed costs.          *)

CONSTANTS MinTrades, MinWin, MinExpectancy

Significant(o) == o.trades >= MinTrades
Asymmetric(o) ==
  o.win # None /\ o.win >= MinWin /\ o.expectancy # None /\ o.expectancy >= MinExpectancy

\* At least half of the in-sample return, which must be one.
Efficient(o) ==
  o.inSample # None /\ o.outSample # None /\ o.inSample > 0 /\ 2 * o.outSample >= o.inSample

Cleared(o) == Significant(o) /\ Asymmetric(o) /\ Efficient(o)

\* Gate d of a candidate fails without a stress result; of others it is not
\* evaluated, and rejects nobody.
Gates(o, stress) ==
  [a |-> Significant(o), b |-> Asymmetric(o), c |-> Efficient(o),
   d |-> IF Cleared(o) THEN stress # None /\ stress >= 0 ELSE None]

GateOrder == <<"a", "b", "c", "d">>

RejectedBy(gates) ==
  LET failed == {k \in DOMAIN GateOrder : gates[GateOrder[k]] = FALSE} IN
  IF failed = {} THEN None
  ELSE GateOrder[CHOOSE k \in failed : \A other \in failed : k <= other]

\* The record of an experiment: the cheap gates decide whether the backtest
\* is repeated under stress, all of them whether it survives.
RecordOf(o, n) ==
  LET probe == RejectedBy(Gates(o, None))
      stress == IF probe = None THEN o.stress ELSE None
      rejected == RejectedBy(Gates(o, stress)) IN
  [sweep |-> n, cleared |-> Cleared(o), stressed |-> probe = None, rejected |-> rejected]

\* An experiment that raises is recorded as an error, and rejected.
Failure(n) == [sweep |-> n, cleared |-> FALSE, stressed |-> FALSE, rejected |-> "error"]

Survives(record) == record # None /\ record.rejected = None

-------------------------------------------------------------------------------
Resting == [at |-> "idle", number |-> 0, todo |-> {}, records |-> None,
            base |-> None, alone |-> TRUE, fresh |-> FALSE]

NoRecords == [e \in Experiments |-> None]
IsStore(f) == f \notin {NoStore, CutOff}

SweeperInit ==
  /\ store = NoStore /\ edges = None
  /\ sweep = [s \in Sweeps |-> Resting]
  /\ kept = NoRecords /\ lost = {} /\ split = FALSE
  /\ sweeps = 0 /\ kills = 0

StartSweep(s) ==
  /\ sweep[s].at = "idle" /\ sweeps < MaxSweeps
  /\ \E scope \in Scopes :
       sweep' = [sweep EXCEPT ![s] = [Resting EXCEPT
                   !.at = "run", !.number = sweeps + 1, !.todo = scope, !.records = NoRecords]]
  /\ sweeps' = sweeps + 1
  /\ UNCHANGED <<store, edges, kept, lost, split, kills>>

\* Experiments are run in order; nothing is stored before the last.
RunExperiment(s) ==
  LET r == sweep[s] IN
  /\ r.at = "run" /\ r.todo # {}
  /\ \E e \in r.todo, o \in Results \cup {None} :
       /\ \A other \in r.todo : e <= other
       /\ sweep' = [sweep EXCEPT ![s].todo = @ \ {e},
            ![s].records[e] = IF o = None THEN Failure(r.number) ELSE RecordOf(o, r.number)]
  /\ UNCHANGED <<store, edges, kept, lost, split, sweeps, kills>>

\* A dataset that is missing, too short or refused ends the whole sweep,
\* with the experiments already run.
AbortSweep(s) ==
  /\ sweep[s].at = "run" /\ sweep[s].todo # {}
  /\ sweep' = [sweep EXCEPT ![s] = Resting]
  /\ UNCHANGED <<store, edges, kept, lost, split, sweeps, kills>>

\* A store that cannot be read is taken for an empty one.
LoadExperiments(s) ==
  LET r == sweep[s] IN
  /\ r.at = "run" /\ r.todo = {}
  /\ sweep' = [sweep EXCEPT ![s].at = "open",
       ![s].base = IF IsStore(store) THEN store.records ELSE NoRecords,
       ![s].fresh = store = CutOff]
  /\ UNCHANGED <<store, edges, kept, lost, split, sweeps, kills>>

\* Sweeps that have read the store, and not written their table.
Storing(s) == sweep[s].at \in {"open", "write", "edges"}
Crossed(s) ==
  IF \E other \in Sweeps \ {s} : Storing(other)
  THEN [q \in Sweeps |-> IF Storing(q) THEN [sweep[q] EXCEPT !.alone = FALSE] ELSE sweep[q]]
  ELSE sweep

OpenStore(s) ==
  /\ sweep[s].at = "open"
  /\ store' = CutOff
  /\ sweep' = [Crossed(s) EXCEPT ![s].at = "write"]
  /\ UNCHANGED <<edges, kept, lost, split, sweeps, kills>>

\* Mutant of WriteStore: the sweep's records alone are stored.
WriteStoreAlone(s) ==
  LET r == Crossed(s)[s]
      merged == r.records IN
  /\ r.at = "write"
  /\ store' = [records |-> merged, last |-> r.number]
  /\ kept' = [e \in Experiments |-> IF r.records[e] = None THEN kept[e] ELSE r.records[e]]
  /\ lost' = {e \in Experiments :
                r.records[e] = None /\ (e \in lost \/ (kept[e] # None /\ (r.fresh \/ ~r.alone)))}
  /\ sweep' = [Crossed(s) EXCEPT ![s].at = "edges", ![s].base = merged]
  /\ UNCHANGED <<edges, split, sweeps, kills>>

WriteStore(s) ==
  LET r == Crossed(s)[s]
      merged == [e \in Experiments |-> IF r.records[e] = None THEN r.base[e] ELSE r.records[e]] IN
  /\ r.at = "write"
  /\ store' = [records |-> merged, last |-> r.number]
  /\ kept' = [e \in Experiments |-> IF r.records[e] = None THEN kept[e] ELSE r.records[e]]
  /\ lost' = {e \in Experiments :
                r.records[e] = None /\ (e \in lost \/ (kept[e] # None /\ (r.fresh \/ ~r.alone)))}
  /\ sweep' = [Crossed(s) EXCEPT ![s].at = "edges", ![s].base = merged]
  /\ UNCHANGED <<edges, split, sweeps, kills>>

\* The table is rendered from the store as this sweep wrote it.
WriteEdges(s) ==
  LET r == Crossed(s)[s] IN
  /\ r.at = "edges"
  /\ edges' = [sweep |-> r.number,
               evaluated |-> Cardinality({e \in Experiments : r.base[e] # None}),
               survivors |-> {e \in Experiments : Survives(r.base[e])}]
  /\ split' = ~r.alone
  /\ sweep' = [Crossed(s) EXCEPT ![s] = Resting]
  /\ UNCHANGED <<store, kept, lost, sweeps, kills>>

Kill(s) ==
  /\ sweep[s].at # "idle" /\ kills < MaxKills
  /\ kills' = kills + 1
  /\ split' = (split \/ sweep[s].at \in {"write", "edges"})
  /\ sweep' = [sweep EXCEPT ![s] = Resting]
  /\ UNCHANGED <<store, edges, kept, lost, sweeps>>

SweeperNext ==
  \E s \in Sweeps :
    \/ StartSweep(s) \/ RunExperiment(s) \/ AbortSweep(s) \/ LoadExperiments(s)
    \/ OpenStore(s) \/ WriteStore(s) \/ WriteEdges(s) \/ Kill(s)

SweeperSpec == SweeperInit /\ [][SweeperNext]_sweeperVars

-------------------------------------------------------------------------------

\* "Merge, never clobber" (sweeper.py:848): the store holds the last record
\* of every experiment ever stored, whatever a sweep's scope, except those
\* that a write dropped whose sweep found the store cut off, or met another
\* sweep between its reading and its writing.
RecordsKept ==
  IsStore(store) => \A e \in Experiments \ lost : store.records[e] = kept[e]

\* Once nobody is storing, the table shows the store as it is: rendered for
\* its last sweep, with its count of experiments and its survivors.  A kill
\* or a crossing may split them, until the next sweep that is left alone.
EdgesAgree ==
  (IsStore(store) /\ ~split /\ \A s \in Sweeps : ~Storing(s))
  => edges = [sweep |-> store.last,
              evaluated |-> Cardinality({e \in Experiments : store.records[e] # None}),
              survivors |-> {e \in Experiments : Survives(store.records[e])}]

\* Both files after any sequence of sweeps.
ResultsAgree == RecordsKept /\ EdgesAgree
===============================================================================
