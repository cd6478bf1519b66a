------------------------------ MODULE DataCache -------------------------------
(* The history cache: one Parquet file of bars and, beside it, one JSON    *)
(* file that classifies them (market_data/historical_fetcher.py).  The     *)
(* programs that fill it are processes of their own that an operator       *)
(* starts: the Dukascopy and HistData downloaders, the discovery pipeline, *)
(* the calibration and the research sweep.  Nothing locks the files, and a *)
(* program may die between any two accesses.                               *)
(*                                                                         *)
(* Bars are abstracted to where they come from and which months they       *)
(* cover.  Synthetic bars are as many as were asked for: every month.      *)
EXTENDS Integers, FiniteSets

CONSTANTS
  Programs,       \* processes
  Modes,          \* what a process may be: [kind, strict, fallback]
  Months,         \* months of history a download asks for
  Enough,         \* months of bars a program wants to find in the cache
  Tries,          \* attempts per file of the Dukascopy downloader
  MaxRuns, MaxDeaths,   \* bounds: programs started, programs killed
  NoFile, Torn    \* contents of a file that is absent, or cut off in writing

ASSUME CacheAssumption == Months \subseteq Nat

VARIABLES
  cached,     \* the Parquet file
  label,      \* the classification beside it
  archives,   \* months whose HistData archive is in the raw directory
  run,        \* what each process is doing
  met,        \* (history) processes that met another at the files
  disturbed,  \* (history) the last writer died half way, or met another
  served,     \* (history) the dataset handed last to research, with its class
  starts, deaths

cacheVars == <<cached, label, archives, run, met, disturbed, served, starts, deaths>>

Real(months) == [origin |-> "real", months |-> months]
Synthetic == [origin |-> "synthetic", months |-> Months]
IsBars(f) == f \notin {NoFile, Torn}
IsReal(f) == IsBars(f) /\ f.origin = "real"
Long(f) == Cardinality(f.months) >= Enough

Qualifying == {"REAL_VENDOR"}

NotRunning == [at |-> "idle", mode |-> NoFile, todo |-> {}, tries |-> 0, got |-> {},
         data |-> NoFile, class |-> "UNKNOWN", keep |-> FALSE]

CacheInit ==
  /\ cached = NoFile /\ label = NoFile /\ archives = {}
  /\ run = [p \in Programs |-> NotRunning]
  /\ met = {} /\ disturbed = FALSE /\ served = {}
  /\ starts = 0 /\ deaths = 0

-------------------------------------------------------------------------------
(* Accesses of the two files.                                              *)

\* Between its first and its last access of the pair of files.
Within(p) ==
  \/ run[p].at \in {"classify", "write", "finish", "label"}
  \/ run[p].at = "fetch" /\ run[p].mode.kind = "pipeline"

\* Those whom an access by p gets in the way of, or who get in its way.
Others(p) ==
  {q \in Programs \ {p} :
     Within(q) /\ (run[p].at \in {"finish", "label"} \/ run[q].at \in {"finish", "label"})}

\* p accesses the files and goes on with `next'.
Touch(p, next) ==
  /\ run' = [run EXCEPT ![p] = next]
  /\ met' = IF Others(p) = {} THEN met ELSE met \cup Others(p) \cup {p}
  /\ UNCHANGED <<archives, starts, deaths>>

\* A step of p that concerns neither file.
Step(p, next) ==
  /\ run' = [run EXCEPT ![p] = next]
  /\ UNCHANGED <<cached, label, archives, met, disturbed, served, starts, deaths>>

\* The record of a program about to write `data' under `class'.  It is
\* handed on to the program's research when `keep' holds.
Writing(r, data, class, keep) ==
  [r EXCEPT !.at = "write", !.data = data, !.class = class, !.keep = keep]

\* p hands a dataset to research, undisturbed if nothing was amiss.
Hand(p, r) ==
  {[data |-> r.data, class |-> r.class, sound |-> ~disturbed' /\ p \notin met']}

\* The bars are rewritten in place: the old ones are gone first.
Truncate(p) ==
  /\ run[p].at = "write"
  /\ cached' = Torn
  /\ Touch(p, [run[p] EXCEPT !.at = "finish"])
  /\ UNCHANGED <<label, disturbed, served>>

\* Two writers at once leave either's bars or neither's.
FinishBars(p) ==
  /\ run[p].at = "finish"
  /\ \/ cached' = run[p].data
     \/ cached' = Torn /\ \E q \in Programs \ {p} : run[q].at = "finish"
  /\ Touch(p, [run[p] EXCEPT !.at = "label"])
  /\ UNCHANGED <<label, disturbed, served>>

\* What a strict program has generated itself it refuses afterwards.
Refuses(r) == r.mode.strict /\ r.class \notin Qualifying

\* Mutant of WriteLabel: a classification once written stays.
WriteLabelOnce(p) ==
  LET r == run[p] IN
  /\ r.at = "label"
  /\ label' = IF label = NoFile THEN r.class ELSE label
  /\ Touch(p, NotRunning)
  /\ disturbed' = (p \in met')
  /\ served' = IF r.keep /\ ~Refuses(r) THEN Hand(p, r) ELSE served
  /\ UNCHANGED cached

WriteLabel(p) ==
  LET r == run[p] IN
  /\ r.at = "label"
  /\ label' = r.class
  /\ Touch(p, NotRunning)
  /\ disturbed' = (p \in met')
  /\ served' = IF r.keep /\ ~Refuses(r) THEN Hand(p, r) ELSE served
  /\ UNCHANGED cached

Classification == IF label \in {NoFile, Torn} THEN "UNKNOWN" ELSE label

-------------------------------------------------------------------------------
(* Starting, and what each program does first.                             *)

Start(p) ==
  /\ run[p].at = "idle" /\ starts < MaxRuns
  /\ \E mode \in Modes :
       run' = [run EXCEPT ![p] = [NotRunning EXCEPT !.mode = mode,
                 !.at = IF mode.kind \in {"download", "histdata"} THEN "fetch" ELSE "look",
                 !.todo = IF mode.kind \in {"download", "histdata"} THEN Months ELSE {}]]
  /\ starts' = starts + 1 /\ met' = met \ {p} /\ served' = {}
  /\ UNCHANGED <<cached, label, archives, disturbed, deaths>>

Generate(p, keep) == Touch(p, Writing(run[p], Synthetic, "SYNTHETIC", keep))

GenerateIfAllowed(p) == IF run[p].mode.fallback THEN Generate(p, TRUE) ELSE Touch(p, NotRunning)

\* The pipeline takes what is long enough; otherwise it downloads.
PipelineLook(p) ==
  LET r == run[p] IN
  /\ r.at = "look" /\ r.mode.kind = "pipeline"
  /\ IF IsBars(cached) /\ Long(cached)
     THEN Touch(p, [r EXCEPT !.at = "classify", !.data = cached])
     ELSE Touch(p, [r EXCEPT !.at = "fetch", !.todo = Months])
  /\ UNCHANGED <<cached, label, disturbed, served>>

\* The sweep takes what is long enough, and generates what cannot be read,
\* if it may (its `fallback').
SweepLook(p) ==
  LET r == run[p] IN
  /\ r.at = "look" /\ r.mode.kind = "sweep"
  /\ IF IsBars(cached)
     THEN Touch(p, [r EXCEPT !.at = "classify", !.data = cached])
     ELSE GenerateIfAllowed(p)
  /\ UNCHANGED <<cached, label, disturbed, served>>

\* The calibration trusts whatever the cache holds.
FetchOrLoad(p) ==
  LET r == run[p] IN
  /\ r.at = "look" /\ r.mode.kind = "calibration" /\ UNCHANGED <<cached, label, disturbed>>
  /\ CASE cached = NoFile -> Generate(p, TRUE) /\ UNCHANGED served
       [] cached = Torn   -> Touch(p, NotRunning) /\ UNCHANGED served
       [] OTHER         -> Touch(p, NotRunning) /\ served' = Hand(p, [r EXCEPT !.data = cached])

\* Mutant of ReadLabel: whatever is too short is replaced.
ReadLabelAnyShort(p) ==
  LET r == [run[p] EXCEPT !.class = Classification] IN
  /\ r.at = "classify" /\ UNCHANGED <<cached, label, disturbed>>
  /\ IF r.mode.kind = "sweep" /\ ~Long(r.data)
     THEN GenerateIfAllowed(p) /\ UNCHANGED served
     ELSE /\ Touch(p, NotRunning)
          /\ served' = IF Refuses(r) THEN served ELSE Hand(p, r)

\* The classification is read after the bars.  A sweep that finds too few
\* generates more, unless they are real.
ReadLabel(p) ==
  LET r == [run[p] EXCEPT !.class = Classification]
      short == r.mode.kind = "sweep" /\ ~Long(r.data) IN
  /\ r.at = "classify" /\ UNCHANGED <<cached, label, disturbed>>
  /\ IF short /\ r.class = "SYNTHETIC"
     THEN GenerateIfAllowed(p) /\ UNCHANGED served
     ELSE /\ Touch(p, NotRunning)
          /\ served' = IF Refuses(r) THEN served ELSE Hand(p, r)

-------------------------------------------------------------------------------
(* Downloads.                                                              *)

Fetching(p, kinds) == run[p].at = "fetch" /\ run[p].mode.kind \in kinds

\* One attempt at the next file of Dukascopy.  A file that does not exist is
\* not asked for again; after any other failure a downloader asks `Tries'
\* times in all, a pipeline once.
DownloadFile(p) ==
  LET r == run[p] IN
  /\ Fetching(p, {"download", "pipeline"}) /\ r.todo # {}
  /\ LET m == CHOOSE m \in r.todo : \A o \in r.todo : m <= o
         done == [r EXCEPT !.todo = @ \ {m}, !.tries = 0] IN
     \/ Step(p, [done EXCEPT !.got = @ \cup {m}])
     \/ Step(p, done)
     \/ Step(p, IF r.mode.kind = "download" /\ r.tries + 1 < Tries THEN [r EXCEPT !.tries = @ + 1] ELSE done)

\* A file that cannot be parsed is left out; what is left is cached as real.
\* If nothing is left the pipeline generates, and so does a downloader that
\* may fall back, except that without any file at all it hands its synthetic
\* bars out and does not cache them.
ProcessFiles(p) ==
  LET r == run[p] IN
  /\ Fetching(p, {"download", "pipeline"}) /\ r.todo = {} /\ UNCHANGED <<cached, label, disturbed>>
  /\ \E parsed \in SUBSET r.got :
       CASE parsed # {} ->
              Touch(p, Writing(r, Real(parsed), "REAL_VENDOR", TRUE)) /\ UNCHANGED served
         [] parsed = {} /\ r.mode.kind = "pipeline" ->
              Generate(p, TRUE) /\ UNCHANGED served
         [] parsed = {} /\ r.mode.kind = "download" /\ ~r.mode.fallback ->
              Touch(p, NotRunning) /\ UNCHANGED served
         [] OTHER ->
              IF r.got = {}
              THEN /\ Touch(p, NotRunning)
                   /\ served' = Hand(p, [r EXCEPT !.data = Synthetic])
              ELSE Generate(p, TRUE) /\ UNCHANGED served

\* An archive that is there already is not fetched again.
DownloadMonth(p) ==
  LET r == run[p] IN
  /\ Fetching(p, {"histdata"}) /\ r.todo # {}
  /\ LET m == CHOOSE m \in r.todo : \A o \in r.todo : m <= o
         done == [r EXCEPT !.todo = @ \ {m}] IN
     \/ /\ archives' = archives \cup {m}
        /\ run' = [run EXCEPT ![p] = [done EXCEPT !.got = @ \cup {m}]]
        /\ UNCHANGED <<cached, label, met, disturbed, served, starts, deaths>>
     \/ m \notin archives /\ Step(p, done)

\* An archive that cannot be read or has no ticks is left out.
AggregateArchives(p) ==
  LET r == run[p] IN
  /\ Fetching(p, {"histdata"}) /\ r.todo = {}
  /\ \E usable \in SUBSET r.got :
       Touch(p, IF usable = {} THEN NotRunning ELSE Writing(r, Real(usable), "REAL_VENDOR", TRUE))
  /\ UNCHANGED <<cached, label, disturbed, served>>

-------------------------------------------------------------------------------

\* A process is killed: files stay as they are, cut off where it was writing.
ProgramDies(p) ==
  /\ run[p].at # "idle" /\ deaths < MaxDeaths
  /\ deaths' = deaths + 1
  /\ run' = [run EXCEPT ![p] = NotRunning]
  /\ disturbed' = (disturbed \/ run[p].at \in {"finish", "label"})
  /\ label' \in {label} \cup (IF run[p].at = "label" THEN {Torn} ELSE {})
  /\ UNCHANGED <<cached, archives, met, served, starts>>

CacheNext ==
  \E p \in Programs :
    \/ Start(p) \/ PipelineLook(p) \/ SweepLook(p) \/ FetchOrLoad(p) \/ ReadLabel(p)
    \/ DownloadFile(p) \/ ProcessFiles(p) \/ DownloadMonth(p) \/ AggregateArchives(p)
    \/ Truncate(p) \/ FinishBars(p) \/ WriteLabel(p) \/ ProgramDies(p)

CacheSpec == CacheInit /\ [][CacheNext]_cacheVars

-------------------------------------------------------------------------------

\* Bars that research is given as real are real, whatever programs ran
\* before, whichever downloads failed and wherever programs died: the damage
\* of a death between bars and classification, or of two programs at the
\* files, ends with the next write that is left alone
\* (provenance.py:1-5: synthetic data is never indistinguishable from real).
TrustedIsReal ==
  \A d \in served : d.sound /\ d.class \in Qualifying => d.data.origin = "real"

\* Real bars are overwritten by synthetic ones only by a pipeline that found
\* too few and could not download more, or by a downloader told to fall
\* back.  A sweep keeps them however few they are (sweeper.py:1062), unless
\* it met a writer, or finds them under a classification that is not theirs.
RealBarsGiveWay ==
  [][\A p \in Programs :
       (/\ run[p].at = "write" /\ run'[p].at = "finish"
        /\ IsReal(cached) /\ run[p].data.origin = "synthetic")
       => \/ disturbed \/ p \in met'
          \/ run[p].mode.kind = "pipeline" /\ ~Long(cached)
          \/ run[p].mode.kind = "download" /\ run[p].mode.fallback]_cacheVars

\* The cache never passes synthetic bars off as real ones, nor gives real
\* ones up for them otherwise.
CacheHonest == []TrustedIsReal /\ RealBarsGiveWay
===============================================================================
