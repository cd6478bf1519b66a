--------------------------- MODULE Research_proofs ---------------------------
(***************************************************************************)
(* The research side: two components that keep what they found in files    *)
(* nobody locks, the history cache and the results of the sweep, for every *)
(* number of programs, sweeps, months and experiments, and every number of *)
(* starts and deaths; the backtester, for every series of bars and         *)
(* whatever the strategy answers; the legs that the fractal strategy       *)
(* trades, for every ladder of timeframes and every feed; and what stands  *)
(* in research/promoted and in the campaign's matrix, for all candidates,  *)
(* histories and results of their backtests.                               *)
(***************************************************************************)
EXTENDS DataCache, Sweeper, Backtester, FractalStrategy, Discovery,
        FiniteSetTheorems, SequenceTheorems, WellFoundedInduction, TLAPS

(***************************************************************************)
(* DataCache.                                                              *)
(***************************************************************************)
Files == {NoFile, Torn} \cup [origin: {"real", "synthetic"}, months: SUBSET Months]

CacheRuns ==
  [at: {"idle", "look", "fetch", "classify", "write", "finish", "label"},
   mode: Modes \cup {NoFile}, todo: SUBSET Months, tries: Nat, got: SUBSET Months,
   data: Files, class: {"UNKNOWN", "REAL_VENDOR", "SYNTHETIC"}, keep: BOOLEAN]

CacheType ==
  /\ cached \in Files /\ label \in {NoFile, Torn, "REAL_VENDOR", "SYNTHETIC"}
  /\ run \in [Programs -> CacheRuns]
  /\ met \subseteq Programs /\ disturbed \in BOOLEAN

(* Bars under the classification that is theirs.                           *)
Genuine(f, class) ==
  \/ f.origin = "real" /\ class = "REAL_VENDOR"
  \/ f.origin = "synthetic" /\ class = "SYNTHETIC"

Fits(f, class) == IsBars(f) /\ class \notin {NoFile, Torn} => Genuine(f, class)

AtFiles(p) == run[p].at \in {"finish", "label"}

(* What is about to be written is classified as what it is; who writes     *)
(* nothing has no class.                                                   *)
WritesGenuine ==
  \A p \in Programs :
    IF run[p].at = "write" \/ AtFiles(p) THEN Genuine(run[p].data, run[p].class)
    ELSE run[p].class = "UNKNOWN"

(* Who met nobody is alone at the files, with its own bars in the cache.   *)
AloneAtFiles ==
  \A p \in Programs \ met : AtFiles(p) =>
    /\ \A q \in Programs \ {p} : ~AtFiles(q)
    /\ run[p].at = "label" => cached = run[p].data

(* Files that nobody writes, and whose last writer ended well, fit.        *)
RestingFit == ~disturbed /\ (\A p \in Programs : ~AtFiles(p)) => Fits(cached, label)

(* Who has read the bars and met nobody since reads their classification.  *)
ReadersFit ==
  \A p \in Programs \ met : run[p].at = "classify" =>
    /\ IsBars(run[p].data) /\ cached \in {run[p].data, Torn}
    /\ ~disturbed => Fits(run[p].data, label)

(* A pipeline that downloads found too few bars, and no bars have come     *)
(* since; whoever else is about to write synthetic bars has found none     *)
(* that are real, or may fall back.                                        *)
TooFew(p) == run[p].mode.kind = "pipeline" /\ (IsBars(cached) => ~Long(cached))
Spared ==
  \A p \in Programs \ met :
    /\ run[p].at = "fetch" /\ run[p].mode.kind = "pipeline" => TooFew(p)
    /\ run[p].at = "write" /\ run[p].data.origin = "synthetic" /\ ~disturbed =>
         \/ ~IsReal(cached) \/ TooFew(p)
         \/ run[p].mode.kind = "download" /\ run[p].mode.fallback

CacheKept ==
  CacheType /\ WritesGenuine /\ AloneAtFiles /\ RestingFit /\ ReadersFit /\ Spared

CacheInv == CacheKept /\ TrustedIsReal

-----------------------------------------------------------------------------
LEMMA CacheStarts == CacheInit => CacheInv
<1> SUFFICES ASSUME CacheInit PROVE CacheInv
  OBVIOUS
<1>1. NotRunning \in CacheRuns /\ NotRunning.at = "idle" /\ NotRunning.class = "UNKNOWN"
  BY DEF NotRunning, CacheRuns, Files
<1>2. run \in [Programs -> CacheRuns] /\ \A p \in Programs : run[p] = NotRunning
  BY <1>1 DEF CacheInit
<1>3. CacheType
  BY <1>2 DEF CacheInit, CacheType, Files
<1>4. Fits(cached, label) /\ TrustedIsReal
  BY DEF CacheInit, Fits, IsBars, TrustedIsReal
<1>5. QED
  BY <1>1, <1>2, <1>3, <1>4
  DEF CacheInv, CacheKept, WritesGenuine, AloneAtFiles, RestingFit, ReadersFit, Spared, AtFiles

(* A program goes on without writing to the files.                         *)
Quiet(p, next) ==
  /\ next \in CacheRuns /\ run' = [run EXCEPT ![p] = next]
  /\ UNCHANGED <<cached, label, disturbed>>
  /\ met' \subseteq Programs /\ met \ {p} \subseteq met'
  /\ ~AtFiles(p) /\ next.at \notin {"finish", "label"}
  /\ IF next.at = "write" THEN Genuine(next.data, next.class) ELSE next.class = "UNKNOWN"

(* What it finds there, and what it is going to do, is as it should be.    *)
Sound(p, next) ==
  p \notin met' =>
    /\ next.at = "classify" =>
         IsBars(next.data) /\ cached = next.data /\ (~disturbed => Fits(next.data, label))
    /\ next.at = "fetch" /\ next.mode.kind = "pipeline" => (IsBars(cached) => ~Long(cached))
    /\ next.at = "write" /\ next.data.origin = "synthetic" /\ ~disturbed =>
         \/ ~IsReal(cached)
         \/ next.mode.kind = "pipeline" /\ (IsBars(cached) => ~Long(cached))
         \/ next.mode.kind = "download" /\ next.mode.fallback

LEMMA QuietKeeps ==
  ASSUME CacheKept, NEW p \in Programs, NEW next, Quiet(p, next), Sound(p, next)
  PROVE  CacheKept'
<1> USE DEF CacheKept, Quiet
<1>1. run \in [Programs -> CacheRuns]
  BY DEF CacheType
<1>2. /\ run' \in [Programs -> CacheRuns] /\ run'[p] = next
      /\ \A q \in Programs \ {p} : run'[q] = run[q]
  BY <1>1
<1>3. CacheType'
  BY <1>2 DEF CacheType
<1>4. WritesGenuine'
  BY <1>2 DEF WritesGenuine, AtFiles
<1>5. AloneAtFiles'
  BY <1>2 DEF AloneAtFiles, AtFiles
<1>6. RestingFit'
  BY <1>2 DEF RestingFit, AtFiles, Fits, IsBars
<1>7. ReadersFit'
  BY <1>2 DEF ReadersFit, Sound, Fits, IsBars
<1>8. Spared'
  BY <1>2 DEF Spared, Sound, TooFew, IsReal, IsBars, Long
<1>9. QED
  BY <1>3, <1>4, <1>5, <1>6, <1>7, <1>8

LEMMA TouchIsQuiet ==
  ASSUME CacheKept, NEW p \in Programs, NEW next, Touch(p, next), ~AtFiles(p),
         UNCHANGED <<cached, label, disturbed>>,
         next \in CacheRuns, next.at \notin {"finish", "label"},
         IF next.at = "write" THEN Genuine(next.data, next.class) ELSE next.class = "UNKNOWN"
  PROVE  Quiet(p, next)
BY DEF Quiet, Touch, Others, CacheKept, CacheType

(* Who meets nobody at the files finds them resting.                       *)
LEMMA MetNobody ==
  ASSUME CacheKept, NEW p \in Programs, NEW next, Touch(p, next), p \notin met', ~AtFiles(p)
  PROVE  p \notin met /\ (~disturbed => Fits(cached, label))
<1>1. p \notin met /\ Others(p) = {}
  BY DEF Touch
<1>2. \A q \in Programs : ~AtFiles(q)
  BY <1>1 DEF Others, Within, AtFiles
<1>3. QED
  BY <1>1, <1>2 DEF CacheKept, RestingFit

LEMMA RunTyped ==
  ASSUME CacheKept, NEW p \in Programs
  PROVE  /\ run[p] \in CacheRuns /\ cached \in Files
         /\ run[p].at \in {"idle", "look", "fetch", "classify"} => run[p].class = "UNKNOWN"
BY DEF CacheKept, CacheType, WritesGenuine, AtFiles

LEMMA NotRunningTyped ==
  NotRunning \in CacheRuns /\ NotRunning.at = "idle" /\ NotRunning.class = "UNKNOWN"
BY DEF NotRunning, CacheRuns, Files

LEMMA StopKeeps ==
  ASSUME CacheKept, NEW p \in Programs, Touch(p, NotRunning), ~AtFiles(p),
         UNCHANGED <<cached, label, disturbed>>
  PROVE  CacheKept'
<1>1. Quiet(p, NotRunning)
  BY NotRunningTyped, TouchIsQuiet
<1>2. Sound(p, NotRunning)
  BY NotRunningTyped DEF Sound
<1>3. QED
  BY <1>1, <1>2, QuietKeeps

(* Bars to write have their class.                                         *)
LEMMA WritingTyped ==
  ASSUME NEW r \in CacheRuns, NEW months \in SUBSET Months, NEW keep \in BOOLEAN
  PROVE  LET real == Writing(r, Real(months), "REAL_VENDOR", keep)
             made == Writing(r, Synthetic, "SYNTHETIC", keep)
         IN /\ real \in CacheRuns /\ real.at = "write" /\ real.mode = r.mode
            /\ real.data.origin = "real" /\ Genuine(real.data, real.class)
            /\ made \in CacheRuns /\ made.at = "write" /\ made.mode = r.mode
            /\ made.data.origin = "synthetic" /\ Genuine(made.data, made.class)
BY DEF Writing, Real, Synthetic, CacheRuns, Files, Genuine

LEMMA GenerateKeeps ==
  ASSUME CacheKept, NEW p \in Programs, Generate(p, TRUE), ~AtFiles(p),
         UNCHANGED <<cached, label, disturbed>>,
         p \notin met' /\ ~disturbed =>
           \/ ~IsReal(cached) \/ TooFew(p)
           \/ run[p].mode.kind = "download" /\ run[p].mode.fallback
  PROVE  CacheKept'
<1> DEFINE next == Writing(run[p], Synthetic, "SYNTHETIC", TRUE)
<1>1. /\ next \in CacheRuns /\ next.at = "write" /\ next.mode = run[p].mode
      /\ next.data.origin = "synthetic" /\ Genuine(next.data, next.class)
  BY RunTyped, WritingTyped
<1>2. Touch(p, next)
  BY DEF Generate
<1> HIDE DEF next
<1>3. Quiet(p, next)
  BY <1>1, <1>2, TouchIsQuiet
<1>4. Sound(p, next)
  BY <1>1 DEF Sound, TooFew
<1>5. QED
  BY <1>3, <1>4, QuietKeeps

LEMMA StartKeeps == ASSUME CacheKept, NEW p \in Programs, Start(p) PROVE CacheKept'
<1>1. PICK mode \in Modes :
        run' = [run EXCEPT ![p] = [NotRunning EXCEPT !.mode = mode,
                 !.at = IF mode.kind \in {"download", "histdata"} THEN "fetch" ELSE "look",
                 !.todo = IF mode.kind \in {"download", "histdata"} THEN Months ELSE {}]]
  BY DEF Start
<1> DEFINE next == [NotRunning EXCEPT !.mode = mode,
                 !.at = IF mode.kind \in {"download", "histdata"} THEN "fetch" ELSE "look",
                 !.todo = IF mode.kind \in {"download", "histdata"} THEN Months ELSE {}]
<1>2. next \in CacheRuns /\ next.class = "UNKNOWN" /\ next.mode = mode
      /\ next.at = IF mode.kind \in {"download", "histdata"} THEN "fetch" ELSE "look"
  BY DEF NotRunning, CacheRuns, Files
<1>3. run' = [run EXCEPT ![p] = next]
  BY <1>1
<1> HIDE DEF next
<1>4. Quiet(p, next)
  BY <1>2, <1>3 DEF Quiet, Start, AtFiles, CacheKept, CacheType
<1>5. Sound(p, next)
  BY <1>2 DEF Sound
<1>6. QED
  BY <1>4, <1>5, QuietKeeps

LEMMA PipelineLookKeeps == ASSUME CacheKept, NEW p \in Programs, PipelineLook(p) PROVE CacheKept'
<1> USE DEF PipelineLook
<1>1. run[p] \in CacheRuns /\ cached \in Files /\ run[p].class = "UNKNOWN" /\ ~AtFiles(p)
  BY RunTyped DEF AtFiles
<1>2. CASE IsBars(cached) /\ Long(cached)
  <2> DEFINE next == [run[p] EXCEPT !.at = "classify", !.data = cached]
  <2>1. next \in CacheRuns /\ next.at = "classify" /\ next.class = "UNKNOWN" /\ next.data = cached
    BY <1>1 DEF CacheRuns
  <2>2. Touch(p, next)
    BY <1>2
  <2> HIDE DEF next
  <2>3. Quiet(p, next)
    BY <1>1, <2>1, <2>2, TouchIsQuiet
  <2>4. Sound(p, next)
    BY <1>1, <1>2, <2>1, <2>2, MetNobody DEF Sound
  <2>5. QED
    BY <2>3, <2>4, QuietKeeps
<1>3. CASE ~(IsBars(cached) /\ Long(cached))
  <2> DEFINE next == [run[p] EXCEPT !.at = "fetch", !.todo = Months]
  <2>1. next \in CacheRuns /\ next.at = "fetch" /\ next.class = "UNKNOWN"
    BY <1>1 DEF CacheRuns
  <2>2. Touch(p, next)
    BY <1>3
  <2> HIDE DEF next
  <2>3. Quiet(p, next)
    BY <1>1, <2>1, <2>2, TouchIsQuiet
  <2>4. Sound(p, next)
    BY <1>3, <2>1 DEF Sound
  <2>5. QED
    BY <2>3, <2>4, QuietKeeps
<1>4. QED
  BY <1>2, <1>3

LEMMA SweepLookKeeps == ASSUME CacheKept, NEW p \in Programs, SweepLook(p) PROVE CacheKept'
<1> USE DEF SweepLook
<1>1. run[p] \in CacheRuns /\ cached \in Files /\ run[p].class = "UNKNOWN" /\ ~AtFiles(p)
  BY RunTyped DEF AtFiles
<1>2. CASE IsBars(cached)
  <2> DEFINE next == [run[p] EXCEPT !.at = "classify", !.data = cached]
  <2>1. next \in CacheRuns /\ next.at = "classify" /\ next.class = "UNKNOWN" /\ next.data = cached
    BY <1>1 DEF CacheRuns
  <2>2. Touch(p, next)
    BY <1>2
  <2> HIDE DEF next
  <2>3. Quiet(p, next)
    BY <1>1, <2>1, <2>2, TouchIsQuiet
  <2>4. Sound(p, next)
    BY <1>1, <1>2, <2>1, <2>2, MetNobody DEF Sound
  <2>5. QED
    BY <2>3, <2>4, QuietKeeps
<1>3. CASE ~IsBars(cached) /\ Generate(p, TRUE)
  BY <1>1, <1>3, GenerateKeeps DEF IsReal
<1>4. CASE Touch(p, NotRunning)
  BY <1>1, <1>4, StopKeeps
<1>5. QED
  BY <1>2, <1>3, <1>4 DEF GenerateIfAllowed

LEMMA FetchOrLoadKeeps == ASSUME CacheKept, NEW p \in Programs, FetchOrLoad(p) PROVE CacheKept'
<1>1. ~AtFiles(p) /\ UNCHANGED <<cached, label, disturbed>>
  BY DEF FetchOrLoad, AtFiles
<1>2. CASE cached = NoFile /\ Generate(p, TRUE)
  BY <1>1, <1>2, GenerateKeeps DEF IsReal, IsBars
<1>3. CASE Touch(p, NotRunning)
  BY <1>1, <1>3, StopKeeps
<1>4. QED
  BY <1>2, <1>3 DEF FetchOrLoad

LEMMA ReadLabelKeeps == ASSUME CacheKept, NEW p \in Programs, ReadLabel(p) PROVE CacheKept'
<1>1. ~AtFiles(p) /\ UNCHANGED <<cached, label, disturbed>>
  BY DEF ReadLabel, AtFiles
<1>2. CASE Touch(p, NotRunning)
  BY <1>1, <1>2, StopKeeps
<1>3. CASE Generate(p, TRUE) /\ [run[p] EXCEPT !.class = Classification].class = "SYNTHETIC"
  <2>1. run[p] \in CacheRuns /\ Classification = "SYNTHETIC"
    BY <1>3, RunTyped DEF CacheRuns
  <2>2. label \notin {NoFile, Torn} /\ label = "SYNTHETIC"
    BY <2>1 DEF Classification
  <2>3. ASSUME p \notin met', ~disturbed PROVE ~IsReal(cached)
    <3>1. p \notin met
      BY <1>3, <2>3 DEF Generate, Touch
    <3>2. IsBars(run[p].data) /\ cached \in {run[p].data, Torn} /\ Fits(run[p].data, label)
      BY <2>3, <3>1 DEF CacheKept, ReadersFit, ReadLabel
    <3>3. QED
      BY <2>2, <3>2 DEF Fits, Genuine, IsReal, IsBars
  <2>4. QED
    BY <1>1, <1>3, <2>3, GenerateKeeps
<1>4. QED
  BY <1>2, <1>3 DEF ReadLabel, GenerateIfAllowed

(* A step of a download, which touches no file.                            *)
LEMMA FetchKeeps ==
  ASSUME CacheKept, NEW p \in Programs, NEW next, Step(p, next),
         run[p].at = "fetch", next \in CacheRuns, next.at = "fetch",
         next.mode = run[p].mode, next.class = run[p].class
  PROVE  CacheKept'
<1>1. run[p].class = "UNKNOWN"
  BY RunTyped
<1>2. Quiet(p, next)
  BY <1>1 DEF Quiet, Step, AtFiles, CacheKept, CacheType
<1>3. Sound(p, next)
  BY DEF Sound, Step, CacheKept, Spared, TooFew
<1>4. QED
  BY <1>2, <1>3, QuietKeeps

(* Every set of natural numbers has a least element.                       *)
LEMMA LeastNumber ==
  ASSUME NEW T \in SUBSET Nat, T # {}
  PROVE  \E least \in T : \A other \in T : least <= other
<1>1. IsWellFoundedOn(OpToRel(<, Nat), Nat)
  BY NatLessThanWellFounded
<1>2. PICK least \in T : \A other \in T : <<other, least>> \notin OpToRel(<, Nat)
  BY <1>1, WFMin
<1>3. \A other \in T : ~(other < least)
  BY <1>2 DEF OpToRel
<1>4. QED
  BY <1>3

LEMMA DownloadFileKeeps == ASSUME CacheKept, NEW p \in Programs, DownloadFile(p) PROVE CacheKept'
<1>1. run[p] \in CacheRuns /\ run[p].at = "fetch" /\ run[p].todo # {}
  BY RunTyped DEF DownloadFile, Fetching
<1> DEFINE m == CHOOSE m \in run[p].todo : \A o \in run[p].todo : m <= o
           done == [run[p] EXCEPT !.todo = @ \ {m}, !.tries = 0]
           got == [done EXCEPT !.got = @ \cup {m}]
           again == [run[p] EXCEPT !.tries = @ + 1]
<1>2. \/ Step(p, got) \/ Step(p, done)
      \/ Step(p, IF run[p].mode.kind = "download" /\ run[p].tries + 1 < Tries THEN again ELSE done)
  BY DEF DownloadFile
<1>3. done \in CacheRuns /\ done.at = "fetch" /\ done.mode = run[p].mode /\ done.class = run[p].class
  BY <1>1 DEF CacheRuns
<1>4. again \in CacheRuns /\ again.at = "fetch" /\ again.mode = run[p].mode /\ again.class = run[p].class
  BY <1>1 DEF CacheRuns
<1>5. CASE Step(p, done)
  BY <1>1, <1>3, <1>5, FetchKeeps
<1>6. CASE Step(p, again)
  BY <1>1, <1>4, <1>6, FetchKeeps
<1>7. CASE Step(p, got)
  <2>1. run[p].todo \in SUBSET Nat
    BY <1>1, CacheAssumption DEF CacheRuns
  <2>2. m \in run[p].todo
    BY <1>1, <2>1, LeastNumber
  <2>3. got \in CacheRuns /\ got.at = "fetch" /\ got.mode = run[p].mode /\ got.class = run[p].class
    BY <1>1, <1>3, <2>2, ZenonT(40) DEF CacheRuns
  <2>4. QED
    BY <1>1, <1>7, <2>3, FetchKeeps
<1>8. QED
  BY <1>2, <1>5, <1>6, <1>7

LEMMA DownloadMonthKeeps == ASSUME CacheKept, NEW p \in Programs, DownloadMonth(p) PROVE CacheKept'
<1>1. run[p] \in CacheRuns /\ run[p].at = "fetch" /\ run[p].todo # {} /\ run[p].mode.kind = "histdata"
  BY RunTyped DEF DownloadMonth, Fetching
<1> DEFINE m == CHOOSE m \in run[p].todo : \A o \in run[p].todo : m <= o
           done == [run[p] EXCEPT !.todo = @ \ {m}]
           got == [done EXCEPT !.got = @ \cup {m}]
<1>2. run[p].todo \in SUBSET Nat
  BY <1>1, CacheAssumption DEF CacheRuns
<1>3. m \in run[p].todo
  BY <1>1, <1>2, LeastNumber
<1>4. /\ done \in CacheRuns /\ done.at = "fetch" /\ done.mode = run[p].mode /\ done.class = run[p].class
      /\ got \in CacheRuns /\ got.at = "fetch" /\ got.mode = run[p].mode /\ got.class = run[p].class
  BY <1>1, <1>3 DEF CacheRuns
<1>5. CASE Step(p, done)
  BY <1>1, <1>4, <1>5, FetchKeeps
<1>6. CASE run' = [run EXCEPT ![p] = got] /\ UNCHANGED <<cached, label, met, disturbed>>
  <2>1. Quiet(p, got)
    BY <1>1, <1>4, <1>6, RunTyped DEF Quiet, AtFiles, CacheKept, CacheType
  <2>2. Sound(p, got)
    BY <1>1, <1>4 DEF Sound
  <2>3. QED
    BY <2>1, <2>2, QuietKeeps
<1>7. QED
  BY <1>5, <1>6 DEF DownloadMonth

(* What is about to be written, once it is real, concerns no real bars.    *)
LEMMA WriteRealKeeps ==
  ASSUME CacheKept, NEW p \in Programs, NEW months \in SUBSET Months,
         run[p].at = "fetch", UNCHANGED <<cached, label, disturbed>>,
         Touch(p, Writing(run[p], Real(months), "REAL_VENDOR", TRUE))
  PROVE  CacheKept'
<1> DEFINE next == Writing(run[p], Real(months), "REAL_VENDOR", TRUE)
<1>1. /\ next \in CacheRuns /\ next.at = "write" /\ next.data.origin = "real"
      /\ Genuine(next.data, next.class)
  BY RunTyped, WritingTyped
<1>2. Touch(p, next) /\ ~AtFiles(p)
  BY DEF AtFiles
<1> HIDE DEF next
<1>3. Quiet(p, next)
  BY <1>1, <1>2, TouchIsQuiet
<1>4. Sound(p, next)
  BY <1>1 DEF Sound
<1>5. QED
  BY <1>3, <1>4, QuietKeeps

LEMMA AggregateKeeps == ASSUME CacheKept, NEW p \in Programs, AggregateArchives(p) PROVE CacheKept'
<1>1. run[p].at = "fetch" /\ ~AtFiles(p) /\ UNCHANGED <<cached, label, disturbed>>
  BY DEF AggregateArchives, Fetching, AtFiles
<1>2. PICK usable \in SUBSET run[p].got :
        Touch(p, IF usable = {} THEN NotRunning
                 ELSE Writing(run[p], Real(usable), "REAL_VENDOR", TRUE))
  BY DEF AggregateArchives
<1>3. usable \in SUBSET Months
  BY RunTyped DEF CacheRuns
<1>4. CASE usable = {}
  BY <1>1, <1>2, <1>4, StopKeeps
<1>5. CASE usable # {}
  BY <1>1, <1>2, <1>3, <1>5, WriteRealKeeps
<1>6. QED
  BY <1>4, <1>5

LEMMA ProcessFilesKeeps == ASSUME CacheKept, NEW p \in Programs, ProcessFiles(p) PROVE CacheKept'
<1>1. /\ run[p].at = "fetch" /\ run[p].mode.kind \in {"download", "pipeline"}
      /\ ~AtFiles(p) /\ UNCHANGED <<cached, label, disturbed>>
  BY DEF ProcessFiles, Fetching, AtFiles
<1>2. PICK parsed \in SUBSET run[p].got :
        CASE parsed # {} ->
               Touch(p, Writing(run[p], Real(parsed), "REAL_VENDOR", TRUE)) /\ UNCHANGED served
          [] parsed = {} /\ run[p].mode.kind = "pipeline" -> Generate(p, TRUE) /\ UNCHANGED served
          [] parsed = {} /\ run[p].mode.kind = "download" /\ ~run[p].mode.fallback ->
               Touch(p, NotRunning) /\ UNCHANGED served
          [] OTHER ->
               IF run[p].got = {}
               THEN Touch(p, NotRunning) /\ served' = Hand(p, [run[p] EXCEPT !.data = Synthetic])
               ELSE Generate(p, TRUE) /\ UNCHANGED served
  BY DEF ProcessFiles
<1>3. parsed \in SUBSET Months
  BY RunTyped DEF CacheRuns
<1>4. CASE parsed # {}
  BY <1>1, <1>2, <1>3, <1>4, WriteRealKeeps
<1>5. CASE Generate(p, TRUE) /\ run[p].mode.kind = "pipeline"
  <2>1. p \notin met' => TooFew(p)
    BY <1>1, <1>5 DEF Generate, Touch, CacheKept, Spared
  <2>2. QED
    BY <1>1, <1>5, <2>1, GenerateKeeps
<1>6. CASE Generate(p, TRUE) /\ run[p].mode.kind = "download" /\ run[p].mode.fallback
  BY <1>1, <1>6, GenerateKeeps
<1>7. CASE Touch(p, NotRunning)
  BY <1>1, <1>7, StopKeeps
<1>8. CASE parsed = {}
  BY <1>1, <1>2, <1>5, <1>6, <1>7, <1>8
<1>9. QED
  BY <1>4, <1>8

(* A program rewrites a file, or leaves it.                                *)
LEMMA FilesTyped ==
  ASSUME CacheKept, NEW p \in Programs, NEW next \in CacheRuns, Touch(p, next)
  PROVE  /\ run' \in [Programs -> CacheRuns] /\ run'[p] = next
         /\ \A q \in Programs \ {p} : run'[q] = run[q]
         /\ met' \subseteq Programs /\ Others(p) \subseteq met' /\ met \subseteq met'
         /\ p \notin met' => Others(p) = {}
BY DEF Touch, Others, CacheKept, CacheType

LEMMA TruncateKeeps == ASSUME CacheKept, NEW p \in Programs, Truncate(p) PROVE CacheKept'
<1> DEFINE next == [run[p] EXCEPT !.at = "finish"]
<1>1. /\ run[p] \in CacheRuns /\ next \in CacheRuns /\ next.at = "finish" /\ run[p].at = "write"
      /\ next.data = run[p].data /\ next.class = run[p].class
  BY RunTyped DEF CacheRuns, Truncate
<1>2. /\ Touch(p, next)
      /\ cached' = Torn /\ UNCHANGED <<label, disturbed>>
  BY DEF Truncate
<1>3. /\ run' \in [Programs -> CacheRuns] /\ run'[p] = next
      /\ \A q \in Programs \ {p} : run'[q] = run[q]
      /\ met' \subseteq Programs /\ Others(p) \subseteq met' /\ met \subseteq met'
      /\ p \notin met' => Others(p) = {}
  BY <1>1, <1>2, FilesTyped
<1> HIDE DEF next
<1>4. \A q \in Programs \ {p} : AtFiles(q) => q \in Others(p)
  BY DEF Others, Within, AtFiles
<1>5. CacheType'
  BY <1>2, <1>3 DEF CacheKept, CacheType, Files
<1>6. WritesGenuine'
  BY <1>1, <1>3 DEF CacheKept, WritesGenuine, AtFiles
<1>7. AloneAtFiles'
  BY <1>1, <1>3, <1>4 DEF AloneAtFiles, AtFiles
<1>8. RestingFit' /\ ReadersFit'
  BY <1>1, <1>2, <1>3 DEF CacheKept, RestingFit, ReadersFit, AtFiles, Fits, IsBars
<1>9. Spared'
  BY <1>1, <1>2, <1>3 DEF CacheKept, Spared, TooFew, IsReal, IsBars
<1>10. QED
  BY <1>5, <1>6, <1>7, <1>8, <1>9 DEF CacheKept

LEMMA FinishBarsKeeps == ASSUME CacheKept, NEW p \in Programs, FinishBars(p) PROVE CacheKept'
<1> DEFINE next == [run[p] EXCEPT !.at = "label"]
<1>1. /\ run[p] \in CacheRuns /\ next \in CacheRuns /\ next.at = "label" /\ run[p].at = "finish"
      /\ next.data = run[p].data /\ next.class = run[p].class
  BY RunTyped DEF CacheRuns, FinishBars
<1>2. /\ Touch(p, next) /\ UNCHANGED <<label, disturbed>>
      /\ \/ cached' = run[p].data
         \/ cached' = Torn /\ \E q \in Programs \ {p} : run[q].at = "finish"
  BY DEF FinishBars
<1>3. /\ run' \in [Programs -> CacheRuns] /\ run'[p] = next
      /\ \A q \in Programs \ {p} : run'[q] = run[q]
      /\ met' \subseteq Programs /\ Others(p) \subseteq met' /\ met \subseteq met'
      /\ p \notin met' => Others(p) = {}
  BY <1>1, <1>2, FilesTyped
<1> HIDE DEF next
<1>4. \A q \in Programs \ {p} : Within(q) => q \in Others(p)
  BY <1>1 DEF Others
<1>5. CacheType'
  BY <1>1, <1>2, <1>3 DEF CacheKept, CacheType, Files, CacheRuns
<1>6. WritesGenuine'
  BY <1>1, <1>3 DEF CacheKept, WritesGenuine, AtFiles
<1>7. AloneAtFiles'
  BY <1>1, <1>2, <1>3, <1>4 DEF AloneAtFiles, AtFiles, Within
<1>8. RestingFit' /\ ReadersFit' /\ Spared'
  BY <1>1, <1>3, <1>4 DEF RestingFit, ReadersFit, Spared, AtFiles, Within
<1>9. QED
  BY <1>5, <1>6, <1>7, <1>8 DEF CacheKept

LEMMA WriteLabelKeeps == ASSUME CacheKept, NEW p \in Programs, WriteLabel(p) PROVE CacheKept'
<1>1. /\ run[p] \in CacheRuns /\ run[p].at = "label" /\ AtFiles(p)
      /\ Genuine(run[p].data, run[p].class)
      /\ run[p].class \in {"REAL_VENDOR", "SYNTHETIC"}
  BY RunTyped DEF WriteLabel, AtFiles, CacheKept, WritesGenuine, Genuine
<1>2. /\ Touch(p, NotRunning) /\ UNCHANGED cached
      /\ label' = run[p].class /\ disturbed' = (p \in met')
  BY DEF WriteLabel
<1>3. /\ run' \in [Programs -> CacheRuns] /\ run'[p] = NotRunning
      /\ \A q \in Programs \ {p} : run'[q] = run[q]
      /\ met' \subseteq Programs /\ Others(p) \subseteq met' /\ met \subseteq met'
      /\ p \notin met' => Others(p) = {}
  BY <1>2, NotRunningTyped, FilesTyped
<1>4. \A q \in Programs \ {p} : Within(q) => q \in Others(p)
  BY <1>1 DEF Others
<1>5. CacheType'
  BY <1>1, <1>2, <1>3 DEF CacheKept, CacheType
<1>6. WritesGenuine'
  BY <1>3, NotRunningTyped DEF CacheKept, WritesGenuine, AtFiles
<1>7. AloneAtFiles' /\ ReadersFit' /\ Spared'
  BY <1>3, <1>4, NotRunningTyped DEF AloneAtFiles, ReadersFit, Spared, AtFiles, Within
<1>8. RestingFit'
  <2>1. p \notin met' => cached = run[p].data
    BY <1>1, <1>3 DEF CacheKept, AloneAtFiles
  <2>2. QED
    BY <1>1, <1>2, <2>1 DEF RestingFit, Fits
<1>9. QED
  BY <1>5, <1>6, <1>7, <1>8 DEF CacheKept

LEMMA ProgramDiesKeeps == ASSUME CacheKept, NEW p \in Programs, ProgramDies(p) PROVE CacheKept'
<1>1. /\ run' \in [Programs -> CacheRuns] /\ run'[p] = NotRunning
      /\ \A q \in Programs \ {p} : run'[q] = run[q]
  BY NotRunningTyped DEF ProgramDies, CacheKept, CacheType
<1>2. /\ UNCHANGED <<cached, met>> /\ disturbed' = (disturbed \/ AtFiles(p))
      /\ label' = label \/ (label' = Torn /\ AtFiles(p))
  BY DEF ProgramDies, AtFiles
<1>3. CacheType'
  BY <1>1, <1>2 DEF CacheKept, CacheType, AtFiles
<1>4. WritesGenuine' /\ AloneAtFiles'
  BY <1>1, <1>2, NotRunningTyped DEF CacheKept, WritesGenuine, AloneAtFiles, AtFiles
<1>5. RestingFit' /\ ReadersFit'
  BY <1>1, <1>2, NotRunningTyped DEF CacheKept, RestingFit, ReadersFit, AtFiles, Fits, IsBars
<1>6. Spared'
  BY <1>1, <1>2, NotRunningTyped, ZenonT(40) DEF CacheKept, Spared, TooFew, IsReal, IsBars, Long
<1>7. QED
  BY <1>3, <1>4, <1>5, <1>6 DEF CacheKept

LEMMA CacheStepKeeps == CacheKept /\ [CacheNext]_cacheVars => CacheKept'
<1> SUFFICES ASSUME CacheKept, [CacheNext]_cacheVars PROVE CacheKept'
  OBVIOUS
<1>1. ASSUME NEW p \in Programs, Start(p) PROVE CacheKept'
  BY <1>1, StartKeeps
<1>2. ASSUME NEW p \in Programs, PipelineLook(p) PROVE CacheKept'
  BY <1>2, PipelineLookKeeps
<1>3. ASSUME NEW p \in Programs, SweepLook(p) PROVE CacheKept'
  BY <1>3, SweepLookKeeps
<1>4. ASSUME NEW p \in Programs, FetchOrLoad(p) PROVE CacheKept'
  BY <1>4, FetchOrLoadKeeps
<1>5. ASSUME NEW p \in Programs, ReadLabel(p) PROVE CacheKept'
  BY <1>5, ReadLabelKeeps
<1>6. ASSUME NEW p \in Programs, DownloadFile(p) PROVE CacheKept'
  BY <1>6, DownloadFileKeeps
<1>7. ASSUME NEW p \in Programs, ProcessFiles(p) PROVE CacheKept'
  BY <1>7, ProcessFilesKeeps
<1>8. ASSUME NEW p \in Programs, DownloadMonth(p) PROVE CacheKept'
  BY <1>8, DownloadMonthKeeps
<1>9. ASSUME NEW p \in Programs, AggregateArchives(p) PROVE CacheKept'
  BY <1>9, AggregateKeeps
<1>10. ASSUME NEW p \in Programs, Truncate(p) PROVE CacheKept'
  BY <1>10, TruncateKeeps
<1>11. ASSUME NEW p \in Programs, FinishBars(p) PROVE CacheKept'
  BY <1>11, FinishBarsKeeps
<1>12. ASSUME NEW p \in Programs, WriteLabel(p) PROVE CacheKept'
  BY <1>12, WriteLabelKeeps
<1>13. ASSUME NEW p \in Programs, ProgramDies(p) PROVE CacheKept'
  BY <1>13, ProgramDiesKeeps
<1>14. CASE UNCHANGED cacheVars
  BY <1>14 DEF cacheVars, CacheKept, CacheType, WritesGenuine, AloneAtFiles, RestingFit, ReadersFit,
     Spared, TooFew, AtFiles, Fits, IsReal, IsBars, Long
<1>15. QED
  BY <1>1, <1>2, <1>3, <1>4, <1>5, <1>6, <1>7, <1>8, <1>9, <1>10, <1>11, <1>12, <1>13, <1>14
  DEF CacheNext

(* What is handed to research as real is real.                             *)
LEMMA HandsReal ==
  ASSUME CacheKept, TrustedIsReal, NEW p \in Programs, CacheNext
  PROVE  TrustedIsReal'
<1>1. CASE UNCHANGED served \/ served' = {}
  BY <1>1 DEF TrustedIsReal
<1>2. ASSUME NEW q \in Programs, NEW r, served' = Hand(q, r),
             ~disturbed' /\ q \notin met' /\ r.class \in Qualifying => r.data.origin = "real"
      PROVE  TrustedIsReal'
  <2> SUFFICES ASSUME NEW d \in served', d.sound, d.class \in Qualifying
               PROVE  d.data.origin = "real"
    BY DEF TrustedIsReal
  <2>1. d = [data |-> r.data, class |-> r.class, sound |-> ~disturbed' /\ q \notin met']
    BY <1>2 DEF Hand
  <2>2. d.data = r.data /\ d.class = r.class
    BY <2>1
  <2>3. d.sound = (~disturbed' /\ q \notin met')
    BY <2>1
  <2>4. ~disturbed' /\ q \notin met'
    BY <2>3
  <2>5. QED
    BY <1>2, <2>2, <2>4
<1>3. ASSUME NEW q \in Programs, FetchOrLoad(q) PROVE TrustedIsReal'
  <2>1. \/ UNCHANGED served
        \/ served' = Hand(q, [run[q] EXCEPT !.data = cached])
    BY <1>3 DEF FetchOrLoad
  <2>2. [run[q] EXCEPT !.data = cached].class = "UNKNOWN"
    BY <1>3, RunTyped DEF FetchOrLoad, CacheRuns
  <2>3. QED
    BY <1>1, <1>2, <2>1, <2>2 DEF Qualifying
<1>4. ASSUME NEW q \in Programs, ProcessFiles(q) PROVE TrustedIsReal'
  <2>1. \/ UNCHANGED served
        \/ served' = Hand(q, [run[q] EXCEPT !.data = Synthetic])
    BY <1>4 DEF ProcessFiles
  <2>2. [run[q] EXCEPT !.data = Synthetic].class = "UNKNOWN"
    BY <1>4, RunTyped DEF ProcessFiles, Fetching, CacheRuns
  <2>3. QED
    BY <1>1, <1>2, <2>1, <2>2 DEF Qualifying
<1>5. ASSUME NEW q \in Programs, WriteLabel(q) PROVE TrustedIsReal'
  <2>1. UNCHANGED served \/ served' = Hand(q, run[q])
    BY <1>5 DEF WriteLabel
  <2>2. Genuine(run[q].data, run[q].class)
    BY <1>5 DEF WriteLabel, CacheKept, WritesGenuine, AtFiles
  <2>3. QED
    BY <1>1, <1>2, <2>1, <2>2 DEF Qualifying, Genuine
<1>6. ASSUME NEW q \in Programs, ReadLabel(q) PROVE TrustedIsReal'
  <2> DEFINE r == [run[q] EXCEPT !.class = Classification]
  <2>1. UNCHANGED served \/ (served' = Hand(q, r) /\ Touch(q, NotRunning))
    BY <1>6 DEF ReadLabel
  <2>2. r.class = Classification /\ r.data = run[q].data
    BY RunTyped DEF CacheRuns
  <2>3. CASE served' = Hand(q, r) /\ Touch(q, NotRunning)
    <3> HIDE DEF r
    <3>1. ASSUME ~disturbed', q \notin met', r.class \in Qualifying PROVE r.data.origin = "real"
      <4>1. ~disturbed /\ q \notin met
        BY <1>6, <2>3, <3>1 DEF ReadLabel, Touch
      <4>2. IsBars(run[q].data) /\ Fits(run[q].data, label)
        BY <1>6, <4>1 DEF ReadLabel, CacheKept, ReadersFit
      <4>3. label \notin {NoFile, Torn} /\ label = "REAL_VENDOR"
        BY <2>2, <3>1 DEF Classification, Qualifying
      <4>4. QED
        BY <2>2, <4>2, <4>3 DEF Fits, Genuine
    <3>2. QED
      BY <1>2, <2>3, <3>1
  <2>4. QED
    BY <1>1, <2>1, <2>3
<1>7. QED
  <2>1. PICK q \in Programs :
          \/ Start(q) \/ PipelineLook(q) \/ SweepLook(q) \/ FetchOrLoad(q) \/ ReadLabel(q)
          \/ DownloadFile(q) \/ ProcessFiles(q) \/ DownloadMonth(q) \/ AggregateArchives(q)
          \/ Truncate(q) \/ FinishBars(q) \/ WriteLabel(q) \/ ProgramDies(q)
    BY DEF CacheNext
  <2>2. CASE \/ Start(q) \/ PipelineLook(q) \/ SweepLook(q) \/ DownloadFile(q)
             \/ DownloadMonth(q) \/ AggregateArchives(q) \/ Truncate(q) \/ FinishBars(q)
             \/ ProgramDies(q)
    BY <1>1, <2>2 DEF Start, PipelineLook, SweepLook, DownloadFile, DownloadMonth, Step,
       AggregateArchives, Truncate, FinishBars, ProgramDies
  <2>3. QED
    BY <1>3, <1>4, <1>5, <1>6, <2>1, <2>2

GivesWay ==
  \A p \in Programs :
    (/\ run[p].at = "write" /\ run'[p].at = "finish"
     /\ IsReal(cached) /\ run[p].data.origin = "synthetic")
    => \/ disturbed \/ p \in met'
       \/ run[p].mode.kind = "pipeline" /\ ~Long(cached)
       \/ run[p].mode.kind = "download" /\ run[p].mode.fallback

(* Whoever truncates real bars for synthetic ones was allowed to, or met a *)
(* writer; nobody else goes from "write" to "finish".                      *)
LEMMA BarsGiveWay == CacheKept /\ [CacheNext]_cacheVars => GivesWay
<1> SUFFICES ASSUME CacheKept, [CacheNext]_cacheVars, NEW p \in Programs,
                    run[p].at = "write", run'[p].at = "finish", IsReal(cached),
                    run[p].data.origin = "synthetic", ~disturbed, p \notin met'
             PROVE  \/ run[p].mode.kind = "pipeline" /\ ~Long(cached)
                    \/ run[p].mode.kind = "download" /\ run[p].mode.fallback
  BY DEF GivesWay
<1>1. p \notin met
  <2>1. CASE UNCHANGED met
    BY <2>1
  <2>2. CASE met \subseteq met'
    BY <2>2
  <2>3. ASSUME NEW q \in Programs, Start(q) PROVE p \notin met
    <3>1. q # p
      BY <2>3 DEF Start
    <3>2. QED
      BY <2>3, <3>1 DEF Start
  <2>4. UNCHANGED met \/ met \subseteq met' \/ \E q \in Programs : Start(q)
    BY ZenonT(40) DEF CacheNext, cacheVars, PipelineLook, SweepLook, FetchOrLoad, ReadLabel, DownloadFile,
       ProcessFiles, DownloadMonth, AggregateArchives, Truncate, FinishBars, WriteLabel,
       ProgramDies, Touch, Step, Generate, GenerateIfAllowed
  <2>5. QED
    BY <2>1, <2>2, <2>3, <2>4
<1>2. ~IsReal(cached) \/ TooFew(p) \/ (run[p].mode.kind = "download" /\ run[p].mode.fallback)
  BY <1>1 DEF CacheKept, Spared
<1>3. QED
  BY <1>2 DEF TooFew, IsReal

(* The cache never passes synthetic bars off as real ones, nor gives real  *)
(* ones up for them except where a program is meant to, for every number   *)
(* of programs that start, meet and die at its files.                      *)
THEOREM CacheIsHonest == CacheSpec => CacheHonest
<1>1. CacheInit => CacheInv
  BY CacheStarts
<1>2. CacheInv /\ [CacheNext]_cacheVars => CacheInv'
  <2> SUFFICES ASSUME CacheInv, [CacheNext]_cacheVars PROVE CacheInv'
    OBVIOUS
  <2>1. CacheKept'
    BY CacheStepKeeps DEF CacheInv
  <2>2. CASE UNCHANGED cacheVars
    BY <2>1, <2>2 DEF cacheVars, CacheInv, TrustedIsReal
  <2>3. CASE CacheNext
    <3>1. PICK p \in Programs : TRUE
      BY <2>3 DEF CacheNext
    <3>2. QED
      BY <2>1, <2>3, <3>1, HandsReal DEF CacheInv
  <2>4. QED
    BY <2>2, <2>3
<1>3. CacheInv => TrustedIsReal
  BY DEF CacheInv
<1>4. CacheInv /\ [CacheNext]_cacheVars => GivesWay
  BY BarsGiveWay DEF CacheInv
<1>5. CacheSpec => [][GivesWay]_cacheVars /\ []TrustedIsReal
  BY <1>1, <1>2, <1>3, <1>4, PTL DEF CacheSpec
<1>6. QED
  BY <1>5 DEF CacheHonest, RealBarsGiveWay, GivesWay

(***************************************************************************)
(* Sweeper.                                                                *)
(***************************************************************************)
Tables == [Experiments -> Records]

SweepRuns ==
  [at: {"idle", "run", "open", "write", "edges"}, number: Nat, todo: SUBSET Experiments,
   records: Tables \cup {None}, base: Tables \cup {None}, alone: BOOLEAN, fresh: BOOLEAN]

SweeperType ==
  /\ store \in {NoStore, CutOff} \cup Stores /\ sweep \in [Sweeps -> SweepRuns]
  /\ \A s \in Sweeps : sweep[s].at # "idle" => sweep[s].records \in Tables
  /\ \A s \in Sweeps : Storing(s) => sweep[s].base \in Tables
  /\ kept \in Tables /\ lost \subseteq Experiments /\ split \in BOOLEAN /\ sweeps \in Nat

(* What no write has stored yet is nowhere.                                *)
Unstored ==
  \A e \in Experiments : kept[e] = None =>
    /\ IsStore(store) => store.records[e] = None
    /\ \A s \in Sweeps : Storing(s) => sweep[s].base[e] = None

(* Until something is stored there is no store.                            *)
StoreKept == store = NoStore => store = CutOff \/ \A e \in Experiments : kept[e] = None

(* A sweep that met no other since it read the store has read what is kept *)
(* of every experiment, unless it found the store cut off.                 *)
BaseKept ==
  \A s \in Sweeps : sweep[s].at \in {"open", "write"} /\ sweep[s].alone /\ ~sweep[s].fresh =>
    \A e \in Experiments \ lost : sweep[s].base[e] = kept[e]

(* Such a sweep writes its table from the store as it is.                  *)
TableOfStore ==
  \A s \in Sweeps : sweep[s].at = "edges" /\ sweep[s].alone /\ IsStore(store) =>
    store.records = sweep[s].base /\ store.last = sweep[s].number

(* The table agrees also while a sweep has read the store and not yet      *)
(* opened it.                                                              *)
TableAgrees ==
  IsStore(store) /\ ~split /\ (\A s \in Sweeps : sweep[s].at \notin {"write", "edges"})
  => edges = [sweep |-> store.last,
              evaluated |-> Cardinality({e \in Experiments : store.records[e] # None}),
              survivors |-> {e \in Experiments : Survives(store.records[e])}]

SweeperInv ==
  SweeperType /\ Unstored /\ StoreKept /\ RecordsKept /\ BaseKept /\ TableOfStore /\ TableAgrees

-----------------------------------------------------------------------------
LEMMA RestingTyped ==
  /\ Resting \in SweepRuns /\ Resting.at = "idle"
  /\ NoRecords \in Tables /\ \A e \in Experiments : NoRecords[e] = None
BY DEF Resting, SweepRuns, NoRecords, Tables, Records

LEMMA SweeperStarts == SweeperInit => SweeperInv
<1> SUFFICES ASSUME SweeperInit PROVE SweeperInv
  OBVIOUS
<1>1. sweep \in [Sweeps -> SweepRuns] /\ \A s \in Sweeps : sweep[s].at = "idle"
  BY RestingTyped DEF SweeperInit
<1>2. SweeperType
  BY <1>1, RestingTyped DEF SweeperInit, SweeperType, Storing
<1>3. QED
  BY <1>1, <1>2, RestingTyped DEF SweeperInit, SweeperInv, Unstored, StoreKept, RecordsKept,
     BaseKept, TableOfStore, TableAgrees, IsStore, Storing

(* The first gate that failed is one of the four.                          *)
LEMMA GateTyped ==
  ASSUME NEW gates
  PROVE  RejectedBy(gates) \in {None, "a", "b", "c", "d"}
<1> DEFINE failed == {k \in DOMAIN GateOrder : gates[GateOrder[k]] = FALSE}
<1>1. DOMAIN GateOrder = 1..4 /\ \A k \in 1..4 : GateOrder[k] \in {"a", "b", "c", "d"}
  BY DEF GateOrder
<1>2. CASE failed = {}
  BY <1>2 DEF RejectedBy
<1>3. CASE failed # {}
  <2>1. failed \subseteq 1..4
    BY <1>1
  <2> HIDE DEF failed
  <2>2. \E k \in failed : \A other \in failed : k <= other
    BY <1>3, <2>1, LeastNumber
  <2> DEFINE first == CHOOSE k \in failed : \A other \in failed : k <= other
  <2>3. first \in 1..4
    BY <2>1, <2>2
  <2>4. RejectedBy(gates) = GateOrder[first]
    BY <1>3 DEF RejectedBy, failed
  <2>5. QED
    BY <1>1, <2>3, <2>4
<1>4. QED
  BY <1>2, <1>3

LEMMA RecordTyped ==
  ASSUME NEW o, NEW number \in Nat
  PROVE  RecordOf(o, number) \in Records /\ Failure(number) \in Records
<1>1. Cleared(o) \in BOOLEAN
  BY DEF Cleared, Significant, Asymmetric, Efficient
<1> DEFINE probe == RejectedBy(Gates(o, None))
           stress == IF probe = None THEN o.stress ELSE None
           rejected == RejectedBy(Gates(o, stress))
<1>2. rejected \in {None, "a", "b", "c", "d"}
  BY GateTyped
<1>3. RecordOf(o, number) = [sweep |-> number, cleared |-> Cleared(o), stressed |-> probe = None,
                        rejected |-> rejected]
  BY DEF RecordOf
<1> HIDE DEF rejected, probe
<1>4. RecordOf(o, number) \in Records
  BY <1>1, <1>2, <1>3 DEF Records
<1>5. QED
  BY <1>4 DEF Failure, Records

(* A sweep goes on without writing.                                        *)
Idles(s, next) ==
  /\ next \in SweepRuns /\ sweep' = [sweep EXCEPT ![s] = next]
  /\ next.at # "idle" => next.records \in Tables
  /\ next.at \in {"idle", "run"}
  /\ UNCHANGED <<store, edges, kept, lost>>
  /\ split' = (split \/ sweep[s].at \in {"write", "edges"}) /\ sweeps' \in Nat

LEMMA IdlesKeeps ==
  ASSUME SweeperInv, NEW s \in Sweeps, NEW next, Idles(s, next)
  PROVE  SweeperInv'
<1> USE DEF Idles, SweeperInv
<1>1. /\ sweep' \in [Sweeps -> SweepRuns] /\ sweep'[s] = next
      /\ \A q \in Sweeps \ {s} : sweep'[q] = sweep[q]
  BY DEF SweeperType
<1>2. SweeperType'
  BY <1>1 DEF SweeperType, Storing
<1>3. Unstored' /\ StoreKept' /\ RecordsKept'
  BY <1>1 DEF Unstored, StoreKept, RecordsKept, IsStore, Storing
<1>4. BaseKept' /\ TableOfStore'
  BY <1>1 DEF BaseKept, TableOfStore, IsStore
<1>5. TableAgrees'
  <2>1. CASE sweep[s].at \in {"write", "edges"}
    BY <2>1 DEF TableAgrees
  <2>2. CASE sweep[s].at \notin {"write", "edges"}
    <3>1. SUFFICES ASSUME IsStore(store), ~split,
                          \A q \in Sweeps : sweep'[q].at \notin {"write", "edges"}
                   PROVE  edges = [sweep |-> store.last,
                             evaluated |-> Cardinality({e \in Experiments : store.records[e] # None}),
                             survivors |-> {e \in Experiments : Survives(store.records[e])}]
      BY <2>2 DEF TableAgrees, IsStore, Survives
    <3>2. \A q \in Sweeps : sweep[q].at \notin {"write", "edges"}
      BY <1>1, <2>2, <3>1
    <3>3. QED
      BY <3>1, <3>2 DEF TableAgrees
  <2>3. QED
    BY <2>1, <2>2
<1>6. QED
  BY <1>2, <1>3, <1>4, <1>5

LEMMA StartSweepKeeps == ASSUME SweeperInv, NEW s \in Sweeps, StartSweep(s) PROVE SweeperInv'
<1>1. PICK scope \in Scopes :
        sweep' = [sweep EXCEPT ![s] = [Resting EXCEPT
                   !.at = "run", !.number = sweeps + 1, !.todo = scope, !.records = NoRecords]]
  BY DEF StartSweep
<1> DEFINE next == [Resting EXCEPT
             !.at = "run", !.number = sweeps + 1, !.todo = scope, !.records = NoRecords]
<1>2. sweeps + 1 \in Nat /\ scope \in SUBSET Experiments /\ NoRecords \in Tables
  BY RestingTyped, SweeperAssumption DEF SweeperInv, SweeperType
<1>3. next \in SweepRuns /\ next.at = "run" /\ next.records = NoRecords
  BY <1>2, RestingTyped DEF SweepRuns
<1>4. sweep' = [sweep EXCEPT ![s] = next]
  BY <1>1
<1> HIDE DEF next
<1>5. /\ UNCHANGED <<store, edges, kept, lost, split>> /\ split \in BOOLEAN
      /\ sweeps' = sweeps + 1 /\ sweep[s].at = "idle"
  BY DEF StartSweep, SweeperInv, SweeperType
<1>6. split' = (split \/ sweep[s].at \in {"write", "edges"})
  BY <1>5
<1>7. Idles(s, next)
  BY <1>2, <1>3, <1>4, <1>5, <1>6 DEF Idles
<1>8. QED
  BY <1>7, IdlesKeeps

LEMMA RunExperimentKeeps == ASSUME SweeperInv, NEW s \in Sweeps, RunExperiment(s) PROVE SweeperInv'
<1>1. sweep[s] \in SweepRuns /\ sweep[s].at = "run" /\ sweep[s].records \in Tables
  BY DEF RunExperiment, SweeperInv, SweeperType
<1>2. PICK e \in sweep[s].todo, o \in Results \cup {None} :
        sweep' = [sweep EXCEPT ![s].todo = @ \ {e},
          ![s].records[e] = IF o = None THEN Failure(sweep[s].number)
                                        ELSE RecordOf(o, sweep[s].number)]
  BY DEF RunExperiment
<1> DEFINE record == IF o = None THEN Failure(sweep[s].number) ELSE RecordOf(o, sweep[s].number)
           tables == [sweep[s].records EXCEPT ![e] = record]
           next == [sweep[s] EXCEPT !.todo = @ \ {e}, !.records = tables]
<1>3. record \in Records
  BY <1>1, RecordTyped DEF SweepRuns
<1>4. sweep' = [sweep EXCEPT ![s] = next]
  BY <1>2
<1> HIDE DEF record
<1>5. tables \in Tables
  BY <1>1, <1>3 DEF Tables
<1> HIDE DEF tables
<1>6. next \in SweepRuns /\ next.at = "run" /\ next.records \in Tables
  BY <1>1, <1>5 DEF SweepRuns
<1> HIDE DEF next
<1>7. UNCHANGED <<store, edges, kept, lost, split, sweeps>> /\ split \in BOOLEAN /\ sweeps \in Nat
  BY DEF RunExperiment, SweeperInv, SweeperType
<1>8. split' = (split \/ sweep[s].at \in {"write", "edges"})
  BY <1>1, <1>7
<1>9. Idles(s, next)
  BY <1>4, <1>6, <1>7, <1>8 DEF Idles
<1>10. QED
  BY <1>9, IdlesKeeps

LEMMA AbortSweepKeeps == ASSUME SweeperInv, NEW s \in Sweeps, AbortSweep(s) PROVE SweeperInv'
<1>1. Idles(s, Resting)
  BY RestingTyped DEF AbortSweep, Idles, SweeperInv, SweeperType
<1>2. QED
  BY <1>1, IdlesKeeps

LEMMA KillKeeps == ASSUME SweeperInv, NEW s \in Sweeps, Kill(s) PROVE SweeperInv'
<1>1. Idles(s, Resting)
  BY RestingTyped DEF Kill, Idles, SweeperInv, SweeperType
<1>2. QED
  BY <1>1, IdlesKeeps

LEMMA LoadKeeps == ASSUME SweeperInv, NEW s \in Sweeps, LoadExperiments(s) PROVE SweeperInv'
<1> USE DEF SweeperInv
<1> DEFINE base == IF IsStore(store) THEN store.records ELSE NoRecords
           next == [sweep[s] EXCEPT !.at = "open", !.base = base, !.fresh = store = CutOff]
<1>1. sweep[s] \in SweepRuns /\ sweep[s].records \in Tables /\ sweep[s].at = "run"
  BY DEF LoadExperiments, SweeperType
<1>2. base \in Tables
  BY RestingTyped DEF SweeperType, IsStore, Stores, Tables
<1>3. sweep' = [sweep EXCEPT ![s] = next] /\ UNCHANGED <<store, edges, kept, lost, split, sweeps>>
  BY DEF LoadExperiments
<1>4. \A e \in Experiments : kept[e] = None => base[e] = None
  BY RestingTyped DEF Unstored
<1>5. store # CutOff => \A e \in Experiments \ lost : base[e] = kept[e]
  BY RestingTyped DEF RecordsKept, StoreKept, IsStore
<1> HIDE DEF base
<1>6. /\ next \in SweepRuns /\ next.at = "open" /\ next.records = sweep[s].records
      /\ next.base = base /\ next.fresh = (store = CutOff)
  BY <1>1, <1>2 DEF SweepRuns
<1> HIDE DEF next
<1>7. /\ sweep' \in [Sweeps -> SweepRuns] /\ sweep'[s] = next
      /\ \A q \in Sweeps \ {s} : sweep'[q] = sweep[q]
  BY <1>3, <1>6 DEF SweeperType
<1>8. SweeperType'
  BY <1>1, <1>2, <1>3, <1>6, <1>7 DEF SweeperType, Storing
<1>9. Unstored' /\ StoreKept' /\ RecordsKept'
  BY <1>3, <1>4, <1>6, <1>7 DEF Unstored, StoreKept, RecordsKept, IsStore, Storing
<1>10. BaseKept'
  BY <1>3, <1>5, <1>6, <1>7 DEF BaseKept
<1>11. TableOfStore'
  BY <1>3, <1>6, <1>7 DEF TableOfStore, IsStore
<1>12. (\A q \in Sweeps : sweep'[q].at \notin {"write", "edges"})
         <=> (\A q \in Sweeps : sweep[q].at \notin {"write", "edges"})
  BY <1>1, <1>6, <1>7
<1>13. TableAgrees'
  BY <1>3, <1>12 DEF TableAgrees, IsStore, Survives
<1>14. QED
  BY <1>8, <1>9, <1>10, <1>11, <1>13

(* A sweep that writes takes from all that are storing, itself included,   *)
(* that they were left alone, if there are others.                         *)
LEMMA CrossedIs ==
  ASSUME SweeperType, NEW s \in Sweeps
  PROVE  /\ Crossed(s) \in [Sweeps -> SweepRuns]
         /\ \A q \in Sweeps :
              /\ Crossed(s)[q].at = sweep[q].at /\ Crossed(s)[q].number = sweep[q].number
              /\ Crossed(s)[q].records = sweep[q].records /\ Crossed(s)[q].base = sweep[q].base
              /\ Crossed(s)[q].fresh = sweep[q].fresh
              /\ Crossed(s)[q].alone /\ Storing(q) =>
                   sweep[q].alone /\ \A other \in Sweeps \ {s} : ~Storing(other)
<1>1. sweep \in [Sweeps -> SweepRuns]
  BY DEF SweeperType
<1>2. CASE \A other \in Sweeps \ {s} : ~Storing(other)
  BY <1>1, <1>2 DEF Crossed
<1>3. CASE ~\A other \in Sweeps \ {s} : ~Storing(other)
  <2> DEFINE row(q) == IF Storing(q) THEN [sweep[q] EXCEPT !.alone = FALSE] ELSE sweep[q]
  <2>1. Crossed(s) = [q \in Sweeps |-> row(q)]
    BY <1>3 DEF Crossed
  <2>2. ASSUME NEW q \in Sweeps
        PROVE  /\ row(q) \in SweepRuns
               /\ row(q).at = sweep[q].at /\ row(q).number = sweep[q].number
               /\ row(q).records = sweep[q].records /\ row(q).base = sweep[q].base
               /\ row(q).fresh = sweep[q].fresh /\ (Storing(q) => row(q).alone = FALSE)
    <3>1. sweep[q] \in SweepRuns
      BY <1>1
    <3>2. QED
      BY <3>1 DEF SweepRuns
  <2> HIDE DEF row
  <2>3. QED
    BY <2>1, <2>2
<1>4. QED
  BY <1>2, <1>3

LEMMA OpenStoreKeeps == ASSUME SweeperInv, NEW s \in Sweeps, OpenStore(s) PROVE SweeperInv'
<1> USE DEF SweeperInv
<1>1. sweep[s].at = "open" /\ store' = CutOff /\ UNCHANGED <<edges, kept, lost, split, sweeps>>
  BY DEF OpenStore
<1>2. sweep' = [Crossed(s) EXCEPT ![s].at = "write"]
  BY DEF OpenStore
<1>3. Crossed(s) \in [Sweeps -> SweepRuns]
  BY CrossedIs
<1> DEFINE next == [Crossed(s)[s] EXCEPT !.at = "write"]
<1>4. /\ next \in SweepRuns /\ next.at = "write" /\ next.records = Crossed(s)[s].records
      /\ next.base = Crossed(s)[s].base /\ next.alone = Crossed(s)[s].alone
      /\ next.fresh = Crossed(s)[s].fresh
  BY <1>3 DEF SweepRuns
<1>5. sweep' = [Crossed(s) EXCEPT ![s] = next]
  BY <1>2
<1> HIDE DEF next
<1>6. /\ sweep' \in [Sweeps -> SweepRuns] /\ sweep'[s] = next
      /\ \A q \in Sweeps \ {s} : sweep'[q] = Crossed(s)[q]
  BY <1>3, <1>4, <1>5
<1>7. SweeperType'
  <2>1. \A q \in Sweeps : sweep'[q].at # "idle" => sweep'[q].records \in Tables
    <3>1. \A q \in Sweeps : sweep'[q].records = sweep[q].records
      BY <1>4, <1>6, CrossedIs
    <3>2. \A q \in Sweeps : sweep'[q].at # "idle" => sweep[q].at # "idle"
      BY <1>1, <1>4, <1>6, CrossedIs
    <3>3. \A q \in Sweeps : sweep[q].at # "idle" => sweep[q].records \in Tables
      BY DEF SweeperType
    <3>4. QED
      BY <3>1, <3>2, <3>3
  <2>2. \A q \in Sweeps : Storing(q)' => sweep'[q].base \in Tables
    BY <1>1, <1>4, <1>6, CrossedIs DEF SweeperType, Storing
  <2>3. QED
    BY <1>1, <1>6, <2>1, <2>2 DEF SweeperType
<1>8. Unstored' /\ StoreKept' /\ RecordsKept'
  BY <1>1, <1>4, <1>6, CrossedIs DEF Unstored, StoreKept, RecordsKept, IsStore, Storing
<1>9. BaseKept'
  BY <1>1, <1>4, <1>6, CrossedIs DEF BaseKept, Storing
<1>10. TableOfStore' /\ TableAgrees'
  BY <1>1 DEF TableOfStore, TableAgrees, IsStore
<1>11. QED
  BY <1>7, <1>8, <1>9, <1>10

LEMMA WriteStoreKeeps == ASSUME SweeperInv, NEW s \in Sweeps, WriteStore(s) PROVE SweeperInv'
<1> USE DEF SweeperInv
<1> DEFINE r == Crossed(s)[s]
           merged == [e \in Experiments |-> IF r.records[e] = None THEN r.base[e] ELSE r.records[e]]
           next == [Crossed(s)[s] EXCEPT !.at = "edges", !.base = merged]
<1>1. /\ Crossed(s) \in [Sweeps -> SweepRuns] /\ r \in SweepRuns
      /\ r.at = sweep[s].at /\ r.number = sweep[s].number /\ r.records = sweep[s].records
      /\ r.base = sweep[s].base /\ r.fresh = sweep[s].fresh
  BY CrossedIs
<1>2. sweep[s].at = "write" /\ Storing(s)
  BY <1>1 DEF WriteStore, Storing
<1>3. r.alone => sweep[s].alone /\ \A other \in Sweeps \ {s} : ~Storing(other)
  BY <1>2, CrossedIs
<1>4. /\ store' = [records |-> merged, last |-> r.number]
      /\ kept' = [e \in Experiments |-> IF r.records[e] = None THEN kept[e] ELSE r.records[e]]
      /\ lost' = {e \in Experiments :
                    r.records[e] = None /\ (e \in lost \/ (kept[e] # None /\ (r.fresh \/ ~r.alone)))}
      /\ UNCHANGED <<edges, split, sweeps>>
  BY DEF WriteStore
<1>5. sweep' = [Crossed(s) EXCEPT ![s] = next]
  BY DEF WriteStore
<1>6. r.records \in Tables /\ r.base \in Tables /\ r.number \in Nat
  BY <1>1, <1>2 DEF SweeperType, SweepRuns
<1>7. merged \in Tables /\ \A e \in Experiments :
        merged[e] = IF r.records[e] = None THEN r.base[e] ELSE r.records[e]
  BY <1>6 DEF Tables
<1>8. kept' \in Tables /\ \A e \in Experiments :
        kept'[e] = IF r.records[e] = None THEN kept[e] ELSE r.records[e]
  BY <1>4, <1>6 DEF SweeperType, Tables
<1>9. \A e \in Experiments : kept[e] = None => r.base[e] = None
  BY <1>1, <1>2 DEF Unstored
<1>10. r.alone /\ ~r.fresh => \A e \in Experiments \ lost : r.base[e] = kept[e]
  BY <1>1, <1>2, <1>3 DEF BaseKept
<1> HIDE DEF merged
<1>11. /\ next \in SweepRuns /\ next.at = "edges" /\ next.records = r.records
       /\ next.base = merged /\ next.number = r.number
  BY <1>1, <1>7 DEF SweepRuns
<1> HIDE DEF next, r
<1>12. /\ sweep' \in [Sweeps -> SweepRuns] /\ sweep'[s] = next
       /\ \A q \in Sweeps \ {s} : sweep'[q] = Crossed(s)[q]
  BY <1>1, <1>5, <1>11
<1>13. \A q \in Sweeps \ {s} :
         /\ sweep'[q].at = sweep[q].at /\ sweep'[q].records = sweep[q].records
         /\ sweep'[q].base = sweep[q].base /\ (Storing(q) => ~sweep'[q].alone)
  BY <1>2, <1>12, CrossedIs
<1>14. store' \in Stores /\ store'.records = merged /\ store'.last = r.number
  BY <1>4, <1>6, <1>7 DEF Stores, Tables
<1>15. SweeperType'
  <2>1. \A q \in Sweeps : sweep'[q].at # "idle" => sweep'[q].records \in Tables
    BY <1>6, <1>11, <1>12, <1>13 DEF SweeperType
  <2>2. \A q \in Sweeps : Storing(q)' => sweep'[q].base \in Tables
    BY <1>7, <1>11, <1>12, <1>13 DEF SweeperType, Storing
  <2>3. QED
    BY <1>4, <1>8, <1>12, <1>14, <2>1, <2>2 DEF SweeperType
<1>16. Unstored'
  BY <1>7, <1>8, <1>9, <1>11, <1>12, <1>13, <1>14 DEF Unstored, Storing
<1>17. StoreKept'
  BY <1>14, SweeperAssumption DEF StoreKept
<1>18. RecordsKept'
  <2>1. SUFFICES ASSUME NEW e \in Experiments, e \notin lost' PROVE merged[e] = kept'[e]
    BY <1>14 DEF RecordsKept
  <2>2. CASE r.records[e] = None
    BY <1>4, <1>7, <1>8, <1>9, <1>10, <2>1, <2>2
  <2>3. CASE r.records[e] # None
    BY <1>7, <1>8, <2>3
  <2>4. QED
    BY <2>2, <2>3
<1>19. BaseKept'
  BY <1>11, <1>12, <1>13 DEF BaseKept, Storing
<1>20. TableOfStore'
  BY <1>11, <1>12, <1>13, <1>14 DEF TableOfStore, Storing
<1>21. TableAgrees'
  BY <1>11, <1>12 DEF TableAgrees
<1>22. QED
  BY <1>15, <1>16, <1>17, <1>18, <1>19, <1>20, <1>21

LEMMA WriteEdgesKeeps == ASSUME SweeperInv, NEW s \in Sweeps, WriteEdges(s) PROVE SweeperInv'
<1> USE DEF SweeperInv
<1> DEFINE r == Crossed(s)[s]
<1>1. /\ Crossed(s) \in [Sweeps -> SweepRuns] /\ r \in SweepRuns /\ r.at = sweep[s].at
      /\ r.number = sweep[s].number /\ r.base = sweep[s].base
  BY CrossedIs
<1>2. sweep[s].at = "edges" /\ Storing(s)
  BY <1>1 DEF WriteEdges, Storing
<1>3. r.alone => sweep[s].alone /\ \A other \in Sweeps \ {s} : ~Storing(other)
  BY <1>2, CrossedIs
<1>4. /\ edges' = [sweep |-> r.number,
                   evaluated |-> Cardinality({e \in Experiments : r.base[e] # None}),
                   survivors |-> {e \in Experiments : Survives(r.base[e])}]
      /\ split' = ~r.alone /\ UNCHANGED <<store, kept, lost, sweeps>>
  BY DEF WriteEdges
<1>5. sweep' = [Crossed(s) EXCEPT ![s] = Resting]
  BY DEF WriteEdges
<1>6. /\ sweep' \in [Sweeps -> SweepRuns] /\ sweep'[s] = Resting
      /\ \A q \in Sweeps \ {s} : sweep'[q] = Crossed(s)[q]
  BY <1>1, <1>5, RestingTyped
<1> HIDE DEF r
<1>7. \A q \in Sweeps \ {s} :
        /\ sweep'[q].at = sweep[q].at /\ sweep'[q].records = sweep[q].records
        /\ sweep'[q].base = sweep[q].base /\ (Storing(q) => ~sweep'[q].alone)
  BY <1>2, <1>6, CrossedIs
<1>8. split' \in BOOLEAN
  BY <1>4
<1>9. SweeperType'
  <2>1. \A q \in Sweeps : sweep'[q].at # "idle" => sweep'[q].records \in Tables
    BY <1>6, <1>7, RestingTyped DEF SweeperType
  <2>2. \A q \in Sweeps : Storing(q)' => sweep'[q].base \in Tables
    BY <1>6, <1>7, RestingTyped DEF SweeperType, Storing
  <2>3. QED
    BY <1>4, <1>6, <1>8, <2>1, <2>2 DEF SweeperType
<1>10. Unstored' /\ StoreKept' /\ RecordsKept'
  BY <1>4, <1>6, <1>7, RestingTyped DEF Unstored, StoreKept, RecordsKept, IsStore, Storing
<1>11. BaseKept' /\ TableOfStore'
  BY <1>6, <1>7, RestingTyped DEF BaseKept, TableOfStore, Storing
<1>12. TableAgrees'
  <2>1. SUFFICES ASSUME IsStore(store), r.alone
                 PROVE  edges' = [sweep |-> store.last,
                           evaluated |-> Cardinality({e \in Experiments : store.records[e] # None}),
                           survivors |-> {e \in Experiments : Survives(store.records[e])}]
    BY <1>4 DEF TableAgrees, IsStore, Survives
  <2>2. store.records = r.base /\ store.last = r.number
    BY <1>1, <1>2, <1>3, <2>1 DEF TableOfStore
  <2>3. QED
    BY <1>4, <2>2
<1>13. QED
  BY <1>9, <1>10, <1>11, <1>12

(* The store holds the last record of every experiment but those a         *)
(* crossing or a cut off store explains, and the table beside it agrees    *)
(* whenever nobody stores and the last to do so was left alone: for every  *)
(* number of sweeps, experiments and kills.                                *)
THEOREM ResultsKept == SweeperSpec => []ResultsAgree
<1>1. SweeperInit => SweeperInv
  BY SweeperStarts
<1>2. SweeperInv /\ [SweeperNext]_sweeperVars => SweeperInv'
  <2> SUFFICES ASSUME SweeperInv, [SweeperNext]_sweeperVars PROVE SweeperInv'
    OBVIOUS
  <2>1. ASSUME NEW s \in Sweeps,
               \/ StartSweep(s) \/ RunExperiment(s) \/ AbortSweep(s) \/ LoadExperiments(s)
               \/ OpenStore(s) \/ WriteStore(s) \/ WriteEdges(s) \/ Kill(s)
        PROVE  SweeperInv'
    BY <2>1, StartSweepKeeps, RunExperimentKeeps, AbortSweepKeeps, LoadKeeps, OpenStoreKeeps,
       WriteStoreKeeps, WriteEdgesKeeps, KillKeeps
  <2>2. CASE UNCHANGED sweeperVars
    BY <2>2 DEF sweeperVars, SweeperInv, SweeperType, Unstored, StoreKept, RecordsKept, BaseKept,
       TableOfStore, TableAgrees, IsStore, Storing, Survives
  <2>3. QED
    BY <2>1, <2>2 DEF SweeperNext
<1>3. SweeperInv => ResultsAgree
  <2> SUFFICES ASSUME SweeperInv PROVE ResultsAgree
    OBVIOUS
  <2>1. (\A s \in Sweeps : ~Storing(s)) => \A s \in Sweeps : sweep[s].at \notin {"write", "edges"}
    BY DEF Storing
  <2>2. QED
    BY <2>1 DEF SweeperInv, ResultsAgree, EdgesAgree, TableAgrees
<1>4. QED
  BY <1>1, <1>2, <1>3, PTL DEF SweeperSpec

(***************************************************************************)
(* Backtester.                                                             *)
(***************************************************************************)
Positions ==
  [side: {"BUY", "SELL"}, type: {"MARKET", "LIMIT"}, entry: Int, risk: Nat, target: Nat,
   signal: Nat, bar: Nat, before: Nat, opened: Nat, swaps: Nat, atOpen: BOOLEAN]
TradeRecords ==
  [pos: Positions, stop: Nat, exit: Int, why: {"STOP", "TARGET", "SCHEDULED", "END"}, bar: Nat]
Queues == Seq([intent: Intents, at: Nat])
Books ==
  [queue: Queues, pos: Positions \cup {Flat}, stop: Nat, leave: BOOLEAN, trade: TradeRecords \cup {Flat}]

BacktestType ==
  /\ phase \in {"market", "strategy", "done"} /\ n \in Nat /\ now \in Nat
  /\ bar \in Bars \cup {Flat} /\ (n > 0 => bar \in Bars)
  /\ Book \in Books

(* Nothing in the queue is younger than bar number, or older than the last *)
(* trade.                                                                  *)
Queued(b, number) ==
  \A k \in DOMAIN b.queue :
    b.queue[k].at <= number /\ (b.trade # Flat => b.trade.bar <= b.queue[k].at)

(* What a row leaves in the queue: at most one limit order that was not    *)
(* touched.                                                                *)
Waits(b) == b.queue = <<>> \/ (Len(b.queue) = 1 /\ b.queue[1].intent.type = "LIMIT")

(* The stop is at least as tight as the one the position was opened with.  *)
Tight(b) ==
  b.pos.risk # NoPrice =>
    /\ b.stop # NoPrice
    /\ IF b.pos.side = "BUY" THEN b.pos.risk <= b.stop ELSE b.stop <= b.pos.risk

(* A position leaves no intent behind, and comes from the one before it.   *)
Opened(b, number) ==
  b.pos # Flat =>
    /\ b.queue = <<>> /\ b.pos.signal < b.pos.bar /\ b.pos.bar <= number
    /\ b.pos.type = "MARKET" => b.pos.bar = b.pos.signal + 1
    /\ b.trade # Flat => b.trade.bar <= b.pos.signal
    /\ Tight(b)

ShortGaps == \A g \in Gaps : g <= 3

(* The rollovers up to time t were charged.                                *)
Charged(p, t) == Rollovers(p.opened, t) <= p.swaps /\ p.swaps <= Rollovers(p.before, t)

(* The position came through bar q.                                        *)
Safe(b, q) ==
  b.pos # Flat /\ b.pos.risk # NoPrice =>
    IF b.pos.side = "BUY" THEN b.pos.risk < q.low ELSE Ask(q.high) < b.pos.risk

(* What a trade that ended in bar q lost, and what ended it.               *)
RiskKept(tr, q) ==
  tr.pos.risk # NoPrice =>
    Lesser(Worth(tr.pos.side, q.open), WorthOfLevel(tr.pos.side, tr.pos.risk))
      <= WorthOfLevel(tr.pos.side, tr.exit) + Slippage
WorstPath(tr, q) ==
  tr.why \in {"STOP", "TARGET"} =>
    \A path \in Paths(tr.pos.side, q) :
      /\ Touches(path, tr.pos.side, tr.stop, tr.pos.target) # {}
      /\ WorthOfLevel(tr.pos.side, tr.exit) + Slippage
           <= PathExit(path, tr.pos.side, tr.stop, tr.pos.target)

BacktestInv ==
  /\ BacktestType
  /\ Opened(Book, n) /\ Queued(Book, n)
  /\ trade # Flat => trade.bar <= n
  /\ pos # Flat => n > 0 /\ Safe(Book, bar)
  /\ pos # Flat /\ ShortGaps => Charged(pos, now)
  /\ phase = "strategy" => Waits(Book)
  /\ phase = "market" /\ queue # <<>> => queue[1].intent.type = "LIMIT" \/ queue[1].at = n
  /\ trade # Flat /\ trade.bar = n => RiskKept(trade, bar) /\ (phase = "strategy" => WorstPath(trade, bar))
  /\ phase = "strategy" /\ pos # Flat =>
       \A path \in Paths(pos.side, bar) : Touches(path, pos.side, stop, pos.target) = {}

-----------------------------------------------------------------------------
(* The least and the most a position is worth within a bar.                *)
Lowest(side, q) == IF side = "BUY" THEN Worth(side, q.low) ELSE Worth(side, q.high)
Highest(side, q) == IF side = "BUY" THEN Worth(side, q.high) ELSE Worth(side, q.low)

LEMMA BarTyped ==
  ASSUME NEW q \in Bars
  PROVE  /\ q.open \in Nat /\ q.high \in Nat /\ q.low \in Nat /\ q.close \in Nat
         /\ q.low <= q.open /\ q.open <= q.high /\ q.low <= q.close /\ q.close <= q.high
         /\ Spread \in Nat /\ Slippage \in Nat
BY BacktesterAssumption DEF Bars, Price

LEMMA WorthTyped ==
  ASSUME NEW q \in Bars, NEW side \in {"BUY", "SELL"}, NEW level \in Nat
  PROVE  /\ Worth(side, q.open) \in Int /\ WorthOfLevel(side, level) \in Int
         /\ Lowest(side, q) \in Int /\ Highest(side, q) \in Int
         /\ Lowest(side, q) <= Worth(side, q.open) /\ Worth(side, q.open) <= Highest(side, q)
         /\ Lowest(side, q) <= Worth(side, q.close)
BY BarTyped DEF Worth, WorthOfLevel, Lowest, Highest, Ask

(* A walk starts at the open, stays within the bar and meets both ends.    *)
LEMMA PathIs ==
  ASSUME NEW q \in Bars, NEW side \in {"BUY", "SELL"}, NEW path \in Paths(side, q)
  PROVE  /\ path[1] = Worth(side, q.open)
         /\ \A k \in 1..4 : path[k] \in Int /\ Lowest(side, q) <= path[k] /\ path[k] <= Highest(side, q)
         /\ \E k \in 1..4 : path[k] = Lowest(side, q)
         /\ \E k \in 1..4 : path[k] = Highest(side, q)
<1> DEFINE w(p) == Worth(side, p)
<1>1. \/ path = <<w(q.open), w(q.low), w(q.high), w(q.close)>>
      \/ path = <<w(q.open), w(q.high), w(q.low), w(q.close)>>
  BY DEF Paths
<1>2. /\ w(q.open) \in Int /\ w(q.low) \in Int /\ w(q.high) \in Int /\ w(q.close) \in Int
      /\ \A x \in {w(q.open), w(q.low), w(q.high), w(q.close)} :
           Lowest(side, q) <= x /\ x <= Highest(side, q)
      /\ {Lowest(side, q), Highest(side, q)} = {w(q.low), w(q.high)}
  BY BarTyped DEF Worth, Lowest, Highest, Ask
<1> HIDE DEF w
<1>3. CASE path = <<w(q.open), w(q.low), w(q.high), w(q.close)>>
  <2>1. path[1] = w(q.open) /\ path[2] = w(q.low) /\ path[3] = w(q.high) /\ path[4] = w(q.close)
    BY <1>3
  <2>2. QED
    BY <1>2, <2>1 DEF w
<1>4. CASE path = <<w(q.open), w(q.high), w(q.low), w(q.close)>>
  <2>1. path[1] = w(q.open) /\ path[2] = w(q.high) /\ path[3] = w(q.low) /\ path[4] = w(q.close)
    BY <1>4
  <2>2. QED
    BY <1>2, <2>1 DEF w
<1>5. QED
  BY <1>1, <1>3, <1>4

(* Hits and prices in terms of worth.                                      *)
LEMMA HitIs ==
  ASSUME NEW q \in Bars, NEW side \in {"BUY", "SELL"}, NEW level \in Nat
  PROVE  /\ StopHit(side, level, q) <=> level # NoPrice /\ Lowest(side, q) <= WorthOfLevel(side, level)
         /\ TargetHit(side, level, q) <=> level # NoPrice /\ WorthOfLevel(side, level) <= Highest(side, q)
         /\ StopPrice(side, level, q) \in Int /\ TargetPrice(side, level, q) \in Int
         /\ WorthOfLevel(side, StopPrice(side, level, q)) + Slippage
              = Lesser(Worth(side, q.open), WorthOfLevel(side, level))
         /\ WorthOfLevel(side, TargetPrice(side, level, q)) + Slippage
              = Greater(Worth(side, q.open), WorthOfLevel(side, level))
BY BarTyped DEF StopHit, TargetHit, StopPrice, TargetPrice, Lesser, Greater, Worth, WorthOfLevel,
   Lowest, Highest, Ask

(* The stop first is the worst that any walk through the bar gives.        *)
LEMMA WorstOfPaths ==
  ASSUME NEW q \in Bars, NEW side \in {"BUY", "SELL"}, NEW s \in Nat, NEW t \in Nat,
         NEW path \in Paths(side, q)
  PROVE  /\ StopHit(side, s, q) =>
              /\ Touches(path, side, s, t) # {}
              /\ Lesser(Worth(side, q.open), WorthOfLevel(side, s)) <= PathExit(path, side, s, t)
         /\ ~StopHit(side, s, q) /\ TargetHit(side, t, q) =>
              /\ Touches(path, side, s, t) # {}
              /\ Greater(Worth(side, q.open), WorthOfLevel(side, t)) <= PathExit(path, side, s, t)
         /\ ~StopHit(side, s, q) /\ ~TargetHit(side, t, q) => Touches(path, side, s, t) = {}
<1> DEFINE T == Touches(path, side, s, t)
           least == CHOOSE j \in T : \A m \in T : j <= m
           open == Worth(side, q.open)
           ws == WorthOfLevel(side, s)
           wt == WorthOfLevel(side, t)
<1>1. /\ path[1] = open /\ open \in Int /\ ws \in Int /\ wt \in Int
      /\ \A k \in 1..4 : path[k] \in Int /\ Lowest(side, q) <= path[k] /\ path[k] <= Highest(side, q)
      /\ \E k \in 1..4 : path[k] = Lowest(side, q)
      /\ \E k \in 1..4 : path[k] = Highest(side, q)
      /\ Lowest(side, q) \in Int /\ Highest(side, q) \in Int
  BY PathIs, WorthTyped
<1>2. T \subseteq 1..4 /\ \A k \in 1..4 :
        k \in T <=> (s # NoPrice /\ path[k] <= ws) \/ (t # NoPrice /\ wt <= path[k])
  BY <1>1 DEF Touches, AtStop, AtTarget
<1>3. PathExit(path, side, s, t) =
        IF least = 1 THEN path[1] ELSE IF s # NoPrice /\ path[least] <= ws THEN ws ELSE wt
  BY DEF PathExit, AtStop
<1>4. StopHit(side, s, q) <=> s # NoPrice /\ Lowest(side, q) <= ws
  BY HitIs
<1>5. TargetHit(side, t, q) <=> t # NoPrice /\ wt <= Highest(side, q)
  BY HitIs
<1>6. ASSUME T # {} PROVE least \in T /\ \A m \in T : least <= m
  <2>1. T \subseteq Nat
    BY <1>2
  <2>2. \E j \in T : \A m \in T : j <= m
    BY <1>6, <2>1, LeastNumber
  <2>3. QED
    BY <2>2
<1> HIDE DEF T, least, open, ws, wt
<1>7. ASSUME T # {}, least # 1
      PROVE  ~(s # NoPrice /\ open <= ws) /\ ~(t # NoPrice /\ wt <= open)
  <2>1. 1 \notin T
    <3>1. SUFFICES ASSUME 1 \in T PROVE FALSE
      OBVIOUS
    <3>2. least <= 1 /\ least \in 1..4
      BY <1>2, <1>6, <1>7, <3>1
    <3>3. QED
      BY <1>7, <3>2
  <2>2. 1 \in 1..4 /\ path[1] = open
    BY <1>1
  <2>3. QED
    BY <1>2, <2>1, <2>2
<1>8. ASSUME StopHit(side, s, q)
      PROVE  T # {} /\ Lesser(open, ws) <= PathExit(path, side, s, t)
  <2>1. T # {}
    BY <1>1, <1>2, <1>4, <1>8
  <2>2. least \in 1..4 /\ least \in T
    BY <1>2, <1>6, <2>1
  <2>3. path[least] \in Int /\ s # NoPrice
    BY <1>1, <1>4, <1>8, <2>2
  <2>4. Lesser(open, ws) <= PathExit(path, side, s, t)
    <3>1. CASE least = 1
      <4>1. PathExit(path, side, s, t) = open
        BY <1>1, <1>3, <3>1
      <4>2. QED
        BY <1>1, <4>1 DEF Lesser
    <3>2. CASE least # 1 /\ path[least] <= ws
      <4>1. PathExit(path, side, s, t) = ws
        BY <1>3, <2>3, <3>2
      <4>2. QED
        BY <1>1, <4>1 DEF Lesser
    <3>3. CASE least # 1 /\ ~(path[least] <= ws)
      <4>1. PathExit(path, side, s, t) = wt
        BY <1>3, <3>3
      <4>2. t # NoPrice
        BY <1>2, <2>2, <3>3
      <4>3. ~(wt <= open)
        BY <1>7, <2>1, <3>3, <4>2
      <4>4. QED
        BY <1>1, <4>1, <4>3 DEF Lesser
    <3>4. QED
      BY <3>1, <3>2, <3>3
  <2>5. QED
    BY <2>1, <2>4
<1>9. ASSUME ~StopHit(side, s, q), TargetHit(side, t, q)
      PROVE  T # {} /\ Greater(open, wt) <= PathExit(path, side, s, t)
  <2>1. T # {}
    BY <1>1, <1>2, <1>5, <1>9
  <2>2. least \in 1..4 /\ least \in T
    BY <1>2, <1>6, <2>1
  <2>3. ~(s # NoPrice /\ path[least] <= ws)
    BY <1>1, <1>4, <1>9, <2>2
  <2>4. t # NoPrice /\ wt <= path[least] /\ path[least] \in Int
    BY <1>1, <1>2, <2>2, <2>3
  <2>5. Greater(open, wt) <= PathExit(path, side, s, t)
    <3>1. CASE least = 1
      <4>1. PathExit(path, side, s, t) = open /\ wt <= open
        BY <1>1, <1>3, <2>4, <3>1
      <4>2. QED
        BY <1>1, <4>1 DEF Greater
    <3>2. CASE least # 1
      <4>1. PathExit(path, side, s, t) = wt
        BY <1>3, <2>3, <3>2
      <4>2. ~(wt <= open)
        BY <1>7, <2>1, <2>4, <3>2
      <4>3. QED
        BY <1>1, <4>1, <4>2 DEF Greater
    <3>3. QED
      BY <3>1, <3>2
  <2>6. QED
    BY <2>1, <2>5
<1>10. ASSUME ~StopHit(side, s, q), ~TargetHit(side, t, q) PROVE T = {}
  <2>1. \A k \in 1..4 : k \notin T
    BY <1>1, <1>2, <1>4, <1>5, <1>10
  <2>2. QED
    BY <1>2, <2>1
<1>11. QED
  BY <1>8, <1>9, <1>10 DEF T, open, ws, wt


-----------------------------------------------------------------------------
(* What holds of the book within the row of bar q, from step to step.      *)
Booked(b, q) ==
  /\ b \in Books
  /\ Opened(b, n + 1) /\ Queued(b, n + 1) /\ Waits(b)
  /\ b.trade # Flat => b.trade.bar <= n + 1
  /\ b.trade # Flat /\ b.trade.bar = n + 1 => RiskKept(b.trade, q) /\ WorstPath(b.trade, q)

(* Before the rollover of time t an open position has paid what was due at *)
(* the bar before, or it was opened in this row.                           *)
Owes(b, t) ==
  b.pos # Flat /\ ShortGaps =>
    \/ n > 0 /\ Charged(b.pos, now)
    \/ b.pos.opened = t /\ b.pos.before = now /\ b.pos.swaps = 0

LEMMA CloseIs ==
  ASSUME NEW b \in Books, b.pos # Flat, n \in Nat, NEW price \in Int,
         NEW why \in {"STOP", "TARGET", "SCHEDULED", "END"}
  PROVE  /\ Close(b, price, why) \in Books
         /\ Close(b, price, why).queue = b.queue
         /\ Close(b, price, why).pos = Flat
         /\ Close(b, price, why).trade =
              [pos |-> b.pos, stop |-> b.stop, exit |-> price, why |-> why, bar |-> n + 1]
<1>1. b.pos \in Positions /\ b.stop \in Nat
  BY DEF Books
<1>2. [pos |-> b.pos, stop |-> b.stop, exit |-> price, why |-> why, bar |-> n + 1] \in TradeRecords
  BY <1>1 DEF TradeRecords
<1>3. QED
  BY <1>2 DEF Close, Books, NoPrice

(* Closing a position for price x ends it within its risk, and no walk     *)
(* through the bar does worse than a stop or a target.                     *)
LEMMA ClosedIsBooked ==
  ASSUME n \in Nat, NEW q \in Bars, NEW b \in Books, b.pos # Flat, b.queue = <<>>, NEW price \in Int,
         NEW why \in {"STOP", "TARGET", "SCHEDULED"},
         RiskKept([pos |-> b.pos, stop |-> b.stop, exit |-> price, why |-> why, bar |-> n + 1], q),
         WorstPath([pos |-> b.pos, stop |-> b.stop, exit |-> price, why |-> why, bar |-> n + 1], q)
  PROVE  Booked(Close(b, price, why), q) /\ Close(b, price, why).pos = Flat
<1> DEFINE c == Close(b, price, why)
           tr == [pos |-> b.pos, stop |-> b.stop, exit |-> price, why |-> why, bar |-> n + 1]
<1>1. c \in Books /\ c.queue = <<>> /\ c.pos = Flat /\ c.trade = tr
  <2>1. why \in {"STOP", "TARGET", "SCHEDULED", "END"}
    OBVIOUS
  <2>2. QED
    BY <2>1, CloseIs
<1>2. tr.bar = n + 1
  OBVIOUS
<1> HIDE DEF c, tr
<1>3. RiskKept(c.trade, q) /\ WorstPath(c.trade, q)
  BY <1>1 DEF tr
<1>4. Opened(c, n + 1) /\ Queued(c, n + 1) /\ Waits(c)
  BY <1>1 DEF Opened, Queued, Waits
<1>5. QED
  BY <1>1, <1>2, <1>3, <1>4 DEF Booked, c

(* Step 1: an untouched limit order goes on waiting alone, a filled order  *)
(* opens a position on what the queue held.                                *)
LEMMA FillTyped ==
  ASSUME NEW i \in Intents, NEW q \in Bars
  PROVE  FillPrice(i, q) \in Int /\ i \in Intent /\ AtOpen(i, q) \in BOOLEAN
<1>1. i \in Intent /\ i.limit \in Nat
  BY BacktesterAssumption DEF Intent
<1>2. FillPrice(i, q) \in Int
  BY <1>1, BarTyped DEF FillPrice, Ask, NoPrice, Lesser, Greater, Intent
<1>3. AtOpen(i, q) \in BOOLEAN
  BY DEF AtOpen
<1>4. QED
  BY <1>1, <1>2, <1>3

LEMMA ResolveKeeps ==
  ASSUME BacktestInv, phase = "market", NEW q \in Bars, NEW t \in Nat
  PROVE  LET b == ResolvePending(Book, q, t) IN
         Booked(b, q) /\ (b.trade # Flat => b.trade.bar <= n) /\ Owes(b, t)
<1> DEFINE b == ResolvePending(Book, q, t)
<1>1. /\ Book \in Books /\ n \in Nat /\ now \in Nat
      /\ Book.queue = queue /\ Book.pos = pos /\ Book.trade = trade
  BY DEF BacktestInv, BacktestType, Book
<1>2. trade # Flat => trade.bar \in Nat /\ trade.bar <= n
  BY <1>1 DEF BacktestInv, Books, TradeRecords
<1>3. CASE queue = <<>> \/ pos # Flat
  <2>1. b = Book
    BY <1>1, <1>3 DEF ResolvePending
  <2>2. queue = <<>>
    BY <1>1, <1>3 DEF BacktestInv, Opened
  <2>3. Opened(Book, n + 1)
    <3>1. SUFFICES ASSUME pos # Flat PROVE pos.bar <= n + 1
      BY <1>1 DEF BacktestInv, Opened
    <3>2. pos.bar \in Nat /\ pos.bar <= n
      BY <1>1, <3>1 DEF BacktestInv, Opened, Books, Positions
    <3>3. QED
      BY <1>1, <3>2
  <2>4. Queued(Book, n + 1) /\ Waits(Book)
    BY <1>1, <2>2 DEF Queued, Waits
  <2>5. Owes(Book, t)
    BY <1>1 DEF BacktestInv, Owes
  <2>6. Booked(Book, q)
    BY <1>1, <1>2, <2>3, <2>4 DEF Booked
  <2>7. QED
    BY <1>1, <1>2, <2>1, <2>5, <2>6
<1>4. CASE queue # <<>> /\ pos = Flat
  <2> DEFINE h == Head(queue)
             i == h.intent
             price == FillPrice(i, q)
             p == [side |-> i.side, type |-> i.type, entry |-> price,
                   risk |-> i.stop, target |-> i.target,
                   signal |-> h.at, bar |-> n + 1, before |-> now,
                   opened |-> t, swaps |-> 0, atOpen |-> AtOpen(i, q)]
  <2>1. queue \in Queues
    BY <1>1 DEF Books
  <2>2. h = queue[1] /\ 1 \in DOMAIN queue /\ h \in [intent: Intents, at: Nat]
    <3>1. ASSUME NEW S, NEW s \in Seq(S), s # <<>>
          PROVE  Head(s) = s[1] /\ 1 \in DOMAIN s /\ Head(s) \in S
      BY <3>1
    <3>2. Head(queue) = queue[1] /\ 1 \in DOMAIN queue /\ Head(queue) \in [intent: Intents, at: Nat]
      BY <1>4, <2>1, <3>1 DEF Queues
    <3>3. QED
      BY <3>2
  <2>3. /\ i \in Intents /\ i \in Intent /\ price \in Int /\ h.at \in Nat /\ h.at <= n
        /\ AtOpen(i, q) \in BOOLEAN
        /\ trade # Flat => trade.bar <= h.at
        /\ i.type = "LIMIT" \/ h.at = n
    BY <1>1, <1>4, <2>2, FillTyped DEF BacktestInv, Queued
  <2>4. p \in Positions
    BY <1>1, <2>3 DEF Positions, Intent
  <2>5. /\ p.bar = n + 1 /\ p.signal = h.at /\ p.type = i.type /\ p.risk = i.stop
        /\ p.side = i.side /\ p.opened = t /\ p.before = now /\ p.swaps = 0
    OBVIOUS
  <2>6. b = IF i.type = "LIMIT" /\ price = NoPrice
              THEN [Book EXCEPT !.queue = <<h>>]
              ELSE [Book EXCEPT !.queue = <<>>, !.stop = i.stop, !.pos = p]
    BY <1>1, <1>4 DEF ResolvePending
  <2> HIDE DEF h, i, price, p, b
  <2>7. CASE i.type = "LIMIT" /\ price = NoPrice
    <3>1. b.queue = <<h>> /\ b.pos = Flat /\ b.trade = trade /\ b \in Books
      <4>1. <<h>> \in Queues
        BY <2>2 DEF Queues
      <4>2. QED
        BY <1>1, <1>4, <2>6, <2>7, <4>1 DEF Books
    <3>2. Len(b.queue) = 1 /\ DOMAIN b.queue = {1} /\ b.queue[1] = h
      BY <3>1
    <3>3. Waits(b)
      BY <2>7, <3>2 DEF Waits, i
    <3>4. Queued(b, n + 1) /\ Opened(b, n + 1)
      BY <1>1, <2>3, <3>1, <3>2 DEF Queued, Opened
    <3>5. Owes(b, t) /\ Booked(b, q)
      BY <1>1, <1>2, <3>1, <3>3, <3>4 DEF Owes, Booked
    <3>6. QED
      BY <1>2, <3>1, <3>5 DEF b
  <2>8. CASE ~(i.type = "LIMIT" /\ price = NoPrice)
    <3>1. b.queue = <<>> /\ b.pos = p /\ b.stop = i.stop /\ b.trade = trade /\ b \in Books
      <4>1. <<>> \in Queues /\ i.stop \in Nat
        BY <2>3 DEF Queues, Intent
      <4>2. QED
        BY <1>1, <2>4, <2>6, <2>8, <4>1 DEF Books
    <3>2. Tight(b)
      BY <2>3, <2>5, <3>1 DEF Tight, Intent
    <3>3. Opened(b, n + 1)
      BY <1>1, <2>3, <2>5, <3>1, <3>2 DEF Opened, Intent
    <3>4. Queued(b, n + 1) /\ Waits(b)
      BY <3>1 DEF Queued, Waits
    <3>5. Owes(b, t) /\ Booked(b, q)
      BY <1>1, <1>2, <2>5, <3>1, <3>3, <3>4 DEF Owes, Booked
    <3>6. QED
      BY <1>2, <3>1, <3>5 DEF b
  <2>9. QED
    BY <2>7, <2>8
<1>5. QED
  BY <1>1, <1>3, <1>4


(* Step 1b: a market exit at the open is no worse than the open.           *)
LEMMA MarketExitIs ==
  ASSUME NEW side \in {"BUY", "SELL"}, NEW quote \in Nat
  PROVE  /\ MarketExit(side, quote) \in Int
         /\ Worth(side, quote) <= WorthOfLevel(side, MarketExit(side, quote)) + Slippage
BY BacktesterAssumption DEF MarketExit, Worth, WorthOfLevel, Greater, Ask

LEMMA ExitKeeps ==
  ASSUME n \in Nat, NEW q \in Bars, NEW t \in Nat, NEW b, Booked(b, q), Owes(b, t)
  PROVE  LET c == ScheduledExit(b, q) IN Booked(c, q) /\ Owes(c, t)
<1>1. CASE b.pos # Flat /\ b.leave
  <2> DEFINE price == MarketExit(b.pos.side, q.open)
             tr == [pos |-> b.pos, stop |-> b.stop, exit |-> price, why |-> "SCHEDULED", bar |-> n + 1]
             d == Close(b, price, "SCHEDULED")
  <2>1. b \in Books /\ b.pos \in Positions /\ b.queue = <<>> /\ b.pos.side \in {"BUY", "SELL"}
        /\ b.pos.risk \in Nat
    BY <1>1 DEF Booked, Opened, Books, Positions
  <2>2. q.open \in Nat /\ Worth(b.pos.side, q.open) \in Int /\ Slippage \in Nat
        /\ WorthOfLevel(b.pos.side, b.pos.risk) \in Int
    BY <2>1, BarTyped, WorthTyped
  <2>3. price \in Int /\ Worth(b.pos.side, q.open) <= WorthOfLevel(b.pos.side, price) + Slippage
        /\ WorthOfLevel(b.pos.side, price) \in Int
    <3>1. price \in Int /\ Worth(b.pos.side, q.open) <= WorthOfLevel(b.pos.side, price) + Slippage
      BY <2>1, <2>2, MarketExitIs
    <3>2. QED
      BY <3>1 DEF WorthOfLevel
  <2>4. tr.pos = b.pos /\ tr.exit = price /\ tr.why = "SCHEDULED"
    OBVIOUS
  <2> HIDE DEF price, tr
  <2>5. RiskKept(tr, q)
    BY <2>2, <2>3, <2>4 DEF RiskKept, Lesser
  <2>6. WorstPath(tr, q)
    BY <2>4 DEF WorstPath
  <2>7. Booked(d, q) /\ d.pos = Flat
    BY <1>1, <2>1, <2>3, <2>5, <2>6, ClosedIsBooked DEF tr
  <2>8. d.queue = <<>> /\ d \in Books
    BY <1>1, <2>1, <2>3, CloseIs
  <2> HIDE DEF d
  <2>9. [d EXCEPT !.queue = <<>>] = d
    BY <2>8 DEF Books
  <2>10. ScheduledExit(b, q) = d
    BY <1>1, <2>9 DEF ScheduledExit, d, price
  <2>11. QED
    BY <2>7, <2>10 DEF Owes
<1>2. CASE ~(b.pos # Flat /\ b.leave)
  BY <1>2 DEF ScheduledExit
<1>3. QED
  BY <1>1, <1>2

(* The test for the rollover is right when the bars are close together: it *)
(* asks whether one 21:00 lies between them.                               *)
LEMMA RolloverDueIs ==
  ASSUME NEW t \in Nat, NEW g \in 1..3
  PROVE  Rollovers(t, t + g) = IF RolloverDue(t, t + g) THEN 1 ELSE 0
<1> DEFINE d == t \div 24
           h == t % 24
<1>1. d \in Nat /\ h \in 0..23 /\ t = 24 * d + h
  OBVIOUS
<1> HIDE DEF d, h
<1>2. CASE h + g < 24
  <2>1. (t + g) \div 24 = d /\ (t + g) % 24 = h + g
    BY <1>1, <1>2
  <2>2. (t + 3) \div 24 = IF h < 21 THEN d ELSE d + 1
    BY <1>1
  <2>3. (t + g + 3) \div 24 = IF h + g < 21 THEN d ELSE d + 1
    BY <1>1, <1>2
  <2>4. QED
    BY <1>1, <1>2, <2>1, <2>2, <2>3 DEF Rollovers, RolloverDue, Hour, Day, d, h
<1>3. CASE h + g >= 24
  <2>1. (t + g) \div 24 = d + 1 /\ (t + g) % 24 = h + g - 24
    BY <1>1, <1>3
  <2>2. (t + 3) \div 24 = d + 1
    BY <1>1, <1>3
  <2>3. (t + g + 3) \div 24 = d + 1
    BY <1>1, <1>3
  <2>4. QED
    BY <1>1, <1>3, <2>1, <2>2, <2>3 DEF Rollovers, RolloverDue, Hour, Day, d, h
<1>4. QED
  BY <1>1, <1>2, <1>3

LEMMA RolloversTyped ==
  ASSUME NEW a \in Nat, NEW b \in Nat, NEW c \in Nat
  PROVE  /\ Rollovers(a, b) \in Int /\ Rollovers(a, a) = 0
         /\ Rollovers(a, c) = Rollovers(a, b) + Rollovers(b, c)
<1> DEFINE x(t) == (t + 3) \div 24
<1>1. x(a) \in Int /\ x(b) \in Int /\ x(c) \in Int
  OBVIOUS
<1>2. /\ Rollovers(a, b) = x(b) - x(a) /\ Rollovers(a, a) = x(a) - x(a)
      /\ Rollovers(a, c) = x(c) - x(a) /\ Rollovers(b, c) = x(c) - x(b)
  BY DEF Rollovers
<1> HIDE DEF x
<1>3. QED
  BY <1>1, <1>2

(* Step 2: what the open position owes is charged.                         *)
LEMMA RolloverKeeps ==
  ASSUME n \in Nat, now \in Nat, NEW q \in Bars, NEW g \in Gaps,
         NEW b, Booked(b, q), Owes(b, now + g)
  PROVE  LET c == Rollover(b, now + g) IN
         Booked(c, q) /\ (c.pos # Flat /\ ShortGaps => Charged(c.pos, now + g))
<1> DEFINE t == now + g
           c == Rollover(b, t)
           due == b.pos # Flat /\ n > 0 /\ RolloverDue(now, t)
           p == [b.pos EXCEPT !.swaps = @ + 1]
<1>1. g \in Nat \ {0} /\ t \in Nat /\ (ShortGaps => g \in 1..3)
  BY BacktesterAssumption DEF ShortGaps
<1>2. ShortGaps => Rollovers(now, t) = IF RolloverDue(now, t) THEN 1 ELSE 0
  BY <1>1, RolloverDueIs
<1>3. b \in Books
  BY DEF Booked
<1>4. CASE b.pos = Flat
  BY <1>4 DEF Rollover
<1>5. CASE b.pos # Flat
  <2>1. /\ b.pos \in Positions /\ b.pos.opened \in Nat /\ b.pos.before \in Nat
        /\ b.pos.swaps \in Nat
    BY <1>3, <1>5 DEF Books, Positions
  <2>2. /\ p \in Positions /\ p.swaps = b.pos.swaps + 1 /\ p.opened = b.pos.opened
        /\ p.before = b.pos.before /\ p.signal = b.pos.signal /\ p.bar = b.pos.bar
        /\ p.type = b.pos.type /\ p.side = b.pos.side /\ p.risk = b.pos.risk
    BY <2>1 DEF Positions
  <2>3. c = IF due THEN [b EXCEPT !.pos = p] ELSE b
    BY DEF Rollover
  <2>4. Owes(b, t)
    OBVIOUS
  <2> HIDE DEF p, c, t
  <2>5. /\ Rollovers(b.pos.opened, t) = Rollovers(b.pos.opened, now) + Rollovers(now, t)
        /\ Rollovers(b.pos.before, t) = Rollovers(b.pos.before, now) + Rollovers(now, t)
        /\ Rollovers(t, t) = 0
        /\ Rollovers(b.pos.opened, now) \in Int /\ Rollovers(b.pos.before, now) \in Int
        /\ Rollovers(now, t) \in Int
    <3>1. t \in Nat /\ now \in Nat
      BY <1>1
    <3>2. Rollovers(t, t) = 0 /\ Rollovers(now, t) \in Int
      BY <3>1, RolloversTyped
    <3>3. ASSUME NEW a \in Nat
          PROVE  Rollovers(a, t) = Rollovers(a, now) + Rollovers(now, t) /\ Rollovers(a, now) \in Int
      BY <3>1, RolloversTyped
    <3>4. QED
      BY <2>1, <3>2, <3>3
  <2>6. CASE due
    <3>1. c.pos = p /\ c.queue = b.queue /\ c.stop = b.stop /\ c.trade = b.trade /\ c \in Books
      BY <1>3, <2>2, <2>3, <2>6 DEF Books
    <3>2. Opened(c, n + 1)
      BY <1>5, <2>2, <3>1 DEF Booked, Opened, Tight
    <3>3. Booked(c, q)
      BY <3>1, <3>2 DEF Booked, Queued, Waits
    <3>4. ASSUME ShortGaps PROVE Charged(p, t)
      <4>1. Rollovers(now, t) = 1
        BY <1>2, <2>6, <3>4
      <4>2. CASE n > 0 /\ Charged(b.pos, now)
        BY <2>1, <2>2, <2>5, <4>1, <4>2 DEF Charged
      <4>3. CASE b.pos.opened = t /\ b.pos.before = now /\ b.pos.swaps = 0
        BY <2>2, <2>5, <4>1, <4>3 DEF Charged
      <4>4. QED
        BY <1>5, <2>4, <3>4, <4>2, <4>3 DEF Owes
    <3>5. QED
      BY <3>1, <3>3, <3>4 DEF c, t
  <2>7. CASE ~due
    <3>1. c = b
      BY <2>3, <2>7
    <3>2. ASSUME ShortGaps PROVE Charged(b.pos, t)
      <4>1. CASE n > 0 /\ Charged(b.pos, now)
        <5>1. Rollovers(now, t) = 0
          BY <1>2, <1>5, <2>7, <3>2, <4>1
        <5>2. QED
          BY <2>1, <2>5, <4>1, <5>1 DEF Charged
      <4>2. CASE b.pos.opened = t /\ b.pos.before = now /\ b.pos.swaps = 0
        <5>1. Rollovers(now, t) >= 0
          BY <1>2, <3>2
        <5>2. QED
          BY <2>5, <4>2, <5>1 DEF Charged
      <4>3. QED
        BY <1>5, <2>4, <3>2, <4>1, <4>2 DEF Owes
    <3>3. QED
      BY <3>1, <3>2 DEF c, t
  <2>8. QED
    BY <2>6, <2>7
<1>6. QED
  BY <1>4, <1>5

(* Step 3: the position ends by its stop or its target, or came through    *)
(* the bar unscathed.                                                      *)
LEMMA HitsKeep ==
  ASSUME n \in Nat, NEW q \in Bars, NEW t \in Nat, NEW b, Booked(b, q),
         b.pos # Flat /\ ShortGaps => Charged(b.pos, t)
  PROVE  LET c == StopOrTarget(b, q) IN
         /\ Booked(c, q)
         /\ c.pos # Flat /\ ShortGaps => Charged(c.pos, t)
         /\ c.pos # Flat =>
              /\ Safe(c, q)
              /\ \A path \in Paths(c.pos.side, q) : Touches(path, c.pos.side, c.stop, c.pos.target) = {}
<1>1. CASE b.pos = Flat
  BY <1>1 DEF StopOrTarget
<1>2. CASE b.pos # Flat
  <2> DEFINE side == b.pos.side
             open == Worth(side, q.open)
             ws == WorthOfLevel(side, b.stop)
             wt == WorthOfLevel(side, b.pos.target)
             wr == WorthOfLevel(side, b.pos.risk)
  <2>1. /\ b \in Books /\ b.pos \in Positions /\ b.queue = <<>> /\ side \in {"BUY", "SELL"}
        /\ b.pos.risk \in Nat /\ b.pos.target \in Nat /\ b.stop \in Nat /\ Tight(b)
    BY <1>2 DEF Booked, Opened, Books, Positions
  <2>2. /\ open \in Int /\ ws \in Int /\ wt \in Int /\ wr \in Int
        /\ Lowest(side, q) \in Int /\ Highest(side, q) \in Int
    BY <2>1, WorthTyped
  <2>3. b.pos.risk # NoPrice => b.stop # NoPrice /\ wr <= ws
    BY <2>1 DEF Tight, WorthOfLevel
  <2>4. /\ StopHit(side, b.stop, q) <=> b.stop # NoPrice /\ Lowest(side, q) <= ws
        /\ StopPrice(side, b.stop, q) \in Int /\ TargetPrice(side, b.pos.target, q) \in Int
        /\ WorthOfLevel(side, StopPrice(side, b.stop, q)) + Slippage = Lesser(open, ws)
        /\ WorthOfLevel(side, TargetPrice(side, b.pos.target, q)) + Slippage = Greater(open, wt)
    BY <2>1, HitIs, ZenonT(40)
  <2>5. \A path \in Paths(side, q) :
           /\ StopHit(side, b.stop, q) =>
                /\ Touches(path, side, b.stop, b.pos.target) # {}
                /\ Lesser(open, ws) <= PathExit(path, side, b.stop, b.pos.target)
           /\ ~StopHit(side, b.stop, q) /\ TargetHit(side, b.pos.target, q) =>
                /\ Touches(path, side, b.stop, b.pos.target) # {}
                /\ Greater(open, wt) <= PathExit(path, side, b.stop, b.pos.target)
           /\ ~StopHit(side, b.stop, q) /\ ~TargetHit(side, b.pos.target, q) =>
                Touches(path, side, b.stop, b.pos.target) = {}
    BY <2>1, WorstOfPaths
  <2> HIDE DEF open, ws, wt, wr
  <2>6. CASE StopHit(side, b.stop, q)
    <3> DEFINE price == StopPrice(side, b.stop, q)
               tr == [pos |-> b.pos, stop |-> b.stop, exit |-> price, why |-> "STOP", bar |-> n + 1]
    <3>1. tr.pos = b.pos /\ tr.exit = price /\ tr.why = "STOP" /\ tr.stop = b.stop
      OBVIOUS
    <3>2. StopOrTarget(b, q) = Close(b, price, "STOP")
      BY <1>2, <2>6 DEF StopOrTarget
    <3>3. price \in Int /\ WorthOfLevel(side, price) + Slippage = Lesser(open, ws)
      BY <2>4
    <3> HIDE DEF price, tr
    <3>4. RiskKept(tr, q)
      <4>1. b.pos.risk # NoPrice => Lesser(open, wr) <= Lesser(open, ws)
        BY <2>2, <2>3 DEF Lesser
      <4>2. QED
        BY <3>1, <3>3, <4>1 DEF RiskKept, open, wr
    <3>5. WorstPath(tr, q)
      BY <2>5, <2>6, <3>1, <3>3 DEF WorstPath
    <3>6. Booked(Close(b, price, "STOP"), q) /\ Close(b, price, "STOP").pos = Flat
      BY <1>2, <2>1, <3>3, <3>4, <3>5, ClosedIsBooked DEF tr
    <3>7. QED
      BY <3>2, <3>6
  <2>7. CASE ~StopHit(side, b.stop, q) /\ TargetHit(side, b.pos.target, q)
    <3> DEFINE price == TargetPrice(side, b.pos.target, q)
               tr == [pos |-> b.pos, stop |-> b.stop, exit |-> price, why |-> "TARGET", bar |-> n + 1]
    <3>1. tr.pos = b.pos /\ tr.exit = price /\ tr.why = "TARGET" /\ tr.stop = b.stop
      OBVIOUS
    <3>2. StopOrTarget(b, q) = Close(b, price, "TARGET")
      BY <1>2, <2>7 DEF StopOrTarget
    <3>3. price \in Int /\ WorthOfLevel(side, price) + Slippage = Greater(open, wt)
      BY <2>4
    <3> HIDE DEF price, tr
    <3>4. RiskKept(tr, q)
      <4>1. Lesser(open, wr) <= Greater(open, wt)
        BY <2>2 DEF Lesser, Greater
      <4>2. QED
        BY <3>1, <3>3, <4>1 DEF RiskKept, open, wr
    <3>5. WorstPath(tr, q)
      BY <2>5, <2>7, <3>1, <3>3 DEF WorstPath
    <3>6. Booked(Close(b, price, "TARGET"), q) /\ Close(b, price, "TARGET").pos = Flat
      BY <1>2, <2>1, <3>3, <3>4, <3>5, ClosedIsBooked DEF tr
    <3>7. QED
      BY <3>2, <3>6
  <2>8. CASE ~StopHit(side, b.stop, q) /\ ~TargetHit(side, b.pos.target, q)
    <3>1. StopOrTarget(b, q) = b
      BY <1>2, <2>8 DEF StopOrTarget
    <3>2. b.pos.risk # NoPrice => wr < Lowest(side, q)
      BY <2>2, <2>3, <2>4, <2>8
    <3>3. Safe(b, q)
      BY <2>1, <3>2, BarTyped DEF Safe, wr, Lowest, Worth, WorthOfLevel, Ask
    <3>4. QED
      BY <2>5, <2>8, <3>1, <3>3
  <2>9. QED
    BY <2>6, <2>7, <2>8
<1>3. QED
  BY <1>1, <1>2


LEMMA RowKeeps ==
  ASSUME BacktestInv, NEW q \in Bars, NEW g \in Gaps, Row(q, now + g)
  PROVE  BacktestInv'
<1> DEFINE t == now + g
           b1 == ResolvePending(Book, q, t)
           b2 == ScheduledExit(b1, q)
           b3 == Rollover(b2, t)
           b4 == StopOrTarget(b3, q)
<1>1. /\ phase = "market" /\ SetBook(b4) /\ bar' = q /\ now' = t /\ n' = n + 1
      /\ phase' = "strategy"
  BY DEF Row
<1>2. n \in Nat /\ now \in Nat /\ g \in Nat \ {0} /\ t \in Nat
  BY BacktesterAssumption DEF BacktestInv, BacktestType
<1>3. Booked(b1, q) /\ Owes(b1, t)
  BY <1>1, <1>2, ResolveKeeps
<1> HIDE DEF b1
<1>4. Booked(b2, q) /\ Owes(b2, t)
  BY <1>2, <1>3, ExitKeeps
<1> HIDE DEF b2
<1>5. Booked(b3, q) /\ (b3.pos # Flat /\ ShortGaps => Charged(b3.pos, t))
  BY <1>2, <1>4, RolloverKeeps
<1> HIDE DEF b3, t
<1>6. /\ Booked(b4, q)
      /\ b4.pos # Flat /\ ShortGaps => Charged(b4.pos, t)
      /\ b4.pos # Flat =>
           /\ Safe(b4, q)
           /\ \A path \in Paths(b4.pos.side, q) :
                Touches(path, b4.pos.side, b4.stop, b4.pos.target) = {}
  BY <1>2, <1>5, HitsKeep
<1> HIDE DEF b4
<1>7. /\ b4 \in Books
      /\ queue' = b4.queue /\ pos' = b4.pos /\ stop' = b4.stop /\ leave' = b4.leave
      /\ trade' = b4.trade
  BY <1>1, <1>6 DEF SetBook, Booked
<1>8. Book' = b4
  BY <1>7 DEF Book, Books
<1>9. BacktestType'
  BY <1>1, <1>2, <1>7, <1>8 DEF BacktestType
<1>10. Opened(Book', n') /\ Queued(Book', n')
  BY <1>1, <1>6, <1>8 DEF Booked
<1>11. (trade # Flat => trade.bar <= n)' /\ (pos # Flat => n > 0 /\ Safe(Book, bar))'
  <2>1. trade' # Flat => trade'.bar <= n'
    BY <1>1, <1>6, <1>7 DEF Booked
  <2>2. n' > 0
    BY <1>1, <1>2
  <2>3. pos' # Flat => Safe(b4, q)
    BY <1>6, <1>7
  <2>4. pos' # Flat => Safe(Book', bar')
    BY <1>1, <1>8, <2>3
  <2>5. QED
    BY <2>1, <2>2, <2>4
<1>12. (pos # Flat /\ ShortGaps => Charged(pos, now))'
  BY <1>1, <1>6, <1>7 DEF ShortGaps
<1>13. Waits(Book') /\ phase' # "market"
  BY <1>1, <1>6, <1>8 DEF Booked
<1>14. trade' # Flat /\ trade'.bar = n' => RiskKept(trade', bar') /\ WorstPath(trade', bar')
  BY <1>1, <1>6, <1>7 DEF Booked
<1>15. pos' # Flat =>
         \A path \in Paths(pos'.side, bar') : Touches(path, pos'.side, stop', pos'.target) = {}
  BY <1>1, <1>6, <1>7
<1>16. QED
  BY <1>9, <1>10, <1>11, <1>12, <1>13, <1>14, <1>15 DEF BacktestInv

(* What the strategy emits while flat waits behind an order that waits     *)
(* already, and is of this bar.                                            *)
LEMMA SignalKeeps ==
  ASSUME BacktestInv, NEW emitted \in Emissions, Signal(emitted)
  PROVE  BacktestInv'
<1> DEFINE more == [k \in DOMAIN emitted |-> [intent |-> emitted[k], at |-> n]]
<1>1. /\ phase = "strategy" /\ pos = Flat /\ queue' = queue \o more /\ phase' = "market"
      /\ UNCHANGED <<n, now, bar, pos, stop, leave, trade>>
  BY DEF Signal
<1>2. n \in Nat /\ Book \in Books /\ Book.queue = queue /\ queue \in Queues /\ Book.trade = trade
  BY DEF BacktestInv, BacktestType, Book, Books
<1>3. PICK m \in 0..MaxSignals : emitted \in [1..m -> Intents]
  BY DEF Emissions
<1>4. m \in Nat /\ DOMAIN emitted = 1..m
  BY <1>3, BacktesterAssumption
<1>5. more \in Queues /\ Len(more) = m /\ \A k \in 1..m : more[k].at = n
  <2>1. more \in [1..m -> [intent: Intents, at: Nat]]
    BY <1>2, <1>3
  <2>2. \A k \in 1..m : more[k].at = n
    BY <1>4
  <2> HIDE DEF more
  <2>3. more \in Queues /\ Len(more) = m
    <3>1. more \in Queues
      <4>1. ASSUME NEW S, NEW k \in Nat, NEW f \in [1..k -> S] PROVE f \in Seq(S)
        <5>1. f \in UNION {[1..j -> S] : j \in Nat}
          BY Zenon
        <5>2. QED
          BY <5>1, SeqDef, Zenon
      <4>2. QED
        BY <1>4, <2>1, <4>1, Zenon DEF Queues
    <3>2. DOMAIN more = 1..m /\ DOMAIN more = 1..Len(more) /\ Len(more) \in Nat
      BY <2>1, <3>1 DEF Queues
    <3>3. QED
      BY <1>4, <3>1, <3>2
  <2>4. QED
    BY <2>2, <2>3
<1> HIDE DEF more
<1>6. /\ queue' \in Queues /\ Len(queue') = Len(queue) + m
      /\ \A k \in 1..Len(queue') :
           queue'[k] = IF k <= Len(queue) THEN queue[k] ELSE more[k - Len(queue)]
  <2> DEFINE Items == [intent: Intents, at: Nat]
  <2>1. queue \in Seq(Items) /\ more \in Seq(Items) /\ Queues = Seq(Items)
    BY <1>2, <1>5 DEF Queues
  <2> HIDE DEF Items
  <2>2. /\ queue \o more \in Seq(Items) /\ Len(queue \o more) = Len(queue) + Len(more)
        /\ \A k \in 1..(Len(queue) + Len(more)) :
             (queue \o more)[k] = IF k <= Len(queue) THEN queue[k] ELSE more[k - Len(queue)]
    BY <2>1, ConcatProperties
  <2>3. QED
    BY <1>1, <1>5, <2>1, <2>2
<1>7. Len(queue) \in Nat /\ Len(queue') \in Nat
      /\ DOMAIN queue = 1..Len(queue) /\ DOMAIN queue' = 1..Len(queue')
  BY <1>2, <1>6 DEF Queues
<1>8. Book' \in Books /\ Book'.queue = queue' /\ Book'.trade = trade /\ Book'.pos = pos
  <2>1. Book' = [queue |-> queue', pos |-> pos, stop |-> stop, leave |-> leave, trade |-> trade]
    BY <1>1 DEF Book
  <2>2. /\ pos \in Positions \cup {Flat} /\ stop \in Nat /\ leave \in BOOLEAN
        /\ trade \in TradeRecords \cup {Flat}
    BY <1>2 DEF Book, Books
  <2>3. QED
    BY <1>6, <2>1, <2>2 DEF Books
<1>9. BacktestType'
  BY <1>1, <1>8 DEF BacktestInv, BacktestType
<1>10. Queued(Book', n')
  <2>1. \A k \in DOMAIN queue :
          queue[k].at <= n /\ (trade # Flat => trade.bar <= queue[k].at)
    BY <1>2 DEF BacktestInv, Queued
  <2>2. trade # Flat => trade.bar <= n
    BY DEF BacktestInv
  <2>3. ASSUME NEW k \in DOMAIN queue'
        PROVE  queue'[k].at <= n /\ (trade # Flat => trade.bar <= queue'[k].at)
    <3>1. CASE k <= Len(queue)
      BY <1>6, <1>7, <2>1, <2>3, <3>1
    <3>2. CASE ~(k <= Len(queue))
      <4>1. k - Len(queue) \in 1..m
        BY <1>4, <1>6, <1>7, <2>3, <3>2
      <4>2. queue'[k].at = n
        BY <1>5, <1>6, <1>7, <2>3, <3>2, <4>1
      <4>3. QED
        BY <1>2, <2>2, <4>2
    <3>3. QED
      BY <3>1, <3>2
  <2>4. QED
    BY <1>1, <1>8, <2>3 DEF Queued
<1>11. Opened(Book', n')
  BY <1>1, <1>8 DEF Opened
<1>12. queue' # <<>> => queue'[1].intent.type = "LIMIT" \/ queue'[1].at = n'
  <2>1. queue = <<>> \/ (Len(queue) = 1 /\ queue[1].intent.type = "LIMIT")
    BY <1>1, <1>2 DEF BacktestInv, Waits
  <2>2. CASE queue = <<>>
    <3>1. Len(queue) = 0
      BY <2>2
    <3>2. queue' # <<>> => m >= 1 /\ queue'[1] = more[1]
      BY <1>4, <1>6, <1>7, <3>1
    <3>3. QED
      BY <1>1, <1>4, <1>5, <3>2
  <2>3. CASE Len(queue) = 1 /\ queue[1].intent.type = "LIMIT"
    BY <1>4, <1>6, <1>7, <2>3
  <2>4. QED
    BY <2>1, <2>2, <2>3
<1>13. (trade # Flat /\ trade.bar = n => RiskKept(trade, bar))'
  BY <1>1 DEF BacktestInv
<1>14. QED
  BY <1>1, <1>9, <1>10, <1>11, <1>12, <1>13 DEF BacktestInv

(* A stop only moves towards the price.                                    *)
LEMMA ManageKeeps ==
  ASSUME BacktestInv, NEW proposed \in Levels \cup {NoPrice}, NEW exit \in BOOLEAN,
         Manage(proposed, exit)
  PROVE  BacktestInv'
<1>1. /\ phase = "strategy" /\ pos # Flat /\ phase' = "market" /\ leave' = (leave \/ exit)
      /\ stop' = IF Ratchets(pos.side, proposed) THEN proposed ELSE stop
      /\ UNCHANGED <<n, now, bar, queue, pos, trade>>
  BY DEF Manage
<1>2. /\ Book \in Books /\ Book.queue = queue /\ Book.pos = pos /\ Book.trade = trade
      /\ Book.stop = stop /\ leave \in BOOLEAN /\ stop \in Nat
      /\ pos \in Positions /\ pos.side \in {"BUY", "SELL"} /\ pos.risk \in Nat
  BY <1>1 DEF BacktestInv, BacktestType, Book, Books, Positions
<1>3. proposed \in Nat
  BY BacktesterAssumption DEF Levels, Ask, NoPrice, Price
<1>4. stop' \in Nat /\ leave' \in BOOLEAN
  BY <1>1, <1>2, <1>3
<1>5. /\ Book' \in Books /\ Book'.queue = queue /\ Book'.pos = pos /\ Book'.trade = trade
      /\ Book'.stop = stop'
  <2>1. Book' = [queue |-> queue, pos |-> pos, stop |-> stop', leave |-> leave', trade |-> trade]
    BY <1>1 DEF Book
  <2>2. /\ queue \in Queues /\ pos \in Positions \cup {Flat} /\ trade \in TradeRecords \cup {Flat}
    BY <1>2 DEF Book, Books
  <2>3. QED
    BY <1>4, <2>1, <2>2 DEF Books
<1>6. Tight(Book')
  <2>1. Tight(Book)
    BY <1>1, <1>2 DEF BacktestInv, Opened
  <2>2. Ratchets(pos.side, proposed) =>
          /\ proposed # NoPrice
          /\ stop # NoPrice => IF pos.side = "BUY" THEN proposed > stop ELSE proposed < stop
    BY <1>2 DEF Ratchets
  <2>3. pos.risk # NoPrice =>
          /\ stop # NoPrice
          /\ IF pos.side = "BUY" THEN pos.risk <= stop ELSE stop <= pos.risk
    BY <1>2, <2>1 DEF Tight
  <2>4. pos.risk # NoPrice =>
          /\ stop' # NoPrice
          /\ IF pos.side = "BUY" THEN pos.risk <= stop' ELSE stop' <= pos.risk
    BY <1>1, <1>2, <1>3, <2>2, <2>3
  <2>5. QED
    BY <1>5, <2>4 DEF Tight
<1>7. Opened(Book', n') /\ Queued(Book', n')
  BY <1>1, <1>2, <1>5, <1>6 DEF BacktestInv, Opened, Queued
<1>8. BacktestType'
  BY <1>1, <1>5 DEF BacktestInv, BacktestType
<1>9. (pos # Flat => n > 0 /\ Safe(Book, bar))'
  BY <1>1, <1>2, <1>5 DEF BacktestInv, Safe
<1>10. (pos # Flat /\ ShortGaps => Charged(pos, now))'
  BY <1>1 DEF BacktestInv, ShortGaps
<1>11. queue' = <<>>
  BY <1>1, <1>2 DEF BacktestInv, Opened
<1>12. (trade # Flat => trade.bar <= n)' /\ (trade # Flat /\ trade.bar = n => RiskKept(trade, bar))'
  BY <1>1 DEF BacktestInv
<1>13. QED
  BY <1>1, <1>7, <1>8, <1>9, <1>10, <1>11, <1>12 DEF BacktestInv

(* The last close is beyond the risk of a position that came through.      *)
LEMMA LiquidateKeeps == ASSUME BacktestInv, Liquidate PROVE BacktestInv'
<1>1. /\ phase = "market" /\ n > 0 /\ phase' = "done" /\ UNCHANGED <<n, now, bar, queue, stop, leave>>
      /\ pos' = Flat
      /\ pos = Flat => trade' = trade
  BY DEF Liquidate
<1>2. /\ Book \in Books /\ n \in Nat /\ bar \in Bars /\ Book.queue = queue /\ Book.pos = pos
      /\ Book.trade = trade /\ Book.stop = stop /\ stop \in Nat
  BY <1>1 DEF BacktestInv, BacktestType, Book, Books
<1>3. CASE pos = Flat
  <2>1. Book' = Book
    BY <1>1, <1>3 DEF Book
  <2>2. QED
    BY <1>1, <1>3, <2>1 DEF BacktestInv, BacktestType
<1>4. CASE pos # Flat
  <2> DEFINE price == MarketExit(pos.side, bar.close)
             tr == [pos |-> pos, stop |-> stop, why |-> "END", bar |-> n, exit |-> price]
  <2>1. trade' = tr
    BY <1>4 DEF Liquidate
  <2>2. pos \in Positions /\ pos.side \in {"BUY", "SELL"} /\ pos.risk \in Nat
    BY <1>2, <1>4 DEF Books, Positions
  <2>3. /\ bar.close \in Nat /\ Worth(pos.side, bar.open) \in Int /\ Slippage \in Nat
        /\ Worth(pos.side, bar.close) \in Int
        /\ WorthOfLevel(pos.side, pos.risk) \in Int
    BY <1>2, <2>2, BarTyped, WorthTyped DEF Worth, Ask
  <2>4. price \in Int /\ Worth(pos.side, bar.close) <= WorthOfLevel(pos.side, price) + Slippage
    BY <2>2, <2>3, MarketExitIs
  <2>5. WorthOfLevel(pos.side, price) \in Int
    BY <2>4 DEF WorthOfLevel
  <2>6. /\ tr.pos = pos /\ tr.exit = price /\ tr.bar = n /\ tr.why = "END"
        /\ price \in Int => tr \in TradeRecords
    BY <1>2, <2>2 DEF TradeRecords
  <2> HIDE DEF price, tr
  <2>7. pos.risk # NoPrice => WorthOfLevel(pos.side, pos.risk) <= Worth(pos.side, bar.close)
    <3>1. Safe(Book, bar)
      BY <1>4 DEF BacktestInv
    <3>2. QED
      BY <1>2, <1>4, <2>2, <3>1, BarTyped DEF Safe, Worth, WorthOfLevel, Ask
  <2>8. RiskKept(tr, bar)
    BY <2>3, <2>4, <2>5, <2>6, <2>7 DEF RiskKept, Lesser
  <2>9. Book' \in Books /\ Book'.queue = <<>> /\ Book'.pos = Flat
    <3>1. Book' = [queue |-> queue, pos |-> Flat, stop |-> stop, leave |-> leave, trade |-> tr]
      BY <1>1, <2>1 DEF Book
    <3>2. queue = <<>>
      BY <1>2, <1>4 DEF BacktestInv, Opened
    <3>3. queue \in Queues /\ leave \in BOOLEAN
      BY <1>2 DEF Book, Books
    <3>4. QED
      BY <1>2, <2>4, <2>6, <3>1, <3>2, <3>3 DEF Books
  <2>10. Opened(Book', n') /\ Queued(Book', n')
    BY <2>9 DEF Opened, Queued
  <2>11. BacktestType'
    BY <1>1, <1>2, <2>9 DEF BacktestInv, BacktestType
  <2>12. trade' # Flat => trade'.bar <= n' /\ RiskKept(trade', bar')
    BY <1>1, <1>2, <2>1, <2>6, <2>8
  <2>13. QED
    BY <1>1, <2>10, <2>11, <2>12 DEF BacktestInv
<1>5. QED
  BY <1>3, <1>4

-----------------------------------------------------------------------------
LEMMA BacktestStarts == BacktestInit => BacktestInv
<1> SUFFICES ASSUME BacktestInit PROVE BacktestInv
  OBVIOUS
<1>1. /\ phase = "market" /\ n = 0 /\ now \in Nat /\ bar = Flat /\ queue = <<>> /\ pos = Flat
      /\ stop = NoPrice /\ leave = FALSE /\ trade = Flat
  BY BacktesterAssumption DEF BacktestInit
<1>2. /\ Book \in Books /\ Book.queue = <<>> /\ Book.pos = Flat
  <2>1. <<>> \in Queues
    BY DEF Queues
  <2>2. stop \in Nat
    BY <1>1 DEF NoPrice
  <2>3. leave \in BOOLEAN
    BY <1>1
  <2>4. QED
    BY <1>1, <2>1, <2>2, <2>3 DEF Book, Books
<1>3. BacktestType /\ Opened(Book, n) /\ Queued(Book, n)
  BY <1>1, <1>2 DEF BacktestType, Opened, Queued
<1>4. QED
  BY <1>1, <1>3 DEF BacktestInv

(* A backtest books what its bars allow, for any prices, gaps and answers  *)
(* of the strategy (backtester.py:51-571): fills come from earlier bars,   *)
(* exits are the worst a walk through the bar gives, no trade loses more   *)
(* than its first stop or the gap through it, and every rollover is        *)
(* charged while the bars are at most three hours apart.                   *)
THEOREM BooksAreHonest == BacktestSpec => []BookedAsTraded
<1>1. BacktestInit => BacktestInv
  BY BacktestStarts
<1>2. BacktestInv /\ [BacktestNext]_backtestVars => BacktestInv'
  <2> SUFFICES ASSUME BacktestInv, [BacktestNext]_backtestVars PROVE BacktestInv'
    OBVIOUS
  <2>1. ASSUME NEW q \in Bars, NEW g \in Gaps, Row(q, now + g) PROVE BacktestInv'
    BY <2>1, RowKeeps
  <2>2. ASSUME NEW emitted \in Emissions, Signal(emitted) PROVE BacktestInv'
    BY <2>2, SignalKeeps
  <2>3. ASSUME NEW proposed \in Levels \cup {NoPrice}, NEW exit \in BOOLEAN, Manage(proposed, exit)
        PROVE  BacktestInv'
    BY <2>3, ManageKeeps
  <2>4. CASE Liquidate
    BY <2>4, LiquidateKeeps
  <2>5. CASE UNCHANGED backtestVars
    <3>1. UNCHANGED <<phase, n, now, bar, queue, pos, stop, leave, trade>>
      BY <2>5 DEF backtestVars
    <3>2. Book' = Book
      BY <3>1 DEF Book
    <3>3. BacktestType'
      BY <3>1, <3>2 DEF BacktestInv, BacktestType
    <3>4. QED
      BY <3>1, <3>2, <3>3 DEF BacktestInv, ShortGaps
  <2>6. QED
    BY <2>1, <2>2, <2>3, <2>4, <2>5 DEF BacktestNext
<1>3. BacktestInv => BookedAsTraded
  <2> SUFFICES ASSUME BacktestInv PROVE BookedAsTraded
    OBVIOUS
  <2>1. /\ Book \in Books /\ Book.pos = pos /\ Book.trade = trade
        /\ pos # Flat => pos \in Positions
        /\ trade # Flat => trade \in TradeRecords
    BY DEF BacktestInv, BacktestType, Book, Books
  <2>2. NextBarFill
    <3>1. SUFFICES ASSUME pos # Flat
                   PROVE  /\ pos.signal < pos.bar
                          /\ pos.type = "MARKET" => pos.bar = pos.signal + 1
                          /\ trade # Flat => pos.signal >= trade.bar
      BY DEF NextBarFill
    <3>2. pos.signal \in Nat /\ (trade # Flat => trade.bar \in Nat)
      BY <2>1, <3>1 DEF Positions, TradeRecords
    <3>3. QED
      BY <2>1, <3>1, <3>2 DEF BacktestInv, Opened
  <2>3. AdverseFirst
    BY DEF AdverseFirst, JustHit, BacktestInv, WorstPath
  <2>4. RiskHolds
    <3>1. SUFFICES ASSUME trade # Flat, trade.pos.risk # NoPrice, trade.bar = n
                   PROVE  WorthOfLevel(trade.pos.side, trade.exit) + Slippage
                            >= Lesser(Worth(trade.pos.side, bar.open),
                                      WorthOfLevel(trade.pos.side, trade.pos.risk))
      BY DEF RiskHolds
    <3>2. RiskKept(trade, bar)
      BY <3>1 DEF BacktestInv
    <3>3. QED
      BY <3>1, <3>2 DEF RiskKept
  <2>5. RolloversCharged
    BY DEF RolloversCharged, BacktestInv, ShortGaps, Charged
  <2>6. QED
    BY <2>2, <2>3, <2>4, <2>5 DEF BookedAsTraded
<1>4. QED
  BY <1>1, <1>2, <1>3, PTL DEF BacktestSpec

(***************************************************************************)
(* FractalStrategy.                                                        *)
(***************************************************************************)
Instants == 0..LastTime

FeedType ==
  /\ source \in Seq(Instants) /\ groups \in [Timeframes -> Seq(Instants)]
  /\ history \in [Timeframes -> Seq([close: Nat, rows: Seq(Instants)])]

LegFits(l) == l.sequence \in Nat /\ l.direction \in -1..1

StrategyType ==
  /\ state \in [Timeframes -> [trend: -1..1, breaks: Nat, place: 0..100, closed: Nat]]
  /\ LegFits(leg) /\ LegFits(fineLeg)
  /\ \A tf \in Timeframes : state[tf].breaks > 0 => state[tf].trend # 0
  /\ fineLeg.signature # <<>> => /\ fineLeg.signature[3] \in Nat
                                 /\ fineLeg.signature[3] <= state[Finest].breaks

(* Unless it has gone astray, the movement is at the leg of the finest     *)
(* timeframe, by the same direction or the same break.                     *)
InStep ==
  ~Astray => IF state[Finest].breaks > 0 THEN leg.signature = fineLeg.signature
                                         ELSE leg.direction = fineLeg.direction

Passed(t) == t \in Nat /\ source # <<>> /\ t <= source[Len(source)]

(* The leg that has been entered is used up, unless the movement has gone  *)
(* astray since.                                                           *)
Entered ==
  /\ \A t \in lone : Passed(t)
  /\ \A e \in entries :
       /\ e.leg \in Nat /\ e.leg <= fineLeg.sequence /\ Passed(e.at)
       /\ e.leg = fineLeg.sequence => leg.sequence \in used \/ \E t \in lone : e.at <= t

StrategyInv == FeedType /\ StrategyType /\ InStep /\ Entered /\ SecondEntryOnlyAfterLoneClose

-----------------------------------------------------------------------------
(* The edges around an instant                                             *)


-----------------------------------------------------------------------------
(* The edges around an instant                                             *)

LEMMA GreatestNumber ==
  ASSUME NEW top \in Nat, NEW T \in SUBSET (0..top), T # {}
  PROVE  \E greatest \in T : \A other \in T : other <= greatest
<1> DEFINE U == {top - x : x \in T}
<1>1. U \in SUBSET Nat /\ U # {}
  <2>1. \A x \in T : top - x \in Nat
    OBVIOUS
  <2>2. QED
    BY <2>1, Zenon
<1>2. PICK least \in U : \A other \in U : least <= other
  BY <1>1, LeastNumber
<1>3. PICK greatest \in T : least = top - greatest
  BY <1>2
<1>4. \A other \in T : top - other \in U
  OBVIOUS
<1>5. \A other \in T : top - greatest <= top - other
  BY <1>2, <1>3, <1>4
<1>6. QED
  BY <1>3, <1>5

LEMMA GreatestIsMax ==
  ASSUME NEW top \in Nat, NEW T \in SUBSET (0..top), T # {}
  PROVE  Max(T) \in T /\ \A x \in T : x <= Max(T)
<1>1. PICK greatest \in T : \A other \in T : other <= greatest
  BY GreatestNumber
<1>2. \A other \in T : greatest >= other
  BY <1>1
<1>3. Max(T) \in T /\ \A x \in T : Max(T) >= x
  BY <1>2, Zenon DEF Max
<1>4. QED
  BY <1>3

(* A bucket begins with the last edge so far and ends with the next one.   *)
LEMMA EdgesAround ==
  ASSUME NEW tf \in Timeframes, NEW t \in Instants
  PROVE  /\ BucketStart[tf][t] \in Edges[tf] /\ BucketStart[tf][t] \in Nat /\ BucketStart[tf][t] <= t
         /\ \A e \in Edges[tf] : e <= t => e <= BucketStart[tf][t]
         /\ BucketEnd[tf][t] \in Edges[tf] /\ BucketEnd[tf][t] > t
         /\ \A e \in Edges[tf] : e > t => BucketEnd[tf][t] <= e
<1> DEFINE before == {e \in Edges[tf] : e <= t}
           after == {e \in Edges[tf] : e > t}
<1>1. /\ t \in Nat /\ t <= LastTime /\ LastTime \in Nat
      /\ Edges[tf] \subseteq Nat /\ 0 \in Edges[tf] /\ \E e \in Edges[tf] : e > LastTime
  BY FeedAssumption DEF Instants
<1>2. before \in SUBSET (0..t) /\ before # {} /\ after \in SUBSET Nat /\ after # {}
  BY <1>1
<1>3. BucketStart[tf][t] = Max(before) /\ BucketEnd[tf][t] = Min(after)
  <2>1. t \in 0..LastTime
    BY DEF Instants
  <2>2. BucketStart[tf][t] = Max(before)
    BY <2>1, Zenon DEF BucketStart
  <2>3. BucketEnd[tf][t] = Min(after)
    BY <2>1, Zenon DEF BucketEnd
  <2>4. QED
    BY <2>2, <2>3
<1> HIDE DEF before, after
<1>4. Max(before) \in before /\ \A e \in before : e <= Max(before)
  BY <1>1, <1>2, GreatestIsMax
<1>5. Min(after) \in after /\ \A e \in after : Min(after) <= e
  <2>1. PICK least \in after : \A other \in after : least <= other
    BY <1>2, LeastNumber
  <2>2. QED
    BY <2>1, Zenon DEF Min
<1>6. QED
  BY <1>1, <1>3, <1>4, <1>5 DEF before, after

(* Bars of one bucket end with the same edge.                              *)
LEMMA SameBucket ==
  ASSUME NEW tf \in Timeframes, NEW a \in Instants, NEW b \in Instants,
         BucketStart[tf][a] = BucketStart[tf][b]
  PROVE  BucketEnd[tf][a] = BucketEnd[tf][b]
<1>1. ASSUME NEW x \in Instants, NEW y \in Instants, BucketStart[tf][x] = BucketStart[tf][y]
      PROVE  BucketEnd[tf][x] <= BucketEnd[tf][y]
  <2>1. /\ BucketEnd[tf][y] \in Edges[tf] /\ BucketEnd[tf][y] > y
        /\ Edges[tf] \subseteq Nat /\ x \in Nat /\ y \in Nat
        /\ BucketStart[tf][y] \in Nat /\ BucketStart[tf][y] <= y
    <3>1. /\ Edges[tf] \subseteq Nat /\ x \in Nat /\ y \in Nat
      BY <1>1, FeedAssumption DEF Instants
    <3>2. QED
      BY <1>1, <3>1, EdgesAround
  <2>2. BucketEnd[tf][y] > x
    <3>1. ~(BucketEnd[tf][y] <= x)
      <4>1. ASSUME BucketEnd[tf][y] <= x PROVE FALSE
        <5>1. BucketEnd[tf][y] <= BucketStart[tf][x]
          BY <1>1, <2>1, <4>1, EdgesAround
        <5>2. QED
          BY <1>1, <2>1, <5>1
      <4>2. QED
        BY <4>1
    <3>2. QED
      BY <2>1, <3>1
  <2>3. QED
    BY <1>1, <2>1, <2>2, EdgesAround
<1>2. BucketEnd[tf][a] \in Nat /\ BucketEnd[tf][b] \in Nat
  BY EdgesAround, FeedAssumption
<1>3. BucketEnd[tf][a] <= BucketEnd[tf][b] /\ BucketEnd[tf][b] <= BucketEnd[tf][a]
  BY <1>1
<1>4. QED
  BY <1>2, <1>3

(***************************************************************************)
(* The feed                                                                *)
(***************************************************************************)
LEMMA OneOrNone ==
  ASSUME NEW S, NEW c \in S, NEW s, s = <<>> \/ s = <<c>>
  PROVE  s \in Seq(S)
<1>1. <<>> \in Seq(S) /\ <<c>> \in Seq(S)
  OBVIOUS
<1>2. QED
  BY <1>1, Zenon

LEMMA CandleFits ==
  ASSUME NEW tf \in Timeframes, NEW rows \in Seq(Instants), rows # <<>>
  PROVE  /\ Candle(tf, rows) \in [close: Nat, rows: Seq(Instants)]
         /\ Candle(tf, rows).close = BucketEnd[tf][Head(rows)]
<1>1. Head(rows) \in Instants
  OBVIOUS
<1>2. BucketEnd[tf][Head(rows)] \in Nat
  BY <1>1, EdgesAround, FeedAssumption
<1>3. QED
  BY <1>2 DEF Candle

LEMMA RowsFit ==
  ASSUME FeedType, NEW tf \in Timeframes, NEW t \in Instants
  PROVE  /\ Rows(tf, t) \in Seq(Instants) /\ Rows(tf, t) # <<>>
         /\ BucketEnd[tf][Head(Rows(tf, t))] = BucketEnd[tf][t]
<1>1. groups[tf] \in Seq(Instants)
  BY DEF FeedType
<1>2. CASE Stale(tf, t) \/ groups[tf] = <<>>
  <2>1. Rows(tf, t) = <<t>>
    <3>1. CASE Stale(tf, t)
      BY <3>1 DEF Rows
    <3>2. CASE ~Stale(tf, t)
      <4>1. Rows(tf, t) = Append(<<>>, t)
        BY <1>2, <3>2 DEF Rows
      <4>2. QED
        BY <4>1
    <3>3. QED
      BY <3>1, <3>2
  <2>2. QED
    BY <2>1
<1>3. CASE ~Stale(tf, t) /\ groups[tf] # <<>>
  <2>1. Rows(tf, t) = Append(groups[tf], t)
    BY <1>3 DEF Rows
  <2>2. /\ Rows(tf, t) \in Seq(Instants) /\ Rows(tf, t) # <<>>
        /\ Head(Rows(tf, t)) = Head(groups[tf]) /\ Head(groups[tf]) \in Instants
    BY <1>1, <1>3, <2>1
  <2>3. BucketStart[tf][Head(groups[tf])] = BucketStart[tf][t]
    BY <1>3 DEF Stale
  <2>4. QED
    BY <2>2, <2>3, SameBucket
<1>4. QED
  BY <1>2, <1>3

(* A bar is later than all before it.                                      *)
LEMMA ArrivalIsLater ==
  ASSUME FeedType, NEW t \in Arrivals
  PROVE  t \in Instants /\ t \in Nat /\ \A s : Passed(s) => s < t
<1>1. t \in Instants /\ LastTime \in Nat
  BY FeedAssumption DEF Arrivals, Instants
<1>2. t \in Nat
  BY <1>1 DEF Instants
<1>3. ASSUME NEW s, Passed(s) PROVE s < t
  <2>1. source # <<>> /\ s \in Nat /\ s <= source[Len(source)]
    BY <1>3 DEF Passed
  <2>2. t - source[Len(source)] \in FeedGaps
    BY <2>1 DEF Arrivals
  <2>3. source[Len(source)] \in Instants
    BY <2>1 DEF FeedType
  <2>4. source[Len(source)] \in Nat
    BY <1>1, <2>3 DEF Instants
  <2>5. t - source[Len(source)] \in Nat \ {0}
    BY <2>2, FeedAssumption
  <2>6. QED
    BY <1>2, <2>1, <2>4, <2>5
<1>4. QED
  BY <1>1, <1>2, <1>3

LEMMA FeedStep ==
  ASSUME FeedType, NEW t \in Arrivals, Update(t)
  PROVE  /\ FeedType' /\ source' # <<>> /\ source'[Len(source')] = t
         /\ \A s : Passed(s) => Passed(s)'
         /\ Passed(t)'
<1> DEFINE Candles == [close: Nat, rows: Seq(Instants)]
           stale(tf) == IF Stale(tf, t) THEN <<Candle(tf, groups[tf])>> ELSE <<>>
           complete(tf) == IF Complete(tf, t) THEN <<Candle(tf, Rows(tf, t))>> ELSE <<>>
<1>1. t \in Instants /\ t \in Nat /\ \A s : Passed(s) => s < t
  BY ArrivalIsLater
<1>2. source' = Append(source, t) /\ source \in Seq(Instants)
  BY DEF Update, FeedType
<1>3. source' \in Seq(Instants) /\ source' # <<>> /\ source'[Len(source')] = t
  BY <1>1, <1>2
<1>4. groups' \in [Timeframes -> Seq(Instants)]
  <2>1. \A tf \in Timeframes : Rows(tf, t) \in Seq(Instants)
    BY <1>1, RowsFit
  <2>2. QED
    BY <2>1 DEF Update
<1>5. history' \in [Timeframes -> Seq(Candles)]
  <2>1. ASSUME NEW tf \in Timeframes
        PROVE  history[tf] \o stale(tf) \o complete(tf) \in Seq(Candles)
    <3>1. history[tf] \in Seq(Candles) /\ groups[tf] \in Seq(Instants)
      BY <2>1 DEF FeedType
    <3>2. stale(tf) \in Seq(Candles)
      <4>1. CASE Stale(tf, t)
        <5>1. Candle(tf, groups[tf]) \in Candles
          BY <2>1, <3>1, <4>1, CandleFits DEF Stale
        <5>2. QED
          BY <4>1, <5>1
      <4>2. CASE ~Stale(tf, t)
        BY <4>2
      <4>3. QED
        BY <4>1, <4>2
    <3>3. complete(tf) \in Seq(Candles)
      <4>1. Candle(tf, Rows(tf, t)) \in Candles
        BY <1>1, <2>1, RowsFit, CandleFits
      <4>2. complete(tf) = <<>> \/ complete(tf) = <<Candle(tf, Rows(tf, t))>>
        OBVIOUS
      <4> HIDE DEF Candles, complete
      <4>3. QED
        BY <4>1, <4>2, OneOrNone, Zenon
    <3> HIDE DEF Candles, stale, complete
    <3>4. QED
      BY <3>1, <3>2, <3>3
  <2>2. history' = [tf \in Timeframes |-> history[tf] \o stale(tf) \o complete(tf)]
    BY DEF Update
  <2> HIDE DEF Candles, stale, complete
  <2>3. QED
    BY <2>1, <2>2
<1>6. Passed(t)'
  BY <1>1, <1>3 DEF Passed
<1>7. ASSUME NEW s, Passed(s) PROVE Passed(s)'
  <2>1. s \in Nat /\ s < t
    BY <1>1, <1>7 DEF Passed
  <2>2. QED
    BY <1>1, <1>3, <2>1 DEF Passed
<1>8. FeedType'
  BY <1>3, <1>4, <1>5 DEF FeedType
<1>9. QED
  BY <1>3, <1>6, <1>7, <1>8

(* A timeframe that closes has a candle; without a gap it ends now.        *)
LEMMA ClosedNow ==
  ASSUME FeedType, NEW t \in Arrivals, Update(t), NEW tf \in Closing(t)
  PROVE  /\ history'[tf][Len(history'[tf])].close \in Nat
         /\ ~Stale(tf, t) => /\ t + 1 \in Edges[tf]
                             /\ history'[tf][Len(history'[tf])].close = t + 1
<1> DEFINE Candles == [close: Nat, rows: Seq(Instants)]
           stale == IF Stale(tf, t) THEN <<Candle(tf, groups[tf])>> ELSE <<>>
           complete == IF Complete(tf, t) THEN <<Candle(tf, Rows(tf, t))>> ELSE <<>>
<1>1. t \in Instants /\ tf \in Timeframes /\ (Stale(tf, t) \/ Complete(tf, t))
  BY ArrivalIsLater DEF Closing
<1>2. history'[tf] = history[tf] \o stale \o complete /\ history[tf] \in Seq(Candles)
  BY <1>1 DEF Update, FeedType
<1>3. history'[tf] \in Seq(Candles)
  BY <1>1, FeedStep DEF FeedType
<1>4. history'[tf] # <<>>
  <2>1. stale \in Seq(Candles)
    <3>1. CASE Stale(tf, t)
      <4>1. groups[tf] \in Seq(Instants) /\ groups[tf] # <<>>
        BY <1>1, <3>1 DEF FeedType, Stale
      <4>2. Candle(tf, groups[tf]) \in Candles
        BY <1>1, <4>1, CandleFits
      <4>3. QED
        BY <3>1, <4>2
    <3>2. CASE ~Stale(tf, t)
      BY <3>2
    <3>3. QED
      BY <3>1, <3>2
  <2>2. complete \in Seq(Candles)
    <3>1. Candle(tf, Rows(tf, t)) \in Candles
      BY <1>1, RowsFit, CandleFits
    <3>2. complete = <<>> \/ complete = <<Candle(tf, Rows(tf, t))>>
      OBVIOUS
    <3> HIDE DEF Candles, complete
    <3>3. QED
      BY <3>1, <3>2, OneOrNone, Zenon
  <2>3. stale # <<>> \/ complete # <<>>
    BY <1>1
  <2> HIDE DEF Candles, stale, complete
  <2>4. QED
    BY <1>2, <2>1, <2>2, <2>3
<1>5. history'[tf][Len(history'[tf])] \in Candles
  <2> HIDE DEF Candles, stale, complete
  <2>1. QED
    BY <1>3, <1>4
<1>6. ASSUME ~Stale(tf, t)
      PROVE  /\ t + 1 \in Edges[tf]
             /\ history'[tf][Len(history'[tf])].close = t + 1
  <2>1. t + 1 = BucketEnd[tf][t]
    BY <1>1, <1>6 DEF Complete
  <2>2. t + 1 \in Edges[tf]
    BY <1>1, <2>1, EdgesAround
  <2>3. history'[tf] = history[tf] \o <<>> \o <<Candle(tf, Rows(tf, t))>>
    BY <1>1, <1>2, <1>6
  <2>4. Candle(tf, Rows(tf, t)) \in Candles /\ Candle(tf, Rows(tf, t)).close = t + 1
    BY <1>1, <2>1, RowsFit, CandleFits
  <2>5. history'[tf] = Append(history[tf], Candle(tf, Rows(tf, t)))
    <3> HIDE DEF Candles, stale, complete
    <3>1. QED
      BY <1>2, <2>3, <2>4
  <2>6. history'[tf][Len(history'[tf])] = Candle(tf, Rows(tf, t))
    <3> HIDE DEF Candles, stale, complete
    <3>1. QED
      BY <1>2, <2>4, <2>5
  <2>7. QED
    BY <2>2, <2>4, <2>6
<1>7. QED
  BY <1>5, <1>6

(***************************************************************************)
(* Candles, legs and the movement                                          *)
(***************************************************************************)
States == [trend: -1..1, breaks: Nat, place: 0..100, closed: Nat]

Turned(s) == s.breaks > 0 => s.trend # 0

LastOf(C) == Ladder[Max({k \in DOMAIN Ladder : Ladder[k] \in C})]

LEMMA LastOfClosed ==
  ASSUME NEW C \in SUBSET Timeframes, C # {}
  PROVE  LastOf(C) \in C /\ (Finest \in C => LastOf(C) = Finest)
<1> DEFINE T == {k \in DOMAIN Ladder : Ladder[k] \in C}
<1>1. /\ Ladder \in Seq(Timeframes) /\ Ladder # <<>>
      /\ Timeframes = {Ladder[k] : k \in DOMAIN Ladder}
      /\ Len(Ladder) \in Nat /\ DOMAIN Ladder = 1..Len(Ladder)
  BY StrategyAssumption
<1>2. T # {} /\ T \in SUBSET (0..Len(Ladder))
  BY <1>1
<1>3. Max(T) \in T /\ \A k \in T : k <= Max(T)
  BY <1>1, <1>2, GreatestIsMax
<1>4. Finest \in C => Len(Ladder) \in T
  BY <1>1 DEF Finest
<1>5. Finest \in C => Max(T) = Len(Ladder)
  <2>1. Max(T) \in 1..Len(Ladder)
    BY <1>1, <1>3
  <2> HIDE DEF T
  <2>2. QED
    BY <1>1, <1>3, <1>4, <2>1
<1>6. LastOf(C) = Ladder[Max(T)]
  BY DEF LastOf
<1> HIDE DEF T
<1>7. Ladder[Max(T)] \in C
  BY <1>3 DEF T
<1>8. QED
  BY <1>5, <1>6, <1>7 DEF Finest

LEMMA PublishedFits ==
  ASSUME NEW old \in States, Turned(old), NEW o \in Outcomes, NEW close \in Nat
  PROVE  /\ Published(old, o, close) \in States /\ Turned(Published(old, o, close))
         /\ Published(old, o, close).breaks >= old.breaks
         /\ Published(old, o, close).closed = close
<1>1. o.broke \in -1..1 /\ o.drift \in -1..1 /\ o.place \in 0..100
  BY StrategyAssumption
<1>2. old.trend \in -1..1 /\ old.breaks \in Nat
  BY DEF States
<1>3. CASE o.broke # 0
  BY <1>1, <1>2, <1>3 DEF Published, Turned, States
<1>4. CASE o.broke = 0 /\ old.breaks > 0
  BY <1>1, <1>2, <1>4 DEF Published, Turned, States
<1>5. CASE o.broke = 0 /\ ~(old.breaks > 0)
  BY <1>1, <1>2, <1>5 DEF Published, Turned, States
<1>6. QED
  BY <1>3, <1>4, <1>5

Mark(tf, s) == <<tf, s.trend, s.breaks, IF s.breaks = 0 THEN s.closed ELSE 0>>

(* What a candle of a trend does to a leg.                                 *)
LEMMA AdvanceFits ==
  ASSUME NEW l, LegFits(l), NEW tf, NEW s \in States, Turned(s)
  PROVE  LET after == Advance(l, tf, s)
         IN /\ LegFits(after)
            /\ s.trend = 0 => after = l /\ s.breaks = 0
            /\ s.trend # 0 /\ s.breaks = 0 =>
                 after.direction = s.trend /\ (l.direction = s.trend => after = l)
            /\ s.trend # 0 /\ s.breaks > 0 =>
                 after.signature = Mark(tf, s) /\ (l.signature = Mark(tf, s) => after = l)
            /\ after = l \/ (/\ after.sequence = l.sequence + 1
                             /\ after.signature = Mark(tf, s))
<1> DEFINE begun == [sequence |-> l.sequence + 1, direction |-> s.trend,
                     signature |-> Mark(tf, s)]
           stays == \/ s.trend = 0
                    \/ s.breaks = 0 /\ l.direction = s.trend
                    \/ s.breaks > 0 /\ l.signature = Mark(tf, s)
<1>1. Advance(l, tf, s) = IF stays THEN l ELSE begun
  BY DEF Advance, Mark
<1>2. s.trend \in -1..1 /\ s.breaks \in Nat
  BY DEF States
<1>3. /\ LegFits(begun) /\ begun.direction = s.trend
      /\ begun.signature = Mark(tf, s) /\ begun.sequence = l.sequence + 1
  BY <1>2 DEF LegFits
<1>4. s.trend = 0 => s.breaks = 0
  BY <1>2 DEF Turned
<1> HIDE DEF begun
<1>5. CASE stays
  BY <1>1, <1>2, <1>4, <1>5
<1>6. CASE ~stays
  BY <1>1, <1>2, <1>3, <1>4, <1>6
<1>7. QED
  BY <1>5, <1>6

(***************************************************************************)
(* A bar                                                                   *)
(***************************************************************************)
LEMMA FinestFits == Finest \in Timeframes
<1>1. Ladder \in Seq(Timeframes) /\ Ladder # <<>>
  BY StrategyAssumption
<1>2. QED
  BY <1>1 DEF Finest

(* What a bar does, without the candidates.                                *)
Bar(t, outcome) ==
  /\ t \in Arrivals /\ outcome \in [Closing(t) -> Outcomes] /\ Update(t)
  /\ state' = [tf \in Timeframes |->
       IF tf \in Closing(t)
         THEN Published(state[tf], outcome[tf], history'[tf][Len(history'[tf])].close)
         ELSE state[tf]]
  /\ leg' = IF Closing(t) = {} THEN leg
                               ELSE Advance(leg, LastOf(Closing(t)), state'[LastOf(Closing(t))])
  /\ fineLeg' = IF Finest \in Closing(t) THEN Advance(fineLeg, Finest, state'[Finest]) ELSE fineLeg
  /\ lone' = IF \/ Closing(t) # {} /\ LastOf(Closing(t)) # Finest /\ leg' # leg
                \/ Astray /\ ~(Finest \in Closing(t) /\ state'[Finest].trend # 0)
               THEN lone \cup {t} ELSE lone

LEMMA BarStates ==
  ASSUME FeedType, StrategyType, NEW t, NEW outcome, Bar(t, outcome)
  PROVE  /\ state' \in [Timeframes -> States]
         /\ \A tf \in Timeframes : /\ Turned(state'[tf])
                                   /\ state'[tf].breaks >= state[tf].breaks
                                   /\ tf \notin Closing(t) => state'[tf] = state[tf]
                                   /\ tf \in Closing(t) /\ ~Stale(tf, t) =>
                                        state'[tf].closed = t + 1 /\ t + 1 \in Edges[tf]
<1> DEFINE close(tf) == history'[tf][Len(history'[tf])].close
<1>1. t \in Arrivals /\ Update(t) /\ outcome \in [Closing(t) -> Outcomes]
  BY DEF Bar
<1>2. state' = [tf \in Timeframes |->
        IF tf \in Closing(t) THEN Published(state[tf], outcome[tf], close(tf)) ELSE state[tf]]
  BY DEF Bar
<1>3. ASSUME NEW tf \in Timeframes
      PROVE  /\ state'[tf] \in States /\ Turned(state'[tf])
             /\ state'[tf].breaks >= state[tf].breaks
             /\ tf \notin Closing(t) => state'[tf] = state[tf]
             /\ tf \in Closing(t) /\ ~Stale(tf, t) =>
                  state'[tf].closed = t + 1 /\ t + 1 \in Edges[tf]
  <2>1. state[tf] \in States /\ Turned(state[tf])
    BY <1>3 DEF StrategyType, States, Turned
  <2>2. CASE tf \in Closing(t)
    <3>1. state'[tf] = Published(state[tf], outcome[tf], close(tf))
      BY <1>2, <1>3, <2>2
    <3>2. close(tf) \in Nat /\ (~Stale(tf, t) => t + 1 \in Edges[tf] /\ close(tf) = t + 1)
      BY <1>1, <2>2, ClosedNow
    <3>3. outcome[tf] \in Outcomes
      BY <1>1, <2>2
    <3> HIDE DEF close
    <3>4. QED
      BY <2>1, <2>2, <3>1, <3>2, <3>3, PublishedFits
  <2>3. CASE tf \notin Closing(t)
    <3>1. state'[tf] = state[tf]
      BY <1>2, <1>3, <2>3
    <3>2. state[tf].breaks \in Nat
      BY <2>1 DEF States
    <3>3. QED
      BY <2>1, <2>3, <3>1, <3>2
  <2>4. QED
    BY <2>2, <2>3
<1>4. state' \in [Timeframes -> States]
  <2>1. \A tf \in Timeframes : state'[tf] \in States
    BY <1>3
  <2> HIDE DEF States
  <2>2. QED
    BY <1>2, <2>1
<1>5. QED
  BY <1>3, <1>4

LEMMA BarLegs ==
  ASSUME FeedType, StrategyType, NEW t, NEW outcome, Bar(t, outcome)
  PROVE  StrategyType' /\ fineLeg'.sequence >= fineLeg.sequence
<1> DEFINE C == Closing(t)
<1>1. /\ state' \in [Timeframes -> States]
      /\ \A tf \in Timeframes : Turned(state'[tf]) /\ state'[tf].breaks >= state[tf].breaks
  BY BarStates
<1>2. C \subseteq Timeframes
  BY DEF Closing
<1>3. LegFits(leg) /\ LegFits(fineLeg)
  BY DEF StrategyType
<1>4. LegFits(leg')
  <2>1. CASE C = {}
    BY <1>3, <2>1 DEF Bar
  <2>2. CASE C # {}
    <3>1. LastOf(C) \in Timeframes
      BY <1>2, <2>2, LastOfClosed
    <3>2. leg' = Advance(leg, LastOf(C), state'[LastOf(C)])
      BY <2>2 DEF Bar
    <3>3. QED
      BY <1>1, <1>3, <3>1, <3>2, AdvanceFits
  <2>3. QED
    BY <2>1, <2>2
<1>5. /\ LegFits(fineLeg') /\ fineLeg'.sequence >= fineLeg.sequence
      /\ fineLeg'.signature # <<>> => /\ fineLeg'.signature[3] \in Nat
                                      /\ fineLeg'.signature[3] <= state'[Finest].breaks
  <2>1. /\ fineLeg.sequence \in Nat
        /\ state[Finest].breaks \in Nat /\ state'[Finest].breaks \in Nat
        /\ state'[Finest].breaks >= state[Finest].breaks
        /\ state'[Finest] \in States /\ Turned(state'[Finest])
    BY <1>1, <1>3, FinestFits DEF StrategyType, LegFits, States
  <2>2. fineLeg.signature # <<>> => fineLeg.signature[3] <= state[Finest].breaks
    BY DEF StrategyType
  <2>3. CASE fineLeg' = fineLeg
    <3>1. fineLeg.signature # <<>> => fineLeg.signature[3] \in Nat
      BY DEF StrategyType
    <3>2. QED
      BY <1>3, <2>1, <2>2, <2>3, <3>1
  <2>4. CASE fineLeg' # fineLeg
    <3>1. fineLeg' = Advance(fineLeg, Finest, state'[Finest])
      BY <2>4 DEF Bar
    <3>2. /\ LegFits(fineLeg') /\ fineLeg'.sequence = fineLeg.sequence + 1
          /\ fineLeg'.signature = Mark(Finest, state'[Finest])
      BY <1>3, <2>1, <2>4, <3>1, AdvanceFits
    <3>3. fineLeg'.signature[3] = state'[Finest].breaks
      BY <3>2 DEF Mark
    <3>4. QED
      BY <2>1, <3>2, <3>3
  <2>5. QED
    BY <2>3, <2>4
<1>6. QED
  BY <1>1, <1>4, <1>5 DEF StrategyType, States, Turned, LegFits

(* The movement changes with the leg of the finest timeframe and keeps to  *)
(* it, unless the bar leads it astray.                                     *)
LEMMA StaysInStep ==
  ASSUME FeedType, StrategyType, InStep, NEW t, NEW outcome, Bar(t, outcome), t \notin lone'
  PROVE  /\ InStep'
         /\ ~Astray /\ fineLeg'.sequence = fineLeg.sequence => leg' = leg
<1> DEFINE C == Closing(t)
           s == state'[Finest]
           old == state[Finest]
<1>1. C \subseteq Timeframes /\ Finest \in Timeframes
  BY FinestFits DEF Closing
<1>2. /\ s \in States /\ Turned(s) /\ s.breaks >= old.breaks
      /\ Finest \notin C => s = old
  BY <1>1, BarStates
<1>3. old.breaks \in Nat /\ s.breaks \in Nat /\ (s.trend = 0 => s.breaks = 0)
  BY <1>1, <1>2 DEF StrategyType, States, Turned
<1>4. LegFits(leg) /\ LegFits(fineLeg) /\ leg.sequence \in Nat /\ fineLeg.sequence \in Nat
  BY DEF StrategyType, LegFits
<1>5. /\ C = {} \/ LastOf(C) = Finest \/ leg' = leg
      /\ ~Astray \/ (Finest \in C /\ s.trend # 0)
  BY DEF Bar
<1>6. ~Astray => IF old.breaks > 0 THEN leg.signature = fineLeg.signature
                                   ELSE leg.direction = fineLeg.direction
  BY DEF InStep
<1>7. SUFFICES
        /\ IF s.breaks > 0 THEN leg'.signature = fineLeg'.signature
                           ELSE leg'.direction = fineLeg'.direction
        /\ ~Astray /\ fineLeg'.sequence = fineLeg.sequence => leg' = leg
  BY DEF InStep
<1> HIDE DEF s, old
<1>8. CASE Finest \notin C
  <2>1. fineLeg' = fineLeg
    BY <1>8 DEF Bar
  <2>2. leg' = leg
    <3>1. CASE C = {}
      BY <3>1 DEF Bar
    <3>2. CASE C # {}
      <4>1. LastOf(C) \in C
        BY <1>1, <3>2, LastOfClosed
      <4>2. QED
        BY <1>5, <1>8, <3>2, <4>1
    <3>3. QED
      BY <3>1, <3>2
  <2>3. QED
    BY <1>2, <1>5, <1>6, <1>8, <2>1, <2>2
<1>9. CASE Finest \in C
  <2>1. /\ leg' = Advance(leg, Finest, s)
        /\ fineLeg' = Advance(fineLeg, Finest, s)
    <3>1. C # {} /\ LastOf(C) = Finest
      BY <1>1, <1>9, LastOfClosed
    <3>2. QED
      BY <1>9, <3>1 DEF Bar, s
  <2>2. fineLeg' = fineLeg \/ fineLeg'.sequence = fineLeg.sequence + 1
    BY <1>2, <1>4, <2>1, AdvanceFits
  <2>3. fineLeg'.sequence = fineLeg.sequence => fineLeg' = fineLeg
    BY <1>4, <2>2
  <2>4. CASE s.trend = 0
    <3>1. leg' = leg /\ fineLeg' = fineLeg /\ s.breaks = 0
      BY <1>2, <1>4, <2>1, <2>4, AdvanceFits
    <3>2. ~Astray /\ old.breaks = 0
      BY <1>2, <1>3, <1>5, <2>4, <3>1
    <3>3. QED
      BY <1>6, <3>1, <3>2
  <2>5. CASE s.trend # 0 /\ s.breaks = 0
    <3>1. /\ leg'.direction = s.trend /\ fineLeg'.direction = s.trend
          /\ leg.direction = s.trend => leg' = leg
      BY <1>2, <1>4, <2>1, <2>5, AdvanceFits
    <3>2. old.breaks = 0
      BY <1>2, <1>3, <2>5
    <3>3. QED
      BY <1>6, <2>3, <2>5, <3>1, <3>2
  <2>6. CASE s.trend # 0 /\ s.breaks > 0
    <3>1. /\ leg'.signature = Mark(Finest, s) /\ fineLeg'.signature = Mark(Finest, s)
          /\ leg.signature = Mark(Finest, s) => leg' = leg
      BY <1>2, <1>4, <2>1, <2>6, AdvanceFits
    <3>2. Mark(Finest, s) # <<>> /\ Mark(Finest, s)[3] = s.breaks
      BY DEF Mark
    <3>3. fineLeg' = fineLeg => old.breaks > 0
      <4>1. fineLeg.signature # <<>> => fineLeg.signature[3] <= old.breaks
        BY DEF StrategyType, old
      <4>2. QED
        BY <1>3, <2>6, <3>1, <3>2, <4>1
    <3>4. QED
      BY <1>6, <2>3, <2>6, <3>1, <3>3
  <2>7. QED
    BY <1>3, <2>4, <2>5, <2>6
<1>10. QED
  BY <1>8, <1>9

(***************************************************************************)
(* The candidates                                                          *)
(***************************************************************************)
LEMMA BarOfStep ==
  ASSUME NEW t \in Arrivals, NEW outcome \in [Closing(t) -> Outcomes], NEW candidates,
         OnBar(t, outcome, candidates)
  PROVE  /\ Bar(t, outcome)
         /\ candidates # {} => leg'.sequence \notin used /\ leg'.sequence \in used'
         /\ used \subseteq used'
         /\ \A k \in candidates : Eligible(k, state', Closing(t))
         /\ \A r \in resting' \ resting : r.set \in candidates
         /\ lone \subseteq lone' /\ lone' \subseteq lone \cup {t}
         /\ entries \subseteq entries'
         /\ \A e \in entries' \ entries :
              candidates # {} /\ e = [leg |-> fineLeg'.sequence, at |-> t]
<1>0. DOMAIN outcome = Closing(t)
  OBVIOUS
<1>1. Bar(t, outcome)
  <2> DEFINE Does(closed) ==
        /\ t \in Arrivals /\ outcome \in [Closing(t) -> Outcomes] /\ Update(t)
        /\ state' = [tf \in Timeframes |->
             IF tf \in closed
               THEN Published(state[tf], outcome[tf], history'[tf][Len(history'[tf])].close)
               ELSE state[tf]]
        /\ leg' = IF closed = {} THEN leg ELSE Advance(leg, LastOf(closed), state'[LastOf(closed)])
        /\ fineLeg' = IF Finest \in closed THEN Advance(fineLeg, Finest, state'[Finest]) ELSE fineLeg
        /\ lone' = IF \/ closed # {} /\ LastOf(closed) # Finest /\ leg' # leg
                      \/ Astray /\ ~(Finest \in closed /\ state'[Finest].trend # 0)
                     THEN lone \cup {t} ELSE lone
  <2>1. Does(DOMAIN outcome)
    BY Zenon DEF OnBar, LastOf
  <2> HIDE DEF Does
  <2>2. Does(Closing(t))
    BY <1>0, <2>1
  <2>3. QED
    BY <2>2, Zenon DEF Does, Bar
<1>2. /\ candidates # {} => leg'.sequence \notin used /\ leg'.sequence \in used'
      /\ used \subseteq used'
  <2>1. used' = IF candidates = {} THEN used ELSE used \cup {leg'.sequence}
    BY Zenon DEF OnBar
  <2>2. \A k \in candidates : leg'.sequence \notin used
    BY Zenon DEF OnBar, MayEnter
  <2>3. QED
    BY <2>1, <2>2
<1>3. \A k \in candidates : Eligible(k, state', Closing(t))
  <2>1. \A k \in candidates : Eligible(k, state', DOMAIN outcome)
    BY Zenon DEF OnBar
  <2>2. QED
    BY <1>0, <2>1
<1>4. \A r \in resting' \ resting : r.set \in candidates
  <2> DEFINE alive == {r \in resting : t - r.at <= Patience}
             begun == {[set |-> k, leg |-> leg'.sequence, at |-> t] :
                         k \in {k \in candidates :
                                  \A r \in alive : r.set # k \/ r.leg # leg'.sequence}}
  <2>1. resting' = alive \cup begun
    BY Zenon DEF OnBar
  <2>2. \A r \in alive : r \in resting
    OBVIOUS
  <2>3. \A r \in begun : r.set \in candidates
    OBVIOUS
  <2> HIDE DEF alive, begun
  <2>4. QED
    BY <2>1, <2>2, <2>3
<1>5. lone \subseteq lone' /\ lone' \subseteq lone \cup {t}
  BY <1>1 DEF Bar
<1>6. /\ entries \subseteq entries'
      /\ \A e \in entries' \ entries :
           candidates # {} /\ e = [leg |-> fineLeg'.sequence, at |-> t]
  <2> DEFINE sides == {Hypothesis(state'[Ladder[k]]) : k \in candidates}
  <2>1. entries' = IF Cardinality(sides) = 1
                     THEN entries \cup {[leg |-> fineLeg'.sequence, at |-> t]} ELSE entries
    BY Zenon DEF OnBar
  <2>2. candidates = {} => Cardinality(sides) # 1
    <3>1. candidates = {} => sides = {}
      OBVIOUS
    <3>2. Cardinality({}) = 0
      BY FS_EmptySet
    <3>3. QED
      BY <3>1, <3>2
  <2> HIDE DEF sides
  <2>3. QED
    BY <2>1, <2>2
<1>7. QED
  BY <1>1, <1>2, <1>3, <1>4, <1>5, <1>6

(* An entry uses up the leg it is at, and no later bar enters it again     *)
(* unless the movement went astray in between.                             *)
LEMMA EntryStep ==
  ASSUME StrategyInv, NEW t \in Arrivals, NEW outcome \in [Closing(t) -> Outcomes],
         NEW candidates, OnBar(t, outcome, candidates)
  PROVE  Entered' /\ SecondEntryOnlyAfterLoneClose'
<1> USE DEF StrategyInv
<1>1. /\ Bar(t, outcome)
      /\ candidates # {} => leg'.sequence \notin used /\ leg'.sequence \in used'
      /\ used \subseteq used'
      /\ lone \subseteq lone' /\ lone' \subseteq lone \cup {t}
      /\ entries \subseteq entries'
      /\ \A e \in entries' \ entries :
           candidates # {} /\ e = [leg |-> fineLeg'.sequence, at |-> t]
  BY BarOfStep
<1>2. /\ StrategyType' /\ fineLeg'.sequence >= fineLeg.sequence
      /\ fineLeg.sequence \in Nat /\ fineLeg'.sequence \in Nat
  <2>1. StrategyType' /\ fineLeg'.sequence >= fineLeg.sequence
    BY <1>1, BarLegs
  <2>2. QED
    BY <2>1 DEF StrategyType, LegFits
<1>3. /\ t \in Nat /\ \A s : Passed(s) => s < t
      /\ \A s : Passed(s) => Passed(s)'
      /\ Passed(t)'
  BY <1>1, ArrivalIsLater, FeedStep DEF Bar
(* An entry into the leg that the finest timeframe is still at             *)
<1>4. ASSUME NEW e \in entries, e.leg = fineLeg'.sequence
      PROVE  (leg' = leg /\ leg.sequence \in used) \/ \E u \in lone' : e.at <= u
  <2>1. /\ e.leg \in Nat /\ e.leg <= fineLeg.sequence /\ Passed(e.at)
        /\ e.leg = fineLeg.sequence => leg.sequence \in used \/ \E u \in lone : e.at <= u
    BY <1>4 DEF Entered
  <2>2. fineLeg'.sequence = fineLeg.sequence /\ e.leg = fineLeg.sequence
    BY <1>2, <1>4, <2>1
  <2>3. CASE t \in lone'
    <3>1. e.at < t /\ e.at \in Nat
      BY <1>3, <2>1 DEF Passed
    <3>2. QED
      BY <1>3, <2>3, <3>1
  <2>4. CASE t \notin lone' /\ Astray
    BY <1>1, <2>1, <2>4 DEF Astray, Passed
  <2>5. CASE t \notin lone' /\ ~Astray
    <3>1. leg' = leg
      BY <1>1, <2>2, <2>5, StaysInStep
    <3>2. QED
      BY <1>1, <2>1, <2>2, <3>1
  <2>6. QED
    BY <2>3, <2>4, <2>5
<1>5. Entered'
  <2>1. ASSUME NEW u \in lone' PROVE Passed(u)'
    <3>1. u \in lone \/ u = t
      BY <1>1, <2>1
    <3>2. CASE u \in lone
      <4>1. Passed(u)
        BY <3>2 DEF Entered
      <4>2. QED
        BY <1>3, <4>1
    <3>3. CASE u = t
      BY <1>3, <3>3
    <3>4. QED
      BY <3>1, <3>2, <3>3
  <2>2. ASSUME NEW e \in entries'
        PROVE  /\ e.leg \in Nat /\ e.leg <= fineLeg'.sequence /\ Passed(e.at)'
               /\ e.leg = fineLeg'.sequence =>
                    leg'.sequence \in used' \/ \E u \in lone' : e.at <= u
    <3>1. CASE e \in entries
      <4>1. e.leg \in Nat /\ e.leg <= fineLeg.sequence /\ Passed(e.at)
        BY <3>1 DEF Entered
      <4>2. e.leg <= fineLeg'.sequence
        BY <1>2, <4>1
      <4>3. Passed(e.at)'
        BY <1>3, <4>1
      <4>4. e.leg = fineLeg'.sequence =>
              leg'.sequence \in used' \/ \E u \in lone' : e.at <= u
        BY <1>1, <1>4, <3>1
      <4>5. QED
        BY <4>1, <4>2, <4>3, <4>4
    <3>2. CASE e \notin entries
      <4>1. candidates # {} /\ e = [leg |-> fineLeg'.sequence, at |-> t]
        BY <1>1, <2>2, <3>2
      <4>2. e.leg = fineLeg'.sequence /\ e.at = t /\ leg'.sequence \in used'
        BY <1>1, <4>1
      <4>3. Passed(e.at)'
        BY <1>3, <4>2
      <4>4. QED
        BY <1>2, <4>2, <4>3
    <3>3. QED
      BY <3>1, <3>2
  <2>3. QED
    BY <2>1, <2>2 DEF Entered
<1>6. SecondEntryOnlyAfterLoneClose'
  <2>1. SUFFICES ASSUME NEW e \in entries', NEW f \in entries', e.leg = f.leg, e.at < f.at
                 PROVE  \E u \in lone' : e.at <= u /\ u <= f.at
    BY DEF SecondEntryOnlyAfterLoneClose
  <2>2. \A g \in entries : Passed(g.at) /\ g.at < t /\ g.at \in Nat
    BY <1>3 DEF Entered, Passed
  <2>3. \A g \in entries' \ entries :
          candidates # {} /\ g.leg = fineLeg'.sequence /\ g.at = t
    BY <1>1
  <2>4. CASE e \in entries /\ f \in entries
    <3>1. \E u \in lone : e.at <= u /\ u <= f.at
      BY <2>1, <2>4 DEF SecondEntryOnlyAfterLoneClose
    <3>2. QED
      BY <1>1, <3>1
  <2>5. CASE e \in entries /\ f \notin entries
    <3>1. f.at = t /\ f.leg = fineLeg'.sequence /\ candidates # {}
      BY <2>1, <2>3, <2>5
    <3>2. leg'.sequence \notin used
      BY <1>1, <3>1
    <3>3. PICK u \in lone' : e.at <= u
      BY <1>4, <2>1, <2>5, <3>1, <3>2
    <3>4. u <= t
      <4>1. u \in lone \/ u = t
        BY <1>1
      <4>2. u \in lone => u \in Nat /\ u < t
        BY <1>3 DEF Entered, Passed
      <4>3. QED
        BY <1>3, <4>1, <4>2
    <3>5. QED
      BY <3>1, <3>3, <3>4
  <2>6. CASE e \notin entries
    <3>1. e.at = t
      BY <2>1, <2>3, <2>6
    <3>2. f.at = t \/ (f.at \in Nat /\ f.at < t)
      BY <2>1, <2>2, <2>3
    <3>3. QED
      BY <1>3, <2>1, <3>1, <3>2
  <2>7. QED
    BY <2>4, <2>5, <2>6
<1>7. QED
  BY <1>5, <1>6

OverlapStep ==
  \A r, q \in resting' \ resting :
    r.set # q.set => \E tf \in Timeframes : Stale(tf, source'[Len(source')])

(* Two sets cannot be eligible on one bar: the middle timeframe of the     *)
(* finer one ends its candle with the lowest timeframe of the coarser one. *)
LEMMA OneSetPerBar ==
  ASSUME FeedType, StrategyType, NEW t \in Arrivals, NEW outcome, Bar(t, outcome),
         \A tf \in Timeframes : ~Stale(tf, t),
         NEW k \in SetKeys, NEW j \in SetKeys, k < j,
         Ladder[k + 2] \in Closing(t), Ladder[j + 2] \in Closing(t),
         Eligible(j, state', Closing(t))
  PROVE  FALSE
<1>1. /\ Ladder \in Seq(Timeframes) /\ Len(Ladder) \in Nat
      /\ DOMAIN Ladder = 1..Len(Ladder)
  BY StrategyAssumption
<1>2. /\ k \in Nat /\ j \in Nat /\ k >= 1 /\ j >= 2
      /\ k + 2 \in DOMAIN Ladder /\ j + 1 \in DOMAIN Ladder /\ j + 2 \in DOMAIN Ladder
      /\ k + 2 <= j + 1 /\ j + 1 >= 3
  BY <1>1 DEF SetKeys
<1>3. Ladder[k + 2] \in Timeframes /\ Ladder[j + 1] \in Timeframes /\ Ladder[j + 2] \in Timeframes
  BY <1>1, <1>2
<1>4. t + 1 \in Edges[Ladder[k + 2]] /\ state'[Ladder[j + 2]].closed = t + 1
  BY <1>3, BarStates
<1>5. t + 1 \in Edges[Ladder[j + 1]]
  <2>1. CASE k + 2 = j + 1
    BY <1>4, <2>1
  <2>2. CASE k + 2 # j + 1
    <3>1. k + 2 < j + 1
      BY <1>2, <2>2
    <3>2. Edges[Ladder[k + 2]] \subseteq Edges[Ladder[j + 1]]
      BY <1>2, <3>1, StrategyAssumption
    <3>3. QED
      BY <1>4, <3>2
  <2>3. QED
    BY <2>1, <2>2
<1>6. Complete(Ladder[j + 1], t)
  <2>1. t \in Instants /\ t \in Nat
    BY ArrivalIsLater
  <2>2. /\ BucketEnd[Ladder[j + 1]][t] \in Edges[Ladder[j + 1]]
        /\ BucketEnd[Ladder[j + 1]][t] > t /\ BucketEnd[Ladder[j + 1]][t] <= t + 1
    BY <1>3, <1>5, <2>1, EdgesAround
  <2>3. BucketEnd[Ladder[j + 1]][t] \in Nat
    BY <1>3, <2>2, FeedAssumption
  <2>4. BucketEnd[Ladder[j + 1]][t] = t + 1
    BY <2>1, <2>2, <2>3
  <2>5. QED
    BY <2>4 DEF Complete
<1>7. state'[Ladder[j + 1]].closed = t + 1
  BY <1>3, <1>6, BarStates DEF Closing
<1>8. state'[Ladder[j + 2]].closed > state'[Ladder[j + 1]].closed
  BY DEF Eligible
<1>9. t \in Nat
  BY ArrivalIsLater
<1>10. QED
  BY <1>4, <1>7, <1>8, <1>9

LEMMA NoOverlap ==
  ASSUME StrategyInv, NEW t \in Arrivals, NEW outcome \in [Closing(t) -> Outcomes],
         NEW candidates \in SUBSET {k \in SetKeys : Ladder[k + 2] \in Closing(t)},
         OnBar(t, outcome, candidates)
  PROVE  OverlapStep
<1>1. Bar(t, outcome) /\ FeedType /\ StrategyType
  BY BarOfStep DEF StrategyInv
<1>2. source'[Len(source')] = t
  BY <1>1, FeedStep DEF Bar
<1>3. SUFFICES ASSUME NEW r \in resting' \ resting, NEW q \in resting' \ resting,
                      r.set # q.set, \A tf \in Timeframes : ~Stale(tf, t)
               PROVE  FALSE
  BY <1>2 DEF OverlapStep
<1>4. r.set \in candidates /\ q.set \in candidates
  BY BarOfStep
<1>5. ASSUME NEW k \in candidates, NEW j \in candidates, k < j PROVE FALSE
  <2>1. Eligible(j, state', Closing(t))
    BY BarOfStep
  <2>2. /\ k \in SetKeys /\ Ladder[k + 2] \in Closing(t)
        /\ j \in SetKeys /\ Ladder[j + 2] \in Closing(t)
    BY <1>5
  <2>3. QED
    BY <1>1, <1>3, <1>5, <2>1, <2>2, OneSetPerBar
<1>6. r.set < q.set \/ q.set < r.set
  <2>1. \A k \in SetKeys : k \in Int
    BY StrategyAssumption DEF SetKeys
  <2>2. r.set \in Int /\ q.set \in Int
    BY <1>4, <2>1
  <2>3. QED
    BY <1>3, <2>2
<1>7. QED
  BY <1>4, <1>5, <1>6

-----------------------------------------------------------------------------
LEMMA StrategyInitiates == StrategyInit => StrategyInv
<1> SUFFICES ASSUME StrategyInit PROVE StrategyInv
  OBVIOUS
<1> USE DEF StrategyInit
<1>1. FeedType
  BY DEF FeedInit, FeedType
<1>2. StrategyType
  BY FinestFits DEF StrategyType, LegFits, NoState, NoLeg
<1>3. InStep
  BY FinestFits DEF InStep, NoState, NoLeg
<1>4. Entered /\ SecondEntryOnlyAfterLoneClose
  BY DEF Entered, SecondEntryOnlyAfterLoneClose
<1>5. QED
  BY <1>1, <1>2, <1>3, <1>4 DEF StrategyInv

LEMMA StrategyStep ==
  ASSUME StrategyInv, [StrategyNext]_strategyVars
  PROVE  StrategyInv' /\ [OverlapStep]_strategyVars
<1>1. CASE StrategyNext
  <2>1. PICK t \in Arrivals :
          \E outcome \in [Closing(t) -> Outcomes],
             candidates \in SUBSET {k \in SetKeys : Ladder[k + 2] \in Closing(t)} :
            OnBar(t, outcome, candidates)
    BY <1>1 DEF StrategyNext
  <2>2. PICK outcome \in [Closing(t) -> Outcomes],
             candidates \in SUBSET {k \in SetKeys : Ladder[k + 2] \in Closing(t)} :
               OnBar(t, outcome, candidates)
    BY <2>1
  <2>3. Bar(t, outcome)
    BY <2>2, BarOfStep
  <2>4. FeedType' /\ source' # <<>> /\ source'[Len(source')] = t
    BY <2>3, FeedStep DEF StrategyInv, Bar
  <2>5. StrategyType'
    BY <2>3, BarLegs DEF StrategyInv
  <2>6. InStep'
    <3>1. CASE t \in lone'
      BY <2>4, <3>1 DEF InStep, Astray
    <3>2. CASE t \notin lone'
      BY <2>3, <3>2, StaysInStep DEF StrategyInv
    <3>3. QED
      BY <3>1, <3>2
  <2>7. Entered' /\ SecondEntryOnlyAfterLoneClose'
    BY <2>2, EntryStep
  <2>8. OverlapStep
    BY <2>2, NoOverlap
  <2>9. QED
    BY <2>4, <2>5, <2>6, <2>7, <2>8 DEF StrategyInv
<1>2. CASE UNCHANGED strategyVars
  BY <1>2 DEF strategyVars, feedVars, StrategyInv, FeedType, StrategyType, LegFits, InStep, Astray,
     Entered, Passed, SecondEntryOnlyAfterLoneClose
<1>3. QED
  BY <1>1, <1>2

(* For every ladder of timeframes, every feed with its gaps and whatever   *)
(* the candles show, a leg is entered a second time only after a coarser   *)
(* candle has closed alone, and two sets find an entry on one bar only     *)
(* when it publishes a candle that a gap has delayed.                      *)
THEOREM LegsOnce == StrategySpec => LegsTradedOnce
<1>1. StrategyInit => StrategyInv
  BY StrategyInitiates
<1>2. StrategyInv /\ [StrategyNext]_strategyVars => StrategyInv' /\ [OverlapStep]_strategyVars
  BY StrategyStep
<1>3. StrategyInv => SecondEntryOnlyAfterLoneClose
  BY DEF StrategyInv
<1>4. StrategySpec => []SecondEntryOnlyAfterLoneClose /\ [][OverlapStep]_strategyVars
  BY <1>1, <1>2, <1>3, PTL DEF StrategySpec
<1>5. QED
  BY <1>4, PTL DEF LegsTradedOnce, OverlapOnlyAfterGap, OverlapStep
(***************************************************************************)
(* The candles published and the candles built                             *)
(***************************************************************************)
LEMMA SequenceOfValues ==
  ASSUME NEW size \in Nat, NEW s, s = [k \in 1..size |-> s[k]]
  PROVE  /\ s \in Seq({s[k] : k \in 1..size}) /\ Len(s) = size /\ DOMAIN s = 1..size
         /\ \A T : (\A k \in 1..size : s[k] \in T) => s \in Seq(T)
<1>1. ASSUME NEW T, \A k \in 1..size : s[k] \in T PROVE s \in Seq(T) /\ Len(s) = size
  <2>1. s \in [1..size -> T]
    BY <1>1, Zenon
  <2>2. QED
    BY <2>1
<1>2. QED
  BY <1>1

LEMMA OneLonger ==
  ASSUME NEW size \in Nat, NEW T, NEW old \in [1..size -> T], NEW new \in [1..(size + 1) -> T],
         \A k \in 1..size : new[k] = old[k]
  PROVE  new = Append(old, new[size + 1])
<1> DEFINE e == new[size + 1]
<1>1. e \in T
  OBVIOUS
<1>2. new \in Seq(T) /\ Len(new) = size + 1 /\ old \in Seq(T) /\ Len(old) = size
  OBVIOUS
<1> HIDE DEF e
<1>3. /\ Append(old, e) \in Seq(T) /\ Len(Append(old, e)) = size + 1
      /\ \A k \in 1..size : Append(old, e)[k] = old[k]
      /\ Append(old, e)[size + 1] = e
  BY <1>1, <1>2
<1>4. \A k \in 1..(size + 1) : k \in 1..size \/ k = size + 1
  OBVIOUS
<1>5. \A k \in 1..(size + 1) : new[k] = Append(old, e)[k]
  BY <1>3, <1>4 DEF e
<1>6. new = Append(old, e)
  BY <1>2, <1>3, <1>5, SeqEqual
<1>7. QED
  BY <1>6 DEF e

(* A number above all others is the last of them in order.                 *)
LEMMA AscendingGrows ==
  ASSUME NEW S \in SUBSET Nat, IsFiniteSet(S), NEW m \in Nat, \A x \in S : x < m
  PROVE  /\ IsFiniteSet(S \cup {m}) /\ Cardinality(S) \in Nat
         /\ Cardinality(S \cup {m}) = Cardinality(S) + 1
         /\ Len(Ascending(S)) = Cardinality(S)
         /\ Ascending(S \cup {m}) = Append(Ascending(S), m)
         /\ \A T : Ascending(S) \in Seq(T) /\ m \in T => Ascending(S \cup {m}) \in Seq(T)
<1> DEFINE size == Cardinality(S)
           M == S \cup {m}
           Ranked(X, k) == {y \in X : Cardinality({z \in X : z < y}) = k - 1}
           Pick(X) == CHOOSE x \in X : TRUE
<1>1. m \notin S /\ size \in Nat /\ IsFiniteSet(M) /\ Cardinality(M) = size + 1
  BY FS_AddElement, FS_CardinalityType
<1>2. \A y \in S : {z \in M : z < y} = {z \in S : z < y}
  OBVIOUS
<1>3. {z \in M : z < m} = S
  <2>1. \A z : z \in M /\ z < m <=> z \in S
    <3>1. ~(m < m)
      OBVIOUS
    <3>2. QED
      BY <3>1
  <2>2. QED
    BY <2>1
<1>4. ASSUME NEW y \in S
      PROVE  Cardinality({z \in S : z < y}) \in Nat /\ Cardinality({z \in S : z < y}) < size
  <2>1. {z \in S : z < y} \subseteq S /\ y \notin {z \in S : z < y}
    OBVIOUS
  <2>2. /\ IsFiniteSet({z \in S : z < y}) /\ Cardinality({z \in S : z < y}) <= size
        /\ Cardinality({z \in S : z < y}) = size => {z \in S : z < y} = S
    BY <2>1, FS_Subset
  <2>3. Cardinality({z \in S : z < y}) \in Nat
    BY <2>2, FS_CardinalityType
  <2>4. QED
    BY <1>1, <2>1, <2>2, <2>3
<1>5. ASSUME NEW k \in 1..size PROVE Ranked(M, k) = Ranked(S, k)
  <2>1. k - 1 # size
    BY <1>1
  <2> HIDE DEF size
  <2>2. \A y \in M : Cardinality({z \in M : z < y}) = k - 1 <=>
          y \in S /\ Cardinality({z \in S : z < y}) = k - 1
    BY <1>2, <1>3, <2>1 DEF size
  <2>3. QED
    BY <2>2
<1>6. Ranked(M, size + 1) = {m}
  <2>1. (size + 1) - 1 = size
    BY <1>1
  <2>2. \A y \in S : Cardinality({z \in M : z < y}) # size
    BY <1>1, <1>2, <1>4
  <2>3. QED
    BY <1>3, <2>1, <2>2
<1>7. /\ Ascending(S) = [k \in 1..size |-> Pick(Ranked(S, k))]
      /\ Ascending(M) = [k \in 1..Cardinality(M) |-> Pick(Ranked(M, k))]
  BY Zenon DEF Ascending
<1>8. Pick(Ranked(M, size + 1)) = m
  BY <1>6
<1> HIDE DEF size, M, Ranked, Pick
<1>9. /\ DOMAIN Ascending(S) = 1..size /\ DOMAIN Ascending(M) = 1..(size + 1)
      /\ Ascending(S) = [k \in 1..size |-> Ascending(S)[k]]
      /\ \A k \in 1..size : Ascending(M)[k] = Ascending(S)[k]
      /\ Ascending(M)[size + 1] = m
      /\ Ascending(M) = [k \in 1..(size + 1) |-> Ascending(M)[k]]
  <2>1. \A k \in 1..size : k \in 1..(size + 1)
    BY <1>1
  <2>2. size + 1 \in 1..(size + 1)
    BY <1>1
  <2>3. QED
    BY <1>1, <1>5, <1>7, <1>8, <2>1, <2>2
<1>10. Ascending(S) \in Seq({Ascending(S)[k] : k \in 1..size}) /\ Len(Ascending(S)) = size
  BY <1>1, <1>9, SequenceOfValues
<1>11. Ascending(M) = Append(Ascending(S), m)
  <2> DEFINE old == Ascending(S)
             new == Ascending(M)
             T == {new[k] : k \in 1..(size + 1)}
  <2>0. \A k \in 1..size : k \in 1..(size + 1)
    BY <1>1
  <2>1. \A k \in 1..size : k \in 1..(size + 1) /\ old[k] = new[k]
    BY <2>0, <1>9
  <2>2. (\A k \in 1..size : old[k] \in T) /\ (\A k \in 1..(size + 1) : new[k] \in T)
    BY <2>1
  <2> HIDE DEF T
  <2>3. old \in [1..size -> T] /\ new \in [1..(size + 1) -> T]
    BY <1>9, <2>2
  <2> HIDE DEF old, new
  <2>4. new = Append(old, new[size + 1])
    BY <1>1, <2>1, <2>3, OneLonger
  <2>5. QED
    BY <1>9, <2>4 DEF old, new
<1>12. \A T : Ascending(S) \in Seq(T) /\ m \in T => Ascending(M) \in Seq(T)
  BY <1>11
<1>13. QED
  BY <1>1, <1>10, <1>11, <1>12 DEF M, size

LEMMA AscendingNone == Ascending({}) = <<>>
<1>1. Cardinality({}) = 0
  BY FS_EmptySet
<1>2. 1..0 = {}
  OBVIOUS
<1>3. QED
  BY <1>1, <1>2 DEF Ascending

Received == {source[i] : i \in DOMAIN source}
Latest == source[Len(source)]
StartsOf(R, tf) == {BucketStart[tf][x] : x \in R}
BucketRows(R, tf, start) == {x \in R : BucketStart[tf][x] = start}
ClosedStarts(R, tf, through) == {e \in StartsOf(R, tf) : BucketEnd[tf][e] <= through}
Built(C, R, tf) ==
  [k \in 1..Cardinality(C) |-> Candle(tf, Ascending(BucketRows(R, tf, Ascending(C)[k])))]

LEMMA BuiltNone == ASSUME NEW R, NEW tf PROVE Built({}, R, tf) = <<>>
<1> DEFINE F(C, k) == Candle(tf, Ascending(BucketRows(R, tf, Ascending(C)[k])))
<1>1. Built({}, R, tf) = [k \in 1..Cardinality({}) |-> F({}, k)]
  BY Zenon DEF Built
<1>2. Cardinality({}) = 0
  BY FS_EmptySet
<1>3. 1..0 = {}
  OBVIOUS
<1> HIDE DEF F
<1>4. QED
  BY <1>1, <1>2, <1>3

LEMMA BuiltAsAggregated ==
  ASSUME NEW tf \in Timeframes
  PROVE  /\ source # <<>> => AggregateBars(source, tf) = Built(ClosedStarts(Received, tf, Latest + 1), Received, tf)
         /\ source = <<>> => AggregateBars(source, tf) = <<>>
<1>1. source # <<>> => AggregateBars(source, tf) = Built(ClosedStarts(Received, tf, Latest + 1), Received, tf)
  BY Zenon DEF AggregateBars, Built, ClosedStarts, StartsOf, BucketRows, Received, Latest
<1>2. ASSUME source = <<>> PROVE AggregateBars(source, tf) = <<>>
  <2> DEFINE closed == {e \in {BucketStart[tf][t] : t \in {source[i] : i \in DOMAIN source}} : BucketEnd[tf][e] <= 0}
  <2>1. DOMAIN source = {}
    BY <1>2
  <2>2. closed = {}
    BY <2>1
  <2>3. Cardinality(closed) = 0
    BY <2>2, FS_EmptySet
  <2>4. AggregateBars(source, tf) =
          [k \in 1..Cardinality(closed) |->
             Candle(tf, Ascending({t \in {source[i] : i \in DOMAIN source} :
                                     BucketStart[tf][t] = Ascending(closed)[k]}))]
    BY <1>2, Zenon DEF AggregateBars
  <2> HIDE DEF closed
  <2>5. 1..0 = {}
    OBVIOUS
  <2>6. QED
    BY <2>3, <2>4, <2>5
<1>3. QED
  BY <1>1, <1>2

LEMMA BuiltGrows ==
  ASSUME NEW C \in SUBSET Nat, IsFiniteSet(C), NEW m \in Nat, \A e \in C : e < m, NEW R, NEW tf
  PROVE  Built(C \cup {m}, R, tf) = Append(Built(C, R, tf), Candle(tf, Ascending(BucketRows(R, tf, m))))
<1> DEFINE size == Cardinality(C)
           M == C \cup {m}
           F(e) == Candle(tf, Ascending(BucketRows(R, tf, e)))
           old == Built(C, R, tf)
           new == Built(M, R, tf)
<1>1. /\ size \in Nat /\ Cardinality(M) = size + 1 /\ Len(Ascending(C)) = size
      /\ Ascending(M) = Append(Ascending(C), m)
      /\ \A T : Ascending(C) \in Seq(T) /\ m \in T => Ascending(M) \in Seq(T)
  BY AscendingGrows
<1>2. /\ \A k \in 1..size : Ascending(M)[k] = Ascending(C)[k]
      /\ Ascending(M)[size + 1] = m
  <2>1. Ascending(C) \in Seq({Ascending(C)[k] : k \in 1..size})
    <3> DEFINE Pick(k) == CHOOSE x \in {y \in C : Cardinality({z \in C : z < y}) = k - 1} : TRUE
    <3>a. Ascending(C) = [k \in 1..size |-> Pick(k)]
      BY Zenon DEF Ascending
    <3> HIDE DEF size, Pick
    <3>1. Ascending(C) = [k \in 1..size |-> Ascending(C)[k]]
      BY <3>a
    <3>2. QED
      BY <1>1, <3>1, SequenceOfValues
  <2> HIDE DEF size, M
  <2>2. QED
    BY <1>1, <2>1
<1>3. old = [k \in 1..size |-> F(Ascending(C)[k])] /\ new = [k \in 1..Cardinality(M) |-> F(Ascending(M)[k])]
  BY Zenon DEF Built
<1> HIDE DEF size, M, F, old, new
<1>4. /\ old = [k \in 1..size |-> old[k]] /\ new = [k \in 1..(size + 1) |-> new[k]]
      /\ \A k \in 1..size : new[k] = old[k]
      /\ new[size + 1] = F(m)
  BY <1>1, <1>2, <1>3
<1>9. new = Append(old, F(m))
  <2> DEFINE T == {new[k] : k \in 1..(size + 1)}
  <2>0. \A k \in 1..size : k \in 1..(size + 1)
    BY <1>1
  <2>1. \A k \in 1..size : k \in 1..(size + 1) /\ old[k] = new[k]
    BY <2>0, <1>4
  <2>2. (\A k \in 1..size : old[k] \in T) /\ (\A k \in 1..(size + 1) : new[k] \in T)
    BY <2>1
  <2> HIDE DEF T
  <2>3. old \in [1..size -> T] /\ new \in [1..(size + 1) -> T]
    BY <1>4, <2>2
  <2>4. new = Append(old, new[size + 1])
    BY <1>1, <2>1, <2>3, OneLonger
  <2>5. QED
    BY <1>4, <2>4
<1>10. QED
  BY <1>9 DEF new, old, M, F

\* A bar of another bucket changes no candle.
LEMMA BuiltStays ==
  ASSUME NEW C, IsFiniteSet(C), Ascending(C) \in Seq(C), Len(Ascending(C)) = Cardinality(C),
         NEW R, NEW t, NEW tf, BucketStart[tf][t] \notin C
  PROVE  Built(C, R \cup {t}, tf) = Built(C, R, tf)
<1>1. ASSUME NEW e \in C PROVE BucketRows(R \cup {t}, tf, e) = BucketRows(R, tf, e)
  BY <1>1 DEF BucketRows
<1>2. ASSUME NEW k \in 1..Cardinality(C) PROVE Ascending(C)[k] \in C
  BY <1>2
<1>3. \A k \in 1..Cardinality(C) :
        BucketRows(R \cup {t}, tf, Ascending(C)[k]) = BucketRows(R, tf, Ascending(C)[k])
  BY <1>1, <1>2
<1>4. QED
  BY <1>3, Zenon DEF Built

(* The buckets closed by now are all but the latest, which may be one too. *)
LEMMA ClosedByNow ==
  ASSUME NEW tf \in Timeframes, NEW R \in SUBSET Instants, NEW last \in R, \A x \in R : x <= last
  PROVE  /\ ClosedStarts(R, tf, last + 1) =
              (StartsOf(R, tf) \ {BucketStart[tf][last]})
                \cup (IF BucketEnd[tf][last] = last + 1 THEN {BucketStart[tf][last]} ELSE {})
         /\ \A e \in StartsOf(R, tf) : e \in Nat /\ e <= BucketStart[tf][last]
<1> DEFINE start == BucketStart[tf][last]
<1>1. LastTime \in Nat /\ Edges[tf] \subseteq Nat /\ Instants = 0..LastTime
  BY FeedAssumption DEF Instants
<1>2. ASSUME NEW x \in R
      PROVE  /\ x \in Nat /\ BucketStart[tf][x] \in Nat /\ BucketStart[tf][x] <= start
             /\ BucketEnd[tf][x] \in Nat /\ BucketEnd[tf][x] > x
             /\ BucketEnd[tf][BucketStart[tf][x]] = BucketEnd[tf][x]
             /\ BucketStart[tf][x] # start => BucketEnd[tf][x] <= last
  <2>1. x \in Instants /\ last \in Instants /\ x <= last /\ x \in Nat /\ last \in Nat
    BY <1>1
  <2>2. /\ BucketStart[tf][x] \in Edges[tf] /\ BucketStart[tf][x] \in Nat /\ BucketStart[tf][x] <= x
        /\ \A e \in Edges[tf] : e <= x => e <= BucketStart[tf][x]
        /\ BucketEnd[tf][x] \in Edges[tf] /\ BucketEnd[tf][x] > x
    BY <2>1, EdgesAround
  <2>3. /\ start \in Edges[tf] /\ start \in Nat /\ start <= last
        /\ \A e \in Edges[tf] : e <= last => e <= start
        /\ BucketEnd[tf][last] \in Nat
    BY <1>1, <2>1, EdgesAround
  <2>4. BucketEnd[tf][x] \in Nat /\ BucketStart[tf][x] <= start
    BY <1>1, <2>1, <2>2, <2>3
  <2>5. BucketEnd[tf][BucketStart[tf][x]] = BucketEnd[tf][x]
    <3>1. BucketStart[tf][x] \in Instants
      BY <1>1, <2>1, <2>2
    <3>2. /\ BucketStart[tf][BucketStart[tf][x]] \in Nat
          /\ BucketStart[tf][BucketStart[tf][x]] <= BucketStart[tf][x]
          /\ BucketStart[tf][x] <= BucketStart[tf][BucketStart[tf][x]]
      BY <2>2, <3>1, EdgesAround
    <3>3. BucketStart[tf][BucketStart[tf][x]] = BucketStart[tf][x]
      BY <2>2, <3>2
    <3>4. QED
      BY <2>1, <3>1, <3>3, SameBucket
  <2>6. ASSUME BucketStart[tf][x] # start PROVE BucketEnd[tf][x] <= last
    <3>1. ~(start <= x)
      <4>1. start <= x => start <= BucketStart[tf][x]
        BY <2>2, <2>3
      <4>2. QED
        BY <2>2, <2>3, <2>4, <2>6, <4>1
    <3>2. BucketEnd[tf][x] <= start
      BY <2>1, <2>3, <3>1, EdgesAround
    <3>3. QED
      BY <2>1, <2>3, <2>4, <3>2
  <2>7. QED
    BY <2>1, <2>2, <2>4, <2>5, <2>6
<1>3. last \in Nat /\ start \in StartsOf(R, tf)
  BY <1>2 DEF StartsOf
<1> HIDE DEF start
<1>4. ASSUME NEW x \in R
      PROVE  BucketEnd[tf][BucketStart[tf][x]] <= last + 1 <=>
               BucketStart[tf][x] # start \/ BucketEnd[tf][last] = last + 1
  <2>1. CASE BucketStart[tf][x] # start
    BY <1>2, <1>3, <2>1
  <2>2. CASE BucketStart[tf][x] = start
    <3>1. BucketEnd[tf][x] = BucketEnd[tf][last] /\ BucketEnd[tf][last] > last /\ BucketEnd[tf][last] \in Nat
      BY <1>2, <2>2, SameBucket DEF start
    <3>2. QED
      BY <1>2, <1>3, <2>2, <3>1
  <2>3. QED
    BY <2>1, <2>2
<1>5. \A e \in StartsOf(R, tf) :
        BucketEnd[tf][e] <= last + 1 <=> e # start \/ BucketEnd[tf][last] = last + 1
  BY <1>4 DEF StartsOf
<1>6. ClosedStarts(R, tf, last + 1) =
        (StartsOf(R, tf) \ {start}) \cup (IF BucketEnd[tf][last] = last + 1 THEN {start} ELSE {})
  BY <1>3, <1>5 DEF ClosedStarts
<1>7. \A e \in StartsOf(R, tf) : e \in Nat /\ e <= start
  BY <1>2 DEF StartsOf
<1>8. QED
  BY <1>6, <1>7 DEF start

(* What is published and what is being formed, told from the bars received *)
(* alone.                                                                  *)
Forming(tf) ==
  IF source = <<>> THEN groups[tf] = <<>>
  ELSE IF BucketEnd[tf][Latest] = Latest + 1 THEN groups[tf] = <<>>
  ELSE /\ groups[tf] = Ascending(BucketRows(Received, tf, BucketStart[tf][Latest]))
       /\ groups[tf] # <<>> /\ BucketStart[tf][Head(groups[tf])] = BucketStart[tf][Latest]

Sorted(C) == Ascending(C) \in Seq(C)

FeedBuilt ==
  /\ \A i \in DOMAIN source : source[i] <= Latest
  /\ \A tf \in Timeframes :
       /\ history[tf] = AggregateBars(source, tf) /\ Forming(tf)
       /\ source # <<>> => Sorted(ClosedStarts(Received, tf, Latest + 1))

LEMMA ReceivedFits ==
  ASSUME FeedType
  PROVE  /\ Received \in SUBSET Instants /\ IsFiniteSet(Received)
         /\ source # <<>> => Latest \in Received
         /\ source = <<>> => Received = {}
         /\ \A t : source' = Append(source, t) => Received' = Received \cup {t} /\ Latest' = t
<1>1. source \in Seq(Instants) /\ LastTime \in Nat
  BY FeedAssumption DEF FeedType
<1>2. Received \in SUBSET Instants
  BY <1>1 DEF Received
<1>3. IsFiniteSet(Instants)
  <2>1. 0 \in Int /\ LastTime \in Int
    BY <1>1
  <2>2. QED
    BY <2>1, FS_Interval DEF Instants
<1>4. IsFiniteSet(Received)
  BY <1>2, <1>3, FS_Subset
<1>5. source # <<>> => Len(source) \in DOMAIN source
  BY <1>1
<1>6. source = <<>> => Received = {}
  BY DEF Received
<1>7. ASSUME NEW t, source' = Append(source, t) PROVE Received' = Received \cup {t} /\ Latest' = t
  <2>1. /\ DOMAIN source' = 1..(Len(source) + 1) /\ source'[Len(source) + 1] = t
        /\ Len(source') = Len(source) + 1
        /\ \A i \in 1..Len(source) : source'[i] = source[i]
        /\ DOMAIN source = 1..Len(source) /\ Len(source) \in Nat
    BY <1>1, <1>7
  <2>2. \A i : i \in DOMAIN source' <=> i \in DOMAIN source \/ i = Len(source) + 1
    BY <2>1
  <2>3. \A x : x \in Received' <=> x \in Received \/ x = t
    BY <2>1, <2>2 DEF Received
  <2>4. QED
    BY <2>1, <2>3 DEF Latest
<1>8. QED
  BY <1>2, <1>4, <1>5, <1>6, <1>7 DEF Received, Latest

LEMMA StartsFit ==
  ASSUME NEW tf \in Timeframes, NEW R \in SUBSET Instants
  PROVE  StartsOf(R, tf) \in SUBSET Nat /\ IsFiniteSet(StartsOf(R, tf))
<1>1. LastTime \in Nat /\ Instants = 0..LastTime
  BY FeedAssumption DEF Instants
<1>2. ASSUME NEW x \in R PROVE BucketStart[tf][x] \in Nat /\ BucketStart[tf][x] \in 0..LastTime
  <2>1. x \in Instants /\ BucketStart[tf][x] \in Nat /\ BucketStart[tf][x] <= x
    BY EdgesAround
  <2>2. QED
    BY <1>1, <2>1
<1>3. StartsOf(R, tf) \subseteq 0..LastTime /\ StartsOf(R, tf) \subseteq Nat
  BY <1>2 DEF StartsOf
<1>4. IsFiniteSet(0..LastTime)
  <2>1. 0 \in Int /\ LastTime \in Int
    BY <1>1
  <2>2. QED
    BY <2>1, FS_Interval
<1>5. QED
  BY <1>3, <1>4, FS_Subset

(* The rows of the new bar's bucket, in order.                             *)
LEMMA RowsGrow ==
  ASSUME NEW tf \in Timeframes, NEW R \in SUBSET Instants, IsFiniteSet(R),
         NEW t \in Instants, \A x \in R : x < t
  PROVE  Ascending(BucketRows(R \cup {t}, tf, BucketStart[tf][t])) =
           Append(Ascending(BucketRows(R, tf, BucketStart[tf][t])), t)
<1> DEFINE S == BucketRows(R, tf, BucketStart[tf][t])
<1>1. BucketRows(R \cup {t}, tf, BucketStart[tf][t]) = S \cup {t}
  BY DEF BucketRows
<1>2. S \subseteq R /\ S \in SUBSET Nat /\ t \in Nat /\ \A x \in S : x < t
  <2>1. Instants \subseteq Nat
    BY FeedAssumption DEF Instants
  <2>2. QED
    BY <2>1 DEF BucketRows
<1>3. IsFiniteSet(S)
  BY <1>2, FS_Subset
<1> HIDE DEF S
<1>4. Ascending(S \cup {t}) = Append(Ascending(S), t)
  BY <1>2, <1>3, AscendingGrows
<1>5. QED
  BY <1>1, <1>4 DEF S

(* A bar leaves the rows of its bucket, and publishes all earlier buckets. *)
LEMMA BarMovesBucket ==
  ASSUME FeedType, FeedBuilt, NEW t \in Arrivals, NEW tf \in Timeframes,
         NEW m, m = BucketStart[tf][t], NEW R2, R2 = Received \cup {t},
         NEW G, G = StartsOf(Received, tf) \ {m}
  PROVE  /\ history[tf] \o (IF Stale(tf, t) THEN <<Candle(tf, groups[tf])>> ELSE <<>>) = Built(G, R2, tf)
         /\ Sorted(G) /\ \A e \in G : e < m
         /\ Rows(tf, t) = Ascending(BucketRows(R2, tf, m))
         /\ BucketStart[tf][Head(Rows(tf, t))] = m
<1> DEFINE R == Received
           last == Latest
           old == BucketStart[tf][last]
           stale == IF Stale(tf, t) THEN <<Candle(tf, groups[tf])>> ELSE <<>>
           Candles == [close: Nat, rows: Seq(Instants)]
<1>1. t \in Instants /\ t \in Nat /\ \A s : Passed(s) => s < t
  BY ArrivalIsLater
<1>2. R \in SUBSET Instants /\ IsFiniteSet(R) /\ (source # <<>> => last \in R) /\ (source = <<>> => R = {})
  BY ReceivedFits
<1>3. Instants \subseteq Nat /\ LastTime \in Nat
  BY FeedAssumption DEF Instants
<1>4. ASSUME NEW x \in R PROVE x \in Nat /\ x <= last /\ x < t
  <2>1. x \in Nat /\ source # <<>>
    BY <1>2, <1>3
  <2>2. x <= last
    BY <1>4 DEF FeedBuilt, Received
  <2>3. Passed(x)
    BY <2>1, <2>2 DEF Passed, Latest
  <2>4. QED
    BY <1>1, <2>1, <2>2, <2>3
<1>5. G \in SUBSET Nat /\ IsFiniteSet(G)
  <2>1. StartsOf(R, tf) \in SUBSET Nat /\ IsFiniteSet(StartsOf(R, tf))
    BY <1>2, StartsFit
  <2>2. G \subseteq StartsOf(R, tf)
    OBVIOUS
  <2>3. QED
    BY <2>1, <2>2, FS_Subset
<1>6. m \in Nat /\ m <= t /\ \A x \in R : BucketStart[tf][x] \in Nat /\ BucketStart[tf][x] <= m
  <2>1. /\ m \in Nat /\ m <= t /\ \A e \in Edges[tf] : e <= t => e <= m
    BY <1>1, EdgesAround
  <2>2. ASSUME NEW x \in R PROVE BucketStart[tf][x] \in Nat /\ BucketStart[tf][x] <= m
    <3>1. BucketStart[tf][x] \in Edges[tf] /\ BucketStart[tf][x] \in Nat /\ BucketStart[tf][x] <= x
      BY <1>2, EdgesAround
    <3>2. x \in Nat /\ x < t
      BY <1>4
    <3>3. BucketStart[tf][x] <= t
      BY <1>1, <3>1, <3>2
    <3>4. QED
      BY <2>1, <3>1, <3>3
  <2>3. QED
    BY <2>1, <2>2
<1>7. \A e \in G : e < m
  BY <1>6 DEF StartsOf
<1>8. Ascending(BucketRows(R2, tf, m)) = Append(Ascending(BucketRows(R, tf, m)), t)
  BY <1>1, <1>2, <1>4, RowsGrow
<1>9. \A x \in R : BucketStart[tf][x] # m => BucketRows(R, tf, BucketStart[tf][x]) = BucketRows(R2, tf, BucketStart[tf][x])
  BY DEF BucketRows
<1>10. history[tf] \in Seq(Candles) /\ groups[tf] \in Seq(Instants)
  BY DEF FeedType
<1>11. history[tf] \o <<>> = history[tf]
  <2> HIDE DEF Candles
  <2>1. QED
    BY <1>10
<1>12. ASSUME NEW C \in SUBSET Nat, Sorted(C), IsFiniteSet(C), \A e \in C : e < m
       PROVE  Built(C, R2, tf) = Built(C, R, tf)
  <2>1. Len(Ascending(C)) = Cardinality(C)
    BY <1>6, <1>12, AscendingGrows
  <2>2. m \notin C
    BY <1>6, <1>12
  <2>3. QED
    BY <1>12, <2>1, <2>2, BuiltStays DEF Sorted
<1>13. ASSUME \A x \in R : BucketStart[tf][x] # m PROVE Ascending(BucketRows(R, tf, m)) = <<>>
  <2>1. BucketRows(R, tf, m) = {}
    BY <1>13 DEF BucketRows
  <2>2. QED
    BY <2>1, AscendingNone
<1>14. ASSUME ~Stale(tf, t), groups[tf] = <<>>, \A x \in R : BucketStart[tf][x] # m
       PROVE  /\ Rows(tf, t) = Ascending(BucketRows(R2, tf, m))
              /\ BucketStart[tf][Head(Rows(tf, t))] = m
  <2>1. Rows(tf, t) = Append(<<>>, t)
    BY <1>14 DEF Rows
  <2>2. QED
    BY <1>8, <1>13, <1>14, <2>1
<1>15. CASE source = <<>>
  <2>1. groups[tf] = <<>> /\ history[tf] = <<>>
    BY <1>15, BuiltAsAggregated DEF FeedBuilt, Forming
  <2>2. ~Stale(tf, t) /\ R = {} /\ G = {}
    BY <1>2, <1>15, <2>1 DEF Stale, StartsOf
  <2>3. Sorted(G)
    <3>1. \A T : <<>> \in Seq(T)
      OBVIOUS
    <3>2. Ascending(G) = <<>>
      BY <2>2, AscendingNone, Zenon
    <3>3. QED
      BY <3>1, <3>2, Zenon DEF Sorted
  <2>4. Built(G, R2, tf) = <<>>
    BY <2>2, BuiltNone, Zenon
  <2>5. QED
    BY <1>7, <1>11, <1>14, <2>1, <2>2, <2>3, <2>4
<1> DEFINE C == ClosedStarts(R, tf, last + 1)
<1>16. ASSUME source # <<>>
       PROVE  /\ history[tf] = Built(C, R, tf) /\ Sorted(C) /\ old \in Nat /\ old <= m
              /\ C = (StartsOf(R, tf) \ {old}) \cup (IF BucketEnd[tf][last] = last + 1 THEN {old} ELSE {})
              /\ old \in StartsOf(R, tf) /\ \A e \in StartsOf(R, tf) : e \in Nat /\ e <= old
              /\ C \in SUBSET Nat /\ IsFiniteSet(C)
  <2>1. history[tf] = Built(C, R, tf) /\ Sorted(C)
    BY <1>16, BuiltAsAggregated DEF FeedBuilt
  <2>2. /\ C = (StartsOf(R, tf) \ {old}) \cup (IF BucketEnd[tf][last] = last + 1 THEN {old} ELSE {})
        /\ \A e \in StartsOf(R, tf) : e \in Nat /\ e <= old
    BY <1>2, <1>4, <1>16, ClosedByNow
  <2>3. old \in StartsOf(R, tf)
    BY <1>2, <1>16 DEF StartsOf
  <2>4. StartsOf(R, tf) \in SUBSET Nat /\ IsFiniteSet(StartsOf(R, tf))
    BY <1>2, StartsFit
  <2>5. C \subseteq StartsOf(R, tf)
    BY DEF ClosedStarts
  <2>6. old \in Nat /\ old <= m
    BY <1>2, <1>6, <1>16
  <2>7. C \in SUBSET Nat /\ IsFiniteSet(C)
    BY <2>4, <2>5, FS_Subset
  <2> HIDE DEF C
  <2>8. QED
    BY <2>1, <2>2, <2>3, <2>6, <2>7
<1>17. ASSUME source # <<>>, old < m
       PROVE  (\A x \in R : BucketStart[tf][x] # m) /\ G = StartsOf(R, tf)
  <2>1. \A e \in StartsOf(R, tf) : e # m
    BY <1>6, <1>16, <1>17
  <2>2. QED
    BY <2>1 DEF StartsOf
<1> HIDE DEF C
<1>18. CASE source # <<>> /\ BucketEnd[tf][last] = last + 1
  <2>1. groups[tf] = <<>> /\ ~Stale(tf, t)
    BY <1>18 DEF FeedBuilt, Forming, Stale
  <2>2. old < m
    <3>1. BucketEnd[tf][last] \in Edges[tf] /\ old <= last /\ last < t /\ last \in Nat
      BY <1>2, <1>4, <1>18, EdgesAround
    <3>2. last + 1 <= t
      BY <1>1, <3>1
    <3>3. last + 1 <= m
      BY <1>1, <1>18, <3>1, <3>2, EdgesAround
    <3>4. QED
      BY <1>6, <1>16, <1>18, <3>1, <3>3
  <2>3. G = C
    BY <1>16, <1>17, <1>18, <2>2
  <2>4. Built(G, R2, tf) = history[tf] /\ Sorted(G)
    BY <1>5, <1>7, <1>12, <1>16, <1>18, <2>3
  <2>5. stale = <<>>
    BY <2>1
  <2>6. QED
    BY <1>7, <1>11, <1>14, <1>17, <1>18, <2>1, <2>2, <2>4, <2>5
<1>19. CASE source # <<>> /\ BucketEnd[tf][last] # last + 1
  <2>1. /\ groups[tf] = Ascending(BucketRows(R, tf, old)) /\ groups[tf] # <<>>
        /\ BucketStart[tf][Head(groups[tf])] = old
    BY <1>19 DEF FeedBuilt, Forming
  <2>2. C = StartsOf(R, tf) \ {old}
    BY <1>16, <1>19
  <2>3. CASE old = m
    <3>1. ~Stale(tf, t)
      BY <2>1, <2>3 DEF Stale
    <3>2. Rows(tf, t) = Append(groups[tf], t)
      BY <3>1 DEF Rows
    <3>3. Rows(tf, t) = Ascending(BucketRows(R2, tf, m))
      BY <1>8, <2>1, <2>3, <3>2
    <3>4. Head(Rows(tf, t)) = Head(groups[tf])
      BY <1>1, <1>10, <2>1, <3>2
    <3>5. Built(G, R2, tf) = history[tf] /\ Sorted(G)
      BY <1>5, <1>7, <1>12, <1>16, <1>19, <2>2, <2>3
    <3>6. stale = <<>>
      BY <3>1
    <3>7. QED
      BY <1>7, <1>11, <2>1, <2>3, <3>3, <3>4, <3>5, <3>6
  <2>4. CASE old # m
    <3>1. Stale(tf, t) /\ old < m
      BY <1>6, <1>16, <1>19, <2>1, <2>4 DEF Stale
    <3>2. G = StartsOf(R, tf) /\ G = C \cup {old} /\ old \notin C /\ \A x \in R : BucketStart[tf][x] # m
      BY <1>16, <1>17, <1>19, <2>2, <3>1
    <3>3. \A e \in C : e < old
      <4>1. \A e \in C : e \in Nat /\ e <= old /\ e # old
        BY <1>16, <1>19, <2>2
      <4>2. QED
        BY <1>16, <1>19, <4>1
    <3>4. /\ Built(G, R2, tf) = Append(Built(C, R2, tf), Candle(tf, Ascending(BucketRows(R2, tf, old))))
          /\ Sorted(G)
      <4>1. Built(C \cup {old}, R2, tf) =
              Append(Built(C, R2, tf), Candle(tf, Ascending(BucketRows(R2, tf, old))))
        BY <1>16, <1>19, <3>3, BuiltGrows
      <4>2. \A T : Ascending(C) \in Seq(T) /\ old \in T => Ascending(C \cup {old}) \in Seq(T)
        BY <1>16, <1>19, <3>3, AscendingGrows
      <4>3. Ascending(C) \in Seq(C \cup {old})
        BY <1>16, <1>19, SeqMonotonic DEF Sorted
      <4>4. Ascending(C \cup {old}) \in Seq(C \cup {old})
        BY <4>2, <4>3
      <4>5. QED
        BY <3>2, <4>1, <4>4 DEF Sorted
    <3>5. BucketRows(R2, tf, old) = BucketRows(R, tf, old)
      BY <1>2, <1>9, <1>19, <2>4
    <3>6. Built(C, R2, tf) = history[tf]
      <4>1. \A e \in C : e < m
        BY <1>7, <3>2
      <4>2. QED
        BY <1>12, <1>16, <1>19, <4>1
    <3>7. Built(G, R2, tf) = Append(history[tf], Candle(tf, groups[tf]))
      BY <2>1, <3>4, <3>5, <3>6
    <3>8. stale = <<Candle(tf, groups[tf])>> /\ Candle(tf, groups[tf]) \in Candles
      BY <1>10, <2>1, <3>1, CandleFits
    <3>9. history[tf] \o <<Candle(tf, groups[tf])>> = Append(history[tf], Candle(tf, groups[tf]))
      <4> HIDE DEF Candles, stale
      <4>1. QED
        BY <1>10, <3>8
    <3>10. Rows(tf, t) = <<t>>
      BY <3>1 DEF Rows
    <3>11. Ascending(BucketRows(R2, tf, m)) = Append(<<>>, t)
      BY <1>8, <1>13, <3>2
    <3>12. Rows(tf, t) = Ascending(BucketRows(R2, tf, m)) /\ BucketStart[tf][Head(Rows(tf, t))] = m
      BY <3>10, <3>11
    <3>13. history[tf] \o stale = Built(G, R2, tf)
      BY <3>7, <3>8, <3>9
    <3> HIDE DEF stale
    <3>14. QED
      BY <1>7, <3>4, <3>12, <3>13 DEF stale
  <2>5. QED
    BY <2>3, <2>4
<1>20. QED
  BY <1>15, <1>18, <1>19

(* One bar keeps the published candles those of a build.                   *)
LEMMA BarKeepsBuilt ==
  ASSUME FeedType, FeedBuilt, NEW t \in Arrivals, Update(t)
  PROVE  FeedBuilt'
<1> DEFINE R == Received
           R2 == R \cup {t}
<1>1. t \in Instants /\ t \in Nat /\ \A s : Passed(s) => s < t
  BY ArrivalIsLater
<1>2. /\ R \in SUBSET Instants /\ IsFiniteSet(R) /\ (source # <<>> => Latest \in R) /\ (source = <<>> => R = {})
      /\ source' = Append(source, t) /\ Received' = R2 /\ Latest' = t
  BY ReceivedFits DEF Update
<1>3. Instants \subseteq Nat /\ LastTime \in Nat
  BY FeedAssumption DEF Instants
<1>4. ASSUME NEW x \in R PROVE x \in Nat /\ x <= Latest /\ x < t
  <2>1. x \in Nat /\ source # <<>>
    BY <1>2, <1>3
  <2>2. x <= Latest
    BY <1>4 DEF FeedBuilt, Received
  <2>3. Passed(x)
    BY <2>1, <2>2 DEF Passed, Latest
  <2>4. QED
    BY <1>1, <2>1, <2>2, <2>3
<1>5. t \in R2 /\ R2 \in SUBSET Instants /\ (\A x \in R2 : x <= t) /\ IsFiniteSet(R2)
  <2>1. \A x \in R2 : x <= t
    BY <1>1, <1>4
  <2>2. IsFiniteSet(R2)
    BY <1>2, FS_AddElement
  <2>3. QED
    BY <1>1, <1>2, <2>1, <2>2
<1>6. source' # <<>>
  BY <1>2 DEF FeedType
<1>7. (\A i \in DOMAIN source : source[i] <= Latest)'
  <2>1. \A x \in R2 : x <= t
    BY <1>5
  <2>2. (\A x \in Received : x <= Latest)'
    BY <1>2, <2>1
  <2>3. QED
    BY <2>2 DEF Received
<1>8. ASSUME NEW tf \in Timeframes
      PROVE  /\ history'[tf] = AggregateBars(source, tf)' /\ Forming(tf)'
             /\ Sorted(ClosedStarts(R2, tf, t + 1))
  <2> DEFINE m == BucketStart[tf][t]
             G == StartsOf(R, tf) \ {m}
             stale == IF Stale(tf, t) THEN <<Candle(tf, groups[tf])>> ELSE <<>>
             full == IF Complete(tf, t) THEN <<Candle(tf, Rows(tf, t))>> ELSE <<>>
             now2 == ClosedStarts(R2, tf, t + 1)
             Candles == [close: Nat, rows: Seq(Instants)]
  <2>1. /\ history[tf] \o stale = Built(G, R2, tf)
        /\ Sorted(G) /\ \A e \in G : e < m
        /\ Rows(tf, t) = Ascending(BucketRows(R2, tf, m))
        /\ BucketStart[tf][Head(Rows(tf, t))] = m
    BY BarMovesBucket
  <2>2. now2 = (StartsOf(R2, tf) \ {m}) \cup (IF BucketEnd[tf][t] = t + 1 THEN {m} ELSE {})
    BY <1>5, ClosedByNow
  <2>3. StartsOf(R2, tf) \ {m} = G
    BY DEF StartsOf
  <2>4. m \in Nat /\ BucketEnd[tf][t] \in Nat
    BY <1>1, EdgesAround, FeedAssumption
  <2>5. G \in SUBSET Nat /\ IsFiniteSet(G)
    <3>1. StartsOf(R, tf) \in SUBSET Nat /\ IsFiniteSet(StartsOf(R, tf))
      BY <1>2, StartsFit
    <3>2. G \subseteq StartsOf(R, tf)
      OBVIOUS
    <3>3. QED
      BY <3>1, <3>2, FS_Subset
  <2>6. AggregateBars(source, tf)' = Built(now2, R2, tf)
    <3>1. (source # <<>> => AggregateBars(source, tf) = Built(ClosedStarts(Received, tf, Latest + 1), Received, tf))'
      BY BuiltAsAggregated, PTL
    <3>2. QED
      BY <1>2, <1>6, <3>1
  <2>7. /\ history'[tf] = (history[tf] \o stale) \o full
        /\ groups'[tf] = IF Complete(tf, t) THEN <<>> ELSE Rows(tf, t)
    BY DEF Update
  <2>8. Complete(tf, t) <=> BucketEnd[tf][t] = t + 1
    BY <1>1, <2>4 DEF Complete
  <2>9. history[tf] \o stale \in Seq(Candles) /\ Candle(tf, Rows(tf, t)) \in Candles /\ Rows(tf, t) # <<>>
    <3>1. history[tf] \in Seq(Candles) /\ groups[tf] \in Seq(Instants)
      BY DEF FeedType
    <3>2. Candle(tf, Rows(tf, t)) \in Candles /\ Rows(tf, t) # <<>>
      BY <1>1, RowsFit, CandleFits
    <3>3. ASSUME Stale(tf, t) PROVE stale = <<Candle(tf, groups[tf])>> /\ Candle(tf, groups[tf]) \in Candles
      BY <3>1, <3>3, CandleFits DEF Stale
    <3>4. ~Stale(tf, t) => stale = <<>>
      OBVIOUS
    <3> HIDE DEF Candles, stale
    <3>5. stale \in Seq(Candles)
      <4>1. CASE Stale(tf, t)
        BY <3>3, <4>1, OneOrNone, Zenon
      <4>2. CASE ~Stale(tf, t)
        BY <3>4, <4>2
      <4>3. QED
        BY <4>1, <4>2
    <3>6. history[tf] \o stale \in Seq(Candles)
      BY <3>1, <3>5
    <3>7. QED
      BY <3>2, <3>6
  <2> HIDE DEF m, G, stale, full, now2, Candles
  <2>10. CASE ~Complete(tf, t)
    <3>1. full = <<>> /\ now2 = G
      BY <2>2, <2>3, <2>8, <2>10 DEF full
    <3>2. (history[tf] \o stale) \o <<>> = history[tf] \o stale
      BY <2>9
    <3>3. Forming(tf)'
      BY <1>2, <1>6, <2>1, <2>7, <2>8, <2>9, <2>10 DEF Forming, m
    <3>4. QED
      BY <2>1, <2>6, <2>7, <3>1, <3>2, <3>3 DEF now2
  <2>11. CASE Complete(tf, t)
    <3>1. full = <<Candle(tf, Rows(tf, t))>> /\ now2 = G \cup {m}
      BY <2>2, <2>3, <2>8, <2>11 DEF full
    <3>2. (history[tf] \o stale) \o <<Candle(tf, Rows(tf, t))>> = Append(history[tf] \o stale, Candle(tf, Rows(tf, t)))
      BY <2>9
    <3>3. Built(G \cup {m}, R2, tf) = Append(Built(G, R2, tf), Candle(tf, Ascending(BucketRows(R2, tf, m))))
      BY <2>1, <2>4, <2>5, BuiltGrows
    <3>4. Sorted(G \cup {m})
      <4>1. \A T : Ascending(G) \in Seq(T) /\ m \in T => Ascending(G \cup {m}) \in Seq(T)
        BY <2>1, <2>4, <2>5, AscendingGrows
      <4>2. Ascending(G) \in Seq(G \cup {m})
        BY <2>1, SeqMonotonic DEF Sorted
      <4>3. QED
        BY <4>1, <4>2 DEF Sorted
    <3>5. Forming(tf)'
      BY <1>2, <1>6, <2>7, <2>8, <2>11 DEF Forming
    <3>6. QED
      BY <2>1, <2>6, <2>7, <3>1, <3>2, <3>3, <3>4, <3>5 DEF now2
  <2>12. QED
    BY <2>10, <2>11
<1>9. QED
  BY <1>2, <1>7, <1>8 DEF FeedBuilt

(* Each step of the feed, and of the strategies above it.                  *)
LEMMA FeedStarts == FeedInit => FeedType /\ FeedBuilt
<1> SUFFICES ASSUME FeedInit PROVE FeedType /\ FeedBuilt
  OBVIOUS
<1>1. source = <<>> /\ \A tf \in Timeframes : groups[tf] = <<>> /\ history[tf] = <<>>
  BY DEF FeedInit
<1>2. FeedType
  BY DEF FeedInit, FeedType
<1>3. ASSUME NEW tf \in Timeframes PROVE history[tf] = AggregateBars(source, tf) /\ Forming(tf)
  BY <1>1, BuiltAsAggregated DEF Forming
<1>4. DOMAIN source = {}
  BY <1>1
<1>5. QED
  BY <1>1, <1>2, <1>3, <1>4 DEF FeedBuilt

LEMMA FeedKeeps ==
  ASSUME FeedType, FeedBuilt, (\E t \in Arrivals : Update(t)) \/ UNCHANGED feedVars
  PROVE  FeedType' /\ FeedBuilt'
<1>1. CASE \E t \in Arrivals : Update(t)
  BY <1>1, FeedStep, BarKeepsBuilt
<1>2. CASE UNCHANGED feedVars
  <2>1. source' = source /\ groups' = groups /\ history' = history
    BY <1>2 DEF feedVars
  <2>2. FeedType'
    BY <2>1 DEF FeedType
  <2>3. Received' = Received /\ Latest' = Latest
    BY <2>1 DEF Received, Latest
  <2>4. \A tf \in Timeframes : (AggregateBars(source, tf))' = AggregateBars(source, tf)
    BY <2>1 DEF AggregateBars
  <2>5. \A tf \in Timeframes : Forming(tf)' <=> Forming(tf)
    BY <2>1, <2>3 DEF Forming
  <2>6. QED
    BY <2>1, <2>2, <2>3, <2>4, <2>5 DEF FeedBuilt
<1>3. QED
  BY <1>1, <1>2

(* For every ladder of timeframes and every feed with its gaps, alone and  *)
(* below the strategies, the candles published bar by bar are those one    *)
(* pass over the bars received so far builds: none is early, cut short,    *)
(* dropped at a gap or published twice (update against build).             *)
THEOREM CandlesSound == (FeedSpec => []CandlesAsBuilt) /\ (StrategySpec => []CandlesAsBuilt)
<1>1. FeedType /\ FeedBuilt => CandlesAsBuilt
  BY DEF FeedBuilt, CandlesAsBuilt
<1>2. FeedInit => FeedType /\ FeedBuilt
  BY FeedStarts
<1>3. FeedType /\ FeedBuilt /\ [FeedNext]_feedVars => FeedType' /\ FeedBuilt'
  BY FeedKeeps DEF FeedNext
<1>4. FeedSpec => []CandlesAsBuilt
  BY <1>1, <1>2, <1>3, PTL DEF FeedSpec
<1>5. StrategyInit => FeedInit
  BY DEF StrategyInit
<1>6. StrategyNext => \E t \in Arrivals : Update(t)
  BY Zenon DEF StrategyNext, OnBar
<1>7. FeedType /\ FeedBuilt /\ [StrategyNext]_strategyVars => FeedType' /\ FeedBuilt'
  BY <1>6, FeedKeeps DEF strategyVars
<1>8. StrategySpec => []CandlesAsBuilt
  BY <1>1, <1>2, <1>5, <1>7, PTL DEF StrategySpec
<1>9. QED
  BY <1>4, <1>8

(***************************************************************************)
(* Discovery: the parts of a history                                       *)
(***************************************************************************)
(* The parts follow each other, and the last is less than half.            *)
Follows(p, from, length) ==
  /\ p.dev.to = p.val.from /\ p.val.to = p.oos.from /\ p.oos.to = from + length
  /\ p.oos.from \in Nat /\ p.oos.to \in Nat /\ (length >= 1 => p.oos.from < p.oos.to)
  /\ (length >= 30 => 2 * (p.oos.to - p.oos.from) < length)

LEMMA PartitionFits ==
  ASSUME NEW from \in Nat, NEW length \in Nat
  PROVE  Follows(Partition(from, length), from, length)
<1> DEFINE dev == (length * 70) \div 100
           val == (length * 15) \div 100
<1>1. /\ dev \in Int /\ 100 * dev <= 70 * length /\ 70 * length < 100 * dev + 100
      /\ val \in Int /\ 100 * val <= 15 * length /\ 15 * length < 100 * val + 100
  OBVIOUS
<1>2. Partition(from, length) = [dev |-> [from |-> from, to |-> from + dev],
                            val |-> [from |-> from + dev, to |-> from + dev + val],
                            oos |-> [from |-> from + dev + val, to |-> from + dev + val + (length - dev - val)]]
  BY DEF Partition, Part
<1> HIDE DEF dev, val
<1>3. dev >= 0 /\ val >= 0
  BY <1>1
<1>4. from + dev + val + (length - dev - val) = from + length
  BY <1>1
<1>5. length >= 1 => from + dev + val < from + length
  BY <1>1
<1>6. length >= 30 => 2 * (from + length - (from + dev + val)) < length
  BY <1>1
<1>7. from + dev + val \in Nat /\ from + length \in Nat /\ from <= from + dev + val
  BY <1>1, <1>3
<1>8. QED
  BY <1>2, <1>4, <1>5, <1>6, <1>7 DEF Follows

(* A window is at least thirty bars, the next begins half of it later.     *)
LEMMA RollingFits ==
  ASSUME NEW program, NEW id, NEW length \in Nat
  PROVE  LET r == Rolling(program, id, length)
         IN /\ r.window \in Nat /\ r.window >= 30
            /\ r.step \in Nat /\ r.step >= 15 /\ r.window <= 2 * r.step + 1
<1>1. /\ (length * 60) \div 100 \in Nat /\ length \div 2 \in Nat
  OBVIOUS
<1>2. CASE program \in PipelinePrograms
  <2> DEFINE m == (length * 60) \div 100
             w == Larger(300, Smaller(1000, m))
             s == Larger(150, Smaller(500, w \div 2))
  <2>1. Rolling(program, id, length) = [window |-> w, step |-> s]
    BY <1>2 DEF Rolling, PipelinePrograms, LoopPrograms
  <2> HIDE DEF m
  <2>2. w \in Nat /\ w >= 300 /\ w <= 1000
    BY <1>1 DEF Larger, Smaller, m
  <2> HIDE DEF w
  <2>3. w \div 2 \in Int /\ 2 * (w \div 2) <= w /\ w < 2 * (w \div 2) + 2
    BY <2>2
  <2>4. s = w \div 2
    BY <2>2, <2>3 DEF Larger, Smaller
  <2> HIDE DEF s
  <2>5. QED
    BY <2>1, <2>2, <2>3, <2>4
<1>3. CASE program \notin PipelinePrograms /\ program \in LoopPrograms /\ id \in Structural
  <2> DEFINE w == Larger(30, length \div 2)
             s == Larger(15, w \div 2)
  <2>1. Rolling(program, id, length) = [window |-> w, step |-> s]
    BY <1>3 DEF Rolling, PipelinePrograms, LoopPrograms
  <2>2. w \in Nat /\ w >= 30
    BY <1>1 DEF Larger
  <2> HIDE DEF w
  <2>3. w \div 2 \in Int /\ 2 * (w \div 2) <= w /\ w < 2 * (w \div 2) + 2
    BY <2>2
  <2>4. s = w \div 2
    BY <2>2, <2>3 DEF Larger
  <2> HIDE DEF s
  <2>5. QED
    BY <2>1, <2>2, <2>3, <2>4
<1>4. CASE program \notin PipelinePrograms /\ ~(program \in LoopPrograms /\ id \in Structural)
  <2> DEFINE m == (length * 60) \div 100
             w == Larger(30, Smaller(1000, m))
             s == Larger(15, Smaller(500, w \div 2))
  <2>1. Rolling(program, id, length) = [window |-> w, step |-> s]
    BY <1>4 DEF Rolling
  <2> HIDE DEF m
  <2>2. w \in Nat /\ w >= 30 /\ w <= 1000
    BY <1>1 DEF Larger, Smaller, m
  <2> HIDE DEF w
  <2>3. w \div 2 \in Int /\ 2 * (w \div 2) <= w /\ w < 2 * (w \div 2) + 2
    BY <2>2
  <2>4. s = w \div 2
    BY <2>2, <2>3 DEF Larger, Smaller
  <2> HIDE DEF s
  <2>5. QED
    BY <2>1, <2>2, <2>3, <2>4
<1>5. QED
  BY <1>2, <1>3, <1>4

(* Later windows begin a step later for each that lies between.            *)
LEMMA WindowsApart ==
  ASSUME NEW step \in Nat, NEW window \in Nat, window >= 30, window <= 2 * step + 1,
         NEW k \in Nat, NEW j \in Nat, k < j
  PROVE  Partition(k * step, window).oos.to <= Partition(j * step, window).oos.from
<1>1. k * step \in Nat /\ j * step \in Nat
  OBVIOUS
<1>2. k * step + step <= j * step
  <2>1. (k + 1) * step <= j * step
    OBVIOUS
  <2>2. QED
    BY <2>1
<1> DEFINE p == Partition(k * step, window)
           q == Partition(j * step, window)
<1>3. p.oos.to = k * step + window /\ q.oos.to = j * step + window
      /\ q.oos.from \in Nat /\ 2 * (q.oos.to - q.oos.from) < window
  BY <1>1, PartitionFits DEF Follows
<1> HIDE DEF p, q
<1>4. p.oos.to <= q.oos.from
  BY <1>1, <1>2, <1>3
<1>5. QED
  BY <1>4 DEF p, q

LEMMA FairTests ==
  ASSUME NEW v, v.bars \in Nat, Testable(v.program, v.id, v.bars)
  PROVE  TestedFairly(v)
<1> DEFINE length == v.bars
           r == Rolling(v.program, v.id, length)
           windows == RollingWindows(v.program, v.id, length)
<1>1. length \in Nat /\ length >= 30
  BY DEF Testable
<1> HIDE DEF length
<1>2. /\ r.window \in Nat /\ r.window >= 30
      /\ r.step \in Nat /\ r.step >= 15 /\ r.window <= 2 * r.step + 1
  BY <1>1, RollingFits
<1>3. windows = {Partition(k * r.step, r.window) : k \in {j \in 0..length \div r.step : j * r.step + r.window <= length}}
  BY DEF RollingWindows
<1> HIDE DEF r, windows
<1>4. ASSUME NEW w \in windows
      PROVE  \E k \in Nat : w = Partition(k * r.step, r.window) /\ k * r.step + r.window <= length
  <2>1. length \div r.step \in Int
    BY <1>1, <1>2
  <2>2. QED
    BY <1>3, <1>4, <2>1
<1>5. LET whole == Partition(0, length)
      IN /\ whole.dev.to = whole.val.from /\ whole.val.to = whole.oos.from
         /\ whole.oos.to = length
  <2>1. Follows(Partition(0, length), 0, length)
    BY <1>1, PartitionFits
  <2>2. QED
    BY <1>1, <2>1 DEF Follows
<1>6. ASSUME NEW w \in windows PROVE w.oos.to <= length /\ w.oos.from < w.oos.to
  <2>1. PICK k \in Nat : w = Partition(k * r.step, r.window) /\ k * r.step + r.window <= length
    BY <1>4
  <2>2. k * r.step \in Nat
    BY <1>2
  <2>3. Follows(w, k * r.step, r.window)
    BY <1>2, <2>1, <2>2, PartitionFits
  <2>4. w.oos.to = k * r.step + r.window /\ w.oos.from < w.oos.to
    BY <1>2, <2>3 DEF Follows
  <2>5. QED
    BY <2>1, <2>4
<1>7. ASSUME NEW w \in windows, NEW x \in windows, w # x PROVE ~Overlap(w.oos, x.oos)
  <2>1. PICK k \in Nat : w = Partition(k * r.step, r.window)
    BY <1>4
  <2>2. PICK j \in Nat : x = Partition(j * r.step, r.window)
    BY <1>4
  <2>3. k * r.step \in Nat /\ j * r.step \in Nat
    BY <1>2
  <2>4. w.oos.from \in Nat /\ w.oos.to \in Nat /\ x.oos.from \in Nat /\ x.oos.to \in Nat
    <3>1. Follows(w, k * r.step, r.window) /\ Follows(x, j * r.step, r.window)
      BY <1>2, <2>1, <2>2, <2>3, PartitionFits
    <3>2. QED
      BY <3>1 DEF Follows
  <2>5. k # j
    BY <1>7, <2>1, <2>2
  <2>6. CASE k < j
    <3>1. w.oos.to <= x.oos.from
      BY <1>2, <2>1, <2>2, <2>6, WindowsApart
    <3>2. QED
      BY <2>4, <3>1 DEF Overlap
  <2>7. CASE j < k
    <3>1. x.oos.to <= w.oos.from
      BY <1>2, <2>1, <2>2, <2>7, WindowsApart
    <3>2. QED
      BY <2>4, <3>1 DEF Overlap
  <2>8. QED
    BY <2>5, <2>6, <2>7
<1>8. \A b \in BacktestsOf(v.program, v.id, length) : b.before = {}
  BY DEF BacktestsOf, Fresh
<1>9. QED
  BY <1>5, <1>6, <1>7, <1>8 DEF TestedFairly, length, windows

(* A calibration that fits has its parts as they are, one after another.   *)
LEMMA CalibrationInside ==
  ASSUME NEW v, v.bars \in Nat, CalibrationFits(v.bars)
  PROVE  InsideHistory(v)
<1> DEFINE length == v.bars
           dev == (length * 70) \div 100
           val == (length * 15) \div 100
<1>1. length \in Nat
  OBVIOUS
<1> HIDE DEF length
<1>2. /\ dev \in Int /\ 100 * dev <= 70 * length /\ 70 * length < 100 * dev + 100
      /\ val \in Int /\ 100 * val <= 15 * length /\ 15 * length < 100 * val + 100
  BY <1>1
<1>3. CalibrationSizes(length) = [dev |-> Larger(dev, 1000), val |-> Larger(val, 200),
                             oos |-> Larger(length - dev - val, 200)]
  BY DEF CalibrationSizes
<1> HIDE DEF dev, val
<1> DEFINE d == Larger(dev, 1000)
           w == Larger(val, 200)
           o == Larger(length - dev - val, 200)
<1>4. d + w + o <= length
  BY <1>3 DEF CalibrationFits, length
<1>5. d = dev /\ w = val /\ o = length - dev - val
  BY <1>1, <1>2, <1>4 DEF Larger
<1>6. d + w + o = length /\ d \in Nat /\ w \in Nat /\ o \in Nat
  BY <1>1, <1>2, <1>5 DEF Larger
<1>7. CalibrationPartition(length) = [dev |-> [from |-> 0, to |-> 0 + d],
                                 val |-> [from |-> d, to |-> d + w],
                                 oos |-> [from |-> d + w, to |-> d + w + o]]
  BY <1>3 DEF CalibrationPartition, Part
<1> HIDE DEF d, w, o
<1>8. CalibrationPartition(length).oos.to = length
  BY <1>6, <1>7
<1>9. ASSUME NEW a \in PartsOf(CalibrationPartition(length)), NEW b \in PartsOf(CalibrationPartition(length)), a # b
      PROVE  ~Overlap(a, b)
  <2>1. /\ a \in {[from |-> 0, to |-> 0 + d], [from |-> d, to |-> d + w], [from |-> d + w, to |-> d + w + o]}
        /\ b \in {[from |-> 0, to |-> 0 + d], [from |-> d, to |-> d + w], [from |-> d + w, to |-> d + w + o]}
    BY <1>7 DEF PartsOf
  <2>2. QED
    BY <1>6, <1>9, <2>1 DEF Overlap
<1>10. QED
  BY <1>8, <1>9 DEF InsideHistory, length

(***************************************************************************)
(* Discovery: verdicts and artifacts                                       *)
(***************************************************************************)
BacktestResults == [trades : Nat, expectancy : Int, drawdown : Int]

(* What the backtests of a candidate may give.                             *)
PossibleTrials ==
  [dev : BacktestResults, val : BacktestResults, oos : BacktestResults, bootstrap : Int,
   shocked : Int, sharpe : Int, rolled : Nat, losing : Nat, p : Nat, trimmed : Int]

GateSet == {GateNames[k] : k \in DOMAIN GateNames}

LEMMA GatesNamed ==
  /\ DOMAIN GateNames = 1..8 /\ GateSet = {"G1", "G2", "G3", "G4", "G5", "G6", "G7", "G8"}
  /\ GateNames[1] = "G1" /\ GateNames[8] = "G8"
  /\ Blank \notin GateSet /\ "PROMOTED" \notin GateSet
<1>1. /\ DOMAIN GateNames = 1..8 /\ GateNames[1] = "G1" /\ GateNames[2] = "G2"
      /\ GateNames[3] = "G3" /\ GateNames[4] = "G4" /\ GateNames[5] = "G5" /\ GateNames[6] = "G6"
      /\ GateNames[7] = "G7" /\ GateNames[8] = "G8"
  BY DEF GateNames
<1>2. GateSet = {"G1", "G2", "G3", "G4", "G5", "G6", "G7", "G8"}
  <2>1. \A k : k \in 1..8 <=> k \in {1, 2, 3, 4, 5, 6, 7, 8}
    OBVIOUS
  <2> HIDE DEF GateNames
  <2>2. QED
    BY <1>1, <2>1 DEF GateSet
<1>3. Blank \notin GateSet
  BY DiscoveryAssumption DEF GateSet
<1>4. QED
  BY <1>1, <1>2, <1>3

(* A candidate with no failed gate has passed them all.                    *)
LEMMA FirstFailed ==
  ASSUME NEW o, NEW windows, NEW min
  PROVE  /\ FailedGate(o, windows, min) \in GateSet \cup {Blank}
         /\ FailedGate(o, windows, min) = Blank =>
              \A k \in DOMAIN GateNames : Gate(GateNames[k], o, windows, min)
<1> DEFINE fails == {k \in DOMAIN GateNames : ~Gate(GateNames[k], o, windows, min)}
           first == CHOOSE k \in fails : \A j \in fails : k <= j
<1>1. FailedGate(o, windows, min) = IF fails = {} THEN Blank ELSE GateNames[first]
  BY Zenon DEF FailedGate
<1>2. fails # {} => first \in fails
  <2>1. fails \in SUBSET Nat
    <3>1. DOMAIN GateNames = 1..8
      BY GatesNamed
    <3>2. QED
      BY <3>1
  <2> HIDE DEF fails
  <2>2. SUFFICES ASSUME fails # {} PROVE first \in fails
    OBVIOUS
  <2>3. \E k \in fails : \A j \in fails : k <= j
    BY <2>1, <2>2, LeastNumber
  <2>4. QED
    BY <2>3, Zenon
<1> HIDE DEF first
<1>3. fails # {} => GateNames[first] \in GateSet
  BY <1>2 DEF GateSet
<1>4. Blank \notin GateSet
  BY GatesNamed
<1>5. fails = {} => \A k \in DOMAIN GateNames : Gate(GateNames[k], o, windows, min)
  OBVIOUS
<1> HIDE DEF fails
<1>6. QED
  BY <1>1, <1>3, <1>4, <1>5

(* What a verdict, reached or about to be, rests on.                       *)
SoundVerdict(v) ==
  /\ v.status = "PROMOTABLE_PAPER_ONLY" \/ v.failed # Blank => Testable(v.program, v.id, v.bars)
  /\ v.status = "ERROR" => CalibrationFits(v.bars)
  /\ v.status = "PROMOTABLE_PAPER_ONLY" =>
       /\ Cardinality(RollingWindows(v.program, v.id, v.bars)) >= 3
       /\ v.id \in Structural \/ v.program = "strict" => v.provenance \in RealData
       /\ v.program \notin {"matrix", "calibrate"}

Names == [id : Ids, label : GateSet \cup {"PROMOTED"}, second : Nat]

\* A promotion that names no data will be followed by one that does.
Unfinished(f) ==
  \/ faults > 0
  \/ judged # Blank /\ judged.id = f.id /\ judged.failed = Blank
  \/ \E later \in DOMAIN artifacts :
       /\ later.id = f.id /\ later.label = "PROMOTED" /\ later.second > f.second
       /\ artifacts[later].provenance # Blank

Witnessed(f) ==
  \E k \in DOMAIN verdicts :
    /\ verdicts[k].status = "PROMOTABLE_PAPER_ONLY"
    /\ verdicts[k].id = f.id /\ verdicts[k].provenance = artifacts[f].provenance

Explained(f) == IF artifacts[f].provenance # Blank THEN Witnessed(f) ELSE Unfinished(f)

PromotionType ==
  /\ verdicts \in Seq(Judgements) /\ judged \in Judgements \cup {Blank}
  /\ second \in Nat /\ faults \in Nat
  /\ DOMAIN artifacts \subseteq Names /\ \A f \in DOMAIN artifacts : f.second <= second

VerdictsSound ==
  /\ \A k \in DOMAIN verdicts : SoundVerdict(verdicts[k])
  /\ judged # Blank => /\ SoundVerdict(judged)
                       /\ judged.failed = Blank <=> judged.status = "PROMOTABLE_PAPER_ONLY"

ArtifactsExplained == \A f \in DOMAIN artifacts : f.label = "PROMOTED" => Explained(f)

PromotionInv == PromotionType /\ VerdictsSound /\ ArtifactsExplained

LEMMA LabelTells ==
  ASSUME NEW gate \in GateSet \cup {Blank}
  PROVE  Label(gate) \in GateSet \cup {"PROMOTED"} /\ (Label(gate) = "PROMOTED" <=> gate = Blank)
BY GatesNamed DEF Label

LEMMA Concluded ==
  ASSUME PromotionType, VerdictsSound, NEW v \in Judgements, SoundVerdict(v), Conclude(v)
  PROVE  /\ verdicts' \in Seq(Judgements) /\ \A k \in DOMAIN verdicts' : SoundVerdict(verdicts'[k])
         /\ \A k \in DOMAIN verdicts : k \in DOMAIN verdicts' /\ verdicts'[k] = verdicts[k]
         /\ \E k \in DOMAIN verdicts' : verdicts'[k] = v
<1>1. verdicts' = Append(verdicts, v) /\ verdicts \in Seq(Judgements)
  BY DEF Conclude, PromotionType
<1>2. /\ verdicts' \in Seq(Judgements)
      /\ \A k \in DOMAIN verdicts : k \in DOMAIN verdicts' /\ verdicts'[k] = verdicts[k]
      /\ Len(verdicts) + 1 \in DOMAIN verdicts' /\ verdicts'[Len(verdicts) + 1] = v
      /\ \A k \in DOMAIN verdicts' : k \in DOMAIN verdicts \/ k = Len(verdicts) + 1
  BY <1>1
<1>3. ASSUME NEW k \in DOMAIN verdicts' PROVE SoundVerdict(verdicts'[k])
  <2>1. CASE k \in DOMAIN verdicts
    BY <1>2, <2>1 DEF VerdictsSound
  <2>2. CASE k = Len(verdicts) + 1
    BY <1>2, <2>2
  <2>3. QED
    BY <1>2, <1>3, <2>1, <2>2
<1>4. QED
  BY <1>2, <1>3

(* A verdict without artifacts.                                            *)
LEMMA ConcludedAlone ==
  ASSUME PromotionInv, NEW v \in Judgements, SoundVerdict(v), Conclude(v),
         UNCHANGED <<artifacts, judged, second, faults>>
  PROVE  PromotionInv'
<1> USE DEF PromotionInv
<1>1. /\ verdicts' \in Seq(Judgements) /\ \A k \in DOMAIN verdicts' : SoundVerdict(verdicts'[k])
      /\ \A k \in DOMAIN verdicts : k \in DOMAIN verdicts' /\ verdicts'[k] = verdicts[k]
  BY Concluded
<1>2. PromotionType'
  BY <1>1 DEF PromotionType
<1>3. VerdictsSound'
  <2>1. \A k \in DOMAIN verdicts' : SoundVerdict(verdicts[k])' <=> SoundVerdict(verdicts'[k])
    BY DEF SoundVerdict
  <2>2. SoundVerdict(judged)' <=> SoundVerdict(judged)
    BY DEF SoundVerdict
  <2>3. QED
    BY <1>1, <2>1, <2>2 DEF VerdictsSound
<1>4. ASSUME NEW f \in DOMAIN artifacts, Explained(f) PROVE Explained(f)'
  BY <1>1, <1>4 DEF Explained, Witnessed, Unfinished
<1>5. ArtifactsExplained'
  BY <1>4 DEF ArtifactsExplained
<1>6. QED
  BY <1>2, <1>3, <1>5

LEMMA Written ==
  ASSUME NEW name, NEW content, Write(name, content)
  PROVE  /\ DOMAIN artifacts' = DOMAIN artifacts \cup {name} /\ artifacts'[name] = content
         /\ \A f \in DOMAIN artifacts \ {name} : artifacts'[f] = artifacts[f]
BY DEF Write

LEMMA NameFits ==
  ASSUME PromotionType, NEW id \in Ids, NEW gate \in GateSet \cup {Blank}
  PROVE  /\ NameOf(id, gate, second) \in Names /\ NameOf(id, gate, second).id = id
         /\ NameOf(id, gate, second).second = second
         /\ NameOf(id, gate, second).label = "PROMOTED" <=> gate = Blank
BY LabelTells DEF NameOf, Names, PromotionType

(* The evaluator writes its artifact, without naming the data.             *)
LEMMA Drafted ==
  ASSUME PromotionInv, judged = Blank, NEW v \in Judgements, SoundVerdict(v),
         v.failed = Blank <=> v.status = "PROMOTABLE_PAPER_ONLY",
         Write(NameOf(v.id, v.failed, second), [provenance |-> Blank]),
         \/ judged' = v /\ UNCHANGED verdicts
         \/ v.failed # Blank /\ Conclude(v) /\ UNCHANGED judged,
         UNCHANGED <<second, faults>>
  PROVE  PromotionInv'
<1> USE DEF PromotionInv
<1> DEFINE name == NameOf(v.id, v.failed, second)
<1>1. v.id \in Ids /\ v.failed \in GateSet \cup {Blank} /\ v # Blank
  BY DiscoveryAssumption DEF Judgements, GateSet
<1>2. /\ name \in Names /\ name.id = v.id /\ name.second = second
      /\ name.label = "PROMOTED" <=> v.failed = Blank
  BY <1>1, NameFits
<1>3. /\ DOMAIN artifacts' = DOMAIN artifacts \cup {name} /\ artifacts'[name] = [provenance |-> Blank]
      /\ \A f \in DOMAIN artifacts \ {name} : artifacts'[f] = artifacts[f]
  BY Written
<1> HIDE DEF name
<1>4. /\ verdicts' \in Seq(Judgements) /\ \A k \in DOMAIN verdicts' : SoundVerdict(verdicts'[k])
      /\ \A k \in DOMAIN verdicts : k \in DOMAIN verdicts' /\ verdicts'[k] = verdicts[k]
  <2>1. CASE UNCHANGED verdicts
    BY <2>1 DEF PromotionType, VerdictsSound
  <2>2. CASE Conclude(v)
    BY <2>2, Concluded
  <2>3. QED
    BY <2>1, <2>2
<1>5. PromotionType'
  BY <1>2, <1>3, <1>4 DEF PromotionType, Names
<1>6. VerdictsSound'
  <2>1. \A k \in DOMAIN verdicts' : SoundVerdict(verdicts[k])' <=> SoundVerdict(verdicts'[k])
    BY DEF SoundVerdict
  <2>2. judged' # Blank => judged' = v
    OBVIOUS
  <2>3. judged' = v => (SoundVerdict(judged)' <=> SoundVerdict(v))
    BY DEF SoundVerdict
  <2>4. QED
    BY <1>4, <2>1, <2>2, <2>3 DEF VerdictsSound
<1>7. ASSUME NEW f \in DOMAIN artifacts', f.label = "PROMOTED" PROVE Explained(f)'
  <2>1. CASE f = name
    <3>1. artifacts'[f].provenance = Blank
      BY <1>3, <2>1
    <3>2. v.failed = Blank /\ judged' = v
      BY <1>2, <1>7, <2>1
    <3>3. QED
      BY <1>1, <1>2, <2>1, <3>1, <3>2 DEF Explained, Unfinished
  <2>2. CASE f # name
    <3>1. f \in DOMAIN artifacts /\ artifacts'[f] = artifacts[f] /\ Explained(f)
      BY <1>3, <1>7, <2>2 DEF ArtifactsExplained
    <3>2. CASE artifacts[f].provenance # Blank
      BY <1>4, <3>1, <3>2 DEF Explained, Witnessed
    <3>3. CASE artifacts[f].provenance = Blank
      <4>1. Unfinished(f)
        BY <3>1, <3>3 DEF Explained
      <4>2. CASE faults > 0
        BY <3>1, <3>3, <4>2 DEF Explained, Unfinished
      <4>3. CASE ~(faults > 0)
        <5>1. PICK later \in DOMAIN artifacts :
                /\ later.id = f.id /\ later.label = "PROMOTED" /\ later.second > f.second
                /\ artifacts[later].provenance # Blank
          BY <4>1, <4>3 DEF Unfinished
        <5>2. CASE later = name
          <6>1. v.failed = Blank /\ judged' = v /\ v.id = f.id
            BY <1>2, <5>1, <5>2
          <6>2. QED
            BY <1>1, <3>1, <3>3, <6>1 DEF Explained, Unfinished
        <5>3. CASE later # name
          <6>1. later \in DOMAIN artifacts' /\ artifacts'[later] = artifacts[later]
            BY <1>3, <5>3
          <6>2. QED
            BY <3>1, <3>3, <5>1, <6>1 DEF Explained, Unfinished
        <5>4. QED
          BY <5>2, <5>3
      <4>4. QED
        BY <4>2, <4>3
    <3>4. QED
      BY <3>2, <3>3
  <2>3. QED
    BY <2>1, <2>2
<1>8. ArtifactsExplained'
  BY <1>7 DEF ArtifactsExplained
<1>9. QED
  BY <1>5, <1>6, <1>8

(* A candidate on which no gate failed was tried on three windows.         *)
LEMMA PassedOnThree ==
  ASSUME NEW program, NEW id, NEW length, NEW o
  PROVE  /\ FailedBy(program, id, length, o) \in GateSet \cup {Blank}
         /\ FailedBy(program, id, length, o) = Blank => Cardinality(RollingWindows(program, id, length)) >= 3
<1> DEFINE windows == Cardinality(RollingWindows(program, id, length))
           min == Minimum(program)
<1>1. FailedBy(program, id, length, o) = FailedGate(o, windows, min)
  BY DEF FailedBy
<1> HIDE DEF windows, min
<1>2. ASSUME FailedGate(o, windows, min) = Blank PROVE windows >= 3
  <2>1. Gate("G8", o, windows, min)
    BY <1>2, FirstFailed, GatesNamed
  <2>2. QED
    BY <2>1 DEF Gate
<1>3. QED
  BY <1>1, <1>2, FirstFailed DEF windows

LEMMA JudgementFits ==
  ASSUME NEW program \in LoopPrograms \cup PipelinePrograms \cup {"calibrate"}, NEW id \in Ids,
         NEW data \in Labels, NEW length \in Lengths, NEW failed \in GateSet \cup {Blank},
         NEW status \in {"REJECTED_GATES", "EXECUTION_FAILED", "PROMOTABLE_PAPER_ONLY", "HALTED", "ERROR"}
  PROVE  /\ Judgement(program, id, data, length, status, failed) \in Judgements
         /\ LET v == Judgement(program, id, data, length, status, failed)
            IN /\ v.program = program /\ v.id = id /\ v.provenance = data /\ v.bars = length
               /\ v.status = status /\ v.failed = failed
BY DEF Judgement, Judgements, GateSet

LEMMA EvaluateKeeps ==
  ASSUME PromotionInv, NEW program \in {"sweep", "loop"}, NEW id \in Ids, NEW data \in Labels,
         NEW length \in Lengths, NEW o, Evaluate(program, id, data, length, o)
  PROVE  PromotionInv'
<1>1. judged = Blank /\ UNCHANGED <<second, faults>>
  BY DEF Evaluate
<1>2. program \in LoopPrograms \cup PipelinePrograms \cup {"calibrate"} /\ Blank \in GateSet \cup {Blank}
  BY DEF LoopPrograms
<1>3. CASE RefusedData(id, data)
  <2> DEFINE v == Judgement(program, id, data, length, "REJECTED_GATES", Blank)
  <2>1. Conclude(v) /\ UNCHANGED <<artifacts, judged>>
    BY <1>3 DEF Evaluate
  <2>2. v \in Judgements /\ v.status = "REJECTED_GATES" /\ v.failed = Blank
    BY <1>2, JudgementFits
  <2> HIDE DEF v
  <2>3. SoundVerdict(v)
    BY <2>2 DEF SoundVerdict
  <2>4. QED
    BY <1>1, <2>1, <2>2, <2>3, ConcludedAlone
<1>4. CASE ~RefusedData(id, data) /\ ~Testable(program, id, length)
  <2> DEFINE v == Judgement(program, id, data, length, "EXECUTION_FAILED", Blank)
  <2>1. Conclude(v) /\ UNCHANGED <<artifacts, judged>>
    BY <1>4 DEF Evaluate
  <2>2. v \in Judgements /\ v.status = "EXECUTION_FAILED" /\ v.failed = Blank
    BY <1>2, JudgementFits
  <2> HIDE DEF v
  <2>3. SoundVerdict(v)
    BY <2>2 DEF SoundVerdict
  <2>4. QED
    BY <1>1, <2>1, <2>2, <2>3, ConcludedAlone
<1>5. CASE ~RefusedData(id, data) /\ Testable(program, id, length)
  <2> DEFINE failed == FailedBy(program, id, length, o)
             status == IF failed = Blank THEN "PROMOTABLE_PAPER_ONLY" ELSE "REJECTED_GATES"
             v == Judgement(program, id, data, length, status, failed)
  <2>1. /\ Write(NameOf(id, failed, second), [provenance |-> Blank])
        /\ IF failed = Blank
           THEN /\ judged' = Judgement(program, id, data, length, "PROMOTABLE_PAPER_ONLY", Blank)
                /\ UNCHANGED verdicts
           ELSE /\ Conclude(Judgement(program, id, data, length, "REJECTED_GATES", failed))
                /\ UNCHANGED judged
    BY <1>5, Zenon DEF Evaluate
  <2>2. /\ failed \in GateSet \cup {Blank}
        /\ failed = Blank => Cardinality(RollingWindows(program, id, length)) >= 3
    BY PassedOnThree
  <2> HIDE DEF failed
  <2>3. \/ judged' = v /\ UNCHANGED verdicts
        \/ failed # Blank /\ Conclude(v) /\ UNCHANGED judged
    BY <2>1
  <2>4. status = "PROMOTABLE_PAPER_ONLY" \/ status = "REJECTED_GATES"
    OBVIOUS
  <2>5. status = "PROMOTABLE_PAPER_ONLY" <=> failed = Blank
    OBVIOUS
  <2> HIDE DEF status
  <2>6. /\ v \in Judgements /\ v.program = program /\ v.id = id /\ v.provenance = data
        /\ v.bars = length /\ v.status = status /\ v.failed = failed
    BY <1>2, <2>2, <2>4, JudgementFits
  <2>7. id \in Structural => data \in RealData
    BY <1>5 DEF RefusedData
  <2> HIDE DEF v
  <2>8. SoundVerdict(v)
    BY <1>5, <2>2, <2>4, <2>5, <2>6, <2>7 DEF SoundVerdict
  <2>9. QED
    BY <1>1, <2>1, <2>3, <2>5, <2>6, <2>8, Drafted
<1>6. QED
  BY <1>3, <1>4, <1>5

LEMMA EvaluateModelKeeps ==
  ASSUME PromotionInv, NEW program \in PipelinePrograms, NEW id \in Ids, NEW data \in Labels,
         NEW length \in Lengths, NEW o, EvaluateModel(program, id, data, length, o)
  PROVE  PromotionInv'
<1>1. judged = Blank /\ UNCHANGED <<second, faults>> /\ id \notin Structural
  BY DEF EvaluateModel
<1>2. program \in LoopPrograms \cup PipelinePrograms \cup {"calibrate"} /\ Blank \in GateSet \cup {Blank}
  OBVIOUS
<1>3. CASE (program = "strict" /\ data \notin RealData) \/ ~Testable(program, id, length)
  <2> DEFINE v == Judgement(program, id, data, length, "HALTED", Blank)
  <2>1. Conclude(v) /\ UNCHANGED <<artifacts, judged>>
    BY <1>3 DEF EvaluateModel
  <2>2. v \in Judgements /\ v.status = "HALTED" /\ v.failed = Blank
    BY <1>2, JudgementFits
  <2> HIDE DEF v
  <2>3. SoundVerdict(v)
    BY <2>2 DEF SoundVerdict
  <2>4. QED
    BY <1>1, <2>1, <2>2, <2>3, ConcludedAlone
<1>4. CASE ~((program = "strict" /\ data \notin RealData) \/ ~Testable(program, id, length))
  <2> DEFINE failed == FailedBy(program, id, length, o)
             status == IF failed = Blank THEN "PROMOTABLE_PAPER_ONLY" ELSE "REJECTED_GATES"
             v == Judgement(program, id, data, length, status, failed)
  <2>1. /\ Write(NameOf(id, failed, second), [provenance |-> Blank])
        /\ judged' = v /\ UNCHANGED verdicts
    BY <1>4, Zenon DEF EvaluateModel
  <2>2. /\ failed \in GateSet \cup {Blank}
        /\ failed = Blank => Cardinality(RollingWindows(program, id, length)) >= 3
    BY PassedOnThree
  <2> HIDE DEF failed
  <2>3. status = "PROMOTABLE_PAPER_ONLY" \/ status = "REJECTED_GATES"
    OBVIOUS
  <2>4. status = "PROMOTABLE_PAPER_ONLY" <=> failed = Blank
    OBVIOUS
  <2> HIDE DEF status
  <2>5. /\ v \in Judgements /\ v.program = program /\ v.id = id /\ v.provenance = data
        /\ v.bars = length /\ v.status = status /\ v.failed = failed
    BY <1>2, <2>2, <2>3, JudgementFits
  <2> HIDE DEF v
  <2>6. program \notin {"matrix", "calibrate"}
    BY DEF PipelinePrograms
  <2>7. SoundVerdict(v)
    BY <1>1, <1>4, <2>2, <2>3, <2>4, <2>5, <2>6 DEF SoundVerdict
  <2>8. QED
    BY <1>1, <2>1, <2>4, <2>5, <2>7, Drafted
<1>5. QED
  BY <1>3, <1>4

LEMMA CalibrateKeeps ==
  ASSUME PromotionInv, NEW id \in Ids, NEW data \in Labels, NEW length \in Lengths, Calibrate(id, data, length)
  PROVE  PromotionInv'
<1> DEFINE status == IF CalibrationFits(length) THEN "ERROR" ELSE "HALTED"
           v == Judgement("calibrate", id, data, length, status, Blank)
<1>1. Conclude(v) /\ UNCHANGED <<artifacts, judged, second, faults>>
  BY Zenon DEF Calibrate
<1>2. (status = "ERROR" /\ CalibrationFits(length)) \/ status = "HALTED"
  OBVIOUS
<1> HIDE DEF status
<1>3. v \in Judgements /\ v.status = status /\ v.failed = Blank /\ v.bars = length
  BY <1>2, JudgementFits
<1> HIDE DEF v
<1>4. SoundVerdict(v)
  BY <1>2, <1>3 DEF SoundVerdict
<1>5. QED
  BY <1>1, <1>3, <1>4, ConcludedAlone

(* The second write names the data: what the first left unfinished is      *)
(* replaced or followed.                                                   *)
LEMMA PublishKeeps ==
  ASSUME PromotionInv, Publish
  PROVE  PromotionInv'
<1> USE DEF PromotionInv
<1> DEFINE name == NameOf(judged.id, judged.failed, second)
<1>1. /\ judged # Blank
      /\ Write(name, [provenance |-> judged.provenance])
      /\ Conclude(judged) /\ judged' = Blank /\ UNCHANGED <<second, faults>>
  BY DEF Publish
<1>2. /\ judged \in Judgements /\ SoundVerdict(judged)
      /\ judged.failed = Blank <=> judged.status = "PROMOTABLE_PAPER_ONLY"
  BY <1>1 DEF PromotionType, VerdictsSound
<1>3. judged.id \in Ids /\ judged.failed \in GateSet \cup {Blank} /\ judged.provenance # Blank
  BY <1>2, DiscoveryAssumption DEF Judgements, GateSet
<1>4. /\ name \in Names /\ name.id = judged.id /\ name.second = second
      /\ name.label = "PROMOTED" <=> judged.failed = Blank
  BY <1>3, NameFits
<1>5. /\ DOMAIN artifacts' = DOMAIN artifacts \cup {name}
      /\ artifacts'[name].provenance = judged.provenance
      /\ \A f \in DOMAIN artifacts \ {name} : artifacts'[f] = artifacts[f]
  BY <1>1, Written
<1> HIDE DEF name
<1>6. /\ verdicts' \in Seq(Judgements) /\ \A k \in DOMAIN verdicts' : SoundVerdict(verdicts'[k])
      /\ \A k \in DOMAIN verdicts : k \in DOMAIN verdicts' /\ verdicts'[k] = verdicts[k]
      /\ \E k \in DOMAIN verdicts' : verdicts'[k] = judged
  BY <1>1, <1>2, Concluded
<1>7. PromotionType'
  BY <1>1, <1>4, <1>5, <1>6 DEF PromotionType, Names
<1>8. VerdictsSound'
  <2>1. \A k \in DOMAIN verdicts' : SoundVerdict(verdicts[k])' <=> SoundVerdict(verdicts'[k])
    BY DEF SoundVerdict
  <2>2. QED
    BY <1>1, <1>6, <2>1 DEF VerdictsSound
<1>9. ASSUME NEW f \in DOMAIN artifacts', f.label = "PROMOTED" PROVE Explained(f)'
  <2>1. CASE f = name
    BY <1>2, <1>3, <1>4, <1>5, <1>6, <1>9, <2>1 DEF Explained, Witnessed
  <2>2. CASE f # name
    <3>1. f \in DOMAIN artifacts /\ artifacts'[f] = artifacts[f] /\ Explained(f)
      BY <1>5, <1>9, <2>2 DEF ArtifactsExplained
    <3>2. CASE artifacts[f].provenance # Blank
      BY <1>6, <3>1, <3>2 DEF Explained, Witnessed
    <3>3. CASE artifacts[f].provenance = Blank
      <4>1. Unfinished(f)
        BY <3>1, <3>3 DEF Explained
      <4>2. CASE faults > 0
        BY <1>1, <3>1, <3>3, <4>2 DEF Explained, Unfinished
      <4>3. CASE judged.id = f.id /\ judged.failed = Blank
        <5>1. name.label = "PROMOTED" /\ name.id = f.id
          BY <1>4, <4>3
        <5>2. f.second # second
          <6>1. f \in Names /\ name \in Names
            BY <1>4, <3>1 DEF PromotionType
          <6>2. QED
            BY <1>4, <1>9, <2>2, <5>1, <6>1 DEF Names
        <5>3. f.second <= second /\ f.second \in Nat /\ second \in Nat
          BY <3>1 DEF PromotionType, Names
        <5>4. name.second > f.second /\ name \in DOMAIN artifacts' /\ artifacts'[name].provenance # Blank
          BY <1>3, <1>4, <1>5, <5>2, <5>3
        <5>5. QED
          BY <3>1, <3>3, <5>1, <5>4 DEF Explained, Unfinished
      <4>4. CASE \E later \in DOMAIN artifacts :
                   /\ later.id = f.id /\ later.label = "PROMOTED" /\ later.second > f.second
                   /\ artifacts[later].provenance # Blank
        <5>1. PICK later \in DOMAIN artifacts :
                /\ later.id = f.id /\ later.label = "PROMOTED" /\ later.second > f.second
                /\ artifacts[later].provenance # Blank
          BY <4>4
        <5>2. later \in DOMAIN artifacts' /\ artifacts'[later].provenance # Blank
          BY <1>3, <1>5, <5>1
        <5>3. QED
          BY <3>1, <3>3, <5>1, <5>2 DEF Explained, Unfinished
      <4>5. QED
        BY <4>1, <4>2, <4>3, <4>4 DEF Unfinished
    <3>4. QED
      BY <3>2, <3>3
  <2>3. QED
    BY <2>1, <2>2
<1>10. ArtifactsExplained'
  BY <1>9 DEF ArtifactsExplained
<1>11. QED
  BY <1>7, <1>8, <1>10

LEMMA TickKeeps ==
  ASSUME PromotionInv, Tick
  PROVE  PromotionInv'
<1> USE DEF PromotionInv
<1>1. second' = second + 1 /\ UNCHANGED <<artifacts, judged, verdicts, faults>>
  BY DEF Tick
<1>2. PromotionType'
  BY <1>1 DEF PromotionType, Names
<1>3. VerdictsSound'
  BY <1>1 DEF VerdictsSound, SoundVerdict
<1>4. ArtifactsExplained'
  BY <1>1 DEF ArtifactsExplained, Explained, Witnessed, Unfinished
<1>5. QED
  BY <1>2, <1>3, <1>4

LEMMA DieUnpublishedKeeps ==
  ASSUME PromotionInv, DieUnpublished
  PROVE  PromotionInv'
<1> USE DEF PromotionInv
<1>1. faults' = faults + 1 /\ judged' = Blank /\ UNCHANGED <<second, artifacts, verdicts>>
  BY DEF DieUnpublished
<1>2. PromotionType' /\ faults' > 0
  BY <1>1 DEF PromotionType
<1>3. VerdictsSound'
  BY <1>1 DEF VerdictsSound, SoundVerdict
<1>4. ArtifactsExplained'
  BY <1>1, <1>2 DEF ArtifactsExplained, Explained, Witnessed, Unfinished
<1>5. QED
  BY <1>2, <1>3, <1>4

LEMMA PromotionsFollow ==
  ASSUME PromotionInv
  PROVE  TestsSound /\ PromotionsEarned
<1> USE DEF PromotionInv
<1> DEFINE all == {verdicts[k] : k \in DOMAIN verdicts} \cup ({judged} \ {Blank})
<1>1. \A v \in all : v \in Judgements /\ SoundVerdict(v)
  BY DEF PromotionType, VerdictsSound
<1>2. TestsSound
  <2>1. SUFFICES ASSUME LastJudgement # Blank
                 PROVE  /\ LastJudgement.status = "PROMOTABLE_PAPER_ONLY" \/ LastJudgement.failed # Blank =>
                             TestedFairly(LastJudgement)
                        /\ LastJudgement.status = "ERROR" => InsideHistory(LastJudgement)
    BY DEF TestsSound
  <2>2. LastJudgement \in all
    <3>1. CASE judged # Blank \/ verdicts = <<>>
      BY <2>1, <3>1 DEF LastJudgement
    <3>2. CASE ~(judged # Blank \/ verdicts = <<>>)
      <4>1. verdicts \in Seq(Judgements) /\ verdicts # <<>>
        BY <3>2 DEF PromotionType
      <4>2. Len(verdicts) \in DOMAIN verdicts
        BY <4>1
      <4>3. QED
        BY <3>2, <4>2 DEF LastJudgement
    <3>3. QED
      BY <3>1, <3>2
  <2>3. LastJudgement \in Judgements /\ SoundVerdict(LastJudgement)
    BY <1>1, <2>2
  <2> HIDE DEF all
  <2>4. LastJudgement.bars \in Nat
    BY <2>3, DiscoveryAssumption DEF Judgements
  <2>5. QED
    BY <2>3, <2>4, FairTests, CalibrationInside DEF SoundVerdict
<1>3. PromotionsEarned
  <2> DEFINE promoted == {v \in all : v.status = "PROMOTABLE_PAPER_ONLY"}
  <2>1. \A v \in promoted :
       /\ Cardinality(RollingWindows(v.program, v.id, v.bars)) >= 3
       /\ v.id \in Structural \/ v.program = "strict" => v.provenance \in RealData
       /\ v.program \notin {"matrix", "calibrate"}
    BY <1>1 DEF SoundVerdict
  <2>2. ASSUME NEW f \in {name \in DOMAIN artifacts : name.label = "PROMOTED"}
        PROVE  IF artifacts[f].provenance # Blank
               THEN \E v \in promoted : v.id = f.id /\ v.provenance = artifacts[f].provenance
               ELSE \/ faults > 0
                    \/ judged # Blank /\ judged.id = f.id
                    \/ \E later \in DOMAIN artifacts :
                         /\ later.id = f.id /\ later.label = "PROMOTED" /\ later.second > f.second
                         /\ artifacts[later].provenance # Blank
    <3>1. Explained(f)
      BY <2>2 DEF ArtifactsExplained
    <3>2. QED
      BY <3>1 DEF Explained, Witnessed, Unfinished
  <2> HIDE DEF promoted
  <2>3. QED
    BY <2>1, <2>2, Zenon DEF PromotionsEarned, promoted
<1>4. QED
  BY <1>2, <1>3

(***************************************************************************)
(* Discovery: the matrix                                                   *)
(***************************************************************************)
LEMMA ProductDivides ==
  ASSUME NEW m \in Nat, NEW r \in Nat \ {0}
  PROVE  (m * r) \div r = m
OBVIOUS

LEMMA FactorCancels ==
  ASSUME NEW x \in Int, NEW y \in Int, NEW k \in Nat \ {0}
  PROVE  x * k <= y * k <=> x <= y
OBVIOUS

(* Scaled by a multiple of the rank, a quotient compares as a fraction.    *)
LEMMA Scaling ==
  ASSUME NEW a \in Nat, NEW r \in Nat \ {0}, NEW d \in Nat \ {0}, d % r = 0, NEW level \in Nat
  PROVE  (a * d) \div r \in Nat /\ ((a * d) \div r <= level * d <=> a <= level * r)
<1> DEFINE k == d \div r
<1>1. k \in Nat /\ d = r * k
  BY SMTT(30)
<1> HIDE DEF k
<1>2. k # 0
  BY <1>1
<1>3. a * d = (a * k) * r /\ level * d = (level * r) * k /\ a * k \in Nat /\ level * r \in Nat
  BY <1>1, SMTT(30)
<1>4. (a * d) \div r = a * k
  BY <1>3, ProductDivides
<1>5. a * k <= (level * r) * k <=> a <= level * r
  BY <1>2, <1>1, <1>3, FactorCancels
<1>6. QED
  BY <1>3, <1>4, <1>5

LEMMA GreatestIndex ==
  ASSUME NEW length \in Nat, NEW S \in SUBSET (1..length), S # {}
  PROVE  \E last \in S : \A k \in S : k <= last
<1> DEFINE T == {length - k : k \in S}
<1>1. T \in SUBSET Nat /\ T # {}
  <2>1. \A k \in S : k \in 1..length /\ length - k \in Nat
    OBVIOUS
  <2>2. QED
    BY <2>1
<1>2. PICK least \in T : \A other \in T : least <= other
  BY <1>1, LeastNumber
<1>3. PICK last \in S : least = length - last
  OBVIOUS
<1>4. ASSUME NEW k \in S PROVE k <= last
  <2>1. length - last <= length - k
    BY <1>2, <1>3
  <2>2. QED
    BY <2>1
<1>5. QED
  BY <1>4

Statuses ==
  {"NOT_RUN_INSUFFICIENT_REAL_DATA", "NOT_RUN_M1_REQUIRED", "EXECUTION_FAILED", "INSUFFICIENT_TRADES",
   "GATES_PASSED", "GATES_FAILED"}
FinalStatuses ==
  {"GATES_AND_FDR_PASSED", "REJECTED_MULTIPLE_TESTING", "REJECTED_TOP_WINNER_CONCENTRATION"}

CellRecords ==
  [status : Statuses \cup FinalStatuses, p : Nat \cup {Blank}, trimmed : Int \cup {Blank},
   q : Int \cup {Blank}]

IsMatrix(cs) == cs \in Seq(CellRecords) /\ Len(cs) <= Family

Ahead(cs, i) == {j \in Tested(cs) : cs[j].p < cs[i].p \/ (cs[j].p = cs[i].p /\ j <= i)}
UpTo(cs, cut) == {j \in Tested(cs) : cs[j].p <= cut}

LEMMA TestsCounted ==
  ASSUME NEW cs, IsMatrix(cs)
  PROVE  /\ IsFiniteSet(Tested(cs)) /\ Cardinality(Tested(cs)) \in Nat
         /\ Tested(cs) \subseteq 1..Len(cs) /\ \A i \in Tested(cs) : cs[i].p \in Nat
<1>1. DOMAIN cs = 1..Len(cs) /\ Len(cs) \in Nat /\ \A i \in DOMAIN cs : cs[i] \in CellRecords
  BY DEF IsMatrix
<1>2. Tested(cs) \subseteq 1..Len(cs) /\ \A i \in Tested(cs) : cs[i].p \in Nat
  BY <1>1 DEF Tested, CellRecords
<1>3. IsFiniteSet(1..Len(cs))
  BY <1>1, FS_Interval
<1>4. IsFiniteSet(Tested(cs)) /\ Cardinality(Tested(cs)) \in Nat
  BY <1>2, <1>3, FS_Subset, FS_CardinalityType
<1>5. QED
  BY <1>2, <1>4

LEMMA RanksFit ==
  ASSUME NEW cs, IsMatrix(cs), NEW i \in Tested(cs)
  PROVE  /\ RankOf(cs, i) = Cardinality(Ahead(cs, i)) /\ RankOf(cs, i) \in 1..Family
         /\ Divisor % RankOf(cs, i) = 0
<1>1. RankOf(cs, i) = Cardinality(Ahead(cs, i))
  BY DEF RankOf, Ahead
<1>2. Tested(cs) \subseteq 1..Len(cs) /\ cs[i].p \in Nat /\ Len(cs) \in Nat /\ Len(cs) <= Family
  BY TestsCounted DEF IsMatrix
<1>3. Ahead(cs, i) \subseteq 1..Len(cs) /\ i \in Ahead(cs, i)
  BY <1>2 DEF Ahead
<1>4. IsFiniteSet(1..Len(cs)) /\ Cardinality(1..Len(cs)) = Len(cs)
  <2>1. 1 \in Int /\ Len(cs) \in Int /\ (1 > Len(cs) => Len(cs) = 0) /\ Len(cs) - 1 + 1 = Len(cs)
    BY <1>2
  <2>2. IsFiniteSet(1..Len(cs)) /\ Cardinality(1..Len(cs)) = IF 1 > Len(cs) THEN 0 ELSE Len(cs) - 1 + 1
    BY <2>1, FS_Interval
  <2>3. QED
    BY <2>1, <2>2
<1>5. /\ IsFiniteSet(Ahead(cs, i)) /\ Cardinality(Ahead(cs, i)) \in Nat
      /\ Cardinality(Ahead(cs, i)) <= Len(cs) /\ Cardinality(Ahead(cs, i)) # 0
  BY <1>3, <1>4, FS_Subset, FS_CardinalityType, FS_EmptySet
<1>6. RankOf(cs, i) \in 1..Family
  BY <1>1, <1>2, <1>5, DiscoveryAssumption
<1>7. QED
  BY <1>1, <1>6, DiscoveryAssumption

(* A rank no smaller belongs to a p-value no smaller, and no more cells    *)
(* are ahead of a cell than have p-values up to its own.                   *)
LEMMA RanksFollow ==
  ASSUME NEW cs, IsMatrix(cs), NEW i \in Tested(cs), NEW j \in Tested(cs)
  PROVE  /\ RankOf(cs, j) >= RankOf(cs, i) => cs[j].p >= cs[i].p
         /\ Cardinality(UpTo(cs, cs[j].p)) \in Nat
         /\ RankOf(cs, j) <= Cardinality(UpTo(cs, cs[j].p))
<1>1. /\ IsFiniteSet(Tested(cs)) /\ Tested(cs) \subseteq 1..Len(cs)
      /\ \A k \in Tested(cs) : cs[k].p \in Nat
  BY TestsCounted
<1>2. /\ RankOf(cs, i) = Cardinality(Ahead(cs, i)) /\ RankOf(cs, j) = Cardinality(Ahead(cs, j))
      /\ RankOf(cs, i) \in 1..Family /\ RankOf(cs, j) \in 1..Family /\ Family \in Nat
  BY RanksFit, DiscoveryAssumption
<1>3. /\ IsFiniteSet(Ahead(cs, i)) /\ IsFiniteSet(Ahead(cs, j)) /\ IsFiniteSet(UpTo(cs, cs[j].p))
  <2>1. /\ Ahead(cs, i) \subseteq Tested(cs) /\ Ahead(cs, j) \subseteq Tested(cs)
        /\ UpTo(cs, cs[j].p) \subseteq Tested(cs)
    BY DEF Ahead, UpTo
  <2>2. QED
    BY <2>1, <1>1, FS_Subset
<1>4. ASSUME cs[j].p < cs[i].p PROVE RankOf(cs, j) < RankOf(cs, i)
  <2>1. Ahead(cs, j) \subseteq Ahead(cs, i) /\ i \in Ahead(cs, i) /\ i \notin Ahead(cs, j)
    BY <1>1, <1>4 DEF Ahead
  <2>2. Cardinality(Ahead(cs, j)) <= Cardinality(Ahead(cs, i)) /\ Ahead(cs, j) # Ahead(cs, i)
    BY <2>1, <1>3, FS_Subset
  <2>3. Cardinality(Ahead(cs, j)) = Cardinality(Ahead(cs, i)) => Ahead(cs, j) = Ahead(cs, i)
    BY <2>1, <1>3, FS_Subset
  <2>4. QED
    BY <1>2, <2>2, <2>3
<1>5. Ahead(cs, j) \subseteq UpTo(cs, cs[j].p)
  BY <1>1 DEF Ahead, UpTo
<1>6. Cardinality(Ahead(cs, j)) <= Cardinality(UpTo(cs, cs[j].p)) /\ Cardinality(UpTo(cs, cs[j].p)) \in Nat
  BY <1>3, <1>5, FS_Subset, FS_CardinalityType
<1>7. QED
  BY <1>1, <1>2, <1>4, <1>6

(* The last cell of a p-value has the rank of all up to it.                *)
LEMMA LastOfTies ==
  ASSUME NEW cs, IsMatrix(cs), NEW i \in Tested(cs), NEW j \in Tested(cs), cs[j].p >= cs[i].p
  PROVE  \E last \in Tested(cs) :
           /\ cs[last].p = cs[j].p /\ RankOf(cs, last) = Cardinality(UpTo(cs, cs[j].p))
           /\ RankOf(cs, last) >= RankOf(cs, i)
<1>1. /\ IsFiniteSet(Tested(cs)) /\ Tested(cs) \subseteq 1..Len(cs) /\ Len(cs) \in Nat
      /\ \A k \in Tested(cs) : cs[k].p \in Nat
  BY TestsCounted DEF IsMatrix
<1> DEFINE ties == {k \in Tested(cs) : cs[k].p = cs[j].p}
<1>2. ties \in SUBSET (1..Len(cs)) /\ ties # {}
  BY <1>1
<1>3. PICK last \in ties : \A k \in ties : k <= last
  BY <1>1, <1>2, GreatestIndex
<1>4. last \in Tested(cs) /\ cs[last].p = cs[j].p
  BY <1>3
<1>5. Ahead(cs, last) = UpTo(cs, cs[j].p)
  BY <1>1, <1>3, <1>4 DEF Ahead, UpTo
<1>6. Ahead(cs, i) \subseteq Ahead(cs, last)
  BY <1>1, <1>5 DEF Ahead, UpTo
<1>7. IsFiniteSet(Ahead(cs, last))
  <2>1. Ahead(cs, last) \subseteq Tested(cs)
    BY DEF Ahead
  <2>2. QED
    BY <2>1, <1>1, FS_Subset
<1>8. Cardinality(Ahead(cs, i)) <= Cardinality(Ahead(cs, last))
  BY <1>6, <1>7, FS_Subset
<1>9. /\ RankOf(cs, i) = Cardinality(Ahead(cs, i)) /\ RankOf(cs, last) = Cardinality(Ahead(cs, last))
      /\ RankOf(cs, i) \in 1..Family /\ RankOf(cs, last) \in 1..Family /\ Family \in Nat
  BY <1>4, RanksFit, DiscoveryAssumption
<1>10. QED
  BY <1>4, <1>5, <1>8, <1>9

Ratio(cs, j) == (cs[j].p * Cardinality(Tested(cs)) * Divisor) \div RankOf(cs, j)

LEMMA QValueIsLeast ==
  ASSUME NEW cs, IsMatrix(cs), NEW i \in Tested(cs)
  PROVE  /\ QValue(cs, i) \in Nat
         /\ \A j \in Tested(cs) : RankOf(cs, j) >= RankOf(cs, i) => QValue(cs, i) <= Ratio(cs, j)
         /\ \/ QValue(cs, i) = Unit * Divisor
            \/ \E j \in Tested(cs) : RankOf(cs, j) >= RankOf(cs, i) /\ QValue(cs, i) = Ratio(cs, j)
<1> DEFINE scaled == {Ratio(cs, j) : j \in {k \in Tested(cs) : RankOf(cs, k) >= RankOf(cs, i)}}
                       \cup {Unit * Divisor}
           least == CHOOSE q \in scaled : \A other \in scaled : q <= other
<1>1. QValue(cs, i) = least
  BY DEF QValue, Ratio
<1>2. ASSUME NEW j \in Tested(cs) PROVE Ratio(cs, j) \in Nat
  <2>1. /\ RankOf(cs, j) \in Nat \ {0} /\ Divisor % RankOf(cs, j) = 0 /\ Divisor \in Nat \ {0}
    BY RanksFit, DiscoveryAssumption
  <2>2. cs[j].p * Cardinality(Tested(cs)) \in Nat
    BY TestsCounted
  <2>3. QED
    BY <2>1, <2>2, Scaling DEF Ratio
<1>3. Unit * Divisor \in Nat
  BY DiscoveryAssumption
<1>4. scaled \in SUBSET Nat /\ scaled # {}
  BY <1>2, <1>3
<1>5. \E q \in scaled : \A other \in scaled : q <= other
  BY <1>4, LeastNumber
<1>6. least \in scaled /\ \A other \in scaled : least <= other
  <2> HIDE DEF scaled
  <2>1. QED
    BY <1>5, Zenon
<1> HIDE DEF least
<1>7. QED
  BY <1>1, <1>4, <1>6

(* The step-up rule, told without ranks.                                   *)
LEMMA StepUp ==
  ASSUME NEW cs, IsMatrix(cs), NEW i \in Tested(cs)
  PROVE  QValue(cs, i) <= Level * Divisor <=>
           \E j \in Tested(cs) :
             /\ cs[j].p >= cs[i].p
             /\ cs[j].p * Cardinality(Tested(cs)) <= Level * Cardinality(UpTo(cs, cs[j].p))
<1> DEFINE total == Cardinality(Tested(cs))
<1>1. Level \in Nat /\ Unit \in Nat /\ Divisor \in Nat \ {0} /\ Level < Unit
  BY DiscoveryAssumption
<1>2. total \in Nat /\ \A j \in Tested(cs) : cs[j].p \in Nat
  BY TestsCounted
<1>3. ASSUME NEW j \in Tested(cs)
      PROVE  /\ RankOf(cs, j) \in Nat \ {0} /\ Ratio(cs, j) \in Nat
             /\ Ratio(cs, j) <= Level * Divisor <=> cs[j].p * total <= Level * RankOf(cs, j)
  <2>1. RankOf(cs, j) \in Nat \ {0} /\ Divisor % RankOf(cs, j) = 0
    BY RanksFit, DiscoveryAssumption
  <2>2. cs[j].p * total \in Nat
    BY <1>2
  <2>3. QED
    BY <1>1, <2>1, <2>2, Scaling DEF Ratio
<1>4. ~(Unit * Divisor <= Level * Divisor)
  BY <1>1, FactorCancels
<1> HIDE DEF total
<1>5. ASSUME QValue(cs, i) <= Level * Divisor
      PROVE  \E j \in Tested(cs) :
               cs[j].p >= cs[i].p /\ cs[j].p * total <= Level * Cardinality(UpTo(cs, cs[j].p))
  <2>1. PICK j \in Tested(cs) : RankOf(cs, j) >= RankOf(cs, i) /\ QValue(cs, i) = Ratio(cs, j)
    BY <1>4, <1>5, QValueIsLeast
  <2>2. cs[j].p * total <= Level * RankOf(cs, j)
    BY <1>3, <1>5, <2>1
  <2>3. cs[j].p >= cs[i].p
    BY <2>1, RanksFollow
  <2>4. RankOf(cs, j) <= Cardinality(UpTo(cs, cs[j].p)) /\ Cardinality(UpTo(cs, cs[j].p)) \in Nat
    BY RanksFollow
  <2>5. Level * RankOf(cs, j) <= Level * Cardinality(UpTo(cs, cs[j].p))
    BY <1>1, <1>3, <2>4
  <2>6. cs[j].p * total \in Nat /\ Level * RankOf(cs, j) \in Nat /\ Level * Cardinality(UpTo(cs, cs[j].p)) \in Nat
    BY <1>1, <1>2, <1>3, <2>4
  <2>7. QED
    BY <2>2, <2>3, <2>5, <2>6
<1>6. ASSUME NEW j \in Tested(cs), cs[j].p >= cs[i].p,
             cs[j].p * total <= Level * Cardinality(UpTo(cs, cs[j].p))
      PROVE  QValue(cs, i) <= Level * Divisor
  <2>1. PICK last \in Tested(cs) :
          /\ cs[last].p = cs[j].p /\ RankOf(cs, last) = Cardinality(UpTo(cs, cs[j].p))
          /\ RankOf(cs, last) >= RankOf(cs, i)
    BY <1>6, LastOfTies
  <2>2. Ratio(cs, last) <= Level * Divisor /\ Ratio(cs, last) \in Nat
    BY <1>3, <1>6, <2>1
  <2>3. QValue(cs, i) <= Ratio(cs, last) /\ QValue(cs, i) \in Nat
    BY <2>1, QValueIsLeast
  <2>4. Level * Divisor \in Nat
    BY <1>1
  <2>5. QED
    BY <2>2, <2>3, <2>4
<1>7. QED
  BY <1>5, <1>6 DEF total

\* As evaluated: no q-value yet; a cell through the gates was tested.
Evaluated(cs) ==
  \A i \in DOMAIN cs :
    /\ cs[i].q = Blank /\ cs[i].status \in Statuses
    /\ cs[i].status = "GATES_PASSED" => cs[i].p # Blank /\ cs[i].trimmed \in Int

\* As corrected: q-values, and a verdict by them on each cell through the gates.
Judged(cs) ==
  /\ Len(cs) = Family
  /\ \A i \in DOMAIN cs :
       /\ cs[i].q = IF cs[i].p = Blank THEN Blank ELSE QValue(cs, i)
       /\ cs[i].status \in FinalStatuses =>
            /\ cs[i].p # Blank /\ cs[i].trimmed \in Int
            /\ cs[i].status = "GATES_AND_FDR_PASSED" <=>
                 cs[i].q <= Level * Divisor /\ cs[i].trimmed > 0

MatrixInv == IsMatrix(cells) /\ (Evaluated(cells) \/ Judged(cells))

LEMMA CellFits ==
  ASSUME NEW id, NEW length, NEW o \in PossibleTrials, NEW selected \in {"none", "M15", "M1"}
  PROVE  LET c == EvaluateCell(id, length, o, selected) IN
         /\ c \in CellRecords /\ c.q = Blank /\ c.status \in Statuses
         /\ c.status = "GATES_PASSED" => c.p # Blank /\ c.trimmed \in Int
<1> DEFINE c == EvaluateCell(id, length, o, selected)
           total == o.dev.trades + o.val.trades + o.oos.trades
           ran == Cell(CASE total < 100 -> "INSUFFICIENT_TRADES"
                         [] total >= 100 /\ FailedBy("matrix", id, length, o) = Blank -> "GATES_PASSED"
                         [] OTHER -> "GATES_FAILED",
                       PValue(o), o.trimmed)
<1>1. /\ o.oos.trades \in Nat /\ o.oos.expectancy \in Int /\ o.p \in Nat /\ o.trimmed \in Int
      /\ total \in Nat /\ Unit \in Nat
  BY DiscoveryAssumption DEF PossibleTrials, BacktestResults
<1>2. PValue(o) \in Nat \cup {Blank} /\ (o.oos.trades >= 30 => PValue(o) \in Nat)
  BY <1>1 DEF PValue
<1>3. FailedBy("matrix", id, length, o) = Blank => o.oos.trades >= 30
  <2>1. SUFFICES ASSUME FailedBy("matrix", id, length, o) = Blank PROVE o.oos.trades >= 30
    OBVIOUS
  <2>2. Gate("G1", o, Cardinality(RollingWindows("matrix", id, length)), Minimum("matrix"))
    BY <2>1, FirstFailed, GatesNamed DEF FailedBy
  <2>3. Minimum("matrix").oos = 30 /\ "oos" \in Parts3
    BY DEF Minimum, Parts3
  <2>4. QED
    BY <2>2, <2>3 DEF Gate
<1>4. \/ c = Cell("NOT_RUN_INSUFFICIENT_REAL_DATA", Blank, Blank)
      \/ c = Cell("NOT_RUN_M1_REQUIRED", Blank, Blank)
      \/ c = Cell("EXECUTION_FAILED", Blank, Blank)
      \/ c = ran
  BY DEF EvaluateCell
<1>5. Blank \notin Int
  BY DiscoveryAssumption
<1>6. CASE c = ran
  <2> DEFINE status == CASE total < 100 -> "INSUFFICIENT_TRADES"
                         [] total >= 100 /\ FailedBy("matrix", id, length, o) = Blank -> "GATES_PASSED"
                         [] OTHER -> "GATES_FAILED"
  <2>1. /\ status \in {"INSUFFICIENT_TRADES", "GATES_PASSED", "GATES_FAILED"}
        /\ status = "GATES_PASSED" => FailedBy("matrix", id, length, o) = Blank
    OBVIOUS
  <2>2. c = [status |-> status, p |-> PValue(o), trimmed |-> o.trimmed, q |-> Blank]
    BY <1>6 DEF Cell
  <2> HIDE DEF c, status
  <2>3. /\ c \in CellRecords /\ c.q = Blank /\ c.status \in Statuses
        /\ c.status = "GATES_PASSED" => c.p # Blank /\ c.trimmed \in Int
    BY <1>1, <1>2, <1>3, <1>5, <2>1, <2>2 DEF CellRecords, Statuses
  <2>4. QED
    BY <2>3 DEF c
<1>7. CASE c # ran
  <2> HIDE DEF c, ran
  <2>1. /\ c \in CellRecords /\ c.q = Blank /\ c.status \in Statuses
        /\ c.status = "GATES_PASSED" => c.p # Blank /\ c.trimmed \in Int
    BY <1>4, <1>7 DEF Cell, CellRecords, Statuses
  <2>2. QED
    BY <2>1 DEF c
<1>8. QED
  BY <1>6, <1>7

LEMMA StepKeepsMatrix ==
  ASSUME MatrixInv, NEW id \in Structural, NEW length \in Lengths, NEW o \in PossibleTrials,
         NEW selected \in {"none", "M15", "M1"}, MatrixStep(id, length, o, selected)
  PROVE  MatrixInv'
<1> DEFINE c == EvaluateCell(id, length, o, selected)
<1>1. /\ c \in CellRecords /\ c.q = Blank /\ c.status \in Statuses
      /\ c.status = "GATES_PASSED" => c.p # Blank /\ c.trimmed \in Int
  BY CellFits
<1>2. cells' = Append(cells, c) /\ Len(cells) < Family
  BY DEF MatrixStep
<1> HIDE DEF c
<1>3. cells \in Seq(CellRecords) /\ Family \in Nat /\ Len(cells) \in Nat
  BY DiscoveryAssumption DEF MatrixInv, IsMatrix
<1>4. Evaluated(cells)
  BY <1>2, <1>3 DEF MatrixInv, Judged
<1>5. /\ cells' \in Seq(CellRecords) /\ Len(cells') = Len(cells) + 1
      /\ \A i \in DOMAIN cells' : (i \in DOMAIN cells /\ cells'[i] = cells[i]) \/ cells'[i] = c
  BY <1>1, <1>2, <1>3
<1>6. IsMatrix(cells')
  BY <1>2, <1>3, <1>5 DEF IsMatrix
<1>7. Evaluated(cells')
  BY <1>1, <1>4, <1>5 DEF Evaluated
<1>8. QED
  BY <1>6, <1>7 DEF MatrixInv

(* The correction reads nothing but the p-values, and keeps them.          *)
LEMMA SameTests ==
  ASSUME NEW cs, NEW ds, DOMAIN ds = DOMAIN cs, \A i \in DOMAIN cs : ds[i].p = cs[i].p,
         NEW i \in Tested(cs)
  PROVE  Tested(ds) = Tested(cs) /\ QValue(ds, i) = QValue(cs, i)
<1>1. Tested(ds) = Tested(cs) /\ \A j \in Tested(cs) : ds[j].p = cs[j].p
  BY DEF Tested
<1>2. ASSUME NEW j \in Tested(cs) PROVE RankOf(ds, j) = RankOf(cs, j)
  <2>1. {k \in Tested(ds) : ds[k].p < ds[j].p \/ (ds[k].p = ds[j].p /\ k <= j)}
          = {k \in Tested(cs) : cs[k].p < cs[j].p \/ (cs[k].p = cs[j].p /\ k <= j)}
    BY <1>1
  <2>2. QED
    BY <2>1, Zenon DEF RankOf
<1>3. \A j \in Tested(cs) : Ratio(ds, j) = Ratio(cs, j)
  BY <1>1, <1>2 DEF Ratio
<1> DEFINE S(xs) == {Ratio(xs, j) : j \in {k \in Tested(xs) : RankOf(xs, k) >= RankOf(xs, i)}}
                      \cup {Unit * Divisor}
<1>4. S(ds) = S(cs)
  <2>1. {k \in Tested(ds) : RankOf(ds, k) >= RankOf(ds, i)}
          = {k \in Tested(cs) : RankOf(cs, k) >= RankOf(cs, i)}
    BY <1>1, <1>2
  <2>2. QED
    BY <1>1, <1>3, <2>1
<1>5. /\ QValue(ds, i) = CHOOSE q \in S(ds) : \A other \in S(ds) : q <= other
      /\ QValue(cs, i) = CHOOSE q \in S(cs) : \A other \in S(cs) : q <= other
  BY Zenon DEF QValue, Ratio
<1> HIDE DEF S
<1>6. QED
  BY <1>1, <1>4, <1>5, Zenon

LEMMA CorrectionKeepsMatrix ==
  ASSUME MatrixInv, MatrixCorrect
  PROVE  MatrixInv'
<1> DEFINE cs == cells
           ds == cells'
<1>1. /\ cs \in Seq(CellRecords) /\ Len(cs) = Family /\ IsMatrix(cs) /\ Tested(cs) # {}
      /\ ds = Corrected(cs) /\ ~Finished
  BY DEF MatrixInv, IsMatrix, MatrixCorrect
<1>2. /\ Len(cs) \in Nat /\ DOMAIN cs = 1..Len(cs)
      /\ \A i \in DOMAIN cs : cs[i] \in CellRecords
  BY <1>1
<1>3. \A i \in Tested(cs) : QValue(cs, i) \in Nat
  BY <1>1, QValueIsLeast
<1>4. Blank \notin Int
  BY DiscoveryAssumption
<1>5. Evaluated(cs)
  <2>1. PICK i \in Tested(cs) : TRUE
    BY <1>1
  <2>2. i \in DOMAIN cs /\ cs[i].p # Blank /\ QValue(cs, i) # Blank
    BY <1>3, <1>4, <2>1 DEF Tested
  <2>3. cs[i].q = Blank
    BY <1>1, <2>2 DEF Finished
  <2>4. QED
    BY <2>2, <2>3 DEF MatrixInv, Judged
<1> DEFINE q(i) == IF cs[i].p = Blank THEN Blank ELSE QValue(cs, i)
           status(i) ==
             CASE cs[i].status # "GATES_PASSED" -> cs[i].status
               [] cs[i].status = "GATES_PASSED" /\ (q(i) = Blank \/ q(i) > Level * Divisor) ->
                    "REJECTED_MULTIPLE_TESTING"
               [] cs[i].status = "GATES_PASSED" /\ q(i) # Blank /\ q(i) <= Level * Divisor /\ cs[i].trimmed <= 0 ->
                    "REJECTED_TOP_WINNER_CONCENTRATION"
               [] OTHER -> "GATES_AND_FDR_PASSED"
<1>6. ds = [i \in DOMAIN cs |-> [cs[i] EXCEPT !.q = q(i), !.status = status(i)]]
  BY <1>1, Zenon DEF Corrected
<1>7. ASSUME NEW i \in DOMAIN cs
      PROVE  /\ q(i) \in Nat \cup {Blank} /\ (cs[i].p # Blank => q(i) \in Nat)
             /\ status(i) \in Statuses \cup FinalStatuses
             /\ status(i) \in FinalStatuses =>
                  /\ cs[i].p # Blank /\ cs[i].trimmed \in Int
                  /\ status(i) = "GATES_AND_FDR_PASSED" <=> q(i) <= Level * Divisor /\ cs[i].trimmed > 0
  <2>1. /\ cs[i].status \in Statuses
        /\ cs[i].status = "GATES_PASSED" => cs[i].p # Blank /\ cs[i].trimmed \in Int
    BY <1>5, <1>7 DEF Evaluated
  <2>2. q(i) \in Nat \cup {Blank} /\ (cs[i].p # Blank => q(i) \in Nat)
    BY <1>3, <1>7 DEF Tested
  <2>3. Level * Divisor \in Nat
    BY DiscoveryAssumption
  <2> DEFINE limit == Level * Divisor
             value == q(i)
             old == cs[i].status
             trimmed == cs[i].trimmed
             new == status(i)
  <2>4. new = CASE old # "GATES_PASSED" -> old
                [] old = "GATES_PASSED" /\ (value = Blank \/ value > limit) ->
                     "REJECTED_MULTIPLE_TESTING"
                [] old = "GATES_PASSED" /\ value # Blank /\ value <= limit /\ trimmed <= 0 ->
                     "REJECTED_TOP_WINNER_CONCENTRATION"
                [] OTHER -> "GATES_AND_FDR_PASSED"
    BY Zenon
  <2> HIDE DEF limit, value, old, trimmed, new
  <2>5. CASE old # "GATES_PASSED"
    <3>1. new = old /\ old \in Statuses
      BY <2>4, <2>5, <2>1 DEF old
    <3>2. old \notin FinalStatuses
      BY <3>1 DEF Statuses, FinalStatuses
    <3>3. QED
      BY <2>2, <3>1, <3>2 DEF new
  <2>6. CASE old = "GATES_PASSED"
    <3>1. cs[i].p # Blank /\ trimmed \in Int /\ value \in Nat /\ limit \in Nat
      BY <2>1, <2>2, <2>3, <2>6 DEF old, value, trimmed, limit
    <3>2. /\ new \in FinalStatuses
          /\ new = "GATES_AND_FDR_PASSED" <=> value <= limit /\ trimmed > 0
      BY <1>4, <2>4, <2>6, <3>1 DEF FinalStatuses
    <3>3. QED
      BY <2>2, <3>1, <3>2 DEF new, value, trimmed, limit
  <2>7. QED
    BY <2>5, <2>6
<1>8. ASSUME NEW i \in DOMAIN cs
      PROVE  /\ ds[i] \in CellRecords /\ ds[i].p = cs[i].p /\ ds[i].q = q(i)
             /\ ds[i].trimmed = cs[i].trimmed /\ ds[i].status = status(i)
  <2>1. ds[i] = [cs[i] EXCEPT !.q = q(i), !.status = status(i)] /\ cs[i] \in CellRecords
    BY <1>2, <1>6, <1>8
  <2>2. q(i) \in Int \cup {Blank} /\ status(i) \in Statuses \cup FinalStatuses
    BY <1>7, <1>8
  <2> HIDE DEF q, status, cs, ds
  <2>3. QED
    BY <2>1, <2>2 DEF CellRecords
<1> HIDE DEF q, status, cs, ds
<1>9. DOMAIN ds = DOMAIN cs /\ ds = [i \in DOMAIN cs |-> ds[i]]
  BY <1>6
<1>10. ds \in Seq(CellRecords) /\ Len(ds) = Len(cs)
  <2>1. ds \in [1..Len(cs) -> CellRecords]
    BY <1>2, <1>6, <1>8, <1>9, Zenon
  <2>2. QED
    BY <1>2, <2>1
<1>11. \A i \in Tested(cs) : QValue(ds, i) = QValue(cs, i)
  BY <1>8, <1>9, SameTests
<1>12. ASSUME NEW i \in DOMAIN ds PROVE ds[i].q = IF ds[i].p = Blank THEN Blank ELSE QValue(ds, i)
  BY <1>8, <1>9, <1>11, <1>12 DEF q, Tested
<1>13. Judged(ds)
  <2>1. Len(ds) = Family
    BY <1>1, <1>10
  <2>2. ASSUME NEW i \in DOMAIN ds, ds[i].status \in FinalStatuses
        PROVE  /\ ds[i].p # Blank /\ ds[i].trimmed \in Int
               /\ ds[i].status = "GATES_AND_FDR_PASSED" <=> ds[i].q <= Level * Divisor /\ ds[i].trimmed > 0
    BY <1>7, <1>8, <1>9, <2>2
  <2>3. QED
    BY <1>12, <2>1, <2>2, Zenon DEF Judged
<1>14. IsMatrix(ds)
  BY <1>1, <1>10 DEF IsMatrix
<1>15. QED
  BY <1>13, <1>14 DEF MatrixInv, ds

LEMMA MatrixFollows ==
  ASSUME MatrixInv
  PROVE  FamilyCorrected
<1>1. CASE Evaluated(cells)
  <2>1. \A i \in DOMAIN cells : cells[i].q = Blank
    BY <1>1 DEF Evaluated
  <2>2. QED
    BY <2>1 DEF Finished, FamilyCorrected
<1>2. CASE Judged(cells)
  <2> DEFINE total == Cardinality(Tested(cells))
             Earns(i) == \E j \in Tested(cells) :
                           /\ cells[j].p >= cells[i].p
                           /\ cells[j].p * total <= Level * Cardinality(UpTo(cells, cells[j].p))
  <2>1. ASSUME NEW i \in DOMAIN cells
        PROVE  cells[i].status = "GATES_AND_FDR_PASSED" <=>
                 cells[i].status \in FinalStatuses /\ cells[i].trimmed > 0 /\ Earns(i)
    <3>1. CASE cells[i].status \in FinalStatuses
      <4>1. i \in Tested(cells) /\ cells[i].q = QValue(cells, i)
        BY <1>2, <3>1, <2>1 DEF Judged, Tested
      <4>2. QValue(cells, i) <= Level * Divisor <=> Earns(i)
        BY <4>1, StepUp DEF MatrixInv
      <4> HIDE DEF Earns
      <4>3. QED
        BY <1>2, <2>1, <3>1, <4>1, <4>2 DEF Judged
    <3>2. CASE cells[i].status \notin FinalStatuses
      BY <3>2 DEF FinalStatuses
    <3>3. QED
      BY <3>1, <3>2
  <2>2. QED
    BY <2>1, Zenon DEF FamilyCorrected, UpTo, FinalStatuses
<1>3. QED
  BY <1>1, <1>2 DEF MatrixInv

(* The matrix and the promotions share the candidates and no state.        *)
LEMMA DiscoveryKeeps ==
  ASSUME NEW Trials \in SUBSET PossibleTrials, PromotionInv, MatrixInv,
         [DiscoveryNext(Trials)]_discoveryVars
  PROVE  PromotionInv' /\ MatrixInv'
<1>1. ASSUME UNCHANGED cells PROVE MatrixInv'
  <2>1. cells' = cells
    BY <1>1
  <2>2. QED
    BY <2>1, Zenon DEF MatrixInv
<1>2. ASSUME UNCHANGED <<second, artifacts, judged, verdicts, faults>> PROVE PromotionInv'
  BY <1>2 DEF PromotionInv, PromotionType, VerdictsSound, ArtifactsExplained, SoundVerdict, Explained,
              Witnessed, Unfinished
<1>3. ASSUME NEW id \in Ids, NEW length \in Lengths, NEW o \in Trials, NEW data \in Labels,
             NEW program \in {"sweep", "loop"}, Evaluate(program, id, data, length, o)
      PROVE  PromotionInv' /\ MatrixInv'
  <2>1. PromotionInv'
    BY <1>3, EvaluateKeeps
  <2>2. QED
    BY <1>1, <1>3, <2>1 DEF Evaluate
<1>4. ASSUME NEW id \in Ids, NEW length \in Lengths, NEW o \in Trials, NEW data \in Labels,
             NEW program \in PipelinePrograms, EvaluateModel(program, id, data, length, o)
      PROVE  PromotionInv' /\ MatrixInv'
  <2>1. PromotionInv'
    BY <1>4, EvaluateModelKeeps
  <2>2. QED
    BY <1>1, <1>4, <2>1 DEF EvaluateModel
<1>5. ASSUME NEW id \in Ids, NEW length \in Lengths, NEW data \in Labels, Calibrate(id, data, length)
      PROVE  PromotionInv' /\ MatrixInv'
  <2>1. PromotionInv'
    BY <1>5, CalibrateKeeps
  <2>2. QED
    BY <1>1, <1>5, <2>1 DEF Calibrate
<1>6. CASE Publish
  BY <1>1, <1>6, PublishKeeps DEF Publish
<1>7. CASE Tick
  BY <1>1, <1>7, TickKeeps DEF Tick
<1>8. CASE DieUnpublished
  BY <1>1, <1>8, DieUnpublishedKeeps DEF DieUnpublished
<1>9. ASSUME NEW id \in Structural, NEW length \in Lengths, NEW o \in Trials,
             NEW selected \in {"none", "M15", "M1"}, MatrixStep(id, length, o, selected)
      PROVE  PromotionInv' /\ MatrixInv'
  <2>1. o \in PossibleTrials
    OBVIOUS
  <2>2. MatrixInv'
    BY <1>9, <2>1, StepKeepsMatrix
  <2>3. QED
    BY <1>2, <1>9, <2>2 DEF MatrixStep
<1>10. CASE MatrixCorrect
  BY <1>2, <1>10, CorrectionKeepsMatrix DEF MatrixCorrect
<1>11. CASE UNCHANGED discoveryVars
  BY <1>1, <1>2, <1>11 DEF discoveryVars
<1>12. CASE PromotionNext(Trials)
  BY <1>3, <1>4, <1>5, <1>6, <1>7, <1>8, <1>12 DEF PromotionNext
<1>13. CASE MatrixNext(Trials)
  BY <1>9, <1>10, <1>13 DEF MatrixNext
<1>14. QED
  BY <1>11, <1>12, <1>13 DEF DiscoveryNext

LEMMA DiscoveryStarts ==
  ASSUME DiscoveryInit
  PROVE  PromotionInv /\ MatrixInv
<1> USE DEF DiscoveryInit
<1>1. DOMAIN artifacts = {}
  BY Zenon
<1>2. PromotionInv
  BY <1>1 DEF PromotionInv, PromotionType, VerdictsSound, ArtifactsExplained
<1>3. IsMatrix(cells)
  BY DiscoveryAssumption DEF IsMatrix
<1>4. Evaluated(cells)
  BY DEF Evaluated
<1>5. QED
  BY <1>2, <1>3, <1>4 DEF MatrixInv

(* Whatever the backtests give, what stands in research/promoted and what  *)
(* the matrix lets stand is earned: fair tests on parts that follow each   *)
(* other, all gates on three windows, data as each program demands, and    *)
(* the step-up rule over the whole family (research_engine/walkforward.py, *)
(* evaluate.py, discovery/*.py and the fractal campaign).                  *)
THEOREM ResearchIsEarned ==
  ASSUME NEW Trials \in SUBSET PossibleTrials
  PROVE  DiscoverySpec(Trials) => []ResearchEarned
<1>1. DiscoveryInit => PromotionInv /\ MatrixInv
  BY DiscoveryStarts
<1>2. PromotionInv /\ MatrixInv /\ [DiscoveryNext(Trials)]_discoveryVars => (PromotionInv /\ MatrixInv)'
  BY DiscoveryKeeps
<1>3. PromotionInv /\ MatrixInv => ResearchEarned
  BY PromotionsFollow, MatrixFollows DEF ResearchEarned
<1>4. QED
  BY <1>1, <1>2, <1>3, PTL DEF DiscoverySpec
==============================================================================
