--------------------------- MODULE Learning_proofs ---------------------------
(***************************************************************************)
(* That the learning pipeline never seats or keeps a champion that did not *)
(* pass, that a rollback undoes the latest change, and that stages agree   *)
(* with the promotions on record, for any number of candidates, strategies *)
(* and HTTP threads; and that the evolution track keeps one incumbent, for *)
(* every number of generations and restarts and every set of scores.       *)
(***************************************************************************)
EXTENDS Learning, Evolution, SequenceTheorems, FiniteSetTheorems, TLAPS

Places ==
  {"idle", "write", "record", "crown", "look", "shelve", "enthrone", "restore", "reseat", "unshelve"}
Promotion == [candidate : Candidates, from : Stages, to : Stages]
Champion == Candidates \cup {Nobody}
Job == [kind : {"none", "promote", "rollback"}, candidate : Champion, from : Stages, to : Stages,
        strategy : Strategies \cup {Nobody}, read : [Strategies -> Champion] \cup {<<>>},
        past : Seq(Candidates)]

LearningType ==
  /\ stage \in [Candidates -> Stages] /\ promotions \in Seq(Promotion)
  /\ champions \in [Strategies -> Champion] /\ shelf \in [Strategies -> Seq(Candidates)]
  /\ at \in [Requesters -> Places] /\ job \in [Requesters -> Job]
  /\ stops \in Nat /\ serial \in [Strategies -> Seq(Candidates)]
  /\ raced \in SUBSET Strategies /\ disputed \in SUBSET Candidates

Seating == {"crown", "look", "shelve", "enthrone"}
Undoing == {"restore", "reseat", "unshelve"}
HasRead == {"look", "shelve", "enthrone", "reseat", "unshelve"}
HasPast == {"shelve", "enthrone"} \cup Undoing

(* What a request in work is about, wherever it stands.                    *)
JobFits(t) ==
  /\ at[t] \in {"write", "record"} \cup Seating =>
       job[t].candidate \in Candidates /\ job[t].strategy = StrategyOf[job[t].candidate]
  /\ at[t] \in {"write", "record"} => job[t].to # "NONE"
  /\ at[t] \in Seating \cup Undoing => job[t].strategy \in Strategies
  /\ at[t] \in HasRead => job[t].read \in [Strategies -> Champion]
  /\ at[t] \in Undoing => job[t].past # <<>>

JobKept == \A t \in Requesters : JobFits(t)

-----------------------------------------------------------------------------
(* The candidates of a strategy whose promotion to PAPER is on record.     *)
OnRecord == {promotions[k].candidate : k \in {k \in DOMAIN promotions : promotions[k].to = "PAPER"}}
PassedOf(record, s) == {c \in record : StrategyOf[c] = s}
MaySit(record, s) == PassedOf(record, s) \cup {Nobody}

(* Nothing a request has read or will write leaves the candidates that     *)
(* passed.                                                                 *)
SeatsPassed == \A s \in Strategies : champions[s] \in MaySit(OnRecord, s) /\ shelf[s] \in Seq(PassedOf(OnRecord, s))
WritesPassed(t) ==
  /\ at[t] \in Seating => job[t].candidate \in OnRecord
  /\ at[t] \in HasRead => \A s \in Strategies : job[t].read[s] \in MaySit(OnRecord, s)
  /\ at[t] \in HasPast => job[t].past \in Seq(PassedOf(OnRecord, job[t].strategy))

PassedKept == SeatsPassed /\ \A t \in Requesters : WritesPassed(t)

-----------------------------------------------------------------------------
(* As long as one strategy is free of races, no two requests are on        *)
(* champions.                                                              *)
OneAtATime ==
  \A t, u \in Requesters : InChampions(t) /\ InChampions(u) /\ t # u => Strategies \subseteq raced

(* What champion and history of a strategy are while one request changes   *)
(* them.                                                                   *)
Between(t, s) ==
  /\ at[t] \in {"crown", "look", "shelve"} =>
       serial[s] = Append(Newest(Retire(champions[s], shelf[s])), job[t].candidate)
  /\ at[t] = "shelve" => job[t].past = shelf[s]
  /\ at[t] = "enthrone" => serial[s] = Append(shelf[s], job[t].candidate)
  /\ at[t] \in Undoing => serial[s] = shelf[s] /\ job[t].past = shelf[s]
  /\ at[t] = "unshelve" => champions[s] = job[t].past[Len(job[t].past)]

(* What the request will write for the other strategies is what is there.  *)
ReadIsNow(t) == at[t] \in {"look", "shelve", "enthrone", "reseat"} => job[t].read = champions

(* A strategy nobody changes: its champion, and the history behind it.     *)
Settled(s) ==
  /\ serial[s] = Retire(champions[s], shelf[s])
  /\ shelf[s] # <<>> => champions[s] # Nobody

Changes(t, s) == InChampions(t) /\ job[t].strategy = s

SerialAt(s) ==
  /\ (\A t \in Requesters : ~Changes(t, s)) => Settled(s)
  /\ \A t \in Requesters : (Changes(t, s) => Between(t, s)) /\ (InChampions(t) => ReadIsNow(t))

SerialKept == \A s \in Strategies \ raced : SerialAt(s)

-----------------------------------------------------------------------------
Promotes(t, c) == at[t] \in {"write", "record"} /\ job[t].candidate = c

(* The promotions of a candidate that follow the k-th on record.           *)
Later(k, c) == {j \in DOMAIN promotions : j > k /\ promotions[j].candidate = c}
Latest(k, c) == k \in DOMAIN promotions /\ promotions[k].candidate = c /\ Later(k, c) = {}

(* Each promotion of a candidate starts where the one before ended.        *)
Chain(c) ==
  \A k \in DOMAIN promotions : promotions[k].candidate = c =>
    \A j \in Later(k, c) : (\A i \in Later(k, c) : j <= i) => promotions[j].from = promotions[k].to

Ends(c) ==
  \A k : Latest(k, c) /\ (\A t \in Requesters : at[t] = "record" => job[t].candidate # c)
           => stage[c] = promotions[k].to

(* A request that promotes c goes from the stage that c is in, and that    *)
(* the record ends in, to the one it writes.                               *)
Promoting(t, c) ==
  /\ at[t] = "write" => job[t].from = stage[c]
  /\ at[t] = "record" => job[t].to = stage[c]
  /\ \A k : Latest(k, c) => promotions[k].to = job[t].from

StageAt(c) ==
  /\ Chain(c) /\ Ends(c)
  /\ \A t, u \in Requesters : Promotes(t, c) /\ Promotes(u, c) => t = u
  /\ \A t \in Requesters : Promotes(t, c) => Promoting(t, c)

(* Whoever is promoted, or has been, is registered.                        *)
Registered ==
  /\ \A k \in DOMAIN promotions : stage[promotions[k].candidate] # "NONE"
  /\ \A t \in Requesters : at[t] \in {"write", "record"} => stage[job[t].candidate] # "NONE"

StageKept == Registered /\ \A c \in Candidates \ disputed : StageAt(c)

LearningInv == LearningType /\ JobKept /\ PassedKept /\ OneAtATime /\ SerialKept /\ StageKept


-----------------------------------------------------------------------------
(* Sequences of champions                                                  *)

LEMMA NewestType ==
  ASSUME NEW S, NEW s \in Seq(S) PROVE Newest(s) \in Seq(S)
<1>1. Len(s) \in Nat /\ MaxHistory \in Nat \ {0} /\ \A i \in 1..Len(s) : s[i] \in S
  BY LearningAssumption, ElementOfSeq, LenProperties
<1>2. CASE Len(s) > MaxHistory
  <2>1. \A i \in (Len(s) - MaxHistory + 1)..Len(s) : s[i] \in S
    BY <1>1, <1>2
  <2>2. SubSeq(s, Len(s) - MaxHistory + 1, Len(s)) \in Seq(S)
    BY <1>1, <2>1, SubSeqProperties
  <2>3. QED
    BY <1>2, <2>2 DEF Newest
<1>3. CASE ~(Len(s) > MaxHistory)
  BY <1>3 DEF Newest
<1>4. QED
  BY <1>2, <1>3

LEMMA RetireType ==
  ASSUME NEW S, NEW s \in Seq(S), NEW c \in S \cup {Nobody} PROVE Retire(c, s) \in Seq(S)
<1>1. CASE c = Nobody
  BY <1>1 DEF Retire
<1>2. CASE c # Nobody
  BY <1>2, AppendProperties DEF Retire
<1>3. QED
  BY <1>1, <1>2

LEMMA FrontProperties ==
  ASSUME NEW S, NEW s \in Seq(S), s # <<>>
  PROVE  /\ Front(s) \in Seq(S) /\ s[Len(s)] \in S
         /\ Append(Front(s), s[Len(s)]) = s
<1>1. Len(s) \in Nat \ {0} /\ \A i \in 1..Len(s) : s[i] \in S
  BY EmptySeq, ElementOfSeq
<1>2. /\ Front(s) \in Seq(S) /\ Len(Front(s)) = Len(s) - 1
      /\ \A i \in 1..(Len(s) - 1) : Front(s)[i] = s[i]
  <2>1. \A i \in 1..(Len(s) - 1) : s[i] \in S
    BY <1>1
  <2> DEFINE n == Len(s) - 1
             g == SubSeq(s, 1, n)
  <2>2. n \in Nat /\ 1 \in Int /\ n \in Int /\ n - 1 + 1 = n /\ \A i \in 1..n : 1 + i - 1 = i
    BY <1>1
  <2>3. /\ g \in Seq(S) /\ Len(g) = IF 1 <= n THEN n - 1 + 1 ELSE 0
        /\ \A i \in 1..(n - 1 + 1) : g[i] = s[1 + i - 1]
    BY <2>1, <2>2, SubSeqProperties
  <2> HIDE DEF n, g
  <2>4. Len(g) = n /\ \A i \in 1..n : g[i] = s[i]
    BY <2>2, <2>3
  <2>5. QED
    BY <2>3, <2>4 DEF Front, n, g
<1> DEFINE f == Front(s)
<1>3. s[Len(s)] \in S
  BY <1>1
<1> HIDE DEF f
<1>4. /\ Append(f, s[Len(s)]) \in Seq(S) /\ Len(Append(f, s[Len(s)])) = Len(s)
      /\ \A i \in 1..Len(s) : Append(f, s[Len(s)])[i] = s[i]
  <2>1. /\ Append(f, s[Len(s)]) \in Seq(S) /\ Len(Append(f, s[Len(s)])) = Len(f) + 1
        /\ \A i \in 1..Len(f) : Append(f, s[Len(s)])[i] = f[i]
        /\ Append(f, s[Len(s)])[Len(f) + 1] = s[Len(s)]
    BY <1>2, <1>3, AppendProperties DEF f
  <2>2. QED
    BY <1>1, <1>2, <2>1 DEF f
<1>5. Append(f, s[Len(s)]) = s
  BY <1>4, SeqEqual
<1>6. QED
  BY <1>2, <1>3, <1>5 DEF f

LEMMA FrontOfAppend ==
  ASSUME NEW S, NEW s \in Seq(S), NEW e \in S
  PROVE  Append(s, e) # <<>> /\ Front(Append(s, e)) = s
<1> DEFINE a == Append(s, e)
<1>1. /\ a \in Seq(S) /\ a # <<>> /\ Len(a) = Len(s) + 1 /\ Len(s) \in Nat
      /\ a[Len(s) + 1] = e
  BY AppendProperties, LenProperties
<1>2. Front(a) \in Seq(S) /\ Append(Front(a), a[Len(a)]) = a
  BY <1>1, FrontProperties
<1>3. a[Len(a)] = e
  BY <1>1
<1>4. Append(Front(a), e) = Append(s, e)
  BY <1>2, <1>3
<1> HIDE DEF a
<1>5. QED
  BY <1>1, <1>2, <1>4, AppendInjective DEF a

(* Stages and their transitions: no transition leads back to NONE, none    *)
(* leaves it.                                                              *)
LEMMA Transitions ==
  /\ Stages = {"NONE", "CANDIDATE", "VALIDATED", "PAPER", "LIMITED_LIVE", "REJECTED", "RETIRED"}
  /\ AllowedTransitions["NONE"] = {}
  /\ \A x \in Stages : "NONE" \notin AllowedTransitions[x]
BY DEF Stages, AllowedTransitions

-----------------------------------------------------------------------------
(* What each step of a request does to its own place and job               *)

Others(t) == \A u \in Requesters \ {t} : at'[u] = at[u] /\ job'[u] = job[u]

(* A step of a request, as the other requests see it.                      *)
Step(t, place) ==
  /\ at' = [at EXCEPT ![t] = place]
  /\ \E j \in Job : job' = [job EXCEPT ![t] = j]

LEMMA IdleType == Idle \in Job
<1>1. <<>> \in Seq(Candidates)
  OBVIOUS
<1>2. QED
  BY <1>1, Transitions DEF Idle, Job, Champion

LEMMA StepOthers ==
  ASSUME LearningType, NEW t \in Requesters, NEW place \in Places, Step(t, place)
  PROVE  /\ Others(t) /\ at'[t] = place
         /\ at' \in [Requesters -> Places] /\ job' \in [Requesters -> Job]
BY DEF LearningType, Step, Others

LEMMA DoneStep ==
  ASSUME LearningType, NEW t \in Requesters, Done(t)
  PROVE  Step(t, "idle") /\ job'[t] = Idle
BY IdleType DEF Done, Step, LearningType

LEMMA StayStep ==
  ASSUME LearningType, NEW t \in Requesters, NEW place \in Places,
         at' = [at EXCEPT ![t] = place], job' = job
  PROVE  Step(t, place) /\ job'[t] = job[t]
<1>1. job[t] \in Job /\ job' = [job EXCEPT ![t] = job[t]]
  BY DEF LearningType
<1>2. QED
  BY <1>1 DEF Step

LEMMA AskPromotionDoes ==
  ASSUME LearningType, NEW t \in Requesters, NEW c \in Candidates, NEW to \in Stages,
         NEW a \in BOOLEAN, AskPromotion(t, c, to, a)
  PROVE  /\ at[t] = "idle" /\ Step(t, "write") /\ to # "NONE" /\ stage[c] # "NONE"
         /\ job'[t].candidate = c /\ job'[t].from = stage[c] /\ job'[t].to = to
         /\ job'[t].strategy = StrategyOf[c]
<1> DEFINE j == [Idle EXCEPT !.kind = "promote", !.candidate = c, !.from = stage[c], !.to = to,
                             !.strategy = StrategyOf[c]]
<1>1. job' = [job EXCEPT ![t] = j] /\ at' = [at EXCEPT ![t] = "write"] /\ at[t] = "idle"
  BY DEF AskPromotion
<1>2. to \in AllowedTransitions[stage[c]] /\ stage[c] \in Stages
  BY DEF AskPromotion, LearningType
<1>3. to # "NONE" /\ stage[c] # "NONE"
  BY <1>2, Transitions
<1>4. StrategyOf[c] \in Strategies
  BY DEF Strategies
<1>5. j \in Job
  BY <1>2, <1>4, IdleType DEF Job, Champion
<1>6. j.candidate = c /\ j.from = stage[c] /\ j.to = to /\ j.strategy = StrategyOf[c]
  BY DEF Idle
<1> HIDE DEF j
<1>7. job'[t] = j
  BY <1>1 DEF LearningType
<1>8. QED
  BY <1>1, <1>3, <1>5, <1>6, <1>7 DEF Step

LEMMA AskRollbackDoes ==
  ASSUME LearningType, NEW t \in Requesters, NEW s \in Strategies, AskRollback(t, s)
  PROVE  /\ at[t] = "idle" /\ Step(t, "restore") /\ shelf[s] # <<>>
         /\ job'[t].strategy = s /\ job'[t].past = shelf[s]
<1> DEFINE j == [Idle EXCEPT !.kind = "rollback", !.strategy = s, !.past = shelf[s]]
<1>1. /\ job' = [job EXCEPT ![t] = j] /\ at' = [at EXCEPT ![t] = "restore"] /\ at[t] = "idle"
      /\ shelf[s] # <<>>
  BY DEF AskRollback
<1>2. shelf[s] \in Seq(Candidates)
  BY DEF LearningType
<1>3. j \in Job
  BY <1>2, IdleType DEF Job
<1>4. j.strategy = s /\ j.past = shelf[s]
  BY DEF Idle
<1> HIDE DEF j
<1>5. job'[t] = j
  BY <1>1 DEF LearningType
<1>6. QED
  BY <1>1, <1>3, <1>4, <1>5 DEF Step

(* Reading the champions, and the history.                                 *)
LEMMA ReadingDoes ==
  ASSUME LearningType, NEW t \in Requesters, NEW place \in Places,
         at' = [at EXCEPT ![t] = place], job' = [job EXCEPT ![t].read = champions]
  PROVE  /\ Step(t, place) /\ job'[t].read = champions
         /\ job'[t].candidate = job[t].candidate /\ job'[t].strategy = job[t].strategy
         /\ job'[t].past = job[t].past
<1>1. job[t] \in Job /\ champions \in [Strategies -> Champion]
  BY DEF LearningType
<1>2. [job[t] EXCEPT !.read = champions] \in Job
  BY <1>1 DEF Job
<1>3. job' = [job EXCEPT ![t] = [job[t] EXCEPT !.read = champions]]
  OBVIOUS
<1>4. job'[t] = [job[t] EXCEPT !.read = champions]
  BY <1>3 DEF LearningType
<1>5. QED
  BY <1>1, <1>2, <1>3, <1>4 DEF Step, Job

LEMMA ReadHistoryDoes ==
  ASSUME LearningType, NEW t \in Requesters, job[t].strategy \in Strategies, ReadHistory(t)
  PROVE  /\ at[t] = "look" /\ Step(t, "shelve") /\ job'[t].past = shelf[job[t].strategy]
         /\ job'[t].candidate = job[t].candidate /\ job'[t].strategy = job[t].strategy
         /\ job'[t].read = job[t].read
<1> DEFINE h == shelf[job[t].strategy]
<1>1. job[t] \in Job /\ h \in Seq(Candidates)
  BY DEF LearningType
<1>2. [job[t] EXCEPT !.past = h] \in Job
  BY <1>1 DEF Job
<1>3. job' = [job EXCEPT ![t] = [job[t] EXCEPT !.past = h]] /\ at' = [at EXCEPT ![t] = "shelve"]
      /\ at[t] = "look"
  BY DEF ReadHistory
<1>4. job'[t] = [job[t] EXCEPT !.past = h]
  BY <1>3 DEF LearningType
<1>5. QED
  BY <1>1, <1>2, <1>3, <1>4 DEF Step, Job


-----------------------------------------------------------------------------
(* Types, and what a request is about                                      *)

LEMMA FitsAlone ==
  ASSUME JobKept, NEW t \in Requesters, Others(t), JobFits(t)'
  PROVE  JobKept'
<1>1. \A u \in Requesters \ {t} : JobFits(u)'
  BY DEF Others, JobKept, JobFits
<1>2. QED
  BY <1>1 DEF JobKept

LEMMA LearningTypeStep ==
  ASSUME LearningType, JobKept, [LearningNext]_learningVars
  PROVE  LearningType' /\ JobKept'
<1> DEFINE Data == /\ stage' \in [Candidates -> Stages] /\ promotions' \in Seq(Promotion)
                   /\ champions' \in [Strategies -> Champion]
                   /\ shelf' \in [Strategies -> Seq(Candidates)]
                   /\ stops' \in Nat /\ serial' \in [Strategies -> Seq(Candidates)]
                   /\ raced' \in SUBSET Strategies /\ disputed' \in SUBSET Candidates
<1>1. ASSUME NEW t \in Requesters, NEW place \in Places, Step(t, place), JobFits(t)', Data
      PROVE  LearningType' /\ JobKept'
  BY <1>1, StepOthers, FitsAlone DEF LearningType
<1> USE DEF Places, Seating, Undoing, HasRead
<1>2. ASSUME NEW c \in Candidates, NEW q \in BOOLEAN, Register(c, q) PROVE LearningType' /\ JobKept'
  <2>1. stage' \in [Candidates -> Stages]
    BY <1>2, Transitions DEF Register, LearningType
  <2>2. QED
    BY <1>2, <2>1 DEF Register, LearningType, JobKept, JobFits
<1>3. ASSUME NEW t \in Requesters, NEW c \in Candidates, NEW to \in Stages, NEW a \in BOOLEAN,
             AskPromotion(t, c, to, a)
      PROVE  LearningType' /\ JobKept'
  <2>1. /\ Step(t, "write") /\ to # "NONE" /\ at'[t] = "write"
        /\ job'[t].candidate = c /\ job'[t].to = to /\ job'[t].strategy = StrategyOf[c]
    BY <1>3, AskPromotionDoes, StepOthers
  <2>2. JobFits(t)'
    BY <2>1 DEF JobFits
  <2>3. Data
    BY <1>3 DEF AskPromotion, LearningType
  <2>4. QED
    BY <1>1, <2>1, <2>2, <2>3
<1>4. ASSUME NEW t \in Requesters, NEW s \in Strategies, AskRollback(t, s) PROVE LearningType' /\ JobKept'
  <2>1. /\ Step(t, "restore") /\ shelf[s] # <<>> /\ at'[t] = "restore"
        /\ job'[t].strategy = s /\ job'[t].past = shelf[s]
    BY <1>4, AskRollbackDoes, StepOthers
  <2>2. JobFits(t)'
    BY <2>1 DEF JobFits
  <2>3. serial' \in [Strategies -> Seq(Candidates)]
    <3>1. serial[s] # <<>> => Front(serial[s]) \in Seq(Candidates)
      BY FrontProperties DEF LearningType
    <3>2. QED
      BY <1>4, <3>1 DEF AskRollback, LearningType
  <2>4. raced' \in SUBSET Strategies
    BY <1>4 DEF AskRollback, Meets, LearningType
  <2>5. Data
    BY <1>4, <2>3, <2>4 DEF AskRollback, LearningType
  <2>6. QED
    BY <1>1, <2>1, <2>2, <2>5
<1>5. ASSUME NEW t \in Requesters, WriteStage(t) PROVE LearningType' /\ JobKept'
  <2>1. Step(t, "record") /\ job'[t] = job[t] /\ at[t] = "write" /\ at'[t] = "record"
    BY <1>5, StayStep, StepOthers DEF WriteStage
  <2>2. JobFits(t)'
    BY <2>1 DEF JobFits, JobKept
  <2>3. job[t].candidate \in Candidates /\ job[t].to \in Stages
    BY <2>1 DEF JobKept, JobFits, LearningType, Job
  <2>4. Data
    BY <1>5, <2>3 DEF WriteStage, LearningType
  <2>5. QED
    BY <1>1, <2>1, <2>2, <2>4
<1>6. ASSUME NEW t \in Requesters, Record(t) PROVE LearningType' /\ JobKept'
  <2>1. /\ at[t] = "record" /\ job[t].candidate \in Candidates /\ job[t].strategy \in Strategies
        /\ job[t].from \in Stages /\ job[t].to \in Stages
    BY <1>6 DEF Record, JobKept, JobFits, LearningType, Job, Strategies
  <2>2. \/ Step(t, "crown") /\ job'[t] = job[t] /\ at'[t] = "crown"
        \/ Step(t, "idle") /\ at'[t] = "idle"
    <3>1. CASE job[t].to = "PAPER"
      BY <1>6, <3>1, StayStep, StepOthers DEF Record
    <3>2. CASE job[t].to # "PAPER"
      BY <1>6, <3>2, DoneStep, StepOthers DEF Record
    <3>3. QED
      BY <3>1, <3>2
  <2>3. JobFits(t)'
    BY <2>1, <2>2 DEF JobFits, JobKept
  <2>4. promotions' \in Seq(Promotion)
    <3>1. [candidate |-> job[t].candidate, from |-> job[t].from, to |-> job[t].to] \in Promotion
      BY <2>1 DEF Promotion
    <3>2. QED
      BY <1>6, <3>1, AppendProperties DEF Record, LearningType
  <2>5. serial' \in [Strategies -> Seq(Candidates)]
    <3>1. Append(Newest(serial[job[t].strategy]), job[t].candidate) \in Seq(Candidates)
      BY <2>1, NewestType, AppendProperties DEF LearningType
    <3>2. QED
      BY <1>6, <2>1, <3>1 DEF Record, LearningType
  <2>6. raced' \in SUBSET Strategies
    BY <1>6 DEF Record, Meets, LearningType
  <2>7. Data
    BY <1>6, <2>4, <2>5, <2>6 DEF Record, LearningType
  <2>8. QED
    BY <1>1, <2>2, <2>3, <2>7
<1>7. ASSUME NEW t \in Requesters, ReadChampions(t) \/ ReadForRollback(t) PROVE LearningType' /\ JobKept'
  <2>1. /\ \/ at[t] = "crown" /\ Step(t, "look") /\ at'[t] = "look"
           \/ at[t] = "restore" /\ Step(t, "reseat") /\ at'[t] = "reseat"
        /\ job'[t].read = champions
        /\ job'[t].candidate = job[t].candidate /\ job'[t].strategy = job[t].strategy
        /\ job'[t].past = job[t].past
    BY <1>7, ReadingDoes, StepOthers DEF ReadChampions, ReadForRollback
  <2>2. JobFits(t)'
    BY <2>1 DEF JobFits, JobKept, LearningType
  <2>3. Data
    BY <1>7 DEF ReadChampions, ReadForRollback, LearningType
  <2>4. QED
    BY <1>1, <2>1, <2>2, <2>3
<1>8. ASSUME NEW t \in Requesters, ReadHistory(t) PROVE LearningType' /\ JobKept'
  <2>1. at[t] = "look" /\ job[t].strategy \in Strategies
    BY <1>8 DEF ReadHistory, JobKept, JobFits
  <2>2. /\ Step(t, "shelve") /\ at'[t] = "shelve" /\ job'[t].candidate = job[t].candidate
        /\ job'[t].strategy = job[t].strategy /\ job'[t].read = job[t].read
    BY <1>8, <2>1, ReadHistoryDoes, StepOthers
  <2>3. JobFits(t)'
    BY <2>1, <2>2 DEF JobFits, JobKept
  <2>4. Data
    BY <1>8 DEF ReadHistory, LearningType
  <2>5. QED
    BY <1>1, <2>2, <2>3, <2>4
<1>9. ASSUME NEW t \in Requesters, Shelve(t) PROVE LearningType' /\ JobKept'
  <2>1. /\ at[t] = "shelve" /\ Step(t, "enthrone") /\ job'[t] = job[t] /\ at'[t] = "enthrone"
    BY <1>9, StayStep, StepOthers DEF Shelve
  <2>2. JobFits(t)'
    BY <2>1 DEF JobFits, JobKept
  <2>3. /\ job[t].strategy \in Strategies /\ job[t].read \in [Strategies -> Champion]
        /\ job[t].past \in Seq(Candidates)
    BY <2>1 DEF JobKept, JobFits, LearningType, Job
  <2>4. Newest(Retire(job[t].read[job[t].strategy], job[t].past)) \in Seq(Candidates)
    <3>1. job[t].read[job[t].strategy] \in Candidates \cup {Nobody}
      BY <2>3 DEF Champion
    <3>2. QED
      BY <2>3, <3>1, RetireType, NewestType
  <2>5. shelf' \in [Strategies -> Seq(Candidates)]
    BY <1>9, <2>4 DEF Shelve, LearningType
  <2>6. Data
    BY <1>9, <2>5 DEF Shelve, LearningType
  <2>7. QED
    BY <1>1, <2>1, <2>2, <2>6
<1>10. ASSUME NEW t \in Requesters, Enthrone(t) \/ Unshelve(t) PROVE LearningType' /\ JobKept'
  <2>1. Step(t, "idle") /\ at'[t] = "idle"
    BY <1>10, DoneStep, StepOthers DEF Enthrone, Unshelve
  <2>2. JobFits(t)'
    BY <2>1 DEF JobFits
  <2>3. CASE Enthrone(t)
    <3>1. job[t].candidate \in Candidates /\ job[t].read \in [Strategies -> Champion]
      BY <2>3 DEF Enthrone, JobKept, JobFits
    <3>2. champions' \in [Strategies -> Champion]
      BY <2>3, <3>1 DEF Enthrone, Champion
    <3>3. Data
      BY <2>3, <3>2 DEF Enthrone, LearningType
    <3>4. QED
      BY <1>1, <2>1, <2>2, <3>3
  <2>4. CASE Unshelve(t)
    <3>1. Front(job[t].past) \in Seq(Candidates)
      BY <2>4, FrontProperties DEF Unshelve, JobKept, JobFits, LearningType, Job
    <3>2. shelf' \in [Strategies -> Seq(Candidates)]
      BY <2>4, <3>1 DEF Unshelve, LearningType
    <3>3. Data
      BY <2>4, <3>2 DEF Unshelve, LearningType
    <3>4. QED
      BY <1>1, <2>1, <2>2, <3>3
  <2>5. QED
    BY <1>10, <2>3, <2>4
<1>11. ASSUME NEW t \in Requesters, Reseat(t) PROVE LearningType' /\ JobKept'
  <2>1. at[t] = "reseat" /\ Step(t, "unshelve") /\ job'[t] = job[t] /\ at'[t] = "unshelve"
    BY <1>11, StayStep, StepOthers DEF Reseat
  <2>2. JobFits(t)'
    BY <2>1 DEF JobFits, JobKept
  <2>3. /\ job[t].read \in [Strategies -> Champion]
        /\ job[t].past[Len(job[t].past)] \in Champion
    <3>1. job[t].past \in Seq(Candidates) /\ job[t].past # <<>>
      BY <2>1 DEF JobKept, JobFits, LearningType, Job
    <3>2. QED
      BY <2>1, <3>1, FrontProperties DEF JobKept, JobFits, Champion
  <2>4. champions' \in [Strategies -> Champion]
    BY <1>11, <2>3 DEF Reseat
  <2>5. Data
    BY <1>11, <2>4 DEF Reseat, LearningType
  <2>6. QED
    BY <1>1, <2>1, <2>2, <2>5
<1>12. CASE Die
  <2>1. job' \in [Requesters -> Job] /\ at' \in [Requesters -> Places] /\ stops' \in Nat
    BY <1>12, IdleType DEF Die, LearningType
  <2>2. raced' \in SUBSET Strategies /\ disputed' \in SUBSET Candidates
    BY <1>12 DEF Die, InChampions, JobKept, JobFits, LearningType
  <2>3. QED
    BY <1>12, <2>1, <2>2 DEF Die, LearningType, JobKept, JobFits
<1>13. CASE UNCHANGED learningVars
  BY <1>13 DEF learningVars, LearningType, JobKept, JobFits
<1>14. QED
  BY <1>2, <1>3, <1>4, <1>5, <1>6, <1>7, <1>8, <1>9, <1>10, <1>11, <1>12, <1>13 DEF LearningNext


-----------------------------------------------------------------------------
(* Champions and their history                                             *)

LEMMA PassedGrows ==
  ASSUME OnRecord \subseteq OnRecord'
  PROVE  \A s : /\ PassedOf(OnRecord, s) \subseteq PassedOf(OnRecord', s) /\ MaySit(OnRecord, s) \subseteq MaySit(OnRecord', s)
                /\ \A q \in Seq(PassedOf(OnRecord, s)) : q \in Seq(PassedOf(OnRecord', s))
<1>1. ASSUME NEW s PROVE PassedOf(OnRecord, s) \subseteq PassedOf(OnRecord', s) /\ MaySit(OnRecord, s) \subseteq MaySit(OnRecord', s)
  BY DEF PassedOf, MaySit
<1>2. ASSUME NEW s, NEW q \in Seq(PassedOf(OnRecord, s)) PROVE q \in Seq(PassedOf(OnRecord', s))
  BY <1>1, SeqMonotonic
<1>3. QED
  BY <1>1, <1>2

LEMMA PassedAlone ==
  ASSUME PassedKept, NEW t \in Requesters, Others(t), OnRecord \subseteq OnRecord',
         SeatsPassed', WritesPassed(t)'
  PROVE  PassedKept'
<1>1. ASSUME NEW u \in Requesters \ {t} PROVE WritesPassed(u)'
  <2>1. at'[u] = at[u] /\ job'[u] = job[u] /\ WritesPassed(u)
    BY DEF Others, PassedKept
  <2>2. at[u] \in HasPast => job[u].past \in Seq(PassedOf(OnRecord', job[u].strategy))
    BY <2>1, PassedGrows DEF WritesPassed
  <2>3. at[u] \in HasRead => \A s \in Strategies : job[u].read[s] \in MaySit(OnRecord', s)
    BY <2>1, PassedGrows DEF WritesPassed
  <2>4. at[u] \in Seating => job[u].candidate \in OnRecord'
    BY <2>1 DEF WritesPassed
  <2>5. PassedOf(OnRecord', job'[u].strategy) = PassedOf(OnRecord', job[u].strategy)
    BY <2>1
  <2>6. QED
    BY <2>1, <2>2, <2>3, <2>4, <2>5 DEF WritesPassed
<1>2. QED
  BY <1>1 DEF PassedKept

LEMMA SeatsStay ==
  ASSUME SeatsPassed, OnRecord \subseteq OnRecord', UNCHANGED <<champions, shelf>>
  PROVE  SeatsPassed'
<1>1. ASSUME NEW s \in Strategies PROVE champions[s] \in MaySit(OnRecord', s) /\ shelf[s] \in Seq(PassedOf(OnRecord', s))
  BY PassedGrows DEF SeatsPassed
<1>2. QED
  BY <1>1 DEF SeatsPassed

LEMMA PassedStep ==
  ASSUME LearningType, JobKept, PassedKept, [LearningNext]_learningVars
  PROVE  PassedKept'
<1> USE DEF Seating, Undoing, HasRead, HasPast
<1>1. SeatsPassed
  BY DEF PassedKept
<1>2. ASSUME UNCHANGED <<promotions, champions, shelf, at, job>> PROVE PassedKept'
  <2>1. OnRecord' = OnRecord
    BY <1>2 DEF OnRecord
  <2>2. SeatsPassed'
    BY <1>1, <1>2, <2>1, SeatsStay
  <2>3. \A t \in Requesters : WritesPassed(t)'
    BY <1>2, <2>1 DEF PassedKept, WritesPassed
  <2>4. QED
    BY <2>2, <2>3 DEF PassedKept
<1>3. ASSUME NEW t \in Requesters, NEW c \in Candidates, NEW to \in Stages, NEW a \in BOOLEAN,
             AskPromotion(t, c, to, a)
      PROVE  PassedKept'
  <2>1. Others(t) /\ at'[t] = "write" /\ UNCHANGED <<champions, shelf, promotions>>
    BY <1>3, AskPromotionDoes, StepOthers DEF AskPromotion, Places
  <2>2. OnRecord' = OnRecord /\ WritesPassed(t)'
    BY <2>1 DEF OnRecord, WritesPassed
  <2>3. QED
    BY <1>1, <2>1, <2>2, SeatsStay, PassedAlone
<1>4. ASSUME NEW t \in Requesters, NEW s \in Strategies, AskRollback(t, s) PROVE PassedKept'
  <2>1. /\ Others(t) /\ at'[t] = "restore" /\ UNCHANGED <<champions, shelf, promotions>>
        /\ job'[t].strategy = s /\ job'[t].past = shelf[s]
    BY <1>4, AskRollbackDoes, StepOthers DEF AskRollback, Places
  <2>2. OnRecord' = OnRecord
    BY <2>1 DEF OnRecord
  <2>3. PassedOf(OnRecord', job'[t].strategy) = PassedOf(OnRecord, s)
    BY <2>1, <2>2 DEF PassedOf
  <2>4. WritesPassed(t)'
    BY <1>1, <2>1, <2>3 DEF WritesPassed, SeatsPassed
  <2>5. QED
    BY <1>1, <2>1, <2>2, <2>4, SeatsStay, PassedAlone
<1>5. ASSUME NEW t \in Requesters, WriteStage(t) PROVE PassedKept'
  <2>1. Others(t) /\ at'[t] = "record" /\ UNCHANGED <<champions, shelf, promotions>>
    BY <1>5, StayStep, StepOthers DEF WriteStage, Places
  <2>2. OnRecord' = OnRecord /\ WritesPassed(t)'
    BY <2>1 DEF OnRecord, WritesPassed
  <2>3. QED
    BY <1>1, <2>1, <2>2, SeatsStay, PassedAlone
<1>6. ASSUME NEW t \in Requesters, Record(t) PROVE PassedKept'
  <2>1. Others(t) /\ UNCHANGED <<champions, shelf>>
    <3>1. CASE job[t].to = "PAPER"
      BY <1>6, <3>1, StayStep, StepOthers DEF Record, Places
    <3>2. CASE job[t].to # "PAPER"
      BY <1>6, <3>2, DoneStep, StepOthers DEF Record, Places
    <3>3. QED
      BY <3>1, <3>2
  <2> DEFINE p == [candidate |-> job[t].candidate, from |-> job[t].from, to |-> job[t].to]
  <2>2. /\ DOMAIN promotions \subseteq DOMAIN promotions'
        /\ \A k \in DOMAIN promotions : promotions'[k] = promotions[k]
        /\ Len(promotions) + 1 \in DOMAIN promotions' /\ promotions'[Len(promotions) + 1] = p
    <3>1. job[t].candidate \in Candidates /\ job[t] \in Job
      BY <1>6 DEF Record, JobKept, JobFits, LearningType
    <3>2. p \in Promotion /\ promotions \in Seq(Promotion) /\ promotions' = Append(promotions, p)
      BY <1>6, <3>1 DEF Record, Promotion, Job, LearningType
    <3> HIDE DEF p
    <3>3. QED
      BY <3>2, AppendProperties, LenProperties
  <2>3. OnRecord \subseteq OnRecord' /\ (p.to = "PAPER" => p.candidate \in OnRecord')
    <3> HIDE DEF p
    <3>1. QED
      BY <2>2 DEF OnRecord
  <2>4. WritesPassed(t)'
    <3>1. CASE job[t].to = "PAPER"
      <4>1. at'[t] = "crown" /\ job'[t] = job[t]
        BY <1>6, <3>1, StayStep, StepOthers DEF Record, Places
      <4>2. QED
        BY <2>3, <3>1, <4>1 DEF WritesPassed
    <3>2. CASE job[t].to # "PAPER"
      <4>1. at'[t] = "idle"
        BY <1>6, <3>2, DoneStep, StepOthers DEF Record, Places
      <4>2. QED
        BY <4>1 DEF WritesPassed
    <3>3. QED
      BY <3>1, <3>2
  <2>5. QED
    BY <1>1, <2>1, <2>3, <2>4, SeatsStay, PassedAlone
<1>7. ASSUME NEW t \in Requesters, ReadChampions(t) \/ ReadForRollback(t) PROVE PassedKept'
  <2>1. /\ Others(t) /\ UNCHANGED <<champions, shelf, promotions>>
        /\ \/ at[t] = "crown" /\ at'[t] = "look"
           \/ at[t] = "restore" /\ at'[t] = "reseat"
        /\ job'[t].read = champions
        /\ job'[t].candidate = job[t].candidate /\ job'[t].strategy = job[t].strategy
        /\ job'[t].past = job[t].past
    BY <1>7, ReadingDoes, StepOthers DEF ReadChampions, ReadForRollback, Places
  <2>2. OnRecord' = OnRecord
    BY <2>1 DEF OnRecord
  <2>3. PassedOf(OnRecord', job'[t].strategy) = PassedOf(OnRecord, job[t].strategy) /\ \A s : MaySit(OnRecord', s) = MaySit(OnRecord, s)
    BY <2>1, <2>2 DEF PassedOf, MaySit
  <2>4. WritesPassed(t)'
    BY <1>1, <2>1, <2>2, <2>3 DEF WritesPassed, SeatsPassed, PassedKept
  <2>5. QED
    BY <1>1, <2>1, <2>2, <2>4, SeatsStay, PassedAlone
<1>8. ASSUME NEW t \in Requesters, ReadHistory(t) PROVE PassedKept'
  <2>1. at[t] = "look" /\ job[t].strategy \in Strategies
    BY <1>8 DEF ReadHistory, JobKept, JobFits
  <2>2. /\ Others(t) /\ at'[t] = "shelve" /\ job'[t].candidate = job[t].candidate
        /\ job'[t].strategy = job[t].strategy /\ job'[t].read = job[t].read
        /\ job'[t].past = shelf[job[t].strategy] /\ UNCHANGED <<champions, shelf, promotions>>
    BY <1>8, <2>1, ReadHistoryDoes, StepOthers DEF ReadHistory, Places
  <2>3. OnRecord' = OnRecord
    BY <2>2 DEF OnRecord
  <2>4. PassedOf(OnRecord', job'[t].strategy) = PassedOf(OnRecord, job[t].strategy) /\ \A s : MaySit(OnRecord', s) = MaySit(OnRecord, s)
    BY <2>2, <2>3 DEF PassedOf, MaySit
  <2>5. WritesPassed(t)'
    BY <1>1, <2>1, <2>2, <2>3, <2>4 DEF WritesPassed, SeatsPassed, PassedKept
  <2>6. QED
    BY <1>1, <2>2, <2>3, <2>5, SeatsStay, PassedAlone
<1>9. ASSUME NEW t \in Requesters, Shelve(t) PROVE PassedKept'
  <2>1. /\ at[t] = "shelve" /\ Others(t) /\ job'[t] = job[t] /\ at'[t] = "enthrone"
        /\ UNCHANGED <<champions, promotions>>
    BY <1>9, StayStep, StepOthers DEF Shelve, Places
  <2>2. OnRecord' = OnRecord
    BY <2>1 DEF OnRecord
  <2>3. \A s : PassedOf(OnRecord', s) = PassedOf(OnRecord, s) /\ MaySit(OnRecord', s) = MaySit(OnRecord, s)
    BY <2>1, <2>2 DEF PassedOf, MaySit
  <2>4. WritesPassed(t)'
    BY <2>1, <2>2, <2>3 DEF WritesPassed, PassedKept
  <2> DEFINE s == job[t].strategy
  <2>5. s \in Strategies /\ job[t].read[s] \in MaySit(OnRecord, s) /\ job[t].past \in Seq(PassedOf(OnRecord, s))
    BY <2>1 DEF JobKept, JobFits, PassedKept, WritesPassed
  <2>6. Newest(Retire(job[t].read[s], job[t].past)) \in Seq(PassedOf(OnRecord, s))
    BY <2>5, RetireType, NewestType DEF MaySit
  <2>7. shelf' = [shelf EXCEPT ![s] = Newest(Retire(job[t].read[s], job[t].past))]
    BY <1>9 DEF Shelve
  <2>8. SeatsPassed'
    BY <1>1, <2>1, <2>3, <2>6, <2>7 DEF SeatsPassed, LearningType
  <2>9. QED
    BY <2>1, <2>2, <2>4, <2>8, PassedAlone
<1>10. ASSUME NEW t \in Requesters, Enthrone(t) PROVE PassedKept'
  <2>1. /\ at[t] = "enthrone" /\ Others(t) /\ at'[t] = "idle" /\ UNCHANGED <<shelf, promotions>>
        /\ champions' = [job[t].read EXCEPT ![job[t].strategy] = job[t].candidate]
    BY <1>10, DoneStep, StepOthers DEF Enthrone, Places
  <2>2. OnRecord' = OnRecord
    BY <2>1 DEF OnRecord
  <2>3. \A s : PassedOf(OnRecord', s) = PassedOf(OnRecord, s) /\ MaySit(OnRecord', s) = MaySit(OnRecord, s)
    BY <2>1, <2>2 DEF PassedOf, MaySit
  <2>4. WritesPassed(t)'
    BY <2>1 DEF WritesPassed
  <2>5. /\ job[t].candidate \in OnRecord /\ StrategyOf[job[t].candidate] = job[t].strategy
        /\ job[t].read \in [Strategies -> Champion]
        /\ \A s \in Strategies : job[t].read[s] \in MaySit(OnRecord, s)
    BY <2>1 DEF JobKept, JobFits, PassedKept, WritesPassed
  <2>6. job[t].candidate \in MaySit(OnRecord, job[t].strategy)
    BY <2>5 DEF MaySit, PassedOf
  <2>7. SeatsPassed'
    BY <1>1, <2>1, <2>3, <2>5, <2>6 DEF SeatsPassed
  <2>8. QED
    BY <2>1, <2>2, <2>4, <2>7, PassedAlone
<1>11. ASSUME NEW t \in Requesters, Reseat(t) PROVE PassedKept'
  <2> DEFINE past == job[t].past
             s == job[t].strategy
  <2>1. /\ at[t] = "reseat" /\ Others(t) /\ job'[t] = job[t] /\ at'[t] = "unshelve"
        /\ champions' = [job[t].read EXCEPT ![s] = past[Len(past)]]
        /\ UNCHANGED <<shelf, promotions>>
    BY <1>11, StayStep, StepOthers DEF Reseat, Places
  <2>2. OnRecord' = OnRecord
    BY <2>1 DEF OnRecord
  <2>3. \A x : PassedOf(OnRecord', x) = PassedOf(OnRecord, x) /\ MaySit(OnRecord', x) = MaySit(OnRecord, x)
    BY <2>1, <2>2 DEF PassedOf, MaySit
  <2>4. WritesPassed(t)'
    BY <2>1, <2>2, <2>3 DEF WritesPassed, PassedKept
  <2>5. /\ past # <<>> /\ past \in Seq(PassedOf(OnRecord, s)) /\ job[t].read \in [Strategies -> Champion]
        /\ \A x \in Strategies : job[t].read[x] \in MaySit(OnRecord, x)
    BY <2>1 DEF JobKept, JobFits, PassedKept, WritesPassed
  <2>6. past[Len(past)] \in MaySit(OnRecord, s)
    BY <2>5, FrontProperties DEF MaySit
  <2>7. SeatsPassed'
    <3> HIDE DEF past, s
    <3>1. QED
      BY <1>1, <2>1, <2>3, <2>5, <2>6 DEF SeatsPassed
  <2>8. QED
    BY <2>1, <2>2, <2>4, <2>7, PassedAlone
<1>12. ASSUME NEW t \in Requesters, Unshelve(t) PROVE PassedKept'
  <2> DEFINE past == job[t].past
             s == job[t].strategy
  <2>1. /\ at[t] = "unshelve" /\ Others(t) /\ at'[t] = "idle" /\ UNCHANGED <<champions, promotions>>
        /\ shelf' = [shelf EXCEPT ![s] = Front(past)]
    BY <1>12, DoneStep, StepOthers DEF Unshelve, Places
  <2>2. OnRecord' = OnRecord
    BY <2>1 DEF OnRecord
  <2>3. \A x : PassedOf(OnRecord', x) = PassedOf(OnRecord, x) /\ MaySit(OnRecord', x) = MaySit(OnRecord, x)
    BY <2>1, <2>2 DEF PassedOf, MaySit
  <2>4. WritesPassed(t)'
    BY <2>1 DEF WritesPassed
  <2>5. s \in Strategies /\ past # <<>> /\ past \in Seq(PassedOf(OnRecord, s))
    BY <2>1 DEF JobKept, JobFits, PassedKept, WritesPassed
  <2>6. Front(past) \in Seq(PassedOf(OnRecord, s))
    BY <2>5, FrontProperties
  <2>7. SeatsPassed'
    <3> HIDE DEF past, s
    <3>1. QED
      BY <1>1, <2>1, <2>3, <2>5, <2>6 DEF SeatsPassed, LearningType
  <2>8. QED
    BY <2>1, <2>2, <2>4, <2>7, PassedAlone
<1>13. CASE Die
  <2>1. UNCHANGED <<champions, shelf, promotions>> /\ \A t \in Requesters : at'[t] = "idle"
    BY <1>13 DEF Die
  <2>2. OnRecord' = OnRecord
    BY <2>1 DEF OnRecord
  <2>3. SeatsPassed'
    BY <1>1, <2>1, <2>2, SeatsStay
  <2>4. QED
    BY <2>1, <2>3 DEF PassedKept, WritesPassed
<1>14. CASE UNCHANGED learningVars \/ \E c \in Candidates, q \in BOOLEAN : Register(c, q)
  BY <1>2, <1>14 DEF learningVars, Register
<1>15. QED
  BY <1>3, <1>4, <1>5, <1>6, <1>7, <1>8, <1>9, <1>10, <1>11, <1>12, <1>13, <1>14
  DEF LearningNext


-----------------------------------------------------------------------------
(* A rollback undoes the latest change                                     *)

Alone(t) == \A u \in Requesters \ {t} : ~InChampions(u)

(* What SerialAt says when only t may be on champions.                     *)
SerialFits(t, s) ==
  /\ ~Changes(t, s) => Settled(s)
  /\ Changes(t, s) => Between(t, s)
  /\ InChampions(t) => ReadIsNow(t)

LEMMA AloneSerial ==
  ASSUME NEW t \in Requesters, NEW s, Alone(t)
  PROVE  SerialAt(s) => SerialFits(t, s)
BY DEF Alone, SerialAt, SerialFits, Changes

LEMMA AloneSerialNext ==
  ASSUME NEW t \in Requesters, NEW s, Alone(t)', SerialFits(t, s)'
  PROVE  SerialAt(s)'
BY DEF Alone, SerialAt, SerialFits, Changes

LEMMA AloneStays ==
  ASSUME NEW t, Alone(t), Others(t) PROVE Alone(t)'
BY DEF Alone, Others, InChampions

(* Entering while another is on champions races every strategy.            *)
LEMMA EnterAlone ==
  ASSUME NEW t, NEW s \in Strategies, s \notin Meets(t) PROVE Alone(t)
BY DEF Meets, Alone

LEMMA OneAtATimeStep ==
  ASSUME LearningType, JobKept, OneAtATime, [LearningNext]_learningVars
  PROVE  OneAtATime'
<1>1. ASSUME \A t \in Requesters : InChampions(t)' => InChampions(t), raced \subseteq raced'
      PROVE  OneAtATime'
  BY <1>1 DEF OneAtATime
<1>2. ASSUME NEW t \in Requesters, Others(t), raced' = raced \cup Meets(t) PROVE OneAtATime'
  <2>1. \A u \in Requesters \ {t} : InChampions(u)' => InChampions(u)
    BY <1>2 DEF Others, InChampions
  <2>2. \A u \in Requesters \ {t} : InChampions(u) => Strategies \subseteq raced'
    BY <1>2 DEF Meets
  <2>3. raced \subseteq raced'
    BY <1>2
  <2>4. SUFFICES ASSUME NEW u \in Requesters, NEW v \in Requesters, InChampions(u)', InChampions(v)', u # v
                 PROVE  Strategies \subseteq raced'
    BY DEF OneAtATime
  <2>5. CASE u # t /\ v # t
    BY <2>1, <2>2, <2>4, <2>5
  <2>6. CASE u = t \/ v = t
    BY <2>1, <2>2, <2>4, <2>6
  <2>7. QED
    BY <2>5, <2>6
<1>3. ASSUME NEW t \in Requesters, NEW place \in Places, Step(t, place), raced' = raced,
             InChampions(t) \/ place \in {"idle", "write", "record"}
      PROVE  OneAtATime'
  <2>1. Others(t) /\ at'[t] = place
    BY <1>3, StepOthers
  <2>2. \A u \in Requesters : InChampions(u)' => InChampions(u)
    BY <1>3, <2>1 DEF InChampions, Others
  <2>3. QED
    BY <1>1, <1>3, <2>2
<1> USE DEF Places
<1>4. ASSUME NEW t \in Requesters, NEW c \in Candidates, NEW to \in Stages, NEW a \in BOOLEAN,
             AskPromotion(t, c, to, a)
      PROVE  OneAtATime'
  BY <1>3, <1>4, AskPromotionDoes DEF AskPromotion
<1>5. ASSUME NEW t \in Requesters, NEW s \in Strategies, AskRollback(t, s) PROVE OneAtATime'
  BY <1>2, <1>5, AskRollbackDoes, StepOthers DEF AskRollback
<1>6. ASSUME NEW t \in Requesters, WriteStage(t) PROVE OneAtATime'
  BY <1>3, <1>6, StayStep DEF WriteStage
<1>7. ASSUME NEW t \in Requesters, Record(t) PROVE OneAtATime'
  <2>1. CASE job[t].to = "PAPER"
    BY <1>2, <1>7, <2>1, StayStep, StepOthers DEF Record
  <2>2. CASE job[t].to # "PAPER"
    BY <1>3, <1>7, <2>2, DoneStep DEF Record
  <2>3. QED
    BY <2>1, <2>2
<1>8. ASSUME NEW t \in Requesters, ReadChampions(t) \/ ReadForRollback(t) PROVE OneAtATime'
  BY <1>3, <1>8, ReadingDoes DEF ReadChampions, ReadForRollback, InChampions
<1>9. ASSUME NEW t \in Requesters, ReadHistory(t) PROVE OneAtATime'
  <2>1. job[t].strategy \in Strategies
    BY <1>9 DEF ReadHistory, JobKept, JobFits, Seating
  <2>2. QED
    BY <1>3, <1>9, <2>1, ReadHistoryDoes DEF ReadHistory, InChampions
<1>10. ASSUME NEW t \in Requesters, Shelve(t) \/ Reseat(t) PROVE OneAtATime'
  BY <1>3, <1>10, StayStep DEF Shelve, Reseat, InChampions
<1>11. ASSUME NEW t \in Requesters, Enthrone(t) \/ Unshelve(t) PROVE OneAtATime'
  BY <1>3, <1>11, DoneStep DEF Enthrone, Unshelve, InChampions
<1>12. CASE Die
  BY <1>1, <1>12 DEF Die, InChampions
<1>13. CASE UNCHANGED learningVars \/ \E c \in Candidates, q \in BOOLEAN : Register(c, q)
  BY <1>1, <1>13 DEF learningVars, Register, InChampions
<1>14. QED
  BY <1>4, <1>5, <1>6, <1>7, <1>8, <1>9, <1>10, <1>11, <1>12, <1>13 DEF LearningNext


(* Each step of a request that is alone on champions.                      *)
LEMMA RecordSerial ==
  ASSUME LearningType, JobKept, NEW t \in Requesters, NEW s \in Strategies, SerialFits(t, s),
         Record(t), job[t].to = "PAPER"
  PROVE  Others(t) /\ SerialFits(t, s)'
<1>1. /\ at[t] = "record" /\ Others(t) /\ at'[t] = "crown" /\ job'[t] = job[t]
      /\ UNCHANGED <<champions, shelf>>
      /\ serial' = [serial EXCEPT ![job[t].strategy] = Append(Newest(serial[job[t].strategy]), job[t].candidate)]
  BY StayStep, StepOthers DEF Record, Places
<1>2. Settled(s) /\ ~Changes(t, s)
  BY <1>1 DEF SerialFits, Changes, InChampions
<1>3. CASE job[t].strategy = s
  <2>1. serial'[s] = Append(Newest(serial[s]), job[t].candidate)
    BY <1>1, <1>3 DEF LearningType
  <2>2. QED
    BY <1>1, <1>2, <1>3, <2>1 DEF SerialFits, Changes, InChampions, Between, Settled, ReadIsNow, Undoing
<1>4. CASE job[t].strategy # s
  <2>1. serial'[s] = serial[s]
    BY <1>1, <1>4 DEF LearningType
  <2>2. QED
    BY <1>1, <1>2, <1>4, <2>1 DEF SerialFits, Changes, Settled, ReadIsNow
<1>5. QED
  BY <1>3, <1>4

LEMMA AskRollbackSerial ==
  ASSUME LearningType, JobKept, NEW t \in Requesters, NEW s \in Strategies, SerialFits(t, s),
         NEW r \in Strategies, AskRollback(t, r)
  PROVE  Others(t) /\ SerialFits(t, s)'
<1>1. /\ at[t] = "idle" /\ Others(t) /\ at'[t] = "restore" /\ job'[t].strategy = r
      /\ job'[t].past = shelf[r] /\ shelf[r] # <<>> /\ UNCHANGED <<champions, shelf>>
      /\ serial' = [serial EXCEPT ![r] = IF serial[r] = <<>> THEN serial[r] ELSE Front(serial[r])]
  BY AskRollbackDoes, StepOthers DEF AskRollback, Places
<1>2. Settled(s) /\ ~Changes(t, s)
  BY <1>1 DEF SerialFits, Changes, InChampions
<1>3. CASE r = s
  <2>1. champions[s] \in Candidates /\ shelf[s] \in Seq(Candidates) /\ champions[s] # Nobody
    BY <1>1, <1>2, <1>3 DEF Settled, LearningType, Champion
  <2>2. serial[s] = Append(shelf[s], champions[s])
    BY <1>2, <2>1 DEF Settled, Retire
  <2>3. serial'[s] = shelf[s]
    <3>1. serial[s] # <<>> /\ Front(serial[s]) = shelf[s]
      BY <2>1, <2>2, FrontOfAppend
    <3>2. QED
      BY <1>1, <1>3, <3>1 DEF LearningType
  <2>4. QED
    BY <1>1, <1>3, <2>3 DEF SerialFits, Changes, InChampions, Between, ReadIsNow
<1>4. CASE r # s
  <2>1. serial'[s] = serial[s]
    BY <1>1, <1>4 DEF LearningType
  <2>2. QED
    BY <1>1, <1>2, <1>4, <2>1 DEF SerialFits, Changes, Settled, ReadIsNow
<1>5. QED
  BY <1>3, <1>4

LEMMA ReadingSerial ==
  ASSUME LearningType, JobKept, NEW t \in Requesters, NEW s \in Strategies, SerialFits(t, s),
         ReadChampions(t) \/ ReadForRollback(t)
  PROVE  Others(t) /\ SerialFits(t, s)'
<1>1. /\ Others(t) /\ UNCHANGED <<champions, shelf, serial>>
      /\ \/ at[t] = "crown" /\ at'[t] = "look"
         \/ at[t] = "restore" /\ at'[t] = "reseat"
      /\ job'[t].read = champions /\ job'[t].past = job[t].past
      /\ job'[t].candidate = job[t].candidate /\ job'[t].strategy = job[t].strategy
  BY ReadingDoes, StepOthers DEF ReadChampions, ReadForRollback, Places
<1>2. QED
  BY <1>1 DEF SerialFits, Changes, InChampions, Between, Settled, ReadIsNow, Undoing

LEMMA ReadHistorySerial ==
  ASSUME LearningType, JobKept, NEW t \in Requesters, NEW s \in Strategies, SerialFits(t, s),
         ReadHistory(t)
  PROVE  Others(t) /\ SerialFits(t, s)'
<1>1. at[t] = "look" /\ job[t].strategy \in Strategies
  BY DEF ReadHistory, JobKept, JobFits, Seating
<1>2. /\ Others(t) /\ at'[t] = "shelve" /\ job'[t].candidate = job[t].candidate
      /\ job'[t].strategy = job[t].strategy /\ job'[t].read = job[t].read
      /\ job'[t].past = shelf[job[t].strategy] /\ UNCHANGED <<champions, shelf, serial>>
  BY <1>1, ReadHistoryDoes, StepOthers DEF ReadHistory, Places
<1>3. QED
  BY <1>1, <1>2 DEF SerialFits, Changes, InChampions, Between, Settled, ReadIsNow, Undoing

LEMMA ShelveSerial ==
  ASSUME LearningType, JobKept, NEW t \in Requesters, NEW s \in Strategies, SerialFits(t, s),
         Shelve(t)
  PROVE  Others(t) /\ SerialFits(t, s)'
<1> DEFINE r == job[t].strategy
           h == Newest(Retire(champions[r], job[t].past))
<1>1. /\ at[t] = "shelve" /\ Others(t) /\ job'[t] = job[t] /\ at'[t] = "enthrone"
      /\ UNCHANGED <<champions, serial>>
  BY StayStep, StepOthers DEF Shelve, Places
<1>2. job[t].read = champions
  BY <1>1 DEF SerialFits, InChampions, ReadIsNow
<1>3. shelf' = [shelf EXCEPT ![r] = h]
  BY <1>2 DEF Shelve
<1>4. CASE r = s
  <2>1. job[t].past = shelf[s] /\ serial[s] = Append(h, job[t].candidate)
    BY <1>1, <1>4 DEF SerialFits, Changes, InChampions, Between
  <2>2. shelf'[s] = h
    BY <1>3, <1>4 DEF LearningType
  <2>3. QED
    BY <1>1, <1>2, <1>4, <2>1, <2>2 DEF SerialFits, Changes, InChampions, Between, ReadIsNow, Undoing
<1>5. CASE r # s
  <2>1. shelf'[s] = shelf[s]
    BY <1>3, <1>5 DEF LearningType
  <2>2. QED
    BY <1>1, <1>2, <1>5, <2>1 DEF SerialFits, Changes, Settled, ReadIsNow
<1>6. QED
  BY <1>4, <1>5

LEMMA EnthroneSerial ==
  ASSUME LearningType, JobKept, NEW t \in Requesters, NEW s \in Strategies, SerialFits(t, s),
         Enthrone(t)
  PROVE  Others(t) /\ SerialFits(t, s)'
<1>1. /\ at[t] = "enthrone" /\ Others(t) /\ at'[t] = "idle" /\ UNCHANGED <<shelf, serial>>
      /\ champions' = [job[t].read EXCEPT ![job[t].strategy] = job[t].candidate]
  BY DoneStep, StepOthers DEF Enthrone, Places
<1>2. job[t].read = champions
  BY <1>1 DEF SerialFits, InChampions, ReadIsNow
<1>3. Settled(s)'
  <2>1. CASE job[t].strategy = s
    <3>1. champions'[s] = job[t].candidate
      BY <1>1, <1>2, <2>1 DEF LearningType
    <3>2. job[t].candidate # Nobody
      BY <1>1, LearningAssumption DEF JobKept, JobFits, Seating
    <3>3. serial[s] = Append(shelf[s], job[t].candidate)
      BY <1>1, <2>1 DEF SerialFits, Changes, InChampions, Between
    <3>4. QED
      BY <1>1, <3>1, <3>2, <3>3 DEF Settled, Retire
  <2>2. CASE job[t].strategy # s
    <3>1. champions'[s] = champions[s]
      BY <1>1, <1>2, <2>2 DEF LearningType
    <3>2. QED
      BY <1>1, <2>2, <3>1 DEF SerialFits, Changes, Settled
  <2>3. QED
    BY <2>1, <2>2
<1>4. QED
  BY <1>1, <1>3 DEF SerialFits, Changes, InChampions

LEMMA ReseatSerial ==
  ASSUME LearningType, JobKept, NEW t \in Requesters, NEW s \in Strategies, SerialFits(t, s),
         Reseat(t)
  PROVE  Others(t) /\ SerialFits(t, s)'
<1> DEFINE last == job[t].past[Len(job[t].past)]
<1>1. /\ at[t] = "reseat" /\ Others(t) /\ job'[t] = job[t] /\ at'[t] = "unshelve"
      /\ UNCHANGED <<shelf, serial>>
      /\ champions' = [job[t].read EXCEPT ![job[t].strategy] = last]
  BY StayStep, StepOthers DEF Reseat, Places
<1>2. job[t].read = champions
  BY <1>1 DEF SerialFits, InChampions, ReadIsNow
<1>3. CASE job[t].strategy = s
  <2>1. champions'[s] = last
    BY <1>1, <1>2, <1>3 DEF LearningType
  <2>2. QED
    BY <1>1, <1>3, <2>1 DEF SerialFits, Changes, InChampions, Between, ReadIsNow, Undoing
<1>4. CASE job[t].strategy # s
  <2>1. champions'[s] = champions[s]
    BY <1>1, <1>2, <1>4 DEF LearningType
  <2>2. QED
    BY <1>1, <1>4, <2>1 DEF SerialFits, Changes, Settled, ReadIsNow
<1>5. QED
  BY <1>3, <1>4

LEMMA UnshelveSerial ==
  ASSUME LearningType, JobKept, NEW t \in Requesters, NEW s \in Strategies, SerialFits(t, s),
         Unshelve(t)
  PROVE  Others(t) /\ SerialFits(t, s)'
<1> DEFINE past == job[t].past
<1>1. /\ at[t] = "unshelve" /\ Others(t) /\ at'[t] = "idle" /\ UNCHANGED <<champions, serial>>
      /\ shelf' = [shelf EXCEPT ![job[t].strategy] = Front(past)]
  BY DoneStep, StepOthers DEF Unshelve, Places
<1>2. Settled(s)'
  <2>1. CASE job[t].strategy = s
    <3>1. past # <<>> /\ past \in Seq(Candidates)
      BY <1>1 DEF JobKept, JobFits, Undoing, LearningType, Job
    <3>2. serial[s] = past /\ champions[s] = past[Len(past)]
      BY <1>1, <2>1 DEF SerialFits, Changes, InChampions, Between, Undoing
    <3>3. shelf'[s] = Front(past)
      BY <1>1, <2>1 DEF LearningType
    <3> HIDE DEF past
    <3>4. champions[s] # Nobody /\ Append(Front(past), champions[s]) = past
      BY <3>1, <3>2, FrontProperties, LearningAssumption
    <3>5. QED
      BY <1>1, <3>2, <3>3, <3>4 DEF Settled, Retire
  <2>2. CASE job[t].strategy # s
    <3>1. shelf'[s] = shelf[s]
      BY <1>1, <2>2 DEF LearningType
    <3>2. QED
      BY <1>1, <2>2, <3>1 DEF SerialFits, Changes, Settled
  <2>3. QED
    BY <2>1, <2>2
<1>3. QED
  BY <1>1, <1>2 DEF SerialFits, Changes, InChampions

(* Steps that leave champions, history and serial alone: nobody enters, and *)
(* who leaves was cut short and has raced its strategy.                     *)
LEMMA SerialStays ==
  ASSUME SerialKept, raced \subseteq raced', UNCHANGED <<champions, shelf, serial>>,
         \A t \in Requesters : InChampions(t)' => InChampions(t) /\ at'[t] = at[t] /\ job'[t] = job[t],
         \A t \in Requesters : InChampions(t) => InChampions(t)' \/ job[t].strategy \in raced'
  PROVE  SerialKept'
<1> SUFFICES ASSUME NEW s \in Strategies \ raced' PROVE SerialAt(s)'
  BY DEF SerialKept
<1>1. SerialAt(s)
  BY DEF SerialKept
<1>2. \A t \in Requesters : Changes(t, s) => Changes(t, s)'
  BY DEF Changes
<1>3. (\A t \in Requesters : ~Changes(t, s)') => Settled(s)'
  BY <1>1, <1>2 DEF SerialAt, Settled
<1>4. ASSUME NEW t \in Requesters
      PROVE  (Changes(t, s)' => Between(t, s)') /\ (InChampions(t)' => ReadIsNow(t)')
  BY <1>1 DEF SerialAt, Changes, Between, ReadIsNow
<1>5. QED
  BY <1>3, <1>4 DEF SerialAt

LEMMA SerialStep ==
  ASSUME LearningType, JobKept, OneAtATime, SerialKept, [LearningNext]_learningVars
  PROVE  SerialKept'
<1>1. ASSUME NEW t \in Requesters, Others(t), raced \subseteq raced',
             \A s \in Strategies \ raced' : Alone(t) /\ (SerialFits(t, s) => SerialFits(t, s)')
      PROVE  SerialKept'
  <2> SUFFICES ASSUME NEW s \in Strategies \ raced' PROVE SerialAt(s)'
    BY DEF SerialKept
  <2>1. Alone(t) /\ Alone(t)' /\ SerialAt(s)
    BY <1>1, AloneStays DEF SerialKept
  <2>2. SerialFits(t, s)'
    BY <1>1, <2>1, AloneSerial
  <2>3. QED
    BY <2>1, <2>2, AloneSerialNext
<1>2. ASSUME NEW t \in Requesters, raced' = raced, InChampions(t)
      PROVE  raced \subseteq raced' /\ \A s \in Strategies \ raced' : Alone(t)
  BY <1>2 DEF OneAtATime, Alone
<1>3. ASSUME NEW t \in Requesters, raced' = raced \cup Meets(t)
      PROVE  raced \subseteq raced' /\ \A s \in Strategies \ raced' : Alone(t)
  BY <1>3, EnterAlone
<1>4. ASSUME NEW t \in Requesters, NEW c \in Candidates, NEW to \in Stages, NEW a \in BOOLEAN,
             AskPromotion(t, c, to, a)
      PROVE  SerialKept'
  <2>1. Others(t) /\ at[t] = "idle" /\ at'[t] = "write" /\ UNCHANGED <<champions, shelf, serial, raced>>
    BY <1>4, AskPromotionDoes, StepOthers DEF AskPromotion, Places
  <2>2. QED
    BY <2>1, SerialStays DEF Others, InChampions
<1>5. ASSUME NEW t \in Requesters, NEW r \in Strategies, AskRollback(t, r) PROVE SerialKept'
  <2>1. Others(t) /\ \A s \in Strategies : SerialFits(t, s) => SerialFits(t, s)'
    BY <1>5, AskRollbackSerial, AskRollbackDoes, StepOthers DEF Places
  <2>2. raced' = raced \cup Meets(t)
    BY <1>5 DEF AskRollback
  <2>3. QED
    BY <1>1, <1>3, <2>1, <2>2
<1>6. ASSUME NEW t \in Requesters, WriteStage(t) PROVE SerialKept'
  <2>1. Others(t) /\ at[t] = "write" /\ at'[t] = "record" /\ UNCHANGED <<champions, shelf, serial, raced>>
    BY <1>6, StayStep, StepOthers DEF WriteStage, Places
  <2>2. QED
    BY <2>1, SerialStays DEF Others, InChampions
<1>7. ASSUME NEW t \in Requesters, Record(t) PROVE SerialKept'
  <2>1. CASE job[t].to = "PAPER"
    <3>1. Others(t) /\ \A s \in Strategies : SerialFits(t, s) => SerialFits(t, s)'
      BY <1>7, <2>1, RecordSerial, StayStep, StepOthers DEF Record, Places
    <3>2. raced' = raced \cup Meets(t)
      BY <1>7, <2>1 DEF Record
    <3>3. QED
      BY <1>1, <1>3, <3>1, <3>2
  <2>2. CASE job[t].to # "PAPER"
    <3>1. /\ Others(t) /\ at[t] = "record" /\ at'[t] = "idle"
          /\ UNCHANGED <<champions, shelf, serial, raced>>
      BY <1>7, <2>2, DoneStep, StepOthers DEF Record, Places
    <3>2. QED
      BY <3>1, SerialStays DEF Others, InChampions
  <2>3. QED
    BY <2>1, <2>2
<1>8. ASSUME NEW t \in Requesters,
             ReadChampions(t) \/ ReadForRollback(t) \/ ReadHistory(t) \/ Shelve(t) \/ Enthrone(t)
             \/ Reseat(t) \/ Unshelve(t)
      PROVE  SerialKept'
  <2>1. raced' = raced /\ InChampions(t)
    BY <1>8 DEF ReadChampions, ReadForRollback, ReadHistory, Shelve, Enthrone, Reseat, Unshelve, InChampions
  <2>2. CASE Strategies \ raced' = {}
    BY <2>2 DEF SerialKept
  <2>3. ASSUME NEW x \in Strategies \ raced' PROVE SerialKept'
    <3>1. SerialFits(t, x)
      BY <1>2, <2>1, AloneSerial DEF SerialKept
    <3>2. Others(t) /\ \A s \in Strategies : SerialFits(t, s) => SerialFits(t, s)'
      BY <1>8, <3>1, ReadingSerial, ReadHistorySerial, ShelveSerial, EnthroneSerial, ReseatSerial, UnshelveSerial
    <3>3. QED
      BY <1>1, <1>2, <2>1, <3>2
  <2>4. QED
    BY <2>2, <2>3
<1>9. CASE Die
  BY <1>9, SerialStays DEF Die, InChampions
<1>10. CASE UNCHANGED learningVars \/ \E c \in Candidates, q \in BOOLEAN : Register(c, q)
  BY <1>10, SerialStays DEF learningVars, Register, InChampions
<1>11. QED
  BY <1>4, <1>5, <1>6, <1>7, <1>8, <1>9, <1>10 DEF LearningNext


-----------------------------------------------------------------------------
(* Stages and the record of promotions                                     *)

(* Steps that write neither stage nor record: no promotion begins, and one *)
(* that ends before its record is disputed.                                *)
LEMMA StageStays ==
  ASSUME StageKept, UNCHANGED <<stage, promotions>>, disputed \subseteq disputed',
         \A t \in Requesters : at'[t] \in {"write", "record"} => at'[t] = at[t] /\ job'[t] = job[t],
         \A t \in Requesters : at[t] = "record" =>
           (at'[t] = at[t] /\ job'[t] = job[t]) \/ job[t].candidate \in disputed'
  PROVE  StageKept'
<1>1. Registered'
  BY DEF StageKept, Registered
<1>2. ASSUME NEW c \in Candidates \ disputed' PROVE StageAt(c)'
  <2>1. StageAt(c)
    BY DEF StageKept
  <2>2. Later(0, c)' = Later(0, c) /\ \A k : Later(k, c)' = Later(k, c) /\ Latest(k, c)' = Latest(k, c)
    BY DEF Later, Latest
  <2>3. Chain(c)'
    BY <2>1, <2>2 DEF StageAt, Chain
  <2>4. Ends(c)'
    BY <2>1, <2>2 DEF StageAt, Ends
  <2>5. \A t \in Requesters : Promotes(t, c)' => Promotes(t, c) /\ at'[t] = at[t] /\ job'[t] = job[t]
    BY DEF Promotes
  <2>6. \A t \in Requesters : Promotes(t, c)' => Promoting(t, c)'
    BY <2>1, <2>2, <2>5 DEF StageAt, Promoting
  <2>7. QED
    BY <2>1, <2>3, <2>4, <2>5, <2>6 DEF StageAt
<1>3. QED
  BY <1>1, <1>2 DEF StageKept

(* A step of t that is none of a promotion.                                *)
LEMMA StageApart ==
  ASSUME StageKept, UNCHANGED <<stage, promotions, disputed>>, NEW t \in Requesters, Others(t),
         at[t] \notin {"write", "record"}, at'[t] \notin {"write", "record"}
  PROVE  StageKept'
<1>1. \A u \in Requesters : at'[u] \in {"write", "record"} => at'[u] = at[u] /\ job'[u] = job[u]
  BY DEF Others
<1>2. \A u \in Requesters : at[u] = "record" => at'[u] = at[u] /\ job'[u] = job[u]
  BY DEF Others
<1>3. QED
  BY <1>1, <1>2, StageStays

LEMMA RegisterStep ==
  ASSUME LearningType, JobKept, StageKept, NEW c \in Candidates, NEW q \in BOOLEAN, Register(c, q)
  PROVE  StageKept'
<1>1. /\ stage[c] = "NONE" /\ UNCHANGED <<promotions, at, job, disputed>>
      /\ \A x \in Candidates : x # c => stage'[x] = stage[x]
      /\ stage'[c] # "NONE"
  BY DEF Register, LearningType
<1>2. Registered' /\ \A k \in DOMAIN promotions : promotions[k].candidate # c
  <2>1. \A x \in Candidates : stage[x] # "NONE" => stage'[x] # "NONE"
    BY <1>1
  <2>2. \A k \in DOMAIN promotions : promotions[k].candidate \in Candidates
    <3>1. \A k \in DOMAIN promotions : promotions[k] \in Promotion
      BY DEF LearningType
    <3>2. QED
      BY <3>1 DEF Promotion
  <2>3. \A u \in Requesters : at[u] \in {"write", "record"} => job[u].candidate \in Candidates
    BY DEF JobKept, JobFits
  <2>4. \A k \in DOMAIN promotions' : stage'[promotions'[k].candidate] # "NONE"
    BY <1>1, <2>1, <2>2 DEF StageKept, Registered
  <2>5. Registered'
    BY <1>1, <2>1, <2>3, <2>4 DEF StageKept, Registered
  <2>6. \A k \in DOMAIN promotions : promotions[k].candidate # c
    BY <1>1 DEF StageKept, Registered
  <2>7. QED
    BY <2>5, <2>6
<1>3. \A t \in Requesters : ~Promotes(t, c)
  BY <1>1 DEF StageKept, Registered, Promotes
<1>4. ASSUME NEW x \in Candidates \ disputed PROVE StageAt(x)'
  <2>1. StageAt(x)
    BY DEF StageKept
  <2>2. \A k : Later(k, x)' = Later(k, x) /\ Latest(k, x)' = Latest(k, x)
    BY <1>1 DEF Later, Latest
  <2>3. Chain(x)'
    BY <1>1, <2>1, <2>2 DEF StageAt, Chain
  <2>4. \A t \in Requesters : Promotes(t, x)' <=> Promotes(t, x)
    BY <1>1 DEF Promotes
  <2>5. CASE x = c
    <3>1. \A k : ~Latest(k, x)
      BY <1>2, <2>5 DEF Latest
    <3>2. Ends(x)'
      BY <2>2, <3>1 DEF Ends
    <3>3. QED
      BY <1>3, <2>3, <2>4, <2>5, <3>2 DEF StageAt
  <2>6. CASE x # c
    <3>1. Ends(x)'
      BY <1>1, <2>1, <2>2, <2>6 DEF StageAt, Ends
    <3>2. \A t \in Requesters : Promotes(t, x)' => Promoting(t, x)'
      BY <1>1, <2>1, <2>2, <2>4, <2>6 DEF StageAt, Promoting
    <3>3. QED
      BY <2>1, <2>3, <2>4, <3>1, <3>2 DEF StageAt
  <2>7. QED
    BY <2>5, <2>6
<1>5. QED
  BY <1>1, <1>2, <1>4 DEF StageKept

LEMMA AskPromotionStep ==
  ASSUME LearningType, JobKept, StageKept, NEW t \in Requesters, NEW c \in Candidates,
         NEW to \in Stages, NEW a \in BOOLEAN, AskPromotion(t, c, to, a)
  PROVE  StageKept'
<1>1. /\ at[t] = "idle" /\ at'[t] = "write" /\ Others(t) /\ stage[c] # "NONE"
      /\ job'[t].candidate = c /\ job'[t].from = stage[c]
      /\ UNCHANGED <<stage, promotions>>
  <2>1. UNCHANGED <<stage, promotions>>
    BY DEF AskPromotion
  <2>2. /\ at[t] = "idle" /\ Step(t, "write") /\ stage[c] # "NONE"
        /\ job'[t].candidate = c /\ job'[t].from = stage[c]
    BY AskPromotionDoes
  <2>3. QED
    BY <2>1, <2>2, StepOthers DEF Places
<1>2. disputed \subseteq disputed' /\ (c \notin disputed' => \A u \in Requesters : ~Promotes(u, c))
  BY DEF AskPromotion, Promotes
<1>3. Registered'
  BY <1>1 DEF StageKept, Registered, Others
<1>4. ASSUME NEW x \in Candidates \ disputed' PROVE StageAt(x)'
  <2>1. StageAt(x)
    BY <1>2 DEF StageKept
  <2>2. \A k : Later(k, x)' = Later(k, x) /\ Latest(k, x)' = Latest(k, x)
    BY <1>1 DEF Later, Latest
  <2>3. Chain(x)'
    BY <1>1, <2>1, <2>2 DEF StageAt, Chain
  <2>4. \A u \in Requesters : at'[u] = "record" <=> at[u] = "record"
    BY <1>1 DEF Others
  <2>5. Ends(x)'
    <3>1. \A u \in Requesters : at[u] = "record" => job'[u] = job[u]
      BY <1>1 DEF Others
    <3>2. QED
      BY <1>1, <2>1, <2>2, <2>4, <3>1 DEF StageAt, Ends
  <2>6. \A u \in Requesters \ {t} : Promotes(u, x)' => Promotes(u, x) /\ at'[u] = at[u] /\ job'[u] = job[u]
    BY <1>1 DEF Others, Promotes
  <2>7. ASSUME NEW u \in Requesters \ {t}, Promotes(u, x)' PROVE Promoting(u, x)'
    BY <1>1, <2>1, <2>2, <2>6, <2>7 DEF StageAt, Promoting
  <2>8. CASE x = c
    <3>1. \A u \in Requesters : ~Promotes(u, c)
      BY <1>2, <2>8
    <3>2. \A k : Latest(k, c) => promotions[k].to = stage[c]
      BY <2>1, <2>8, <3>1 DEF StageAt, Ends, Promotes
    <3>3. Promoting(t, c)'
      BY <1>1, <2>2, <2>8, <3>2 DEF Promoting
    <3>4. QED
      BY <2>3, <2>5, <2>6, <2>7, <2>8, <3>1, <3>3 DEF StageAt
  <2>9. CASE x # c
    <3>1. ~Promotes(t, x)'
      BY <1>1, <2>9 DEF Promotes
    <3>2. QED
      BY <2>1, <2>3, <2>5, <2>6, <2>7, <3>1 DEF StageAt
  <2>10. QED
    BY <2>8, <2>9
<1>5. QED
  BY <1>3, <1>4 DEF StageKept

LEMMA WriteStageStep ==
  ASSUME LearningType, JobKept, StageKept, NEW t \in Requesters, WriteStage(t)
  PROVE  StageKept'
<1> DEFINE c == job[t].candidate
<1>1. /\ at[t] = "write" /\ at'[t] = "record" /\ Others(t) /\ job'[t] = job[t]
      /\ UNCHANGED <<promotions, disputed>>
  BY StayStep, StepOthers DEF WriteStage, Places
<1>2. /\ c \in Candidates /\ job[t].to # "NONE" /\ stage'[c] = job[t].to
      /\ \A x \in Candidates : x # c => stage'[x] = stage[x]
  BY <1>1 DEF WriteStage, JobKept, JobFits, LearningType
<1>3. Registered'
  <2>1. \A k \in DOMAIN promotions : promotions[k].candidate \in Candidates
    <3>1. \A k \in DOMAIN promotions : promotions[k] \in Promotion
      BY DEF LearningType
    <3>2. QED
      BY <3>1 DEF Promotion
  <2>2. \A u \in Requesters : at[u] \in {"write", "record"} => job[u].candidate \in Candidates
    BY DEF JobKept, JobFits
  <2>3. \A x \in Candidates : stage[x] # "NONE" => stage'[x] # "NONE"
    BY <1>2
  <2>4. \A k \in DOMAIN promotions' : stage'[promotions'[k].candidate] # "NONE"
    BY <1>1, <2>1, <2>3 DEF StageKept, Registered
  <2>5. \A u \in Requesters : at'[u] \in {"write", "record"} =>
          at[u] \in {"write", "record"} /\ job'[u] = job[u]
    BY <1>1 DEF Others
  <2>6. QED
    BY <2>2, <2>3, <2>4, <2>5 DEF StageKept, Registered
<1>4. ASSUME NEW x \in Candidates \ disputed PROVE StageAt(x)'
  <2>1. StageAt(x)
    BY DEF StageKept
  <2>2. \A k : Later(k, x)' = Later(k, x) /\ Latest(k, x)' = Latest(k, x)
    BY <1>1 DEF Later, Latest
  <2>3. Chain(x)'
    BY <1>1, <2>1, <2>2 DEF StageAt, Chain
  <2>4. \A u \in Requesters : (Promotes(u, x)' <=> Promotes(u, x)) /\ job'[u] = job[u]
    BY <1>1 DEF Promotes, Others
  <2>5. CASE x = c
    <3>1. Promotes(t, x) /\ \A u \in Requesters : Promotes(u, x) => u = t
      BY <1>1, <2>1, <2>5 DEF StageAt, Promotes
    <3>2. Ends(x)'
      BY <1>1, <2>5 DEF Ends
    <3>3. Promoting(t, x)'
      BY <1>1, <1>2, <2>1, <2>2, <2>5, <3>1 DEF StageAt, Promoting
    <3>4. QED
      BY <2>1, <2>3, <2>4, <3>1, <3>2, <3>3 DEF StageAt
  <2>6. CASE x # c
    <3>1. ~Promotes(t, x) /\ stage'[x] = stage[x]
      BY <1>2, <2>6 DEF Promotes
    <3>2. \A u \in Requesters \ {t} : at'[u] = at[u]
      BY <1>1 DEF Others
    <3>3. Ends(x)'
      BY <1>1, <2>1, <2>2, <2>4, <2>6, <3>1, <3>2 DEF StageAt, Ends
    <3>4. \A u \in Requesters : Promotes(u, x) => Promoting(u, x)'
      BY <1>1, <2>1, <2>2, <2>4, <3>1, <3>2 DEF StageAt, Promoting
    <3>5. QED
      BY <2>1, <2>3, <2>4, <3>3, <3>4 DEF StageAt
  <2>7. QED
    BY <2>5, <2>6
<1>5. QED
  BY <1>1, <1>3, <1>4 DEF StageKept


LEMMA RecordStageStep ==
  ASSUME LearningType, JobKept, StageKept, NEW t \in Requesters, Record(t)
  PROVE  StageKept'
<1> DEFINE c == job[t].candidate
           p == [candidate |-> c, from |-> job[t].from, to |-> job[t].to]
           n == Len(promotions) + 1
<1>1. /\ at[t] = "record" /\ at'[t] \in {"idle", "crown"} /\ Others(t)
  <2>1. CASE job[t].to = "PAPER"
    BY <2>1, StayStep, StepOthers DEF Record, Places
  <2>2. CASE job[t].to # "PAPER"
    BY <2>2, DoneStep, StepOthers DEF Record, Places
  <2>3. QED
    BY <2>1, <2>2 DEF Record
<1>2. c \in Candidates /\ promotions' = Append(promotions, p) /\ UNCHANGED <<stage, disputed>>
  BY <1>1 DEF Record, JobKept, JobFits
<1>3. p.candidate = c /\ p.from = job[t].from /\ p.to = job[t].to
  OBVIOUS
<1>4. p \in Promotion
  BY <1>2 DEF LearningType, Job, Promotion
<1> HIDE DEF p
<1>5. /\ DOMAIN promotions = 1..Len(promotions) /\ DOMAIN promotions' = DOMAIN promotions \cup {n}
      /\ n \in Nat /\ n \notin DOMAIN promotions /\ promotions'[n] = p
      /\ \A k \in DOMAIN promotions : promotions'[k] = promotions[k] /\ k \in Nat /\ k < n
  <2>1. /\ promotions' \in Seq(Promotion) /\ Len(promotions') = n /\ Len(promotions) \in Nat
        /\ DOMAIN promotions = 1..Len(promotions) /\ DOMAIN promotions' = 1..n
        /\ promotions'[n] = p /\ \A k \in 1..Len(promotions) : promotions'[k] = promotions[k]
    BY <1>2, <1>4, AppendProperties, LenProperties DEF LearningType
  <2>2. QED
    BY <2>1
<1> HIDE DEF n
<1>6. \A u \in Requesters : at'[u] \in {"write", "record"} => u # t /\ at'[u] = at[u] /\ job'[u] = job[u]
  BY <1>1 DEF Others
<1>7. Registered'
  <2>1. stage[c] # "NONE"
    BY <1>1 DEF StageKept, Registered
  <2>2. QED
    BY <1>2, <1>3, <1>5, <1>6, <2>1 DEF StageKept, Registered
<1>8. ASSUME NEW x \in Candidates \ disputed PROVE StageAt(x)'
  <2>1. StageAt(x)
    BY DEF StageKept
  <2>2. \A u \in Requesters : Promotes(u, x)' => u # t /\ Promotes(u, x) /\ at'[u] = at[u] /\ job'[u] = job[u]
    BY <1>6 DEF Promotes
  <2>3. CASE x = c
    <3>1. Promotes(t, x) /\ \A u \in Requesters : ~Promotes(u, x)'
      BY <1>1, <2>1, <2>2, <2>3 DEF StageAt, Promotes
    <3>2. p.to = stage[x] /\ \A k : Latest(k, x) => promotions[k].to = p.from
      BY <1>1, <1>3, <2>1, <3>1 DEF StageAt, Promoting
    <3>3. \A k \in DOMAIN promotions : Later(k, x)' = Later(k, x) \cup {n}
      BY <1>3, <1>5, <2>3 DEF Later
    <3>4. \A k : k = n => Later(k, x)' = {}
      <4>1. \A j \in DOMAIN promotions' : ~(j > n)
        BY <1>5
      <4>2. QED
        BY <4>1 DEF Later
    <3>5. Chain(x)'
      <4> SUFFICES ASSUME NEW k \in DOMAIN promotions', promotions'[k].candidate = x,
                          NEW j \in Later(k, x)', \A i \in Later(k, x)' : j <= i
                   PROVE  promotions'[j].from = promotions'[k].to
        BY DEF Chain
      <4>1. k \in DOMAIN promotions /\ promotions[k].candidate = x
        BY <1>5, <3>4
      <4>2. CASE j = n
        <5>1. Later(k, x) = {}
          BY <1>5, <3>3, <4>1, <4>2 DEF Later
        <5>2. QED
          BY <1>5, <3>2, <4>1, <4>2, <5>1 DEF Latest
      <4>3. CASE j # n
        <5>1. j \in Later(k, x) /\ j \in DOMAIN promotions /\ \A i \in Later(k, x) : j <= i
          BY <3>3, <4>1, <4>3 DEF Later
        <5>2. QED
          BY <1>5, <2>1, <4>1, <5>1 DEF StageAt, Chain
      <4>4. QED
        BY <4>2, <4>3
    <3>6. Ends(x)'
      <4>1. \A k : Latest(k, x)' => k = n
        BY <1>5, <3>3 DEF Latest
      <4>2. QED
        BY <1>2, <1>5, <3>2, <4>1 DEF Ends
    <3>7. QED
      BY <3>1, <3>5, <3>6 DEF StageAt
  <2>4. CASE x # c
    <3>1. \A k : Later(k, x)' = Later(k, x)
      BY <1>3, <1>5, <2>4 DEF Later
    <3>2. \A k : Latest(k, x)' <=> Latest(k, x)
      BY <1>3, <1>5, <2>4, <3>1 DEF Latest
    <3>3. Chain(x)'
      <4>1. \A k \in DOMAIN promotions' : promotions'[k].candidate = x =>
              k \in DOMAIN promotions /\ promotions'[k] = promotions[k]
        BY <1>3, <1>5, <2>4
      <4>2. \A k : Later(k, x) \subseteq DOMAIN promotions
        BY DEF Later
      <4>3. QED
        BY <1>5, <2>1, <3>1, <4>1, <4>2 DEF StageAt, Chain
    <3>4. \A k : Latest(k, x) => promotions'[k] = promotions[k]
      BY <1>5 DEF Latest
    <3>5. Ends(x)'
      <4>1. \A u \in Requesters : at[u] = "record" /\ job[u].candidate = x =>
              at'[u] = "record" /\ job'[u].candidate = x
        BY <1>1, <2>4 DEF Others
      <4>2. QED
        BY <1>2, <2>1, <3>2, <3>4, <4>1, ZenonT(40) DEF StageAt, Ends
    <3>6. ASSUME NEW u \in Requesters, Promotes(u, x)' PROVE Promoting(u, x)'
      <4>1. Promoting(u, x) /\ at'[u] = at[u] /\ job'[u] = job[u]
        BY <2>1, <2>2, <3>6 DEF StageAt
      <4>2. \A k : Latest(k, x)' => promotions'[k].to = job[u].from
        BY <3>2, <3>4, <4>1 DEF Promoting
      <4>3. QED
        BY <1>2, <4>1, <4>2 DEF Promoting
    <3>7. QED
      BY <2>1, <2>2, <3>3, <3>5, <3>6 DEF StageAt
  <2>5. QED
    BY <2>3, <2>4
<1>9. QED
  BY <1>2, <1>7, <1>8 DEF StageKept

LEMMA StageStep ==
  ASSUME LearningType, JobKept, StageKept, [LearningNext]_learningVars
  PROVE  StageKept'
<1>1. ASSUME NEW t \in Requesters, NEW s \in Strategies, AskRollback(t, s) PROVE StageKept'
  <2>1. at[t] = "idle" /\ at'[t] = "restore" /\ Others(t)
    BY <1>1, AskRollbackDoes, StepOthers DEF Places
  <2>2. UNCHANGED <<stage, promotions, disputed>>
    BY <1>1 DEF AskRollback
  <2>3. QED
    BY <2>1, <2>2, StageApart
<1>2. ASSUME NEW t \in Requesters, ReadChampions(t) \/ ReadForRollback(t) \/ ReadHistory(t) PROVE StageKept'
  <2>1. /\ UNCHANGED <<stage, promotions, disputed>> /\ Others(t)
        /\ at[t] \in {"crown", "restore", "look"} /\ at'[t] \in {"look", "reseat", "shelve"}
    BY <1>2 DEF ReadChampions, ReadForRollback, ReadHistory, Others, LearningType
  <2>2. QED
    BY <2>1, StageApart
<1>3. ASSUME NEW t \in Requesters, Shelve(t) \/ Reseat(t) \/ Enthrone(t) \/ Unshelve(t) PROVE StageKept'
  <2>1. /\ UNCHANGED <<stage, promotions, disputed>> /\ Others(t)
        /\ at[t] \in {"shelve", "reseat", "enthrone", "unshelve"}
        /\ at'[t] \in {"enthrone", "unshelve", "idle"}
    BY <1>3 DEF Shelve, Reseat, Enthrone, Unshelve, Done, Others, LearningType
  <2>2. QED
    BY <2>1, StageApart
<1>4. CASE Die
  <2>1. /\ UNCHANGED <<stage, promotions>> /\ disputed \subseteq disputed'
        /\ \A t \in Requesters : at'[t] = "idle" /\ (at[t] = "record" => job[t].candidate \in disputed')
    BY <1>4 DEF Die
  <2>2. QED
    BY <2>1, StageStays
<1>5. CASE UNCHANGED learningVars
  BY <1>5, StageStays DEF learningVars
<1>6. QED
  BY <1>1, <1>2, <1>3, <1>4, <1>5, RegisterStep, AskPromotionStep, WriteStageStep, RecordStageStep
  DEF LearningNext

-----------------------------------------------------------------------------
(* The registry                                                            *)

LEMMA InitLearningInv == LearningInit => LearningInv
<1> SUFFICES ASSUME LearningInit PROVE LearningInv
  OBVIOUS
<1> USE DEF LearningInit
<1>1. <<>> \in Seq(Candidates) /\ <<>> \in Seq(Promotion) /\ DOMAIN promotions = {}
  OBVIOUS
<1>2. \A t \in Requesters : at[t] = "idle"
  OBVIOUS
<1>3. LearningType
  <2>1. stage \in [Candidates -> Stages]
    BY Transitions
  <2>2. champions \in [Strategies -> Champion] /\ shelf \in [Strategies -> Seq(Candidates)]
        /\ serial \in [Strategies -> Seq(Candidates)]
    BY <1>1 DEF Champion
  <2>3. at \in [Requesters -> Places] /\ job \in [Requesters -> Job]
    BY IdleType DEF Places
  <2>4. QED
    BY <1>1, <2>1, <2>2, <2>3 DEF LearningType
<1>4. JobKept
  BY <1>2 DEF JobKept, JobFits, Seating, Undoing, HasRead
<1>5. PassedKept
  <2>1. \A s \in Strategies : champions[s] = Nobody /\ shelf[s] = <<>>
    OBVIOUS
  <2>2. SeatsPassed
    BY <2>1, EmptySeq DEF SeatsPassed, MaySit
  <2>3. QED
    BY <1>2, <2>2 DEF PassedKept, WritesPassed, Seating, Undoing, HasRead, HasPast
<1>6. OneAtATime /\ \A t \in Requesters : ~InChampions(t)
  BY <1>2 DEF OneAtATime, InChampions
<1>7. SerialKept
  BY <1>6 DEF SerialKept, SerialAt, Settled, Changes, Retire
<1>8. StageKept
  BY <1>1, <1>2 DEF StageKept, Registered, StageAt, Chain, Ends, Latest, Promotes
<1>9. QED
  BY <1>3, <1>4, <1>5, <1>6, <1>7, <1>8 DEF LearningInv

LEMMA LearningInvKept == LearningSpec => []LearningInv
<1>1. LearningInv /\ [LearningNext]_learningVars => LearningInv'
  BY LearningTypeStep, PassedStep, OneAtATimeStep, SerialStep, StageStep DEF LearningInv
<1>2. QED
  BY InitLearningInv, <1>1, PTL DEF LearningSpec

LEMMA RegistrySound == LearningInv => RegistryHolds
<1> SUFFICES ASSUME LearningInv PROVE RegistryHolds
  OBVIOUS
<1> USE DEF LearningInv
<1>1. ChampionPassed
  <2> SUFFICES ASSUME NEW s \in Strategies,
                      NEW c \in {champions[s]} \cup {shelf[s][k] : k \in DOMAIN shelf[s]}, c # Nobody
               PROVE  /\ StrategyOf[c] = s
                      /\ \E k \in DOMAIN promotions :
                           promotions[k].candidate = c /\ promotions[k].to = "PAPER"
    BY DEF ChampionPassed
  <2>1. champions[s] \in MaySit(OnRecord, s) /\ shelf[s] \in Seq(PassedOf(OnRecord, s))
    BY DEF PassedKept, SeatsPassed
  <2>2. \A k \in DOMAIN shelf[s] : shelf[s][k] \in PassedOf(OnRecord, s)
    BY <2>1, ElementOfSeq, LenProperties
  <2>3. c \in PassedOf(OnRecord, s)
    BY <2>1, <2>2 DEF MaySit
  <2>4. QED
    BY <2>3 DEF PassedOf, OnRecord
<1>2. RollbackUndoes
  BY DEF RollbackUndoes, SerialKept, SerialAt, Changes, Settled
<1>3. StageOnRecord
  BY DEF StageOnRecord, StageKept, StageAt, Chain, Ends, Latest, Later
<1>4. QED
  BY <1>1, <1>2, <1>3 DEF RegistryHolds

(* Whatever HTTP threads overlap and wherever the process dies: a champion *)
(* and everything a rollback restores has passed, a rollback that meets no *)
(* other request undoes the latest change, and stages agree with the       *)
(* record (promote, _set_champion and rollback of production/learning.py). *)
THEOREM RegistryKeeps == LearningSpec => []RegistryHolds
BY LearningInvKept, RegistrySound, PTL

-----------------------------------------------------------------------------
(* The evolution track                                                     *)

Statuses == {"NONE", "QUARANTINE", "VALIDATING", "RETIRED", "PROMOTED"}

EvolutionType ==
  /\ variants \in [VariantIds -> [status: Statuses, score: Scores \cup {99}]]
  /\ generation \in 0..MaxGenerations
  /\ testing \in 0..(MaxGenerations - 1) \cup {NoVariant}
  /\ lab \in {"up", "down", "unreadable"}
  /\ restarts \in Nat

(* No two variants are promoted, the baseline is never measured, and any   *)
(* other that is promoted made money.                                      *)
SoleChampion ==
  /\ \A v, w \in Promoted : v = w
  /\ variants[Baseline].score = 99
  /\ \A v \in Promoted \ {Baseline} : variants[v].score \in Scores /\ variants[v].score > 0

(* What is being tested is not promoted, and before the first restart no   *)
(* name was ever given twice.                                              *)
FreshNames ==
  /\ testing # NoVariant => testing \notin Promoted
  /\ restarts = 0 => /\ \A v \in Promoted \ {Baseline} : v < generation
                     /\ testing # NoVariant => testing < generation

EvolutionInv == EvolutionType /\ SoleChampion /\ FreshNames

-----------------------------------------------------------------------------
LEMMA ScoreBounds ==
  ASSUME EvolutionType, NEW v \in VariantIds
  PROVE  Score(v) \in (-99)..98
<1>1. variants[v].score \in Scores \cup {99}
  BY DEF EvolutionType
<1>2. \A s \in Scores : s \in Int /\ -98 <= s /\ s <= 98
  BY EvolutionAssumption
<1>3. QED
  BY <1>1, <1>2 DEF Score

(* The incumbent is the promoted variant, or the baseline.                 *)
KnownIncumbent ==
  /\ Incumbent \in VariantIds
  /\ Incumbent = Baseline => Promoted \subseteq {Baseline}
  /\ Incumbent # Baseline =>
       Promoted = {Incumbent} /\ Score(Incumbent) = variants[Incumbent].score

LEMMA IncumbentIs == EvolutionInv => KnownIncumbent
<1> SUFFICES ASSUME EvolutionInv PROVE KnownIncumbent
  OBVIOUS
<1> USE DEF EvolutionInv
<1> DEFINE scored == {v \in Promoted : variants[v].score # 99}
<1>1. Baseline \in VariantIds /\ Baseline \notin scored
  BY DEF VariantIds, SoleChampion
<1>2. CASE scored = {}
  <2>1. Incumbent = Baseline
    BY <1>2 DEF Incumbent
  <2>2. Promoted \subseteq {Baseline}
    BY <1>2, EvolutionAssumption DEF SoleChampion
  <2>3. QED
    BY <1>1, <2>1, <2>2 DEF KnownIncumbent
<1>3. CASE scored # {}
  <2>1. PICK c \in scored : TRUE
    BY <1>3
  <2>2. c \in VariantIds /\ c # Baseline /\ Promoted = {c} /\ scored = {c}
    BY <1>1, <2>1 DEF SoleChampion, Promoted
  <2>3. Score(c) <= Score(c)
    BY <2>2, ScoreBounds
  <2>4. Incumbent = CHOOSE v \in {c} : \A w \in {c} : Score(w) <= Score(v)
    BY <1>3, <2>2 DEF Incumbent
  <2>5. Incumbent = c
    BY <2>3, <2>4
  <2>6. Score(c) = variants[c].score
    BY <2>2, EvolutionAssumption DEF Score, SoleChampion
  <2>7. QED
    BY <2>2, <2>5, <2>6 DEF KnownIncumbent
<1>4. QED
  BY <1>2, <1>3

LEMMA InitEvolution == EvolutionInit => EvolutionInv
<1>1. SUFFICES ASSUME EvolutionInit PROVE EvolutionInv
  OBVIOUS
<1>2. EvolutionType
  BY <1>1, EvolutionAssumption DEF EvolutionInit, EvolutionType, Statuses
<1>3. Promoted = {Baseline}
  BY <1>1 DEF EvolutionInit, Promoted, VariantIds
<1>4. variants[Baseline].score = 99
  BY <1>1 DEF EvolutionInit, VariantIds
<1>5. QED
  BY <1>1, <1>2, <1>3, <1>4 DEF EvolutionInit, EvolutionInv, SoleChampion, FreshNames

(* A mutation may take the name of the incumbent, after a restart only.    *)
LEMMA ProposeStep ==
  ASSUME EvolutionInv, ProposeMutation
  PROVE  /\ EvolutionInv'
         /\ Promoted' = Promoted \ {generation}
         /\ \A v \in Promoted' : variants'[v] = variants[v]
<1> USE DEF EvolutionInv
<1>1. generation \in 0..(MaxGenerations - 1) /\ generation \in VariantIds
  BY EvolutionAssumption DEF ProposeMutation, EvolutionType, VariantIds
<1>2. generation # Baseline
  BY <1>1, EvolutionAssumption
<1>3. EvolutionType'
  BY <1>1, EvolutionAssumption DEF ProposeMutation, EvolutionType, Statuses
<1>4. \A v \in VariantIds \ {generation} : variants'[v] = variants[v]
  BY DEF ProposeMutation, EvolutionType
<1>5. variants'[generation].status = "QUARANTINE"
  BY <1>1 DEF ProposeMutation, EvolutionType
<1>6. Promoted' = Promoted \ {generation}
  BY <1>4, <1>5 DEF Promoted
<1>7. SoleChampion'
  BY <1>2, <1>4, <1>6, ZenonT(40) DEF SoleChampion, Promoted, VariantIds
<1>8. FreshNames'
  BY <1>1, <1>6, EvolutionAssumption
  DEF FreshNames, ProposeMutation, Promoted, VariantIds, EvolutionType
<1>9. QED
  BY <1>3, <1>4, <1>6, <1>7, <1>8 DEF Promoted

(* A variant takes the incumbent's place with a better score, or it and    *)
(* the incumbent keep theirs.                                              *)
LEMMA RegisterResultStep ==
  ASSUME EvolutionInv, NEW score \in Scores, NEW others \in {"REJECTED", "HOLD", "PROMOTE"},
         RegisterResult(score, others)
  PROVE  /\ EvolutionInv'
         /\ \/ Promoted' = Promoted /\ \A v \in Promoted : variants'[v] = variants[v]
            \/ /\ Promoted' = {testing} /\ testing \in VariantIds \ {Baseline}
               /\ variants'[testing].score = score /\ score > Score(Incumbent)
<1> USE DEF EvolutionInv
<1> DEFINE v == testing
<1>1. /\ v \in 0..(MaxGenerations - 1) /\ v \in VariantIds /\ v \notin Promoted
      /\ testing' = NoVariant /\ UNCHANGED <<generation, lab, restarts>>
  BY DEF RegisterResult, EvolutionType, VariantIds, FreshNames
<1>2. v # Baseline /\ Incumbent \in VariantIds
  BY <1>1, EvolutionAssumption, IncumbentIs DEF KnownIncumbent
<1>3. CASE /\ GateVerdict(score, others) = "PROMOTE" /\ score > Score(Incumbent) /\ v # Incumbent
           /\ variants' = [[variants EXCEPT ![v] = [status |-> "PROMOTED", score |-> score]]
                             EXCEPT ![Incumbent].status = "RETIRED"]
  <2>1. EvolutionType'
    BY <1>1, <1>2, <1>3 DEF EvolutionType, Statuses
  <2>2. score > 0
    BY <1>3, EvolutionAssumption DEF GateVerdict
  <2>3. /\ variants'[v] = [status |-> "PROMOTED", score |-> score]
        /\ variants'[Incumbent].status = "RETIRED"
        /\ variants'[Incumbent].score = variants[Incumbent].score
        /\ \A w \in VariantIds \ {v, Incumbent} : variants'[w] = variants[w]
    BY <1>1, <1>2, <1>3 DEF EvolutionType
  <2>4. Promoted \subseteq {Incumbent}
    BY IncumbentIs DEF KnownIncumbent
  <2>5. Promoted' = {v}
    <3>1. v \in Promoted' /\ Incumbent \notin Promoted'
      BY <1>1, <2>3 DEF Promoted
    <3>2. \A w \in VariantIds \ {v, Incumbent} : w \in Promoted' <=> w \in Promoted
      BY <2>3 DEF Promoted
    <3>3. Promoted' \subseteq VariantIds
      BY DEF Promoted
    <3>4. QED
      BY <2>4, <3>1, <3>2, <3>3
  <2>6. variants'[Baseline].score = 99
    BY <1>2, <2>3, ZenonT(40) DEF SoleChampion, VariantIds
  <2>7. SoleChampion'
    BY <2>2, <2>3, <2>5, <2>6 DEF SoleChampion
  <2>8. FreshNames'
    BY <1>1, <2>5, EvolutionAssumption DEF FreshNames
  <2>9. QED
    BY <1>1, <1>2, <1>3, <2>1, <2>3, <2>5, <2>7, <2>8
<1>4. CASE \E status \in {"VALIDATING", "RETIRED"} :
             variants' = [variants EXCEPT ![v] = [status |-> status, score |-> score]]
  <2>1. EvolutionType'
    BY <1>1, <1>4 DEF EvolutionType, Statuses
  <2>2. /\ variants'[v].status # "PROMOTED"
        /\ \A w \in VariantIds \ {v} : variants'[w] = variants[w]
    BY <1>1, <1>4 DEF EvolutionType
  <2>3. Promoted' = Promoted
    BY <1>1, <2>2 DEF Promoted
  <2>4. \A w \in Promoted : variants'[w] = variants[w]
    BY <1>1, <2>2 DEF Promoted
  <2>5. SoleChampion'
    BY <1>2, <2>2, <2>3, <2>4, ZenonT(40) DEF SoleChampion, VariantIds
  <2>6. FreshNames'
    BY <1>1, <2>3 DEF FreshNames
  <2>7. QED
    BY <2>1, <2>3, <2>4, <2>5, <2>6
<1>5. GateVerdict(score, others) \in {"REJECTED", "HOLD", "PROMOTE"}
  BY DEF GateVerdict
<1>6. QED
  BY <1>3, <1>4, <1>5 DEF RegisterResult

(* The daemon's own comings and goings leave the registry alone.           *)
LEMMA QuietStep ==
  ASSUME EvolutionInv,
         TestFails \/ (\E torn \in BOOLEAN : DaemonDies(torn)) \/ DaemonStarts
           \/ UNCHANGED evolutionVars
  PROVE  EvolutionInv' /\ variants' = variants
<1> USE DEF EvolutionInv
<1>1. variants' = variants /\ Promoted' = Promoted
  BY DEF TestFails, DaemonDies, DaemonStarts, evolutionVars, Promoted
<1>2. EvolutionType'
  <2> USE EvolutionAssumption DEF EvolutionType
  <2>1. CASE TestFails
    BY <2>1 DEF TestFails
  <2>2. CASE \E torn \in BOOLEAN : DaemonDies(torn)
    BY <2>2 DEF DaemonDies
  <2>3. CASE DaemonStarts
    BY <2>3 DEF DaemonStarts
  <2>4. CASE UNCHANGED evolutionVars
    BY <2>4 DEF evolutionVars
  <2>5. QED
    BY <2>1, <2>2, <2>3, <2>4
<1>3. SoleChampion'
  BY <1>1 DEF SoleChampion
<1>4. FreshNames'
  BY <1>1, EvolutionAssumption
  DEF FreshNames, EvolutionType, TestFails, DaemonDies, DaemonStarts, evolutionVars
<1>5. QED
  BY <1>1, <1>2, <1>3, <1>4

LEMMA EvolutionStep ==
  ASSUME EvolutionInv, [EvolutionNext]_evolutionVars
  PROVE  EvolutionInv'
BY ProposeStep, RegisterResultStep, QuietStep DEF EvolutionNext

(* Who is promoted decides who is the incumbent.          *)
LEMMA SameIncumbent ==
  ASSUME KnownIncumbent, KnownIncumbent', Promoted' = Promoted
  PROVE  Incumbent' = Incumbent
BY DEF KnownIncumbent

LEMMA IncumbentStep ==
  ASSUME EvolutionInv, KnownIncumbent, KnownIncumbent',
         [EvolutionNext]_evolutionVars, Incumbent' # Incumbent
  PROVE  \/ Score(Incumbent)' > Score(Incumbent)
         \/ /\ restarts > 0 /\ testing' = Incumbent
            /\ Incumbent' = Baseline
<1> USE DEF EvolutionInv
<1>1. CASE ProposeMutation
  <2>1. /\ Promoted' = Promoted \ {generation}
        /\ \A v \in Promoted' : variants'[v] = variants[v]
    BY <1>1, ProposeStep
  <2>2. generation \in Promoted
    BY <2>1, SameIncumbent
  <2>3. generation # Baseline /\ generation \in Nat
    BY EvolutionAssumption DEF EvolutionType
  <2>4. Promoted = {generation}
    BY <2>2 DEF SoleChampion
  <2>5. Incumbent = generation
    BY <2>3, <2>4, IncumbentIs DEF KnownIncumbent
  <2>6. Promoted' = {}
    BY <2>1, <2>4
  <2>7. Incumbent' = Baseline
    BY <2>6 DEF Incumbent
  <2>8. restarts > 0
    BY <2>2, <2>3, EvolutionAssumption DEF FreshNames, EvolutionType
  <2>9. QED
    BY <1>1, <2>5, <2>7, <2>8 DEF ProposeMutation
<1>2. ASSUME NEW s \in Scores, NEW g \in {"REJECTED", "HOLD", "PROMOTE"}, RegisterResult(s, g)
      PROVE  Score(Incumbent)' > Score(Incumbent)
  <2>1. /\ Promoted' = {testing} /\ testing \in VariantIds \ {Baseline}
        /\ variants'[testing].score = s /\ s > Score(Incumbent)
    BY <1>2, RegisterResultStep, SameIncumbent
  <2>2. Incumbent' = testing
    BY <2>1 DEF KnownIncumbent
  <2>3. QED
    BY <2>1, <2>2 DEF KnownIncumbent
<1>3. CASE TestFails \/ (\E torn \in BOOLEAN : DaemonDies(torn)) \/ DaemonStarts
             \/ UNCHANGED evolutionVars
  BY <1>3, QuietStep, SameIncumbent DEF Promoted
<1>4. QED
  BY <1>1, <1>2, <1>3 DEF EvolutionNext

(* Whatever is proposed, measured, killed and restarted, there is never a  *)
(* second promoted variant, and the incumbent changes to a better one or,  *)
(* when a mutation after a restart takes its name, to the baseline         *)
(* (EvolutionLab of autonomous_forex_daemon.py).                           *)
THEOREM IncumbentKept == EvolutionSpec => IncumbentHolds
<1>1. EvolutionInv => OneChampion
  <2>1. SUFFICES ASSUME EvolutionInv PROVE Cardinality(Promoted) <= 1
    BY DEF OneChampion, EvolutionInv, SoleChampion
  <2>2. CASE Promoted = {}
    BY <2>2, FS_EmptySet
  <2>3. CASE Promoted # {}
    <3>1. PICK c \in Promoted : TRUE
      BY <2>3
    <3>2. Promoted = {c}
      BY <2>1, <3>1 DEF EvolutionInv, SoleChampion
    <3>3. QED
      BY <3>2, FS_Singleton
  <2>4. QED
    BY <2>2, <2>3
<1>2. EvolutionInv /\ [EvolutionNext]_evolutionVars => EvolutionInv'
  BY EvolutionStep
<1>3. EvolutionInv => KnownIncumbent
  BY IncumbentIs
<1>4. EvolutionInv /\ KnownIncumbent /\ KnownIncumbent' /\ [EvolutionNext]_evolutionVars =>
        [Incumbent' # Incumbent =>
           \/ Score(Incumbent)' > Score(Incumbent)
           \/ /\ restarts > 0 /\ testing' = Incumbent
              /\ Incumbent' = Baseline]_evolutionVars
  BY IncumbentStep
<1>5. QED
  BY <1>1, <1>2, <1>3, <1>4, InitEvolution, PTL
  DEF EvolutionSpec, IncumbentHolds, BeatenOrOverwritten
=============================================================================
