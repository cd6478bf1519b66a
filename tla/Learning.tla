------------------------------ MODULE Learning ------------------------------
(***************************************************************************)
(* The learning pipeline (production/learning.py): candidates of several   *)
(* strategies move through fixed stages; reaching PAPER makes a candidate  *)
(* the champion of its strategy, and a rollback restores the one before.   *)
(* HTTP threads promote and roll back at the same time, every read and     *)
(* write is a transaction of its own on the state store, all champions     *)
(* share one record, and the process may die between two of them.          *)
(***************************************************************************)
EXTENDS Integers, Sequences, FiniteSets

CONSTANTS
  Candidates,    \* candidate ids
  StrategyOf,    \* their strategies
  Requesters,    \* HTTP threads
  MaxPromotions,
  MaxHistory,    \* champions the history of a strategy keeps
  MaxStops,      \* deaths of the process
  Nobody         \* no champion; no candidate

ASSUME LearningAssumption ==
  /\ StrategyOf \in [Candidates -> {StrategyOf[c] : c \in Candidates}]
  /\ MaxPromotions \in Nat /\ MaxHistory \in Nat \ {0} /\ MaxStops \in Nat
  /\ Nobody \notin Candidates

Strategies == {StrategyOf[c] : c \in Candidates}

VARIABLES
  stage,      \* stage of each candidate; "NONE" before it is registered
  promotions, \* the promotions recorded, in order
  champions,  \* learning.champions
  shelf,      \* learning.history of each strategy
  at,         \* where each thread is
  job,        \* what it promotes or rolls back, and what it has read
  stops,
  serial,     \* history: champion and predecessors, had the requests run one by one
  raced,      \* history: strategies whose champions were written by requests that
              \* overlapped, or by one cut short, and ...
  disputed    \* ... candidates promoted by such requests

learningVars == <<stage, promotions, champions, shelf, at, job, stops, serial, raced, disputed>>

-----------------------------------------------------------------------------
AllowedTransitions ==
  [NONE |-> {}, CANDIDATE |-> {"VALIDATED", "REJECTED"}, VALIDATED |-> {"PAPER", "REJECTED"},
   PAPER |-> {"LIMITED_LIVE", "RETIRED"}, LIMITED_LIVE |-> {"RETIRED", "PAPER"},
   REJECTED |-> {}, RETIRED |-> {}]

Stages == DOMAIN AllowedTransitions

(* history[-20:]                                                           *)
Newest(s) == IF Len(s) > MaxHistory THEN SubSeq(s, Len(s) - MaxHistory + 1, Len(s)) ELSE s

Retire(champion, s) == IF champion = Nobody THEN s ELSE Append(s, champion)

Idle == [kind |-> "none", candidate |-> Nobody, from |-> "NONE", to |-> "NONE", strategy |-> Nobody,
         read |-> <<>>, past |-> <<>>]

(* Requests that touch champions at once: whichever writes last decides    *)
(* for every strategy, because the record is written whole.                *)
InChampions(t) == at[t] \in {"crown", "look", "shelve", "enthrone", "restore", "reseat", "unshelve"}

Meets(t) == IF \E u \in Requesters \ {t} : InChampions(u) THEN Strategies ELSE {}

Done(t) ==
  /\ at' = [at EXCEPT ![t] = "idle"]
  /\ job' = [job EXCEPT ![t] = Idle]

Front(s) == SubSeq(s, 1, Len(s) - 1)

-----------------------------------------------------------------------------
LearningInit ==
  /\ stage = [c \in Candidates |-> "NONE"]
  /\ promotions = <<>>
  /\ champions = [s \in Strategies |-> Nobody]
  /\ shelf = [s \in Strategies |-> <<>>]
  /\ at = [t \in Requesters |-> "idle"]
  /\ job = [t \in Requesters |-> Idle]
  /\ stops = 0
  /\ serial = [s \in Strategies |-> <<>>]
  /\ raced = {} /\ disputed = {}

(* register_candidate, by an offline research cycle.                       *)
Register(c, qualified) ==
  /\ stage[c] = "NONE"
  /\ stage' = [stage EXCEPT ![c] = IF qualified THEN "VALIDATED" ELSE "CANDIDATE"]
  /\ UNCHANGED <<promotions, champions, shelf, at, job, stops, serial, raced, disputed>>

(* promote reads the candidate and refuses an illegal transition, or a     *)
(* live one without an approver.                                           *)
AskPromotion(t, c, to, approved) ==
  /\ at[t] = "idle" /\ Len(promotions) < MaxPromotions
  /\ to \in AllowedTransitions[stage[c]]
  /\ to = "LIMITED_LIVE" => approved
  /\ at' = [at EXCEPT ![t] = "write"]
  /\ job' = [job EXCEPT ![t] = [Idle EXCEPT !.kind = "promote", !.candidate = c, !.from = stage[c],
                                            !.to = to, !.strategy = StrategyOf[c]]]
  /\ disputed' = IF \E u \in Requesters : at[u] \in {"write", "record"} /\ job[u].candidate = c
                   THEN disputed \cup {c} ELSE disputed
  /\ UNCHANGED <<stage, promotions, champions, shelf, stops, serial, raced>>

(* Mutant of WriteStage: the champion is set before the promotion is       *)
(* recorded.                                                               *)
WriteStageAndCrown(t) ==
  /\ at[t] = "write"
  /\ stage' = [stage EXCEPT ![job[t].candidate] = job[t].to]
  /\ champions' = IF job[t].to = "PAPER"
                    THEN [champions EXCEPT ![job[t].strategy] = job[t].candidate] ELSE champions
  /\ at' = [at EXCEPT ![t] = "record"]
  /\ UNCHANGED <<promotions, shelf, job, stops, serial, raced, disputed>>

WriteStage(t) ==
  /\ at[t] = "write"
  /\ stage' = [stage EXCEPT ![job[t].candidate] = job[t].to]
  /\ at' = [at EXCEPT ![t] = "record"]
  /\ UNCHANGED <<promotions, champions, shelf, job, stops, serial, raced, disputed>>

(* Mutant of Record: the record names the stage before.                    *)
RecordStage(t) ==
  /\ at[t] = "record"
  /\ promotions' = Append(promotions, [candidate |-> job[t].candidate, from |-> job[t].from,
                                       to |-> IF job[t].to = "PAPER" THEN "PAPER" ELSE job[t].from])
  /\ IF job[t].to = "PAPER" THEN at' = [at EXCEPT ![t] = "crown"] /\ UNCHANGED job ELSE Done(t)
  /\ UNCHANGED <<stage, champions, shelf, stops, serial, raced, disputed>>

Record(t) ==
  /\ at[t] = "record"
  /\ promotions' = Append(promotions, [candidate |-> job[t].candidate, from |-> job[t].from,
                                       to |-> job[t].to])
  /\ IF job[t].to = "PAPER" THEN at' = [at EXCEPT ![t] = "crown"] /\ UNCHANGED job ELSE Done(t)
  /\ raced' = IF job[t].to = "PAPER" THEN raced \cup Meets(t) ELSE raced
  /\ serial' = IF job[t].to = "PAPER"
                 THEN [serial EXCEPT ![job[t].strategy] = Append(Newest(@), job[t].candidate)]
                 ELSE serial
  /\ UNCHANGED <<stage, champions, shelf, stops, disputed>>

(* _set_champion: read the champions, read the history, write the history, *)
(* write the champions.                                                    *)
ReadChampions(t) ==
  /\ at[t] = "crown"
  /\ job' = [job EXCEPT ![t].read = champions]
  /\ at' = [at EXCEPT ![t] = "look"]
  /\ UNCHANGED <<stage, promotions, champions, shelf, stops, serial, raced, disputed>>

ReadHistory(t) ==
  /\ at[t] = "look"
  /\ job' = [job EXCEPT ![t].past = shelf[job[t].strategy]]
  /\ at' = [at EXCEPT ![t] = "shelve"]
  /\ UNCHANGED <<stage, promotions, champions, shelf, stops, serial, raced, disputed>>

Shelve(t) ==
  LET s == job[t].strategy
  IN /\ at[t] = "shelve"
     /\ shelf' = [shelf EXCEPT ![s] = Newest(Retire(job[t].read[s], job[t].past))]
     /\ at' = [at EXCEPT ![t] = "enthrone"]
     /\ UNCHANGED <<stage, promotions, champions, job, stops, serial, raced, disputed>>

Enthrone(t) ==
  /\ at[t] = "enthrone"
  /\ champions' = [job[t].read EXCEPT ![job[t].strategy] = job[t].candidate]
  /\ Done(t)
  /\ UNCHANGED <<stage, promotions, shelf, stops, serial, raced, disputed>>

(* rollback: read the history, pop it, read the champions, write them,     *)
(* write the history.                                                      *)
AskRollback(t, s) ==
  /\ at[t] = "idle" /\ shelf[s] # <<>>
  /\ job' = [job EXCEPT ![t] = [Idle EXCEPT !.kind = "rollback", !.strategy = s, !.past = shelf[s]]]
  /\ at' = [at EXCEPT ![t] = "restore"]
  /\ raced' = raced \cup Meets(t)
  /\ serial' = [serial EXCEPT ![s] = IF @ = <<>> THEN @ ELSE Front(@)]
  /\ UNCHANGED <<stage, promotions, champions, shelf, stops, disputed>>

ReadForRollback(t) ==
  /\ at[t] = "restore"
  /\ job' = [job EXCEPT ![t].read = champions]
  /\ at' = [at EXCEPT ![t] = "reseat"]
  /\ UNCHANGED <<stage, promotions, champions, shelf, stops, serial, raced, disputed>>

Reseat(t) ==
  LET past == job[t].past
  IN /\ at[t] = "reseat"
     /\ champions' = [job[t].read EXCEPT ![job[t].strategy] = past[Len(past)]]
     /\ at' = [at EXCEPT ![t] = "unshelve"]
     /\ UNCHANGED <<stage, promotions, shelf, job, stops, serial, raced, disputed>>

(* Mutant of Unshelve: the champion restored stays in the history.         *)
UnshelveNothing(t) ==
  /\ at[t] = "unshelve"
  /\ Done(t)
  /\ UNCHANGED <<stage, promotions, champions, shelf, stops, serial, raced, disputed>>

Unshelve(t) ==
  LET past == job[t].past
  IN /\ at[t] = "unshelve"
     /\ shelf' = [shelf EXCEPT ![job[t].strategy] = Front(past)]
     /\ Done(t)
     /\ UNCHANGED <<stage, promotions, champions, stops, serial, raced, disputed>>

(* The process dies; what was written stays.                               *)
Die ==
  /\ stops < MaxStops
  /\ stops' = stops + 1
  /\ raced' = raced \cup {job[t].strategy : t \in {t \in Requesters : InChampions(t)}}
  /\ disputed' = disputed \cup {job[t].candidate : t \in {t \in Requesters : at[t] = "record"}}
  /\ at' = [t \in Requesters |-> "idle"]
  /\ job' = [t \in Requesters |-> Idle]
  /\ UNCHANGED <<stage, promotions, champions, shelf, serial>>

LearningNext ==
  \/ \E c \in Candidates, q \in BOOLEAN : Register(c, q)
  \/ \E t \in Requesters :
       \/ \E c \in Candidates, to \in Stages, a \in BOOLEAN : AskPromotion(t, c, to, a)
       \/ \E s \in Strategies : AskRollback(t, s)
       \/ WriteStage(t) \/ Record(t) \/ ReadChampions(t) \/ ReadHistory(t) \/ Shelve(t) \/ Enthrone(t)
       \/ ReadForRollback(t) \/ Reseat(t) \/ Unshelve(t)
  \/ Die

LearningSpec == LearningInit /\ [][LearningNext]_learningVars

-----------------------------------------------------------------------------
(* Whatever requests overlap and wherever the process dies, a champion and *)
(* everything a rollback can restore is a candidate of that strategy whose *)
(* promotion to PAPER is on record: a lost update may bring back an old    *)
(* champion, never a candidate that did not pass.                          *)
ChampionPassed ==
  \A s \in Strategies : \A c \in {champions[s]} \cup {shelf[s][k] : k \in DOMAIN shelf[s]} :
    c # Nobody => /\ StrategyOf[c] = s
                  /\ \E k \in DOMAIN promotions : promotions[k].candidate = c /\ promotions[k].to = "PAPER"

(* As long as no two requests on champions overlap and none is cut short,  *)
(* a rollback undoes the latest change: champion and history are what the  *)
(* requests, run one by one, leave, the oldest dropped at the limit.       *)
RollbackUndoes ==
  \A s \in Strategies \ raced :
    (\A t \in Requesters : InChampions(t) => job[t].strategy # s)
      => serial[s] = Retire(champions[s], shelf[s])

(* A candidate's stage is the one its last promotion on record led to, and *)
(* each of its promotions starts where the one before ended (so what is    *)
(* REJECTED or RETIRED stays so), unless two requests promoted it at once, *)
(* both judging the stage they read, or the process died between the stage *)
(* and the record.                                                         *)
StageOnRecord ==
  \A c \in Candidates \ disputed : \A k \in DOMAIN promotions :
    LET later == {j \in DOMAIN promotions : j > k /\ promotions[j].candidate = c}
    IN promotions[k].candidate = c =>
         /\ \A j \in later : (\A i \in later : j <= i) => promotions[j].from = promotions[k].to
         /\ later = {} /\ (\A t \in Requesters : at[t] = "record" => job[t].candidate # c)
              => stage[c] = promotions[k].to

(* The registry of candidates, promotions and champions.                   *)
RegistryHolds == ChampionPassed /\ RollbackUndoes /\ StageOnRecord
=============================================================================
