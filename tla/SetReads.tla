------------------------------- MODULE SetReads -------------------------------
(***************************************************************************)
(* What fractal_engine/ derives from the closed candles of the timeframes  *)
(* of a ladder: requirements.py (what a parent timeframe asks of the next  *)
(* finer one), state_graph.py (views of a set, legs of the finest feed,    *)
(* graph), consistency.py (verdicts on adjacent sets), hypothesis_engine.py*)
(* (what followed the same condition before) and research.py (rows of a    *)
(* scale relationship, nested sequences).                                  *)
(*                                                                         *)
(* All of them are batch programs over whole histories that say they use   *)
(* nothing later than the moment they speak about.  Here histories grow    *)
(* instant by instant, what the programs say at each instant is kept, and  *)
(* compared with what they say of that instant later.                      *)
(*                                                                         *)
(* A closed candle is one of a few shapes; 1 is the coarsest timeframe.    *)
(***************************************************************************)
EXTENDS Integers, Sequences, FiniteSetsExt

CONSTANTS
  Depth,      \* timeframes of the ladder
  Instants,   \* what may happen at once: the timeframes that close, each with its shape
  MaxInstants,
  Absent      \* None

(* A shape: trend -1, 0 or 1; location; phase; the close; swing highs and  *)
(* lows, the ends of its range where it has none; the price beyond which   *)
(* its own thesis is void, or Absent.                                      *)
ClosedCandle(shape, at, serial) ==
  [at |-> at, serial |-> serial, trend |-> shape.trend, location |-> shape.location, phase |-> shape.phase,
   price |-> shape.price, highs |-> shape.highs, lows |-> shape.lows, void |-> shape.void]
Shapes == UNION {{x[k] : k \in DOMAIN x} : x \in Instants}
ClosedCandles == {ClosedCandle(s, t, n) : s \in Shapes, t \in 1..MaxInstants, n \in 1..MaxInstants}

ASSUME SetReadsAssumption ==
  /\ Depth \in Nat /\ Depth >= 3 /\ MaxInstants \in Nat
  /\ \A x \in Instants : /\ DOMAIN x \subseteq 1..Depth /\ DOMAIN x # {}
                         /\ \A k \in DOMAIN x : x[k].trend \in {-1, 0, 1}
  /\ Absent \notin ClosedCandles

VARIABLES
  histories,  \* of each timeframe: its closed candles, each with the instant "at"
  instant

setReadsVars == <<histories, instant>>

ReadKeys == 1..(Depth - 2)         \* the set of timeframes k, k + 1, k + 2

-----------------------------------------------------------------------------
(* requirements.py                                                         *)

\* expected_child_shift, 0 for no requirement.
ExpectedShift(p) ==
  CASE p.location = "PREMIUM" -> -p.trend [] p.location = "DISCOUNT" -> p.trend [] OTHER -> 0

\* _confirmation_price: the nearest swing beyond the close, in the direction asked.
ConfirmationPrice(c, shift) ==
  IF c = Absent THEN Absent
  ELSE LET above == {x \in c.highs : x > c.price}
           below == {x \in c.lows : x < c.price}
       IN IF shift > 0 /\ above # {} THEN Min(above)
          ELSE IF shift < 0 /\ below # {} THEN Max(below) ELSE Absent

Signature(p) == <<p.trend, ExpectedShift(p)>>

NoRequirement == [id |-> 0]

LifeEvent(at, id, kind) == [at |-> at, id |-> id, kind |-> kind]

Resolved(life, at, kind) ==
  [life EXCEPT !.pending = NoRequirement, !.events = Append(@, LifeEvent(at, life.pending.id, kind))]

PushParent(given, p) ==
  LET shift == ExpectedShift(p)
      life == IF given.pending # NoRequirement /\ given.pending.signature # Signature(p)
              THEN Resolved(given, p.at, "SUPERSEDED") ELSE given
      carried == IF p.void = Absent THEN life.pending ELSE [life.pending EXCEPT !.void = p.void]
      created == [id |-> life.count + 1, signature |-> Signature(p), trend |-> p.trend,
                  shift |-> shift, void |-> p.void, at |-> p.at,
                  confirm |-> ConfirmationPrice(life.child, shift)]
  IN IF shift = 0 THEN life
     ELSE IF life.pending # NoRequirement
     THEN [life EXCEPT !.pending = carried, !.events = Append(@, LifeEvent(p.at, carried.id, "CARRIED"))]
     ELSE [life EXCEPT !.pending = created, !.count = @ + 1,
                       !.events = Append(@, LifeEvent(p.at, created.id, "CREATED"))]

PastPrice(c, price, direction) ==
  price # Absent /\ IF direction > 0 THEN c.price > price ELSE c.price < price

Breaches(c, r) == PastPrice(c, r.void, -r.trend)

Confirms(c, r) ==
  c.trend = r.shift \/ PastPrice(c, r.confirm, r.shift) \/ (r.confirm # Absent /\ c.price = r.confirm)

PushChild(life, c) ==
  LET r == life.pending
      after == IF r = NoRequirement THEN life
               ELSE IF Breaches(c, r) THEN Resolved(life, c.at, "INVALIDATED")
               ELSE IF Confirms(c, r) THEN Resolved(life, c.at, "CONFIRMED") ELSE life
  IN [after EXCEPT !.child = c]

\* The candle of a timeframe that closed at t, if one did.
ClosedAt(candles, t) == {candles[i] : i \in {j \in DOMAIN candles : candles[j].at = t}}
WithParent(life, closed) == IF closed = {} THEN life ELSE PushParent(life, CHOOSE p \in closed : TRUE)
WithChild(life, closed) == IF closed = {} THEN life ELSE PushChild(life, CHOOSE c \in closed : TRUE)

(* Mutant of Turn: the child before the parent.                            *)
TurnChildFirst(life, h, t) == WithParent(WithChild(life, ClosedAt(h[2], t)), ClosedAt(h[1], t))

(* build_requirement_lifecycle: both histories merged by time, the parent  *)
(* first at equal times.                                                   *)
Turn(life, h, t) == WithChild(WithParent(life, ClosedAt(h[1], t)), ClosedAt(h[2], t))

NewLife == [pending |-> NoRequirement, count |-> 0, child |-> Absent, events |-> <<>>]

Lifecycle(h) ==
  LET life[t \in 0..instant] == IF t = 0 THEN NewLife ELSE Turn(life[t - 1], h, t)
  IN life[instant]

-----------------------------------------------------------------------------
(* state_graph.py                                                          *)

(* Mutant of AsOf: bisect without the step back.                           *)
AsOfNext(candles, t) ==
  LET later == {i \in DOMAIN candles : candles[i].at > t}
  IN IF later # {} THEN candles[Min(later)]
     ELSE IF candles = <<>> THEN Absent ELSE candles[Len(candles)]

\* _state_asof: bisect_right - 1.
AsOf(candles, t) ==
  LET past == {i \in DOMAIN candles : candles[i].at <= t}
  IN IF past = {} THEN Absent ELSE candles[Max(past)]
(* build_set_views: the three roles at t.  run_campaign asks for the       *)
(* closes of the lowest timeframe only.                                    *)
SetView(h, k, t) == [at |-> t, htf |-> AsOf(h[k], t), mtf |-> AsOf(h[k + 1], t), ltf |-> AsOf(h[k + 2], t)]
Views(h, k) == [i \in DOMAIN h[k + 2] |-> SetView(h, k, h[k + 2][i].at)]
AllRoles(v) == Absent \notin {v.htf, v.mtf, v.ltf}

(* CausalMovementLedger: one identity per leg of the finest timeframe, a  *)
(* leg for each candle that turns from the last direction; 0 for None.     *)
LegDirection(finest, i) ==
  LET directed == {j \in 1..i : finest[j].trend # 0}
  IN IF directed = {} THEN 0 ELSE finest[Max(directed)].trend
LegStarts(finest) ==
  {i \in DOMAIN finest : finest[i].trend # 0 /\ finest[i].trend # LegDirection(finest, i - 1)}
Movements(h) ==
  [i \in DOMAIN h[Depth] |->
     IF h[Depth][i].trend = 0 THEN 0 ELSE Cardinality({j \in LegStarts(h[Depth]) : j <= i})]

MovementAt(h, t) ==
  LET past == {i \in DOMAIN h[Depth] : h[Depth][i].at <= t}
  IN IF past = {} THEN 0 ELSE Movements(h)[Max(past)]

(* FractalStateGraph: a node to its successor, and the parent as of each   *)
(* child's close to that child.                                            *)
GraphEdges(h) ==
  LET temporal == UNION {{<<k, h[k][i].at, k, h[k][i + 1].at>> : i \in 1..(Len(h[k]) - 1)} : k \in 1..Depth}
      scale == UNION {{<<k, AsOf(h[k], h[k + 1][i].at).at, k + 1, h[k + 1][i].at>> :
                        i \in {j \in DOMAIN h[k + 1] : AsOf(h[k], h[k + 1][j].at) # Absent}} : k \in 1..(Depth - 1)}
  IN temporal \cup scale

-----------------------------------------------------------------------------
(* consistency.py: what a set asks of its middle timeframe and whether it  *)
(* has it, and what adjacent sets make of each other.                      *)
SetRead(v) ==
  LET shift == IF v.htf = Absent THEN 0 ELSE ExpectedShift(v.htf)
  IN IF v.htf = Absent \/ v.mtf = Absent THEN [status |-> "INSUFFICIENT_COVERAGE", shift |-> 0]
     ELSE [status |-> IF shift = 0 THEN "HTF_UNRESOLVED"
                      ELSE IF v.mtf.trend = shift THEN "MTF_SETUP_FORMED" ELSE "PENDING_MTF_SETUP",
           shift |-> shift]

Verdict(parent, child) ==
  IF \/ parent.status \in {"INSUFFICIENT_COVERAGE", "HTF_UNRESOLVED"}
     \/ child.status = "INSUFFICIENT_COVERAGE" \/ child.shift = 0 THEN "WAITING"
  ELSE IF parent.status = "MTF_SETUP_FORMED" \/ parent.shift = child.shift THEN "ALIGNED"
  ELSE "CONFLICTED"

(* evaluate_cross_set_consistency on the views of sets k and k + 1, each   *)
(* as of the last one at or before t; the verdicts it gives up to t.       *)
LastView(vs, t) ==
  LET past == {i \in DOMAIN vs : vs[i].at <= t} IN IF past = {} THEN Absent ELSE vs[Max(past)]

Verdicts(h, k) ==
  LET parents == Views(h, k)
      children == Views(h, k + 1)
      viewed == UNION {{h[j][i].at : i \in DOMAIN h[j]} : j \in {k + 2, k + 3}}
      both == {t \in viewed : LastView(parents, t) # Absent /\ LastView(children, t) # Absent}
  IN {[at |-> t, verdict |-> Verdict(SetRead(LastView(parents, t)), SetRead(LastView(children, t)))] :
        t \in both}

\* _build_episodes: runs of one verdict, each from the first that is not of an earlier run.
RunFrom(verdicts, v) ==
  {w \in verdicts : w.at >= v.at /\ \A x \in verdicts : x.at \in v.at..w.at => x.verdict = v.verdict}
StartsRun(verdicts, v) == \A u \in verdicts : u.at < v.at => v \notin RunFrom(verdicts, u)
Episode(v, same) ==
  [verdict |-> v.verdict, from |-> v.at, to |-> Max({w.at : w \in same}), n |-> Cardinality(same)]
Episodes(verdicts) ==
  {Episode(v, RunFrom(verdicts, v)) : v \in {u \in verdicts : StartsRun(verdicts, u)}}

-----------------------------------------------------------------------------
(* hypothesis_engine.py                                                    *)
Condition(v) == <<v.htf.trend, v.htf.phase, v.htf.location, v.mtf.trend, v.mtf.phase, v.mtf.location>>
Outcome(c) == <<c.trend, c.phase, c.location>>

(* fit_observations: one for every new candle of the lowest timeframe that *)
(* is not its first.                                                       *)
Observations(vs) ==
  LET new == {i \in DOMAIN vs : AllRoles(vs[i]) /\ vs[i].ltf.serial > 1}
  IN {[at |-> vs[i].ltf.at, condition |-> Condition(vs[i]), outcome |-> Outcome(vs[i].ltf)] : i \in new}

\* infer: what came of the same condition before v.
Inferred(vs, v) ==
  IF ~AllRoles(v) THEN {}
  ELSE {o \in Observations(vs) : o.condition = Condition(v) /\ o.at < v.at}

-----------------------------------------------------------------------------
(* research.py                                                             *)

(* analyze_scale_relationship: each new signature of the parent with the   *)
(* first strictly later close of the child, and what prices did until the  *)
(* parent's next close.                                                    *)
ScaleRows(parents, children) ==
  LET fresh == {i \in DOMAIN parents : i = 1 \/ Outcome(parents[i]) # Outcome(parents[i - 1])}
      later(p) == {j \in DOMAIN children : children[j].at > p.at}
      horizon(i) == IF i < Len(parents) THEN parents[i + 1].at ELSE children[Len(children)].at
      voided(p, i) == p.void # Absent /\ \E j \in later(p) :
                        children[j].at <= horizon(i) /\ PastPrice(children[j], p.void, -p.trend)
  IN {[at |-> parents[i].at, closed |-> i < Len(parents), outcome |-> Outcome(children[Min(later(parents[i]))]),
       invalidated |-> voided(parents[i], i)] : i \in {n \in fresh : later(parents[n]) # {}}}

(* _nested_counts: continuation above, pullback below it, reversal and     *)
(* resumption at the bottom, within one movement.                          *)
Continues(s, v) == IF s = 0 /\ v.htf.phase = "CONTINUATION" /\ v.htf.trend # 0 THEN 1 ELSE s
PullsBack(s, v) == IF s = 1 /\ v.mtf.phase = "PULLBACK" THEN 2 ELSE s
Reverses(s, v) == IF s = 2 /\ v.htf.trend # 0 /\ v.ltf.trend = -v.htf.trend THEN 3 ELSE s
Resumes(s, v) ==
  s = 3 /\ v.htf.trend # 0 /\ v.ltf.trend = v.htf.trend /\ v.mtf.phase = "CONTINUATION"
Nested(acc, move, s, v) ==
  [move |-> move, stage |-> IF Resumes(s, v) THEN 0 ELSE s,
   n |-> IF Resumes(s, v) THEN acc.n + 1 ELSE acc.n]
NestedStep(acc, move, v) ==
  Nested(acc, move,
         Reverses(PullsBack(Continues(IF move # acc.move THEN 0 ELSE acc.stage, v), v), v), v)
NestedCount(h, k) ==
  LET views == Views(h, k)
      nested[i \in 0..Len(h[k + 2])] ==
        IF i = 0 THEN [move |-> -1, stage |-> 0, n |-> 0]
        ELSE IF AllRoles(views[i]) THEN NestedStep(nested[i - 1], MovementAt(h, views[i].at), views[i])
        ELSE nested[i - 1]
  IN nested[Len(h[k + 2])].n

-----------------------------------------------------------------------------
(* Everything the programs say, given histories h.                         *)
SaidOf(h) ==
  LET inferred(vs) == [i \in DOMAIN vs |-> Inferred(vs, vs[i])]
      sets == [k \in ReadKeys |-> Views(h, k)]
  IN [requirements |-> Lifecycle(h).events,
      movements |-> Movements(h),
      views |-> sets,
      verdicts |-> [k \in ReadKeys \ {Depth - 2} |-> Verdicts(h, k)],
      inferred |-> [k \in ReadKeys |-> inferred(sets[k])],
      nested |-> [k \in ReadKeys |-> NestedCount(h, k)],
      edges |-> GraphEdges(h),
      rows |-> {r \in ScaleRows(h[1], h[2]) : r.closed}]

SetReadsInit == histories = [k \in 1..Depth |-> <<>>] /\ instant = 0

(* One instant of UniversalTimeframeStateEngine: the candles that close.   *)
CloseCandles(x) ==
  /\ instant < MaxInstants
  /\ instant' = instant + 1
  /\ histories' = [k \in 1..Depth |->
       IF k \notin DOMAIN x THEN histories[k]
       ELSE Append(histories[k], ClosedCandle(x[k], instant', Len(histories[k]) + 1))]

SetReadsNext == \E x \in Instants : CloseCandles(x)
SetReadsSpec == SetReadsInit /\ [][SetReadsNext]_setReadsVars

-----------------------------------------------------------------------------
(* "prefix-built and full-built lifecycles are identical" (requirements.py)*)
(* and "using only observations before as_of" (hypothesis_engine.py): new  *)
(* candles add to what the programs say and change nothing of it.          *)
Grows(was, is) == DOMAIN was \subseteq DOMAIN is /\ \A i \in DOMAIN was : is[i] = was[i]
GrowsLater(was, is) == was \subseteq is /\ \A new \in is \ was, old \in was : old.at < new.at
KeepsEpisodes(was, is) == \A e \in Episodes(was) : (\E v \in was : v.at > e.to) => e \in Episodes(is)
OnlyAdds(before, after) ==
  /\ Grows(before.requirements, after.requirements)
  /\ Grows(before.movements, after.movements)
  /\ \A k \in ReadKeys : /\ Grows(before.views[k], after.views[k])
                         /\ Grows(before.inferred[k], after.inferred[k])
                         /\ before.nested[k] <= after.nested[k]
  /\ \A k \in ReadKeys \ {Depth - 2} :
       /\ GrowsLater(before.verdicts[k], after.verdicts[k])
       /\ KeepsEpisodes(before.verdicts[k], after.verdicts[k])
  /\ before.edges \subseteq after.edges
  /\ before.rows \subseteq after.rows

\* A history without the candle of this instant.
Until(s) == IF s # <<>> /\ s[Len(s)].at = instant THEN SubSeq(s, 1, Len(s) - 1) ELSE s
NothingRewritten == OnlyAdds(SaidOf([k \in 1..Depth |-> Until(histories[k])]), SaidOf(histories))

(* The price known at t to void what parent p asks for, the level frozen   *)
(* when p asked, and what ends it: at 2t a parent, at 2t + 1 a child.      *)
Parents == {histories[1][i] : i \in DOMAIN histories[1]}
Children == {histories[2][i] : i \in DOMAIN histories[2]}
ParentAt(t) == CHOOSE p \in Parents : p.at = t
VoidAt(p, t) ==
  LET known == {q.at : q \in {r \in Parents : r.at \in p.at..t /\ r.void # Absent}}
  IN IF known = {} THEN Absent ELSE ParentAt(Max(known)).void
Frozen(p) == ConfirmationPrice(AsOf(histories[2], p.at - 1), ExpectedShift(p))
Voids(c, p) == PastPrice(c, VoidAt(p, c.at), -p.trend)
Grants(c, p) == ~Voids(c, p) /\ Confirms(c, [shift |-> ExpectedShift(p), confirm |-> Frozen(p)])
Due(p) ==
  {<<2 * q.at, "SUPERSEDED">> : q \in {r \in Parents : r.at > p.at /\ Signature(r) # Signature(p)}}
  \cup {<<2 * c.at + 1, "INVALIDATED">> : c \in {d \in Children : d.at >= p.at /\ Voids(d, p)}}
  \cup {<<2 * c.at + 1, "CONFIRMED">> : c \in {d \in Children : d.at >= p.at /\ Grants(d, p)}}

(* The earliest of the due ends, and whether the recorded end is that one. *)
FirstCause(due) == CHOOSE e \in due : \A f \in due : e[1] <= f[1]
EndsWith(end, id, due, open) ==
  IF due = {} THEN end = {} /\ open.id = id
  ELSE LET cause == FirstCause(due) IN end = {[at |-> cause[1] \div 2, id |-> id, kind |-> cause[2]]}
Made(events) == {i \in DOMAIN events : events[i].kind = "CREATED"}
EndOf(events, id) ==
  {events[i] : i \in {j \in DOMAIN events : events[j].id = id /\ events[j].kind \notin {"CREATED", "CARRIED"}}}

(* A requirement ends with the first of: a parent that asks for something  *)
(* else, a child that closed beyond the latest price known to void it, a   *)
(* child that has the trend asked for or has crossed the level frozen at   *)
(* its creation.                                                           *)
ResolvedByFirstCause ==
  LET life == Lifecycle(histories)
  IN \A i \in Made(life.events) :
       EndsWith(EndOf(life.events, life.events[i].id), life.events[i].id,
                Due(ParentAt(life.events[i].at)), life.pending)

(* Adjacent sets "share one bridge timeframe" (consistency.py): the middle *)
(* of one and the top of the next are the same candle, unless that candle  *)
(* closed without the lowest timeframe of one of the sets, when the view   *)
(* of that set is older.                                                   *)
BridgeShared ==
  \A k \in ReadKeys \ {Depth - 2}, t \in 1..instant :
    LET upper == LastView(Views(histories, k), t)
        lower == LastView(Views(histories, k + 1), t)
        alone(b) == \E j \in {k + 2, k + 3} : \A i \in DOMAIN histories[j] : histories[j][i].at # b.at
    IN upper # Absent /\ lower # Absent /\ upper.mtf # lower.htf =>
         \E b \in {upper.mtf, lower.htf} : b # Absent /\ alone(b)

(* What fractal_engine says of an instant is final, follows the first      *)
(* cause and speaks of one bridge.                                         *)
ReadsAreCausal ==
  NothingRewritten /\ ResolvedByFirstCause /\ BridgeShared
===============================================================================
