------------------------------ MODULE QueueSim ------------------------------
(***************************************************************************)
(* The queue simulator, queue_sim.hpp: synthetic orders placed at the      *)
(* inside on a random schedule, each followed under five models of the     *)
(* queue ahead of it until it fills or expires.                            *)
(*                                                                         *)
(* The simulator is one record, sim, and every private function of the     *)
(* class is a function from such records to such records (or, where the    *)
(* generator draws, to a set of them).  Shares ahead are exact rationals:  *)
(* the proportional model removes fractions.                               *)
(***************************************************************************)
EXTENDS SessionFeed, Sequences

CONSTANTS
  TimerPlacement, \* timer_placement: the simulator places on its own schedule
  Horizons,       \* horizons_ns
  Gaps,           \* what sample_gap() may draw
  StartOfTrading, \* start_ns
  EndOfTrading,   \* end_ns
  MaxLife,        \* max_life_ns
  SweepEvery,     \* kSweepNs
  RefreshEvery,   \* kUniverseRefreshNs
  CatchUpLimit,   \* the 64 placements one tick may make
  DepthEdge,      \* the edge between the two depth buckets kept here
  MaxPlacements   \* bound of the model: synthetic orders of a session

ASSUME QueueSimAssumption ==
  /\ TimerPlacement \in BOOLEAN
  /\ Horizons \subseteq Nat \ {0} /\ IsFiniteSet(Horizons) /\ Gaps \subseteq Nat \ {0}
  /\ {StartOfTrading, EndOfTrading, MaxLife, RefreshEvery, DepthEdge,
      MaxPlacements} \subseteq Nat
  /\ {SweepEvery, CatchUpLimit} \subseteq Nat \ {0}

VARIABLES
  sim,    \* the QueueSimulator
  rule4   \* cfg_.rule4_non_displayed_fills

simVars == <<sim, rule4>>
queueVars == <<feedVars, simVars>>

Models == {"exact", "conservative", "optimistic", "proportional", "bernoulli"}
ByPrice == Models \ {"exact"}
FillReasons == {"execution_behind", "trade_through", "non_displayed_print"}
Reasons == FillReasons \cup {"expired"}
Buckets == {"shallow", "deep"}

\* depth_bucket()
DepthBucket(shares) == IF shares < DepthEdge THEN "shallow" ELSE "deep"

----------------------------------------------------------------------------
(* Shares ahead, as <<numerator, denominator>> in lowest terms.            *)

Divides(d, n) == n % d = 0
LowestTerms(n, d) ==
  LET g == CHOOSE k \in 1..d : /\ Divides(k, n) /\ Divides(k, d)
                               /\ \A j \in 1..d : Divides(j, n) /\ Divides(j, d) => j <= k
  IN <<n \div g, d \div g>>
Whole(n) == <<n, 1>>
AtMost(x, y) == x[1] * y[2] <= y[1] * x[2]

\* Subtract and stop at zero.
Less(x, qty) == IF x[1] <= qty * x[2] THEN Whole(0) ELSE <<x[1] - qty * x[2], x[2]>>

----------------------------------------------------------------------------
(* One synthetic order, its models and what one event does to them.        *)

Live(o, m) == o.models[m].live
AnyLive(o) == \E m \in Models : Live(o, m)

Filled(model, why) == [model EXCEPT !.live = FALSE, !.reason = why]

\* fill_all_live() and its refresh_live()
FilledUnderAll(o, why) ==
  [o EXCEPT !.models = [m \in Models |-> IF Live(o, m) THEN Filled(o.models[m], why)
                                         ELSE o.models[m]],
            !.any_live = FALSE]

\* expire()
Expired(o) == FilledUnderAll(o, "expired")

\* Rules 1 and 2 with the order references known: the executed order is ahead
\* or it is not.  r is the order as it was resolved before the message.
ExactAfterExecution(o, ref, qty) ==
  LET s == o.models["exact"]
  IN IF ~s.live THEN s
     ELSE IF ref \in o.ahead_refs THEN [s EXCEPT !.ahead = Less(@, qty)]
     ELSE Filled(s, "execution_behind")

\* Rules 1 and 2 as volume at the price shows them.
ModelAfterExecution(s, qty) ==
  IF ~s.live THEN s
  ELSE IF s.ahead = Whole(0) THEN Filled(s, "execution_behind")
  ELSE [s EXCEPT !.ahead = Less(@, qty)]

\* A mutant: any reduction of an order ahead strikes it from the set.
AheadRefsAfter_Partial(o, ref, resolved, qty) ==
  IF Live(o, "exact") THEN o.ahead_refs \ {ref} ELSE o.ahead_refs

\* A mutant: an order reduced to exactly nothing stays in the set.
AheadRefsAfter_OffByOne(o, ref, resolved, qty) ==
  IF Live(o, "exact") /\ qty > resolved.shares THEN o.ahead_refs \ {ref}
  ELSE o.ahead_refs

\* The executed or cancelled reference leaves the set once nothing is left of
\* it, and only while the exact model is followed.
AheadRefsAfter(o, ref, resolved, qty) ==
  IF Live(o, "exact") /\ qty >= resolved.shares THEN o.ahead_refs \ {ref}
  ELSE o.ahead_refs

\* on_execution(), for one synthetic order of the executed order's symbol.
AfterExecution(o, ref, resolved, qty) ==
  IF ~o.any_live \/ o.side # resolved.side THEN o
  ELSE IF WorseThan(o.side, resolved.price, o.price) THEN FilledUnderAll(o, "trade_through")
  ELSE IF resolved.price # o.price THEN o
  ELSE LET models == [m \in Models |->
                        IF m = "exact" THEN ExactAfterExecution(o, ref, qty)
                        ELSE ModelAfterExecution(o.models[m], qty)]
       IN [o EXCEPT !.models = models,
                    !.ahead_refs = AheadRefsAfter(o, ref, resolved, qty),
                    !.any_live = \E m \in Models : models[m].live]

\* A mutant: the exact model takes every cancel for one ahead of it.
ModelAfterCancel_AllAhead(o, m, wasAhead, qty, before, coin) ==
  LET s == o.models[m]
  IN IF ~s.live \/ m = "optimistic" THEN s
     ELSE [s EXCEPT !.ahead = Less(@, qty)]

\* How each model attributes a cancel of qty, out of a level it believes held
\* `before` shares.  The coin is the Bernoulli draw.
ModelAfterCancel(o, m, wasAhead, qty, before, coin) ==
  LET s == o.models[m]
  IN IF ~s.live THEN s
     ELSE [s EXCEPT !.ahead =
             CASE m = "exact"        -> IF wasAhead THEN Less(@, qty) ELSE @
               [] m = "conservative" -> @
               [] m = "optimistic"   -> Less(@, qty)
               [] m = "proportional" -> LowestTerms(@[1] * (before - qty), @[2] * before)
               [] m = "bernoulli"    -> IF coin THEN Less(@, qty) ELSE @]

\* Sampler::bernoulli(ahead, before): certain at either end, else a draw.
Coins(o, before) ==
  LET a == o.models["bernoulli"].ahead[1]
  IN IF a = 0 THEN {FALSE} ELSE IF a >= before THEN {TRUE} ELSE BOOLEAN

AtLevel(o, resolved) ==
  o.locate = resolved.locate /\ o.side = resolved.side /\ o.price = resolved.price

\* The level's depth as on_cancel() reconstructs it: what the book holds there
\* now that the message has been applied, and the removed shares.
DepthBefore(bk, o, qty) == Depth(bk, o.locate, o.side, o.price) + qty

\* on_cancel(), for one synthetic order: every outcome of its draw.
AfterCancel(bk, o, ref, resolved, qty) ==
  IF ~o.any_live \/ ~AtLevel(o, resolved) THEN {o}
  ELSE LET before == DepthBefore(bk, o, qty)
           wasAhead == ref \in o.ahead_refs
       IN {[o EXCEPT !.models = [m \in Models |->
                                   ModelAfterCancel(o, m, wasAhead, qty, before, coin)],
                     !.ahead_refs = AheadRefsAfter(o, ref, resolved, qty)] :
             coin \in Coins(o, before)}

\* on(Trade), rule 4: a print at exactly the order's price, whatever its side.
AfterPrint(o, price) ==
  IF ~o.any_live \/ o.price # price THEN o ELSE FilledUnderAll(o, "non_displayed_print")

----------------------------------------------------------------------------
(* The simulator.                                                          *)

NoResults == [placed  |-> [k \in Locates \X Buckets |-> 0],
              filled  |-> [k \in Locates \X Buckets |-> 0],
              reasons |-> [w \in Reasons |-> 0],
              valued  |-> 0]

NewSimulator ==
  [live |-> <<>>, by_locate |-> [l \in Locates |-> <<>>], pending |-> {},
   two_sided |-> {}, universe_refreshed |-> 0, next_placement |-> StartOfTrading,
   last_ts |-> 0, last_sweep |-> 0, placements |-> 0, skipped |-> 0, overrun |-> 0,
   res |-> [m \in Models |-> NoResults], finished |-> FALSE]

Key(o) == <<o.locate, DepthBucket(o.depth)>>

\* The <<position, model>> pairs an event took out of play, for this reason.
Retired(before, after, m, why) ==
  {i \in DOMAIN before : /\ Live(before[i], m) /\ ~Live(after[i], m)
                         /\ after[i].models[m].reason = why}
FilledNow(before, after, m) == UNION {Retired(before, after, m, w) : w \in FillReasons}

\* The valuations a fill leaves behind, one per horizon.
Valuations(o, m, ts) ==
  {[id |-> o.id, model |-> m, horizon |-> h, locate |-> o.locate, due |-> ts + h] :
     h \in Horizons}

\* A model's results by reason and by symbol and depth.
Tallied(r, before, after, m) ==
  [r EXCEPT !.reasons = [w \in Reasons |-> @[w] + Cardinality(Retired(before, after, m, w))],
            !.filled  = [k \in Locates \X Buckets |-> @[k] +
               Cardinality({i \in FilledNow(before, after, m) : Key(after[i]) = k})]]

\* What fill() and expire() do besides ending the model's interest: results and
\* the valuations to come.
Booked(s, after, ts) ==
  IF after = s.live THEN s
  ELSE [s EXCEPT
          !.live = after,
          !.res = [m \in Models |-> Tallied(@[m], s.live, after, m)],
          !.pending = @ \cup UNION {UNION {Valuations(after[i], m, ts) :
                                             i \in FilledNow(s.live, after, m)} : m \in Models}]

\* The positions at_locate() answers with.
AtLocate(s, l) == {s.by_locate[l][i] : i \in DOMAIN s.by_locate[l]}

\* on(OrderExecuted), on(OrderExecutedPrice): resolved before, attributed after.
OnExecution(s, ref, resolved, qty, ts) ==
  Booked(s, [i \in DOMAIN s.live |->
               IF i \in AtLocate(s, resolved.locate)
               THEN AfterExecution(s.live[i], ref, resolved, qty) ELSE s.live[i]], ts)

\* on(OrderCancel), on(OrderDelete), on(OrderReplace): every live order is
\* visited, and each draws for itself.
OnCancel(s, bk, ref, resolved, qty) ==
  {[s EXCEPT !.live = after] :
     after \in {a \in [DOMAIN s.live -> UNION {AfterCancel(bk, s.live[i], ref, resolved, qty) :
                                                 i \in DOMAIN s.live}] :
                  \A i \in DOMAIN s.live :
                    a[i] \in AfterCancel(bk, s.live[i], ref, resolved, qty)}}

\* on(Trade)
OnPrint(s, l, price, ts) ==
  IF ~rule4 THEN s
  ELSE Booked(s, [i \in DOMAIN s.live |->
                    IF i \in AtLocate(s, l) THEN AfterPrint(s.live[i], price) ELSE s.live[i]], ts)

Positions(live, l) == {i \in DOMAIN live : live[i].locate = l}
Ascending(S) == [k \in 1..Cardinality(S) |->
                   CHOOSE x \in S : Cardinality({y \in S : y < x}) = k - 1]

\* A mutant: the index keeps the positions of before.
Compacted_StaleIndex(s) ==
  LET keep == Ascending({i \in DOMAIN s.live : s.live[i].any_live})
  IN [s EXCEPT !.live = [k \in DOMAIN keep |-> s.live[keep[k]]]]

\* compact(): the survivors keep their order and the index is rebuilt.
Compacted(s) ==
  LET keep == Ascending({i \in DOMAIN s.live : s.live[i].any_live})
      live == [k \in DOMAIN keep |-> s.live[keep[k]]]
  IN [s EXCEPT !.live = live,
               !.by_locate = [l \in Locates |-> Ascending(Positions(live, l))]]

Valued(r, n) == [r EXCEPT !.valued = @ + n]

\* settle(): a fill whose horizon has passed is valued if there is a mid.
Settled(s, bk, ts) ==
  LET due == {p \in s.pending : p.due <= ts}
  IN [s EXCEPT !.pending = @ \ due,
               !.res = [m \in Models |-> Valued(@[m],
                  Cardinality({p \in due : p.model = m /\ TwoSided(bk, p.locate)}))]]

\* A mutant: an order past its life is dropped without being expired.
Swept_Unbooked(s, ts) ==
  IF ts - s.last_sweep < SweepEvery THEN s
  ELSE Compacted([s EXCEPT !.last_sweep = ts, !.live =
         [i \in DOMAIN s.live |->
            IF ts - s.live[i].entered >= MaxLife THEN [s.live[i] EXCEPT !.any_live = FALSE]
            ELSE s.live[i]]])

\* The expiry sweep of tick().
Swept(s, ts) ==
  IF ts - s.last_sweep < SweepEvery THEN s
  ELSE Compacted(Booked([s EXCEPT !.last_sweep = ts],
         [i \in DOMAIN s.live |->
            IF s.live[i].any_live /\ ts - s.live[i].entered >= MaxLife
            THEN Expired(s.live[i]) ELSE s.live[i]], ts))

\* A placement is counted in its symbol's and depth's place.
OneMorePlaced(r, k) == [r EXCEPT !.placed[k] = @ + 1]

\* place_at(): at the inside, behind everything the level holds.
Skipped(s) == [s EXCEPT !.skipped = @ + 1]
PlacedAt(s, bk, l, side, ts) ==
  IF ~TwoSided(bk, l) THEN Skipped(s)
  ELSE LET price == Best(bk, l, side)
           depth == Depth(bk, l, side, price)
           o == [id |-> s.placements, locate |-> l, side |-> side, price |-> price,
                 entered |-> ts, depth |-> depth, ahead_refs |-> Level(bk, l, side, price),
                 any_live |-> TRUE,
                 models |-> [m \in Models |-> [ahead |-> Whole(depth), live |-> TRUE,
                                               reason |-> "none"]]]
       IN [s EXCEPT !.placements = @ + 1,
                    !.res = [m \in Models |-> OneMorePlaced(@[m], Key(o))],
                    !.by_locate[l] = Append(@, Len(s.live) + 1),
                    !.live = Append(@, o)]

\* cancel_symbol(), driven from outside.
SymbolCancelled(s, l, ts) ==
  Compacted(Booked(s, [i \in DOMAIN s.live |->
    IF i \in AtLocate(s, l) /\ s.live[i].any_live THEN Expired(s.live[i]) ELSE s.live[i]], ts))

\* refresh_universe(), when place() asks for it.
Refreshed(s, bk) ==
  IF s.two_sided = {} \/ s.last_ts - s.universe_refreshed > RefreshEvery
  THEN [s EXCEPT !.two_sided = {l \in Locates : TwoSided(bk, l)},
                 !.universe_refreshed = s.last_ts]
  ELSE s

\* place(): a symbol and a side are drawn.
Placements(s, bk, ts) ==
  LET t == Refreshed(s, bk)
  IN IF t.two_sided = {} THEN {Skipped(t)}
     ELSE {PlacedAt(t, bk, l, side, ts) : l \in t.two_sided, side \in Sides}

\* One turn of the placement loop of tick().
PlacementDue(s, ts) == s.next_placement < EndOfTrading /\ ts >= s.next_placement
PlacedOnce(s, bk, ts) ==
  {[p EXCEPT !.next_placement = @ + gap] : p \in Placements(s, bk, ts), gap \in Gaps}

\* The schedule starts again from the clock.
GivenUp(s, ts, gap) == [s EXCEPT !.overrun = @ + 1, !.next_placement = ts + gap]

\* The placement loop: it stops when the schedule is ahead of the clock, or
\* gives the backlog up after CatchUpLimit placements.
PlacementsDone(s, bk, ts) ==
  LET After[n \in 0..CatchUpLimit] ==
        IF n = 0 THEN {s}
        ELSE UNION {PlacedOnce(p, bk, ts) : p \in {q \in After[n - 1] : PlacementDue(q, ts)}}
  IN (UNION {{p \in After[n] : ~PlacementDue(p, ts)} : n \in 0..CatchUpLimit})
     \cup {GivenUp(p, ts, gap) :
             p \in {q \in After[CatchUpLimit] : PlacementDue(q, ts)}, gap \in Gaps}

\* tick(), as far as the placements.
Clocked(s, bk, ts) == Swept(Settled([s EXCEPT !.last_ts = ts], bk, ts), ts)

\* tick(): a timestamp that goes back is ignored.
Ticked(s, bk, ts) ==
  IF ts < s.last_ts THEN {s}
  ELSE IF TimerPlacement THEN PlacementsDone(Clocked(s, bk, ts), bk, ts)
  ELSE {Clocked(s, bk, ts)}

\* The attribution half of the handlers, on the book the message leaves.
Attributed(s, m, bk, ts) ==
  CASE m.type = "E" -> {OnExecution(s, m.ref, resting[m.ref], m.qty, ts)}
    [] m.type = "X" -> OnCancel(s, bk, m.ref, resting[m.ref], m.qty)
    [] m.type \in {"D", "U"} ->
         OnCancel(s, bk, m.ref, resting[m.ref], resting[m.ref].shares)
    [] m.type = "P" -> {OnPrint(s, m.locate, m.price, ts)}
    [] OTHER -> {s}

----------------------------------------------------------------------------
(* The simulator on the feed.                                              *)

\* A message: the book first, then the attribution, then the tick.  Trading
\* status has no handler here.
Handled(s, m, bk, ts) ==
  IF m.type = "H" THEN {s}
  ELSE UNION {Ticked(t, bk, ts) : t \in Attributed(s, m, bk, ts)}

Message(m, ts) ==
  /\ Delivered(m, ts)
  /\ sim' \in Handled(sim, m, resting', ts)
  /\ sim'.placements <= MaxPlacements
  /\ UNCHANGED rule4

\* finish(): everything still live expires; the index is not cleared.
Finish ==
  /\ ~sim.finished
  /\ sim' = [Booked(sim, [i \in DOMAIN sim.live |->
                            IF sim.live[i].any_live THEN Expired(sim.live[i])
                            ELSE sim.live[i]], now)
             EXCEPT !.live = <<>>, !.finished = TRUE]
  /\ UNCHANGED <<feedVars, rule4>>

\* The session is picked up with the tick of the message that completed the
\* opening book.
QueueSimInit ==
  /\ FeedInit
  /\ rule4 \in BOOLEAN
  /\ sim \in Ticked(NewSimulator, resting, now)

QueueSimNext ==
  \/ ~sim.finished /\ \E m \in LegalMessages, d \in Delays : Message(m, now + d)
  \/ Finish
QueueSimSpec == QueueSimInit /\ [][QueueSimNext]_queueVars

----------------------------------------------------------------------------
(* Properties.                                                             *)

InPlay == {i \in DOMAIN sim.live : sim.live[i].any_live}
Sum(S, f(_)) == MapThenSumSet(f, S)
Count(f) == MapThenSumSet(LAMBDA k : f[k], DOMAIN f)

\* The exact model counts the shares that really rest ahead: its number is the
\* sum over its references, each still live at the order's price, and what
\* rests there ahead of one of them is one of them.
ExactCountsTheOrdersAhead ==
  \A i \in InPlay : LET o == sim.live[i] IN Live(o, "exact") =>
    /\ o.ahead_refs \subseteq Level(resting, o.locate, o.side, o.price)
    /\ o.models["exact"].ahead =
         Whole(Sum(o.ahead_refs, LAMBDA r : resting[r].shares))
    /\ \A r \in o.ahead_refs : ahead[r] \subseteq o.ahead_refs

\* The queue as each model sees it is no shorter than the optimistic and no
\* longer than the conservative one's, and a model that sees less ahead has
\* filled no later; the exact model obeys this too when the venue executes in
\* price-time priority, cancels from ahead included, which queue_sim.hpp:52-53
\* gives as the reason why "Exact is not bracketed by the others".
Bracketed(o, m) ==
  /\ Live(o, m) => Live(o, "conservative") /\ AtMost(o.models[m].ahead,
                                                    o.models["conservative"].ahead)
  /\ Live(o, "optimistic") => Live(o, m) /\ AtMost(o.models["optimistic"].ahead,
                                                  o.models[m].ahead)
ModelsAreBracketed ==
  \A i \in DOMAIN sim.live, m \in Models :
    m # "exact" \/ priority => Bracketed(sim.live[i], m)

\* No model believes more is ahead of an order than its whole level holds, so
\* that the fraction cancelled from ahead never exceeds one.
NoMoreAheadThanTheLevel ==
  \A i \in InPlay : LET o == sim.live[i] IN
    Live(o, "proportional") =>
      AtMost(o.models["proportional"].ahead, Whole(Depth(resting, o.locate, o.side, o.price)))

\* What the five models say of one order stays consistent, with one another and
\* with the level, however executions, cancels and draws interleave.
ModelsAreOrdered == ModelsAreBracketed /\ NoMoreAheadThanTheLevel

\* Every placement is accounted for once under every model, in its own symbol
\* and depth bucket: filled, expired, or still in play; and a fill is valued at
\* most once at each horizon.
Unresolved(m, k) == {i \in DOMAIN sim.live : Live(sim.live[i], m) /\ Key(sim.live[i]) = k}
PlacementsReconcile ==
  \A m \in Models : LET r == sim.res[m] IN
    /\ Count(r.placed) = sim.placements
    /\ Count(r.placed) = Count(r.filled) + r.reasons["expired"]
                         + Cardinality({i \in DOMAIN sim.live : Live(sim.live[i], m)})
    /\ \A k \in DOMAIN r.placed :
         r.filled[k] + Cardinality(Unresolved(m, k)) <= r.placed[k]
    /\ r.valued + Cardinality({p \in sim.pending : p.model = m})
         <= Cardinality(Horizons) * Count(r.filled)

\* The positions kept per symbol are exactly that symbol's, through placements
\* and compactions, so that no execution is missed or charged to another
\* symbol's order.
IndexIsExact ==
  ~sim.finished => \A l \in Locates :
    sim.by_locate[l] = Ascending(Positions(sim.live, l))

\* After a message no timer is left behind the clock: no order in play is older
\* than its life and one sweep interval, no valuation is overdue, and the next
\* placement is to come, however long the feed was silent.
TimersKeepUp ==
  /\ \A i \in InPlay : sim.last_ts - sim.live[i].entered < MaxLife + SweepEvery
  /\ \A p \in sim.pending : p.due > sim.last_ts
  /\ \/ sim.next_placement > sim.last_ts
     \/ sim.next_placement >= EndOfTrading
     \/ ~TimerPlacement

\* No order, fill or valuation is lost or outlives its time, whether a fill, a
\* sweep or the end of the session gets to it first.
OrdersAreResolvedInTime == PlacementsReconcile /\ TimersKeepUp

AtTheHead == {i \in InPlay : /\ Live(sim.live[i], "exact")
                            /\ sim.live[i].models["exact"].ahead = Whole(0)}
\* Where the venue keeps priority, the exact model is filled by an execution
\* only with nothing ahead of it.
ExactFillsAtTheFront ==
  [][priority =>
       sim'.res["exact"].reasons["execution_behind"]
         <= sim.res["exact"].reasons["execution_behind"] + Cardinality(AtTheHead)]_queueVars

\* queue_sim.hpp:532-533, "the level's aggregate depth as it stood BEFORE this
\* removal": a cancel of c from a level of d leaves the proportional model the
\* fraction (d - c) / d of what it had ahead.
DenominatorIsTheDepthBefore ==
  [][\A ref \in DOMAIN resting \ DOMAIN resting', i \in InPlay :
       LET o == sim.live[i]
           d == Depth(resting, o.locate, o.side, o.price)
       IN /\ DOMAIN resting' \ DOMAIN resting # {}   \* a replace
          /\ AtLevel(o, resting[ref])
          /\ Live(o, "proportional")
          => \A j \in InPlay' : sim'.live[j].id = o.id =>
               sim'.live[j].models["proportional"].ahead =
                 LowestTerms(o.models["proportional"].ahead[1] * (d - resting[ref].shares),
                             o.models["proportional"].ahead[2] * d)]_queueVars
=============================================================================
