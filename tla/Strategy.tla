------------------------------ MODULE Strategy ------------------------------
(***************************************************************************)
(* The maker strategy, strategy_pnl.cpp: it counts windows of inside       *)
(* updates for itself, and at the close of each it settles the quote of    *)
(* the window before and places one on the side of the queue imbalance,    *)
(* in a queue simulator that it drives.                                    *)
(***************************************************************************)
EXTENDS QueueSim, FeatureExport

VARIABLES
  maker,  \* st, the strategy's state of each symbol
  tally   \* quotes and fills

strategyVars == <<maker, tally>>

NoQuote == [open |-> FALSE, filled |-> FALSE]

NewMaker(in) ==
  [prev |-> in, updates |-> 0, halted |-> FALSE, win_halted |-> FALSE, win_start |-> 0,
   quote |-> NoQuote]

\* The strategy runs the simulator with timer_placement off.
StrategyInit ==
  /\ ~TimerPlacement
  /\ maker = [l \in Locates |-> NewMaker(Inside(resting, l))]
  /\ tally = [quotes |-> 0, fills |-> 0]

\* on_fill: the exact model's fill marks the symbol's open quote.
ExactFill(before, after, l) ==
  \E i \in FilledNow(before, after, "exact") : before[i].locate = l

Notified(k, l, before, after) ==
  IF ExactFill(before, after, l) /\ k.quote.open THEN [k EXCEPT !.quote.filled = TRUE] ELSE k

\* A mutant: a resumption does not mark the window it lands in.
Interrupted_OnlyHalts(k, state) ==
  [k EXCEPT !.halted = (state = "H"), !.win_halted = @ \/ state = "H"]

\* on_trading_action()
Interrupted(k, state) == [k EXCEPT !.halted = (state = "H"), !.win_halted = TRUE]

\* after(): the window's counters at an inside update.
Advanced(k, in, ts) ==
  [k EXCEPT !.prev = in, !.updates = @ + 1,
            !.win_start = IF k.updates = 0 THEN ts ELSE @,
            !.win_halted = @ \/ k.halted]

\* The side the signal favours.
FavouredSide(in) == IF in.bid_qty > in.ask_qty THEN "B" ELSE "S"
HasSide(in) == in.bid_qty # in.ask_qty

\* A mutant: a filled quote is not withdrawn, its other models play on.
Withdrawn_FilledStays(s, k, l, ts) ==
  IF k.quote.open /\ ~k.quote.filled THEN SymbolCancelled(s, l, ts) ELSE s

\* The previous quote leaves the simulator, filled or not.
Withdrawn(s, k, l, ts) == IF k.quote.open THEN SymbolCancelled(s, l, ts) ELSE s

Quotes(k, in, ts) == Usable(k.win_start, k.win_halted, in, ts) /\ HasSide(in)

NewQuote(in) ==
  [open |-> TRUE, filled |-> FALSE, side |-> FavouredSide(in),
   price |-> IF FavouredSide(in) = "B" THEN in.bid ELSE in.ask]

\* after(), once the simulator has applied the message: what the strategy, its
\* tally and the simulator become.
After(k, t, s, bk, l, ts) ==
  LET in   == Inside(bk, l)
      next == Advanced(k, in, ts)
      idle == Withdrawn(s, k, l, ts)
      quotes == Quotes(next, in, ts)
  IN IF ~IsUpdate(k.prev, in) THEN [maker |-> [k EXCEPT !.prev = in], tally |-> t, sim |-> s]
     ELSE IF next.updates < window THEN [maker |-> next, tally |-> t, sim |-> s]
     ELSE [maker |-> [next EXCEPT !.updates = 0, !.win_halted = FALSE,
                                  !.quote = IF quotes THEN NewQuote(in) ELSE NoQuote],
           tally |-> [quotes |-> IF quotes THEN t.quotes + 1 ELSE t.quotes,
                      fills  |-> IF k.quote.open /\ k.quote.filled THEN t.fills + 1
                                 ELSE t.fills],
           sim   |-> IF quotes THEN PlacedAt(idle, bk, l, FavouredSide(in), ts) ELSE idle]

\* The Driver: the simulator takes the message, its callbacks run, then the
\* strategy looks.
StrategyMessage(m, ts) ==
  LET l == LocateOf(m)
  IN IF m.type = "H"
     THEN /\ maker' = [maker EXCEPT ![l] = Interrupted(@, m.state)]
          /\ UNCHANGED <<sim, tally>>
     ELSE \E t \in Attributed(sim, m, resting', ts) :
            \E s \in Ticked(t, resting', ts) :
              LET after == After(Notified(maker[l], l, sim.live, t.live), tally, s,
                                 resting', l, ts)
              IN /\ maker' = [maker EXCEPT ![l] = after.maker]
                 /\ tally' = after.tally
                 /\ sim' = after.sim

----------------------------------------------------------------------------
(* Properties.                                                             *)

\* The strategy's quote and the simulator's order are one thing in two places:
\* an open, unfilled quote is the one synthetic order in play for its symbol,
\* at its side and price and still queued under the exact model; a symbol
\* without an open quote has none.
OrdersOf(l) == {i \in InPlay : sim.live[i].locate = l}
QuoteIsInTheQueue ==
  \A l \in Locates : LET q == maker[l].quote IN
    /\ Cardinality(OrdersOf(l)) <= 1
    /\ ~q.open => OrdersOf(l) = {}
    /\ q.open /\ ~q.filled =>
         \E i \in OrdersOf(l) : LET o == sim.live[i] IN
           Live(o, "exact") /\ o.side = q.side /\ o.price = q.price
    /\ q.filled => \A i \in OrdersOf(l) : ~Live(sim.live[i], "exact")

\* Every fill the registered model reports is settled once: it is in the tally
\* or marked on a quote still open, and every quote was placed.
OpenFills == {l \in Locates : maker[l].quote.filled}
FillsAreSettledOnce ==
  /\ tally.fills + Cardinality(OpenFills) = Count(sim.res["exact"].filled)
  /\ tally.quotes = sim.placements /\ sim.skipped = 0

\* Between a quote, the order placed for it and the fill that ends it, the
\* strategy and the simulator never lose count of one another.
QuotesAreAccountedFor == QuoteIsInTheQueue /\ FillsAreSettledOnce
=============================================================================
