--------------------------- MODULE ReferenceBook ----------------------------
(***************************************************************************)
(* The readable book, reference_book.hpp: an order map, per-level FIFOs    *)
(* with redundant aggregates, the counters of surprising conditions, and   *)
(* the crossing gate that looks at the book after each message.            *)
(*                                                                         *)
(* One action per handler.  A handler's book effect is a function from     *)
(* books to books, so that a replace is the erase and the add it performs. *)
(***************************************************************************)
EXTENDS CrossingGate, Integers, Sequences, FiniteSetsExt

CONSTANTS
  Refs,       \* order reference numbers
  Prices,     \* Price(4) prices
  MaxShares,  \* largest share count of one message
  MaxAdds,    \* bound of the model: 'A' and 'F' messages
  MaxOrphans  \* bound of the model: messages naming no live order

ASSUME ReferenceBookAssumption ==
  /\ Prices \subseteq Nat /\ IsFiniteSet(Prices)
  /\ {MaxShares, MaxAdds, MaxOrphans} \subseteq Nat

VARIABLES
  orders,      \* orders_: live reference -> RefOrder
  levels,      \* the RefLevel of every present (locate, side, price)
  counters,    \* the book's share of RefCounters
  seen         \* history: the 'A'/'F' and 'D' messages of the feed

refVars == <<orders, levels, counters, seen>>
vars == <<refVars, gateVars>>

Sides == {"B", "S"}
Shares == 1..MaxShares
Reducers == {"E", "C", "X"}
Orphans == Reducers \cup {"D", "U"}

RefOrder == [locate : Locates, side : Sides, price : Prices, shares : Shares]
LevelKey == Locates \X Sides \X Prices
Key(o) == <<o.locate, o.side, o.price>>

TypeOK ==
  /\ GateTypeOK
  /\ DOMAIN orders \subseteq Refs
  /\ \A r \in DOMAIN orders : orders[r] \in RefOrder
  /\ DOMAIN levels \subseteq LevelKey
  /\ \A k \in DOMAIN levels :
       levels[k] \in [shares : Int, orders : Nat, fifo : Seq(Refs)]
  /\ counters \in [orphan : [Orphans -> Nat], duplicate_add : Nat,
                   removed_at_zero : Nat, over_execute : Nat, missing_level : Nat]
  /\ seen \in [{"A", "D"} -> Nat]

Init ==
  /\ GateInit
  /\ orders = <<>>
  /\ levels = <<>>
  /\ counters = [orphan |-> [m \in Orphans |-> 0], duplicate_add |-> 0,
                 removed_at_zero |-> 0, over_execute |-> 0, missing_level |-> 0]
  /\ seen = [m \in {"A", "D"} |-> 0]

----------------------------------------------------------------------------
(* The book operations, on b = [orders, levels].                           *)

Now == [orders |-> orders, levels |-> levels]

Put(f, x, v) == [y \in DOMAIN f \cup {x} |-> IF y = x THEN v ELSE f[y]]
Drop(f, x)   == [y \in DOMAIN f \ {x} |-> f[y]]

\* RefOrder::slot, the order's node in its level's list.
Slot(fifo, ref) == CHOOSE i \in 1..Len(fifo) : fifo[i] = ref

\* std::list::erase
EraseAt(fifo, i) ==
  [j \in 1..Len(fifo) - 1 |-> IF j < i THEN fifo[j] ELSE fifo[j + 1]]

EmptyLevel == [shares |-> 0, orders |-> 0, fifo |-> <<>>]

\* A mutant: an emptied level is kept.
LevelErased_Kept(lvls, k, o, ref) ==
  [lvls EXCEPT ![k] = [shares |-> @.shares - o.shares, orders |-> @.orders - 1,
                       fifo |-> EraseAt(@.fifo, Slot(@.fifo, ref))]]

\* A mutant: the level's shares are left alone when an order leaves it.
LevelErased_SharesStay(lvls, k, o, ref) ==
  IF Len(lvls[k].fifo) = 1 THEN Drop(lvls, k)
  ELSE [lvls EXCEPT ![k] = [shares |-> @.shares, orders |-> @.orders - 1,
                            fifo |-> EraseAt(@.fifo, Slot(@.fifo, ref))]]

\* The level after one of its orders is taken out; an emptied level is dropped.
LevelErased(lvls, k, o, ref) ==
  IF Len(lvls[k].fifo) = 1 THEN Drop(lvls, k)
  ELSE [lvls EXCEPT ![k] = [shares |-> @.shares - o.shares, orders |-> @.orders - 1,
                            fifo |-> EraseAt(@.fifo, Slot(@.fifo, ref))]]

\* erase(): an order whose level is absent leaves the order map all the same.
Erase(b, ref) ==
  LET o == b.orders[ref]
  IN [orders |-> Drop(b.orders, ref),
      levels |-> IF Key(o) \in DOMAIN b.levels
                 THEN LevelErased(b.levels, Key(o), o, ref) ELSE b.levels]

\* remove(): FALSE for a reference that names no live order.
Removed(b, ref) == IF ref \in DOMAIN b.orders THEN Erase(b, ref) ELSE b

\* A mutant: the newcomer is put at the front of the list.
Added_AtFront(b, ref, o) ==
  LET c   == Removed(b, ref)
      lvl == IF Key(o) \in DOMAIN c.levels THEN c.levels[Key(o)] ELSE EmptyLevel
  IN [orders |-> Put(c.orders, ref, o),
      levels |-> Put(c.levels, Key(o),
                     [shares |-> lvl.shares + o.shares, orders |-> lvl.orders + 1,
                      fifo |-> <<ref>> \o lvl.fifo])]

\* add_retained(): a live duplicate is removed, the newcomer joins the back.
Added(b, ref, o) ==
  LET c   == Removed(b, ref)
      lvl == IF Key(o) \in DOMAIN c.levels THEN c.levels[Key(o)] ELSE EmptyLevel
  IN [orders |-> Put(c.orders, ref, o),
      levels |-> Put(c.levels, Key(o),
                     [shares |-> lvl.shares + o.shares, orders |-> lvl.orders + 1,
                      fifo |-> Append(lvl.fifo, ref)])]

\* Shares actually taken by execute(): never more than are resting.
Taken(o, qty) == IF qty > o.shares THEN o.shares ELSE qty

MissingLevel(b, ref) == Key(b.orders[ref]) \notin DOMAIN b.levels

\* The deduction of execute(), before it looks for zero.
Deducted(b, ref, qty) ==
  [b EXCEPT !.orders[ref].shares = @ - qty,
            !.levels[Key(b.orders[ref])].shares = @ - qty]

\* A mutant: the order at zero waits for its delete.
Executed_StaysAtZero(b, ref, qty) == Deducted(b, ref, Taken(b.orders[ref], qty))

\* execute(): an order reaching zero is removed here, not on a later delete.
Executed(b, ref, qty) ==
  LET d == Deducted(b, ref, Taken(b.orders[ref], qty))
  IN IF MissingLevel(b, ref) THEN [b EXCEPT !.orders = Drop(@, ref)]
     ELSE IF d.orders[ref].shares = 0 THEN Erase(d, ref) ELSE d

----------------------------------------------------------------------------
(* The best prices, as check_bbo sees them.                                *)

SidePrices(lvls, l, side) == {p \in Prices : <<l, side, p>> \in DOMAIN lvls}
BestBid(lvls, l) == CHOOSE p \in SidePrices(lvls, l, "B") :
                      \A q \in SidePrices(lvls, l, "B") : q <= p
BestAsk(lvls, l) == CHOOSE p \in SidePrices(lvls, l, "S") :
                      \A q \in SidePrices(lvls, l, "S") : p <= q

Relation(lvls, l) ==
  IF SidePrices(lvls, l, "B") = {} \/ SidePrices(lvls, l, "S") = {} THEN "open"
  ELSE IF BestBid(lvls, l) > BestAsk(lvls, l) THEN "crossed"
  ELSE IF BestBid(lvls, l) = BestAsk(lvls, l) THEN "locked"
  ELSE "clean"

\* The bound of the model on the gate's counters.
WithinSeen(g) == \A k \in Kinds : g.observations[k] <= MaxSeen

\* check_bbo(l, ts), on the levels there are when it is called.
Checked(lvls, l, ts) ==
  /\ trading' = TradingAfterCheck(trading, l, ts, Relation(lvls, l))
  /\ gate' = GateAfterCheck(trading, gate, l, ts, Relation(lvls, l))
  /\ WithinSeen(gate')

\* The two checks of a replace, one after the other: add_retained's on the
\* order's own symbol, then the handler's on the symbol the message names.
CheckedTwice(first, own, second, named, ts) ==
  LET r1 == Relation(first, own)
      r2 == Relation(second, named)
      t1 == TradingAfterCheck(trading, own, ts, r1)
  IN /\ trading' = TradingAfterCheck(t1, named, ts, r2)
     /\ gate' = GateAfterCheck(t1, GateAfterCheck(trading, gate, own, ts, r1), named, ts, r2)
     /\ WithinSeen(gate')

----------------------------------------------------------------------------
(* The handlers.                                                           *)

Install(b) == orders' = b.orders /\ levels' = b.levels

CountIf(n, condition) == IF condition THEN n + 1 ELSE n

\* RefCounters::orphans()
AllOrphans == counters.orphan["E"] + counters.orphan["C"] + counters.orphan["X"]
              + counters.orphan["D"] + counters.orphan["U"]

\* A message that names no live order: counted by its type, nothing else.
Orphaned(m) ==
  /\ AllOrphans < MaxOrphans
  /\ counters' = [counters EXCEPT !.orphan[m] = @ + 1]
  /\ Install(Now)

\* on(StockTradingAction) and on(OperationalHalt) leave the book alone.
TradingStatus ==
  /\ \E l \in Locates :
       \/ \E code \in StateCodes, ts \in Timestamps : StockTradingAction(l, code, ts)
       \/ \E act \in {"H", "T"} : OperationalHalt(l, TRUE, act)
  /\ UNCHANGED refVars

\* on(AddOrder), on(AddOrderMpid): attribution has no book effect.
AddOrder(ref, o, ts) ==
  /\ seen["A"] < MaxAdds
  /\ seen' = [seen EXCEPT !["A"] = @ + 1]
  /\ counters' = [counters EXCEPT !.duplicate_add = CountIf(@, ref \in DOMAIN orders)]
  /\ LET b == Added(Now, ref, o)
     IN Install(b) /\ Checked(b.levels, o.locate, ts)

\* on(OrderExecuted), on(OrderExecutedPrice), on(OrderCancel): one effect,
\* three orphan counters.  check_bbo looks at the symbol the message names.
ReduceOrder(m, l, ref, qty, ts) ==
  /\ IF ref \in DOMAIN orders
     THEN /\ counters' = [counters EXCEPT
               !.over_execute = CountIf(@, qty > orders[ref].shares),
               !.missing_level = CountIf(@, MissingLevel(Now, ref)),
               !.removed_at_zero =
                  CountIf(@, qty >= orders[ref].shares /\ ~MissingLevel(Now, ref))]
          /\ LET b == Executed(Now, ref, qty)
             IN Install(b) /\ Checked(b.levels, l, ts)
     ELSE Orphaned(m) /\ Checked(levels, l, ts)
  /\ UNCHANGED seen

\* on(OrderDelete)
DeleteOrder(l, ref, ts) ==
  /\ IF ref \in DOMAIN orders
     THEN LET b == Erase(Now, ref)
          IN Install(b) /\ Checked(b.levels, l, ts) /\ UNCHANGED counters
     ELSE Orphaned("D") /\ Checked(levels, l, ts)
  /\ seen' = [seen EXCEPT !["D"] = @ + 1]

\* on(OrderReplace) with an unknown old reference returns at once.
ReplaceUnknown(old) ==
  /\ old \notin DOMAIN orders
  /\ Orphaned("U")
  /\ UNCHANGED <<seen, gateVars>>

\* A mutant: the first check runs between the removal and the add.
ReplaceOrder_ChecksBetween(l, old, new, price, shares, ts) ==
  /\ old \in DOMAIN orders
  /\ LET b == Erase(Now, old)
         o == [orders[old] EXCEPT !.price = price, !.shares = shares]
         c == Added(b, new, o)
     IN /\ counters' = [counters EXCEPT !.duplicate_add = CountIf(@, new \in DOMAIN b.orders)]
        /\ Install(c)
        /\ CheckedTwice(b.levels, o.locate, c.levels, l, ts)
  /\ UNCHANGED seen

\* on(OrderReplace): side and symbol are retained from the old order.  The
\* removal checks nothing; the add and then the handler look at the inside.
ReplaceOrder(l, old, new, price, shares, ts) ==
  /\ old \in DOMAIN orders
  /\ LET b == Erase(Now, old)
         o == [orders[old] EXCEPT !.price = price, !.shares = shares]
         c == Added(b, new, o)
     IN /\ counters' = [counters EXCEPT !.duplicate_add = CountIf(@, new \in DOMAIN b.orders)]
        /\ Install(c)
        /\ CheckedTwice(c.levels, o.locate, c.levels, l, ts)
  /\ UNCHANGED seen

\* on(CrossTrade) has no book effect; on(Trade), on(BrokenTrade) have none at
\* all, and neither has on(SystemEvent): the book goes on after its 'E'.
CrossTrade(l, ts) == CrossTradeGate(l, ts) /\ UNCHANGED refVars

BookMessage(l, ts) ==
  \/ \E ref \in Refs, side \in Sides, price \in Prices, shares \in Shares :
       AddOrder(ref, [locate |-> l, side |-> side, price |-> price, shares |-> shares], ts)
  \/ \E m \in Reducers, ref \in Refs, qty \in Shares : ReduceOrder(m, l, ref, qty, ts)
  \/ \E ref \in Refs : DeleteOrder(l, ref, ts)
  \/ \E old, new \in Refs, price \in Prices, shares \in Shares :
       ReplaceOrder(l, old, new, price, shares, ts)
  \/ CrossTrade(l, ts)

Next ==
  \/ TradingStatus
  \/ \E old \in Refs : ReplaceUnknown(old)
  \/ \E l \in Locates, ts \in Timestamps : BookMessage(l, ts)

Spec == Init /\ [][Next]_vars

----------------------------------------------------------------------------
(* Properties.                                                             *)

Positions(fifo) == 1..Len(fifo)

\* check_invariants(), and what it leaves out.  Every entry of a level's FIFO
\* is a live order of that level, no level is empty, and its order count is
\* the length of its FIFO; no order is queued twice; and, which the code does
\* not check, no live order is missing from its level.
LevelIsSound(k) ==
  LET lvl == levels[k]
  IN /\ lvl.fifo # <<>> /\ lvl.orders = Len(lvl.fifo)
     /\ \A i \in Positions(lvl.fifo) :
          lvl.fifo[i] \in DOMAIN orders /\ Key(orders[lvl.fifo[i]]) = k
     /\ \A i, j \in Positions(lvl.fifo) : lvl.fifo[i] = lvl.fifo[j] => i = j

OrderIsQueued(r) ==
  /\ Key(orders[r]) \in DOMAIN levels
  /\ \E i \in Positions(levels[Key(orders[r])].fifo) : levels[Key(orders[r])].fifo[i] = r

QueuesMatchOrders ==
  /\ \A k \in DOMAIN levels : LevelIsSound(k)
  /\ \A r \in DOMAIN orders : OrderIsQueued(r)

\* check_invariants(): a level's share count is the sum over its orders, and
\* no order rests with nothing left.
AggregatesMatch ==
  /\ \A k \in DOMAIN levels :
       levels[k].shares = MapThenSumSet(LAMBDA r : orders[r].shares,
                                        {r \in DOMAIN orders : Key(orders[r]) = k})
  /\ \A r \in DOMAIN orders : orders[r].shares > 0

\* The branch of execute() that meets an order without a level, counted as an
\* internal inconsistency, is never taken.
NeverInconsistent == counters.missing_level = 0

\* Every order that entered is accounted for once: it rests, or was executed
\* or cancelled to zero, or deleted, or superseded by a duplicate.  A replace
\* that finds its order takes one out and puts one in.
LifecycleReconciles ==
  seen["A"] = Cardinality(DOMAIN orders) + counters.removed_at_zero
              + (seen["D"] - counters.orphan["D"]) + counters.duplicate_add

\* The gate keeps up with the book, though it looks at one or two symbols after
\* a message, a removal is not looked at, and the symbol a message names need not
\* be its order's.  A symbol whose best prices are crossed or locked now has been
\* reported as such; and a reopening window closes only by a cross of its symbol,
\* at the cap, or on a book that is uncrossed when the message is over, never on
\* what a replace passes through.
EveryCrossIsReported ==
  \A l \in Locates :
    Relation(levels, l) \in Kinds => l \in gate.symbols["crossed"] \cup gate.symbols["locked"]

ClosesForCause(l) ==
  \/ Relation(levels', l) = "clean"
  \/ gate'.capped > gate.capped
  \/ \E ts \in Timestamps : CrossTrade(l, ts)

GateKeepsUp ==
  [][/\ EveryCrossIsReported'
     /\ \A l \in Locates : trading[l].awaiting /\ ~trading'[l].awaiting => ClosesForCause(l)]_vars

\* The abstract book: an order's queue position is the set of orders before it
\* in its level's FIFO.
OrdersAhead(r) ==
  LET fifo == levels[Key(orders[r])].fifo
  IN {fifo[j] : j \in 1..Slot(fifo, r) - 1}
Abstract == INSTANCE OrderBook WITH
  resting <- orders, ahead <- [r \in DOMAIN orders |-> OrdersAhead(r)]

\* ReferenceBook implements OrderBook: every handler is an arrival, a
\* reduction, a departure, a replace, or leaves the book alone.
ImplementsOrderBook == Abstract!Spec
=============================================================================
