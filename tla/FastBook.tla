------------------------------ MODULE FastBook -------------------------------
(***************************************************************************)
(* The book the benchmarks measure, fast_book.hpp: a pool of orders linked *)
(* by index, per side of a symbol a window of levels in whole cents with a *)
(* bitmap over it, an ordered map for the prices outside, and a window     *)
(* that moves with the side's best price.                                  *)
(*                                                                         *)
(* One action per handler that touches the book.  A handler's effect is a  *)
(* function from books to books, as in ReferenceBook.  The index is the    *)
(* bounded map OrderMap that OrderIndex implements.  Left out: the         *)
(* counters, which nothing here reads, and with them the handlers that     *)
(* only count; and the words of the bitmap, which is the set of its bits.  *)
(***************************************************************************)
EXTENDS Integers, Sequences, FiniteSets, FiniteSetsExt

CONSTANTS
  Refs,        \* order reference numbers
  Locates,     \* the locate codes of the feed
  Symbols,     \* those below max_symbols
  Prices,      \* Price(4) prices, a hundred to the cent
  Sizes,       \* share counts of an arriving order
  MaxShares,   \* largest share count of one message
  PoolSize,    \* max_orders
  IndexLimit,  \* the entries the index takes
  Window,      \* kWindowTicks
  None         \* no symbol

ASSUME FastBookAssumption ==
  /\ Symbols \subseteq Locates /\ None \notin Locates
  /\ Prices \subseteq Nat /\ IsFiniteSet(Prices)
  /\ {MaxShares, PoolSize, IndexLimit, Window} \subseteq Nat /\ Sizes \subseteq 1..MaxShares
  /\ Window >= 8

VARIABLES
  index,    \* index_: live reference -> slot of the pool
  pool,     \* pool_ and refs_
  free,     \* free_head_
  sides,    \* the FastSide of every symbol and side
  checked   \* history: the symbol check_bbo was called for last

vars == <<index, pool, free, sides, checked>>

Sides == {"B", "S"}
Pool == 0..PoolSize - 1
NoOrder == -1
Slots == 0..Window - 1
Margin == Window \div 8      \* kRecenterMargin
Hysteresis == Window \div 8  \* kRecenterHysteresis

FastLevel == [shares : Nat, orders : Nat, head : Pool \cup {NoOrder}, tail : Pool \cup {NoOrder}]
EmptyLevel == [shares |-> 0, orders |-> 0, head |-> NoOrder, tail |-> NoOrder]

\* A slot of the window that holds EmptyLevel is not in the domain of flat.
UnusedSide == [base |-> -1, flat |-> <<>>, occupied |-> {}, overflow |-> <<>>]

\* A record of the pool that is on the free list; release() resets the links
\* and the shares, and what it leaves is overwritten before it is read.
FreeOrder == [ref |-> None, next |-> NoOrder, prev |-> NoOrder, shares |-> 0,
              price |-> 0, locate |-> None, side |-> "B"]
FastOrder == [ref : Refs \cup {None}, next : Pool \cup {NoOrder}, prev : Pool \cup {NoOrder},
              shares : Nat, price : Prices \cup {0}, locate : Symbols \cup {None}, side : Sides]

TypeOK ==
  /\ DOMAIN index \subseteq Refs /\ \A r \in DOMAIN index : index[r] \in Pool
  /\ pool \in [Pool -> FastOrder]
  /\ free \in Pool \cup {NoOrder}
  /\ DOMAIN sides = Symbols \X Sides
  /\ \A k \in DOMAIN sides :
       /\ sides[k].base \in Nat \cup {-1}
       /\ DOMAIN sides[k].flat \subseteq Slots /\ sides[k].occupied \subseteq Slots
       /\ DOMAIN sides[k].overflow \subseteq Prices
       /\ \A i \in DOMAIN sides[k].flat : sides[k].flat[i] \in FastLevel \ {EmptyLevel}
       /\ \A p \in DOMAIN sides[k].overflow : sides[k].overflow[p] \in FastLevel
  /\ checked \in Locates \cup {None}

\* The free list is seeded so that the first allocation takes slot 0.
Init ==
  /\ index = <<>>
  /\ pool = [i \in Pool |-> [FreeOrder EXCEPT !.next = IF i + 1 \in Pool THEN i + 1 ELSE NoOrder]]
  /\ free = IF 0 \in Pool THEN 0 ELSE NoOrder
  /\ sides = [k \in Symbols \X Sides |-> UnusedSide]
  /\ checked = None

Put(f, x, v) == [y \in DOMAIN f \cup {x} |-> IF y = x THEN v ELSE f[y]]
Drop(f, x)   == [y \in DOMAIN f \ {x} |-> f[y]]

----------------------------------------------------------------------------
(* Where a level lives: a function of its price and the window's origin.   *)

WholeCent(p) == p % 100 = 0
Cents(p) == p \div 100
Offset(s, p) == Cents(p) - s.base
InWindow(s, p) == WholeCent(p) /\ s.base >= 0 /\ Offset(s, p) \in Slots

HasLevel(s, p) == InWindow(s, p) \/ p \in DOMAIN s.overflow

FlatLevel(s, i) == IF i \in DOMAIN s.flat THEN s.flat[i] ELSE EmptyLevel

LevelAt(s, p) ==
  IF InWindow(s, p) THEN FlatLevel(s, Offset(s, p))
  ELSE IF p \in DOMAIN s.overflow THEN s.overflow[p] ELSE EmptyLevel

PutFlat(s, i, lvl) ==
  [s EXCEPT !.flat = IF lvl = EmptyLevel THEN Drop(@, i) ELSE Put(@, i, lvl)]

PutLevel(s, p, lvl) ==
  IF InWindow(s, p) THEN PutFlat(s, Offset(s, p), lvl)
  ELSE [s EXCEPT !.overflow = Put(@, p, lvl)]

----------------------------------------------------------------------------
(* The window follows the side's best price.                               *)

Extreme(side, S) == CHOOSE p \in S : \A q \in S : IF side = "B" THEN q <= p ELSE p <= q

FlatPrices(s) == {(s.base + i) * 100 : i \in s.occupied}

\* A mutant: the overflow map is asked only when the window is empty.
Best_WindowFirst(s, side) ==
  IF s.occupied # {} THEN Extreme(side, FlatPrices(s)) ELSE Extreme(side, DOMAIN s.overflow)

HasBest(s) == s.occupied # {} \/ DOMAIN s.overflow # {}

\* best(): the bitmap and the overflow map are both consulted.
Best(s, side) == Extreme(side, FlatPrices(s) \cup DOMAIN s.overflow)

AnchorFor(side, cents) ==
  LET anchor == IF side = "B" THEN cents - (Window - 1 - Margin) ELSE cents - Margin
  IN IF anchor > 0 THEN anchor ELSE 0

\* Every level that holds an order, by price, whichever home it is in.
AllLevels(s) ==
  [p \in FlatPrices(s) \cup DOMAIN s.overflow |->
     IF p \in DOMAIN s.overflow THEN s.overflow[p] ELSE s.flat[Offset(s, p)]]

\* Each level is placed anew by the new origin; no order is touched.
Placed(base, levels) ==
  LET inside == {p \in DOMAIN levels : WholeCent(p) /\ Cents(p) - base \in Slots}
      slots  == {Cents(p) - base : p \in inside}
  IN [base     |-> base,
      flat     |-> [i \in slots |-> levels[(base + i) * 100]],
      occupied |-> slots,
      overflow |-> [p \in DOMAIN levels \ inside |-> levels[p]]]

\* A mutant: the origin moves and the levels stay where they are.
Recentered_OriginOnly(s, side, cents) == [s EXCEPT !.base = AnchorFor(side, cents)]

Recentered(s, side, cents) ==
  LET base  == AnchorFor(side, cents)
      delta == IF base > s.base THEN base - s.base ELSE s.base - base
  IN IF s.base >= 0 /\ delta < Hysteresis THEN s ELSE Placed(base, AllLevels(s))

\* maybe_recenter() on one side.
Followed(s, side) ==
  LET cents == Cents(Best(s, side))
  IN IF ~HasBest(s) THEN s
     ELSE IF s.base >= 0 /\ cents - s.base \in Margin..Window - Margin - 1 THEN s
     ELSE Recentered(s, side, cents)

\* check_bbo(): a symbol beyond max_symbols has no window.
Checked(b, l) ==
  [b EXCEPT !.sides = [k \in DOMAIN @ |-> IF k[1] = l THEN Followed(@[k], k[2]) ELSE @[k]],
            !.checked = l]

----------------------------------------------------------------------------
(* The pool and the queues, on b = [index, pool, free, sides, checked].    *)

Now == [index |-> index, pool |-> pool, free |-> free, sides |-> sides, checked |-> checked]

SideOf(o) == <<o.locate, o.side>>

LinkNext(pl, i, j) == IF i = NoOrder THEN pl ELSE [pl EXCEPT ![i].next = j]
LinkPrev(pl, i, j) == IF i = NoOrder THEN pl ELSE [pl EXCEPT ![i].prev = j]

\* level_for(): the first whole-cent price of a side places its window.
Anchored(s, side, price) ==
  IF WholeCent(price) /\ s.base < 0 THEN [s EXCEPT !.base = AnchorFor(side, Cents(price))] ELSE s

Occupy(s, p) == IF InWindow(s, p) THEN [s EXCEPT !.occupied = @ \cup {Offset(s, p)}] ELSE s

\* The middle of add(): slot i takes the order o, at the back of its level.
Queued(b, i, o) ==
  LET k   == SideOf(o)
      s   == Anchored(b.sides[k], o.side, o.price)
      lvl == LevelAt(s, o.price)
      new == [lvl EXCEPT !.shares = @ + o.shares, !.orders = @ + 1, !.tail = i,
                         !.head = IF lvl.tail = NoOrder THEN i ELSE @]
  IN [b EXCEPT !.pool = LinkNext([@ EXCEPT ![i] = [o EXCEPT !.prev = lvl.tail]], lvl.tail, i),
               !.sides[k] = IF lvl.orders = 0 THEN Occupy(PutLevel(s, o.price, new), o.price)
                            ELSE PutLevel(s, o.price, new)]

\* A level with no order left: its bit is cleared, or it leaves the map.
Emptied(s, p, lvl) ==
  IF InWindow(s, p) THEN [PutLevel(s, p, lvl) EXCEPT !.occupied = @ \ {Offset(s, p)}]
  ELSE [s EXCEPT !.overflow = Drop(@, p)]

\* unlink()
Unlinked(b, i) ==
  LET o   == b.pool[i]
      s   == b.sides[SideOf(o)]
      lvl == LevelAt(s, o.price)
      new == [lvl EXCEPT !.orders = IF @ > 0 THEN @ - 1 ELSE @,
                         !.head = IF o.prev = NoOrder THEN o.next ELSE @,
                         !.tail = IF o.next = NoOrder THEN o.prev ELSE @]
  IN IF ~HasLevel(s, o.price) THEN b
     ELSE [b EXCEPT !.pool = LinkPrev(LinkNext(@, o.prev, o.next), o.next, o.prev),
                    !.sides[SideOf(o)] = IF new.orders = 0 THEN Emptied(s, o.price, new)
                                         ELSE PutLevel(s, o.price, new)]

\* A mutant: the record is reset and not put on the free list.
Released_Leaks(b, i) == [b EXCEPT !.pool[i] = FreeOrder]

\* release()
Released(b, i) == [b EXCEPT !.pool[i] = [FreeOrder EXCEPT !.next = b.free], !.free = i]

\* The shares of the order in slot i and of its level, less qty.
Deducted(b, i, qty) ==
  LET o == b.pool[i]
      s == b.sides[SideOf(o)]
      c == [b EXCEPT !.pool[i].shares = @ - qty]
  IN IF ~HasLevel(s, o.price) THEN c
     ELSE [c EXCEPT !.sides[SideOf(o)] =
             PutLevel(s, o.price, [LevelAt(s, o.price) EXCEPT !.shares = @ - qty])]

\* erase_ref() of a live reference.
Erased(b, ref) ==
  LET i == b.index[ref]
  IN Released(Unlinked(Deducted([b EXCEPT !.index = Drop(@, ref)], i, b.pool[i].shares), i), i)

\* reduce() of a live reference: never more than is resting.
Reduced(b, ref, qty) ==
  LET i == b.index[ref]
      c == Deducted(b, i, IF qty < b.pool[i].shares THEN qty ELSE b.pool[i].shares)
  IN IF c.pool[i].shares # 0 THEN c
     ELSE Released(Unlinked([c EXCEPT !.index = Drop(@, ref)], i), i)

\* OrderMap's Insert, of a reference that is not there: at the limit it fails.
IndexFull(b) == Cardinality(DOMAIN b.index) = IndexLimit

\* add(): a live duplicate is erased first; without a slot nothing is done;
\* without room in the index the order is unlinked again and check_bbo() is
\* not called.
Added(b, ref, o) ==
  LET c == IF ref \in DOMAIN b.index THEN Erased(b, ref) ELSE b
      i == c.free
      d == Queued([c EXCEPT !.free = c.pool[i].next], i, o)
  IN IF o.locate \notin Symbols THEN b
     ELSE IF i = NoOrder THEN c
     ELSE IF IndexFull(c) THEN Released(Unlinked(d, i), i)
     ELSE Checked([d EXCEPT !.index = Put(@, ref, i)], o.locate)

----------------------------------------------------------------------------
(* The handlers.                                                           *)

Install(b) ==
  /\ index' = b.index /\ pool' = b.pool /\ free' = b.free
  /\ sides' = b.sides /\ checked' = b.checked

NewOrder(l, ref, side, price, shares) ==
  [FreeOrder EXCEPT !.ref = ref, !.locate = l, !.side = side, !.price = price, !.shares = shares]

\* on(AddOrder), on(AddOrderMpid)
AddOrder(l, ref, side, price, shares) ==
  Install(Added(Now, ref, NewOrder(l, ref, side, price, shares)))

\* on(OrderExecuted), on(OrderExecutedPrice), on(OrderCancel), and any of the
\* four with an unknown reference: check_bbo() is for the symbol the message
\* names.
ReduceOrder(l, ref, qty) ==
  Install(Checked(IF ref \in DOMAIN index THEN Reduced(Now, ref, qty) ELSE Now, l))

\* on(OrderDelete)
DeleteOrder(l, ref) ==
  ref \in DOMAIN index /\ Install(Checked(Erased(Now, ref), l))

\* A mutant: an order replaced at its own price keeps its place.
ReplaceOrder_InPlace(old, new, price, shares) ==
  /\ old \in DOMAIN index
  /\ LET o == pool[index[old]]
         i == index[old]
         b == Erased(Now, old)
     IN IF price = o.price /\ new \notin DOMAIN b.index
        THEN /\ pool' = [pool EXCEPT ![i].ref = new] /\ index' = Put(b.index, new, i)
             /\ UNCHANGED <<free, sides, checked>>
        ELSE Install(Checked(Added(b, new, NewOrder(o.locate, new, o.side, price, shares)),
                             o.locate))

\* on(OrderReplace): symbol and side are retained from the old order.
ReplaceOrder(old, new, price, shares) ==
  /\ old \in DOMAIN index
  /\ LET o == pool[index[old]]
     IN Install(Checked(Added(Erased(Now, old), new,
                              NewOrder(o.locate, new, o.side, price, shares)),
                        o.locate))

Next ==
  \/ \E l \in Locates, ref \in Refs, side \in Sides, price \in Prices, shares \in Sizes :
       AddOrder(l, ref, side, price, shares)
  \/ \E l \in Locates, ref \in Refs, qty \in 1..MaxShares : ReduceOrder(l, ref, qty)
  \/ \E l \in Locates, ref \in Refs : DeleteOrder(l, ref)
  \/ \E old, new \in Refs, price \in Prices, shares \in Sizes :
       ReplaceOrder(old, new, price, shares)

Spec == Init /\ [][Next]_vars

----------------------------------------------------------------------------
(* Properties.                                                             *)

\* The slots met from slot i along the links, at most n of them.
Chain(records, i, n) ==
  LET from[m \in 0..n] ==
        [j \in Pool \cup {NoOrder} |->
           IF j = NoOrder \/ m = 0 THEN <<>> ELSE <<j>> \o from[m - 1][records[j].next]]
  IN from[n][i]

Fifo(lvl) == Chain(pool, lvl.head, PoolSize + 1)

LiveAt(k, p) == {r \in DOMAIN index : SideOf(pool[index[r]]) = k /\ pool[index[r]].price = p}

\* The levels of a side, by price: the slots of the window, and the map.
LevelsOf(k) ==
  {[price |-> (sides[k].base + i) * 100, level |-> sides[k].flat[i]] : i \in DOMAIN sides[k].flat}
  \cup {[price |-> p, level |-> sides[k].overflow[p]] : p \in DOMAIN sides[k].overflow}

\* check_invariants() and walk_level(): a bit is set if and only if its level
\* has orders; an emptied level has left the overflow map; back links, ends
\* and count of every queue agree with its forward links.  And, which the code
\* does not check, no price has a home on both sides of its window's edge.
LinksAreSound(lvl) ==
  LET q == Fifo(lvl)
  IN /\ Len(q) = lvl.orders
     /\ lvl.tail = IF q = <<>> THEN NoOrder ELSE q[Len(q)]
     /\ \A j \in 1..Len(q) : pool[q[j]].prev = IF j = 1 THEN NoOrder ELSE q[j - 1]

LevelsAreSound ==
  \A k \in DOMAIN sides :
    LET s == sides[k]
    IN /\ s.occupied = {i \in DOMAIN s.flat : s.flat[i].orders > 0}
       /\ \A p \in DOMAIN s.overflow : s.overflow[p].orders > 0 /\ ~InWindow(s, p)
       /\ \A e \in LevelsOf(k) : LinksAreSound(e.level)

\* A level's share count is the sum over the live orders at its price.
AggregatesMatch ==
  \A k \in DOMAIN sides : \A e \in LevelsOf(k) :
    e.level.shares = MapThenSumSet(LAMBDA r : pool[index[r]].shares, LiveAt(k, e.price))

\* Whatever is added, reduced, unlinked or moved by a recentring, a level's
\* links and its aggregate describe one and the same queue.
QueuesAreSound == LevelsAreSound /\ AggregatesMatch

\* Every slot of the pool is on the free list or names, through the index, the
\* live order it holds: never both, never neither.
SlotsAccountedFor ==
  LET freed == Chain(pool, free, PoolSize + 1)
      live  == {index[r] : r \in DOMAIN index}
  IN /\ Len(freed) + Cardinality(DOMAIN index) = PoolSize
     /\ {freed[j] : j \in 1..Len(freed)} \cup live = Pool
     /\ \A r \in DOMAIN index : pool[index[r]].ref = r

\* The price found by bitmap and map is the best among the live orders.
BestIsBest ==
  \A k \in DOMAIN sides :
    LET live == {pool[index[r]].price : r \in {x \in DOMAIN index : SideOf(pool[index[x]]) = k}}
    IN /\ HasBest(sides[k]) <=> live # {}
       /\ live # {} => Best(sides[k], k[2]) = Extreme(k[2], live)

\* The inside of the symbol just checked is in its windows.  The exception is
\* a window so near zero that the clipped move is not worth making.
InsideIsInWindow ==
  \A k \in DOMAIN sides : checked = k[1] /\ HasBest(sides[k]) =>
    LET cents == Cents(Best(sides[k], k[2]))
    IN \/ cents - sides[k].base \in Slots
       \/ cents < sides[k].base /\ sides[k].base < Hysteresis

\* The inside is right, and reached through the window after every check.
InsideIsRight == BestIsBest /\ InsideIsInWindow

\* The abstract book: an order is where find_level() looks for its price, and
\* its queue position is the set of orders before it there.
RestingOrder(o) == [locate |-> o.locate, side |-> o.side, price |-> o.price, shares |-> o.shares]
OrdersAhead(r) ==
  LET o == pool[index[r]]
      q == Fifo(LevelAt(sides[SideOf(o)], o.price))
  IN {pool[q[j]].ref : j \in {m \in 1..Len(q) :
                               \E n \in 1..Len(q) : m < n /\ q[n] = index[r]}}
Resting == [r \in DOMAIN index |-> RestingOrder(pool[index[r]])]
Abstract == INSTANCE OrderBook WITH
  resting <- Resting, ahead <- [r \in DOMAIN index |-> OrdersAhead(r)]

\* A step of the abstract book, whose arrivals are read off the orders that
\* rest after it.
AbstractStep ==
  \/ \E ref \in DOMAIN index' : Abstract!Enter(ref, Resting'[ref])
  \/ \E ref \in DOMAIN index, qty \in 1..MaxShares : Abstract!Reduce(ref, qty)
  \/ \E ref \in DOMAIN index : Abstract!Leave(ref)
  \/ \E old \in DOMAIN index, new \in DOMAIN index' :
       Abstract!Replace(old, new, Resting'[new].price, Resting'[new].shares)

\* FastBook implements OrderBook; an add it has no room for does nothing.
ImplementsOrderBook == Abstract!Init /\ [][AbstractStep]_Abstract!bookVars
=============================================================================
