# A verification of carteret in TLA+

carteret replays NASDAQ ITCH 5.0 sessions into a market-by-order book. It keeps
two books, a readable one and a fast one, and holds the second to the first; it
decides from the readable book whether a session was reconstructed soundly; and
it runs queue-position studies, a market-making study and two exporters on top.
This directory holds TLA+ models of its parts, TLC configurations that check them
on small instances, and proofs, checked by TLAPS, of what matters most for every
instance.

Paths below are relative to `src/`.

## The system

| Component | Source | State it keeps | Operations | Module |
|---|---|---|---|---|
| Framing, parser | `include/carteret/wire.hpp`, `parser.hpp` | form, cursor, skip counts, end | detect, next frame, dispatch | `Framing` |
| Reference book | `include/carteret/reference_book.hpp` | order map, per-level FIFOs with aggregates, counters | one handler per ITCH type | `ReferenceBook` |
| Crossed-and-locked gate | same file, `check_bbo`; verdict in `src/replay.cpp` | per symbol: announced state, operational halt, reopening window | H, h, Q handlers; one check per book message, two per replace | `CrossingGate`, `VenueSession` |
| Fast book | `include/carteret/fast_book.hpp` | order pool with a free list, per side a window of levels, a bitmap, an overflow map and an origin | the same handlers | `FastBook` |
| Order index | `include/carteret/order_index.hpp` | open-addressed slots | find, insert, erase with backward shift | `OrderIndex`, `OrderMap` |
| Differential harness | `include/carteret/differential.hpp` | the message count, the first divergence | resolve, apply to both, compare what was touched, compare everything | `Differential`, `Replay` |
| Replay and census tools | `src/replay.cpp`, `src/census.cpp` | the verdict | read a session, judge it | `Replay`, `Framing` |
| Queue simulator | `include/carteret/queue_sim.hpp` | live synthetic orders with five queue models, an index per symbol, pending valuations, a placement clock | a handler per type, tick, place, sweep, finish | `QueueSim` |
| Market maker | `src/strategy_pnl.cpp` | per symbol a window of inside updates and one quote | quote and settle at the close of each window | `Strategy` |
| Exporters | `src/export_features.cpp`, `src/export_micro.cpp` | windows with features and a row that waits for its label; a second map of order lives, a sampling clock | a handler per type, the last row | `FeatureExport`, `MicroExport` |
| MoldUDP64 | `include/carteret/moldudp64.hpp` | expected sequence number, statistics, stale flag | `receive` of a datagram; `packetize` | `MoldReceiver`, `MoldFeed` |
| SPSC ring | `bench/spsc.hpp`, used in `bench/bench_book.cpp` | two indices, two private copies of them, a buffer | push and pop, one thread each | `SpscRing`, `MessageQueue` |
| Sampling, hashes, memory mapping, other tools, benchmarks, scripts | | | | partly or not modelled (below) |

How they interact: the parser calls one handler per message, synchronously. The
differential harness is a handler that passes each message to both books and
compares them; the queue simulator is a handler that resolves the named order in
a book, lets the message be applied, and attributes its effect to its synthetic
orders; the market maker drives a simulator and gets its fills through a
callback in the middle of that attribution; the exporters are handlers with a
book of their own. `on_mold_message` and `on_gap` are callbacks out of
`MoldReceiver::receive`. The SPSC ring is the only place where two threads meet.

What is hard in it: everything but the ring is sequential, so the hazards are
long legal message sequences that leave two redundant pieces of state in
disagreement (order map and FIFOs, bitmap and levels, free list and pool, window
and announced state, quote and synthetic order, the exporter's map and the
book's), state resolved before a message and used after it, timers that share one
clock with the messages, quantities at a boundary, packets lost, repeated and out
of step, bytes that are not what they say, and the two threads of the ring.
`PROJECT.json` lists each hazard at its line with the properties aimed at it.

## Modules

    OrderBook            what a market-by-order book promises
      OrderBookProofs
    CrossingGate         the gate, for any book
      VenueSession       the gate with a venue that behaves, or does not
        MCVenueSession
    ReferenceBook        the readable book, with the gate (EXTENDS CrossingGate;
                         implements OrderBook)
      ReferenceBookProofs  of the gate, the venue and the book
      MCReferenceBook
    FastBook             the fast book (implements OrderBook)
      FastBookProofs
      MCFastBook
    OrderMap             a bounded map from references to pool indices
    OrderIndex           the hash table of the fast book (implements OrderMap)
      OrderIndexProofs
      MCOrderIndex
    MoldReceiver         MoldReceiver::receive, for any packets
      MoldFeed           the receiver, the packetizer and two lines
    MessageQueue         a bounded FIFO queue that carries one session
    SpscRing             the ring and its two threads (implements MessageQueue)
    TransportProofs      of the receiver with its lines, and of the ring
    Framing              bytes to messages: both forms, the parser, the census
    SessionFeed          a well-formed feed of messages over an OrderBook
      Differential       the harness over SessionFeed
        Replay           Framing and Differential, and the tool's verdict
          ReplayProofs
          MCReplay
      QueueSim           the queue simulator
        MCQueueSim
      FeatureExport      the window exporter
      MicroExport        the microstructure exporter
      Strategy           the market maker, its simulator and its windows
        Session          one feed read by the maker and both exporters
          ExporterProofs   of both exporters and the windows they share with the maker
          QueueSimProofs   of the simulator, alone and as the maker drives it
          MCSession

The books are modelled in their own modules down to lists, pools and windows,
and shown to implement `OrderBook`; what stands on a book (`SessionFeed` and all
above it) is stated over `OrderBook`, not over either book's structures.

### OrderBook

The abstract book: `resting`, the live orders by reference, and `ahead`, which
gives each live order the set of orders that trade before it at its price. It has
no lists and no levels. `Enter`, `Reduce`, `Leave` and `Replace` are what a
handler can do to it; a reference used again supersedes the order it named.
Its properties are what queue-position results rest on: priority at each price
is a strict total order, and nobody is overtaken while resting
(`NobodyIsOvertaken`).

### CrossingGate

`check_bbo` reads of the book only how its best bid and ask compare, so the gate
is stated over that relation (`open` when a side is empty, `clean`, `locked`,
`crossed`) and its own specification lets it be anything. `trading` is
`trading_state_`, `gate` the gate's share of `RefCounters` with the parallel
crossed/locked counters as functions of the kind. `CapFires`, `CrossedBucket`,
`LockedBucket` and `SlotAfterCheck` are the cap, the if chain for crossed books, its
copy for locked ones and the closing of the window, in the order of the code; `StockTradingAction`, `OperationalHalt` and `CrossTradeGate`
are the handlers; `NoCrossing` is the verdict of `replay.cpp`, as far as the
reference book decides it. Which instants, symbols and depths the counters locate
is left out.

Windows open and windows closed by the cap never outnumber the windows opened
(`WindowsAccountedFor`). What the excuses are worth depends on what the symbol is
really going through, and is said where there is a venue to say it.

### VenueSession

Whether the verdict is right depends on the venue, which is not in the code. The
module adds one. An orderly venue behaves as design.md record 036 assumes: it
keeps the book uncrossed while matching, ends an auction within the cap before it
halts the symbol again, and releases an operational halt into matching with a
sound book, because the gate opens no window for that release. A symbol may be
stopped operationally on top of a halt or an auction, at any point of either, and
`T` may be said again of a symbol that is trading, so that several excuses hold at
once. Other venues may halt during an auction or overrun the cap; `Venues` says
which there are. The reconstruction may be at fault at any message and leave a
crossed book behind. On an orderly venue the gate raises no false alarm
(`NoFalseAlarm`: only symbols whose book was wrong are blamed, and no window has
to be closed by the cap); on any venue a book found crossed while the venue
matches is blamed at once (`CaughtAtOnce`), and no observation is put down to a
reopening more than the cap after the symbol began to trade (`ExcuseIsBounded`).
The last is measured from the venue's own account of when that was (`past`), not
from the gate's clock, which is what could be wrong.

### ReferenceBook

One action per handler, each with its whole effect: the book operation, the
counters, and the check that ends it. The book operations (`Erase`, `Added`,
`Executed`) are functions from books to books, so that a replace is the removal
and the add the code performs, with no state between them. `Checked` is
`check_bbo` on the levels there are when it is called, which each handler hands
it; `CheckedTwice` is the two calls of a replace, one from the add on the order's
own symbol and one from the handler on the symbol the message names, and the
removal's book between them, which neither looks at. `GateKeepsUp` is what this
order is worth: no symbol stays crossed or locked without having been reported,
and a reopening window never closes on a book the message only passes through.
`levels`
holds only present levels, as the maps do; a FIFO is a sequence of references and
the iterator an order keeps into it is its position, found again at each use, so
that an iterator left to an element that is gone cannot be expressed. A level's shares are an
integer, not a 64-bit word: `AggregatesMatch` shows that it never goes below
zero, so the difference does not arise.

`seen` is a history of the add and delete messages, for `LifecycleReconciles`.
Stock names, attribution, `added_ts`, the message and after-hours counters and
the diagnostic counters are left out; no property and no other part of the state
depends on them.

### FastBook

The pool is an array of records linked by index in both directions, and through
`next` into the free list; a side is its window's origin, the levels of the
window, the bitmap, and the overflow map. As in `ReferenceBook` the effect of a
handler is a function from books to books, put together from the functions of the
code: `Queued` and `IndexFull` are the middle and the end of `add()`, `Deducted`,
`Unlinked` and `Released` what `reduce()` and `erase_ref()` are made of,
`Followed` and `Recentered` the window's move after each check of the inside. A
level is found by its price and the origin of the moment (`LevelAt`), never by
anything an order remembers.

The index is the map that `OrderMap` describes and `OrderIndex` is shown to be.
The bitmap is the set of its bits; a slot of the window that holds an empty level
is not stored; a record on the free list keeps only what `release()` sets. The
counters are left out with the handlers that do nothing else: nothing in the book
reads them. `checked` is a history of the symbol `check_bbo` looked at last: a
message that names another symbol than its order's leaves the order's window
where it was, and that the inside is in its window (`InsideIsInWindow`) is
claimed for the symbol just checked only.

`QueuesAreSound` is `check_invariants()` with what it leaves out: no price has a
level on both sides of its window's edge. `InsideIsRight` compares what bitmap
and map find with the live orders, `SlotsAccountedFor` says that no slot leaks and
none is free and live at once. The refinement of `OrderBook` walks each queue from where
`find_level()` looks for it, so it also shows that no order is lost when levels
move. `InsideIsRight` has one exception, found by the model: a window whose
origin is less than the hysteresis above zero does not follow the inside below
its origin, because the origin it would move to is cut off at zero. The order is
then served by the overflow map, correctly and more slowly.

### MoldReceiver and MoldFeed

`MoldReceiver` is `receive()`, one action per outcome, for any packet at any
time: too short, of another session, or with blocks that overrun the datagram
among them. `handed` and `told` are histories of the two callbacks. The gap of an
overrunning packet is noted before the overrun is found, as in the code.
Sequence numbers are unbounded integers: `seq + count` is a 64-bit sum in the
code, which one packet with a sequence number near 2^64 is enough to wrap.

`MoldFeed` puts `MoldPacketizer`'s packets on two lines. The lines are the
network: each carries the packets in order at its own pace; a lossy line may drop
or spoil any of them; what went by may arrive late or be retransmitted, cut into
packets differently, which makes overlaps; and a line with nothing to send beats.
Which lines are lossy is settled at the start, from `Losses`; `MaxLead` says how
far a lossy line may be ahead of a lossless one.

### OrderMap and OrderIndex

`OrderMap` is what the fast book is promised: a map from references to pool
indices that takes up to half the table's size and refuses more, an overwrite
included. `OrderIndex` is the table. A probe is a loop that reads only, so it is
given by the slot where it stops (`StopsAt`): the first from the key's home that
is empty or has the key. A deletion rewrites the table as it goes and is a step
per slot it looks at, with `hole` and `scan` for `i` and `j` of `erase_at`; no
operation starts before it ends, and towards `OrderMap` the whole of it is one
step. An emptied slot keeps its key, as in the code. The policy is any function
from references to slots, chosen at the start.

`EveryEntryReachable` is what backward shift must preserve. That every probe
ends has no run: it would take as many references as slots to break it. It is
proved (`ProbesEnd`).

### MessageQueue and SpscRing

`SpscRing` takes `push` and `pop` apart into their loads and stores: the spin on
the other thread's index (`LoadTail`, `LoadHead`), the access to the slot
(`WriteSlot`, `ReadSlot`) and the release store of the own index (`StoreHead`,
`StoreTail`). Each thread owns its index and its private copy of the other's.

The memory model enters in two places. An acquire load may return any value the
other thread has stored since the one this thread saw last (`Loads`), so the
copies are stale at will but never go back. The slots are plain memory, read and
written in place: release and acquire order them with the indices, which is
enough as long as the two threads are never at one slot at once, and that is
`NoDataRace`, to be shown rather than assumed.

Indices are words: `After` and `Minus` are taken modulo `Wrap`, of which the
capacity is a divisor, as the `static_assert` on a power of two makes it. The
items are the session's messages in the order the parser publishes them and then
the null pointer. `MessageQueue` is the queue itself; the ring implements it with
the published slots, oldest first, as its contents (`IsAQueue`).

### Framing

The input is a file that somebody wrote: a session in one of the two forms, with
or without a terminator, and at most one damage, which is a cut at any byte, a
wrong length prefix or a wrong type byte. Bytes are numbers and `MsgLen` is any
table of lengths, so that a message's body is its type and the bytes behind it.
`DetectFraming` walks the probe under both forms; the ways a turn of the loop can
go are one definition each (`EndsAtBoundary`, `EndsInHead`, `ZeroPrefix`,
`NoLength`, `EndsInBody`, `UnknownType`, `LengthMismatch`, and `Dispatch` for a
frame that goes to the handler). `reach` is a history of the furthest byte the parser's loop needed (what `DetectFraming`
looks at is bounded by its own definition and not part of it): the properties
say that it stays inside the buffer, that every turn consumes something or is the
last, that a bad frame costs only itself, and that the census passes a file only
if every message written was handed over and no other.

### SessionFeed

A feed as its consumers meet it, over the abstract book: an `A` brings a
reference that is not live, a reduction never exceeds what rests. Whether the
venue executes in price-time priority is chosen at the start (`priority`),
because no consumer asks. A consumer starts from one of `OpeningBooks`, a book
some earlier messages left. `E` stands for `E` and `C`, `A` for `A` and `F`, `B`
for the messages without a book effect whose time still counts. Such a message has
a body, because one that names an order the file never brought (`Missed`) is
ignored by the book and not by every consumer: `Strays` are the executions,
cancels, deletes and replaces of this kind.

### Differential and Replay

The reference book is the feed's. The fast book may mishandle one message: lose
it, apply it to another order, or lose, shrink or bring back an order elsewhere.
The harness compares what the message touched, as it was resolved before the
message (`ChecksFor`; for a message that names no order, what the code compares
of it, a replace's offer level included), and everything at a multiple of the message count and at
the end. `HiddenOnlyWhereNobodyWent` is what the comparison after each message is
worth: until something is reported the two books can differ only at levels the
reference has not changed since. `IdenticalMeansIdentical` is what the last
comparison is worth. Which of several failing checks is recorded is left open.

`Replay` is the tool: bytes, parser, harness, verdict. The parser's frame decides
whether a message goes to the books; which message of its type it is, is open.

### QueueSim

The simulator is one record, `sim`; each private function of the class is a
function from records to records, or to a set of them where the generator draws.
A handler is the resolution before the message, `Attributed` after it, and
`Ticked`: sweep, valuations, placements with their backlog and its limit, in the
order of the code. Shares ahead are exact rationals, because the proportional
model removes fractions; the code has doubles. The Bernoulli model and the gaps
between placements may draw any value that is possible.

`ExactCountsTheOrdersAhead` relates the exact model's count to the book's own
queue (the orders ahead of the place where the synthetic order would stand);
`ModelsAreOrdered` brackets the estimates and bounds what they believe to be ahead
by the level; `OrdersAreResolvedInTime` is the account of placements, fills,
expiries and valuations, with no timer left behind the clock; `IndexIsExact` is
about the positions per symbol that compaction renumbers.

### FeatureExport, MicroExport, Strategy, Session

`FeatureExport` keeps the window, the row that waits for its label, and the
features as the integers they are quotients of. `MicroExport` keeps the map of
order lives, the exit classes, the totals and the sampling clock. Its totals and
its map take stray messages too, as the code's do: the shares of an execution or a
cancel that names an unknown order are added, and a replace of one starts a life.
`strayed` is a history of the shares taken this way, the term by which the totals
are off balance, and `hours` one of the first and last message of the session,
from which `SampledOncePerInterval` says when the insides must be looked at
without asking the clock. `Strategy` is the
market maker with `QueueSim` inside it: the simulator takes the message, the fill
is reported into the quote, then the strategy looks. `Session` feeds one message
stream to all three, so that what one program says of a message can be compared
with what another says (`QuotesFollowTheFeatures`).

## Runs

| Run | Instance | What it shows |
|---|---|---|
| `venue_session` | 2 interchangeable symbols (symmetry), states T and H, 3 ticks, cap 1, 2 windows, one crossed and one locked observation; operational halts on top of halts and auctions; an orderly venue, and one that does both of what an orderly one does not | the windows add up, no excuse outlives the cap, on the orderly venue only the symbols at fault are blamed, on both every fault is blamed at once. Three ticks take a resumption past its cap with a tick to spare for a `T` said again |
| `reference_book` | 3 interchangeable references and 2 interchangeable symbols (symmetry), 2 prices, 3 adds, 1 orphan. `Explored` keeps the union of two parts: orders of up to 2 shares on one symbol about which nothing is announced, with one observation of each kind; and orders of a single share on two symbols, of which one reopens before orders come, with up to 3 observations of one kind, so that replaces that end crossed or locked are observed twice | consistency, accounting, the refinement of `OrderBook`, and the gate over real books, a replace that names another symbol than its order's included. Three orders suffice for a head, a middle and a tail, and a third add or a replace for a duplicate |
| `fast_book` | 4 interchangeable references (symmetry), a pool and an index of 3, a window of 24 cents (margin and hysteresis 3), prices of 1, 5 and 24.5 cents, executions of 1 and 2 shares of 2, one symbol | soundness of every structure and the refinement. Three orders make a head, a middle and a tail, and the fourth finds the pool empty. 24.5 is never in a window but places it: for bids the inside takes the window along from near zero and back, so that the levels at 1 and 5 move into the map, out of it and from slot to slot; for offers the window is based two cents above zero, where 1 is outside it and is not followed. With 1 and 5 both in a window the bitmap holds two bits |
| `fast_book_index_full` | a pool of 3, an index of 2 | violated: finding 1 |
| `order_index` | 8 slots, 4 references, 2 values, the home of one at the end of the table, every policy onto the slots 6, 7 and 0 for the others | the table as a map. Half the table is full with four; runs meet, wrap and are opened in the middle |
| `mold_feed` | 5 messages, 2 a packet, 3 late packets or beats; no loss and any skew, B lossy and never ahead, or both lossy | sequence, reports and flags under every loss; with a lossless line nothing is reported and everything arrives |
| `mold_tail_loss` | 7 messages, both lines lossy | violated: finding 2 |
| `spsc_ring` | 4 slots, words of 8 values, 10 messages | the ring as a queue, its data-race freedom and its end. Both indices pass the end of the buffer twice and the end of a word once, in every state of the copies |
| `replay` | 4 sessions of up to 4 messages over 6 byte values and lengths 1 to 3, in both forms, cut at every byte, with 7 wrong prefixes and every wrong type; 3 orders to start with, 2 prices, a venue free of priority, a full comparison every other message | the reader, the parser, the census and the verdict, over a fast book that goes wrong at any one message in any modelled way |
| `queue_sim` | one symbol with one or two bids of 2 shares and one offer, 3 messages, steps of 1 and 4 (longer than a life of 3), sweeps every 2, gaps of 2 with at most 1 placement made up per tick, horizons 1 and 3, trading until 6, 2 placements | the models against the book, and every timer against the clock. Both orders of fill, sweep and end of session occur, and a silence longer than the catch-up limit makes good |
| `queue_sim_denominator` | the same | violated: finding 3 |
| `session` | one symbol with one bid of 2 shares and one offer, a third reference, 2 interchangeable references of orders the file never brought (symmetry), a venue free of priority, 4 messages a tick apart of which one may be 4 ticks late, states H and P, windows of 1, 2 and 3 updates, without lag, a session from 1 to 5 sampled every 2 from 1 to 8, 2 quotes | the three programs on their own and against one another. With four messages a window of one closes several times and a halt falls into it or between two, one of two closes on the message that fills its quote, one of three adds up two flows that stay; the late message is a silence that passes over an interval, and executions, cancels, deletes and replaces name orders followed, not followed, and followed since a stray replace |

Bounds are named constants: `MaxSeen`, `MaxWindows`, `MaxTime` for the gate,
`MaxAdds`, `MaxOrphans`, `MaxShares` for the book, `MaxPackets`, `MaxLate`,
`MaxLead` for the feed, `MaxMessages` and `MaxPlacements` for sessions. Two runs
add a state constraint, `Explored`, that keeps apart what would multiply without
meeting: in `reference_book` the two parts of the table; in `session` strays and
late messages, each under one of the simulator's two rules and not in windows of
two, and the late message in windows of one update and without trading actions,
because the sampling clock shares no state with windows, halts or the tracker. The
theorems are about the unconstrained specifications. The fast
book, the index and the ring need none. They cap counters and histories that only
grow; the theorems do not need them to be small. Deadlock is not checked where a
bound, or the end of the session, stops the system; `order_index` and `spsc_ring`
check it. Every property of a passing run has a mutated definition (`Name_What`
beside the original) that breaks it.

Three more configurations reproduce what is noted under Findings:
`RehaltInAuction.cfg` (of `MCVenueSession`), `MoldOneSidedLoss.cfg` (of `MoldFeed`)
and `SessionLag.cfg` (of `MCSession`); TLC finds the property of each violated.

**Fairness.** In `MoldFeed` a lossless line delivers each packet in the end; a
lossy line owes nothing. In `SpscRing` both threads are scheduled (`run_spsc`
starts both and gives each a core of its own), and a store becomes visible in
finite time, as the C++ standard asks of an implementation: a load in a spin does
not return a stale value forever, though any number of them may. Everything else
checked is safety: the program is a loop over a file, and that the loop ends is an
action property (`EveryTurnConsumes`).

## Findings

1. **A refused order leaves its shares behind.** When the index has no room,
   `add()` takes the order out of its queue again but not its shares out of the
   level. `replay --max-orders` can make the pool larger than the index takes;
   with the two equal, as everywhere else, the pool is exhausted first and the
   aggregates are right (`fast_book`).
2. **The end of the session reveals a loss that is not reported.** The
   end-of-session packet carries the sequence number after the last message, and
   `receive()` does not look at it. The test calls such losses undetectable.
3. **The depth before a replace is not the depth before it.** `on_cancel()`
   rebuilds the level's depth as what the book shows after the message and the
   shares removed; a replace that keeps its price has put the new order there
   already, so the proportional and Bernoulli models remove too little.

4. **Under price-time priority the exact model is bracketed.** The header of the
   simulator says "Exact is not bracketed by the others: optimistic can still be
   slower than exact when the real cancels happened to be entirely ahead"
   (`queue_sim.hpp:52-53`). The optimistic model takes every cancel at the level from
   ahead, so that no cancel can leave it more than the exact one has: with priority
   `queue_sim` finds the exact model between the optimistic and the conservative one
   in every state, and `ModelsInOrder` proves it. Only an execution out of priority,
   from behind the order, fills the exact model first.

Three more, each with a configuration of its own:

- *A halt during an auction fails a sound session* (`RehaltInAuction.cfg`). The
  window opened by a resumption stays open when the symbol is halted again, and a
  crossed observation of the halted symbol past the cap closes it by force, which
  fails the gate. design.md record 036 says observations of a halted symbol "fail
  nothing".
- *A gap is reported although the other line has the packet*
  (`MoldOneSidedLoss.cfg`). With the lossy line one packet ahead, the gap is final
  when the next packet arrives, and the copy that would fill it is dropped as a
  duplicate. The test that says loss on one line must be covered always feeds the
  lossless line first.
- *`--lag1` lags two of the features only* (`SessionLag.cfg`). The flow imbalance
  and the queue imbalance leave the window's last message out; the micro-price
  deviation and the sign of the flow are read with it.

Noted while modelling, without a run:

- An operational release opens no reopening window. A replace is observed twice
  by the gate, so its counts are of checks and not of messages; the reference book
  checks the symbol the message names and the fast book the symbol of the order.
- The comment on `OrderIndex::insert` says "Inserts, or overwrites an existing
  entry", but the load limit is tested first, so that at the limit an overwrite is
  refused (`OrderMap`).
- A file whose length prefixes are zero and that is cut within the probe is taken
  for one with lengths, and ends on a zero length prefix instead of as truncated
  (`wire.hpp:256`, `parser.hpp:91`); the census refuses it all the same.
- Hooks get a stale view of the statistics, the skip counts being copied at the
  end (`parser.hpp:104-108`). The verdict of replay ignores frames that were
  skipped; the census does not.
- The periodic full comparison is skipped where the message it is due at is an
  `S`, `R`, `H` or `h`; the full comparison stops short of locate 0xFFFF
  (`Unseen`).
- A synthetic order past its life may still fill until the next sweep
  (`queue_sim.hpp:663-665`), and `LevelGone` is never assigned.
- Only `H` counts as a halt for the windows of the exporter, so that a symbol
  paused with `P` throughout a window leaves it usable, unlike
  `docs/preregistration.md:1103`; the strategy settles a quote at the close of a
  window that is itself unusable, and its universe has no filter by name.
- A partly executed order that is then replaced is counted as replaced, unlike
  the comment at `export_micro.cpp:263-264`. A replace of an unknown order starts a
  life in the exporter (170-192) that the book does not have, and the shares of an
  execution or a cancel of one are added to the totals (143-162), so that on a file
  picked up late executed and cancelled can exceed what was added (`strayed`).
- The receiver's sequence arithmetic is `seq + count` in 64 bits. A packet chooses its
  own sequence number, so that one packet is enough to come near 2^64; the models
  keep integers and say nothing of that.

## What is proved

The proof modules extend the modules they are about and assume only the named
assumptions on the constants declared there (`Priority` states its own, that
share counts have a bound; `IdenticalIsTrue` and `IdenticalIsExact` that references
are finitely many and `Unseen` is empty; `LevelsHoldTheirShares` of the fast book that the index takes as
many entries as the pool has slots). No theorem uses a bound.

- `OrderBookProofs`: `Priority` (totality and transitivity together are
  inductive: a newcomer is put behind exactly the orders of its place) and
  `NoOvertaking`, an action property that needs totality at the step, because a
  replace re-enters with a set ahead of it that was not ahead of it before.
  The module also says what a sum over a set of orders is, since the shares of a
  level are one in both books: the library's sum picks its members with CHOOSE,
  and `SumsExist`, `TotalUnfolds` and `TotalOfOneMore` make it a total that one
  member more changes by that member's share, whichever is picked first.
- `ReferenceBookProofs`, of the gate: `GateBookkeeping`, from one invariant
  (`GateOK`): the set of open windows is finite and its cardinality changes by at
  most one, in step with the two counters. The effect of `check_bbo` and of each
  handler on the invariant is a lemma over values, which the next two use again.
  Its second part, over `VenueSession`, is `OnlyTheFaultyAreBlamed`,
  `FaultsAreCaughtAtOnce` and `ExcusesEnd`, the verdict for any number of symbols,
  halts, stops and auctions. The invariant says what a slot of the gate has to do
  with the venue's phase: `Follows` (the announced state and the halt flag, and no
  window open outside halts and auctions) holds on every venue and makes faults
  visible; `OnTheClock` (the clock of an open window is when the symbol began to
  trade, by the venue's account) does too and ends excuses, a repeated `T` not
  moving it; `InTime` (in an auction the window is open and not overdue, in a halt
  it is closed) holds on an orderly one and is why nobody else is blamed.
- `ReferenceBookProofs`, of the book: `QueuesAndOrdersAgree`, by an invariant over books, not
  states: a book is sound when its levels are sound and its orders queued, and
  erasing, adding and executing each keep it sound, so a replace keeps it by two
  of them. That an order is queued exactly once is what makes the position found
  in the list the order's own. `EveryOrderAccountedFor` adds the size of the
  order map; `GateBookkeepingOfTheBook` reuses the gate's lemmas, twice for a
  replace. `GateKeepsUpWithTheBook` is `GateKeepsUp`: best prices can meet only where
  an order was added, and the add is looked at on its own symbol whatever symbol the
  message names, so that every symbol crossed or locked has been reported; and both
  looks of a replace are at the levels it leaves, so that a window closed as clean
  is closed on those. `ReferenceBookIsAnOrderBook` is the whole
  refinement of `OrderBook`: in a sound book each operation does to the positions
  in the FIFOs what the abstract one does to `ahead`, and erasing then adding is
  the abstract replace. `PositionsAreKept` is what queue-position results take
  from it: nobody is overtaken in the lists of the code. `LevelsHoldTheirShares`
  is `AggregatesMatch`. Its invariant compares a level's shares with the sum over
  the orders *at its place*, absent levels included, which have none of either:
  an operation does to the one what it does to the other, and only the place it
  is about changes.
- `FastBookProofs`: `BookIsSound`, the inductive invariant of the fast book for
  any pool, index, window and prices. It describes the structure by what it
  stands for: `Sound(b, Q, F)` says that the book `b` represents the queues `Q`
  (a sequence of slots per side and price) and the free list `F`: heads, tails,
  both links, counts, bits and map entries are those of `Q` wherever each window
  is, every slot is in exactly one queue or on the free list, and the index leads
  to exactly the live ones. Each function of the code (unlinking, releasing,
  placing and appending, taking off shares, recentring) is shown to go from the
  `Q` and `F` it finds to the ones it should leave, and a handler is their
  composition. Its consequences are `NoSlotIsLost`, `EveryLevelIsItsQueue` (all of
  `check_invariants()` but the shares) and `TheInsideIsRight`, which adds that the
  inside of the symbol just checked is in its window, for every width: the margin
  fits on both sides, and a window is clipped at zero only.
  `FastBookIsAnOrderBook` is the refinement of `OrderBook`. `View(b, Q)` is the
  abstract book read off the queues; recentring leaves it alone, the other
  operations do to it what the abstract ones do, and since the links of a sound
  book walk exactly `Q`, it is the book the refinement mapping sees. An add there
  is no room for is a stutter. `PositionsAreKept` follows as in the other book.
  `LevelsHoldTheirShares` is the rest of `QueuesAreSound`: what each function does
  to the shares of the level it is about and to no other, emptied levels and
  windows that move included (they drop levels without a queue only), and that an
  order leaves its level only when its own shares are gone. Its hypothesis is that
  the index takes as many entries as the pool has slots, so that the rollback of
  an add is never reached: finding 1 is what happens without it, and all the
  other theorems about the fast book do without it. The defaults, the exporter
  and the benchmark give pool and index the same size.
- `TransportProofs`, of the receiver: `MessagesComeInOrderOnce`, `ReceiverKeepsItsWord` and
  `StaleFromTheFirstGap`. The invariant relates the expectation to the two
  histories (holes lie below it and are proper, messages handed over lie below it
  and ascend, each number below it is in exactly one of the two) and is preserved
  by noting a gap and by handing over a run of messages, of which every outcome of
  `receive()` is composed. `ArbitrationKeepsItsWord` says the same of the two
  lines, for any loss and any lead of one over the other: all it takes is that
  whatever they bring has a sequence number and a count. `OneWholeLineIsEnough` is
  `NoGapReported`, for every session, packet size and pattern of loss. Its
  invariant is that the expectation has reached the next packet of every lossless
  line and that a lossy one has seen at most one packet more; the packetizer's
  packets meeting end to end (`PacketsMeet`) keeps it. Its two hypotheses are
  needed. With `MaxLead = 1` it is false (`MoldOneSidedLoss.cfg`). And
  `max_messages_per_packet` must be below 65535, the largest value its type
  has: a packet of 65535 messages carries the count that ends a session, so the
  receiver would deliver none of them (no datagram is large enough for one).
- `OrderIndexProofs`: `EntriesStayReachable`, by the loop invariant of the
  deletion: an empty slot on the way to an entry can only be the hole, and the
  slots scanned so far are in use by entries that do not need it. It rests on a
  few facts about going round a table (`cannot_move` says whether the probe for
  an entry starts after the hole). `IndexIsAMap` is the whole refinement of
  `OrderMap`, and `ProbesEnd` its termination: the exact count keeps a slot empty,
  and a nonempty set of slots has a first one.
- `TransportProofs`, of the ring: `RingIsSafe`. The indices wrap, so the invariant is about the
  counts behind them: how many items were published and popped, and for each
  private copy the count it was loaded from, which lies between what its thread
  could have missed and the other's present. The remainder lemmas carry the
  tests on the words over to the counts (two counts less than a word apart, and
  a capacity that divides the word). `RingImplementsQueue` is the safety half of
  `IsAQueue`.
- `ReplayProofs`: `ReaderStaysInside` and `ReaderMovesOn` for any bytes and any
  table of lengths, by an invariant on the cursor and a lemma per way a turn of the
  loop may go. `NothingHiddenWhereAMessageWent` and `IdenticalIsTrue` rest on an
  invariant of the harness: until something is reported, the orders both books hold
  are at the same level in both (a snapshot of a level shows which orders are in
  it), and the levels changed since the fault show the same. The full comparison
  visits the reference's levels only; that nothing is left over in the fast book
  follows from the equal counts of live orders, two finite sets of equal size one
  of which contains the other.
- `ReplayProofs` on files: `CensusIsRight` and `SkippingIsExact` for every session,
  both forms and any one damage, then `IdenticalIsExact`. First what a file has where
  (`Laid`): where each body starts is a recursion (`BodyStarts`) whose function is
  shown to exist, and the bytes at those places are what was written, from the
  library's flattening of sequences. Then what `detect_framing` makes of it
  (`FormTaken`): an intact file is taken in its own form, and prefixes the probe
  trusts are never those of a zero-prefixed file. The reader's invariant has three
  parts: while nothing was skipped, what was handed over is the first `k` messages
  and the cursor is at the next (`InOrder`), which is what lets the census conclude from
  counts alone; an intact file loses nothing (`Unhurt`); and the cursor is always
  between two frames, the good ones among those passed having been handed over
  and no other (`Skips`), because a frame with a wrong type byte still has a true
  length. `Quiet` adds that without a fault the harness reports nothing.
- `ExporterProofs`, of the programs that read a session file, for any number of
  symbols, orders and messages. What a message does to the book is said once
  (`MessageEffect`): an order joins, goes, shrinks or is swapped. `TrackerIsRight`
  is `TrackerReconciles`, for messages that name orders the book never had as well:
  the exporter's map has the book's orders with the book's shares, and beyond them
  only what stray replaces brought (`Mirrors`); and whatever a message does to the
  map it does to the totals, up to `strayed` (`Balanced`): lives begun are lives
  ended and lives live, shares added are shares executed, cancelled, deleted and
  still followed. `SamplesAreSpaced` is `SampledOncePerInterval`; its invariant
  (`OnTheGrid`) puts the clock's next boundary right behind the last message within
  the hours, on the grid the first one laid, however many intervals passed between
  two messages, from which a message finds the boundary reached exactly when it is
  the first of its interval. `FlowIsNet` is
  `FlowIsTheNetChange`: as long as the inside's prices stand, the last inside and
  the one the window began with differ by what the window has measured.
  `RowsAreClean` is the action property `RowsSpanNoHalt`: a halt that a window has
  seen is marked in it, or still stands and will be at the next update, so an
  unmarked window that closes saw none. `QuotesFollow` is
  `QuotesFollowTheFeatures`, two programs in step: the strategy's counters and the
  exporter's are equal before each message and are changed alike by it, whatever
  the simulator does with the quote meanwhile.
- `QueueSimProofs`, of the queue simulator, for any number of symbols, orders,
  placements and messages. `HandledSound` is what all its theorems share: whatever
  the draws, an order the simulator holds after a message is one it held before, as
  the message leaves it, or has just been placed by the book the message leaves;
  the placement loop of `tick()` keeps whatever one placement keeps (`LoopStays`).
  `IndexExact` is `IndexIsExact`, through compactions that renumber the orders.
  `ExactIsExact` is `ExactCountsTheOrdersAhead`: the exact model's number is the sum
  of the shares resting ahead, because it takes off what the message takes off, at
  the same time, and drops a reference when the book does. A replace is the case to
  watch: the newcomer is behind, wherever it comes from. `ModelsInOrder` is
  `ModelsAreOrdered`, over exact fractions. Three of its lemmas are why the models
  cannot cross: `LessMonotone`; that what the proportional model takes off lies
  between what the other two do (`Share`), which needs the *level* to hold no less
  than the model believes is ahead; and `FrontIsCounted`, that with priority an order
  executed at the level is counted by the exact model unless nothing is left of what
  it counts. That last one needs a level to be a queue in the opening book too, which
  is what `WellFormed` says of it.
- Its last part is the simulator's bookkeeping. `OrdersResolved` is
  `OrdersAreResolvedInTime`. Each model has a ledger (`Ledger`): what was placed is
  what filled, expired or is in play, over all and for each symbol and depth; the
  valuations made and to come are no more than the fills times the horizons. The
  events of the code act on it in four ways only, each a lemma: fills and expiries
  booked together, valuations made, a placement, and orders renumbered. What makes
  the sums go through is that an event retires each model of an order once, for one
  reason, and the order keeps its key (`Passes`), and that an order whose `any_live`
  is down has no live model (`Consistent`): otherwise the compaction would lose it
  uncounted. The timers hold by the order inside `tick()`: an order in play was
  young at the last sweep or has entered since (`OnClock`), and the last sweep is
  less than one interval old; nothing due survives `settle()`; the loop ends with
  the schedule ahead, given up, or over. `FillsAtTheFront` is
  `ExactFillsAtTheFront`: only an execution at the level of a reference the exact
  model does not count adds to that number, and with priority `FrontIsCounted`
  leaves nothing ahead of such an order. Horizons are assumed to be finitely many.
- `QuotesAccounted` is `QuotesAreAccountedFor`, the strategy and the simulator it
  drives. The attribution of a message touches only its symbol's orders, and what it
  takes out of play under the exact model it fills (`MovesOn`), so that one order
  filled is one quote marked (`NotifiedStands`): a quote stands for at most one order
  in play. The tick only renumbers orders (`Carries`); the close of a window expires
  the old quote's order before it places the new one, whose level exists because an
  inside update has two sides. The theorem has a hypothesis, that the session is
  shorter than the life of an order (`[](now < MaxLife)`). Without it a sweep would
  expire a quote's order behind the strategy's back; `run_strategy` sets
  `max_life_ns` to the largest number of 64 bits, and timestamps have 48.

`OrderBook` has no run of its own: its two theorems say of every instance what a
run would say of one, and the runs of the two books check that they implement it.

Every invariant the runs check has a theorem. Model-checked only: liveness (the
two lines' `ArrivesWhole`, the ring's `RunEnds` and its fairness as a queue), which
TLAPS does not treat.

## Not modelled

Field layout and accessors; the diagnostic counters; names and attribution; the
simulator's histograms and money, and the strategy's; the engine behind the
draws; SHA-256 and the determinism hashes (a digest of the reference book); memory
mapping; the reading of command lines and the printing of reports; the generator of
synthetic sessions; the benchmark harness; the Python analyses. None of them keeps
state that another part relies on. Doubles are exact rationals, so that rounding is
outside every claim. The runs of the simulator and of the three programs have one
symbol; that one symbol's orders are not charged another's messages takes two to
break, and is what `IndexExact` proves for any number of them.

## Plan

Two symbols in the runs of `QueueSim` and `Session`, whose theorems already hold for
any number.
