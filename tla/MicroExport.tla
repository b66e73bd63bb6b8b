---------------------------- MODULE MicroExport -----------------------------
(***************************************************************************)
(* The microstructure exporter, export_micro.cpp: it follows every order's *)
(* life beside the book, sorts the ways orders end, totals shares, and     *)
(* samples the inside on a clock of its own.                               *)
(***************************************************************************)
EXTENDS SessionFeed

CONSTANTS
  SampleEvery,  \* sample_ns_
  SampleOpen,   \* kOpenNs
  SampleClose   \* kCloseNs

ASSUME MicroExportAssumption ==
  SampleEvery \in Nat \ {0} /\ {SampleOpen, SampleClose} \subseteq Nat

VARIABLES
  micro,    \* live_, lifetimes_, the totals of sym_ and the sampling clock
  deleted,  \* history: shares that left with deletes
  strayed,  \* history: shares taken from orders the exporter did not follow
  hours     \* history: the first and the last message within the hours

microVars == <<micro, deleted, strayed, hours>>

Exits == {"filled", "partial_then_gone", "cancelled", "replaced"}

Tracked(shares) == [original |-> shares, remaining |-> shares, filled |-> 0]

\* What the opening book left in the exporter.
MicroInit ==
  /\ micro = [live |-> [r \in DOMAIN resting |-> Tracked(resting[r].shares)],
              exits |-> [e \in Exits |-> 0],
              adds |-> Cardinality(DOMAIN resting), replaces |-> 0,
              shares_added |-> MapThenSumSet(LAMBDA r : resting[r].shares, DOMAIN resting),
              shares_executed |-> 0, shares_cancelled |-> 0,
              next_sample |-> 0, samples |-> 0, crossed |-> 0]
  /\ deleted = 0 /\ strayed = 0
  /\ hours = [any |-> FALSE, first |-> 0, last |-> 0]

TrackedWithout(live, ref) == [r \in DOMAIN live \ {ref} |-> live[r]]
TrackedWith(live, ref, t) ==
  [r \in DOMAIN live \cup {ref} |-> IF r = ref THEN t ELSE live[r]]

\* How an order that leaves is counted: a fill outlives a cancel.
Class(t, exit) ==
  IF exit = "cancelled" /\ t.filled > 0 THEN "partial_then_gone" ELSE exit

\* close_out()
ClosedOut(x, ref, exit) ==
  IF ref \notin DOMAIN x.live THEN x
  ELSE [x EXCEPT !.live = TrackedWithout(@, ref),
                 !.exits[Class(x.live[ref], exit)] = @ + 1]

\* reduce()
Reduced(x, ref, qty, executed) ==
  IF ref \notin DOMAIN x.live THEN x
  ELSE LET old   == x.live[ref]
           taken == IF qty < old.remaining THEN qty ELSE old.remaining
           new   == [old EXCEPT !.remaining = @ - taken,
                                !.filled = IF executed THEN @ + taken ELSE @]
           exit  == IF ~executed THEN "cancelled"
                    ELSE IF new.filled = new.original THEN "filled"
                    ELSE "partial_then_gone"
           y     == [x EXCEPT !.live[ref] = new]
       IN IF new.remaining = 0 THEN ClosedOut(y, ref, exit) ELSE y

\* add()
Started(x, ref, shares) ==
  [x EXCEPT !.live = TrackedWith(@, ref, Tracked(shares)),
            !.shares_added = @ + shares]

\* A mutant: what the replaced order had left is not counted as cancelled.
ReplacedBy_SharesLost(x, old, new, shares) ==
  LET y == IF old \in DOMAIN x.live THEN ClosedOut(x, old, "replaced") ELSE x
  IN Started([y EXCEPT !.replaces = @ + 1], new, shares)

\* on(OrderReplace): the old order's remainder counts as cancelled, the new
\* one is tracked whether or not the old one was.
ReplacedBy(x, old, new, shares) ==
  LET y == IF old \in DOMAIN x.live
           THEN ClosedOut([x EXCEPT !.shares_cancelled = @ + x.live[old].remaining],
                          old, "replaced")
           ELSE x
  IN Started([y EXCEPT !.replaces = @ + 1], new, shares)

\* The tracking half of the handlers.  None of them asks whether the order is
\* one it follows before it adds to a total, so a message without a book effect
\* is taken by its body.
Body(m) == IF m.type = "B" THEN m.body ELSE m

Followed(x, b) ==
  CASE b.type = "A" -> Started([x EXCEPT !.adds = @ + 1], b.ref, b.order.shares)
    [] b.type = "E" -> [Reduced(x, b.ref, b.qty, TRUE) EXCEPT !.shares_executed = @ + b.qty]
    [] b.type = "X" -> [Reduced(x, b.ref, b.qty, FALSE) EXCEPT !.shares_cancelled = @ + b.qty]
    [] b.type = "D" -> ClosedOut(x, b.ref, "cancelled")
    [] b.type = "U" -> ReplacedBy(x, b.ref, b.new, b.shares)
    [] OTHER -> x

\* A mutant: the clock moves one interval on, however long the silence was.
NextBoundary_OneStep(from, ts) == from + SampleEvery

\* The first boundary after ts of the grid that starts at `from`.
NextBoundary(from, ts) == from + SampleEvery * ((ts - from) \div SampleEvery + 1)

\* sample(): at most one look per interval, on the book the message leaves.
Sampled(x, bk, ts) ==
  LET from == IF x.next_sample = 0 THEN ts ELSE x.next_sample
      seen == {l \in Locates : TwoSided(bk, l)}
  IN IF ts < SampleOpen \/ ts >= SampleClose THEN x
     ELSE IF ts < from THEN x
     ELSE [x EXCEPT !.next_sample = NextBoundary(from, ts),
                    !.samples = @ + Cardinality(seen),
                    !.crossed = @ + Cardinality({l \in seen :
                                                   Best(bk, l, "S") <= Best(bk, l, "B")})]

\* History: what a delete took, and what of a reduction found no followed shares.
DeletedBy(m) ==
  IF m.type = "D" THEN resting[m.ref].shares
  ELSE IF Body(m).type = "D" /\ Body(m).ref \in DOMAIN micro.live
  THEN micro.live[Body(m).ref].remaining ELSE 0
StrayedBy(m) ==
  IF m.type # "B" \/ m.body.type \notin {"E", "X"} THEN 0
  ELSE IF m.body.ref \notin DOMAIN micro.live THEN m.body.qty
  ELSE IF m.body.qty < micro.live[m.body.ref].remaining THEN 0
  ELSE m.body.qty - micro.live[m.body.ref].remaining
Hours(h, ts) ==
  IF ts < SampleOpen \/ ts >= SampleClose THEN h
  ELSE [any |-> TRUE, first |-> IF h.any THEN h.first ELSE ts, last |-> ts]

\* References are day-unique: a replace brings one that is not followed.
MicroMessage(m, ts) ==
  /\ Body(m).type = "U" => Body(m).new \notin DOMAIN micro.live
  /\ micro' = IF m.type = "H" THEN micro ELSE Sampled(Followed(micro, Body(m)), resting', ts)
  /\ deleted' = deleted + DeletedBy(m)
  /\ strayed' = strayed + StrayedBy(m)
  /\ hours' = IF m.type = "H" THEN hours ELSE Hours(hours, ts)

----------------------------------------------------------------------------
(* Properties.                                                             *)

\* The exporter keeps the orders a second time, beside the book's own map: it
\* follows every order of the book with what is left of it, and beyond those
\* only what stray replaces made it follow.
TrackerMirrorsTheBook ==
  /\ DOMAIN resting \subseteq DOMAIN micro.live
  /\ DOMAIN micro.live \ DOMAIN resting \subseteq Missed
  /\ \A r \in DOMAIN resting : micro.live[r].remaining = resting[r].shares

ExitCount == MapThenSumSet(LAMBDA e : micro.exits[e], Exits)

\* Every order that began ends in exactly one class or is still live, and every
\* share that was added was executed, cancelled or deleted, or is still there,
\* except for what was taken from orders the exporter never followed: partial
\* fills, replaces, strays and the cancel that takes the last share included.
LivesAndSharesReconcile ==
  /\ micro.adds + micro.replaces = ExitCount + Cardinality(DOMAIN micro.live)
  /\ micro.shares_added + strayed = micro.shares_executed + micro.shares_cancelled + deleted
       + MapThenSumSet(LAMBDA r : micro.live[r].remaining, DOMAIN micro.live)

\* The second bookkeeping of every order's life agrees with the book and with
\* its own totals.
TrackerReconciles == TrackerMirrorsTheBook /\ LivesAndSharesReconcile

\* The first message within the hours lays a grid of intervals.  The insides are
\* looked at once in every interval of it that has a message, at the first one,
\* and never again in it, however messages bunch and however long none came.
NewInterval ==
  /\ hours'.any
  /\ hours.any => (hours.last - hours.first) \div SampleEvery
                     < (hours'.last - hours'.first) \div SampleEvery
SampledOncePerInterval ==
  [][micro'.samples = micro.samples
       + IF NewInterval THEN Cardinality({l \in Locates : TwoSided(resting', l)}) ELSE 0
    ]_<<feedVars, microVars>>
=============================================================================
