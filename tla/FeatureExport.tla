--------------------------- MODULE FeatureExport ----------------------------
(***************************************************************************)
(* The feature exporter, export_features.cpp: windows of updates to the    *)
(* inside, features of a closed window, and the label a row waits for,     *)
(* which is the move of the mid over the window after.                     *)
(*                                                                         *)
(* Features are kept as the integers they are quotients of.                *)
(***************************************************************************)
EXTENDS SessionFeed

CONSTANTS
  WindowSizes,  \* what --window may be
  OpenNs,       \* kOpenNs
  CloseNs       \* kCloseNs

ASSUME FeatureExportAssumption ==
  /\ WindowSizes \subseteq Nat \ {0} /\ {OpenNs, CloseNs} \subseteq Nat
  /\ Sides = {"B", "S"}

VARIABLES
  exporter,  \* state_ of each symbol and the exporter's counters
  window,    \* window_
  lag1,      \* lag1_
  log        \* history: what each symbol's current window has seen

exportVars == <<exporter, window, lag1, log>>

\* Inside{}: not valid
NoInside == [bid |-> 0, ask |-> 0, bid_qty |-> 0, ask_qty |-> 0]

\* read_inside()
Inside(bk, l) ==
  IF ~TwoSided(bk, l) THEN NoInside
  ELSE LET bid == Best(bk, l, "B")
           ask == Best(bk, l, "S")
       IN [bid |-> bid, ask |-> ask,
           bid_qty |-> Depth(bk, l, "B", bid), ask_qty |-> Depth(bk, l, "S", ask)]

\* An inside update: both insides are valid and they differ.
IsUpdate(before, after) == before # NoInside /\ after # NoInside /\ before # after

\* Twice the mid, the spread, and the micro-price's deviation from the mid,
\* as twice a fraction of the shares quoted.
Mid2(in) == in.bid + in.ask
Spread(in) == in.ask - in.bid
Quoted(in) == in.bid_qty + in.ask_qty
Imbalance(in) == <<in.bid_qty - in.ask_qty, Quoted(in)>>
MicroDeviation(in) == <<Spread(in) * (in.bid_qty - in.ask_qty), Quoted(in)>>

----------------------------------------------------------------------------
(* One window.                                                             *)

NewWindow ==
  [updates |-> 0, ofi |-> 0, depth_sum |-> 0, signed_exec |-> 0, total_exec |-> 0,
   start |-> 0, halted |-> FALSE, last_e |-> 0, last_depth |-> 0]

\* The order flow imbalance term of one update.
FlowTerm(before, after) ==
    (IF after.bid >= before.bid THEN after.bid_qty ELSE 0)
  - (IF after.bid <= before.bid THEN before.bid_qty ELSE 0)
  - (IF after.ask <= before.ask THEN after.ask_qty ELSE 0)
  + (IF after.ask >= before.ask THEN before.ask_qty ELSE 0)

\* touch(): the executed volume counts in every message.
WithExecution(win, signed, qty) ==
  [win EXCEPT !.signed_exec = @ + signed, !.total_exec = @ + qty]

\* A mutant: a window keeps the term of its last update, not the sum.
WithUpdate_FlowNotSummed(win, before, after, ts, halted) ==
  [win EXCEPT !.updates = @ + 1,
              !.ofi = FlowTerm(before, after),
              !.last_e = FlowTerm(before, after),
              !.depth_sum = @ + Quoted(after),
              !.last_depth = Quoted(after),
              !.start = IF win.updates = 0 THEN ts ELSE @,
              !.halted = @ \/ halted]

\* A mutant: only the window in which the halt is announced is marked.
WithUpdate_HaltForgotten(win, before, after, ts, halted) ==
  [win EXCEPT !.updates = @ + 1,
              !.ofi = @ + FlowTerm(before, after),
              !.last_e = FlowTerm(before, after),
              !.depth_sum = @ + Quoted(after),
              !.last_depth = Quoted(after),
              !.start = IF win.updates = 0 THEN ts ELSE @]

\* touch(): an inside update.
WithUpdate(win, before, after, ts, halted) ==
  [win EXCEPT !.updates = @ + 1,
              !.ofi = @ + FlowTerm(before, after),
              !.last_e = FlowTerm(before, after),
              !.depth_sum = @ + Quoted(after),
              !.last_depth = Quoted(after),
              !.start = IF win.updates = 0 THEN ts ELSE @,
              !.halted = @ \/ halted]

InBounds(start, ts) == start >= OpenNs /\ ts < CloseNs
Usable(start, halted, in, ts) ==
  InBounds(start, ts) /\ ~halted /\ Quoted(in) > 0 /\ Spread(in) > 0

\* The features of the window closing now.
Features(win, before, after) ==
  [ofi   |-> IF lag1 THEN <<win.ofi - win.last_e, win.depth_sum - win.last_depth,
                            win.updates - 1>>
             ELSE <<win.ofi, win.depth_sum, win.updates>>,
   queue |-> Imbalance(IF lag1 THEN before ELSE after),
   micro |-> MicroDeviation(after),
   sign  |-> <<win.signed_exec, win.total_exec>>]

NoPending == [have |-> FALSE]

----------------------------------------------------------------------------
(* The exporter.                                                           *)

NewSymbol(in) ==
  [prev |-> in, win |-> NewWindow, pending |-> NoPending, halted |-> FALSE]
NewLog(in) == [base |-> in, steady |-> TRUE, halted |-> FALSE]

NoRow == [locate |-> 0]

\* The session is picked up with the opening book's inside seen and no window
\* begun.
ExportInit ==
  /\ window \in WindowSizes /\ lag1 \in BOOLEAN
  /\ exporter = [sym |-> [l \in Locates |-> NewSymbol(Inside(resting, l))], msgs |-> 0,
                 row |-> NoRow, rows |-> 0, dropped_halt |-> 0, dropped_bounds |-> 0]
  /\ log = [l \in Locates |-> NewLog(Inside(resting, l))]

\* close_window(): the row of the window before, then this window's features,
\* which wait for their label.
Closed(x, l, win, before, after, ts) ==
  LET usable == Usable(win.start, win.halted, after, ts)
      waiting == x.sym[l].pending
      emitted == waiting.have /\ usable
  IN [x EXCEPT
        !.sym[l].win = NewWindow,
        !.sym[l].pending =
          IF ~usable THEN NoPending
          ELSE [have |-> TRUE, features |-> Features(win, before, after),
                mid |-> Mid2(after), spread |-> Spread(after), end_ts |-> ts,
                close_msg |-> x.msgs],
        !.row = IF emitted
                THEN [locate |-> l, features |-> waiting.features,
                      feat_last_msg |-> waiting.close_msg, label_last_msg |-> x.msgs,
                      label |-> Mid2(after) - waiting.mid]
                ELSE @,
        !.rows = IF emitted THEN @ + 1 ELSE @,
        !.dropped_bounds =
          IF waiting.have /\ ~usable /\ ~InBounds(win.start, ts) THEN @ + 1 ELSE @,
        !.dropped_halt =
          IF waiting.have /\ ~usable /\ InBounds(win.start, ts) THEN @ + 1 ELSE @]

\* touch(), on the book the message leaves.
Touched(x, bk, l, signed, qty, ts) ==
  LET s      == x.sym[l]
      after  == Inside(bk, l)
      win    == WithExecution(s.win, signed, qty)
      next   == WithUpdate(win, s.prev, after, ts, s.halted)
      looked == [x EXCEPT !.sym[l].prev = after, !.sym[l].win = win]
  IN IF ~IsUpdate(s.prev, after) THEN looked
     ELSE IF next.updates < window THEN [looked EXCEPT !.sym[l].win = next]
     ELSE Closed(looked, l, next, s.prev, after, ts)

\* on(StockTradingAction): any action marks the window, and only 'H' a halt.
TradingAction(x, l, state) ==
  [x EXCEPT !.sym[l].halted = (state = "H"), !.sym[l].win.halted = TRUE]

\* executed(): against a resting bid it is a sale, against an offer a purchase.
SignedQty(o, qty) == IF o.side = "B" THEN -qty ELSE qty

\* A handler: the message is counted, the book takes it, the inside is read.  An
\* execution of an order the book does not hold has a size and no side.
Exported(x, m, bk, ts) ==
  LET y == [x EXCEPT !.msgs = @ + 1]
  IN IF m.type = "H" THEN TradingAction(y, m.locate, m.state)
     ELSE IF m.type = "E"
     THEN Touched(y, bk, LocateOf(m), SignedQty(resting[m.ref], m.qty), m.qty, ts)
     ELSE IF m.type = "B" /\ m.body.type = "E"
     THEN Touched(y, bk, LocateOf(m), 0, m.body.qty, ts)
     ELSE Touched(y, bk, LocateOf(m), 0, 0, ts)

\* History: the inside a window started from, whether its prices have stood
\* still since, and whether the symbol was halted at any moment of it.
Logged(g, x, m, bk) ==
  LET l == LocateOf(m)
      in == Inside(bk, l)
      closed == x.sym[l].win.updates + 1 = window /\ IsUpdate(x.sym[l].prev, in)
  IN IF m.type # "H" /\ closed
     THEN [g EXCEPT ![l] = [NewLog(in) EXCEPT !.halted = status'[l] = "H"]]
     ELSE [g EXCEPT
             ![l].halted = @ \/ status'[l] = "H",
             ![l].steady = /\ @ /\ in # NoInside /\ g[l].base # NoInside
                           /\ in.bid = g[l].base.bid /\ in.ask = g[l].base.ask]

ExportMessage(m, ts) ==
  /\ exporter' = Exported(exporter, m, resting', ts)
  /\ log' = Logged(log, exporter, m, resting')
  /\ UNCHANGED <<window, lag1>>

----------------------------------------------------------------------------
(* Properties.                                                             *)

\* While the best prices stand still, a window's order flow imbalance is the
\* net change of the quantities quoted there, whatever adds, cancels,
\* executions and replaces made it up.
FlowIsTheNetChange ==
  \A l \in Locates :
    LET g == log[l]
        s == exporter.sym[l]
    IN g.steady /\ g.base # NoInside /\ s.prev # NoInside =>
         s.win.ofi = (s.prev.bid_qty - g.base.bid_qty) - (s.prev.ask_qty - g.base.ask_qty)

\* A window that is kept saw the symbol halted at no moment, not even between
\* two updates or across several windows; and a row joins its features to the
\* move of the mid between its own close and the next window's.
RowsSpanNoHalt ==
  [][/\ \A l \in Locates :
          exporter'.sym[l].pending # exporter.sym[l].pending /\ exporter'.sym[l].pending.have
          => ~log[l].halted /\ status'[l] # "H"
     /\ exporter'.rows > exporter.rows =>
          LET l == exporter'.row.locate
          IN /\ exporter'.sym[l].pending.have
             /\ exporter'.row.label = exporter'.sym[l].pending.mid - exporter.sym[l].pending.mid
             /\ exporter'.row.feat_last_msg < exporter'.row.label_last_msg
    ]_<<feedVars, exportVars>>

\* export_features.cpp:271-274, "recomputes the FEATURES from the book one
\* message earlier": under --lag1 nothing a row says of the book is read from
\* the book its window's last message left.
LaggedFeaturesPredateTheClose ==
  [][\A l \in Locates :
       LET p == exporter'.sym[l].pending
       IN lag1 /\ p.have /\ p # exporter.sym[l].pending =>
            /\ p.features.queue = Imbalance(exporter.sym[l].prev)
            /\ p.features.micro = MicroDeviation(exporter.sym[l].prev)]_<<feedVars, exportVars>>
=============================================================================
