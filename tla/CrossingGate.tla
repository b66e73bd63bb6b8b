---------------------------- MODULE CrossingGate ----------------------------
(***************************************************************************)
(* The crossed-and-locked gate of ReferenceBook (reference_book.hpp).      *)
(*                                                                         *)
(* Per symbol the book retains the trading state the feed announced, an    *)
(* operational-halt flag for the replayed venue, and a reopening window    *)
(* that opens on a resumption.  After each book message check_bbo looks at *)
(* the best bid and ask, and a chain of tests for crossed books and its    *)
(* copy for locked ones excuse what they can; only `unexplained'           *)
(* observations, and windows that had to be closed by the cap, fail the    *)
(* replay.                                                                 *)
(*                                                                         *)
(* Everything check_bbo reads of the book is the relation between its best *)
(* prices, so the gate is stated over that relation.  In this module's own *)
(* specification the relation is any of the four: the gate's properties    *)
(* hold whatever the book does.  ReferenceBook composes it with the book.  *)
(***************************************************************************)
EXTENDS Naturals, FiniteSets

CONSTANTS
  Locates,     \* stock locate codes
  StateCodes,  \* trading states an 'H' message may announce, "T" is trading
  Timestamps,  \* message times
  ReopenCap,   \* kReopenCapNs
  MaxSeen,     \* bound of the model: crossed and locked observations
  MaxWindows   \* bound of the model: reopening windows

ASSUME GateAssumption ==
  /\ IsFiniteSet(Locates) /\ Timestamps \subseteq Nat
  /\ ReopenCap \in Nat
  /\ MaxSeen \in Nat /\ MaxWindows \in Nat
  /\ "none" \notin StateCodes

VARIABLES
  trading,  \* trading_state_: per symbol, what the feed announced
  gate      \* the gate's share of RefCounters

gateVars == <<trading, gate>>

Kinds    == {"crossed", "locked"}
Buckets  == {"before_first_action", "operational_halt", "not_trading",
             "awaiting_reopen", "unexplained"}
\* The best bid against the best ask; "open" when one side is empty.
Relations == {"open", "clean"} \cup Kinds

TradingState == [state    : StateCodes \cup {"none"},
                 awaiting : BOOLEAN,
                 op_halted: BOOLEAN,
                 entered  : Nat]

GateCounters == [observations : [Kinds -> Nat],
                 bucket       : [Kinds -> [Buckets -> Nat]],
                 windows      : Nat,
                 capped       : Nat,
                 max_held     : Nat,
                 symbols      : [Kinds -> SUBSET Locates],
                 unexplained_symbols : SUBSET Locates]

GateTypeOK == /\ trading \in [Locates -> TradingState]
              /\ gate \in GateCounters

GateInit ==
  /\ trading = [l \in Locates |-> [state |-> "none", awaiting |-> FALSE,
                                   op_halted |-> FALSE, entered |-> 0]]
  /\ gate = [observations |-> [k \in Kinds |-> 0],
             bucket |-> [k \in Kinds |-> [b \in Buckets |-> 0]],
             windows |-> 0, capped |-> 0, max_held |-> 0,
             symbols |-> [k \in Kinds |-> {}], unexplained_symbols |-> {}]

----------------------------------------------------------------------------
(* check_bbo, as a function of the symbol's slot and the counters.         *)

Held(s, ts) == IF ts >= s.entered THEN ts - s.entered ELSE 0

MaxOf(m, n) == IF m >= n THEN m ELSE n

\* The window is relied on past the cap: closed by force.
CapFires(s, ts, rel) ==
  s.awaiting /\ rel \in Kinds /\ ts >= s.entered /\ ts - s.entered > ReopenCap

\* The excuses of a crossed book, in the order the code tests them.
CrossedBucket(s, awaiting) ==
  IF s.state = "none" THEN "before_first_action"
  ELSE IF s.op_halted THEN "operational_halt"
  ELSE IF s.state # "T" THEN "not_trading"
  ELSE IF awaiting THEN "awaiting_reopen"
  ELSE "unexplained"

\* A mutant: the copy for locked books does not consult an operational halt.
LockedBucket_IgnoreOpHalt(s, awaiting) ==
  IF s.state = "none" THEN "before_first_action"
  ELSE IF s.state # "T" THEN "not_trading"
  ELSE IF awaiting THEN "awaiting_reopen"
  ELSE "unexplained"

\* The second chain, for a locked book.
LockedBucket(s, awaiting) ==
  IF s.state = "none" THEN "before_first_action"
  ELSE IF s.op_halted THEN "operational_halt"
  ELSE IF s.state # "T" THEN "not_trading"
  ELSE IF awaiting THEN "awaiting_reopen"
  ELSE "unexplained"

\* A mutant: only a cross closes a window.
SlotAfterCheck_OnlyCross(s, ts, rel) ==
  [s EXCEPT !.awaiting = @ /\ ~CapFires(s, ts, rel)]

\* A mutant: the cap is charged and the window stays open.
SlotAfterCheck_CapLeavesOpen(s, ts, rel) == [s EXCEPT !.awaiting = @ /\ rel # "clean"]

\* The slot check_bbo leaves: the cap and a clean observation close a window.
SlotAfterCheck(s, ts, rel) ==
  [s EXCEPT !.awaiting = @ /\ ~CapFires(s, ts, rel) /\ rel # "clean"]

\* The bucket of a crossed or locked observation, after the cap's test.
Bucket(s, ts, rel) ==
  LET awaiting == SlotAfterCheck(s, ts, rel).awaiting
  IN IF rel = "crossed" THEN CrossedBucket(s, awaiting) ELSE LockedBucket(s, awaiting)

\* One crossed or locked observation.
Observed(g, s, l, ts, rel) ==
  LET b == Bucket(s, ts, rel)
  IN [g EXCEPT !.observations[rel] = @ + 1,
               !.bucket[rel][b] = @ + 1,
               !.symbols[rel] = @ \cup {l},
               !.unexplained_symbols = IF b = "unexplained" THEN @ \cup {l} ELSE @]

CountersAfterCheck(g, s, l, ts, rel) ==
  LET capped == IF CapFires(s, ts, rel) THEN [g EXCEPT !.capped = @ + 1] ELSE g
  IN IF rel \in Kinds THEN Observed(capped, s, l, ts, rel)
     ELSE IF rel = "clean" /\ s.awaiting
     THEN [g EXCEPT !.max_held = MaxOf(@, Held(s, ts))]
     ELSE g

\* check_bbo(l, ts) on both variables, for a book in the given relation.
TradingAfterCheck(t, l, ts, rel) == [t EXCEPT ![l] = SlotAfterCheck(@, ts, rel)]
GateAfterCheck(t, g, l, ts, rel) == CountersAfterCheck(g, t[l], l, ts, rel)

----------------------------------------------------------------------------
(* The handlers that change the trading state.                             *)

\* A real transition into 'T'.
Resumes(s, code) == code = "T" /\ s.state # "T"

\* The first action of the session announces a state and ends no halt.
OpensWindow(s, code) == Resumes(s, code) /\ s.state # "none"

\* A mutant: a repeated 'T' restarts the clock of the window.
StockTradingAction_RestartsClock(l, code, ts) ==
  LET s == trading[l]
  IN /\ OpensWindow(s, code) => gate.windows < MaxWindows
     /\ trading' = [trading EXCEPT ![l] =
          [state     |-> code,
           awaiting  |-> s.awaiting \/ OpensWindow(s, code),
           op_halted |-> s.op_halted,
           entered   |-> IF code = "T" THEN ts ELSE s.entered]]
     /\ gate' = IF OpensWindow(s, code) THEN [gate EXCEPT !.windows = @ + 1] ELSE gate

\* on(StockTradingAction)
StockTradingAction(l, code, ts) ==
  LET s == trading[l]
  IN /\ OpensWindow(s, code) => gate.windows < MaxWindows
     /\ trading' = [trading EXCEPT ![l] =
          [state     |-> code,
           awaiting  |-> s.awaiting \/ OpensWindow(s, code),
           op_halted |-> s.op_halted,
           entered   |-> IF Resumes(s, code) THEN ts ELSE s.entered]]
     /\ gate' = IF OpensWindow(s, code) THEN [gate EXCEPT !.windows = @ + 1] ELSE gate

\* on(OperationalHalt): one for another market returns before it changes
\* anything; halt actions other than 'H' and 'T' change nothing either.
OperationalHalt(l, this_market, halt_action) ==
  /\ this_market /\ halt_action \in {"H", "T"}
  /\ trading' = [trading EXCEPT ![l].op_halted = (halt_action = "H")]
  /\ UNCHANGED gate

\* on(CrossTrade): the cross closes the symbol's window.
CrossTradeGate(l, ts) ==
  /\ trading' = [trading EXCEPT ![l].awaiting = FALSE]
  /\ gate' = IF trading[l].awaiting
             THEN [gate EXCEPT !.max_held = MaxOf(@, Held(trading[l], ts))]
             ELSE gate

\* check_bbo after a book message, whatever the book has become.
CheckBbo(l, ts, rel) ==
  /\ rel \in Kinds => gate.observations[rel] < MaxSeen
  /\ trading' = TradingAfterCheck(trading, l, ts, rel)
  /\ gate' = GateAfterCheck(trading, gate, l, ts, rel)

GateNext ==
  \E l \in Locates :
    \/ \E code \in StateCodes, ts \in Timestamps : StockTradingAction(l, code, ts)
    \/ \E act \in {"H", "T"} : OperationalHalt(l, TRUE, act)
    \/ \E ts \in Timestamps : CrossTradeGate(l, ts)
    \/ \E ts \in Timestamps, rel \in Relations : CheckBbo(l, ts, rel)

GateSpec == GateInit /\ [][GateNext]_gateVars

----------------------------------------------------------------------------
(* Properties.                                                             *)

\* A window is opened before it can be open, and the cap closes a window at
\* most once: windows open now and windows closed by the cap never outnumber
\* the windows opened (reopen_windows against reopen_windows_capped).
OpenWindows == {l \in Locates : trading[l].awaiting}
WindowsAccountedFor == gate.capped + Cardinality(OpenWindows) <= gate.windows

\* The replay's verdict (replay.cpp, no_crossing).
NoCrossing == gate.unexplained_symbols = {} /\ gate.capped = 0
=============================================================================
