------------------------- MODULE ReferenceBookProofs ------------------------
(***************************************************************************)
(* The reference book and the gate it carries.                             *)
(*                                                                         *)
(* First the gate's bookkeeping, for every set of symbols, every cap and   *)
(* every order of timestamps.  The invariant is stated over a pair (t, g)  *)
(* that need not be the current one, because a replace runs check_bbo      *)
(* twice in one step of ReferenceBook.                                     *)
(*                                                                         *)
(* Then the gate's verdict on a venue that may be orderly or not, for      *)
(* every length of the day.  Its two directions need different facts.      *)
(* That a fault is caught rests on what the announced state says of the    *)
(* venue's phase (Follows); that nobody else is blamed rests on auctions   *)
(* being inside their window (InTime), which only an orderly venue keeps.  *)
(*                                                                         *)
(* Then the invariants of the book itself, for every feed, and that it is  *)
(* an OrderBook.  Sound(b) is what check_invariants() inspects (the share  *)
(* sums come last, as SumsUp) with the converse it does not inspect: every *)
(* live order is in its level's FIFO, exactly once.  The converse is what  *)
(* makes it inductive: without it the erase of an order might leave an     *)
(* entry behind.                                                           *)
(*                                                                         *)
(* Last the gate and the book together.  That prices meet is a matter of   *)
(* which levels there are (Meets); only what an add puts in can make them  *)
(* meet, at its own symbol, and the check that follows reports it.         *)
(***************************************************************************)
EXTENDS ReferenceBook, VenueSession, FiniteSetTheorems, WellFoundedInduction, TLAPS

Awaiting(t) == {l \in Locates : t[l].awaiting}

GateOK(t, g) ==
  /\ t \in [Locates -> TradingState]
  /\ g \in GateCounters
  /\ g.capped + Cardinality(Awaiting(t)) <= g.windows

LEMMA AwaitingFinite ==
  ASSUME NEW t
  PROVE  IsFiniteSet(Awaiting(t)) /\ Cardinality(Awaiting(t)) \in Nat
  BY FS_Subset, FS_CardinalityType, GateAssumption DEF Awaiting

\* Closing one symbol's window takes it out of the open ones; leaving it as
\* it is changes nothing.
LEMMA CloseWindow ==
  ASSUME NEW t, NEW u, NEW l \in Locates,
         \A m \in Locates \ {l} : u[m].awaiting = t[m].awaiting,
         ~u[l].awaiting
  PROVE  Cardinality(Awaiting(u)) =
           IF t[l].awaiting THEN Cardinality(Awaiting(t)) - 1 ELSE Cardinality(Awaiting(t))
<1>1. CASE t[l].awaiting
  <2>1. Awaiting(u) = Awaiting(t) \ {l} /\ l \in Awaiting(t)
    BY <1>1 DEF Awaiting
  <2> QED BY <1>1, <2>1, AwaitingFinite, FS_RemoveElement
<1>2. CASE ~t[l].awaiting
  <2>1. Awaiting(u) = Awaiting(t)
    BY <1>2 DEF Awaiting
  <2> QED BY <1>2, <2>1
<1> QED BY <1>1, <1>2

\* The counters an observation leaves, field by field.
BucketAfter(g, s, ts, rel) ==
  [g.bucket EXCEPT ![rel] = [g.bucket[rel] EXCEPT ![Bucket(s, ts, rel)] = @ + 1]]

BlamedAfter(g, s, l, ts, rel) ==
  IF Bucket(s, ts, rel) = "unexplained" THEN g.unexplained_symbols \cup {l}
  ELSE g.unexplained_symbols

LEMMA ObservedIs ==
  ASSUME NEW g \in GateCounters, NEW s, NEW l, NEW ts, NEW rel \in Kinds
  PROVE  Observed(g, s, l, ts, rel) =
           [observations |-> [g.observations EXCEPT ![rel] = @ + 1],
            bucket |-> BucketAfter(g, s, ts, rel), windows |-> g.windows,
            capped |-> g.capped, max_held |-> g.max_held,
            symbols |-> [g.symbols EXCEPT ![rel] = @ \cup {l}],
            unexplained_symbols |-> BlamedAfter(g, s, l, ts, rel)]
<1> DEFINE h == Observed(g, s, l, ts, rel)
           obs == [g.observations EXCEPT ![rel] = @ + 1]
           bkt == BucketAfter(g, s, ts, rel)
           syms == [g.symbols EXCEPT ![rel] = @ \cup {l}]
           blamed == BlamedAfter(g, s, l, ts, rel)
<1>1. /\ g = [observations |-> g.observations, bucket |-> g.bucket, windows |-> g.windows,
                capped |-> g.capped, max_held |-> g.max_held, symbols |-> g.symbols,
                unexplained_symbols |-> g.unexplained_symbols]
      /\ g.observations \in [Kinds -> Nat] /\ g.bucket \in [Kinds -> [Buckets -> Nat]]
      /\ g.symbols \in [Kinds -> SUBSET Locates] /\ g.unexplained_symbols \in SUBSET Locates
      /\ g.windows \in Nat /\ g.capped \in Nat /\ g.max_held \in Nat
  BY DEF GateCounters
<1>2. h = [g EXCEPT !.observations = obs, !.bucket = bkt, !.symbols = syms,
                    !.unexplained_symbols = blamed]
  BY <1>1 DEF Observed, BucketAfter, BlamedAfter
<1> HIDE DEF h, obs, bkt, syms, blamed
<1>3. h = [observations |-> obs, bucket |-> bkt, windows |-> g.windows,
           capped |-> g.capped, max_held |-> g.max_held, symbols |-> syms,
           unexplained_symbols |-> blamed]
  BY <1>1, <1>2
<1> QED BY <1>3 DEF h, obs, bkt, syms, blamed

\* An observation is counted in one bucket of its kind, and charges no window.
LEMMA ObservedSound ==
  ASSUME NEW g \in GateCounters, NEW s \in TradingState, NEW l \in Locates, NEW ts \in Nat,
         NEW rel \in Kinds, NEW h, h = Observed(g, s, l, ts, rel)
  PROVE  h \in GateCounters /\ h.capped = g.capped /\ h.windows = g.windows
<1> DEFINE obs == [g.observations EXCEPT ![rel] = @ + 1]
           bkt == BucketAfter(g, s, ts, rel)
           syms == [g.symbols EXCEPT ![rel] = @ \cup {l}]
           blamed == BlamedAfter(g, s, l, ts, rel)
<1>1. /\ g.observations \in [Kinds -> Nat] /\ g.bucket \in [Kinds -> [Buckets -> Nat]]
      /\ g.windows \in Nat /\ g.capped \in Nat /\ g.max_held \in Nat
      /\ g.symbols \in [Kinds -> SUBSET Locates] /\ g.unexplained_symbols \in SUBSET Locates
  BY DEF GateCounters
<1>2. bkt \in [Kinds -> [Buckets -> Nat]]
  <2> DEFINE b == Bucket(s, ts, rel)
             row == [g.bucket[rel] EXCEPT ![b] = @ + 1]
  <2>1. b \in Buckets
    BY DEF Bucket, CrossedBucket, LockedBucket, Buckets
  <2> HIDE DEF b
  <2>2. row \in [Buckets -> Nat]
    BY <1>1, <2>1
  <2>3. bkt = [g.bucket EXCEPT ![rel] = row]
    BY DEF BucketAfter, b
  <2> HIDE DEF row, bkt
  <2> QED BY <1>1, <2>2, <2>3
<1>3. obs \in [Kinds -> Nat] /\ syms \in [Kinds -> SUBSET Locates]
  BY <1>1
<1>4. blamed \in SUBSET Locates
  BY <1>1 DEF BlamedAfter
<1>5. h = [observations |-> obs, bucket |-> bkt, windows |-> g.windows,
           capped |-> g.capped, max_held |-> g.max_held, symbols |-> syms,
           unexplained_symbols |-> blamed]
  BY ObservedIs
<1> HIDE DEF obs, bkt, syms, blamed
<1> QED BY <1>1, <1>2, <1>3, <1>4, <1>5 DEF GateCounters

\* It reports the symbol, and takes no report back.
LEMMA ObservedSymbols ==
  ASSUME NEW g \in GateCounters, NEW s, NEW l, NEW ts, NEW rel \in Kinds,
         NEW h, h = Observed(g, s, l, ts, rel)
  PROVE  l \in h.symbols[rel] /\ \A k \in Kinds : g.symbols[k] \subseteq h.symbols[k]
<1>1. g.symbols \in [Kinds -> SUBSET Locates]
  BY DEF GateCounters
<1>2. h.symbols = [g.symbols EXCEPT ![rel] = @ \cup {l}]
  BY ObservedIs
<1> QED BY <1>1, <1>2

\* It blames the symbol exactly when the chain of excuses reaches its end.
LEMMA ObservedVerdict ==
  ASSUME NEW g \in GateCounters, NEW s, NEW l, NEW ts, NEW rel \in Kinds,
         NEW h, h = Observed(g, s, l, ts, rel)
  PROVE  h.unexplained_symbols = BlamedAfter(g, s, l, ts, rel)
  BY ObservedIs

\* It puts to a reopening only what the chain puts there.
LEMMA ObservedExcuse ==
  ASSUME NEW g \in GateCounters, NEW s, NEW l, NEW ts, NEW rel \in Kinds,
         NEW h, h = Observed(g, s, l, ts, rel), NEW k \in Kinds,
         h.bucket[k]["awaiting_reopen"] > g.bucket[k]["awaiting_reopen"]
  PROVE  Bucket(s, ts, rel) = "awaiting_reopen"
<1> DEFINE b == Bucket(s, ts, rel)
           row == [g.bucket[rel] EXCEPT ![b] = @ + 1]
<1>1. /\ g.bucket \in [Kinds -> [Buckets -> Nat]] /\ "awaiting_reopen" \in Buckets
      /\ g.bucket[k]["awaiting_reopen"] \in Nat
  BY DEF GateCounters, Buckets
<1>2. h.bucket = [g.bucket EXCEPT ![rel] = row]
  <2>1. h.bucket = BucketAfter(g, s, ts, rel)
    BY ObservedIs
  <2> QED BY <2>1 DEF BucketAfter
<1>3. k = rel
  <2> HIDE DEF row
  <2> QED BY <1>1, <1>2
<1>4. row["awaiting_reopen"] > g.bucket[rel]["awaiting_reopen"]
  <2> HIDE DEF row
  <2> QED BY <1>1, <1>2, <1>3
<1> HIDE DEF b
<1>5. b = "awaiting_reopen"
  BY <1>1, <1>3, <1>4
<1> QED BY <1>5 DEF b

\* check_bbo preserves the invariant, whatever the book.
LEMMA CheckSound ==
  ASSUME NEW t, NEW g, NEW l \in Locates, NEW ts \in Nat, NEW rel \in Relations, GateOK(t, g)
  PROVE  GateOK(TradingAfterCheck(t, l, ts, rel), GateAfterCheck(t, g, l, ts, rel))
<1> DEFINE u == TradingAfterCheck(t, l, ts, rel)
           h == GateAfterCheck(t, g, l, ts, rel)
           s == t[l]
<1>1. /\ s \in TradingState /\ u \in [Locates -> TradingState]
      /\ \A m \in Locates \ {l} : u[m].awaiting = t[m].awaiting
      /\ u[l].awaiting = (s.awaiting /\ ~CapFires(s, ts, rel) /\ rel # "clean")
  BY DEF GateOK, TradingAfterCheck, SlotAfterCheck, TradingState
<1>2. g \in GateCounters /\ g.capped \in Nat /\ g.windows \in Nat
  BY DEF GateOK, GateCounters
<1>3. CASE CapFires(s, ts, rel)
  <2> DEFINE c == [g EXCEPT !.capped = @ + 1]
  <2>1. rel \in Kinds /\ s.awaiting /\ h = Observed(c, s, l, ts, rel)
    BY <1>3 DEF CapFires, GateAfterCheck, CountersAfterCheck
  <2>2. /\ c \in GateCounters /\ c.capped = g.capped + 1 /\ c.windows = g.windows
    BY <1>2 DEF GateOK, GateCounters
  <2> HIDE DEF c, h, s
  <2>3. /\ h \in GateCounters /\ h.capped = c.capped /\ h.windows = c.windows
    BY <1>1, <2>1, <2>2, ObservedSound
  <2>4. Cardinality(Awaiting(u)) = Cardinality(Awaiting(t)) - 1
    BY <1>1, <1>3, <2>1, CloseWindow DEF s
  <2> QED BY <1>1, <1>2, <2>2, <2>3, <2>4, AwaitingFinite DEF GateOK, h
<1>4. CASE ~CapFires(s, ts, rel)
  <2>1. /\ h \in GateCounters /\ h.capped = g.capped /\ h.windows = g.windows
    <3>1. CASE rel \in Kinds
      <4>1. h = Observed(g, s, l, ts, rel)
        BY <1>4, <3>1 DEF GateAfterCheck, CountersAfterCheck
      <4> HIDE DEF h, s
      <4> QED BY <1>1, <1>2, <3>1, <4>1, ObservedSound
    <3>2. CASE rel \notin Kinds /\ rel = "clean" /\ s.awaiting
      <4>1. h = [g EXCEPT !.max_held = MaxOf(@, Held(s, ts))]
        BY <1>4, <3>2 DEF GateAfterCheck, CountersAfterCheck
      <4>2. MaxOf(g.max_held, Held(s, ts)) \in Nat
        BY <1>1, <1>2 DEF MaxOf, Held, GateCounters, TradingState
      <4> QED BY <1>2, <4>1, <4>2 DEF GateOK, GateCounters
    <3>3. CASE rel \notin Kinds /\ ~(rel = "clean" /\ s.awaiting)
      <4>1. h = g
        BY <1>4, <3>3 DEF GateAfterCheck, CountersAfterCheck
      <4> QED BY <4>1 DEF GateOK
    <3> QED BY <3>1, <3>2, <3>3
  <2>2. Cardinality(Awaiting(u)) <= Cardinality(Awaiting(t))
    <3>1. CASE u[l].awaiting
      <4>1. Awaiting(u) = Awaiting(t)
        BY <1>1, <3>1 DEF Awaiting
      <4> QED BY <4>1, AwaitingFinite
    <3>2. CASE ~u[l].awaiting
      BY <1>1, <3>2, CloseWindow, AwaitingFinite
    <3> QED BY <3>1, <3>2
  <2> QED BY <1>1, <1>2, <2>1, <2>2, AwaitingFinite DEF GateOK
<1> QED BY <1>3, <1>4

\* 'H' Stock Trading Action: a window is counted when it is opened.
LEMMA StockTradingActionSound ==
  ASSUME NEW l \in Locates, NEW code \in StateCodes, NEW ts \in Nat,
         GateOK(trading, gate), StockTradingAction(l, code, ts)
  PROVE  GateOK(trading, gate)'
<1> DEFINE s == trading[l]
           opens == OpensWindow(s, code)
<1>1. s \in TradingState /\ gate \in GateCounters /\ opens \in BOOLEAN
  BY DEF GateOK, OpensWindow, Resumes
<1>2. /\ trading' \in [Locates -> TradingState]
      /\ trading'[l].awaiting = (s.awaiting \/ opens)
      /\ \A m \in Locates \ {l} : trading'[m].awaiting = trading[m].awaiting
  BY <1>1 DEF StockTradingAction, GateOK, TradingState
<1>3. CASE ~opens
  <2>1. gate' = gate /\ Awaiting(trading') = Awaiting(trading)
    BY <1>1, <1>2, <1>3 DEF StockTradingAction, Awaiting, TradingState
  <2> QED BY <1>2, <2>1 DEF GateOK
<1>4. CASE opens
  <2>1. gate' = [gate EXCEPT !.windows = @ + 1]
    BY <1>4 DEF StockTradingAction
  <2>2. Awaiting(trading') = Awaiting(trading) \cup {l}
    BY <1>2, <1>4 DEF Awaiting
  <2>3. Cardinality(Awaiting(trading')) <= Cardinality(Awaiting(trading)) + 1
    <3>1. IsFiniteSet(Awaiting(trading)) /\ Cardinality(Awaiting(trading)) \in Nat
      BY AwaitingFinite
    <3>2. \/ Cardinality(Awaiting(trading) \cup {l}) = Cardinality(Awaiting(trading))
          \/ Cardinality(Awaiting(trading) \cup {l}) = Cardinality(Awaiting(trading)) + 1
      BY <3>1, FS_AddElement
    <3> QED BY <2>2, <3>1, <3>2
  <2>4. /\ gate' \in GateCounters /\ gate'.windows = gate.windows + 1
        /\ gate'.capped = gate.capped
    BY <1>1, <2>1 DEF GateCounters
  <2>5. gate.windows \in Nat /\ gate.capped \in Nat
    BY <1>1 DEF GateCounters
  <2>6. /\ Cardinality(Awaiting(trading')) \in Nat
        /\ Cardinality(Awaiting(trading)) \in Nat
    BY AwaitingFinite
  <2>7. gate'.capped + Cardinality(Awaiting(trading')) <= gate'.windows
    BY <2>3, <2>4, <2>5, <2>6 DEF GateOK
  <2> QED BY <1>2, <2>4, <2>7 DEF GateOK
<1> QED BY <1>3, <1>4

\* 'h' Operational Halt touches no window.
LEMMA OperationalHaltSound ==
  ASSUME NEW l \in Locates, NEW this_market, NEW act,
         GateOK(trading, gate), OperationalHalt(l, this_market, act)
  PROVE  GateOK(trading, gate)'
<1>1. /\ trading' \in [Locates -> TradingState] /\ gate' = gate
      /\ \A m \in Locates : trading'[m].awaiting = trading[m].awaiting
  BY DEF OperationalHalt, GateOK, TradingState
<1>2. Awaiting(trading') = Awaiting(trading)
  BY <1>1 DEF Awaiting
<1> QED BY <1>1, <1>2 DEF GateOK

\* 'Q' Cross Trade closes the symbol's window and counts nothing.
LEMMA CrossTradeSound ==
  ASSUME NEW l \in Locates, NEW ts \in Nat,
         GateOK(trading, gate), CrossTradeGate(l, ts)
  PROVE  GateOK(trading, gate)'
<1>1. /\ trading' \in [Locates -> TradingState] /\ ~trading'[l].awaiting
      /\ \A m \in Locates \ {l} : trading'[m].awaiting = trading[m].awaiting
      /\ trading[l] \in TradingState /\ gate \in GateCounters
  BY DEF CrossTradeGate, GateOK, TradingState
<1>2. MaxOf(gate.max_held, Held(trading[l], ts)) \in Nat
  BY <1>1 DEF MaxOf, Held, GateCounters, TradingState
<1>3. /\ gate' \in GateCounters /\ gate'.windows = gate.windows
      /\ gate'.capped = gate.capped
  BY <1>1, <1>2 DEF CrossTradeGate, GateCounters
<1>4. Cardinality(Awaiting(trading')) <= Cardinality(Awaiting(trading))
  BY <1>1, CloseWindow, AwaitingFinite
<1>5. gate.windows \in Nat /\ gate.capped \in Nat
  BY <1>1 DEF GateCounters
<1>6. /\ Cardinality(Awaiting(trading')) \in Nat
      /\ Cardinality(Awaiting(trading)) \in Nat
  BY AwaitingFinite
<1> QED BY <1>1, <1>3, <1>4, <1>5, <1>6 DEF GateOK

LEMMA InitSound == GateInit => GateOK(trading, gate)
<1> SUFFICES ASSUME GateInit PROVE GateOK(trading, gate)
  OBVIOUS
<1>1. Awaiting(trading) = {} /\ Cardinality({}) = 0
  BY FS_EmptySet DEF Awaiting, GateInit
<1>2. trading \in [Locates -> TradingState]
  BY DEF GateInit, TradingState
<1>3. gate \in GateCounters /\ gate.capped = 0 /\ gate.windows = 0
  BY GateAssumption DEF GateInit, GateCounters
<1> QED BY <1>1, <1>2, <1>3 DEF GateOK

LEMMA GateOKSuffices ==
  GateOK(trading, gate) => GateTypeOK /\ WindowsAccountedFor
  BY DEF GateOK, GateTypeOK, WindowsAccountedFor, OpenWindows, Awaiting

LEMMA GateInvariant == GateSpec => []GateOK(trading, gate)
<1>1. GateOK(trading, gate) /\ [GateNext]_gateVars => GateOK(trading, gate)'
  <2> SUFFICES ASSUME GateOK(trading, gate), [GateNext]_gateVars PROVE GateOK(trading, gate)'
    OBVIOUS
  <2>1. Timestamps \subseteq Nat
    BY GateAssumption
  <2>2. ASSUME NEW l \in Locates, NEW code \in StateCodes, NEW ts \in Timestamps,
               StockTradingAction(l, code, ts)
        PROVE  GateOK(trading, gate)'
    BY <2>1, <2>2, StockTradingActionSound
  <2>3. ASSUME NEW l \in Locates, NEW act, OperationalHalt(l, TRUE, act)
        PROVE  GateOK(trading, gate)'
    BY <2>3, OperationalHaltSound
  <2>4. ASSUME NEW l \in Locates, NEW ts \in Timestamps, CrossTradeGate(l, ts)
        PROVE  GateOK(trading, gate)'
    BY <2>1, <2>4, CrossTradeSound
  <2>5. ASSUME NEW l \in Locates, NEW ts \in Timestamps, NEW rel \in Relations,
               CheckBbo(l, ts, rel)
        PROVE  GateOK(trading, gate)'
    BY <2>1, <2>5, CheckSound DEF CheckBbo
  <2>6. CASE UNCHANGED gateVars
    BY <2>6 DEF gateVars, GateOK, Awaiting
  <2> QED BY <2>2, <2>3, <2>4, <2>5, <2>6 DEF GateNext
<1> QED BY <1>1, InitSound, PTL DEF GateSpec

\* Whatever the feed announces and whatever the book becomes, the cap never
\* charges a window that was not opened, and charges each at most once
\* (WindowsAccountedFor; the counters of windows opened and capped).
THEOREM GateBookkeeping == GateSpec => [](GateTypeOK /\ WindowsAccountedFor)
  BY GateInvariant, GateOKSuffices, PTL

----------------------------------------------------------------------------
(* The venue.                                                              *)

\* A symbol's slot in the gate against what the venue is doing with it: its
\* phase, whether it is stopped, and when it last began to trade.
Follows(p, halted, s) ==
  /\ p = "unlisted" => s.state = "none"
  /\ p = "halted" => s.state \notin {"none", "T"}
  /\ p \in {"auction", "matching"} => s.state = "T"
  /\ p \in {"unlisted", "matching"} => ~s.awaiting
  /\ s.op_halted <=> halted

\* The clock of an open window is the symbol's own.
OnTheClock(s, began) == s.awaiting => s.entered = began

\* The window is open in the auction, within the cap, and at no other time.
InTime(p, s, at) ==
  /\ p = "halted" => ~s.awaiting
  /\ p = "auction" => s.awaiting /\ s.entered <= at /\ at <= s.entered + ReopenCap

Tracked(p, halted, began, s, at) ==
  Follows(p, halted, s) /\ OnTheClock(s, began) /\ (Orderly => InTime(p, s, at))

AllTracked ==
  \A l \in Locates : Tracked(phase[l], l \in stopped, past.resumed[l], trading[l], now)

VInv ==
  /\ GateOK(trading, gate)
  /\ phase \in [Locates -> Phases] /\ now \in Nat /\ past \in History
  /\ AllTracked
  /\ NoFalseAlarm /\ CaughtAtOnce /\ ExcuseIsBounded

----------------------------------------------------------------------------
\* A message about one symbol that blames nobody: only its phase and its slot
\* are to be looked at.
LEMMA OneSymbol ==
  ASSUME VInv, NEW l \in Locates, NEW p \in Phases, Enter(l, p),
         UNCHANGED <<now, venue>>, GateOK(trading, gate)',
         past' \in History, past'.faulted = past.faulted, past'.overdue = past.overdue,
         \A m \in Locates \ {l} :
           /\ trading'[m] = trading[m] /\ past'.resumed[m] = past.resumed[m]
           /\ m \in stopped' <=> m \in stopped,
         gate'.unexplained_symbols = gate.unexplained_symbols, gate'.capped = gate.capped,
         Tracked(p, l \in stopped', past'.resumed[l], trading'[l], now)
  PROVE  VInv'
<1>1. /\ phase' \in [Locates -> Phases] /\ phase'[l] = p
      /\ \A m \in Locates \ {l} : phase'[m] = phase[m]
  BY DEF VInv, Enter
<1>2. Orderly' = Orderly
  BY DEF Orderly
<1>3. ASSUME NEW m \in Locates
      PROVE  Tracked(phase[m], m \in stopped, past.resumed[m], trading[m], now)'
  <2>1. CASE m = l
    BY <1>1, <1>2, <2>1 DEF Tracked, InTime, Follows, OnTheClock
  <2>2. CASE m # l
    <3>1. /\ phase'[m] = phase[m] /\ trading'[m] = trading[m]
          /\ past'.resumed[m] = past.resumed[m] /\ (m \in stopped' <=> m \in stopped)
          /\ Tracked(phase[m], m \in stopped, past.resumed[m], trading[m], now)
      BY <1>1, <2>2 DEF VInv, AllTracked
    <3> QED BY <1>2, <3>1 DEF Tracked, InTime, Follows, OnTheClock
  <2> QED BY <2>1, <2>2
<1>4. (NoFalseAlarm /\ CaughtAtOnce /\ ExcuseIsBounded)'
  BY <1>2 DEF VInv, NoFalseAlarm, CaughtAtOnce, ExcuseIsBounded
<1> QED BY <1>1, <1>3, <1>4 DEF VInv, AllTracked

\* What an 'H' message makes of its symbol's slot, and of no other.
LEMMA ActionOnSlot ==
  ASSUME VInv, NEW l \in Locates, NEW code \in StateCodes, StockTradingAction(l, code, now)
  PROVE  LET s == trading[l]
             u == trading'[l]
         IN /\ GateOK(trading, gate)'
            /\ \A m \in Locates \ {l} : trading'[m] = trading[m]
            /\ gate'.unexplained_symbols = gate.unexplained_symbols
            /\ gate'.capped = gate.capped
            /\ u.state = code /\ u.op_halted = s.op_halted
            /\ u.awaiting = (s.awaiting \/ OpensWindow(s, code))
            /\ u.entered = IF Resumes(s, code) THEN now ELSE s.entered
<1>1. GateOK(trading, gate) /\ now \in Nat
  BY DEF VInv
<1>2. trading \in [Locates -> TradingState] /\ gate \in GateCounters
  BY <1>1 DEF GateOK
<1>3. GateOK(trading, gate)'
  BY <1>1, StockTradingActionSound
<1>4. /\ gate'.unexplained_symbols = gate.unexplained_symbols
      /\ gate'.capped = gate.capped
  BY <1>2 DEF StockTradingAction, GateCounters
<1> QED BY <1>2, <1>3, <1>4 DEF StockTradingAction

LEMMA OperationalOnSlot ==
  ASSUME VInv, NEW l \in Locates, NEW act, OperationalHalt(l, TRUE, act)
  PROVE  LET s == trading[l]
             u == trading'[l]
         IN /\ GateOK(trading, gate)' /\ gate' = gate
            /\ \A m \in Locates \ {l} : trading'[m] = trading[m]
            /\ u.state = s.state /\ u.awaiting = s.awaiting /\ u.entered = s.entered
            /\ u.op_halted = (act = "H")
<1>1. GateOK(trading, gate) /\ trading \in [Locates -> TradingState]
  BY DEF VInv, GateOK
<1>2. GateOK(trading, gate)'
  BY <1>1, OperationalHaltSound
<1> QED BY <1>1, <1>2 DEF OperationalHalt, TradingState

\* The history of a symbol that begins to trade.
LEMMA BegunNow ==
  ASSUME VInv, NEW l \in Locates, BeginsToTrade(l)
  PROVE  /\ past' \in History /\ past'.resumed[l] = now
         /\ past'.faulted = past.faulted /\ past'.overdue = past.overdue
         /\ \A m \in Locates \ {l} : past'.resumed[m] = past.resumed[m]
  BY DEF VInv, History, BeginsToTrade

LEMMA SameHistory ==
  ASSUME VInv, UNCHANGED past
  PROVE  /\ past' \in History /\ past'.faulted = past.faulted /\ past'.overdue = past.overdue
         /\ past'.resumed = past.resumed
  BY DEF VInv

LEMMA TrackedHere ==
  ASSUME VInv, NEW l \in Locates
  PROVE  Tracked(phase[l], l \in stopped, past.resumed[l], trading[l], now)
  BY DEF VInv, AllTracked

----------------------------------------------------------------------------
LEMMA ListTradingSound ==
  ASSUME VInv, NEW l \in Locates, "T" \in StateCodes, ListTrading(l)
  PROVE  VInv'
<1>1. /\ Tracked("unlisted", l \in stopped, past.resumed[l], trading[l], now)
      /\ StockTradingAction(l, "T", now) /\ BeginsToTrade(l) /\ UNCHANGED <<stopped, now, venue>>
  BY TrackedHere DEF ListTrading
<1>2. Tracked("matching", l \in stopped', past'.resumed[l], trading'[l], now)
  BY <1>1, ActionOnSlot DEF Tracked, Follows, OnTheClock, InTime, OpensWindow, Resumes
<1>3. "matching" \in Phases /\ Enter(l, "matching")
  BY DEF ListTrading, Phases
<1> QED BY <1>1, <1>2, <1>3, ActionOnSlot, BegunNow, OneSymbol

LEMMA ListHaltedSound ==
  ASSUME VInv, NEW l \in Locates, NEW code \in StateCodes, ListHalted(l, code)
  PROVE  VInv'
<1>1. /\ Tracked("unlisted", l \in stopped, past.resumed[l], trading[l], now)
      /\ StockTradingAction(l, code, now) /\ UNCHANGED <<stopped, now, venue, past>>
      /\ code # "T" /\ code # "none"
  BY TrackedHere, GateAssumption DEF ListHalted
<1>2. Tracked("halted", l \in stopped', past'.resumed[l], trading'[l], now)
  BY <1>1, ActionOnSlot DEF Tracked, Follows, OnTheClock, InTime, OpensWindow, Resumes
<1>3. "halted" \in Phases /\ Enter(l, "halted")
  BY DEF ListHalted, Phases
<1> QED BY <1>1, <1>2, <1>3, ActionOnSlot, SameHistory, OneSymbol

LEMMA HaltSound ==
  ASSUME VInv, NEW l \in Locates, NEW code \in StateCodes, Halt(l, code)
  PROVE  VInv'
<1>1. /\ Tracked(phase[l], l \in stopped, past.resumed[l], trading[l], now)
      /\ phase[l] \in {"matching", "halted", "auction"}
      /\ StockTradingAction(l, code, now) /\ UNCHANGED <<stopped, now, venue, past>>
      /\ code # "T" /\ code # "none"
  BY TrackedHere, GateAssumption DEF Halt
<1>2. Orderly => phase[l] # "auction"
  BY DEF Halt, Orderly
<1>3. Tracked("halted", l \in stopped', past'.resumed[l], trading'[l], now)
  BY <1>1, <1>2, ActionOnSlot DEF Tracked, Follows, OnTheClock, InTime, OpensWindow, Resumes
<1>4. "halted" \in Phases /\ Enter(l, "halted")
  BY DEF Halt, Phases
<1> QED BY <1>1, <1>3, <1>4, ActionOnSlot, SameHistory, OneSymbol

LEMMA ResumeSound ==
  ASSUME VInv, NEW l \in Locates, "T" \in StateCodes, Resume(l)
  PROVE  VInv'
<1>1. /\ Tracked("halted", l \in stopped, past.resumed[l], trading[l], now) /\ now \in Nat
      /\ StockTradingAction(l, "T", now) /\ BeginsToTrade(l) /\ UNCHANGED <<stopped, now, venue>>
  BY TrackedHere DEF Resume, VInv
<1>2. /\ trading'[l].state = "T" /\ trading'[l].op_halted = trading[l].op_halted
      /\ trading'[l].awaiting = (trading[l].awaiting \/ OpensWindow(trading[l], "T"))
      /\ trading'[l].entered = IF Resumes(trading[l], "T") THEN now ELSE trading[l].entered
  BY <1>1, ActionOnSlot
<1>3. OpensWindow(trading[l], "T") /\ Resumes(trading[l], "T")
  BY <1>1 DEF Tracked, Follows, OpensWindow, Resumes
<1>4. now <= now + ReopenCap /\ now <= now
  BY <1>1, GateAssumption
<1>5. past'.resumed[l] = now
  BY <1>1, BegunNow
<1>6. Tracked("auction", l \in stopped', past'.resumed[l], trading'[l], now)
  BY <1>1, <1>2, <1>3, <1>4, <1>5 DEF Tracked, Follows, OnTheClock, InTime
<1>7. "auction" \in Phases /\ Enter(l, "auction")
  BY DEF Resume, Phases
<1> QED BY <1>1, <1>6, <1>7, ActionOnSlot, BegunNow, OneSymbol

\* A repeated T opens no window and restarts no clock.
LEMMA RestateSound ==
  ASSUME VInv, NEW l \in Locates, "T" \in StateCodes, Restate(l)
  PROVE  VInv'
<1>1. /\ Tracked(phase[l], l \in stopped, past.resumed[l], trading[l], now)
      /\ phase[l] \in {"auction", "matching"} /\ phase[l] \in Phases
      /\ StockTradingAction(l, "T", now) /\ UNCHANGED <<stopped, now, venue, past, phase>>
  BY TrackedHere DEF Restate, VInv, venueVars
<1>2. Tracked(phase[l], l \in stopped', past'.resumed[l], trading'[l], now)
  BY <1>1, ActionOnSlot DEF Tracked, Follows, OnTheClock, InTime, OpensWindow, Resumes
<1>3. Enter(l, phase[l])
  BY <1>1 DEF Enter, VInv
<1> QED BY <1>1, <1>2, <1>3, ActionOnSlot, SameHistory, OneSymbol

LEMMA OpHaltSound ==
  ASSUME VInv, NEW l \in Locates, OpHalt(l)
  PROVE  VInv'
<1>1. /\ Tracked(phase[l], l \in stopped, past.resumed[l], trading[l], now)
      /\ OperationalHalt(l, TRUE, "H") /\ stopped' = stopped \cup {l}
      /\ UNCHANGED <<phase, now, venue, past>> /\ phase[l] \in Phases
  BY TrackedHere DEF OpHalt, VInv
<1>2. Tracked(phase[l], l \in stopped', past'.resumed[l], trading'[l], now)
  BY <1>1, OperationalOnSlot DEF Tracked, Follows, OnTheClock, InTime
<1>3. Enter(l, phase[l])
  BY <1>1 DEF Enter, VInv
<1> QED BY <1>1, <1>2, <1>3, OperationalOnSlot, SameHistory, OneSymbol

LEMMA OpReleaseSound ==
  ASSUME VInv, NEW l \in Locates, OpRelease(l)
  PROVE  VInv'
<1>1. /\ Tracked(phase[l], l \in stopped, past.resumed[l], trading[l], now)
      /\ OperationalHalt(l, TRUE, "T") /\ stopped' = stopped \ {l}
      /\ UNCHANGED <<phase, now, venue, past>> /\ phase[l] \in Phases
  BY TrackedHere DEF OpRelease, VInv
<1>2. /\ trading'[l].state = trading[l].state /\ trading'[l].awaiting = trading[l].awaiting
      /\ trading'[l].entered = trading[l].entered /\ ~trading'[l].op_halted
      /\ l \notin stopped' /\ past' = past
  <2>1. /\ trading'[l].state = trading[l].state /\ trading'[l].awaiting = trading[l].awaiting
        /\ trading'[l].entered = trading[l].entered /\ trading'[l].op_halted = ("T" = "H")
    BY <1>1, OperationalOnSlot
  <2> QED BY <1>1, <2>1
<1>4. Tracked(phase[l], l \in stopped', past'.resumed[l], trading'[l], now)
  BY <1>1, <1>2 DEF Tracked, Follows, OnTheClock, InTime
<1>3. Enter(l, phase[l])
  BY <1>1 DEF Enter, VInv
<1> QED BY <1>1, <1>3, <1>4, OperationalOnSlot, SameHistory, OneSymbol

\* The cross closes the window, and the symbol is matched again.
LEMMA ReopeningCrossSound ==
  ASSUME VInv, NEW l \in Locates, ReopeningCross(l)
  PROVE  VInv'
<1>1. /\ Tracked("auction", l \in stopped, past.resumed[l], trading[l], now)
      /\ GateOK(trading, gate) /\ now \in Nat
      /\ trading \in [Locates -> TradingState] /\ gate \in GateCounters
      /\ CrossTradeGate(l, now) /\ UNCHANGED <<stopped, now, venue, past>>
  BY TrackedHere DEF VInv, ReopeningCross, GateOK
<1>2. GateOK(trading, gate)'
  BY <1>1, CrossTradeSound
<1>3. /\ \A m \in Locates \ {l} : trading'[m] = trading[m]
      /\ trading'[l].state = trading[l].state /\ ~trading'[l].awaiting
      /\ trading'[l].op_halted = trading[l].op_halted
  BY <1>1 DEF CrossTradeGate, TradingState
<1>4. /\ gate'.unexplained_symbols = gate.unexplained_symbols
      /\ gate'.capped = gate.capped
  BY <1>1 DEF CrossTradeGate, GateCounters
<1>5. Tracked("matching", l \in stopped', past'.resumed[l], trading'[l], now)
  BY <1>1, <1>3 DEF Tracked, Follows, OnTheClock, InTime
<1>6. "matching" \in Phases /\ Enter(l, "matching")
  BY DEF ReopeningCross, Phases
<1> QED BY <1>1, <1>2, <1>3, <1>4, <1>5, <1>6, SameHistory, OneSymbol

\* The clock moves only while every auction has time left, on an orderly venue.
LEMMA TickSound ==
  ASSUME VInv, Tick
  PROVE  VInv'
<1>1. /\ now \in Nat /\ now' = now + 1 /\ ReopenCap \in Nat
      /\ UNCHANGED <<phase, stopped, venue, past, trading, gate>>
      /\ trading \in [Locates -> TradingState]
  BY GateAssumption DEF VInv, Tick, gateVars, GateOK
<1>2. Orderly => \A l \in Locates : phase[l] = "auction" => now < past.resumed[l] + ReopenCap
  BY DEF Tick, Orderly
<1>3. ASSUME NEW l \in Locates
      PROVE  Tracked(phase[l], l \in stopped, past.resumed[l], trading[l], now)'
  <2>1. /\ Tracked(phase[l], l \in stopped, past.resumed[l], trading[l], now)
        /\ trading[l].entered \in Nat
    BY <1>1, TrackedHere DEF TradingState
  <2>2. ASSUME Orderly, phase[l] = "auction"
        PROVE  trading[l].entered <= now + 1 /\ now + 1 <= trading[l].entered + ReopenCap
    <3>1. trading[l].entered <= now /\ now < trading[l].entered + ReopenCap
      BY <1>2, <2>1, <2>2 DEF Tracked, OnTheClock, InTime
    <3> QED BY ONLY <1>1, <2>1, <3>1
  <2> QED BY <1>1, <2>1, <2>2 DEF Tracked, Follows, OnTheClock, InTime, Orderly
<1>4. GateOK(trading, gate)'
  BY <1>1 DEF VInv, GateOK, Awaiting
<1> QED BY <1>1, <1>3, <1>4
     DEF VInv, AllTracked, NoFalseAlarm, CaughtAtOnce, ExcuseIsBounded, Orderly

----------------------------------------------------------------------------
\* What one check does to the verdict: it blames the symbol exactly when the if
\* chain reaches its end, counts a cap only when one fired, and excuses by a
\* reopening only what the chain puts there.
LEMMA CheckOnVerdict ==
  ASSUME VInv, NEW l \in Locates, NEW rel \in Relations, CheckBbo(l, now, rel)
  PROVE  LET s == trading[l]
             b == Bucket(s, now, rel)
         IN /\ gate'.unexplained_symbols =
                 IF rel \in Kinds /\ b = "unexplained" THEN gate.unexplained_symbols \cup {l}
                 ELSE gate.unexplained_symbols
            /\ ~CapFires(s, now, rel) => gate'.capped = gate.capped
            /\ ExcusedByReopening => rel \in Kinds /\ b = "awaiting_reopen"
<1> DEFINE s == trading[l]
           b == Bucket(s, now, rel)
           c == IF CapFires(s, now, rel) THEN [gate EXCEPT !.capped = @ + 1] ELSE gate
<1>1. gate \in GateCounters /\ s \in TradingState /\ now \in Nat
  BY DEF VInv, GateOK
<1>2. /\ c \in GateCounters /\ c.unexplained_symbols = gate.unexplained_symbols
      /\ c.bucket = gate.bucket
      /\ ~CapFires(s, now, rel) => c = gate
  BY <1>1 DEF GateCounters
<1>3. gate' = CountersAfterCheck(gate, s, l, now, rel)
  BY DEF CheckBbo, GateAfterCheck
<1>4. CASE rel \in Kinds
  <2>1. gate' = Observed(c, s, l, now, rel)
    BY <1>3, <1>4 DEF CountersAfterCheck
  <2> HIDE DEF c
  <2>2. gate'.capped = c.capped
    BY <1>1, <1>2, <1>4, <2>1, ObservedSound
  <2>3. gate'.unexplained_symbols = BlamedAfter(c, s, l, now, rel)
    BY <1>2, <1>4, <2>1, ObservedVerdict
  <2>4. ExcusedByReopening => b = "awaiting_reopen"
    <3>1. ASSUME NEW k \in Kinds,
                 gate'.bucket[k]["awaiting_reopen"] > c.bucket[k]["awaiting_reopen"]
          PROVE  b = "awaiting_reopen"
      BY <1>2, <1>4, <2>1, <3>1, ObservedExcuse
    <3> QED BY <1>2, <3>1 DEF ExcusedByReopening
  <2> QED BY <1>2, <1>4, <2>2, <2>3, <2>4 DEF BlamedAfter
<1>5. CASE rel \notin Kinds
  <2>1. /\ gate'.capped = gate.capped
        /\ gate'.unexplained_symbols = gate.unexplained_symbols
        /\ gate'.bucket = gate.bucket
    BY <1>1, <1>3, <1>5 DEF CountersAfterCheck, CapFires, GateCounters
  <2>2. ~ExcusedByReopening
    <3>1. ASSUME NEW k \in Kinds
          PROVE  ~(gate'.bucket[k]["awaiting_reopen"] > gate.bucket[k]["awaiting_reopen"])
      <4>1. gate.bucket[k]["awaiting_reopen"] \in Nat
        BY <1>1 DEF GateCounters, Buckets
      <4> QED BY <2>1, <4>1
    <3> QED BY <3>1 DEF ExcusedByReopening
  <2> QED BY <1>5, <2>1, <2>2
<1> QED BY <1>4, <1>5

\* A symbol being matched has no excuse left; on an orderly venue every other
\* symbol has one, and its window is not overdue; and no venue has an excuse by
\* a reopening past the cap.
LEMMA ExcusesMatchPhases ==
  ASSUME NEW s \in TradingState, NEW p \in Phases, NEW halted \in BOOLEAN, NEW began \in Nat,
         NEW rel \in Kinds, now \in Nat, Tracked(p, halted, began, s, now)
  PROVE  LET b == Bucket(s, now, rel)
         IN /\ p = "matching" /\ ~halted => b = "unexplained"
            /\ Orderly => ~CapFires(s, now, rel)
            /\ Orderly /\ b = "unexplained" => p = "matching" /\ ~halted
            /\ b = "awaiting_reopen" => ~(now > began + ReopenCap)
<1> DEFINE open == s.awaiting /\ ~CapFires(s, now, rel)
<1>1. SlotAfterCheck(s, now, rel).awaiting = open
  BY DEF SlotAfterCheck, TradingState, Kinds
<1>5. \/ Bucket(s, now, rel) = CrossedBucket(s, open)
      \/ Bucket(s, now, rel) = LockedBucket(s, open)
  BY <1>1 DEF Bucket
<1>2. ASSUME p = "matching", ~halted PROVE Bucket(s, now, rel) = "unexplained"
  <2>1. s.state = "T" /\ ~s.op_halted /\ ~open
    BY <1>2 DEF Tracked, Follows
  <2> HIDE DEF open
  <2> QED BY <1>5, <2>1 DEF CrossedBucket, LockedBucket
<1>3. ASSUME Orderly PROVE ~CapFires(s, now, rel)
  <2>1. s.awaiting => s.entered <= now /\ now <= s.entered + ReopenCap
    BY <1>3 DEF Tracked, Follows, InTime, Phases
  <2>2. s.entered \in Nat /\ now \in Nat /\ ReopenCap \in Nat
    BY GateAssumption DEF TradingState
  <2>3. s.awaiting => ~(now - s.entered > ReopenCap)
    BY ONLY <2>1, <2>2
  <2> QED BY <2>3 DEF CapFires
<1>4. ASSUME Orderly, Bucket(s, now, rel) = "unexplained"
      PROVE  p = "matching" /\ ~halted
  <2> HIDE DEF open
  <2>1. s.state = "T" /\ ~s.op_halted /\ ~open
    BY <1>4, <1>5 DEF CrossedBucket, LockedBucket
  <2> USE DEF open
  <2>2. ~s.awaiting
    BY <1>3, <1>4, <2>1
  <2> QED BY <1>4, <2>1, <2>2 DEF Tracked, Follows, InTime, Phases
<1>6. ASSUME Bucket(s, now, rel) = "awaiting_reopen"
      PROVE  ~(now > began + ReopenCap)
  <2> HIDE DEF open
  <2>1. open
    BY <1>5, <1>6 DEF CrossedBucket, LockedBucket
  <2> USE DEF open
  <2>2. s.awaiting /\ s.entered = began /\ ~(now >= s.entered /\ now - s.entered > ReopenCap)
    BY <2>1 DEF CapFires, Tracked, OnTheClock
  <2>3. now \in Nat /\ began \in Nat /\ ReopenCap \in Nat
    BY GateAssumption
  <2> QED BY ONLY <2>2, <2>3
<1> QED BY <1>2, <1>3, <1>4, <1>6

\* A message about an order: the check comes with it.
LEMMA OrderMessageSound ==
  ASSUME VInv, NEW l \in Locates, NEW rel \in Relations, OrderMessage(l, rel)
  PROVE  VInv'
<1> DEFINE s == trading[l]
           b == Bucket(s, now, rel)
           p == IF phase[l] = "auction" /\ rel = "clean" THEN "matching" ELSE phase[l]
<1>1. /\ GateOK(trading, gate) /\ trading \in [Locates -> TradingState]
      /\ now \in Nat /\ phase \in [Locates -> Phases] /\ CheckBbo(l, now, rel)
      /\ s \in TradingState /\ Tracked(phase[l], l \in stopped, past.resumed[l], s, now)
      /\ UNCHANGED <<stopped, now, venue>>
      /\ past \in History /\ past.resumed[l] \in Nat
  BY TrackedHere DEF VInv, GateOK, OrderMessage, History
<1>2. GateOK(trading, gate)'
  BY <1>1, CheckSound DEF CheckBbo
<1>3. /\ \A m \in Locates \ {l} : trading'[m] = trading[m] /\ phase'[m] = phase[m]
      /\ phase' \in [Locates -> Phases] /\ phase'[l] = p
      /\ trading'[l].state = s.state /\ trading'[l].op_halted = s.op_halted
      /\ trading'[l].entered = s.entered
      /\ trading'[l].awaiting = (s.awaiting /\ ~CapFires(s, now, rel) /\ rel # "clean")
  <2>1. trading' = [trading EXCEPT ![l] = SlotAfterCheck(s, now, rel)]
    BY <1>1 DEF CheckBbo, TradingAfterCheck
  <2>2. /\ \A m \in Locates \ {l} : trading'[m] = trading[m]
        /\ trading'[l] = SlotAfterCheck(s, now, rel)
    BY <1>1, <2>1
  <2>3. /\ \A m \in Locates \ {l} : phase'[m] = phase[m]
        /\ phase' \in [Locates -> Phases] /\ phase'[l] = p
    BY <1>1 DEF OrderMessage, Enter, Phases
  <2> QED BY <1>1, <2>2, <2>3 DEF SlotAfterCheck, TradingState
<1>4. Orderly' = Orderly
  BY <1>1 DEF Orderly
<1>14. ASSUME rel \in Kinds
       PROVE  /\ phase[l] = "matching" /\ l \notin stopped => b = "unexplained"
              /\ Orderly => ~CapFires(s, now, rel)
              /\ Orderly /\ b = "unexplained" => phase[l] = "matching" /\ l \notin stopped
              /\ b = "awaiting_reopen" => ~(now > past.resumed[l] + ReopenCap)
  <2> DEFINE p0 == phase[l]
             halted == l \in stopped
             began == past.resumed[l]
  <2>1. /\ p0 \in Phases /\ halted \in BOOLEAN /\ began \in Nat /\ s \in TradingState
        /\ Tracked(p0, halted, began, s, now) /\ now \in Nat
    BY <1>1
  <2>2. b = Bucket(s, now, rel)
    OBVIOUS
  <2> HIDE DEF p0, halted, began, s, b
  <2>3. /\ p0 = "matching" /\ ~halted => b = "unexplained"
        /\ Orderly => ~CapFires(s, now, rel)
        /\ Orderly /\ b = "unexplained" => p0 = "matching" /\ ~halted
        /\ b = "awaiting_reopen" => ~(now > began + ReopenCap)
    BY <1>14, <2>1, <2>2, ExcusesMatchPhases
  <2> QED BY <2>3 DEF p0, halted, began
<1>5. ASSUME Orderly, rel \in Kinds PROVE ~CapFires(s, now, rel)
  BY <1>5, <1>14
<1>6. ASSUME rel \notin Kinds PROVE ~CapFires(s, now, rel)
  BY <1>6 DEF CapFires
<1>8. /\ gate'.unexplained_symbols = IF rel \in Kinds /\ b = "unexplained"
                                     THEN gate.unexplained_symbols \cup {l}
                                     ELSE gate.unexplained_symbols
      /\ ~CapFires(s, now, rel) => gate'.capped = gate.capped
      /\ ExcusedByReopening => rel \in Kinds /\ b = "awaiting_reopen"
  BY <1>1, CheckOnVerdict
<1>9. /\ rel \in Kinds /\ Matched(l) => b = "unexplained"
      /\ rel \in Kinds /\ Orderly /\ b = "unexplained" => Matched(l)
      /\ rel \in Kinds /\ b = "awaiting_reopen" => ~(now > past.resumed[l] + ReopenCap)
  BY <1>14 DEF Matched
<1>12. /\ past' \in History /\ past'.resumed = past.resumed
       /\ past'.faulted = IF rel \in Kinds /\ Matched(l) THEN past.faulted \cup {l} ELSE past.faulted
       /\ past'.overdue = IF ExcusedByReopening /\ now > past.resumed[l] + ReopenCap
                          THEN past.overdue \cup {l} ELSE past.overdue
  BY <1>1 DEF OrderMessage, History
<1> HIDE DEF s, b
<1>7. ASSUME NEW m \in Locates
      PROVE  Tracked(phase[m], m \in stopped, past.resumed[m], trading[m], now)'
  <2>1. CASE m = l
    <3>1. Follows(p, l \in stopped, trading'[l]) /\ OnTheClock(trading'[l], past.resumed[l])
      BY <1>1, <1>3 DEF Tracked, Follows, OnTheClock
    <3>2. Orderly => InTime(p, trading'[l], now)
      BY <1>1, <1>3, <1>5, <1>6 DEF Tracked, InTime
    <3> QED BY <1>1, <1>3, <1>4, <1>12, <2>1, <3>1, <3>2 DEF Tracked, Follows, OnTheClock, InTime
  <2>2. CASE m # l
    <3>1. Tracked(phase[m], m \in stopped, past.resumed[m], trading[m], now)
      BY TrackedHere
    <3> QED BY <1>1, <1>3, <1>4, <1>12, <2>2, <3>1 DEF Tracked, Follows, OnTheClock, InTime
  <2> QED BY <2>1, <2>2
<1>10. CaughtAtOnce'
  <2>1. past.faulted \subseteq gate.unexplained_symbols
    BY DEF VInv, CaughtAtOnce
  <2>2. CASE rel \in Kinds /\ Matched(l)
    <3>1. /\ past'.faulted = past.faulted \cup {l}
          /\ gate'.unexplained_symbols = gate.unexplained_symbols \cup {l}
      BY <1>8, <1>9, <1>12, <2>2
    <3> QED BY ONLY <2>1, <3>1 DEF CaughtAtOnce
  <2>3. CASE ~(rel \in Kinds /\ Matched(l))
    <3>1. /\ past'.faulted = past.faulted
          /\ gate.unexplained_symbols \subseteq gate'.unexplained_symbols
      BY <1>8, <1>12, <2>3
    <3> QED BY ONLY <2>1, <3>1 DEF CaughtAtOnce
  <2> QED BY <2>2, <2>3
<1>11. NoFalseAlarm'
  BY <1>4, <1>5, <1>6, <1>8, <1>9, <1>12 DEF VInv, NoFalseAlarm
<1>13. ExcuseIsBounded'
  BY <1>8, <1>9, <1>12 DEF VInv, ExcuseIsBounded
<1> QED BY <1>1, <1>2, <1>3, <1>7, <1>10, <1>11, <1>12, <1>13 DEF VInv, AllTracked

LEMMA InitVInv == VenueInit => VInv
<1> SUFFICES ASSUME VenueInit PROVE VInv
  OBVIOUS
<1>1. GateOK(trading, gate)
  BY InitSound DEF VenueInit
<1>2. phase \in [Locates -> Phases] /\ now \in Nat /\ past \in History
  BY DEF VenueInit, Phases, History
<1>3. AllTracked
  BY DEF VenueInit, GateInit, AllTracked, Tracked, Follows, OnTheClock, InTime
<1>4. NoFalseAlarm /\ CaughtAtOnce /\ ExcuseIsBounded
  BY DEF VenueInit, GateInit, NoFalseAlarm, CaughtAtOnce, ExcuseIsBounded
<1> QED BY <1>1, <1>2, <1>3, <1>4 DEF VInv

LEMMA VenueInvariant == VenueSpec => []VInv
<1>1. VInv /\ [VenueNext]_sessionVars => VInv'
  <2> SUFFICES ASSUME VInv, [VenueNext]_sessionVars PROVE VInv'
    OBVIOUS
  <2>1. ASSUME NEW l \in Locates, NEW code \in StateCodes, ListHalted(l, code) \/ Halt(l, code)
        PROVE  VInv'
    BY <2>1, ListHaltedSound, HaltSound
  <2>2. ASSUME NEW l \in Locates, ListTrading(l) \/ Resume(l) \/ Restate(l) PROVE VInv'
    BY <2>2, ListTradingSound, ResumeSound, RestateSound, VenueAssumption
  <2>3. ASSUME NEW l \in Locates, OpHalt(l) \/ OpRelease(l) \/ ReopeningCross(l) PROVE VInv'
    BY <2>3, OpHaltSound, OpReleaseSound, ReopeningCrossSound
  <2>4. ASSUME NEW l \in Locates, NEW rel \in Relations, OrderMessage(l, rel) PROVE VInv'
    BY <2>4, OrderMessageSound
  <2>5. CASE Tick
    BY <2>5, TickSound
  <2>6. CASE UNCHANGED sessionVars
    BY <2>6 DEF sessionVars, venueVars, gateVars, VInv, GateOK, Awaiting, AllTracked, Tracked,
                Follows, OnTheClock, InTime, NoFalseAlarm, CaughtAtOnce, ExcuseIsBounded, Orderly
  <2> QED BY <2>1, <2>2, <2>3, <2>4, <2>5, <2>6 DEF VenueNext
<1> QED BY <1>1, InitVInv, PTL DEF VenueSpec

----------------------------------------------------------------------------
\* However many symbols, halts, stops and auctions: as long as the venue keeps
\* its rules, check_bbo blames only symbols whose book was wrong while the venue
\* matched, and no window is closed by the cap (NoFalseAlarm).
THEOREM OnlyTheFaultyAreBlamed == VenueSpec => []NoFalseAlarm
  BY VenueInvariant, PTL DEF VInv

\* Whatever the venue does, halts in auctions and auctions past the cap
\* included, a book that check_bbo finds crossed while the venue matches the
\* symbol is blamed at that message: no window or halt is left over to excuse
\* it (CaughtAtOnce).
THEOREM FaultsAreCaughtAtOnce == VenueSpec => []CaughtAtOnce
  BY VenueInvariant, PTL DEF VInv

\* On any venue, nothing is put down to a reopening more than the cap after the
\* symbol began to trade, whatever is announced in between and however often T
\* is said of it (ExcuseIsBounded; the cap of check_bbo and the clock that
\* on(StockTradingAction) starts).
THEOREM ExcusesEnd == VenueSpec => []ExcuseIsBounded
  BY VenueInvariant, PTL DEF VInv

----------------------------------------------------------------------------
(* The book.                                                               *)

\* In the middle of an execution an order may have nothing left.
AnyOrder == [locate : Locates, side : Sides, price : Prices, shares : Nat]
Level == [shares : Int, orders : Nat, fifo : Seq(Refs)]

NoRepeats(fifo) == \A i, j \in 1..Len(fifo) : fifo[i] = fifo[j] => i = j

SoundLevel(b, k) ==
  LET lvl == b.levels[k]
  IN /\ lvl.fifo # <<>> /\ lvl.orders = Len(lvl.fifo)
     /\ \A i \in 1..Len(lvl.fifo) :
          lvl.fifo[i] \in DOMAIN b.orders /\ Key(b.orders[lvl.fifo[i]]) = k
     /\ NoRepeats(lvl.fifo)

Queued(b, r) ==
  /\ Key(b.orders[r]) \in DOMAIN b.levels
  /\ \E i \in 1..Len(b.levels[Key(b.orders[r])].fifo) : b.levels[Key(b.orders[r])].fifo[i] = r

Sound(b) ==
  /\ DOMAIN b.orders \subseteq Refs /\ b.orders \in [DOMAIN b.orders -> AnyOrder]
  /\ DOMAIN b.levels \subseteq LevelKey /\ b.levels \in [DOMAIN b.levels -> Level]
  /\ \A k \in DOMAIN b.levels : SoundLevel(b, k)
  /\ \A r \in DOMAIN b.orders : Queued(b, r)

----------------------------------------------------------------------------
(* The FIFO as a list with erase and push_back.                            *)

\* An order's node in its list.
LEMMA SlotIsThere ==
  ASSUME NEW S, NEW fifo \in Seq(S), NEW i \in 1..Len(fifo)
  PROVE  Slot(fifo, fifo[i]) \in 1..Len(fifo) /\ fifo[Slot(fifo, fifo[i])] = fifo[i]
  BY DEF Slot

\* Erasing one node keeps all the others, in order and once each.
ErasesOnly(S, fifo, i, e) ==
  /\ e \in Seq(S) /\ Len(e) = Len(fifo) - 1 /\ NoRepeats(e)
  /\ \A j \in 1..Len(e) : e[j] # fifo[i] /\ \E m \in 1..Len(fifo) : e[j] = fifo[m]
  /\ \A m \in 1..Len(fifo) \ {i} : \E j \in 1..Len(e) : e[j] = fifo[m]

LEMMA EraseAtKeepsTheOthers ==
  ASSUME NEW S, NEW fifo \in Seq(S), NEW i \in 1..Len(fifo), NoRepeats(fifo)
  PROVE  ErasesOnly(S, fifo, i, EraseAt(fifo, i))
<1> DEFINE e == EraseAt(fifo, i)
           n == Len(fifo) - 1
<1>1. n \in Nat /\ Len(fifo) \in Nat
  OBVIOUS
<1>2. e \in [1..n -> S]
  BY <1>1 DEF EraseAt
<1>3. e \in Seq(S) /\ Len(e) = n
  BY <1>1, <1>2
<1>4. \A j \in 1..n : e[j] = IF j < i THEN fifo[j] ELSE fifo[j + 1]
  BY <1>1 DEF EraseAt
<1> HIDE DEF e
<1>5. NoRepeats(e)
  BY <1>1, <1>3, <1>4 DEF NoRepeats
<1>6. \A j \in 1..n : e[j] # fifo[i] /\ \E m \in 1..Len(fifo) : e[j] = fifo[m]
  BY <1>1, <1>4 DEF NoRepeats
<1>7. ASSUME NEW m \in 1..Len(fifo) \ {i}
      PROVE  \E j \in 1..n : e[j] = fifo[m]
  <2>1. CASE m < i
    BY <1>1, <1>4, <2>1
  <2>2. CASE m > i
    <3>1. m - 1 \in 1..n /\ e[m - 1] = fifo[m]
      BY <1>1, <1>4, <2>2
    <3> QED BY <3>1
  <2> QED BY <1>1, <2>1, <2>2
<1> QED BY <1>3, <1>5, <1>6, <1>7 DEF e, ErasesOnly

\* push_back of a newcomer.
LEMMA AppendKeepsTheOthers ==
  ASSUME NEW S, NEW fifo \in Seq(S), NEW x \in S, NoRepeats(fifo),
         \A i \in 1..Len(fifo) : fifo[i] # x
  PROVE  LET a == Append(fifo, x)
         IN /\ a \in Seq(S) /\ Len(a) = Len(fifo) + 1 /\ NoRepeats(a)
            /\ a[Len(a)] = x /\ \A i \in 1..Len(fifo) : a[i] = fifo[i]
<1> DEFINE a == Append(fifo, x)
<1>1. /\ a \in Seq(S) /\ Len(a) = Len(fifo) + 1 /\ Len(fifo) \in Nat
      /\ a[Len(fifo) + 1] = x /\ \A i \in 1..Len(fifo) : a[i] = fifo[i]
  OBVIOUS
<1> HIDE DEF a
<1>2. NoRepeats(a)
  BY <1>1 DEF NoRepeats
<1> QED BY <1>1, <1>2 DEF a

----------------------------------------------------------------------------
(* The book operations.                                                    *)

LEMMA EraseSound ==
  ASSUME NEW b, NEW ref \in DOMAIN b.orders, Sound(b)
  PROVE  /\ Sound(Erase(b, ref))
         /\ Erase(b, ref).orders = [r \in DOMAIN b.orders \ {ref} |-> b.orders[r]]
<1> DEFINE c == Erase(b, ref)
           o == b.orders[ref]
           k == Key(o)
           lvl == b.levels[k]
           fifo == lvl.fifo
           i == Slot(fifo, ref)
           e == EraseAt(fifo, i)
<1>1. /\ o \in AnyOrder /\ k \in DOMAIN b.levels /\ k \in LevelKey /\ lvl \in Level
      /\ fifo \in Seq(Refs) /\ Len(fifo) \in Nat \ {0} /\ NoRepeats(fifo)
      /\ lvl.orders = Len(fifo) /\ lvl.shares \in Int /\ o.shares \in Nat
      /\ \A j \in 1..Len(fifo) : fifo[j] \in DOMAIN b.orders /\ Key(b.orders[fifo[j]]) = k
      /\ \E j \in 1..Len(fifo) : fifo[j] = ref
  <2>1. k \in DOMAIN b.levels /\ o \in AnyOrder /\ Queued(b, ref)
    BY DEF Sound, Queued
  <2>2. SoundLevel(b, k) /\ lvl \in Level /\ k \in LevelKey
    BY <2>1 DEF Sound
  <2>3. fifo \in Seq(Refs) /\ fifo # <<>> /\ lvl.shares \in Int
    BY <2>2 DEF SoundLevel, Level
  <2>4. o.shares \in Nat
    BY <2>1, SMTT(60) DEF AnyOrder
  <2>5. /\ NoRepeats(fifo) /\ lvl.orders = Len(fifo)
        /\ \A j \in 1..Len(fifo) : fifo[j] \in DOMAIN b.orders /\ Key(b.orders[fifo[j]]) = k
    BY <2>2 DEF SoundLevel
  <2>6. \E j \in 1..Len(fifo) : fifo[j] = ref
    BY <2>1 DEF Queued
  <2> HIDE DEF fifo, lvl, k, o
  <2>7. Len(fifo) \in Nat \ {0}
    BY ONLY <2>3
  <2> QED BY ONLY <2>1, <2>2, <2>3, <2>4, <2>5, <2>6, <2>7
<1>2. i \in 1..Len(fifo) /\ fifo[i] = ref
  BY <1>1, SlotIsThere, SMTT(60)
<1>3. /\ c.orders = [r \in DOMAIN b.orders \ {ref} |-> b.orders[r]]
      /\ c.levels = LevelErased(b.levels, k, o, ref)
      /\ lvl = b.levels[k] /\ fifo = b.levels[k].fifo /\ k = Key(b.orders[ref])
  BY <1>1 DEF Erase, Drop
<1>4. DOMAIN c.orders \subseteq Refs /\ c.orders \in [DOMAIN c.orders -> AnyOrder]
  BY <1>3 DEF Sound
<1>5. /\ DOMAIN b.levels \subseteq LevelKey /\ b.levels \in [DOMAIN b.levels -> Level]
      /\ \A m \in DOMAIN b.levels : SoundLevel(b, m)
      /\ \A r \in DOMAIN b.orders : Queued(b, r)
  BY DEF Sound
<1>6. e = EraseAt(fifo, i) /\ i = Slot(fifo, ref)
  OBVIOUS
<1> HIDE DEF c, o, k, lvl, fifo, i, e
<1>7. ASSUME NEW m \in DOMAIN b.levels, m # k, c.levels[m] = b.levels[m]
      PROVE  SoundLevel(c, m)
  <2>1. SoundLevel(b, m)
    BY <1>5
  <2>2. \A j \in 1..Len(b.levels[m].fifo) :
          /\ b.levels[m].fifo[j] \in DOMAIN c.orders
          /\ Key(c.orders[b.levels[m].fifo[j]]) = m
    BY <1>3, <1>7, <2>1 DEF SoundLevel
  <2> QED BY <1>7, <2>1, <2>2 DEF SoundLevel
<1>8. ASSUME NEW r \in DOMAIN c.orders,
             Key(b.orders[r]) # k, c.levels[Key(b.orders[r])] = b.levels[Key(b.orders[r])],
             Key(b.orders[r]) \in DOMAIN b.levels => Key(b.orders[r]) \in DOMAIN c.levels
      PROVE  Queued(c, r)
  <2>1. r \in DOMAIN b.orders /\ c.orders[r] = b.orders[r] /\ Queued(b, r)
    BY <1>3, <1>5
  <2> QED BY <1>8, <2>1 DEF Queued
<1>9. \A r \in DOMAIN c.orders :
        r \in DOMAIN b.orders /\ r # ref /\ c.orders[r] = b.orders[r] /\ Queued(b, r)
  BY <1>3, <1>5
<1>10. \A r \in DOMAIN c.orders : Key(b.orders[r]) = k
         => \E j \in 1..Len(fifo) \ {i} : fifo[j] = r
  <2> SUFFICES ASSUME NEW r \in DOMAIN c.orders, Key(b.orders[r]) = k
               PROVE  \E j \in 1..Len(fifo) \ {i} : fifo[j] = r
    OBVIOUS
  <2>1. PICK j \in 1..Len(fifo) : fifo[j] = r
    BY <1>3, <1>9 DEF Queued
  <2>2. j # i
    BY <1>2, <1>9, <2>1
  <2> QED BY <2>1, <2>2
<1>11. CASE Len(fifo) = 1
  <2>1. c.levels = [m \in DOMAIN b.levels \ {k} |-> b.levels[m]]
    BY <1>3, <1>11 DEF LevelErased, Drop
  <2>2. DOMAIN c.levels \subseteq LevelKey /\ c.levels \in [DOMAIN c.levels -> Level]
    BY <1>5, <2>1
  <2>3. \A m \in DOMAIN c.levels : SoundLevel(c, m)
    BY <1>7, <2>1
  <2>4. \A r \in DOMAIN c.orders : Key(b.orders[r]) # k
    BY <1>2, <1>10, <1>11
  <2>5. \A r \in DOMAIN c.orders : Queued(c, r)
    BY <1>8, <1>9, <2>1, <2>4 DEF Queued
  <2> QED BY <1>3, <1>4, <2>2, <2>3, <2>5 DEF Sound, c
<1>12. CASE Len(fifo) # 1
  <2> DEFINE new == [shares |-> lvl.shares - o.shares, orders |-> lvl.orders - 1, fifo |-> e]
  <2>1. c.levels = [b.levels EXCEPT ![k] = new]
    BY <1>3, <1>6, <1>12 DEF LevelErased
  <2>2. /\ e \in Seq(Refs) /\ Len(e) = Len(fifo) - 1 /\ NoRepeats(e)
        /\ \A j \in 1..Len(e) : e[j] # ref /\ \E m \in 1..Len(fifo) : e[j] = fifo[m]
        /\ \A m \in 1..Len(fifo) \ {i} : \E j \in 1..Len(e) : e[j] = fifo[m]
    <3>1. fifo \in Seq(Refs) /\ i \in 1..Len(fifo) /\ NoRepeats(fifo)
      BY <1>1, <1>2
    <3>2. ErasesOnly(Refs, fifo, i, e)
      BY <1>6, <3>1, EraseAtKeepsTheOthers
    <3> QED BY <1>2, <3>2 DEF ErasesOnly
  <2>3. new \in Level /\ new.fifo = e /\ new.orders = Len(e)
    BY <1>1, <1>12, <2>2 DEF Level
  <2> HIDE DEF new
  <2>4. /\ DOMAIN c.levels = DOMAIN b.levels /\ c.levels[k] = new
        /\ \A m \in DOMAIN b.levels \ {k} : c.levels[m] = b.levels[m]
    BY <1>1, <1>5, <2>1
  <2>5. DOMAIN c.levels \subseteq LevelKey /\ c.levels \in [DOMAIN c.levels -> Level]
    BY <1>5, <2>1, <2>3, <2>4
  <2>6. SoundLevel(c, k)
    <3>1. e # <<>>
      BY <1>1, <1>12, <2>2
    <3>2. \A j \in 1..Len(e) : e[j] \in DOMAIN c.orders /\ Key(c.orders[e[j]]) = k
      <4> SUFFICES ASSUME NEW j \in 1..Len(e)
                   PROVE  e[j] \in DOMAIN c.orders /\ Key(c.orders[e[j]]) = k
        OBVIOUS
      <4>1. PICK m \in 1..Len(fifo) : e[j] = fifo[m]
        BY <2>2
      <4>2. e[j] \in DOMAIN b.orders \ {ref} /\ Key(b.orders[e[j]]) = k
        BY <1>1, <2>2, <4>1
      <4> QED BY <1>3, <4>2
    <3> QED BY <2>2, <2>3, <2>4, <3>1, <3>2 DEF SoundLevel
  <2>7. \A m \in DOMAIN c.levels \ {k} : SoundLevel(c, m)
    BY <1>7, <2>4
  <2>8. \A r \in DOMAIN c.orders : Queued(c, r)
    <3> SUFFICES ASSUME NEW r \in DOMAIN c.orders PROVE Queued(c, r)
      OBVIOUS
    <3>1. CASE Key(b.orders[r]) = k
      <4>1. \E j \in 1..Len(e) : e[j] = r
        BY <1>10, <2>2, <3>1
      <4> QED BY <1>1, <1>9, <2>3, <2>4, <3>1, <4>1 DEF Queued
    <3>2. CASE Key(b.orders[r]) # k
      BY <1>8, <1>9, <2>4, <3>2 DEF Queued
    <3> QED BY <3>1, <3>2
  <2> QED BY <1>3, <1>4, <2>5, <2>6, <2>7, <2>8 DEF Sound, c
<1> QED BY <1>1, <1>11, <1>12

\* An arrival at a reference that is not live.
LEMMA PushSound ==
  ASSUME NEW b, NEW ref \in Refs \ DOMAIN b.orders, NEW o \in AnyOrder, Sound(b), NEW lvl,
         lvl = IF Key(o) \in DOMAIN b.levels THEN b.levels[Key(o)] ELSE EmptyLevel,
         NEW c,
         c = [orders |-> Put(b.orders, ref, o),
              levels |-> Put(b.levels, Key(o),
                             [shares |-> lvl.shares + o.shares, orders |-> lvl.orders + 1,
                              fifo |-> Append(lvl.fifo, ref)])]
  PROVE  Sound(c)
<1> DEFINE k == Key(o)
           fifo == lvl.fifo
           a == Append(fifo, ref)
           new == [shares |-> lvl.shares + o.shares, orders |-> lvl.orders + 1, fifo |-> a]
<1>1. /\ DOMAIN b.levels \subseteq LevelKey /\ b.levels \in [DOMAIN b.levels -> Level]
      /\ DOMAIN b.orders \subseteq Refs /\ b.orders \in [DOMAIN b.orders -> AnyOrder]
      /\ \A m \in DOMAIN b.levels : SoundLevel(b, m)
      /\ \A r \in DOMAIN b.orders : Queued(b, r)
  BY DEF Sound
<1>2. k \in LevelKey /\ o.shares \in Nat
  BY DEF Key, LevelKey, AnyOrder
<1>3. /\ fifo \in Seq(Refs) /\ NoRepeats(fifo) /\ lvl.orders = Len(fifo) /\ lvl.shares \in Int
      /\ \A j \in 1..Len(fifo) : fifo[j] \in DOMAIN b.orders /\ Key(b.orders[fifo[j]]) = k
  <2>1. CASE k \in DOMAIN b.levels
    BY <1>1, <2>1 DEF SoundLevel, Level
  <2>2. CASE k \notin DOMAIN b.levels
    BY <2>2 DEF EmptyLevel, NoRepeats
  <2> QED BY <2>1, <2>2
<1>4. /\ a \in Seq(Refs) /\ Len(a) = Len(fifo) + 1 /\ NoRepeats(a) /\ Len(fifo) \in Nat
      /\ a[Len(fifo) + 1] = ref /\ \A j \in 1..Len(fifo) : a[j] = fifo[j]
  <2>1. \A j \in 1..Len(fifo) : fifo[j] # ref
    BY <1>3
  <2>2. fifo \in Seq(Refs) /\ NoRepeats(fifo)
    BY <1>3
  <2> HIDE DEF fifo
  <2>3. /\ a \in Seq(Refs) /\ Len(a) = Len(fifo) + 1 /\ Len(fifo) \in Nat
        /\ a[Len(fifo) + 1] = ref /\ \A j \in 1..Len(fifo) : a[j] = fifo[j]
    BY <2>2
  <2> HIDE DEF a
  <2>4. \A m, j \in 1..Len(a) : m # j => a[m] # a[j]
    <3> SUFFICES ASSUME NEW m \in 1..Len(a), NEW j \in 1..Len(a), m # j PROVE a[m] # a[j]
      OBVIOUS
    <3>1. \A l \in 1..Len(a) : l \in 1..Len(fifo) \/ l = Len(fifo) + 1
      BY ONLY <2>3
    <3>2. CASE m \in 1..Len(fifo) /\ j \in 1..Len(fifo)
      <4>1. fifo[m] # fifo[j]
        BY ONLY <2>2, <3>2, m # j DEF NoRepeats
      <4> QED BY ONLY <2>3, <3>2, <4>1
    <3>3. CASE m = Len(fifo) + 1 /\ j \in 1..Len(fifo)
      BY ONLY <2>1, <2>3, <3>3
    <3>4. CASE j = Len(fifo) + 1 /\ m \in 1..Len(fifo)
      BY ONLY <2>1, <2>3, <3>4
    <3> QED BY <3>1, <3>2, <3>3, <3>4
  <2>5. NoRepeats(a)
    BY ONLY <2>4 DEF NoRepeats
  <2> QED BY <2>2, <2>3, <2>5
<1>5. c.orders = Put(b.orders, ref, o) /\ c.levels = Put(b.levels, k, new)
  OBVIOUS
<1> HIDE DEF a, fifo
<1>6. new \in Level /\ new.fifo = a /\ new.orders = Len(a)
  BY <1>2, <1>3, <1>4 DEF Level
<1> HIDE DEF new, k
<1>7. /\ DOMAIN c.orders = DOMAIN b.orders \cup {ref} /\ c.orders[ref] = o
      /\ \A r \in DOMAIN b.orders : c.orders[r] = b.orders[r]
      /\ c.orders \in [DOMAIN c.orders -> AnyOrder]
  BY <1>1, <1>5 DEF Put
<1>8. /\ DOMAIN c.levels = DOMAIN b.levels \cup {k} /\ c.levels[k] = new
      /\ \A m \in DOMAIN b.levels \ {k} : c.levels[m] = b.levels[m]
      /\ c.levels \in [DOMAIN c.levels -> Level]
  BY <1>1, <1>5, <1>6, ZenonT(60) DEF Put
<1>9. c.levels[k].fifo = a /\ c.levels[k].orders = Len(a)
  BY ONLY <1>6, <1>8
<1>10. SoundLevel(c, k)
  <2>1. a # <<>>
    BY <1>4
  <2>2. \A j \in 1..Len(a) : a[j] \in DOMAIN c.orders /\ Key(c.orders[a[j]]) = k
    <3> SUFFICES ASSUME NEW j \in 1..Len(a)
                 PROVE  a[j] \in DOMAIN c.orders /\ Key(c.orders[a[j]]) = k
      OBVIOUS
    <3>1. CASE j = Len(fifo) + 1
      BY <1>4, <1>7, <3>1 DEF k
    <3>2. CASE j # Len(fifo) + 1
      <4>1. j \in 1..Len(fifo)
        BY <1>4, <3>2
      <4> QED BY <1>3, <1>4, <1>7, <4>1, SMTT(60)
    <3> QED BY <3>1, <3>2
  <2> QED BY ONLY <1>4, <1>9, <2>1, <2>2 DEF SoundLevel
<1>11. \A m \in DOMAIN c.levels \ {k} : SoundLevel(c, m)
  <2> SUFFICES ASSUME NEW m \in DOMAIN c.levels \ {k} PROVE SoundLevel(c, m)
    OBVIOUS
  <2>1. m \in DOMAIN b.levels /\ c.levels[m] = b.levels[m] /\ SoundLevel(b, m)
    BY <1>1, <1>8
  <2>2. \A j \in 1..Len(b.levels[m].fifo) :
          /\ b.levels[m].fifo[j] \in DOMAIN c.orders
          /\ Key(c.orders[b.levels[m].fifo[j]]) = m
    BY <1>7, <2>1 DEF SoundLevel
  <2> QED BY <2>1, <2>2, ZenonT(60) DEF SoundLevel
<1>12. \A r \in DOMAIN c.orders : Queued(c, r)
  <2> SUFFICES ASSUME NEW r \in DOMAIN c.orders PROVE Queued(c, r)
    OBVIOUS
  <2>1. CASE r = ref
    <3>1. Len(fifo) + 1 \in 1..Len(a)
      BY <1>4
    <3>2. Key(c.orders[r]) = k /\ k \in DOMAIN c.levels /\ a[Len(fifo) + 1] = r
      BY <1>4, <1>7, <1>8, <2>1 DEF k
    <3> QED BY ONLY <1>9, <3>1, <3>2 DEF Queued
  <2>2. CASE r # ref /\ Key(b.orders[r]) = k
    <3>1. r \in DOMAIN b.orders /\ c.orders[r] = b.orders[r] /\ Queued(b, r)
      BY <1>1, <1>7, <2>2
    <3>2. PICK j \in 1..Len(fifo) : fifo[j] = r
      BY <2>2, <3>1 DEF Queued, fifo, k
    <3>3. j \in 1..Len(a) /\ a[j] = r
      BY <1>4, <3>2
    <3>4. Key(c.orders[r]) = k /\ k \in DOMAIN c.levels
      BY ONLY <1>8, <2>2, <3>1
    <3> QED BY ONLY <1>9, <3>3, <3>4 DEF Queued
  <2>3. CASE r # ref /\ Key(b.orders[r]) # k
    <3>1. r \in DOMAIN b.orders /\ c.orders[r] = b.orders[r] /\ Queued(b, r)
      BY <1>1, <1>7, <2>3
    <3>2. /\ Key(c.orders[r]) = Key(b.orders[r]) /\ Key(b.orders[r]) \in DOMAIN c.levels
          /\ c.levels[Key(b.orders[r])] = b.levels[Key(b.orders[r])]
      BY <1>8, <2>3, <3>1 DEF Queued
    <3> QED BY ONLY <3>1, <3>2 DEF Queued
  <2> QED BY <2>1, <2>2, <2>3
<1>13. DOMAIN c.levels \subseteq LevelKey /\ DOMAIN c.orders \subseteq Refs
  BY <1>1, <1>2, <1>7, <1>8
<1>14. \A m \in DOMAIN c.levels : SoundLevel(c, m)
  BY ONLY <1>10, <1>11
<1> QED BY ONLY <1>7, <1>8, <1>12, <1>13, <1>14 DEF Sound

LEMMA AddedSound ==
  ASSUME NEW b, NEW ref \in Refs, NEW o \in AnyOrder, Sound(b)
  PROVE  Sound(Added(b, ref, o))
<1> DEFINE c == Removed(b, ref)
           lvl == IF Key(o) \in DOMAIN c.levels THEN c.levels[Key(o)] ELSE EmptyLevel
<1>1. Sound(c) /\ ref \notin DOMAIN c.orders
  <2>1. CASE ref \in DOMAIN b.orders
    <3>1. c = Erase(b, ref)
      BY <2>1 DEF Removed
    <3> HIDE DEF c
    <3>2. Sound(c) /\ c.orders = [r \in DOMAIN b.orders \ {ref} |-> b.orders[r]]
      BY <2>1, <3>1, EraseSound
    <3> QED BY ONLY <3>2
  <2>2. CASE ref \notin DOMAIN b.orders
    BY <2>2 DEF Removed
  <2> QED BY <2>1, <2>2
<1>2. Added(b, ref, o) =
        [orders |-> Put(c.orders, ref, o),
         levels |-> Put(c.levels, Key(o),
                        [shares |-> lvl.shares + o.shares, orders |-> lvl.orders + 1,
                         fifo |-> Append(lvl.fifo, ref)])]
  BY DEF Added
<1>3. lvl = IF Key(o) \in DOMAIN c.levels THEN c.levels[Key(o)] ELSE EmptyLevel
  OBVIOUS
<1> HIDE DEF c, lvl
<1> QED BY <1>1, <1>2, <1>3, PushSound

\* Taking shares from an order and its level moves nobody.
LEMMA DeductedSound ==
  ASSUME NEW b, NEW ref \in DOMAIN b.orders, NEW qty \in Nat, Sound(b),
         qty <= b.orders[ref].shares
  PROVE  LET d == Deducted(b, ref, qty)
         IN /\ Sound(d) /\ DOMAIN d.orders = DOMAIN b.orders
            /\ d.orders[ref].shares = b.orders[ref].shares - qty
            /\ \A r \in DOMAIN b.orders \ {ref} : d.orders[r] = b.orders[r]
<1> DEFINE d == Deducted(b, ref, qty)
           o == b.orders[ref]
           p == [o EXCEPT !.shares = @ - qty]
           k == Key(o)
           lvl == b.levels[k]
           new == [lvl EXCEPT !.shares = @ - qty]
<1>1. /\ DOMAIN b.levels \subseteq LevelKey /\ b.levels \in [DOMAIN b.levels -> Level]
      /\ DOMAIN b.orders \subseteq Refs /\ b.orders \in [DOMAIN b.orders -> AnyOrder]
      /\ \A m \in DOMAIN b.levels : SoundLevel(b, m)
      /\ \A r \in DOMAIN b.orders : Queued(b, r)
  BY DEF Sound
<1>2. o \in AnyOrder /\ p \in AnyOrder /\ Key(p) = k /\ p.shares = o.shares - qty
  BY <1>1 DEF AnyOrder, Key
<1>3. k \in DOMAIN b.levels
  BY <1>1 DEF Queued
<1>4. new \in Level /\ new.fifo = lvl.fifo /\ new.orders = lvl.orders
  BY <1>1, <1>3, SMTT(60) DEF Level
<1>5. d.orders = [b.orders EXCEPT ![ref] = p] /\ d.levels = [b.levels EXCEPT ![k] = new]
  BY DEF Deducted
<1> HIDE DEF d, p, new
<1>6. /\ DOMAIN d.orders = DOMAIN b.orders /\ d.orders[ref] = p
      /\ \A r \in DOMAIN b.orders \ {ref} : d.orders[r] = b.orders[r]
      /\ d.orders \in [DOMAIN d.orders -> AnyOrder]
      /\ \A r \in DOMAIN b.orders : Key(d.orders[r]) = Key(b.orders[r])
  BY <1>1, <1>2, <1>5
<1>7. /\ DOMAIN d.levels = DOMAIN b.levels /\ d.levels \in [DOMAIN d.levels -> Level]
      /\ \A m \in DOMAIN b.levels :
           d.levels[m].fifo = b.levels[m].fifo /\ d.levels[m].orders = b.levels[m].orders
  BY <1>1, <1>3, <1>4, <1>5
<1>8. \A m \in DOMAIN d.levels : SoundLevel(d, m)
  <2> SUFFICES ASSUME NEW m \in DOMAIN d.levels PROVE SoundLevel(d, m)
    OBVIOUS
  <2>1. m \in DOMAIN b.levels /\ SoundLevel(b, m)
    BY <1>1, <1>7
  <2> QED BY ONLY <1>6, <1>7, <2>1 DEF SoundLevel
<1>9. \A r \in DOMAIN d.orders : Queued(d, r)
  <2> SUFFICES ASSUME NEW r \in DOMAIN d.orders PROVE Queued(d, r)
    OBVIOUS
  <2>1. Queued(b, r) /\ Key(d.orders[r]) = Key(b.orders[r])
    BY <1>1, <1>6
  <2> QED BY ONLY <1>7, <2>1 DEF Queued
<1>10. Sound(d)
  BY <1>1, <1>6, <1>7, <1>8, <1>9 DEF Sound
<1> QED BY <1>2, <1>6, <1>10 DEF d

\* execute() meets no order without a level.
LEMMA ExecutedSound ==
  ASSUME NEW b, NEW ref \in DOMAIN b.orders, NEW qty \in Nat, Sound(b)
  PROVE  Sound(Executed(b, ref, qty)) /\ ~MissingLevel(b, ref)
<1> DEFINE taken == Taken(b.orders[ref], qty)
           d == Deducted(b, ref, taken)
<1>1. ~MissingLevel(b, ref)
  BY DEF Sound, Queued, MissingLevel
<1>2. taken \in Nat /\ taken <= b.orders[ref].shares
  <2>1. b.orders[ref].shares \in Nat
    BY DEF Sound, AnyOrder
  <2> QED BY <2>1 DEF Taken
<1> HIDE DEF taken
<1>3. Sound(d) /\ ref \in DOMAIN d.orders
  BY <1>2, DeductedSound
<1>4. Executed(b, ref, qty) = IF d.orders[ref].shares = 0 THEN Erase(d, ref) ELSE d
  BY <1>1 DEF Executed, taken
<1> HIDE DEF d
<1> QED BY <1>1, <1>3, <1>4, EraseSound

----------------------------------------------------------------------------
(* Between messages every order has something left, and there are finitely *)
(* many of them, so that they can be counted.                              *)

BookOK(b) ==
  /\ Sound(b)
  /\ \A r \in DOMAIN b.orders : b.orders[r] \in RefOrder
  /\ IsFiniteSet(DOMAIN b.orders)

LEMMA RefOrderIsAnyOrder == RefOrder \subseteq AnyOrder
  BY ReferenceBookAssumption DEF RefOrder, AnyOrder, Shares

LEMMA EraseOK ==
  ASSUME NEW b, NEW ref \in DOMAIN b.orders, BookOK(b)
  PROVE  BookOK(Erase(b, ref)) /\ DOMAIN Erase(b, ref).orders = DOMAIN b.orders \ {ref}
<1> DEFINE c == Erase(b, ref)
<1>1. Sound(c) /\ c.orders = [r \in DOMAIN b.orders \ {ref} |-> b.orders[r]]
  BY EraseSound DEF BookOK
<1> HIDE DEF c
<1>2. IsFiniteSet(DOMAIN b.orders \ {ref})
  BY FS_Subset DEF BookOK
<1> QED BY <1>1, <1>2 DEF BookOK, c

LEMMA AddedOK ==
  ASSUME NEW b, NEW ref \in Refs, NEW o \in RefOrder, BookOK(b)
  PROVE  /\ BookOK(Added(b, ref, o))
         /\ DOMAIN Added(b, ref, o).orders = DOMAIN b.orders \cup {ref}
<1> DEFINE a == Added(b, ref, o)
           c == Removed(b, ref)
<1>1. Sound(a)
  BY AddedSound, RefOrderIsAnyOrder DEF BookOK
<1>2. BookOK(c) /\ DOMAIN c.orders = DOMAIN b.orders \ {ref}
  <2>1. CASE ref \in DOMAIN b.orders
    <3>1. c = Erase(b, ref)
      BY <2>1 DEF Removed
    <3> QED BY <2>1, <3>1, EraseOK
  <2>2. CASE ref \notin DOMAIN b.orders
    BY <2>2 DEF Removed
  <2> QED BY <2>1, <2>2
<1>3. a.orders = [r \in DOMAIN c.orders \cup {ref} |-> IF r = ref THEN o ELSE c.orders[r]]
  BY DEF Added, Put
<1> HIDE DEF a, c
<1>4. IsFiniteSet(DOMAIN b.orders \cup {ref})
  BY FS_AddElement DEF BookOK
<1>5. DOMAIN a.orders = DOMAIN b.orders \cup {ref}
  BY <1>2, <1>3
<1> QED BY <1>1, <1>2, <1>3, <1>4, <1>5 DEF BookOK, a

LEMMA ExecutedOK ==
  ASSUME NEW b, NEW ref \in DOMAIN b.orders, NEW qty \in Shares, BookOK(b)
  PROVE  /\ BookOK(Executed(b, ref, qty)) /\ ~MissingLevel(b, ref)
         /\ DOMAIN Executed(b, ref, qty).orders =
              IF qty >= b.orders[ref].shares THEN DOMAIN b.orders \ {ref} ELSE DOMAIN b.orders
<1> DEFINE taken == Taken(b.orders[ref], qty)
           left == b.orders[ref].shares - taken
           d == Deducted(b, ref, taken)
           x == Executed(b, ref, qty)
<1>1. qty \in Nat /\ b.orders[ref] \in RefOrder /\ b.orders[ref].shares \in Shares
  BY ReferenceBookAssumption DEF Shares, BookOK, RefOrder
<1>2. /\ taken \in Nat /\ taken <= b.orders[ref].shares
      /\ left = 0 <=> qty >= b.orders[ref].shares
      /\ left # 0 => left \in Shares
  BY <1>1, ReferenceBookAssumption DEF Taken, Shares
<1>3. Sound(x) /\ ~MissingLevel(b, ref)
  BY <1>1, ExecutedSound DEF BookOK
<1> HIDE DEF taken
<1>4. /\ Sound(d) /\ DOMAIN d.orders = DOMAIN b.orders /\ d.orders[ref].shares = left
      /\ \A r \in DOMAIN b.orders \ {ref} : d.orders[r] = b.orders[r]
  BY <1>2, DeductedSound DEF BookOK
<1>5. d.orders[ref] = [b.orders[ref] EXCEPT !.shares = left]
  <2>1. b.orders \in [DOMAIN b.orders -> AnyOrder]
    BY DEF BookOK, Sound
  <2> QED BY <2>1 DEF Deducted
<1>6. x = IF left = 0 THEN Erase(d, ref) ELSE d
  BY <1>3, <1>4 DEF Executed, taken
<1> HIDE DEF d, left, x
<1>7. CASE left = 0
  <2>1. x = Erase(d, ref)
    BY <1>6, <1>7
  <2>2. x.orders = [r \in DOMAIN d.orders \ {ref} |-> d.orders[r]]
    BY <1>4, <2>1, EraseSound
  <2>3. /\ DOMAIN x.orders = DOMAIN b.orders \ {ref}
        /\ \A r \in DOMAIN x.orders : x.orders[r] = b.orders[r]
    BY ONLY <1>4, <2>2
  <2>4. IsFiniteSet(DOMAIN x.orders)
    BY <2>3, FS_Subset DEF BookOK
  <2> QED BY <1>2, <1>3, <1>7, <2>3, <2>4 DEF BookOK, x
<1>8. CASE left # 0
  <2>1. x = d
    BY <1>6, <1>8
  <2>2. d.orders[ref] \in RefOrder
    BY <1>1, <1>2, <1>5, <1>8 DEF RefOrder
  <2>3. \A r \in DOMAIN x.orders : x.orders[r] \in RefOrder
    BY <1>4, <2>1, <2>2 DEF BookOK
  <2> QED BY <1>2, <1>3, <1>4, <1>8, <2>1, <2>3 DEF BookOK, x
<1> QED BY <1>7, <1>8

----------------------------------------------------------------------------
(* The inductive invariant, action by action.                              *)

Counters == [orphan : [Orphans -> Nat], duplicate_add : Nat,
             removed_at_zero : Nat, over_execute : Nat, missing_level : Nat]

CountersOK ==
  /\ counters \in Counters /\ counters.missing_level = 0
  /\ seen \in [{"A", "D"} -> Nat]

IInv ==
  /\ GateOK(trading, gate)
  /\ BookOK(Now)
  /\ CountersOK
  /\ LifecycleReconciles

LEMMA SameBook ==
  ASSUME NEW b, NEW c, BookOK(b), c.orders = b.orders, c.levels = b.levels
  PROVE  BookOK(c)
<1>1. Sound(c)
  <2>1. Sound(b)
    BY DEF BookOK
  <2> QED BY <2>1 DEF Sound, SoundLevel, Queued
<1> QED BY <1>1 DEF BookOK

LEMMA InstallSound ==
  ASSUME NEW b, BookOK(b), Install(b)
  PROVE  BookOK(Now)'
<1>1. Now'.orders = b.orders /\ Now'.levels = b.levels
  BY DEF Install, Now
<1>2. BookOK(Now')
  BY <1>1, SameBook
<1> QED BY <1>2 DEF BookOK, Sound, SoundLevel, Queued

LEMMA CountOrders ==
  ASSUME NEW S, IsFiniteSet(S), NEW x
  PROVE  /\ Cardinality(S) \in Nat
         /\ Cardinality(S \cup {x}) = IF x \in S THEN Cardinality(S) ELSE Cardinality(S) + 1
         /\ Cardinality(S \ {x}) = IF x \in S THEN Cardinality(S) - 1 ELSE Cardinality(S)
  BY FS_CardinalityType, FS_AddElement, FS_RemoveElement

LEMMA RelationIsOne == \A lvls, l : Relation(lvls, l) \in Relations
  BY DEF Relation, Relations, Kinds

LEMMA CheckedSound ==
  ASSUME GateOK(trading, gate), NEW lvls, NEW l \in Locates, NEW ts \in Timestamps,
         Checked(lvls, l, ts)
  PROVE  GateOK(trading, gate)'
<1>1. ts \in Nat
  BY GateAssumption
<1>2. GateOK(TradingAfterCheck(trading, l, ts, Relation(lvls, l)),
             GateAfterCheck(trading, gate, l, ts, Relation(lvls, l)))
  BY <1>1, RelationIsOne, CheckSound
<1>3. GateOK(trading', gate')
  BY <1>2 DEF Checked
<1> QED BY <1>3 DEF GateOK, Awaiting

LEMMA CheckedTwiceSound ==
  ASSUME GateOK(trading, gate), NEW first, NEW own \in Locates, NEW second,
         NEW named \in Locates, NEW ts \in Timestamps,
         CheckedTwice(first, own, second, named, ts)
  PROVE  GateOK(trading, gate)'
<1> DEFINE r1 == Relation(first, own)
           r2 == Relation(second, named)
           t1 == TradingAfterCheck(trading, own, ts, r1)
           g1 == GateAfterCheck(trading, gate, own, ts, r1)
<1>1. ts \in Nat /\ r1 \in Relations /\ r2 \in Relations
  BY GateAssumption, RelationIsOne
<1>2. /\ trading' = TradingAfterCheck(t1, named, ts, r2)
      /\ gate' = GateAfterCheck(t1, g1, named, ts, r2)
  BY DEF CheckedTwice
<1> HIDE DEF r1, r2
<1>3. GateOK(t1, g1)
  BY <1>1, CheckSound
<1> HIDE DEF t1, g1
<1>4. GateOK(TradingAfterCheck(t1, named, ts, r2), GateAfterCheck(t1, g1, named, ts, r2))
  BY <1>1, <1>3, CheckSound
<1>5. GateOK(trading', gate')
  BY <1>2, <1>4
<1> QED BY <1>5 DEF GateOK, Awaiting

LEMMA TradingStatusStep == IInv /\ TradingStatus => IInv'
<1> SUFFICES ASSUME IInv, TradingStatus PROVE IInv'
  OBVIOUS
<1>1. GateOK(trading, gate)'
  <2>1. Timestamps \subseteq Nat /\ GateOK(trading, gate)
    BY GateAssumption DEF IInv
  <2> QED BY <2>1, StockTradingActionSound, OperationalHaltSound DEF TradingStatus
<1>2. UNCHANGED refVars
  BY DEF TradingStatus
<1>3. BookOK(Now)'
  BY <1>2, InstallSound DEF refVars, IInv, Install, Now
<1> QED BY <1>1, <1>2, <1>3 DEF IInv, refVars, CountersOK, LifecycleReconciles

LEMMA CrossTradeStep ==
  ASSUME IInv, NEW l \in Locates, NEW ts \in Timestamps, CrossTrade(l, ts)
  PROVE  IInv'
<1>1. GateOK(trading, gate)'
  <2>1. ts \in Nat /\ GateOK(trading, gate)
    BY GateAssumption DEF IInv
  <2> QED BY <2>1, CrossTradeSound DEF CrossTrade
<1>2. UNCHANGED refVars
  BY DEF CrossTrade
<1>3. BookOK(Now)'
  BY <1>2, InstallSound DEF refVars, IInv, Install, Now
<1> QED BY <1>1, <1>2, <1>3 DEF IInv, refVars, CountersOK, LifecycleReconciles

LEMMA AddOrderStep ==
  ASSUME IInv, NEW ref \in Refs, NEW o \in RefOrder, NEW ts \in Timestamps,
         AddOrder(ref, o, ts)
  PROVE  IInv'
<1> DEFINE b == Added(Now, ref, o)
<1>1. GateOK(trading, gate)'
  BY CheckedSound DEF IInv, AddOrder, RefOrder
<1>2. BookOK(b) /\ DOMAIN b.orders = DOMAIN orders \cup {ref}
  BY AddedOK DEF IInv, Now
<1>3. Install(b) /\ orders' = b.orders
  BY DEF AddOrder, Install
<1> HIDE DEF b
<1>4. BookOK(Now)'
  BY <1>2, <1>3, InstallSound
<1>5. /\ counters' = [counters EXCEPT !.duplicate_add = IF ref \in DOMAIN orders THEN @ + 1 ELSE @]
      /\ seen' = [seen EXCEPT !["A"] = @ + 1]
  BY DEF AddOrder, CountIf
<1>6. CountersOK'
  BY <1>5 DEF IInv, CountersOK, Counters
<1>7. /\ Cardinality(DOMAIN orders) \in Nat
      /\ Cardinality(DOMAIN orders') = IF ref \in DOMAIN orders THEN Cardinality(DOMAIN orders)
                                       ELSE Cardinality(DOMAIN orders) + 1
  <2>1. IsFiniteSet(DOMAIN orders)
    BY DEF IInv, BookOK, Now
  <2> QED BY <1>2, <1>3, <2>1, CountOrders
<1>8. LifecycleReconciles'
  <2>1. /\ seen["A"] \in Nat /\ seen["D"] \in Nat /\ counters.orphan["D"] \in Nat
        /\ counters.removed_at_zero \in Nat /\ counters.duplicate_add \in Nat
        /\ LifecycleReconciles
    BY DEF IInv, CountersOK, Counters, Orphans
  <2>2. /\ seen'["A"] = seen["A"] + 1 /\ seen'["D"] = seen["D"]
        /\ counters'.orphan = counters.orphan
        /\ counters'.removed_at_zero = counters.removed_at_zero
        /\ counters'.duplicate_add = IF ref \in DOMAIN orders THEN counters.duplicate_add + 1
                                     ELSE counters.duplicate_add
    BY <1>5 DEF IInv, CountersOK, Counters
  <2> QED BY ONLY <1>7, <2>1, <2>2 DEF LifecycleReconciles
<1> QED BY <1>1, <1>4, <1>6, <1>8 DEF IInv

\* The quantities LifecycleReconciles adds up are numbers.
LEMMA Numbers ==
  ASSUME CountersOK, BookOK(Now)
  PROVE  /\ seen["A"] \in Nat /\ seen["D"] \in Nat /\ counters.orphan["D"] \in Nat
         /\ counters.removed_at_zero \in Nat /\ counters.duplicate_add \in Nat
         /\ IsFiniteSet(DOMAIN orders) /\ Cardinality(DOMAIN orders) \in Nat
<1>1. IsFiniteSet(DOMAIN orders)
  BY DEF BookOK, Now
<1> QED BY <1>1, FS_CardinalityType DEF CountersOK, Counters, Orphans

\* A message naming no live order leaves the book, and counts itself.
LEMMA OrphanedSound ==
  ASSUME IInv, NEW m \in Orphans, Orphaned(m)
  PROVE  /\ BookOK(Now)' /\ orders' = orders
         /\ counters' \in Counters /\ counters'.missing_level = 0
         /\ counters'.removed_at_zero = counters.removed_at_zero
         /\ counters'.duplicate_add = counters.duplicate_add
         /\ counters'.orphan["D"] = IF m = "D" THEN counters.orphan["D"] + 1
                                    ELSE counters.orphan["D"]
<1>1. BookOK(Now)'
  BY InstallSound DEF IInv, Orphaned
<1>2. counters' = [counters EXCEPT !.orphan[m] = @ + 1] /\ orders' = orders
  BY DEF Orphaned, Install, Now
<1> QED BY <1>1, <1>2 DEF IInv, CountersOK, Counters, Orphans

LEMMA ReduceOrderStep ==
  ASSUME IInv, NEW m \in Reducers, NEW l \in Locates, NEW ref \in Refs, NEW qty \in Shares,
         NEW ts \in Timestamps, ReduceOrder(m, l, ref, qty, ts)
  PROVE  IInv'
<1>1. GateOK(trading, gate)'
  BY CheckedSound DEF IInv, ReduceOrder
<1>2. seen' = seen /\ CountersOK /\ BookOK(Now) /\ LifecycleReconciles
  BY DEF ReduceOrder, IInv
<1>3. CASE ref \notin DOMAIN orders
  <2>1. m \in Orphans /\ m # "D" /\ Orphaned(m)
    BY <1>3 DEF ReduceOrder, Reducers, Orphans
  <2>2. /\ BookOK(Now)' /\ orders' = orders
        /\ counters' \in Counters /\ counters'.missing_level = 0
        /\ counters'.removed_at_zero = counters.removed_at_zero
        /\ counters'.duplicate_add = counters.duplicate_add
        /\ counters'.orphan["D"] = counters.orphan["D"]
    BY <2>1, OrphanedSound
  <2> QED BY <1>1, <1>2, <2>2 DEF IInv, CountersOK, LifecycleReconciles
<1>4. CASE ref \in DOMAIN orders
  <2> DEFINE b == Executed(Now, ref, qty)
             zero == qty >= orders[ref].shares
  <2>1. /\ BookOK(b) /\ ~MissingLevel(Now, ref)
        /\ DOMAIN b.orders = IF zero THEN DOMAIN orders \ {ref} ELSE DOMAIN orders
    BY <1>2, <1>4, ExecutedOK DEF Now
  <2>2. /\ Install(b) /\ orders' = b.orders
        /\ counters' = [counters EXCEPT
             !.over_execute = IF qty > orders[ref].shares THEN @ + 1 ELSE @,
             !.missing_level = @,
             !.removed_at_zero = IF zero THEN @ + 1 ELSE @]
    BY <1>4, <2>1 DEF ReduceOrder, Install, CountIf
  <2> HIDE DEF b, zero
  <2>3. BookOK(Now)'
    BY <2>1, <2>2, InstallSound
  <2>4. /\ counters' \in Counters /\ counters'.missing_level = 0
        /\ counters'.orphan = counters.orphan
        /\ counters'.duplicate_add = counters.duplicate_add
        /\ counters'.removed_at_zero = IF zero THEN counters.removed_at_zero + 1
                                       ELSE counters.removed_at_zero
    <3> DEFINE over == IF qty > orders[ref].shares THEN counters.over_execute + 1
                       ELSE counters.over_execute
               atzero == IF zero THEN counters.removed_at_zero + 1
                         ELSE counters.removed_at_zero
    <3>1. counters \in Counters /\ counters.missing_level = 0
      BY <1>2 DEF CountersOK
    <3>2. over \in Nat /\ atzero \in Nat
      BY <3>1 DEF Counters
    <3>3. counters' = [counters EXCEPT !.over_execute = over, !.missing_level = @,
                                       !.removed_at_zero = atzero]
      BY <2>2
    <3>4. atzero = IF zero THEN counters.removed_at_zero + 1 ELSE counters.removed_at_zero
      OBVIOUS
    <3> HIDE DEF over, atzero
    <3>5. /\ counters' \in Counters /\ counters'.missing_level = 0
          /\ counters'.orphan = counters.orphan
          /\ counters'.duplicate_add = counters.duplicate_add
          /\ counters'.removed_at_zero = atzero
      BY ONLY <3>1, <3>2, <3>3 DEF Counters
    <3> QED BY <3>4, <3>5
  <2>5. Cardinality(DOMAIN orders') = IF zero THEN Cardinality(DOMAIN orders) - 1
                                      ELSE Cardinality(DOMAIN orders)
    BY <1>2, <1>4, <2>1, <2>2, Numbers, CountOrders
  <2>6. LifecycleReconciles'
    BY <1>2, <2>4, <2>5, Numbers DEF LifecycleReconciles
  <2> QED BY <1>1, <1>2, <2>3, <2>4, <2>6 DEF IInv, CountersOK
<1> QED BY <1>3, <1>4

LEMMA DeleteOrderStep ==
  ASSUME IInv, NEW l \in Locates, NEW ref \in Refs, NEW ts \in Timestamps,
         DeleteOrder(l, ref, ts)
  PROVE  IInv'
<1>1. GateOK(trading, gate)'
  BY CheckedSound DEF IInv, DeleteOrder
<1>2. /\ seen' = [seen EXCEPT !["D"] = @ + 1]
      /\ CountersOK /\ BookOK(Now) /\ LifecycleReconciles
  BY DEF DeleteOrder, IInv
<1>3. /\ seen' \in [{"A", "D"} -> Nat]
      /\ seen'["A"] = seen["A"] /\ seen'["D"] = seen["D"] + 1
  BY <1>2 DEF CountersOK
<1>4. CASE ref \notin DOMAIN orders
  <2>1. Orphaned("D") /\ "D" \in Orphans
    BY <1>4 DEF DeleteOrder, Orphans
  <2>2. /\ BookOK(Now)' /\ orders' = orders
        /\ counters' \in Counters /\ counters'.missing_level = 0
        /\ counters'.removed_at_zero = counters.removed_at_zero
        /\ counters'.duplicate_add = counters.duplicate_add
        /\ counters'.orphan["D"] = counters.orphan["D"] + 1
    BY <2>1, OrphanedSound
  <2>3. LifecycleReconciles'
    BY <1>2, <1>3, <2>2, Numbers DEF LifecycleReconciles
  <2> QED BY <1>1, <1>3, <2>2, <2>3 DEF IInv, CountersOK
<1>5. CASE ref \in DOMAIN orders
  <2> DEFINE b == Erase(Now, ref)
  <2>1. BookOK(b) /\ DOMAIN b.orders = DOMAIN orders \ {ref}
    BY <1>2, <1>5, EraseOK DEF Now
  <2>2. Install(b) /\ orders' = b.orders /\ counters' = counters
    BY <1>5 DEF DeleteOrder, Install
  <2> HIDE DEF b
  <2>3. BookOK(Now)'
    BY <2>1, <2>2, InstallSound
  <2>4. Cardinality(DOMAIN orders') = Cardinality(DOMAIN orders) - 1
    BY <1>2, <1>5, <2>1, <2>2, Numbers, CountOrders
  <2>5. LifecycleReconciles'
    BY <1>2, <1>3, <2>2, <2>4, Numbers DEF LifecycleReconciles
  <2> QED BY <1>1, <1>2, <1>3, <2>2, <2>3, <2>5 DEF IInv, CountersOK
<1> QED BY <1>4, <1>5

LEMMA ReplaceUnknownStep ==
  ASSUME IInv, NEW old \in Refs, ReplaceUnknown(old)
  PROVE  IInv'
<1>1. Orphaned("U") /\ "U" \in Orphans /\ seen' = seen /\ trading' = trading /\ gate' = gate
  BY DEF ReplaceUnknown, Orphans, gateVars
<1>2. /\ BookOK(Now)' /\ orders' = orders
      /\ counters' \in Counters /\ counters'.missing_level = 0
      /\ counters'.removed_at_zero = counters.removed_at_zero
      /\ counters'.duplicate_add = counters.duplicate_add
      /\ counters'.orphan["D"] = counters.orphan["D"]
  BY <1>1, OrphanedSound
<1>3. GateOK(trading, gate)'
  BY <1>1 DEF IInv, GateOK, Awaiting
<1> QED BY <1>1, <1>2, <1>3 DEF IInv, CountersOK, LifecycleReconciles

LEMMA ReplaceOrderStep ==
  ASSUME IInv, NEW l \in Locates, NEW old \in Refs, NEW new \in Refs, NEW price \in Prices,
         NEW shares \in Shares, NEW ts \in Timestamps,
         ReplaceOrder(l, old, new, price, shares, ts)
  PROVE  IInv'
<1> DEFINE b == Erase(Now, old)
           o == [orders[old] EXCEPT !.price = price, !.shares = shares]
           a == Added(b, new, o)
<1>1. old \in DOMAIN orders /\ seen' = seen /\ CountersOK /\ BookOK(Now) /\ LifecycleReconciles
  BY DEF ReplaceOrder, IInv
<1>2. o \in RefOrder /\ o.locate \in Locates
  <2>1. orders[old] \in RefOrder
    BY <1>1 DEF BookOK, Now
  <2> QED BY <2>1 DEF RefOrder
<1>3. /\ counters' = [counters EXCEPT !.duplicate_add = IF new \in DOMAIN b.orders THEN @ + 1 ELSE @]
      /\ Install(a) /\ orders' = a.orders
      /\ CheckedTwice(a.levels, o.locate, a.levels, l, ts)
  BY DEF ReplaceOrder, CountIf, Install
<1>4. BookOK(b) /\ DOMAIN b.orders = DOMAIN orders \ {old}
  BY <1>1, EraseOK DEF Now
<1> HIDE DEF b, o
<1>5. BookOK(a) /\ DOMAIN a.orders = DOMAIN b.orders \cup {new}
  BY <1>2, <1>4, AddedOK
<1> HIDE DEF a
<1>6. GateOK(trading, gate)'
  BY <1>2, <1>3, CheckedTwiceSound DEF IInv
<1>7. BookOK(Now)'
  BY <1>3, <1>5, InstallSound
<1>8. Cardinality(DOMAIN orders') = IF new \in DOMAIN b.orders THEN Cardinality(DOMAIN orders) - 1
                                    ELSE Cardinality(DOMAIN orders)
  <2>1. /\ IsFiniteSet(DOMAIN b.orders) /\ Cardinality(DOMAIN orders) \in Nat
        /\ Cardinality(DOMAIN b.orders) = Cardinality(DOMAIN orders) - 1
    BY <1>1, <1>4, Numbers, CountOrders DEF BookOK
  <2>2. Cardinality(DOMAIN b.orders \cup {new}) =
          IF new \in DOMAIN b.orders THEN Cardinality(DOMAIN b.orders)
          ELSE Cardinality(DOMAIN b.orders) + 1
    BY <2>1, CountOrders
  <2>3. DOMAIN orders' = DOMAIN b.orders \cup {new}
    BY <1>3, <1>5
  <2>4. CASE new \in DOMAIN b.orders
    BY ONLY <2>1, <2>2, <2>3, <2>4
  <2>5. CASE new \notin DOMAIN b.orders
    BY ONLY <2>1, <2>2, <2>3, <2>5
  <2> QED BY <2>4, <2>5
<1>9. /\ counters' \in Counters /\ counters'.missing_level = 0
      /\ counters'.orphan = counters.orphan
      /\ counters'.removed_at_zero = counters.removed_at_zero
      /\ counters'.duplicate_add = IF new \in DOMAIN b.orders THEN counters.duplicate_add + 1
                                   ELSE counters.duplicate_add
  BY <1>1, <1>3 DEF CountersOK, Counters
<1>10. LifecycleReconciles'
  BY <1>1, <1>8, <1>9, Numbers DEF LifecycleReconciles
<1> QED BY <1>1, <1>6, <1>7, <1>9, <1>10 DEF IInv, CountersOK

LEMMA InitIInv == Init => IInv
<1> SUFFICES ASSUME Init PROVE IInv
  OBVIOUS
<1>1. GateOK(trading, gate)
  BY InitSound DEF Init
<1>2. DOMAIN orders = {} /\ DOMAIN levels = {}
  BY DEF Init
<1>3. BookOK(Now)
  <2>1. orders \in [{} -> AnyOrder] /\ levels \in [{} -> Level]
    BY DEF Init
  <2> QED BY <1>2, <2>1, FS_EmptySet DEF BookOK, Sound, Now
<1>4. CountersOK
  BY DEF Init, CountersOK, Counters
<1>5. LifecycleReconciles
  BY <1>2, FS_EmptySet DEF Init, LifecycleReconciles, Orphans
<1> QED BY <1>1, <1>3, <1>4, <1>5 DEF IInv

LEMMA NextIInv == IInv /\ [Next]_vars => IInv'
<1> SUFFICES ASSUME IInv, [Next]_vars PROVE IInv'
  OBVIOUS
<1>1. CASE TradingStatus
  BY <1>1, TradingStatusStep
<1>2. ASSUME NEW old \in Refs, ReplaceUnknown(old) PROVE IInv'
  BY <1>2, ReplaceUnknownStep
<1>3. ASSUME NEW l \in Locates, NEW ts \in Timestamps, BookMessage(l, ts) PROVE IInv'
  <2>1. ASSUME NEW ref \in Refs, NEW side \in Sides, NEW price \in Prices, NEW shares \in Shares,
               AddOrder(ref, [locate |-> l, side |-> side, price |-> price, shares |-> shares], ts)
        PROVE  IInv'
    <3>1. [locate |-> l, side |-> side, price |-> price, shares |-> shares] \in RefOrder
      BY DEF RefOrder
    <3> QED BY <2>1, <3>1, AddOrderStep
  <2>2. ASSUME NEW m \in Reducers, NEW ref \in Refs, NEW qty \in Shares,
               ReduceOrder(m, l, ref, qty, ts)
        PROVE  IInv'
    BY <2>2, ReduceOrderStep
  <2>3. ASSUME NEW ref \in Refs, DeleteOrder(l, ref, ts) PROVE IInv'
    BY <2>3, DeleteOrderStep
  <2>4. ASSUME NEW old \in Refs, NEW new \in Refs, NEW price \in Prices, NEW shares \in Shares,
               ReplaceOrder(l, old, new, price, shares, ts)
        PROVE  IInv'
    BY <2>4, ReplaceOrderStep
  <2>5. CASE CrossTrade(l, ts)
    BY <2>5, CrossTradeStep
  <2> QED BY <1>3, <2>1, <2>2, <2>3, <2>4, <2>5 DEF BookMessage
<1>4. CASE UNCHANGED vars
  <2>1. /\ orders' = orders /\ levels' = levels /\ counters' = counters /\ seen' = seen
        /\ trading' = trading /\ gate' = gate
    BY <1>4 DEF vars, refVars, gateVars
  <2>2. BookOK(Now)'
    BY <2>1, InstallSound DEF IInv, Install, Now
  <2>3. GateOK(trading, gate)'
    BY <2>1 DEF IInv, GateOK, Awaiting
  <2> QED BY <2>1, <2>2, <2>3 DEF IInv, CountersOK, LifecycleReconciles
<1> QED BY <1>1, <1>2, <1>3, <1>4 DEF Next

----------------------------------------------------------------------------
(* The theorems.                                                           *)

LEMMA BookInvariant == Spec => []IInv
  BY InitIInv, NextIInv, PTL DEF Spec

\* After any sequence of messages, duplicates, orphans and over-executions
\* included, the FIFOs and the order map describe the same book: what
\* check_invariants() inspects, and that no live order is missing from its
\* level; so execute() never meets an order whose level is absent.
THEOREM QueuesAndOrdersAgree == Spec => [](TypeOK /\ QueuesMatchOrders /\ NeverInconsistent)
<1>1. IInv => QueuesMatchOrders
  <2> SUFFICES ASSUME IInv PROVE QueuesMatchOrders
    OBVIOUS
  <2>1. /\ \A k \in DOMAIN levels : SoundLevel(Now, k)
        /\ \A r \in DOMAIN orders : Queued(Now, r)
    BY DEF IInv, BookOK, Sound, Now
  <2> QED BY <2>1 DEF QueuesMatchOrders, LevelIsSound, OrderIsQueued, SoundLevel, Queued,
                      NoRepeats, Positions, Now
<1>2. IInv => TypeOK
  <2> SUFFICES ASSUME IInv PROVE TypeOK
    OBVIOUS
  <2>1. GateTypeOK
    BY DEF IInv, GateOK, GateTypeOK
  <2>2. /\ DOMAIN orders \subseteq Refs /\ \A r \in DOMAIN orders : orders[r] \in RefOrder
        /\ DOMAIN levels \subseteq LevelKey /\ levels \in [DOMAIN levels -> Level]
    BY DEF IInv, BookOK, Sound, Now
  <2> QED BY <2>1, <2>2 DEF TypeOK, Level, IInv, CountersOK, Counters
<1>3. IInv => NeverInconsistent
  BY DEF IInv, CountersOK, NeverInconsistent
<1> QED BY <1>1, <1>2, <1>3, BookInvariant, PTL

\* The counters account for every order: one added is resting,
\* or was removed at zero, deleted, or superseded, once.
THEOREM EveryOrderAccountedFor == Spec => []LifecycleReconciles
<1>1. IInv => LifecycleReconciles
  BY DEF IInv
<1> QED BY <1>1, BookInvariant, PTL

\* The gate's bookkeeping with the real book behind it, a replace's two
\* checks in one message included.
THEOREM GateBookkeepingOfTheBook == Spec => []WindowsAccountedFor
<1>1. IInv => WindowsAccountedFor
  BY GateOKSuffices DEF IInv
<1> QED BY <1>1, BookInvariant, PTL

----------------------------------------------------------------------------
(* The gate and the book.                                                  *)

LEMMA LeastExists == \A S \in SUBSET Nat : S # {} => \E x \in S : \A y \in S : x <= y
<1> SUFFICES ASSUME NEW S \in SUBSET Nat, S # {} PROVE \E x \in S : \A y \in S : x <= y
  OBVIOUS
<1> DEFINE Below == {d \in Nat \X Nat : d[1] < d[2]}
<1>1. IsWellFoundedOn(Below, Nat)
  BY NatLessThanWellFounded DEF OpToRel
<1>2. PICK x \in S : \A y \in S : ~(<<y, x>> \in Below)
  BY <1>1, WFMin
<1>3. ASSUME NEW y \in S PROVE x <= y
  <2>1. x \in Nat /\ y \in Nat /\ ~(y < x)
    BY <1>2
  <2> QED BY <2>1
<1> QED BY <1>3

\* The largest is the number with the fewest above it.
LEMMA LargestExists ==
  ASSUME NEW S \in SUBSET Nat, IsFiniteSet(S), S # {}
  PROVE  \E x \in S : \A y \in S : y <= x
<1> DEFINE Above(x) == {y \in S : y > x}
           T == {Cardinality(Above(x)) : x \in S}
<1>1. \A x \in S : IsFiniteSet(Above(x)) /\ Cardinality(Above(x)) \in Nat
  BY FS_Subset, FS_CardinalityType
<1> HIDE DEF Above
<1>2. PICK n \in T : \A k \in T : n <= k
  <2>1. T \in SUBSET Nat /\ T # {}
    BY <1>1
  <2> HIDE DEF T
  <2> QED BY <2>1, LeastExists
<1>3. PICK x \in S : n = Cardinality(Above(x))
  OBVIOUS
<1>4. ASSUME NEW y \in S, ~(y <= x) PROVE FALSE
  <2>1. y > x /\ x \in Nat /\ y \in Nat
    BY <1>4
  <2>2. y \in Above(x)
    BY <2>1 DEF Above
  <2>3. Above(y) \subseteq Above(x) \ {y}
    <3>1. ASSUME NEW z \in Above(y) PROVE z \in Above(x) \ {y}
      <4>1. z \in S /\ z \in Nat /\ z > y
        BY <3>1 DEF Above
      <4> QED BY <2>1, <4>1 DEF Above
    <3> QED BY <3>1
  <2>4. /\ IsFiniteSet(Above(x) \ {y}) /\ Cardinality(Above(x) \ {y}) = Cardinality(Above(x)) - 1
    BY <1>1, <2>2, FS_RemoveElement
  <2>5. Cardinality(Above(y)) <= Cardinality(Above(x) \ {y})
    BY <2>3, <2>4, FS_Subset
  <2>6. Cardinality(Above(x)) <= Cardinality(Above(y))
    BY <1>2, <1>3
  <2> QED BY <1>1, <1>4, <2>4, <2>5, <2>6
<1> QED BY <1>4

\* Some bid of the symbol is at or above some ask of it, among the levels D.
Meets(D, l) ==
  \E p, q \in Prices : <<l, "B", p>> \in D /\ <<l, "S", q>> \in D /\ p >= q

\* Two prices that meet are enough: best prices need not be known.
LEMMA RelationMeets ==
  ASSUME NEW lvls, NEW l
  PROVE  Relation(lvls, l) \in Kinds <=> Meets(DOMAIN lvls, l)
<1> DEFINE bids == SidePrices(lvls, l, "B")
           asks == SidePrices(lvls, l, "S")
           B == BestBid(lvls, l)
           A == BestAsk(lvls, l)
<1>1. /\ bids \in SUBSET Nat /\ asks \in SUBSET Nat /\ IsFiniteSet(bids)
      /\ Meets(DOMAIN lvls, l) <=> \E p \in bids, q \in asks : p >= q
  BY ReferenceBookAssumption, FS_Subset DEF SidePrices, Meets
<1>2. CASE bids = {} \/ asks = {}
  BY <1>1, <1>2 DEF Relation, Kinds
<1>3. CASE bids # {} /\ asks # {}
  <2>1. B \in bids /\ \A q \in bids : q <= B
    <3>1. \E p \in bids : \A q \in bids : q <= p
      BY <1>1, <1>3, LargestExists
    <3> QED BY <3>1 DEF BestBid
  <2>2. A \in asks /\ \A q \in asks : A <= q
    <3>1. \E p \in asks : \A q \in asks : p <= q
      BY <1>1, <1>3, LeastExists
    <3> QED BY <3>1 DEF BestAsk
  <2> HIDE DEF bids, asks, A, B
  <2>3. A \in Nat /\ B \in Nat
    BY <1>1, <2>1, <2>2
  <2>4. (\E p \in bids, q \in asks : p >= q) <=> B >= A
    <3>1. ASSUME NEW p \in bids, NEW q \in asks, p >= q PROVE B >= A
      <4>1. p <= B /\ A <= q /\ p \in Nat /\ q \in Nat
        BY <1>1, <2>1, <2>2
      <4> QED BY <2>3, <3>1, <4>1
    <3> QED BY <2>1, <2>2, <3>1
  <2>5. Relation(lvls, l) = IF B > A THEN "crossed" ELSE IF B = A THEN "locked" ELSE "clean"
    BY <1>3 DEF Relation, bids, asks, A, B
  <2> QED BY <1>1, <2>3, <2>4, <2>5 DEF Kinds
<1> QED BY <1>2, <1>3

\* What leaves a book makes no prices meet; what enters it, only its symbol's.
LEMMA EraseMeets ==
  ASSUME NEW b, NEW ref
  PROVE  DOMAIN Erase(b, ref).levels \subseteq DOMAIN b.levels
  BY DEF Erase, LevelErased, Drop

LEMMA AddedMeets ==
  ASSUME NEW b, NEW ref, NEW o
  PROVE  DOMAIN Added(b, ref, o).levels \subseteq DOMAIN b.levels \cup {Key(o)}
<1> DEFINE c == Removed(b, ref)
<1>1. DOMAIN c.levels \subseteq DOMAIN b.levels
  BY EraseMeets DEF Removed
<1>2. DOMAIN Added(b, ref, o).levels = DOMAIN c.levels \cup {Key(o)}
  BY DEF Added, Put
<1> HIDE DEF c
<1> QED BY <1>1, <1>2

LEMMA ExecutedMeets ==
  ASSUME NEW b, NEW ref, NEW qty
  PROVE  DOMAIN Executed(b, ref, qty).levels \subseteq DOMAIN b.levels
<1> DEFINE d == Deducted(b, ref, Taken(b.orders[ref], qty))
           x == Executed(b, ref, qty)
<1>1. DOMAIN d.levels = DOMAIN b.levels
  BY DEF Deducted
<1>2. \/ x = [b EXCEPT !.orders = Drop(@, ref)] \/ x = Erase(d, ref) \/ x = d
  BY DEF Executed
<1>3. DOMAIN Erase(d, ref).levels \subseteq DOMAIN d.levels
  BY EraseMeets
<1>4. [b EXCEPT !.orders = Drop(@, ref)].levels = b.levels
  OBVIOUS
<1> HIDE DEF d, x
<1>5. DOMAIN x.levels \subseteq DOMAIN b.levels
  BY <1>1, <1>2, <1>3, <1>4
<1> QED BY <1>5 DEF x

\* From (t, g) to (u, h) no report and no charge is taken back, and a window
\* closes only on an uncrossed book or at the cap.
KeepsUp(lvls, t, g, u, h) ==
  /\ \A k \in Kinds : g.symbols[k] \subseteq h.symbols[k]
  /\ g.capped <= h.capped
  /\ \A l \in Locates : t[l].awaiting /\ ~u[l].awaiting
                          => Relation(lvls, l) = "clean" \/ h.capped > g.capped

Reported(g, l) == l \in g.symbols["crossed"] \cup g.symbols["locked"]

LEMMA CheckKeepsUp ==
  ASSUME NEW t, NEW g, GateOK(t, g), NEW lvls, NEW l \in Locates, NEW ts \in Nat
  PROVE  LET rel == Relation(lvls, l)
             u == TradingAfterCheck(t, l, ts, rel)
             h == GateAfterCheck(t, g, l, ts, rel)
         IN /\ GateOK(u, h) /\ KeepsUp(lvls, t, g, u, h)
            /\ rel \in Kinds => Reported(h, l)
<1> DEFINE rel == Relation(lvls, l)
           s == t[l]
           u == TradingAfterCheck(t, l, ts, rel)
           c == IF CapFires(s, ts, rel) THEN [g EXCEPT !.capped = @ + 1] ELSE g
           h == GateAfterCheck(t, g, l, ts, rel)
<1>1. /\ rel \in Relations /\ GateOK(u, h)
      /\ t \in [Locates -> TradingState] /\ g \in GateCounters /\ s \in TradingState
  BY RelationIsOne, CheckSound DEF GateOK
<1>2. /\ c \in GateCounters /\ c.symbols = g.symbols /\ g.capped \in Nat
      /\ c.capped = IF CapFires(s, ts, rel) THEN g.capped + 1 ELSE g.capped
  BY <1>1 DEF GateCounters
<1>3. h = CountersAfterCheck(g, s, l, ts, rel)
  BY DEF GateAfterCheck
<1>4. /\ h.capped = c.capped /\ \A k \in Kinds : g.symbols[k] \subseteq h.symbols[k]
      /\ rel \in Kinds => Reported(h, l)
  <2>1. CASE rel \in Kinds
    <3>1. h = Observed(c, s, l, ts, rel)
      BY <1>3, <2>1 DEF CountersAfterCheck
    <3> HIDE DEF c, h, s, rel
    <3>2. /\ h.capped = c.capped /\ l \in h.symbols[rel]
          /\ \A k \in Kinds : c.symbols[k] \subseteq h.symbols[k]
      BY <1>1, <1>2, <2>1, <3>1, ObservedSound, ObservedSymbols
    <3> QED BY <1>2, <2>1, <3>2 DEF Reported, Kinds
  <2>2. CASE rel \notin Kinds
    <3>1. h.capped = g.capped /\ h.symbols = g.symbols /\ ~CapFires(s, ts, rel)
      BY <1>1, <1>3, <2>2 DEF CountersAfterCheck, CapFires, GateCounters
    <3> QED BY <1>2, <2>2, <3>1
  <2> QED BY <2>1, <2>2
<1>5. /\ \A m \in Locates \ {l} : u[m] = t[m]
      /\ u[l].awaiting = (s.awaiting /\ ~CapFires(s, ts, rel) /\ rel # "clean")
  BY <1>1 DEF TradingAfterCheck, SlotAfterCheck, TradingState
<1>6. ASSUME NEW m \in Locates, t[m].awaiting, ~u[m].awaiting
      PROVE  Relation(lvls, m) = "clean" \/ h.capped > g.capped
  <2>1. m = l
    BY <1>5, <1>6
  <2>2. rel = "clean" \/ CapFires(s, ts, rel)
    BY <1>5, <1>6, <2>1
  <2> HIDE DEF h
  <2> QED BY <1>2, <1>4, <2>1, <2>2
<1>7. g.capped <= h.capped
  <2> HIDE DEF h, c
  <2> QED BY <1>2, <1>4
<1> QED BY <1>1, <1>4, <1>6, <1>7 DEF KeepsUp

LEMMA CheckedKeepsUp ==
  ASSUME GateOK(trading, gate), NEW lvls, NEW l \in Locates, NEW ts \in Timestamps,
         Checked(lvls, l, ts)
  PROVE  /\ KeepsUp(lvls, trading, gate, trading', gate')
         /\ Relation(lvls, l) \in Kinds => Reported(gate', l)
  BY GateAssumption, CheckKeepsUp DEF Checked

LEMMA CheckedTwiceKeepsUp ==
  ASSUME GateOK(trading, gate), NEW lvls, NEW own \in Locates, NEW named \in Locates,
         NEW ts \in Timestamps, CheckedTwice(lvls, own, lvls, named, ts)
  PROVE  /\ KeepsUp(lvls, trading, gate, trading', gate')
         /\ Relation(lvls, own) \in Kinds => Reported(gate', own)
<1> DEFINE t1 == TradingAfterCheck(trading, own, ts, Relation(lvls, own))
           g1 == GateAfterCheck(trading, gate, own, ts, Relation(lvls, own))
<1>1. ts \in Nat
  BY GateAssumption
<1>2. /\ trading' = TradingAfterCheck(t1, named, ts, Relation(lvls, named))
      /\ gate' = GateAfterCheck(t1, g1, named, ts, Relation(lvls, named))
  BY DEF CheckedTwice
<1>3. /\ GateOK(t1, g1) /\ KeepsUp(lvls, trading, gate, t1, g1)
      /\ Relation(lvls, own) \in Kinds => Reported(g1, own)
  BY <1>1, CheckKeepsUp
<1> HIDE DEF t1, g1
<1>4. GateOK(trading', gate') /\ KeepsUp(lvls, t1, g1, trading', gate')
  BY <1>1, <1>2, <1>3, CheckKeepsUp
<1>5. gate.capped \in Nat /\ g1.capped \in Nat /\ gate'.capped \in Nat
  BY <1>3, <1>4 DEF GateOK, GateCounters
<1>6. KeepsUp(lvls, trading, gate, trading', gate')
  <2>1. /\ \A k \in Kinds : gate.symbols[k] \subseteq gate'.symbols[k]
        /\ gate.capped <= gate'.capped
    BY <1>3, <1>4, <1>5 DEF KeepsUp
  <2>2. ASSUME NEW l \in Locates, trading[l].awaiting, ~trading'[l].awaiting
        PROVE  Relation(lvls, l) = "clean" \/ gate'.capped > gate.capped
    <3>1. gate.capped <= g1.capped /\ g1.capped <= gate'.capped
      BY <1>3, <1>4 DEF KeepsUp
    <3>2. CASE t1[l].awaiting
      <4>1. Relation(lvls, l) = "clean" \/ gate'.capped > g1.capped
        BY <1>4, <2>2, <3>2 DEF KeepsUp
      <4> QED BY <1>5, <3>1, <4>1
    <3>3. CASE ~t1[l].awaiting
      <4>1. Relation(lvls, l) = "clean" \/ g1.capped > gate.capped
        BY <1>3, <2>2, <3>3 DEF KeepsUp
      <4> QED BY <1>5, <3>1, <4>1
    <3> QED BY <3>2, <3>3
  <2> QED BY <2>1, <2>2 DEF KeepsUp
<1>7. Reported(g1, own) => Reported(gate', own)
  BY <1>4 DEF KeepsUp, Reported, Kinds
<1> QED BY <1>3, <1>6, <1>7

\* A message after which the gate has kept up and prices meet only where they
\* did, or at a symbol that was reported.
LEMMA StaysReported ==
  ASSUME EveryCrossIsReported, NEW D, NEW own,
         DOMAIN levels' = D, D \subseteq DOMAIN levels \cup {<<own, side, p>> : side \in Sides, p \in Prices},
         \A k \in Kinds : gate.symbols[k] \subseteq gate'.symbols[k],
         Relation(levels', own) \in Kinds => Reported(gate', own)
  PROVE  EveryCrossIsReported'
<1> SUFFICES ASSUME NEW l \in Locates, Relation(levels', l) \in Kinds
             PROVE  l \in gate'.symbols["crossed"] \cup gate'.symbols["locked"]
  BY DEF EveryCrossIsReported
<1>1. CASE l = own
  BY <1>1 DEF Reported
<1>2. CASE l # own
  <2>1. Meets(DOMAIN levels', l)
    BY RelationMeets
  <2>2. Meets(DOMAIN levels, l)
    BY <1>2, <2>1 DEF Meets, Sides
  <2>3. Relation(levels, l) \in Kinds
    BY <2>2, RelationMeets
  <2> QED BY <2>3 DEF EveryCrossIsReported, Kinds
<1> QED BY <1>1, <1>2

Closes == \A l \in Locates : trading[l].awaiting /\ ~trading'[l].awaiting => ClosesForCause(l)

LEMMA KeptUpCloses ==
  ASSUME KeepsUp(levels', trading, gate, trading', gate')
  PROVE  Closes /\ \A k \in Kinds : gate.symbols[k] \subseteq gate'.symbols[k]
  BY DEF KeepsUp, Closes, ClosesForCause

\* Messages that leave the book and report nothing.
LEMMA QuietStaysReported ==
  ASSUME EveryCrossIsReported, UNCHANGED levels, gate'.symbols = gate.symbols
  PROVE  EveryCrossIsReported'
  BY DEF EveryCrossIsReported

\* An add, alone or in a replace, is looked at on its own symbol whatever symbol
\* the message names, and nothing else makes prices meet.
LEMMA GateStep ==
  IInv /\ EveryCrossIsReported /\ [Next]_vars =>
    EveryCrossIsReported' /\ [Closes]_vars
<1> SUFFICES ASSUME IInv, EveryCrossIsReported, Next PROVE EveryCrossIsReported' /\ Closes
  <2>1. UNCHANGED vars /\ EveryCrossIsReported => EveryCrossIsReported'
    BY DEF vars, refVars, gateVars, EveryCrossIsReported
  <2> QED BY <2>1
<1>1. GateOK(trading, gate) /\ gate \in GateCounters /\ BookOK(Now)
      /\ trading \in [Locates -> TradingState]
  BY DEF IInv, GateOK
<1>2. CASE TradingStatus
  <2>1. gate' = gate \/ gate' = [gate EXCEPT !.windows = @ + 1]
    BY <1>2 DEF TradingStatus, StockTradingAction, OperationalHalt
  <2>2. gate'.symbols = gate.symbols
    BY <1>1, <2>1 DEF GateCounters
  <2>3. ASSUME NEW l \in Locates, trading[l].awaiting PROVE trading'[l].awaiting
    BY <1>1, <1>2, <2>3 DEF TradingStatus, StockTradingAction, OperationalHalt, TradingState
  <2> QED BY <1>2, <2>2, <2>3, QuietStaysReported DEF TradingStatus, refVars, Closes
<1>3. ASSUME NEW old \in Refs, ReplaceUnknown(old) PROVE EveryCrossIsReported' /\ Closes
  BY <1>3, QuietStaysReported DEF ReplaceUnknown, gateVars, Orphaned, Install, Now, Closes
<1>4. ASSUME NEW l \in Locates, NEW ts \in Timestamps, BookMessage(l, ts)
      PROVE  EveryCrossIsReported' /\ Closes
  <2>1. ASSUME NEW ref \in Refs, NEW o \in RefOrder, AddOrder(ref, o, ts)
        PROVE  EveryCrossIsReported' /\ Closes
    <3> DEFINE b == Added(Now, ref, o)
    <3>1. levels' = b.levels /\ Checked(b.levels, o.locate, ts)
      BY <2>1 DEF AddOrder, Install
    <3>2. DOMAIN b.levels \subseteq DOMAIN levels \cup {<<o.locate, o.side, o.price>>}
      BY AddedMeets DEF Now, Key
    <3>3. o.locate \in Locates /\ o.side \in Sides /\ o.price \in Prices
      BY DEF RefOrder
    <3> HIDE DEF b
    <3>4. /\ KeepsUp(levels', trading, gate, trading', gate')
          /\ Relation(levels', o.locate) \in Kinds => Reported(gate', o.locate)
      BY <1>1, <3>1, <3>3, CheckedKeepsUp
    <3>5. DOMAIN levels' \subseteq DOMAIN levels \cup {<<o.locate, side, p>> : side \in Sides, p \in Prices}
      BY <3>1, <3>2, <3>3
    <3> QED BY <3>4, <3>5, StaysReported, KeptUpCloses
  <2>2. ASSUME NEW b, levels' = b.levels, DOMAIN b.levels \subseteq DOMAIN levels, Checked(b.levels, l, ts)
        PROVE  EveryCrossIsReported' /\ Closes
    <3>1. /\ KeepsUp(levels', trading, gate, trading', gate')
          /\ Relation(levels', l) \in Kinds => Reported(gate', l)
      BY <1>1, <2>2, CheckedKeepsUp
    <3>2. DOMAIN levels' \subseteq DOMAIN levels \cup {<<l, side, p>> : side \in Sides, p \in Prices}
      BY <2>2
    <3> QED BY <3>1, <3>2, StaysReported, KeptUpCloses
  <2>3. ASSUME NEW m \in Reducers, NEW ref \in Refs, NEW qty \in Shares,
               ReduceOrder(m, l, ref, qty, ts)
        PROVE  EveryCrossIsReported' /\ Closes
    <3>1. CASE ref \in DOMAIN orders
      <4>1. /\ levels' = Executed(Now, ref, qty).levels
            /\ Checked(Executed(Now, ref, qty).levels, l, ts)
        BY <2>3, <3>1 DEF ReduceOrder, Install
      <4>2. DOMAIN Executed(Now, ref, qty).levels \subseteq DOMAIN levels
        BY ExecutedMeets DEF Now
      <4> QED BY <2>2, <4>1, <4>2
    <3>2. CASE ref \notin DOMAIN orders
      <4>1. levels' = Now.levels /\ Checked(Now.levels, l, ts) /\ Now.levels = levels
        BY <2>3, <3>2 DEF ReduceOrder, Orphaned, Install, Now
      <4> QED BY <2>2, <4>1
    <3> QED BY <3>1, <3>2
  <2>4. ASSUME NEW ref \in Refs, DeleteOrder(l, ref, ts) PROVE EveryCrossIsReported' /\ Closes
    <3>1. CASE ref \in DOMAIN orders
      <4>1. levels' = Erase(Now, ref).levels /\ Checked(Erase(Now, ref).levels, l, ts)
        BY <2>4, <3>1 DEF DeleteOrder, Install
      <4>2. DOMAIN Erase(Now, ref).levels \subseteq DOMAIN levels
        BY EraseMeets DEF Now
      <4> QED BY <2>2, <4>1, <4>2
    <3>2. CASE ref \notin DOMAIN orders
      <4>1. levels' = Now.levels /\ Checked(Now.levels, l, ts) /\ Now.levels = levels
        BY <2>4, <3>2 DEF DeleteOrder, Orphaned, Install, Now
      <4> QED BY <2>2, <4>1
    <3> QED BY <3>1, <3>2
  <2>5. ASSUME NEW old \in Refs, NEW new \in Refs, NEW price \in Prices, NEW shares \in Shares,
               ReplaceOrder(l, old, new, price, shares, ts)
        PROVE  EveryCrossIsReported' /\ Closes
    <3> DEFINE o == [orders[old] EXCEPT !.price = price, !.shares = shares]
               b == Erase(Now, old)
               c == Added(b, new, o)
    <3>1. levels' = c.levels /\ CheckedTwice(c.levels, o.locate, c.levels, l, ts)
      BY <2>5 DEF ReplaceOrder, Install
    <3>2. o.locate \in Locates /\ o.side \in Sides /\ o.price \in Prices
      <4>1. orders[old] \in RefOrder
        BY <1>1, <2>5 DEF ReplaceOrder, BookOK, Now
      <4> QED BY <4>1 DEF RefOrder
    <3>3. DOMAIN b.levels \subseteq DOMAIN levels
      BY EraseMeets DEF Now
    <3> HIDE DEF b, o
    <3>4. DOMAIN c.levels \subseteq DOMAIN b.levels \cup {<<o.locate, o.side, o.price>>}
      BY AddedMeets DEF Key
    <3> HIDE DEF c
    <3>5. /\ KeepsUp(levels', trading, gate, trading', gate')
          /\ Relation(levels', o.locate) \in Kinds => Reported(gate', o.locate)
      BY <1>1, <3>1, <3>2, CheckedTwiceKeepsUp
    <3>6. DOMAIN levels' \subseteq DOMAIN levels \cup {<<o.locate, side, p>> : side \in Sides, p \in Prices}
      BY <3>1, <3>2, <3>3, <3>4
    <3> QED BY <3>5, <3>6, StaysReported, KeptUpCloses
  <2>6. CASE CrossTrade(l, ts)
    <3>1. gate' = gate \/ \E n : gate' = [gate EXCEPT !.max_held = n]
      BY <2>6 DEF CrossTrade, CrossTradeGate
    <3>2. gate'.symbols = gate.symbols
      BY <1>1, <3>1 DEF GateCounters
    <3>3. \A m \in Locates \ {l} : trading'[m] = trading[m]
      BY <1>1, <2>6 DEF CrossTrade, CrossTradeGate
    <3>4. Closes
      BY <2>6, <3>3 DEF Closes, ClosesForCause
    <3> QED BY <2>6, <3>2, <3>4, QuietStaysReported DEF CrossTrade, refVars
  <2>7. ASSUME NEW side \in Sides, NEW price \in Prices, NEW shares \in Shares
        PROVE  [locate |-> l, side |-> side, price |-> price, shares |-> shares] \in RefOrder
    BY DEF RefOrder
  <2> QED BY <1>4, <2>1, <2>3, <2>4, <2>5, <2>6, <2>7 DEF BookMessage
<1> QED BY <1>2, <1>3, <1>4 DEF Next

LEMMA NothingMeetsAtFirst == Init => EveryCrossIsReported
<1> SUFFICES ASSUME Init, NEW l PROVE Relation(levels, l) \notin Kinds
  BY DEF EveryCrossIsReported
<1>1. DOMAIN levels = {}
  BY DEF Init
<1> QED BY <1>1, RelationMeets DEF Meets

\* For any number of symbols, orders and prices, and whichever symbol a message
\* names: the gate has reported every symbol whose best prices are crossed or
\* locked, and a reopening window closes only at a cross of its symbol, at the
\* cap or on a book the message leaves uncrossed, never on what lies between
\* the two halves of a replace (GateKeepsUp).
THEOREM GateKeepsUpWithTheBook == Spec => GateKeepsUp
<1> DEFINE KeptUp == EveryCrossIsReported' /\ Closes
<1>1. IInv /\ EveryCrossIsReported /\ [Next]_vars => EveryCrossIsReported' /\ [KeptUp]_vars
  BY GateStep
<1>2. Spec => [][KeptUp]_vars
  <2> HIDE DEF KeptUp
  <2> QED BY <1>1, NothingMeetsAtFirst, BookInvariant, PTL DEF Spec
<1> QED BY <1>2, PTL DEF GateKeepsUp, Closes

----------------------------------------------------------------------------
(* The refinement of OrderBook.                                            *)

\* The references before one in a list, which is what a position is for.
Before(fifo, r) == {fifo[j] : j \in 1..Slot(fifo, r) - 1}

\* The abstract book a book stands for.
AheadIn(b, r) == Before(b.levels[Key(b.orders[r])].fifo, r)
View(b) == [resting |-> b.orders, ahead |-> [r \in DOMAIN b.orders |-> AheadIn(b, r)]]

\* A reference is in a list at one position only, so that the node erase and
\* execution work on is the order's own.
LEMMA BeforeByPosition ==
  ASSUME NEW S, NEW fifo \in Seq(S), NoRepeats(fifo), NEW i \in 1..Len(fifo)
  PROVE  /\ Slot(fifo, fifo[i]) = i
         /\ Before(fifo, fifo[i]) = {fifo[j] : j \in 1..i - 1}
<1>1. Slot(fifo, fifo[i]) = i
  BY SlotIsThere DEF NoRepeats
<1> QED BY <1>1 DEF Before

\* Erasing a node takes its order from in front of those behind it.
LEMMA EraseAtBefore ==
  ASSUME NEW S, NEW fifo \in Seq(S), NoRepeats(fifo),
         NEW i \in 1..Len(fifo), NEW m \in 1..Len(fifo) \ {i}
  PROVE  Before(EraseAt(fifo, i), fifo[m]) = Before(fifo, fifo[m]) \ {fifo[i]}
<1> DEFINE e == EraseAt(fifo, i)
           n == Len(fifo) - 1
           p == IF m < i THEN m ELSE m - 1
<1>1. n \in Nat /\ Len(fifo) \in Nat /\ ErasesOnly(S, fifo, i, e)
  BY EraseAtKeepsTheOthers
<1>2. e \in Seq(S) /\ Len(e) = n /\ NoRepeats(e)
  BY <1>1 DEF ErasesOnly
<1>3. \A j \in 1..n : e[j] = IF j < i THEN fifo[j] ELSE fifo[j + 1]
  BY <1>1 DEF EraseAt
<1> HIDE DEF e
<1>4. p \in 1..n /\ e[p] = fifo[m]
  BY <1>1, <1>3
<1>5. Before(e, fifo[m]) = {e[j] : j \in 1..p - 1}
  BY <1>2, <1>4, BeforeByPosition
<1>6. Before(fifo, fifo[m]) = {fifo[j] : j \in 1..m - 1}
  BY BeforeByPosition
<1> HIDE DEF p
<1>7. ASSUME NEW j \in 1..p - 1
      PROVE  e[j] \in {fifo[l] : l \in 1..m - 1} \ {fifo[i]}
  <2>1. j \in 1..n /\ j < i => j \in 1..m - 1 /\ j \in 1..Len(fifo) /\ e[j] = fifo[j] /\ j # i
    BY <1>1, <1>3, <1>4, <1>7 DEF p
  <2>2. j \in 1..n /\ ~(j < i) => j + 1 \in 1..m - 1 /\ j + 1 \in 1..Len(fifo)
                                  /\ e[j] = fifo[j + 1] /\ j + 1 # i
    BY <1>1, <1>3, <1>4, <1>7 DEF p
  <2>3. j \in 1..n
    BY <1>1, <1>4, <1>7
  <2> QED BY <2>1, <2>2, <2>3 DEF NoRepeats
<1>8. ASSUME NEW l \in 1..m - 1, fifo[l] # fifo[i]
      PROVE  \E j \in 1..p - 1 : e[j] = fifo[l]
  <2>1. l # i /\ l \in 1..Len(fifo)
    BY <1>1, <1>8
  <2>2. CASE l < i
    <3>1. l \in 1..p - 1 /\ l \in 1..n
      BY <1>1, <2>2 DEF p
    <3> QED BY <1>3, <2>2, <3>1
  <2>3. CASE l > i
    <3>1. l - 1 \in 1..p - 1 /\ l - 1 \in 1..n /\ ~(l - 1 < i) /\ (l - 1) + 1 = l
      BY <1>1, <2>3 DEF p
    <3> QED BY <1>3, <3>1
  <2> QED BY <2>1, <2>2, <2>3
<1>9. {e[j] : j \in 1..p - 1} = {fifo[l] : l \in 1..m - 1} \ {fifo[i]}
  BY <1>7, <1>8
<1> QED BY <1>5, <1>6, <1>9 DEF e

\* A newcomer at the back is behind everybody and moves nobody.
LEMMA AppendBefore ==
  ASSUME NEW S, NEW fifo \in Seq(S), NEW x \in S, NoRepeats(fifo),
         \A i \in 1..Len(fifo) : fifo[i] # x
  PROVE  LET a == Append(fifo, x)
         IN /\ Before(a, x) = {fifo[j] : j \in 1..Len(fifo)}
            /\ \A i \in 1..Len(fifo) : Before(a, fifo[i]) = Before(fifo, fifo[i])
<1> DEFINE a == Append(fifo, x)
<1>1. /\ a \in Seq(S) /\ Len(a) = Len(fifo) + 1 /\ NoRepeats(a) /\ Len(fifo) \in Nat
      /\ a[Len(a)] = x /\ \A i \in 1..Len(fifo) : a[i] = fifo[i]
  BY AppendKeepsTheOthers
<1> HIDE DEF a
<1>2. Before(a, x) = {a[j] : j \in 1..Len(a) - 1}
  <2>1. Len(a) \in 1..Len(a)
    BY <1>1
  <2>2. Before(a, a[Len(a)]) = {a[j] : j \in 1..Len(a) - 1}
    BY <1>1, <2>1, BeforeByPosition
  <2> QED BY <1>1, <2>2
<1>3. Before(a, x) = {fifo[j] : j \in 1..Len(fifo)}
  <2>1. Len(a) - 1 = Len(fifo)
    BY <1>1
  <2> QED BY <1>1, <1>2, <2>1
<1>4. ASSUME NEW i \in 1..Len(fifo)
      PROVE  Before(a, fifo[i]) = Before(fifo, fifo[i])
  <2>1. i \in 1..Len(a) /\ a[i] = fifo[i] /\ \A j \in 1..i - 1 : a[j] = fifo[j]
    BY <1>1
  <2>2. Before(a, a[i]) = {a[j] : j \in 1..i - 1}
    BY <1>1, <2>1, BeforeByPosition
  <2>3. Before(fifo, fifo[i]) = {fifo[j] : j \in 1..i - 1}
    BY BeforeByPosition
  <2> QED BY <2>1, <2>2, <2>3
<1> QED BY <1>3, <1>4 DEF a

----------------------------------------------------------------------------
\* Where a live order is in a sound book: in its level's list, once.
LEMMA PlaceOf ==
  ASSUME NEW b, Sound(b), NEW r \in DOMAIN b.orders
  PROVE  LET k == Key(b.orders[r])
             fifo == b.levels[k].fifo
         IN /\ k \in DOMAIN b.levels /\ fifo \in Seq(Refs) /\ NoRepeats(fifo)
            /\ Len(fifo) \in Nat
            /\ \E i \in 1..Len(fifo) : fifo[i] = r
            /\ \A i \in 1..Len(fifo) : fifo[i] \in DOMAIN b.orders /\ Key(b.orders[fifo[i]]) = k
<1> DEFINE k == Key(b.orders[r])
           fifo == b.levels[k].fifo
<1>1. k \in DOMAIN b.levels /\ \E i \in 1..Len(fifo) : fifo[i] = r
  BY DEF Sound, Queued
<1>2. SoundLevel(b, k) /\ b.levels[k] \in Level
  BY <1>1 DEF Sound
<1>3. fifo \in Seq(Refs)
  BY <1>2 DEF Level
<1>4. Len(fifo) \in Nat
  BY <1>3
<1> QED BY <1>1, <1>2, <1>3, <1>4 DEF SoundLevel

\* What an erase does to the lists: nothing but to take the one node out.
LEMMA EraseLevels ==
  ASSUME NEW b, Sound(b), NEW ref \in DOMAIN b.orders, NEW r \in DOMAIN b.orders \ {ref}
  PROVE  LET k == Key(b.orders[r])
             fifo == b.levels[k].fifo
             after == Erase(b, ref).levels[k].fifo
         IN IF k = Key(b.orders[ref]) THEN after = EraseAt(fifo, Slot(fifo, ref))
            ELSE after = fifo
<1> DEFINE k == Key(b.orders[r])
           o == b.orders[ref]
           c == Erase(b, ref)
<1>1. /\ k \in DOMAIN b.levels /\ Key(o) \in DOMAIN b.levels
      /\ b.levels \in [DOMAIN b.levels -> Level]
  BY DEF Sound, Queued
<1>2. c.levels = LevelErased(b.levels, Key(o), o, ref)
  BY <1>1 DEF Erase
<1>3. CASE k # Key(o)
  BY <1>1, <1>2, <1>3 DEF LevelErased, Drop
<1>4. CASE k = Key(o)
  <2> DEFINE fifo == b.levels[k].fifo
  <2>1. \E i \in 1..Len(fifo) : fifo[i] = r
    BY PlaceOf
  <2>2. fifo = b.levels[Key(o)].fifo
    BY <1>4
  <2>3. \E i \in 1..Len(fifo) : fifo[i] = ref
    BY <2>2, PlaceOf
  <2>4. Len(fifo) # 1
    BY <2>1, <2>3
  <2> QED BY <1>1, <1>2, <1>4, <2>4 DEF LevelErased
<1> QED BY <1>3, <1>4

LEMMA EraseView ==
  ASSUME NEW b, Sound(b), NEW ref \in DOMAIN b.orders
  PROVE  View(Erase(b, ref)) = Abstract!Without(View(b), ref)
<1> DEFINE c == Erase(b, ref)
           live == DOMAIN b.orders \ {ref}
<1>1. c.orders = [r \in live |-> b.orders[r]]
  BY EraseSound
<1>2. ASSUME NEW r \in live
      PROVE  AheadIn(c, r) = AheadIn(b, r) \ {ref}
  <2> DEFINE k == Key(b.orders[r])
             fifo == b.levels[k].fifo
  <2>1. /\ k \in DOMAIN b.levels /\ fifo \in Seq(Refs) /\ NoRepeats(fifo)
        /\ \E i \in 1..Len(fifo) : fifo[i] = r
        /\ \A i \in 1..Len(fifo) : Key(b.orders[fifo[i]]) = k
    BY PlaceOf
  <2>2. AheadIn(c, r) = Before(c.levels[k].fifo, r) /\ AheadIn(b, r) = Before(fifo, r)
    BY <1>1 DEF AheadIn
  <2>3. PICK m \in 1..Len(fifo) : fifo[m] = r
    BY <2>1
  <2>4. Before(fifo, r) = {fifo[j] : j \in 1..m - 1}
    BY <2>1, <2>3, BeforeByPosition
  <2>5. CASE k = Key(b.orders[ref])
    <3>1. c.levels[k].fifo = EraseAt(fifo, Slot(fifo, ref))
      BY <2>5, EraseLevels
    <3>2. PICK i \in 1..Len(fifo) : fifo[i] = ref
      BY <2>5, PlaceOf
    <3>3. Slot(fifo, ref) = i /\ m # i
      BY <2>1, <2>3, <3>2, BeforeByPosition
    <3>4. Before(EraseAt(fifo, i), fifo[m]) = Before(fifo, fifo[m]) \ {fifo[i]}
      BY <2>1, <3>3, EraseAtBefore
    <3> QED BY <2>2, <2>3, <3>1, <3>2, <3>3, <3>4
  <2>6. CASE k # Key(b.orders[ref])
    <3>1. c.levels[k].fifo = fifo
      BY <2>6, EraseLevels
    <3>2. ref \notin Before(fifo, r)
      BY <2>1, <2>3, <2>4, <2>6
    <3> QED BY <2>2, <3>1, <3>2
  <2> QED BY <2>5, <2>6
<1> HIDE DEF c
<1>3. View(c) = [resting |-> c.orders, ahead |-> [r \in live |-> AheadIn(c, r)]]
  BY <1>1 DEF View
<1>4. Abstract!Without(View(b), ref) =
        [resting |-> [r \in live |-> b.orders[r]],
         ahead   |-> [r \in live |-> AheadIn(b, r) \ {ref}]]
  BY DEF View, Abstract!Without
<1>5. [r \in live |-> AheadIn(c, r)] = [r \in live |-> AheadIn(b, r) \ {ref}]
  BY <1>2
<1> QED BY <1>1, <1>3, <1>4, <1>5 DEF c

LEMMA AddedView ==
  ASSUME NEW b, Sound(b), NEW ref \in Refs, NEW o \in AnyOrder
  PROVE  View(Added(b, ref, o)) = Abstract!Arrival(View(b), ref, o)
<1> DEFINE c == Removed(b, ref)
           a == Added(b, ref, o)
           live == DOMAIN c.orders
           fifo == IF Key(o) \in DOMAIN c.levels THEN c.levels[Key(o)].fifo ELSE <<>>
<1>1. Sound(c) /\ ref \notin live /\ View(c) = Abstract!Without(View(b), ref)
  <2>1. CASE ref \in DOMAIN b.orders
    <3>1. c = Erase(b, ref)
      BY <2>1 DEF Removed
    <3> HIDE DEF c
    <3>2. Sound(c) /\ c.orders = [r \in DOMAIN b.orders \ {ref} |-> b.orders[r]]
      BY <2>1, <3>1, EraseSound
    <3> QED BY <2>1, <3>1, <3>2, EraseView
  <2>2. CASE ref \notin DOMAIN b.orders
    <3>1. c = b
      BY <2>2 DEF Removed
    <3>2. \A r \in DOMAIN b.orders : ref \notin AheadIn(b, r)
      <4> SUFFICES ASSUME NEW r \in DOMAIN b.orders PROVE ref \notin AheadIn(b, r)
        OBVIOUS
      <4> DEFINE list == b.levels[Key(b.orders[r])].fifo
      <4>1. /\ list \in Seq(Refs) /\ NoRepeats(list)
            /\ \A i \in 1..Len(list) : list[i] \in DOMAIN b.orders
        BY PlaceOf
      <4>2. PICK i \in 1..Len(list) : list[i] = r
        BY PlaceOf
      <4>3. AheadIn(b, r) = {list[j] : j \in 1..i - 1}
        BY <4>1, <4>2, BeforeByPosition DEF AheadIn
      <4> QED BY <2>2, <4>1, <4>3
    <3>3. Abstract!Without(View(b), ref) =
            [resting |-> [r \in DOMAIN b.orders |-> b.orders[r]],
             ahead   |-> [r \in DOMAIN b.orders |-> AheadIn(b, r) \ {ref}]]
      BY <2>2 DEF View, Abstract!Without
    <3>4. /\ b.orders = [r \in DOMAIN b.orders |-> b.orders[r]]
          /\ \A r \in DOMAIN b.orders : AheadIn(b, r) \ {ref} = AheadIn(b, r)
      BY <3>2 DEF Sound
    <3> QED BY <2>2, <3>1, <3>3, <3>4 DEF View
  <2> QED BY <2>1, <2>2
<1>2. /\ a.orders = Put(c.orders, ref, o)
      /\ DOMAIN a.levels = DOMAIN c.levels \cup {Key(o)}
      /\ a.levels[Key(o)].fifo = Append(fifo, ref)
      /\ \A k \in DOMAIN c.levels \ {Key(o)} : a.levels[k] = c.levels[k]
  BY DEF Added, Put, EmptyLevel
<1>3. /\ fifo \in Seq(Refs) /\ NoRepeats(fifo)
      /\ \A j \in 1..Len(fifo) : fifo[j] \in live /\ Key(c.orders[fifo[j]]) = Key(o)
      /\ \A r \in live : Key(c.orders[r]) = Key(o) => \E j \in 1..Len(fifo) : fifo[j] = r
  <2> HIDE DEF c
  <2>1. CASE Key(o) \in DOMAIN c.levels
    <3>1. SoundLevel(c, Key(o)) /\ c.levels[Key(o)] \in Level /\ fifo = c.levels[Key(o)].fifo
      BY <1>1, <2>1 DEF Sound
    <3>2. \A r \in live : Queued(c, r)
      BY <1>1 DEF Sound
    <3> QED BY <3>1, <3>2 DEF SoundLevel, Level, Queued
  <2>2. CASE Key(o) \notin DOMAIN c.levels
    <3>1. fifo = <<>>
      BY <2>2
    <3>2. \A r \in live : Queued(c, r)
      BY <1>1 DEF Sound
    <3> QED BY <2>2, <3>1, <3>2 DEF NoRepeats, Queued
  <2> QED BY <2>1, <2>2
<1> HIDE DEF a, c, fifo
<1>4. \A j \in 1..Len(fifo) : fifo[j] # ref
  BY <1>1, <1>3
<1>5. /\ Before(Append(fifo, ref), ref) = {fifo[j] : j \in 1..Len(fifo)}
      /\ \A i \in 1..Len(fifo) : Before(Append(fifo, ref), fifo[i]) = Before(fifo, fifo[i])
  BY <1>3, <1>4, AppendBefore
<1>6. AheadIn(a, ref) = {x \in live : Key(c.orders[x]) = Key(o)}
  <2>1. a.orders[ref] = o
    BY <1>2 DEF Put
  <2>2. AheadIn(a, ref) = {fifo[j] : j \in 1..Len(fifo)}
    BY <1>2, <1>5, <2>1 DEF AheadIn
  <2> QED BY <1>3, <2>2
<1>7. ASSUME NEW r \in live
      PROVE  AheadIn(a, r) = AheadIn(c, r)
  <2>1. a.orders[r] = c.orders[r] /\ Key(c.orders[r]) \in DOMAIN c.levels
    BY <1>1, <1>2 DEF Put, Sound, Queued
  <2>2. CASE Key(c.orders[r]) = Key(o)
    <3>1. PICK i \in 1..Len(fifo) : fifo[i] = r
      BY <1>3, <2>2
    <3>2. fifo = c.levels[Key(o)].fifo
      BY <2>1, <2>2 DEF fifo
    <3>3. AheadIn(a, r) = Before(Append(fifo, ref), r)
      BY <1>2, <2>1, <2>2 DEF AheadIn
    <3>4. AheadIn(c, r) = Before(fifo, r)
      BY <2>2, <3>2 DEF AheadIn
    <3> QED BY <1>5, <3>1, <3>3, <3>4
  <2>3. CASE Key(c.orders[r]) # Key(o)
    BY <1>2, <2>1, <2>3 DEF AheadIn
  <2> QED BY <2>2, <2>3
<1>8. \A x \in live : Abstract!SamePlace(c.orders[x], o) <=> Key(c.orders[x]) = Key(o)
  BY DEF Abstract!SamePlace, Key
<1>9. Abstract!With(View(c), ref, o) =
        [resting |-> [r \in live \cup {ref} |-> IF r = ref THEN o ELSE c.orders[r]],
         ahead   |-> [r \in live \cup {ref} |->
                        IF r = ref THEN {x \in live : Abstract!SamePlace(c.orders[x], o)}
                        ELSE AheadIn(c, r)]]
  BY DEF View, Abstract!With
<1>10. View(a) = [resting |-> [r \in live \cup {ref} |-> IF r = ref THEN o ELSE c.orders[r]],
                  ahead   |-> [r \in live \cup {ref} |-> AheadIn(a, r)]]
  BY <1>2 DEF View, Put
<1>11. \A r \in live \cup {ref} :
         AheadIn(a, r) = IF r = ref THEN {x \in live : Abstract!SamePlace(c.orders[x], o)}
                         ELSE AheadIn(c, r)
  BY <1>6, <1>7, <1>8
<1>12. View(a) = Abstract!With(View(c), ref, o)
  BY <1>9, <1>10, <1>11
<1> QED BY <1>1, <1>12 DEF Abstract!Arrival, a

\* An execution or a cancel leaves the order its place, until nothing is left.
LEMMA ExecutedView ==
  ASSUME NEW b, Sound(b), NEW ref \in DOMAIN b.orders, NEW qty \in Nat,
         b.orders[ref].shares > 0
  PROVE  IF qty < b.orders[ref].shares
         THEN View(Executed(b, ref, qty)) =
                [resting |-> [b.orders EXCEPT ![ref].shares = @ - qty], ahead |-> View(b).ahead]
         ELSE View(Executed(b, ref, qty)) = Abstract!Without(View(b), ref)
<1> DEFINE taken == Taken(b.orders[ref], qty)
           d == Deducted(b, ref, taken)
           x == Executed(b, ref, qty)
<1>1. b.orders[ref].shares \in Nat /\ b.orders \in [DOMAIN b.orders -> AnyOrder]
  BY DEF Sound, AnyOrder
<1>2. taken \in Nat /\ taken = IF qty < b.orders[ref].shares THEN qty ELSE b.orders[ref].shares
  BY <1>1 DEF Taken
<1> HIDE DEF taken
<1>3. /\ Sound(d) /\ DOMAIN d.orders = DOMAIN b.orders
      /\ d.orders[ref].shares = b.orders[ref].shares - taken
  BY <1>1, <1>2, DeductedSound
<1>4. d.orders = [b.orders EXCEPT ![ref].shares = @ - taken]
  BY DEF Deducted
<1>5. \A r \in DOMAIN b.orders : Key(d.orders[r]) = Key(b.orders[r])
  BY <1>1, <1>4 DEF Key, AnyOrder
<1>6. \A k \in DOMAIN b.levels : d.levels[k].fifo = b.levels[k].fifo
  <2>1. b.levels \in [DOMAIN b.levels -> Level]
    BY DEF Sound
  <2> QED BY <2>1 DEF Deducted, Level
<1>7. x = IF d.orders[ref].shares = 0 THEN Erase(d, ref) ELSE d
  <2>1. ~MissingLevel(b, ref)
    BY ExecutedSound
  <2> QED BY <2>1 DEF Executed, taken
<1> HIDE DEF d, x
<1>8. \A r \in DOMAIN b.orders : AheadIn(d, r) = AheadIn(b, r)
  <2>1. \A r \in DOMAIN b.orders : Key(b.orders[r]) \in DOMAIN b.levels
    BY DEF Sound, Queued
  <2> QED BY <1>5, <1>6, <2>1 DEF AheadIn
<1>9. CASE qty < b.orders[ref].shares
  <2>1. x = d /\ taken = qty
    BY <1>1, <1>2, <1>3, <1>7, <1>9
  <2>2. View(d) = [resting |-> d.orders, ahead |-> [r \in DOMAIN b.orders |-> AheadIn(b, r)]]
    BY <1>3, <1>8 DEF View
  <2> QED BY <1>4, <1>9, <2>1, <2>2 DEF View, x
<1>10. CASE ~(qty < b.orders[ref].shares)
  <2>1. x = Erase(d, ref)
    BY <1>1, <1>2, <1>3, <1>7, <1>10
  <2>2. View(x) = Abstract!Without(View(d), ref)
    BY <1>3, <2>1, EraseView
  <2>3. Abstract!Without(View(d), ref) = Abstract!Without(View(b), ref)
    <3>1. \A r \in DOMAIN b.orders \ {ref} : d.orders[r] = b.orders[r]
      BY <1>1, <1>4
    <3>2. Abstract!Without(View(d), ref) =
            [resting |-> [r \in DOMAIN b.orders \ {ref} |-> d.orders[r]],
             ahead   |-> [r \in DOMAIN b.orders \ {ref} |-> AheadIn(d, r) \ {ref}]]
      BY <1>3 DEF View, Abstract!Without
    <3>3. Abstract!Without(View(b), ref) =
            [resting |-> [r \in DOMAIN b.orders \ {ref} |-> b.orders[r]],
             ahead   |-> [r \in DOMAIN b.orders \ {ref} |-> AheadIn(b, r) \ {ref}]]
      BY DEF View, Abstract!Without
    <3> QED BY <1>8, <3>1, <3>2, <3>3
  <2> QED BY <1>10, <2>2, <2>3 DEF x
<1> QED BY <1>9, <1>10

----------------------------------------------------------------------------
(* The handlers, seen as operations of the abstract book.                  *)

\* The refinement mapping is the view of the book at hand.
LEMMA BookIsView == Abstract!Book = View(Now)
  BY DEF Abstract!Book, View, AheadIn, Before, OrdersAhead, Now

LEMMA InstallsView ==
  ASSUME NEW b, Install(b)
  PROVE  Abstract!Becomes(View(b))
<1>1. orders' = b.orders /\ levels' = b.levels
  BY DEF Install
<1> QED BY <1>1 DEF Abstract!Becomes, View, AheadIn, Before, OrdersAhead

LEMMA QuietIsStutter ==
  ASSUME Install(Now)
  PROVE  UNCHANGED Abstract!bookVars
<1>1. orders' = orders /\ levels' = levels
  BY DEF Install, Now
<1> QED BY <1>1 DEF Abstract!bookVars, OrdersAhead

LEMMA OrderIsAbstract == RefOrder = Abstract!Order
  BY DEF RefOrder, Abstract!Order, Shares

LEMMA AddOrderEnters ==
  ASSUME IInv, NEW ref \in Refs, NEW o \in RefOrder, NEW ts, AddOrder(ref, o, ts)
  PROVE  Abstract!Next
<1>1. Sound(Now) /\ o \in AnyOrder
  BY RefOrderIsAnyOrder DEF IInv, BookOK
<1>2. Abstract!Becomes(View(Added(Now, ref, o)))
  BY InstallsView DEF AddOrder
<1>3. View(Added(Now, ref, o)) = Abstract!Arrival(Abstract!Book, ref, o)
  BY <1>1, AddedView, BookIsView
<1>4. Abstract!Enter(ref, o)
  BY <1>2, <1>3 DEF Abstract!Enter
<1> QED BY <1>4, OrderIsAbstract DEF Abstract!Next

LEMMA ReduceOrderReduces ==
  ASSUME IInv, NEW m, NEW l, NEW ref \in Refs, NEW qty \in Shares, NEW ts,
         ReduceOrder(m, l, ref, qty, ts)
  PROVE  Abstract!Next \/ UNCHANGED Abstract!bookVars
<1>1. CASE ref \notin DOMAIN orders
  BY <1>1, QuietIsStutter DEF ReduceOrder, Orphaned
<1>2. CASE ref \in DOMAIN orders
  <2> DEFINE x == Executed(Now, ref, qty)
  <2>1. /\ Sound(Now) /\ ref \in DOMAIN Now.orders /\ qty \in Nat /\ Now.orders = orders
        /\ orders[ref].shares > 0
    <3>1. orders[ref] \in RefOrder /\ Sound(Now)
      BY <1>2 DEF IInv, BookOK, Now
    <3> QED BY <1>2, <3>1, ReferenceBookAssumption DEF Now, Shares, RefOrder
  <2>2. Abstract!Becomes(View(x))
    BY <1>2, InstallsView DEF ReduceOrder
  <2>3. /\ qty < orders[ref].shares =>
             View(x) = [resting |-> [orders EXCEPT ![ref].shares = @ - qty],
                        ahead |-> Abstract!Book.ahead]
        /\ ~(qty < orders[ref].shares) => View(x) = Abstract!Without(Abstract!Book, ref)
    BY <2>1, ExecutedView, BookIsView
  <2> HIDE DEF x
  <2>4. Abstract!Reduce(ref, qty)
    <3>1. CASE qty < orders[ref].shares
      BY <1>2, <2>2, <2>3, <3>1 DEF Abstract!Reduce, Abstract!Becomes, Abstract!Book
    <3>2. CASE ~(qty < orders[ref].shares)
      BY <1>2, <2>2, <2>3, <3>2 DEF Abstract!Reduce
    <3> QED BY <3>1, <3>2
  <2> QED BY <2>4 DEF Abstract!Next, Shares
<1> QED BY <1>1, <1>2

LEMMA DeleteOrderLeaves ==
  ASSUME IInv, NEW l, NEW ref \in Refs, NEW ts, DeleteOrder(l, ref, ts)
  PROVE  Abstract!Next \/ UNCHANGED Abstract!bookVars
<1>1. CASE ref \notin DOMAIN orders
  BY <1>1, QuietIsStutter DEF DeleteOrder, Orphaned
<1>2. CASE ref \in DOMAIN orders
  <2>1. Sound(Now) /\ ref \in DOMAIN Now.orders
    BY <1>2 DEF IInv, BookOK, Now
  <2>2. Abstract!Becomes(Abstract!Without(Abstract!Book, ref))
    BY <1>2, <2>1, InstallsView, EraseView, BookIsView DEF DeleteOrder
  <2> QED BY <1>2, <2>2 DEF Abstract!Leave, Abstract!Next
<1> QED BY <1>1, <1>2

LEMMA ReplaceOrderReplaces ==
  ASSUME IInv, NEW l, NEW old \in Refs, NEW new \in Refs, NEW price \in Prices,
         NEW shares \in Shares, NEW ts, ReplaceOrder(l, old, new, price, shares, ts)
  PROVE  Abstract!Next
<1> DEFINE b == Erase(Now, old)
           o == [orders[old] EXCEPT !.price = price, !.shares = shares]
<1>1. Sound(Now) /\ old \in DOMAIN Now.orders /\ old \in DOMAIN orders
  BY DEF ReplaceOrder, IInv, BookOK, Now
<1>2. o \in AnyOrder
  <2>1. orders[old] \in RefOrder
    BY <1>1 DEF IInv, BookOK, Now
  <2>2. o \in RefOrder
    BY <2>1 DEF RefOrder
  <2> QED BY <2>2, RefOrderIsAnyOrder
<1>3. Abstract!Becomes(View(Added(b, new, o)))
  BY InstallsView DEF ReplaceOrder
<1>4. Sound(b) /\ View(b) = Abstract!Without(Abstract!Book, old)
  BY <1>1, EraseSound, EraseView, BookIsView
<1>5. View(Added(b, new, o)) = Abstract!Arrival(View(b), new, o)
  <2> HIDE DEF b, o
  <2> QED BY <1>2, <1>4, AddedView
<1>6. Abstract!Replace(old, new, price, shares)
  BY <1>1, <1>3, <1>4, <1>5 DEF Abstract!Replace
<1> QED BY <1>6 DEF Abstract!Next, Shares

LEMMA InitOfOrderBook == Init => Abstract!Init
  BY DEF Init, Abstract!Init

LEMMA StepOfOrderBook == IInv /\ [Next]_vars => [Abstract!Next]_Abstract!bookVars
<1> SUFFICES ASSUME IInv, [Next]_vars
             PROVE  Abstract!Next \/ UNCHANGED Abstract!bookVars
  OBVIOUS
<1>1. CASE TradingStatus
  BY <1>1, QuietIsStutter DEF TradingStatus, refVars, Install, Now
<1>2. ASSUME NEW old \in Refs, ReplaceUnknown(old)
      PROVE  UNCHANGED Abstract!bookVars
  BY <1>2, QuietIsStutter DEF ReplaceUnknown, Orphaned
<1>3. ASSUME NEW l \in Locates, NEW ts \in Timestamps, BookMessage(l, ts)
      PROVE  Abstract!Next \/ UNCHANGED Abstract!bookVars
  <2>1. ASSUME NEW ref \in Refs, NEW side \in Sides, NEW price \in Prices, NEW shares \in Shares,
               AddOrder(ref, [locate |-> l, side |-> side, price |-> price, shares |-> shares], ts)
        PROVE  Abstract!Next
    <3>1. [locate |-> l, side |-> side, price |-> price, shares |-> shares] \in RefOrder
      BY DEF RefOrder
    <3> QED BY <2>1, <3>1, AddOrderEnters
  <2>2. ASSUME NEW m \in Reducers, NEW ref \in Refs, NEW qty \in Shares,
               ReduceOrder(m, l, ref, qty, ts)
        PROVE  Abstract!Next \/ UNCHANGED Abstract!bookVars
    BY <2>2, ReduceOrderReduces
  <2>3. ASSUME NEW ref \in Refs, DeleteOrder(l, ref, ts)
        PROVE  Abstract!Next \/ UNCHANGED Abstract!bookVars
    BY <2>3, DeleteOrderLeaves
  <2>4. ASSUME NEW old \in Refs, NEW new \in Refs, NEW price \in Prices, NEW shares \in Shares,
               ReplaceOrder(l, old, new, price, shares, ts)
        PROVE  Abstract!Next
    BY <2>4, ReplaceOrderReplaces
  <2>5. CASE CrossTrade(l, ts)
    BY <2>5, QuietIsStutter DEF CrossTrade, refVars, Install, Now
  <2> QED BY <1>3, <2>1, <2>2, <2>3, <2>4, <2>5 DEF BookMessage
<1>4. CASE UNCHANGED vars
  BY <1>4, QuietIsStutter DEF vars, refVars, Install, Now
<1> QED BY <1>1, <1>2, <1>3, <1>4 DEF Next

\* ReferenceBook implements OrderBook, for every feed.
THEOREM ReferenceBookIsAnOrderBook == Spec => ImplementsOrderBook
  BY InitOfOrderBook, StepOfOrderBook, BookInvariant, PTL DEF Spec, ImplementsOrderBook, Abstract!Spec

(* What OrderBookProofs shows of every book, brought back to this one.      *)
Promise == INSTANCE OrderBookProofs WITH
  resting <- orders, ahead <- [r \in DOMAIN orders |-> OrdersAhead(r)]

\* The two instances of OrderBook are the same specification.
LEMMA PromiseIsAbstract ==
  /\ Abstract!Init => Promise!Init
  /\ [Abstract!Next]_Abstract!bookVars => [Promise!Next]_Promise!bookVars
  /\ [Promise!OvertakesNobody]_Promise!bookVars => [Abstract!OvertakesNobody]_Abstract!bookVars
  /\ Promise!PriorityIsTotal => Abstract!PriorityIsTotal
  /\ Promise!PriorityIsTransitive => Abstract!PriorityIsTransitive
<1>1. Abstract!Init => Promise!Init
  BY DEF Abstract!Init, Promise!Init
<1>2. Abstract!Next <=> Promise!Next
  BY DEF Abstract!Next, Promise!Next, Abstract!Enter, Promise!Enter,
         Abstract!Reduce, Promise!Reduce, Abstract!Leave, Promise!Leave,
         Abstract!Replace, Promise!Replace, Abstract!Becomes, Promise!Becomes,
         Abstract!Book, Promise!Book, Abstract!Arrival, Promise!Arrival,
         Abstract!With, Promise!With, Abstract!Without, Promise!Without,
         Abstract!SamePlace, Promise!SamePlace, Abstract!Order, Promise!Order
<1>3. Abstract!bookVars = Promise!bookVars /\ Abstract!bookVars' = Promise!bookVars'
  BY DEF Abstract!bookVars, Promise!bookVars
<1>4. Abstract!OvertakesNobody <=> Promise!OvertakesNobody
  BY DEF Abstract!OvertakesNobody, Promise!OvertakesNobody
<1>5. Promise!PriorityIsTotal => Abstract!PriorityIsTotal
  BY DEF Promise!PriorityIsTotal, Abstract!PriorityIsTotal,
         Promise!SamePlace, Abstract!SamePlace
<1>6. Promise!PriorityIsTransitive => Abstract!PriorityIsTransitive
  BY DEF Promise!PriorityIsTransitive, Abstract!PriorityIsTransitive
<1> QED BY <1>1, <1>2, <1>3, <1>4, <1>5, <1>6

\* The FIFOs of the reference book are price-time priority: the positions they
\* give are a strict total order at each price, and no message, duplicates and
\* replaces included, puts anybody ahead of an order that stays.
THEOREM PositionsAreKept ==
  Spec => /\ [](Abstract!PriorityIsTotal /\ Abstract!PriorityIsTransitive)
          /\ Abstract!NobodyIsOvertaken
<1>1. Promise!Spec => Promise!NobodyIsOvertaken
  BY Promise!NoOvertaking
<1>2. Promise!Spec =>
        [](Promise!BookTypeOK /\ Promise!PriorityIsTotal /\ Promise!PriorityIsTransitive)
  BY ReferenceBookAssumption, Promise!Priority
<1> QED
  BY <1>1, <1>2, PromiseIsAbstract, ReferenceBookIsAnOrderBook, PTL
     DEF ImplementsOrderBook, Abstract!Spec, Abstract!NobodyIsOvertaken,
         Promise!Spec, Promise!NobodyIsOvertaken

----------------------------------------------------------------------------
(* The shares of a level.  They are compared with the sum over the orders   *)
(* at its place for absent levels too, which have none of either.           *)

SharesOf(b) == [r \in DOMAIN b.orders |-> b.orders[r].shares]
At(b, k) == {r \in DOMAIN b.orders : Key(b.orders[r]) = k}
LevelShares(b, k) == IF k \in DOMAIN b.levels THEN b.levels[k].shares ELSE 0
SumsUp(b) == \A k \in LevelKey : LevelShares(b, k) = Promise!Total(SharesOf(b), At(b, k))

LEMMA FiniteIsFinite == \A S : IsFiniteSet(S) <=> Promise!IsFiniteSet(S)
  BY DEF IsFiniteSet, Promise!IsFiniteSet

\* The library's sum over the orders of a place is the one reasoned about.
LEMMA SumIsTotal ==
  ASSUME NEW S \in SUBSET DOMAIN orders, IsFiniteSet(S)
  PROVE  MapThenSumSet(LAMBDA r : orders[r].shares, S) = Promise!Total(SharesOf(Now), S)
<1> DEFINE f == SharesOf(Now)
           Adds(g) == g = [s \in SUBSET S |->
                             IF s = {} THEN 0
                             ELSE orders[CHOOSE x \in s : TRUE].shares
                                  + g[s \ {CHOOSE x \in s : TRUE}]]
           g == CHOOSE g : Adds(g)
<1>1. MapThenSumSet(LAMBDA r : orders[r].shares, S) = g[S]
  BY DEF MapThenSumSet, MapThenFoldSet
<1>2. \A s \in SUBSET S : s # {} => f[CHOOSE x \in s : TRUE] = orders[CHOOSE x \in s : TRUE].shares
  BY DEF SharesOf, Now
<1>3. \A h : Adds(h) <=> Promise!Sums(f, S, h)
  <2> HIDE DEF f
  <2> QED BY <1>2 DEF Promise!Sums, Promise!OneOf
<1> HIDE DEF f, Adds
<1>4. \E h : Promise!Sums(f, S, h)
  BY FiniteIsFinite, Promise!SumsExist
<1>5. Promise!Sums(f, S, g)
  BY <1>3, <1>4
<1> HIDE DEF g
<1> QED BY <1>1, <1>5, FiniteIsFinite, Promise!TotalIsTheSum DEF f

LEMMA SharesAreNumbers ==
  ASSUME NEW b, Sound(b), IsFiniteSet(DOMAIN b.orders), NEW k
  PROVE  /\ IsFiniteSet(At(b, k)) /\ \A r \in At(b, k) : SharesOf(b)[r] \in Nat
         /\ \A r \in DOMAIN b.orders : SharesOf(b)[r] = b.orders[r].shares
                                       /\ b.orders[r].shares \in Nat
<1>1. IsFiniteSet(At(b, k))
  BY FS_Subset DEF At
<1>2. \A r \in DOMAIN b.orders : b.orders[r].shares \in Nat
  BY DEF Sound, AnyOrder
<1> QED BY <1>1, <1>2 DEF At, SharesOf

\* Places that a message does not touch.
LEMMA SumElsewhere ==
  ASSUME NEW b, NEW c, Sound(b), IsFiniteSet(DOMAIN b.orders), SumsUp(b), NEW k \in LevelKey,
         LevelShares(c, k) = LevelShares(b, k), At(c, k) = At(b, k),
         \A r \in At(b, k) : c.orders[r].shares = b.orders[r].shares
  PROVE  LevelShares(c, k) = Promise!Total(SharesOf(c), At(c, k))
<1>1. \A r \in At(b, k) : SharesOf(c)[r] = SharesOf(b)[r]
  BY DEF At, SharesOf
<1>2. IsFiniteSet(At(b, k))
  BY SharesAreNumbers
<1>3. Promise!Total(SharesOf(c), At(b, k)) = Promise!Total(SharesOf(b), At(b, k))
  BY <1>1, <1>2, FiniteIsFinite, Promise!TotalOfSame
<1> QED BY <1>3 DEF SumsUp

LEMMA EraseSums ==
  ASSUME NEW b, Sound(b), IsFiniteSet(DOMAIN b.orders), SumsUp(b), NEW ref \in DOMAIN b.orders
  PROVE  SumsUp(Erase(b, ref))
<1> DEFINE c == Erase(b, ref)
           o == b.orders[ref]
           k == Key(o)
           n == Len(b.levels[k].fifo)
<1>1. c.orders = [r \in DOMAIN b.orders \ {ref} |-> b.orders[r]]
  BY EraseSound
<1>2. /\ k \in DOMAIN b.levels /\ k \in LevelKey /\ b.levels[k].shares \in Int
      /\ Queued(b, ref) /\ b.levels \in [DOMAIN b.levels -> Level]
  BY DEF Sound, Queued, Level
<1>3. c.levels = LevelErased(b.levels, k, o, ref)
  BY <1>2 DEF Erase
<1>4. /\ \A m \in LevelKey \ {k} : LevelShares(c, m) = LevelShares(b, m)
      /\ LevelShares(c, k) = IF n = 1 THEN 0 ELSE LevelShares(b, k) - o.shares
  <2>1. CASE n = 1
    <3>1. c.levels = [m \in DOMAIN b.levels \ {k} |-> b.levels[m]]
      BY <1>3, <2>1 DEF LevelErased, Drop
    <3> HIDE DEF c, k, n
    <3> QED BY <2>1, <3>1 DEF LevelShares
  <2>2. CASE n # 1
    <3> DEFINE new == [shares |-> b.levels[k].shares - o.shares, orders |-> b.levels[k].orders - 1,
                       fifo |-> EraseAt(b.levels[k].fifo, Slot(b.levels[k].fifo, ref))]
    <3>1. c.levels = [b.levels EXCEPT ![k] = new] /\ new.shares = b.levels[k].shares - o.shares
      BY <1>3, <2>2 DEF LevelErased
    <3> HIDE DEF c, k, n, new
    <3>2. /\ DOMAIN c.levels = DOMAIN b.levels /\ c.levels[k] = new
          /\ \A m \in DOMAIN b.levels \ {k} : c.levels[m] = b.levels[m]
      BY <1>2, <3>1
    <3> QED BY <1>2, <2>2, <3>1, <3>2 DEF LevelShares
  <2> QED BY <2>1, <2>2
<1>5. /\ \A m \in LevelKey \ {k} : At(c, m) = At(b, m)
      /\ At(c, k) = At(b, k) \ {ref} /\ ref \in At(b, k)
      /\ \A r \in DOMAIN c.orders : c.orders[r] = b.orders[r] /\ r \in DOMAIN b.orders
  <2> HIDE DEF c
  <2> QED BY <1>1 DEF At
<1>6. n = 1 => At(c, k) = {}
  <2> SUFFICES ASSUME n = 1, NEW r \in At(b, k) PROVE r = ref
    BY <1>5
  <2>1. /\ \E i \in 1..n : b.levels[k].fifo[i] = r
        /\ \E i \in 1..n : b.levels[k].fifo[i] = ref
    BY <1>2 DEF Sound, Queued, At
  <2> HIDE DEF n, k
  <2> QED BY <2>1
<1>7. LevelShares(c, k) = Promise!Total(SharesOf(c), At(c, k))
  <2> DEFINE f == SharesOf(b)
             h == SharesOf(c)
             S == At(c, k)
             T == At(b, k)
  <2>1. Promise!OneMore(S, T, ref)
    BY <1>5, SharesAreNumbers, FiniteIsFinite DEF Promise!OneMore
  <2>2. Promise!IntegersOn(f, T) /\ f[ref] = o.shares
    BY SharesAreNumbers DEF Promise!IntegersOn
  <2>3. Promise!AgreeOn(f, h, S)
    BY <1>5 DEF Promise!AgreeOn, At, SharesOf
  <2>4. LevelShares(b, k) = Promise!Total(f, T)
    BY <1>2 DEF SumsUp
  <2> HIDE DEF f, h, S, T, o, c, k, n
  <2>5. CASE n = 1
    <3>1. At(c, k) = {} /\ IsFiniteSet({})
      BY <1>6, <2>5, FS_EmptySet
    <3>2. Promise!Total(h, S) = 0
      BY <3>1, FiniteIsFinite, Promise!TotalUnfolds DEF S
    <3> QED BY <1>4, <2>5, <3>2 DEF S, h
  <2>6. CASE n # 1
    <3>1. /\ Promise!Total(f, T) = f[ref] + Promise!Total(h, S)
          /\ Promise!Total(h, S) \in Int /\ f[ref] \in Int
      BY ONLY <2>1, <2>2, <2>3, Promise!TotalOfOneMore
    <3>2. Promise!Total(h, S) = LevelShares(b, k) - o.shares
      BY ONLY <2>2, <2>4, <3>1
    <3> QED BY <1>4, <2>6, <3>2 DEF S, h
  <2> QED BY <2>5, <2>6
<1>8. ASSUME NEW m \in LevelKey, m # k
      PROVE  LevelShares(c, m) = Promise!Total(SharesOf(c), At(c, m))
  <2>1. \A r \in At(b, m) : c.orders[r].shares = b.orders[r].shares
    BY <1>5, <1>8 DEF At
  <2> HIDE DEF c, k
  <2> QED BY <1>4, <1>5, <1>8, <2>1, SumElsewhere
<1> HIDE DEF c, k
<1>9. SumsUp(c)
  BY <1>7, <1>8 DEF SumsUp
<1> QED BY <1>9 DEF c

LEMMA PushSums ==
  ASSUME NEW b, Sound(b), IsFiniteSet(DOMAIN b.orders), SumsUp(b),
         NEW ref \in Refs \ DOMAIN b.orders, NEW o \in AnyOrder, NEW lvl,
         lvl = IF Key(o) \in DOMAIN b.levels THEN b.levels[Key(o)] ELSE EmptyLevel,
         NEW c,
         c = [orders |-> Put(b.orders, ref, o),
              levels |-> Put(b.levels, Key(o),
                             [shares |-> lvl.shares + o.shares, orders |-> lvl.orders + 1,
                              fifo |-> Append(lvl.fifo, ref)])]
  PROVE  SumsUp(c)
<1> DEFINE k == Key(o)
           new == [shares |-> lvl.shares + o.shares, orders |-> lvl.orders + 1,
                   fifo |-> Append(lvl.fifo, ref)]
<1>1. k \in LevelKey /\ o.shares \in Nat
  BY DEF Key, LevelKey, AnyOrder
<1>2. lvl.shares = LevelShares(b, k)
  BY DEF LevelShares, EmptyLevel
<1>3. /\ DOMAIN c.orders = DOMAIN b.orders \cup {ref} /\ c.orders[ref] = o
      /\ \A r \in DOMAIN b.orders : c.orders[r] = b.orders[r]
  BY DEF Put
<1>4. /\ \A m \in LevelKey \ {k} : LevelShares(c, m) = LevelShares(b, m)
      /\ LevelShares(c, k) = LevelShares(b, k) + o.shares
  <2>1. c.levels = Put(b.levels, k, new) /\ new.shares = lvl.shares + o.shares
    OBVIOUS
  <2> HIDE DEF k, new
  <2>2. /\ DOMAIN c.levels = DOMAIN b.levels \cup {k} /\ c.levels[k] = new
        /\ \A m \in DOMAIN b.levels \ {k} : c.levels[m] = b.levels[m]
    BY <2>1 DEF Put
  <2> QED BY ONLY <1>2, <2>1, <2>2 DEF LevelShares
<1>5. /\ \A m \in LevelKey \ {k} : At(c, m) = At(b, m)
      /\ At(c, k) = At(b, k) \cup {ref} /\ ref \notin At(b, k)
  BY <1>3 DEF At
<1>6. LevelShares(c, k) = Promise!Total(SharesOf(c), At(c, k))
  <2> DEFINE f == SharesOf(c)
             h == SharesOf(b)
             S == At(b, k)
             T == At(c, k)
  <2>1. IsFiniteSet(S) /\ \A r \in S : h[r] \in Nat
    BY SharesAreNumbers
  <2>2. f[ref] = o.shares /\ \A r \in S : f[r] = h[r]
    BY <1>3 DEF SharesOf, At
  <2>3. LevelShares(b, k) = Promise!Total(h, S)
    BY <1>1 DEF SumsUp
  <2>4. T = S \cup {ref} /\ ref \notin S
    BY <1>5
  <2> HIDE DEF f, h, S, T, k, new
  <2>5. Promise!OneMore(S, T, ref)
    <3>1. IsFiniteSet(T)
      BY ONLY <2>1, <2>4, FS_AddElement
    <3> QED BY ONLY <2>4, <3>1, FiniteIsFinite DEF Promise!OneMore
  <2>6. Promise!AgreeOn(f, h, S) /\ Promise!IntegersOn(f, T)
    BY ONLY <1>1, <2>1, <2>2, <2>4 DEF Promise!AgreeOn, Promise!IntegersOn
  <2>7. /\ Promise!Total(f, T) = f[ref] + Promise!Total(h, S)
        /\ Promise!Total(h, S) \in Int /\ f[ref] \in Int
    BY ONLY <2>5, <2>6, Promise!TotalOfOneMore
  <2>8. Promise!Total(f, T) = Promise!Total(h, S) + o.shares
    BY ONLY <1>1, <2>2, <2>7
  <2> QED BY <1>4, <2>3, <2>8 DEF f, T
<1>7. ASSUME NEW m \in LevelKey, m # k
      PROVE  LevelShares(c, m) = Promise!Total(SharesOf(c), At(c, m))
  <2>1. \A r \in At(b, m) : c.orders[r].shares = b.orders[r].shares
    BY <1>3 DEF At
  <2>2. Sound(b) /\ IsFiniteSet(DOMAIN b.orders) /\ SumsUp(b)
    OBVIOUS
  <2> HIDE DEF k, new
  <2>3. LevelShares(c, m) = LevelShares(b, m) /\ At(c, m) = At(b, m)
    BY ONLY <1>4, <1>5, <1>7, m \in LevelKey
  <2> QED BY ONLY <2>1, <2>2, <2>3, m \in LevelKey, SumElsewhere
<1> QED BY <1>6, <1>7 DEF SumsUp

LEMMA AddedSums ==
  ASSUME NEW b, Sound(b), IsFiniteSet(DOMAIN b.orders), SumsUp(b),
         NEW ref \in Refs, NEW o \in AnyOrder
  PROVE  SumsUp(Added(b, ref, o))
<1> DEFINE c == Removed(b, ref)
           lvl == IF Key(o) \in DOMAIN c.levels THEN c.levels[Key(o)] ELSE EmptyLevel
<1>1. Sound(c) /\ ref \notin DOMAIN c.orders /\ IsFiniteSet(DOMAIN c.orders) /\ SumsUp(c)
  <2>1. CASE ref \in DOMAIN b.orders
    <3>1. c = Erase(b, ref)
      BY <2>1 DEF Removed
    <3> HIDE DEF c
    <3>2. Sound(c) /\ c.orders = [r \in DOMAIN b.orders \ {ref} |-> b.orders[r]] /\ SumsUp(c)
      BY <2>1, <3>1, EraseSound, EraseSums
    <3>3. IsFiniteSet(DOMAIN b.orders \ {ref})
      BY FS_Subset
    <3> QED BY ONLY <3>2, <3>3
  <2>2. CASE ref \notin DOMAIN b.orders
    BY <2>2 DEF Removed
  <2> QED BY <2>1, <2>2
<1>2. Added(b, ref, o) =
        [orders |-> Put(c.orders, ref, o),
         levels |-> Put(c.levels, Key(o),
                        [shares |-> lvl.shares + o.shares, orders |-> lvl.orders + 1,
                         fifo |-> Append(lvl.fifo, ref)])]
  BY DEF Added
<1>3. lvl = IF Key(o) \in DOMAIN c.levels THEN c.levels[Key(o)] ELSE EmptyLevel
  OBVIOUS
<1> HIDE DEF c, lvl
<1> QED BY <1>1, <1>2, <1>3, PushSums

LEMMA DeductedSums ==
  ASSUME NEW b, Sound(b), IsFiniteSet(DOMAIN b.orders), SumsUp(b),
         NEW ref \in DOMAIN b.orders, NEW qty \in Nat, qty <= b.orders[ref].shares
  PROVE  SumsUp(Deducted(b, ref, qty))
<1> DEFINE d == Deducted(b, ref, qty)
           o == b.orders[ref]
           p == [o EXCEPT !.shares = @ - qty]
           k == Key(o)
           new == [b.levels[k] EXCEPT !.shares = @ - qty]
<1>1. /\ o \in AnyOrder /\ k \in DOMAIN b.levels /\ k \in LevelKey
      /\ b.levels[k] \in Level /\ b.levels[k].shares \in Int
      /\ b.orders \in [DOMAIN b.orders -> AnyOrder] /\ b.levels \in [DOMAIN b.levels -> Level]
  BY DEF Sound, Queued, Level
<1>2. Key(p) = k /\ p.shares = o.shares - qty /\ new.shares = b.levels[k].shares - qty
      /\ o.shares \in Nat
  BY <1>1 DEF AnyOrder, Key, Level
<1>3. d.orders = [b.orders EXCEPT ![ref] = p] /\ d.levels = [b.levels EXCEPT ![k] = new]
  BY DEF Deducted
<1> HIDE DEF d, p, new
<1>4. /\ DOMAIN d.orders = DOMAIN b.orders /\ d.orders[ref] = p
      /\ \A r \in DOMAIN b.orders \ {ref} : d.orders[r] = b.orders[r]
      /\ \A r \in DOMAIN b.orders : Key(d.orders[r]) = Key(b.orders[r])
  BY <1>1, <1>2, <1>3
<1>5. /\ \A m \in LevelKey : At(d, m) = At(b, m)
      /\ ref \in At(b, k)
  BY <1>4 DEF At
<1>6. /\ \A m \in LevelKey \ {k} : LevelShares(d, m) = LevelShares(b, m)
      /\ LevelShares(d, k) = LevelShares(b, k) - qty
  <2> HIDE DEF k
  <2>1. /\ DOMAIN d.levels = DOMAIN b.levels /\ d.levels[k] = new
        /\ \A m \in DOMAIN b.levels \ {k} : d.levels[m] = b.levels[m]
    BY <1>1, <1>3
  <2> QED BY <1>1, <1>2, <2>1 DEF LevelShares
<1>7. LevelShares(d, k) = Promise!Total(SharesOf(d), At(d, k))
  <2> DEFINE f == SharesOf(b)
             h == SharesOf(d)
             S == At(b, k)
             R == S \ {ref}
  <2>1. IsFiniteSet(S) /\ \A r \in S : f[r] \in Int
    BY SharesAreNumbers
  <2>2. f[ref] = o.shares /\ h[ref] = o.shares - qty
    BY <1>2, <1>4 DEF SharesOf
  <2>3. \A r \in R : h[r] = f[r]
    BY <1>4 DEF SharesOf, At
  <2>4. LevelShares(b, k) = Promise!Total(f, S)
    BY <1>1 DEF SumsUp
  <2>5. Promise!OneMore(R, S, ref)
    BY <1>5, <2>1, FiniteIsFinite DEF Promise!OneMore
  <2>6. LevelShares(d, k) = LevelShares(b, k) - qty
    BY <1>6
  <2>7. Promise!IntegersOn(h, S)
    BY <1>2, <2>1, <2>2, <2>3 DEF Promise!IntegersOn
  <2> HIDE DEF f, h, S, R, o, k
  <2>8. /\ Promise!AgreeOn(f, f, R) /\ Promise!AgreeOn(h, f, R) /\ Promise!IntegersOn(f, S)
    BY ONLY <2>1, <2>3 DEF Promise!AgreeOn, Promise!IntegersOn
  <2>9. /\ Promise!Total(f, S) = f[ref] + Promise!Total(f, R)
        /\ Promise!Total(f, R) \in Int /\ f[ref] \in Int
    BY ONLY <2>5, <2>8, Promise!TotalOfOneMore
  <2>10. Promise!Total(h, S) = h[ref] + Promise!Total(f, R)
    BY ONLY <2>5, <2>7, <2>8, Promise!TotalOfOneMore
  <2>11. Promise!Total(h, S) = LevelShares(d, k)
    BY ONLY <1>2, <2>2, <2>4, <2>6, <2>9, <2>10, qty \in Nat
  <2>12. At(d, k) = S
    BY <1>1, <1>5 DEF S
  <2> QED BY <2>11, <2>12 DEF h
<1>8. ASSUME NEW m \in LevelKey, m # k
      PROVE  LevelShares(d, m) = Promise!Total(SharesOf(d), At(d, m))
  <2>1. \A r \in At(b, m) : r # ref /\ d.orders[r].shares = b.orders[r].shares
    BY <1>4, <1>8 DEF At
  <2> HIDE DEF k, o
  <2> QED BY <1>5, <1>6, <1>8, <2>1, SumElsewhere
<1> QED BY <1>7, <1>8 DEF SumsUp, d

LEMMA ExecutedSums ==
  ASSUME NEW b, Sound(b), IsFiniteSet(DOMAIN b.orders), SumsUp(b),
         NEW ref \in DOMAIN b.orders, NEW qty \in Nat
  PROVE  SumsUp(Executed(b, ref, qty))
<1> DEFINE taken == Taken(b.orders[ref], qty)
           d == Deducted(b, ref, taken)
<1>1. taken \in Nat /\ taken <= b.orders[ref].shares
  <2>1. b.orders[ref].shares \in Nat
    BY DEF Sound, AnyOrder
  <2> QED BY <2>1 DEF Taken
<1>2. Executed(b, ref, qty) = IF d.orders[ref].shares = 0 THEN Erase(d, ref) ELSE d
  BY ExecutedSound DEF Executed
<1> HIDE DEF taken
<1>3. Sound(d) /\ DOMAIN d.orders = DOMAIN b.orders /\ SumsUp(d)
  BY <1>1, DeductedSound, DeductedSums
<1> HIDE DEF d
<1> QED BY <1>2, <1>3, EraseSums

LEMMA InstalledSums ==
  ASSUME NEW b, SumsUp(b), Install(b)
  PROVE  SumsUp(Now)'
<1>1. Now'.orders = b.orders /\ Now'.levels = b.levels
  BY DEF Install, Now
<1>2. SumsUp(Now')
  BY <1>1 DEF SumsUp, LevelShares, SharesOf, At
<1> QED BY <1>2 DEF SumsUp, LevelShares, SharesOf, At, Promise!Total, Promise!Sums, Promise!OneOf

LEMMA NextSums == IInv /\ SumsUp(Now) /\ [Next]_vars => SumsUp(Now)'
<1> SUFFICES ASSUME IInv, SumsUp(Now), [Next]_vars PROVE SumsUp(Now)'
  OBVIOUS
<1>1. /\ Sound(Now) /\ IsFiniteSet(DOMAIN Now.orders) /\ DOMAIN Now.orders = DOMAIN orders
      /\ \A r \in DOMAIN orders : orders[r] \in AnyOrder
  BY RefOrderIsAnyOrder DEF IInv, BookOK, Now
<1>2. CASE Install(Now)
  BY <1>2, InstalledSums
<1>3. CASE TradingStatus \/ \E old \in Refs : ReplaceUnknown(old)
  BY <1>2, <1>3 DEF TradingStatus, ReplaceUnknown, Orphaned, refVars, Install, Now
<1>4. ASSUME NEW l \in Locates, NEW ts \in Timestamps, BookMessage(l, ts) PROVE SumsUp(Now)'
  <2>1. ASSUME NEW ref \in Refs, NEW side \in Sides, NEW price \in Prices, NEW shares \in Shares,
               AddOrder(ref, [locate |-> l, side |-> side, price |-> price, shares |-> shares], ts)
        PROVE  SumsUp(Now)'
    <3> DEFINE o == [locate |-> l, side |-> side, price |-> price, shares |-> shares]
    <3>1. o \in AnyOrder /\ Install(Added(Now, ref, o))
      BY <2>1, ReferenceBookAssumption DEF AddOrder, AnyOrder, Shares
    <3> HIDE DEF o
    <3> QED BY <1>1, <3>1, AddedSums, InstalledSums
  <2>2. ASSUME NEW m \in Reducers, NEW ref \in Refs, NEW qty \in Shares,
               ReduceOrder(m, l, ref, qty, ts)
        PROVE  SumsUp(Now)'
    <3>1. CASE ref \in DOMAIN orders
      <4>1. Install(Executed(Now, ref, qty)) /\ qty \in Nat
        BY <2>2, <3>1, ReferenceBookAssumption DEF ReduceOrder, Shares
      <4> QED BY <1>1, <3>1, <4>1, ExecutedSums, InstalledSums
    <3>2. CASE ref \notin DOMAIN orders
      BY <1>2, <2>2, <3>2 DEF ReduceOrder, Orphaned
    <3> QED BY <3>1, <3>2
  <2>3. ASSUME NEW ref \in Refs, DeleteOrder(l, ref, ts) PROVE SumsUp(Now)'
    <3>1. CASE ref \in DOMAIN orders
      <4>1. Install(Erase(Now, ref))
        BY <2>3, <3>1 DEF DeleteOrder
      <4> QED BY <1>1, <3>1, <4>1, EraseSums, InstalledSums
    <3>2. CASE ref \notin DOMAIN orders
      BY <1>2, <2>3, <3>2 DEF DeleteOrder, Orphaned
    <3> QED BY <3>1, <3>2
  <2>4. ASSUME NEW old \in Refs, NEW new \in Refs, NEW price \in Prices, NEW shares \in Shares,
               ReplaceOrder(l, old, new, price, shares, ts)
        PROVE  SumsUp(Now)'
    <3> DEFINE b == Erase(Now, old)
               o == [orders[old] EXCEPT !.price = price, !.shares = shares]
    <3>1. old \in DOMAIN orders /\ Install(Added(b, new, o))
      BY <2>4 DEF ReplaceOrder
    <3>2. o \in AnyOrder
      <4>1. orders[old] \in AnyOrder /\ shares \in Nat
        BY <1>1, <3>1, ReferenceBookAssumption DEF Shares
      <4> QED BY ONLY <4>1, price \in Prices DEF AnyOrder
    <3> HIDE DEF o
    <3>3. /\ Sound(b) /\ SumsUp(b) /\ b.orders = [r \in DOMAIN orders \ {old} |-> Now.orders[r]]
      BY <1>1, <3>1, EraseSound, EraseSums
    <3>4. IsFiniteSet(DOMAIN b.orders)
      <4>1. DOMAIN b.orders = DOMAIN orders \ {old}
        BY <3>3
      <4> QED BY <1>1, <4>1, FS_Subset
    <3> HIDE DEF b
    <3> QED BY <3>1, <3>2, <3>3, <3>4, AddedSums, InstalledSums
  <2>5. ASSUME CrossTrade(l, ts) PROVE SumsUp(Now)'
    BY <1>2, <2>5 DEF CrossTrade, refVars, Install, Now
  <2> QED BY <1>4, <2>1, <2>2, <2>3, <2>4, <2>5 DEF BookMessage
<1>5. CASE UNCHANGED vars
  BY <1>2, <1>5 DEF vars, refVars, Install, Now
<1> QED BY <1>3, <1>4, <1>5 DEF Next

LEMMA InitSums == Init => SumsUp(Now)
<1> SUFFICES ASSUME Init PROVE SumsUp(Now)
  OBVIOUS
<1>1. DOMAIN Now.orders = {} /\ DOMAIN Now.levels = {}
  BY DEF Init, Now
<1>2. \A k \in LevelKey : LevelShares(Now, k) = 0 /\ At(Now, k) = {}
  BY <1>1 DEF LevelShares, At
<1>3. \A f : Promise!Total(f, {}) = 0
  <2>1. IsFiniteSet({})
    BY FS_EmptySet
  <2> QED BY <2>1, FiniteIsFinite, Promise!TotalUnfolds
<1> QED BY <1>2, <1>3 DEF SumsUp

\* After any sequence of messages a level's share count is the sum over the
\* orders queued there, none of which has nothing left: over-executions take no
\* more than rests, a replace and a duplicate move what they should
\* (reference_book.hpp, execute, erase, add_retained; AggregatesMatch).
THEOREM LevelsHoldTheirShares == Spec => []AggregatesMatch
<1>1. Spec => []SumsUp(Now)
  BY InitSums, NextSums, BookInvariant, PTL DEF Spec
<1>2. IInv /\ SumsUp(Now) => AggregatesMatch
  <2> SUFFICES ASSUME IInv, SumsUp(Now) PROVE AggregatesMatch
    OBVIOUS
  <2>1. /\ Sound(Now) /\ IsFiniteSet(DOMAIN orders) /\ Now.orders = orders /\ Now.levels = levels
        /\ \A r \in DOMAIN orders : orders[r] \in RefOrder
    BY DEF IInv, BookOK, Now
  <2>2. \A r \in DOMAIN orders : orders[r].shares > 0
    BY <2>1, ReferenceBookAssumption DEF RefOrder, Shares
  <2>3. ASSUME NEW k \in DOMAIN levels
        PROVE  levels[k].shares = MapThenSumSet(LAMBDA r : orders[r].shares,
                                                {r \in DOMAIN orders : Key(orders[r]) = k})
    <3> DEFINE S == {r \in DOMAIN orders : Key(orders[r]) = k}
    <3>1. S = At(Now, k) /\ k \in LevelKey /\ LevelShares(Now, k) = levels[k].shares
      BY <2>1 DEF At, LevelShares, Sound
    <3>2. S \in SUBSET DOMAIN orders /\ IsFiniteSet(S)
      BY <2>1, FS_Subset
    <3> HIDE DEF S
    <3>3. levels[k].shares = Promise!Total(SharesOf(Now), S)
      BY <3>1 DEF SumsUp
    <3>4. MapThenSumSet(LAMBDA r : orders[r].shares, S) = Promise!Total(SharesOf(Now), S)
      BY <3>2, SumIsTotal
    <3> QED BY <3>3, <3>4 DEF S
  <2> QED BY <2>2, <2>3 DEF AggregatesMatch
<1> QED BY <1>1, <1>2, BookInvariant, PTL
=============================================================================
