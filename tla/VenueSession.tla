---------------------------- MODULE VenueSession ----------------------------
(***************************************************************************)
(* The crossing gate fed by a venue that behaves: the gate's verdict       *)
(* against what was really going on.                                       *)
(*                                                                         *)
(* The venue (external; modelled from what design.md record 036 and        *)
(* check_bbo rely on) takes each symbol through phases, and may stop any   *)
(* listed symbol operationally on top of that, before, during and after a  *)
(* halt or an auction.  It never lets the book lock or cross while it is   *)
(* matching; it may while the symbol is unlisted, halted, stopped, or      *)
(* resumed with its reopening auction still to run; and it releases a      *)
(* symbol it would then be matching only with the book uncrossed, because  *)
(* the gate opens no window for that release.  It may say T again of a     *)
(* symbol that is trading.  An orderly venue has its auctions over within  *)
(* ReopenCap and halts no symbol before its auction is over; others may do *)
(* either.  The reconstruction may be at fault at any message, and leave a *)
(* crossed book behind while the venue matches.                            *)
(***************************************************************************)
EXTENDS CrossingGate

CONSTANTS
  Venues,  \* the venues there are: [halts_in_auction, overruns_cap]
  MaxTime  \* bound of the model: the end of the day

ASSUME VenueAssumption ==
  /\ "T" \in StateCodes
  /\ Venues \subseteq [halts_in_auction : BOOLEAN, overruns_cap : BOOLEAN]
  /\ MaxTime \in Nat

VARIABLES
  phase,   \* what the venue is doing with each symbol
  stopped, \* the symbols under an operational halt
  book,    \* the relation of each symbol's reconstructed best prices
  now,     \* the feed's clock
  venue,   \* what this venue may do
  past     \* history, below

venueVars == <<phase, stopped, book, now, venue, past>>
sessionVars == <<gateVars, venueVars>>

Phases == {"unlisted", "halted", "auction", "matching"}

\* The symbols whose book was wrong while the venue matched them, when each
\* symbol last began to trade, and the symbols excused by a reopening that
\* should have been over.
History == [faulted : SUBSET Locates, resumed : [Locates -> Nat], overdue : SUBSET Locates]

VenueInit ==
  /\ GateInit
  /\ phase = [l \in Locates |-> "unlisted"]
  /\ stopped = {}
  /\ book = [l \in Locates |-> "open"]
  /\ venue \in Venues
  /\ now = 0
  /\ past = [faulted |-> {}, resumed |-> [l \in Locates |-> 0], overdue |-> {}]

Crossed(l)  == book[l] \in Kinds

Matched(l)  == phase[l] = "matching" /\ l \notin stopped

Enter(l, p) == phase' = [phase EXCEPT ![l] = p]
BeginsToTrade(l) == past' = [past EXCEPT !.resumed[l] = now]

\* The feed lists a symbol as trading (only with a sound book) or halted.
ListTrading(l) ==
  /\ phase[l] = "unlisted" /\ ~Crossed(l)
  /\ Enter(l, "matching") /\ BeginsToTrade(l)
  /\ StockTradingAction(l, "T", now)
  /\ UNCHANGED <<stopped, book, now, venue>>

ListHalted(l, code) ==
  /\ phase[l] = "unlisted" /\ code # "T"
  /\ Enter(l, "halted")
  /\ StockTradingAction(l, code, now)
  /\ UNCHANGED <<stopped, book, now, venue, past>>

Halt(l, code) ==
  /\ code # "T"
  /\ phase[l] \in {"matching", "halted"} \cup (IF venue.halts_in_auction THEN {"auction"} ELSE {})
  /\ Enter(l, "halted")
  /\ StockTradingAction(l, code, now)
  /\ UNCHANGED <<stopped, book, now, venue, past>>

\* Trading is restored; the accumulated book is matched by the auction.
Resume(l) ==
  /\ phase[l] = "halted"
  /\ Enter(l, "auction") /\ BeginsToTrade(l)
  /\ StockTradingAction(l, "T", now)
  /\ UNCHANGED <<stopped, book, now, venue>>

\* A symbol that is trading is announced as trading once more.
Restate(l) ==
  /\ phase[l] \in {"auction", "matching"}
  /\ StockTradingAction(l, "T", now)
  /\ UNCHANGED venueVars

OpHalt(l) ==
  /\ phase[l] # "unlisted" /\ l \notin stopped
  /\ stopped' = stopped \cup {l}
  /\ OperationalHalt(l, TRUE, "H")
  /\ UNCHANGED <<phase, book, now, venue, past>>

OpRelease(l) ==
  /\ l \in stopped
  /\ phase[l] = "matching" => ~Crossed(l)
  /\ stopped' = stopped \ {l}
  /\ OperationalHalt(l, TRUE, "T")
  /\ UNCHANGED <<phase, book, now, venue, past>>

\* The message adds to the observations put down to a reopening.
ExcusedByReopening ==
  \E k \in Kinds : gate'.bucket[k]["awaiting_reopen"] > gate.bucket[k]["awaiting_reopen"]

\* A message about one of the symbol's orders.  A clean observation in an
\* auction is the sign that the book has been matched.
OrderMessage(l, rel) ==
  /\ book' = [book EXCEPT ![l] = rel]
  /\ IF phase[l] = "auction" /\ rel = "clean" THEN Enter(l, "matching") ELSE UNCHANGED phase
  /\ CheckBbo(l, now, rel)
  /\ past' = [past EXCEPT
       !.faulted = IF rel \in Kinds /\ Matched(l) THEN @ \cup {l} ELSE @,
       !.overdue = IF ExcusedByReopening /\ now > past.resumed[l] + ReopenCap THEN @ \cup {l} ELSE @]
  /\ UNCHANGED <<stopped, now, venue>>

\* The reopening cross, reported once its executions have cleared the book.
ReopeningCross(l) ==
  /\ phase[l] = "auction" /\ l \notin stopped /\ ~Crossed(l)
  /\ Enter(l, "matching")
  /\ CrossTradeGate(l, now)
  /\ UNCHANGED <<stopped, book, now, venue, past>>

\* Time passes; an auction that is under way ends in time, if the venue does
\* not overrun.
Tick ==
  /\ now < MaxTime
  /\ \/ venue.overruns_cap
     \/ \A l \in Locates : phase[l] = "auction" => now < past.resumed[l] + ReopenCap
  /\ now' = now + 1
  /\ UNCHANGED <<phase, stopped, book, venue, past, gateVars>>

VenueNext ==
  \/ \E l \in Locates :
       \/ \E code \in StateCodes : ListHalted(l, code) \/ Halt(l, code)
       \/ ListTrading(l) \/ Resume(l) \/ Restate(l)
       \/ OpHalt(l) \/ OpRelease(l) \/ ReopeningCross(l)
       \/ \E rel \in Relations : OrderMessage(l, rel)
  \/ Tick

VenueSpec == VenueInit /\ [][VenueNext]_sessionVars

----------------------------------------------------------------------------
Orderly == ~venue.halts_in_auction /\ ~venue.overruns_cap

\* An excuse cannot outlive its cause: no observation is put down to a reopening
\* more than ReopenCap after the symbol began to trade, by the venue's account and
\* not by the clock check_bbo keeps, however long the symbol was quiet, whatever
\* was announced in between and however often T is said.
ExcuseIsBounded == past.overdue = {}

\* While the venue behaves, nobody is blamed whose book was right, and no window
\* is closed by the cap, though halts, stops and auctions overlap.
NoFalseAlarm == Orderly => gate.unexplained_symbols \subseteq past.faulted /\ gate.capped = 0

\* A book found crossed or locked while the venue is matching the symbol is
\* blamed at that very message: no stale window or stale halt excuses it.
CaughtAtOnce == past.faulted \subseteq gate.unexplained_symbols

\* design.md record 036 on observations of a halted symbol: they "are counted
\* and reported [...] and fail nothing".
HaltedSessionsPass ==
  /\ ~venue.overruns_cap /\ past.faulted = {}
  /\ \A l \in Locates : phase[l] = "halted"
  => NoCrossing
=============================================================================
