---------------------------- MODULE Differential ----------------------------
(***************************************************************************)
(* The differential harness (differential.hpp): two books driven by the    *)
(* same messages and compared after each of them.                          *)
(*                                                                         *)
(* The reference book is right, and is the book of the feed.  The fast     *)
(* book may mishandle one message of the session, in the ways the gate's   *)
(* own test and FastBook's data structures suggest: it loses the message,  *)
(* applies it to another order, or loses, shrinks or brings back an order  *)
(* elsewhere.                                                              *)
(***************************************************************************)
EXTENDS SessionFeed

CONSTANTS
  FullEvery,  \* full_compare_every; 0 compares only at the end
  Unseen      \* locates the full comparison's loop stops short of: 0xFFFF

ASSUME DifferentialAssumption == FullEvery \in Nat /\ Unseen \subseteq Locates

VARIABLES
  fast,      \* the fast book, [resting, ahead] as OrderBook has them
  messages,  \* DifferentialStats::messages
  div,       \* the Divergence
  fullOk,    \* what the last comparison of everything said; TRUE before any
  faultAt,   \* history: the message the fast book first mishandled, 0 for none
  changed    \* history: levels of the reference changed from that message on

diffOwnVars == <<fast, messages, div, fullOk, faultAt, changed>>

NoDivergence == [found |-> FALSE, message_index |-> 0, what |-> <<"none">>]

Keys == Locates \X Sides \X Prices

DiffInit ==
  /\ FeedInit
  /\ fast = [resting |-> resting, ahead |-> ahead]
  /\ messages = 0 /\ div = NoDivergence /\ fullOk = TRUE
  /\ faultAt = 0 /\ changed = {}

----------------------------------------------------------------------------
(* Comparing.                                                              *)

\* LevelSnapshot: the aggregate and the queue, but no order's own shares.
LevelView(b, k) ==
  LET level == Level(b.resting, k[1], k[2], k[3])
  IN IF level = {} THEN [present |-> FALSE]
     ELSE [present |-> TRUE,
           shares  |-> Depth(b.resting, k[1], k[2], k[3]),
           queue   |-> [r \in level |-> b.ahead[r]]]

Inside(b, l) ==
  [side \in {s \in Sides : QuotedPrices(b.resting, l, s) # {}} |-> Best(b.resting, l, side)]

\* A check is a level, the inside of a symbol or the number of live orders.
LevelCheck(k) == <<"level", k>>
BboCheck(l)   == <<"bbo", l>>
LiveCheck     == <<"live">>

Differs(b, f, check) ==
  CASE check[1] = "level" -> LevelView(b, check[2]) # LevelView(f, check[2])
    [] check[1] = "bbo"   -> Inside(b, check[2]) # Inside(f, check[2])
    [] check[1] = "live"  -> Cardinality(DOMAIN b.resting) # Cardinality(DOMAIN f.resting)

PresentLevels(b) ==
  {<<b.resting[r].locate, b.resting[r].side, b.resting[r].price>> : r \in DOMAIN b.resting}

\* A mutant: the live orders are not counted.
Everything_NoCount(b) ==
  {LevelCheck(k) : k \in {x \in PresentLevels(b) : x[1] \notin Unseen}}
    \cup {BboCheck(l) : l \in Locates \ Unseen}

\* compare_everything: the levels the reference has, the inside of every
\* symbol it has seen, and the number of live orders.  Every symbol was listed
\* before the session was picked up, and 'R' is enough to have been seen.
Everything(b) ==
  {LevelCheck(k) : k \in {x \in PresentLevels(b) : x[1] \notin Unseen}}
    \cup {BboCheck(l) : l \in Locates \ Unseen} \cup {LiveCheck}

\* A mutant: the comparison looks where the order is after the message.
TouchedLevels_NewOnly(b, m) ==
  LET place == IF m.type = "A" THEN m.order ELSE b[m.ref]
  IN {<<place.locate, place.side, IF m.type = "U" THEN m.price ELSE place.price>>}

\* The levels a message names: the message's own symbol, the side and the price
\* by the reference book before the message; a replace touches two.
TouchedLevels(b, m) ==
  LET place == IF m.type = "A" THEN m.order ELSE b[m.ref]
      key   == <<LocateOf(m), place.side, place.price>>
  IN {key} \cup (IF m.type = "U" THEN {<<LocateOf(m), place.side, m.price>>} ELSE {})

\* What a message without a book effect may compare.  'Q' and 'B' compare
\* nothing; one that names no live order the inside, and as a replace a level of
\* offers too, its price being known and its side not.
StrayChecks(l) ==
  {{}, {BboCheck(l)}} \cup {{BboCheck(l), LevelCheck(<<l, "S", p>>)} : p \in Prices}

\* What may be compared after a message of its own accord.
ChecksFor(m) ==
  IF m.type = "B" THEN StrayChecks(LocateOf(m))
  ELSE {{LevelCheck(k) : k \in IF m.type = "P" THEN {} ELSE TouchedLevels(resting, m)}
          \cup {BboCheck(LocateOf(m))}}

----------------------------------------------------------------------------
(* The fast book.                                                          *)

Shrunk(b, r, qty) ==
  IF qty < b.resting[r].shares THEN [b EXCEPT !.resting[r].shares = @ - qty] ELSE Without(b, r)

Live(b, m) == "ref" \in DOMAIN m /\ m.ref \in DOMAIN b.resting

\* A message applied as the book should apply it; one that names no order of
\* this book changes nothing.
After(b, m) ==
  IF m.type = "A" THEN Arrival(b, m.ref, m.order)
  ELSE IF ~Live(b, m) THEN b
  ELSE IF m.type = "U"
       THEN Arrival(Without(b, m.ref), m.new,
                    [b.resting[m.ref] EXCEPT !.price = m.price, !.shares = m.shares])
  ELSE IF m.type = "D" THEN Without(b, m.ref)
  ELSE Shrunk(b, m.ref, m.qty)

\* The ways to get a message wrong.
Mishandled(b, m) ==
  {b}
    \cup (IF Live(b, m) THEN {After(b, [m EXCEPT !.ref = r]) : r \in DOMAIN b.resting} ELSE {})
    \cup {Without(After(b, m), r) : r \in DOMAIN After(b, m).resting}
    \cup {Shrunk(After(b, m), r, 1) : r \in DOMAIN After(b, m).resting}
    \cup {Arrival(After(b, m), r, o) : r \in NewRefs, o \in {x \in Order : x.shares = 1}}

FastApplies(m) ==
  \/ fast' = After(fast, m) /\ UNCHANGED faultAt
  \/ /\ m.type \notin {"P", "B"} /\ faultAt = 0
     /\ fast' \in Mishandled(fast, m) \ {After(fast, m)}
     /\ faultAt' = messages'

----------------------------------------------------------------------------
(* The handlers.                                                           *)

\* record(): the first check to fail is kept; which of several that is is the
\* order the code compares in.
Recorded(failing) ==
  IF failing = {} THEN UNCHANGED div
  ELSE \E check \in failing :
         div' = [found |-> TRUE, message_index |-> messages', what |-> check]

Failing(checks) ==
  {c \in checks : Differs([resting |-> resting', ahead |-> ahead'], fast', c)}

\* periodic(), which runs behind order messages, trades and crosses only.
FullDue == FullEvery # 0 /\ messages' % FullEvery = 0

\* The message's own checks come first, the full comparison after them.
CompareAfter(checks) ==
  LET own  == Failing(checks)
      full == IF FullDue
              THEN Failing(Everything([resting |-> resting', ahead |-> ahead'])) ELSE {}
  IN Recorded(IF own # {} THEN own ELSE full)

\* The levels the message changed in the reference, once a fault has happened.
Noted ==
  changed' = IF faultAt' = 0 THEN {}
             ELSE changed \cup
                    {k \in Keys : LevelView([resting |-> resting, ahead |-> ahead], k)
                                    # LevelView([resting |-> resting', ahead |-> ahead'], k)}

\* on() of a message both books take.
Compared(m) ==
  /\ ~div.found /\ m.type # "H"
  /\ messages' = messages + 1
  /\ Delivered(m, now)
  /\ FastApplies(m)
  /\ Noted
  /\ \E checks \in ChecksFor(m) : CompareAfter(checks)
  /\ UNCHANGED fullOk

\* done(): after a divergence neither book takes the message.
Ignored(m) ==
  /\ div.found /\ m.type # "H"
  /\ left > 0 /\ left' = left - 1
  /\ UNCHANGED <<bookVars, now, priority, status, diffOwnVars>>

\* 'S', 'R', 'H' and 'h' change no book: counted, and compared to nothing,
\* before and after a divergence.
CountedOnly ==
  /\ left > 0 /\ left' = left - 1
  /\ messages' = messages + 1
  /\ UNCHANGED <<bookVars, now, priority, status, fast, div, fullOk, faultAt, changed>>

\* The tool's last comparison, and compare_everything's answer.
CompareEverything ==
  LET failing == {c \in Everything(Book) : Differs(Book, fast, c)}
  IN /\ fullOk' = (~div.found /\ failing = {})
     /\ IF div.found \/ failing = {} THEN UNCHANGED div
        ELSE \E check \in failing :
               div' = [found |-> TRUE, message_index |-> messages, what |-> check]
     /\ UNCHANGED <<feedVars, fast, messages, faultAt, changed>>

----------------------------------------------------------------------------
(* Properties.                                                             *)

\* While nothing is reported, the two books show the same aggregate and the
\* same queue at every level the reference has changed since the fast book
\* went wrong: what is still hidden is at a level no message has touched.
HiddenOnlyWhereNobodyWent ==
  ~div.found => \A k \in changed : LevelView(Book, k) = LevelView(fast, k)
=============================================================================
