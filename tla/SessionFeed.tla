---------------------------- MODULE SessionFeed -----------------------------
(***************************************************************************)
(* The session file as its consumers meet it: a well-formed feed of order  *)
(* messages over the abstract book.  The queue simulator, the strategy and *)
(* the exporters each hold a book of their own and apply every message to  *)
(* it; what those books do is ReferenceBook's and FastBook's subject, so   *)
(* here the book is OrderBook, which both implement.                       *)
(*                                                                         *)
(* The feed is the venue's: an 'A' brings a reference that is not live, a  *)
(* reduction never exceeds what rests.  Whether the venue also executes in *)
(* price-time priority is left open, because the simulator does not ask.   *)
(***************************************************************************)
EXTENDS OrderBook, Integers, FiniteSetsExt

CONSTANTS
  OpeningBooks,  \* the books a consumer may find when its session starts
  LotSizes,      \* the share counts newcomers bring
  TradingStates, \* the states a trading action may announce
  Delays,        \* the time from one message to the next
  Missed,        \* references of orders whose add the file does not hold
  MaxMessages    \* bound of the model: messages of the session

\* A book a session may leave behind: finitely many orders, whoever is ahead of
\* one rests at its price, and of two at a price one is ahead of the other.
WellFormed(b) ==
  /\ b = [resting |-> b.resting, ahead |-> b.ahead]
  /\ DOMAIN b.resting \subseteq Refs /\ IsFiniteSet(DOMAIN b.resting)
  /\ DOMAIN b.ahead = DOMAIN b.resting
  /\ \A r \in DOMAIN b.resting :
       /\ b.resting[r] \in Order
       /\ b.ahead[r] \subseteq {x \in DOMAIN b.resting : SamePlace(b.resting[x], b.resting[r])}
       /\ \A x \in DOMAIN b.resting \ {r} :
            SamePlace(b.resting[x], b.resting[r]) => x \in b.ahead[r] \/ r \in b.ahead[x]

ASSUME SessionFeedAssumption ==
  /\ LotSizes \subseteq 1..MaxShares /\ Delays \subseteq Nat
  /\ {MaxShares, MaxMessages} \subseteq Nat /\ Prices \subseteq Nat
  /\ Sides \subseteq {"B", "S"} /\ IsFiniteSet(Locates)
  /\ Missed \cap Refs = {}
  /\ \A b \in OpeningBooks : WellFormed(b)

VARIABLES
  now,       \* the timestamp of the last message
  left,      \* the messages the session still holds
  priority,  \* the venue executes in price-time priority
  status     \* the trading state of each symbol

feedVars == <<bookVars, now, left, priority, status>>

Shares == 1..MaxShares

FeedInit ==
  /\ \E b \in OpeningBooks : resting = b.resting /\ ahead = b.ahead
  /\ now = 0 /\ left = MaxMessages /\ priority \in BOOLEAN
  /\ status = [l \in Locates |-> "T"]

----------------------------------------------------------------------------
(* What a consumer reads off a book; bk is the function from live          *)
(* references to orders.                                                   *)

Level(bk, l, side, price) ==
  {r \in DOMAIN bk : bk[r].locate = l /\ bk[r].side = side /\ bk[r].price = price}

Aggregate(shares) == MapThenSumSet(LAMBDA r : shares[r], DOMAIN shares)

\* depth_at().shares
Depth(bk, l, side, price) ==
  Aggregate([r \in Level(bk, l, side, price) |-> bk[r].shares])

QuotedPrices(bk, l, side) == {bk[r].price : r \in {x \in DOMAIN bk :
                                bk[x].locate = l /\ bk[x].side = side}}

\* has_bid() && has_ask()
TwoSided(bk, l) == \A side \in Sides : QuotedPrices(bk, l, side) # {}

\* best_bid(), best_ask()
Best(bk, l, side) ==
  CHOOSE p \in QuotedPrices(bk, l, side) :
    \A q \in QuotedPrices(bk, l, side) : IF side = "B" THEN q <= p ELSE p <= q

\* a is a worse price than b for an order on this side
WorseThan(side, a, b) == IF side = "B" THEN a < b ELSE a > b

----------------------------------------------------------------------------
(* The messages.  'E' stands for 'E' and 'C', 'A' for 'A' and 'F'; "B" for *)
(* every message without a book effect whose timestamp consumers still     *)
(* see: 'Q' and 'B', and one that names an order the book does not hold,   *)
(* which its body is, because not every consumer ignores it.               *)

\* The next order a venue in price-time priority can execute on its side.
AtTheFront(r) ==
  /\ ahead[r] = {}
  /\ resting[r].price = Best(resting, resting[r].locate, resting[r].side)

\* References are day-unique and compared for equality only, so that which
\* free one a newcomer brings makes no difference.
NewRefs ==
  LET free == Refs \ DOMAIN resting
  IN IF free = {} THEN {} ELSE {CHOOSE r \in free : TRUE}

\* What a message without a book effect may say.
Strays ==
  {[type |-> "Q"]}
  \cup {[type |-> t, ref |-> r, qty |-> q] : t \in {"E", "X"}, r \in Missed, q \in LotSizes}
  \cup {[type |-> "D", ref |-> r] : r \in Missed}
  \cup {m \in [type : {"U"}, ref : Missed, new : Missed, shares : LotSizes] : m.ref # m.new}

LegalMessages ==
  {[type |-> "A", ref |-> r, order |-> o] :
     r \in NewRefs, o \in {x \in Order : x.shares \in LotSizes}}
  \cup {[type |-> "E", ref |-> r, qty |-> q] : r \in DOMAIN resting, q \in Shares}
  \cup {[type |-> "X", ref |-> r, qty |-> q] : r \in DOMAIN resting, q \in Shares}
  \cup {[type |-> "D", ref |-> r] : r \in DOMAIN resting}
  \cup {[type |-> "U", ref |-> r, new |-> n, price |-> p, shares |-> s] :
          r \in DOMAIN resting, n \in NewRefs, p \in Prices, s \in LotSizes}
  \cup {[type |-> "P", locate |-> l, price |-> p] : l \in Locates, p \in Prices}
  \cup {[type |-> "B", locate |-> l, body |-> s] : l \in Locates, s \in Strays}
  \cup {[type |-> "H", locate |-> l, state |-> t] : l \in Locates, t \in TradingStates}

\* The symbol a message is about.
LocateOf(m) ==
  IF m.type \in {"P", "B", "H"} THEN m.locate
  ELSE IF m.type = "A" THEN m.order.locate
  ELSE resting[m.ref].locate

\* The book's half of every consumer's handler.
Applied(m) ==
  \/ m.type = "A" /\ Enter(m.ref, m.order)
  \/ /\ m.type \in {"E", "X"} /\ m.qty <= resting[m.ref].shares
     /\ m.type = "E" /\ priority => AtTheFront(m.ref)
     /\ Reduce(m.ref, m.qty)
  \/ m.type = "D" /\ Leave(m.ref)
  \/ m.type = "U" /\ Replace(m.ref, m.new, m.price, m.shares)
  \/ m.type \in {"P", "B", "H"} /\ UNCHANGED bookVars

\* The file delivers message m, stamped ts.
Delivered(m, ts) ==
  /\ left > 0 /\ left' = left - 1
  /\ now' = ts
  /\ UNCHANGED priority
  /\ status' = IF m.type = "H" THEN [status EXCEPT ![m.locate] = m.state] ELSE status
  /\ Applied(m)
=============================================================================
