----------------------------- MODULE OrderBook ------------------------------
(***************************************************************************)
(* What a market-by-order book promises, with no data structure in it.     *)
(*                                                                         *)
(* A book is the set of resting orders and, for each of them, the set of   *)
(* orders that trade before it at its own price.  Both books of this       *)
(* repository are held to it: ReferenceBook's maps and lists and           *)
(* FastBook's pool, windows and bitmaps are two representations of these   *)
(* two functions.                                                          *)
(***************************************************************************)
EXTENDS Naturals

CONSTANTS Refs, Locates, Sides, Prices, MaxShares

VARIABLES
  resting,  \* the live orders, by reference
  ahead     \* for each live order, the orders with priority over it

bookVars == <<resting, ahead>>

Order == [locate : Locates, side : Sides, price : Prices, shares : 1..MaxShares]

SamePlace(o, p) == o.locate = p.locate /\ o.side = p.side /\ o.price = p.price

BookTypeOK ==
  /\ DOMAIN resting \subseteq Refs
  /\ \A r \in DOMAIN resting : resting[r] \in Order
  /\ ahead \in [DOMAIN resting -> SUBSET DOMAIN resting]

Init == resting = <<>> /\ ahead = <<>>

(* A book is a record of the two functions, so that a replace can be       *)
(* written as what it is: a departure and an arrival.                      *)
Book == [resting |-> resting, ahead |-> ahead]
Becomes(b) == resting' = b.resting /\ ahead' = b.ahead

Without(b, ref) ==
  LET live == DOMAIN b.resting \ {ref}
  IN [resting |-> [r \in live |-> b.resting[r]],
      ahead   |-> [r \in live |-> b.ahead[r] \ {ref}]]

\* The newcomer is behind every order at its price; nobody else moves.
With(b, ref, o) ==
  [resting |-> [r \in DOMAIN b.resting \cup {ref} |->
                  IF r = ref THEN o ELSE b.resting[r]],
   ahead   |-> [r \in DOMAIN b.resting \cup {ref} |->
                  IF r = ref THEN {x \in DOMAIN b.resting : SamePlace(b.resting[x], o)}
                  ELSE b.ahead[r]]]

\* A live reference used again: the incoming order supersedes it.
Arrival(b, ref, o) == With(Without(b, ref), ref, o)

Enter(ref, o) == Becomes(Arrival(Book, ref, o))

\* An execution or partial cancel keeps the order's place until nothing of it
\* is left.
Reduce(ref, qty) ==
  /\ ref \in DOMAIN resting
  /\ IF qty < resting[ref].shares
     THEN resting' = [resting EXCEPT ![ref].shares = @ - qty] /\ UNCHANGED ahead
     ELSE Becomes(Without(Book, ref))

Leave(ref) == ref \in DOMAIN resting /\ Becomes(Without(Book, ref))

\* A replace gives up the old order's place, even at an unchanged price.
Replace(old, new, price, shares) ==
  /\ old \in DOMAIN resting
  /\ Becomes(Arrival(Without(Book, old), new,
                     [resting[old] EXCEPT !.price = price, !.shares = shares]))

Next ==
  \/ \E ref \in Refs, o \in Order : Enter(ref, o)
  \/ \E ref \in Refs, qty \in 1..MaxShares : Reduce(ref, qty)
  \/ \E ref \in Refs : Leave(ref)
  \/ \E old, new \in Refs, price \in Prices, shares \in 1..MaxShares :
       Replace(old, new, price, shares)

Spec == Init /\ [][Next]_bookVars

----------------------------------------------------------------------------
\* Time priority at each price is a strict total order: of two orders at one
\* price exactly one is ahead of the other, and an order is ahead only of
\* orders at its own price.
PriorityIsTotal ==
  \A r, x \in DOMAIN resting : r # x =>
    /\ SamePlace(resting[r], resting[x]) <=> (r \in ahead[x] \/ x \in ahead[r])
    /\ ~(r \in ahead[x] /\ x \in ahead[r])

PriorityIsTransitive ==
  \A r \in DOMAIN resting :
    r \notin ahead[r] /\ \A x \in ahead[r] : ahead[x] \subseteq ahead[r]

\* Nobody is overtaken: while an order rests, the set ahead of it only loses
\* members, unless the order itself has entered anew, behind everyone.
OvertakesNobody ==
  \A r \in DOMAIN resting \cap DOMAIN resting' :
    \/ ahead'[r] \subseteq ahead[r]
    \/ \A x \in DOMAIN resting' : r \notin ahead'[x]
NobodyIsOvertaken == [][OvertakesNobody]_bookVars
=============================================================================
