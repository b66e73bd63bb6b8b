--------------------------- MODULE ExporterProofs ---------------------------
(***************************************************************************)
(* The readers of a session file that write what they see, the micro and   *)
(* the feature exporter, and the quotes the strategy bases on what the     *)
(* latter writes: for every feed, every set of symbols and every opening   *)
(* book.                                                                   *)
(***************************************************************************)
EXTENDS Session, OrderBookProofs, SequenceTheorems

----------------------------------------------------------------------------
(* The library's sums are the totals reasoned about in OrderBookProofs.    *)

LEMMA SumOfValues ==
  ASSUME NEW f, NEW S, IsFiniteSet(S)
  PROVE  MapThenSumSet(LAMBDA x : f[x], S) = Total(f, S)
<1> DEFINE Adds(g) == g = [s \in SUBSET S |->
                             IF s = {} THEN 0
                             ELSE f[CHOOSE x \in s : TRUE] + g[s \ {CHOOSE x \in s : TRUE}]]
           g == CHOOSE g : Adds(g)
<1>1. MapThenSumSet(LAMBDA x : f[x], S) = g[S]
  BY DEF MapThenSumSet, MapThenFoldSet
<1>2. \A h : Adds(h) <=> Sums(f, S, h)
  BY DEF Sums, OneOf
<1> HIDE DEF Adds
<1>3. Sums(f, S, g)
  BY <1>2, SumsExist
<1> HIDE DEF g
<1> QED BY <1>1, <1>3, TotalIsTheSum

SharesIn(bk) == [r \in DOMAIN bk |-> bk[r].shares]

LEMMA SumOfShares ==
  ASSUME NEW bk, NEW S, S \subseteq DOMAIN bk, IsFiniteSet(S)
  PROVE  MapThenSumSet(LAMBDA r : bk[r].shares, S) = Total(SharesIn(bk), S)
<1> DEFINE f == SharesIn(bk)
           Adds(g) == g = [s \in SUBSET S |->
                             IF s = {} THEN 0
                             ELSE bk[CHOOSE x \in s : TRUE].shares
                                  + g[s \ {CHOOSE x \in s : TRUE}]]
           g == CHOOSE g : Adds(g)
<1>1. MapThenSumSet(LAMBDA r : bk[r].shares, S) = g[S]
  BY DEF MapThenSumSet, MapThenFoldSet
<1>2. \A s \in SUBSET S : s # {} => f[CHOOSE x \in s : TRUE] = bk[CHOOSE x \in s : TRUE].shares
  BY DEF SharesIn
<1>3. \A h : Adds(h) <=> Sums(f, S, h)
  <2> HIDE DEF f
  <2> QED BY <1>2 DEF Sums, OneOf
<1> HIDE DEF f, Adds
<1>4. Sums(f, S, g)
  BY <1>3, SumsExist
<1> HIDE DEF g
<1> QED BY <1>1, <1>4, TotalIsTheSum DEF f

RemainingIn(bk) == [r \in DOMAIN bk |-> bk[r].remaining]

LEMMA SumOfRemaining ==
  ASSUME NEW bk, NEW S, S \subseteq DOMAIN bk, IsFiniteSet(S)
  PROVE  MapThenSumSet(LAMBDA r : bk[r].remaining, S) = Total(RemainingIn(bk), S)
<1> DEFINE f == RemainingIn(bk)
           Adds(g) == g = [s \in SUBSET S |->
                             IF s = {} THEN 0
                             ELSE bk[CHOOSE x \in s : TRUE].remaining
                                  + g[s \ {CHOOSE x \in s : TRUE}]]
           g == CHOOSE g : Adds(g)
<1>1. MapThenSumSet(LAMBDA r : bk[r].remaining, S) = g[S]
  BY DEF MapThenSumSet, MapThenFoldSet
<1>2. \A s \in SUBSET S : s # {} => f[CHOOSE x \in s : TRUE] = bk[CHOOSE x \in s : TRUE].remaining
  BY DEF RemainingIn
<1>3. \A h : Adds(h) <=> Sums(f, S, h)
  <2> HIDE DEF f
  <2> QED BY <1>2 DEF Sums, OneOf
<1> HIDE DEF f, Adds
<1>4. Sums(f, S, g)
  BY <1>3, SumsExist
<1> HIDE DEF g
<1> QED BY <1>1, <1>4, TotalIsTheSum DEF f

LEMMA AggregateIsTotal ==
  ASSUME NEW f, IsFiniteSet(DOMAIN f)
  PROVE  Aggregate(f) = Total(f, DOMAIN f)
  BY SumOfValues DEF Aggregate

LEMMA CountIsTotal ==
  ASSUME NEW f, IsFiniteSet(DOMAIN f)
  PROVE  Count(f) = Total(f, DOMAIN f)
  BY SumOfValues DEF Count

\* One member's value changes, the others keep theirs.
LEMMA TotalOfOneChanged ==
  ASSUME NEW f, NEW h, NEW S, NEW a \in S, IsFiniteSet(S), IntegersOn(f, S), IntegersOn(h, S),
         AgreeOn(f, h, S \ {a})
  PROVE  /\ Total(h, S) = Total(f, S) + (h[a] - f[a])
         /\ Total(f, S) \in Int /\ Total(h, S) \in Int /\ f[a] \in Int /\ h[a] \in Int
<1>1. /\ Total(f, S) = f[a] + Total(f, S \ {a})
      /\ Total(f, S) \in Int /\ Total(f, S \ {a}) \in Int
  BY TotalSplits DEF IntegersOn
<1>2. Total(h, S) = h[a] + Total(h, S \ {a}) /\ Total(h, S) \in Int
  BY TotalSplits DEF IntegersOn
<1>3. Total(f, S \ {a}) = Total(h, S \ {a})
  BY FS_Subset, TotalOfSame DEF AgreeOn
<1>4. f[a] \in Int /\ h[a] \in Int
  BY DEF IntegersOn
<1> QED BY ONLY <1>1, <1>2, <1>3, <1>4

----------------------------------------------------------------------------
(* What a message does to the book.                                        *)

FeedOK ==
  /\ DOMAIN resting \subseteq Refs /\ IsFiniteSet(DOMAIN resting)
  /\ DOMAIN ahead = DOMAIN resting
  /\ \A r \in DOMAIN resting :
       /\ resting[r] \in Order
       /\ ahead[r] \subseteq {x \in DOMAIN resting : SamePlace(resting[x], resting[r])}
  /\ now \in Nat

Kept(S) == \A r \in S : resting'[r] = resting[r]

Gone(ref) ==
  /\ ref \in DOMAIN resting /\ DOMAIN resting' = DOMAIN resting \ {ref}
  /\ Kept(DOMAIN resting \ {ref})
  /\ DOMAIN ahead' = DOMAIN resting \ {ref}
  /\ \A r \in DOMAIN resting \ {ref} : ahead'[r] = ahead[r] \ {ref}

Lowered(ref, qty) ==
  /\ ref \in DOMAIN resting /\ DOMAIN resting' = DOMAIN resting
  /\ Kept(DOMAIN resting \ {ref})
  /\ qty < resting[ref].shares
  /\ resting'[ref] = [resting[ref] EXCEPT !.shares = @ - qty]
  /\ ahead' = ahead

Joined(ref, o) ==
  /\ ref \in Refs /\ ref \notin DOMAIN resting /\ o \in Order
  /\ DOMAIN resting' = DOMAIN resting \cup {ref}
  /\ Kept(DOMAIN resting) /\ resting'[ref] = o
  /\ DOMAIN ahead' = DOMAIN resting \cup {ref}
  /\ \A r \in DOMAIN resting : ahead'[r] = ahead[r]
  /\ ahead'[ref] = {x \in DOMAIN resting : SamePlace(resting[x], o)}

Swapped(old, new, o) ==
  /\ old \in DOMAIN resting /\ new \in Refs /\ new \notin DOMAIN resting /\ o \in Order
  /\ o.locate = resting[old].locate /\ o.side = resting[old].side
  /\ DOMAIN resting' = (DOMAIN resting \ {old}) \cup {new}
  /\ Kept(DOMAIN resting \ {old}) /\ resting'[new] = o
  /\ DOMAIN ahead' = (DOMAIN resting \ {old}) \cup {new}
  /\ \A r \in DOMAIN resting \ {old} : ahead'[r] = ahead[r] \ {old}
  /\ ahead'[new] = {x \in DOMAIN resting \ {old} : SamePlace(resting[x], o)}

\* The order a replace brings.
Replacement(m) == [resting[m.ref] EXCEPT !.price = m.price, !.shares = m.shares]

Effect(m) ==
  /\ m.type \in {"A", "E", "X", "D", "U", "P", "B", "H"}
  /\ m.type = "A" => Joined(m.ref, m.order)
  /\ m.type \in {"E", "X"} =>
       /\ m.ref \in DOMAIN resting /\ m.qty \in 1..resting[m.ref].shares
       /\ \/ Lowered(m.ref, m.qty)
          \/ m.qty = resting[m.ref].shares /\ Gone(m.ref)
  /\ m.type = "D" => Gone(m.ref)
  /\ m.type = "U" => Swapped(m.ref, m.new, Replacement(m)) /\ m.shares \in 1..MaxShares
  /\ m.type \in {"P", "B", "H"} => /\ m.locate \in Locates
                                   /\ resting' = resting /\ ahead' = ahead

LEMMA NewRefsAreNew == \A r \in NewRefs : r \in Refs /\ r \notin DOMAIN resting
<1>1. Refs \ DOMAIN resting # {} =>
        (CHOOSE r \in Refs \ DOMAIN resting : TRUE) \in Refs \ DOMAIN resting
  OBVIOUS
<1> QED BY <1>1 DEF NewRefs

\* Every handler's book half does one of these things.
LEMMA MessageEffect ==
  ASSUME FeedOK, NEW m \in LegalMessages, NEW ts, Delivered(m, ts)
  PROVE  Effect(m)
<1> USE SessionFeedAssumption
<1>0. Applied(m)
  BY DEF Delivered
<1>1. CASE m \in {[type |-> "A", ref |-> r, order |-> o] :
                    r \in NewRefs, o \in {x \in Order : x.shares \in LotSizes}}
  <2>1. /\ m.type = "A" /\ m.ref \in Refs /\ m.ref \notin DOMAIN resting /\ m.order \in Order
    BY <1>1, NewRefsAreNew
  <2>2. Enter(m.ref, m.order)
    BY <1>0, <2>1 DEF Applied
  <2> DEFINE a == Arrival(Book, m.ref, m.order)
  <2>3. resting' = a.resting /\ ahead' = a.ahead
    BY <2>2 DEF Enter, Becomes
  <2>4. /\ DOMAIN a.resting = DOMAIN resting \cup {m.ref}
        /\ \A r \in DOMAIN resting : a.resting[r] = resting[r]
        /\ a.resting[m.ref] = m.order
    BY <2>1 DEF Arrival, With, Without, Book
  <2>5. \A r \in DOMAIN resting : ahead[r] \ {m.ref} = ahead[r]
    BY <2>1 DEF FeedOK
  <2>6. /\ DOMAIN a.ahead = DOMAIN resting \cup {m.ref}
        /\ \A r \in DOMAIN resting : a.ahead[r] = ahead[r] \ {m.ref}
        /\ a.ahead[m.ref] = {x \in DOMAIN resting : SamePlace(resting[x], m.order)}
    <3> DEFINE w == Without(Book, m.ref)
    <3>1. /\ DOMAIN w.resting = DOMAIN resting
          /\ \A r \in DOMAIN resting : w.resting[r] = resting[r] /\ w.ahead[r] = ahead[r] \ {m.ref}
      BY <2>1 DEF Without, Book
    <3>0. a = With(w, m.ref, m.order)
      BY DEF Arrival
    <3> HIDE DEF w, a
    <3>2. /\ DOMAIN With(w, m.ref, m.order).ahead = DOMAIN w.resting \cup {m.ref}
          /\ \A r \in DOMAIN w.resting \ {m.ref} : With(w, m.ref, m.order).ahead[r] = w.ahead[r]
          /\ With(w, m.ref, m.order).ahead[m.ref] =
               {x \in DOMAIN w.resting : SamePlace(w.resting[x], m.order)}
      BY DEF With
    <3>3. {x \in DOMAIN w.resting : SamePlace(w.resting[x], m.order)}
            = {x \in DOMAIN resting : SamePlace(resting[x], m.order)}
      BY <3>1
    <3>4. \A r \in DOMAIN resting : r # m.ref
      BY <2>1
    <3>5. \A r \in DOMAIN resting : a.ahead[r] = w.ahead[r]
      BY <3>0, <3>1, <3>2, <3>4
    <3> QED BY <3>0, <3>1, <3>2, <3>3, <3>5
  <2> HIDE DEF a
  <2>7. Joined(m.ref, m.order)
    BY <2>1, <2>3, <2>4, <2>5, <2>6 DEF Joined, Kept
  <2> QED BY <2>1, <2>7 DEF Effect
<1>2. CASE m \in {[type |-> "E", ref |-> r, qty |-> q] : r \in DOMAIN resting, q \in Shares}
           \cup {[type |-> "X", ref |-> r, qty |-> q] : r \in DOMAIN resting, q \in Shares}
  <2>1. /\ m.type \in {"E", "X"} /\ m.ref \in DOMAIN resting /\ m.qty \in 1..MaxShares
    BY <1>2 DEF Shares
  <2>2. m.qty <= resting[m.ref].shares /\ Reduce(m.ref, m.qty)
    BY <1>0, <2>1 DEF Applied
  <2>3. resting[m.ref] \in Order /\ resting[m.ref].shares \in 1..MaxShares
    BY <2>1 DEF FeedOK, Order
  <2>4. m.qty \in 1..resting[m.ref].shares
    BY <2>1, <2>2, <2>3
  <2>5. CASE m.qty < resting[m.ref].shares
    <3>1. Lowered(m.ref, m.qty)
      BY <2>1, <2>2, <2>5 DEF Reduce, Lowered, Kept
    <3> QED BY <2>1, <2>4, <3>1 DEF Effect
  <2>6. CASE ~(m.qty < resting[m.ref].shares)
    <3>1. m.qty = resting[m.ref].shares
      BY <2>4, <2>6, <2>3
    <3>2. Gone(m.ref)
      BY <2>1, <2>2, <2>6 DEF Reduce, Becomes, Without, Book, Gone, Kept, FeedOK
    <3> QED BY <2>1, <2>4, <3>1, <3>2 DEF Effect
  <2> QED BY <2>5, <2>6
<1>3. CASE m \in {[type |-> "D", ref |-> r] : r \in DOMAIN resting}
  <2>1. m.type = "D" /\ m.ref \in DOMAIN resting
    BY <1>3
  <2>2. Leave(m.ref)
    BY <1>0, <2>1 DEF Applied
  <2>3. Gone(m.ref)
    BY <2>1, <2>2 DEF Leave, Becomes, Without, Book, Gone, Kept, FeedOK
  <2> QED BY <2>1, <2>3 DEF Effect
<1>4. CASE m \in {[type |-> "U", ref |-> r, new |-> n, price |-> p, shares |-> s] :
                    r \in DOMAIN resting, n \in NewRefs, p \in Prices, s \in LotSizes}
  <2>1. /\ m.type = "U" /\ m.ref \in DOMAIN resting /\ m.new \in NewRefs
        /\ m.price \in Prices /\ m.shares \in 1..MaxShares
    BY <1>4
  <2>2. Replace(m.ref, m.new, m.price, m.shares)
    BY <1>0, <2>1 DEF Applied
  <2>3. m.new \in Refs /\ m.new \notin DOMAIN resting /\ m.new # m.ref
    BY <2>1, NewRefsAreNew
  <2>4. /\ Replacement(m) \in Order
        /\ Replacement(m).locate = resting[m.ref].locate
        /\ Replacement(m).side = resting[m.ref].side
    <3> DEFINE p == resting[m.ref]
    <3>1. p \in Order
      BY <2>1 DEF FeedOK
    <3> HIDE DEF p
    <3>2. [p EXCEPT !.price = m.price] \in Order
      BY <2>1, <3>1 DEF Order
    <3>3. [p EXCEPT !.price = m.price, !.shares = m.shares] \in Order
      BY <2>1, <3>2 DEF Order
    <3>4. /\ [p EXCEPT !.price = m.price, !.shares = m.shares].locate = p.locate
          /\ [p EXCEPT !.price = m.price, !.shares = m.shares].side = p.side
      BY <3>1 DEF Order
    <3> QED BY <3>3, <3>4 DEF Replacement, p
  <2> DEFINE o == Replacement(m)
             a == Arrival(Without(Book, m.ref), m.new, o)
  <2>5. resting' = a.resting /\ ahead' = a.ahead
    BY <2>2 DEF Replace, Becomes, Book, Replacement
  <2>6. /\ DOMAIN a.resting = (DOMAIN resting \ {m.ref}) \cup {m.new}
        /\ \A r \in DOMAIN resting \ {m.ref} : a.resting[r] = resting[r]
        /\ a.resting[m.new] = o
    BY <2>3 DEF Arrival, With, Without, Book
  <2>7. /\ DOMAIN a.ahead = (DOMAIN resting \ {m.ref}) \cup {m.new}
        /\ \A r \in DOMAIN resting \ {m.ref} : a.ahead[r] = ahead[r] \ {m.ref}
        /\ a.ahead[m.new] = {x \in DOMAIN resting \ {m.ref} : SamePlace(resting[x], o)}
    BY <2>3 DEF Arrival, With, Without, Book, FeedOK
  <2> HIDE DEF a, o
  <2>8. Swapped(m.ref, m.new, o)
    BY <2>1, <2>3, <2>4, <2>5, <2>6, <2>7 DEF Swapped, Kept, o
  <2> QED BY <2>1, <2>8 DEF Effect, o
<1>5. CASE m \in {[type |-> "P", locate |-> l, price |-> p] : l \in Locates, p \in Prices}
           \cup {[type |-> "B", locate |-> l, body |-> s] : l \in Locates, s \in Strays}
           \cup {[type |-> "H", locate |-> l, state |-> t] : l \in Locates, t \in TradingStates}
  <2>1. m.type \in {"P", "B", "H"} /\ m.locate \in Locates
    BY <1>5
  <2>2. UNCHANGED bookVars
    BY <1>0, <2>1 DEF Applied
  <2> QED BY <2>1, <2>2 DEF Effect, bookVars
<1> QED BY <1>1, <1>2, <1>3, <1>4, <1>5 DEF LegalMessages

\* An order that stays keeps its place.
LEMMA PlaceKept ==
  ASSUME FeedOK, NEW ref, NEW qty, Lowered(ref, qty), NEW r \in DOMAIN resting
  PROVE  /\ resting'[r].locate = resting[r].locate /\ resting'[r].side = resting[r].side
         /\ resting'[r].price = resting[r].price
<1>1. CASE r = ref
  BY <1>1 DEF Lowered, FeedOK, Order
<1>2. CASE r # ref
  BY <1>2 DEF Lowered, Kept
<1> QED BY <1>1, <1>2

LEMMA FeedKept ==
  ASSUME FeedOK, NEW m, Effect(m), now' \in Nat
  PROVE  FeedOK'
<1> USE SessionFeedAssumption
<1>1. CASE m.type = "A"
  <2> DEFINE ref == m.ref
             o == m.order
  <2>1. Joined(ref, o)
    BY <1>1 DEF Effect
  <2>2. IsFiniteSet(DOMAIN resting')
    BY <2>1, FS_AddElement DEF Joined, FeedOK
  <2> HIDE DEF ref, o
  <2>3. ASSUME NEW r \in DOMAIN resting'
        PROVE  /\ resting'[r] \in Order
               /\ ahead'[r] \subseteq {x \in DOMAIN resting' : SamePlace(resting'[x], resting'[r])}
    <3>1. CASE r = ref
      BY <2>1, <3>1 DEF Joined, Kept
    <3>2. CASE r # ref
      BY <2>1, <3>2 DEF Joined, Kept, FeedOK
    <3> QED BY <3>1, <3>2
  <2> QED BY <2>1, <2>2, <2>3 DEF FeedOK, Joined
<1>2. ASSUME NEW ref, Gone(ref) PROVE FeedOK'
  <2>1. IsFiniteSet(DOMAIN resting')
    BY <1>2, FS_RemoveElement DEF Gone, FeedOK
  <2> QED BY <1>2, <2>1 DEF Gone, Kept, FeedOK
<1>3. ASSUME NEW ref, NEW qty, Lowered(ref, qty), qty \in 1..resting[ref].shares
      PROVE  FeedOK'
  <2>1. resting[ref] \in Order /\ resting[ref].shares \in 1..MaxShares
    BY <1>3 DEF Lowered, FeedOK, Order
  <2>2. resting[ref].shares - qty \in 1..MaxShares
    BY <1>3, <2>1 DEF Lowered
  <2>3. resting'[ref] \in Order
    BY <1>3, <2>1, <2>2 DEF Lowered, Order
  <2>4. \A r \in DOMAIN resting : resting'[r] \in Order
    BY <1>3, <2>3 DEF Lowered, Kept, FeedOK
  <2>5. \A x, r \in DOMAIN resting :
          SamePlace(resting[x], resting[r]) => SamePlace(resting'[x], resting'[r])
    BY <1>3, PlaceKept DEF SamePlace
  <2>6. /\ DOMAIN resting' = DOMAIN resting /\ DOMAIN ahead' = DOMAIN ahead
        /\ \A r \in DOMAIN resting : ahead'[r] = ahead[r]
    BY <1>3 DEF Lowered
  <2> QED BY <2>4, <2>5, <2>6 DEF FeedOK
<1>4. CASE m.type = "U"
  <2> DEFINE old == m.ref
             new == m.new
             o == Replacement(m)
  <2>1. Swapped(old, new, o)
    BY <1>4 DEF Effect
  <2> HIDE DEF old, new, o
  <2>2. IsFiniteSet(DOMAIN resting')
    <3>1. IsFiniteSet(DOMAIN resting \ {old})
      BY FS_RemoveElement DEF FeedOK
    <3>2. DOMAIN resting' = (DOMAIN resting \ {old}) \cup {new}
      BY <2>1 DEF Swapped
    <3> QED BY <3>1, <3>2, FS_AddElement
  <2>3. ASSUME NEW r \in DOMAIN resting'
        PROVE  /\ resting'[r] \in Order
               /\ ahead'[r] \subseteq {x \in DOMAIN resting' : SamePlace(resting'[x], resting'[r])}
    <3>1. CASE r = new
      BY <2>1, <3>1 DEF Swapped, Kept
    <3>2. CASE r # new
      BY <2>1, <3>2 DEF Swapped, Kept, FeedOK
    <3> QED BY <3>1, <3>2
  <2>4. DOMAIN resting' \subseteq Refs /\ DOMAIN ahead' = DOMAIN resting'
    BY <2>1 DEF Swapped, FeedOK
  <2> QED BY <2>2, <2>3, <2>4 DEF FeedOK
<1>5. CASE m.type \in {"P", "B", "H"}
  BY <1>5 DEF Effect, FeedOK
<1> QED BY <1>1, <1>2, <1>3, <1>4, <1>5 DEF Effect

LEMMA FeedStarts == FeedInit => FeedOK
<1> SUFFICES ASSUME FeedInit PROVE FeedOK
  OBVIOUS
<1>1. PICK b \in OpeningBooks : resting = b.resting /\ ahead = b.ahead
  BY DEF FeedInit
<1>2. WellFormed(b)
  BY SessionFeedAssumption
<1> QED BY <1>1, <1>2 DEF FeedInit, WellFormed, FeedOK

----------------------------------------------------------------------------
(* The shares of a set of orders, before a message and after it.           *)

SharesOf(S) == Total(SharesIn(resting), S)

LEMMA SharesAreIntegers ==
  ASSUME FeedOK, NEW S, S \subseteq DOMAIN resting
  PROVE  IntegersOn(SharesIn(resting), S) /\ IsFiniteSet(S)
<1>1. \A r \in S : SharesIn(resting)[r] = resting[r].shares /\ resting[r].shares \in Int
  BY DEF SharesIn, FeedOK, Order
<1> QED BY <1>1, FS_Subset DEF IntegersOn, FeedOK

LEMMA SharesOfUnchanged ==
  ASSUME FeedOK, FeedOK', NEW S, S \subseteq DOMAIN resting, S \subseteq DOMAIN resting', Kept(S)
  PROVE  Total(SharesIn(resting'), S) = SharesOf(S) /\ SharesOf(S) \in Int
<1>1. \A r \in S : SharesIn(resting')[r] = SharesIn(resting)[r]
  BY DEF SharesIn, Kept
<1>2. IntegersOn(SharesIn(resting), S) /\ IsFiniteSet(S)
  BY SharesAreIntegers
<1> QED BY <1>1, <1>2, TotalOfSame, TotalIsInt DEF SharesOf, IntegersOn

LEMMA SharesOfGone ==
  ASSUME FeedOK, FeedOK', NEW ref, Gone(ref), NEW S, S \subseteq DOMAIN resting, ref \in S
  PROVE  /\ SharesOf(S) = Total(SharesIn(resting'), S \ {ref}) + resting[ref].shares
         /\ SharesOf(S) \in Int /\ Total(SharesIn(resting'), S \ {ref}) \in Int
         /\ resting[ref].shares \in Int
<1>1. IntegersOn(SharesIn(resting), S) /\ OneMore(S \ {ref}, S, ref)
  BY SharesAreIntegers DEF OneMore
<1>2. AgreeOn(SharesIn(resting), SharesIn(resting'), S \ {ref})
  BY DEF AgreeOn, SharesIn, Gone, Kept
<1>3. SharesIn(resting)[ref] = resting[ref].shares
  BY DEF SharesIn, Gone
<1> DEFINE f == SharesIn(resting)
           h == SharesIn(resting')
<1> HIDE DEF f, h
<1>4. Total(f, S) = f[ref] + Total(h, S \ {ref}) /\ Total(h, S \ {ref}) \in Int /\ f[ref] \in Int
  BY <1>1, <1>2, TotalOfOneMore DEF f, h
<1>5. Total(f, S) = Total(h, S \ {ref}) + f[ref] /\ Total(f, S) \in Int
  BY ONLY <1>4
<1> QED BY <1>3, <1>4, <1>5 DEF f, h, SharesOf

LEMMA SharesOfLowered ==
  ASSUME FeedOK, FeedOK', NEW ref, NEW qty \in Int, Lowered(ref, qty),
         NEW S, S \subseteq DOMAIN resting, ref \in S
  PROVE  /\ Total(SharesIn(resting'), S) = SharesOf(S) - qty
         /\ SharesOf(S) \in Int
<1> DEFINE f == SharesIn(resting)
           h == SharesIn(resting')
<1>1. DOMAIN resting' = DOMAIN resting
  BY DEF Lowered
<1>2. IntegersOn(f, S) /\ IsFiniteSet(S)
  BY SharesAreIntegers
<1>3. IntegersOn(h, S)
  <2>1. \A r \in S : h[r] = resting'[r].shares /\ resting'[r].shares \in Int
    BY <1>1 DEF SharesIn, FeedOK, Order
  <2> QED BY <2>1 DEF IntegersOn
<1>4. AgreeOn(f, h, S \ {ref})
  BY <1>1 DEF AgreeOn, SharesIn, Lowered, Kept
<1>5. f[ref] = resting[ref].shares /\ h[ref] = resting'[ref].shares
  BY <1>1 DEF SharesIn
<1>6. h[ref] = f[ref] - qty
  <2>1. resting'[ref].shares = resting[ref].shares - qty
    BY DEF Lowered, FeedOK, Order
  <2> QED BY <1>5, <2>1
<1> HIDE DEF f, h
<1>7. /\ Total(h, S) = Total(f, S) + (h[ref] - f[ref])
      /\ Total(f, S) \in Int /\ Total(h, S) \in Int /\ f[ref] \in Int /\ h[ref] \in Int
  BY <1>2, <1>3, <1>4, TotalOfOneChanged
<1>8. Total(h, S) = Total(f, S) - qty
  BY ONLY <1>6, <1>7, qty \in Int
<1> QED BY <1>7, <1>8 DEF f, h, SharesOf

\* Orders that rested before the message are S; ref is one that came with it.
LEMMA SharesOfJoined ==
  ASSUME FeedOK, FeedOK', NEW ref, NEW S, S \subseteq DOMAIN resting,
         S \subseteq DOMAIN resting', Kept(S), ref \in DOMAIN resting', ref \notin S
  PROVE  /\ Total(SharesIn(resting'), S \cup {ref}) = SharesOf(S) + resting'[ref].shares
         /\ SharesOf(S) \in Int /\ resting'[ref].shares \in Int
<1> DEFINE T == S \cup {ref}
           f == SharesIn(resting')
<1>1. T \subseteq DOMAIN resting'
  OBVIOUS
<1>2. IsFiniteSet(T)
  BY <1>1, FS_Subset DEF FeedOK
<1>3. OneMore(S, T, ref)
  BY <1>2 DEF OneMore
<1>4. IntegersOn(f, T)
  <2>1. \A r \in T : f[r] = resting'[r].shares /\ resting'[r].shares \in Int
    BY <1>1 DEF SharesIn, FeedOK, Order
  <2> QED BY <2>1 DEF IntegersOn
<1>5. AgreeOn(f, SharesIn(resting), S)
  BY DEF AgreeOn, SharesIn, Kept
<1>6. f[ref] = resting'[ref].shares
  BY DEF SharesIn
<1> HIDE DEF f
<1>7. Total(f, T) = f[ref] + SharesOf(S) /\ SharesOf(S) \in Int /\ f[ref] \in Int
  BY <1>3, <1>4, <1>5, TotalOfOneMore DEF SharesOf
<1> HIDE DEF T
<1>8. Total(f, T) = SharesOf(S) + f[ref]
  BY ONLY <1>7
<1> QED BY <1>6, <1>7, <1>8 DEF f, T

----------------------------------------------------------------------------
(* The microstructure exporter's second bookkeeping.                       *)

TrackRecord == [original : Nat, remaining : Nat, filled : Nat]
Known == Refs \cup Missed
MicroType ==
  [live : UNION {[S -> TrackRecord] : S \in SUBSET Known}, exits : [Exits -> Nat],
   adds : Nat, replaces : Nat, shares_added : Int, shares_executed : Int,
   shares_cancelled : Int, next_sample : Nat, samples : Nat, crossed : Nat]

Ended(x) == Total(x.exits, Exits)
Left(x) == Total(RemainingIn(x.live), DOMAIN x.live)

\* The exporter's totals balance: gone are the shares deleted, stray those taken
\* from orders it did not follow.
Balanced(x, gone, stray) ==
  /\ x \in MicroType /\ gone \in Int /\ stray \in Int /\ IsFiniteSet(DOMAIN x.live)
  /\ x.adds + x.replaces = Ended(x) + Cardinality(DOMAIN x.live)
  /\ x.shares_added + stray = x.shares_executed + x.shares_cancelled + gone + Left(x)

\* The lives are those of the orders in bk, and of missed ones.
Mirrors(x, bk) ==
  /\ DOMAIN bk \subseteq DOMAIN x.live
  /\ DOMAIN x.live \ DOMAIN bk \subseteq Missed
  /\ \A r \in DOMAIN bk : x.live[r].remaining = bk[r].shares

LEMMA ExitsAreFinite == IsFiniteSet(Exits)
<1>1. IsFiniteSet({} \cup {"filled"})
  BY FS_EmptySet, FS_AddElement
<1>2. IsFiniteSet(({} \cup {"filled"}) \cup {"partial_then_gone"})
  BY <1>1, FS_AddElement
<1>3. IsFiniteSet((({} \cup {"filled"}) \cup {"partial_then_gone"}) \cup {"cancelled"})
  BY <1>2, FS_AddElement
<1>4. IsFiniteSet(((({} \cup {"filled"}) \cup {"partial_then_gone"}) \cup {"cancelled"})
                     \cup {"replaced"})
  BY <1>3, FS_AddElement
<1>5. Exits = ((({} \cup {"filled"}) \cup {"partial_then_gone"}) \cup {"cancelled"})
                 \cup {"replaced"}
  BY DEF Exits
<1> QED BY <1>4, <1>5

LEMMA OneMoreExit ==
  ASSUME NEW e \in [Exits -> Nat], NEW c \in Exits
  PROVE  /\ [e EXCEPT ![c] = @ + 1] \in [Exits -> Nat]
         /\ Total([e EXCEPT ![c] = @ + 1], Exits) = Total(e, Exits) + 1
         /\ Total(e, Exits) \in Int
<1> DEFINE d == [e EXCEPT ![c] = @ + 1]
<1>1. d \in [Exits -> Nat] /\ d[c] = e[c] + 1 /\ \A a \in Exits \ {c} : d[a] = e[a]
  OBVIOUS
<1>2. IntegersOn(e, Exits) /\ IntegersOn(d, Exits) /\ AgreeOn(e, d, Exits \ {c})
  BY <1>1 DEF IntegersOn, AgreeOn
<1> HIDE DEF d
<1>3. /\ Total(d, Exits) = Total(e, Exits) + (d[c] - e[c])
      /\ Total(e, Exits) \in Int /\ e[c] \in Int
  BY <1>2, ExitsAreFinite, TotalOfOneChanged
<1>4. Total(d, Exits) = Total(e, Exits) + 1
  <2>1. d[c] - e[c] = 1
    BY <1>1, <1>3
  <2> QED BY <1>3, <2>1
<1> QED BY <1>1, <1>3, <1>4 DEF d

\* close_out() ends one order in one class.
LEMMA ClosedOutEnds ==
  ASSUME NEW x \in MicroType, NEW ref \in DOMAIN x.live, NEW exit \in Exits
  PROVE  LET y == ClosedOut(x, ref, exit)
         IN /\ y \in MicroType /\ y.live = TrackedWithout(x.live, ref)
            /\ Ended(y) = Ended(x) + 1 /\ Ended(x) \in Int
            /\ y.adds = x.adds /\ y.replaces = x.replaces
            /\ y.shares_added = x.shares_added /\ y.shares_executed = x.shares_executed
            /\ y.shares_cancelled = x.shares_cancelled
<1> DEFINE c == Class(x.live[ref], exit)
           z == [x EXCEPT !.live = TrackedWithout(@, ref)]
           y == [z EXCEPT !.exits[c] = @ + 1]
<1>1. c \in Exits
  BY DEF Class, Exits
<1>2. TrackedWithout(x.live, ref) \in UNION {[S -> TrackRecord] : S \in SUBSET Known}
  <2>1. PICK S \in SUBSET Known : x.live \in [S -> TrackRecord]
    BY DEF MicroType
  <2>2. TrackedWithout(x.live, ref) \in [S \ {ref} -> TrackRecord]
    BY <2>1 DEF TrackedWithout
  <2>3. S \ {ref} \in SUBSET Known
    OBVIOUS
  <2> QED BY <2>2, <2>3
<1> HIDE DEF c
<1>3. z \in MicroType /\ z.live = TrackedWithout(x.live, ref) /\ z.exits = x.exits
      /\ z.adds = x.adds /\ z.replaces = x.replaces
      /\ z.shares_added = x.shares_added /\ z.shares_executed = x.shares_executed
      /\ z.shares_cancelled = x.shares_cancelled
  BY <1>2 DEF MicroType
<1> HIDE DEF z
<1>4. y = [z EXCEPT !.exits = [z.exits EXCEPT ![c] = @ + 1]]
  BY <1>3 DEF MicroType
<1>5. z.exits \in [Exits -> Nat]
  BY <1>3 DEF MicroType
<1>6. /\ [z.exits EXCEPT ![c] = @ + 1] \in [Exits -> Nat]
      /\ Total([z.exits EXCEPT ![c] = @ + 1], Exits) = Total(z.exits, Exits) + 1
      /\ Total(z.exits, Exits) \in Int
  BY <1>1, <1>5, OneMoreExit
<1> DEFINE e == [z.exits EXCEPT ![c] = @ + 1]
<1> HIDE DEF e
<1>7. /\ y \in MicroType /\ y.live = z.live /\ y.exits = e
      /\ y.adds = z.adds /\ y.replaces = z.replaces
      /\ y.shares_added = z.shares_added /\ y.shares_executed = z.shares_executed
      /\ y.shares_cancelled = z.shares_cancelled
  BY <1>3, <1>4, <1>6 DEF MicroType, e
<1>8. ClosedOut(x, ref, exit) = y
  BY <1>4 DEF ClosedOut, c, z
<1> HIDE DEF y
<1> QED BY <1>3, <1>6, <1>7, <1>8 DEF Ended, e

\* add() starts the life of one order.
LEMMA StartedBegins ==
  ASSUME NEW x \in MicroType, NEW ref \in Known, NEW shares \in Nat
  PROVE  LET y == Started(x, ref, shares)
         IN /\ y \in MicroType /\ DOMAIN y.live = DOMAIN x.live \cup {ref}
            /\ \A r \in DOMAIN x.live \ {ref} : y.live[r] = x.live[r]
            /\ y.live[ref].remaining = shares
            /\ y.exits = x.exits /\ y.adds = x.adds /\ y.replaces = x.replaces
            /\ y.shares_added = x.shares_added + shares
            /\ y.shares_executed = x.shares_executed
            /\ y.shares_cancelled = x.shares_cancelled
<1> DEFINE L == TrackedWith(x.live, ref, Tracked(shares))
<1>1. PICK S \in SUBSET Known : x.live \in [S -> TrackRecord]
  BY DEF MicroType
<1>2. Tracked(shares) \in TrackRecord /\ Tracked(shares).remaining = shares
  BY DEF Tracked, TrackRecord
<1>3. /\ L \in [S \cup {ref} -> TrackRecord] /\ S \cup {ref} \in SUBSET Known
      /\ DOMAIN L = DOMAIN x.live \cup {ref}
      /\ \A r \in DOMAIN x.live \ {ref} : L[r] = x.live[r]
      /\ L[ref] = Tracked(shares)
  BY <1>1, <1>2 DEF TrackedWith
<1> HIDE DEF L
<1>4. L \in UNION {[T -> TrackRecord] : T \in SUBSET Known}
  BY <1>3
<1> DEFINE z == [x EXCEPT !.live = L]
           y == [z EXCEPT !.shares_added = @ + shares]
<1>5. /\ z \in MicroType /\ z.live = L
      /\ z.exits = x.exits /\ z.adds = x.adds /\ z.replaces = x.replaces
      /\ z.shares_added = x.shares_added /\ z.shares_executed = x.shares_executed
      /\ z.shares_cancelled = x.shares_cancelled
  BY <1>4 DEF MicroType
<1>6. Started(x, ref, shares) = y
  BY DEF Started, L
<1> HIDE DEF z
<1>7. /\ y \in MicroType /\ y.live = z.live
      /\ y.exits = z.exits /\ y.adds = z.adds /\ y.replaces = z.replaces
      /\ y.shares_added = z.shares_added + shares
      /\ y.shares_executed = z.shares_executed
      /\ y.shares_cancelled = z.shares_cancelled
  BY <1>5 DEF MicroType
<1> HIDE DEF y
<1> QED BY <1>2, <1>3, <1>5, <1>6, <1>7

\* reduce() by less than what remains keeps the order.
LEMMA ReducedLowers ==
  ASSUME NEW x \in MicroType, NEW ref \in DOMAIN x.live, NEW qty \in Nat,
         qty < x.live[ref].remaining, NEW executed \in BOOLEAN
  PROVE  LET y == Reduced(x, ref, qty, executed)
         IN /\ y \in MicroType /\ DOMAIN y.live = DOMAIN x.live
            /\ \A r \in DOMAIN x.live \ {ref} : y.live[r] = x.live[r]
            /\ y.live[ref].remaining = x.live[ref].remaining - qty
            /\ y.exits = x.exits /\ y.adds = x.adds /\ y.replaces = x.replaces
            /\ y.shares_added = x.shares_added
            /\ y.shares_executed = x.shares_executed
            /\ y.shares_cancelled = x.shares_cancelled
<1> DEFINE old == x.live[ref]
           new == [old EXCEPT !.remaining = @ - qty,
                              !.filled = IF executed THEN @ + qty ELSE @]
           y   == [x EXCEPT !.live = [@ EXCEPT ![ref] = new]]
<1>1. PICK S \in SUBSET Known : x.live \in [S -> TrackRecord]
  BY DEF MicroType
<1>2. old \in TrackRecord
  BY <1>1
<1>3. old.remaining - qty \in Nat /\ old.remaining - qty # 0
      /\ (IF executed THEN old.filled + qty ELSE old.filled) \in Nat
  BY <1>2 DEF TrackRecord
<1>4. new \in TrackRecord /\ new.remaining = old.remaining - qty
  <2> HIDE DEF old
  <2>1. [old EXCEPT !.remaining = @ - qty] \in TrackRecord
        /\ [old EXCEPT !.remaining = @ - qty].remaining = old.remaining - qty
        /\ [old EXCEPT !.remaining = @ - qty].filled = old.filled
    BY <1>2, <1>3 DEF TrackRecord
  <2> DEFINE mid == [old EXCEPT !.remaining = @ - qty]
  <2>2. new = [mid EXCEPT !.filled = IF executed THEN @ + qty ELSE @]
    BY <1>2 DEF TrackRecord
  <2> HIDE DEF mid
  <2>3. [mid EXCEPT !.filled = IF executed THEN @ + qty ELSE @] \in TrackRecord
        /\ [mid EXCEPT !.filled = IF executed THEN @ + qty ELSE @].remaining = mid.remaining
    BY <1>3, <2>1 DEF TrackRecord, mid
  <2> HIDE DEF new
  <2> QED BY <2>1, <2>2, <2>3 DEF mid
<1>5. Reduced(x, ref, qty, executed) = y
  BY <1>3, <1>4 DEF Reduced
<1> HIDE DEF new
<1> DEFINE L == [x.live EXCEPT ![ref] = new]
<1>6. /\ L \in [S -> TrackRecord] /\ L[ref] = new /\ DOMAIN L = DOMAIN x.live
      /\ \A r \in DOMAIN x.live \ {ref} : L[r] = x.live[r]
  BY <1>1, <1>4
<1>7. y = [x EXCEPT !.live = L]
  OBVIOUS
<1> HIDE DEF L, y
<1>8. L \in UNION {[T -> TrackRecord] : T \in SUBSET Known}
  BY <1>6
<1>9. /\ y \in MicroType /\ y.live = L
      /\ y.exits = x.exits /\ y.adds = x.adds /\ y.replaces = x.replaces
      /\ y.shares_added = x.shares_added /\ y.shares_executed = x.shares_executed
      /\ y.shares_cancelled = x.shares_cancelled
  BY <1>7, <1>8 DEF MicroType
<1> QED BY <1>4, <1>5, <1>6, <1>9

\* reduce() by no less than remains ends the order.
LEMMA ReducedEnds ==
  ASSUME NEW x \in MicroType, NEW ref \in DOMAIN x.live, NEW qty \in Nat,
         qty >= x.live[ref].remaining, NEW executed \in BOOLEAN
  PROVE  LET y == Reduced(x, ref, qty, executed)
         IN /\ y \in MicroType /\ DOMAIN y.live = DOMAIN x.live \ {ref}
            /\ \A r \in DOMAIN x.live \ {ref} : y.live[r] = x.live[r]
            /\ Ended(y) = Ended(x) + 1 /\ Ended(x) \in Int
            /\ y.adds = x.adds /\ y.replaces = x.replaces
            /\ y.shares_added = x.shares_added
            /\ y.shares_executed = x.shares_executed
            /\ y.shares_cancelled = x.shares_cancelled
<1> DEFINE old == x.live[ref]
           taken == old.remaining
           new == [old EXCEPT !.remaining = @ - taken,
                              !.filled = IF executed THEN @ + taken ELSE @]
           y   == [x EXCEPT !.live = [@ EXCEPT ![ref] = new]]
           exit == IF ~executed THEN "cancelled"
                   ELSE IF new.filled = new.original THEN "filled" ELSE "partial_then_gone"
<1>1. PICK S \in SUBSET Known : x.live \in [S -> TrackRecord]
  BY DEF MicroType
<1>2. old \in TrackRecord
  BY <1>1
<1>3. old.remaining - taken = 0
      /\ (IF executed THEN old.filled + taken ELSE old.filled) \in Nat
  BY <1>2 DEF TrackRecord
<1>4. new \in TrackRecord /\ new.remaining = 0
  <2> HIDE DEF old, taken
  <2>1. [old EXCEPT !.remaining = @ - taken] \in TrackRecord
        /\ [old EXCEPT !.remaining = @ - taken].remaining = old.remaining - taken
        /\ [old EXCEPT !.remaining = @ - taken].filled = old.filled
    BY <1>2, <1>3 DEF TrackRecord
  <2> DEFINE mid == [old EXCEPT !.remaining = @ - taken]
  <2>2. new = [mid EXCEPT !.filled = IF executed THEN @ + taken ELSE @]
    BY <1>2 DEF TrackRecord
  <2> HIDE DEF mid
  <2>3. [mid EXCEPT !.filled = IF executed THEN @ + taken ELSE @] \in TrackRecord
        /\ [mid EXCEPT !.filled = IF executed THEN @ + taken ELSE @].remaining = mid.remaining
    BY <1>3, <2>1 DEF TrackRecord, mid
  <2> HIDE DEF new
  <2> QED BY <1>3, <2>1, <2>2, <2>3 DEF mid
<1>5. Reduced(x, ref, qty, executed) = ClosedOut(y, ref, exit) /\ exit \in Exits
  <2>1. ~(qty < old.remaining)
    BY <1>2 DEF TrackRecord
  <2>2. exit \in Exits
    BY DEF Exits
  <2> QED BY <1>4, <2>1, <2>2 DEF Reduced
<1> HIDE DEF new, exit
<1> DEFINE L == [x.live EXCEPT ![ref] = new]
<1>6. /\ L \in [S -> TrackRecord] /\ DOMAIN L = DOMAIN x.live
      /\ \A r \in DOMAIN x.live \ {ref} : L[r] = x.live[r]
  BY <1>1, <1>4
<1>7. y = [x EXCEPT !.live = L]
  OBVIOUS
<1> HIDE DEF L, y
<1>8. L \in UNION {[T -> TrackRecord] : T \in SUBSET Known}
  BY <1>6
<1>9. /\ y \in MicroType /\ y.live = L
      /\ y.exits = x.exits /\ y.adds = x.adds /\ y.replaces = x.replaces
      /\ y.shares_added = x.shares_added /\ y.shares_executed = x.shares_executed
      /\ y.shares_cancelled = x.shares_cancelled
  BY <1>7, <1>8 DEF MicroType
<1> DEFINE z == ClosedOut(y, ref, exit)
<1>10. /\ z \in MicroType /\ z.live = TrackedWithout(y.live, ref)
       /\ Ended(z) = Ended(y) + 1 /\ Ended(y) \in Int
       /\ z.adds = y.adds /\ z.replaces = y.replaces
       /\ z.shares_added = y.shares_added /\ z.shares_executed = y.shares_executed
       /\ z.shares_cancelled = y.shares_cancelled
  BY <1>5, <1>6, <1>9, ClosedOutEnds
<1>11. /\ DOMAIN TrackedWithout(L, ref) = DOMAIN x.live \ {ref}
       /\ \A r \in DOMAIN x.live \ {ref} : TrackedWithout(L, ref)[r] = x.live[r]
  BY <1>6 DEF TrackedWithout
<1>12. Ended(y) = Ended(x)
  BY <1>9 DEF Ended
<1> HIDE DEF z
<1>13. Reduced(x, ref, qty, executed) = z
  BY <1>5 DEF z
<1> QED BY <1>9, <1>10, <1>11, <1>12, <1>13

\* Adding to a counter of the exporter leaves everything else alone.
LEMMA CounterSet ==
  ASSUME NEW x \in MicroType
  PROVE  /\ \A n \in Nat : LET y == [x EXCEPT !.adds = n] IN
              /\ y \in MicroType /\ y.live = x.live /\ y.exits = x.exits /\ y.adds = n
              /\ y.replaces = x.replaces /\ y.shares_added = x.shares_added
              /\ y.shares_executed = x.shares_executed
              /\ y.shares_cancelled = x.shares_cancelled
         /\ \A n \in Nat : LET y == [x EXCEPT !.replaces = n] IN
              /\ y \in MicroType /\ y.live = x.live /\ y.exits = x.exits /\ y.adds = x.adds
              /\ y.replaces = n /\ y.shares_added = x.shares_added
              /\ y.shares_executed = x.shares_executed
              /\ y.shares_cancelled = x.shares_cancelled
         /\ \A n \in Int : LET y == [x EXCEPT !.shares_executed = n] IN
              /\ y \in MicroType /\ y.live = x.live /\ y.exits = x.exits /\ y.adds = x.adds
              /\ y.replaces = x.replaces /\ y.shares_added = x.shares_added
              /\ y.shares_executed = n
              /\ y.shares_cancelled = x.shares_cancelled
         /\ \A n \in Int : LET y == [x EXCEPT !.shares_cancelled = n] IN
              /\ y \in MicroType /\ y.live = x.live /\ y.exits = x.exits /\ y.adds = x.adds
              /\ y.replaces = x.replaces /\ y.shares_added = x.shares_added
              /\ y.shares_executed = x.shares_executed
              /\ y.shares_cancelled = n
  BY DEF MicroType

LEMMA AccountTypes ==
  ASSUME NEW x \in MicroType
  PROVE  /\ x.adds \in Nat /\ x.replaces \in Nat /\ x.shares_added \in Int
         /\ x.shares_executed \in Int /\ x.shares_cancelled \in Int
         /\ Ended(x) \in Int
<1>1. x.exits \in [Exits -> Nat]
  BY DEF MicroType
<1>2. \A e \in Exits : x.exits[e] \in Int
  BY <1>1
<1> DEFINE f == x.exits
<1> HIDE DEF f
<1>3. Total(f, Exits) \in Int
  BY <1>2, ExitsAreFinite, TotalIsInt DEF f
<1> QED BY <1>3 DEF MicroType, Ended, f

\* What remains of the lives, and what one life more, one fewer or one shorter
\* makes of it.
LEMMA LivesAreFinite ==
  ASSUME NEW x \in MicroType, IsFiniteSet(DOMAIN x.live)
  PROVE  /\ IntegersOn(RemainingIn(x.live), DOMAIN x.live) /\ Left(x) \in Int
         /\ \A r \in DOMAIN x.live : /\ x.live[r].remaining \in Nat
                                     /\ RemainingIn(x.live)[r] = x.live[r].remaining
         /\ Cardinality(DOMAIN x.live) \in Nat
<1> DEFINE f == RemainingIn(x.live)
           S == DOMAIN x.live
<1>1. PICK K \in SUBSET Known : x.live \in [K -> TrackRecord]
  BY DEF MicroType
<1>2. \A r \in S : x.live[r].remaining \in Nat /\ f[r] = x.live[r].remaining
  BY <1>1 DEF TrackRecord, RemainingIn
<1>3. Cardinality(S) \in Nat
  BY FS_CardinalityType
<1>4. \A r \in S : f[r] \in Int
  BY <1>2
<1> HIDE DEF f, S
<1>5. Total(f, S) \in Int
  BY <1>4, TotalIsInt DEF S
<1> QED BY <1>2, <1>3, <1>4, <1>5 DEF f, S, IntegersOn, Left

Begun(y, x, ref, shares) ==
  /\ DOMAIN y.live = DOMAIN x.live \cup {ref} /\ ref \notin DOMAIN x.live
  /\ \A r \in DOMAIN x.live : y.live[r] = x.live[r]
  /\ y.live[ref].remaining = shares
Ceased(y, x, ref) ==
  /\ ref \in DOMAIN x.live /\ DOMAIN y.live = DOMAIN x.live \ {ref}
  /\ \A r \in DOMAIN x.live \ {ref} : y.live[r] = x.live[r]
Shortened(y, x, ref, qty) ==
  /\ ref \in DOMAIN x.live /\ DOMAIN y.live = DOMAIN x.live
  /\ \A r \in DOMAIN x.live \ {ref} : y.live[r] = x.live[r]
  /\ y.live[ref].remaining = x.live[ref].remaining - qty

LEMMA OneLifeMore ==
  ASSUME NEW x \in MicroType, NEW y \in MicroType, IsFiniteSet(DOMAIN x.live),
         NEW ref, NEW shares, Begun(y, x, ref, shares)
  PROVE  /\ IsFiniteSet(DOMAIN y.live)
         /\ Cardinality(DOMAIN y.live) = Cardinality(DOMAIN x.live) + 1
         /\ Left(y) = Left(x) + shares /\ shares \in Nat
<1> DEFINE f == RemainingIn(y.live)
           h == RemainingIn(x.live)
           S == DOMAIN x.live
           T == DOMAIN y.live
<1>1. IsFiniteSet(T) /\ Cardinality(T) = Cardinality(S) + 1 /\ ref \in T /\ S = T \ {ref}
  BY FS_AddElement DEF Begun
<1>2. IntegersOn(f, T) /\ f[ref] = shares /\ shares \in Nat
  BY <1>1, LivesAreFinite DEF Begun
<1>3. \A r \in S : f[r] = h[r]
  BY <1>1 DEF RemainingIn, Begun
<1> HIDE DEF f, h, S, T
<1>4. Total(f, T) = f[ref] + Total(h, S) /\ Total(h, S) \in Int
  BY <1>1, <1>2, <1>3, TotalOfOneMore DEF OneMore, AgreeOn
<1>5. Total(f, T) = Total(h, S) + shares
  BY <1>2, <1>4
<1> QED BY <1>1, <1>2, <1>5 DEF Left, f, h, S, T

LEMMA OneLifeLess ==
  ASSUME NEW x \in MicroType, NEW y \in MicroType, IsFiniteSet(DOMAIN x.live),
         NEW ref, Ceased(y, x, ref)
  PROVE  /\ IsFiniteSet(DOMAIN y.live)
         /\ Cardinality(DOMAIN y.live) = Cardinality(DOMAIN x.live) - 1
         /\ Left(y) = Left(x) - x.live[ref].remaining
<1> DEFINE f == RemainingIn(x.live)
           h == RemainingIn(y.live)
           S == DOMAIN y.live
           T == DOMAIN x.live
<1>1. IsFiniteSet(S) /\ Cardinality(S) = Cardinality(T) - 1 /\ ref \in T /\ S = T \ {ref}
  BY FS_RemoveElement DEF Ceased
<1>2. IntegersOn(f, T) /\ f[ref] = x.live[ref].remaining /\ f[ref] \in Nat
  BY <1>1, LivesAreFinite
<1>3. \A r \in S : f[r] = h[r]
  BY <1>1 DEF RemainingIn, Ceased
<1>4. IsFiniteSet(T)
  OBVIOUS
<1> HIDE DEF f, h, S, T
<1>5. Total(f, T) = f[ref] + Total(h, S) /\ Total(h, S) \in Int
  <2>1. OneMore(S, T, ref) /\ AgreeOn(f, h, S) /\ IntegersOn(f, T)
    BY <1>1, <1>2, <1>3, <1>4 DEF OneMore, AgreeOn
  <2> QED BY <2>1, TotalOfOneMore
<1>6. Total(h, S) = Total(f, T) - f[ref]
  BY <1>2, <1>5
<1> QED BY <1>1, <1>2, <1>6 DEF Left, f, h, S, T

LEMMA OneLifeShorter ==
  ASSUME NEW x \in MicroType, NEW y \in MicroType, IsFiniteSet(DOMAIN x.live),
         NEW ref, NEW qty \in Nat, Shortened(y, x, ref, qty)
  PROVE  IsFiniteSet(DOMAIN y.live) /\ Left(y) = Left(x) - qty
<1> DEFINE f == RemainingIn(x.live)
           h == RemainingIn(y.live)
           S == DOMAIN x.live
<1>1. DOMAIN y.live = S /\ IsFiniteSet(S) /\ ref \in S
  BY DEF Shortened
<1>2. /\ IntegersOn(f, S) /\ IntegersOn(h, S)
      /\ f[ref] = x.live[ref].remaining /\ h[ref] = y.live[ref].remaining
      /\ f[ref] \in Nat
  BY <1>1, LivesAreFinite
<1>3. \A r \in S \ {ref} : f[r] = h[r]
  BY <1>1 DEF RemainingIn, Shortened
<1>4. h[ref] = f[ref] - qty
  BY <1>2 DEF Shortened
<1> HIDE DEF f, h, S
<1>5. Total(h, S) = Total(f, S) + (h[ref] - f[ref]) /\ Total(f, S) \in Int
  BY <1>1, <1>2, <1>3, TotalOfOneChanged DEF AgreeOn
<1>6. Total(h, S) = Total(f, S) - qty
  BY <1>2, <1>4, <1>5
<1> QED BY <1>1, <1>6 DEF Left, f, h, S

\* What the tracking half of a handler is given, what it makes of the lives, and
\* which shares it takes without counting them.
Trackable(x, b) ==
  /\ b.type \in {"A", "E", "X", "D", "U", "P", "Q", "H"}
  /\ b.type = "A" => b.ref \in Known \ DOMAIN x.live /\ b.order.shares \in Nat
  /\ b.type \in {"E", "X"} => b.qty \in Nat
  /\ b.type = "U" => /\ b.new \in Known \ DOMAIN x.live /\ b.shares \in Nat
                     /\ b.new # b.ref

LivesAfter(y, x, b) ==
  /\ b.type = "A" => Begun(y, x, b.ref, b.order.shares)
  /\ b.type \in {"E", "X"} =>
       IF b.ref \notin DOMAIN x.live THEN y.live = x.live
       ELSE IF b.qty < x.live[b.ref].remaining THEN Shortened(y, x, b.ref, b.qty)
       ELSE Ceased(y, x, b.ref)
  /\ b.type = "D" => IF b.ref \notin DOMAIN x.live THEN y.live = x.live
                     ELSE Ceased(y, x, b.ref)
  /\ b.type = "U" =>
       /\ DOMAIN y.live = (DOMAIN x.live \ {b.ref}) \cup {b.new}
       /\ \A r \in DOMAIN x.live \ {b.ref} : y.live[r] = x.live[r]
       /\ y.live[b.new].remaining = b.shares
  /\ b.type \in {"P", "Q", "H"} => y = x

Removed(x, b) ==
  IF b.type = "D" /\ b.ref \in DOMAIN x.live THEN x.live[b.ref].remaining ELSE 0
Beyond(x, b) ==
  IF b.type \notin {"E", "X"} THEN 0
  ELSE IF b.ref \notin DOMAIN x.live THEN b.qty
  ELSE IF b.qty < x.live[b.ref].remaining THEN 0
  ELSE b.qty - x.live[b.ref].remaining

LEMMA ReductionKept ==
  ASSUME NEW x, NEW gone, NEW stray, Balanced(x, gone, stray),
         NEW b, Trackable(x, b), b.type \in {"E", "X"}
  PROVE  LET y == Followed(x, b)
         IN Balanced(y, gone, stray + Beyond(x, b)) /\ LivesAfter(y, x, b)
<1> DEFINE ref == b.ref
           qty == b.qty
           executed == (b.type = "E")
           z == Reduced(x, ref, qty, executed)
           y == Followed(x, b)
           past == Beyond(x, b)
<1>0. /\ x \in MicroType /\ gone \in Int /\ stray \in Int /\ IsFiniteSet(DOMAIN x.live)
      /\ x.adds + x.replaces = Ended(x) + Cardinality(DOMAIN x.live)
      /\ x.shares_added + stray = x.shares_executed + x.shares_cancelled + gone + Left(x)
      /\ qty \in Nat /\ executed \in BOOLEAN
  BY DEF Balanced, Trackable
<1>1. /\ x.adds \in Nat /\ x.replaces \in Nat /\ x.shares_added \in Int
      /\ x.shares_executed \in Int /\ x.shares_cancelled \in Int /\ Ended(x) \in Int
      /\ Left(x) \in Int /\ Cardinality(DOMAIN x.live) \in Nat
      /\ \A r \in DOMAIN x.live : x.live[r].remaining \in Nat
  BY <1>0, AccountTypes, LivesAreFinite
<1>2. y = IF executed THEN [z EXCEPT !.shares_executed = @ + qty]
          ELSE [z EXCEPT !.shares_cancelled = @ + qty]
  BY DEF Followed
<1>3. /\ past = IF ref \notin DOMAIN x.live THEN qty
                ELSE IF qty < x.live[ref].remaining THEN 0 ELSE qty - x.live[ref].remaining
  BY DEF Beyond
<1>4. b.type \notin {"A", "D", "U", "P", "Q", "H"}
  OBVIOUS
<1>5. ASSUME NEW v, v.live = z.live,
             IF ref \notin DOMAIN x.live THEN z.live = x.live
             ELSE IF qty < x.live[ref].remaining THEN Shortened(z, x, ref, qty)
             ELSE Ceased(z, x, ref)
      PROVE  LivesAfter(v, x, b)
  BY <1>4, <1>5 DEF LivesAfter, Shortened, Ceased
<1> HIDE DEF ref, qty, executed, y, past
<1>6. /\ z \in MicroType /\ IsFiniteSet(DOMAIN z.live) /\ past \in Int
      /\ z.adds + z.replaces = Ended(z) + Cardinality(DOMAIN z.live)
      /\ z.shares_added = x.shares_added /\ z.shares_executed = x.shares_executed
      /\ z.shares_cancelled = x.shares_cancelled /\ Left(z) = Left(x) - (qty - past)
      /\ IF ref \notin DOMAIN x.live THEN z.live = x.live
         ELSE IF qty < x.live[ref].remaining THEN Shortened(z, x, ref, qty)
         ELSE Ceased(z, x, ref)
  <2>1. CASE ref \notin DOMAIN x.live
    <3>1. z = x
      BY <2>1 DEF Reduced
    <3>2. past = qty
      BY <1>3, <2>1
    <3> HIDE DEF z
    <3> QED BY <1>0, <1>1, <2>1, <3>1, <3>2
  <2>2. CASE ref \in DOMAIN x.live /\ qty < x.live[ref].remaining
    <3>1. /\ z \in MicroType /\ DOMAIN z.live = DOMAIN x.live
          /\ \A r \in DOMAIN x.live \ {ref} : z.live[r] = x.live[r]
          /\ z.live[ref].remaining = x.live[ref].remaining - qty
          /\ z.exits = x.exits /\ z.adds = x.adds /\ z.replaces = x.replaces
          /\ z.shares_added = x.shares_added
          /\ z.shares_executed = x.shares_executed
          /\ z.shares_cancelled = x.shares_cancelled
      BY <1>0, <2>2, ReducedLowers
    <3> HIDE DEF z
    <3>2. Shortened(z, x, ref, qty)
      BY <2>2, <3>1 DEF Shortened
    <3>3. IsFiniteSet(DOMAIN z.live) /\ Left(z) = Left(x) - qty
      BY <1>0, <3>1, <3>2, OneLifeShorter
    <3>4. Ended(z) = Ended(x)
      BY <3>1 DEF Ended
    <3>5. past = 0
      BY <1>3, <2>2
    <3> QED BY <1>0, <2>2, <3>1, <3>2, <3>3, <3>4, <3>5
  <2>3. CASE ref \in DOMAIN x.live /\ ~(qty < x.live[ref].remaining)
    <3>0. qty >= x.live[ref].remaining
      BY <1>0, <1>1, <2>3
    <3>1. /\ z \in MicroType /\ DOMAIN z.live = DOMAIN x.live \ {ref}
          /\ \A r \in DOMAIN x.live \ {ref} : z.live[r] = x.live[r]
          /\ Ended(z) = Ended(x) + 1
          /\ z.adds = x.adds /\ z.replaces = x.replaces
          /\ z.shares_added = x.shares_added
          /\ z.shares_executed = x.shares_executed
          /\ z.shares_cancelled = x.shares_cancelled
      BY <1>0, <2>3, <3>0, ReducedEnds
    <3> HIDE DEF z
    <3>2. Ceased(z, x, ref)
      BY <2>3, <3>1 DEF Ceased
    <3>3. /\ IsFiniteSet(DOMAIN z.live)
          /\ Cardinality(DOMAIN z.live) = Cardinality(DOMAIN x.live) - 1
          /\ Left(z) = Left(x) - x.live[ref].remaining
      BY <1>0, <3>1, <3>2, OneLifeLess
    <3>4. past = qty - x.live[ref].remaining /\ x.live[ref].remaining \in Nat
      BY <1>1, <1>3, <2>3
    <3>5. z.adds + z.replaces = Ended(z) + Cardinality(DOMAIN z.live)
      BY <1>0, <1>1, <3>1, <3>3
    <3>6. Left(z) = Left(x) - (qty - past) /\ past \in Int
      BY <1>0, <1>1, <3>3, <3>4
    <3> QED BY <2>3, <3>1, <3>2, <3>3, <3>5, <3>6
  <2> QED BY <2>1, <2>2, <2>3
<1>7. /\ y \in MicroType /\ y.live = z.live /\ y.exits = z.exits
      /\ y.adds = z.adds /\ y.replaces = z.replaces /\ y.shares_added = z.shares_added
      /\ y.shares_executed + y.shares_cancelled = z.shares_executed + z.shares_cancelled + qty
      /\ y.shares_executed \in Int /\ y.shares_cancelled \in Int
  <2> HIDE DEF z
  <2>1. z.shares_executed + qty \in Int /\ z.shares_cancelled + qty \in Int
        /\ z.shares_executed \in Int /\ z.shares_cancelled \in Int
    BY <1>0, <1>6, AccountTypes
  <2>2. CASE executed
    <3>1. y = [z EXCEPT !.shares_executed = z.shares_executed + qty]
      BY <1>2, <2>2
    <3>2. /\ y \in MicroType /\ y.live = z.live /\ y.exits = z.exits
          /\ y.adds = z.adds /\ y.replaces = z.replaces /\ y.shares_added = z.shares_added
          /\ y.shares_executed = z.shares_executed + qty
          /\ y.shares_cancelled = z.shares_cancelled
      BY <1>6, <2>1, <3>1, CounterSet
    <3> QED BY <1>0, <2>1, <3>2
  <2>3. CASE ~executed
    <3>1. y = [z EXCEPT !.shares_cancelled = z.shares_cancelled + qty]
      BY <1>2, <2>3
    <3>2. /\ y \in MicroType /\ y.live = z.live /\ y.exits = z.exits
          /\ y.adds = z.adds /\ y.replaces = z.replaces /\ y.shares_added = z.shares_added
          /\ y.shares_executed = z.shares_executed
          /\ y.shares_cancelled = z.shares_cancelled + qty
      BY <1>6, <2>1, <3>1, CounterSet
    <3> QED BY <1>0, <2>1, <3>2
  <2> QED BY <2>2, <2>3
<1>8. LivesAfter(y, x, b)
  BY <1>5, <1>6, <1>7
<1> HIDE DEF z
<1>9. Ended(y) = Ended(z) /\ Left(y) = Left(z)
  BY <1>7 DEF Ended, Left
<1>10. y.shares_added + (stray + past) = y.shares_executed + y.shares_cancelled + gone + Left(y)
  BY <1>0, <1>1, <1>6, <1>7, <1>9
<1>11. Balanced(y, gone, stray + past)
  BY <1>0, <1>6, <1>7, <1>9, <1>10 DEF Balanced
<1> QED BY <1>8, <1>11 DEF y, past

\* The tracker's totals balance through every message, whether or not it follows
\* the order the message names.
LEMMA BalanceKept ==
  ASSUME NEW x, NEW gone, NEW stray, Balanced(x, gone, stray), NEW b, Trackable(x, b)
  PROVE  LET y == Followed(x, b)
         IN Balanced(y, gone + Removed(x, b), stray + Beyond(x, b)) /\ LivesAfter(y, x, b)
<1> DEFINE y == Followed(x, b)
<1>0. /\ x \in MicroType /\ gone \in Int /\ stray \in Int /\ IsFiniteSet(DOMAIN x.live)
      /\ x.adds + x.replaces = Ended(x) + Cardinality(DOMAIN x.live)
      /\ x.shares_added + stray = x.shares_executed + x.shares_cancelled + gone + Left(x)
  BY DEF Balanced
<1>1. /\ x.adds \in Nat /\ x.replaces \in Nat /\ x.shares_added \in Int
      /\ x.shares_executed \in Int /\ x.shares_cancelled \in Int /\ Ended(x) \in Int
      /\ Left(x) \in Int /\ Cardinality(DOMAIN x.live) \in Nat
      /\ \A r \in DOMAIN x.live : x.live[r].remaining \in Nat
  BY <1>0, AccountTypes, LivesAreFinite
<1>2. /\ b.type \notin {"E", "X"} => stray + Beyond(x, b) = stray
      /\ b.type # "D" => gone + Removed(x, b) = gone
  BY <1>0 DEF Beyond, Removed
<1>3. CASE b.type = "A"
  <2> DEFINE ref == b.ref
             shares == b.order.shares
             z == [x EXCEPT !.adds = @ + 1]
  <2>1. /\ y = Started(z, ref, shares) /\ ref \in Known /\ ref \notin DOMAIN x.live
        /\ shares \in Nat
    BY <1>3 DEF Followed, Trackable
  <2>2. ASSUME Begun(y, x, ref, shares) PROVE LivesAfter(y, x, b)
    BY <1>3, <2>2 DEF LivesAfter
  <2> HIDE DEF ref, shares, y
  <2>3. z \in MicroType /\ z.live = x.live /\ z.exits = x.exits /\ z.adds = x.adds + 1
        /\ z.replaces = x.replaces /\ z.shares_added = x.shares_added
        /\ z.shares_executed = x.shares_executed /\ z.shares_cancelled = x.shares_cancelled
    <3>1. x.adds + 1 \in Nat
      BY <1>1
    <3> QED BY <1>0, <3>1, CounterSet
  <2> HIDE DEF z
  <2>4. /\ y \in MicroType /\ DOMAIN y.live = DOMAIN z.live \cup {ref}
        /\ \A r \in DOMAIN z.live \ {ref} : y.live[r] = z.live[r]
        /\ y.live[ref].remaining = shares
        /\ y.exits = z.exits /\ y.adds = z.adds /\ y.replaces = z.replaces
        /\ y.shares_added = z.shares_added + shares
        /\ y.shares_executed = z.shares_executed
        /\ y.shares_cancelled = z.shares_cancelled
    BY <2>1, <2>3, StartedBegins
  <2>5. Begun(y, x, ref, shares)
    BY <2>1, <2>3, <2>4 DEF Begun
  <2>6. /\ IsFiniteSet(DOMAIN y.live)
        /\ Cardinality(DOMAIN y.live) = Cardinality(DOMAIN x.live) + 1
        /\ Left(y) = Left(x) + shares
    <3>1. IsFiniteSet(DOMAIN x.live) /\ y \in MicroType
      BY <1>0, <2>4
    <3> QED BY <1>0, <2>5, <3>1, OneLifeMore
  <2>7. Ended(y) = Ended(x)
    BY <2>3, <2>4 DEF Ended
  <2>8. y.adds + y.replaces = Ended(y) + Cardinality(DOMAIN y.live)
    <3>1. /\ y.adds = x.adds + 1 /\ y.replaces = x.replaces /\ Ended(y) = Ended(x)
          /\ Cardinality(DOMAIN y.live) = Cardinality(DOMAIN x.live) + 1
      BY <2>3, <2>4, <2>6, <2>7
    <3>2. /\ x.adds \in Nat /\ x.replaces \in Nat /\ Ended(x) \in Int
          /\ Cardinality(DOMAIN x.live) \in Nat
          /\ x.adds + x.replaces = Ended(x) + Cardinality(DOMAIN x.live)
      BY <1>0, <1>1
    <3> QED BY <3>1, <3>2
  <2>9. y.shares_added + stray = y.shares_executed + y.shares_cancelled + gone + Left(y)
    BY <1>0, <1>1, <2>1, <2>3, <2>4, <2>6
  <2>10. Balanced(y, gone, stray)
    BY <1>0, <2>4, <2>6, <2>8, <2>9 DEF Balanced
  <2> QED BY <1>2, <1>3, <2>2, <2>5, <2>10 DEF y
<1>4. CASE b.type \in {"E", "X"}
  BY <1>2, <1>4, ReductionKept
<1>5. CASE b.type = "D"
  <2> DEFINE ref == b.ref
  <2>1. y = ClosedOut(x, ref, "cancelled")
    BY <1>5 DEF Followed
  <2>2. CASE ref \notin DOMAIN x.live
    <3>1. y = x /\ gone + Removed(x, b) = gone
      BY <1>0, <2>1, <2>2 DEF ClosedOut, Removed
    <3>2. LivesAfter(y, x, b)
      BY <1>5, <2>2, <3>1 DEF LivesAfter
    <3> HIDE DEF y
    <3> QED BY <1>2, <1>5, <3>1, <3>2 DEF y
  <2>3. CASE ref \in DOMAIN x.live
    <3>1. Removed(x, b) = x.live[ref].remaining
      BY <1>5, <2>3 DEF Removed
    <3>2. ASSUME Ceased(y, x, ref) PROVE LivesAfter(y, x, b)
      BY <1>5, <2>3, <3>2 DEF LivesAfter
    <3> HIDE DEF y, ref
    <3>3. /\ y \in MicroType /\ y.live = TrackedWithout(x.live, ref)
          /\ Ended(y) = Ended(x) + 1
          /\ y.adds = x.adds /\ y.replaces = x.replaces
          /\ y.shares_added = x.shares_added /\ y.shares_executed = x.shares_executed
          /\ y.shares_cancelled = x.shares_cancelled
      <4>1. "cancelled" \in Exits
        BY DEF Exits
      <4> QED BY <1>0, <2>1, <2>3, <4>1, ClosedOutEnds
    <3>4. Ceased(y, x, ref)
      BY <2>3, <3>3 DEF Ceased, TrackedWithout
    <3>5. /\ IsFiniteSet(DOMAIN y.live)
          /\ Cardinality(DOMAIN y.live) = Cardinality(DOMAIN x.live) - 1
          /\ Left(y) = Left(x) - x.live[ref].remaining
      BY <1>0, <3>3, <3>4, OneLifeLess
    <3>6. x.live[ref].remaining \in Nat
      BY <1>1, <2>3
    <3>7. y.adds + y.replaces = Ended(y) + Cardinality(DOMAIN y.live)
      BY <1>0, <1>1, <3>3, <3>5
    <3>8. /\ gone + Removed(x, b) \in Int
          /\ y.shares_added + stray = y.shares_executed + y.shares_cancelled
                                        + (gone + Removed(x, b)) + Left(y)
      BY <1>0, <1>1, <3>1, <3>3, <3>5, <3>6
    <3>9. Balanced(y, gone + Removed(x, b), stray)
      BY <1>0, <3>3, <3>5, <3>7, <3>8 DEF Balanced
    <3> QED BY <1>2, <1>5, <3>2, <3>4, <3>9 DEF y
  <2> QED BY <2>2, <2>3
<1>6. CASE b.type = "U"
  <2> DEFINE old == b.ref
             new == b.new
             shares == b.shares
             a == [x EXCEPT !.shares_cancelled = @ + x.live[old].remaining]
             v == IF old \in DOMAIN x.live THEN ClosedOut(a, old, "replaced") ELSE x
             c == [v EXCEPT !.replaces = @ + 1]
  <2>1. /\ y = Started(c, new, shares) /\ new \in Known /\ new \notin DOMAIN x.live
        /\ shares \in Nat /\ new # old
    BY <1>6 DEF Followed, ReplacedBy, Trackable
  <2>2. ASSUME DOMAIN y.live = (DOMAIN x.live \ {old}) \cup {new},
               \A r \in DOMAIN x.live \ {old} : y.live[r] = x.live[r],
               y.live[new].remaining = shares
        PROVE  LivesAfter(y, x, b)
    BY <1>6, <2>2 DEF LivesAfter
  <2> HIDE DEF old, new, shares, y
  <2>3. /\ v \in MicroType /\ IsFiniteSet(DOMAIN v.live) /\ DOMAIN v.live = DOMAIN x.live \ {old}
        /\ \A r \in DOMAIN v.live : v.live[r] = x.live[r]
        /\ v.adds + v.replaces = Ended(v) + Cardinality(DOMAIN v.live)
        /\ v.shares_added = x.shares_added /\ v.shares_executed = x.shares_executed
        /\ v.shares_cancelled + Left(v) = x.shares_cancelled + Left(x)
    <3>1. CASE old \notin DOMAIN x.live
      <4>1. v = x
        BY <3>1
      <4> HIDE DEF v
      <4> QED BY <1>0, <3>1, <4>1
    <3>2. CASE old \in DOMAIN x.live
      <4> DEFINE rem == x.live[old].remaining
      <4>1. v = ClosedOut(a, old, "replaced") /\ rem \in Nat
        BY <1>1, <3>2
      <4>2. /\ a \in MicroType /\ a.live = x.live /\ a.exits = x.exits
            /\ a.adds = x.adds /\ a.replaces = x.replaces /\ a.shares_added = x.shares_added
            /\ a.shares_executed = x.shares_executed
            /\ a.shares_cancelled = x.shares_cancelled + rem
        <5>1. x.shares_cancelled + rem \in Int
          BY <1>1, <4>1
        <5> HIDE DEF rem
        <5>2. a = [x EXCEPT !.shares_cancelled = x.shares_cancelled + rem]
          BY DEF rem
        <5> HIDE DEF a
        <5> QED BY <1>0, <5>1, <5>2, CounterSet
      <4> HIDE DEF a, v
      <4>3. /\ v \in MicroType /\ v.live = TrackedWithout(a.live, old)
            /\ Ended(v) = Ended(a) + 1
            /\ v.adds = a.adds /\ v.replaces = a.replaces
            /\ v.shares_added = a.shares_added /\ v.shares_executed = a.shares_executed
            /\ v.shares_cancelled = a.shares_cancelled
        <5>1. old \in DOMAIN a.live /\ "replaced" \in Exits
          BY <3>2, <4>2 DEF Exits
        <5> QED BY <4>1, <4>2, <5>1, ClosedOutEnds
      <4>4. Ceased(v, x, old)
        BY <3>2, <4>2, <4>3 DEF Ceased, TrackedWithout
      <4>5. /\ IsFiniteSet(DOMAIN v.live)
            /\ Cardinality(DOMAIN v.live) = Cardinality(DOMAIN x.live) - 1
            /\ Left(v) = Left(x) - rem
        BY <1>0, <4>3, <4>4, OneLifeLess
      <4>6. Ended(a) = Ended(x)
        BY <4>2 DEF Ended
      <4>7. v.adds + v.replaces = Ended(v) + Cardinality(DOMAIN v.live)
        BY <1>0, <1>1, <4>2, <4>3, <4>5, <4>6
      <4>8. v.shares_cancelled + Left(v) = x.shares_cancelled + Left(x)
        <5> HIDE DEF rem
        <5> QED BY <1>1, <4>1, <4>2, <4>3, <4>5
      <4> QED BY <4>2, <4>3, <4>4, <4>5, <4>7, <4>8 DEF Ceased
    <3> QED BY <3>1, <3>2
  <2> HIDE DEF v
  <2>4. v.adds \in Nat /\ v.replaces \in Nat /\ v.replaces + 1 \in Nat /\ Ended(v) \in Int
        /\ v.shares_cancelled \in Int /\ Left(v) \in Int /\ Cardinality(DOMAIN v.live) \in Nat
    <3>1. v \in MicroType /\ IsFiniteSet(DOMAIN v.live)
      BY <2>3
    <3>2. v.adds \in Nat /\ v.replaces \in Nat /\ Ended(v) \in Int /\ v.shares_cancelled \in Int
      BY <3>1, AccountTypes
    <3>3. Left(v) \in Int /\ Cardinality(DOMAIN v.live) \in Nat
      BY <3>1, LivesAreFinite
    <3> QED BY <3>2, <3>3
  <2>5. /\ c \in MicroType /\ c.live = v.live /\ c.exits = v.exits
        /\ c.adds = v.adds /\ c.replaces = v.replaces + 1 /\ c.shares_added = v.shares_added
        /\ c.shares_executed = v.shares_executed
        /\ c.shares_cancelled = v.shares_cancelled
    BY <2>3, <2>4, CounterSet
  <2> HIDE DEF c
  <2>6. /\ y \in MicroType /\ DOMAIN y.live = DOMAIN c.live \cup {new}
        /\ \A r \in DOMAIN c.live \ {new} : y.live[r] = c.live[r]
        /\ y.live[new].remaining = shares
        /\ y.exits = c.exits /\ y.adds = c.adds /\ y.replaces = c.replaces
        /\ y.shares_added = c.shares_added + shares
        /\ y.shares_executed = c.shares_executed
        /\ y.shares_cancelled = c.shares_cancelled
    BY <2>1, <2>5, StartedBegins
  <2>7. Begun(y, v, new, shares)
    BY <2>1, <2>3, <2>5, <2>6 DEF Begun
  <2>8. /\ IsFiniteSet(DOMAIN y.live)
        /\ Cardinality(DOMAIN y.live) = Cardinality(DOMAIN v.live) + 1
        /\ Left(y) = Left(v) + shares
    <3>1. IsFiniteSet(DOMAIN v.live) /\ v \in MicroType /\ y \in MicroType
      BY <2>3, <2>6
    <3> QED BY <2>7, <3>1, OneLifeMore
  <2>9. Ended(y) = Ended(v)
    BY <2>5, <2>6 DEF Ended
  <2>10. y.adds + y.replaces = Ended(y) + Cardinality(DOMAIN y.live)
    BY <2>3, <2>4, <2>5, <2>6, <2>8, <2>9
  <2>11. y.shares_added + stray = y.shares_executed + y.shares_cancelled + gone + Left(y)
    BY <1>0, <1>1, <2>1, <2>3, <2>4, <2>5, <2>6, <2>8
  <2>12. Balanced(y, gone, stray)
    BY <1>0, <2>6, <2>8, <2>10, <2>11 DEF Balanced
  <2>13. LivesAfter(y, x, b)
    BY <2>1, <2>2, <2>3, <2>5, <2>6
  <2> QED BY <1>2, <1>6, <2>12, <2>13 DEF y
<1>7. CASE b.type \in {"P", "Q", "H"}
  <2>1. y = x
    BY <1>7 DEF Followed
  <2>2. LivesAfter(y, x, b)
    BY <1>7, <2>1 DEF LivesAfter
  <2> QED BY <1>2, <1>7, <2>1, <2>2
<1> QED BY <1>3, <1>4, <1>5, <1>6, <1>7 DEF Trackable

\* The body of a message without a book effect.
LEMMA StrayBody ==
  ASSUME NEW m \in LegalMessages, m.type = "B"
  PROVE  LET b == m.body IN
         /\ b.type \in {"E", "X", "D", "U", "Q"}
         /\ b.type # "Q" => b.ref \in Missed
         /\ b.type \in {"E", "X"} => b.qty \in Nat
         /\ b.type = "U" => b.new \in Missed /\ b.shares \in Nat
<1>1. m.body \in Strays
  BY DEF LegalMessages
<1>2. LotSizes \subseteq Nat
  BY SessionFeedAssumption
<1>3. \/ m.body.type = "Q"
      \/ m.body.type \in {"E", "X"} /\ m.body.ref \in Missed /\ m.body.qty \in LotSizes
      \/ m.body.type = "D" /\ m.body.ref \in Missed
      \/ /\ m.body.type = "U" /\ m.body.ref \in Missed /\ m.body.new \in Missed
         /\ m.body.shares \in LotSizes
  BY <1>1 DEF Strays
<1> QED BY <1>2, <1>3

\* Whatever the message, the tracker is given something it can follow, and the
\* histories count what it took.
LEMMA Followable ==
  ASSUME FeedOK, Mirrors(micro, resting), NEW m \in LegalMessages, Effect(m),
         Body(m).type = "U" => Body(m).new \notin DOMAIN micro.live,
         micro \in MicroType, IsFiniteSet(DOMAIN micro.live)
  PROVE  /\ Trackable(micro, Body(m))
         /\ DeletedBy(m) = Removed(micro, Body(m))
         /\ StrayedBy(m) = Beyond(micro, Body(m))
<1> DEFINE b == Body(m)
<1>1. CASE m.type = "B"
  <2>1. b = m.body
    BY <1>1 DEF Body
  <2>2. /\ b.type \in {"E", "X", "D", "U", "Q"}
        /\ b.type \in {"E", "X"} => b.qty \in Nat
        /\ b.type = "U" => b.new \in Missed /\ b.shares \in Nat
    BY <1>1, <2>1, StrayBody
  <2>3. b.type = "U" => b.new # b.ref
    BY <1>1, <2>1 DEF LegalMessages, Strays
  <2>4. Trackable(micro, b)
    BY <2>2, <2>3 DEF Trackable, Known
  <2>5. DeletedBy(m) = Removed(micro, b) /\ StrayedBy(m) = Beyond(micro, b)
    BY <1>1, <2>1 DEF DeletedBy, StrayedBy, Removed, Beyond
  <2> QED BY <2>4, <2>5
<1>2. CASE m.type # "B"
  <2>1. b = m
    BY <1>2 DEF Body
  <2>2. \A r \in DOMAIN resting : /\ r \in DOMAIN micro.live
                                  /\ micro.live[r].remaining = resting[r].shares
                                  /\ resting[r].shares \in Nat
    BY DEF Mirrors, FeedOK, Order
  <2>3. \A r \in Refs : r \notin DOMAIN resting => r \notin DOMAIN micro.live
    BY SessionFeedAssumption DEF Mirrors
  <2>4. CASE m.type = "A"
    <3>1. m.ref \in Refs /\ m.ref \notin DOMAIN micro.live /\ m.order.shares \in Nat
      BY <2>3, <2>4 DEF Effect, Joined, Order
    <3>2. Trackable(micro, m)
      BY <2>4, <3>1 DEF Trackable, Known
    <3> QED BY <2>1, <2>4, <3>2 DEF DeletedBy, StrayedBy, Removed, Beyond
  <2>5. CASE m.type \in {"E", "X"}
    <3>1. /\ m.ref \in DOMAIN micro.live /\ m.qty \in Nat
          /\ m.qty <= micro.live[m.ref].remaining /\ micro.live[m.ref].remaining \in Nat
      BY <2>2, <2>5 DEF Effect
    <3>2. Trackable(micro, m)
      BY <2>5, <3>1 DEF Trackable
    <3>3. Beyond(micro, m) = 0
      BY <3>1 DEF Beyond
    <3> QED BY <2>1, <2>5, <3>2, <3>3 DEF DeletedBy, StrayedBy, Removed
  <2>6. CASE m.type = "D"
    <3>1. m.ref \in DOMAIN micro.live /\ micro.live[m.ref].remaining = resting[m.ref].shares
      BY <2>2, <2>6 DEF Effect, Gone
    <3>2. Trackable(micro, m)
      BY <2>6 DEF Trackable
    <3> QED BY <2>1, <2>6, <3>1, <3>2 DEF DeletedBy, StrayedBy, Removed, Beyond
  <2>7. CASE m.type = "U"
    <3>1. /\ m.new \in Refs /\ m.new \notin DOMAIN micro.live /\ m.shares \in Nat
          /\ m.ref \in DOMAIN micro.live
      BY <2>2, <2>3, <2>7, SessionFeedAssumption DEF Effect, Swapped
    <3>2. Trackable(micro, m)
      BY <2>7, <3>1 DEF Trackable, Known
    <3> QED BY <2>1, <2>7, <3>2 DEF DeletedBy, StrayedBy, Removed, Beyond
  <2>8. CASE m.type \in {"P", "H"}
    <3>1. Trackable(micro, m)
      BY <2>8 DEF Trackable
    <3> QED BY <2>1, <2>8, <3>1 DEF DeletedBy, StrayedBy, Removed, Beyond
  <2> QED BY <1>2, <2>4, <2>5, <2>6, <2>7, <2>8 DEF Effect
<1> QED BY <1>1, <1>2

\* The lives stay those of the book, and of orders the book never heard of.
LEMMA MirrorKept ==
  ASSUME FeedOK, NEW x, Mirrors(x, resting), NEW m \in LegalMessages, Effect(m),
         NEW y, LivesAfter(y, x, Body(m))
  PROVE  Mirrors(y, resting')
<1> USE SessionFeedAssumption
<1> DEFINE b == Body(m)
<1>1. CASE m.type = "B"
  <2>1. b = m.body /\ resting' = resting
    BY <1>1 DEF Body, Effect
  <2>2. /\ b.type \in {"E", "X", "D", "U", "Q"}
        /\ b.type # "Q" => b.ref \in Missed
        /\ b.type = "U" => b.new \in Missed
    BY <1>1, <2>1, StrayBody
  <2> HIDE DEF b
  <2>3. b.type # "Q" => b.ref \notin DOMAIN resting
    BY <2>2 DEF FeedOK
  <2>4. CASE b.type \in {"E", "X"}
    BY <2>1, <2>2, <2>3, <2>4 DEF LivesAfter, Mirrors, Shortened, Ceased, b
  <2>5. CASE b.type = "D"
    BY <2>1, <2>2, <2>3, <2>5 DEF LivesAfter, Mirrors, Ceased, b
  <2>6. CASE b.type = "U"
    BY <2>1, <2>2, <2>3, <2>6 DEF LivesAfter, Mirrors, b
  <2>7. CASE b.type = "Q"
    BY <2>1, <2>7 DEF LivesAfter, Mirrors, b
  <2> QED BY <2>2, <2>4, <2>5, <2>6, <2>7
<1>2. CASE m.type # "B"
  <2>1. b = m
    BY <1>2 DEF Body
  <2>2. CASE m.type = "A"
    BY <2>1, <2>2 DEF LivesAfter, Mirrors, Effect, Joined, Begun, Kept
  <2>3. CASE m.type \in {"E", "X"}
    <3>1. /\ m.ref \in DOMAIN x.live /\ x.live[m.ref].remaining = resting[m.ref].shares
          /\ resting[m.ref].shares \in Nat /\ m.ref \in DOMAIN resting
      BY <2>3 DEF Effect, Mirrors, FeedOK, Order
    <3>2. CASE Lowered(m.ref, m.qty)
      <4>1. Shortened(y, x, m.ref, m.qty)
        BY <2>1, <2>3, <3>1, <3>2 DEF LivesAfter, Lowered
      <4>2. resting'[m.ref].shares = resting[m.ref].shares - m.qty
        BY <3>1, <3>2 DEF Lowered, FeedOK, Order
      <4> QED BY <3>1, <3>2, <4>1, <4>2 DEF Mirrors, Shortened, Lowered, Kept
    <3>3. CASE m.qty = resting[m.ref].shares /\ Gone(m.ref)
      <4>1. Ceased(y, x, m.ref)
        BY <2>1, <2>3, <3>1, <3>3 DEF LivesAfter
      <4> QED BY <3>3, <4>1 DEF Mirrors, Ceased, Gone, Kept
    <3> QED BY <2>3, <3>2, <3>3 DEF Effect
  <2>4. CASE m.type = "D"
    <3>1. Ceased(y, x, m.ref) /\ Gone(m.ref)
      BY <2>1, <2>4 DEF LivesAfter, Effect, Mirrors, Gone
    <3> QED BY <3>1 DEF Mirrors, Ceased, Gone, Kept
  <2>5. CASE m.type = "U"
    <3>1. /\ Swapped(m.ref, m.new, Replacement(m))
          /\ DOMAIN y.live = (DOMAIN x.live \ {m.ref}) \cup {m.new}
          /\ \A r \in DOMAIN x.live \ {m.ref} : y.live[r] = x.live[r]
          /\ y.live[m.new].remaining = m.shares
      BY <2>1, <2>5 DEF LivesAfter, Effect
    <3>2. Replacement(m).shares = m.shares
      BY <3>1 DEF Replacement, Swapped, FeedOK, Order
    <3> QED BY <3>1, <3>2 DEF Mirrors, Swapped, Kept
  <2>6. CASE m.type \in {"P", "H"}
    BY <2>1, <2>6 DEF LivesAfter, Effect, Mirrors
  <2> QED BY <1>2, <2>2, <2>3, <2>4, <2>5, <2>6 DEF Effect
<1> QED BY <1>1, <1>2

----------------------------------------------------------------------------
(* The sampling clock.                                                     *)

LEMMA DivisionBounds ==
  ASSUME NEW a \in Nat, NEW e \in Nat \ {0}
  PROVE  /\ a \div e \in Nat
         /\ e * (a \div e) <= a /\ a < e * (a \div e) + e
<1>1. a % e \in 0..e - 1 /\ a \div e \in Int /\ a = e * (a \div e) + (a % e)
  OBVIOUS
<1>2. a \div e >= 0
  OBVIOUS
<1> DEFINE q == a \div e
           r == a % e
<1> HIDE DEF q, r
<1>3. e * q \in Int
  BY <1>1 DEF q
<1>4. q \in Nat /\ e * q <= a /\ a < e * q + e
  BY <1>1, <1>2, <1>3 DEF q, r
<1> QED BY <1>4 DEF q

\* The quotient is the largest number of whole intervals that fit.
LEMMA QuotientIsLargest ==
  ASSUME NEW a \in Nat, NEW e \in Nat \ {0}, NEW k \in Nat, e * k <= a
  PROVE  k <= a \div e
<1> DEFINE q == a \div e
<1>1. q \in Nat /\ a < e * q + e
  BY DivisionBounds
<1> HIDE DEF q
<1>2. ASSUME k > q PROVE FALSE
  <2>1. k >= q + 1
    BY <1>1, <1>2
  <2>2. e * k >= e * (q + 1)
    BY <1>1, <2>1
  <2>3. e * (q + 1) = e * q + e
    BY <1>1
  <2>4. e * q \in Int /\ e * k \in Int
    BY <1>1
  <2> QED BY <1>1, <2>2, <2>3, <2>4
<1>3. k <= q
  BY <1>1, <1>2
<1> QED BY <1>3 DEF q

\* A later time is in the same interval or in a later one, and j intervals on the
\* quotient is j less.
LEMMA QuotientGrows ==
  ASSUME NEW a \in Nat, NEW b \in Nat, a <= b, NEW e \in Nat \ {0}
  PROVE  a \div e <= b \div e
<1> DEFINE k == a \div e
<1>1. k \in Nat /\ e * k <= a
  BY DivisionBounds
<1> HIDE DEF k
<1>2. e * k \in Nat
  BY <1>1
<1>3. e * k <= b
  BY <1>1, <1>2
<1>4. k <= b \div e
  BY <1>1, <1>3, QuotientIsLargest
<1> QED BY <1>4 DEF k

LEMMA QuotientFallsBy ==
  ASSUME NEW a \in Nat, NEW e \in Nat \ {0}, NEW j \in Nat, e * j <= a
  PROVE  j <= a \div e /\ (a - e * j) \div e = a \div e - j
<1> DEFINE q == a \div e
           b == a - e * j
           p == b \div e
<1>1. e * j \in Nat
  OBVIOUS
<1>2. b \in Nat
  BY <1>1
<1>3. j <= q
  BY QuotientIsLargest
<1>4. q \in Nat /\ e * q <= a
  BY DivisionBounds
<1> HIDE DEF q, b
<1>5. p \in Nat /\ e * p <= b
  BY <1>2, DivisionBounds
<1> HIDE DEF p
<1>6. e * (p + j) = e * p + e * j /\ e * (q - j) = e * q - e * j
      /\ e * p \in Int /\ e * q \in Int
  BY <1>4, <1>5
<1>7. e * (p + j) <= a /\ e * (q - j) <= b
  BY <1>1, <1>2, <1>4, <1>5, <1>6 DEF b
<1>8. p + j <= q
  <2>1. p + j \in Nat
    BY <1>5
  <2> QED BY <1>7, <2>1, QuotientIsLargest DEF q
<1>9. q - j <= p
  <2>1. q - j \in Nat
    BY <1>3, <1>4
  <2> QED BY <1>2, <1>7, <2>1, QuotientIsLargest DEF p
<1>10. p = q - j
  BY <1>4, <1>5, <1>8, <1>9
<1> QED BY <1>3, <1>10 DEF p, q, b

\* Before the next boundary a time is in the interval of the last one, and the
\* boundary stands; at or after it the interval is a new one, and the boundary
\* that follows is the same whether it is counted from this one or from the first.
LEMMA NextBoundaryIsNext ==
  ASSUME NEW first \in Nat, NEW last \in Nat, NEW ts \in Nat, first <= last, last <= ts
  PROVE  LET next == NextBoundary(first, last)
             grew == (last - first) \div SampleEvery < (ts - first) \div SampleEvery
         IN /\ next \in Nat \ {0}
            /\ ts < next => ~grew /\ NextBoundary(first, ts) = next
            /\ ts >= next => grew /\ NextBoundary(next, ts) = NextBoundary(first, ts)
<1> DEFINE e == SampleEvery
           a == last - first
           b == ts - first
           p == a \div e
           q == b \div e
           next == first + e * (p + 1)
<1>1. e \in Nat \ {0} /\ a \in Nat /\ b \in Nat /\ a <= b
  BY MicroExportAssumption
<1>2. NextBoundary(first, last) = next /\ NextBoundary(first, ts) = first + e * (q + 1)
  BY DEF NextBoundary
<1>3. ts = first + b
  OBVIOUS
<1> HIDE DEF e, a, b
<1>4. p \in Nat /\ q \in Nat /\ p <= q /\ e * q <= b
  BY <1>1, DivisionBounds, QuotientGrows
<1>5. e * (p + 1) \in Nat /\ e * (p + 1) > 0 /\ e * (p + 1) = e * p + e /\ e * p \in Nat
  BY <1>1, <1>4
<1> DEFINE s == e * (p + 1)
<1>6. s \in Nat \ {0} /\ next = first + s
  BY <1>5
<1>7. CASE b < s
  <2>1. ~(p < q)
    <3> SUFFICES ASSUME p < q PROVE FALSE
      OBVIOUS
    <3>1. p + 1 <= q
      BY <1>4
    <3>2. e * (p + 1) <= e * q
      BY <1>1, <1>4, <3>1
    <3> DEFINE u == e * q
    <3>3. u \in Nat /\ s <= u /\ u <= b
      BY <1>1, <1>4, <3>2
    <3> HIDE DEF s, u
    <3> QED BY <1>1, <1>6, <1>7, <3>3
  <2>2. p = q
    BY <1>4, <2>1
  <2> HIDE DEF p, q
  <2>3. ts < next
    <3> HIDE DEF s
    <3> QED BY <1>1, <1>3, <1>6, <1>7
  <2> HIDE DEF s, next
  <2>4. ~(ts >= next) /\ next \in Nat \ {0}
    BY <1>6, <2>3
  <2>5. NextBoundary(first, ts) = next
    BY <1>2, <2>2 DEF next
  <2> QED BY <1>2, <2>1, <2>4, <2>5 DEF p, q, a, b, e
<1>8. CASE b >= s
  <2>1. p + 1 <= q /\ (b - s) \div e = q - (p + 1)
    <3>1. p + 1 \in Nat /\ e * (p + 1) <= b
      BY <1>4, <1>8
    <3> HIDE DEF p
    <3> QED BY <1>1, <3>1, QuotientFallsBy
  <2>2. p < q
    BY <1>4, <2>1
  <2>3. ts >= next /\ ts - next = b - s
    <3> HIDE DEF s
    <3> QED BY <1>1, <1>3, <1>6, <1>8
  <2>4. NextBoundary(next, ts) = next + e * ((q - (p + 1)) + 1)
    BY <2>1, <2>3 DEF NextBoundary, e
  <2> HIDE DEF p, q
  <2>5. e * ((q - (p + 1)) + 1) = e * (q + 1) - s /\ e * (q + 1) \in Int
    BY <1>1, <1>4
  <2> HIDE DEF s
  <2>6. NextBoundary(next, ts) = first + e * (q + 1)
    BY <1>6, <2>4, <2>5
  <2> HIDE DEF next
  <2>7. NextBoundary(next, ts) = NextBoundary(first, ts)
    BY <1>2, <2>6 DEF q
  <2>8. ~(ts < next) /\ next \in Nat \ {0}
    <3>1. next \in Nat \ {0}
      BY <1>6
    <3> QED BY <2>3, <3>1
  <2> QED BY <1>2, <2>2, <2>3, <2>7, <2>8 DEF p, q, a, b, e
<1>9. b < s \/ b >= s
  BY <1>1, <1>6
<1> QED BY <1>7, <1>8, <1>9

Seen(bk) == {l \in Locates : TwoSided(bk, l)}

LEMMA SampledTypes ==
  ASSUME NEW x \in MicroType, NEW bk, NEW ts \in Nat
  PROVE  LET y == Sampled(x, bk, ts)
             from == IF x.next_sample = 0 THEN ts ELSE x.next_sample
         IN /\ y \in MicroType /\ y.live = x.live /\ y.exits = x.exits
            /\ y.adds = x.adds /\ y.replaces = x.replaces
            /\ y.shares_added = x.shares_added /\ y.shares_executed = x.shares_executed
            /\ y.shares_cancelled = x.shares_cancelled
            /\ IF ts < SampleOpen \/ ts >= SampleClose \/ ts < from THEN y = x
               ELSE /\ y.samples = x.samples + Cardinality(Seen(bk))
                    /\ y.next_sample = NextBoundary(from, ts)
<1> DEFINE from == IF x.next_sample = 0 THEN ts ELSE x.next_sample
           seen == Seen(bk)
           bad  == {l \in seen : Best(bk, l, "S") <= Best(bk, l, "B")}
           y == Sampled(x, bk, ts)
<1>1. from \in Nat /\ x.samples \in Nat /\ x.crossed \in Nat /\ x.next_sample \in Nat
  BY DEF MicroType
<1>2. CASE ts < SampleOpen \/ ts >= SampleClose \/ ts < from
  <2>1. y = x
    BY <1>2 DEF Sampled
  <2> QED BY <1>2, <2>1
<1>3. CASE ~(ts < SampleOpen \/ ts >= SampleClose \/ ts < from)
  <2>1. Cardinality(seen) \in Nat /\ Cardinality(bad) \in Nat
    <3>1. seen \subseteq Locates /\ bad \subseteq Locates /\ IsFiniteSet(Locates)
      BY SessionFeedAssumption DEF Seen
    <3> HIDE DEF seen, bad
    <3> QED BY <3>1, FS_Subset, FS_CardinalityType
  <2> DEFINE n == NextBoundary(from, ts)
  <2>2. n \in Nat
    <3>1. from <= ts
      BY <1>1, <1>3
    <3> HIDE DEF from
    <3> QED BY <1>1, <3>1, NextBoundaryIsNext
  <2> DEFINE s == x.samples + Cardinality(seen)
             c == x.crossed + Cardinality(bad)
  <2>3. s \in Nat /\ c \in Nat
    <3> HIDE DEF seen, bad
    <3> QED BY <1>1, <2>1
  <2>4. y = [x EXCEPT !.next_sample = n, !.samples = @ + Cardinality(seen),
                      !.crossed = @ + Cardinality(bad)]
    BY <1>3 DEF Sampled, Seen
  <2>5. y = [x EXCEPT !.next_sample = n, !.samples = s, !.crossed = c]
    <3> HIDE DEF n, seen, bad, y
    <3> QED BY <2>4 DEF MicroType
  <2> HIDE DEF n, s, c, y
  <2>6. /\ y \in MicroType /\ y.live = x.live /\ y.exits = x.exits
        /\ y.adds = x.adds /\ y.replaces = x.replaces
        /\ y.shares_added = x.shares_added /\ y.shares_executed = x.shares_executed
        /\ y.shares_cancelled = x.shares_cancelled
        /\ y.samples = s /\ y.next_sample = n
    BY <2>2, <2>3, <2>5 DEF MicroType
  <2> QED BY <1>3, <2>6 DEF y, n, s
<1> QED BY <1>2, <1>3

\* The clock is where the first and the last message within the hours put it.
OnTheGrid(x, h, t) ==
  /\ h.any \in BOOLEAN /\ h.first \in Nat /\ h.last \in Nat
  /\ ~h.any => x.next_sample = 0
  /\ h.any => /\ h.first <= h.last /\ h.last <= t
              /\ x.next_sample = NextBoundary(h.first, h.last)

\* The hours go from h to g in a new interval of the grid.
NextInterval(h, g) ==
  /\ g.any
  /\ h.any => (h.last - h.first) \div SampleEvery < (g.last - g.first) \div SampleEvery

LEMMA GridKept ==
  ASSUME NEW x \in MicroType, NEW h, NEW t \in Nat, NEW ts \in Nat, t <= ts,
         OnTheGrid(x, h, t), NEW bk
  PROVE  LET y == Sampled(x, bk, ts)
         IN /\ OnTheGrid(y, Hours(h, ts), ts)
            /\ y.samples = x.samples
                 + IF NextInterval(h, Hours(h, ts)) THEN Cardinality(Seen(bk)) ELSE 0
<1> DEFINE y == Sampled(x, bk, ts)
           g == Hours(h, ts)
           from == IF x.next_sample = 0 THEN ts ELSE x.next_sample
<1>0. x.samples \in Nat /\ x.samples + 0 = x.samples /\ x.next_sample \in Nat
  BY DEF MicroType
<1>1. IF ts < SampleOpen \/ ts >= SampleClose \/ ts < from THEN y = x
      ELSE /\ y.samples = x.samples + Cardinality(Seen(bk))
           /\ y.next_sample = NextBoundary(from, ts)
  BY SampledTypes
<1> HIDE DEF y
<1>2. CASE ts < SampleOpen \/ ts >= SampleClose
  <2>1. g = h /\ y = x
    BY <1>1, <1>2 DEF Hours
  <2>2. ~NextInterval(h, h)
    <3> DEFINE q == (h.last - h.first) \div SampleEvery
    <3>1. h.any => q \in Nat
      <4> SUFFICES ASSUME h.any PROVE q \in Nat
        OBVIOUS
      <4>1. h.last - h.first \in Nat /\ SampleEvery \in Nat \ {0}
        BY MicroExportAssumption DEF OnTheGrid
      <4> QED BY <4>1, DivisionBounds
    <3>2. h.any => ~(q < q)
      <4> HIDE DEF q
      <4> QED BY <3>1
    <3> QED BY <3>2 DEF NextInterval
  <2>3. OnTheGrid(x, h, ts)
    BY DEF OnTheGrid
  <2> HIDE DEF g
  <2> QED BY <1>0, <2>1, <2>2, <2>3 DEF y, g
<1>3. CASE ~(ts < SampleOpen \/ ts >= SampleClose)
  <2>1. g = [any |-> TRUE, first |-> IF h.any THEN h.first ELSE ts, last |-> ts]
    BY <1>3 DEF Hours
  <2> HIDE DEF g
  <2>2. CASE ~h.any
    <3>1. from = ts /\ g.any /\ g.first = ts /\ g.last = ts
      BY <2>1, <2>2 DEF OnTheGrid
    <3>2. ~(ts < from)
      BY <3>1
    <3>3. y.samples = x.samples + Cardinality(Seen(bk)) /\ y.next_sample = NextBoundary(ts, ts)
      BY <1>1, <1>3, <3>1, <3>2
    <3>4. OnTheGrid(y, g, ts) /\ NextInterval(h, g)
      BY <2>2, <3>1, <3>3 DEF OnTheGrid, NextInterval
    <3> QED BY <3>3, <3>4 DEF y, g
  <2>3. CASE h.any
    <3> DEFINE next == NextBoundary(h.first, h.last)
               grew == (h.last - h.first) \div SampleEvery < (ts - h.first) \div SampleEvery
    <3>1. /\ h.first \in Nat /\ h.last \in Nat /\ h.first <= h.last /\ h.last <= ts
          /\ x.next_sample = next
      BY <2>3 DEF OnTheGrid
    <3>2. /\ next \in Nat \ {0}
          /\ ts < next => ~grew /\ NextBoundary(h.first, ts) = next
          /\ ts >= next => grew /\ NextBoundary(next, ts) = NextBoundary(h.first, ts)
      BY <3>1, NextBoundaryIsNext
    <3>3. g.any /\ g.first = h.first /\ g.last = ts
      BY <2>1, <2>3
    <3>4. NextInterval(h, g) <=> grew
      BY <2>3, <3>3 DEF NextInterval
    <3>5. h.first <= ts
      BY <3>1
    <3>6. from = next
      BY <3>1, <3>2
    <3> HIDE DEF next, grew, from
    <3>7. CASE ts < next
      <4>1. y = x
        BY <1>1, <3>6, <3>7
      <4>2. OnTheGrid(y, g, ts)
        BY <3>1, <3>2, <3>3, <3>5, <3>7, <4>1 DEF OnTheGrid
      <4> QED BY <1>0, <3>2, <3>4, <3>7, <4>1, <4>2 DEF y, g
    <3>8. CASE ts >= next
      <4>1. ~(ts < next)
        BY <3>2, <3>8
      <4>2. y.samples = x.samples + Cardinality(Seen(bk)) /\ y.next_sample = NextBoundary(next, ts)
        BY <1>1, <1>3, <3>6, <4>1
      <4>3. OnTheGrid(y, g, ts)
        BY <3>1, <3>2, <3>3, <3>5, <3>8, <4>2 DEF OnTheGrid
      <4> QED BY <3>2, <3>4, <3>8, <4>2, <4>3 DEF y, g
    <3> QED BY <3>2, <3>7, <3>8
  <2> QED BY <2>2, <2>3 DEF OnTheGrid
<1> QED BY <1>2, <1>3

MicroInv ==
  /\ FeedOK /\ Balanced(micro, deleted, strayed) /\ Mirrors(micro, resting)
  /\ OnTheGrid(micro, hours, now)

\* What a consumer sees of time.
LEMMA TimePasses ==
  ASSUME FeedOK, NEW m, NEW d \in Delays, Delivered(m, now + d)
  PROVE  now' = now + d /\ now' \in Nat /\ now \in Nat /\ now <= now'
<1>1. d \in Nat /\ now \in Nat /\ now' = now + d
  BY SessionFeedAssumption DEF FeedOK, Delivered
<1> QED BY <1>1

LEMMA MicroStarts ==
  ASSUME FeedOK, MicroInit, now = 0
  PROVE  MicroInv
<1> DEFINE all == DOMAIN resting
           live == [r \in all |-> Tracked(resting[r].shares)]
           exits == [e \in Exits |-> 0]
           sum == MapThenSumSet(LAMBDA r : resting[r].shares, all)
<1>1. IsFiniteSet(all) /\ all \subseteq Refs /\ Cardinality(all) \in Nat
  BY FS_CardinalityType DEF FeedOK
<1>2. \A r \in all : /\ resting[r].shares \in Nat
                     /\ Tracked(resting[r].shares) \in TrackRecord
                     /\ Tracked(resting[r].shares).remaining = resting[r].shares
  <2>1. \A r \in all : resting[r].shares \in Nat
    BY DEF FeedOK, Order
  <2> QED BY <2>1 DEF Tracked, TrackRecord
<1>3. sum = SharesOf(all) /\ SharesOf(all) \in Int
  <2>1. all \subseteq DOMAIN resting
    OBVIOUS
  <2>2. IntegersOn(SharesIn(resting), all)
    BY <2>1, SharesAreIntegers
  <2> HIDE DEF all
  <2>3. MapThenSumSet(LAMBDA r : resting[r].shares, all) = Total(SharesIn(resting), all)
    BY <1>1, <2>1, SumOfShares
  <2> QED BY <1>1, <2>2, <2>3, TotalIsInt DEF SharesOf, IntegersOn
<1>4. exits \in [Exits -> Nat] /\ Total(exits, Exits) = 0
  <2>1. exits \in [Exits -> Nat] /\ \A e \in Exits : exits[e] = 0
    OBVIOUS
  <2> HIDE DEF exits
  <2>2. ASSUME NEW S \in SUBSET Exits PROVE Total(exits, S) = 0
    <3> DEFINE C == {s \in SUBSET S : Total(exits, s) # 0}
    <3> SUFFICES ASSUME C # {} PROVE FALSE
      OBVIOUS
    <3>1. \A s \in SUBSET S : IsFiniteSet(s)
      BY ExitsAreFinite, FS_Subset
    <3>2. PICK s \in C : \A t \in C : Cardinality(s) <= Cardinality(t)
      <4>1. \A t \in C : IsFiniteSet(t)
        BY <3>1
      <4> HIDE DEF C
      <4> QED BY <4>1, SmallestExists
    <3>3. s # {}
      BY <3>1, TotalUnfolds
    <3>4. /\ OneOf(s) \in s /\ Total(exits, s) = exits[OneOf(s)] + Total(exits, s \ {OneOf(s)})
      BY <3>1, <3>3, TotalUnfolds, OneOfIsOne
    <3>5. s \ {OneOf(s)} \notin C
      <4>1. /\ Cardinality(s) \in Nat /\ Cardinality(s \ {OneOf(s)}) \in Nat
            /\ Cardinality(s \ {OneOf(s)}) = Cardinality(s) - 1
        BY <3>1, <3>4, OneLess
      <4>2. ~(Cardinality(s) <= Cardinality(s \ {OneOf(s)}))
        BY <4>1
      <4> HIDE DEF C
      <4> QED BY <3>2, <4>2
    <3>6. Total(exits, s \ {OneOf(s)}) = 0 /\ exits[OneOf(s)] = 0
      BY <2>1, <3>4, <3>5
    <3> QED BY <3>4, <3>6
  <2> QED BY <2>1, <2>2
<1> HIDE DEF sum, exits
<1>5. live \in UNION {[S -> TrackRecord] : S \in SUBSET Known}
  <2>1. live \in [all -> TrackRecord]
    BY <1>2
  <2>2. all \subseteq Known
    BY <1>1 DEF Known
  <2> HIDE DEF live, all
  <2> QED BY <2>1, <2>2
<1>6. /\ micro.live = live /\ micro.exits = exits /\ micro.adds = Cardinality(all)
      /\ micro.replaces = 0 /\ micro.shares_added = sum /\ micro.shares_executed = 0
      /\ micro.shares_cancelled = 0 /\ micro.next_sample = 0 /\ micro.samples = 0
      /\ deleted = 0
  BY DEF MicroInit, sum, exits
<1>7. micro \in MicroType
  <2> HIDE DEF all, live
  <2>1. micro = [live |-> live, exits |-> exits, adds |-> Cardinality(all), replaces |-> 0,
                 shares_added |-> sum, shares_executed |-> 0, shares_cancelled |-> 0,
                 next_sample |-> 0, samples |-> 0, crossed |-> 0]
    BY DEF MicroInit, sum, exits, all, live
  <2> QED BY <1>1, <1>3, <1>4, <1>5, <2>1 DEF MicroType
<1>8. Balanced(micro, deleted, strayed)
  <2>1. Ended(micro) = 0 /\ DOMAIN micro.live = all
    BY <1>4, <1>6 DEF Ended
  <2>2. micro.adds + micro.replaces = Ended(micro) + Cardinality(all)
    BY <1>1, <1>6, <2>1
  <2>3. Left(micro) = SharesOf(all)
    <3>1. \A r \in all : RemainingIn(live)[r] = SharesIn(resting)[r]
      BY <1>2 DEF RemainingIn, SharesIn
    <3>2. Left(micro) = Total(RemainingIn(live), all)
      BY <1>6, <2>1 DEF Left
    <3> HIDE DEF live, all
    <3>3. Total(RemainingIn(live), all) = Total(SharesIn(resting), all)
      BY <1>1, <3>1, TotalOfSame
    <3> QED BY <3>2, <3>3 DEF SharesOf
  <2>4. strayed = 0
    BY DEF MicroInit
  <2>5. micro.shares_added + strayed = micro.shares_executed + micro.shares_cancelled
                                         + deleted + Left(micro)
    BY <1>3, <1>6, <2>3, <2>4
  <2> QED BY <1>1, <1>6, <1>7, <2>1, <2>2, <2>4, <2>5 DEF Balanced
<1>9. Mirrors(micro, resting)
  BY <1>2, <1>6 DEF Mirrors
<1>10. OnTheGrid(micro, hours, now)
  <2>1. hours.any = FALSE /\ hours.first = 0 /\ hours.last = 0
    BY DEF MicroInit
  <2>2. hours.any \in BOOLEAN /\ ~hours.any
    BY <2>1
  <2>3. hours.first \in Nat /\ hours.last \in Nat
    BY <2>1
  <2> QED BY <1>6, <2>2, <2>3 DEF OnTheGrid
<1> QED BY <1>8, <1>9, <1>10 DEF MicroInv

\* What a message does to the tracker and its clock.
LEMMA MicroStep ==
  ASSUME MicroInv, NEW m \in LegalMessages, NEW d \in Delays,
         Delivered(m, now + d), MicroMessage(m, now + d)
  PROVE  /\ MicroInv'
         /\ micro'.samples = micro.samples
              + IF NextInterval(hours, hours') THEN Cardinality(Seen(resting')) ELSE 0
<1> DEFINE ts == now + d
           b == Body(m)
           x == Followed(micro, b)
<1>1. Effect(m) /\ FeedOK' /\ now' = ts /\ ts \in Nat /\ now \in Nat /\ now <= ts
  BY MessageEffect, FeedKept, TimePasses DEF MicroInv
<1>2. /\ Balanced(micro, deleted, strayed) /\ Mirrors(micro, resting)
      /\ OnTheGrid(micro, hours, now) /\ FeedOK
      /\ micro \in MicroType /\ IsFiniteSet(DOMAIN micro.live)
  BY DEF MicroInv, Balanced
<1>3. /\ b.type = "U" => b.new \notin DOMAIN micro.live
      /\ micro' = IF m.type = "H" THEN micro ELSE Sampled(x, resting', ts)
      /\ deleted' = deleted + DeletedBy(m) /\ strayed' = strayed + StrayedBy(m)
      /\ hours' = IF m.type = "H" THEN hours ELSE Hours(hours, ts)
  BY DEF MicroMessage
<1> HIDE DEF ts
<1>4. /\ Trackable(micro, b) /\ DeletedBy(m) = Removed(micro, b)
      /\ StrayedBy(m) = Beyond(micro, b)
  BY <1>1, <1>2, <1>3, Followable
<1>5. Balanced(x, deleted', strayed') /\ LivesAfter(x, micro, b)
  BY <1>2, <1>3, <1>4, BalanceKept
<1>6. Mirrors(x, resting')
  BY <1>1, <1>2, <1>5, MirrorKept
<1>7. x.next_sample = micro.next_sample /\ x.samples = micro.samples
  BY <1>2 DEF Followed, Started, ClosedOut, Reduced, ReplacedBy, MicroType
<1>8. m.type = "H" => x = micro
  BY DEF Followed, Body
<1>9. x \in MicroType /\ OnTheGrid(x, hours, now)
  BY <1>2, <1>5, <1>7 DEF Balanced, OnTheGrid
<1> HIDE DEF x, b
<1>10. CASE m.type = "H"
  <2>1. micro' = x /\ hours' = hours /\ micro' = micro
    BY <1>3, <1>8, <1>10
  <2>2. OnTheGrid(micro', hours', now')
    BY <1>1, <1>9, <2>1 DEF OnTheGrid
  <2>3. ~NextInterval(hours, hours')
    <3> DEFINE q == (hours.last - hours.first) \div SampleEvery
    <3>1. hours.any => q \in Nat
      <4> SUFFICES ASSUME hours.any PROVE q \in Nat
        OBVIOUS
      <4>1. hours.last - hours.first \in Nat /\ SampleEvery \in Nat \ {0}
        BY <1>9, MicroExportAssumption DEF OnTheGrid
      <4> QED BY <4>1, DivisionBounds
    <3>2. hours.any => ~(q < q)
      <4> HIDE DEF q
      <4> QED BY <3>1
    <3> QED BY <2>1, <3>2 DEF NextInterval
  <2>4. micro'.samples = micro.samples + 0
    BY <1>2, <2>1 DEF MicroType
  <2>5. Balanced(micro', deleted', strayed') /\ Mirrors(micro', resting')
    BY <1>5, <1>6, <2>1
  <2> QED BY <1>1, <2>2, <2>3, <2>4, <2>5 DEF MicroInv
<1>11. CASE m.type # "H"
  <2> DEFINE y == Sampled(x, resting', ts)
  <2>1. micro' = y /\ hours' = Hours(hours, ts)
    BY <1>3, <1>11
  <2>2. /\ y \in MicroType /\ y.live = x.live /\ y.exits = x.exits
        /\ y.adds = x.adds /\ y.replaces = x.replaces
        /\ y.shares_added = x.shares_added /\ y.shares_executed = x.shares_executed
        /\ y.shares_cancelled = x.shares_cancelled
    BY <1>1, <1>9, SampledTypes
  <2>3. /\ OnTheGrid(y, Hours(hours, ts), ts)
        /\ y.samples = x.samples
             + IF NextInterval(hours, Hours(hours, ts)) THEN Cardinality(Seen(resting')) ELSE 0
    BY <1>1, <1>9, GridKept
  <2> HIDE DEF y
  <2>4. Ended(y) = Ended(x) /\ Left(y) = Left(x)
    BY <2>2 DEF Ended, Left
  <2>5. Balanced(y, deleted', strayed')
    BY <1>5, <2>2, <2>4 DEF Balanced
  <2>6. Mirrors(y, resting')
    BY <1>6, <2>2 DEF Mirrors
  <2>7. Balanced(micro', deleted', strayed') /\ Mirrors(micro', resting')
        /\ OnTheGrid(micro', hours', now')
    BY <1>1, <2>1, <2>3, <2>5, <2>6
  <2>8. micro'.samples = micro.samples
          + IF NextInterval(hours, hours') THEN Cardinality(Seen(resting')) ELSE 0
    BY <1>7, <2>1, <2>3
  <2> QED BY <1>1, <2>7, <2>8 DEF MicroInv
<1> QED BY <1>10, <1>11

LEMMA MicroInvariant == SessionSpec => []MicroInv
<1>1. SessionInit => MicroInv
  <2> SUFFICES ASSUME SessionInit PROVE MicroInv
    OBVIOUS
  <2>1. FeedOK /\ MicroInit /\ now = 0
    BY FeedStarts DEF SessionInit, FeedInit
  <2> QED BY <2>1, MicroStarts
<1>2. MicroInv /\ [SessionNext]_sessionVars => MicroInv'
  <2>1. ASSUME MicroInv, SessionNext PROVE MicroInv'
    <3>1. PICK m \in LegalMessages, d \in Delays : SessionMessage(m, now + d)
      BY <2>1 DEF SessionNext
    <3> QED BY <2>1, <3>1, MicroStep DEF SessionMessage
  <2>2. ASSUME MicroInv, UNCHANGED sessionVars PROVE MicroInv'
    <3>1. /\ resting' = resting /\ ahead' = ahead /\ now' = now
          /\ micro' = micro /\ deleted' = deleted /\ strayed' = strayed /\ hours' = hours
      BY <2>2 DEF sessionVars, feedVars, bookVars, microVars
    <3>2. FeedOK' /\ Balanced(micro, deleted, strayed)'
      BY <2>2, <3>1 DEF MicroInv, FeedOK, Balanced, Ended, Left
    <3>3. Mirrors(micro, resting)' /\ OnTheGrid(micro, hours, now)'
      BY <2>2, <3>1 DEF MicroInv, Mirrors, OnTheGrid
    <3> QED BY <3>2, <3>3 DEF MicroInv
  <2> QED BY <2>1, <2>2
<1> QED BY <1>1, <1>2, PTL DEF SessionSpec

\* The exporter's own account of every order's life agrees with the book and
\* with its totals (TrackerReconciles), for any number of orders and messages,
\* those that name orders the book never held included.
THEOREM TrackerIsRight == SessionSpec => []TrackerReconciles
<1>1. MicroInv => TrackerReconciles
  <2> SUFFICES ASSUME MicroInv PROVE TrackerReconciles
    OBVIOUS
  <2>1. Balanced(micro, deleted, strayed) /\ Mirrors(micro, resting)
    BY DEF MicroInv
  <2>2. TrackerMirrorsTheBook
    BY <2>1 DEF Mirrors, TrackerMirrorsTheBook
  <2>3. ExitCount = Ended(micro)
    <3> DEFINE f == micro.exits
    <3> HIDE DEF f
    <3>1. MapThenSumSet(LAMBDA x : f[x], Exits) = Total(f, Exits)
      BY ExitsAreFinite, SumOfValues
    <3> QED BY <3>1 DEF ExitCount, Ended, f
  <2>4. MapThenSumSet(LAMBDA r : micro.live[r].remaining, DOMAIN micro.live) = Left(micro)
    <3> DEFINE live == micro.live
               S == DOMAIN live
    <3>1. IsFiniteSet(S)
      BY <2>1 DEF Balanced
    <3> HIDE DEF live
    <3>2. MapThenSumSet(LAMBDA r : live[r].remaining, S) = Total(RemainingIn(live), S)
      BY <3>1, SumOfRemaining
    <3> QED BY <3>2 DEF Left, S, live
  <2>5. LivesAndSharesReconcile
    BY <2>1, <2>3, <2>4 DEF Balanced, LivesAndSharesReconcile
  <2> QED BY <2>2, <2>5 DEF TrackerReconciles
<1> QED BY <1>1, MicroInvariant, PTL

\* Every interval that has a message is looked at once (SampledOncePerInterval),
\* whatever the interval and the hours, however messages bunch and however long
\* none came.
THEOREM SamplesAreSpaced == SessionSpec => SampledOncePerInterval
<1> DEFINE Once == micro'.samples = micro.samples
                     + IF NewInterval THEN Cardinality({l \in Locates : TwoSided(resting', l)}) ELSE 0
<1>1. NewInterval <=> NextInterval(hours, hours')
  BY DEF NewInterval, NextInterval
<1>2. Cardinality({l \in Locates : TwoSided(resting', l)}) = Cardinality(Seen(resting'))
  BY DEF Seen
<1>3. MicroInv /\ [SessionNext]_sessionVars => [Once]_<<feedVars, microVars>>
  <2>1. ASSUME MicroInv, SessionNext PROVE Once
    <3>1. PICK m \in LegalMessages, d \in Delays : SessionMessage(m, now + d)
      BY <2>1 DEF SessionNext
    <3>2. micro'.samples = micro.samples
            + IF NextInterval(hours, hours') THEN Cardinality(Seen(resting')) ELSE 0
      BY <2>1, <3>1, MicroStep DEF SessionMessage
    <3> QED BY <1>1, <1>2, <3>2
  <2>2. ASSUME UNCHANGED sessionVars PROVE UNCHANGED <<feedVars, microVars>>
    BY <2>2 DEF sessionVars
  <2> QED BY <2>1, <2>2
<1> QED BY <1>3, MicroInvariant, PTL DEF SessionSpec, SampledOncePerInterval

----------------------------------------------------------------------------
(* The inside, as the exporter and the strategy read it.                   *)

InsideType == [bid : Int, ask : Int, bid_qty : Int, ask_qty : Int]

LEMMA LevelIsFinite ==
  ASSUME FeedOK, NEW l, NEW side, NEW price
  PROVE  /\ Level(resting, l, side, price) \subseteq DOMAIN resting
         /\ IsFiniteSet(Level(resting, l, side, price))
<1>1. Level(resting, l, side, price) \subseteq DOMAIN resting
  BY DEF Level
<1> QED BY <1>1, FS_Subset DEF FeedOK

\* The depth at a price is the sum of the shares of the orders there.
LEMMA DepthIsTotal ==
  ASSUME FeedOK, NEW l, NEW side, NEW price
  PROVE  /\ Depth(resting, l, side, price) = SharesOf(Level(resting, l, side, price))
         /\ Depth(resting, l, side, price) \in Int
<1> DEFINE S == Level(resting, l, side, price)
           f == [r \in S |-> resting[r].shares]
<1>1. S \subseteq DOMAIN resting /\ IsFiniteSet(S)
  BY LevelIsFinite
<1> HIDE DEF S
<1>2. DOMAIN f = S /\ \A r \in S : f[r] = SharesIn(resting)[r]
  BY <1>1 DEF SharesIn
<1>3. Depth(resting, l, side, price) = Aggregate(f)
  BY DEF Depth, S
<1> HIDE DEF f
<1>4. Aggregate(f) = Total(f, S)
  BY <1>1, <1>2, AggregateIsTotal
<1>5. Total(f, S) = Total(SharesIn(resting), S)
  BY <1>1, <1>2, TotalOfSame
<1>6. IntegersOn(SharesIn(resting), S)
  BY <1>1, SharesAreIntegers
<1>7. Total(SharesIn(resting), S) \in Int
  BY <1>1, <1>6, TotalIsInt DEF IntegersOn
<1> QED BY <1>3, <1>4, <1>5, <1>7 DEF SharesOf, S

LEMMA LargestExists ==
  ASSUME NEW S \in SUBSET Nat, IsFiniteSet(S), S # {}
  PROVE  \E x \in S : \A y \in S : y <= x
<1> DEFINE Above(x) == {y \in S : y > x}
           T == {Cardinality(Above(x)) : x \in S}
<1>1. \A x \in S : IsFiniteSet(Above(x)) /\ Cardinality(Above(x)) \in Nat
  BY FS_Subset, FS_CardinalityType
<1> HIDE DEF Above
<1>2. PICK n \in T : \A k \in T : n <= k
  <2>1. T \in SUBSET Nat /\ T # {}
    BY <1>1
  <2> HIDE DEF T
  <2> QED BY <2>1, LeastExists
<1>3. PICK x \in S : n = Cardinality(Above(x))
  OBVIOUS
<1>4. ASSUME NEW y \in S, ~(y <= x) PROVE FALSE
  <2>1. y > x /\ x \in Nat /\ y \in Nat
    BY <1>4
  <2>2. y \in Above(x)
    BY <2>1 DEF Above
  <2>3. Above(y) \subseteq Above(x) \ {y}
    <3>1. ASSUME NEW z \in Above(y) PROVE z \in Above(x) \ {y}
      <4>1. z \in S /\ z \in Nat /\ z > y
        BY <3>1 DEF Above
      <4> QED BY <2>1, <4>1 DEF Above
    <3> QED BY <3>1
  <2>4. /\ IsFiniteSet(Above(x) \ {y}) /\ Cardinality(Above(x) \ {y}) = Cardinality(Above(x)) - 1
    BY <1>1, <2>2, FS_RemoveElement
  <2>5. Cardinality(Above(y)) <= Cardinality(Above(x) \ {y})
    BY <2>3, <2>4, FS_Subset
  <2>6. Cardinality(Above(x)) <= Cardinality(Above(y))
    BY <1>2, <1>3
  <2> QED BY <1>1, <1>4, <2>4, <2>5, <2>6
<1> QED BY <1>4

\* The best price is a quoted one, and no quoted price is better.
LEMMA BestIsBest ==
  ASSUME FeedOK, NEW l, NEW side, QuotedPrices(resting, l, side) # {}
  PROVE  /\ Best(resting, l, side) \in QuotedPrices(resting, l, side)
         /\ QuotedPrices(resting, l, side) \subseteq Nat
         /\ \A q \in QuotedPrices(resting, l, side) :
              IF side = "B" THEN q <= Best(resting, l, side) ELSE Best(resting, l, side) <= q
<1> DEFINE Q == QuotedPrices(resting, l, side)
           S == {x \in DOMAIN resting : resting[x].locate = l /\ resting[x].side = side}
<1>1. Q = {resting[r].price : r \in S}
  BY DEF QuotedPrices
<1>2. IsFiniteSet(S)
  BY FS_Subset DEF FeedOK
<1>3. Q \in SUBSET Nat
  BY <1>1, SessionFeedAssumption DEF FeedOK, Order
<1>4. IsFiniteSet(Q)
  <2> DEFINE f == [r \in S |-> resting[r].price]
  <2>1. f \in Surjection(S, Q)
    <3> HIDE DEF S
    <3> QED BY <1>1 DEF Surjection
  <2> HIDE DEF S, f, Q
  <2> QED BY <1>2, <2>1, FS_Surjection
<1> HIDE DEF Q
<1>5. \E p \in Q : \A q \in Q : IF side = "B" THEN q <= p ELSE p <= q
  <2>1. Q # {}
    BY DEF Q
  <2>2. CASE side = "B"
    BY <1>3, <1>4, <2>1, <2>2, LargestExists
  <2>3. CASE side # "B"
    BY <1>3, <2>1, <2>3, LeastExists
  <2> QED BY <2>2, <2>3
<1> DEFINE B == CHOOSE p \in Q : \A q \in Q : IF side = "B" THEN q <= p ELSE p <= q
<1>6. B \in Q /\ \A q \in Q : IF side = "B" THEN q <= B ELSE B <= q
  BY <1>5
<1>7. Best(resting, l, side) = B
  BY DEF Best, Q
<1> HIDE DEF B
<1> QED BY <1>3, <1>6, <1>7 DEF Q

LEMMA InsideTyped ==
  ASSUME FeedOK, NEW l
  PROVE  Inside(resting, l) \in InsideType
<1>1. CASE ~TwoSided(resting, l)
  BY <1>1 DEF Inside, NoInside, InsideType
<1>2. CASE TwoSided(resting, l)
  <2> DEFINE bid == Best(resting, l, "B")
             ask == Best(resting, l, "S")
  <2>0. QuotedPrices(resting, l, "B") # {} /\ QuotedPrices(resting, l, "S") # {}
    BY <1>2, FeatureExportAssumption DEF TwoSided
  <2>1. bid \in Nat /\ ask \in Nat
    <3>1. bid \in QuotedPrices(resting, l, "B") /\ QuotedPrices(resting, l, "B") \subseteq Nat
      BY <2>0, BestIsBest, SMTT(60)
    <3>2. ask \in QuotedPrices(resting, l, "S") /\ QuotedPrices(resting, l, "S") \subseteq Nat
      BY <2>0, BestIsBest, SMTT(60)
    <3> QED BY <3>1, <3>2
  <2>2. Depth(resting, l, "B", bid) \in Int /\ Depth(resting, l, "S", ask) \in Int
    BY DepthIsTotal, SMTT(60)
  <2> QED BY <1>2, <2>1, <2>2 DEF Inside, InsideType
<1> QED BY <1>1, <1>2

----------------------------------------------------------------------------
(* The feature exporter's windows.                                         *)

WindowType ==
  [updates : Nat, ofi : Int, depth_sum : Int, signed_exec : Int, total_exec : Int,
   start : Int, halted : BOOLEAN, last_e : Int, last_depth : Int]

\* The exporter is a record, its symbols' states are, and their windows.
Shaped(x) ==
  /\ x = [sym |-> x.sym, msgs |-> x.msgs, row |-> x.row, rows |-> x.rows,
          dropped_halt |-> x.dropped_halt, dropped_bounds |-> x.dropped_bounds]
  /\ x.sym = [l \in Locates |-> x.sym[l]]
  /\ \A l \in Locates :
       /\ x.sym[l] = [prev |-> x.sym[l].prev, win |-> x.sym[l].win,
                      pending |-> x.sym[l].pending, halted |-> x.sym[l].halted]
       /\ x.sym[l].win \in WindowType

\* What is not about the symbol l is left alone.
Elsewhere(x, y, l) ==
  /\ Shaped(y) /\ y.msgs = x.msgs
  /\ \A k \in Locates \ {l} : y.sym[k] = x.sym[k]

\* Only the symbol l is set, to t; no row is written.
Became(x, y, l, t) ==
  Elsewhere(x, y, l) /\ y.rows = x.rows /\ y.row = x.row /\ y.sym[l] = t

SymbolOf(prev, win, pending, halted) ==
  [prev |-> prev, win |-> win, pending |-> pending, halted |-> halted]

LEMMA SymbolSet ==
  ASSUME NEW x, Shaped(x), NEW l \in Locates, NEW v
  PROVE  LET s == x.sym[l]
         IN /\ Became(x, [x EXCEPT !.sym[l].prev = v], l,
                      SymbolOf(v, s.win, s.pending, s.halted))
            /\ v \in WindowType =>
                 Became(x, [x EXCEPT !.sym[l].win = v], l,
                        SymbolOf(s.prev, v, s.pending, s.halted))
            /\ Became(x, [x EXCEPT !.sym[l].pending = v], l,
                      SymbolOf(s.prev, s.win, v, s.halted))
            /\ Became(x, [x EXCEPT !.sym[l].halted = v], l,
                      SymbolOf(s.prev, s.win, s.pending, v))
<1> DEFINE s == x.sym[l]
<1>1. s = [prev |-> s.prev, win |-> s.win, pending |-> s.pending, halted |-> s.halted]
  BY DEF Shaped
<1>2. ASSUME NEW t, t = [prev |-> t.prev, win |-> t.win, pending |-> t.pending, halted |-> t.halted],
             t.win \in WindowType
      PROVE  Became(x, [x EXCEPT !.sym = [@ EXCEPT ![l] = t]], l, t)
  <2> DEFINE u == [x.sym EXCEPT ![l] = t]
             y == [x EXCEPT !.sym = u]
  <2>1. /\ u = [k \in Locates |-> u[k]] /\ u[l] = t
        /\ \A k \in Locates \ {l} : u[k] = x.sym[k]
    BY DEF Shaped
  <2> HIDE DEF u
  <2>2. /\ y = [sym |-> u, msgs |-> x.msgs, row |-> x.row, rows |-> x.rows,
                dropped_halt |-> x.dropped_halt, dropped_bounds |-> x.dropped_bounds]
    BY DEF Shaped
  <2> HIDE DEF y
  <2>3. /\ y.sym = u /\ y.msgs = x.msgs /\ y.row = x.row /\ y.rows = x.rows
        /\ y.dropped_halt = x.dropped_halt /\ y.dropped_bounds = x.dropped_bounds
    BY <2>2
  <2>4. \A k \in Locates :
          /\ u[k] = [prev |-> u[k].prev, win |-> u[k].win, pending |-> u[k].pending,
                     halted |-> u[k].halted]
          /\ u[k].win \in WindowType
    BY <1>2, <2>1 DEF Shaped
  <2>5. Shaped(y)
    BY <2>1, <2>2, <2>3, <2>4 DEF Shaped
  <2> QED BY <2>1, <2>3, <2>5 DEF Became, Elsewhere, y, u
<1>3. s.win \in WindowType
  BY DEF Shaped
<1> HIDE DEF s
<1>4. /\ [s EXCEPT !.prev = v] = [prev |-> v, win |-> s.win, pending |-> s.pending, halted |-> s.halted]
      /\ [s EXCEPT !.win = v] = [prev |-> s.prev, win |-> v, pending |-> s.pending, halted |-> s.halted]
      /\ [s EXCEPT !.pending = v] = [prev |-> s.prev, win |-> s.win, pending |-> v, halted |-> s.halted]
      /\ [s EXCEPT !.halted = v] = [prev |-> s.prev, win |-> s.win, pending |-> s.pending, halted |-> v]
  BY <1>1
<1>5. /\ [x EXCEPT !.sym[l].prev = v] = [x EXCEPT !.sym = [@ EXCEPT ![l] = [s EXCEPT !.prev = v]]]
      /\ [x EXCEPT !.sym[l].win = v] = [x EXCEPT !.sym = [@ EXCEPT ![l] = [s EXCEPT !.win = v]]]
      /\ [x EXCEPT !.sym[l].pending = v] = [x EXCEPT !.sym = [@ EXCEPT ![l] = [s EXCEPT !.pending = v]]]
      /\ [x EXCEPT !.sym[l].halted = v] = [x EXCEPT !.sym = [@ EXCEPT ![l] = [s EXCEPT !.halted = v]]]
  BY DEF s
<1> DEFINE a == [prev |-> v, win |-> s.win, pending |-> s.pending, halted |-> s.halted]
           b == [prev |-> s.prev, win |-> v, pending |-> s.pending, halted |-> s.halted]
           c == [prev |-> s.prev, win |-> s.win, pending |-> v, halted |-> s.halted]
           d == [prev |-> s.prev, win |-> s.win, pending |-> s.pending, halted |-> v]
<1>6. /\ a = [prev |-> a.prev, win |-> a.win, pending |-> a.pending, halted |-> a.halted]
      /\ b = [prev |-> b.prev, win |-> b.win, pending |-> b.pending, halted |-> b.halted]
      /\ c = [prev |-> c.prev, win |-> c.win, pending |-> c.pending, halted |-> c.halted]
      /\ d = [prev |-> d.prev, win |-> d.win, pending |-> d.pending, halted |-> d.halted]
      /\ a.win = s.win /\ b.win = v /\ c.win = s.win /\ d.win = s.win
  OBVIOUS
<1>7. /\ [s EXCEPT !.prev = v] = a /\ [s EXCEPT !.win = v] = b
      /\ [s EXCEPT !.pending = v] = c /\ [s EXCEPT !.halted = v] = d
  BY <1>4
<1> HIDE DEF a, b, c, d
<1>8. /\ Became(x, [x EXCEPT !.sym = [@ EXCEPT ![l] = a]], l, a)
      /\ v \in WindowType => Became(x, [x EXCEPT !.sym = [@ EXCEPT ![l] = b]], l, b)
      /\ Became(x, [x EXCEPT !.sym = [@ EXCEPT ![l] = c]], l, c)
      /\ Became(x, [x EXCEPT !.sym = [@ EXCEPT ![l] = d]], l, d)
  BY <1>2, <1>3, <1>6
<1>9. /\ a = SymbolOf(v, s.win, s.pending, s.halted) /\ b = SymbolOf(s.prev, v, s.pending, s.halted)
      /\ c = SymbolOf(s.prev, s.win, v, s.halted) /\ d = SymbolOf(s.prev, s.win, s.pending, v)
  BY DEF a, b, c, d, SymbolOf
<1> QED BY <1>5, <1>7, <1>8, <1>9 DEF s

LEMMA MessageCounted ==
  ASSUME NEW x, Shaped(x)
  PROVE  LET y == [x EXCEPT !.msgs = @ + 1]
         IN Shaped(y) /\ y.sym = x.sym /\ y.rows = x.rows /\ y.row = x.row /\ y.msgs = x.msgs + 1
<1> DEFINE y == [x EXCEPT !.msgs = @ + 1]
<1>1. /\ y = [sym |-> x.sym, msgs |-> x.msgs + 1, row |-> x.row, rows |-> x.rows,
              dropped_halt |-> x.dropped_halt, dropped_bounds |-> x.dropped_bounds]
  BY DEF Shaped
<1> HIDE DEF y
<1>2. /\ y.sym = x.sym /\ y.msgs = x.msgs + 1 /\ y.row = x.row /\ y.rows = x.rows
      /\ y.dropped_halt = x.dropped_halt /\ y.dropped_bounds = x.dropped_bounds
  BY <1>1
<1>3. Shaped(y)
  BY <1>1, <1>2 DEF Shaped
<1> QED BY <1>2, <1>3 DEF y

WithRow(x, r, n, b, h) ==
  [x EXCEPT !.row = r, !.rows = n, !.dropped_bounds = b, !.dropped_halt = h]

LEMMA RowWritten ==
  ASSUME NEW x, Shaped(x), NEW r, NEW n, NEW b, NEW h
  PROVE  LET y == WithRow(x, r, n, b, h)
         IN Shaped(y) /\ y.sym = x.sym /\ y.rows = n /\ y.row = r /\ y.msgs = x.msgs
<1> DEFINE record(row, rows, dh, db) ==
             [sym |-> x.sym, msgs |-> x.msgs, row |-> row, rows |-> rows,
              dropped_halt |-> dh, dropped_bounds |-> db]
           x1 == [x EXCEPT !.row = r]
           x2 == [x1 EXCEPT !.rows = n]
           x3 == [x2 EXCEPT !.dropped_bounds = b]
           y == [x3 EXCEPT !.dropped_halt = h]
<1>0. x = record(x.row, x.rows, x.dropped_halt, x.dropped_bounds)
  BY DEF Shaped
<1>1. x1 = record(r, x.rows, x.dropped_halt, x.dropped_bounds)
  BY <1>0
<1> HIDE DEF x1
<1>2. x2 = record(r, n, x.dropped_halt, x.dropped_bounds)
  BY <1>1
<1> HIDE DEF x2
<1>3. x3 = record(r, n, x.dropped_halt, b)
  BY <1>2
<1> HIDE DEF x3
<1>4. y = record(r, n, h, b)
  BY <1>3
<1> HIDE DEF y
<1>5. /\ y.sym = x.sym /\ y.msgs = x.msgs /\ y.row = r /\ y.rows = n
      /\ y.dropped_halt = h /\ y.dropped_bounds = b
  BY <1>4
<1>6. Shaped(y)
  BY <1>4, <1>5 DEF Shaped
<1> QED BY <1>5, <1>6 DEF y, x1, x2, x3, WithRow

LEMMA WindowSteps ==
  ASSUME NEW win \in WindowType
  PROVE  /\ NewWindow \in WindowType
         /\ [win EXCEPT !.halted = TRUE] \in WindowType
         /\ [win EXCEPT !.halted = TRUE].updates = win.updates
         /\ [win EXCEPT !.halted = TRUE].ofi = win.ofi
         /\ [win EXCEPT !.halted = TRUE].start = win.start
         /\ [win EXCEPT !.halted = TRUE].halted
<1>1. NewWindow \in WindowType
  BY DEF WindowType, NewWindow
<1>2. [win EXCEPT !.halted = TRUE] \in WindowType /\ [win EXCEPT !.halted = TRUE].halted
  BY DEF WindowType
<1>3. /\ [win EXCEPT !.halted = TRUE].updates = win.updates
      /\ [win EXCEPT !.halted = TRUE].ofi = win.ofi
      /\ [win EXCEPT !.halted = TRUE].start = win.start
  BY DEF WindowType
<1> QED BY <1>1, <1>2, <1>3

LEMMA ExecutionCounted ==
  ASSUME NEW win \in WindowType, NEW signed \in Int, NEW qty \in Int
  PROVE  LET w == WithExecution(win, signed, qty)
         IN /\ w \in WindowType /\ w.updates = win.updates /\ w.ofi = win.ofi
            /\ w.halted = win.halted /\ w.start = win.start
<1> DEFINE v == [win EXCEPT !.signed_exec = @ + signed]
           w == [v EXCEPT !.total_exec = @ + qty]
<1>1. v \in WindowType
  BY DEF WindowType
<1>2. v.updates = win.updates /\ v.ofi = win.ofi /\ v.start = win.start
  BY DEF WindowType
<1>3. v.halted = win.halted
  BY DEF WindowType
<1> HIDE DEF v
<1>4. w \in WindowType
  BY <1>1 DEF WindowType
<1>5. w.updates = v.updates /\ w.ofi = v.ofi /\ w.start = v.start
  BY <1>1 DEF WindowType
<1>6. w.halted = v.halted
  BY <1>1 DEF WindowType
<1> QED BY <1>2, <1>3, <1>4, <1>5, <1>6 DEF v, WithExecution

LEMMA FlowIsInteger ==
  ASSUME NEW a \in InsideType, NEW b \in InsideType
  PROVE  FlowTerm(a, b) \in Int /\ Quoted(b) \in Int
BY DEF InsideType, FlowTerm, Quoted

LEMMA UpdateCounted ==
  ASSUME NEW win \in WindowType, NEW a \in InsideType, NEW b \in InsideType,
         NEW ts \in Int, NEW halted \in BOOLEAN
  PROVE  LET w == WithUpdate(win, a, b, ts, halted)
         IN /\ w \in WindowType /\ w.updates = win.updates + 1
            /\ w.ofi = win.ofi + FlowTerm(a, b)
            /\ w.halted = (win.halted \/ halted)
            /\ w.start = IF win.updates = 0 THEN ts ELSE win.start
<1> DEFINE e == FlowTerm(a, b)
           q == Quoted(b)
           t == IF win.updates = 0 THEN ts ELSE win.start
<1>1. e \in Int /\ q \in Int /\ t \in Int
  BY FlowIsInteger DEF WindowType
<1>2. WithUpdate(win, a, b, ts, halted)
        = [updates |-> win.updates + 1, ofi |-> win.ofi + e, depth_sum |-> win.depth_sum + q,
           signed_exec |-> win.signed_exec, total_exec |-> win.total_exec, start |-> t,
           halted |-> win.halted \/ halted, last_e |-> e, last_depth |-> q]
  <2> HIDE DEF e, q
  <2>1. WithUpdate(win, a, b, ts, halted)
          = [win EXCEPT !.updates = @ + 1, !.ofi = @ + e, !.last_e = e, !.depth_sum = @ + q,
                        !.last_depth = q, !.start = IF win.updates = 0 THEN ts ELSE @,
                        !.halted = @ \/ halted]
    BY DEF WithUpdate, e, q
  <2> QED BY <2>1 DEF WindowType
<1> HIDE DEF e, q, t
<1>3. /\ win.updates + 1 \in Nat /\ win.ofi + e \in Int /\ win.depth_sum + q \in Int
      /\ win.signed_exec \in Int /\ win.total_exec \in Int /\ (win.halted \/ halted) \in BOOLEAN
  BY <1>1 DEF WindowType
<1>4. WithUpdate(win, a, b, ts, halted) \in WindowType
  BY <1>1, <1>2, <1>3 DEF WindowType
<1> QED BY <1>2, <1>4 DEF e, t

LEMMA TradingActionMarks ==
  ASSUME NEW x, Shaped(x), NEW l \in Locates, NEW state
  PROVE  Became(x, TradingAction(x, l, state), l,
                SymbolOf(x.sym[l].prev, [x.sym[l].win EXCEPT !.halted = TRUE],
                         x.sym[l].pending, state = "H"))
<1> DEFINE v == (state = "H")
           y == [x EXCEPT !.sym[l].halted = v]
           w == [x.sym[l].win EXCEPT !.halted = TRUE]
           z == [y EXCEPT !.sym[l].win = w]
<1>1. Became(x, y, l, SymbolOf(x.sym[l].prev, x.sym[l].win, x.sym[l].pending, v))
  BY SymbolSet
<1>2. w \in WindowType
  <2>1. x.sym[l].win \in WindowType
    BY DEF Shaped
  <2> QED BY <2>1, WindowSteps
<1>3. TradingAction(x, l, state) = [y EXCEPT !.sym[l].win.halted = TRUE]
  BY DEF TradingAction
<1>4. y.sym[l].win = x.sym[l].win /\ Shaped(y)
  BY <1>1 DEF Became, SymbolOf, Elsewhere
<1>5. [y EXCEPT !.sym[l].win.halted = TRUE] = z
  <2> HIDE DEF y
  <2>1. [y EXCEPT !.sym[l].win.halted = TRUE]
          = [y EXCEPT !.sym[l].win = [y.sym[l].win EXCEPT !.halted = TRUE]]
    OBVIOUS
  <2> QED BY <2>1, <1>4
<1> HIDE DEF y, w
<1>6. Became(y, z, l, SymbolOf(y.sym[l].prev, w, y.sym[l].pending, y.sym[l].halted))
  BY <1>2, <1>4, SymbolSet
<1> HIDE DEF z
<1>7. Became(x, z, l, SymbolOf(x.sym[l].prev, w, x.sym[l].pending, v))
  BY <1>1, <1>6 DEF Became, SymbolOf, Elsewhere
<1> QED BY <1>3, <1>5, <1>7 DEF w

\* touch(), in pieces: the window with the message's execution, the window with
\* its update, and what a window that closes leaves to be labelled.
Executed(x, l, signed, qty) == WithExecution(x.sym[l].win, signed, qty)
Counted(x, bk, l, signed, qty, ts) ==
  WithUpdate(Executed(x, l, signed, qty), x.sym[l].prev, Inside(bk, l), ts, x.sym[l].halted)
Waiting(x, win, before, after, ts) ==
  IF ~Usable(win.start, win.halted, after, ts) THEN NoPending
  ELSE [have |-> TRUE, features |-> Features(win, before, after),
        mid |-> Mid2(after), spread |-> Spread(after), end_ts |-> ts, close_msg |-> x.msgs]
Emits(x, l, win, after, ts) ==
  x.sym[l].pending.have /\ Usable(win.start, win.halted, after, ts)
RowOf(x, l, after) ==
  [locate |-> l, features |-> x.sym[l].pending.features,
   feat_last_msg |-> x.sym[l].pending.close_msg, label_last_msg |-> x.msgs,
   label |-> Mid2(after) - x.sym[l].pending.mid]

LEMMA BecameTwice ==
  ASSUME NEW x, NEW y, NEW z, NEW l, NEW t, NEW u, Became(x, y, l, t), Became(y, z, l, u)
  PROVE  Became(x, z, l, u)
BY DEF Became, Elsewhere

LEMMA SymbolFields ==
  ASSUME NEW a, NEW b, NEW c, NEW d
  PROVE  /\ SymbolOf(a, b, c, d).prev = a /\ SymbolOf(a, b, c, d).win = b
         /\ SymbolOf(a, b, c, d).pending = c /\ SymbolOf(a, b, c, d).halted = d
BY DEF SymbolOf

LEMMA LookedAt ==
  ASSUME NEW x, Shaped(x), NEW l \in Locates, NEW in, NEW win \in WindowType
  PROVE  Became(x, [x EXCEPT !.sym[l].prev = in, !.sym[l].win = win], l,
                SymbolOf(in, win, x.sym[l].pending, x.sym[l].halted))
<1> DEFINE y == [x EXCEPT !.sym[l].prev = in]
           z == [y EXCEPT !.sym[l].win = win]
           t == SymbolOf(in, x.sym[l].win, x.sym[l].pending, x.sym[l].halted)
<1>1. Became(x, y, l, t)
  BY SymbolSet
<1>2. y.sym[l] = t /\ Shaped(y)
  BY <1>1 DEF Became, Elsewhere
<1> HIDE DEF y
<1>3. Became(y, z, l, SymbolOf(y.sym[l].prev, win, y.sym[l].pending, y.sym[l].halted))
  BY <1>2, SymbolSet
<1> HIDE DEF z
<1>4. /\ t.prev = in /\ t.pending = x.sym[l].pending /\ t.halted = x.sym[l].halted
  BY SymbolFields
<1> HIDE DEF t
<1>5. Became(x, z, l, SymbolOf(in, win, x.sym[l].pending, x.sym[l].halted))
  BY <1>1, <1>2, <1>3, <1>4, BecameTwice
<1> QED BY <1>5 DEF y, z

\* The window after the message, w without an update of the inside and n with it.
Windows(w, n, s, in, ts) ==
  /\ w.updates = s.win.updates /\ n.updates = s.win.updates + 1
  /\ w.ofi = s.win.ofi /\ n.ofi = s.win.ofi + FlowTerm(s.prev, in)
  /\ w.halted = s.win.halted /\ n.halted = (s.win.halted \/ s.halted)
  /\ w.start = s.win.start
  /\ n.start = IF s.win.updates = 0 THEN ts ELSE s.win.start

LEMMA WindowCounts ==
  ASSUME NEW x, Shaped(x), NEW bk, NEW l \in Locates, NEW signed \in Int, NEW qty \in Int,
         NEW ts \in Int, Inside(bk, l) \in InsideType, x.sym[l].prev \in InsideType,
         x.sym[l].halted \in BOOLEAN
  PROVE  LET w == Executed(x, l, signed, qty)
             n == Counted(x, bk, l, signed, qty, ts)
         IN /\ w \in WindowType /\ n \in WindowType
            /\ Windows(w, n, x.sym[l], Inside(bk, l), ts)
<1> DEFINE s == x.sym[l]
           w == Executed(x, l, signed, qty)
           n == Counted(x, bk, l, signed, qty, ts)
           in == Inside(bk, l)
<1>1. s.win \in WindowType
  BY DEF Shaped
<1>2. /\ w \in WindowType /\ w.updates = s.win.updates /\ w.ofi = s.win.ofi
      /\ w.halted = s.win.halted /\ w.start = s.win.start
  BY <1>1, ExecutionCounted DEF Executed
<1>3. n = WithUpdate(w, s.prev, in, ts, s.halted)
  BY DEF Counted
<1>4. s.prev \in InsideType /\ in \in InsideType /\ s.halted \in BOOLEAN
  OBVIOUS
<1> HIDE DEF w, n, s, in
<1>5. /\ n \in WindowType /\ n.updates = w.updates + 1
      /\ n.ofi = w.ofi + FlowTerm(s.prev, in) /\ n.halted = (w.halted \/ s.halted)
      /\ n.start = IF w.updates = 0 THEN ts ELSE w.start
  BY <1>2, <1>3, <1>4, UpdateCounted
<1>6. n.halted = (s.win.halted \/ s.halted)
  BY <1>2, <1>5
<1>7. /\ n.updates = s.win.updates + 1 /\ n.ofi = s.win.ofi + FlowTerm(s.prev, in)
      /\ n.start = IF s.win.updates = 0 THEN ts ELSE s.win.start
  BY <1>2, <1>5
<1>8. Windows(w, n, s, in, ts)
  BY <1>2, <1>5, <1>6, <1>7 DEF Windows
<1> QED BY <1>2, <1>5, <1>8 DEF w, n, s, in

LEMMA TouchedOpen ==
  ASSUME NEW x, Shaped(x), NEW bk, NEW l \in Locates, NEW signed \in Int, NEW qty \in Int,
         NEW ts \in Int, Inside(bk, l) \in InsideType, x.sym[l].prev \in InsideType,
         x.sym[l].halted \in BOOLEAN
  PROVE  LET s == x.sym[l]
             after == Inside(bk, l)
             y == Touched(x, bk, l, signed, qty, ts)
             n == Counted(x, bk, l, signed, qty, ts)
         IN /\ ~IsUpdate(s.prev, after) =>
                 Became(x, y, l, SymbolOf(after, Executed(x, l, signed, qty), s.pending, s.halted))
            /\ IsUpdate(s.prev, after) /\ n.updates < window =>
                 Became(x, y, l, SymbolOf(after, n, s.pending, s.halted))
<1> DEFINE s == x.sym[l]
           after == Inside(bk, l)
           y == Touched(x, bk, l, signed, qty, ts)
           n == Counted(x, bk, l, signed, qty, ts)
           w == Executed(x, l, signed, qty)
           looked == [x EXCEPT !.sym[l].prev = after, !.sym[l].win = w]
<1>1. w \in WindowType /\ n \in WindowType
  BY WindowCounts
<1>2. y = IF ~IsUpdate(s.prev, after) THEN looked
          ELSE IF n.updates < window THEN [looked EXCEPT !.sym[l].win = n]
          ELSE Closed(looked, l, n, s.prev, after, ts)
  BY DEF Touched, Executed, Counted
<1> DEFINE t == SymbolOf(after, w, s.pending, s.halted)
           z == [looked EXCEPT !.sym[l].win = n]
<1> HIDE DEF w, n, after
<1>3. Became(x, looked, l, t)
  BY <1>1, LookedAt
<1> HIDE DEF y, looked
<1>4. Shaped(looked) /\ looked.sym[l] = t
  BY <1>3 DEF Became, Elsewhere
<1>5. Became(looked, z, l, SymbolOf(looked.sym[l].prev, n, looked.sym[l].pending, looked.sym[l].halted))
  BY <1>1, <1>4, SymbolSet
<1> HIDE DEF z
<1>6. t.prev = after /\ t.pending = s.pending /\ t.halted = s.halted
  BY SymbolFields
<1> HIDE DEF t, s
<1>7. Became(x, z, l, SymbolOf(after, n, s.pending, s.halted))
  BY <1>3, <1>4, <1>5, <1>6, BecameTwice
<1>8. /\ ~IsUpdate(s.prev, after) => Became(x, y, l, t)
      /\ IsUpdate(s.prev, after) /\ n.updates < window =>
           Became(x, y, l, SymbolOf(after, n, s.pending, s.halted))
  BY <1>2, <1>3, <1>7 DEF z
<1> QED BY <1>8 DEF s, t, y, w, n, after

LEMMA TouchedCloses ==
  ASSUME NEW x, Shaped(x), NEW bk, NEW l \in Locates, NEW signed \in Int, NEW qty \in Int,
         NEW ts \in Int, Inside(bk, l) \in InsideType, x.sym[l].prev \in InsideType,
         x.sym[l].halted \in BOOLEAN
  PROVE  LET s == x.sym[l]
             after == Inside(bk, l)
             y == Touched(x, bk, l, signed, qty, ts)
             n == Counted(x, bk, l, signed, qty, ts)
         IN IsUpdate(s.prev, after) /\ ~(n.updates < window) =>
              /\ Elsewhere(x, y, l)
              /\ y.sym[l] = SymbolOf(after, NewWindow, Waiting(x, n, s.prev, after, ts), s.halted)
              /\ y.rows = IF Emits(x, l, n, after, ts) THEN x.rows + 1 ELSE x.rows
              /\ y.row = IF Emits(x, l, n, after, ts) THEN RowOf(x, l, after) ELSE x.row
<1> DEFINE s == x.sym[l]
           after == Inside(bk, l)
           y == Touched(x, bk, l, signed, qty, ts)
           n == Counted(x, bk, l, signed, qty, ts)
           w == Executed(x, l, signed, qty)
           looked == [x EXCEPT !.sym[l].prev = after, !.sym[l].win = w]
<1> SUFFICES ASSUME IsUpdate(s.prev, after), ~(n.updates < window)
             PROVE  /\ Elsewhere(x, y, l)
                    /\ y.sym[l] = SymbolOf(after, NewWindow, Waiting(x, n, s.prev, after, ts), s.halted)
                    /\ y.rows = IF Emits(x, l, n, after, ts) THEN x.rows + 1 ELSE x.rows
                    /\ y.row = IF Emits(x, l, n, after, ts) THEN RowOf(x, l, after) ELSE x.row
  OBVIOUS
<1>1. w \in WindowType /\ n \in WindowType /\ NewWindow \in WindowType
  BY WindowCounts, WindowSteps
<1>2. y = Closed(looked, l, n, s.prev, after, ts)
  BY DEF Touched, Executed, Counted
<1> DEFINE t == SymbolOf(after, w, s.pending, s.halted)
<1> HIDE DEF w, n, after
<1>3. Became(x, looked, l, t)
  BY <1>1, LookedAt
<1> HIDE DEF y, looked
<1>4. /\ Shaped(looked) /\ looked.sym[l] = t /\ looked.msgs = x.msgs
      /\ looked.rows = x.rows /\ looked.row = x.row
  BY <1>3 DEF Became, Elsewhere
<1>5. t.prev = after /\ t.pending = s.pending /\ t.halted = s.halted
  BY SymbolFields
<1>6. looked.sym[l].pending = s.pending /\ looked.sym[l].prev = after /\ looked.sym[l].halted = s.halted
  BY <1>4, <1>5
<1> DEFINE usable == Usable(n.start, n.halted, after, ts)
           P == Waiting(x, n, s.prev, after, ts)
           a == [looked EXCEPT !.sym[l].win = NewWindow]
           b == [a EXCEPT !.sym[l].pending = P]
           e == Emits(x, l, n, after, ts)
           r == IF e THEN RowOf(x, l, after) ELSE b.row
           k == IF e THEN b.rows + 1 ELSE b.rows
           db == IF s.pending.have /\ ~usable /\ ~InBounds(n.start, ts)
                 THEN b.dropped_bounds + 1 ELSE b.dropped_bounds
           dh == IF s.pending.have /\ ~usable /\ InBounds(n.start, ts)
                 THEN b.dropped_halt + 1 ELSE b.dropped_halt
           c == WithRow(b, r, k, db, dh)
<1>7. y = c
  <2> DEFINE PL == Waiting(looked, n, s.prev, after, ts)
             eL == Emits(looked, l, n, after, ts)
             rL == RowOf(looked, l, after)
             hL == looked.sym[l].pending.have
  <2>1. y = [a EXCEPT !.sym[l].pending = PL,
                      !.row = IF eL THEN rL ELSE looked.row,
                      !.rows = IF eL THEN looked.rows + 1 ELSE looked.rows,
                      !.dropped_bounds = IF hL /\ ~usable /\ ~InBounds(n.start, ts)
                                         THEN looked.dropped_bounds + 1
                                         ELSE looked.dropped_bounds,
                      !.dropped_halt = IF hL /\ ~usable /\ InBounds(n.start, ts)
                                       THEN looked.dropped_halt + 1
                                       ELSE looked.dropped_halt]
    BY <1>2 DEF Closed, Waiting, Emits, RowOf
  <2>2. PL = P
    BY <1>4 DEF Waiting
  <2>3. eL = e /\ hL = s.pending.have
    BY <1>6 DEF Emits
  <2>4. rL = RowOf(x, l, after)
    BY <1>4, <1>6 DEF RowOf
  <2>5. /\ b.row = looked.row /\ b.rows = looked.rows
        /\ b.dropped_bounds = looked.dropped_bounds /\ b.dropped_halt = looked.dropped_halt
    <3> HIDE DEF P
    <3> QED BY <1>4 DEF Shaped
  <2> HIDE DEF PL, eL, rL, hL, a, P, e, usable
  <2>6. y = [a EXCEPT !.sym[l].pending = P,
                      !.row = IF e THEN RowOf(x, l, after) ELSE looked.row,
                      !.rows = IF e THEN looked.rows + 1 ELSE looked.rows,
                      !.dropped_bounds = IF s.pending.have /\ ~usable /\ ~InBounds(n.start, ts)
                                         THEN looked.dropped_bounds + 1
                                         ELSE looked.dropped_bounds,
                      !.dropped_halt = IF s.pending.have /\ ~usable /\ InBounds(n.start, ts)
                                       THEN looked.dropped_halt + 1
                                       ELSE looked.dropped_halt]
    BY <2>1, <2>2, <2>3, <2>4
  <2>7. y = [b EXCEPT !.row = IF e THEN RowOf(x, l, after) ELSE looked.row,
                      !.rows = IF e THEN looked.rows + 1 ELSE looked.rows,
                      !.dropped_bounds = IF s.pending.have /\ ~usable /\ ~InBounds(n.start, ts)
                                         THEN looked.dropped_bounds + 1
                                         ELSE looked.dropped_bounds,
                      !.dropped_halt = IF s.pending.have /\ ~usable /\ InBounds(n.start, ts)
                                       THEN looked.dropped_halt + 1
                                       ELSE looked.dropped_halt]
    BY <2>6
  <2> HIDE DEF b
  <2> QED BY <2>5, <2>7 DEF WithRow
<1>8. Became(looked, a, l, SymbolOf(after, NewWindow, s.pending, s.halted))
  BY <1>1, <1>4, <1>6, SymbolSet
<1> HIDE DEF a, P
<1>9. Shaped(a) /\ a.sym[l] = SymbolOf(after, NewWindow, s.pending, s.halted)
  BY <1>8 DEF Became, Elsewhere
<1>10. a.sym[l].prev = after /\ a.sym[l].win = NewWindow /\ a.sym[l].halted = s.halted
  BY <1>9, SymbolFields
<1>11. Became(a, b, l, SymbolOf(after, NewWindow, P, s.halted))
  BY <1>9, <1>10, SymbolSet
<1> HIDE DEF b
<1>12. Became(x, b, l, SymbolOf(after, NewWindow, P, s.halted))
  BY <1>3, <1>8, <1>11, BecameTwice
<1>13. /\ Elsewhere(x, b, l) /\ b.rows = x.rows /\ b.row = x.row
       /\ b.sym[l] = SymbolOf(after, NewWindow, P, s.halted)
  BY <1>12 DEF Became
<1> HIDE DEF e, db, dh, r, k
<1>14. Shaped(c) /\ c.sym = b.sym /\ c.rows = k /\ c.row = r /\ c.msgs = b.msgs
  <2>1. Shaped(b)
    BY <1>13 DEF Elsewhere
  <2> QED BY <2>1, RowWritten
<1> HIDE DEF c
<1>15. Elsewhere(x, c, l) /\ c.sym[l] = SymbolOf(after, NewWindow, P, s.halted)
  BY <1>13, <1>14 DEF Elsewhere
<1>16. /\ c.rows = IF e THEN x.rows + 1 ELSE x.rows
       /\ c.row = IF e THEN RowOf(x, l, after) ELSE x.row
  BY <1>13, <1>14 DEF k, r
<1> QED BY <1>7, <1>15, <1>16 DEF s, e, P

----------------------------------------------------------------------------
(* What a window has seen, and what it will say.                           *)

\* The flow a window has measured, as long as the inside's prices stand still.
Measured(s, g) ==
  g.steady /\ g.base # NoInside =>
    /\ s.prev # NoInside /\ s.prev.bid = g.base.bid /\ s.prev.ask = g.base.ask
    /\ s.win.ofi = (s.prev.bid_qty - g.base.bid_qty) - (s.prev.ask_qty - g.base.ask_qty)

\* A halt in the window, or one it began in, is marked or still stands.
HaltSeen(s, g, st) ==
  /\ s.halted = (st = "H")
  /\ g.halted => s.win.halted \/ s.halted

WaitsSince(s, msgs) ==
  s.pending.have => s.pending.close_msg \in Nat /\ s.pending.close_msg <= msgs

LogType == [base : InsideType, steady : BOOLEAN, halted : BOOLEAN]

ExportInv ==
  /\ FeedOK /\ Shaped(exporter) /\ window \in Nat \ {0} /\ lag1 \in BOOLEAN
  /\ exporter.msgs \in Nat /\ exporter.rows \in Nat
  /\ log \in [Locates -> LogType] /\ status = [l \in Locates |-> status[l]]
  /\ \A l \in Locates :
       /\ exporter.sym[l].prev \in InsideType /\ exporter.sym[l].halted \in BOOLEAN
       /\ exporter.sym[l].win.updates < window
       /\ Measured(exporter.sym[l], log[l])
       /\ HaltSeen(exporter.sym[l], log[l], status[l])
       /\ WaitsSince(exporter.sym[l], exporter.msgs)

LEMMA InsideTypedNext == FeedOK' => \A l : Inside(resting', l) \in InsideType
<1>1. FeedOK => \A l : Inside(resting, l) \in InsideType
  BY InsideTyped
<1>2. (FeedOK => \A l : Inside(resting, l) \in InsideType)'
  BY <1>1, PTL
<1> QED BY <1>2

LEMMA MessageHasSymbol ==
  ASSUME FeedOK, NEW m, Effect(m)
  PROVE  LocateOf(m) \in Locates
<1>1. \A r \in DOMAIN resting : resting[r].locate \in Locates
  BY DEF FeedOK, Order
<1>2. CASE m.type \in {"P", "B", "H"}
  BY <1>2 DEF Effect, LocateOf
<1>3. CASE m.type = "A"
  BY <1>3 DEF Effect, LocateOf, Joined, Order
<1>4. CASE m.type \in {"E", "X", "D", "U"}
  <2>1. m.ref \in DOMAIN resting /\ LocateOf(m) = resting[m.ref].locate
    BY <1>4 DEF Effect, LocateOf, Gone, Swapped
  <2> QED BY <1>1, <2>1
<1> QED BY <1>2, <1>3, <1>4 DEF Effect

\* What a message makes of its symbol: s before it and t after it.
Marked(s, t, m) ==
  \E w \in WindowType :
    /\ w.halted /\ w.updates = s.win.updates /\ w.ofi = s.win.ofi /\ w.start = s.win.start
    /\ t = SymbolOf(s.prev, w, s.pending, m.state = "H")
Moved(s, t, in, ts, w, n) ==
  /\ ~IsUpdate(s.prev, in) => t = SymbolOf(in, w, s.pending, s.halted)
  /\ IsUpdate(s.prev, in) /\ n.updates < window => t = SymbolOf(in, n, s.pending, s.halted)
  /\ IsUpdate(s.prev, in) /\ ~(n.updates < window) =>
       t = SymbolOf(in, NewWindow, Waiting(exporter', n, s.prev, in, ts), s.halted)

\* Whether the message writes a row, and the row.
Writes(s, in, ts, n) ==
  /\ IsUpdate(s.prev, in) /\ ~(n.updates < window)
  /\ s.pending.have /\ Usable(n.start, n.halted, in, ts)
RowIs(r, l, s, in, msgs) ==
  /\ r.locate = l /\ r.label = Mid2(in) - s.pending.mid
  /\ r.feat_last_msg = s.pending.close_msg /\ r.label_last_msg = msgs

ExportOf(m, ts) ==
  LET l == LocateOf(m)
      s == exporter.sym[l]
      t == exporter'.sym[l]
      in == Inside(resting', l)
  IN /\ l \in Locates /\ Elsewhere([exporter EXCEPT !.msgs = @ + 1], exporter', l)
     /\ exporter'.msgs = exporter.msgs + 1
     /\ \A k \in Locates \ {l} : exporter'.sym[k] = exporter.sym[k]
     /\ m.type = "H" => Marked(s, t, m) /\ exporter'.rows = exporter.rows
     /\ m.type # "H" =>
          \E w, n \in WindowType :
            /\ Windows(w, n, s, in, ts) /\ Moved(s, t, in, ts, w, n)
            /\ Writes(s, in, ts, n) => /\ exporter'.rows = exporter.rows + 1
                                       /\ RowIs(exporter'.row, l, s, in, exporter.msgs + 1)
            /\ ~Writes(s, in, ts, n) => exporter'.rows = exporter.rows

LEMMA ExportStep ==
  ASSUME ExportInv, FeedOK', NEW m \in LegalMessages, Effect(m), NEW ts \in Int,
         exporter' = Exported(exporter, m, resting', ts)
  PROVE  ExportOf(m, ts)
<1> DEFINE l == LocateOf(m)
           x == [exporter EXCEPT !.msgs = @ + 1]
           s == exporter.sym[l]
           in == Inside(resting', l)
<1>1. l \in Locates
  BY MessageHasSymbol DEF ExportInv
<1>2. /\ Shaped(x) /\ x.sym = exporter.sym /\ x.rows = exporter.rows /\ x.row = exporter.row
      /\ x.msgs = exporter.msgs + 1
  BY MessageCounted DEF ExportInv
<1>3. /\ s.prev \in InsideType /\ s.halted \in BOOLEAN /\ s.win \in WindowType
  BY <1>1 DEF ExportInv, Shaped
<1>4. in \in InsideType
  BY InsideTypedNext
<1>5. Exported(exporter, m, resting', ts) =
        IF m.type = "H" THEN TradingAction(x, m.locate, m.state)
        ELSE IF m.type = "E"
        THEN Touched(x, resting', l, SignedQty(resting[m.ref], m.qty), m.qty, ts)
        ELSE IF m.type = "B" /\ m.body.type = "E"
        THEN Touched(x, resting', l, 0, m.body.qty, ts)
        ELSE Touched(x, resting', l, 0, 0, ts)
  BY DEF Exported
<1> HIDE DEF x
<1>6. CASE m.type = "H"
  <2>1. m.locate = l
    BY <1>6 DEF LocateOf
  <2> DEFINE w == [s.win EXCEPT !.halted = TRUE]
  <2>2. Became(x, exporter', l, SymbolOf(s.prev, w, s.pending, m.state = "H"))
    <3>1. Became(x, TradingAction(x, l, m.state), l,
                 SymbolOf(x.sym[l].prev, [x.sym[l].win EXCEPT !.halted = TRUE],
                          x.sym[l].pending, m.state = "H"))
      BY <1>1, <1>2, TradingActionMarks
    <3>2. exporter' = TradingAction(x, l, m.state)
      BY <1>5, <1>6, <2>1
    <3> QED BY <1>2, <3>1, <3>2
  <2>3. /\ w \in WindowType /\ w.halted /\ w.updates = s.win.updates
        /\ w.ofi = s.win.ofi /\ w.start = s.win.start
    BY <1>3, WindowSteps
  <2> HIDE DEF w
  <2>4. exporter'.sym[l] = SymbolOf(s.prev, w, s.pending, m.state = "H")
    BY <2>2 DEF Became
  <2>5. Marked(s, exporter'.sym[l], m)
    BY <2>3, <2>4 DEF Marked
  <2>6. Elsewhere(x, exporter', l) /\ exporter'.rows = exporter.rows
    BY <1>2, <2>2 DEF Became
  <2>7. /\ exporter'.msgs = exporter.msgs + 1
        /\ \A k \in Locates \ {l} : exporter'.sym[k] = exporter.sym[k]
    BY <1>2, <2>6 DEF Elsewhere
  <2> QED BY <1>1, <1>6, <2>5, <2>6, <2>7 DEF ExportOf, x
<1>7. CASE m.type # "H"
  <2>1. PICK signed \in Int, qty \in Int : exporter' = Touched(x, resting', l, signed, qty, ts)
    <3>1. CASE m.type = "E"
      <4>1. m.ref \in DOMAIN resting /\ m.qty \in 1..resting[m.ref].shares
        BY <3>1 DEF Effect
      <4>2. m.qty \in Int
        BY <4>1
      <4>3. SignedQty(resting[m.ref], m.qty) \in Int
        BY <4>2 DEF SignedQty
      <4> QED BY <1>5, <1>7, <3>1, <4>2, <4>3
    <3>2. CASE m.type = "B" /\ m.body.type = "E"
      <4>1. m.body.qty \in Int
        BY <3>2, StrayBody
      <4> QED BY <1>5, <1>7, <3>2, <4>1
    <3>3. CASE m.type # "E" /\ ~(m.type = "B" /\ m.body.type = "E")
      BY <1>5, <1>7, <3>3
    <3> QED BY <3>1, <3>2, <3>3
  <2> DEFINE w == Executed(x, l, signed, qty)
             n == Counted(x, resting', l, signed, qty, ts)
             y == Touched(x, resting', l, signed, qty, ts)
  <2>2. w \in WindowType /\ n \in WindowType /\ Windows(w, n, s, in, ts)
    <3>1. x.sym[l].prev \in InsideType /\ x.sym[l].halted \in BOOLEAN
      BY <1>2, <1>3
    <3>2. /\ w \in WindowType /\ n \in WindowType
          /\ Windows(w, n, x.sym[l], Inside(resting', l), ts)
      BY <1>1, <1>2, <1>4, <3>1, WindowCounts
    <3> HIDE DEF w, n, in
    <3> QED BY <1>2, <3>2 DEF in
  <2>3. /\ ~IsUpdate(s.prev, in) => Became(x, y, l, SymbolOf(in, w, s.pending, s.halted))
        /\ IsUpdate(s.prev, in) /\ n.updates < window =>
             Became(x, y, l, SymbolOf(in, n, s.pending, s.halted))
    BY <1>1, <1>2, <1>3, <1>4, TouchedOpen
  <2>4. IsUpdate(s.prev, in) /\ ~(n.updates < window) =>
          /\ Elsewhere(x, y, l)
          /\ y.sym[l] = SymbolOf(in, NewWindow, Waiting(x, n, s.prev, in, ts), s.halted)
          /\ y.rows = IF Emits(x, l, n, in, ts) THEN x.rows + 1 ELSE x.rows
          /\ y.row = IF Emits(x, l, n, in, ts) THEN RowOf(x, l, in) ELSE x.row
    BY <1>1, <1>2, <1>3, <1>4, TouchedCloses
  <2> HIDE DEF w, n, y, in
  <2>5. exporter' = y
    BY <2>1 DEF y
  <2>6. Elsewhere(x, y, l)
    BY <2>3, <2>4 DEF Became
  <2>7. /\ y.msgs = exporter.msgs + 1
        /\ \A k \in Locates \ {l} : y.sym[k] = exporter.sym[k]
    BY <1>2, <2>6 DEF Elsewhere
  <2>8. Waiting(x, n, s.prev, in, ts) = Waiting(y, n, s.prev, in, ts)
    <3>1. x.msgs = y.msgs
      BY <1>2, <2>7
    <3> QED BY <3>1 DEF Waiting
  <2>9. Moved(s, y.sym[l], in, ts, w, n)
    BY <2>3, <2>4, <2>5, <2>8 DEF Moved, Became
  <2>10. Emits(x, l, n, in, ts) <=> s.pending.have /\ Usable(n.start, n.halted, in, ts)
    BY <1>2 DEF Emits
  <2>11. RowIs(RowOf(x, l, in), l, s, in, exporter.msgs + 1)
    BY <1>2 DEF RowOf, RowIs
  <2>12. Writes(s, in, ts, n) => /\ y.rows = exporter.rows + 1
                                 /\ RowIs(y.row, l, s, in, exporter.msgs + 1)
    BY <1>2, <2>4, <2>10, <2>11 DEF Writes
  <2>13. ~Writes(s, in, ts, n) => y.rows = exporter.rows
    BY <1>2, <2>3, <2>4, <2>10 DEF Writes, Became
  <2> HIDE DEF s
  <2>14. \E a, b \in WindowType :
           /\ Windows(a, b, s, in, ts) /\ Moved(s, exporter'.sym[l], in, ts, a, b)
           /\ Writes(s, in, ts, b) => /\ exporter'.rows = exporter.rows + 1
                                      /\ RowIs(exporter'.row, l, s, in, exporter.msgs + 1)
           /\ ~Writes(s, in, ts, b) => exporter'.rows = exporter.rows
    BY <2>2, <2>5, <2>9, <2>12, <2>13
  <2> QED BY <1>1, <1>7, <2>5, <2>6, <2>7, <2>14 DEF ExportOf, x, s, in
<1> QED BY <1>6, <1>7

\* The history of the message's symbol: g before it and h after it.
Closes(s, m, in) ==
  m.type # "H" /\ (s.win.updates + 1 = window /\ IsUpdate(s.prev, in))
LogOf(m) ==
  LET l == LocateOf(m)
      s == exporter.sym[l]
      g == log[l]
      h == log'[l]
      in == Inside(resting', l)
  IN /\ log' \in [Locates -> LogType]
     /\ \A k \in Locates \ {l} : log'[k] = log[k]
     /\ Closes(s, m, in) => h.base = in /\ h.halted = (status'[l] = "H")
     /\ ~Closes(s, m, in) =>
          /\ h.base = g.base /\ h.halted = (g.halted \/ status'[l] = "H")
          /\ h.steady => /\ g.steady /\ in # NoInside /\ g.base # NoInside
                         /\ in.bid = g.base.bid /\ in.ask = g.base.ask

LEMMA LogStep ==
  ASSUME ExportInv, FeedOK', NEW m, Effect(m), log' = Logged(log, exporter, m, resting')
  PROVE  LogOf(m)
<1> DEFINE l == LocateOf(m)
           s == exporter.sym[l]
           in == Inside(resting', l)
           c == Closes(s, m, in)
           g == log[l]
           st == (status'[l] = "H")
           same == /\ g.steady /\ in # NoInside /\ g.base # NoInside
                   /\ in.bid = g.base.bid /\ in.ask = g.base.ask
           fresh == [NewLog(in) EXCEPT !.halted = st]
           a == [log EXCEPT ![l].halted = @ \/ st]
           b == [a EXCEPT ![l].steady = /\ @ /\ in # NoInside /\ g.base # NoInside
                                        /\ in.bid = g.base.bid /\ in.ask = g.base.ask]
           u == [g EXCEPT !.halted = @ \/ st]
           v == [u EXCEPT !.steady = same]
<1>1. l \in Locates /\ in \in InsideType
  BY MessageHasSymbol, InsideTypedNext DEF ExportInv
<1>2. log \in [Locates -> LogType] /\ g \in LogType
  BY <1>1 DEF ExportInv
<1>3. st \in BOOLEAN /\ same \in BOOLEAN
  BY <1>2 DEF LogType
<1>4. log' = IF c THEN [log EXCEPT ![l] = fresh] ELSE b
  BY DEF Logged, Closes
<1> HIDE DEF st, in, c
<1>5. fresh \in LogType /\ fresh.base = in /\ fresh.halted = st
  BY <1>1, <1>3 DEF LogType, NewLog
<1>6. u \in LogType /\ u.base = g.base /\ u.steady = g.steady /\ u.halted = (g.halted \/ st)
  <2>1. u \in LogType /\ u.base = g.base
    BY <1>2, <1>3 DEF LogType
  <2>2. u.steady = g.steady
    BY <1>2 DEF LogType
  <2>3. u.halted = (g.halted \/ st)
    BY <1>2 DEF LogType
  <2> QED BY <2>1, <2>2, <2>3
<1>7. a[l] = u /\ a = [log EXCEPT ![l] = u]
  BY <1>1, <1>2
<1> HIDE DEF a, u
<1>8. b = [a EXCEPT ![l] = v]
  BY <1>6, <1>7
<1> HIDE DEF same
<1>9. v \in LogType /\ v.base = u.base /\ v.steady = same /\ v.halted = u.halted
  <2>1. v \in LogType /\ v.base = u.base
    BY <1>3, <1>6 DEF LogType
  <2>2. v.steady = same
    BY <1>3, <1>6 DEF LogType
  <2>3. v.halted = u.halted
    BY <1>6 DEF LogType
  <2> QED BY <2>1, <2>2, <2>3
<1> HIDE DEF v, b, fresh
<1>10. b = [log EXCEPT ![l] = v]
  BY <1>1, <1>2, <1>7, <1>8
<1>11. ASSUME c PROVE LogOf(m)
  <2>1. log' \in [Locates -> LogType] /\ log'[l] = fresh /\ \A k \in Locates \ {l} : log'[k] = log[k]
    BY <1>1, <1>2, <1>4, <1>5, <1>11
  <2> QED BY <1>5, <1>11, <2>1 DEF LogOf, c, in, st
<1>12. ASSUME ~c PROVE LogOf(m)
  <2>1. log' \in [Locates -> LogType] /\ log'[l] = v /\ \A k \in Locates \ {l} : log'[k] = log[k]
    BY <1>1, <1>2, <1>4, <1>9, <1>10, <1>12
  <2>2. /\ log'[l].base = g.base /\ log'[l].halted = (g.halted \/ st)
        /\ log'[l].steady => same
    BY <1>6, <1>9, <2>1
  <2> QED BY <1>12, <2>1, <2>2 DEF LogOf, c, in, st, same
<1> QED BY <1>11, <1>12

LEMMA SymbolShape ==
  ASSUME NEW a, NEW b, NEW c, NEW d, NEW t, t = SymbolOf(a, b, c, d)
  PROVE  t = [prev |-> t.prev, win |-> t.win, pending |-> t.pending, halted |-> t.halted]
BY DEF SymbolOf

LEMMA ExportStarts ==
  ASSUME FeedOK, ExportInit, status = [l \in Locates |-> "T"]
  PROVE  ExportInv
<1>1. window \in Nat \ {0} /\ lag1 \in BOOLEAN
  BY FeatureExportAssumption DEF ExportInit
<1>2. /\ exporter.sym = [l \in Locates |-> NewSymbol(Inside(resting, l))]
      /\ exporter.msgs = 0 /\ exporter.rows = 0
      /\ exporter = [sym |-> exporter.sym, msgs |-> exporter.msgs, row |-> exporter.row,
                     rows |-> exporter.rows, dropped_halt |-> exporter.dropped_halt,
                     dropped_bounds |-> exporter.dropped_bounds]
  BY DEF ExportInit
<1>3. ASSUME NEW l \in Locates
      PROVE  LET s == exporter.sym[l]
             IN /\ s = SymbolOf(Inside(resting, l), NewWindow, NoPending, FALSE)
                /\ log[l] = NewLog(Inside(resting, l))
                /\ Inside(resting, l) \in InsideType
  BY <1>2, InsideTyped DEF ExportInit, NewSymbol, SymbolOf
<1>4. /\ NewWindow \in WindowType /\ NewWindow.updates = 0 /\ NewWindow.ofi = 0
      /\ ~NoPending.have
  BY DEF NewWindow, NoPending, WindowType
<1>5. Shaped(exporter)
  <2>1. \A l \in Locates :
          /\ exporter.sym[l] = [prev |-> exporter.sym[l].prev, win |-> exporter.sym[l].win,
                                pending |-> exporter.sym[l].pending,
                                halted |-> exporter.sym[l].halted]
          /\ exporter.sym[l].win \in WindowType
    <3> TAKE l \in Locates
    <3> DEFINE s == exporter.sym[l]
    <3>1. s = SymbolOf(Inside(resting, l), NewWindow, NoPending, FALSE)
      BY <1>3
    <3> HIDE DEF s
    <3>2. s.win = NewWindow
      BY <3>1 DEF SymbolOf
    <3>3. s = [prev |-> s.prev, win |-> s.win, pending |-> s.pending, halted |-> s.halted]
      BY <3>1 DEF SymbolOf
    <3> QED BY <1>4, <3>2, <3>3 DEF s
  <2>2. exporter.sym = [l \in Locates |-> exporter.sym[l]]
    BY <1>2
  <2> QED BY <1>2, <2>1, <2>2 DEF Shaped
<1>6. ASSUME NEW l \in Locates
      PROVE  /\ exporter.sym[l].prev \in InsideType /\ exporter.sym[l].halted \in BOOLEAN
             /\ exporter.sym[l].win.updates < window /\ log[l] \in LogType
             /\ Measured(exporter.sym[l], log[l])
             /\ HaltSeen(exporter.sym[l], log[l], status[l])
             /\ WaitsSince(exporter.sym[l], exporter.msgs)
  <2> DEFINE in == Inside(resting, l)
             s == exporter.sym[l]
             g == log[l]
  <2> HIDE DEF in, s, g
  <2>0. s = SymbolOf(in, NewWindow, NoPending, FALSE) /\ g = NewLog(in) /\ in \in InsideType
    BY <1>3 DEF in, s, g
  <2>1. /\ s.prev = in /\ s.win = NewWindow /\ s.pending = NoPending /\ ~s.halted
        /\ s.halted \in BOOLEAN /\ in \in InsideType /\ status[l] # "H"
    <3>1. s.prev = in /\ s.win = NewWindow /\ s.pending = NoPending
      BY <2>0 DEF SymbolOf
    <3>2. s.halted = FALSE
      BY <2>0 DEF SymbolOf
    <3> QED BY <2>0, <3>1, <3>2
  <2>3. g.base = in /\ ~g.halted /\ g \in LogType
    <3>1. g.base = in
      BY <2>0 DEF NewLog
    <3>2. ~g.halted
      BY <2>0 DEF NewLog
    <3>3. g \in LogType
      BY <2>0 DEF NewLog, LogType
    <3> QED BY <3>1, <3>2, <3>3
  <2>4. in.bid_qty \in Int /\ in.ask_qty \in Int
    BY <2>1 DEF InsideType
  <2>5. s.win.ofi = (s.prev.bid_qty - g.base.bid_qty) - (s.prev.ask_qty - g.base.ask_qty)
    <3>1. 0 = (in.bid_qty - in.bid_qty) - (in.ask_qty - in.ask_qty)
      BY <2>4
    <3> QED BY <1>4, <2>1, <2>3, <3>1
  <2>6. Measured(s, g)
    BY <2>1, <2>3, <2>5 DEF Measured
  <2>7. HaltSeen(s, g, status[l])
    BY <2>1, <2>3 DEF HaltSeen
  <2>8. WaitsSince(s, exporter.msgs)
    BY <1>4, <2>1 DEF WaitsSince
  <2>9. s.win.updates < window
    BY <1>1, <1>4, <2>1
  <2> QED BY <2>1, <2>3, <2>6, <2>7, <2>8, <2>9 DEF in, s, g
<1>7. log = [l \in Locates |-> log[l]] /\ status = [l \in Locates |-> status[l]]
  BY DEF ExportInit
<1>8. log \in [Locates -> LogType]
  BY <1>6, <1>7
<1> QED BY <1>1, <1>2, <1>5, <1>6, <1>7, <1>8 DEF ExportInv

LEMMA FlowAtTheSamePrices ==
  ASSUME NEW a \in InsideType, NEW b \in InsideType, a.bid = b.bid, a.ask = b.ask
  PROVE  FlowTerm(a, b) = (b.bid_qty - a.bid_qty) - (b.ask_qty - a.ask_qty)
BY DEF FlowTerm, InsideType

\* What is known of one symbol.
SymbolOK(s, g, st, msgs) ==
  /\ s.prev \in InsideType /\ s.halted \in BOOLEAN /\ s.win.updates < window
  /\ Measured(s, g) /\ HaltSeen(s, g, st) /\ WaitsSince(s, msgs)

LEMMA SymbolHalts ==
  ASSUME NEW s, NEW t, NEW g \in LogType, NEW h \in LogType, NEW msgs \in Nat, NEW m, NEW in,
         s.win \in WindowType, SymbolOK(s, g, status[m.locate], msgs), Marked(s, t, m),
         h.base = g.base, h.halted = (g.halted \/ m.state = "H"), h.steady => g.steady
  PROVE  SymbolOK(t, h, m.state, msgs + 1)
<1>1. PICK w \in WindowType :
        /\ w.halted /\ w.updates = s.win.updates /\ w.ofi = s.win.ofi
        /\ t = SymbolOf(s.prev, w, s.pending, m.state = "H")
  BY DEF Marked
<1>2. t.prev = s.prev /\ t.win = w /\ t.pending = s.pending
  BY <1>1 DEF SymbolOf
<1>3. t.halted = (m.state = "H")
  BY <1>1 DEF SymbolOf
<1>4. t.prev \in InsideType /\ t.halted \in BOOLEAN /\ t.win.updates < window
  BY <1>1, <1>2, <1>3 DEF SymbolOK
<1>5. Measured(t, h)
  BY <1>1, <1>2 DEF SymbolOK, Measured
<1>6. HaltSeen(t, h, m.state)
  BY <1>1, <1>2, <1>3 DEF HaltSeen
<1>7. WaitsSince(t, msgs + 1)
  BY <1>2 DEF WaitsSince, SymbolOK
<1> QED BY <1>4, <1>5, <1>6, <1>7 DEF SymbolOK

LEMMA SymbolMoves ==
  ASSUME NEW s, NEW t, NEW g \in LogType, NEW h \in LogType, NEW st, NEW msgs \in Nat,
         window \in Nat, exporter'.msgs = msgs + 1, NEW m, NEW in \in InsideType, NEW ts \in Int,
         NEW w \in WindowType, NEW n \in WindowType, window # 0,
         s.win \in WindowType, SymbolOK(s, g, st, msgs),
         Windows(w, n, s, in, ts), Moved(s, t, in, ts, w, n), m.type # "H",
         Closes(s, m, in) => h.base = in /\ h.halted = (st = "H"),
         ~Closes(s, m, in) =>
           /\ h.base = g.base /\ h.halted = (g.halted \/ st = "H")
           /\ h.steady => /\ g.steady /\ in # NoInside /\ g.base # NoInside
                          /\ in.bid = g.base.bid /\ in.ask = g.base.ask
  PROVE  SymbolOK(t, h, st, msgs + 1)
<1>1. /\ s.prev \in InsideType /\ s.halted \in BOOLEAN /\ s.win.updates \in Nat
      /\ s.win.updates < window /\ s.win.ofi \in Int /\ g.base \in InsideType
  BY DEF SymbolOK, WindowType, LogType
<1>2. n.updates < window <=> s.win.updates + 1 # window
  BY <1>1 DEF Windows
<1>3. s.halted = (st = "H") /\ (g.halted => s.win.halted \/ s.halted)
  BY DEF SymbolOK, HaltSeen
<1>4. CASE IsUpdate(s.prev, in) /\ ~(n.updates < window)
  <2> DEFINE p == Waiting(exporter', n, s.prev, in, ts)
  <2>1. t = SymbolOf(in, NewWindow, p, s.halted)
    BY <1>4 DEF Moved
  <2>2. Closes(s, m, in)
    BY <1>2, <1>4 DEF Closes
  <2>3. p.have => p.close_msg = msgs + 1
    BY DEF Waiting, NoPending
  <2> HIDE DEF p
  <2>4. t.prev = in /\ t.win = NewWindow /\ t.pending = p /\ t.halted = s.halted
    BY <2>1, SymbolFields
  <2>5. NewWindow.updates = 0 /\ NewWindow.ofi = 0
    BY DEF NewWindow
  <2>6. h.base = in /\ h.halted = (st = "H")
    BY <2>2
  <2>7. Measured(t, h)
    <3>1. in.bid_qty \in Int /\ in.ask_qty \in Int
      BY DEF InsideType
    <3>2. 0 = (in.bid_qty - in.bid_qty) - (in.ask_qty - in.ask_qty)
      BY <3>1
    <3> QED BY <2>4, <2>5, <2>6, <3>2 DEF Measured
  <2>8. HaltSeen(t, h, st)
    BY <1>3, <2>4, <2>6 DEF HaltSeen
  <2>9. WaitsSince(t, msgs + 1)
    BY <2>3, <2>4 DEF WaitsSince
  <2> QED BY <1>1, <2>4, <2>5, <2>7, <2>8, <2>9 DEF SymbolOK
<1>5. CASE ~(IsUpdate(s.prev, in) /\ ~(n.updates < window))
  <2>1. ~Closes(s, m, in)
    BY <1>2, <1>5 DEF Closes
  <2>2. /\ h.base = g.base /\ h.halted = (g.halted \/ st = "H")
        /\ h.steady => /\ g.steady /\ in # NoInside /\ g.base # NoInside
                       /\ in.bid = g.base.bid /\ in.ask = g.base.ask
    BY <2>1
  <2> DEFINE u == IF IsUpdate(s.prev, in) THEN n ELSE w
  <2>3. t = SymbolOf(in, u, s.pending, s.halted)
    BY <1>5 DEF Moved
  <2>4. u.halted <=> s.win.halted \/ (IsUpdate(s.prev, in) /\ s.halted)
    BY DEF Windows
  <2>5. /\ u.updates < window
        /\ u.ofi = IF IsUpdate(s.prev, in) THEN s.win.ofi + FlowTerm(s.prev, in) ELSE s.win.ofi
    BY <1>1, <1>5 DEF Windows
  <2> HIDE DEF u
  <2>6. t.prev = in /\ t.win = u /\ t.pending = s.pending /\ t.halted = s.halted
    BY <2>3, SymbolFields
  <2>7. HaltSeen(t, h, st)
    BY <1>3, <2>2, <2>4, <2>6 DEF HaltSeen
  <2>8. WaitsSince(t, msgs + 1)
    BY <2>6 DEF WaitsSince, SymbolOK
  <2>9. Measured(t, h)
    <3> SUFFICES ASSUME h.steady, h.base # NoInside
                 PROVE  /\ in # NoInside /\ in.bid = g.base.bid /\ in.ask = g.base.ask
                        /\ u.ofi = (in.bid_qty - g.base.bid_qty) - (in.ask_qty - g.base.ask_qty)
      BY <2>2, <2>6 DEF Measured
    <3> DEFINE a == s.prev
               b == g.base
    <3>1. /\ a # NoInside /\ a.bid = b.bid /\ a.ask = b.ask
          /\ s.win.ofi = (a.bid_qty - b.bid_qty) - (a.ask_qty - b.ask_qty)
          /\ in # NoInside /\ in.bid = b.bid /\ in.ask = b.ask
      BY <2>2 DEF SymbolOK, Measured
    <3>2. a \in InsideType /\ b \in InsideType
      BY <1>1
    <3> HIDE DEF a, b
    <3>3. CASE IsUpdate(a, in)
      <4>1. FlowTerm(a, in) = (in.bid_qty - a.bid_qty) - (in.ask_qty - a.ask_qty)
        BY <3>1, <3>2, FlowAtTheSamePrices
      <4>2. u.ofi = s.win.ofi + FlowTerm(a, in)
        BY <2>5, <3>3 DEF a
      <4>3. /\ a.bid_qty \in Int /\ a.ask_qty \in Int /\ b.bid_qty \in Int /\ b.ask_qty \in Int
            /\ in.bid_qty \in Int /\ in.ask_qty \in Int
        BY <3>2 DEF InsideType
      <4>4. u.ofi = (in.bid_qty - b.bid_qty) - (in.ask_qty - b.ask_qty)
        BY <3>1, <4>1, <4>2, <4>3
      <4> QED BY <3>1, <4>4 DEF b
    <3>4. CASE ~IsUpdate(a, in)
      <4>1. a = in
        BY <3>1, <3>4 DEF IsUpdate
      <4>2. u.ofi = s.win.ofi
        BY <2>5, <3>4 DEF a
      <4> QED BY <3>1, <4>1, <4>2 DEF b
    <3> QED BY <3>3, <3>4
  <2> QED BY <1>1, <2>5, <2>6, <2>7, <2>8, <2>9 DEF SymbolOK
<1> QED BY <1>4, <1>5

LEMMA StatusStep ==
  ASSUME NEW m, NEW ts, Delivered(m, ts), status = [l \in Locates |-> status[l]], FeedOK, Effect(m)
  PROVE  /\ status' = [l \in Locates |-> status'[l]]
         /\ \A l \in Locates \ {LocateOf(m)} : status'[l] = status[l]
         /\ status'[LocateOf(m)] = IF m.type = "H" THEN m.state ELSE status[LocateOf(m)]
<1>1. LocateOf(m) \in Locates /\ (m.type = "H" => m.locate = LocateOf(m))
  BY MessageHasSymbol DEF LocateOf
<1> QED BY <1>1 DEF Delivered

LEMMA ExportKept ==
  ASSUME ExportInv, FeedOK', NEW m \in LegalMessages, Effect(m), NEW ts \in Int,
         Delivered(m, ts), ExportMessage(m, ts)
  PROVE  ExportInv' /\ ExportOf(m, ts) /\ LogOf(m)
<1>1. ExportOf(m, ts) /\ LogOf(m)
  BY ExportStep, LogStep DEF ExportMessage
<1> DEFINE l == LocateOf(m)
           s == exporter.sym[l]
           t == exporter'.sym[l]
           in == Inside(resting', l)
<1>2. /\ l \in Locates /\ Shaped(exporter') /\ exporter'.msgs = exporter.msgs + 1
      /\ \A k \in Locates \ {l} : exporter'.sym[k] = exporter.sym[k]
      /\ m.type = "H" => Marked(s, t, m) /\ exporter'.rows = exporter.rows
  BY <1>1 DEF ExportOf, Elsewhere
<1>3. /\ log' \in [Locates -> LogType] /\ \A k \in Locates \ {l} : log'[k] = log[k]
      /\ log[l] \in LogType /\ log'[l] \in LogType
  BY <1>1, <1>2 DEF LogOf, ExportInv
<1>4. /\ status' = [k \in Locates |-> status'[k]]
      /\ \A k \in Locates \ {l} : status'[k] = status[k]
      /\ status'[l] = IF m.type = "H" THEN m.state ELSE status[l]
  BY StatusStep DEF ExportInv
<1>5. /\ \A k \in Locates : SymbolOK(exporter.sym[k], log[k], status[k], exporter.msgs)
      /\ exporter.msgs \in Nat /\ window \in Nat \ {0} /\ exporter.rows \in Nat
      /\ s.win \in WindowType
  BY <1>2 DEF ExportInv, SymbolOK, Shaped
<1>6. window' = window /\ lag1' = lag1
  BY DEF ExportMessage
<1>7. in \in InsideType
  BY InsideTypedNext
<1>8. SymbolOK(t, log'[l], status'[l], exporter.msgs + 1) /\ exporter'.rows \in Nat
  <2>1. CASE m.type = "H"
    <3>1. ~Closes(s, m, in)
      BY <2>1 DEF Closes
    <3>2. /\ log'[l].base = log[l].base /\ log'[l].halted = (log[l].halted \/ status'[l] = "H")
          /\ log'[l].steady => log[l].steady
      BY <1>1, <3>1 DEF LogOf
    <3>3. m.locate = l
      BY <2>1 DEF LocateOf
    <3> HIDE DEF l, s, t, in
    <3>4. SymbolOK(s, log[l], status[m.locate], exporter.msgs) /\ Marked(s, t, m)
      BY <1>2, <1>5, <2>1, <3>3 DEF s
    <3>5. SymbolOK(t, log'[l], m.state, exporter.msgs + 1)
      BY <1>3, <1>4, <1>5, <2>1, <3>2, <3>4, SymbolHalts
    <3> QED BY <1>2, <1>4, <1>5, <2>1, <3>5
  <2>2. CASE m.type # "H"
    <3>1. PICK w \in WindowType, n \in WindowType :
            /\ Windows(w, n, s, in, ts) /\ Moved(s, t, in, ts, w, n)
            /\ Writes(s, in, ts, n) => exporter'.rows = exporter.rows + 1
            /\ ~Writes(s, in, ts, n) => exporter'.rows = exporter.rows
      BY <1>1, <2>2 DEF ExportOf
    <3>2. /\ Closes(s, m, in) => log'[l].base = in /\ log'[l].halted = (status'[l] = "H")
          /\ ~Closes(s, m, in) =>
               /\ log'[l].base = log[l].base
               /\ log'[l].halted = (log[l].halted \/ status'[l] = "H")
               /\ log'[l].steady =>
                    /\ log[l].steady /\ in # NoInside /\ log[l].base # NoInside
                    /\ in.bid = log[l].base.bid /\ in.ask = log[l].base.ask
      BY <1>1 DEF LogOf
    <3>3. SymbolOK(s, log[l], status'[l], exporter.msgs)
      BY <1>2, <1>4, <1>5, <2>2
    <3> HIDE DEF l, s, t, in
    <3>4. SymbolOK(t, log'[l], status'[l], exporter.msgs + 1)
      BY <1>2, <1>3, <1>5, <1>7, <2>2, <3>1, <3>2, <3>3, SymbolMoves
    <3>5. exporter'.rows \in Nat
      BY <1>5, <3>1
    <3> QED BY <3>4, <3>5
  <2> QED BY <2>1, <2>2
<1>9. ASSUME NEW k \in Locates
      PROVE  SymbolOK(exporter'.sym[k], log'[k], status'[k], exporter'.msgs)
  <2>1. CASE k = l
    BY <1>2, <1>8, <2>1
  <2>2. CASE k # l
    <3>1. SymbolOK(exporter.sym[k], log[k], status[k], exporter.msgs)
      BY <1>5
    <3>2. SymbolOK(exporter.sym[k], log[k], status[k], exporter.msgs + 1)
      BY <1>5, <3>1 DEF SymbolOK, WaitsSince
    <3> QED BY <1>2, <1>3, <1>4, <2>2, <3>2
  <2> QED BY <2>1, <2>2
<1> HIDE DEF l, s, t, in
<1>10. ExportInv'
  <2>1. \A k \in Locates :
          /\ exporter'.sym[k].prev \in InsideType /\ exporter'.sym[k].halted \in BOOLEAN
          /\ exporter'.sym[k].win.updates < window
          /\ Measured(exporter'.sym[k], log'[k])
          /\ HaltSeen(exporter'.sym[k], log'[k], status'[k])
          /\ WaitsSince(exporter'.sym[k], exporter'.msgs)
    BY <1>9 DEF SymbolOK
  <2>2. exporter'.msgs \in Nat
    BY <1>2, <1>5
  <2>3. lag1 \in BOOLEAN
    BY DEF ExportInv
  <2>4. (\A k \in Locates :
          /\ exporter.sym[k].prev \in InsideType /\ exporter.sym[k].halted \in BOOLEAN
          /\ exporter.sym[k].win.updates < window
          /\ Measured(exporter.sym[k], log[k])
          /\ HaltSeen(exporter.sym[k], log[k], status[k])
          /\ WaitsSince(exporter.sym[k], exporter.msgs))'
    BY <1>6, <2>1
  <2> QED BY <1>2, <1>3, <1>4, <1>5, <1>6, <1>8, <2>2, <2>3, <2>4 DEF ExportInv
<1> QED BY <1>1, <1>10

\* A message of the session, as the feed and the exporter take it.
LEMMA ExportEffects ==
  ASSUME ExportInv, NEW m \in LegalMessages, NEW d \in Delays, SessionMessage(m, now + d)
  PROVE  /\ Delivered(m, now + d) /\ Effect(m) /\ FeedOK' /\ now + d \in Int
         /\ ExportOf(m, now + d) /\ LogOf(m) /\ ExportInv'
<1>1. FeedOK /\ now \in Nat /\ now + d \in Nat
  BY SessionFeedAssumption DEF ExportInv, FeedOK
<1>2. Delivered(m, now + d) /\ ExportMessage(m, now + d)
  BY DEF SessionMessage
<1>3. now' = now + d
  BY <1>2 DEF Delivered
<1>4. Effect(m)
  BY <1>1, <1>2, MessageEffect
<1>5. FeedOK'
  BY <1>1, <1>3, <1>4, FeedKept
<1>6. now + d \in Int
  BY <1>1
<1> QED BY <1>2, <1>4, <1>5, <1>6, ExportKept

LEMMA ExportEffect ==
  ASSUME ExportInv, SessionNext
  PROVE  ExportInv'
<1>1. PICK m \in LegalMessages, d \in Delays : SessionMessage(m, now + d)
  BY DEF SessionNext
<1> QED BY <1>1, ExportEffects

LEMMA ExportInvariant == SessionSpec => []ExportInv
<1>1. SessionInit => ExportInv
  <2> SUFFICES ASSUME SessionInit PROVE ExportInv
    OBVIOUS
  <2>1. FeedOK /\ ExportInit /\ status = [l \in Locates |-> "T"]
    BY FeedStarts DEF SessionInit, FeedInit
  <2> QED BY <2>1, ExportStarts
<1>2. ExportInv /\ [SessionNext]_sessionVars => ExportInv'
  <2>1. ASSUME ExportInv, SessionNext PROVE ExportInv'
    BY <2>1, ExportEffect
  <2>2. ASSUME ExportInv, UNCHANGED sessionVars PROVE ExportInv'
    <3>1. /\ resting' = resting /\ ahead' = ahead /\ now' = now /\ status' = status
          /\ exporter' = exporter /\ window' = window /\ lag1' = lag1 /\ log' = log
      BY <2>2 DEF sessionVars, feedVars, bookVars, exportVars
    <3>2. FeedOK'
      BY <2>2, <3>1 DEF ExportInv, FeedOK
    <3> QED BY <2>2, <3>1, <3>2 DEF ExportInv
  <2> QED BY <2>1, <2>2
<1> QED BY <1>1, <1>2, PTL DEF SessionSpec

\* The order flow imbalance a window reports is the net change of what is
\* quoted, while the inside's prices stand still (FlowIsTheNetChange), however
\* the quantities came about and however long the window.
THEOREM FlowIsNet == SessionSpec => []FlowIsTheNetChange
<1>1. ExportInv => FlowIsTheNetChange
  BY DEF ExportInv, Measured, FlowIsTheNetChange
<1> QED BY <1>1, ExportInvariant, PTL

\* What a row promises of the step that writes it or keeps a window for it.
RowSpansNoHalt ==
  /\ \A l \in Locates :
       exporter'.sym[l].pending # exporter.sym[l].pending /\ exporter'.sym[l].pending.have
       => ~log[l].halted /\ status'[l] # "H"
  /\ exporter'.rows > exporter.rows =>
       LET l == exporter'.row.locate
       IN /\ exporter'.sym[l].pending.have
          /\ exporter'.row.label = exporter'.sym[l].pending.mid - exporter.sym[l].pending.mid
          /\ exporter'.row.feat_last_msg < exporter'.row.label_last_msg

\* No window that is kept saw a halt, and a row's label is the move of the mid
\* over the window after its own (RowsSpanNoHalt).
THEOREM RowsAreClean == SessionSpec => RowsSpanNoHalt
<1>1. ExportInv /\ [SessionNext]_sessionVars => [RowSpansNoHalt]_<<feedVars, exportVars>>
  <2>1. ASSUME ExportInv, SessionNext PROVE RowSpansNoHalt
    <3>1. PICK m \in LegalMessages, d \in Delays : SessionMessage(m, now + d)
      BY <2>1 DEF SessionNext
    <3> DEFINE ts == now + d
    <3>2. Delivered(m, ts) /\ Effect(m) /\ ExportOf(m, ts) /\ ts \in Int
      BY <2>1, <3>1, ExportEffects
    <3> HIDE DEF ts
    <3> DEFINE l == LocateOf(m)
               s == exporter.sym[l]
               t == exporter'.sym[l]
               in == Inside(resting', l)
    <3>3. /\ l \in Locates /\ \A k \in Locates \ {l} : exporter'.sym[k] = exporter.sym[k]
          /\ m.type = "H" => Marked(s, t, m) /\ exporter'.rows = exporter.rows
      BY <3>2 DEF ExportOf
    <3>4. /\ s.halted = (status[l] = "H") /\ (log[l].halted => s.win.halted \/ s.halted)
          /\ WaitsSince(s, exporter.msgs) /\ exporter.msgs \in Nat /\ exporter.rows \in Nat
      BY <2>1, <3>3 DEF ExportInv, HaltSeen
    <3>5. m.type # "H" => status'[l] = status[l]
      BY <2>1, <3>2, StatusStep DEF ExportInv
    <3>6. CASE m.type = "H"
      <4>1. t.pending = s.pending
        <5>1. PICK w \in WindowType : t = SymbolOf(s.prev, w, s.pending, m.state = "H")
          BY <3>3, <3>6 DEF Marked
        <5> QED BY <5>1 DEF SymbolOf
      <4> HIDE DEF l
      <4>2. \A k \in Locates : exporter'.sym[k].pending = exporter.sym[k].pending
        BY <3>3, <4>1
      <4>3. ~(exporter'.rows > exporter.rows)
        BY <3>3, <3>4, <3>6
      <4> QED BY <4>2, <4>3 DEF RowSpansNoHalt
    <3>7. CASE m.type # "H"
      <4>1. PICK w \in WindowType, n \in WindowType :
              /\ Windows(w, n, s, in, ts) /\ Moved(s, t, in, ts, w, n)
              /\ Writes(s, in, ts, n) => /\ exporter'.rows = exporter.rows + 1
                                         /\ RowIs(exporter'.row, l, s, in, exporter.msgs + 1)
              /\ ~Writes(s, in, ts, n) => exporter'.rows = exporter.rows
        BY <3>2, <3>7 DEF ExportOf
      <4> HIDE DEF l, s, t, in
      <4>2. CASE IsUpdate(s.prev, in) /\ ~(n.updates < window)
        <5> DEFINE p == Waiting(exporter', n, s.prev, in, ts)
        <5>1. t = SymbolOf(in, NewWindow, p, s.halted)
          BY <4>1, <4>2 DEF Moved
        <5>2. /\ p.have => ~n.halted
              /\ Usable(n.start, n.halted, in, ts) => p.have /\ p.mid = Mid2(in)
          BY DEF Waiting, NoPending, Usable
        <5> HIDE DEF p
        <5>3. t.pending = p
          BY <5>1, SymbolFields
        <5>4. p.have => ~log[l].halted /\ status'[l] # "H"
          BY <3>4, <3>5, <3>7, <4>1, <5>2 DEF Windows
        <5>5. \A k \in Locates :
                exporter'.sym[k].pending # exporter.sym[k].pending /\ exporter'.sym[k].pending.have
                => ~log[k].halted /\ status'[k] # "H"
          BY <3>3, <5>3, <5>4 DEF t
        <5>6. ASSUME exporter'.rows > exporter.rows
              PROVE  /\ exporter'.row.locate = l /\ t.pending.have
                     /\ exporter'.row.label = t.pending.mid - s.pending.mid
                     /\ exporter'.row.feat_last_msg < exporter'.row.label_last_msg
          <6>1. Writes(s, in, ts, n)
            BY <3>4, <4>1, <5>6
          <6>2. RowIs(exporter'.row, l, s, in, exporter.msgs + 1)
            BY <4>1, <6>1
          <6>3. s.pending.have /\ Usable(n.start, n.halted, in, ts)
            BY <6>1 DEF Writes
          <6>4. s.pending.close_msg \in Nat /\ s.pending.close_msg <= exporter.msgs
            BY <3>4, <6>3 DEF WaitsSince
          <6>5. s.pending.close_msg < exporter.msgs + 1
            BY <3>4, <6>4
          <6> QED BY <5>2, <5>3, <6>2, <6>3, <6>5 DEF RowIs
        <5> QED BY <5>5, <5>6 DEF RowSpansNoHalt, s, t
      <4>3. CASE ~(IsUpdate(s.prev, in) /\ ~(n.updates < window))
        <5>1. t.pending = s.pending
          BY <4>1, <4>3, SymbolFields DEF Moved
        <5>2. \A k \in Locates : exporter'.sym[k].pending = exporter.sym[k].pending
          BY <3>3, <5>1 DEF s, t
        <5>3. ~(exporter'.rows > exporter.rows)
          BY <3>4, <4>1, <4>3 DEF Writes
        <5> QED BY <5>2, <5>3 DEF RowSpansNoHalt
      <4> QED BY <4>2, <4>3
    <3> QED BY <3>6, <3>7
  <2>2. UNCHANGED sessionVars => UNCHANGED <<feedVars, exportVars>>
    BY DEF sessionVars
  <2> QED BY <2>1, <2>2
<1> QED BY <1>1, ExportInvariant, PTL DEF SessionSpec, RowsSpanNoHalt, RowSpansNoHalt

----------------------------------------------------------------------------
(* The strategy quotes on what the exporter writes.                        *)

QuoteType == [open : {FALSE}, filled : {FALSE}]
             \cup [open : {TRUE}, filled : BOOLEAN, side : {"B", "S"}, price : Int]
MakerType == [prev : InsideType, updates : Nat, halted : BOOLEAN, win_halted : BOOLEAN,
              win_start : Int, quote : QuoteType]

\* y is the strategy's state k but for its quote, which is as open as before,
\* on the same side.
SameQuote(k, y) ==
  /\ y.prev = k.prev /\ y.updates = k.updates /\ y.halted = k.halted
  /\ y.win_halted = k.win_halted /\ y.win_start = k.win_start
  /\ y.quote.open = k.quote.open /\ (k.quote.open => y.quote.side = k.quote.side)

LEMMA NotifiedKeeps ==
  ASSUME NEW k \in MakerType, NEW l, NEW before, NEW after
  PROVE  LET y == Notified(k, l, before, after) IN y \in MakerType /\ SameQuote(k, y)
<1> DEFINE q == k.quote
           r == [q EXCEPT !.filled = TRUE]
           y == [k EXCEPT !.quote = r]
<1>1. q \in QuoteType
  BY DEF MakerType
<1>2. Notified(k, l, before, after) = IF ExactFill(before, after, l) /\ q.open THEN y ELSE k
  BY DEF Notified
<1>3. CASE ExactFill(before, after, l) /\ q.open
  <2>1. q \in [open : {TRUE}, filled : BOOLEAN, side : {"B", "S"}, price : Int]
    BY <1>1, <1>3 DEF QuoteType
  <2> HIDE DEF q
  <2>2. /\ r \in [open : {TRUE}, filled : BOOLEAN, side : {"B", "S"}, price : Int]
        /\ r.open = q.open /\ r.side = q.side
    BY <2>1
  <2>3. r \in QuoteType
    BY <2>2 DEF QuoteType
  <2> HIDE DEF r
  <2>4. y \in MakerType
    BY <2>3 DEF MakerType
  <2>5. y.prev = k.prev /\ y.updates = k.updates /\ y.win_start = k.win_start /\ y.quote = r
    BY DEF MakerType
  <2>6. y.halted = k.halted
    BY DEF MakerType
  <2>7. y.win_halted = k.win_halted
    BY DEF MakerType
  <2> HIDE DEF y
  <2>8. SameQuote(k, y)
    BY <2>2, <2>5, <2>6, <2>7 DEF SameQuote, q
  <2> QED BY <1>2, <1>3, <2>4, <2>8
<1>4. CASE ~(ExactFill(before, after, l) /\ q.open)
  BY <1>2, <1>4 DEF SameQuote
<1> QED BY <1>3, <1>4

LEMMA InterruptedMarks ==
  ASSUME NEW k \in MakerType, NEW state
  PROVE  LET y == Interrupted(k, state)
         IN /\ y \in MakerType /\ y.prev = k.prev /\ y.updates = k.updates
            /\ y.win_start = k.win_start /\ y.quote = k.quote
            /\ y.halted = (state = "H") /\ y.win_halted
<1> DEFINE h == (state = "H")
           x == [k EXCEPT !.halted = h]
           y == [x EXCEPT !.win_halted = TRUE]
<1>1. Interrupted(k, state) = y
  BY DEF Interrupted
<1>2. x \in MakerType
  BY DEF MakerType
<1>3. /\ x.prev = k.prev /\ x.updates = k.updates /\ x.win_start = k.win_start
      /\ x.quote = k.quote
  BY DEF MakerType
<1>4. x.halted = h
  BY DEF MakerType
<1> HIDE DEF x, h
<1>5. y \in MakerType
  BY <1>2 DEF MakerType
<1>6. /\ y.prev = x.prev /\ y.updates = x.updates /\ y.win_start = x.win_start
      /\ y.quote = x.quote
  BY <1>2 DEF MakerType
<1>7. y.halted = x.halted
  BY <1>2 DEF MakerType
<1>8. y.win_halted
  BY <1>2 DEF MakerType
<1> HIDE DEF y
<1> QED BY <1>1, <1>3, <1>4, <1>5, <1>6, <1>7, <1>8 DEF h

LEMMA AdvancedCounts ==
  ASSUME NEW k \in MakerType, NEW in \in InsideType, NEW ts \in Int
  PROVE  LET y == Advanced(k, in, ts)
         IN /\ y \in MakerType /\ y.prev = in /\ y.updates = k.updates + 1
            /\ y.win_start = (IF k.updates = 0 THEN ts ELSE k.win_start)
            /\ y.quote = k.quote /\ y.halted = k.halted
            /\ (y.win_halted <=> k.win_halted \/ k.halted)
<1> DEFINE a == [k EXCEPT !.prev = in]
           b == [a EXCEPT !.updates = @ + 1]
           c == [b EXCEPT !.win_start = IF k.updates = 0 THEN ts ELSE @]
           y == [c EXCEPT !.win_halted = @ \/ k.halted]
<1>0. Advanced(k, in, ts) = y
  BY DEF Advanced
<1>1. a \in MakerType
  BY DEF MakerType
<1>2. a.prev = in /\ a.updates = k.updates /\ a.win_start = k.win_start /\ a.quote = k.quote
  BY DEF MakerType
<1>3. a.halted = k.halted
  BY DEF MakerType
<1>4. a.win_halted = k.win_halted
  BY DEF MakerType
<1> HIDE DEF a
<1>5. b \in MakerType
  BY <1>1 DEF MakerType
<1>6. b.prev = in /\ b.updates = k.updates + 1 /\ b.win_start = k.win_start /\ b.quote = k.quote
  BY <1>1, <1>2 DEF MakerType
<1>7. b.halted = k.halted
  BY <1>1, <1>3 DEF MakerType
<1>8. b.win_halted = k.win_halted
  BY <1>1, <1>4 DEF MakerType
<1> HIDE DEF b
<1>9. c \in MakerType
  BY <1>5 DEF MakerType
<1>10. /\ c.prev = in /\ c.updates = k.updates + 1 /\ c.quote = k.quote
       /\ c.win_start = IF k.updates = 0 THEN ts ELSE k.win_start
  BY <1>5, <1>6 DEF MakerType
<1>11. c.halted = k.halted
  BY <1>5, <1>7 DEF MakerType
<1>12. c.win_halted = k.win_halted
  BY <1>5, <1>8 DEF MakerType
<1> HIDE DEF c
<1>13. y \in MakerType
  <2>1. (c.win_halted \/ k.halted) \in BOOLEAN
    BY <1>9 DEF MakerType
  <2> QED BY <1>9, <2>1 DEF MakerType
<1>14. /\ y.prev = c.prev /\ y.updates = c.updates /\ y.quote = c.quote
       /\ y.win_start = c.win_start
  BY <1>9 DEF MakerType
<1>15. y.halted = c.halted
  BY <1>9 DEF MakerType
<1>16. y.win_halted <=> c.win_halted \/ k.halted
  BY <1>9 DEF MakerType
<1> HIDE DEF y
<1> QED BY <1>0, <1>10, <1>11, <1>12, <1>13, <1>14, <1>15, <1>16

\* What after() makes of the strategy's state.
LEMMA AfterMakes ==
  ASSUME NEW k \in MakerType, NEW t, NEW s, NEW bk, NEW l, NEW ts \in Int,
         Inside(bk, l) \in InsideType
  PROVE  LET in == Inside(bk, l)
             y == After(k, t, s, bk, l, ts).maker
             n == Advanced(k, in, ts)
         IN /\ y \in MakerType /\ y.prev = in /\ y.halted = k.halted
            /\ ~IsUpdate(k.prev, in) =>
                 /\ y.updates = k.updates /\ y.win_start = k.win_start /\ y.quote = k.quote
                 /\ y.win_halted = k.win_halted
            /\ IsUpdate(k.prev, in) /\ n.updates < window => y = n
            /\ IsUpdate(k.prev, in) /\ ~(n.updates < window) =>
                 /\ y.updates = 0 /\ ~y.win_halted
                 /\ y.quote = IF Quotes(n, in, ts) THEN NewQuote(in) ELSE NoQuote
<1> DEFINE in == Inside(bk, l)
           y == After(k, t, s, bk, l, ts).maker
           n == Advanced(k, in, ts)
           c == [k EXCEPT !.prev = in]
           q == IF Quotes(n, in, ts) THEN NewQuote(in) ELSE NoQuote
           d == [n EXCEPT !.updates = 0]
           e == [d EXCEPT !.win_halted = FALSE]
           f == [e EXCEPT !.quote = q]
<1>1. y = IF ~IsUpdate(k.prev, in) THEN c ELSE IF n.updates < window THEN n ELSE f
  BY DEF After
<1>2. q \in QuoteType
  <2>1. NoQuote \in QuoteType
    BY DEF NoQuote, QuoteType
  <2>2. NewQuote(in) \in QuoteType
    <3>1. /\ FavouredSide(in) \in {"B", "S"}
          /\ (IF FavouredSide(in) = "B" THEN in.bid ELSE in.ask) \in Int
      BY DEF FavouredSide, InsideType
    <3> QED BY <3>1 DEF NewQuote, QuoteType
  <2> QED BY <2>1, <2>2
<1>3. /\ n \in MakerType /\ n.prev = in /\ n.halted = k.halted
  BY AdvancedCounts
<1> HIDE DEF y, n, q, in
<1>4. c \in MakerType
  BY DEF MakerType, in
<1>5. /\ c.prev = in /\ c.updates = k.updates /\ c.win_start = k.win_start
      /\ c.quote = k.quote
  BY DEF MakerType
<1>6. c.halted = k.halted
  BY DEF MakerType
<1>7. c.win_halted = k.win_halted
  BY DEF MakerType
<1>8. d \in MakerType /\ d.prev = in /\ d.updates = 0
  BY <1>3 DEF MakerType
<1>9. d.halted = k.halted
  BY <1>3 DEF MakerType
<1> HIDE DEF d
<1>10. e \in MakerType /\ e.prev = in /\ e.updates = 0
  BY <1>8 DEF MakerType
<1>11. e.halted = k.halted
  BY <1>8, <1>9 DEF MakerType
<1>12. ~e.win_halted
  BY <1>8 DEF MakerType
<1> HIDE DEF e
<1>13. f \in MakerType /\ f.prev = in /\ f.updates = 0 /\ f.quote = q
  BY <1>2, <1>10 DEF MakerType
<1>14. f.halted = k.halted
  BY <1>10, <1>11 DEF MakerType
<1>15. ~f.win_halted
  BY <1>10, <1>12 DEF MakerType
<1> HIDE DEF f, c
<1>16. CASE ~IsUpdate(k.prev, in)
  BY <1>1, <1>4, <1>5, <1>6, <1>7, <1>16 DEF y, n, q, in
<1>17. CASE IsUpdate(k.prev, in) /\ n.updates < window
  BY <1>1, <1>3, <1>17 DEF y, n, q, in
<1>18. CASE IsUpdate(k.prev, in) /\ ~(n.updates < window)
  BY <1>1, <1>13, <1>14, <1>15, <1>18 DEF y, n, q, in
<1> QED BY <1>16, <1>17, <1>18

\* QuotesFollowTheFeatures, of one symbol.
Follows(k, x) ==
  /\ SameWindow(k, x)
  /\ ~lag1 => (k.quote.open <=> x.pending.have /\ x.pending.features.queue[1] # 0)
  /\ ~lag1 /\ k.quote.open => (k.quote.side = "B" <=> x.pending.features.queue[1] > 0)

FollowInv ==
  /\ ExportInv /\ maker \in [Locates -> MakerType]
  /\ \A l \in Locates : Follows(maker[l], exporter.sym[l])

LEMMA FollowsAHalt ==
  ASSUME NEW k \in MakerType, NEW s, NEW t, NEW m, Follows(k, s), Marked(s, t, m)
  PROVE  Follows(Interrupted(k, m.state), t)
<1> DEFINE y == Interrupted(k, m.state)
<1>1. /\ y \in MakerType /\ y.prev = k.prev /\ y.updates = k.updates
      /\ y.win_start = k.win_start /\ y.quote = k.quote
      /\ y.halted = (m.state = "H") /\ y.win_halted
  BY InterruptedMarks
<1> HIDE DEF y
<1>2. PICK w \in WindowType :
        /\ w.halted /\ w.updates = s.win.updates /\ w.start = s.win.start
        /\ t = SymbolOf(s.prev, w, s.pending, m.state = "H")
  BY DEF Marked
<1>3. t.prev = s.prev /\ t.win = w /\ t.pending = s.pending
  BY <1>2 DEF SymbolOf
<1>4. t.halted = (m.state = "H")
  BY <1>2 DEF SymbolOf
<1>5. SameWindow(k, s)
  BY DEF Follows
<1>6. y.halted = t.halted /\ y.win_halted = t.win.halted
  <2>1. y.win_halted \in BOOLEAN /\ w.halted \in BOOLEAN
    BY <1>1 DEF MakerType, WindowType
  <2> QED BY <1>1, <1>2, <1>3, <1>4, <2>1
<1>7. SameWindow(y, t)
  BY <1>1, <1>2, <1>3, <1>5, <1>6 DEF SameWindow
<1>8. Follows(y, t)
  BY <1>1, <1>3, <1>7 DEF Follows
<1> QED BY <1>8 DEF y

LEMMA FollowsAMove ==
  ASSUME NEW j \in MakerType, NEW k \in MakerType, SameQuote(j, k), NEW s, NEW t, NEW bk, NEW l,
         NEW ts \in Int, Inside(bk, l) \in InsideType, NEW w \in WindowType, NEW n \in WindowType,
         s.win \in WindowType, s.halted \in BOOLEAN,
         Follows(j, s), Windows(w, n, s, Inside(bk, l), ts), Moved(s, t, Inside(bk, l), ts, w, n),
         NEW u, NEW v
  PROVE  LET y == After(k, u, v, bk, l, ts).maker IN y \in MakerType /\ Follows(y, t)
<1> DEFINE in == Inside(bk, l)
           y == After(k, u, v, bk, l, ts).maker
           a == Advanced(k, in, ts)
<1>1. /\ y \in MakerType /\ y.prev = in /\ y.halted = k.halted
      /\ ~IsUpdate(k.prev, in) =>
           /\ y.updates = k.updates /\ y.win_start = k.win_start /\ y.quote = k.quote
           /\ y.win_halted = k.win_halted
      /\ IsUpdate(k.prev, in) /\ a.updates < window => y = a
      /\ IsUpdate(k.prev, in) /\ ~(a.updates < window) =>
           /\ y.updates = 0 /\ ~y.win_halted
           /\ y.quote = IF Quotes(a, in, ts) THEN NewQuote(in) ELSE NoQuote
  BY AfterMakes
<1>2. /\ a \in MakerType /\ a.prev = in /\ a.updates = k.updates + 1
      /\ a.win_start = (IF k.updates = 0 THEN ts ELSE k.win_start)
      /\ a.quote = k.quote /\ a.halted = k.halted
      /\ (a.win_halted <=> k.win_halted \/ k.halted)
  BY AdvancedCounts
<1> DEFINE x == Inside(bk, l)
<1> HIDE DEF y, a, in
<1>3. /\ in \in InsideType /\ Windows(w, n, s, in, ts) /\ Moved(s, t, in, ts, w, n)
  BY DEF in
<1>4. /\ k.prev = s.prev /\ k.updates = s.win.updates /\ k.halted = s.halted
      /\ k.updates > 0 => k.win_start = s.win.start
      /\ k.win_halted = s.win.halted /\ k.updates \in Nat
  BY DEF Follows, SameWindow, SameQuote, MakerType
<1>5. /\ ~lag1 => (k.quote.open <=> s.pending.have /\ s.pending.features.queue[1] # 0)
      /\ ~lag1 /\ k.quote.open => (k.quote.side = "B" <=> s.pending.features.queue[1] > 0)
  BY DEF Follows, SameQuote
<1>6. a.updates = n.updates
  BY <1>2, <1>3, <1>4 DEF Windows
<1>7. a.win_start = n.start
  <2>1. CASE k.updates = 0
    BY <1>2, <1>3, <1>4, <2>1 DEF Windows
  <2>2. CASE k.updates # 0
    <3>1. k.updates > 0
      BY <1>4, <2>2
    <3>2. a.win_start = s.win.start /\ n.start = s.win.start
      BY <1>2, <1>3, <1>4, <2>2, <3>1 DEF Windows
    <3> QED BY <3>2
  <2> QED BY <2>1, <2>2
<1>8. a.win_halted = n.halted
  <2>1. a.win_halted <=> n.halted
    BY <1>2, <1>3, <1>4 DEF Windows
  <2>2. a.win_halted \in BOOLEAN /\ n.halted \in BOOLEAN
    BY <1>2 DEF MakerType, WindowType
  <2> QED BY <2>1, <2>2
<1>9. CASE ~IsUpdate(s.prev, in)
  <2>1. t = SymbolOf(in, w, s.pending, s.halted)
    BY <1>3, <1>9 DEF Moved
  <2>2. t.prev = in /\ t.win = w /\ t.pending = s.pending /\ t.halted = s.halted
    BY <2>1, SymbolFields
  <2>3. /\ y.prev = in /\ y.updates = k.updates /\ y.win_start = k.win_start
        /\ y.quote = k.quote
    BY <1>1, <1>4, <1>9
  <2>4. y.halted = s.halted /\ y.win_halted = w.halted
    BY <1>1, <1>3, <1>4, <1>9 DEF Windows
  <2>5. SameWindow(y, t)
    BY <1>3, <1>4, <2>2, <2>3, <2>4 DEF SameWindow, Windows
  <2> QED BY <1>1, <1>5, <2>2, <2>3, <2>5 DEF Follows, y
<1>10. CASE IsUpdate(s.prev, in) /\ n.updates < window
  <2>1. t = SymbolOf(in, n, s.pending, s.halted)
    BY <1>3, <1>10 DEF Moved
  <2>2. t.prev = in /\ t.win = n /\ t.pending = s.pending /\ t.halted = s.halted
    BY <2>1, SymbolFields
  <2>3. y = a
    BY <1>1, <1>4, <1>6, <1>10
  <2>4. y.halted = t.halted /\ y.win_halted = t.win.halted
    BY <1>2, <1>4, <1>8, <2>2, <2>3
  <2>5. SameWindow(y, t)
    BY <1>2, <1>6, <1>7, <2>2, <2>3, <2>4 DEF SameWindow
  <2> QED BY <1>1, <1>2, <1>5, <2>2, <2>3, <2>5 DEF Follows, y
<1>11. CASE IsUpdate(s.prev, in) /\ ~(n.updates < window)
  <2> DEFINE p == Waiting(exporter', n, s.prev, in, ts)
             usable == Usable(n.start, n.halted, in, ts)
  <2>1. t = SymbolOf(in, NewWindow, p, s.halted)
    BY <1>3, <1>11 DEF Moved
  <2>2. ~usable => ~p.have
    BY DEF Waiting, NoPending
  <2>3. usable => p.have /\ p.features = Features(n, s.prev, in)
    BY DEF Waiting
  <2> HIDE DEF p
  <2>4. t.prev = in /\ t.win = NewWindow /\ t.pending = p /\ t.halted = s.halted
    BY <2>1, SymbolFields
  <2>5. /\ y.updates = 0 /\ ~y.win_halted
        /\ y.quote = IF Quotes(a, in, ts) THEN NewQuote(in) ELSE NoQuote
    BY <1>1, <1>4, <1>6, <1>11
  <2>6. Quotes(a, in, ts) <=> usable /\ HasSide(in)
    BY <1>7, <1>8 DEF Quotes
  <2> HIDE DEF usable
  <2>7. NewWindow.updates = 0 /\ NewWindow.halted = FALSE
    BY DEF NewWindow
  <2>8. y.halted = t.halted /\ y.win_halted = t.win.halted
    <3>1. y.win_halted \in BOOLEAN
      BY <1>1 DEF MakerType
    <3>2. y.win_halted = FALSE
      BY <2>5, <3>1
    <3>3. y.halted = t.halted
      BY <1>1, <1>4, <2>4
    <3> QED BY <2>4, <2>7, <3>2, <3>3
  <2>9. SameWindow(y, t)
    BY <1>1, <2>4, <2>5, <2>7, <2>8 DEF SameWindow
  <2>10. ASSUME ~lag1, usable
         PROVE  p.features.queue[1] = in.bid_qty - in.ask_qty
    BY <2>3, <2>10 DEF Features, Imbalance
  <2>11. in.bid_qty \in Int /\ in.ask_qty \in Int
    BY <1>3 DEF InsideType
  <2>12. NewQuote(in).open /\ ~NoQuote.open /\ NewQuote(in).side = FavouredSide(in)
    BY DEF NewQuote, NoQuote
  <2>13. ~lag1 => (y.quote.open <=> p.have /\ p.features.queue[1] # 0)
    BY <2>2, <2>3, <2>5, <2>6, <2>10, <2>11, <2>12 DEF HasSide
  <2>14. ~lag1 /\ y.quote.open => (y.quote.side = "B" <=> p.features.queue[1] > 0)
    <3> SUFFICES ASSUME ~lag1, y.quote.open
                 PROVE  y.quote.side = "B" <=> p.features.queue[1] > 0
      OBVIOUS
    <3>1. usable /\ HasSide(in) /\ y.quote = NewQuote(in)
      BY <2>5, <2>6, <2>12
    <3>2. p.features.queue[1] = in.bid_qty - in.ask_qty
      BY <2>10, <3>1
    <3>3. y.quote.side = "B" <=> in.bid_qty > in.ask_qty
      BY <2>12, <3>1 DEF FavouredSide
    <3> QED BY <2>11, <3>2, <3>3
  <2> QED BY <1>1, <2>4, <2>9, <2>13, <2>14 DEF Follows, y
<1> QED BY <1>9, <1>10, <1>11

LEMMA FollowStarts ==
  ASSUME ExportInv, ExportInit, StrategyInit
  PROVE  FollowInv
<1>1. ASSUME NEW l \in Locates
      PROVE  maker[l] \in MakerType /\ Follows(maker[l], exporter.sym[l])
  <2> DEFINE in == Inside(resting, l)
             k == maker[l]
             s == exporter.sym[l]
  <2>1. k = NewMaker(in) /\ s = NewSymbol(in) /\ in \in InsideType
    BY InsideTyped DEF ExportInit, StrategyInit, ExportInv
  <2> HIDE DEF in, k, s
  <2>2. NoQuote \in QuoteType /\ ~NoQuote.open
    BY DEF NoQuote, QuoteType
  <2>3. k \in MakerType
    BY <2>1, <2>2 DEF NewMaker, MakerType
  <2>4. k.prev = in /\ k.updates = 0 /\ k.quote = NoQuote
    BY <2>1 DEF NewMaker
  <2>5. k.halted = FALSE /\ k.win_halted = FALSE
    BY <2>1 DEF NewMaker
  <2>6. s.prev = in /\ s.win = NewWindow /\ s.pending = NoPending
    BY <2>1 DEF NewSymbol
  <2>7. s.halted = FALSE
    BY <2>1 DEF NewSymbol
  <2>8. NewWindow.updates = 0 /\ NewWindow.halted = FALSE /\ ~NoPending.have
    BY DEF NewWindow, NoPending
  <2>9. SameWindow(k, s)
    <3>1. k.halted = s.halted
      BY <2>5, <2>7
    <3>2. k.win_halted = s.win.halted
      BY <2>5, <2>6, <2>8
    <3>3. k.prev = s.prev /\ k.updates = s.win.updates /\ ~(k.updates > 0)
      BY <2>4, <2>6, <2>8
    <3> QED BY <3>1, <3>2, <3>3 DEF SameWindow
  <2>10. Follows(k, s)
    BY <2>2, <2>4, <2>6, <2>8, <2>9 DEF Follows
  <2> QED BY <2>3, <2>10 DEF k, s
<1>2. maker = [l \in Locates |-> maker[l]]
  BY DEF StrategyInit
<1> QED BY <1>1, <1>2 DEF FollowInv

LEMMA FollowKept ==
  ASSUME FollowInv, SessionNext
  PROVE  FollowInv'
<1>1. PICK m \in LegalMessages, d \in Delays : SessionMessage(m, now + d)
  BY DEF SessionNext
<1> DEFINE ts == now + d
<1>2. ExportOf(m, ts) /\ FeedOK' /\ ExportInv' /\ ts \in Int /\ StrategyMessage(m, ts) /\ lag1' = lag1
      /\ window' = window
  BY <1>1, ExportEffects DEF FollowInv, SessionMessage, ExportMessage
<1> HIDE DEF ts
<1> DEFINE l == LocateOf(m)
           s == exporter.sym[l]
           t == exporter'.sym[l]
           j == maker[l]
<1>3. /\ l \in Locates /\ \A i \in Locates \ {l} : exporter'.sym[i] = exporter.sym[i]
      /\ m.type = "H" => Marked(s, t, m)
  BY <1>2 DEF ExportOf
<1>4. maker \in [Locates -> MakerType] /\ j \in MakerType /\ Follows(j, s)
  BY <1>3 DEF FollowInv
<1>5. ASSUME NEW y \in MakerType, maker' = [maker EXCEPT ![l] = y], Follows(y, t)
      PROVE  FollowInv'
  <2>1. maker' \in [Locates -> MakerType]
    BY <1>4, <1>5
  <2>2. \A i \in Locates : Follows(maker'[i], exporter'.sym[i])
    <3> TAKE i \in Locates
    <3>1. CASE i = l
      BY <1>4, <1>5, <3>1
    <3>2. CASE i # l
      <4>1. maker'[i] = maker[i] /\ exporter'.sym[i] = exporter.sym[i]
        BY <1>3, <1>4, <1>5, <3>2
      <4>2. Follows(maker[i], exporter.sym[i])
        BY DEF FollowInv
      <4> QED BY <4>1, <4>2
    <3> QED BY <3>1, <3>2
  <2> HIDE DEF l
  <2>3. (\A i \in Locates : Follows(maker[i], exporter.sym[i]))'
    BY <1>2, <2>2 DEF Follows
  <2> QED BY <1>2, <2>1, <2>3 DEF FollowInv
<1>6. CASE m.type = "H"
  <2> DEFINE y == Interrupted(j, m.state)
  <2>1. y \in MakerType /\ Follows(y, t)
    BY <1>3, <1>4, <1>6, FollowsAHalt, InterruptedMarks
  <2>2. maker' = [maker EXCEPT ![l] = y]
    BY <1>2, <1>6 DEF StrategyMessage
  <2> HIDE DEF y, l, t
  <2> QED BY <1>5, <2>1, <2>2
<1>7. CASE m.type # "H"
  <2> DEFINE in == Inside(resting', l)
  <2>1. PICK w \in WindowType, n \in WindowType :
          Windows(w, n, s, in, ts) /\ Moved(s, t, in, ts, w, n)
    BY <1>2, <1>7 DEF ExportOf
  <2>2. PICK a, b :
          maker' = [maker EXCEPT ![l] = After(Notified(j, l, sim.live, a.live), tally, b,
                                              resting', l, ts).maker]
    BY <1>2, <1>7 DEF StrategyMessage
  <2> DEFINE k == Notified(j, l, sim.live, a.live)
             y == After(k, tally, b, resting', l, ts).maker
  <2>3. k \in MakerType /\ SameQuote(j, k)
    BY <1>4, NotifiedKeeps
  <2>4. in \in InsideType
    BY <1>2, InsideTypedNext
  <2>5. s.win \in WindowType /\ s.halted \in BOOLEAN
    BY <1>3 DEF FollowInv, ExportInv, Shaped
  <2> HIDE DEF k, s, t, j, l
  <2>6. y \in MakerType /\ Follows(y, t)
    BY <1>2, <1>4, <2>1, <2>3, <2>4, <2>5, FollowsAMove
  <2>7. maker' = [maker EXCEPT ![l] = y]
    BY <2>2 DEF k, j
  <2> HIDE DEF y
  <2> QED BY <1>5, <2>6, <2>7
<1> QED BY <1>6, <1>7

LEMMA FollowInvariant == SessionSpec => []FollowInv
<1>1. SessionInit => FollowInv
  <2> SUFFICES ASSUME SessionInit PROVE FollowInv
    OBVIOUS
  <2>1. ExportInit /\ StrategyInit /\ FeedOK /\ status = [l \in Locates |-> "T"]
    BY FeedStarts DEF SessionInit, FeedInit
  <2> QED BY <2>1, ExportStarts, FollowStarts
<1>2. FollowInv /\ [SessionNext]_sessionVars => FollowInv'
  <2>1. ASSUME FollowInv, UNCHANGED sessionVars PROVE FollowInv'
    <3>1. /\ resting' = resting /\ ahead' = ahead /\ now' = now /\ status' = status
          /\ exporter' = exporter /\ window' = window /\ lag1' = lag1 /\ log' = log
          /\ maker' = maker
      BY <2>1 DEF sessionVars, feedVars, bookVars, exportVars, strategyVars
    <3>2. FeedOK'
      BY <2>1, <3>1 DEF FollowInv, ExportInv, FeedOK
    <3>3. ExportInv'
      BY <2>1, <3>1, <3>2 DEF FollowInv, ExportInv
    <3> QED BY <2>1, <3>1, <3>3 DEF FollowInv, Follows
  <2> QED BY <2>1, FollowKept
<1> QED BY <1>1, <1>2, PTL DEF SessionSpec

\* The strategy and the exporter, each counting for itself, stay in the same
\* window, and the strategy quotes where and on the side the exported feature
\* says (QuotesFollowTheFeatures).
THEOREM QuotesFollow == SessionSpec => []QuotesFollowTheFeatures
<1>1. FollowInv => QuotesFollowTheFeatures
  BY DEF FollowInv, Follows, QuotesFollowTheFeatures
<1> QED BY <1>1, FollowInvariant, PTL
=============================================================================
