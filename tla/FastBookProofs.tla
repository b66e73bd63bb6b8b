--------------------------- MODULE FastBookProofs ---------------------------
(***************************************************************************)
(* The fast book, for every feed, every pool, every index and every width  *)
(* of the window: its links, levels, bitmaps and free list stay those of   *)
(* one book, and that book is the abstract one.                            *)
(*                                                                         *)
(* The structure is described by what it stands for: Q gives the queue of  *)
(* every side and price as a sequence of slots, F the free list.           *)
(* Sound(b, Q, F) says that b represents them, wherever the windows are;   *)
(* View(b, Q) is the abstract book.  IInv says that some Q and F exist.    *)
(* Each operation of the code is shown to represent the Q and F it should, *)
(* and to do to the view what the abstract book promises; a handler is the *)
(* composition of its operations.                                          *)
(***************************************************************************)
EXTENDS FastBook, FiniteSetTheorems, WellFoundedInduction, TLAPS

Link == Pool \cup {NoOrder}
LevelRec == [shares : Int, orders : Nat, head : Link, tail : Link]
LevelMaps(S) == UNION {[D -> LevelRec] : D \in SUBSET S}
SideRec == [base : Nat \cup {-1}, flat : LevelMaps(Slots), occupied : SUBSET Slots,
            overflow : LevelMaps(Prices)]

NoRepeats(q) == \A x, y \in 1..Len(q) : q[x] = q[y] => x = y
FirstOf(q) == IF q = <<>> THEN NoOrder ELSE q[1]
LastOf(q) == IF q = <<>> THEN NoOrder ELSE q[Len(q)]

Ends(lvl, q) ==
  lvl \in LevelRec /\ lvl.orders = Len(q) /\ lvl.head = FirstOf(q) /\ lvl.tail = LastOf(q)

\* The two homes of a level, read through find_level(): a side of the book
\* represents the queues e when every price's level has its queue's ends, and
\* bits and map entries are those of the prices that have orders.
SideOK(s, e) ==
  /\ s \in SideRec
  /\ \A p \in Prices : Ends(LevelAt(s, p), e[p])
  /\ \A p \in Prices : InWindow(s, p) =>
       p \notin DOMAIN s.overflow /\ (Offset(s, p) \in s.occupied <=> e[p] # <<>>)
  /\ \A p \in DOMAIN s.overflow : e[p] # <<>> /\ (s.base < 0 => ~WholeCent(p))
  /\ \A i \in s.occupied \cup DOMAIN s.flat : \E p \in Prices : InWindow(s, p) /\ Offset(s, p) = i

Queues == [Prices -> Seq(Pool)]

LEMMA Bounds ==
  /\ Prices \subseteq Nat /\ Window \in Nat /\ Window >= 8 /\ PoolSize \in Nat
  /\ Margin \in Nat /\ Margin >= 1 /\ Hysteresis = Margin /\ 8 * Margin <= Window
  /\ Slots \subseteq Nat
  BY FastBookAssumption DEF Margin, Hysteresis, Slots

LEMMA CentFacts ==
  ASSUME NEW p \in Nat
  PROVE  Cents(p) \in Nat /\ (WholeCent(p) <=> p = Cents(p) * 100)
  BY DEF Cents, WholeCent

LEMMA WholeCents ==
  ASSUME NEW c \in Nat
  PROVE  WholeCent(c * 100) /\ Cents(c * 100) = c
  BY DEF Cents, WholeCent

LEMMA OnePricePerSlot ==
  ASSUME NEW s \in SideRec, NEW p \in Prices, NEW q \in Prices,
         InWindow(s, p), InWindow(s, q), Offset(s, p) = Offset(s, q)
  PROVE  p = q
<1>1. p \in Nat /\ q \in Nat /\ s.base \in Int
  BY Bounds DEF SideRec
<1>2. Cents(p) = Cents(q)
  BY <1>1, CentFacts DEF Offset
<1> QED BY <1>1, <1>2, CentFacts DEF InWindow

LEMMA LevelMapsFacts ==
  ASSUME NEW S, NEW m
  PROVE  m \in LevelMaps(S) <=> DOMAIN m \subseteq S /\ m \in [DOMAIN m -> LevelRec]
  BY DEF LevelMaps

LEMMA PutInMap ==
  ASSUME NEW S, NEW m \in LevelMaps(S), NEW x \in S, NEW lvl \in LevelRec
  PROVE  Put(m, x, lvl) \in LevelMaps(S) /\ Drop(m, x) \in LevelMaps(S)
<1>1. DOMAIN m \subseteq S /\ \A y \in DOMAIN m : m[y] \in LevelRec
  BY LevelMapsFacts
<1>2. Put(m, x, lvl) \in [DOMAIN m \cup {x} -> LevelRec] /\ DOMAIN m \cup {x} \in SUBSET S
  BY <1>1 DEF Put
<1>3. Drop(m, x) \in [DOMAIN m \ {x} -> LevelRec] /\ DOMAIN m \ {x} \in SUBSET S
  BY <1>1 DEF Drop
<1> QED BY <1>2, <1>3 DEF LevelMaps

LEMMA EmptyIsLevel == EmptyLevel \in LevelRec
  BY DEF EmptyLevel, LevelRec, Link

\* A level written is the level read, at its own price and at no other.
LEMMA PutLevelReads ==
  ASSUME NEW s \in SideRec, NEW p \in Prices, NEW lvl \in LevelRec
  PROVE  LET t == PutLevel(s, p, lvl)
         IN /\ t \in SideRec /\ t.base = s.base /\ t.occupied = s.occupied
            /\ LevelAt(t, p) = lvl
            /\ \A q \in Prices \ {p} : LevelAt(t, q) = LevelAt(s, q)
            /\ InWindow(s, p) => t.overflow = s.overflow
                                 /\ DOMAIN t.flat \subseteq DOMAIN s.flat \cup {Offset(s, p)}
            /\ ~InWindow(s, p) => t.flat = s.flat /\ DOMAIN t.overflow = DOMAIN s.overflow \cup {p}
<1> DEFINE t == PutLevel(s, p, lvl)
<1>1. CASE InWindow(s, p)
  <2> DEFINE i == Offset(s, p)
             m == IF lvl = EmptyLevel THEN Drop(s.flat, i) ELSE Put(s.flat, i, lvl)
  <2>1. i \in Slots /\ s.flat \in LevelMaps(Slots)
    BY <1>1 DEF InWindow, SideRec
  <2>2. m \in LevelMaps(Slots)
    BY <2>1, PutInMap
  <2>3. t = [s EXCEPT !.flat = m]
    BY <1>1 DEF PutLevel, PutFlat
  <2>4. DOMAIN m \subseteq DOMAIN s.flat \cup {i}
    BY DEF Put, Drop
  <2>5. \A j \in Slots : FlatLevel([s EXCEPT !.flat = m], j) = IF j = i THEN lvl ELSE FlatLevel(s, j)
    BY <2>1 DEF FlatLevel, Put, Drop, SideRec
  <2> HIDE DEF m, t
  <2>6. /\ t \in SideRec /\ t.base = s.base /\ t.occupied = s.occupied /\ t.overflow = s.overflow
        /\ t.flat = m
    BY <2>2, <2>3 DEF SideRec
  <2>7. \A q \in Prices : (InWindow(t, q) <=> InWindow(s, q)) /\ Offset(t, q) = Offset(s, q)
    BY <2>6 DEF InWindow, Offset
  <2>8. \A q \in Prices \ {p} : InWindow(s, q) => Offset(s, q) # i /\ Offset(s, q) \in Slots
    BY <1>1, OnePricePerSlot DEF InWindow
  <2>9. LevelAt(t, p) = lvl
    BY <1>1, <2>1, <2>3, <2>5, <2>7 DEF LevelAt
  <2>10. \A q \in Prices \ {p} : LevelAt(t, q) = LevelAt(s, q)
    BY <2>3, <2>5, <2>6, <2>7, <2>8 DEF LevelAt
  <2> QED BY <1>1, <2>4, <2>6, <2>9, <2>10 DEF t
<1>2. CASE ~InWindow(s, p)
  <2> DEFINE m == Put(s.overflow, p, lvl)
  <2>1. t = [s EXCEPT !.overflow = m]
    BY <1>2 DEF PutLevel
  <2>2. m \in LevelMaps(Prices)
    BY PutInMap DEF SideRec
  <2>3. DOMAIN m = DOMAIN s.overflow \cup {p} /\ m[p] = lvl
        /\ \A q \in DOMAIN s.overflow \ {p} : m[q] = s.overflow[q]
    BY DEF Put
  <2> HIDE DEF m, t
  <2>4. /\ t \in SideRec /\ t.base = s.base /\ t.occupied = s.occupied /\ t.flat = s.flat
        /\ t.overflow = m
    BY <2>1, <2>2 DEF SideRec
  <2>5. \A q \in Prices : (InWindow(t, q) <=> InWindow(s, q)) /\ Offset(t, q) = Offset(s, q)
    BY <2>4 DEF InWindow, Offset
  <2>6. LevelAt(t, p) = lvl
    BY <1>2, <2>3, <2>4, <2>5 DEF LevelAt
  <2>7. \A q \in Prices \ {p} : LevelAt(t, q) = LevelAt(s, q)
    BY <2>3, <2>4, <2>5 DEF LevelAt, FlatLevel
  <2> QED BY <1>2, <2>3, <2>4, <2>6, <2>7 DEF t
<1> QED BY <1>1, <1>2

\* The level at one price is written, with its bit: what add() and unlink() do
\* to a side.
LEMMA LevelKept ==
  ASSUME NEW s, NEW e \in Queues, SideOK(s, e), NEW p \in Prices, e[p] # <<>>,
         NEW q \in Seq(Pool), q # <<>>, NEW lvl, Ends(lvl, q)
  PROVE  SideOK(PutLevel(s, p, lvl), [e EXCEPT ![p] = q])
<1> DEFINE t == PutLevel(s, p, lvl)
           f == [e EXCEPT ![p] = q]
<1>1. s \in SideRec /\ lvl \in LevelRec
  BY DEF SideOK, Ends
<1>2. /\ t \in SideRec /\ t.base = s.base /\ t.occupied = s.occupied
      /\ LevelAt(t, p) = lvl
      /\ \A r \in Prices \ {p} : LevelAt(t, r) = LevelAt(s, r)
      /\ InWindow(s, p) => t.overflow = s.overflow
                           /\ DOMAIN t.flat \subseteq DOMAIN s.flat \cup {Offset(s, p)}
      /\ ~InWindow(s, p) => t.flat = s.flat /\ DOMAIN t.overflow = DOMAIN s.overflow \cup {p}
  BY <1>1, PutLevelReads
<1>3. f[p] = q /\ \A r \in Prices \ {p} : f[r] = e[r]
  BY DEF Queues
<1> HIDE DEF t, f
<1>4. \A r : (InWindow(t, r) <=> InWindow(s, r)) /\ Offset(t, r) = Offset(s, r)
  BY <1>2 DEF InWindow, Offset
<1>5. \A r \in Prices : Ends(LevelAt(t, r), f[r])
  BY <1>2, <1>3 DEF SideOK
<1>6. ~InWindow(s, p) => p \in DOMAIN s.overflow
  <2>1. LevelAt(s, p).orders = Len(e[p]) /\ e[p] \in Seq(Pool) /\ EmptyLevel.orders = 0
    BY DEF SideOK, Ends, Queues, EmptyLevel
  <2>2. LevelAt(s, p) # EmptyLevel
    BY <2>1
  <2> QED BY <2>2 DEF LevelAt
<1>7. ASSUME NEW r \in Prices, InWindow(t, r)
      PROVE  r \notin DOMAIN t.overflow /\ (Offset(t, r) \in t.occupied <=> f[r] # <<>>)
  <2>1. InWindow(s, r) /\ r \notin DOMAIN s.overflow /\ (Offset(s, r) \in s.occupied <=> e[r] # <<>>)
    BY <1>4, <1>7 DEF SideOK
  <2> QED BY <1>2, <1>3, <1>4, <2>1
<1>8. \A r \in DOMAIN t.overflow : f[r] # <<>> /\ (t.base < 0 => ~WholeCent(r))
  <2>1. DOMAIN t.overflow = DOMAIN s.overflow /\ DOMAIN s.overflow \subseteq Prices
    BY <1>1, <1>2, <1>6, LevelMapsFacts DEF SideRec
  <2> QED BY <1>2, <1>3, <2>1 DEF SideOK
<1>9. ASSUME NEW i \in t.occupied \cup DOMAIN t.flat
      PROVE  \E r \in Prices : InWindow(t, r) /\ Offset(t, r) = i
  <2>1. CASE i \in s.occupied \cup DOMAIN s.flat
    BY <1>4, <2>1 DEF SideOK
  <2>2. CASE i \notin s.occupied \cup DOMAIN s.flat
    BY <1>2, <1>4, <1>9, <2>2
  <2> QED BY <2>1, <2>2
<1> QED BY <1>2, <1>5, <1>7, <1>8, <1>9 DEF SideOK, t, f

\* The first order of a price: its level is written and its bit set.
LEMMA LevelOpened ==
  ASSUME NEW s, NEW e \in Queues, SideOK(s, e), NEW p \in Prices, e[p] = <<>>,
         WholeCent(p) => s.base >= 0,
         NEW q \in Seq(Pool), q # <<>>, NEW lvl, Ends(lvl, q)
  PROVE  SideOK(Occupy(PutLevel(s, p, lvl), p), [e EXCEPT ![p] = q])
<1> DEFINE t == PutLevel(s, p, lvl)
           u == Occupy(t, p)
           f == [e EXCEPT ![p] = q]
<1>1. s \in SideRec /\ lvl \in LevelRec
  BY DEF SideOK, Ends
<1>2. /\ t \in SideRec /\ t.base = s.base /\ t.occupied = s.occupied
      /\ LevelAt(t, p) = lvl
      /\ \A r \in Prices \ {p} : LevelAt(t, r) = LevelAt(s, r)
      /\ InWindow(s, p) => t.overflow = s.overflow
                           /\ DOMAIN t.flat \subseteq DOMAIN s.flat \cup {Offset(s, p)}
      /\ ~InWindow(s, p) => t.flat = s.flat /\ DOMAIN t.overflow = DOMAIN s.overflow \cup {p}
  BY <1>1, PutLevelReads
<1>3. f[p] = q /\ \A r \in Prices \ {p} : f[r] = e[r]
  BY DEF Queues
<1> HIDE DEF t, f
<1>4. \A r : (InWindow(t, r) <=> InWindow(s, r)) /\ Offset(t, r) = Offset(s, r)
  BY <1>2 DEF InWindow, Offset
<1>5. /\ u \in SideRec /\ u.base = s.base /\ u.flat = t.flat /\ u.overflow = t.overflow
      /\ u.occupied = IF InWindow(s, p) THEN s.occupied \cup {Offset(s, p)} ELSE s.occupied
  BY <1>2, <1>4 DEF Occupy, SideRec, InWindow
<1> HIDE DEF u
<1>6. \A r : (InWindow(u, r) <=> InWindow(s, r)) /\ Offset(u, r) = Offset(s, r)
  BY <1>5 DEF InWindow, Offset
<1>7. \A r \in Prices : LevelAt(u, r) = LevelAt(t, r)
  BY <1>4, <1>5, <1>6 DEF LevelAt, FlatLevel
<1>8. \A r \in Prices : Ends(LevelAt(u, r), f[r])
  BY <1>2, <1>3, <1>7 DEF SideOK
<1>9. ASSUME NEW r \in Prices, InWindow(u, r)
      PROVE  r \notin DOMAIN u.overflow /\ (Offset(u, r) \in u.occupied <=> f[r] # <<>>)
  <2>1. InWindow(s, r) /\ r \notin DOMAIN s.overflow /\ (Offset(s, r) \in s.occupied <=> e[r] # <<>>)
    BY <1>6, <1>9 DEF SideOK
  <2>2. CASE r = p
    BY <1>2, <1>3, <1>5, <1>6, <2>1, <2>2
  <2>3. CASE r # p
    <3>1. InWindow(s, p) => Offset(s, r) # Offset(s, p)
      BY <1>1, <2>1, <2>3, OnePricePerSlot
    <3> QED BY <1>2, <1>3, <1>5, <1>6, <2>1, <2>3, <3>1
  <2> QED BY <2>2, <2>3
<1>10. ASSUME NEW r \in DOMAIN u.overflow
       PROVE  f[r] # <<>> /\ (u.base < 0 => ~WholeCent(r))
  <2>1. r \in Prices
    BY <1>5, LevelMapsFacts DEF SideRec
  <2>2. CASE r = p
    BY <1>3, <1>5, <2>2, <1>1, Bounds DEF SideRec
  <2>3. CASE r # p
    <3>1. r \in DOMAIN s.overflow
      BY <1>2, <1>5, <2>3
    <3> QED BY <1>3, <1>5, <2>1, <2>3, <3>1 DEF SideOK
  <2> QED BY <2>2, <2>3
<1>11. ASSUME NEW i \in u.occupied \cup DOMAIN u.flat
       PROVE  \E r \in Prices : InWindow(u, r) /\ Offset(u, r) = i
  <2>1. CASE i \in s.occupied \cup DOMAIN s.flat
    BY <1>6, <2>1 DEF SideOK
  <2>2. CASE i \notin s.occupied \cup DOMAIN s.flat
    BY <1>2, <1>5, <1>6, <1>11, <2>2
  <2> QED BY <2>1, <2>2
<1> QED BY <1>5, <1>8, <1>9, <1>10, <1>11 DEF SideOK, t, u, f

\* The last order of a price: its bit is cleared, or it leaves the map.
LEMMA LevelClosed ==
  ASSUME NEW s, NEW e \in Queues, SideOK(s, e), NEW p \in Prices,
         NEW lvl, Ends(lvl, <<>>)
  PROVE  SideOK(Emptied(s, p, lvl), [e EXCEPT ![p] = <<>>])
<1> DEFINE t == PutLevel(s, p, lvl)
           u == Emptied(s, p, lvl)
           f == [e EXCEPT ![p] = <<>>]
<1>1. s \in SideRec /\ lvl \in LevelRec
  BY DEF SideOK, Ends
<1>2. /\ t \in SideRec /\ t.base = s.base /\ t.occupied = s.occupied
      /\ LevelAt(t, p) = lvl
      /\ \A r \in Prices \ {p} : LevelAt(t, r) = LevelAt(s, r)
      /\ InWindow(s, p) => t.overflow = s.overflow
                           /\ DOMAIN t.flat \subseteq DOMAIN s.flat \cup {Offset(s, p)}
  BY <1>1, PutLevelReads
<1>3. f[p] = <<>> /\ \A r \in Prices \ {p} : f[r] = e[r]
  BY DEF Queues
<1>4. Ends(EmptyLevel, <<>>)
  BY EmptyIsLevel DEF Ends, EmptyLevel, FirstOf, LastOf
<1>5. CASE InWindow(s, p)
  <2>1. u = [t EXCEPT !.occupied = @ \ {Offset(s, p)}]
    BY <1>5 DEF Emptied
  <2> HIDE DEF t, u, f
  <2>2. /\ u \in SideRec /\ u.base = s.base /\ u.flat = t.flat /\ u.overflow = s.overflow
        /\ u.occupied = s.occupied \ {Offset(s, p)}
    BY <1>2, <1>5, <2>1 DEF SideRec
  <2>3. \A r : /\ (InWindow(u, r) <=> InWindow(s, r)) /\ Offset(u, r) = Offset(s, r)
               /\ (InWindow(t, r) <=> InWindow(s, r)) /\ Offset(t, r) = Offset(s, r)
    BY <1>2, <2>2 DEF InWindow, Offset
  <2>4. \A r \in Prices : LevelAt(u, r) = LevelAt(t, r)
    BY <1>2, <1>5, <2>2, <2>3 DEF LevelAt, FlatLevel
  <2>5. \A r \in Prices : Ends(LevelAt(u, r), f[r])
    BY <1>2, <1>3, <2>4 DEF SideOK
  <2>6. ASSUME NEW r \in Prices, InWindow(u, r)
        PROVE  r \notin DOMAIN u.overflow /\ (Offset(u, r) \in u.occupied <=> f[r] # <<>>)
    <3>1. InWindow(s, r) /\ r \notin DOMAIN s.overflow /\ (Offset(s, r) \in s.occupied <=> e[r] # <<>>)
      BY <2>3, <2>6 DEF SideOK
    <3>2. CASE r = p
      BY <1>3, <2>2, <2>3, <3>1, <3>2
    <3>3. CASE r # p
      <4>1. Offset(s, r) # Offset(s, p)
        BY <1>1, <1>5, <3>1, <3>3, OnePricePerSlot
      <4> QED BY <1>3, <2>2, <2>3, <3>1, <3>3, <4>1
    <3> QED BY <3>2, <3>3
  <2>7. ASSUME NEW r \in DOMAIN u.overflow
        PROVE  f[r] # <<>> /\ (u.base < 0 => ~WholeCent(r))
    <3>1. r \in Prices /\ r \in DOMAIN s.overflow
      BY <2>2, LevelMapsFacts DEF SideRec
    <3>2. r # p
      BY <1>5, <3>1 DEF SideOK
    <3> QED BY <1>3, <2>2, <3>1, <3>2 DEF SideOK
  <2>8. ASSUME NEW i \in u.occupied \cup DOMAIN u.flat
        PROVE  \E r \in Prices : InWindow(u, r) /\ Offset(u, r) = i
    <3>1. CASE i \in s.occupied \cup DOMAIN s.flat
      BY <2>3, <3>1 DEF SideOK
    <3>2. CASE i \notin s.occupied \cup DOMAIN s.flat
      BY <1>2, <1>5, <2>2, <2>3, <2>8, <3>2
    <3> QED BY <3>1, <3>2
  <2> QED BY <2>2, <2>5, <2>6, <2>7, <2>8 DEF SideOK, u, f
<1>6. CASE ~InWindow(s, p)
  <2>1. u = [s EXCEPT !.overflow = Drop(@, p)]
    BY <1>6 DEF Emptied
  <2>2. Drop(s.overflow, p) \in LevelMaps(Prices)
    BY <1>1, PutInMap DEF SideRec
  <2>3. DOMAIN Drop(s.overflow, p) = DOMAIN s.overflow \ {p}
        /\ \A r \in DOMAIN s.overflow \ {p} : Drop(s.overflow, p)[r] = s.overflow[r]
    BY DEF Drop
  <2> HIDE DEF u, f
  <2>4. /\ u \in SideRec /\ u.base = s.base /\ u.flat = s.flat /\ u.occupied = s.occupied
        /\ u.overflow = Drop(s.overflow, p)
    BY <1>1, <2>1, <2>2 DEF SideRec
  <2>5. \A r : (InWindow(u, r) <=> InWindow(s, r)) /\ Offset(u, r) = Offset(s, r)
    BY <2>4 DEF InWindow, Offset
  <2>6. LevelAt(u, p) = EmptyLevel /\ \A r \in Prices \ {p} : LevelAt(u, r) = LevelAt(s, r)
    BY <1>6, <2>3, <2>4, <2>5 DEF LevelAt, FlatLevel
  <2>7. \A r \in Prices : Ends(LevelAt(u, r), f[r])
    BY <1>3, <1>4, <2>6 DEF SideOK
  <2>8. ASSUME NEW r \in Prices, InWindow(u, r)
        PROVE  r \notin DOMAIN u.overflow /\ (Offset(u, r) \in u.occupied <=> f[r] # <<>>)
    <3>1. InWindow(s, r) /\ r \notin DOMAIN s.overflow /\ (Offset(s, r) \in s.occupied <=> e[r] # <<>>)
      BY <2>5, <2>8 DEF SideOK
    <3> QED BY <1>3, <1>6, <2>3, <2>4, <2>5, <3>1
  <2>9. ASSUME NEW r \in DOMAIN u.overflow
        PROVE  f[r] # <<>> /\ (u.base < 0 => ~WholeCent(r))
    <3>1. r \in Prices /\ r \in DOMAIN s.overflow /\ r # p
      BY <2>3, <2>4, LevelMapsFacts DEF SideRec
    <3> QED BY <1>3, <2>4, <3>1 DEF SideOK
  <2>10. \A i \in u.occupied \cup DOMAIN u.flat :
           \E r \in Prices : InWindow(u, r) /\ Offset(u, r) = i
    BY <2>4, <2>5 DEF SideOK
  <2> QED BY <2>4, <2>7, <2>8, <2>9, <2>10 DEF SideOK, u, f
<1> QED BY <1>5, <1>6

----------------------------------------------------------------------------
(* The window moves; the queues stay.                                      *)

\* The prices at which a side has orders, however it comes by them.
PricesIn(e) == {p \in Prices : e[p] # <<>>}

LEMMA PriceOfSlot ==
  ASSUME NEW s \in SideRec, NEW p \in Prices, InWindow(s, p)
  PROVE  p = (s.base + Offset(s, p)) * 100
<1>1. p \in Nat /\ s.base \in Int
  BY Bounds DEF SideRec
<1> QED BY <1>1, CentFacts DEF InWindow, Offset

LEMMA NonEmptyLevel ==
  ASSUME NEW s, NEW e \in Queues, SideOK(s, e), NEW p \in PricesIn(e)
  PROVE  LevelAt(s, p) # EmptyLevel
<1>1. LevelAt(s, p).orders = Len(e[p]) /\ e[p] \in Seq(Pool) /\ EmptyLevel.orders = 0 /\ e[p] # <<>>
  BY DEF SideOK, Ends, Queues, EmptyLevel, PricesIn
<1> QED BY <1>1

\* Bitmap and map together hold the prices that have orders, and no others.
LEMMA LivePrices ==
  ASSUME NEW s, NEW e \in Queues, SideOK(s, e)
  PROVE  /\ FlatPrices(s) \cup DOMAIN s.overflow = PricesIn(e)
         /\ HasBest(s) <=> PricesIn(e) # {}
         /\ \A p \in PricesIn(e) : AllLevels(s)[p] = LevelAt(s, p)
<1>1. s \in SideRec /\ DOMAIN s.overflow \subseteq Prices
  BY LevelMapsFacts DEF SideOK, SideRec
<1>2. \A p \in PricesIn(e) :
        \/ InWindow(s, p) /\ p \notin DOMAIN s.overflow /\ Offset(s, p) \in s.occupied
           /\ Offset(s, p) \in DOMAIN s.flat
        \/ ~InWindow(s, p) /\ p \in DOMAIN s.overflow
  BY NonEmptyLevel DEF SideOK, PricesIn, LevelAt, FlatLevel
<1>3. PricesIn(e) \subseteq FlatPrices(s) \cup DOMAIN s.overflow
  BY <1>1, <1>2, PriceOfSlot DEF FlatPrices, PricesIn
<1>4. DOMAIN s.overflow \subseteq PricesIn(e)
  BY <1>1 DEF SideOK, PricesIn
<1>5. FlatPrices(s) \subseteq PricesIn(e)
  <2> SUFFICES ASSUME NEW i \in s.occupied PROVE (s.base + i) * 100 \in PricesIn(e)
    BY DEF FlatPrices
  <2>1. PICK p \in Prices : InWindow(s, p) /\ Offset(s, p) = i
    BY DEF SideOK
  <2>2. e[p] # <<>>
    BY <2>1 DEF SideOK
  <2> QED BY <1>1, <2>1, <2>2, PriceOfSlot DEF PricesIn
<1>6. FlatPrices(s) = {} <=> s.occupied = {}
  BY DEF FlatPrices
<1>7. \A p \in PricesIn(e) : AllLevels(s)[p] = LevelAt(s, p)
  BY <1>2, <1>3 DEF AllLevels, LevelAt, FlatLevel
<1>8. FlatPrices(s) \cup DOMAIN s.overflow = PricesIn(e)
  BY <1>3, <1>4, <1>5
<1> QED BY <1>6, <1>7, <1>8 DEF HasBest

LEMMA EmptyEnds == Ends(EmptyLevel, <<>>)
  BY EmptyIsLevel DEF Ends, EmptyLevel, FirstOf, LastOf

\* Whatever the new origin, each level is found again at its price.
LEMMA PlacedKept ==
  ASSUME NEW s, NEW e \in Queues, SideOK(s, e), NEW base \in Nat
  PROVE  LET t == Placed(base, AllLevels(s))
         IN /\ SideOK(t, e) /\ t.base = base
            /\ \A p \in Prices : LevelAt(t, p) = IF e[p] # <<>> THEN LevelAt(s, p) ELSE EmptyLevel
<1> DEFINE levels == AllLevels(s)
           inside == {p \in DOMAIN levels : WholeCent(p) /\ Cents(p) - base \in Slots}
           slots == {Cents(p) - base : p \in inside}
           t == Placed(base, levels)
<1>1. /\ DOMAIN levels = PricesIn(e) /\ PricesIn(e) \subseteq Prices
      /\ \A p \in PricesIn(e) : levels[p] = LevelAt(s, p)
  BY LivePrices DEF AllLevels, PricesIn
<1>2. \A p \in PricesIn(e) : levels[p] \in LevelRec /\ Ends(levels[p], e[p])
  BY <1>1 DEF SideOK, Ends
<1> HIDE DEF levels
<1>3. \A p \in inside : p \in Prices /\ p \in Nat /\ p = (base + (Cents(p) - base)) * 100
  <2> SUFFICES ASSUME NEW p \in inside
               PROVE  p \in Prices /\ p \in Nat /\ p = (base + (Cents(p) - base)) * 100
    OBVIOUS
  <2>1. p \in Prices /\ p \in Nat /\ WholeCent(p)
    BY <1>1, Bounds
  <2>2. Cents(p) \in Nat /\ p = Cents(p) * 100
    BY <2>1, CentFacts
  <2> QED BY <2>1, <2>2
<1>4. /\ t.base = base /\ t.occupied = slots /\ DOMAIN t.flat = slots
      /\ \A p \in inside : t.flat[Cents(p) - base] = levels[p]
      /\ DOMAIN t.overflow = PricesIn(e) \ inside
      /\ \A p \in PricesIn(e) \ inside : t.overflow[p] = levels[p]
      /\ t = [base |-> t.base, flat |-> t.flat, occupied |-> t.occupied, overflow |-> t.overflow]
  <2>1. t = [base |-> base, flat |-> [i \in slots |-> levels[(base + i) * 100]],
             occupied |-> slots, overflow |-> [p \in PricesIn(e) \ inside |-> levels[p]]]
    BY <1>1 DEF Placed
  <2> HIDE DEF t
  <2>2. \A p \in inside : Cents(p) - base \in slots
    OBVIOUS
  <2>3. \A p \in inside : t.flat[Cents(p) - base] = levels[p]
    BY <1>3, <2>1, <2>2
  <2> QED BY <2>1, <2>3
<1>5. \A p \in Prices : (InWindow(t, p) <=> WholeCent(p) /\ Cents(p) - base \in Slots)
                        /\ Offset(t, p) = Cents(p) - base
  BY <1>4 DEF InWindow, Offset
<1> HIDE DEF t
<1>6. \A p \in Prices : InWindow(t, p) => (Offset(t, p) \in slots <=> e[p] # <<>>)
  <2> SUFFICES ASSUME NEW p \in Prices, InWindow(t, p)
               PROVE  Offset(t, p) \in slots <=> e[p] # <<>>
    OBVIOUS
  <2>1. ASSUME e[p] # <<>> PROVE Offset(t, p) \in slots
    BY <1>1, <1>5, <2>1 DEF PricesIn
  <2>2. ASSUME Offset(t, p) \in slots PROVE e[p] # <<>>
    <3>1. PICK r \in inside : Cents(r) - base = Cents(p) - base
      BY <1>5, <2>2
    <3>2. p \in Nat /\ r \in Nat /\ WholeCent(p) /\ r \in PricesIn(e) /\ WholeCent(r)
      BY <1>1, <1>3, <1>5, Bounds
    <3>3. p = r
      BY <3>1, <3>2, CentFacts
    <3> QED BY <3>2, <3>3 DEF PricesIn
  <2> QED BY <2>1, <2>2
<1>7. \A i \in slots : \E p \in Prices : InWindow(t, p) /\ Offset(t, p) = i
  BY <1>3, <1>5
<1>8. slots \subseteq Slots
  OBVIOUS
<1>9. \A p \in Prices : LevelAt(t, p) = IF e[p] # <<>> THEN levels[p] ELSE EmptyLevel
  <2> SUFFICES ASSUME NEW p \in Prices
               PROVE  LevelAt(t, p) = IF e[p] # <<>> THEN levels[p] ELSE EmptyLevel
    OBVIOUS
  <2>1. CASE InWindow(t, p) /\ e[p] # <<>>
    <3>1. p \in inside
      BY <1>1, <1>5, <2>1 DEF PricesIn
    <3> QED BY <1>4, <1>5, <2>1, <3>1 DEF LevelAt, FlatLevel
  <2>2. CASE InWindow(t, p) /\ e[p] = <<>>
    BY <1>4, <1>6, <2>2 DEF LevelAt, FlatLevel
  <2>3. CASE ~InWindow(t, p)
    <3>1. p \notin inside
      BY <1>5, <2>3
    <3> QED BY <1>4, <2>3, <3>1 DEF LevelAt, PricesIn
  <2> QED BY <2>1, <2>2, <2>3
<1>10. \A p \in Prices : Ends(LevelAt(t, p), e[p])
  BY <1>2, <1>9, EmptyEnds DEF PricesIn
<1>11. t \in SideRec
  <2>1. t.flat \in [slots -> LevelRec]
    <3>1. t.flat = [i \in slots |-> levels[(base + i) * 100]]
      BY <1>1 DEF t, Placed
    <3>2. \A i \in slots : levels[(base + i) * 100] \in LevelRec
      BY <1>1, <1>2, <1>3
    <3> HIDE DEF slots
    <3> QED BY <3>1, <3>2
  <2>2. t.overflow \in [PricesIn(e) \ inside -> LevelRec]
    <3>1. t.overflow = [p \in PricesIn(e) \ inside |-> levels[p]]
      BY <1>1 DEF t, Placed
    <3> HIDE DEF inside
    <3> QED BY <1>2, <3>1
  <2>3. t.flat \in LevelMaps(Slots) /\ t.overflow \in LevelMaps(Prices)
    BY <1>1, <1>8, <2>1, <2>2 DEF LevelMaps
  <2> HIDE DEF slots
  <2> QED BY <1>4, <1>8, <2>3 DEF SideRec
<1>12. \A p \in Prices : InWindow(t, p) => p \notin DOMAIN t.overflow
  BY <1>1, <1>4, <1>5 DEF PricesIn
<1>13. \A p \in DOMAIN t.overflow : e[p] # <<>> /\ (t.base < 0 => ~WholeCent(p))
  BY <1>4 DEF PricesIn
<1>14. \A p \in Prices : LevelAt(t, p) = IF e[p] # <<>> THEN LevelAt(s, p) ELSE EmptyLevel
  BY <1>1, <1>9 DEF PricesIn
<1> HIDE DEF slots
<1>15. SideOK(t, e)
  BY <1>4, <1>6, <1>7, <1>10, <1>11, <1>12, <1>13 DEF SideOK
<1> QED BY <1>4, <1>14, <1>15 DEF t, levels

\* level_for() places the window of an unused side under the levels it has.
LEMMA AnchoredKept ==
  ASSUME NEW s, NEW e \in Queues, SideOK(s, e), NEW side \in Sides, NEW p \in Prices
  PROVE  LET t == Anchored(s, side, p)
         IN /\ SideOK(t, e) /\ (WholeCent(p) => t.base >= 0)
            /\ (s.base >= 0 \/ ~WholeCent(p)) => t = s
            /\ \A r \in Prices : LevelAt(t, r) = LevelAt(s, r)
<1> DEFINE t == Anchored(s, side, p)
<1>1. s \in SideRec /\ s.base \in Int
  BY DEF SideOK, SideRec
<1>2. CASE ~(WholeCent(p) /\ s.base < 0)
  BY <1>1, <1>2 DEF Anchored
<1>3. CASE WholeCent(p) /\ s.base < 0
  <2> DEFINE base == AnchorFor(side, Cents(p))
  <2>1. t = [s EXCEPT !.base = base]
    BY <1>3 DEF Anchored
  <2>2. base \in Nat
    BY Bounds, CentFacts DEF AnchorFor
  <2> HIDE DEF t, base
  <2>3. /\ t \in SideRec /\ t.base = base /\ t.flat = s.flat /\ t.occupied = s.occupied
        /\ t.overflow = s.overflow
    BY <1>1, <2>1, <2>2 DEF SideRec
  <2>4. s.occupied = {} /\ DOMAIN s.flat = {}
    BY <1>1, <1>3 DEF SideOK, InWindow
  <2>5. \A r \in DOMAIN s.overflow : r \in Prices /\ e[r] # <<>> /\ ~WholeCent(r)
    BY <1>1, <1>3, LevelMapsFacts DEF SideOK, SideRec
  <2>6. \A r \in Prices : InWindow(t, r) => r \notin DOMAIN s.overflow
    BY <2>5 DEF InWindow
  <2>7. \A r \in Prices : ~InWindow(s, r)
    BY <1>1, <1>3 DEF InWindow
  <2>8. \A r \in Prices : LevelAt(t, r) = LevelAt(s, r)
    BY <2>3, <2>4, <2>6, <2>7 DEF LevelAt, FlatLevel
  <2>9. \A r \in Prices : InWindow(t, r) => e[r] = <<>>
    <3> SUFFICES ASSUME NEW r \in Prices, InWindow(t, r), e[r] # <<>> PROVE FALSE
      OBVIOUS
    <3>1. LevelAt(s, r) # EmptyLevel
      BY NonEmptyLevel DEF PricesIn
    <3> QED BY <2>6, <2>7, <3>1 DEF LevelAt
  <2>10. SideOK(t, e)
    BY <2>2, <2>3, <2>4, <2>5, <2>6, <2>8, <2>9 DEF SideOK
  <2> QED BY <1>1, <1>3, <2>2, <2>3, <2>8, <2>10 DEF t
<1> QED BY <1>2, <1>3

----------------------------------------------------------------------------
(* The inside.                                                             *)

\* Induction over the numbers, in the form in which it is used here.
LEMMA LeastExists ==
  ASSUME NEW T \in SUBSET Nat, T # {}
  PROVE  \E x \in T : \A y \in T : x <= y
<1> DEFINE R == OpToRel(<, Nat)
<1>1. IsWellFoundedOn(R, Nat)
  BY NatLessThanWellFounded, Zenon
<1>2. \A x, y \in Nat : x < y => <<x, y>> \in R
  BY DEF OpToRel
<1> HIDE DEF R
<1>3. PICK x \in T : \A y \in T : ~(<<y, x>> \in R)
  BY <1>1, WFMin
<1>4. ASSUME NEW y \in T PROVE x <= y
  <2>1. x \in Nat /\ y \in Nat
    OBVIOUS
  <2>2. ~(y < x)
    BY <1>2, <1>3, <2>1
  <2> QED BY <2>1, <2>2
<1> QED BY <1>4

LEMMA GreatestExists ==
  ASSUME NEW S \in SUBSET Nat, IsFiniteSet(S), S # {}
  PROVE  \E x \in S : \A y \in S : y <= x
<1> DEFINE Bounded(X) == \E x \in X : \A y \in X : y <= x
           T == {n \in Nat : \E X \in SUBSET S : X # {} /\ Cardinality(X) = n /\ ~Bounded(X)}
<1> SUFFICES ASSUME ~Bounded(S) PROVE FALSE
  OBVIOUS
<1>1. T # {}
  BY FS_CardinalityType
<1>2. PICK n \in T : \A m \in T : n <= m
  <2> HIDE DEF T
  <2>1. T \in SUBSET Nat
    BY DEF T
  <2> QED BY <1>1, <2>1, LeastExists
<1>3. PICK X \in SUBSET S : X # {} /\ Cardinality(X) = n /\ ~Bounded(X)
  OBVIOUS
<1>4. PICK a \in X : TRUE
  BY <1>3
<1> DEFINE Y == X \ {a}
<1>5. IsFiniteSet(X) /\ IsFiniteSet(Y) /\ Cardinality(Y) = n - 1 /\ n \in Nat
  BY <1>3, <1>4, FS_Subset, FS_RemoveElement
<1>6. n - 1 \in Nat
  BY <1>5, FS_CardinalityType
<1>7. CASE Y = {}
  <2>1. X = {a} /\ a \in Nat
    BY <1>4, <1>7
  <2> QED BY <1>3, <2>1
<1>8. CASE Y # {}
  <2>1. n - 1 \notin T
    BY <1>2, <1>5
  <2>2. Bounded(Y)
    BY <1>5, <1>6, <1>8, <2>1
  <2>3. PICK m \in Y : \A y \in Y : y <= m
    BY <2>2
  <2>4. m \in Nat /\ a \in Nat /\ \A y \in X : y = a \/ y <= m
    BY <1>4, <2>3
  <2>5. Bounded(X)
    <3>1. CASE a <= m
      BY <2>3, <2>4, <3>1
    <3>2. CASE ~(a <= m)
      <4>1. \A y \in X : y <= a
        BY <2>4, <3>2
      <4> QED BY <1>4, <4>1
    <3> QED BY <3>1, <3>2
  <2> QED BY <1>3, <2>5
<1> QED BY <1>7, <1>8

LEMMA ExtremeIsOne ==
  ASSUME NEW S \in SUBSET Prices, S # {}, NEW side
  PROVE  Extreme(side, S) \in S
<1>1. S \in SUBSET Nat /\ IsFiniteSet(S)
  BY FS_Subset, FastBookAssumption
<1>2. CASE side = "B"
  BY <1>1, <1>2, GreatestExists DEF Extreme
<1>3. CASE side # "B"
  BY <1>1, <1>3, LeastExists DEF Extreme
<1> QED BY <1>2, <1>3

\* best(): the extreme of the prices that have orders.
LEMMA BestIsExtreme ==
  ASSUME NEW s, NEW e \in Queues, SideOK(s, e), NEW side
  PROVE  /\ HasBest(s) <=> PricesIn(e) # {}
         /\ Best(s, side) = Extreme(side, PricesIn(e))
         /\ HasBest(s) => Best(s, side) \in Prices /\ Cents(Best(s, side)) \in Nat
<1>1. HasBest(s) <=> PricesIn(e) # {}
  BY LivePrices
<1>2. Best(s, side) = Extreme(side, PricesIn(e))
  BY LivePrices DEF Best
<1>3. HasBest(s) => Best(s, side) \in Prices
  BY <1>1, <1>2, ExtremeIsOne DEF PricesIn
<1> QED BY <1>1, <1>2, <1>3, Bounds, CentFacts

\* The inside is in the window; or below one that is as good as at zero.
InsideHeld(s, side) ==
  HasBest(s) =>
    LET cents == Cents(Best(s, side))
    IN s.base >= 0 /\ (cents - s.base \in Slots \/ (cents < s.base /\ s.base < Hysteresis))

LEMMA AnchorHolds ==
  ASSUME NEW side \in Sides, NEW cents \in Nat
  PROVE  AnchorFor(side, cents) \in Nat /\ cents - AnchorFor(side, cents) \in Slots
  BY Bounds DEF AnchorFor, Slots

LEMMA NearEnough ==
  ASSUME NEW side \in Sides, NEW cents \in Nat, NEW base \in Nat,
         LET anchor == AnchorFor(side, cents)
         IN (IF anchor > base THEN anchor - base ELSE base - anchor) < Hysteresis
  PROVE  cents - base \in Slots \/ (cents < base /\ base < Hysteresis)
  BY Bounds DEF AnchorFor, Slots, Sides

\* maybe_recenter(): every level is found at its price as before, and the inside
\* is in the window.
LEMMA FollowedKept ==
  ASSUME NEW s, NEW e \in Queues, SideOK(s, e), NEW side \in Sides
  PROVE  /\ SideOK(Followed(s, side), e) /\ InsideHeld(Followed(s, side), side)
         /\ \A p \in Prices : \/ LevelAt(Followed(s, side), p) = LevelAt(s, p)
                              \/ e[p] = <<>> /\ LevelAt(Followed(s, side), p) = EmptyLevel
<1> DEFINE t == Followed(s, side)
           best == Extreme(side, PricesIn(e))
           cents == Cents(best)
           anchor == AnchorFor(side, cents)
<1>1. /\ HasBest(s) <=> PricesIn(e) # {}
      /\ Best(s, side) = best /\ (HasBest(s) => cents \in Nat)
  BY BestIsExtreme
<1>2. s.base \in Nat \cup {-1}
  BY DEF SideOK, SideRec
<1>3. CASE ~HasBest(s)
  BY <1>3 DEF Followed, InsideHeld
<1>4. CASE HasBest(s) /\ s.base >= 0 /\ cents - s.base \in Margin..Window - Margin - 1
  <2>1. t = s
    BY <1>1, <1>4 DEF Followed
  <2>2. cents - s.base \in Slots
    BY <1>1, <1>2, <1>4, Bounds DEF Slots
  <2> QED BY <1>1, <1>4, <2>1, <2>2 DEF InsideHeld
<1>5. CASE HasBest(s) /\ ~(s.base >= 0 /\ cents - s.base \in Margin..Window - Margin - 1)
  <2>1. t = Recentered(s, side, cents)
    BY <1>1, <1>5 DEF Followed
  <2>2. anchor \in Nat /\ cents - anchor \in Slots
    BY <1>1, <1>5, AnchorHolds
  <2>3. CASE s.base >= 0 /\ (IF anchor > s.base THEN anchor - s.base ELSE s.base - anchor) < Hysteresis
    <3>1. t = s
      BY <2>1, <2>3 DEF Recentered
    <3>2. cents - s.base \in Slots \/ (cents < s.base /\ s.base < Hysteresis)
      <4> HIDE DEF cents
      <4> QED BY <1>1, <1>2, <1>5, <2>3, NearEnough
    <3> QED BY <1>1, <2>3, <3>1, <3>2 DEF InsideHeld
  <2>4. CASE ~(s.base >= 0 /\ (IF anchor > s.base THEN anchor - s.base ELSE s.base - anchor) < Hysteresis)
    <3>1. t = Placed(anchor, AllLevels(s))
      BY <2>1, <2>4 DEF Recentered
    <3>2. /\ SideOK(t, e) /\ t.base = anchor
          /\ \A p \in Prices : LevelAt(t, p) = IF e[p] # <<>> THEN LevelAt(s, p) ELSE EmptyLevel
      BY <2>2, <3>1, PlacedKept
    <3>3. Best(t, side) = best
      BY <3>2, BestIsExtreme
    <3>4. InsideHeld(t, side)
      BY <2>2, <3>2, <3>3 DEF InsideHeld
    <3> HIDE DEF t
    <3>5. \A p \in Prices : \/ LevelAt(t, p) = LevelAt(s, p)
                            \/ e[p] = <<>> /\ LevelAt(t, p) = EmptyLevel
      BY <3>2
    <3> QED BY <3>2, <3>4, <3>5 DEF t
  <2> QED BY <2>3, <2>4
<1> QED BY <1>3, <1>4, <1>5

----------------------------------------------------------------------------
(* A queue is a sequence of slots, and the links of their records say so.  *)

Records == [Pool -> FastOrder]

NextIn(q, x) == IF x = Len(q) THEN NoOrder ELSE q[x + 1]
PrevIn(q, x) == IF x = 1 THEN NoOrder ELSE q[x - 1]

QueueOK(pl, k, p, q) ==
  /\ q \in Seq(Pool) /\ NoRepeats(q)
  /\ \A x \in 1..Len(q) :
       /\ pl[q[x]].next = NextIn(q, x) /\ pl[q[x]].prev = PrevIn(q, x)
       /\ SideOf(pl[q[x]]) = k /\ pl[q[x]].price = p

LEMMA NoOrderIsNoSlot == NoOrder \notin Pool
  BY Bounds DEF NoOrder, Pool

LEMMA QueuePlaces ==
  ASSUME NEW q \in Seq(Pool)
  PROVE  /\ Len(q) \in Nat /\ FirstOf(q) \in Link /\ LastOf(q) \in Link
         /\ \A x \in 1..Len(q) : q[x] \in Pool /\ PrevIn(q, x) \in Link /\ NextIn(q, x) \in Link
         /\ q # <<>> => 1 \in 1..Len(q) /\ Len(q) \in 1..Len(q)
<1>1. Len(q) \in Nat /\ (q # <<>> => 1 \in 1..Len(q) /\ Len(q) \in 1..Len(q))
  OBVIOUS
<1>2. \A x \in 1..Len(q) : q[x] \in Pool
  OBVIOUS
<1>3. FirstOf(q) \in Link /\ LastOf(q) \in Link
  BY <1>1, <1>2 DEF FirstOf, LastOf, Link
<1>4. ASSUME NEW x \in 1..Len(q) PROVE PrevIn(q, x) \in Link /\ NextIn(q, x) \in Link
  <2>1. x # 1 => x - 1 \in 1..Len(q)
    BY <1>1
  <2>2. x # Len(q) => x + 1 \in 1..Len(q)
    BY <1>1
  <2> QED BY <1>2, <2>1, <2>2 DEF PrevIn, NextIn, Link
<1> QED BY <1>1, <1>2, <1>3, <1>4

\* All of a record but its links.
SameOrder(o, u) ==
  /\ o.ref = u.ref /\ o.shares = u.shares /\ o.price = u.price
  /\ o.locate = u.locate /\ o.side = u.side

Remaining(q, x) == [j \in 1..Len(q) - 1 |-> IF j < x THEN q[j] ELSE q[j + 1]]

LEMMA RemainingFacts ==
  ASSUME NEW q \in Seq(Pool), NEW x \in 1..Len(q), NoRepeats(q)
  PROVE  LET e == Remaining(q, x)
         IN /\ e \in Seq(Pool) /\ Len(e) = Len(q) - 1 /\ NoRepeats(e) /\ Len(q) \in Nat
            /\ \A j \in 1..Len(e) : e[j] = IF j < x THEN q[j] ELSE q[j + 1]
            /\ \A j \in 1..Len(e) : e[j] # q[x]
<1> DEFINE e == Remaining(q, x)
           n == Len(q) - 1
<1>1. n \in Nat /\ Len(q) \in Nat
  OBVIOUS
<1>2. e \in [1..n -> Pool]
  BY <1>1 DEF Remaining
<1>3. e \in Seq(Pool) /\ Len(e) = n
  BY <1>1, <1>2
<1>4. \A j \in 1..n : e[j] = IF j < x THEN q[j] ELSE q[j + 1]
  BY <1>1 DEF Remaining
<1> HIDE DEF e
<1>5. NoRepeats(e)
  BY <1>1, <1>3, <1>4 DEF NoRepeats
<1>6. \A j \in 1..n : e[j] # q[x]
  BY <1>1, <1>4 DEF NoRepeats
<1> QED BY <1>1, <1>3, <1>4, <1>5, <1>6 DEF e

\* unlink() writes the neighbours of the order in slot q[x], and nothing else.
Spliced(pl, i) == LinkPrev(LinkNext(pl, pl[i].prev, pl[i].next), pl[i].next, pl[i].prev)

LEMMA SplicedRecords ==
  ASSUME NEW pl \in Records, NEW k, NEW p, NEW q, QueueOK(pl, k, p, q), NEW x \in 1..Len(q)
  PROVE  LET i == q[x]
             e == Spliced(pl, i)
         IN /\ i \in Pool /\ e \in Records
            /\ pl[i].next = NextIn(q, x) /\ pl[i].prev = PrevIn(q, x)
            /\ \A j \in Pool : SameOrder(e[j], pl[j])
            /\ \A j \in Pool : e[j].next = IF j = PrevIn(q, x) THEN NextIn(q, x) ELSE pl[j].next
            /\ \A j \in Pool : e[j].prev = IF j = NextIn(q, x) THEN PrevIn(q, x) ELSE pl[j].prev
            /\ \A j \in Pool : j # PrevIn(q, x) /\ j # NextIn(q, x) => e[j] = pl[j]
            /\ PrevIn(q, x) \in Pool \cup {NoOrder} /\ NextIn(q, x) \in Pool \cup {NoOrder}
<1> DEFINE i == q[x]
           m == PrevIn(q, x)
           n == NextIn(q, x)
           d == LinkNext(pl, m, n)
           e == LinkPrev(d, n, m)
<1>1. /\ i \in Pool /\ pl[i].next = n /\ pl[i].prev = m
      /\ m \in Pool \cup {NoOrder} /\ n \in Pool \cup {NoOrder} /\ NoOrder \notin Pool
  BY QueuePlaces, NoOrderIsNoSlot DEF QueueOK, Link
<1> HIDE DEF i, m, n
<1>2. /\ d \in Records
      /\ \A j \in Pool : SameOrder(d[j], pl[j]) /\ d[j].prev = pl[j].prev
      /\ \A j \in Pool : d[j].next = IF j = m THEN n ELSE pl[j].next
      /\ \A j \in Pool : j # m => d[j] = pl[j]
  BY <1>1 DEF LinkNext, Records, FastOrder, SameOrder
<1> HIDE DEF d
<1>3. /\ e \in Records
      /\ \A j \in Pool : SameOrder(e[j], d[j]) /\ e[j].next = d[j].next
      /\ \A j \in Pool : e[j].prev = IF j = n THEN m ELSE d[j].prev
      /\ \A j \in Pool : j # n => e[j] = d[j]
  BY <1>1, <1>2, SMTT(60) DEF LinkPrev, Records, FastOrder, SameOrder
<1>4. e = Spliced(pl, i)
  BY <1>1 DEF Spliced, d
<1> HIDE DEF e
<1> QED BY <1>1, <1>2, <1>3, <1>4 DEF SameOrder, i, m, n

\* The neighbours of an order are in its own queue.
LEMMA NotANeighbour ==
  ASSUME NEW pl, NEW k, NEW p, NEW q, QueueOK(pl, k, p, q), NEW x \in 1..Len(q),
         NEW j \in Pool, ~(SideOf(pl[j]) = k /\ pl[j].price = p)
  PROVE  j # PrevIn(q, x) /\ j # NextIn(q, x)
<1>1. q \in Seq(Pool) /\ Len(q) \in Nat /\ \A y \in 1..Len(q) : q[y] # j
  BY DEF QueueOK
<1>2. x # 1 => x - 1 \in 1..Len(q)
  BY <1>1
<1>3. x # Len(q) => x + 1 \in 1..Len(q)
  BY <1>1
<1> QED BY <1>1, <1>2, <1>3, NoOrderIsNoSlot DEF PrevIn, NextIn

\* unlink() on the links: the queue without its entry, and no other record.
LEMMA SplicedQueue ==
  ASSUME NEW pl \in Records, NEW k, NEW p, NEW q, QueueOK(pl, k, p, q), NEW x \in 1..Len(q)
  PROVE  QueueOK(Spliced(pl, q[x]), k, p, Remaining(q, x))
<1> DEFINE e == Spliced(pl, q[x])
           f == Remaining(q, x)
<1>1. /\ q \in Seq(Pool) /\ NoRepeats(q) /\ Len(q) \in Nat
      /\ \A y \in 1..Len(q) :
           /\ q[y] \in Pool /\ pl[q[y]].next = NextIn(q, y) /\ pl[q[y]].prev = PrevIn(q, y)
           /\ SideOf(pl[q[y]]) = k /\ pl[q[y]].price = p
  BY DEF QueueOK
<1>2. /\ f \in Seq(Pool) /\ Len(f) = Len(q) - 1 /\ NoRepeats(f)
      /\ \A j \in 1..Len(f) : f[j] = IF j < x THEN q[j] ELSE q[j + 1]
  BY <1>1, RemainingFacts
<1>3. /\ \A j \in Pool : SameOrder(e[j], pl[j])
      /\ \A j \in Pool : e[j].next = IF j = PrevIn(q, x) THEN NextIn(q, x) ELSE pl[j].next
      /\ \A j \in Pool : e[j].prev = IF j = NextIn(q, x) THEN PrevIn(q, x) ELSE pl[j].prev
  BY SplicedRecords
<1> HIDE DEF e, f
<1>4. ASSUME NEW j \in 1..Len(f)
      PROVE  /\ e[f[j]].next = NextIn(f, j) /\ e[f[j]].prev = PrevIn(f, j)
             /\ SideOf(e[f[j]]) = k /\ e[f[j]].price = p
  <2> DEFINE y == IF j < x THEN j ELSE j + 1
  <2>1. y \in 1..Len(q) /\ y # x /\ f[j] = q[y] /\ q[y] \in Pool
    BY <1>1, <1>2
  <2>2. SideOf(e[q[y]]) = k /\ e[q[y]].price = p
    BY <1>1, <1>3, <2>1, SMTT(60) DEF SameOrder, SideOf
  <2>3. q[y] = PrevIn(q, x) <=> y = x - 1
    BY <1>1, <2>1 DEF PrevIn, NoRepeats, NoOrder, Pool
  <2>4. q[y] = NextIn(q, x) <=> y = x + 1
    BY <1>1, <2>1 DEF NextIn, NoRepeats, NoOrder, Pool
  <2>5. e[q[y]].next = IF y = x - 1 THEN NextIn(q, x) ELSE NextIn(q, y)
    BY <1>1, <1>3, <2>1, <2>3
  <2>6. e[q[y]].prev = IF y = x + 1 THEN PrevIn(q, x) ELSE PrevIn(q, y)
    BY <1>1, <1>3, <2>1, <2>4
  <2>7. NextIn(f, j) = IF y = x - 1 THEN NextIn(q, x) ELSE NextIn(q, y)
    <3>1. CASE j = Len(f)
      <4>1. NextIn(f, j) = NoOrder /\ (y = x - 1 => x = Len(q)) /\ (y # x - 1 => y = Len(q))
        BY <1>1, <1>2, <3>1 DEF NextIn
      <4> QED BY <4>1 DEF NextIn
    <3>2. CASE j # Len(f)
      <4>1. j + 1 \in 1..Len(f) /\ NextIn(f, j) = f[j + 1]
        BY <1>1, <1>2, <3>2 DEF NextIn
      <4>2. f[j + 1] = IF y = x - 1 THEN q[x + 1] ELSE q[y + 1]
        BY <1>1, <1>2, <4>1
      <4>3. (y = x - 1 => x # Len(q)) /\ y # Len(q)
        BY <1>1, <1>2, <3>2, <2>1
      <4> QED BY <4>1, <4>2, <4>3 DEF NextIn
    <3> QED BY <3>1, <3>2
  <2>8. PrevIn(f, j) = IF y = x + 1 THEN PrevIn(q, x) ELSE PrevIn(q, y)
    BY <1>1, <1>2, <2>1 DEF PrevIn
  <2> QED BY <2>1, <2>2, <2>5, <2>6, <2>7, <2>8
<1> QED BY <1>2, <1>4 DEF QueueOK, e, f

\* A queue none of whose slots is written is what it was.
LEMMA QueueApart ==
  ASSUME NEW pl, NEW k, NEW p, NEW q, QueueOK(pl, k, p, q), NEW e,
         \A x \in 1..Len(q) : e[q[x]] = pl[q[x]]
  PROVE  QueueOK(e, k, p, q)
  BY DEF QueueOK

LEMMA QueueSameLinks ==
  ASSUME NEW pl, NEW k, NEW p, NEW q, QueueOK(pl, k, p, q), NEW e,
         \A x \in 1..Len(q) :
           /\ e[q[x]].next = pl[q[x]].next /\ e[q[x]].prev = pl[q[x]].prev
           /\ SideOf(e[q[x]]) = SideOf(pl[q[x]]) /\ e[q[x]].price = pl[q[x]].price
  PROVE  QueueOK(e, k, p, q)
  BY DEF QueueOK

\* add() links a slot behind the last of a queue.
Joined(pl, i, o, last) == LinkNext([pl EXCEPT ![i] = [o EXCEPT !.prev = last]], last, i)

LEMMA JoinedRecords ==
  ASSUME NEW pl \in Records, NEW k, NEW p, NEW q, QueueOK(pl, k, p, q),
         NEW i \in Pool, \A x \in 1..Len(q) : q[x] # i,
         NEW o \in FastOrder
  PROVE  LET e == Joined(pl, i, o, LastOf(q))
         IN /\ e \in Records /\ SameOrder(e[i], o)
            /\ e[i].next = o.next /\ e[i].prev = LastOf(q)
            /\ \A j \in Pool \ {i} : /\ SameOrder(e[j], pl[j]) /\ e[j].prev = pl[j].prev
                                     /\ e[j].next = IF j = LastOf(q) THEN i ELSE pl[j].next
            /\ \A j \in Pool \ {i} : j # LastOf(q) => e[j] = pl[j]
            /\ LastOf(q) # i
<1> DEFINE l == LastOf(q)
           d == [pl EXCEPT ![i] = [o EXCEPT !.prev = l]]
           e == LinkNext(d, l, i)
<1>1. l \in Pool \cup {NoOrder} /\ l # i /\ NoOrder \notin Pool
  <2>1. q \in Seq(Pool) /\ LastOf(q) \in Link /\ (q # <<>> => Len(q) \in 1..Len(q))
    BY QueuePlaces DEF QueueOK
  <2>2. LastOf(q) # i
    BY <2>1, NoOrderIsNoSlot DEF LastOf
  <2> QED BY <2>1, <2>2, NoOrderIsNoSlot DEF Link
<1> HIDE DEF l
<1>2. /\ d \in Records /\ SameOrder(d[i], o) /\ d[i].next = o.next /\ d[i].prev = l
      /\ \A j \in Pool \ {i} : d[j] = pl[j]
  BY <1>1 DEF Records, FastOrder, SameOrder
<1> HIDE DEF d
<1>3. /\ e \in Records
      /\ \A j \in Pool : SameOrder(e[j], d[j]) /\ e[j].prev = d[j].prev
      /\ \A j \in Pool : e[j].next = IF j = l THEN i ELSE d[j].next
      /\ \A j \in Pool : j # l => e[j] = d[j]
  BY <1>1, <1>2 DEF LinkNext, Records, FastOrder, SameOrder
<1>4. e = Joined(pl, i, o, l)
  BY DEF Joined, d
<1> HIDE DEF e
<1> QED BY <1>1, <1>2, <1>3, <1>4 DEF SameOrder, l

\* add() on the links: the queue with the new slot at its end.
LEMMA JoinedQueue ==
  ASSUME NEW pl \in Records, NEW k, NEW p, NEW q, QueueOK(pl, k, p, q),
         NEW i \in Pool, \A x \in 1..Len(q) : q[x] # i,
         NEW o \in FastOrder, o.next = NoOrder, SideOf(o) = k, o.price = p
  PROVE  QueueOK(Joined(pl, i, o, LastOf(q)), k, p, Append(q, i))
<1> DEFINE e == Joined(pl, i, o, LastOf(q))
           f == Append(q, i)
<1>1. /\ q \in Seq(Pool) /\ NoRepeats(q) /\ Len(q) \in Nat
      /\ \A y \in 1..Len(q) :
           /\ q[y] \in Pool /\ pl[q[y]].next = NextIn(q, y) /\ pl[q[y]].prev = PrevIn(q, y)
           /\ SideOf(pl[q[y]]) = k /\ pl[q[y]].price = p
  BY DEF QueueOK
<1>2. /\ f \in Seq(Pool) /\ Len(f) = Len(q) + 1 /\ f[Len(q) + 1] = i
      /\ \A j \in 1..Len(q) : f[j] = q[j]
  BY <1>1
<1>3. /\ SameOrder(e[i], o) /\ e[i].next = o.next /\ e[i].prev = LastOf(q)
      /\ \A j \in Pool \ {i} : /\ SameOrder(e[j], pl[j]) /\ e[j].prev = pl[j].prev
                               /\ e[j].next = IF j = LastOf(q) THEN i ELSE pl[j].next
  BY JoinedRecords
<1> HIDE DEF e, f
<1>4. NoRepeats(f)
  BY <1>1, <1>2 DEF NoRepeats
<1>5. ASSUME NEW j \in 1..Len(q)
      PROVE  /\ e[f[j]].next = NextIn(f, j) /\ e[f[j]].prev = PrevIn(f, j)
             /\ SideOf(e[f[j]]) = k /\ e[f[j]].price = p
  <2>1. f[j] = q[j] /\ q[j] \in Pool \ {i}
    BY <1>1, <1>2
  <2>2. q[j] = LastOf(q) <=> j = Len(q)
    BY <1>1 DEF LastOf, NoRepeats
  <2>3. SideOf(e[q[j]]) = k /\ e[q[j]].price = p
    BY <1>1, <1>3, <2>1 DEF SameOrder, SideOf
  <2>4. e[q[j]].next = IF j = Len(q) THEN i ELSE NextIn(q, j)
    BY <1>1, <1>3, <2>1, <2>2
  <2>5. e[q[j]].prev = PrevIn(q, j)
    BY <1>1, <1>3, <2>1
  <2>6. NextIn(f, j) = IF j = Len(q) THEN i ELSE NextIn(q, j)
    BY <1>1, <1>2 DEF NextIn
  <2>7. PrevIn(f, j) = PrevIn(q, j)
    BY <1>1, <1>2 DEF PrevIn
  <2> QED BY <2>1, <2>3, <2>4, <2>5, <2>6, <2>7
<1>6. /\ e[i].next = NextIn(f, Len(f)) /\ e[i].prev = PrevIn(f, Len(f))
      /\ SideOf(e[i]) = k /\ e[i].price = p
  <2>1. LastOf(q) = PrevIn(f, Len(f))
    BY <1>1, <1>2 DEF LastOf, PrevIn
  <2> QED BY <1>3, <2>1 DEF NextIn, SameOrder, SideOf
<1>7. \A j \in 1..Len(f) : j \in 1..Len(q) \/ (j = Len(f) /\ f[j] = i)
  BY <1>1, <1>2
<1> QED BY <1>2, <1>4, <1>5, <1>6, <1>7 DEF QueueOK, e, f

----------------------------------------------------------------------------
(* The book: Q gives, for each side and price, the queue there.            *)

Keys == Symbols \X Sides

BookShape(b) == b = [index |-> b.index, pool |-> b.pool, free |-> b.free,
                     sides |-> b.sides, checked |-> b.checked]

\* What unlink() leaves of its level, and the two fields of the book it writes.
Less(lvl, o) == [lvl EXCEPT !.orders = IF @ > 0 THEN @ - 1 ELSE @,
                            !.head = IF o.prev = NoOrder THEN o.next ELSE @,
                            !.tail = IF o.next = NoOrder THEN o.prev ELSE @]
SideWithout(s, p, o) ==
  LET new == Less(LevelAt(s, p), o)
  IN IF new.orders = 0 THEN Emptied(s, p, new) ELSE PutLevel(s, p, new)
Rewritten(b, pl, k, t) == [b EXCEPT !.pool = pl, !.sides = [b.sides EXCEPT ![k] = t]]

LEMMA UnlinkedIs ==
  ASSUME NEW b, BookShape(b), NEW i, NEW k, NEW p, SideOf(b.pool[i]) = k, b.pool[i].price = p,
         HasLevel(b.sides[k], p)
  PROVE  Unlinked(b, i) = Rewritten(b, Spliced(b.pool, i), k, SideWithout(b.sides[k], p, b.pool[i]))
<1> DEFINE t == SideWithout(b.sides[k], p, b.pool[i])
           pl == Spliced(b.pool, i)
<1>1. Unlinked(b, i) = [b EXCEPT !.pool = Spliced(@, i), !.sides[k] = t]
  BY DEF Unlinked, Spliced, Less, SideWithout
<1> HIDE DEF t
<1>2. [b EXCEPT !.pool = Spliced(@, i), !.sides[k] = t] = [b EXCEPT !.pool = pl, !.sides[k] = t]
  OBVIOUS
<1> HIDE DEF pl
<1>3. [b EXCEPT !.pool = pl, !.sides[k] = t] = [b EXCEPT !.pool = pl, !.sides = [b.sides EXCEPT ![k] = t]]
  BY DEF BookShape
<1>4. Unlinked(b, i) = Rewritten(b, pl, k, t)
  BY <1>1, <1>2, <1>3 DEF Rewritten
<1> QED BY <1>4 DEF pl, t

Linked(b, Q) ==
  /\ BookShape(b) /\ b.pool \in Records
  /\ DOMAIN b.sides = Keys /\ b.sides = [k \in Keys |-> b.sides[k]]
  /\ Q \in [Keys -> Queues]
  /\ \A k \in Keys : SideOK(b.sides[k], Q[k])
  /\ \A k \in Keys : \A p \in Prices : QueueOK(b.pool, k, p, Q[k][p])

SameOtherwise(c, b) == c.index = b.index /\ c.free = b.free /\ c.checked = b.checked

\* An order in a queue, and the level it is found in.
LEMMA InQueue ==
  ASSUME NEW b, NEW Q, Linked(b, Q), NEW k \in Keys, NEW p \in Prices, NEW x \in 1..Len(Q[k][p])
  PROVE  LET i == Q[k][p][x]
         IN /\ i \in Pool /\ b.pool[i] \in FastOrder
            /\ SideOf(b.pool[i]) = k /\ b.pool[i].price = p
            /\ HasLevel(b.sides[k], p) /\ Q[k][p] # <<>> /\ Q[k][p] \in Seq(Pool)
            /\ Q[k] \in Queues /\ SideOK(b.sides[k], Q[k])
            /\ QueueOK(b.pool, k, p, Q[k][p])
            /\ Ends(LevelAt(b.sides[k], p), Q[k][p])
<1> DEFINE i == Q[k][p][x]
<1>1. /\ Q[k] \in Queues /\ SideOK(b.sides[k], Q[k]) /\ QueueOK(b.pool, k, p, Q[k][p])
      /\ b.pool \in Records
  BY DEF Linked
<1>2. i \in Pool /\ SideOf(b.pool[i]) = k /\ b.pool[i].price = p /\ Q[k][p] \in Seq(Pool)
  BY <1>1 DEF QueueOK
<1>3. Q[k][p] # <<>>
  BY <1>2
<1>4. HasLevel(b.sides[k], p)
  <2>1. p \in PricesIn(Q[k])
    BY <1>3 DEF PricesIn
  <2>2. LevelAt(b.sides[k], p) # EmptyLevel
    BY <1>1, <2>1, NonEmptyLevel
  <2> QED BY <2>2 DEF LevelAt, HasLevel
<1>5. Ends(LevelAt(b.sides[k], p), Q[k][p])
  BY <1>1 DEF SideOK
<1> QED BY <1>1, <1>2, <1>3, <1>4, <1>5 DEF Records

\* A book with another pool and another side k, both sound, is sound.
LEMMA LinkedAgain ==
  ASSUME NEW b, NEW Q, Linked(b, Q), NEW k \in Keys, NEW e \in Queues, NEW s, SideOK(s, e),
         NEW pl \in Records, NEW c, BookShape(c), c.pool = pl,
         c.sides = [b.sides EXCEPT ![k] = s],
         \A p \in Prices : QueueOK(pl, k, p, e[p]),
         \A j \in Keys \ {k} : \A p \in Prices : QueueOK(pl, j, p, Q[j][p])
  PROVE  Linked(c, [Q EXCEPT ![k] = e])
<1> DEFINE R == [Q EXCEPT ![k] = e]
<1>1. R \in [Keys -> Queues] /\ R[k] = e /\ \A j \in Keys \ {k} : R[j] = Q[j]
  BY DEF Linked
<1>2. DOMAIN c.sides = Keys /\ c.sides[k] = s /\ \A j \in Keys \ {k} : c.sides[j] = b.sides[j]
  BY DEF Linked
<1>3. c.sides = [j \in Keys |-> c.sides[j]]
  BY <1>2
<1> HIDE DEF R
<1>4. \A j \in Keys : SideOK(c.sides[j], R[j])
  BY <1>1, <1>2 DEF Linked
<1>5. \A j \in Keys : \A p \in Prices : QueueOK(c.pool, j, p, R[j][p])
  BY <1>1
<1> QED BY <1>1, <1>2, <1>3, <1>4, <1>5 DEF Linked, R

\* Shares leave an order and its level; nothing else moves.
LEMMA DeductedLinked ==
  ASSUME NEW b, NEW Q, Linked(b, Q), NEW k \in Keys, NEW p \in Prices, NEW x \in 1..Len(Q[k][p]),
         NEW qty \in Nat, qty <= b.pool[Q[k][p][x]].shares
  PROVE  LET i == Q[k][p][x]
             c == Deducted(b, i, qty)
         IN /\ Linked(c, Q) /\ SameOtherwise(c, b)
            /\ c.pool = [b.pool EXCEPT ![i].shares = @ - qty]
<1> DEFINE i == Q[k][p][x]
           c == Deducted(b, i, qty)
           s == b.sides[k]
           lvl == [LevelAt(s, p) EXCEPT !.shares = @ - qty]
           pl == [b.pool EXCEPT ![i].shares = @ - qty]
           e == Q[k]
<1>1. /\ i \in Pool /\ b.pool[i] \in FastOrder /\ SideOf(b.pool[i]) = k /\ b.pool[i].price = p
      /\ HasLevel(s, p) /\ e[p] # <<>> /\ e[p] \in Seq(Pool) /\ e \in Queues /\ SideOK(s, e)
      /\ Ends(LevelAt(s, p), e[p])
  BY InQueue
<1>2. c = [b EXCEPT !.pool = pl, !.sides = [b.sides EXCEPT ![k] = PutLevel(s, p, lvl)]]
  BY <1>1 DEF Deducted, Linked, BookShape
<1>3. pl \in Records /\ \A j \in Pool : /\ SameOrder(pl[j], b.pool[j]) \/ j = i
                                        /\ pl[j].next = b.pool[j].next /\ pl[j].prev = b.pool[j].prev
                                        /\ SideOf(pl[j]) = SideOf(b.pool[j])
                                        /\ pl[j].price = b.pool[j].price
  <2>1. b.pool \in Records /\ b.pool[i].shares - qty \in Nat
    BY <1>1 DEF Linked, FastOrder
  <2> QED BY <1>1, <2>1 DEF Records, FastOrder, SameOrder, SideOf
<1>4. Ends(lvl, e[p])
  BY <1>1 DEF Ends, LevelRec
<1>5. SideOK(PutLevel(s, p, lvl), e)
  <2> HIDE DEF lvl, e, s
  <2>1. SideOK(PutLevel(s, p, lvl), [e EXCEPT ![p] = e[p]])
    BY <1>1, <1>4, LevelKept
  <2>2. [e EXCEPT ![p] = e[p]] = e
    BY <1>1 DEF Queues
  <2> QED BY <2>1, <2>2
<1>6. \A j \in Keys : \A r \in Prices : QueueOK(pl, j, r, Q[j][r])
  <2> SUFFICES ASSUME NEW j \in Keys, NEW r \in Prices PROVE QueueOK(pl, j, r, Q[j][r])
    OBVIOUS
  <2>1. QueueOK(b.pool, j, r, Q[j][r])
    BY DEF Linked
  <2>2. \A y \in 1..Len(Q[j][r]) : Q[j][r][y] \in Pool
    BY <2>1 DEF QueueOK
  <2> HIDE DEF pl
  <2> QED BY <1>3, <2>1, <2>2, QueueSameLinks, SMTT(60)
<1> HIDE DEF pl, lvl, s
<1>7. /\ BookShape(c) /\ c.pool = pl /\ c.sides = [b.sides EXCEPT ![k] = PutLevel(s, p, lvl)]
      /\ SameOtherwise(c, b)
  BY <1>2 DEF Linked, BookShape, SameOtherwise
<1> HIDE DEF c
<1>8. Linked(c, [Q EXCEPT ![k] = e])
  BY <1>1, <1>3, <1>5, <1>6, <1>7, LinkedAgain
<1>9. [Q EXCEPT ![k] = e] = Q
  BY DEF Linked
<1> QED BY <1>7, <1>8, <1>9 DEF c, pl

Requeued(Q, k, p, q) == [Q EXCEPT ![k] = [Q[k] EXCEPT ![p] = q]]

\* unlink(): the order's queue loses it, wherever its level lives.
LEMMA UnlinkedLinked ==
  ASSUME NEW b, NEW Q, Linked(b, Q), NEW k \in Keys, NEW p \in Prices, NEW x \in 1..Len(Q[k][p])
  PROVE  LET i == Q[k][p][x]
             c == Unlinked(b, i)
         IN /\ Linked(c, Requeued(Q, k, p, Remaining(Q[k][p], x))) /\ SameOtherwise(c, b)
            /\ c.pool = Spliced(b.pool, i)
<1> DEFINE q == Q[k][p]
           i == q[x]
           c == Unlinked(b, i)
           s == b.sides[k]
           e == Q[k]
           lvl == LevelAt(s, p)
           o == b.pool[i]
           new == [lvl EXCEPT !.orders = IF @ > 0 THEN @ - 1 ELSE @,
                              !.head = IF o.prev = NoOrder THEN o.next ELSE @,
                              !.tail = IF o.next = NoOrder THEN o.prev ELSE @]
           pl == Spliced(b.pool, i)
           f == Remaining(q, x)
           t == IF new.orders = 0 THEN Emptied(s, p, new) ELSE PutLevel(s, p, new)
           g == [e EXCEPT ![p] = f]
<1>1. /\ i \in Pool /\ o \in FastOrder /\ SideOf(o) = k /\ o.price = p
      /\ HasLevel(s, p) /\ q # <<>> /\ q \in Seq(Pool) /\ e \in Queues /\ SideOK(s, e)
      /\ QueueOK(b.pool, k, p, q) /\ Ends(lvl, q) /\ b.pool \in Records
  BY InQueue DEF Linked
<1>2. c = [b EXCEPT !.pool = pl, !.sides = [b.sides EXCEPT ![k] = t]]
  <2>1. BookShape(b) /\ SideOf(b.pool[i]) = k /\ b.pool[i].price = p /\ HasLevel(b.sides[k], p)
    BY <1>1 DEF Linked
  <2>2. t = SideWithout(b.sides[k], p, b.pool[i])
    BY DEF SideWithout, Less
  <2> HIDE DEF t, i
  <2>3. Unlinked(b, i) = Rewritten(b, Spliced(b.pool, i), k, SideWithout(b.sides[k], p, b.pool[i]))
    BY ONLY <2>1, UnlinkedIs
  <2> QED BY <2>2, <2>3 DEF Rewritten
<1>3. /\ NoRepeats(q) /\ o.next = NextIn(q, x) /\ o.prev = PrevIn(q, x)
      /\ f \in Seq(Pool) /\ Len(f) = Len(q) - 1 /\ NoRepeats(f) /\ Len(q) \in Nat
      /\ x \in 1..Len(q)
      /\ \A j \in 1..Len(f) : f[j] = IF j < x THEN q[j] ELSE q[j + 1]
  <2>1. NoRepeats(q) /\ o.next = NextIn(q, x) /\ o.prev = PrevIn(q, x)
    BY <1>1 DEF QueueOK
  <2> QED BY <1>1, <2>1, RemainingFacts
<1>4. /\ o.prev = NoOrder <=> x = 1
      /\ o.next = NoOrder <=> x = Len(q)
  BY <1>1, <1>3, NoOrderIsNoSlot DEF NextIn, PrevIn
<1>4a. f = <<>> => Len(q) = 1 /\ x = 1
  <2> HIDE DEF f, q
  <2> DEFINE m == Len(q)
             n == Len(f)
  <2>1. f = <<>> => n = 0
    OBVIOUS
  <2>2. m \in Nat /\ x \in 1..m /\ n = m - 1
    BY <1>3
  <2> HIDE DEF m, n
  <2>3. f = <<>> => m = 1 /\ x = 1
    BY <2>1, <2>2
  <2> QED BY <2>3 DEF m
<1> HIDE DEF f
<1>5. Ends(new, f)
  <2> HIDE DEF q, o
  <2>1. /\ lvl \in LevelRec /\ lvl.orders = Len(q) /\ lvl.head = FirstOf(q) /\ lvl.tail = LastOf(q)
    BY <1>1 DEF Ends
  <2>1a. Len(q) > 0 /\ Len(q) - 1 \in Nat
    BY <1>3
  <2>2. /\ new.orders = Len(q) - 1
        /\ new.head = (IF x = 1 THEN o.next ELSE lvl.head)
        /\ new.tail = (IF x = Len(q) THEN o.prev ELSE lvl.tail)
        /\ new \in LevelRec
    BY <1>1, <1>4, <2>1, <2>1a, ZenonT(60) DEF LevelRec, FastOrder, Link
  <2> HIDE DEF new
  <2>3. new.head = FirstOf(f)
    <3>1. CASE f = <<>>
      <4>1. Len(q) = 1 /\ x = 1
        BY <1>4a, <3>1
      <4> QED BY <1>4, <2>2, <3>1, <4>1 DEF FirstOf
    <3>2. CASE f # <<>>
      <4>1. Len(f) > 0 /\ 1 \in 1..Len(f)
        BY <1>3, <3>2
      <4>2. f[1] = IF 1 < x THEN q[1] ELSE q[2]
        BY <1>3, <4>1
      <4>3. x = 1 => o.next = q[2]
        BY <1>3, <4>1 DEF NextIn
      <4> QED BY <1>1, <1>3, <2>1, <2>2, <3>2, <4>1, <4>2, <4>3 DEF FirstOf
    <3> QED BY <3>1, <3>2
  <2>4. new.tail = LastOf(f)
    <3>1. CASE f = <<>>
      <4>1. Len(q) = 1 /\ x = 1
        BY <1>4a, <3>1
      <4> QED BY <1>4, <2>2, <3>1, <4>1 DEF LastOf
    <3>2. CASE f # <<>>
      <4>1. Len(f) > 0 /\ Len(f) \in 1..Len(f)
        BY <1>3, <3>2
      <4>2. f[Len(f)] = IF Len(q) - 1 < x THEN q[Len(q) - 1] ELSE q[Len(q)]
        BY <1>3, <4>1
      <4>3. CASE x = Len(q)
        <5>1. o.prev = q[Len(q) - 1] /\ f[Len(f)] = q[Len(q) - 1]
          BY <1>3, <4>1, <4>2, <4>3 DEF PrevIn
        <5> QED BY <2>2, <3>2, <4>3, <5>1 DEF LastOf
      <4>4. CASE x # Len(q)
        <5>1. f[Len(f)] = q[Len(q)] /\ lvl.tail = q[Len(q)]
          BY <1>1, <1>3, <2>1, <4>1, <4>2, <4>4 DEF LastOf
        <5> QED BY <2>2, <3>2, <4>4, <5>1 DEF LastOf
      <4> QED BY <4>3, <4>4
    <3> QED BY <3>1, <3>2
  <2> QED BY <1>3, <2>2, <2>3, <2>4 DEF Ends
<1> HIDE DEF new
<1>6. SideOK(t, g)
  <2>1. CASE new.orders = 0
    <3>1. f = <<>>
      BY <1>3, <1>5, <2>1 DEF Ends
    <3> QED BY <1>1, <1>5, <2>1, <3>1, LevelClosed
  <2>2. CASE new.orders # 0
    <3>1. f # <<>>
      BY <1>5, <2>2 DEF Ends
    <3> QED BY <1>1, <1>3, <1>5, <2>2, <3>1, LevelKept
  <2> QED BY <2>1, <2>2
<1> HIDE DEF t
<1>7. pl \in Records
  BY <1>1, SplicedRecords
<1>8. g \in Queues /\ g[p] = f /\ \A r \in Prices \ {p} : g[r] = e[r]
  BY <1>1, <1>3 DEF Queues
<1>9. \A r \in Prices : QueueOK(pl, k, r, g[r])
  <2>1. QueueOK(pl, k, p, f)
    BY <1>1, SplicedQueue DEF f
  <2>2. ASSUME NEW r \in Prices, r # p PROVE QueueOK(pl, k, r, e[r])
    <3>1. QueueOK(b.pool, k, r, e[r])
      BY DEF Linked
    <3>2. \A y \in 1..Len(e[r]) : e[r][y] \in Pool /\ b.pool[e[r][y]].price = r
      BY <3>1 DEF QueueOK
    <3>3. \A y \in 1..Len(e[r]) : e[r][y] # PrevIn(q, x) /\ e[r][y] # NextIn(q, x)
      BY <1>1, <2>2, <3>2, NotANeighbour
    <3>4. \A y \in 1..Len(e[r]) : pl[e[r][y]] = b.pool[e[r][y]]
      BY <1>1, <3>2, <3>3, SplicedRecords
    <3> HIDE DEF pl
    <3> QED BY <3>1, <3>4, QueueApart
  <2> QED BY <1>8, <2>1, <2>2
<1>10. ASSUME NEW j \in Keys \ {k}, NEW r \in Prices PROVE QueueOK(pl, j, r, Q[j][r])
  <2>1. QueueOK(b.pool, j, r, Q[j][r])
    BY DEF Linked
  <2>2. \A y \in 1..Len(Q[j][r]) : Q[j][r][y] \in Pool /\ SideOf(b.pool[Q[j][r][y]]) = j
    BY <2>1 DEF QueueOK
  <2>3. \A y \in 1..Len(Q[j][r]) : Q[j][r][y] # PrevIn(q, x) /\ Q[j][r][y] # NextIn(q, x)
    BY <1>1, <2>2, NotANeighbour
  <2>4. \A y \in 1..Len(Q[j][r]) : pl[Q[j][r][y]] = b.pool[Q[j][r][y]]
    BY <1>1, <2>2, <2>3, SplicedRecords
  <2> HIDE DEF pl
  <2> QED BY <2>1, <2>4, QueueApart
<1> HIDE DEF pl, g
<1>11. /\ BookShape(c) /\ c.pool = pl /\ c.sides = [b.sides EXCEPT ![k] = t] /\ SameOtherwise(c, b)
  BY <1>2 DEF Linked, BookShape, SameOtherwise
<1> HIDE DEF c
<1>12. Linked(c, [Q EXCEPT ![k] = g])
  BY <1>6, <1>7, <1>8, <1>9, <1>10, <1>11, LinkedAgain
<1> QED BY <1>11, <1>12 DEF Requeued, c, pl, g, f

\* Slot i is in no queue.
Apart(Q, i) == \A k \in Keys : \A p \in Prices : \A y \in 1..Len(Q[k][p]) : Q[k][p][y] # i

\* The middle of add(): the queue at the order's price gets the slot.
LEMMA QueuedLinked ==
  ASSUME NEW b, NEW Q, Linked(b, Q), NEW i \in Pool, Apart(Q, i),
         NEW o \in FastOrder, o.next = NoOrder, NEW k \in Keys, SideOf(o) = k,
         NEW p \in Prices, o.price = p
  PROVE  LET c == Queued(b, i, o)
         IN /\ Linked(c, Requeued(Q, k, p, Append(Q[k][p], i))) /\ SameOtherwise(c, b)
            /\ c.pool = Joined(b.pool, i, o, LastOf(Q[k][p]))
<1> DEFINE q == Q[k][p]
           c == Queued(b, i, o)
           e == Q[k]
           s == Anchored(b.sides[k], o.side, p)
           lvl == LevelAt(s, p)
           new == [lvl EXCEPT !.shares = @ + o.shares, !.orders = @ + 1, !.tail = i,
                              !.head = IF lvl.tail = NoOrder THEN i ELSE @]
           pl == Joined(b.pool, i, o, LastOf(q))
           f == Append(q, i)
           t == IF lvl.orders = 0 THEN Occupy(PutLevel(s, p, new), p) ELSE PutLevel(s, p, new)
           g == [e EXCEPT ![p] = f]
<1>1. /\ e \in Queues /\ SideOK(b.sides[k], e) /\ q \in Seq(Pool) /\ b.pool \in Records
      /\ QueueOK(b.pool, k, p, q) /\ o.side \in Sides
  BY DEF Linked, QueueOK, FastOrder
<1>2. SideOK(s, e) /\ (WholeCent(p) => s.base >= 0)
  BY <1>1, AnchoredKept
<1>3. Ends(lvl, q)
  BY <1>2 DEF SideOK
<1>4. c = [b EXCEPT !.pool = pl, !.sides = [b.sides EXCEPT ![k] = t]]
  <2>1. lvl.tail = LastOf(q)
    BY <1>3 DEF Ends
  <2> QED BY <1>1, <2>1 DEF Queued, Linked, BookShape, Joined
<1>5. /\ f \in Seq(Pool) /\ f # <<>> /\ Len(f) = Len(q) + 1 /\ LastOf(f) = i /\ Len(q) \in Nat
      /\ FirstOf(f) = (IF q = <<>> THEN i ELSE FirstOf(q)) /\ LastOf(q) \in Link
      /\ (LastOf(q) = NoOrder <=> q = <<>>) /\ (Len(q) = 0 <=> q = <<>>)
  <2>1. Len(q) \in Nat /\ f \in Seq(Pool) /\ Len(f) = Len(q) + 1 /\ f[Len(q) + 1] = i
        /\ f # <<>> /\ (q # <<>> => f[1] = q[1]) /\ (Len(q) = 0 <=> q = <<>>)
    BY <1>1
  <2>2. LastOf(q) \in Link /\ (q # <<>> => Len(q) \in 1..Len(q))
    BY <1>1, QueuePlaces
  <2>3. LastOf(q) = NoOrder <=> q = <<>>
    BY <1>1, <2>2, NoOrderIsNoSlot DEF LastOf
  <2> HIDE DEF f
  <2> QED BY <2>1, <2>2, <2>3 DEF FirstOf, LastOf
<1> HIDE DEF f, s
<1>6. Ends(new, f)
  <2> HIDE DEF q
  <2>1. lvl \in LevelRec /\ lvl.orders = Len(q) /\ lvl.head = FirstOf(q) /\ lvl.tail = LastOf(q)
        /\ o.shares \in Int /\ i \in Link
    BY <1>3 DEF Ends, FastOrder, Link
  <2> HIDE DEF lvl
  <2> DEFINE shares == lvl.shares + o.shares
             orders == lvl.orders + 1
             head == IF lvl.tail = NoOrder THEN i ELSE lvl.head
  <2>2. shares \in Int /\ orders \in Nat /\ head \in Link
    BY <2>1 DEF LevelRec
  <2>3. new = [lvl EXCEPT !.shares = shares, !.orders = orders, !.tail = i, !.head = head]
    OBVIOUS
  <2>4. new \in LevelRec /\ new.orders = orders /\ new.tail = i /\ new.head = head
    <3> HIDE DEF shares, orders, head, new
    <3>1. [[lvl EXCEPT !.shares = shares] EXCEPT !.orders = orders] \in LevelRec
      BY <2>1, <2>2 DEF LevelRec
    <3> QED BY <2>1, <2>2, <2>3, <3>1 DEF LevelRec
  <2> HIDE DEF new
  <2> QED BY <1>5, <2>1, <2>4 DEF Ends
<1>7. SideOK(t, g)
  <2>1. lvl.orders = 0 <=> q = <<>>
    BY <1>3, <1>5 DEF Ends
  <2> HIDE DEF new, lvl
  <2>2. CASE q = <<>>
    BY <1>1, <1>2, <1>5, <1>6, <2>1, <2>2, LevelOpened
  <2>3. CASE q # <<>>
    BY <1>1, <1>2, <1>5, <1>6, <2>1, <2>3, LevelKept
  <2> QED BY <2>2, <2>3
<1> HIDE DEF t, new, lvl
<1>8. \A y \in 1..Len(q) : q[y] # i
  BY DEF Apart
<1>9. pl \in Records /\ \A j \in Pool \ {i} : j # LastOf(q) => pl[j] = b.pool[j]
  BY <1>1, <1>8, JoinedRecords
<1>10. g \in Queues /\ g[p] = f /\ \A r \in Prices \ {p} : g[r] = e[r]
  BY <1>1, <1>5 DEF Queues
<1>11. LastOf(q) = NoOrder \/ (SideOf(b.pool[LastOf(q)]) = k /\ b.pool[LastOf(q)].price = p)
  <2>1. q # <<>> => Len(q) \in 1..Len(q)
    BY <1>1, QueuePlaces
  <2> QED BY <1>1, <2>1 DEF LastOf, QueueOK
<1>12. ASSUME NEW j \in Keys, NEW r \in Prices, j # k \/ r # p PROVE QueueOK(pl, j, r, Q[j][r])
  <2>1. QueueOK(b.pool, j, r, Q[j][r])
    BY DEF Linked
  <2>2. \A y \in 1..Len(Q[j][r]) :
          /\ Q[j][r][y] \in Pool /\ SideOf(b.pool[Q[j][r][y]]) = j
          /\ b.pool[Q[j][r][y]].price = r /\ Q[j][r][y] # i
    BY <2>1 DEF QueueOK, Apart
  <2>3. \A y \in 1..Len(Q[j][r]) : pl[Q[j][r][y]] = b.pool[Q[j][r][y]]
    BY <1>9, <1>11, <1>12, <2>2, NoOrderIsNoSlot
  <2> HIDE DEF pl
  <2> QED BY <2>1, <2>3, QueueApart
<1>13. QueueOK(pl, k, p, f)
  BY <1>1, <1>8, JoinedQueue DEF f
<1> HIDE DEF pl
<1>14. \A r \in Prices : QueueOK(pl, k, r, g[r])
  BY <1>10, <1>12, <1>13
<1>15. \A j \in Keys \ {k} : \A r \in Prices : QueueOK(pl, j, r, Q[j][r])
  BY <1>12
<1> HIDE DEF g
<1>16. /\ BookShape(c) /\ c.pool = pl /\ c.sides = [b.sides EXCEPT ![k] = t] /\ SameOtherwise(c, b)
  BY <1>4 DEF Linked, BookShape, SameOtherwise
<1> HIDE DEF c
<1>17. Linked(c, [Q EXCEPT ![k] = g])
  BY <1>7, <1>9, <1>10, <1>14, <1>15, <1>16, LinkedAgain
<1> QED BY <1>16, <1>17 DEF Requeued, c, pl, g, f

\* Whoever is taken out of its queue is in none.
LEMMA UnlinkedApart ==
  ASSUME NEW b, NEW Q, Linked(b, Q), NEW k \in Keys, NEW p \in Prices, NEW x \in 1..Len(Q[k][p])
  PROVE  Apart(Requeued(Q, k, p, Remaining(Q[k][p], x)), Q[k][p][x])
<1> DEFINE i == Q[k][p][x]
           f == Remaining(Q[k][p], x)
           R == Requeued(Q, k, p, f)
<1>1. SideOf(b.pool[i]) = k /\ b.pool[i].price = p /\ Q[k][p] \in Seq(Pool) /\ NoRepeats(Q[k][p])
  BY InQueue DEF QueueOK
<1>2. \A y \in 1..Len(f) : f[y] # i
  BY <1>1, RemainingFacts
<1>3. ASSUME NEW j \in Keys, NEW r \in Prices, j # k \/ r # p
      PROVE  \A y \in 1..Len(Q[j][r]) : Q[j][r][y] # i
  <2>1. QueueOK(b.pool, j, r, Q[j][r])
    BY DEF Linked
  <2> QED BY <1>1, <1>3, <2>1 DEF QueueOK
<1>4. /\ R[k][p] = f
      /\ \A j \in Keys : \A r \in Prices : j # k \/ r # p => R[j][r] = Q[j][r]
  BY DEF Requeued, Linked, Queues
<1> HIDE DEF R, f, i
<1>5. ASSUME NEW j \in Keys, NEW r \in Prices, NEW y \in 1..Len(R[j][r]) PROVE R[j][r][y] # i
  <2>1. CASE j = k /\ r = p
    BY <1>2, <1>4, <1>5, <2>1
  <2>2. CASE j # k \/ r # p
    <3>1. R[j][r] = Q[j][r]
      BY <1>4, <2>2
    <3> QED BY <1>3, <2>2, <3>1
  <2> QED BY <2>1, <2>2
<1> QED BY <1>5 DEF Apart, R, f, i

\* release() touches no queue: its slot is in none.
LEMMA ReleasedLinked ==
  ASSUME NEW b, NEW Q, Linked(b, Q), NEW i \in Pool, Apart(Q, i), b.free \in Link
  PROVE  LET c == Released(b, i)
         IN /\ Linked(c, Q) /\ c.index = b.index /\ c.checked = b.checked /\ c.free = i
            /\ c.pool[i] = [FreeOrder EXCEPT !.next = b.free]
            /\ \A j \in Pool \ {i} : c.pool[j] = b.pool[j]
<1> DEFINE c == Released(b, i)
           v == [FreeOrder EXCEPT !.next = b.free]
           pl == [b.pool EXCEPT ![i] = v]
<1>1. c = [b EXCEPT !.pool = pl, !.free = i]
  BY DEF Released
<1>2. v \in FastOrder
  BY DEF FreeOrder, FastOrder, Link, Sides
<1> HIDE DEF v
<1>3. pl \in Records /\ pl[i] = v /\ \A j \in Pool \ {i} : pl[j] = b.pool[j]
  BY <1>2 DEF Linked, Records
<1> HIDE DEF pl
<1>4. /\ BookShape(c) /\ c.pool = pl /\ c.sides = b.sides /\ c.free = i
      /\ c.index = b.index /\ c.checked = b.checked
  BY <1>1 DEF Linked, BookShape
<1> HIDE DEF c
<1>5. ASSUME NEW k \in Keys, NEW p \in Prices PROVE QueueOK(pl, k, p, Q[k][p])
  <2>1. QueueOK(b.pool, k, p, Q[k][p])
    BY DEF Linked
  <2>2. \A y \in 1..Len(Q[k][p]) : Q[k][p][y] \in Pool \ {i}
    BY <2>1 DEF QueueOK, Apart
  <2> QED BY <1>3, <2>1, <2>2, QueueApart
<1>6. Linked(c, Q)
  BY <1>3, <1>4, <1>5 DEF Linked
<1> QED BY <1>3, <1>4, <1>6 DEF c, v

\* check_bbo() moves windows and no queue.
LEMMA CheckedLinked ==
  ASSUME NEW b, NEW Q, Linked(b, Q), NEW l
  PROVE  LET c == Checked(b, l)
         IN /\ Linked(c, Q) /\ c.pool = b.pool /\ c.index = b.index /\ c.free = b.free
            /\ c.checked = l
            /\ \A k \in Keys : k[1] = l => InsideHeld(c.sides[k], k[2])
<1> DEFINE c == Checked(b, l)
           w == [k \in Keys |-> IF k[1] = l THEN Followed(b.sides[k], k[2]) ELSE b.sides[k]]
<1>1. c = [b EXCEPT !.sides = w, !.checked = l]
  BY DEF Checked, Linked
<1>2. /\ DOMAIN w = Keys /\ \A k \in Keys :
           w[k] = IF k[1] = l THEN Followed(b.sides[k], k[2]) ELSE b.sides[k]
      /\ w = [k \in Keys |-> w[k]]
  OBVIOUS
<1> HIDE DEF w
<1>3. /\ BookShape(c) /\ c.pool = b.pool /\ c.sides = w /\ c.free = b.free
      /\ c.index = b.index /\ c.checked = l
  BY <1>1 DEF Linked, BookShape
<1> HIDE DEF c
<1>4. ASSUME NEW k \in Keys
      PROVE  SideOK(w[k], Q[k]) /\ (k[1] = l => InsideHeld(w[k], k[2]))
  <2>1. SideOK(b.sides[k], Q[k]) /\ Q[k] \in Queues /\ k[2] \in Sides
    BY DEF Linked, Keys
  <2>2. SideOK(Followed(b.sides[k], k[2]), Q[k]) /\ InsideHeld(Followed(b.sides[k], k[2]), k[2])
    BY <2>1, FollowedKept
  <2> QED BY <1>2, <2>1, <2>2
<1>5. Linked(c, Q)
  BY <1>2, <1>3, <1>4 DEF Linked
<1> QED BY <1>3, <1>4, <1>5 DEF c

----------------------------------------------------------------------------
(* The pool: F is the free list.  A slot is on it, or it holds a queued    *)
(* order that the index finds.                                             *)

Freed(b, F) ==
  /\ F \in Seq(Pool) /\ NoRepeats(F) /\ b.free = FirstOf(F)
  /\ \A x \in 1..Len(F) : b.pool[F[x]].next = NextIn(F, x) /\ b.pool[F[x]].locate = None

IsQueued(b, Q, i) ==
  LET o == b.pool[i]
  IN /\ SideOf(o) \in Keys /\ o.price \in Prices
     /\ \E x \in 1..Len(Q[SideOf(o)][o.price]) : Q[SideOf(o)][o.price][x] = i

Accounted(b, Q, F, i) ==
  LET o == b.pool[i]
  IN \/ o.locate = None /\ \E x \in 1..Len(F) : F[x] = i
     \/ o.locate # None /\ o.ref \in DOMAIN b.index /\ b.index[o.ref] = i /\ IsQueued(b, Q, i)

IndexOK(b) ==
  /\ DOMAIN b.index \subseteq Refs
  /\ \A r \in DOMAIN b.index :
       LET i == b.index[r] IN i \in Pool /\ b.pool[i].ref = r /\ b.pool[i].locate # None
  /\ IsFiniteSet(DOMAIN b.index) /\ Cardinality(DOMAIN b.index) <= IndexLimit

Sound(b, Q, F) ==
  Linked(b, Q) /\ Freed(b, F) /\ IndexOK(b) /\ \A i \in Pool : Accounted(b, Q, F, i)

LEMMA NoneIsNoSymbol == None \notin Symbols
  BY FastBookAssumption

\* What the index says of a live reference.
LEMMA LiveSlot ==
  ASSUME NEW b, NEW Q, NEW F, Sound(b, Q, F), NEW r \in DOMAIN b.index
  PROVE  LET i == b.index[r]
             o == b.pool[i]
         IN /\ i \in Pool /\ o \in FastOrder /\ o.ref = r /\ o.locate # None
            /\ SideOf(o) \in Keys /\ o.price \in Prices
            /\ \E x \in 1..Len(Q[SideOf(o)][o.price]) : Q[SideOf(o)][o.price][x] = i
<1> DEFINE i == b.index[r]
           o == b.pool[i]
<1>1. i \in Pool /\ o.ref = r /\ o.locate # None /\ b.pool \in Records
  BY DEF Sound, IndexOK, Linked
<1>2. o \in FastOrder
  BY <1>1 DEF Records
<1>3. IsQueued(b, Q, i)
  BY <1>1 DEF Sound, Accounted
<1> QED BY <1>1, <1>2, <1>3, Zenon DEF IsQueued

\* A slot of the free list is in no queue, and next to none in one.
LEMMA FreeSlotApart ==
  ASSUME NEW b, NEW Q, Linked(b, Q), NEW j \in Pool, b.pool[j].locate = None
  PROVE  /\ Apart(Q, j)
         /\ \A k \in Keys : ~(SideOf(b.pool[j]) = k)
<1>1. \A k \in Keys : SideOf(b.pool[j]) # k
  BY NoneIsNoSymbol DEF Keys, SideOf
<1>2. ASSUME NEW k \in Keys, NEW p \in Prices, NEW y \in 1..Len(Q[k][p]) PROVE Q[k][p][y] # j
  <2>1. SideOf(b.pool[Q[k][p][y]]) = k
    BY DEF Linked, QueueOK
  <2> QED BY <1>1, <2>1
<1> QED BY <1>1, <1>2 DEF Apart

LEMMA RemainingHolds ==
  ASSUME NEW q \in Seq(Pool), NEW x \in 1..Len(q), NoRepeats(q), NEW y \in 1..Len(q), y # x
  PROVE  \E z \in 1..Len(Remaining(q, x)) : Remaining(q, x)[z] = q[y]
<1> DEFINE e == Remaining(q, x)
           z == IF y < x THEN y ELSE y - 1
<1>1. /\ Len(e) = Len(q) - 1 /\ Len(q) \in Nat
      /\ \A j \in 1..Len(e) : e[j] = IF j < x THEN q[j] ELSE q[j + 1]
  BY RemainingFacts
<1> HIDE DEF e
<1>2. z \in 1..Len(e) /\ (IF z < x THEN z ELSE z + 1) = y
  BY <1>1
<1>3. e[z] = q[y]
  BY <1>1, <1>2
<1> QED BY <1>2, <1>3 DEF e

LEMMA PushedFacts ==
  ASSUME NEW F \in Seq(Pool), NoRepeats(F), NEW i \in Pool, \A x \in 1..Len(F) : F[x] # i
  PROVE  LET G == <<i>> \o F
         IN /\ G \in Seq(Pool) /\ NoRepeats(G) /\ FirstOf(G) = i /\ Len(G) = Len(F) + 1
            /\ G[1] = i /\ NextIn(G, 1) = FirstOf(F) /\ Len(F) \in Nat /\ 1 \in 1..Len(G)
            /\ \A x \in 1..Len(F) : x + 1 \in 1..Len(G) /\ G[x + 1] = F[x]
                                    /\ NextIn(G, x + 1) = NextIn(F, x)
            /\ \A y \in 1..Len(G) : y = 1 \/ y - 1 \in 1..Len(F)
<1> DEFINE G == <<i>> \o F
<1>1. /\ G \in Seq(Pool) /\ Len(G) = Len(F) + 1 /\ G[1] = i /\ Len(F) \in Nat /\ G # <<>>
      /\ \A x \in 1..Len(F) : G[x + 1] = F[x]
      /\ (Len(F) = 0 <=> F = <<>>)
  OBVIOUS
<1> HIDE DEF G
<1>2. \A y \in 1..Len(G) : y = 1 \/ (y - 1 \in 1..Len(F) /\ G[y] = F[y - 1])
  <2> SUFFICES ASSUME NEW y \in 1..Len(G), y # 1 PROVE y - 1 \in 1..Len(F) /\ G[y] = F[y - 1]
    OBVIOUS
  <2>1. y - 1 \in 1..Len(F) /\ (y - 1) + 1 = y
    BY <1>1
  <2> QED BY <1>1, <2>1
<1>3. NoRepeats(G)
  BY <1>1, <1>2, SMTT(60) DEF NoRepeats
<1>4. FirstOf(G) = i /\ 1 \in 1..Len(G)
  BY <1>1 DEF FirstOf
<1>5. NextIn(G, 1) = FirstOf(F)
  <2>1. CASE F = <<>>
    BY <1>1, <2>1 DEF NextIn, FirstOf
  <2>2. CASE F # <<>>
    <3>1. 1 \in 1..Len(F) /\ Len(G) # 1
      BY <1>1, <2>2
    <3>2. G[1 + 1] = F[1]
      BY <1>1, <3>1
    <3> QED BY <2>2, <3>1, <3>2 DEF NextIn, FirstOf
  <2> QED BY <2>1, <2>2
<1>6. ASSUME NEW x \in 1..Len(F)
      PROVE  x + 1 \in 1..Len(G) /\ NextIn(G, x + 1) = NextIn(F, x)
  <2>1. x + 1 \in 1..Len(G) /\ (x + 1 = Len(G) <=> x = Len(F))
    BY <1>1
  <2>2. x # Len(F) => G[(x + 1) + 1] = F[x + 1]
    <3>1. x # Len(F) => x + 1 \in 1..Len(F)
      BY <1>1
    <3> QED BY <1>1, <3>1
  <2> QED BY <2>1, <2>2 DEF NextIn
<1> QED BY <1>1, <1>2, <1>3, <1>4, <1>5, <1>6 DEF G

\* Another index over the same queues.
LEMMA ReindexedLinked ==
  ASSUME NEW b, NEW Q, Linked(b, Q), NEW m
  PROVE  LET d == [b EXCEPT !.index = m]
         IN /\ Linked(d, Q) /\ d.index = m /\ d.pool = b.pool /\ d.free = b.free
            /\ d.sides = b.sides /\ d.checked = b.checked
<1> DEFINE d == [b EXCEPT !.index = m]
<1>1. /\ BookShape(d) /\ d.index = m /\ d.pool = b.pool /\ d.free = b.free
      /\ d.sides = b.sides /\ d.checked = b.checked
  BY DEF Linked, BookShape
<1> HIDE DEF d
<1>2. Linked(d, Q)
  BY <1>1 DEF Linked
<1> QED BY <1>1, <1>2 DEF d

\* The order in slot i has left its queue and its slot is on the free list;
\* nobody else's order has changed.
Dropped(b, i) == Released(Unlinked(b, i), i)

LEMMA DroppedLinked ==
  ASSUME NEW b, NEW Q, NEW F, Linked(b, Q), Freed(b, F),
         NEW k \in Keys, NEW p \in Prices, NEW x \in 1..Len(Q[k][p])
  PROVE  LET i == Q[k][p][x]
             c == Dropped(b, i)
         IN /\ Linked(c, Requeued(Q, k, p, Remaining(Q[k][p], x)))
            /\ Freed(c, <<i>> \o F) /\ \A y \in 1..Len(F) : F[y] # i
            /\ c.index = b.index /\ c.checked = b.checked
            /\ c.pool[i].locate = None
            /\ \A j \in Pool \ {i} : SameOrder(c.pool[j], b.pool[j])
<1> DEFINE q == Q[k][p]
           i == q[x]
           u == Unlinked(b, i)
           c == Released(u, i)
           R == Requeued(Q, k, p, Remaining(q, x))
<1>1. /\ i \in Pool /\ SideOf(b.pool[i]) = k /\ QueueOK(b.pool, k, p, q)
      /\ b.pool \in Records
  BY InQueue DEF Linked
<1>2. Linked(u, R) /\ SameOtherwise(u, b) /\ u.pool = Spliced(b.pool, i)
  BY UnlinkedLinked
<1>3. Apart(R, i)
  BY UnlinkedApart
<1>4. b.free \in Link /\ u.free = b.free /\ u.index = b.index /\ u.checked = b.checked
  <2>1. F \in Seq(Pool) /\ b.free = FirstOf(F)
    BY DEF Freed
  <2> QED BY <1>2, <2>1, QueuePlaces DEF SameOtherwise
<1> HIDE DEF u, R
<1>5. /\ Linked(c, R) /\ c.index = u.index /\ c.checked = u.checked /\ c.free = i
      /\ c.pool[i] = [FreeOrder EXCEPT !.next = u.free]
      /\ \A j \in Pool \ {i} : c.pool[j] = u.pool[j]
  BY <1>1, <1>2, <1>3, <1>4, ReleasedLinked
<1>6. c.pool[i].locate = None /\ c.pool[i].next = b.free
  BY <1>4, <1>5 DEF FreeOrder
<1> HIDE DEF c
<1>7. \A j \in Pool \ {i} : SameOrder(c.pool[j], b.pool[j])
  BY <1>1, <1>2, <1>5, SplicedRecords
<1>8. \A j \in Pool : b.pool[j].locate = None => j # i /\ c.pool[j] = b.pool[j]
  <2> SUFFICES ASSUME NEW j \in Pool, b.pool[j].locate = None
               PROVE  j # i /\ c.pool[j] = b.pool[j]
    OBVIOUS
  <2>1. SideOf(b.pool[j]) # k
    BY FreeSlotApart
  <2>2. j # PrevIn(q, x) /\ j # NextIn(q, x)
    BY <1>1, <2>1, NotANeighbour
  <2>3. u.pool[j] = b.pool[j]
    BY <1>1, <1>2, <2>2, SplicedRecords
  <2> QED BY <1>1, <1>5, <2>1, <2>3
<1>9. /\ F \in Seq(Pool) /\ NoRepeats(F) /\ b.free = FirstOf(F)
      /\ \A y \in 1..Len(F) : /\ F[y] \in Pool /\ b.pool[F[y]].next = NextIn(F, y)
                              /\ b.pool[F[y]].locate = None
  BY DEF Freed
<1>10. \A y \in 1..Len(F) : F[y] # i /\ c.pool[F[y]] = b.pool[F[y]]
  BY <1>8, <1>9
<1>11. Freed(c, <<i>> \o F)
  <2> DEFINE G == <<i>> \o F
  <2>1. /\ G \in Seq(Pool) /\ NoRepeats(G) /\ FirstOf(G) = i
        /\ G[1] = i /\ NextIn(G, 1) = FirstOf(F)
        /\ \A y \in 1..Len(F) : G[y + 1] = F[y] /\ NextIn(G, y + 1) = NextIn(F, y)
        /\ \A y \in 1..Len(G) : y = 1 \/ y - 1 \in 1..Len(F)
    BY <1>1, <1>9, <1>10, PushedFacts
  <2> HIDE DEF G
  <2>2. ASSUME NEW y \in 1..Len(G)
        PROVE  c.pool[G[y]].next = NextIn(G, y) /\ c.pool[G[y]].locate = None
    <3>1. CASE y = 1
      BY <1>6, <1>9, <2>1, <3>1
    <3>2. CASE y # 1
      <4>1. y - 1 \in 1..Len(F) /\ (y - 1) + 1 = y
        BY <2>1, <3>2
      <4>2. G[y] = F[y - 1] /\ NextIn(G, y) = NextIn(F, y - 1)
        BY <2>1, <4>1
      <4> QED BY <1>9, <1>10, <4>1, <4>2
    <3> QED BY <3>1, <3>2
  <2> QED BY <1>5, <2>1, <2>2 DEF Freed, G
<1> QED BY <1>4, <1>5, <1>6, <1>7, <1>10, <1>11 DEF Dropped, c, R, u

LEMMA SmallerIndex ==
  ASSUME NEW b, IndexOK(b), NEW ref \in DOMAIN b.index
  PROVE  LET m == Drop(b.index, ref)
         IN /\ DOMAIN m = DOMAIN b.index \ {ref} /\ \A r \in DOMAIN m : m[r] = b.index[r]
            /\ DOMAIN m \subseteq Refs /\ IsFiniteSet(DOMAIN m)
            /\ Cardinality(DOMAIN m) = Cardinality(DOMAIN b.index) - 1
            /\ Cardinality(DOMAIN m) < IndexLimit /\ Cardinality(DOMAIN m) <= IndexLimit
            /\ Cardinality(DOMAIN m) \in Nat
<1> DEFINE D == DOMAIN b.index
<1>1. IsFiniteSet(D) /\ Cardinality(D) <= IndexLimit /\ D \subseteq Refs
  BY DEF IndexOK
<1>2. IsFiniteSet(D \ {ref}) /\ Cardinality(D \ {ref}) = Cardinality(D) - 1
  BY <1>1, FS_RemoveElement
<1>3. Cardinality(D) \in Nat /\ Cardinality(D \ {ref}) \in Nat /\ IndexLimit \in Nat
  BY <1>1, <1>2, FS_CardinalityType, FastBookAssumption
<1>4. Cardinality(D \ {ref}) < IndexLimit /\ Cardinality(D \ {ref}) <= IndexLimit
  BY <1>1, <1>2, <1>3
<1> QED BY <1>1, <1>2, <1>3, <1>4 DEF Drop

\* Where an order is found once another has left its queue.
LEMMA StillQueued ==
  ASSUME NEW b, NEW Q, Linked(b, Q), NEW k \in Keys, NEW p \in Prices, NEW x \in 1..Len(Q[k][p]),
         NEW j \in Pool, j # Q[k][p][x], IsQueued(b, Q, j),
         NEW c, SameOrder(c.pool[j], b.pool[j])
  PROVE  IsQueued(c, Requeued(Q, k, p, Remaining(Q[k][p], x)), j)
<1> DEFINE q == Q[k][p]
           f == Remaining(q, x)
           R == Requeued(Q, k, p, f)
           o == b.pool[j]
           l == SideOf(o)
           r == o.price
<1>1. q \in Seq(Pool) /\ NoRepeats(q)
  BY InQueue DEF QueueOK
<1>2. l \in Keys /\ r \in Prices /\ SideOf(c.pool[j]) = l /\ c.pool[j].price = r
  BY DEF IsQueued, SameOrder, SideOf
<1>3. PICK y \in 1..Len(Q[l][r]) : Q[l][r][y] = j
  BY DEF IsQueued
<1>4. /\ R[k][p] = f
      /\ \A m \in Keys : \A s \in Prices : m # k \/ s # p => R[m][s] = Q[m][s]
  BY DEF Requeued, Linked, Queues
<1>5. l = k /\ r = p => \E z \in 1..Len(f) : f[z] = j
  <2> SUFFICES ASSUME l = k, r = p PROVE \E z \in 1..Len(f) : f[z] = j
    OBVIOUS
  <2>1. y \in 1..Len(q) /\ y # x /\ q[y] = j
    BY <1>3
  <2> QED BY <1>1, <2>1, RemainingHolds
<1> HIDE DEF R, f, l, r
<1>6. \E z \in 1..Len(R[l][r]) : R[l][r][z] = j
  <2>1. CASE l = k /\ r = p
    BY <1>4, <1>5, <2>1
  <2>2. CASE l # k \/ r # p
    BY <1>2, <1>3, <1>4, <2>2
  <2> QED BY <2>1, <2>2
<1> QED BY <1>2, <1>6 DEF IsQueued, R, f

\* unlink() and release() of a slot whose entry has left the index.
LEMMA DroppedSound ==
  ASSUME NEW b, NEW Q, NEW F, Sound(b, Q, F), NEW ref \in DOMAIN b.index,
         NEW k \in Keys, NEW p \in Prices, NEW x \in 1..Len(Q[k][p]),
         Q[k][p][x] = b.index[ref]
  PROVE  LET i == b.index[ref]
             c == Dropped([b EXCEPT !.index = Drop(@, ref)], i)
         IN /\ Sound(c, Requeued(Q, k, p, Remaining(Q[k][p], x)), <<i>> \o F)
            /\ c.index = Drop(b.index, ref) /\ c.checked = b.checked
            /\ \A j \in Pool \ {i} : SameOrder(c.pool[j], b.pool[j])
<1> DEFINE i == b.index[ref]
           m == Drop(b.index, ref)
           d == [b EXCEPT !.index = m]
           c == Dropped(d, i)
           R == Requeued(Q, k, p, Remaining(Q[k][p], x))
           G == <<i>> \o F
<1>1. /\ Linked(b, Q) /\ Freed(b, F) /\ IndexOK(b) /\ i \in Pool /\ b.pool[i].ref = ref
      /\ b.pool[i].locate # None
  BY LiveSlot DEF Sound
<1>2. Linked(d, Q) /\ d.index = m /\ d.pool = b.pool /\ d.free = b.free /\ d.checked = b.checked
  BY <1>1, ReindexedLinked
<1> HIDE DEF d, m
<1>3. Freed(d, F)
  BY <1>1, <1>2 DEF Freed
<1>4. /\ Linked(c, R) /\ Freed(c, G) /\ (\A y \in 1..Len(F) : F[y] # i)
      /\ c.index = m /\ c.checked = b.checked /\ c.pool[i].locate = None
      /\ \A j \in Pool \ {i} : SameOrder(c.pool[j], b.pool[j])
  BY <1>2, <1>3, DroppedLinked
<1> HIDE DEF c
<1>5. /\ DOMAIN m = DOMAIN b.index \ {ref} /\ (\A r \in DOMAIN m : m[r] = b.index[r])
      /\ DOMAIN m \subseteq Refs /\ IsFiniteSet(DOMAIN m) /\ Cardinality(DOMAIN m) <= IndexLimit
  BY <1>1, SmallerIndex DEF m
<1>6. IndexOK(c)
  <2> SUFFICES ASSUME NEW r \in DOMAIN c.index
               PROVE  LET j == c.index[r] IN j \in Pool /\ c.pool[j].ref = r /\ c.pool[j].locate # None
    BY <1>4, <1>5 DEF IndexOK
  <2> DEFINE j == b.index[r]
  <2>1. r \in DOMAIN b.index /\ r # ref /\ c.index[r] = j
    BY <1>4, <1>5
  <2>2. j \in Pool /\ b.pool[j].ref = r /\ b.pool[j].locate # None
    BY <1>1, <2>1 DEF IndexOK
  <2>3. SameOrder(c.pool[j], b.pool[j])
    BY <1>1, <1>4, <2>1, <2>2
  <2> QED BY <2>1, <2>2, <2>3 DEF SameOrder
<1>7. ASSUME NEW j \in Pool PROVE Accounted(c, R, G, j)
  <2>1. /\ \E y \in 1..Len(G) : G[y] = i
        /\ \A y \in 1..Len(F) : \E z \in 1..Len(G) : G[z] = F[y]
    <3>1. F \in Seq(Pool) /\ NoRepeats(F)
      BY <1>1 DEF Freed
    <3> QED BY <1>1, <1>4, <3>1, PushedFacts
  <2>2. CASE j = i
    BY <1>4, <2>1, <2>2 DEF Accounted
  <2>3. CASE j # i
    <3>1. SameOrder(c.pool[j], b.pool[j]) /\ Accounted(b, Q, F, j)
      BY <1>4, <2>3 DEF Sound
    <3>2. CASE b.pool[j].locate = None
      BY <2>1, <3>1, <3>2 DEF Accounted, SameOrder
    <3>3. CASE b.pool[j].locate # None
      <4> DEFINE r == b.pool[j].ref
      <4>1. r \in DOMAIN b.index /\ b.index[r] = j /\ IsQueued(b, Q, j)
        BY <3>1, <3>3 DEF Accounted
      <4>2. r # ref /\ r \in DOMAIN m /\ m[r] = j
        BY <1>5, <2>3, <4>1
      <4>3. IsQueued(c, R, j)
        BY <1>1, <2>3, <3>1, <4>1, StillQueued
      <4> QED BY <1>4, <3>1, <3>3, <4>2, <4>3 DEF Accounted, SameOrder
    <3> QED BY <3>2, <3>3
  <2> QED BY <2>2, <2>3
<1> QED BY <1>4, <1>6, <1>7 DEF Sound, c, d, m

Lowered(pl, i, qty) == [pl EXCEPT ![i].shares = @ - qty]

\* Shares deducted from a live order.
LEMMA DeductedSound ==
  ASSUME NEW b, NEW Q, NEW F, Sound(b, Q, F), NEW ref \in DOMAIN b.index,
         NEW qty \in Nat, qty <= b.pool[b.index[ref]].shares
  PROVE  LET i == b.index[ref]
             c == Deducted(b, i, qty)
         IN /\ Sound(c, Q, F) /\ SameOtherwise(c, b)
            /\ c.pool = Lowered(b.pool, i, qty)
<1> DEFINE i == b.index[ref]
           c == Deducted(b, i, qty)
           k == SideOf(b.pool[i])
           p == b.pool[i].price
<1>1. /\ Linked(b, Q) /\ Freed(b, F) /\ IndexOK(b) /\ i \in Pool /\ b.pool[i] \in FastOrder
      /\ b.pool[i].locate # None
      /\ k \in Keys /\ p \in Prices /\ b.pool \in Records
  BY LiveSlot DEF Sound, Linked
<1>2. PICK x \in 1..Len(Q[k][p]) : Q[k][p][x] = i
  BY LiveSlot
<1>3. Linked(c, Q) /\ SameOtherwise(c, b) /\ c.pool = [b.pool EXCEPT ![i].shares = @ - qty]
  <2> HIDE DEF k, p, c
  <2>1. qty <= b.pool[Q[k][p][x]].shares
    BY <1>2
  <2> QED BY <1>1, <1>2, <2>1, DeductedLinked DEF c
<1> HIDE DEF c
<1>4. \A j \in Pool : /\ c.pool[j].ref = b.pool[j].ref /\ c.pool[j].locate = b.pool[j].locate
                      /\ SideOf(c.pool[j]) = SideOf(b.pool[j]) /\ c.pool[j].price = b.pool[j].price
                      /\ c.pool[j].next = b.pool[j].next
  BY <1>1, <1>3 DEF Records, FastOrder, SideOf
<1>5. Freed(c, F)
  <2>1. \A x_1 \in 1..Len(F) : F[x_1] \in Pool
    BY <1>1 DEF Freed
  <2> QED BY <1>1, <1>3, <1>4, <2>1 DEF Freed, SameOtherwise
<1>6. IndexOK(c)
  <2>1. c.index = b.index
    BY <1>1, <1>3 DEF SameOtherwise
  <2>2. IndexOK(b)
    BY <1>1
  <2> QED BY <1>4, <2>1, <2>2 DEF IndexOK
<1>7. \A j \in Pool : Accounted(c, Q, F, j)
  <2> SUFFICES ASSUME NEW j \in Pool PROVE Accounted(c, Q, F, j)
    OBVIOUS
  <2>1. Accounted(b, Q, F, j)
    BY DEF Sound
  <2> QED BY <1>3, <1>4, <2>1, Zenon DEF Accounted, IsQueued, SameOtherwise
<1> QED BY <1>3, <1>5, <1>6, <1>7 DEF Sound, Lowered, c

----------------------------------------------------------------------------
(* What the abstract book sees: the orders the index finds, and for each   *)
(* the orders before it in its queue.                                      *)

Before(q, i) == {q[m] : m \in {n \in 1..Len(q) : \E l \in 1..Len(q) : n < l /\ q[l] = i}}

AheadIn(b, Q, r) ==
  LET i == b.index[r]
      o == b.pool[i]
  IN {b.pool[j].ref : j \in Before(Q[SideOf(o)][o.price], i)}

View(b, Q) ==
  [resting |-> [r \in DOMAIN b.index |-> RestingOrder(b.pool[b.index[r]])],
   ahead   |-> [r \in DOMAIN b.index |-> AheadIn(b, Q, r)]]

\* Whoever leaves a queue leaves the order of the rest as it was.
LEMMA RemainingBefore ==
  ASSUME NEW q \in Seq(Pool), NoRepeats(q), NEW x \in 1..Len(q), NEW j, j # q[x]
  PROVE  Before(Remaining(q, x), j) = Before(q, j) \ {q[x]}
<1> DEFINE f == Remaining(q, x)
<1>1. /\ Len(f) = Len(q) - 1 /\ Len(q) \in Nat
      /\ \A y \in 1..Len(f) : f[y] = IF y < x THEN q[y] ELSE q[y + 1]
      /\ \A y \in 1..Len(f) : f[y] # q[x]
  BY RemainingFacts
<1> HIDE DEF f
<1>2. ASSUME NEW i \in Before(f, j) PROVE i \in Before(q, j) \ {q[x]}
  <2>1. PICK m \in 1..Len(f), l \in 1..Len(f) : f[m] = i /\ m < l /\ f[l] = j
    BY DEF Before
  <2> DEFINE u == IF m < x THEN m ELSE m + 1
             v == IF l < x THEN l ELSE l + 1
  <2>2. u \in 1..Len(q) /\ v \in 1..Len(q) /\ u < v /\ f[m] = q[u] /\ f[l] = q[v]
    BY <1>1, <2>1
  <2> HIDE DEF u, v
  <2> QED BY <1>1, <2>1, <2>2 DEF Before
<1>3. ASSUME NEW i \in Before(q, j), i # q[x] PROVE i \in Before(f, j)
  <2>1. PICK m \in 1..Len(q), l \in 1..Len(q) : q[m] = i /\ m < l /\ q[l] = j
    BY DEF Before
  <2>2. m # x /\ l # x
    BY <1>3, <2>1
  <2> DEFINE u == IF m < x THEN m ELSE m - 1
             v == IF l < x THEN l ELSE l - 1
  <2>3. /\ u \in 1..Len(f) /\ v \in 1..Len(f) /\ u < v
        /\ (IF u < x THEN u ELSE u + 1) = m /\ (IF v < x THEN v ELSE v + 1) = l
    BY <1>1, <2>1, <2>2
  <2> HIDE DEF u, v
  <2>4. f[u] = q[m] /\ f[v] = q[l]
    BY <1>1, <2>3
  <2> QED BY <2>1, <2>3, <2>4 DEF Before
<1> QED BY <1>2, <1>3 DEF f, Before

LEMMA AppendedBefore ==
  ASSUME NEW q \in Seq(Pool), NEW i \in Pool, \A x \in 1..Len(q) : q[x] # i
  PROVE  /\ \A j : j # i => Before(Append(q, i), j) = Before(q, j)
         /\ Before(Append(q, i), i) = {q[x] : x \in 1..Len(q)}
<1> DEFINE f == Append(q, i)
<1>1. /\ Len(f) = Len(q) + 1 /\ Len(q) \in Nat /\ f[Len(q) + 1] = i
      /\ \A x \in 1..Len(q) : x \in 1..Len(f) /\ f[x] = q[x]
  OBVIOUS
<1> HIDE DEF f
<1>2. \A x \in 1..Len(f) : x = Len(q) + 1 \/ x \in 1..Len(q)
  BY <1>1
<1>3. ASSUME NEW j, j # i PROVE Before(f, j) = Before(q, j)
  <2>1. {n \in 1..Len(f) : \E l \in 1..Len(f) : n < l /\ f[l] = j}
          = {n \in 1..Len(q) : \E l \in 1..Len(q) : n < l /\ q[l] = j}
    <3>1. ASSUME NEW n \in 1..Len(f), NEW l \in 1..Len(f), n < l, f[l] = j
          PROVE  n \in 1..Len(q) /\ l \in 1..Len(q) /\ q[l] = j
      <4>1. l \in 1..Len(q)
        BY <1>1, <1>2, <1>3, <3>1
      <4> QED BY <1>1, <3>1, <4>1
    <3> QED BY <1>1, <3>1
  <2> QED BY <1>1, <2>1 DEF Before
<1>4. Before(f, i) = {q[x] : x \in 1..Len(q)}
  <2>1. {n \in 1..Len(f) : \E l \in 1..Len(f) : n < l /\ f[l] = i} = 1..Len(q)
    <3>1. ASSUME NEW n \in 1..Len(f), NEW l \in 1..Len(f), n < l, f[l] = i
          PROVE  n \in 1..Len(q)
      <4>1. n # Len(q) + 1
        BY <1>1, <3>1
      <4> QED BY <1>2, <4>1
    <3>2. ASSUME NEW n \in 1..Len(q)
          PROVE  n < Len(q) + 1 /\ Len(q) + 1 \in 1..Len(f)
      BY <1>1
    <3> QED BY <1>1, <3>1, <3>2
  <2> QED BY <1>1, <2>1 DEF Before
<1> QED BY <1>3, <1>4 DEF f

\* The index finds whoever is in a queue.
LEMMA QueuedIsLive ==
  ASSUME NEW b, NEW Q, NEW F, Sound(b, Q, F),
         NEW k \in Keys, NEW p \in Prices, NEW y \in 1..Len(Q[k][p])
  PROVE  LET i == Q[k][p][y]
         IN /\ i \in Pool /\ SideOf(b.pool[i]) = k /\ b.pool[i].price = p
            /\ b.pool[i].ref \in DOMAIN b.index /\ b.index[b.pool[i].ref] = i
<1> DEFINE i == Q[k][p][y]
<1>1. i \in Pool /\ SideOf(b.pool[i]) = k /\ b.pool[i].price = p
  BY InQueue DEF Sound
<1>2. b.pool[i].locate # None
  BY <1>1, NoneIsNoSymbol DEF SideOf, Keys
<1> QED BY <1>1, <1>2 DEF Sound, Accounted

\* To the abstract book, unlink() and release() are a departure.
LEMMA DroppedView ==
  ASSUME NEW b, NEW Q, NEW F, Sound(b, Q, F), NEW ref \in DOMAIN b.index,
         NEW k \in Keys, NEW p \in Prices, NEW x \in 1..Len(Q[k][p]),
         Q[k][p][x] = b.index[ref],
         NEW c, c.index = Drop(b.index, ref),
         \A j \in Pool \ {b.index[ref]} : SameOrder(c.pool[j], b.pool[j])
  PROVE  View(c, Requeued(Q, k, p, Remaining(Q[k][p], x))) = Abstract!Without(View(b, Q), ref)
<1> DEFINE i == b.index[ref]
           q == Q[k][p]
           f == Remaining(q, x)
           R == Requeued(Q, k, p, f)
           live == DOMAIN b.index \ {ref}
<1>1. DOMAIN c.index = live /\ \A r \in live : c.index[r] = b.index[r]
  BY DEF Drop
<1>2. /\ R[k][p] = f
      /\ \A m \in Keys : \A s \in Prices : m # k \/ s # p => R[m][s] = Q[m][s]
  BY DEF Requeued, Sound, Linked, Queues
<1>3. q \in Seq(Pool) /\ NoRepeats(q)
  BY InQueue DEF Sound, QueueOK
<1>31. \A m \in Keys : \A s \in Prices : \A y \in 1..Len(Q[m][s]) :
         /\ Q[m][s][y] \in Pool
         /\ SideOf(b.pool[Q[m][s][y]]) = m /\ b.pool[Q[m][s][y]].price = s
         /\ b.index[b.pool[Q[m][s][y]].ref] = Q[m][s][y]
  BY QueuedIsLive
<1>32. SideOf(b.pool[i]) = k /\ b.pool[i].price = p
  <2> HIDE DEF i
  <2>1. Q[k][p][x] = i
    BY DEF i
  <2> QED BY <1>31, <2>1
<1> HIDE DEF R, f
<1>4. ASSUME NEW r \in live
      PROVE  /\ RestingOrder(c.pool[c.index[r]]) = RestingOrder(b.pool[b.index[r]])
             /\ AheadIn(c, R, r) = AheadIn(b, Q, r) \ {ref}
  <2> DEFINE j == b.index[r]
             o == b.pool[j]
             l == SideOf(o)
             s == o.price
  <2>1. j \in Pool /\ j # i /\ c.index[r] = j /\ l \in Keys /\ s \in Prices
    <3>1. b.pool[j].ref = r /\ b.pool[i].ref = ref /\ j \in Pool /\ l \in Keys /\ s \in Prices
      BY LiveSlot
    <3> QED BY <1>1, <3>1
  <2>2. SameOrder(c.pool[j], o)
    BY <2>1
  <2>3. RestingOrder(c.pool[j]) = RestingOrder(o) /\ SideOf(c.pool[j]) = l /\ c.pool[j].price = s
    BY <2>2 DEF SameOrder, RestingOrder, SideOf
  <2>4. Before(R[l][s], j) = Before(Q[l][s], j) \ {i}
    <3>1. CASE l = k /\ s = p
      <4>1. Before(f, j) = Before(q, j) \ {i}
        BY <1>3, <2>1, RemainingBefore DEF f
      <4> HIDE DEF q, j, i
      <4> QED BY <1>2, <3>1, <4>1 DEF q
    <3>2. CASE l # k \/ s # p
      <4>1. i \notin Before(Q[l][s], j)
        <5> HIDE DEF i, j, l, s
        <5> SUFFICES ASSUME i \in Before(Q[l][s], j) PROVE FALSE
          OBVIOUS
        <5>1. PICK y \in 1..Len(Q[l][s]) : Q[l][s][y] = i
          BY DEF Before
        <5>2. SideOf(b.pool[i]) = l /\ b.pool[i].price = s
          BY <1>31, <2>1, <5>1
        <5> QED BY <1>32, <3>2, <5>2
      <4>2. R[l][s] = Q[l][s]
        BY <1>2, <2>1, <3>2
      <4> QED BY <4>1, <4>2, Zenon
    <3> QED BY <3>1, <3>2
  <2>5. \A y \in Before(Q[l][s], j) :
          /\ y \in Pool /\ (y = i <=> b.pool[y].ref = ref)
          /\ y # i => c.pool[y].ref = b.pool[y].ref
    <3>3. b.pool[i].ref = ref
      BY LiveSlot
    <3> HIDE DEF j, l, s
    <3> SUFFICES ASSUME NEW y \in Before(Q[l][s], j)
                 PROVE  /\ y \in Pool /\ (y = i <=> b.pool[y].ref = ref)
                        /\ y # i => c.pool[y].ref = b.pool[y].ref
      OBVIOUS
    <3>1. \E z \in 1..Len(Q[l][s]) : Q[l][s][z] = y
      BY DEF Before
    <3>2. y \in Pool /\ b.index[b.pool[y].ref] = y
      BY <1>31, <2>1, <3>1
    <3>4. y # i => SameOrder(c.pool[y], b.pool[y])
      BY <3>2
    <3> QED BY <3>2, <3>3, <3>4 DEF SameOrder
  <2>6. AheadIn(c, R, r) = {c.pool[y].ref : y \in Before(Q[l][s], j) \ {i}}
    <3> HIDE DEF l, s, j
    <3> QED BY <2>1, <2>3, <2>4 DEF AheadIn
  <2>7. AheadIn(b, Q, r) = {b.pool[y].ref : y \in Before(Q[l][s], j)}
    BY DEF AheadIn
  <2> HIDE DEF l, s, j
  <2>8. {c.pool[y].ref : y \in Before(Q[l][s], j) \ {i}}
          = {b.pool[y].ref : y \in Before(Q[l][s], j)} \ {ref}
    <3> HIDE DEF i
    <3> DEFINE A == Before(Q[l][s], j)
    <3> HIDE DEF A
    <3>1. \A y \in A : (y = i <=> b.pool[y].ref = ref) /\ (y # i => c.pool[y].ref = b.pool[y].ref)
      BY <2>5 DEF A
    <3>2. {c.pool[y].ref : y \in A \ {i}} = {b.pool[y].ref : y \in A} \ {ref}
      BY <3>1
    <3> QED BY <3>2 DEF A
  <2> QED BY <2>1, <2>3, <2>6, <2>7, <2>8 DEF j
<1>5. View(c, R) = [resting |-> [r \in live |-> RestingOrder(c.pool[c.index[r]])],
                    ahead   |-> [r \in live |-> AheadIn(c, R, r)]]
  BY <1>1 DEF View
<1>6. Abstract!Without(View(b, Q), ref) =
        [resting |-> [r \in live |-> RestingOrder(b.pool[b.index[r]])],
         ahead   |-> [r \in live |-> AheadIn(b, Q, r) \ {ref}]]
  BY DEF View, Abstract!Without
<1>7. View(c, R) = Abstract!Without(View(b, Q), ref)
  <2> HIDE DEF live
  <2> QED BY <1>4, <1>5, <1>6
<1> QED BY <1>7 DEF R, f

----------------------------------------------------------------------------
(* A slot is taken, queued and indexed.                                    *)

LEMMA TailFacts ==
  ASSUME NEW F \in Seq(Pool), F # <<>>, NoRepeats(F)
  PROVE  LET G == Tail(F)
         IN /\ G \in Seq(Pool) /\ NoRepeats(G) /\ FirstOf(F) = F[1] /\ F[1] \in Pool
            /\ FirstOf(G) = NextIn(F, 1) /\ 1 \in 1..Len(F) /\ <<F[1]>> \o G = F
            /\ \A y \in 1..Len(G) : /\ y + 1 \in 1..Len(F) /\ G[y] = F[y + 1] /\ G[y] # F[1]
                                    /\ NextIn(G, y) = NextIn(F, y + 1)
            /\ \A x \in 1..Len(F) : x = 1 \/ (x - 1 \in 1..Len(G) /\ G[x - 1] = F[x])
<1> DEFINE G == Tail(F)
<1>1. /\ G \in Seq(Pool) /\ Len(G) = Len(F) - 1 /\ Len(F) \in Nat /\ Len(F) > 0
      /\ \A y \in 1..Len(G) : G[y] = F[y + 1]
      /\ FirstOf(F) = F[1] /\ (G = <<>> <=> Len(G) = 0) /\ F[1] \in Pool
  <2>1. Len(F) \in Nat /\ Len(F) > 0 /\ F[1] \in Pool
    OBVIOUS
  <2>2. G \in Seq(Pool) /\ Len(G) = Len(F) - 1
    BY <2>1
  <2>3. \A y \in 1..Len(G) : G[y] = F[y + 1]
    BY <2>1, <2>2
  <2>4. G = <<>> <=> Len(G) = 0
    <3> HIDE DEF G
    <3>1. G \in Seq(Pool)
      BY <2>2
    <3> QED BY <3>1
  <2> QED BY <2>1, <2>2, <2>3, <2>4 DEF FirstOf
<1>9. <<F[1]>> \o G = F
  OBVIOUS
<1> HIDE DEF G
<1>2. \A y \in 1..Len(G) : y + 1 \in 1..Len(F) /\ y + 1 # 1 /\ 1 \in 1..Len(F)
  BY <1>1
<1>3. \A y \in 1..Len(G) : G[y] # F[1]
  BY <1>1, <1>2 DEF NoRepeats
<1>4. NoRepeats(G)
  <2> SUFFICES ASSUME NEW x \in 1..Len(G), NEW y \in 1..Len(G), G[x] = G[y] PROVE x = y
    BY DEF NoRepeats
  <2>1. F[x + 1] = F[y + 1] /\ x + 1 \in 1..Len(F) /\ y + 1 \in 1..Len(F)
    BY <1>1, <1>2
  <2>2. x + 1 = y + 1
    BY <2>1 DEF NoRepeats
  <2> QED BY <1>1, <2>2
<1>5. FirstOf(G) = NextIn(F, 1)
  <2>1. CASE G = <<>>
    <3>1. Len(F) = 1
      BY <1>1, <2>1
    <3> QED BY <2>1, <3>1 DEF FirstOf, NextIn
  <2>2. CASE G # <<>>
    <3>1. Len(F) # 1 /\ 1 \in 1..Len(G)
      BY <1>1, <2>2
    <3> QED BY <1>1, <2>2, <3>1 DEF FirstOf, NextIn
  <2> QED BY <2>1, <2>2
<1>6. ASSUME NEW y \in 1..Len(G) PROVE NextIn(G, y) = NextIn(F, y + 1)
  <2>1. y = Len(G) <=> y + 1 = Len(F)
    BY <1>1
  <2>2. y # Len(G) => G[y + 1] = F[(y + 1) + 1]
    <3>1. y # Len(G) => y + 1 \in 1..Len(G)
      BY <1>1
    <3> QED BY <1>1, <3>1
  <2> QED BY <2>1, <2>2 DEF NextIn
<1>7. ASSUME NEW x \in 1..Len(F), x # 1 PROVE x - 1 \in 1..Len(G) /\ G[x - 1] = F[x]
  <2>1. x - 1 \in 1..Len(G) /\ (x - 1) + 1 = x
    BY <1>1, <1>7
  <2> QED BY <1>1, <2>1
<1>8. 1 \in 1..Len(F)
  BY <1>1
<1> QED BY <1>1, <1>2, <1>3, <1>4, <1>5, <1>6, <1>7, <1>8, <1>9 DEF G

\* The head of the free list is taken and queued; the index does not know yet.
Seated(b, o) == Queued([b EXCEPT !.free = b.pool[b.free].next], b.free, o)
Longer(b, Q, o) ==
  Requeued(Q, SideOf(o), o.price, Append(Q[SideOf(o)][o.price], b.free))

\* A slot taken from the free list and queued.
LEMMA SeatedLinked ==
  ASSUME NEW b, NEW Q, NEW F, Sound(b, Q, F), F # <<>>,
         NEW o \in FastOrder, o.next = NoOrder, o.locate # None, o.price \in Prices
  PROVE  LET i == b.free
             d == Seated(b, o)
         IN /\ i \in Pool /\ i = F[1] /\ b.pool[i].locate = None /\ Apart(Q, i)
            /\ SideOf(o) \in Keys
            /\ Linked(d, Longer(b, Q, o)) /\ Freed(d, Tail(F))
            /\ d.index = b.index /\ d.checked = b.checked
            /\ SameOrder(d.pool[i], o) /\ \A j \in Pool \ {i} : SameOrder(d.pool[j], b.pool[j])
<1> DEFINE i == b.free
           k == SideOf(o)
           p == o.price
           q == Q[k][p]
           a == [b EXCEPT !.free = b.pool[i].next]
           d == Queued(a, i, o)
           G == Tail(F)
<1>1. /\ Linked(b, Q) /\ F \in Seq(Pool) /\ NoRepeats(F) /\ i = FirstOf(F)
      /\ \A x \in 1..Len(F) : /\ F[x] \in Pool /\ b.pool[F[x]].next = NextIn(F, x)
                              /\ b.pool[F[x]].locate = None
  BY DEF Sound, Freed
<1>2. /\ G \in Seq(Pool) /\ NoRepeats(G) /\ i = F[1] /\ i \in Pool
      /\ FirstOf(G) = NextIn(F, 1) /\ 1 \in 1..Len(F)
      /\ \A y \in 1..Len(G) : /\ y + 1 \in 1..Len(F) /\ G[y] = F[y + 1] /\ G[y] # i
                              /\ NextIn(G, y) = NextIn(F, y + 1)
  <2> HIDE DEF i, a, d
  <2>1. F \in Seq(Pool) /\ NoRepeats(F) /\ FirstOf(F) = i
    BY <1>1
  <2>2. /\ G \in Seq(Pool) /\ NoRepeats(G) /\ FirstOf(F) = F[1] /\ F[1] \in Pool
        /\ FirstOf(G) = NextIn(F, 1) /\ 1 \in 1..Len(F)
        /\ \A y \in 1..Len(G) : /\ y + 1 \in 1..Len(F) /\ G[y] = F[y + 1] /\ G[y] # F[1]
                                /\ NextIn(G, y) = NextIn(F, y + 1)
    BY <2>1, TailFacts
  <2> HIDE DEF G
  <2> QED BY <2>1, <2>2
<1> HIDE DEF G
<1>3. b.pool[i].locate = None /\ b.pool[i].next = FirstOf(G)
  BY <1>1, <1>2
<1>4. Apart(Q, i)
  BY <1>1, <1>2, <1>3, FreeSlotApart
<1>5. k \in Keys /\ p \in Prices
  BY DEF Keys, SideOf, FastOrder
<1>6. /\ Linked(a, Q) /\ a.index = b.index /\ a.pool = b.pool /\ a.checked = b.checked
      /\ a.free = FirstOf(G)
  <2>1. /\ BookShape(a) /\ a.index = b.index /\ a.pool = b.pool /\ a.checked = b.checked
        /\ a.sides = b.sides /\ a.free = b.pool[i].next
    BY <1>1 DEF Linked, BookShape
  <2> HIDE DEF a
  <2>2. Linked(a, Q)
    BY <1>1, <2>1 DEF Linked
  <2> QED BY <1>3, <2>1, <2>2
<1> HIDE DEF a, i
<1>7. /\ Linked(d, Requeued(Q, k, p, Append(q, i))) /\ SameOtherwise(d, a)
      /\ d.pool = Joined(b.pool, i, o, LastOf(q))
  BY <1>2, <1>4, <1>5, <1>6, QueuedLinked
<1>8. /\ QueueOK(b.pool, k, p, q) /\ b.pool \in Records /\ (\A y \in 1..Len(q) : q[y] # i)
      /\ q \in Seq(Pool)
  BY <1>1, <1>4, <1>5 DEF Linked, QueueOK, Apart
<1> HIDE DEF d
<1>9. /\ SameOrder(d.pool[i], o)
      /\ \A j \in Pool \ {i} : SameOrder(d.pool[j], b.pool[j])
      /\ \A j \in Pool \ {i} : j # LastOf(q) => d.pool[j] = b.pool[j]
  BY <1>2, <1>7, <1>8, JoinedRecords
<1>10. \A j \in Pool : b.pool[j].locate = None => j # LastOf(q)
  <2> SUFFICES ASSUME NEW j \in Pool, b.pool[j].locate = None, j = LastOf(q) PROVE FALSE
    OBVIOUS
  <2>1. q # <<>> /\ Len(q) \in 1..Len(q) /\ j = q[Len(q)]
    BY <1>8, NoOrderIsNoSlot, QueuePlaces DEF LastOf
  <2>2. Apart(Q, j)
    BY <1>1, FreeSlotApart
  <2> QED BY <1>5, <2>1, <2>2 DEF Apart
<1>11. \A y \in 1..Len(G) : d.pool[G[y]] = b.pool[G[y]]
  BY <1>1, <1>2, <1>9, <1>10, SMTT(60)
<1>12. Freed(d, G)
  <2>1. d.free = FirstOf(G)
    BY <1>6, <1>7 DEF SameOtherwise
  <2>2. ASSUME NEW y \in 1..Len(G)
        PROVE  d.pool[G[y]].next = NextIn(G, y) /\ d.pool[G[y]].locate = None
    <3>1. d.pool[G[y]] = b.pool[F[y + 1]] /\ y + 1 \in 1..Len(F)
      BY <1>2, <1>11
    <3> QED BY <1>1, <1>2, <3>1
  <2> QED BY <1>2, <2>1, <2>2 DEF Freed
<1> QED BY <1>2, <1>3, <1>4, <1>5, <1>6, <1>7, <1>9, <1>12
        DEF Seated, Longer, SameOtherwise, d, a, i, G

\* Who was queued is queued still, and the newcomer is.
LEMMA SeatedQueues ==
  ASSUME NEW b, NEW Q, NEW F, Sound(b, Q, F), F # <<>>,
         NEW o \in FastOrder, o.next = NoOrder, o.locate # None, o.price \in Prices,
         NEW c
  PROVE  LET i == b.free
             R == Longer(b, Q, o)
         IN /\ \A j \in Pool \ {i} : IsQueued(b, Q, j) /\ SameOrder(c.pool[j], b.pool[j])
                                     => IsQueued(c, R, j)
            /\ SameOrder(c.pool[i], o) => IsQueued(c, R, i)
<1> DEFINE i == b.free
           k == SideOf(o)
           p == o.price
           q == Q[k][p]
           f == Append(q, i)
           R == Requeued(Q, k, p, f)
<1>1. Linked(b, Q) /\ k \in Keys /\ p \in Prices /\ i \in Pool
  BY SeatedLinked DEF Sound
<1>2. q \in Seq(Pool)
  BY <1>1 DEF Linked, QueueOK
<1>3. /\ Len(q) + 1 \in 1..Len(f) /\ f[Len(q) + 1] = i
      /\ \A y \in 1..Len(q) : y \in 1..Len(f) /\ f[y] = q[y]
  BY <1>1, <1>2, SMTT(60)
<1>4. /\ R[k][p] = f
      /\ \A m \in Keys : \A s \in Prices : m # k \/ s # p => R[m][s] = Q[m][s]
  BY <1>1 DEF Requeued, Linked, Queues
<1> HIDE DEF R, f
<1>5. ASSUME NEW j \in Pool \ {i}, IsQueued(b, Q, j), SameOrder(c.pool[j], b.pool[j])
      PROVE  IsQueued(c, R, j)
  <2> DEFINE l == SideOf(b.pool[j])
             r == b.pool[j].price
  <2>1. l \in Keys /\ r \in Prices /\ SideOf(c.pool[j]) = l /\ c.pool[j].price = r
    BY <1>5 DEF IsQueued, SameOrder, SideOf
  <2>2. PICK y \in 1..Len(Q[l][r]) : Q[l][r][y] = j
    BY <1>5 DEF IsQueued
  <2> HIDE DEF l, r
  <2>3. \E z \in 1..Len(R[l][r]) : R[l][r][z] = j
    <3>1. CASE l = k /\ r = p
      <4> HIDE DEF k, p
      <4> QED BY <1>3, <1>4, <2>2, <3>1
    <3>2. CASE l # k \/ r # p
      BY <1>4, <2>1, <2>2, <3>2
    <3> QED BY <3>1, <3>2
  <2> QED BY <2>1, <2>3 DEF IsQueued
<1>6. ASSUME SameOrder(c.pool[i], o) PROVE IsQueued(c, R, i)
  BY <1>1, <1>3, <1>4, <1>6 DEF IsQueued, SameOrder, SideOf
<1> QED BY <1>5, <1>6 DEF R, f, Longer

\* An order queued and indexed: to the abstract book, an arrival at the back.
LEMMA IndexedSound ==
  ASSUME NEW b, NEW Q, NEW F, Sound(b, Q, F), F # <<>>,
         NEW ref \in Refs, ref \notin DOMAIN b.index, ~IndexFull(b),
         NEW o \in FastOrder, o.ref = ref, o.next = NoOrder, o.locate # None, o.price \in Prices
  PROVE  LET a == [Seated(b, o) EXCEPT !.index = Put(@, ref, b.free)]
         IN /\ Sound(a, Longer(b, Q, o), Tail(F))
            /\ View(a, Longer(b, Q, o)) = Abstract!With(View(b, Q), ref, RestingOrder(o))
<1> DEFINE i == b.free
           d == Seated(b, o)
           m == Put(b.index, ref, i)
           a == [d EXCEPT !.index = m]
           R == Longer(b, Q, o)
           G == Tail(F)
           k == SideOf(o)
           p == o.price
           q == Q[k][p]
           live == DOMAIN b.index
<1>1. /\ i \in Pool /\ i = F[1] /\ b.pool[i].locate = None /\ Apart(Q, i) /\ k \in Keys
      /\ Linked(d, R) /\ Freed(d, G) /\ d.index = b.index
      /\ SameOrder(d.pool[i], o) /\ \A j \in Pool \ {i} : SameOrder(d.pool[j], b.pool[j])
  BY SeatedLinked
<1> HIDE DEF d
<1>2. /\ Linked(a, R) /\ a.index = m /\ a.pool = d.pool /\ a.free = d.free
  BY <1>1, ReindexedLinked
<1>3. a = [Seated(b, o) EXCEPT !.index = Put(@, ref, b.free)]
  BY <1>1 DEF d
<1> HIDE DEF a
<1>4. /\ DOMAIN m = live \cup {ref} /\ m[ref] = i /\ \A r \in live : m[r] = b.index[r]
  BY DEF Put
<1> HIDE DEF m
<1>5. Freed(a, G)
  BY <1>1, <1>2 DEF Freed
<1>6. \A r \in live : /\ b.index[r] \in Pool \ {i} /\ b.pool[b.index[r]].ref = r
                      /\ b.pool[b.index[r]].locate # None
                      /\ SameOrder(a.pool[b.index[r]], b.pool[b.index[r]])
  BY <1>1, <1>2 DEF Sound, IndexOK
<1>7. IsFiniteSet(DOMAIN m) /\ Cardinality(DOMAIN m) <= IndexLimit
  <2>1. IsFiniteSet(live) /\ Cardinality(live) <= IndexLimit /\ Cardinality(live) # IndexLimit
    BY DEF Sound, IndexOK, IndexFull
  <2>2. IsFiniteSet(DOMAIN m) /\ Cardinality(DOMAIN m) = Cardinality(live) + 1
    BY <1>4, <2>1, FS_AddElement
  <2>3. Cardinality(live) \in Nat /\ IndexLimit \in Nat
    BY <2>1, FS_CardinalityType, FastBookAssumption
  <2>4. Cardinality(live) + 1 <= IndexLimit
    BY <2>1, <2>3
  <2> QED BY <2>2, <2>4
<1>8. IndexOK(a)
  <2>1. DOMAIN m \subseteq Refs
    BY <1>4 DEF Sound, IndexOK
  <2>2. ASSUME NEW r \in DOMAIN m
        PROVE  m[r] \in Pool /\ a.pool[m[r]].ref = r /\ a.pool[m[r]].locate # None
    <3>1. CASE r = ref
      BY <1>1, <1>2, <1>4, <3>1 DEF SameOrder
    <3>2. CASE r # ref
      BY <1>4, <1>6, <3>2 DEF SameOrder
    <3> QED BY <3>1, <3>2
  <2> QED BY <1>2, <1>7, <2>1, <2>2 DEF IndexOK
<1>9. /\ IsQueued(a, R, i)
      /\ \A j \in Pool \ {i} : IsQueued(b, Q, j) => IsQueued(a, R, j)
  BY <1>1, <1>2, SeatedQueues
<1>10. \A x \in 1..Len(F) : F[x] # i => \E y \in 1..Len(G) : G[y] = F[x]
  <2>1. F \in Seq(Pool) /\ NoRepeats(F)
    BY DEF Sound, Freed
  <2>2. \A x \in 1..Len(F) : x = 1 \/ (x - 1 \in 1..Len(G) /\ G[x - 1] = F[x])
    BY <2>1, TailFacts
  <2> HIDE DEF G, i
  <2> QED BY <1>1, <2>2
<1>11. ASSUME NEW j \in Pool PROVE Accounted(a, R, G, j)
  <2>1. CASE j = i
    BY <1>1, <1>2, <1>4, <1>9, <2>1 DEF Accounted, SameOrder
  <2>2. CASE j # i
    <3>1. Accounted(b, Q, F, j) /\ SameOrder(a.pool[j], b.pool[j])
      BY <1>1, <1>2, <2>2 DEF Sound
    <3>2. CASE b.pool[j].locate = None
      BY <1>10, <2>2, <3>1, <3>2 DEF Accounted, SameOrder
    <3>3. CASE b.pool[j].locate # None
      BY <1>2, <1>4, <1>9, <2>2, <3>1, <3>3 DEF Accounted, SameOrder
    <3> QED BY <3>2, <3>3
  <2> QED BY <2>1, <2>2
<1>12. Sound(a, R, G)
  BY <1>2, <1>5, <1>8, <1>11 DEF Sound
<1>13. q \in Seq(Pool) /\ \A y \in 1..Len(q) : q[y] # i
  BY <1>1 DEF Sound, Linked, QueueOK, Apart
<1>14. /\ R[k][p] = Append(q, i)
       /\ \A l \in Keys : \A s \in Prices : l # k \/ s # p => R[l][s] = Q[l][s]
  BY <1>1 DEF Longer, Requeued, Sound, Linked, Queues
<1> HIDE DEF R
<1>15. ASSUME NEW l \in Keys, NEW s \in Prices, NEW j, j # i
       PROVE  Before(R[l][s], j) = Before(Q[l][s], j)
  <2>1. CASE l = k /\ s = p
    <3>1. Before(Append(q, i), j) = Before(q, j)
      BY <1>1, <1>13, <1>15, AppendedBefore
    <3> HIDE DEF k, p
    <3> QED BY <1>14, <2>1, <3>1
  <2>2. CASE l # k \/ s # p
    BY <1>14, <2>2
  <2> QED BY <2>1, <2>2
<1>16. ASSUME NEW r \in live
       PROVE  /\ RestingOrder(a.pool[a.index[r]]) = RestingOrder(b.pool[b.index[r]])
              /\ AheadIn(a, R, r) = AheadIn(b, Q, r)
  <2> DEFINE j == b.index[r]
             l == SideOf(b.pool[j])
             s == b.pool[j].price
  <2>1. a.index[r] = j /\ j \in Pool /\ j # i /\ SameOrder(a.pool[j], b.pool[j])
    BY <1>2, <1>4, <1>6
  <2>2. l \in Keys /\ s \in Prices
    BY LiveSlot
  <2>3. SideOf(a.pool[j]) = l /\ a.pool[j].price = s
        /\ RestingOrder(a.pool[j]) = RestingOrder(b.pool[j])
    BY <2>1 DEF SameOrder, SideOf, RestingOrder
  <2>4. AheadIn(b, Q, r) = {b.pool[y].ref : y \in Before(Q[l][s], j)}
    BY DEF AheadIn
  <2> HIDE DEF j, l, s
  <2>5. AheadIn(a, R, r) = {a.pool[y].ref : y \in Before(Q[l][s], j)}
    BY <1>15, <2>1, <2>2, <2>3, ZenonT(60) DEF AheadIn
  <2>6. ASSUME NEW y \in Before(Q[l][s], j) PROVE a.pool[y].ref = b.pool[y].ref
    <3>1. PICK z \in 1..Len(Q[l][s]) : Q[l][s][z] = y
      BY DEF Before
    <3>2. Q[l][s][z] \in Pool /\ Q[l][s][z] # i
      BY <1>1, <2>2 DEF Apart, Sound, Linked, QueueOK
    <3>3. SameOrder(a.pool[y], b.pool[y])
      BY <1>1, <1>2, <3>1, <3>2
    <3> QED BY <3>3 DEF SameOrder
  <2>7. {a.pool[y].ref : y \in Before(Q[l][s], j)} = {b.pool[y].ref : y \in Before(Q[l][s], j)}
    BY <2>6
  <2> QED BY <2>1, <2>3, <2>4, <2>5, <2>7 DEF j
<1>17. RestingOrder(a.pool[a.index[ref]]) = RestingOrder(o)
  BY <1>1, <1>2, <1>4 DEF SameOrder, RestingOrder
<1>18. AheadIn(a, R, ref) = {x \in live : Abstract!SamePlace(RestingOrder(b.pool[b.index[x]]), RestingOrder(o))}
  <2>1. AheadIn(a, R, ref) = {a.pool[y].ref : y \in Before(Append(q, i), i)}
    <3>1. a.index[ref] = i /\ SideOf(a.pool[i]) = k /\ a.pool[i].price = p
      BY <1>1, <1>2, <1>4 DEF SameOrder, SideOf
    <3> HIDE DEF k, p, i
    <3> QED BY <1>14, <3>1 DEF AheadIn
  <2>2. Before(Append(q, i), i) = {q[y] : y \in 1..Len(q)}
    BY <1>1, <1>13, AppendedBefore
  <2>3. ASSUME NEW y \in 1..Len(q)
        PROVE  /\ a.pool[q[y]].ref \in live
               /\ Abstract!SamePlace(RestingOrder(b.pool[b.index[a.pool[q[y]].ref]]), RestingOrder(o))
    <3>1. /\ q[y] \in Pool /\ SideOf(b.pool[q[y]]) = k /\ b.pool[q[y]].price = p
          /\ b.pool[q[y]].ref \in live /\ b.index[b.pool[q[y]].ref] = q[y]
      <4>1. Sound(b, Q, F) /\ k \in Keys /\ p \in Prices /\ y \in 1..Len(Q[k][p])
        BY <1>1
      <4> HIDE DEF k, p
      <4> QED BY <4>1, QueuedIsLive
    <3>2. SameOrder(a.pool[q[y]], b.pool[q[y]])
      BY <1>1, <1>2, <1>13, <3>1
    <3>3. a.pool[q[y]].ref = b.pool[q[y]].ref
      BY <3>2 DEF SameOrder
    <3>4. Abstract!SamePlace(RestingOrder(b.pool[q[y]]), RestingOrder(o))
      BY <3>1 DEF Abstract!SamePlace, RestingOrder, SideOf
    <3> HIDE DEF q
    <3> QED BY <3>1, <3>3, <3>4
  <2>4. ASSUME NEW x \in live,
               Abstract!SamePlace(RestingOrder(b.pool[b.index[x]]), RestingOrder(o))
        PROVE  \E y \in 1..Len(q) : a.pool[q[y]].ref = x
    <3> DEFINE j == b.index[x]
    <3>1. SideOf(b.pool[j]) = k /\ b.pool[j].price = p
      BY <2>4 DEF Abstract!SamePlace, RestingOrder, SideOf
    <3>2. \E y \in 1..Len(Q[SideOf(b.pool[j])][b.pool[j].price]) :
            Q[SideOf(b.pool[j])][b.pool[j].price][y] = j
      BY LiveSlot
    <3>3. PICK y \in 1..Len(q) : q[y] = j
      BY <3>1, <3>2
    <3>4. a.pool[j].ref = x
      BY <1>6 DEF SameOrder
    <3> QED BY <3>3, <3>4
  <2> HIDE DEF q
  <2>5. AheadIn(a, R, ref) = {a.pool[q[y]].ref : y \in 1..Len(q)}
    BY <2>1, <2>2
  <2> QED BY <2>3, <2>4, <2>5
<1>19. DOMAIN a.index = live \cup {ref}
  BY <1>2, <1>4
<1>20. View(a, R) =
         [resting |-> [r \in live \cup {ref} |-> RestingOrder(a.pool[a.index[r]])],
          ahead   |-> [r \in live \cup {ref} |-> AheadIn(a, R, r)]]
  BY <1>19 DEF View
<1>21. Abstract!With(View(b, Q), ref, RestingOrder(o)) =
         [resting |-> [r \in live \cup {ref} |->
                         IF r = ref THEN RestingOrder(o) ELSE RestingOrder(b.pool[b.index[r]])],
          ahead   |-> [r \in live \cup {ref} |->
                         IF r = ref
                         THEN {x \in live : Abstract!SamePlace(RestingOrder(b.pool[b.index[x]]),
                                                               RestingOrder(o))}
                         ELSE AheadIn(b, Q, r)]]
  BY DEF View, Abstract!With
<1>22. View(a, R) = Abstract!With(View(b, Q), ref, RestingOrder(o))
  <2> HIDE DEF live, R
  <2>1. \A r \in live \cup {ref} :
          /\ RestingOrder(a.pool[a.index[r]])
               = IF r = ref THEN RestingOrder(o) ELSE RestingOrder(b.pool[b.index[r]])
          /\ AheadIn(a, R, r)
               = IF r = ref
                 THEN {x \in live : Abstract!SamePlace(RestingOrder(b.pool[b.index[x]]), RestingOrder(o))}
                 ELSE AheadIn(b, Q, r)
    BY <1>16, <1>17, <1>18
  <2> QED BY <1>20, <1>21, <2>1
<1> QED BY <1>3, <1>12, <1>22 DEF R, G

\* The view is a matter of index, pool and queues.
LEMMA SameView ==
  ASSUME NEW b, NEW Q, NEW F, Sound(b, Q, F), NEW c, c.index = b.index,
         \A j \in Pool : b.pool[j].locate # None => SameOrder(c.pool[j], b.pool[j])
  PROVE  View(c, Q) = View(b, Q)
<1>1. ASSUME NEW r \in DOMAIN b.index
      PROVE  /\ RestingOrder(c.pool[c.index[r]]) = RestingOrder(b.pool[b.index[r]])
             /\ AheadIn(c, Q, r) = AheadIn(b, Q, r)
  <2> DEFINE j == b.index[r]
             l == SideOf(b.pool[j])
             s == b.pool[j].price
  <2>1. c.index[r] = j /\ j \in Pool /\ b.pool[j].locate # None /\ l \in Keys /\ s \in Prices
    BY LiveSlot
  <2>2. SameOrder(c.pool[j], b.pool[j])
    BY <2>1
  <2>3. SideOf(c.pool[j]) = l /\ c.pool[j].price = s
        /\ RestingOrder(c.pool[j]) = RestingOrder(b.pool[j])
    BY <2>2 DEF SameOrder, SideOf, RestingOrder
  <2>4. AheadIn(b, Q, r) = {b.pool[y].ref : y \in Before(Q[l][s], j)}
    BY DEF AheadIn
  <2> HIDE DEF j, l, s
  <2>5. AheadIn(c, Q, r) = {c.pool[y].ref : y \in Before(Q[l][s], j)}
    BY <2>1, <2>3 DEF AheadIn
  <2>6. ASSUME NEW y \in Before(Q[l][s], j) PROVE c.pool[y].ref = b.pool[y].ref
    <3>1. PICK z \in 1..Len(Q[l][s]) : Q[l][s][z] = y
      BY DEF Before
    <3>2. y \in Pool /\ SideOf(b.pool[y]) = l
      BY <2>1, <3>1 DEF Sound, Linked, QueueOK
    <3>3. b.pool[y].locate # None
      BY <2>1, <3>2, NoneIsNoSymbol DEF SideOf, Keys
    <3> QED BY <3>2, <3>3 DEF SameOrder
  <2>7. {c.pool[y].ref : y \in Before(Q[l][s], j)} = {b.pool[y].ref : y \in Before(Q[l][s], j)}
    BY <2>6
  <2> QED BY <2>1, <2>3, <2>4, <2>5, <2>7 DEF j
<1> QED BY <1>1 DEF View

LEMMA LastRemoved ==
  ASSUME NEW q \in Seq(Pool), NEW i \in Pool
  PROVE  /\ Len(q) + 1 \in 1..Len(Append(q, i)) /\ Append(q, i)[Len(q) + 1] = i
         /\ Remaining(Append(q, i), Len(q) + 1) = q
<1>1. /\ Len(Append(q, i)) = Len(q) + 1 /\ Len(q) \in Nat
      /\ Append(q, i)[Len(q) + 1] = i /\ \A j \in 1..Len(q) : Append(q, i)[j] = q[j]
  OBVIOUS
<1>2. Remaining(Append(q, i), Len(q) + 1) = [j \in 1..Len(q) |-> q[j]]
  <2>1. 1..Len(Append(q, i)) - 1 = 1..Len(q)
    BY <1>1
  <2>2. \A j \in 1..Len(q) : j < Len(q) + 1
    BY <1>1
  <2> QED BY <1>1, <2>1, <2>2 DEF Remaining
<1>3. [j \in 1..Len(q) |-> q[j]] = q
  OBVIOUS
<1> QED BY <1>1, <1>2, <1>3

LEMMA BasesOfLevels ==
  ASSUME NEW s \in SideRec, NEW p \in Prices, NEW lvl \in LevelRec
  PROVE  /\ PutLevel(s, p, lvl).base = s.base
         /\ Occupy(PutLevel(s, p, lvl), p).base = s.base
         /\ Emptied(s, p, lvl).base = s.base
<1>1. PutLevel(s, p, lvl) \in SideRec /\ PutLevel(s, p, lvl).base = s.base
  BY PutLevelReads
<1> DEFINE t == PutLevel(s, p, lvl)
<1> HIDE DEF t
<1>2. Occupy(t, p).base = t.base
  BY <1>1 DEF Occupy, SideRec, t
<1>3. Emptied(s, p, lvl).base = s.base
  BY <1>1 DEF Emptied, SideRec
<1> QED BY <1>1, <1>2, <1>3 DEF t

\* No handler but check_bbo() moves a window that is in place.
LEMMA BaseSeated ==
  ASSUME NEW b, NEW Q, Linked(b, Q), NEW i \in Pool, NEW o \in FastOrder,
         SideOf(o) \in Keys, o.price \in Prices, NEW k \in Keys
  PROVE  /\ k # SideOf(o) => Queued(b, i, o).sides[k] = b.sides[k]
         /\ b.sides[k].base >= 0 => Queued(b, i, o).sides[k].base = b.sides[k].base
<1> DEFINE l == SideOf(o)
           p == o.price
           s == Anchored(b.sides[l], o.side, p)
           lvl == LevelAt(s, p)
           new == [lvl EXCEPT !.shares = @ + o.shares, !.orders = @ + 1, !.tail = i,
                              !.head = IF lvl.tail = NoOrder THEN i ELSE @]
           t == IF lvl.orders = 0 THEN Occupy(PutLevel(s, p, new), p) ELSE PutLevel(s, p, new)
<1>1. Q[l] \in Queues /\ SideOK(b.sides[l], Q[l]) /\ o.side \in Sides
  BY DEF Linked, FastOrder
<1>2. SideOK(s, Q[l]) /\ (b.sides[l].base >= 0 => s = b.sides[l])
  BY <1>1, AnchoredKept
<1>3. s \in SideRec /\ lvl \in LevelRec
  BY <1>2 DEF SideOK, Ends
<1>4. new \in LevelRec
  <2>1. o.shares \in Int /\ i \in Link
    BY DEF FastOrder, Link
  <2> HIDE DEF lvl
  <2> DEFINE shares == lvl.shares + o.shares
             orders == lvl.orders + 1
             head == IF lvl.tail = NoOrder THEN i ELSE lvl.head
  <2>2. shares \in Int /\ orders \in Nat /\ head \in Link
    BY <1>3, <2>1 DEF LevelRec
  <2>3. new = [lvl EXCEPT !.shares = shares, !.orders = orders, !.tail = i, !.head = head]
    OBVIOUS
  <2> HIDE DEF shares, orders, head, new
  <2>4. [[lvl EXCEPT !.shares = shares] EXCEPT !.orders = orders] \in LevelRec
    BY <1>3, <2>2 DEF LevelRec
  <2> QED BY <2>1, <2>2, <2>3, <2>4 DEF LevelRec
<1> HIDE DEF new, lvl
<1>5. t.base = s.base
  BY <1>3, <1>4, BasesOfLevels
<1>6. Queued(b, i, o).sides = [b.sides EXCEPT ![l] = t]
  BY DEF Queued, Linked, BookShape, new, lvl
<1> HIDE DEF t, s, l
<1>7. k = l => Queued(b, i, o).sides[k] = t
  BY <1>6 DEF Linked
<1>8. k # l => Queued(b, i, o).sides[k] = b.sides[k]
  BY <1>6 DEF Linked
<1> QED BY <1>2, <1>5, <1>7, <1>8 DEF l

LEMMA BaseUnlinked ==
  ASSUME NEW b, NEW Q, Linked(b, Q), NEW m \in Keys, NEW p \in Prices, NEW x \in 1..Len(Q[m][p]),
         NEW k \in Keys
  PROVE  Dropped(b, Q[m][p][x]).sides[k].base = b.sides[k].base
<1> DEFINE i == Q[m][p][x]
           s == b.sides[m]
           lvl == LevelAt(s, p)
           o == b.pool[i]
           new == [lvl EXCEPT !.orders = IF @ > 0 THEN @ - 1 ELSE @,
                              !.head = IF o.prev = NoOrder THEN o.next ELSE @,
                              !.tail = IF o.next = NoOrder THEN o.prev ELSE @]
           t == IF new.orders = 0 THEN Emptied(s, p, new) ELSE PutLevel(s, p, new)
<1>1. /\ i \in Pool /\ o \in FastOrder /\ SideOf(o) = m /\ o.price = p
      /\ HasLevel(s, p) /\ SideOK(s, Q[m]) /\ Q[m] \in Queues
  BY InQueue
<1>2. s \in SideRec /\ lvl \in LevelRec
  BY <1>1 DEF SideOK, Ends
<1>3. new \in LevelRec
  <2> HIDE DEF lvl, o
  <2>1. o.prev \in Link /\ o.next \in Link
    BY <1>1 DEF FastOrder, Link
  <2> DEFINE orders == IF lvl.orders > 0 THEN lvl.orders - 1 ELSE lvl.orders
             head == IF o.prev = NoOrder THEN o.next ELSE lvl.head
             tail == IF o.next = NoOrder THEN o.prev ELSE lvl.tail
  <2>2. orders \in Nat /\ head \in Link /\ tail \in Link
    BY <1>2, <2>1 DEF LevelRec
  <2>3. new = [lvl EXCEPT !.orders = orders, !.head = head, !.tail = tail]
    OBVIOUS
  <2> HIDE DEF orders, head, tail, new
  <2> QED BY <1>2, <2>2, <2>3 DEF LevelRec
<1> HIDE DEF new, lvl
<1>4. t.base = s.base
  BY <1>2, <1>3, BasesOfLevels
<1>5. Unlinked(b, i).sides = [b.sides EXCEPT ![m] = t]
  BY <1>1 DEF Unlinked, Linked, BookShape, new, lvl
<1> HIDE DEF t
<1>6. Dropped(b, i).sides = [b.sides EXCEPT ![m] = t]
  <2>1. Linked(Unlinked(b, i), Requeued(Q, m, p, Remaining(Q[m][p], x)))
    BY UnlinkedLinked
  <2> DEFINE u == Unlinked(b, i)
  <2> HIDE DEF u, i
  <2>2. Released(u, i).sides = u.sides
    BY <2>1 DEF Released, Linked, BookShape, u, i
  <2> QED BY <1>5, <2>2 DEF Dropped, u
<1> HIDE DEF s, i
<1> QED BY <1>4, <1>6 DEF Linked, s, i

\* The inside of the symbol checked last is in its windows.
InsideOf(b) == \A k \in Keys : b.checked = k[1] => InsideHeld(b.sides[k], k[2])

LEMMA RequeuedBack ==
  ASSUME NEW Q \in [Keys -> Queues], NEW k \in Keys, NEW p \in Prices, NEW f
  PROVE  /\ Requeued(Q, k, p, f)[k][p] = f
         /\ Requeued(Requeued(Q, k, p, f), k, p, Q[k][p]) = Q
<1> DEFINE e == [Q[k] EXCEPT ![p] = f]
           R == [Q EXCEPT ![k] = e]
<1>1. Q[k] \in [Prices -> Seq(Pool)]
  BY DEF Queues
<1>2. e[p] = f /\ [e EXCEPT ![p] = Q[k][p]] = Q[k]
  BY <1>1
<1> HIDE DEF e
<1>3. R[k] = e /\ [R EXCEPT ![k] = Q[k]] = Q
  OBVIOUS
<1> QED BY <1>2, <1>3 DEF Requeued, R, e

\* The index is full: the order that was seated is taken out again.
LEMMA NoRoomSound ==
  ASSUME NEW b, NEW Q, NEW F, Sound(b, Q, F), F # <<>>,
         NEW o \in FastOrder, o.next = NoOrder, o.locate # None, o.price \in Prices
  PROVE  LET c == Dropped(Seated(b, o), b.free)
         IN Sound(c, Q, F) /\ View(c, Q) = View(b, Q) /\ (InsideOf(b) => InsideOf(c))
<1> DEFINE i == b.free
           d == Seated(b, o)
           c == Dropped(d, i)
           k == SideOf(o)
           p == o.price
           q == Q[k][p]
           f == Append(q, i)
           R == Longer(b, Q, o)
           x == Len(q) + 1
           G == Tail(F)
<1>1. /\ i \in Pool /\ i = F[1] /\ b.pool[i].locate = None /\ k \in Keys /\ p \in Prices
      /\ Linked(d, R) /\ Freed(d, G) /\ d.index = b.index /\ d.checked = b.checked
      /\ \A j \in Pool \ {i} : SameOrder(d.pool[j], b.pool[j])
  BY SeatedLinked
<1>2. /\ F \in Seq(Pool) /\ NoRepeats(F) /\ Linked(b, Q) /\ q \in Seq(Pool) /\ Q[k] \in Queues
  BY <1>1 DEF Sound, Freed, Linked, QueueOK
<1>3. R = Requeued(Q, k, p, f)
  BY DEF Longer
<1>4. R[k][p] = f /\ Requeued(R, k, p, q) = Q
  <2>1. Q \in [Keys -> Queues]
    BY <1>2 DEF Linked
  <2> HIDE DEF k, p, f, R
  <2>2. Requeued(Q, k, p, f)[k][p] = f /\ Requeued(Requeued(Q, k, p, f), k, p, Q[k][p]) = Q
    BY <1>1, <2>1, RequeuedBack
  <2> QED BY <1>3, <2>2
<1>5. x \in 1..Len(f) /\ f[x] = i /\ Remaining(f, x) = q
  BY <1>1, <1>2, LastRemoved
<1>6. 1 \in 1..Len(F) /\ <<i>> \o G = F
  BY <1>1, <1>2, TailFacts
<1> HIDE DEF R, d, x, f, G, i
<1>7. /\ Linked(c, Q) /\ Freed(c, F) /\ c.index = b.index /\ c.checked = b.checked
      /\ c.pool[i].locate = None
      /\ \A j \in Pool \ {i} : SameOrder(c.pool[j], d.pool[j])
  <2> HIDE DEF q
  <2>1. x \in 1..Len(R[k][p]) /\ R[k][p][x] = i
    BY <1>4, <1>5
  <2>2. Requeued(R, k, p, Remaining(R[k][p], x)) = Q
    BY <1>4, <1>5
  <2> HIDE DEF c, k, p
  <2>3. LET e == Dropped(d, R[k][p][x])
        IN /\ Linked(e, Requeued(R, k, p, Remaining(R[k][p], x)))
           /\ Freed(e, <<R[k][p][x]>> \o G)
           /\ e.index = d.index /\ e.checked = d.checked
           /\ e.pool[R[k][p][x]].locate = None
           /\ \A j \in Pool \ {R[k][p][x]} : SameOrder(e.pool[j], d.pool[j])
    BY <1>1, <2>1, DroppedLinked
  <2>4. Dropped(d, R[k][p][x]) = c
    BY <2>1 DEF c
  <2> QED BY <1>1, <1>6, <2>1, <2>2, <2>3, <2>4
<1>8. \A j \in Keys : (b.sides[j].base >= 0 => c.sides[j].base = b.sides[j].base)
  <2> SUFFICES ASSUME NEW j \in Keys, b.sides[j].base >= 0
               PROVE  c.sides[j].base = b.sides[j].base
    OBVIOUS
  <2>1. d.sides[j].base = b.sides[j].base
    <3> DEFINE a == [b EXCEPT !.free = b.pool[b.free].next]
    <3>1. /\ BookShape(a) /\ a.pool = b.pool /\ a.sides = b.sides
      BY <1>2 DEF Linked, BookShape
    <3>2. Linked(a, Q)
      <4> HIDE DEF a
      <4> QED BY <1>2, <3>1 DEF Linked
    <3>3. d = Queued(a, i, o)
      BY DEF d, Seated, i
    <3> HIDE DEF a
    <3> QED BY <1>1, <3>1, <3>2, <3>3, BaseSeated
  <2>2. c.sides[j].base = d.sides[j].base
    <3>1. x \in 1..Len(R[k][p]) /\ R[k][p][x] = i
      BY <1>4, <1>5
    <3> HIDE DEF k, p
    <3>2. Dropped(d, R[k][p][x]).sides[j].base = d.sides[j].base
      BY <1>1, <3>1, BaseUnlinked
    <3> QED BY <3>1, <3>2
  <2> QED BY <2>1, <2>2
<1> HIDE DEF c, k, p, q
<1>9. IndexOK(c)
  <2>1. \A r \in DOMAIN b.index :
          /\ b.index[r] \in Pool \ {i} /\ b.pool[b.index[r]].ref = r
          /\ b.pool[b.index[r]].locate # None
          /\ SameOrder(c.pool[b.index[r]], d.pool[b.index[r]])
          /\ SameOrder(d.pool[b.index[r]], b.pool[b.index[r]])
    BY <1>1, <1>7 DEF Sound, IndexOK
  <2> QED BY <1>7, <2>1 DEF Sound, IndexOK, SameOrder
<1>10. \A j \in Pool \ {i} : SameOrder(c.pool[j], b.pool[j])
  BY <1>1, <1>7 DEF SameOrder
<1>11. ASSUME NEW j \in Pool PROVE Accounted(c, Q, F, j)
  <2>1. CASE j = i
    BY <1>1, <1>6, <1>7, <2>1 DEF Accounted
  <2>2. CASE j # i
    <3>1. Accounted(b, Q, F, j) /\ SameOrder(c.pool[j], b.pool[j])
      BY <1>10, <2>2 DEF Sound
    <3> QED BY <1>7, <3>1, Zenon DEF Accounted, IsQueued, SameOrder, SideOf
  <2> QED BY <2>1, <2>2
<1>12. Sound(c, Q, F)
  BY <1>7, <1>9, <1>11 DEF Sound
<1>13. View(c, Q) = View(b, Q)
  <2>1. \A j \in Pool : b.pool[j].locate # None => SameOrder(c.pool[j], b.pool[j])
    BY <1>1, <1>10
  <2> QED BY <1>7, <2>1, SameView
<1>14. ASSUME InsideOf(b) PROVE InsideOf(c)
  <2> SUFFICES ASSUME NEW j \in Keys, c.checked = j[1] PROVE InsideHeld(c.sides[j], j[2])
    BY DEF InsideOf
  <2>1. InsideHeld(b.sides[j], j[2])
    BY <1>7, <1>14 DEF InsideOf
  <2>2. SideOK(b.sides[j], Q[j]) /\ SideOK(c.sides[j], Q[j]) /\ Q[j] \in Queues
    BY <1>2, <1>7 DEF Linked
  <2>3. /\ HasBest(c.sides[j]) <=> HasBest(b.sides[j])
        /\ Best(c.sides[j], j[2]) = Best(b.sides[j], j[2])
    BY <2>2, BestIsExtreme
  <2>4. b.sides[j].base >= 0 => c.sides[j].base = b.sides[j].base
    BY <1>8
  <2> QED BY <2>1, <2>3, <2>4 DEF InsideHeld
<1> QED BY <1>12, <1>13, <1>14 DEF c, d, i

----------------------------------------------------------------------------
(* erase_ref() and reduce()                                                *)

LEMMA IndexApart ==
  ASSUME NEW b, BookShape(b), NEW m, NEW i, NEW qty
  PROVE  Deducted([b EXCEPT !.index = m], i, qty) = [Deducted(b, i, qty) EXCEPT !.index = m]
<1> DEFINE o == b.pool[i]
           s == b.sides[SideOf(o)]
           pl == [b.pool EXCEPT ![i].shares = @ - qty]
           w == [b.sides EXCEPT ![SideOf(o)] =
                   PutLevel(s, o.price, [LevelAt(s, o.price) EXCEPT !.shares = @ - qty])]
           d == [b EXCEPT !.index = m]
<1>1. /\ d = [index |-> m, pool |-> b.pool, free |-> b.free, sides |-> b.sides, checked |-> b.checked]
      /\ d.pool = b.pool /\ d.sides = b.sides
  BY DEF BookShape
<1> HIDE DEF d
<1>2. Deducted(b, i, qty) =
        [index |-> b.index, pool |-> pl, free |-> b.free,
         sides |-> IF HasLevel(s, o.price) THEN w ELSE b.sides, checked |-> b.checked]
  BY DEF Deducted, BookShape
<1>3. Deducted(d, i, qty) =
        [index |-> m, pool |-> pl, free |-> b.free,
         sides |-> IF HasLevel(s, o.price) THEN w ELSE b.sides, checked |-> b.checked]
  BY <1>1 DEF Deducted
<1> HIDE DEF o, s, pl, w
<1> QED BY <1>2, <1>3 DEF d

Lessened(resting, ref, qty) == [resting EXCEPT ![ref].shares = @ - qty]

\* To the abstract book, shares deducted are an order lessened.
LEMMA DeductedView ==
  ASSUME NEW b, NEW Q, NEW F, Sound(b, Q, F), NEW ref \in DOMAIN b.index,
         NEW qty \in Nat, NEW c, c.index = b.index,
         c.pool = Lowered(b.pool, b.index[ref], qty)
  PROVE  /\ View(c, Q).ahead = View(b, Q).ahead
         /\ View(c, Q).resting = Lessened(View(b, Q).resting, ref, qty)
         /\ View(c, Q) = [resting |-> View(c, Q).resting, ahead |-> View(c, Q).ahead]
<1> DEFINE i == b.index[ref]
           live == DOMAIN b.index
<1>1. b.pool \in Records /\ i \in Pool
  BY LiveSlot DEF Sound, Linked
<1>2. /\ \A j \in Pool \ {i} : c.pool[j] = b.pool[j]
      /\ c.pool[i] = [b.pool[i] EXCEPT !.shares = @ - qty]
  BY <1>1 DEF Records, Lowered
<1>3. \A j \in Pool : /\ c.pool[j].ref = b.pool[j].ref /\ SideOf(c.pool[j]) = SideOf(b.pool[j])
                      /\ c.pool[j].price = b.pool[j].price
  BY <1>1, <1>2 DEF SideOf, Records, FastOrder
<1>4. RestingOrder(c.pool[i]) = [RestingOrder(b.pool[i]) EXCEPT !.shares = @ - qty]
  BY <1>1, <1>2 DEF RestingOrder, Records, FastOrder
<1>5. ASSUME NEW r \in live PROVE b.index[r] \in Pool /\ (r # ref => b.index[r] # i)
                                  /\ AheadIn(c, Q, r) = AheadIn(b, Q, r)
  <2> DEFINE j == b.index[r]
             l == SideOf(b.pool[j])
             s == b.pool[j].price
  <2>1. j \in Pool /\ l \in Keys /\ s \in Prices /\ b.pool[j].ref = r /\ b.pool[i].ref = ref
    BY LiveSlot
  <2>2. c.index[r] = j /\ SideOf(c.pool[j]) = l /\ c.pool[j].price = s
    BY <1>3, <2>1
  <2>3. AheadIn(b, Q, r) = {b.pool[y].ref : y \in Before(Q[l][s], j)}
    BY DEF AheadIn
  <2>4. r # ref => j # i
    BY <2>1
  <2> HIDE DEF j, l, s
  <2>5. AheadIn(c, Q, r) = {c.pool[y].ref : y \in Before(Q[l][s], j)}
    BY <2>1, <2>2 DEF AheadIn
  <2>6. ASSUME NEW y \in Before(Q[l][s], j) PROVE c.pool[y].ref = b.pool[y].ref
    <3>1. PICK z \in 1..Len(Q[l][s]) : Q[l][s][z] = y
      BY DEF Before
    <3>2. y \in Pool
      BY <2>1, <3>1 DEF Sound, Linked, QueueOK
    <3> QED BY <1>3, <3>2
  <2>7. {c.pool[y].ref : y \in Before(Q[l][s], j)} = {b.pool[y].ref : y \in Before(Q[l][s], j)}
    BY <2>6
  <2> QED BY <2>1, <2>3, <2>4, <2>5, <2>7 DEF j
<1>6. View(c, Q).ahead = View(b, Q).ahead
  <2>1. /\ View(c, Q).ahead = [r \in live |-> AheadIn(c, Q, r)]
        /\ View(b, Q).ahead = [r \in live |-> AheadIn(b, Q, r)]
    BY DEF View
  <2> HIDE DEF live
  <2> QED BY <1>5, <2>1
<1>7. View(c, Q).resting = [View(b, Q).resting EXCEPT ![ref].shares = @ - qty]
  <2>1. /\ View(c, Q).resting = [r \in live |-> RestingOrder(c.pool[b.index[r]])]
        /\ View(b, Q).resting = [r \in live |-> RestingOrder(b.pool[b.index[r]])]
    BY DEF View
  <2>2. \A r \in live :
          RestingOrder(c.pool[b.index[r]]) =
            IF r = ref THEN [RestingOrder(b.pool[b.index[ref]]) EXCEPT !.shares = @ - qty]
            ELSE RestingOrder(b.pool[b.index[r]])
    BY <1>2, <1>4, <1>5
  <2> HIDE DEF live
  <2>3. ref \in live
    BY DEF live
  <2>4. [[r \in live |-> RestingOrder(b.pool[b.index[r]])] EXCEPT ![ref].shares = @ - qty] =
          [r \in live |-> IF r = ref THEN [RestingOrder(b.pool[b.index[ref]]) EXCEPT !.shares = @ - qty]
                          ELSE RestingOrder(b.pool[b.index[r]])]
    BY <2>3
  <2>5. [r \in live |-> RestingOrder(c.pool[b.index[r]])] =
          [r \in live |-> IF r = ref THEN [RestingOrder(b.pool[b.index[ref]]) EXCEPT !.shares = @ - qty]
                          ELSE RestingOrder(b.pool[b.index[r]])]
    BY <2>2
  <2> QED BY <2>1, <2>4, <2>5
<1> QED BY <1>6, <1>7 DEF View, Lessened

\* A live reference taken out of the index, its slot unlinked and released.
LEMMA RemovedSound ==
  ASSUME NEW b, NEW Q, NEW F, Sound(b, Q, F), NEW ref \in DOMAIN b.index
  PROVE  LET c == Dropped([b EXCEPT !.index = Drop(@, ref)], b.index[ref])
         IN /\ c.index = Drop(b.index, ref) /\ c.checked = b.checked /\ ~IndexFull(c)
            /\ \E R, G : /\ Sound(c, R, G) /\ G # <<>>
                         /\ View(c, R) = Abstract!Without(View(b, Q), ref)
<1> DEFINE i == b.index[ref]
           k == SideOf(b.pool[i])
           p == b.pool[i].price
           c == Dropped([b EXCEPT !.index = Drop(@, ref)], i)
<1>1. k \in Keys /\ p \in Prices /\ \E x \in 1..Len(Q[k][p]) : Q[k][p][x] = i
  BY LiveSlot
<1>2. PICK x \in 1..Len(Q[k][p]) : Q[k][p][x] = i
  BY <1>1, Zenon
<1> DEFINE R == Requeued(Q, k, p, Remaining(Q[k][p], x))
           G == <<i>> \o F
<1> HIDE DEF k, p
<1>3. /\ Sound(c, R, G) /\ c.index = Drop(b.index, ref) /\ c.checked = b.checked
      /\ \A j \in Pool \ {i} : SameOrder(c.pool[j], b.pool[j])
  BY <1>1, <1>2, DroppedSound
<1> HIDE DEF c
<1>4. View(c, R) = Abstract!Without(View(b, Q), ref)
  BY <1>1, <1>2, <1>3, DroppedView
<1>5. G # <<>>
  <2>1. F \in Seq(Pool) /\ i \in Pool
    BY LiveSlot DEF Sound, Freed
  <2>2. Len(G) = Len(F) + 1 /\ Len(F) \in Nat
    BY <2>1
  <2> HIDE DEF G
  <2> QED BY <2>2
<1>6. ~IndexFull(c)
  <2>1. Cardinality(DOMAIN c.index) < IndexLimit /\ Cardinality(DOMAIN c.index) \in Nat
    BY <1>3, SmallerIndex DEF Sound
  <2> QED BY <2>1 DEF IndexFull
<1> QED BY <1>3, <1>4, <1>5, <1>6 DEF c

LEMMA WithoutTheOther ==
  ASSUME NEW v, NEW w, NEW ref, v.ahead = w.ahead, DOMAIN v.resting = DOMAIN w.resting,
         \A r \in DOMAIN w.resting \ {ref} : v.resting[r] = w.resting[r]
  PROVE  Abstract!Without(v, ref) = Abstract!Without(w, ref)
  BY DEF Abstract!Without

\* erase_ref(): a departure, after which there is room for a newcomer.
LEMMA ErasedSound ==
  ASSUME NEW b, NEW Q, NEW F, Sound(b, Q, F), NEW ref \in DOMAIN b.index
  PROVE  LET c == Erased(b, ref)
         IN /\ c.index = Drop(b.index, ref) /\ c.checked = b.checked /\ ~IndexFull(c)
            /\ \E R, G : /\ Sound(c, R, G) /\ G # <<>>
                         /\ View(c, R) = Abstract!Without(View(b, Q), ref)
<1> DEFINE i == b.index[ref]
           sh == b.pool[i].shares
           d == Deducted(b, i, sh)
           c == Dropped([d EXCEPT !.index = Drop(@, ref)], i)
<1>1. i \in Pool /\ b.pool[i] \in FastOrder /\ BookShape(b)
  BY LiveSlot DEF Sound, Linked
<1>2. sh \in Nat /\ sh <= sh
  BY <1>1 DEF FastOrder
<1>3. Sound(d, Q, F) /\ SameOtherwise(d, b) /\ d.pool = Lowered(b.pool, i, sh)
  BY <1>2, DeductedSound
<1>4. d.index = b.index /\ d.checked = b.checked
  BY <1>3 DEF SameOtherwise
<1>5. Erased(b, ref) = c
  <2>1. Deducted([b EXCEPT !.index = Drop(b.index, ref)], i, sh) = [d EXCEPT !.index = Drop(b.index, ref)]
    BY <1>1, IndexApart
  <2> HIDE DEF i, sh, d
  <2>2. Erased(b, ref) =
          Released(Unlinked(Deducted([b EXCEPT !.index = Drop(b.index, ref)], i, sh), i), i)
    BY DEF Erased, i, sh
  <2> QED BY <1>4, <2>1, <2>2 DEF Dropped
<1>6. /\ View(d, Q).ahead = View(b, Q).ahead
      /\ View(d, Q).resting = Lessened(View(b, Q).resting, ref, sh)
  <2> HIDE DEF d, sh
  <2> QED BY <1>2, <1>3, <1>4, DeductedView
<1> HIDE DEF d, sh
<1>7. Abstract!Without(View(d, Q), ref) = Abstract!Without(View(b, Q), ref)
  BY <1>6, WithoutTheOther DEF View, Lessened
<1>8. /\ c.index = Drop(d.index, ref) /\ c.checked = d.checked /\ ~IndexFull(c)
      /\ \E R, G : Sound(c, R, G) /\ G # <<>> /\ View(c, R) = Abstract!Without(View(d, Q), ref)
  <2>1. ref \in DOMAIN d.index /\ c = Dropped([d EXCEPT !.index = Drop(@, ref)], d.index[ref])
    BY <1>4
  <2> HIDE DEF c
  <2> QED BY <1>3, <2>1, RemovedSound, ZenonT(60)
<1> HIDE DEF c
<1> QED BY <1>4, <1>5, <1>7, <1>8

\* reduce(): an order lessened, or gone when nothing of it is left.
LEMMA ReducedSound ==
  ASSUME NEW b, NEW Q, NEW F, Sound(b, Q, F), NEW ref \in DOMAIN b.index, NEW qty \in Nat
  PROVE  LET c == Reduced(b, ref, qty)
             shares == View(b, Q).resting[ref].shares
         IN \E R, G :
              /\ Sound(c, R, G)
              /\ View(c, R) = IF qty < shares
                              THEN [resting |-> [View(b, Q).resting EXCEPT ![ref].shares = @ - qty],
                                    ahead |-> View(b, Q).ahead]
                              ELSE Abstract!Without(View(b, Q), ref)
<1> DEFINE i == b.index[ref]
           sh == b.pool[i].shares
           n == IF qty < sh THEN qty ELSE sh
           d == Deducted(b, i, n)
           c == Reduced(b, ref, qty)
<1>1. i \in Pool /\ b.pool[i] \in FastOrder /\ b.pool \in Records
  BY LiveSlot DEF Sound, Linked
<1>2. sh \in Nat /\ n \in Nat /\ n <= sh
  BY <1>1 DEF FastOrder
<1>3. View(b, Q).resting[ref].shares = sh
  BY DEF View, RestingOrder
<1> HIDE DEF n
<1>4. Sound(d, Q, F) /\ SameOtherwise(d, b) /\ d.pool = Lowered(b.pool, i, n)
  BY <1>2, DeductedSound
<1>5. d.index = b.index /\ d.pool[i].shares = sh - n
  BY <1>1, <1>4 DEF SameOtherwise, Records, FastOrder, Lowered
<1>6. /\ View(d, Q).ahead = View(b, Q).ahead
      /\ View(d, Q).resting = Lessened(View(b, Q).resting, ref, n)
      /\ View(d, Q) = [resting |-> View(d, Q).resting, ahead |-> View(d, Q).ahead]
  <2> HIDE DEF d, sh, c
  <2> QED BY <1>2, <1>4, <1>5, DeductedView
<1>7. c = IF d.pool[i].shares # 0 THEN d
          ELSE Dropped([d EXCEPT !.index = Drop(@, ref)], i)
  BY DEF Reduced, Dropped, n
<1> HIDE DEF d, c
<1>8. CASE qty < sh
  <2>1. n = qty /\ c = d
    BY <1>2, <1>5, <1>7, <1>8 DEF n
  <2> QED BY <1>3, <1>4, <1>6, <1>8, <2>1 DEF c, Lessened
<1>9. CASE ~(qty < sh)
  <2>1. c = Dropped([d EXCEPT !.index = Drop(@, ref)], i)
    BY <1>2, <1>5, <1>7, <1>9 DEF n
  <2>2. \E R, G : Sound(c, R, G) /\ View(c, R) = Abstract!Without(View(d, Q), ref)
    <3>1. ref \in DOMAIN d.index /\ c = Dropped([d EXCEPT !.index = Drop(@, ref)], d.index[ref])
      BY <1>5, <2>1
    <3> QED BY <1>4, <3>1, RemovedSound, ZenonT(60)
  <2>3. Abstract!Without(View(d, Q), ref) = Abstract!Without(View(b, Q), ref)
    BY <1>6, WithoutTheOther DEF View, Lessened
  <2> QED BY <1>3, <1>9, <2>2, <2>3 DEF c
<1> QED BY <1>8, <1>9

----------------------------------------------------------------------------
(* add()                                                                   *)

\* check_bbo(): nothing the abstract book can see, and the inside is in place.
LEMMA CheckedSound ==
  ASSUME NEW b, NEW Q, NEW F, Sound(b, Q, F), NEW l
  PROVE  LET c == Checked(b, l)
         IN /\ Sound(c, Q, F) /\ View(c, Q) = View(b, Q) /\ InsideOf(c)
            /\ c.index = b.index /\ c.pool = b.pool
<1> DEFINE c == Checked(b, l)
<1>1. /\ Linked(c, Q) /\ c.pool = b.pool /\ c.index = b.index /\ c.free = b.free
      /\ c.checked = l
      /\ \A k \in Keys : k[1] = l => InsideHeld(c.sides[k], k[2])
  BY CheckedLinked DEF Sound
<1> HIDE DEF c
<1>2. Sound(c, Q, F)
  BY <1>1 DEF Sound, Freed, IndexOK, Accounted, IsQueued
<1>3. View(c, Q) = View(b, Q)
  BY <1>1 DEF View, AheadIn
<1>4. InsideOf(c)
  BY <1>1 DEF InsideOf
<1> QED BY <1>1, <1>2, <1>3, <1>4 DEF c

\* Room for a newcomer: a slot, and an entry of the index.
HasRoom(b, F) == F # <<>> /\ ~IndexFull(b)

\* add() of a reference that is not live, with room and without.
LEMMA FreshSound ==
  ASSUME NEW b, NEW Q, NEW F, Sound(b, Q, F), NEW ref \in Refs, ref \notin DOMAIN b.index,
         NEW o \in FastOrder, o.ref = ref, o.next = NoOrder, o.locate # None, o.price \in Prices
  PROVE  LET c == Added(b, ref, o)
         IN \E R, G : /\ Sound(c, R, G) /\ (InsideOf(b) => InsideOf(c))
                      /\ HasRoom(b, F) =>
                           /\ View(c, R) = Abstract!With(View(b, Q), ref, RestingOrder(o))
                           /\ InsideOf(c)
                      /\ ~HasRoom(b, F) => View(c, R) = View(b, Q)
<1> DEFINE c == Added(b, ref, o)
           i == b.free
           d == Seated(b, o)
<1>1. o.locate \in Symbols /\ F \in Seq(Pool) /\ i = FirstOf(F) /\ (F # <<>> => i # NoOrder)
  <2>1. o.locate \in Symbols /\ F \in Seq(Pool) /\ i = FirstOf(F)
    BY DEF FastOrder, Sound, Freed
  <2>2. F # <<>> => F[1] \in Pool
    BY <2>1
  <2> QED BY <2>1, <2>2, NoOrderIsNoSlot DEF FirstOf
<1>2. c = IF i = NoOrder THEN b
          ELSE IF IndexFull(b) THEN Dropped(d, i)
          ELSE Checked([d EXCEPT !.index = Put(@, ref, i)], o.locate)
  BY <1>1 DEF Added, Seated, Dropped
<1> HIDE DEF c
<1>3. CASE F = <<>>
  <2>1. c = b
    BY <1>1, <1>2, <1>3 DEF FirstOf
  <2> QED BY <1>3, <2>1 DEF HasRoom, c
<1>4. CASE F # <<>> /\ IndexFull(b)
  <2>1. c = Dropped(d, i)
    BY <1>1, <1>2, <1>4
  <2>2. Sound(c, Q, F) /\ View(c, Q) = View(b, Q) /\ (InsideOf(b) => InsideOf(c))
    BY <1>4, <2>1, NoRoomSound
  <2> QED BY <1>4, <2>2 DEF HasRoom, c
<1>5. CASE F # <<>> /\ ~IndexFull(b)
  <2> DEFINE a == [d EXCEPT !.index = Put(@, ref, i)]
             R == Longer(b, Q, o)
             G == Tail(F)
  <2>1. c = Checked(a, o.locate)
    BY <1>1, <1>2, <1>5
  <2>2. Sound(a, R, G) /\ View(a, R) = Abstract!With(View(b, Q), ref, RestingOrder(o))
    BY <1>5, IndexedSound
  <2> HIDE DEF a, R, G
  <2>3. Sound(c, R, G) /\ View(c, R) = View(a, R) /\ InsideOf(c)
    BY <2>1, <2>2, CheckedSound
  <2> QED BY <1>5, <2>2, <2>3 DEF HasRoom, c
<1> QED BY <1>3, <1>4, <1>5

\* Whoever is not in the index is ahead of nobody.
LEMMA NotThere ==
  ASSUME NEW b, NEW Q, NEW F, Sound(b, Q, F), NEW ref, ref \notin DOMAIN b.index
  PROVE  Abstract!Without(View(b, Q), ref) = View(b, Q)
<1> DEFINE v == View(b, Q)
<1>1. DOMAIN v.resting = DOMAIN b.index /\ DOMAIN v.resting \ {ref} = DOMAIN b.index
  BY DEF View
<1>2. ASSUME NEW r \in DOMAIN b.index PROVE AheadIn(b, Q, r) \ {ref} = AheadIn(b, Q, r)
  <2> DEFINE i == b.index[r]
             k == SideOf(b.pool[i])
             p == b.pool[i].price
  <2>1. k \in Keys /\ p \in Prices
    BY LiveSlot
  <2> HIDE DEF k, p
  <2>2. \A y \in 1..Len(Q[k][p]) : b.pool[Q[k][p][y]].ref \in DOMAIN b.index
    BY <2>1, QueuedIsLive
  <2>3. ref \notin {b.pool[j].ref : j \in Before(Q[k][p], i)}
    BY <2>2 DEF Before
  <2> QED BY <2>3, Zenon DEF AheadIn, k, p
<1>3. [r \in DOMAIN b.index |-> v.ahead[r] \ {ref}] = v.ahead
  BY <1>2 DEF View
<1>4. [r \in DOMAIN b.index |-> v.resting[r]] = v.resting
  BY DEF View
<1> QED BY <1>1, <1>3, <1>4, Zenon DEF Abstract!Without, View

\* add(), whether or not the reference is live: the newcomer is at the back of
\* its level and its former self is gone; a newcomer there is no room for
\* changes nothing.
LEMMA AddedSound ==
  ASSUME NEW b, NEW Q, NEW F, Sound(b, Q, F), NEW ref \in Refs,
         NEW o \in FastOrder, o.ref = ref, o.next = NoOrder, o.locate # None, o.price \in Prices
  PROVE  LET c == Added(b, ref, o)
         IN \E R, G :
              /\ Sound(c, R, G) /\ (InsideOf(b) => InsideOf(c))
              /\ \/ View(c, R) = Abstract!Arrival(View(b, Q), ref, RestingOrder(o))
                 \/ ref \notin DOMAIN b.index /\ ~HasRoom(b, F) /\ View(c, R) = View(b, Q)
<1> DEFINE c == Added(b, ref, o)
<1>1. CASE ref \notin DOMAIN b.index
  <2>1. PICK R, G :
          /\ Sound(c, R, G) /\ (InsideOf(b) => InsideOf(c))
          /\ HasRoom(b, F) => View(c, R) = Abstract!With(View(b, Q), ref, RestingOrder(o))
          /\ ~HasRoom(b, F) => View(c, R) = View(b, Q)
    BY <1>1, FreshSound
  <2>2. Abstract!Without(View(b, Q), ref) = View(b, Q)
    BY <1>1, NotThere
  <2> HIDE DEF c
  <2> QED BY <1>1, <2>1, <2>2 DEF Abstract!Arrival, c
<1>2. CASE ref \in DOMAIN b.index
  <2> DEFINE d == Erased(b, ref)
  <2>1. d.index = Drop(b.index, ref) /\ ~IndexFull(d)
    BY <1>2, ErasedSound
  <2>2. PICK P, E : Sound(d, P, E) /\ E # <<>> /\ View(d, P) = Abstract!Without(View(b, Q), ref)
    BY <1>2, ErasedSound
  <2>3. ref \notin DOMAIN d.index /\ HasRoom(d, E)
    BY <2>1, <2>2 DEF Drop, HasRoom
  <2>4. c = Added(d, ref, o)
    <3>1. o.locate \in Symbols
      BY DEF FastOrder
    <3> HIDE DEF d
    <3> QED BY <1>2, <2>3, <3>1 DEF Added, d
  <2> HIDE DEF c, d
  <2>5. \E R, G : /\ Sound(c, R, G) /\ InsideOf(c)
                  /\ View(c, R) = Abstract!With(View(d, P), ref, RestingOrder(o))
    BY <2>2, <2>3, <2>4, FreshSound
  <2> QED BY <2>2, <2>5 DEF Abstract!Arrival, c
<1> QED BY <1>1, <1>2

----------------------------------------------------------------------------
(* Chain(): followed from the first slot of a queue, the links give back   *)
(* the queue.  The recursive function exists, so it can be unrolled.       *)

Walks(pl, n, f) ==
  f = [m \in 0..n |->
         [j \in Pool \cup {NoOrder} |->
            IF j = NoOrder \/ m = 0 THEN <<>> ELSE <<j>> \o f[m - 1][pl[j].next]]]

LEMMA WalkExists ==
  ASSUME NEW pl, NEW n \in Nat
  PROVE  \E f : Walks(pl, n, f)
<1> DEFINE T == {k \in Nat : ~ \E f : Walks(pl, k, f)}
<1> SUFFICES ASSUME T # {} PROVE FALSE
  OBVIOUS
<1>1. PICK k \in T : \A m \in T : k <= m
  <2> HIDE DEF T
  <2>1. T \in SUBSET Nat
    BY DEF T
  <2> QED BY <2>1, LeastExists
<1>2. k \in Nat /\ ~ \E f : Walks(pl, k, f)
  OBVIOUS
<1>3. CASE k = 0
  <2> DEFINE f == [m \in 0..0 |-> [j \in Pool \cup {NoOrder} |-> <<>>]]
  <2>1. Walks(pl, 0, f)
    <3>1. \A m \in 0..0 : m = 0
      OBVIOUS
    <3> QED BY <3>1 DEF Walks
  <2> QED BY <1>2, <1>3, <2>1
<1>4. CASE k # 0
  <2>1. k - 1 \in Nat /\ ~(k <= k - 1)
    BY <1>2, <1>4
  <2>2. PICK g : Walks(pl, k - 1, g)
    BY <1>1, <2>1
  <2> DEFINE last == [j \in Pool \cup {NoOrder} |->
                        IF j = NoOrder \/ k = 0 THEN <<>> ELSE <<j>> \o g[k - 1][pl[j].next]]
             f == [m \in 0..k |-> IF m = k THEN last ELSE g[m]]
  <2>3. ASSUME NEW m \in 0..k
        PROVE  f[m] = [j \in Pool \cup {NoOrder} |->
                         IF j = NoOrder \/ m = 0 THEN <<>> ELSE <<j>> \o f[m - 1][pl[j].next]]
    <3>1. CASE m = k
      <4>1. k - 1 \in 0..k /\ k - 1 # k
        BY <1>2, <2>1
      <4>2. f[k - 1] = g[k - 1] /\ f[k] = last
        BY <1>2, <4>1
      <4> HIDE DEF f
      <4> QED BY <3>1, <4>2
    <3>2. CASE m # k
      <4>1. m \in 0..k - 1 /\ (m = 0 \/ (m - 1 \in 0..k /\ m - 1 # k))
        BY <1>2, <3>2
      <4>2. f[m] = g[m] /\ (m = 0 \/ f[m - 1] = g[m - 1])
        BY <3>2, <4>1
      <4> HIDE DEF f
      <4>3. g[m] = [j \in Pool \cup {NoOrder} |->
                      IF j = NoOrder \/ m = 0 THEN <<>> ELSE <<j>> \o g[m - 1][pl[j].next]]
        BY <2>2, <4>1, Zenon DEF Walks
      <4> QED BY <4>2, <4>3
    <3> QED BY <3>1, <3>2, Zenon
  <2>4. f = [m \in 0..k |-> f[m]]
    OBVIOUS
  <2> HIDE DEF f
  <2>5. Walks(pl, k, f)
    BY <2>3, <2>4 DEF Walks
  <2> QED BY <1>2, <2>5
<1> QED BY <1>3, <1>4

LEMMA ChainWalks ==
  ASSUME NEW pl, NEW n \in Nat
  PROVE  \E f : Walks(pl, n, f) /\ \A i : Chain(pl, i, n) = f[n][i]
<1> DEFINE f == CHOOSE f : Walks(pl, n, f)
<1>1. Walks(pl, n, f)
  BY WalkExists
<1>2. ASSUME NEW i PROVE Chain(pl, i, n) = f[n][i]
  BY DEF Chain, Walks
<1> QED BY <1>1, <1>2

\* A queue is no longer than the pool.
LEMMA AsLongAsThePool ==
  ASSUME NEW q \in Seq(Pool), NoRepeats(q)
  PROVE  Len(q) \in Nat /\ Len(q) <= PoolSize
<1> DEFINE S == 1..Len(q)
<1>1. Len(q) \in Nat /\ PoolSize \in Nat /\ 0 \in Int /\ PoolSize - 1 \in Int
  BY Bounds
<1>2. IsFiniteSet(Pool) /\ Cardinality(Pool) = PoolSize
  <2>1. Cardinality(0..PoolSize - 1) = IF 0 > PoolSize - 1 THEN 0 ELSE (PoolSize - 1) - 0 + 1
    BY <1>1, FS_Interval
  <2>2. IsFiniteSet(0..PoolSize - 1)
    BY <1>1, FS_Interval
  <2> QED BY <1>1, <2>1, <2>2 DEF Pool
<1>3. Cardinality(S) = Len(q)
  <2>1. Cardinality(1..Len(q)) = IF 1 > Len(q) THEN 0 ELSE Len(q) - 1 + 1
    BY <1>1, FS_Interval, SMTT(60)
  <2> QED BY <1>1, <2>1
<1>4. q \in Injection(S, Pool)
  <2>1. q \in [S -> Pool]
    OBVIOUS
  <2> QED BY <2>1 DEF Injection, IsInjective, NoRepeats
<1>5. Cardinality(S) <= Cardinality(Pool)
  BY <1>2, <1>4, FS_Injection
<1> QED BY <1>1, <1>2, <1>3, <1>5

From(q, x) == [y \in 1..Len(q) - x + 1 |-> q[x + y - 1]]

LEMMA PushedOn ==
  ASSUME NEW F \in Seq(Pool), NEW i \in Pool
  PROVE  LET G == <<i>> \o F
         IN /\ G \in Seq(Pool) /\ Len(G) = Len(F) + 1 /\ G[1] = i
            /\ \A y \in 1..Len(F) : G[y + 1] = F[y]
  OBVIOUS

LEMMA FromFacts ==
  ASSUME NEW q \in Seq(Pool)
  PROVE  /\ q # <<>> => From(q, 1) = q
         /\ q # <<>> => From(q, Len(q)) = <<q[Len(q)]>>
         /\ \A x \in 1..Len(q) : x # Len(q) => From(q, x) = <<q[x]>> \o From(q, x + 1)
<1>1. Len(q) \in Nat /\ (q # <<>> => Len(q) >= 1)
  OBVIOUS
<1>2. ASSUME NEW x \in 1..Len(q) + 1
      PROVE  /\ From(q, x) \in Seq(Pool) /\ Len(From(q, x)) = Len(q) - x + 1
             /\ \A y \in 1..Len(q) - x + 1 : From(q, x)[y] = q[x + y - 1]
  <2>1. \A y \in 1..Len(q) - x + 1 : x + y - 1 \in 1..Len(q)
    BY <1>1
  <2>2. \A y \in 1..Len(q) - x + 1 : q[x + y - 1] \in Pool
    BY <2>1
  <2>3. Len(q) - x + 1 \in Nat
    BY <1>1
  <2> QED BY <2>2, <2>3 DEF From
<1>3. q # <<>> => From(q, 1) = q
  <2> SUFFICES ASSUME q # <<>> PROVE From(q, 1) = q
    OBVIOUS
  <2>1. 1 \in 1..Len(q) + 1 /\ Len(q) - 1 + 1 = Len(q) /\ \A y \in 1..Len(q) : 1 + y - 1 = y
    BY <1>1
  <2>2. From(q, 1) \in Seq(Pool) /\ Len(From(q, 1)) = Len(q)
    BY <1>2, <2>1
  <2>3. \A y \in 1..Len(q) : From(q, 1)[y] = q[y]
    BY <1>2, <2>1, SMTT(60)
  <2> QED BY <2>2, <2>3
<1>4. q # <<>> => From(q, Len(q)) = <<q[Len(q)]>>
  <2> SUFFICES ASSUME q # <<>> PROVE From(q, Len(q)) = <<q[Len(q)]>>
    OBVIOUS
  <2>1. Len(q) \in 1..Len(q) + 1 /\ Len(q) - Len(q) + 1 = 1 /\ Len(q) + 1 - 1 = Len(q)
        /\ 1 \in 1..(Len(q) - Len(q) + 1)
    BY <1>1
  <2>2. From(q, Len(q)) \in Seq(Pool) /\ Len(From(q, Len(q))) = 1
    BY <1>2, <2>1
  <2>3. From(q, Len(q))[1] = q[Len(q)]
    BY <1>2, <2>1
  <2> QED BY <2>2, <2>3
<1>5. ASSUME NEW x \in 1..Len(q), x # Len(q)
      PROVE  From(q, x) = <<q[x]>> \o From(q, x + 1)
  <2> DEFINE g == From(q, x)
             h == From(q, x + 1)
  <2>1. x \in 1..Len(q) + 1 /\ x + 1 \in 1..Len(q) + 1 /\ Len(q) - x + 1 \in Nat
        /\ Len(q) - (x + 1) + 1 = Len(q) - x
    BY <1>1, <1>5
  <2>2. g \in Seq(Pool) /\ Len(g) = Len(q) - x + 1
        /\ \A y \in 1..Len(q) - x + 1 : g[y] = q[x + y - 1]
    BY <1>2, <2>1
  <2>3. h \in Seq(Pool) /\ Len(h) = Len(q) - x
        /\ \A y \in 1..Len(q) - x : h[y] = q[(x + 1) + y - 1]
    BY <1>2, <2>1, Zenon
  <2>4. q[x] \in Pool
    OBVIOUS
  <2> DEFINE w == <<q[x]>> \o h
  <2> HIDE DEF g, h
  <2>5. w \in Seq(Pool) /\ Len(w) = Len(h) + 1 /\ w[1] = q[x]
        /\ \A y \in 1..Len(h) : w[y + 1] = h[y]
    BY <2>3, <2>4, PushedOn
  <2> HIDE DEF w
  <2>6. ASSUME NEW y \in 1..Len(q) - x + 1 PROVE g[y] = w[y]
    <3>1. CASE y = 1
      <4>1. x + 1 - 1 = x
        OBVIOUS
      <4> QED BY <2>2, <2>5, <3>1, <4>1
    <3>2. CASE y # 1
      <4>1. y - 1 \in 1..Len(q) - x /\ (x + 1) + (y - 1) - 1 = x + y - 1 /\ (y - 1) + 1 = y
        BY <1>1, <3>2
      <4>2. h[y - 1] = q[x + y - 1] /\ w[y] = h[y - 1]
        BY <2>3, <2>5, <4>1
      <4> QED BY <2>2, <4>2
    <3> QED BY <3>1, <3>2
  <2>7. Len(w) = Len(q) - x + 1
    BY <1>1, <2>3, <2>5
  <2>8. g = w
    BY <2>2, <2>5, <2>6, <2>7
  <2> QED BY <2>8 DEF g, h, w
<1> QED BY <1>3, <1>4, <1>5

\* A walk along the links ends within the pool, and has met the queue.
LEMMA ChainIsTheQueue ==
  ASSUME NEW pl, NEW q \in Seq(Pool), NoRepeats(q),
         \A x \in 1..Len(q) : pl[q[x]].next = NextIn(q, x)
  PROVE  Chain(pl, FirstOf(q), PoolSize + 1) = q
<1> DEFINE n == PoolSize + 1
<1>1. Len(q) \in Nat /\ Len(q) < n /\ n \in Nat
  BY Bounds, AsLongAsThePool
<1>2. PICK f : Walks(pl, n, f) /\ \A i : Chain(pl, i, n) = f[n][i]
  BY <1>1, ChainWalks
<1>3. \A m \in 0..n : f[m][NoOrder] = <<>>
  BY <1>2 DEF Walks
<1>4. ASSUME NEW m \in 0..n, NEW j \in Pool, m # 0
      PROVE  f[m][j] = <<j>> \o f[m - 1][pl[j].next]
  <2> HIDE DEF n
  <2>1. f[m] = [i \in Pool \cup {NoOrder} |->
                  IF i = NoOrder \/ m = 0 THEN <<>> ELSE <<i>> \o f[m - 1][pl[i].next]]
    BY <1>2 DEF Walks
  <2>2. j # NoOrder /\ j \in Pool \cup {NoOrder}
    BY NoOrderIsNoSlot
  <2> QED BY <1>4, <2>1, <2>2
<1> HIDE DEF n
<1> DEFINE Suffix(d) == \A m \in 0..n : m > d => f[m][q[Len(q) - d]] = From(q, Len(q) - d)
           T == {d \in 0..Len(q) - 1 : ~Suffix(d)}
<1>5. T = {}
  <2> SUFFICES ASSUME T # {} PROVE FALSE
    OBVIOUS
  <2>1. PICK d \in T : \A e \in T : d <= e
    <3> HIDE DEF Suffix
    <3>1. T \in SUBSET Nat
      OBVIOUS
    <3> HIDE DEF T
    <3> QED BY <3>1, LeastExists
  <2>2. d \in 0..Len(q) - 1 /\ ~Suffix(d)
    OBVIOUS
  <2> DEFINE x == Len(q) - d
  <2>3. x \in 1..Len(q) /\ q[x] \in Pool
    BY <1>1, <2>2
  <2>4. PICK m \in 0..n : m > d /\ f[m][q[x]] # From(q, x)
    BY <2>2
  <2>5. m # 0 /\ m - 1 \in 0..n
    BY <1>1, <2>2, <2>4
  <2>6. f[m][q[x]] = <<q[x]>> \o f[m - 1][NextIn(q, x)]
    BY <1>4, <2>3, <2>5
  <2>7. CASE d = 0
    <3>1. x = Len(q) /\ q # <<>>
      BY <1>1, <2>3, <2>7
    <3>2. NextIn(q, x) = NoOrder /\ From(q, x) = <<q[x]>>
      BY <3>1, FromFacts DEF NextIn
    <3>3. <<q[x]>> \o <<>> = <<q[x]>>
      OBVIOUS
    <3> QED BY <1>3, <2>4, <2>5, <2>6, <3>2, <3>3
  <2>8. CASE d # 0
    <3>1. d - 1 \in 0..Len(q) - 1 /\ ~(d <= d - 1) /\ m - 1 > d - 1 /\ x # Len(q)
          /\ Len(q) - (d - 1) = x + 1
      BY <1>1, <2>2, <2>4, <2>8
    <3>2. Suffix(d - 1)
      <4> HIDE DEF Suffix
      <4> QED BY <2>1, <3>1
    <3>3. f[m - 1][q[x + 1]] = From(q, x + 1)
      BY <2>5, <3>1, <3>2
    <3>4. NextIn(q, x) = q[x + 1] /\ From(q, x) = <<q[x]>> \o From(q, x + 1)
      BY <2>3, <3>1, FromFacts DEF NextIn
    <3> QED BY <2>4, <2>6, <3>3, <3>4
  <2> QED BY <2>7, <2>8
<1>6. CASE q = <<>>
  BY <1>1, <1>2, <1>3, <1>6 DEF FirstOf, n
<1>7. CASE q # <<>>
  <2> DEFINE d == Len(q) - 1
  <2>1. d \in 0..Len(q) - 1 /\ Len(q) - d = 1 /\ n \in 0..n /\ n > d
    BY <1>1, <1>7
  <2>2. Suffix(d)
    <3> HIDE DEF Suffix, d
    <3> QED BY <1>5, <2>1
  <2>3. f[n][q[1]] = From(q, 1)
    BY <2>1, <2>2
  <2> QED BY <1>2, <1>7, <2>3, FromFacts DEF FirstOf, n
<1> QED BY <1>6, <1>7

----------------------------------------------------------------------------
(* The invariant.                                                          *)

Followers(b, r) ==
  LET o == b.pool[b.index[r]]
      q == Chain(b.pool, LevelAt(b.sides[SideOf(o)], o.price).head, PoolSize + 1)
  IN {b.pool[q[j]].ref : j \in {m \in 1..Len(q) :
                                 \E n \in 1..Len(q) : m < n /\ q[n] = b.index[r]}}

LEMMA QueueIsFollowed ==
  ASSUME NEW b, NEW Q, Linked(b, Q), NEW k \in Keys, NEW p \in Prices
  PROVE  /\ Chain(b.pool, LevelAt(b.sides[k], p).head, PoolSize + 1) = Q[k][p]
         /\ Q[k][p] \in Seq(Pool)
<1> DEFINE q == Q[k][p]
<1>1. QueueOK(b.pool, k, p, q) /\ SideOK(b.sides[k], Q[k])
  BY DEF Linked
<1> HIDE DEF q
<1>2. q \in Seq(Pool) /\ NoRepeats(q) /\ \A x \in 1..Len(q) : b.pool[q[x]].next = NextIn(q, x)
  BY <1>1 DEF QueueOK
<1>3. LevelAt(b.sides[k], p).head = FirstOf(q)
  BY <1>1 DEF SideOK, Ends, q
<1>4. Chain(b.pool, FirstOf(q), PoolSize + 1) = q
  BY <1>2, ChainIsTheQueue
<1> QED BY <1>2, <1>3, <1>4 DEF q

\* The refinement mapping of the model is the view.
LEMMA FollowersAreAhead ==
  ASSUME NEW b, NEW Q, NEW F, Sound(b, Q, F), NEW r \in DOMAIN b.index
  PROVE  Followers(b, r) = AheadIn(b, Q, r)
<1> DEFINE o == b.pool[b.index[r]]
           q == Q[SideOf(o)][o.price]
<1>1. SideOf(o) \in Keys /\ o.price \in Prices
  BY LiveSlot
<1>2. Chain(b.pool, LevelAt(b.sides[SideOf(o)], o.price).head, PoolSize + 1) = q
  BY <1>1, QueueIsFollowed DEF Sound
<1> HIDE DEF q
<1>3. Followers(b, r) =
        {b.pool[q[j]].ref : j \in {m \in 1..Len(q) :
                                    \E n \in 1..Len(q) : m < n /\ q[n] = b.index[r]}}
  BY <1>2, Zenon DEF Followers
<1>4. AheadIn(b, Q, r) = {b.pool[j].ref : j \in Before(q, b.index[r])}
  BY DEF AheadIn, q
<1> QED BY <1>3, <1>4 DEF Before

LEMMA BookIsView ==
  ASSUME NEW Q, NEW F, Sound(Now, Q, F)
  PROVE  /\ Abstract!Book = View(Now, Q) /\ Resting = View(Now, Q).resting
         /\ [r \in DOMAIN index |-> OrdersAhead(r)] = View(Now, Q).ahead
<1>1. Now.index = index /\ Now.pool = pool /\ Now.sides = sides
  BY DEF Now
<1>2. ASSUME NEW r \in DOMAIN index PROVE OrdersAhead(r) = AheadIn(Now, Q, r)
  <2>1. OrdersAhead(r) = Followers(Now, r)
    BY <1>1 DEF OrdersAhead, Followers, Fifo
  <2>2. Followers(Now, r) = AheadIn(Now, Q, r)
    BY <1>1, FollowersAreAhead
  <2> QED BY <2>1, <2>2
<1>3. [r \in DOMAIN index |-> OrdersAhead(r)] = View(Now, Q).ahead
  BY <1>1, <1>2 DEF View
<1>4. Resting = View(Now, Q).resting
  BY <1>1 DEF View, Resting
<1> QED BY <1>3, <1>4 DEF Abstract!Book, View

LEMMA BecomesView ==
  ASSUME NEW c, NEW R, NEW G, Sound(c, R, G), Install(c)
  PROVE  /\ Abstract!Becomes(View(c, R)) /\ Resting' = View(c, R).resting
         /\ [r \in DOMAIN index |-> OrdersAhead(r)]' = View(c, R).ahead
<1>1. index' = c.index /\ pool' = c.pool /\ sides' = c.sides
  BY DEF Install
<1>2. ASSUME NEW r \in DOMAIN c.index PROVE OrdersAhead(r)' = AheadIn(c, R, r)
  <2>1. OrdersAhead(r)' = Followers(c, r)
    BY <1>1 DEF OrdersAhead, Followers, Fifo
  <2>2. Followers(c, r) = AheadIn(c, R, r)
    BY FollowersAreAhead
  <2> QED BY <2>1, <2>2
<1>3. [r \in DOMAIN index |-> OrdersAhead(r)]' = View(c, R).ahead
  BY <1>1, <1>2 DEF View
<1>4. Resting' = View(c, R).resting
  BY <1>1 DEF View, Resting
<1> QED BY <1>3, <1>4 DEF Abstract!Becomes

\* Some queues and some free list account for the whole book, and the symbol
\* checked last has its inside in the window.
IInv == (\E Q, F : Sound(Now, Q, F)) /\ InsideOf(Now)

LEMMA InstalledHolds ==
  ASSUME NEW c, NEW R, NEW G, Sound(c, R, G), InsideOf(c), Install(c)
  PROVE  IInv'
<1>1. Now' = c
  BY DEF Install, Now, Sound, Linked, BookShape
<1> QED BY <1>1 DEF IInv

LEMMA UnusedSideOK ==
  SideOK(UnusedSide, [p \in Prices |-> <<>>])
<1> DEFINE s == UnusedSide
           e == [p \in Prices |-> <<>>]
<1>1. s.base = -1 /\ s.flat = <<>> /\ s.occupied = {} /\ s.overflow = <<>>
      /\ DOMAIN s.flat = {} /\ DOMAIN s.overflow = {}
  BY DEF UnusedSide
<1>2. <<>> \in LevelMaps(Slots) /\ <<>> \in LevelMaps(Prices)
  <2>1. <<>> \in [{} -> LevelRec]
    OBVIOUS
  <2> QED BY <2>1 DEF LevelMaps
<1>3. s \in SideRec
  BY <1>2 DEF UnusedSide, SideRec
<1>4. \A p \in Prices : ~InWindow(s, p)
  BY <1>1 DEF InWindow
<1>5. \A p \in Prices : LevelAt(s, p) = EmptyLevel
  BY <1>1, <1>4 DEF LevelAt
<1>6. Ends(EmptyLevel, <<>>)
  BY EmptyIsLevel DEF Ends, EmptyLevel, FirstOf, LastOf
<1> HIDE DEF s
<1> QED BY <1>1, <1>3, <1>4, <1>5, <1>6 DEF SideOK, s

\* At the start every side is unused and every slot is free.
LEMMA InitHolds == Init => IInv
<1> SUFFICES ASSUME Init PROVE IInv
  OBVIOUS
<1> DEFINE e == [p \in Prices |-> <<>>]
           Q == [k \in Keys |-> e]
           F == [x \in 1..PoolSize |-> x - 1]
<1>1. /\ Now = [index |-> index, pool |-> pool, free |-> free, sides |-> sides, checked |-> checked]
      /\ index = <<>> /\ DOMAIN index = {} /\ sides = [k \in Keys |-> UnusedSide] /\ checked = None
      /\ free = (IF 0 \in Pool THEN 0 ELSE NoOrder)
      /\ pool = [i \in Pool |-> [FreeOrder EXCEPT !.next = IF i + 1 \in Pool THEN i + 1 ELSE NoOrder]]
  BY DEF Init, Now, Keys
<1>2. /\ \A i \in Pool : pool[i].next = (IF i + 1 \in Pool THEN i + 1 ELSE NoOrder)
                         /\ pool[i].locate = None /\ pool[i] \in FastOrder
      /\ pool \in Records
  <2>1. \A i \in Pool : (IF i + 1 \in Pool THEN i + 1 ELSE NoOrder) \in Pool \cup {NoOrder}
    OBVIOUS
  <2>2. FreeOrder \in FastOrder
    BY DEF FreeOrder, FastOrder, Sides
  <2>3. \A i \in Pool : pool[i] = [FreeOrder EXCEPT !.next = IF i + 1 \in Pool THEN i + 1 ELSE NoOrder]
    BY <1>1
  <2>4. ASSUME NEW i \in Pool PROVE pool[i] \in FastOrder
    <3> DEFINE n == IF i + 1 \in Pool THEN i + 1 ELSE NoOrder
    <3>1. pool[i] = [FreeOrder EXCEPT !.next = n] /\ n \in Pool \cup {NoOrder}
      BY <2>1, <2>3
    <3> HIDE DEF n
    <3> QED BY <2>2, <3>1 DEF FastOrder
  <2>5. \A i \in Pool : pool[i].next = (IF i + 1 \in Pool THEN i + 1 ELSE NoOrder)
                         /\ pool[i].locate = None
    BY <2>3 DEF FreeOrder
  <2> QED BY <1>1, <2>4, <2>5 DEF Records
<1>3. e \in Queues /\ Q \in [Keys -> Queues] /\ \A k \in Keys : \A p \in Prices : Q[k][p] = <<>>
  BY DEF Queues
<1>4. Linked(Now, Q)
  <2>1. \A k \in Keys : SideOK(sides[k], Q[k])
    BY <1>1, UnusedSideOK
  <2>2. \A k \in Keys : \A p \in Prices : QueueOK(pool, k, p, <<>>)
    BY DEF QueueOK, NoRepeats
  <2> HIDE DEF Q, e
  <2> QED BY <1>1, <1>2, <1>3, <2>1, <2>2 DEF Linked, BookShape
<1>5. /\ F \in Seq(Pool) /\ Len(F) = PoolSize /\ NoRepeats(F) /\ \A x \in 1..PoolSize : F[x] = x - 1
      /\ PoolSize \in Nat
  <2>1. PoolSize \in Nat /\ \A x \in 1..PoolSize : x - 1 \in Pool
    BY Bounds DEF Pool
  <2>2. F \in Seq(Pool) /\ Len(F) = PoolSize /\ \A x \in 1..PoolSize : F[x] = x - 1
    BY <2>1
  <2> HIDE DEF F
  <2> QED BY <2>1, <2>2 DEF NoRepeats
<1> HIDE DEF F
<1>6. Freed(Now, F)
  <2>1. free = FirstOf(F)
    <3>1. CASE PoolSize = 0
      BY <1>1, <1>5, <3>1 DEF FirstOf, Pool
    <3>2. CASE PoolSize # 0
      <4>1. 0 \in Pool /\ 1 \in 1..PoolSize /\ F # <<>> /\ F[1] = 0
        BY <1>5, <3>2 DEF Pool
      <4> QED BY <1>1, <4>1 DEF FirstOf
    <3> QED BY <3>1, <3>2
  <2>2. ASSUME NEW x \in 1..Len(F)
        PROVE  pool[F[x]].next = NextIn(F, x) /\ pool[F[x]].locate = None
    <3>1. F[x] \in Pool /\ F[x] = x - 1 /\ F[x] + 1 = x /\ x \in Int
      BY <1>5 DEF Pool
    <3>2. pool[F[x]].next = (IF x \in Pool THEN x ELSE NoOrder) /\ pool[F[x]].locate = None
      BY <1>2, <3>1
    <3>3. CASE x = Len(F)
      <4>1. x \notin Pool
        BY <1>5, <3>3 DEF Pool
      <4> QED BY <3>2, <3>3, <4>1 DEF NextIn
    <3>4. CASE x # Len(F)
      <4>1. x \in Pool /\ x + 1 \in 1..PoolSize /\ (x + 1) - 1 = x
        BY <1>5, <3>4 DEF Pool
      <4>2. F[x + 1] = x
        BY <1>5, <4>1
      <4> QED BY <3>2, <3>4, <4>1, <4>2 DEF NextIn
    <3> QED BY <3>3, <3>4
  <2> QED BY <1>1, <1>5, <2>1, <2>2 DEF Freed
<1>7. IndexOK(Now)
  <2>1. IsFiniteSet({}) /\ Cardinality({}) = 0 /\ IndexLimit \in Nat
    BY FS_EmptySet, FastBookAssumption
  <2>2. Cardinality({}) <= IndexLimit
    BY <2>1
  <2> QED BY <1>1, <2>1, <2>2 DEF IndexOK
<1>8. ASSUME NEW i \in Pool PROVE Accounted(Now, Q, F, i)
  <2>1. i + 1 \in 1..Len(F) /\ (i + 1) - 1 = i
    BY <1>5 DEF Pool
  <2>2. F[i + 1] = i
    BY <1>5, <2>1
  <2> QED BY <1>1, <1>2, <2>1, <2>2 DEF Accounted
<1>9. InsideOf(Now)
  <2>1. \A k \in Keys : checked # k[1]
    BY <1>1, NoneIsNoSymbol DEF Keys
  <2> QED BY <1>1, <2>1 DEF InsideOf
<1> HIDE DEF Q
<1> QED BY <1>4, <1>6, <1>7, <1>8, <1>9 DEF IInv, Sound

----------------------------------------------------------------------------
(* The steps: each keeps the invariant and is a step of the abstract book, *)
(* or changes nothing it can see.                                          *)

Simulates == (AbstractStep /\ Abstract!Next) \/ UNCHANGED Abstract!bookVars

LEMMA ArrivalRests ==
  ASSUME NEW v, NEW ref, NEW o
  PROVE  ref \in DOMAIN Abstract!Arrival(v, ref, o).resting
         /\ Abstract!Arrival(v, ref, o).resting[ref] = o
  BY DEF Abstract!Arrival, Abstract!With

LEMMA SameViewStutters ==
  ASSUME NEW Q, NEW F, Sound(Now, Q, F), NEW c, NEW R, NEW G, Sound(c, R, G), Install(c),
         View(c, R) = View(Now, Q)
  PROVE  UNCHANGED Abstract!bookVars
<1>1. Resting' = View(c, R).resting
      /\ [r \in DOMAIN index |-> OrdersAhead(r)]' = View(c, R).ahead
  BY BecomesView
<1>2. Resting = View(Now, Q).resting
      /\ [r \in DOMAIN index |-> OrdersAhead(r)] = View(Now, Q).ahead
  BY BookIsView
<1> QED BY <1>1, <1>2 DEF Abstract!bookVars

LEMMA NewOrderFacts ==
  ASSUME NEW l \in Symbols, NEW ref \in Refs, NEW side \in Sides, NEW price \in Prices,
         NEW shares \in Sizes
  PROVE  LET o == NewOrder(l, ref, side, price, shares)
         IN /\ o \in FastOrder /\ o.ref = ref /\ o.next = NoOrder /\ o.locate # None
            /\ o.price \in Prices
            /\ RestingOrder(o) = [locate |-> l, side |-> side, price |-> price, shares |-> shares]
            /\ RestingOrder(o) \in Abstract!Order
<1>1. shares \in Nat /\ l # None /\ shares \in 1..MaxShares /\ l \in Locates
  BY FastBookAssumption
<1>2. NewOrder(l, ref, side, price, shares) =
        [ref |-> ref, next |-> NoOrder, prev |-> NoOrder, shares |-> shares,
         price |-> price, locate |-> l, side |-> side]
  <2> DEFINE o1 == [FreeOrder EXCEPT !.ref = ref]
             o2 == [o1 EXCEPT !.locate = l]
             o3 == [o2 EXCEPT !.side = side]
             o4 == [o3 EXCEPT !.price = price]
             o5 == [o4 EXCEPT !.shares = shares]
  <2>1. o1 = [ref |-> ref, next |-> NoOrder, prev |-> NoOrder, shares |-> 0,
              price |-> 0, locate |-> None, side |-> "B"]
    BY DEF FreeOrder
  <2> HIDE DEF o1
  <2>2. o2 = [ref |-> ref, next |-> NoOrder, prev |-> NoOrder, shares |-> 0,
              price |-> 0, locate |-> l, side |-> "B"]
    BY <2>1
  <2> HIDE DEF o2
  <2>3. o3 = [ref |-> ref, next |-> NoOrder, prev |-> NoOrder, shares |-> 0,
              price |-> 0, locate |-> l, side |-> side]
    BY <2>2
  <2> HIDE DEF o3
  <2>4. o4 = [ref |-> ref, next |-> NoOrder, prev |-> NoOrder, shares |-> 0,
              price |-> price, locate |-> l, side |-> side]
    BY <2>3
  <2> HIDE DEF o4
  <2>5. o5 = [ref |-> ref, next |-> NoOrder, prev |-> NoOrder, shares |-> shares,
              price |-> price, locate |-> l, side |-> side]
    BY <2>4
  <2> HIDE DEF o5
  <2>6. NewOrder(l, ref, side, price, shares) = o5
    BY DEF NewOrder, o5, o4, o3, o2, o1
  <2> QED BY <2>5, <2>6
<1> QED BY <1>1, <1>2 DEF FastOrder, RestingOrder, Abstract!Order

\* on(AddOrder): an arrival; or, for want of a slot or an entry, nothing.
LEMMA AddOrderStep ==
  ASSUME IInv, NEW l \in Locates, NEW ref \in Refs, NEW side \in Sides, NEW price \in Prices,
         NEW shares \in Sizes, AddOrder(l, ref, side, price, shares)
  PROVE  IInv' /\ Simulates
<1> DEFINE o == NewOrder(l, ref, side, price, shares)
           c == Added(Now, ref, o)
<1>1. PICK Q, F : Sound(Now, Q, F)
  BY DEF IInv
<1>2. InsideOf(Now) /\ Install(c)
  BY DEF IInv, AddOrder
<1>3. CASE l \notin Symbols
  <2>1. c = Now
    BY <1>3 DEF Added, NewOrder, FreeOrder
  <2> HIDE DEF c
  <2>2. IInv' /\ UNCHANGED Abstract!bookVars
    BY <1>1, <1>2, <2>1, InstalledHolds, SameViewStutters
  <2> QED BY <2>2 DEF Simulates
<1>4. CASE l \in Symbols
  <2>1. o \in FastOrder /\ o.ref = ref /\ o.next = NoOrder /\ o.locate # None /\ o.price \in Prices
    BY <1>4, NewOrderFacts
  <2> HIDE DEF o
  <2>2. PICK R, G :
          /\ Sound(c, R, G) /\ (InsideOf(Now) => InsideOf(c))
          /\ \/ View(c, R) = Abstract!Arrival(View(Now, Q), ref, RestingOrder(o))
             \/ View(c, R) = View(Now, Q)
    BY <1>1, <2>1, AddedSound
  <2> HIDE DEF c
  <2>3. IInv'
    BY <1>2, <2>2, InstalledHolds
  <2>4. CASE View(c, R) = View(Now, Q)
    BY <1>1, <1>2, <2>2, <2>3, <2>4, SameViewStutters DEF Simulates
  <2>5. CASE View(c, R) = Abstract!Arrival(View(Now, Q), ref, RestingOrder(o))
    <3>1. Abstract!Becomes(View(c, R)) /\ Resting' = View(c, R).resting
      BY <1>2, <2>2, BecomesView
    <3>2. ref \in DOMAIN Resting' /\ Resting'[ref] = RestingOrder(o)
      BY <2>5, <3>1, ArrivalRests
    <3>3. ref \in DOMAIN index'
      BY <3>2 DEF Resting
    <3>4. Abstract!Enter(ref, Resting'[ref])
      BY <1>1, <2>5, <3>1, <3>2, BookIsView DEF Abstract!Enter
    <3>5. AbstractStep
      BY <3>3, <3>4 DEF AbstractStep
    <3>6. Abstract!Next
      <4>1. RestingOrder(o) \in Abstract!Order
        BY <1>4, NewOrderFacts DEF o
      <4> QED BY <3>2, <3>4, <4>1 DEF Abstract!Next
    <3> QED BY <2>3, <3>5, <3>6 DEF Simulates
  <2> QED BY <2>2, <2>4, <2>5
<1> QED BY <1>3, <1>4

\* check_bbo() at the end of a handler.
LEMMA CheckedLast ==
  ASSUME NEW b, NEW Q, NEW F, Sound(b, Q, F), NEW l, Install(Checked(b, l))
  PROVE  IInv' /\ \E R, G : Sound(Checked(b, l), R, G) /\ View(Checked(b, l), R) = View(b, Q)
<1> DEFINE c == Checked(b, l)
<1>1. Sound(c, Q, F) /\ View(c, Q) = View(b, Q) /\ InsideOf(c)
  BY CheckedSound
<1> HIDE DEF c
<1>2. IInv'
  BY <1>1, InstalledHolds DEF c
<1> QED BY <1>1, <1>2 DEF c

\* on(OrderExecuted), on(OrderExecutedPrice), on(OrderCancel).
LEMMA ReduceOrderStep ==
  ASSUME IInv, NEW l \in Locates, NEW ref \in Refs, NEW qty \in 1..MaxShares,
         ReduceOrder(l, ref, qty)
  PROVE  IInv' /\ Simulates
<1>1. PICK Q, F : Sound(Now, Q, F)
  BY DEF IInv
<1>2. CASE ref \notin DOMAIN index
  <2>1. Install(Checked(Now, l))
    BY <1>2 DEF ReduceOrder
  <2>2. IInv' /\ \E R, G : Sound(Checked(Now, l), R, G) /\ View(Checked(Now, l), R) = View(Now, Q)
    BY <1>1, <2>1, CheckedLast
  <2>3. UNCHANGED Abstract!bookVars
    BY <1>1, <2>1, <2>2, SameViewStutters
  <2> QED BY <2>2, <2>3 DEF Simulates
<1>3. CASE ref \in DOMAIN index
  <2> DEFINE d == Reduced(Now, ref, qty)
             c == Checked(d, l)
             v == View(Now, Q)
  <2>1. Install(c) /\ ref \in DOMAIN Now.index /\ qty \in Nat
    BY <1>3, FastBookAssumption DEF ReduceOrder, Now
  <2>2. PICK R, G :
          /\ Sound(d, R, G)
          /\ View(d, R) = IF qty < v.resting[ref].shares
                          THEN [resting |-> [v.resting EXCEPT ![ref].shares = @ - qty],
                                ahead |-> v.ahead]
                          ELSE Abstract!Without(v, ref)
    BY <1>1, <2>1, ReducedSound
  <2>3. IInv' /\ \E P, E : Sound(c, P, E) /\ View(c, P) = View(d, R)
    <3> HIDE DEF d
    <3> QED BY <2>1, <2>2, CheckedLast
  <2>4. PICK P, E : Sound(c, P, E) /\ View(c, P) = View(d, R)
    BY <2>3
  <2> HIDE DEF c, d, v
  <2>5. Abstract!Becomes(View(d, R))
    BY <2>1, <2>4, BecomesView
  <2>6. Abstract!Book = v /\ Resting = v.resting
        /\ [r \in DOMAIN index |-> OrdersAhead(r)] = v.ahead
    BY <1>1, BookIsView DEF v
  <2>7. ref \in DOMAIN Resting
    BY <1>3 DEF Resting
  <2>8. Abstract!Reduce(ref, qty)
    <3>1. CASE qty < v.resting[ref].shares
      BY <2>2, <2>5, <2>6, <2>7, <3>1 DEF Abstract!Reduce, Abstract!Becomes
    <3>2. CASE ~(qty < v.resting[ref].shares)
      BY <2>2, <2>5, <2>6, <2>7, <3>2 DEF Abstract!Reduce
    <3> QED BY <3>1, <3>2
  <2> QED BY <1>3, <2>3, <2>8 DEF Simulates, AbstractStep, Abstract!Next
<1> QED BY <1>2, <1>3

\* on(OrderDelete)
LEMMA DeleteOrderStep ==
  ASSUME IInv, NEW l \in Locates, NEW ref \in Refs, DeleteOrder(l, ref)
  PROVE  IInv' /\ Simulates
<1> DEFINE d == Erased(Now, ref)
           c == Checked(d, l)
<1>1. PICK Q, F : Sound(Now, Q, F)
  BY DEF IInv
<1>2. ref \in DOMAIN index /\ ref \in DOMAIN Now.index /\ Install(c)
  BY DEF DeleteOrder, Now
<1>3. PICK R, G : Sound(d, R, G) /\ View(d, R) = Abstract!Without(View(Now, Q), ref)
  BY <1>1, <1>2, ErasedSound
<1>4. IInv' /\ \E P, E : Sound(c, P, E) /\ View(c, P) = View(d, R)
  <2> HIDE DEF d
  <2> QED BY <1>2, <1>3, CheckedLast
<1>5. PICK P, E : Sound(c, P, E) /\ View(c, P) = View(d, R)
  BY <1>4
<1> HIDE DEF c, d
<1>6. Abstract!Becomes(Abstract!Without(View(Now, Q), ref))
  BY <1>2, <1>3, <1>5, BecomesView
<1>7. Abstract!Leave(ref)
  BY <1>1, <1>2, <1>6, BookIsView DEF Abstract!Leave, Resting
<1> QED BY <1>2, <1>4, <1>7 DEF Simulates, AbstractStep, Abstract!Next

\* on(OrderReplace): the old order's slot and entry make room for the new one, so
\* that a replace never fails.
LEMMA ReplaceOrderStep ==
  ASSUME IInv, NEW old \in Refs, NEW new \in Refs, NEW price \in Prices, NEW shares \in Sizes,
         ReplaceOrder(old, new, price, shares)
  PROVE  IInv' /\ Simulates
<1> DEFINE u == pool[index[old]]
           d == Erased(Now, old)
           o == NewOrder(u.locate, new, u.side, price, shares)
           a == Added(d, new, o)
           c == Checked(a, u.locate)
<1>1. PICK Q, F : Sound(Now, Q, F)
  BY DEF IInv
<1>2. old \in DOMAIN index /\ old \in DOMAIN Now.index /\ Install(c)
      /\ Now.pool = pool /\ Now.index = index
  BY DEF ReplaceOrder, Now
<1>3. PICK P, E : /\ Sound(d, P, E) /\ E # <<>> /\ ~IndexFull(d)
                  /\ View(d, P) = Abstract!Without(View(Now, Q), old)
  BY <1>1, <1>2, ErasedSound
<1>4. u.locate \in Symbols /\ u.side \in Sides
  <2>1. SideOf(u) \in Keys
    BY <1>1, <1>2, LiveSlot
  <2> QED BY <2>1 DEF SideOf, Keys
<1> HIDE DEF u, d
<1>5. /\ o \in FastOrder /\ o.ref = new /\ o.next = NoOrder /\ o.locate # None /\ o.price \in Prices
      /\ RestingOrder(o) = [locate |-> u.locate, side |-> u.side, price |-> price, shares |-> shares]
  BY <1>4, NewOrderFacts
<1> HIDE DEF o
<1>6. PICK R, G : Sound(a, R, G) /\ View(a, R) = Abstract!Arrival(View(d, P), new, RestingOrder(o))
  BY <1>3, <1>5, AddedSound DEF HasRoom
<1>7. IInv' /\ \E S, H : Sound(c, S, H) /\ View(c, S) = View(a, R)
  <2> HIDE DEF a
  <2> QED BY <1>2, <1>6, CheckedLast DEF o, u, d
<1>8. PICK S, H : Sound(c, S, H) /\ View(c, S) = View(a, R)
  BY <1>7
<1> HIDE DEF a, c
<1>9. Abstract!Becomes(View(a, R)) /\ Resting' = View(a, R).resting
  <2>1. Abstract!Becomes(View(c, S)) /\ Resting' = View(c, S).resting
    BY <1>2, <1>8, BecomesView
  <2> QED BY <1>8, <2>1
<1>10. new \in DOMAIN Resting' /\ Resting'[new] = RestingOrder(o)
  BY <1>6, <1>9, ArrivalRests
<1>11. new \in DOMAIN index'
  BY <1>10 DEF Resting
<1>12. Resting'[new].price = price /\ Resting'[new].shares = shares
  BY <1>5, <1>10
<1>13. Abstract!Book = View(Now, Q)
  BY <1>1, BookIsView
<1>14. old \in DOMAIN Resting /\ [Resting[old] EXCEPT !.price = price, !.shares = shares] = RestingOrder(o)
  <2>1. old \in DOMAIN Resting
        /\ Resting[old] = [locate |-> u.locate, side |-> u.side, price |-> u.price, shares |-> u.shares]
    BY <1>2 DEF Resting, RestingOrder, u
  <2> DEFINE w == Resting[old]
             x == [w EXCEPT !.price = price]
             y == [x EXCEPT !.shares = shares]
  <2>2. w = [locate |-> u.locate, side |-> u.side, price |-> u.price, shares |-> u.shares]
    BY <2>1
  <2> HIDE DEF w
  <2>3. x = [locate |-> u.locate, side |-> u.side, price |-> price, shares |-> u.shares]
    BY <2>2
  <2> HIDE DEF x
  <2>4. y = [locate |-> u.locate, side |-> u.side, price |-> price, shares |-> shares]
    BY <2>3
  <2> HIDE DEF y
  <2>5. [Resting[old] EXCEPT !.price = price, !.shares = shares] = y
    BY DEF w, x, y
  <2> QED BY <1>5, <2>1, <2>4, <2>5
<1>15. Abstract!Replace(old, new, Resting'[new].price, Resting'[new].shares)
  BY <1>3, <1>6, <1>9, <1>12, <1>13, <1>14 DEF Abstract!Replace
<1>16. AbstractStep
  BY <1>2, <1>11, <1>15 DEF AbstractStep
<1>17. Abstract!Next
  <2>1. Abstract!Replace(old, new, price, shares) /\ shares \in 1..MaxShares
    BY <1>12, <1>15, FastBookAssumption
  <2> QED BY <2>1 DEF Abstract!Next
<1> QED BY <1>7, <1>16, <1>17 DEF Simulates

LEMMA StepHolds == IInv /\ [Next]_vars => IInv' /\ Simulates
<1> SUFFICES ASSUME IInv, [Next]_vars PROVE IInv' /\ Simulates
  OBVIOUS
<1>1. ASSUME NEW l \in Locates, NEW ref \in Refs, NEW side \in Sides, NEW price \in Prices,
             NEW shares \in Sizes, AddOrder(l, ref, side, price, shares)
      PROVE  IInv' /\ Simulates
  BY <1>1, AddOrderStep
<1>2. ASSUME NEW l \in Locates, NEW ref \in Refs, NEW qty \in 1..MaxShares, ReduceOrder(l, ref, qty)
      PROVE  IInv' /\ Simulates
  BY <1>2, ReduceOrderStep
<1>3. ASSUME NEW l \in Locates, NEW ref \in Refs, DeleteOrder(l, ref)
      PROVE  IInv' /\ Simulates
  BY <1>3, DeleteOrderStep
<1>4. ASSUME NEW old \in Refs, NEW new \in Refs, NEW price \in Prices, NEW shares \in Sizes,
             ReplaceOrder(old, new, price, shares)
      PROVE  IInv' /\ Simulates
  BY <1>4, ReplaceOrderStep
<1>5. CASE UNCHANGED vars
  <2>1. Install(Now)
    BY <1>5 DEF vars, Install, Now
  <2>2. PICK Q, F : Sound(Now, Q, F)
    BY DEF IInv
  <2>3. IInv' /\ UNCHANGED Abstract!bookVars
    BY <2>1, <2>2, InstalledHolds, SameViewStutters DEF IInv
  <2> QED BY <2>3 DEF Simulates
<1> QED BY <1>1, <1>2, <1>3, <1>4, <1>5 DEF Next

\* The inductive invariant, for every feed: pool, links, levels, windows, index
\* and free list of fast_book.hpp represent some queues and some free list.
THEOREM BookIsSound == Spec => []IInv
BY InitHolds, StepHolds, PTL DEF Spec

LEMMA NumberOfEntries ==
  ASSUME NEW q \in Seq(Pool), NoRepeats(q)
  PROVE  LET S == {q[x] : x \in 1..Len(q)}
         IN IsFiniteSet(S) /\ Cardinality(S) = Len(q)
<1> DEFINE S == {q[x] : x \in 1..Len(q)}
<1>1. Len(q) \in Nat
  OBVIOUS
<1>2. q \in Bijection(1..Len(q), S)
  <2>1. q \in [1..Len(q) -> S]
    OBVIOUS
  <2> QED BY <2>1 DEF Bijection, Injection, IsInjective, Surjection, NoRepeats
<1>3. ExistsBijection(1..Len(q), S)
  BY <1>2 DEF ExistsBijection
<1> HIDE DEF S
<1>4. IsFiniteSet(1..Len(q)) /\ Cardinality(1..Len(q)) = Len(q)
  <2> DEFINE n == Len(q)
  <2>1. n \in Nat /\ n \in Int /\ 1 \in Int
    BY <1>1
  <2> HIDE DEF n
  <2>2. IsFiniteSet(1..n) /\ Cardinality(1..n) = IF 1 > n THEN 0 ELSE n - 1 + 1
    BY ONLY <2>1, FS_Interval
  <2>3. Cardinality(1..n) = n
    BY ONLY <2>1, <2>2
  <2> QED BY <2>2, <2>3 DEF n
<1>5. IsFiniteSet(S) /\ Cardinality(S) = Len(q)
  BY <1>3, <1>4, FS_Bijection
<1> QED BY <1>5, Zenon DEF S

LEMMA NumberOfLive ==
  ASSUME NEW b, NEW Q, NEW F, Sound(b, Q, F)
  PROVE  LET S == {b.index[r] : r \in DOMAIN b.index}
         IN IsFiniteSet(S) /\ Cardinality(S) = Cardinality(DOMAIN b.index)
<1> DEFINE f == [r \in DOMAIN b.index |-> b.index[r]]
           S == {b.index[r] : r \in DOMAIN b.index}
<1>1. IsFiniteSet(DOMAIN b.index) /\ \A r \in DOMAIN b.index : b.pool[b.index[r]].ref = r
  BY DEF Sound, IndexOK
<1>2. f \in Bijection(DOMAIN b.index, S)
  <2>1. f \in [DOMAIN b.index -> S]
    OBVIOUS
  <2> QED BY <1>1, <2>1 DEF Bijection, Injection, IsInjective, Surjection
<1>3. ExistsBijection(DOMAIN b.index, S)
  BY <1>2 DEF ExistsBijection
<1> HIDE DEF S
<1>4. IsFiniteSet(S) /\ Cardinality(S) = Cardinality(DOMAIN b.index)
  BY <1>1, <1>3, FS_Bijection
<1> QED BY <1>4 DEF S

\* Free list and index share out the pool.
LEMMA SlotsCounted ==
  ASSUME NEW b, NEW Q, NEW F, Sound(b, Q, F)
  PROVE  /\ Chain(b.pool, b.free, PoolSize + 1) = F
         /\ {F[x] : x \in 1..Len(F)} \cup {b.index[r] : r \in DOMAIN b.index} = Pool
         /\ Len(F) + Cardinality(DOMAIN b.index) = PoolSize
         /\ Len(F) \in Nat /\ Cardinality(DOMAIN b.index) \in Nat
         /\ \A r \in DOMAIN b.index : b.pool[b.index[r]].ref = r
<1> DEFINE G == {F[x] : x \in 1..Len(F)}
           live == {b.index[r] : r \in DOMAIN b.index}
<1>1. /\ F \in Seq(Pool) /\ NoRepeats(F) /\ b.free = FirstOf(F)
      /\ \A x \in 1..Len(F) : b.pool[F[x]].next = NextIn(F, x) /\ b.pool[F[x]].locate = None
  BY DEF Sound, Freed
<1>2. Chain(b.pool, b.free, PoolSize + 1) = F
  BY <1>1, ChainIsTheQueue
<1>3. \A r \in DOMAIN b.index : b.index[r] \in Pool /\ b.pool[b.index[r]].ref = r
                                /\ b.pool[b.index[r]].locate # None
  BY DEF Sound, IndexOK
<1>4. G \cup live = Pool
  <2>1. ASSUME NEW i \in Pool PROVE i \in G \cup live
    BY DEF Sound, Accounted
  <2>2. G \subseteq Pool /\ live \subseteq Pool
    BY <1>1, <1>3
  <2> QED BY <2>1, <2>2
<1>5. G \cap live = {}
  BY <1>1, <1>3
<1>6. IsFiniteSet(G) /\ Cardinality(G) = Len(F) /\ Len(F) \in Nat
  BY <1>1, NumberOfEntries, AsLongAsThePool
<1>7. IsFiniteSet(live) /\ Cardinality(live) = Cardinality(DOMAIN b.index)
      /\ Cardinality(live) \in Nat
  <2>1. IsFiniteSet(live) /\ Cardinality(live) = Cardinality(DOMAIN b.index)
    BY NumberOfLive
  <2> HIDE DEF live
  <2> QED BY <2>1, FS_CardinalityType
<1>8. Cardinality(Pool) = PoolSize /\ PoolSize \in Nat
  <2>1. PoolSize \in Nat /\ 0 \in Int /\ PoolSize - 1 \in Int
    BY Bounds
  <2>2. Cardinality(0..PoolSize - 1) = IF 0 > PoolSize - 1 THEN 0 ELSE (PoolSize - 1) - 0 + 1
    BY <2>1, FS_Interval
  <2> QED BY <2>1, <2>2 DEF Pool
<1> HIDE DEF G, live
<1>9. Len(F) + Cardinality(DOMAIN b.index) = PoolSize
  <2>1. Cardinality(G \cup live) = Cardinality(G) + Cardinality(live) - Cardinality(G \cap live)
    BY <1>6, <1>7, FS_Union
  <2>2. Cardinality(G \cap live) = 0
    BY <1>5, FS_EmptySet
  <2>3. PoolSize = Cardinality(G) + Cardinality(live) - 0
    BY <1>4, <1>8, <2>1, <2>2
  <2>4. Cardinality(G) = Len(F) /\ Cardinality(live) = Cardinality(DOMAIN b.index)
        /\ Len(F) \in Nat /\ Cardinality(live) \in Nat
    BY <1>6, <1>7
  <2> QED BY <2>3, <2>4
<1> QED BY <1>2, <1>3, <1>4, <1>6, <1>7, <1>9, Zenon DEF G, live

LEMMA SlotsFromInvariant == IInv => SlotsAccountedFor
<1> SUFFICES ASSUME NEW Q, NEW F, Sound(Now, Q, F) PROVE SlotsAccountedFor
  BY DEF IInv
<1>1. Now.index = index /\ Now.pool = pool /\ Now.free = free
  BY DEF Now
<1> QED BY <1>1, SlotsCounted DEF SlotsAccountedFor

\* The live prices of a side, by its queues and by the index.
LEMMA LivePricesIndexed ==
  ASSUME NEW b, NEW Q, NEW F, Sound(b, Q, F), NEW k \in Keys
  PROVE  {b.pool[b.index[r]].price : r \in {x \in DOMAIN b.index : SideOf(b.pool[b.index[x]]) = k}}
           = PricesIn(Q[k])
<1>1. ASSUME NEW r \in DOMAIN b.index, SideOf(b.pool[b.index[r]]) = k
      PROVE  b.pool[b.index[r]].price \in PricesIn(Q[k])
  <2> DEFINE p == b.pool[b.index[r]].price
  <2>1. p \in Prices /\ \E x \in 1..Len(Q[k][p]) : Q[k][p][x] = b.index[r]
    <3> DEFINE s == SideOf(b.pool[b.index[r]])
    <3>1. r \in DOMAIN b.index /\ s = k
      BY <1>1
    <3>2. p \in Prices /\ \E x \in 1..Len(Q[s][p]) : Q[s][p][x] = b.index[r]
      BY SMTT(30), LiveSlot
    <3> HIDE DEF s, p
    <3> QED BY <3>1, <3>2
  <2> HIDE DEF p
  <2>2. Q[k][p] # <<>>
    BY <2>1
  <2> QED BY <2>1, <2>2 DEF PricesIn, p
<1>2. ASSUME NEW p \in PricesIn(Q[k])
      PROVE  \E r \in DOMAIN b.index : SideOf(b.pool[b.index[r]]) = k /\ b.pool[b.index[r]].price = p
  <2>1. p \in Prices /\ Q[k][p] # <<>>
    BY DEF PricesIn
  <2>2. Q[k][p] \in Seq(Pool)
    BY <2>1, QueueIsFollowed DEF Sound
  <2>3. 1 \in 1..Len(Q[k][p])
    BY <2>1, <2>2, QueuePlaces
  <2> DEFINE i == Q[k][p][1]
  <2>4. /\ SideOf(b.pool[i]) = k /\ b.pool[i].price = p
        /\ b.pool[i].ref \in DOMAIN b.index /\ b.index[b.pool[i].ref] = i
    BY <2>1, <2>3, QueuedIsLive
  <2> QED BY <2>4
<1> QED BY <1>1, <1>2

LEMMA BestFromInvariant == IInv => BestIsBest /\ InsideIsInWindow
<1> SUFFICES ASSUME NEW Q, NEW F, Sound(Now, Q, F), InsideOf(Now) PROVE BestIsBest /\ InsideIsInWindow
  BY DEF IInv
<1>1. Now.index = index /\ Now.pool = pool /\ Now.sides = sides /\ Now.checked = checked
      /\ DOMAIN sides = Keys
  BY DEF Now, Sound, Linked
<1>2. ASSUME NEW k \in Keys
      PROVE  LET live == {pool[index[r]].price : r \in {x \in DOMAIN index : SideOf(pool[index[x]]) = k}}
             IN /\ HasBest(sides[k]) <=> live # {}
                /\ live # {} => Best(sides[k], k[2]) = Extreme(k[2], live)
  <2>1. Q[k] \in Queues /\ SideOK(sides[k], Q[k])
    BY <1>1 DEF Sound, Linked
  <2>2. /\ HasBest(sides[k]) <=> PricesIn(Q[k]) # {}
        /\ Best(sides[k], k[2]) = Extreme(k[2], PricesIn(Q[k]))
    BY <2>1, BestIsExtreme
  <2>3. {pool[index[r]].price : r \in {x \in DOMAIN index : SideOf(pool[index[x]]) = k}}
          = PricesIn(Q[k])
    BY <1>1, LivePricesIndexed
  <2> QED BY <2>2, <2>3
<1>3. BestIsBest
  BY <1>1, <1>2 DEF BestIsBest
<1>4. InsideIsInWindow
  BY <1>1 DEF InsideOf, InsideHeld, InsideIsInWindow
<1> QED BY <1>3, <1>4

LEMMA LevelsFromInvariant == IInv => LevelsAreSound
<1> SUFFICES ASSUME NEW Q, NEW F, Sound(Now, Q, F) PROVE LevelsAreSound
  BY DEF IInv
<1>1. Now.pool = pool /\ Now.sides = sides /\ DOMAIN sides = Keys
  BY DEF Now, Sound, Linked
<1>2. ASSUME NEW k \in Keys, NEW p \in Prices PROVE LinksAreSound(LevelAt(sides[k], p))
  <2> DEFINE lvl == LevelAt(sides[k], p)
             q == Q[k][p]
  <2>1. Ends(lvl, q) /\ QueueOK(pool, k, p, q)
    BY <1>1 DEF Sound, Linked, SideOK
  <2>2. Fifo(lvl) = q
    BY <1>1, QueueIsFollowed DEF Sound, Fifo
  <2> HIDE DEF lvl, q
  <2>3. LinksAreSound(lvl)
    BY <2>1, <2>2 DEF LinksAreSound, Ends, QueueOK, LastOf, PrevIn
  <2> QED BY <2>3 DEF lvl
<1>3. ASSUME NEW k \in Keys
      PROVE  LET s == sides[k]
             IN /\ s.occupied = {i \in DOMAIN s.flat : s.flat[i].orders > 0}
                /\ \A p \in DOMAIN s.overflow : s.overflow[p].orders > 0 /\ ~InWindow(s, p)
                /\ \A e \in LevelsOf(k) : LinksAreSound(e.level)
  <2> DEFINE s == sides[k]
             e == Q[k]
  <2>1. SideOK(s, e) /\ s \in SideRec /\ e \in Queues
    BY <1>1 DEF Sound, Linked, SideOK
  <2>2. \A p \in Prices : LinksAreSound(LevelAt(s, p))
    BY <1>2
  <2> HIDE DEF s, e
  <2>3. /\ s.occupied \subseteq Slots /\ DOMAIN s.flat \subseteq Slots
        /\ DOMAIN s.overflow \subseteq Prices
    BY <2>1, LevelMapsFacts DEF SideRec
  <2>4. \A p \in Prices : /\ Ends(LevelAt(s, p), e[p])
                          /\ (LevelAt(s, p).orders > 0 <=> e[p] # <<>>)
    <3>1. ASSUME NEW p \in Prices
          PROVE  Ends(LevelAt(s, p), e[p]) /\ (LevelAt(s, p).orders > 0 <=> e[p] # <<>>)
      <4>1. Ends(LevelAt(s, p), e[p]) /\ e[p] \in Seq(Pool)
        BY <2>1 DEF SideOK, Queues
      <4>2. LevelAt(s, p).orders = Len(e[p])
        BY <4>1 DEF Ends
      <4>3. Len(e[p]) > 0 <=> e[p] # <<>>
        BY <4>1
      <4> QED BY <4>1, <4>2, <4>3
    <3> QED BY <3>1
  <2>5. ASSUME NEW i \in s.occupied \cup DOMAIN s.flat
        PROVE  /\ i \in s.occupied <=> i \in DOMAIN s.flat /\ s.flat[i].orders > 0
               /\ i \in DOMAIN s.flat => LinksAreSound(s.flat[i])
    <3>1. PICK p \in Prices : InWindow(s, p) /\ Offset(s, p) = i
      BY <2>1 DEF SideOK
    <3>2. LevelAt(s, p) = (IF i \in DOMAIN s.flat THEN s.flat[i] ELSE EmptyLevel)
      BY <3>1 DEF LevelAt, FlatLevel
    <3>3. i \in s.occupied <=> LevelAt(s, p).orders > 0
      BY <2>1, <2>4, <3>1 DEF SideOK
    <3>4. ~(EmptyLevel.orders > 0)
      BY DEF EmptyLevel
    <3> QED BY <2>2, <3>2, <3>3, <3>4
  <2>6. s.occupied = {i \in DOMAIN s.flat : s.flat[i].orders > 0}
    BY <2>5
  <2>7. ASSUME NEW p \in DOMAIN s.overflow
        PROVE  s.overflow[p].orders > 0 /\ ~InWindow(s, p) /\ LinksAreSound(s.overflow[p])
    <3>1. p \in Prices /\ e[p] # <<>> /\ ~InWindow(s, p)
      BY <2>1, <2>3 DEF SideOK
    <3>2. LevelAt(s, p) = s.overflow[p]
      BY <3>1 DEF LevelAt
    <3> QED BY <2>2, <2>4, <3>1, <3>2
  <2>8. \A x \in LevelsOf(k) : LinksAreSound(x.level)
    <3>1. \A x \in LevelsOf(k) : \/ \E i \in DOMAIN s.flat : x.level = s.flat[i]
                                 \/ \E p \in DOMAIN s.overflow : x.level = s.overflow[p]
      BY DEF LevelsOf, s
    <3> QED BY <2>5, <2>7, <3>1
  <2> QED BY <2>6, <2>7, <2>8 DEF s
<1> QED BY <1>1, <1>3 DEF LevelsAreSound

\* Whatever is added, reduced, unlinked, rolled back or moved by a recentring,
\* every level's count, ends and back links are those of the queue its forward
\* links describe, a bit is set exactly when its level has orders, and no price
\* has a home on both sides of its window's edge (level_for, unlink,
\* maybe_recenter; check_invariants and walk_level, LevelsAreSound).
THEOREM EveryLevelIsItsQueue == Spec => []LevelsAreSound
BY BookIsSound, LevelsFromInvariant, PTL

\* No slot of the pool is leaked or used twice, failed adds included: every slot
\* is on the free list or holds the one live order whose reference leads to it
\* (alloc, release and the rollback of add(), SlotsAccountedFor).
THEOREM NoSlotIsLost == Spec => []SlotsAccountedFor
BY BookIsSound, SlotsFromInvariant, PTL

\* best() finds the best price among the live orders, in the window or outside,
\* and after every check_bbo() the inside of the symbol is in its window, for
\* every width of the window (maybe_recenter and its clipping at zero,
\* InsideIsRight).
THEOREM TheInsideIsRight == Spec => []InsideIsRight
<1>1. IInv => InsideIsRight
  BY BestFromInvariant DEF InsideIsRight
<1> QED BY <1>1, BookIsSound, PTL

LEMMA InitOfTheBook == Init => Abstract!Init
<1> SUFFICES ASSUME Init PROVE Abstract!Init
  OBVIOUS
<1>1. DOMAIN index = {}
  BY DEF Init
<1> QED BY <1>1 DEF Abstract!Init, Resting

\* FastBook implements OrderBook, for every feed: every message does to the live
\* orders and their places in the queues what the abstract book promises, and an
\* add there is no room for does nothing (ImplementsOrderBook).
THEOREM FastBookIsAnOrderBook == Spec => ImplementsOrderBook
<1>1. IInv /\ [Next]_vars => [AbstractStep]_Abstract!bookVars
  BY StepHolds DEF Simulates
<1> QED BY <1>1, InitOfTheBook, BookIsSound, PTL DEF Spec, ImplementsOrderBook

(* The theorems about OrderBook, for this instance of it.                  *)

Promise == INSTANCE OrderBookProofs WITH
  resting <- Resting, ahead <- [r \in DOMAIN index |-> OrdersAhead(r)]

\* The two instances of OrderBook are the same specification.
LEMMA PromiseIsAbstract ==
  /\ Abstract!Init => Promise!Init
  /\ [Abstract!Next]_Abstract!bookVars => [Promise!Next]_Promise!bookVars
  /\ [Promise!OvertakesNobody]_Promise!bookVars => [Abstract!OvertakesNobody]_Abstract!bookVars
  /\ Promise!PriorityIsTotal => Abstract!PriorityIsTotal
  /\ Promise!PriorityIsTransitive => Abstract!PriorityIsTransitive
<1>1. Abstract!Init => Promise!Init
  BY DEF Abstract!Init, Promise!Init
<1>2. Abstract!Next <=> Promise!Next
  BY DEF Abstract!Next, Promise!Next, Abstract!Enter, Promise!Enter,
         Abstract!Reduce, Promise!Reduce, Abstract!Leave, Promise!Leave,
         Abstract!Replace, Promise!Replace, Abstract!Becomes, Promise!Becomes,
         Abstract!Book, Promise!Book, Abstract!Arrival, Promise!Arrival,
         Abstract!With, Promise!With, Abstract!Without, Promise!Without,
         Abstract!SamePlace, Promise!SamePlace, Abstract!Order, Promise!Order
<1>3. Abstract!bookVars = Promise!bookVars /\ Abstract!bookVars' = Promise!bookVars'
  BY DEF Abstract!bookVars, Promise!bookVars
<1>4. Abstract!OvertakesNobody <=> Promise!OvertakesNobody
  BY DEF Abstract!OvertakesNobody, Promise!OvertakesNobody
<1>5. Promise!PriorityIsTotal => Abstract!PriorityIsTotal
  BY DEF Promise!PriorityIsTotal, Abstract!PriorityIsTotal,
         Promise!SamePlace, Abstract!SamePlace
<1>6. Promise!PriorityIsTransitive => Abstract!PriorityIsTransitive
  BY DEF Promise!PriorityIsTransitive, Abstract!PriorityIsTransitive
<1> QED BY <1>1, <1>2, <1>3, <1>4, <1>5, <1>6

\* The linked queues of the fast book are price-time priority: the positions
\* they give are a strict total order at each price, and no message, duplicates,
\* replaces and moving windows included, puts anybody ahead of an order that
\* stays (fast_book.hpp, add and unlink, whose links the positions are read off).
THEOREM PositionsAreKept ==
  Spec => /\ [](Abstract!PriorityIsTotal /\ Abstract!PriorityIsTransitive)
          /\ Abstract!NobodyIsOvertaken
<1>1. IInv /\ [Next]_vars => [Abstract!Next]_Abstract!bookVars
  BY StepHolds DEF Simulates
<1>2. Promise!Spec => Promise!NobodyIsOvertaken
  BY Promise!NoOvertaking
<1>3. Promise!Spec =>
        [](Promise!BookTypeOK /\ Promise!PriorityIsTotal /\ Promise!PriorityIsTransitive)
  BY FastBookAssumption, Promise!Priority
<1> QED
  BY <1>1, <1>2, <1>3, InitOfTheBook, BookIsSound, PromiseIsAbstract, PTL
     DEF Spec, Abstract!NobodyIsOvertaken, Promise!Spec, Promise!NobodyIsOvertaken

----------------------------------------------------------------------------
(* The shares of a level, which are compared with the sum over the orders   *)
(* the index finds at its place, levels without orders included.            *)

LevelShares(b, k, p) == LevelAt(b.sides[k], p).shares

\* What becomes of the shares of all levels but one.
SharesElsewhere(c, b, k, p) ==
  \A j \in Keys : \A r \in Prices : j # k \/ r # p => LevelShares(c, j, r) = LevelShares(b, j, r)

\* A level's side is written, and no other.
LEMMA OtherSides ==
  ASSUME NEW b, NEW Q, Linked(b, Q), NEW k \in Keys, NEW p \in Prices,
         NEW c, NEW t, c.sides = [b.sides EXCEPT ![k] = t],
         \A r \in Prices \ {p} : LevelAt(t, r).shares = LevelAt(b.sides[k], r).shares
  PROVE  SharesElsewhere(c, b, k, p) /\ LevelShares(c, k, p) = LevelAt(t, p).shares
<1>1. c.sides[k] = t /\ \A j \in Keys \ {k} : c.sides[j] = b.sides[j]
  BY DEF Linked
<1> QED BY <1>1 DEF SharesElsewhere, LevelShares

LEMMA DeductedShares ==
  ASSUME NEW b, NEW Q, Linked(b, Q), NEW k \in Keys, NEW p \in Prices, NEW x \in 1..Len(Q[k][p]),
         NEW qty \in Nat
  PROVE  LET c == Deducted(b, Q[k][p][x], qty)
         IN SharesElsewhere(c, b, k, p) /\ LevelShares(c, k, p) = LevelShares(b, k, p) - qty
<1> DEFINE i == Q[k][p][x]
           c == Deducted(b, i, qty)
           s == b.sides[k]
           lvl == [LevelAt(s, p) EXCEPT !.shares = @ - qty]
           t == PutLevel(s, p, lvl)
           pl == [b.pool EXCEPT ![i].shares = @ - qty]
<1>1. /\ SideOf(b.pool[i]) = k /\ b.pool[i].price = p /\ HasLevel(s, p)
      /\ s \in SideRec /\ LevelAt(s, p) \in LevelRec
  BY InQueue DEF SideOK, Ends
<1>2. c = [b EXCEPT !.pool = pl, !.sides = [b.sides EXCEPT ![k] = t]]
  BY <1>1 DEF Deducted, Linked, BookShape
<1>3. lvl \in LevelRec /\ lvl.shares = LevelAt(s, p).shares - qty
  BY <1>1 DEF LevelRec
<1> HIDE DEF lvl
<1>4. LevelAt(t, p) = lvl /\ \A r \in Prices \ {p} : LevelAt(t, r) = LevelAt(s, r)
  BY <1>1, <1>3, PutLevelReads
<1> HIDE DEF t, pl, s, i
<1>5. c.sides = [b.sides EXCEPT ![k] = t]
  BY <1>2 DEF Linked, BookShape
<1> HIDE DEF c
<1>6. SharesElsewhere(c, b, k, p) /\ LevelShares(c, k, p) = LevelAt(t, p).shares
  BY <1>4, <1>5, OtherSides DEF s
<1> QED BY <1>3, <1>4, <1>6 DEF LevelShares, c, s, i

\* A level that goes takes nothing but its own shares with it.
LEMMA EmptiedReads ==
  ASSUME NEW s \in SideRec, NEW p \in Prices, NEW lvl \in LevelRec
  PROVE  LET t == Emptied(s, p, lvl)
         IN /\ LevelAt(t, p) = lvl \/ LevelAt(t, p) = EmptyLevel
            /\ \A r \in Prices \ {p} : LevelAt(t, r) = LevelAt(s, r)
<1> DEFINE t == Emptied(s, p, lvl)
           u == PutLevel(s, p, lvl)
<1>1. CASE InWindow(s, p)
  <2>1. u \in SideRec /\ LevelAt(u, p) = lvl
        /\ \A r \in Prices \ {p} : LevelAt(u, r) = LevelAt(s, r)
    BY PutLevelReads
  <2>2. t = [u EXCEPT !.occupied = @ \ {Offset(s, p)}]
    BY <1>1 DEF Emptied
  <2> HIDE DEF t, u
  <2>3. t.base = u.base /\ t.flat = u.flat /\ t.overflow = u.overflow
    BY <2>1, <2>2 DEF SideRec
  <2>4. \A r : (InWindow(t, r) <=> InWindow(u, r)) /\ Offset(t, r) = Offset(u, r)
    BY <2>3 DEF InWindow, Offset
  <2>5. \A r \in Prices : LevelAt(t, r) = LevelAt(u, r)
    BY <2>3, <2>4 DEF LevelAt, FlatLevel
  <2> QED BY <2>1, <2>5 DEF t
<1>2. CASE ~InWindow(s, p)
  <2>1. t = [s EXCEPT !.overflow = Drop(@, p)]
    BY <1>2 DEF Emptied
  <2> HIDE DEF t
  <2>2. t.base = s.base /\ t.flat = s.flat /\ t.overflow = Drop(s.overflow, p)
    BY <2>1 DEF SideRec
  <2>3. \A r : (InWindow(t, r) <=> InWindow(s, r)) /\ Offset(t, r) = Offset(s, r)
    BY <2>2 DEF InWindow, Offset
  <2>4. /\ DOMAIN t.overflow = DOMAIN s.overflow \ {p}
        /\ \A r \in DOMAIN s.overflow \ {p} : t.overflow[r] = s.overflow[r]
    BY <2>2 DEF Drop
  <2>5. LevelAt(t, p) = EmptyLevel
    BY <1>2, <2>3, <2>4 DEF LevelAt
  <2>6. \A r \in Prices \ {p} : LevelAt(t, r) = LevelAt(s, r)
    BY <2>2, <2>3, <2>4 DEF LevelAt, FlatLevel
  <2> QED BY <2>5, <2>6 DEF t
<1> QED BY <1>1, <1>2

LEMMA UnlinkedShares ==
  ASSUME NEW b, NEW Q, Linked(b, Q), NEW k \in Keys, NEW p \in Prices, NEW x \in 1..Len(Q[k][p])
  PROVE  LET c == Unlinked(b, Q[k][p][x])
         IN /\ SharesElsewhere(c, b, k, p)
            /\ \/ LevelShares(c, k, p) = LevelShares(b, k, p)
               \/ LevelShares(c, k, p) = 0 /\ Remaining(Q[k][p], x) = <<>>
<1> DEFINE q == Q[k][p]
           i == q[x]
           c == Unlinked(b, i)
           s == b.sides[k]
           lvl == LevelAt(s, p)
           o == b.pool[i]
           new == [lvl EXCEPT !.orders = IF @ > 0 THEN @ - 1 ELSE @,
                              !.head = IF o.prev = NoOrder THEN o.next ELSE @,
                              !.tail = IF o.next = NoOrder THEN o.prev ELSE @]
           pl == Spliced(b.pool, i)
           t == IF new.orders = 0 THEN Emptied(s, p, new) ELSE PutLevel(s, p, new)
<1>1. /\ i \in Pool /\ o \in FastOrder /\ SideOf(o) = k /\ o.price = p
      /\ HasLevel(s, p) /\ q # <<>> /\ q \in Seq(Pool) /\ s \in SideRec
      /\ NoRepeats(q) /\ Ends(lvl, q)
  BY InQueue DEF SideOK, QueueOK
<1>2. c = [b EXCEPT !.pool = pl, !.sides = [b.sides EXCEPT ![k] = t]]
  <2>1. BookShape(b) /\ SideOf(b.pool[i]) = k /\ b.pool[i].price = p /\ HasLevel(b.sides[k], p)
    BY <1>1 DEF Linked
  <2>2. t = SideWithout(b.sides[k], p, b.pool[i])
    BY DEF SideWithout, Less
  <2> HIDE DEF t, i
  <2>3. Unlinked(b, i) = Rewritten(b, Spliced(b.pool, i), k, SideWithout(b.sides[k], p, b.pool[i]))
    BY ONLY <2>1, UnlinkedIs
  <2> QED BY <2>2, <2>3 DEF Rewritten
<1>3. /\ new \in LevelRec /\ new.shares = lvl.shares /\ lvl.shares \in Int
      /\ new.orders = Len(q) - 1
  <2> HIDE DEF o, q
  <2>1. lvl \in LevelRec /\ lvl.orders = Len(q) /\ Len(q) \in Nat /\ Len(q) > 0
    BY <1>1 DEF Ends
  <2> HIDE DEF lvl
  <2>2. /\ (IF lvl.orders > 0 THEN lvl.orders - 1 ELSE lvl.orders) = Len(q) - 1
        /\ Len(q) - 1 \in Nat
    BY <2>1
  <2> DEFINE n == IF lvl.orders > 0 THEN lvl.orders - 1 ELSE lvl.orders
             head == IF o.prev = NoOrder THEN o.next ELSE lvl.head
             tail == IF o.next = NoOrder THEN o.prev ELSE lvl.tail
  <2>3. head \in Link /\ tail \in Link /\ n \in Nat
    BY <1>1, <2>1, <2>2 DEF LevelRec, FastOrder, Link
  <2>4. new = [lvl EXCEPT !.orders = n, !.head = head, !.tail = tail]
    OBVIOUS
  <2>5. n = Len(q) - 1
    BY <2>2
  <2> HIDE DEF n, head, tail, new
  <2>6. new \in LevelRec /\ new.shares = lvl.shares /\ new.orders = n /\ lvl.shares \in Int
    BY <2>1, <2>3, <2>4 DEF LevelRec
  <2> QED BY <2>5, <2>6
<1> HIDE DEF new
<1>4. new.orders = 0 => Remaining(q, x) = <<>>
  <2> HIDE DEF q
  <2> DEFINE f == Remaining(q, x)
  <2>1. f \in Seq(Pool) /\ Len(f) = Len(q) - 1
    BY <1>1, RemainingFacts DEF q
  <2> HIDE DEF f
  <2>2. f \in Seq(Pool) /\ (new.orders = 0 => Len(f) = 0)
    BY <1>3, <2>1
  <2> QED BY <2>2 DEF f
<1>5. /\ \A r \in Prices \ {p} : LevelAt(t, r) = LevelAt(s, r)
      /\ LevelAt(t, p) = new \/ (new.orders = 0 /\ LevelAt(t, p) = EmptyLevel)
  <2>1. CASE new.orders = 0
    <3>1. /\ \A r \in Prices \ {p} : LevelAt(Emptied(s, p, new), r) = LevelAt(s, r)
          /\ LevelAt(Emptied(s, p, new), p) = new \/ LevelAt(Emptied(s, p, new), p) = EmptyLevel
      BY <1>1, <1>3, EmptiedReads
    <3> QED BY <2>1, <3>1
  <2>2. CASE new.orders # 0
    <3>1. /\ \A r \in Prices \ {p} : LevelAt(PutLevel(s, p, new), r) = LevelAt(s, r)
          /\ LevelAt(PutLevel(s, p, new), p) = new
      BY <1>1, <1>3, PutLevelReads
    <3> QED BY <2>2, <3>1
  <2> QED BY <2>1, <2>2
<1> HIDE DEF t, pl, s, i
<1>6. c.sides = [b.sides EXCEPT ![k] = t]
  BY <1>2 DEF Linked, BookShape
<1> HIDE DEF c, q
<1>7. SharesElsewhere(c, b, k, p) /\ LevelShares(c, k, p) = LevelAt(t, p).shares
  BY <1>5, <1>6, OtherSides DEF s
<1>8. EmptyLevel.shares = 0
  BY DEF EmptyLevel
<1>9. LevelShares(b, k, p) = new.shares
  BY <1>3 DEF LevelShares, s
<1> QED BY <1>4, <1>5, <1>7, <1>8, <1>9 DEF c, i, q

LEMMA QueuedShares ==
  ASSUME NEW b, NEW Q, Linked(b, Q), NEW i \in Pool, NEW o \in FastOrder,
         NEW k \in Keys, SideOf(o) = k, NEW p \in Prices, o.price = p
  PROVE  LET c == Queued(b, i, o)
         IN SharesElsewhere(c, b, k, p) /\ LevelShares(c, k, p) = LevelShares(b, k, p) + o.shares
<1> DEFINE c == Queued(b, i, o)
           s == Anchored(b.sides[k], o.side, p)
           lvl == LevelAt(s, p)
           new == [lvl EXCEPT !.shares = @ + o.shares, !.orders = @ + 1, !.tail = i,
                              !.head = IF lvl.tail = NoOrder THEN i ELSE @]
           u == PutLevel(s, p, new)
           t == IF lvl.orders = 0 THEN Occupy(u, p) ELSE u
           pl == LinkNext([b.pool EXCEPT ![i] = [o EXCEPT !.prev = lvl.tail]], lvl.tail, i)
<1>1. Q[k] \in Queues /\ SideOK(b.sides[k], Q[k]) /\ o.side \in Sides
  BY DEF Linked, FastOrder
<1>2. SideOK(s, Q[k]) /\ \A r \in Prices : LevelAt(s, r) = LevelAt(b.sides[k], r)
  BY <1>1, AnchoredKept
<1>3. c = [b EXCEPT !.pool = pl, !.sides = [b.sides EXCEPT ![k] = t]]
  BY DEF Queued, Linked, BookShape
<1> HIDE DEF s
<1>4. s \in SideRec /\ lvl \in LevelRec
  BY <1>2 DEF SideOK, Ends
<1>5. new \in LevelRec /\ new.shares = lvl.shares + o.shares
  <2>1. lvl \in LevelRec /\ o.shares \in Int /\ i \in Link
    BY <1>4 DEF FastOrder, Link
  <2> HIDE DEF lvl
  <2> DEFINE shares == lvl.shares + o.shares
             orders == lvl.orders + 1
             head == IF lvl.tail = NoOrder THEN i ELSE lvl.head
  <2>2. shares \in Int /\ orders \in Nat /\ head \in Link
    BY <2>1 DEF LevelRec
  <2>3. new = [lvl EXCEPT !.shares = shares, !.orders = orders, !.tail = i, !.head = head]
    OBVIOUS
  <2> HIDE DEF shares, orders, head, new
  <2>4. [[lvl EXCEPT !.shares = shares] EXCEPT !.orders = orders] \in LevelRec
        /\ [[lvl EXCEPT !.shares = shares] EXCEPT !.orders = orders].shares = shares
    BY <2>1, <2>2 DEF LevelRec
  <2> QED BY <2>1, <2>2, <2>3, <2>4 DEF LevelRec, shares
<1> HIDE DEF new, lvl
<1>6. u \in SideRec /\ LevelAt(u, p) = new
      /\ \A r \in Prices \ {p} : LevelAt(u, r) = LevelAt(s, r)
  BY <1>4, <1>5, PutLevelReads
<1> HIDE DEF u
<1>7. \A r \in Prices : LevelAt(t, r) = LevelAt(u, r)
  <2>1. t.base = u.base /\ t.flat = u.flat /\ t.overflow = u.overflow
    BY <1>6 DEF SideRec, Occupy
  <2> HIDE DEF t
  <2>2. \A r : (InWindow(t, r) <=> InWindow(u, r)) /\ Offset(t, r) = Offset(u, r)
    BY <2>1 DEF InWindow, Offset
  <2> QED BY <2>1, <2>2 DEF LevelAt, FlatLevel
<1> HIDE DEF t, pl
<1>8. c.sides = [b.sides EXCEPT ![k] = t]
  BY <1>3 DEF Linked, BookShape
<1> HIDE DEF c
<1>9. SharesElsewhere(c, b, k, p) /\ LevelShares(c, k, p) = LevelAt(t, p).shares
  BY <1>2, <1>6, <1>7, <1>8, OtherSides
<1>10. LevelShares(b, k, p) = lvl.shares
  BY <1>2 DEF LevelShares, lvl
<1> QED BY <1>5, <1>6, <1>7, <1>9, <1>10 DEF c

LEMMA CheckedShares ==
  ASSUME NEW b, NEW Q, Linked(b, Q), NEW l, NEW k \in Keys, NEW p \in Prices
  PROVE  LET c == Checked(b, l)
         IN \/ LevelShares(c, k, p) = LevelShares(b, k, p)
            \/ LevelShares(c, k, p) = 0 /\ Q[k][p] = <<>>
<1> DEFINE c == Checked(b, l)
           w == [j \in Keys |-> IF j[1] = l THEN Followed(b.sides[j], j[2]) ELSE b.sides[j]]
<1>1. c = [b EXCEPT !.sides = w, !.checked = l]
  BY DEF Checked, Linked
<1>2. w[k] = IF k[1] = l THEN Followed(b.sides[k], k[2]) ELSE b.sides[k]
  OBVIOUS
<1> HIDE DEF w
<1>3. c.sides = w
  BY <1>1 DEF Linked, BookShape
<1> HIDE DEF c
<1>4. SideOK(b.sides[k], Q[k]) /\ Q[k] \in Queues /\ k[2] \in Sides
  BY DEF Linked, Keys
<1>5. \/ LevelAt(Followed(b.sides[k], k[2]), p) = LevelAt(b.sides[k], p)
      \/ Q[k][p] = <<>> /\ LevelAt(Followed(b.sides[k], k[2]), p) = EmptyLevel
  BY <1>4, FollowedKept
<1>6. EmptyLevel.shares = 0
  BY DEF EmptyLevel
<1> QED BY <1>2, <1>3, <1>5, <1>6 DEF LevelShares, c

----------------------------------------------------------------------------
SharesOf(b) == [r \in DOMAIN b.index |-> b.pool[b.index[r]].shares]
At(b, k, p) ==
  {r \in DOMAIN b.index : SideOf(b.pool[b.index[r]]) = k /\ b.pool[b.index[r]].price = p}
SumsUp(b) == \A k \in Keys : \A p \in Prices :
               LevelShares(b, k, p) = Promise!Total(SharesOf(b), At(b, k, p))

LEMMA FiniteIsFinite == \A S : IsFiniteSet(S) <=> Promise!IsFiniteSet(S)
  BY DEF IsFiniteSet, Promise!IsFiniteSet

\* The library's sum over the orders of a place is the one reasoned about.
LEMMA SumIsTotal ==
  ASSUME NEW S \in SUBSET DOMAIN index, IsFiniteSet(S)
  PROVE  MapThenSumSet(LAMBDA r : pool[index[r]].shares, S) = Promise!Total(SharesOf(Now), S)
<1> DEFINE f == SharesOf(Now)
           Adds(g) == g = [s \in SUBSET S |->
                             IF s = {} THEN 0
                             ELSE pool[index[CHOOSE x \in s : TRUE]].shares
                                  + g[s \ {CHOOSE x \in s : TRUE}]]
           g == CHOOSE g : Adds(g)
<1>1. MapThenSumSet(LAMBDA r : pool[index[r]].shares, S) = g[S]
  BY DEF MapThenSumSet, MapThenFoldSet
<1>2. \A s \in SUBSET S : s # {} =>
        f[CHOOSE x \in s : TRUE] = pool[index[CHOOSE x \in s : TRUE]].shares
  BY DEF SharesOf, Now
<1>3. \A h : Adds(h) <=> Promise!Sums(f, S, h)
  <2> HIDE DEF f
  <2> QED BY <1>2 DEF Promise!Sums, Promise!OneOf
<1> HIDE DEF f, Adds
<1>4. \E h : Promise!Sums(f, S, h)
  BY FiniteIsFinite, Promise!SumsExist
<1>5. Promise!Sums(f, S, g)
  BY <1>3, <1>4
<1> HIDE DEF g
<1> QED BY <1>1, <1>5, FiniteIsFinite, Promise!TotalIsTheSum DEF f

\* The orders of a place are finitely many, and none of them owes shares.
LEMMA SharesAreNumbers ==
  ASSUME NEW b, NEW Q, NEW F, Sound(b, Q, F), NEW k, NEW p
  PROVE  /\ IsFiniteSet(At(b, k, p)) /\ At(b, k, p) \subseteq DOMAIN b.index
         /\ \A r \in DOMAIN b.index :
              SharesOf(b)[r] = b.pool[b.index[r]].shares /\ SharesOf(b)[r] \in Nat
<1>1. IsFiniteSet(At(b, k, p)) /\ At(b, k, p) \subseteq DOMAIN b.index
  <2>1. At(b, k, p) \subseteq DOMAIN b.index /\ IsFiniteSet(DOMAIN b.index)
    BY DEF At, Sound, IndexOK
  <2> QED BY <2>1, FS_Subset
<1>2. ASSUME NEW r \in DOMAIN b.index PROVE b.pool[b.index[r]].shares \in Nat
  BY LiveSlot DEF FastOrder
<1> QED BY <1>1, <1>2 DEF SharesOf

\* A level without a queue is one where no live order is.
LEMMA NobodyThere ==
  ASSUME NEW b, NEW Q, NEW F, Sound(b, Q, F), NEW k \in Keys, NEW p \in Prices, Q[k][p] = <<>>
  PROVE  At(b, k, p) = {} /\ Promise!Total(SharesOf(b), At(b, k, p)) = 0
<1>1. ASSUME NEW r \in At(b, k, p) PROVE FALSE
  <2>1. r \in DOMAIN b.index /\ SideOf(b.pool[b.index[r]]) = k /\ b.pool[b.index[r]].price = p
    BY <1>1 DEF At
  <2>2. \E x \in 1..Len(Q[k][p]) : Q[k][p][x] = b.index[r]
    BY <2>1, LiveSlot
  <2> QED BY <2>2
<1>2. At(b, k, p) = {} /\ IsFiniteSet({})
  BY <1>1, FS_EmptySet
<1> QED BY <1>2, FiniteIsFinite, Promise!TotalUnfolds

\* Places that an operation does not touch.
LEMMA SumElsewhere ==
  ASSUME NEW b, NEW Q, NEW F, Sound(b, Q, F), SumsUp(b), NEW k \in Keys, NEW p \in Prices,
         NEW c, LevelShares(c, k, p) = LevelShares(b, k, p), At(c, k, p) = At(b, k, p),
         \A r \in At(b, k, p) : c.pool[c.index[r]].shares = b.pool[b.index[r]].shares
  PROVE  LevelShares(c, k, p) = Promise!Total(SharesOf(c), At(c, k, p))
<1>1. \A r \in At(b, k, p) : SharesOf(c)[r] = SharesOf(b)[r]
  <2>1. \A r \in At(b, k, p) : r \in DOMAIN b.index /\ r \in DOMAIN c.index
    BY DEF At
  <2> QED BY <2>1 DEF SharesOf
<1>2. IsFiniteSet(At(b, k, p))
  BY SharesAreNumbers
<1>3. Promise!Total(SharesOf(c), At(b, k, p)) = Promise!Total(SharesOf(b), At(b, k, p))
  BY <1>1, <1>2, FiniteIsFinite, Promise!TotalOfSame
<1> QED BY <1>3 DEF SumsUp

\* Shares deducted: the level has as many less as the order.
LEMMA DeductedSums ==
  ASSUME NEW b, NEW Q, NEW F, Sound(b, Q, F), SumsUp(b), NEW ref \in DOMAIN b.index,
         NEW qty \in Nat, qty <= b.pool[b.index[ref]].shares
  PROVE  SumsUp(Deducted(b, b.index[ref], qty))
<1> DEFINE i == b.index[ref]
           c == Deducted(b, i, qty)
           k == SideOf(b.pool[i])
           p == b.pool[i].price
           sh == b.pool[i].shares
<1>1. /\ i \in Pool /\ b.pool \in Records /\ b.pool[i] \in FastOrder /\ sh \in Nat
      /\ k \in Keys /\ p \in Prices
  BY LiveSlot DEF Sound, Linked, FastOrder
<1>2. PICK x \in 1..Len(Q[k][p]) : Q[k][p][x] = i
  BY LiveSlot
<1>3. c.index = b.index /\ c.pool = Lowered(b.pool, i, qty)
  BY DeductedSound DEF SameOtherwise
<1>4. SharesElsewhere(c, b, k, p) /\ LevelShares(c, k, p) = LevelShares(b, k, p) - qty
  <2> HIDE DEF k, p
  <2> QED BY <1>1, <1>2, DeductedShares DEF Sound
<1> HIDE DEF c
<1>5. /\ \A j \in Pool \ {i} : c.pool[j] = b.pool[j]
      /\ c.pool[i] = [b.pool[i] EXCEPT !.shares = @ - qty]
  BY <1>1, <1>3 DEF Records, Lowered
<1>6. /\ \A j \in Pool : SideOf(c.pool[j]) = SideOf(b.pool[j]) /\ c.pool[j].price = b.pool[j].price
      /\ c.pool[i].shares = sh - qty
  BY <1>1, <1>5, SMTT(60) DEF SideOf, Records, FastOrder
<1>7. \A r \in DOMAIN b.index : b.index[r] \in Pool /\ (r # ref => b.index[r] # i)
  BY DEF Sound, IndexOK
<1>8. /\ \A j \in Keys : \A r \in Prices : At(c, j, r) = At(b, j, r)
      /\ ref \in At(b, k, p)
  BY <1>3, <1>6, <1>7 DEF At
<1> HIDE DEF k, p
<1>9. LevelShares(c, k, p) = Promise!Total(SharesOf(c), At(c, k, p))
  <2> DEFINE f == SharesOf(b)
             h == SharesOf(c)
             S == At(b, k, p)
             R == S \ {ref}
  <2>1. IsFiniteSet(S) /\ S \subseteq DOMAIN b.index /\ \A r \in S : f[r] \in Int
    BY SharesAreNumbers
  <2>2. f[ref] = sh /\ h[ref] = sh - qty
    BY <1>3, <1>6 DEF SharesOf
  <2>3. \A r \in R : h[r] = f[r]
    BY <1>3, <1>5, <1>7, <2>1 DEF SharesOf
  <2>4. LevelShares(b, k, p) = Promise!Total(f, S)
    BY <1>1 DEF SumsUp
  <2>5. Promise!OneMore(R, S, ref)
    BY <1>8, <2>1, FiniteIsFinite DEF Promise!OneMore
  <2>6. LevelShares(c, k, p) = LevelShares(b, k, p) - qty
    BY <1>4
  <2>7. Promise!IntegersOn(h, S)
    BY <1>1, <2>1, <2>2, <2>3 DEF Promise!IntegersOn
  <2>8. At(c, k, p) = S
    BY <1>1, <1>8
  <2> HIDE DEF f, h, S, R, sh
  <2>9. /\ Promise!AgreeOn(f, f, R) /\ Promise!AgreeOn(h, f, R) /\ Promise!IntegersOn(f, S)
    BY ONLY <2>1, <2>3 DEF Promise!AgreeOn, Promise!IntegersOn
  <2>10. /\ Promise!Total(f, S) = f[ref] + Promise!Total(f, R)
         /\ Promise!Total(f, R) \in Int /\ f[ref] \in Int
    BY ONLY <2>5, <2>9, Promise!TotalOfOneMore
  <2>11. /\ Promise!Total(h, S) = h[ref] + Promise!Total(f, R)
         /\ Promise!Total(f, R) \in Int /\ h[ref] \in Int
    <3>1. Promise!OneMore(R, S, ref) /\ Promise!IntegersOn(h, S) /\ Promise!AgreeOn(h, f, R)
      BY ONLY <2>5, <2>7, <2>9
    <3> QED BY ONLY <3>1, Promise!TotalOfOneMore
  <2>12. Promise!Total(h, S) = LevelShares(c, k, p)
    BY ONLY <1>1, <2>2, <2>4, <2>6, <2>10, <2>11, qty \in Nat
  <2> QED BY <2>8, <2>12 DEF h
<1>10. ASSUME NEW j \in Keys, NEW r \in Prices, j # k \/ r # p
       PROVE  LevelShares(c, j, r) = Promise!Total(SharesOf(c), At(c, j, r))
  <2>1. \A y \in At(b, j, r) : y \in DOMAIN b.index /\ y # ref
    BY <1>10 DEF At, k, p
  <2>2. \A y \in At(b, j, r) : c.pool[c.index[y]].shares = b.pool[b.index[y]].shares
    BY <1>3, <1>5, <1>7, <2>1
  <2>3. LevelShares(c, j, r) = LevelShares(b, j, r) /\ At(c, j, r) = At(b, j, r)
    BY <1>4, <1>8, <1>10 DEF SharesElsewhere
  <2> QED BY <2>2, <2>3, SumElsewhere
<1> QED BY <1>9, <1>10 DEF SumsUp, c

\* An order with nothing left leaves: its level loses no share.
LEMMA RemovedSums ==
  ASSUME NEW b, NEW Q, NEW F, Sound(b, Q, F), SumsUp(b), NEW ref \in DOMAIN b.index,
         b.pool[b.index[ref]].shares = 0
  PROVE  SumsUp(Dropped([b EXCEPT !.index = Drop(@, ref)], b.index[ref]))
<1> DEFINE i == b.index[ref]
           k == SideOf(b.pool[i])
           p == b.pool[i].price
           a == [b EXCEPT !.index = Drop(b.index, ref)]
           u == Unlinked(a, i)
           c == Dropped(a, i)
<1>1. i \in Pool /\ k \in Keys /\ p \in Prices /\ b.pool[i].ref = ref /\ Linked(b, Q)
  BY LiveSlot DEF Sound
<1>2. PICK x \in 1..Len(Q[k][p]) : Q[k][p][x] = i
  BY SMTT(30), LiveSlot
<1> DEFINE R == Requeued(Q, k, p, Remaining(Q[k][p], x))
           G == <<i>> \o F
<1>3. Linked(a, Q) /\ a.sides = b.sides
  BY <1>1, ReindexedLinked
<1> HIDE DEF k, p, a
<1>4. /\ Sound(c, R, G) /\ c.index = Drop(b.index, ref)
      /\ \A j \in Pool \ {i} : SameOrder(c.pool[j], b.pool[j])
  BY <1>1, <1>2, DroppedSound DEF a
<1>5. /\ SharesElsewhere(u, a, k, p)
      /\ \/ LevelShares(u, k, p) = LevelShares(a, k, p)
         \/ LevelShares(u, k, p) = 0 /\ Remaining(Q[k][p], x) = <<>>
  BY <1>1, <1>2, <1>3, UnlinkedShares
<1>6. c.sides = u.sides
  BY DEF Dropped, Released
<1> HIDE DEF c, u
<1>7. /\ SharesElsewhere(c, b, k, p)
      /\ \/ LevelShares(c, k, p) = LevelShares(b, k, p)
         \/ LevelShares(c, k, p) = 0 /\ R[k][p] = <<>>
  <2>1. R[k][p] = Remaining(Q[k][p], x)
    BY <1>1, RequeuedBack DEF Linked
  <2> QED BY <1>3, <1>5, <1>6, <2>1 DEF SharesElsewhere, LevelShares
<1> HIDE DEF R, G
<1>8. /\ DOMAIN c.index = DOMAIN b.index \ {ref}
      /\ \A r \in DOMAIN c.index : c.index[r] = b.index[r]
  BY <1>4 DEF Drop
<1>9. \A r \in DOMAIN b.index : b.index[r] \in Pool /\ (r # ref => b.index[r] # i)
  BY DEF Sound, IndexOK
<1>10. \A r \in DOMAIN c.index :
         /\ r \in DOMAIN b.index /\ r # ref
         /\ c.pool[c.index[r]].shares = b.pool[b.index[r]].shares
         /\ SideOf(c.pool[c.index[r]]) = SideOf(b.pool[b.index[r]])
         /\ c.pool[c.index[r]].price = b.pool[b.index[r]].price
  BY <1>4, <1>8, <1>9 DEF SameOrder, SideOf
<1>11. /\ \A j \in Keys : \A r \in Prices : j # k \/ r # p => At(c, j, r) = At(b, j, r)
       /\ At(c, k, p) = At(b, k, p) \ {ref} /\ ref \in At(b, k, p)
  BY <1>8, <1>10 DEF At, k, p
<1>12. LevelShares(c, k, p) = Promise!Total(SharesOf(c), At(c, k, p))
  <2>1. CASE LevelShares(c, k, p) = 0 /\ R[k][p] = <<>>
    BY <1>1, <1>4, <2>1, NobodyThere
  <2>2. CASE LevelShares(c, k, p) = LevelShares(b, k, p)
    <3> DEFINE f == SharesOf(b)
               h == SharesOf(c)
               S == At(c, k, p)
               T == At(b, k, p)
    <3>1. IsFiniteSet(T) /\ \A r \in T : f[r] \in Int
      BY SharesAreNumbers
    <3>2. f[ref] = 0
      BY DEF SharesOf
    <3>3. Promise!OneMore(S, T, ref)
      BY <1>11, <3>1, FiniteIsFinite DEF Promise!OneMore
    <3>4. Promise!IntegersOn(f, T)
      BY <3>1 DEF Promise!IntegersOn
    <3>5. Promise!AgreeOn(f, h, S)
      BY <1>10 DEF Promise!AgreeOn, At, SharesOf
    <3>6. LevelShares(b, k, p) = Promise!Total(f, T)
      BY <1>1 DEF SumsUp
    <3> HIDE DEF f, h, S, T
    <3>7. /\ Promise!Total(f, T) = f[ref] + Promise!Total(h, S)
          /\ Promise!Total(h, S) \in Int /\ f[ref] \in Int
      BY ONLY <3>3, <3>4, <3>5, Promise!TotalOfOneMore
    <3>8. Promise!Total(f, T) = Promise!Total(h, S)
      BY ONLY <3>2, <3>7
    <3> QED BY <2>2, <3>6, <3>8 DEF h, S
  <2> QED BY <1>7, <2>1, <2>2
<1>13. ASSUME NEW j \in Keys, NEW r \in Prices, j # k \/ r # p
       PROVE  LevelShares(c, j, r) = Promise!Total(SharesOf(c), At(c, j, r))
  <2>1. LevelShares(c, j, r) = LevelShares(b, j, r) /\ At(c, j, r) = At(b, j, r)
    BY <1>7, <1>11, <1>13 DEF SharesElsewhere
  <2>2. \A y \in At(b, j, r) : c.pool[c.index[y]].shares = b.pool[b.index[y]].shares
    BY <1>10, <2>1 DEF At
  <2> QED BY <2>1, <2>2, SumElsewhere
<1>14. SumsUp(c)
  BY <1>12, <1>13 DEF SumsUp
<1> QED BY <1>14 DEF c, a

\* An order queued and indexed: its level has as many more.
LEMMA IndexedSums ==
  ASSUME NEW b, NEW Q, NEW F, Sound(b, Q, F), SumsUp(b), F # <<>>,
         NEW ref \in Refs, ref \notin DOMAIN b.index,
         NEW o \in FastOrder, o.ref = ref, o.next = NoOrder, o.locate # None, o.price \in Prices
  PROVE  SumsUp([Seated(b, o) EXCEPT !.index = Put(@, ref, b.free)])
<1> DEFINE i == b.free
           k == SideOf(o)
           p == o.price
           a == [b EXCEPT !.free = b.pool[i].next]
           d == Seated(b, o)
           c == [d EXCEPT !.index = Put(@, ref, i)]
<1>1. /\ i \in Pool /\ b.pool[i].locate = None /\ k \in Keys /\ p \in Prices
      /\ Linked(d, Longer(b, Q, o)) /\ d.index = b.index
      /\ SameOrder(d.pool[i], o) /\ \A j \in Pool \ {i} : SameOrder(d.pool[j], b.pool[j])
      /\ o.shares \in Nat
  BY SeatedLinked DEF FastOrder
<1>2. Linked(a, Q) /\ a.sides = b.sides
  <2>1. Linked(b, Q)
    BY DEF Sound
  <2>2. BookShape(a) /\ a.pool = b.pool /\ a.sides = b.sides
    BY <2>1 DEF Linked, BookShape
  <2> HIDE DEF a
  <2> QED BY <2>1, <2>2 DEF Linked
<1> HIDE DEF a
<1>3. SharesElsewhere(d, a, k, p) /\ LevelShares(d, k, p) = LevelShares(a, k, p) + o.shares
  BY <1>1, <1>2, QueuedShares DEF Seated, a
<1> HIDE DEF d
<1>4. c.index = Put(b.index, ref, i) /\ c.pool = d.pool /\ c.sides = d.sides
  BY <1>1 DEF Linked, BookShape
<1> HIDE DEF c, k, p, i
<1>5. SharesElsewhere(c, b, k, p) /\ LevelShares(c, k, p) = LevelShares(b, k, p) + o.shares
  BY <1>2, <1>3, <1>4 DEF SharesElsewhere, LevelShares
<1>6. /\ DOMAIN c.index = DOMAIN b.index \cup {ref} /\ c.index[ref] = i
      /\ \A r \in DOMAIN b.index : c.index[r] = b.index[r]
  BY <1>4 DEF Put
<1>7. \A r \in DOMAIN b.index : b.index[r] \in Pool /\ b.index[r] # i
  BY <1>1 DEF Sound, IndexOK
<1>8. \A r \in DOMAIN b.index :
        /\ c.pool[c.index[r]].shares = b.pool[b.index[r]].shares
        /\ SideOf(c.pool[c.index[r]]) = SideOf(b.pool[b.index[r]])
        /\ c.pool[c.index[r]].price = b.pool[b.index[r]].price
  BY <1>1, <1>4, <1>6, <1>7 DEF SameOrder, SideOf
<1>9. c.pool[c.index[ref]].shares = o.shares /\ SideOf(c.pool[c.index[ref]]) = k
      /\ c.pool[c.index[ref]].price = p
  BY <1>1, <1>4, <1>6 DEF SameOrder, SideOf, k, p
<1>10. /\ \A j \in Keys : \A r \in Prices : j # k \/ r # p => At(c, j, r) = At(b, j, r)
       /\ At(c, k, p) = At(b, k, p) \cup {ref} /\ ref \notin At(b, k, p)
  BY <1>6, <1>8, <1>9 DEF At
<1>11. LevelShares(c, k, p) = Promise!Total(SharesOf(c), At(c, k, p))
  <2> DEFINE f == SharesOf(c)
             h == SharesOf(b)
             S == At(b, k, p)
             T == At(c, k, p)
  <2>1. IsFiniteSet(S) /\ S \subseteq DOMAIN b.index /\ \A r \in S : h[r] \in Int
    BY SharesAreNumbers
  <2>2. f[ref] = o.shares /\ \A r \in S : f[r] = h[r]
    BY <1>6, <1>8, <1>9, <2>1 DEF SharesOf
  <2>3. LevelShares(b, k, p) = Promise!Total(h, S)
    BY <1>1 DEF SumsUp
  <2>4. T = S \cup {ref} /\ ref \notin S
    BY <1>10
  <2> HIDE DEF f, h, S, T
  <2>5. Promise!OneMore(S, T, ref)
    <3>1. IsFiniteSet(T)
      BY ONLY <2>1, <2>4, FS_AddElement
    <3> QED BY ONLY <2>4, <3>1, FiniteIsFinite DEF Promise!OneMore
  <2>6. Promise!AgreeOn(f, h, S) /\ Promise!IntegersOn(f, T)
    BY ONLY <1>1, <2>1, <2>2, <2>4 DEF Promise!AgreeOn, Promise!IntegersOn
  <2>7. /\ Promise!Total(f, T) = f[ref] + Promise!Total(h, S)
        /\ Promise!Total(h, S) \in Int /\ f[ref] \in Int
    BY ONLY <2>5, <2>6, Promise!TotalOfOneMore
  <2>8. Promise!Total(f, T) = Promise!Total(h, S) + o.shares
    BY ONLY <1>1, <2>2, <2>7
  <2> QED BY <1>5, <2>3, <2>8 DEF f, T
<1>12. ASSUME NEW j \in Keys, NEW r \in Prices, j # k \/ r # p
       PROVE  LevelShares(c, j, r) = Promise!Total(SharesOf(c), At(c, j, r))
  <2>1. LevelShares(c, j, r) = LevelShares(b, j, r) /\ At(c, j, r) = At(b, j, r)
    BY <1>5, <1>10, <1>12 DEF SharesElsewhere
  <2>2. \A y \in At(b, j, r) : c.pool[c.index[y]].shares = b.pool[b.index[y]].shares
    BY <1>8 DEF At
  <2> QED BY <2>1, <2>2, SumElsewhere
<1>13. SumsUp(c)
  BY <1>11, <1>12 DEF SumsUp
<1> QED BY <1>13 DEF c, d, i

\* A window that moves drops levels without orders only.
LEMMA CheckedSums ==
  ASSUME NEW b, NEW Q, NEW F, Sound(b, Q, F), SumsUp(b), NEW l
  PROVE  SumsUp(Checked(b, l))
<1> DEFINE c == Checked(b, l)
<1>1. c.index = b.index /\ c.pool = b.pool
  BY CheckedSound
<1>2. \A k \in Keys : \A p \in Prices :
        \/ LevelShares(c, k, p) = LevelShares(b, k, p)
        \/ LevelShares(c, k, p) = 0 /\ Q[k][p] = <<>>
  BY CheckedShares DEF Sound
<1> HIDE DEF c
<1>3. SharesOf(c) = SharesOf(b) /\ \A k, p : At(c, k, p) = At(b, k, p)
  BY <1>1 DEF SharesOf, At
<1>4. SumsUp(c)
  BY <1>2, <1>3, NobodyThere DEF SumsUp
<1> QED BY <1>4 DEF c

LEMMA ErasedSums ==
  ASSUME NEW b, NEW Q, NEW F, Sound(b, Q, F), SumsUp(b), NEW ref \in DOMAIN b.index
  PROVE  SumsUp(Erased(b, ref))
<1> DEFINE i == b.index[ref]
           sh == b.pool[i].shares
           d == Deducted(b, i, sh)
           c == Dropped([d EXCEPT !.index = Drop(@, ref)], i)
<1>1. i \in Pool /\ b.pool[i] \in FastOrder /\ BookShape(b) /\ b.pool \in Records
  BY LiveSlot DEF Sound, Linked
<1>2. sh \in Nat /\ sh <= sh
  BY <1>1 DEF FastOrder
<1>3. Sound(d, Q, F) /\ SameOtherwise(d, b) /\ d.pool = Lowered(b.pool, i, sh) /\ SumsUp(d)
  BY <1>2, DeductedSound, DeductedSums
<1>4. Erased(b, ref) = c
  <2>1. Deducted([b EXCEPT !.index = Drop(b.index, ref)], i, sh) = [d EXCEPT !.index = Drop(b.index, ref)]
    BY <1>1, IndexApart
  <2> HIDE DEF i, sh, d
  <2>2. Erased(b, ref) =
          Released(Unlinked(Deducted([b EXCEPT !.index = Drop(b.index, ref)], i, sh), i), i)
    BY DEF Erased, i, sh
  <2> QED BY <1>3, <2>1, <2>2 DEF Dropped, SameOtherwise
<1>5. d.index = b.index /\ d.pool[i].shares = 0
  BY <1>1, <1>2, <1>3 DEF SameOtherwise, Records, FastOrder, Lowered
<1> HIDE DEF d, sh
<1>6. ref \in DOMAIN d.index /\ c = Dropped([d EXCEPT !.index = Drop(@, ref)], d.index[ref])
  BY <1>5
<1> HIDE DEF c
<1>7. SumsUp(c)
  BY <1>3, <1>5, <1>6, RemovedSums
<1> QED BY <1>4, <1>7

LEMMA ReducedSums ==
  ASSUME NEW b, NEW Q, NEW F, Sound(b, Q, F), SumsUp(b), NEW ref \in DOMAIN b.index, NEW qty \in Nat
  PROVE  SumsUp(Reduced(b, ref, qty))
<1> DEFINE i == b.index[ref]
           sh == b.pool[i].shares
           n == IF qty < sh THEN qty ELSE sh
           d == Deducted(b, i, n)
           c == Reduced(b, ref, qty)
<1>1. i \in Pool /\ b.pool[i] \in FastOrder
  BY LiveSlot
<1>2. n \in Nat /\ n <= sh
  BY <1>1 DEF FastOrder
<1> HIDE DEF n
<1>3. Sound(d, Q, F) /\ SameOtherwise(d, b) /\ SumsUp(d)
  BY <1>2, DeductedSound, DeductedSums
<1>4. c = IF d.pool[i].shares # 0 THEN d
          ELSE Dropped([d EXCEPT !.index = Drop(@, ref)], i)
  BY DEF Reduced, Dropped, n
<1> HIDE DEF d, c
<1>5. d.index = b.index
  BY <1>3 DEF SameOtherwise
<1>6. CASE d.pool[i].shares = 0
  <2>1. ref \in DOMAIN d.index /\ c = Dropped([d EXCEPT !.index = Drop(@, ref)], d.index[ref])
        /\ d.pool[d.index[ref]].shares = 0
    BY <1>4, <1>5, <1>6
  <2>2. SumsUp(c)
    BY <1>3, <2>1, RemovedSums
  <2> QED BY <2>2 DEF c
<1>7. CASE d.pool[i].shares # 0
  <2>1. SumsUp(c)
    BY <1>3, <1>4, <1>7
  <2> QED BY <2>1 DEF c
<1> QED BY <1>6, <1>7

\* Where there is a slot the index has room, if it takes as many as there are slots.
LEMMA RoomWhileFree ==
  ASSUME PoolSize <= IndexLimit, NEW b, NEW Q, NEW F, Sound(b, Q, F), F # <<>>
  PROVE  ~IndexFull(b)
<1>1. /\ Len(F) + Cardinality(DOMAIN b.index) = PoolSize
      /\ Len(F) \in Nat /\ Cardinality(DOMAIN b.index) \in Nat
  BY SlotsCounted
<1>2. F \in Seq(Pool) /\ IndexLimit \in Nat /\ PoolSize \in Nat
  BY FastBookAssumption DEF Sound, Freed
<1>3. Len(F) > 0
  BY <1>1, <1>2
<1>4. Cardinality(DOMAIN b.index) < IndexLimit
  BY ONLY <1>1, <1>2, <1>3, PoolSize <= IndexLimit
<1> QED BY <1>1, <1>2, <1>4 DEF IndexFull

LEMMA FreshSums ==
  ASSUME PoolSize <= IndexLimit, NEW b, NEW Q, NEW F, Sound(b, Q, F), SumsUp(b),
         NEW ref \in Refs, ref \notin DOMAIN b.index,
         NEW o \in FastOrder, o.ref = ref, o.next = NoOrder, o.locate # None, o.price \in Prices
  PROVE  SumsUp(Added(b, ref, o))
<1> DEFINE c == Added(b, ref, o)
           i == b.free
           a == [Seated(b, o) EXCEPT !.index = Put(@, ref, i)]
<1>1. o.locate \in Symbols /\ F \in Seq(Pool) /\ i = FirstOf(F)
  BY DEF FastOrder, Sound, Freed
<1>2. c = IF i = NoOrder THEN b
          ELSE IF IndexFull(b) THEN Dropped(Seated(b, o), i)
          ELSE Checked(a, o.locate)
  BY <1>1 DEF Added, Seated, Dropped
<1> HIDE DEF c
<1>3. CASE F = <<>>
  BY <1>1, <1>2, <1>3 DEF FirstOf, c
<1>4. CASE F # <<>>
  <2>1. ~IndexFull(b)
    BY <1>4, RoomWhileFree
  <2>2. i # NoOrder
    <3>1. F[1] \in Pool /\ i = F[1]
      BY <1>1, <1>4 DEF FirstOf
    <3> QED BY <3>1, NoOrderIsNoSlot
  <2>3. Sound(a, Longer(b, Q, o), Tail(F)) /\ SumsUp(a)
    BY <1>4, <2>1, IndexedSound, IndexedSums
  <2>4. c = Checked(a, o.locate)
    BY <1>2, <2>1, <2>2
  <2> HIDE DEF a
  <2> QED BY <2>3, <2>4, CheckedSums DEF c
<1> QED BY <1>3, <1>4

LEMMA AddedSums ==
  ASSUME PoolSize <= IndexLimit, NEW b, NEW Q, NEW F, Sound(b, Q, F), SumsUp(b),
         NEW ref \in Refs,
         NEW o \in FastOrder, o.ref = ref, o.next = NoOrder, o.locate # None, o.price \in Prices
  PROVE  SumsUp(Added(b, ref, o))
<1> DEFINE c == Added(b, ref, o)
<1>1. CASE ref \notin DOMAIN b.index
  BY <1>1, FreshSums
<1>2. CASE ref \in DOMAIN b.index
  <2> DEFINE d == Erased(b, ref)
  <2>1. d.index = Drop(b.index, ref) /\ SumsUp(d)
    BY <1>2, ErasedSound, ErasedSums
  <2>2. PICK P, E : Sound(d, P, E)
    BY <1>2, ErasedSound
  <2>3. ref \notin DOMAIN d.index
    BY <2>1 DEF Drop
  <2>4. c = Added(d, ref, o)
    <3>1. o.locate \in Symbols
      BY DEF FastOrder
    <3> HIDE DEF d
    <3> QED BY <1>2, <2>3, <3>1 DEF Added, d
  <2> HIDE DEF c, d
  <2>5. SumsUp(c)
    BY <2>1, <2>2, <2>3, <2>4, FreshSums
  <2> QED BY <2>5 DEF c
<1> QED BY <1>1, <1>2

\* A book installed: what sums up keeps doing so.
LEMMA InstalledSums ==
  ASSUME NEW c, NEW R, NEW G, Sound(c, R, G), SumsUp(c), Install(c)
  PROVE  SumsUp(Now)'
<1>1. Now' = c
  BY DEF Install, Now, Sound, Linked, BookShape
<1>2. SumsUp(Now)' <=> SumsUp(Now')
  BY DEF SumsUp, LevelShares, SharesOf, At, LevelAt, FlatLevel, InWindow, Offset, WholeCent,
         Cents, SideOf, Keys, Promise!Total, Promise!Sums, Promise!OneOf
<1> QED BY <1>1, <1>2

\* What check_bbo() closes a handler with, and the handlers.
LEMMA CheckedInstalledSums ==
  ASSUME NEW b, NEW Q, NEW F, Sound(b, Q, F), SumsUp(b), NEW l, Install(Checked(b, l))
  PROVE  SumsUp(Now)'
<1>1. Sound(Checked(b, l), Q, F) /\ SumsUp(Checked(b, l))
  BY CheckedSound, CheckedSums
<1> QED BY <1>1, InstalledSums

LEMMA AddOrderSums ==
  ASSUME PoolSize <= IndexLimit, IInv, SumsUp(Now),
         NEW l \in Locates, NEW ref \in Refs, NEW side \in Sides, NEW price \in Prices,
         NEW shares \in Sizes, AddOrder(l, ref, side, price, shares)
  PROVE  SumsUp(Now)'
<1> DEFINE o == NewOrder(l, ref, side, price, shares)
           c == Added(Now, ref, o)
<1>1. PICK Q, F : Sound(Now, Q, F)
  BY DEF IInv
<1>2. Install(c)
  BY DEF AddOrder
<1>3. CASE l \notin Symbols
  <2>1. c = Now
    BY <1>3 DEF Added, NewOrder, FreeOrder
  <2> HIDE DEF c
  <2> QED BY <1>1, <1>2, <2>1, InstalledSums
<1>4. CASE l \in Symbols
  <2>1. o \in FastOrder /\ o.ref = ref /\ o.next = NoOrder /\ o.locate # None /\ o.price \in Prices
    BY <1>4, NewOrderFacts
  <2> HIDE DEF o
  <2>2. (\E R, G : Sound(c, R, G)) /\ SumsUp(c)
    BY <1>1, <2>1, AddedSound, AddedSums
  <2> HIDE DEF c
  <2> QED BY <1>2, <2>2, InstalledSums
<1> QED BY <1>3, <1>4

LEMMA ReduceOrderSums ==
  ASSUME IInv, SumsUp(Now), NEW l \in Locates, NEW ref \in Refs, NEW qty \in 1..MaxShares,
         ReduceOrder(l, ref, qty)
  PROVE  SumsUp(Now)'
<1>1. PICK Q, F : Sound(Now, Q, F)
  BY DEF IInv
<1>2. CASE ref \notin DOMAIN index
  <2>1. Install(Checked(Now, l))
    BY <1>2 DEF ReduceOrder
  <2> QED BY <1>1, <2>1, CheckedInstalledSums
<1>3. CASE ref \in DOMAIN index
  <2> DEFINE d == Reduced(Now, ref, qty)
  <2>1. Install(Checked(d, l)) /\ ref \in DOMAIN Now.index /\ qty \in Nat
    BY <1>3, FastBookAssumption DEF ReduceOrder, Now
  <2>2. (\E R, G : Sound(d, R, G)) /\ SumsUp(d)
    BY <1>1, <2>1, ReducedSound, ReducedSums
  <2> HIDE DEF d
  <2> QED BY <2>1, <2>2, CheckedInstalledSums
<1> QED BY <1>2, <1>3

LEMMA DeleteOrderSums ==
  ASSUME IInv, SumsUp(Now), NEW l \in Locates, NEW ref \in Refs, DeleteOrder(l, ref)
  PROVE  SumsUp(Now)'
<1> DEFINE d == Erased(Now, ref)
<1>1. PICK Q, F : Sound(Now, Q, F)
  BY DEF IInv
<1>2. ref \in DOMAIN Now.index /\ Install(Checked(d, l))
  BY DEF DeleteOrder, Now
<1>3. (\E R, G : Sound(d, R, G)) /\ SumsUp(d)
  BY <1>1, <1>2, ErasedSound, ErasedSums
<1> HIDE DEF d
<1> QED BY <1>2, <1>3, CheckedInstalledSums

LEMMA ReplaceOrderSums ==
  ASSUME PoolSize <= IndexLimit, IInv, SumsUp(Now),
         NEW old \in Refs, NEW new \in Refs, NEW price \in Prices, NEW shares \in Sizes,
         ReplaceOrder(old, new, price, shares)
  PROVE  SumsUp(Now)'
<1> DEFINE u == pool[index[old]]
           d == Erased(Now, old)
           o == NewOrder(u.locate, new, u.side, price, shares)
           a == Added(d, new, o)
<1>1. PICK Q, F : Sound(Now, Q, F)
  BY DEF IInv
<1>2. old \in DOMAIN Now.index /\ Install(Checked(a, u.locate))
      /\ Now.pool = pool /\ Now.index = index
  BY DEF ReplaceOrder, Now
<1>3. SumsUp(d) /\ \E P, E : Sound(d, P, E)
  BY <1>1, <1>2, ErasedSound, ErasedSums
<1>4. u.locate \in Symbols /\ u.side \in Sides
  <2>1. SideOf(u) \in Keys
    BY <1>1, <1>2, LiveSlot
  <2> QED BY <2>1 DEF SideOf, Keys
<1> HIDE DEF u, d
<1>5. o \in FastOrder /\ o.ref = new /\ o.next = NoOrder /\ o.locate # None /\ o.price \in Prices
  BY <1>4, NewOrderFacts
<1> HIDE DEF o
<1>6. (\E R, G : Sound(a, R, G)) /\ SumsUp(a)
  BY <1>3, <1>5, AddedSound, AddedSums
<1>7. Install(Checked(a, u.locate))
  BY <1>2 DEF o, u, d
<1> HIDE DEF a
<1> QED BY <1>6, <1>7, CheckedInstalledSums

LEMMA NextSums ==
  ASSUME PoolSize <= IndexLimit
  PROVE  IInv /\ SumsUp(Now) /\ [Next]_vars => SumsUp(Now)'
<1> SUFFICES ASSUME IInv, SumsUp(Now), [Next]_vars PROVE SumsUp(Now)'
  OBVIOUS
<1>1. ASSUME NEW l \in Locates, NEW ref \in Refs, NEW side \in Sides, NEW price \in Prices,
             NEW shares \in Sizes, AddOrder(l, ref, side, price, shares)
      PROVE  SumsUp(Now)'
  BY <1>1, AddOrderSums
<1>2. ASSUME NEW l \in Locates, NEW ref \in Refs, NEW qty \in 1..MaxShares, ReduceOrder(l, ref, qty)
      PROVE  SumsUp(Now)'
  BY <1>2, ReduceOrderSums
<1>3. ASSUME NEW l \in Locates, NEW ref \in Refs, DeleteOrder(l, ref)
      PROVE  SumsUp(Now)'
  BY <1>3, DeleteOrderSums
<1>4. ASSUME NEW old \in Refs, NEW new \in Refs, NEW price \in Prices, NEW shares \in Sizes,
             ReplaceOrder(old, new, price, shares)
      PROVE  SumsUp(Now)'
  BY <1>4, ReplaceOrderSums
<1>5. CASE UNCHANGED vars
  <2>1. Install(Now)
    BY <1>5 DEF vars, Install, Now
  <2>2. PICK Q, F : Sound(Now, Q, F)
    BY DEF IInv
  <2> QED BY <2>1, <2>2, InstalledSums
<1> QED BY <1>1, <1>2, <1>3, <1>4, <1>5 DEF Next

LEMMA InitSums == Init => SumsUp(Now)
<1> SUFFICES ASSUME Init PROVE SumsUp(Now)
  OBVIOUS
<1>1. DOMAIN Now.index = {} /\ Now.sides = [k \in Keys |-> UnusedSide]
  BY DEF Init, Now, Keys
<1>2. \A k \in Keys : \A p \in Prices : LevelShares(Now, k, p) = 0
  BY <1>1 DEF LevelShares, LevelAt, FlatLevel, InWindow, UnusedSide, EmptyLevel
<1>3. \A k, p : At(Now, k, p) = {}
  BY <1>1 DEF At
<1>4. \A f : Promise!Total(f, {}) = 0
  <2>1. IsFiniteSet({})
    BY FS_EmptySet
  <2> QED BY <2>1, FiniteIsFinite, Promise!TotalUnfolds
<1> QED BY <1>2, <1>3, <1>4 DEF SumsUp

\* Read off the structure: the levels that are there hold the shares of the
\* orders the index finds at their places.
LEMMA SumsFromInvariant == IInv /\ SumsUp(Now) => AggregatesMatch
<1> SUFFICES ASSUME NEW Q, NEW F, Sound(Now, Q, F), SumsUp(Now) PROVE AggregatesMatch
  BY DEF IInv
<1>1. /\ Now.pool = pool /\ Now.sides = sides /\ Now.index = index
      /\ DOMAIN sides = Keys
  BY DEF Now, Sound, Linked
<1>2. ASSUME NEW k \in Keys, NEW p \in Prices
      PROVE  LevelAt(sides[k], p).shares
               = MapThenSumSet(LAMBDA r : pool[index[r]].shares, LiveAt(k, p))
  <2> DEFINE S == LiveAt(k, p)
  <2>1. S = At(Now, k, p)
    BY <1>1 DEF LiveAt, At
  <2>2. S \in SUBSET DOMAIN index /\ IsFiniteSet(S)
    <3>1. IsFiniteSet(At(Now, k, p)) /\ At(Now, k, p) \subseteq DOMAIN Now.index
      BY SharesAreNumbers
    <3> QED BY <1>1, <2>1, <3>1
  <2>3. LevelAt(sides[k], p).shares = Promise!Total(SharesOf(Now), At(Now, k, p))
    BY <1>1 DEF SumsUp, LevelShares
  <2> HIDE DEF S
  <2>4. MapThenSumSet(LAMBDA r : pool[index[r]].shares, S) = Promise!Total(SharesOf(Now), S)
    BY <2>2, SumIsTotal
  <2> QED BY <2>1, <2>3, <2>4 DEF S
<1>3. ASSUME NEW k \in Keys, NEW e \in LevelsOf(k)
      PROVE  e.price \in Prices /\ e.level = LevelAt(sides[k], e.price)
  <2> DEFINE s == sides[k]
  <2>1. SideOK(s, Q[k]) /\ s \in SideRec
    BY <1>1 DEF Sound, Linked, SideOK
  <2>2. \/ \E i \in DOMAIN s.flat : e = [price |-> (s.base + i) * 100, level |-> s.flat[i]]
        \/ \E p \in DOMAIN s.overflow : e = [price |-> p, level |-> s.overflow[p]]
    BY DEF LevelsOf
  <2> HIDE DEF s
  <2>3. ASSUME NEW i \in DOMAIN s.flat, e = [price |-> (s.base + i) * 100, level |-> s.flat[i]]
        PROVE  e.price \in Prices /\ e.level = LevelAt(s, e.price)
    <3>1. PICK p \in Prices : InWindow(s, p) /\ Offset(s, p) = i
      BY <2>1 DEF SideOK
    <3>2. p = (s.base + i) * 100
      <4>1. p \in Nat /\ p = Cents(p) * 100 /\ Cents(p) \in Nat
        BY <3>1, Bounds, CentFacts DEF InWindow
      <4>2. s.base \in Int /\ i = Cents(p) - s.base
        BY <2>1, <3>1 DEF SideRec, Offset
      <4> QED BY ONLY <4>1, <4>2
    <3>3. LevelAt(s, p) = s.flat[i]
      BY <3>1 DEF LevelAt, FlatLevel
    <3> QED BY <2>3, <3>2, <3>3
  <2>4. ASSUME NEW p \in DOMAIN s.overflow, e = [price |-> p, level |-> s.overflow[p]]
        PROVE  e.price \in Prices /\ e.level = LevelAt(s, e.price)
    <3>1. p \in Prices /\ ~InWindow(s, p)
      BY <2>1, LevelMapsFacts DEF SideOK, SideRec
    <3> QED BY <2>4, <3>1 DEF LevelAt
  <2> QED BY <2>2, <2>3, <2>4 DEF s
<1>4. ASSUME NEW k \in DOMAIN sides, NEW e \in LevelsOf(k)
      PROVE  e.level.shares = MapThenSumSet(LAMBDA r : pool[index[r]].shares, LiveAt(k, e.price))
  <2> DEFINE p == e.price
  <2>1. k \in Keys /\ p \in Prices /\ e.level = LevelAt(sides[k], p)
    BY <1>1, <1>3
  <2> HIDE DEF p
  <2>2. LevelAt(sides[k], p).shares
          = MapThenSumSet(LAMBDA r : pool[index[r]].shares, LiveAt(k, p))
    BY <1>2, <2>1
  <2> QED BY <2>1, <2>2, Zenon DEF p
<1> HIDE DEF Now
<1> QED BY ONLY <1>4 DEF AggregatesMatch

\* With an index that takes as many entries as the pool has slots, every level
\* of the fast book describes one queue and holds the shares of its orders:
\* deductions, erasures, duplicates, replaces, levels that empty and windows
\* that move included.  Without the hypothesis an add the index has no room for
\* leaves its shares behind (add, reduce, unlink and maybe_recenter,
\* QueuesAreSound).
THEOREM LevelsHoldTheirShares ==
  ASSUME PoolSize <= IndexLimit
  PROVE  Spec => []QueuesAreSound
<1>1. IInv /\ SumsUp(Now) /\ [Next]_vars => SumsUp(Now)'
  BY NextSums
<1>2. IInv /\ SumsUp(Now) => QueuesAreSound
  BY LevelsFromInvariant, SumsFromInvariant DEF QueuesAreSound
<1> QED BY <1>1, <1>2, InitSums, BookIsSound, PTL DEF Spec
=============================================================================
