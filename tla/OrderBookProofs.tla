-------------------------- MODULE OrderBookProofs ---------------------------
(***************************************************************************)
(* Price-time priority, for every set of references, symbols and prices.   *)
(* The two invariants are inductive together: arriving behind everyone     *)
(* keeps the order total and transitive, and a departure only removes      *)
(* members.                                                                *)
(*                                                                         *)
(* Then sums over sets of orders, which the shares of a price level are:   *)
(* what the library's sum is, whichever order it adds in.                  *)
(***************************************************************************)
EXTENDS OrderBook, Integers, FiniteSetTheorems, WellFoundedInduction, TLAPS

(* The invariants, and what Arrival and Without do, as facts about a book  *)
(* b that need not be the current one.                                     *)
IsBook(b) ==
  /\ DOMAIN b.resting \subseteq Refs
  /\ b.resting \in [DOMAIN b.resting -> Order]
  /\ b.ahead \in [DOMAIN b.resting -> SUBSET DOMAIN b.resting]

IsPriority(b) ==
  /\ \A r, x \in DOMAIN b.resting : r # x =>
       /\ SamePlace(b.resting[r], b.resting[x]) <=> (r \in b.ahead[x] \/ x \in b.ahead[r])
       /\ ~(r \in b.ahead[x] /\ x \in b.ahead[r])
  /\ \A r \in DOMAIN b.resting :
       r \notin b.ahead[r] /\ \A x \in b.ahead[r] : b.ahead[x] \subseteq b.ahead[r]

IInv == IsBook(Book) /\ IsPriority(Book) /\ DOMAIN ahead = DOMAIN resting

\* Taking an order out leaves a well-ordered book.
LEMMA WithoutSound ==
  ASSUME NEW b, NEW ref, IsBook(b), IsPriority(b)
  PROVE  IsBook(Without(b, ref)) /\ IsPriority(Without(b, ref))
<1> DEFINE w == Without(b, ref)
           live == DOMAIN b.resting \ {ref}
<1>1. /\ w.resting = [r \in live |-> b.resting[r]]
      /\ w.ahead = [r \in live |-> b.ahead[r] \ {ref}]
      /\ DOMAIN w.resting = live
  BY DEF Without
<1>2. IsBook(w)
  <2>1. \A r \in live : b.resting[r] \in Order /\ b.ahead[r] \ {ref} \in SUBSET live
    BY DEF IsBook
  <2>2. live \subseteq Refs
    BY DEF IsBook
  <2> QED BY <1>1, <2>1, <2>2 DEF IsBook
<1>3. IsPriority(w)
  BY <1>1 DEF IsPriority, IsBook, SamePlace
<1> QED BY <1>2, <1>3

\* Putting a new order behind everyone at its price keeps the book ordered.
LEMMA WithSound ==
  ASSUME NEW b, NEW ref \in Refs, NEW o \in Order, IsBook(b), IsPriority(b),
         ref \notin DOMAIN b.resting
  PROVE  IsBook(With(b, ref, o)) /\ IsPriority(With(b, ref, o))
<1> DEFINE w == With(b, ref, o)
           live == DOMAIN b.resting \cup {ref}
           behind == {x \in DOMAIN b.resting : SamePlace(b.resting[x], o)}
<1>1. /\ w.resting = [r \in live |-> IF r = ref THEN o ELSE b.resting[r]]
      /\ w.ahead = [r \in live |-> IF r = ref THEN behind ELSE b.ahead[r]]
      /\ DOMAIN w.resting = live
  BY DEF With
<1>2. IsBook(w)
  <2>1. \A r \in live : /\ (IF r = ref THEN o ELSE b.resting[r]) \in Order
                        /\ (IF r = ref THEN behind ELSE b.ahead[r]) \in SUBSET live
    BY DEF IsBook
  <2>2. live \subseteq Refs
    BY DEF IsBook
  <2> QED BY <1>1, <2>1, <2>2 DEF IsBook
<1>3. ASSUME NEW r \in live, NEW x \in live, r # x
      PROVE  /\ SamePlace(w.resting[r], w.resting[x]) <=> (r \in w.ahead[x] \/ x \in w.ahead[r])
             /\ ~(r \in w.ahead[x] /\ x \in w.ahead[r])
  <2>1. CASE r # ref /\ x # ref
    BY <1>1, <1>3, <2>1 DEF IsPriority
  <2>2. CASE r = ref
    <3>1. x \in DOMAIN b.resting /\ w.ahead[x] = b.ahead[x] /\ ref \notin b.ahead[x]
      BY <1>1, <1>3, <2>2 DEF IsBook
    <3>2. w.ahead[r] = behind /\ w.resting[r] = o /\ w.resting[x] = b.resting[x]
      BY <1>1, <1>3, <2>2
    <3> QED BY <2>2, <3>1, <3>2 DEF SamePlace
  <2>3. CASE x = ref
    <3>1. r \in DOMAIN b.resting /\ w.ahead[r] = b.ahead[r] /\ ref \notin b.ahead[r]
      BY <1>1, <1>3, <2>3 DEF IsBook
    <3>2. w.ahead[x] = behind /\ w.resting[x] = o /\ w.resting[r] = b.resting[r]
      BY <1>1, <1>3, <2>3
    <3> QED BY <2>3, <3>1, <3>2 DEF SamePlace
  <2> QED BY <2>1, <2>2, <2>3
<1>4. ASSUME NEW r \in live
      PROVE  r \notin w.ahead[r] /\ \A x \in w.ahead[r] : w.ahead[x] \subseteq w.ahead[r]
  <2>1. CASE r # ref
    <3>1. /\ r \in DOMAIN b.resting /\ w.ahead[r] = b.ahead[r]
          /\ \A x \in b.ahead[r] : x \in DOMAIN b.resting /\ x # ref /\ w.ahead[x] = b.ahead[x]
      BY <1>1, <2>1 DEF IsBook
    <3> QED BY <3>1 DEF IsPriority
  <2>2. CASE r = ref
    <3>1. w.ahead[r] = behind /\ r \notin behind
      BY <1>1, <2>2
    <3>2. ASSUME NEW x \in behind, NEW y \in b.ahead[x]
          PROVE  y \in behind
      <4>1. y \in DOMAIN b.resting /\ y # x
        BY <3>2 DEF IsBook, IsPriority
      <4>2. SamePlace(b.resting[y], b.resting[x])
        BY <4>1, <3>2 DEF IsPriority
      <4> QED BY <4>1, <4>2 DEF SamePlace
    <3>3. \A x \in behind : w.ahead[x] = b.ahead[x]
      BY <1>1
    <3> QED BY <3>1, <3>2, <3>3
  <2> QED BY <2>1, <2>2
<1>5. IsPriority(w)
  BY <1>1, <1>3, <1>4 DEF IsPriority
<1> QED BY <1>2, <1>5

\* An arrival, superseding or not.
LEMMA ArrivalSound ==
  ASSUME NEW b, NEW ref \in Refs, NEW o \in Order, IsBook(b), IsPriority(b)
  PROVE  IsBook(Arrival(b, ref, o)) /\ IsPriority(Arrival(b, ref, o))
<1>1. IsBook(Without(b, ref)) /\ IsPriority(Without(b, ref))
  BY WithoutSound
<1>2. ref \notin DOMAIN Without(b, ref).resting
  BY DEF Without
<1> QED BY <1>1, <1>2, WithSound DEF Arrival

\* A reduction that leaves something of the order moves nobody.
LEMMA ReducedSound ==
  ASSUME MaxShares \in Nat, NEW ref \in DOMAIN resting, NEW qty \in 1..MaxShares, IInv,
         qty < resting[ref].shares,
         resting' = [resting EXCEPT ![ref].shares = @ - qty],
         ahead' = ahead
  PROVE  IInv'
<1> USE DEF Book
<1>1. resting[ref] \in Order /\ resting \in [DOMAIN resting -> Order]
  BY DEF IInv, IsBook
<1>2. resting[ref].shares - qty \in 1..MaxShares
  BY <1>1 DEF Order
<1>3. [resting[ref] EXCEPT !.shares = @ - qty] \in Order
  BY <1>1, <1>2 DEF Order
<1>4. /\ DOMAIN resting' = DOMAIN resting
      /\ resting' = [resting EXCEPT ![ref] = [resting[ref] EXCEPT !.shares = @ - qty]]
  BY <1>1
<1>5. resting' \in [DOMAIN resting -> Order]
  BY <1>1, <1>3, <1>4
<1>6. \A r, x \in DOMAIN resting :
        SamePlace(resting'[r], resting'[x]) <=> SamePlace(resting[r], resting[x])
  BY <1>1, <1>4 DEF SamePlace, Order
<1>7. IsBook(Book)'
  BY <1>4, <1>5 DEF IInv, IsBook
<1>8. IsPriority(Book)'
  BY <1>4, <1>6 DEF IInv, IsPriority
<1> QED BY <1>4, <1>7, <1>8 DEF IInv

\* Installing a well-ordered book.
LEMMA BecomesSound ==
  ASSUME NEW b, IsBook(b), IsPriority(b), Becomes(b)
  PROVE  IInv'
  BY DEF Becomes, IInv, IsBook, IsPriority, Book

\* The invariant behind the theorems: the book is well typed and its priority
\* is a strict total order at each price.
LEMMA BookInvariant == ASSUME MaxShares \in Nat PROVE Spec => []IInv
<1>1. Init => IInv
  BY DEF Init, IInv, IsBook, IsPriority, Book
<1>2. IInv /\ [Next]_bookVars => IInv'
  <2> SUFFICES ASSUME IInv, [Next]_bookVars PROVE IInv'
    OBVIOUS
  <2>1. IsBook(Book) /\ IsPriority(Book)
    BY DEF IInv
  <2>2. ASSUME NEW ref \in Refs, NEW o \in Order, Enter(ref, o) PROVE IInv'
    BY <2>1, <2>2, ArrivalSound, BecomesSound DEF Enter
  <2>3. ASSUME NEW ref \in Refs, NEW qty \in 1..MaxShares, Reduce(ref, qty) PROVE IInv'
    BY <2>1, <2>3, ReducedSound, WithoutSound, BecomesSound DEF Reduce
  <2>4. ASSUME NEW ref \in Refs, Leave(ref) PROVE IInv'
    BY <2>1, <2>4, WithoutSound, BecomesSound DEF Leave
  <2>5. ASSUME NEW old \in Refs, NEW new \in Refs, NEW price \in Prices,
               NEW shares \in 1..MaxShares, Replace(old, new, price, shares)
        PROVE  IInv'
    <3> DEFINE o == [resting[old] EXCEPT !.price = price, !.shares = shares]
               w == Without(Book, old)
    <3>1. o \in Order
      BY <2>1, <2>5 DEF Replace, IsBook, Book, Order
    <3>2. IsBook(w) /\ IsPriority(w)
      BY <2>1, WithoutSound
    <3>3. IsBook(Arrival(w, new, o)) /\ IsPriority(Arrival(w, new, o))
      BY <3>1, <3>2, ArrivalSound
    <3> QED BY <2>5, <3>3, BecomesSound DEF Replace
  <2>6. CASE UNCHANGED bookVars
    BY <2>6 DEF bookVars, IInv, IsBook, IsPriority, Book
  <2> QED BY <2>2, <2>3, <2>4, <2>5, <2>6 DEF Next
<1> QED BY <1>1, <1>2, PTL DEF Spec

\* The promise the two books are held to: at every price the resting orders
\* are in a strict total order, whatever the sequence of arrivals, executions,
\* deletes and replaces (OrderBook's PriorityIsTotal and PriorityIsTransitive).
THEOREM Priority ==
  ASSUME MaxShares \in Nat
  PROVE  Spec => [](BookTypeOK /\ PriorityIsTotal /\ PriorityIsTransitive)
<1>1. IInv => BookTypeOK /\ PriorityIsTotal /\ PriorityIsTransitive
  BY DEF IInv, IsBook, IsPriority, Book, BookTypeOK, PriorityIsTotal, PriorityIsTransitive
<1> QED BY <1>1, BookInvariant, PTL

\* What an arrival does to the queues: nobody who rests is put behind anyone
\* new, and the newcomer is ahead of no one.
LEMMA ArrivalIsLast ==
  ASSUME NEW b, NEW ref, NEW o
  PROVE  /\ DOMAIN Arrival(b, ref, o).resting = DOMAIN b.resting \cup {ref}
         /\ \A r \in DOMAIN b.resting \ {ref} : Arrival(b, ref, o).ahead[r] \subseteq b.ahead[r]
         /\ \A x \in DOMAIN b.resting \cup {ref} : ref \notin Arrival(b, ref, o).ahead[x]
  BY DEF Arrival, With, Without

\* Nobody is overtaken (NobodyIsOvertaken): an execution, a departure or the
\* arrival of another order never puts anyone in front of an order that keeps
\* its place, and an order that enters anew goes behind everyone.
THEOREM NoOvertaking == Spec => NobodyIsOvertaken
<1>1. [Next]_bookVars => [OvertakesNobody]_bookVars
  <2> SUFFICES ASSUME Next PROVE OvertakesNobody
    BY DEF bookVars
  <2>1. ASSUME NEW ref \in Refs, NEW o \in Order, Enter(ref, o) PROVE OvertakesNobody
    BY <2>1, ArrivalIsLast DEF Enter, Becomes, Book, OvertakesNobody
  <2>2. ASSUME NEW ref, Becomes(Without(Book, ref)) PROVE OvertakesNobody
    BY <2>2 DEF Becomes, Without, Book, OvertakesNobody
  <2>3. ASSUME NEW ref \in Refs, NEW qty \in 1..MaxShares, Reduce(ref, qty) PROVE OvertakesNobody
    BY <2>2, <2>3 DEF Reduce, OvertakesNobody
  <2>4. ASSUME NEW ref \in Refs, Leave(ref) PROVE OvertakesNobody
    BY <2>2, <2>4 DEF Leave
  <2>5. ASSUME NEW old \in Refs, NEW new \in Refs, NEW price \in Prices,
               NEW shares \in 1..MaxShares, Replace(old, new, price, shares)
        PROVE  OvertakesNobody
    <3> DEFINE w == Without(Book, old)
               a == Arrival(w, new, [resting[old] EXCEPT !.price = price, !.shares = shares])
    <3>1. resting' = a.resting /\ ahead' = a.ahead
      BY <2>5 DEF Replace, Becomes
    <3>2. DOMAIN w.resting = DOMAIN resting \ {old}
      BY DEF Without, Book
    <3>3. \A r \in DOMAIN w.resting : w.ahead[r] \subseteq ahead[r]
      BY DEF Without, Book
    <3>4. /\ DOMAIN a.resting = DOMAIN w.resting \cup {new}
          /\ \A r \in DOMAIN w.resting \ {new} : a.ahead[r] \subseteq w.ahead[r]
          /\ \A x \in DOMAIN w.resting \cup {new} : new \notin a.ahead[x]
      BY ArrivalIsLast
    <3> QED BY <3>1, <3>2, <3>3, <3>4 DEF OvertakesNobody
  <2> QED BY <2>1, <2>3, <2>4, <2>5 DEF Next
<1> QED BY <1>1, PTL DEF Spec, NobodyIsOvertaken

----------------------------------------------------------------------------
(* The shares at a price are a sum over the orders there.  Sums is the      *)
(* recursion by which the library computes one, Total its value; it does    *)
(* not depend on the order in which the elements are taken out.             *)

OneOf(s) == CHOOSE x \in s : TRUE
Sums(f, S, g) ==
  g = [s \in SUBSET S |-> IF s = {} THEN 0 ELSE f[OneOf(s)] + g[s \ {OneOf(s)}]]
Total(f, S) == (CHOOSE g : Sums(f, S, g))[S]

AgreeOn(f, h, U) == \A x \in U : f[x] = h[x]

\* Induction over the numbers, in the form in which it is used here.
LEMMA LeastExists ==
  ASSUME NEW T \in SUBSET Nat, T # {}
  PROVE  \E x \in T : \A y \in T : x <= y
<1> DEFINE R == OpToRel(<, Nat)
<1>1. IsWellFoundedOn(R, Nat)
  BY NatLessThanWellFounded
<1>2. \A x, y \in Nat : x < y => <<x, y>> \in R
  BY DEF OpToRel
<1> HIDE DEF R
<1>3. PICK x \in T : \A y \in T : ~(<<y, x>> \in R)
  BY <1>1, WFMin
<1>4. ASSUME NEW y \in T PROVE x <= y
  <2>1. x \in Nat /\ y \in Nat
    OBVIOUS
  <2>2. ~(y < x)
    BY <1>2, <1>3, <2>1
  <2> QED BY <2>1, <2>2
<1> QED BY <1>4

\* A set of finite sets that has a member has one of the fewest elements.
LEMMA SmallestExists ==
  ASSUME NEW C, C # {}, \A s \in C : IsFiniteSet(s)
  PROVE  \E s \in C : \A t \in C : Cardinality(s) <= Cardinality(t)
<1> DEFINE T == {Cardinality(s) : s \in C}
<1>1. T # {} /\ T \in SUBSET Nat
  BY FS_CardinalityType
<1>2. PICK n \in T : \A m \in T : n <= m
  <2> HIDE DEF T
  <2> QED BY <1>1, LeastExists
<1> QED BY <1>2

LEMMA OneLess ==
  ASSUME NEW s, IsFiniteSet(s), NEW x \in s
  PROVE  /\ IsFiniteSet(s \ {x})
         /\ Cardinality(s) \in Nat /\ Cardinality(s \ {x}) \in Nat
         /\ Cardinality(s \ {x}) = Cardinality(s) - 1
  BY FS_RemoveElement, FS_CardinalityType

LEMMA OneOfIsOne ==
  ASSUME NEW s, s # {}
  PROVE  OneOf(s) \in s
  BY DEF OneOf

LEMMA SumsExist ==
  ASSUME NEW f, NEW S, IsFiniteSet(S)
  PROVE  \E g : Sums(f, S, g)
<1> DEFINE UpTo(m) == {s \in SUBSET S : Cardinality(s) <= m}
           Step(g, s) == IF s = {} THEN 0 ELSE f[OneOf(s)] + g[s \ {OneOf(s)}]
           Partial(m, g) == g = [s \in UpTo(m) |-> Step(g, s)]
           T == {m \in Nat : ~ \E g : Partial(m, g)}
<1>1. ASSUME NEW s \in SUBSET S
      PROVE  /\ IsFiniteSet(s) /\ Cardinality(s) \in Nat
             /\ Cardinality(s) <= Cardinality(S)
             /\ Cardinality(s) = 0 <=> s = {}
  BY FS_Subset, FS_CardinalityType, FS_EmptySet
<1>2. ASSUME NEW m \in Nat, NEW s \in UpTo(m), s # {}
      PROVE  s \ {OneOf(s)} \in UpTo(m) /\ Cardinality(s \ {OneOf(s)}) = Cardinality(s) - 1
  <2>1. s \in SUBSET S /\ Cardinality(s) <= m /\ OneOf(s) \in s
    BY <1>2, OneOfIsOne
  <2>2. /\ Cardinality(s) \in Nat /\ Cardinality(s \ {OneOf(s)}) \in Nat
        /\ Cardinality(s \ {OneOf(s)}) = Cardinality(s) - 1
    BY <1>1, <2>1, OneLess
  <2> QED BY <2>1, <2>2
<1>3. T = {}
  <2> SUFFICES ASSUME T # {} PROVE FALSE
    OBVIOUS
  <2>1. PICK k \in T : \A m \in T : k <= m
    <3> HIDE DEF T
    <3>1. T \in SUBSET Nat
      BY DEF T
    <3> QED BY <3>1, LeastExists
  <2>2. k \in Nat /\ ~ \E g : Partial(k, g)
    OBVIOUS
  <2>3. CASE k = 0
    <3> DEFINE g == [s \in UpTo(0) |-> 0]
    <3>1. \A s \in UpTo(0) : s = {}
      <4> TAKE s \in UpTo(0)
      <4>1. Cardinality(s) \in Nat /\ Cardinality(s) <= 0 /\ (Cardinality(s) = 0 <=> s = {})
        BY <1>1
      <4> QED BY <4>1
    <3> HIDE DEF UpTo
    <3>2. Partial(0, g)
      BY <3>1
    <3> HIDE DEF Partial, g
    <3> QED BY <2>2, <2>3, <3>2
  <2>4. CASE k # 0
    <3>1. k - 1 \in Nat /\ ~(k <= k - 1)
      BY <2>2, <2>4
    <3>2. PICK g : Partial(k - 1, g)
      BY <2>1, <3>1
    <3> DEFINE h == [s \in UpTo(k) |-> Step(g, s)]
    <3>3. ASSUME NEW s \in UpTo(k), s # {} PROVE h[s \ {OneOf(s)}] = g[s \ {OneOf(s)}]
      <4> DEFINE t == s \ {OneOf(s)}
      <4>1. t \in UpTo(k) /\ Cardinality(t) = Cardinality(s) - 1
        BY <1>2, <2>2, <3>3
      <4>2. Cardinality(s) \in Nat /\ Cardinality(s) <= k
        BY <1>1
      <4>3. t \in UpTo(k - 1)
        <5>1. Cardinality(t) <= k - 1
          BY <2>2, <4>1, <4>2
        <5> QED BY <4>1, <5>1
      <4> HIDE DEF t, UpTo, Step
      <4>4. g[t] = Step(g, t)
        BY <3>2, <4>3
      <4>5. h[t] = Step(g, t)
        BY <4>1
      <4> QED BY <4>4, <4>5 DEF t
    <3>4. ASSUME NEW s \in UpTo(k) PROVE Step(g, s) = Step(h, s)
      <4> HIDE DEF h, UpTo
      <4> QED BY <3>3
    <3> HIDE DEF UpTo, Step
    <3>5. Partial(k, h)
      BY <3>4
    <3> QED BY <2>2, <3>5
  <2> QED BY <2>3, <2>4
<1>4. PICK g : Partial(Cardinality(S), g)
  BY <1>1, <1>3
<1>5. UpTo(Cardinality(S)) = SUBSET S
  BY <1>1
<1>6. Sums(f, S, g)
  <2> HIDE DEF UpTo
  <2> QED BY <1>4, <1>5 DEF Sums
<1> QED BY <1>6

\* A sum is determined by the elements and their values.
LEMMA SumsAgree ==
  ASSUME NEW f, NEW h, NEW S, NEW T, IsFiniteSet(S), IsFiniteSet(T),
         NEW g, NEW k, Sums(f, S, g), Sums(h, T, k),
         NEW U, U \subseteq S, U \subseteq T, AgreeOn(f, h, U)
  PROVE  g[U] = k[U]
<1> DEFINE C == {s \in SUBSET U : g[s] # k[s]}
<1> SUFFICES ASSUME C # {} PROVE FALSE
  OBVIOUS
<1>1. PICK s \in C : \A t \in C : Cardinality(s) <= Cardinality(t)
  <2>1. \A s \in C : IsFiniteSet(s)
    BY FS_Subset
  <2> HIDE DEF C
  <2> QED BY <2>1, SmallestExists
<1>2. s \in SUBSET U /\ s \in SUBSET S /\ s \in SUBSET T /\ g[s] # k[s] /\ IsFiniteSet(s)
  BY FS_Subset
<1>3. /\ g[s] = IF s = {} THEN 0 ELSE f[OneOf(s)] + g[s \ {OneOf(s)}]
      /\ k[s] = IF s = {} THEN 0 ELSE h[OneOf(s)] + k[s \ {OneOf(s)}]
  BY <1>2 DEF Sums
<1>4. s # {} /\ OneOf(s) \in s /\ OneOf(s) \in U
  BY <1>2, <1>3, OneOfIsOne
<1>5. s \ {OneOf(s)} \notin C
  <2>1. /\ Cardinality(s) \in Nat /\ Cardinality(s \ {OneOf(s)}) \in Nat
        /\ Cardinality(s \ {OneOf(s)}) = Cardinality(s) - 1
    BY <1>2, <1>4, OneLess
  <2>2. ~(Cardinality(s) <= Cardinality(s \ {OneOf(s)}))
    BY <2>1
  <2> HIDE DEF C
  <2> QED BY <1>1, <2>2
<1>6. g[s \ {OneOf(s)}] = k[s \ {OneOf(s)}]
  BY <1>2, <1>5
<1>7. f[OneOf(s)] = h[OneOf(s)]
  BY <1>4 DEF AgreeOn
<1> QED BY <1>2, <1>3, <1>4, <1>6, <1>7

LEMMA SumsAgreeBelow ==
  ASSUME NEW f, NEW S, NEW T, IsFiniteSet(S), T \subseteq S,
         NEW g, NEW k, Sums(f, S, g), Sums(f, T, k)
  PROVE  g[T] = k[T]
<1>1. IsFiniteSet(T) /\ T \subseteq T /\ AgreeOn(f, f, T)
  BY FS_Subset DEF AgreeOn
<1> QED BY <1>1, SumsAgree

LEMMA TotalIsTheSum ==
  ASSUME NEW f, NEW S, IsFiniteSet(S)
  PROVE  /\ Sums(f, S, CHOOSE g : Sums(f, S, g))
         /\ \A g : Sums(f, S, g) => Total(f, S) = g[S]
<1>1. Sums(f, S, CHOOSE g : Sums(f, S, g))
  BY SumsExist
<1>2. ASSUME NEW g, Sums(f, S, g) PROVE Total(f, S) = g[S]
  <2>1. S \subseteq S
    OBVIOUS
  <2> DEFINE k == CHOOSE k : Sums(f, S, k)
  <2>2. Sums(f, S, k) /\ Total(f, S) = k[S]
    BY <1>1 DEF Total
  <2> HIDE DEF k
  <2> QED BY <1>2, <2>1, <2>2, SumsAgreeBelow
<1> QED BY <1>1, <1>2

LEMMA TotalOfSame ==
  ASSUME NEW f, NEW h, NEW S, IsFiniteSet(S), \A x \in S : f[x] = h[x]
  PROVE  Total(f, S) = Total(h, S)
<1>1. PICK g : Sums(f, S, g)
  BY SumsExist
<1>2. PICK k : Sums(h, S, k)
  BY SumsExist
<1>3. g[S] = k[S]
  <2>1. AgreeOn(f, h, S) /\ S \subseteq S
    BY DEF AgreeOn
  <2> QED BY <1>1, <1>2, <2>1, SumsAgree
<1> QED BY <1>1, <1>2, <1>3, TotalIsTheSum

LEMMA TotalUnfolds ==
  ASSUME NEW f, NEW S, IsFiniteSet(S)
  PROVE  /\ S = {} => Total(f, S) = 0
         /\ S # {} => Total(f, S) = f[OneOf(S)] + Total(f, S \ {OneOf(S)})
<1>1. PICK g : Sums(f, S, g)
  BY SumsExist
<1>2. Total(f, S) = g[S]
  BY <1>1, TotalIsTheSum
<1>3. g[S] = IF S = {} THEN 0 ELSE f[OneOf(S)] + g[S \ {OneOf(S)}]
  BY <1>1 DEF Sums
<1>4. ASSUME S # {} PROVE Total(f, S \ {OneOf(S)}) = g[S \ {OneOf(S)}]
  <2>1. IsFiniteSet(S \ {OneOf(S)})
    BY FS_Subset
  <2>2. PICK k : Sums(f, S \ {OneOf(S)}, k)
    BY <2>1, SumsExist
  <2>3. k[S \ {OneOf(S)}] = g[S \ {OneOf(S)}]
    BY <1>1, <2>2, SumsAgreeBelow
  <2> QED BY <2>1, <2>2, <2>3, TotalIsTheSum
<1> QED BY <1>2, <1>3, <1>4

LEMMA TotalIsInt ==
  ASSUME NEW f, NEW S, IsFiniteSet(S), \A x \in S : f[x] \in Int
  PROVE  Total(f, S) \in Int
<1> DEFINE C == {s \in SUBSET S : Total(f, s) \notin Int}
<1> SUFFICES ASSUME C # {} PROVE FALSE
  OBVIOUS
<1>1. PICK s \in C : \A t \in C : Cardinality(s) <= Cardinality(t)
  <2>1. \A s \in C : IsFiniteSet(s)
    BY FS_Subset
  <2> HIDE DEF C
  <2> QED BY <2>1, SmallestExists
<1>2. s \in SUBSET S /\ IsFiniteSet(s) /\ Total(f, s) \notin Int
  BY FS_Subset
<1>3. CASE s = {}
  <2>1. Total(f, s) = 0
    BY <1>2, <1>3, TotalUnfolds
  <2> QED BY <1>2, <2>1
<1>4. CASE s # {}
  <2>1. OneOf(s) \in s /\ Total(f, s) = f[OneOf(s)] + Total(f, s \ {OneOf(s)})
    BY <1>2, <1>4, OneOfIsOne, TotalUnfolds
  <2>2. /\ Cardinality(s) \in Nat /\ Cardinality(s \ {OneOf(s)}) \in Nat
        /\ Cardinality(s \ {OneOf(s)}) = Cardinality(s) - 1
    BY <1>2, <2>1, OneLess
  <2>3. s \ {OneOf(s)} \notin C
    <3>1. ~(Cardinality(s) <= Cardinality(s \ {OneOf(s)}))
      BY <2>2
    <3> HIDE DEF C
    <3> QED BY <1>1, <3>1
  <2>4. Total(f, s \ {OneOf(s)}) \in Int /\ f[OneOf(s)] \in Int
    BY <1>2, <2>1, <2>3
  <2> QED BY <1>2, <2>1, <2>4
<1> QED BY <1>3, <1>4

\* Any element may be taken out first.
LEMMA TotalSplits ==
  ASSUME NEW f, NEW S, IsFiniteSet(S), \A x \in S : f[x] \in Int, NEW a \in S
  PROVE  /\ Total(f, S) = f[a] + Total(f, S \ {a})
         /\ Total(f, S) \in Int /\ Total(f, S \ {a}) \in Int
<1> DEFINE Splits(s) == \A x \in s : Total(f, s) = f[x] + Total(f, s \ {x})
           C == {s \in SUBSET S : ~Splits(s)}
<1>1. \A s \in SUBSET S : IsFiniteSet(s) /\ Total(f, s) \in Int
  <2> TAKE s \in SUBSET S
  <2>1. IsFiniteSet(s)
    BY FS_Subset
  <2> QED BY <2>1, TotalIsInt
<1>2. C = {}
  <2> SUFFICES ASSUME C # {} PROVE FALSE
    OBVIOUS
  <2>1. PICK s \in C : \A t \in C : Cardinality(s) <= Cardinality(t)
    <3>1. \A s \in C : IsFiniteSet(s)
      BY <1>1
    <3> HIDE DEF C
    <3> QED BY <3>1, SmallestExists
  <2>2. s \in SUBSET S /\ ~Splits(s)
    OBVIOUS
  <2>3. PICK x \in s : Total(f, s) # f[x] + Total(f, s \ {x})
    BY <2>2
  <2> DEFINE c == OneOf(s)
  <2>4. c \in s /\ Total(f, s) = f[c] + Total(f, s \ {c})
    BY <1>1, <2>2, <2>3, OneOfIsOne, TotalUnfolds
  <2>5. c # x
    BY <2>3, <2>4
  <2>6. ASSUME NEW y \in s PROVE s \ {y} \in SUBSET S /\ Splits(s \ {y})
    <3>1. /\ Cardinality(s) \in Nat /\ Cardinality(s \ {y}) \in Nat
          /\ Cardinality(s \ {y}) = Cardinality(s) - 1
      BY <1>1, <2>2, OneLess
    <3>2. ~(Cardinality(s) <= Cardinality(s \ {y}))
      BY <3>1
    <3>3. s \ {y} \in SUBSET S
      BY <2>2
    <3>4. s \ {y} \notin C
      <4> HIDE DEF C
      <4> QED BY <2>1, <3>2
    <3> HIDE DEF Splits
    <3> QED BY <3>3, <3>4
  <2>7. Total(f, s \ {c}) = f[x] + Total(f, (s \ {c}) \ {x})
    BY <2>4, <2>5, <2>6
  <2>8. Total(f, s \ {x}) = f[c] + Total(f, (s \ {x}) \ {c})
    BY <2>4, <2>5, <2>6
  <2>9. (s \ {c}) \ {x} = (s \ {x}) \ {c} /\ (s \ {c}) \ {x} \in SUBSET S
    BY <2>2
  <2> DEFINE rest == Total(f, (s \ {c}) \ {x})
  <2>10. rest \in Int /\ f[c] \in Int /\ f[x] \in Int
    BY <1>1, <2>2, <2>4, <2>9
  <2>11. Total(f, s) = f[c] + (f[x] + rest) /\ f[x] + Total(f, s \ {x}) = f[x] + (f[c] + rest)
    BY <2>4, <2>7, <2>8, <2>9
  <2> HIDE DEF rest, c
  <2> QED BY <2>3, <2>10, <2>11
<1>3. Splits(S)
  <2>1. S \in SUBSET S
    OBVIOUS
  <2> HIDE DEF Splits
  <2> QED BY <1>2, <2>1
<1> QED BY <1>1, <1>3

\* T is S and one element more.
OneMore(S, T, a) == IsFiniteSet(T) /\ a \in T /\ S = T \ {a}
IntegersOn(f, S) == \A x \in S : f[x] \in Int

LEMMA TotalOfOneMore ==
  ASSUME NEW f, NEW h, NEW S, NEW T, NEW a,
         OneMore(S, T, a), IntegersOn(f, T), AgreeOn(f, h, S)
  PROVE  Total(f, T) = f[a] + Total(h, S) /\ Total(h, S) \in Int /\ f[a] \in Int
<1>1. IsFiniteSet(T) /\ IsFiniteSet(S) /\ a \in T /\ S = T \ {a}
  BY FS_Subset DEF OneMore
<1>2. \A x \in T : f[x] \in Int
  BY DEF IntegersOn
<1>3. Total(f, T) = f[a] + Total(f, T \ {a}) /\ Total(f, T \ {a}) \in Int
  BY <1>1, <1>2, TotalSplits
<1>4. Total(f, S) = Total(h, S)
  BY <1>1, TotalOfSame DEF AgreeOn
<1> QED BY ONLY <1>1, <1>2, <1>3, <1>4, Zenon
=============================================================================
