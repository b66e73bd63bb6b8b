--------------------------- MODULE QueueSimProofs ---------------------------
(***************************************************************************)
(* The queue simulator, by itself and as the strategy drives it: for every *)
(* feed, every set of symbols and every opening book.                      *)
(***************************************************************************)
EXTENDS ExporterProofs

----------------------------------------------------------------------------
(* The numbers of a finite set in ascending order.                         *)

Below(S, x) == {y \in S : y < x}

\* The number of members below one tells the members apart, and every number
\* there is room for is some member's.
LEMMA RankIsInjective ==
  ASSUME NEW S \in SUBSET Nat, IsFiniteSet(S), NEW x \in S
  PROVE  /\ Cardinality(S) \in Nat /\ Cardinality(Below(S, x)) \in Nat
         /\ Cardinality(Below(S, x)) < Cardinality(S)
         /\ \A y \in S : Cardinality(Below(S, y)) = Cardinality(Below(S, x)) => y = x
<1>1. ASSUME NEW a \in S PROVE
        /\ Below(S, a) \in SUBSET S /\ IsFiniteSet(Below(S, a))
        /\ Cardinality(Below(S, a)) \in Nat /\ Cardinality(S) \in Nat
        /\ Cardinality(Below(S, a)) <= Cardinality(S)
        /\ a \notin Below(S, a)
        /\ Cardinality(Below(S, a)) # Cardinality(S)
  <2>1. Below(S, a) \in SUBSET S /\ a \notin Below(S, a)
    BY DEF Below
  <2>2. IsFiniteSet(Below(S, a)) /\ Cardinality(Below(S, a)) <= Cardinality(S)
        /\ (Cardinality(S) = Cardinality(Below(S, a)) => S = Below(S, a))
    BY <2>1, FS_Subset
  <2> QED BY <2>1, <2>2, FS_CardinalityType
<1>2. ASSUME NEW a \in S, NEW b \in S, a < b
      PROVE  Cardinality(Below(S, a)) # Cardinality(Below(S, b))
  <2>0. /\ \A y \in S : y \in Nat /\ y < a => y < b
        /\ ~(a < a)
    BY <1>2
  <2>1. Below(S, a) \in SUBSET Below(S, b) /\ a \in Below(S, b) /\ a \notin Below(S, a)
    BY <1>2, <2>0, Zenon DEF Below
  <2>2. Cardinality(Below(S, b)) = Cardinality(Below(S, a)) => Below(S, b) = Below(S, a)
    BY <1>1, <2>1, FS_Subset
  <2> QED BY <2>1, <2>2
<1>3. ASSUME NEW y \in S, Cardinality(Below(S, y)) = Cardinality(Below(S, x)) PROVE y = x
  <2>1. ~(x < y) /\ ~(y < x)
    BY <1>2, <1>3
  <2>2. x \in Nat /\ y \in Nat
    OBVIOUS
  <2> QED BY ONLY <2>1, <2>2
<1>4. Cardinality(Below(S, x)) < Cardinality(S)
  BY <1>1
<1> QED BY <1>1, <1>3, <1>4

LEMMA RankIsOnto ==
  ASSUME NEW S \in SUBSET Nat, IsFiniteSet(S), NEW k \in 1..Cardinality(S)
  PROVE  \E x \in S : Cardinality(Below(S, x)) = k - 1
<1> DEFINE n == Cardinality(S)
           rank == [x \in S |-> Cardinality(Below(S, x)) + 1]
<1>1. n \in Nat
  BY FS_CardinalityType
<1>2. rank \in [S -> 1..n]
  <2> SUFFICES ASSUME NEW x \in S PROVE Cardinality(Below(S, x)) + 1 \in 1..n
    OBVIOUS
  <2>1. Cardinality(Below(S, x)) \in Nat /\ Cardinality(Below(S, x)) < n
    BY RankIsInjective
  <2> QED BY <1>1, <2>1
<1>3. \A x, y \in S : rank[x] = rank[y] => x = y
  <2> SUFFICES ASSUME NEW x \in S, NEW y \in S, rank[x] = rank[y] PROVE x = y
    OBVIOUS
  <2>1. Cardinality(Below(S, x)) \in Nat /\ Cardinality(Below(S, y)) \in Nat
    BY RankIsInjective
  <2>2. Cardinality(Below(S, x)) = Cardinality(Below(S, y))
    BY <2>1
  <2> QED BY <2>2, RankIsInjective
<1>4. rank \in Injection(S, 1..n)
  <2> HIDE DEF rank
  <2> QED BY <1>2, <1>3 DEF Injection, IsInjective
<1>5. IsFiniteSet(1..n) /\ Cardinality(1..n) = n
  BY <1>1, FS_Interval
<1>6. rank \in Surjection(S, 1..n)
  <2> HIDE DEF rank
  <2> QED BY <1>4, <1>5, FS_Injection
<1>7. PICK x \in S : rank[x] = k
  <2> HIDE DEF rank
  <2> QED BY <1>6 DEF Surjection
<1>8. Cardinality(Below(S, x)) \in Nat
  BY RankIsInjective
<1> QED BY <1>7, <1>8

\* What Ascending holds: every member once.
LEMMA AscendingSound ==
  ASSUME NEW S \in SUBSET Nat, IsFiniteSet(S)
  PROVE  /\ Cardinality(S) \in Nat /\ DOMAIN Ascending(S) = 1..Cardinality(S)
         /\ Ascending(S) = [k \in 1..Cardinality(S) |-> Ascending(S)[k]]
         /\ \A k \in 1..Cardinality(S) : /\ Ascending(S)[k] \in S
                                         /\ Cardinality(Below(S, Ascending(S)[k])) = k - 1
         /\ \A x \in S : /\ Cardinality(Below(S, x)) + 1 \in 1..Cardinality(S)
                         /\ Ascending(S)[Cardinality(Below(S, x)) + 1] = x
<1> DEFINE n == Cardinality(S)
           At(k) == CHOOSE x \in S : Cardinality(Below(S, x)) = k - 1
<1>1. n \in Nat
  BY FS_CardinalityType
<1>2. Ascending(S) = [k \in 1..n |-> At(k)]
  BY DEF Ascending, Below
<1>3. ASSUME NEW k \in 1..n PROVE At(k) \in S /\ Cardinality(Below(S, At(k))) = k - 1
  BY RankIsOnto
<1>4. ASSUME NEW x \in S
      PROVE  Cardinality(Below(S, x)) + 1 \in 1..n /\ At(Cardinality(Below(S, x)) + 1) = x
  <2> DEFINE r == Cardinality(Below(S, x))
  <2>1. r \in Nat /\ r < n
    BY RankIsInjective
  <2>2. r + 1 \in 1..n /\ (r + 1) - 1 = r
    BY <1>1, <2>1
  <2>3. At(r + 1) \in S /\ Cardinality(Below(S, At(r + 1))) = r
    <3> HIDE DEF At, r
    <3> QED BY <1>3, <2>2
  <2>4. At(r + 1) = x
    <3> HIDE DEF At
    <3>1. \A y \in S : Cardinality(Below(S, y)) = r => y = x
      BY RankIsInjective
    <3> QED BY <2>3, <3>1
  <2> QED BY <2>2, <2>4
<1> HIDE DEF At
<1>5. Ascending(S) = [k \in 1..n |-> Ascending(S)[k]]
  BY <1>2
<1> QED BY <1>1, <1>2, <1>3, <1>4, <1>5

\* A number greater than all of them is appended.
LEMMA AscendingAppends ==
  ASSUME NEW S \in SUBSET Nat, IsFiniteSet(S), NEW m \in Nat, \A x \in S : x < m
  PROVE  Ascending(S \cup {m}) = Append(Ascending(S), m)
<1> DEFINE T == S \cup {m}
           n == Cardinality(S)
<1>1. m \notin S
  <2>1. ~(m < m)
    OBVIOUS
  <2> QED BY <2>1
<1>2. IsFiniteSet(T) /\ Cardinality(T) = n + 1 /\ T \in SUBSET Nat /\ n \in Nat
  BY <1>1, FS_AddElement, FS_CardinalityType
<1>3. \A x \in S : Below(T, x) = Below(S, x)
  <2> SUFFICES ASSUME NEW x \in S PROVE Below(T, x) = Below(S, x)
    OBVIOUS
  <2>1. x < m /\ x \in Nat
    OBVIOUS
  <2>2. ~(m < x)
    BY <2>1
  <2> QED BY <2>2 DEF Below
<1>4. Below(T, m) = S
  <2>1. ~(m < m)
    OBVIOUS
  <2> QED BY <2>1 DEF Below
<1>5. ASSUME NEW k \in 1..n PROVE Ascending(T)[k] = Ascending(S)[k]
  <2> DEFINE x == Ascending(S)[k]
  <2>1. x \in S /\ Cardinality(Below(S, x)) = k - 1
    BY AscendingSound
  <2>2. x \in T /\ Cardinality(Below(T, x)) = k - 1
    BY <1>3, <2>1
  <2> HIDE DEF x, T
  <2>3. Ascending(T)[Cardinality(Below(T, x)) + 1] = x
    BY <1>2, <2>2, AscendingSound
  <2>4. Cardinality(Below(T, x)) + 1 = k
    BY <1>2, <2>2
  <2> QED BY <2>3, <2>4 DEF x
<1>6. Ascending(T)[n + 1] = m
  <2>1. m \in T /\ Cardinality(Below(T, m)) = n
    BY <1>4
  <2> HIDE DEF T
  <2> QED BY <1>2, <2>1, AscendingSound
<1>7. /\ DOMAIN Ascending(T) = 1..(n + 1) /\ DOMAIN Ascending(S) = 1..n
      /\ Ascending(T) = [k \in 1..(n+1) |-> Ascending(T)[k]]
  <2> HIDE DEF T
  <2> QED BY <1>2, AscendingSound
<1>8. Ascending(S) \in Seq(Nat)
  <2>1. Ascending(S) = [k \in 1..n |-> Ascending(S)[k]]
    BY AscendingSound
  <2>2. \A k \in 1..n : Ascending(S)[k] \in Nat
    BY AscendingSound
  <2> QED BY <1>2, <2>1, <2>2
<1> HIDE DEF T
<1> DEFINE a == Ascending(S)
<1>9. /\ Append(a, m) \in Seq(Nat) /\ Len(a) = n /\ Len(Append(a, m)) = n + 1
       /\ \A k \in 1..n : Append(a, m)[k] = a[k]
       /\ Append(a, m)[n + 1] = m
  <2>1. a \in Seq(Nat) /\ Len(a) = n
    BY <1>2, <1>7, <1>8
  <2> HIDE DEF a
  <2> QED BY <2>1
<1> HIDE DEF a
<1>10. DOMAIN Append(a, m) = 1..(n + 1) /\ Append(a, m) = [k \in 1..(n + 1) |-> Append(a, m)[k]]
  <2>1. Append(a, m) \in [1..Len(Append(a, m)) -> Nat]
    BY <1>9, LenProperties
  <2> QED BY <1>9, <2>1
<1>11. \A k \in 1..(n + 1) : Ascending(T)[k] = Append(a, m)[k]
  <2> SUFFICES ASSUME NEW k \in 1..(n + 1) PROVE Ascending(T)[k] = Append(a, m)[k]
    OBVIOUS
  <2>1. k \in 1..n \/ k = n + 1
    BY <1>2
  <2> QED BY <1>5, <1>6, <1>9, <2>1 DEF a
<1> QED BY <1>7, <1>10, <1>11 DEF a, T
----------------------------------------------------------------------------
(* The simulator's record: its live orders, and where each symbol's are.   *)

OrderFields == {"id", "locate", "side", "price", "entered", "depth", "ahead_refs",
                "any_live", "models"}
SimFields == {"live", "by_locate", "pending", "two_sided", "universe_refreshed",
              "next_placement", "last_ts", "last_sweep", "placements", "skipped",
              "overrun", "res", "finished"}

IsOrder(o) ==
  /\ DOMAIN o = OrderFields /\ o.locate \in Locates
  /\ DOMAIN o.models = Models
  /\ \A m \in Models : DOMAIN o.models[m] = {"ahead", "live", "reason"}

IsList(q) == DOMAIN q = 1..Len(q) /\ Len(q) \in Nat /\ q = [i \in 1..Len(q) |-> q[i]]

Indexed(s) ==
  /\ DOMAIN s = SimFields
  /\ IsList(s.live) /\ \A i \in DOMAIN s.live : IsOrder(s.live[i])
  /\ DOMAIN s.by_locate = Locates /\ s.two_sided \subseteq Locates
  /\ \A l \in Locates : s.by_locate[l] = Ascending(Positions(s.live, l))

\* What never changes of a synthetic order.
SameOrder(p, o) ==
  /\ p.id = o.id /\ p.locate = o.locate /\ p.side = o.side /\ p.price = o.price
  /\ p.entered = o.entered /\ p.depth = o.depth

\* A list by its members, and a longer one.
LEMMA ListOf ==
  ASSUME NEW q, NEW n \in Nat, q = [i \in 1..n |-> q[i]]
  PROVE  IsList(q) /\ Len(q) = n
<1> DEFINE S == {q[i] : i \in 1..n}
<1>1. q \in [1..n -> S]
  OBVIOUS
<1> HIDE DEF S
<1>2. q \in Seq(S)
  BY <1>1, SeqDef
<1>3. Len(q) \in Nat /\ DOMAIN q = 1..Len(q)
  BY <1>2, LenProperties
<1>4. Len(q) = n
  BY <1>1, <1>3
<1> QED BY <1>3, <1>4 DEF IsList

LEMMA ListAppends ==
  ASSUME NEW q, IsList(q), NEW o
  PROVE  /\ IsList(Append(q, o)) /\ Len(Append(q, o)) = Len(q) + 1
         /\ \A i \in 1..Len(q) : Append(q, o)[i] = q[i]
         /\ Append(q, o)[Len(q) + 1] = o
<1> DEFINE S == {q[i] : i \in 1..Len(q)} \cup {o}
<1>1. Len(q) \in Nat /\ q \in [1..Len(q) -> S] /\ o \in S
  BY DEF IsList
<1> HIDE DEF S
<1>2. q \in Seq(S)
  BY <1>1, SeqDef
<1>3. /\ Append(q, o) \in Seq(S) /\ Len(Append(q, o)) = Len(q) + 1
      /\ \A i \in 1..Len(q) : Append(q, o)[i] = q[i]
      /\ Append(q, o)[Len(q) + 1] = o
  BY <1>1, <1>2
<1>4. Append(q, o) \in [1..(Len(q) + 1) -> S]
  BY <1>3, LenProperties
<1>5. IsList(Append(q, o))
  <2>1. Append(q, o) = [i \in 1..(Len(q) + 1) |-> Append(q, o)[i]]
    BY <1>4
  <2> QED BY <1>1, <2>1, ListOf
<1> QED BY <1>3, <1>5

\* The positions of a symbol are a finite set of numbers, and the index lists
\* just them.
LEMMA PositionsSound ==
  ASSUME NEW q, IsList(q), NEW l
  PROVE  /\ Positions(q, l) \in SUBSET Nat /\ IsFiniteSet(Positions(q, l))
         /\ Positions(q, l) \subseteq 1..Len(q)
         /\ {Ascending(Positions(q, l))[k] : k \in DOMAIN Ascending(Positions(q, l))}
              = Positions(q, l)
<1> DEFINE P == Positions(q, l)
<1>1. P \in SUBSET (1..Len(q)) /\ Len(q) \in Nat
  BY DEF Positions, IsList
<1>2. IsFiniteSet(1..Len(q)) /\ 1..Len(q) \subseteq Nat
  BY <1>1, FS_Interval
<1>3. IsFiniteSet(P) /\ P \in SUBSET Nat
  BY <1>1, <1>2, FS_Subset
<1> HIDE DEF P
<1>4. {Ascending(P)[k] : k \in DOMAIN Ascending(P)} = P
  <2>1. DOMAIN Ascending(P) = 1..Cardinality(P)
    BY <1>3, AscendingSound
  <2>2. \A k \in 1..Cardinality(P) : Ascending(P)[k] \in P
    BY <1>3, AscendingSound
  <2>3. \A x \in P : \E k \in 1..Cardinality(P) : Ascending(P)[k] = x
    BY <1>3, AscendingSound
  <2> QED BY <2>1, <2>2, <2>3
<1> QED BY <1>1, <1>3, <1>4 DEF P

\* at_locate() answers with the positions of the symbol's orders.
LEMMA AtLocateIsExact ==
  ASSUME NEW s, Indexed(s), NEW l \in Locates
  PROVE  AtLocate(s, l) = {i \in DOMAIN s.live : s.live[i].locate = l}
<1>1. IsList(s.live) /\ s.by_locate[l] = Ascending(Positions(s.live, l))
  BY DEF Indexed
<1>2. AtLocate(s, l) = Positions(s.live, l)
  BY <1>1, PositionsSound DEF AtLocate
<1> QED BY <1>2 DEF Positions

\* The orders change and keep their symbols.
LEMMA IndexKept ==
  ASSUME NEW s, Indexed(s), NEW t, DOMAIN t = SimFields, t.by_locate = s.by_locate, t.two_sided = s.two_sided,
         t.live = [i \in DOMAIN s.live |-> t.live[i]],
         \A i \in DOMAIN s.live : IsOrder(t.live[i]) /\ t.live[i].locate = s.live[i].locate
  PROVE  Indexed(t) /\ DOMAIN t.live = DOMAIN s.live
<1>1. /\ DOMAIN t.live = DOMAIN s.live /\ DOMAIN s.live = 1..Len(s.live) /\ Len(s.live) \in Nat
      /\ t.live = [i \in 1..Len(s.live) |-> t.live[i]]
  BY DEF Indexed, IsList
<1>2. IsList(t.live)
  BY <1>1, ListOf
<1>3. \A l \in Locates : Positions(t.live, l) = Positions(s.live, l)
  BY <1>1 DEF Positions
<1> QED BY <1>1, <1>2, <1>3 DEF Indexed

\* The index is rebuilt.
LEMMA CompactedSound ==
  ASSUME NEW s, Indexed(s)
  PROVE  LET c == Compacted(s)
         IN  /\ Indexed(c)
             /\ \A f \in SimFields \ {"live", "by_locate"} : c[f] = s[f]
             /\ \A i \in DOMAIN c.live : \E j \in DOMAIN s.live :
                  c.live[i] = s.live[j] /\ s.live[j].any_live
<1> DEFINE S == {i \in DOMAIN s.live : s.live[i].any_live}
           keep == Ascending(S)
           q == [k \in DOMAIN keep |-> s.live[keep[k]]]
           c == Compacted(s)
<1>1. c = [s EXCEPT !.live = q, !.by_locate = [l \in Locates |-> Ascending(Positions(q, l))]]
  BY DEF Compacted
<1>2. S \in SUBSET Nat /\ IsFiniteSet(S)
  <2>1. S \in SUBSET (1..Len(s.live)) /\ Len(s.live) \in Nat
    BY DEF Indexed, IsList
  <2>2. IsFiniteSet(1..Len(s.live)) /\ 1..Len(s.live) \subseteq Nat
    BY <2>1, FS_Interval
  <2> HIDE DEF S
  <2> QED BY <2>1, <2>2, FS_Subset
<1> HIDE DEF keep, S
<1>3. /\ Cardinality(S) \in Nat /\ DOMAIN keep = 1..Cardinality(S)
      /\ \A k \in DOMAIN keep : keep[k] \in S
  BY <1>2, AscendingSound DEF keep
<1>4. \A k \in DOMAIN keep : keep[k] \in DOMAIN s.live /\ s.live[keep[k]].any_live
  BY <1>3 DEF S
<1>5. /\ DOMAIN q = 1..Cardinality(S)
      /\ q = [k \in 1..Cardinality(S) |-> q[k]]
      /\ \A k \in DOMAIN q : q[k] = s.live[keep[k]]
  BY <1>3
<1> HIDE DEF q
<1>6. IsList(q)
  BY <1>3, <1>5, ListOf
<1>7. DOMAIN s = SimFields
  BY DEF Indexed
<1>8. /\ DOMAIN c = SimFields /\ c.live = q
      /\ c.by_locate = [l \in Locates |-> Ascending(Positions(q, l))]
      /\ \A f \in SimFields \ {"live", "by_locate"} : c[f] = s[f]
  BY <1>1, <1>7 DEF SimFields
<1> HIDE DEF c
<1>9. \A i \in DOMAIN q : IsOrder(q[i])
  BY <1>3, <1>4, <1>5 DEF Indexed
<1>10. Indexed(c)
  <2>1. c.two_sided = s.two_sided
    BY <1>8 DEF SimFields
  <2> QED BY <1>6, <1>8, <1>9, <2>1 DEF Indexed
<1>11. \A i \in DOMAIN c.live : \E j \in DOMAIN s.live : c.live[i] = s.live[j] /\ s.live[j].any_live
  BY <1>3, <1>4, <1>5, <1>8
<1> QED BY <1>8, <1>10, <1>11 DEF c

\* fill() and expire() write the results and nothing of the index.
LEMMA BookedFields ==
  ASSUME NEW s, DOMAIN s = SimFields, NEW after, NEW ts
  PROVE  /\ DOMAIN Booked(s, after, ts) = SimFields
         /\ Booked(s, after, ts).live = after
         /\ \A f \in SimFields \ {"live", "res", "pending"} : Booked(s, after, ts)[f] = s[f]
<1>1. CASE after = s.live
  BY <1>1 DEF Booked
<1>2. CASE after # s.live
  BY <1>2 DEF Booked, SimFields
<1> QED BY <1>1, <1>2

LEMMA BookedSound ==
  ASSUME NEW s, Indexed(s), NEW after, NEW ts,
         after = [i \in DOMAIN s.live |-> after[i]],
         \A i \in DOMAIN s.live : IsOrder(after[i]) /\ SameOrder(after[i], s.live[i])
  PROVE  Indexed(Booked(s, after, ts))
<1> DEFINE t == Booked(s, after, ts)
<1>1. /\ DOMAIN t = SimFields /\ t.live = after /\ t.by_locate = s.by_locate
      /\ t.two_sided = s.two_sided
  BY BookedFields DEF Indexed, SimFields
<1> HIDE DEF t
<1>2. Indexed(t)
  BY <1>1, IndexKept DEF SameOrder
<1> QED BY <1>2 DEF t
----------------------------------------------------------------------------
(* What an event does to one synthetic order.                              *)

\* An order the simulator may turn another into.
Becoming(p, o) == IsOrder(p) /\ SameOrder(p, o)

LEMMA FilledSound ==
  ASSUME NEW o, IsOrder(o), NEW why
  PROVE  LET p == FilledUnderAll(o, why)
         IN  /\ Becoming(p, o) /\ ~p.any_live
             /\ p.ahead_refs = o.ahead_refs
             /\ \A m \in Models : /\ ~Live(p, m)
                                  /\ p.models[m].ahead = o.models[m].ahead
                                  /\ Live(o, m) => p.models[m].reason = why
                                  /\ ~Live(o, m) => p.models[m] = o.models[m]
<1> DEFINE models == [m \in Models |-> IF Live(o, m) THEN Filled(o.models[m], why)
                                       ELSE o.models[m]]
           p == FilledUnderAll(o, why)
<1>1. p = [o EXCEPT !.models = models, !.any_live = FALSE]
  BY DEF FilledUnderAll
<1>2. ASSUME NEW m \in Models
      PROVE  /\ DOMAIN models[m] = {"ahead", "live", "reason"}
             /\ ~models[m].live /\ models[m].ahead = o.models[m].ahead
             /\ o.models[m].live => models[m].reason = why
             /\ ~o.models[m].live => models[m] = o.models[m]
  <2>1. DOMAIN o.models[m] = {"ahead", "live", "reason"}
    BY DEF IsOrder
  <2>2. CASE o.models[m].live
    <3>1. models[m] = [o.models[m] EXCEPT !.live = FALSE, !.reason = why]
      BY <2>2 DEF Live, Filled
    <3> HIDE DEF models
    <3> QED BY <2>1, <2>2, <3>1
  <2>3. CASE ~o.models[m].live
    <3>1. models[m] = o.models[m]
      BY <2>3 DEF Live
    <3> HIDE DEF models
    <3> QED BY <2>1, <2>3, <3>1
  <2> QED BY <2>2, <2>3
<1>3. DOMAIN models = Models
  OBVIOUS
<1> HIDE DEF models
<1>4. DOMAIN o = OrderFields
  BY DEF IsOrder
<1>5. /\ DOMAIN p = OrderFields /\ p.models = models
      /\ \A f \in OrderFields \ {"models", "any_live"} : p[f] = o[f]
  BY <1>1, <1>4 DEF OrderFields
<1>6. ~p.any_live
  BY <1>1, <1>4 DEF OrderFields
<1> HIDE DEF p
<1>7. Becoming(p, o)
  BY <1>2, <1>3, <1>5 DEF Becoming, IsOrder, SameOrder, OrderFields
<1>8. p.ahead_refs = o.ahead_refs
  BY <1>5 DEF OrderFields
<1> QED BY <1>2, <1>5, <1>6, <1>7, <1>8 DEF p, Live

\* The models of an order and its references are replaced, and its flag follows
\* or stays.
Judged(o, models, refs) ==
  [o EXCEPT !.models = models, !.ahead_refs = refs, !.any_live = \E m \in Models : models[m].live]
Charged(o, models, refs) == [o EXCEPT !.models = models, !.ahead_refs = refs]

LEMMA RemodelledSound ==
  ASSUME NEW o, IsOrder(o), NEW models, NEW refs,
         DOMAIN models = Models,
         \A m \in Models : DOMAIN models[m] = {"ahead", "live", "reason"}
  PROVE  /\ Becoming(Judged(o, models, refs), o)
         /\ Judged(o, models, refs).models = models
         /\ Judged(o, models, refs).ahead_refs = refs
         /\ Judged(o, models, refs).any_live <=> \E m \in Models : models[m].live
         /\ Becoming(Charged(o, models, refs), o)
         /\ Charged(o, models, refs).models = models
         /\ Charged(o, models, refs).ahead_refs = refs
         /\ Charged(o, models, refs).any_live = o.any_live
<1> DEFINE p == Judged(o, models, refs)
           c == Charged(o, models, refs)
<1>1. DOMAIN o = OrderFields /\ o.locate \in Locates
  BY DEF IsOrder
<1>2. /\ DOMAIN p = OrderFields /\ p.models = models /\ p.ahead_refs = refs
      /\ \A f \in OrderFields \ {"models", "ahead_refs", "any_live"} : p[f] = o[f]
  BY <1>1 DEF OrderFields, Judged
<1>3. p.any_live <=> \E m \in Models : models[m].live
  <2> DEFINE flag == \E m \in Models : models[m].live
  <2>1. p.any_live = flag
    <3> HIDE DEF flag
    <3>1. p = [o EXCEPT !.models = models, !.ahead_refs = refs, !.any_live = flag]
      BY DEF Judged, flag
    <3> HIDE DEF p
    <3> QED BY <1>1, <3>1 DEF OrderFields
  <2> QED BY <2>1
<1>4. /\ DOMAIN c = OrderFields /\ c.models = models /\ c.ahead_refs = refs
      /\ \A f \in OrderFields \ {"models", "ahead_refs"} : c[f] = o[f]
  BY <1>1 DEF OrderFields, Charged
<1>5. c.any_live = o.any_live
  BY <1>4 DEF OrderFields
<1> HIDE DEF p, c
<1>6. Becoming(p, o)
  BY <1>1, <1>2 DEF Becoming, IsOrder, SameOrder, OrderFields
<1>7. Becoming(c, o)
  BY <1>1, <1>4 DEF Becoming, IsOrder, SameOrder, OrderFields
<1> QED BY <1>2, <1>3, <1>4, <1>5, <1>6, <1>7 DEF p, c

\* The models of an order after an execution at its price.
ModelsAfterExecution(o, ref, qty) ==
  [m \in Models |-> IF m = "exact" THEN ExactAfterExecution(o, ref, qty)
                    ELSE ModelAfterExecution(o.models[m], qty)]

LEMMA ModelsAfterExecutionSound ==
  ASSUME NEW o, IsOrder(o), NEW ref, NEW qty
  PROVE  /\ DOMAIN ModelsAfterExecution(o, ref, qty) = Models
         /\ \A m \in Models :
              DOMAIN ModelsAfterExecution(o, ref, qty)[m] = {"ahead", "live", "reason"}
<1> DEFINE models == ModelsAfterExecution(o, ref, qty)
<1> SUFFICES ASSUME NEW m \in Models PROVE DOMAIN models[m] = {"ahead", "live", "reason"}
  BY DEF ModelsAfterExecution
<1>1. DOMAIN o.models[m] = {"ahead", "live", "reason"}
  BY DEF IsOrder
<1>2. CASE m = "exact"
  <2>1. models[m] = ExactAfterExecution(o, ref, qty)
    BY <1>2 DEF ModelsAfterExecution
  <2> HIDE DEF models
  <2> QED BY <1>1, <1>2, <2>1 DEF ExactAfterExecution, Filled
<1>3. CASE m # "exact"
  <2>1. models[m] = ModelAfterExecution(o.models[m], qty)
    BY <1>3 DEF ModelsAfterExecution
  <2> HIDE DEF models
  <2> QED BY <1>1, <2>1 DEF ModelAfterExecution, Filled
<1> QED BY <1>2, <1>3

\* An execution at the order's price.
ExecutedAt(o, ref, resolved, qty) ==
  Judged(o, ModelsAfterExecution(o, ref, qty), AheadRefsAfter(o, ref, resolved, qty))

LEMMA AfterExecutionCases ==
  ASSUME NEW o, NEW ref, NEW resolved, NEW qty
  PROVE  LET p == AfterExecution(o, ref, resolved, qty)
         IN  \/ ~o.any_live /\ p = o
             \/ o.any_live /\ o.side # resolved.side /\ p = o
             \/ /\ o.any_live /\ o.side = resolved.side
                /\ WorseThan(o.side, resolved.price, o.price)
                /\ p = FilledUnderAll(o, "trade_through")
             \/ /\ o.any_live /\ o.side = resolved.side /\ resolved.price # o.price
                /\ p = o
             \/ /\ o.any_live /\ o.side = resolved.side /\ resolved.price = o.price
                /\ ~WorseThan(o.side, resolved.price, o.price)
                /\ p = ExecutedAt(o, ref, resolved, qty)
<1>1. CASE ~o.any_live \/ o.side # resolved.side
  BY <1>1 DEF AfterExecution
<1>2. CASE /\ o.any_live /\ o.side = resolved.side
           /\ WorseThan(o.side, resolved.price, o.price)
  BY <1>2 DEF AfterExecution
<1>3. CASE /\ o.any_live /\ o.side = resolved.side
           /\ ~WorseThan(o.side, resolved.price, o.price) /\ resolved.price # o.price
  BY <1>3 DEF AfterExecution
<1>4. CASE /\ o.any_live /\ o.side = resolved.side
           /\ ~WorseThan(o.side, resolved.price, o.price) /\ resolved.price = o.price
  BY <1>4 DEF AfterExecution, ExecutedAt, Judged, ModelsAfterExecution
<1> QED BY <1>1, <1>2, <1>3, <1>4

LEMMA AfterExecutionSound ==
  ASSUME NEW o, IsOrder(o), NEW ref, NEW resolved, NEW qty
  PROVE  Becoming(AfterExecution(o, ref, resolved, qty), o)
<1> DEFINE p == AfterExecution(o, ref, resolved, qty)
<1>1. p = o \/ p = FilledUnderAll(o, "trade_through") \/ p = ExecutedAt(o, ref, resolved, qty)
  BY AfterExecutionCases
<1>2. Becoming(o, o)
  BY DEF Becoming, SameOrder
<1>3. Becoming(FilledUnderAll(o, "trade_through"), o)
  BY FilledSound
<1>4. Becoming(ExecutedAt(o, ref, resolved, qty), o)
  BY ModelsAfterExecutionSound, RemodelledSound DEF ExecutedAt
<1> QED BY <1>1, <1>2, <1>3, <1>4

\* The models of an order after a cancel at its level, for one draw.
ModelsAfterCancel(o, wasAhead, qty, before, coin) ==
  [m \in Models |-> ModelAfterCancel(o, m, wasAhead, qty, before, coin)]

LEMMA ModelsAfterCancelSound ==
  ASSUME NEW o, IsOrder(o), NEW wasAhead, NEW qty, NEW before, NEW coin
  PROVE  LET models == ModelsAfterCancel(o, wasAhead, qty, before, coin)
         IN  /\ DOMAIN models = Models
             /\ \A m \in Models : /\ DOMAIN models[m] = {"ahead", "live", "reason"}
                                  /\ models[m].live <=> o.models[m].live
                                  /\ models[m].reason = o.models[m].reason
<1> DEFINE models == ModelsAfterCancel(o, wasAhead, qty, before, coin)
<1> SUFFICES ASSUME NEW m \in Models
             PROVE  /\ DOMAIN models[m] = {"ahead", "live", "reason"}
                    /\ models[m].live <=> o.models[m].live
                    /\ models[m].reason = o.models[m].reason
  BY DEF ModelsAfterCancel
<1>1. DOMAIN o.models[m] = {"ahead", "live", "reason"}
  BY DEF IsOrder
<1>2. models[m] = ModelAfterCancel(o, m, wasAhead, qty, before, coin)
  BY DEF ModelsAfterCancel
<1> HIDE DEF models
<1>3. models[m] = o.models[m] \/ \E v : models[m] = [o.models[m] EXCEPT !.ahead = v]
  BY <1>2 DEF ModelAfterCancel
<1>4. ASSUME NEW v, models[m] = [o.models[m] EXCEPT !.ahead = v]
      PROVE  /\ DOMAIN models[m] = {"ahead", "live", "reason"}
             /\ models[m].live <=> o.models[m].live
             /\ models[m].reason = o.models[m].reason
  BY <1>1, <1>4
<1> QED BY <1>1, <1>3, <1>4

CancelledAt(o, ref, resolved, qty, before, coin) ==
  Charged(o, ModelsAfterCancel(o, ref \in o.ahead_refs, qty, before, coin),
          AheadRefsAfter(o, ref, resolved, qty))

LEMMA AfterCancelCases ==
  ASSUME NEW bk, NEW o, NEW ref, NEW resolved, NEW qty,
         NEW p \in AfterCancel(bk, o, ref, resolved, qty)
  PROVE  \/ (~o.any_live \/ ~AtLevel(o, resolved)) /\ p = o
         \/ /\ o.any_live /\ AtLevel(o, resolved)
            /\ \E coin \in Coins(o, DepthBefore(bk, o, qty)) :
                 p = CancelledAt(o, ref, resolved, qty, DepthBefore(bk, o, qty), coin)
<1>1. CASE ~o.any_live \/ ~AtLevel(o, resolved)
  BY <1>1 DEF AfterCancel
<1>2. CASE o.any_live /\ AtLevel(o, resolved)
  <2>1. PICK coin \in Coins(o, DepthBefore(bk, o, qty)) :
          p = CancelledAt(o, ref, resolved, qty, DepthBefore(bk, o, qty), coin)
    BY <1>2 DEF AfterCancel, CancelledAt, Charged, ModelsAfterCancel
  <2> QED BY <1>2, <2>1
<1> QED BY <1>1, <1>2

LEMMA AfterCancelSound ==
  ASSUME NEW bk, NEW o, IsOrder(o), NEW ref, NEW resolved, NEW qty,
         NEW p \in AfterCancel(bk, o, ref, resolved, qty)
  PROVE  Becoming(p, o) /\ (p.any_live <=> o.any_live)
<1>1. CASE p = o
  BY <1>1 DEF Becoming, SameOrder
<1>2. ASSUME NEW before, NEW coin, p = CancelledAt(o, ref, resolved, qty, before, coin)
      PROVE  Becoming(p, o) /\ (p.any_live <=> o.any_live)
  <2> DEFINE models == ModelsAfterCancel(o, ref \in o.ahead_refs, qty, before, coin)
             refs == AheadRefsAfter(o, ref, resolved, qty)
  <2>1. /\ DOMAIN models = Models
        /\ \A m \in Models : DOMAIN models[m] = {"ahead", "live", "reason"}
    BY ModelsAfterCancelSound
  <2>2. p = Charged(o, models, refs)
    BY <1>2 DEF CancelledAt
  <2> HIDE DEF models, refs
  <2> QED BY <2>1, <2>2, RemodelledSound
<1> QED BY <1>1, <1>2, AfterCancelCases

LEMMA AfterPrintSound ==
  ASSUME NEW o, IsOrder(o), NEW price
  PROVE  Becoming(AfterPrint(o, price), o)
<1>1. Becoming(o, o)
  BY DEF Becoming, SameOrder
<1> QED BY <1>1, FilledSound DEF AfterPrint
----------------------------------------------------------------------------
(* What a tick does: orders are kept, or dropped, or placed.               *)

NewOrder(id, bk, l, side, ts) ==
  LET price == Best(bk, l, side)
      depth == Depth(bk, l, side, price)
  IN [id |-> id, locate |-> l, side |-> side, price |-> price,
      entered |-> ts, depth |-> depth, ahead_refs |-> Level(bk, l, side, price),
      any_live |-> TRUE,
      models |-> [m \in Models |-> [ahead |-> Whole(depth), live |-> TRUE, reason |-> "none"]]]

\* An order of p is one of s, or has been placed by the book bk at ts.
Fresh(o, bk, ts) ==
  \E l \in Locates, side \in Sides :
    TwoSided(bk, l) /\ o = NewOrder(o.id, bk, l, side, ts)
From(o, s, bk, ts) == (\E j \in DOMAIN s.live : o = s.live[j]) \/ Fresh(o, bk, ts)

TickOK(p, s, bk, ts) ==
  /\ Indexed(p) /\ p.finished = s.finished
  /\ \A i \in DOMAIN p.live : From(p.live[i], s, bk, ts)

\* What a new order is like, and the simulator that has placed it.
IsNew(o, id, bk, l, side, ts) ==
  /\ IsOrder(o) /\ o.any_live = TRUE
  /\ o.id = id /\ o.locate = l /\ o.side = side /\ o.price = Best(bk, l, side)
  /\ o.entered = ts /\ o.depth = Depth(bk, l, side, o.price)
  /\ o.ahead_refs = Level(bk, l, side, o.price)
  /\ \A m \in Models : /\ Live(o, m) /\ o.models[m].ahead = Whole(o.depth)
                       /\ o.models[m].reason = "none"

HasPlaced(p, s, o, l) ==
  /\ DOMAIN p = SimFields
  /\ p.live = Append(s.live, o)
  /\ p.placements = s.placements + 1
  /\ DOMAIN p.by_locate = Locates
  /\ p.by_locate[l] = Append(s.by_locate[l], Len(s.live) + 1)
  /\ \A k \in Locates \ {l} : p.by_locate[k] = s.by_locate[k]
  /\ p.res = [m \in Models |-> OneMorePlaced(s.res[m], Key(o))]
  /\ \A f \in SimFields \ {"live", "placements", "by_locate", "res"} : p[f] = s[f]

LEMMA NewOrderSound ==
  ASSUME NEW id, NEW bk, NEW l \in Locates, NEW side, NEW ts
  PROVE  IsNew(NewOrder(id, bk, l, side, ts), id, bk, l, side, ts)
  BY DEF NewOrder, IsNew, IsOrder, OrderFields, Live

\* place_at(): one more order, at the end of the list and of its symbol's.
LEMMA PlacedFields ==
  ASSUME NEW s, Indexed(s), NEW bk, NEW l \in Locates, NEW side, NEW ts, TwoSided(bk, l)
  PROVE  HasPlaced(PlacedAt(s, bk, l, side, ts), s,
                   NewOrder(s.placements, bk, l, side, ts), l)
<1> DEFINE p == PlacedAt(s, bk, l, side, ts)
           o == NewOrder(s.placements, bk, l, side, ts)
           res == [m \in Models |-> OneMorePlaced(s.res[m], Key(o))]
           index == [s.by_locate EXCEPT ![l] = Append(@, Len(s.live) + 1)]
<1>1. p = [s EXCEPT !.placements = @ + 1,
                    !.res = [m \in Models |-> OneMorePlaced(@[m], Key(o))],
                    !.by_locate[l] = Append(@, Len(s.live) + 1),
                    !.live = Append(@, o)]
  BY DEF PlacedAt, NewOrder
<1> HIDE DEF p, o
<1>2. DOMAIN s = SimFields /\ DOMAIN s.by_locate = Locates
  BY DEF Indexed
<1>3. DOMAIN p = SimFields
  BY <1>1, <1>2
<1>4. p.placements = s.placements + 1
  BY <1>1, <1>2 DEF SimFields
<1>5. p.by_locate = index
  BY <1>1, <1>2 DEF SimFields
<1>6. p.live = Append(s.live, o)
  BY <1>1, <1>2 DEF SimFields
<1>7. p.res = res
  <2> HIDE DEF index
  <2> QED BY <1>1, <1>2 DEF SimFields
<1>8. \A f \in SimFields \ {"live", "placements", "by_locate", "res"} : p[f] = s[f]
  BY <1>1, <1>2 DEF SimFields
<1> HIDE DEF res, index
<1>9. /\ DOMAIN index = Locates
       /\ index[l] = Append(s.by_locate[l], Len(s.live) + 1)
       /\ \A k \in Locates \ {l} : index[k] = s.by_locate[k]
  BY <1>2 DEF index
<1> QED BY <1>3, <1>4, <1>5, <1>6, <1>7, <1>8, <1>9 DEF HasPlaced, p, o, res

LEMMA PlacedSound ==
  ASSUME NEW s, Indexed(s), NEW bk, NEW l \in Locates, NEW side \in Sides, NEW ts,
         TwoSided(bk, l)
  PROVE  LET p == PlacedAt(s, bk, l, side, ts)
         IN  /\ Indexed(p) /\ p.finished = s.finished
             /\ \A i \in DOMAIN p.live : \/ i \in DOMAIN s.live /\ p.live[i] = s.live[i]
                                         \/ Fresh(p.live[i], bk, ts)
<1> DEFINE p == PlacedAt(s, bk, l, side, ts)
           o == NewOrder(s.placements, bk, l, side, ts)
           n == Len(s.live)
<1>1. /\ DOMAIN p = SimFields
      /\ p.live = Append(s.live, o)
      /\ DOMAIN p.by_locate = Locates
      /\ p.by_locate[l] = Append(s.by_locate[l], n + 1)
      /\ \A k \in Locates \ {l} : p.by_locate[k] = s.by_locate[k]
      /\ p.finished = s.finished /\ p.two_sided = s.two_sided
  <2>1. HasPlaced(p, s, o, l)
    BY PlacedFields
  <2> HIDE DEF p, o
  <2> QED BY <2>1 DEF HasPlaced, SimFields
<1>2. IsOrder(o) /\ o.locate = l /\ Fresh(o, bk, ts)
  <2>1. IsNew(o, s.placements, bk, l, side, ts)
    BY NewOrderSound
  <2>2. o.id = s.placements /\ IsOrder(o) /\ o.locate = l
    BY <2>1 DEF IsNew
  <2>3. o = NewOrder(o.id, bk, l, side, ts)
    BY <2>2
  <2> HIDE DEF o
  <2> QED BY <2>2, <2>3 DEF Fresh
<1> HIDE DEF o, p
<1>3. /\ IsList(s.live) /\ DOMAIN s.live = 1..n /\ n \in Nat
      /\ \A i \in 1..n : IsOrder(s.live[i])
      /\ \A k \in Locates : s.by_locate[k] = Ascending(Positions(s.live, k))
      /\ s.two_sided \subseteq Locates
  BY DEF Indexed, IsList
<1> HIDE DEF n
<1>4. /\ IsList(p.live) /\ DOMAIN p.live = 1..(n + 1)
      /\ \A i \in 1..n : p.live[i] = s.live[i]
      /\ p.live[n + 1] = o
  BY <1>1, <1>3, ListAppends DEF IsList, n
<1>5. 1..(n + 1) = 1..n \cup {n + 1}
  BY <1>3
<1>6. \A i \in DOMAIN p.live : IsOrder(p.live[i])
  BY <1>2, <1>3, <1>4, <1>5
<1>7. ASSUME NEW k \in Locates PROVE p.by_locate[k] = Ascending(Positions(p.live, k))
  <2>1. CASE k # l
    <3>1. Positions(p.live, k) = Positions(s.live, k)
      BY <1>2, <1>3, <1>4, <1>5, <2>1 DEF Positions
    <3> QED BY <1>1, <1>3, <2>1, <3>1
  <2>2. CASE k = l
    <3>1. Positions(p.live, l) = Positions(s.live, l) \cup {n + 1}
      BY <1>2, <1>3, <1>4, <1>5 DEF Positions
    <3>2. /\ Positions(s.live, l) \in SUBSET Nat /\ IsFiniteSet(Positions(s.live, l))
          /\ Positions(s.live, l) \subseteq 1..n
      BY <1>3, PositionsSound DEF n
    <3>3. \A x \in Positions(s.live, l) : x < n + 1
      BY <1>3, <3>2
    <3>4. Ascending(Positions(s.live, l) \cup {n + 1})
            = Append(Ascending(Positions(s.live, l)), n + 1)
      BY <1>3, <3>2, <3>3, AscendingAppends
    <3> QED BY <1>1, <1>3, <2>2, <3>1, <3>4
  <2> QED BY <2>1, <2>2
<1>8. Indexed(p)
  BY <1>1, <1>3, <1>4, <1>6, <1>7 DEF Indexed
<1>9. \A i \in DOMAIN p.live : \/ i \in DOMAIN s.live /\ p.live[i] = s.live[i]
                               \/ Fresh(p.live[i], bk, ts)
  BY <1>2, <1>3, <1>4, <1>5
<1> QED BY <1>1, <1>8, <1>9 DEF p

\* Fields outside the list and its index may change as they like.
LEMMA AsideSound ==
  ASSUME NEW s, NEW bk, NEW ts, NEW a, NEW p, TickOK(a, s, bk, ts),
         DOMAIN p = SimFields, p.live = a.live, p.by_locate = a.by_locate,
         p.two_sided \subseteq Locates, p.finished = a.finished
  PROVE  TickOK(p, s, bk, ts)
  BY DEF TickOK, Indexed

LEMMA RefreshedSound ==
  ASSUME NEW s, NEW bk, NEW ts, NEW a, TickOK(a, s, bk, ts)
  PROVE  TickOK(Refreshed(a, bk), s, bk, ts)
<1> DEFINE p == Refreshed(a, bk)
<1>1. DOMAIN a = SimFields /\ a.two_sided \subseteq Locates
  BY DEF TickOK, Indexed
<1>2. CASE p = a
  BY <1>2
<1>3. CASE p # a
  <2> DEFINE u == {l \in Locates : TwoSided(bk, l)}
  <2>1. p = [a EXCEPT !.two_sided = u, !.universe_refreshed = a.last_ts]
    BY <1>3 DEF Refreshed
  <2>2. u \subseteq Locates
    OBVIOUS
  <2> HIDE DEF u, p
  <2>3. /\ DOMAIN p = SimFields /\ p.live = a.live /\ p.by_locate = a.by_locate
        /\ p.two_sided = u /\ p.finished = a.finished
    BY <1>1, <2>1 DEF SimFields
  <2> QED BY <2>2, <2>3, AsideSound DEF p
<1> QED BY <1>2, <1>3

LEMMA SkippedSound ==
  ASSUME NEW s, NEW bk, NEW ts, NEW a, TickOK(a, s, bk, ts)
  PROVE  TickOK(Skipped(a), s, bk, ts)
<1> DEFINE p == Skipped(a)
<1>1. DOMAIN a = SimFields /\ a.two_sided \subseteq Locates
  BY DEF TickOK, Indexed
<1>2. /\ DOMAIN p = SimFields /\ p.live = a.live /\ p.by_locate = a.by_locate
      /\ p.two_sided = a.two_sided /\ p.finished = a.finished
  BY <1>1 DEF Skipped, SimFields
<1> HIDE DEF p
<1> QED BY <1>1, <1>2, AsideSound DEF p

LEMMA PlacementSound ==
  ASSUME NEW s, NEW bk, NEW ts, NEW a, TickOK(a, s, bk, ts),
         NEW p \in Placements(a, bk, ts)
  PROVE  TickOK(p, s, bk, ts)
<1> DEFINE t == Refreshed(a, bk)
<1>1. TickOK(t, s, bk, ts)
  BY RefreshedSound
<1> HIDE DEF t
<1>2. CASE p = Skipped(t)
  BY <1>1, <1>2, SkippedSound
<1>3. ASSUME NEW l \in t.two_sided, NEW side \in Sides, p = PlacedAt(t, bk, l, side, ts)
      PROVE  TickOK(p, s, bk, ts)
  <2>1. Indexed(t) /\ l \in Locates
    BY <1>1 DEF TickOK, Indexed
  <2>2. CASE ~TwoSided(bk, l)
    BY <1>1, <1>3, <2>2, SkippedSound DEF PlacedAt
  <2>3. CASE TwoSided(bk, l)
    <3>1. /\ Indexed(p) /\ p.finished = t.finished
          /\ \A i \in DOMAIN p.live : \/ i \in DOMAIN t.live /\ p.live[i] = t.live[i]
                                      \/ Fresh(p.live[i], bk, ts)
      BY <1>3, <2>1, <2>3, PlacedSound
    <3>2. \A i \in DOMAIN t.live : From(t.live[i], s, bk, ts)
      BY <1>1 DEF TickOK
    <3>3. ASSUME NEW i \in DOMAIN p.live PROVE From(p.live[i], s, bk, ts)
      BY <3>1, <3>2 DEF From
    <3> QED BY <1>1, <3>1, <3>3 DEF TickOK
  <2> QED BY <2>2, <2>3
<1> QED BY <1>2, <1>3 DEF Placements, t

LEMMA PlacedOnceSound ==
  ASSUME NEW s, NEW bk, NEW ts, NEW a, TickOK(a, s, bk, ts),
         NEW p \in PlacedOnce(a, bk, ts)
  PROVE  TickOK(p, s, bk, ts)
<1>1. PICK b \in Placements(a, bk, ts), gap \in Gaps : p = [b EXCEPT !.next_placement = @ + gap]
  BY DEF PlacedOnce
<1>2. TickOK(b, s, bk, ts)
  BY PlacementSound
<1>3. DOMAIN b = SimFields /\ b.two_sided \subseteq Locates
  BY <1>2 DEF TickOK, Indexed
<1>4. /\ DOMAIN p = SimFields /\ p.live = b.live /\ p.by_locate = b.by_locate
      /\ p.two_sided = b.two_sided /\ p.finished = b.finished
  BY <1>1, <1>3 DEF SimFields
<1> QED BY <1>2, <1>3, <1>4, AsideSound
\* The placement loop's turns: g[n] is what n of them may leave.
Turns(s, bk, ts, g) ==
  g = [n \in 0..CatchUpLimit |->
         IF n = 0 THEN {s}
         ELSE UNION {PlacedOnce(p, bk, ts) : p \in {q \in g[n - 1] : PlacementDue(q, ts)}}]

LEMMA TurnsExist ==
  ASSUME NEW s, NEW bk, NEW ts
  PROVE  \E g : Turns(s, bk, ts, g)
<1> DEFINE On(S) == UNION {PlacedOnce(p, bk, ts) : p \in {q \in S : PlacementDue(q, ts)}}
           Partial(k, g) == g = [n \in 0..k |-> IF n = 0 THEN {s} ELSE On(g[n - 1])]
           T == {k \in Nat : ~ \E g : Partial(k, g)}
<1> HIDE DEF On
<1>1. T = {}
  <2> SUFFICES ASSUME T # {} PROVE FALSE
    OBVIOUS
  <2>1. PICK k \in T : \A m \in T : k <= m
    <3> HIDE DEF T
    <3>1. T \in SUBSET Nat
      BY DEF T
    <3> QED BY <3>1, LeastExists
  <2>2. k \in Nat /\ ~ \E g : Partial(k, g)
    OBVIOUS
  <2>3. CASE k = 0
    <3> DEFINE g == [n \in 0..0 |-> {s}]
    <3>1. Partial(0, g)
      OBVIOUS
    <3> HIDE DEF Partial, g
    <3> QED BY <2>2, <2>3, <3>1
  <2>4. CASE k # 0
    <3>1. k - 1 \in Nat /\ ~(k <= k - 1)
      BY <2>2, <2>4
    <3>2. PICK g : Partial(k - 1, g)
      BY <2>1, <3>1
    <3> DEFINE h == [n \in 0..k |-> IF n = 0 THEN {s} ELSE On(g[n - 1])]
    <3>3. ASSUME NEW n \in 0..k, n # 0 PROVE h[n - 1] = g[n - 1]
      <4>1. n - 1 \in 0..(k - 1) /\ n - 1 \in 0..k
        BY <2>2, <3>3
      <4>2. g[n - 1] = IF n - 1 = 0 THEN {s} ELSE On(g[(n - 1) - 1])
        BY <3>2, <4>1
      <4>3. h[n - 1] = IF n - 1 = 0 THEN {s} ELSE On(g[(n - 1) - 1])
        BY <4>1
      <4> QED BY <4>2, <4>3
    <3>4. Partial(k, h)
      <4> HIDE DEF h
      <4>1. h = [n \in 0..k |-> IF n = 0 THEN {s} ELSE On(g[n - 1])]
        BY DEF h
      <4>2. \A n \in 0..k : n # 0 => h[n - 1] = g[n - 1]
        BY <3>3
      <4> QED BY <4>1, <4>2
    <3> HIDE DEF Partial, h
    <3> QED BY <2>2, <3>4
  <2> QED BY <2>3, <2>4
<1>2. CatchUpLimit \in Nat
  BY QueueSimAssumption
<1>3. PICK g : Partial(CatchUpLimit, g)
  BY <1>1, <1>2
<1> QED BY <1>3 DEF Turns, On

\* Whatever a set of simulators does not leave by one placement, the loop does
\* not leave either.
LEMMA LoopStays ==
  ASSUME NEW s, NEW bk, NEW ts, NEW g, Turns(s, bk, ts, g), NEW a, TickOK(s, a, bk, ts)
  PROVE  \A n \in 0..CatchUpLimit : \A p \in g[n] : TickOK(p, a, bk, ts)
<1> DEFINE Bad == {n \in 0..CatchUpLimit : \E p \in g[n] : ~TickOK(p, a, bk, ts)}
<1> SUFFICES ASSUME Bad # {} PROVE FALSE
  OBVIOUS
<1>1. CatchUpLimit \in Nat
  BY QueueSimAssumption
<1>2. PICK n \in Bad : \A m \in Bad : n <= m
  <2> HIDE DEF Bad
  <2>1. Bad \in SUBSET Nat
    BY <1>1 DEF Bad
  <2> QED BY <2>1, LeastExists
<1>3. PICK p \in g[n] : ~TickOK(p, a, bk, ts)
  OBVIOUS
<1>4. n # 0
  <2>1. n = 0 => g[n] = {s}
    BY <1>1 DEF Turns
  <2> QED BY <1>3, <2>1
<1>5. n - 1 \in 0..CatchUpLimit /\ ~(n <= n - 1)
  BY <1>1, <1>4
<1>6. \A q \in g[n - 1] : TickOK(q, a, bk, ts)
  BY <1>2, <1>5
<1>7. PICK q \in g[n - 1] : p \in PlacedOnce(q, bk, ts)
  <2>1. g[n] = UNION {PlacedOnce(q, bk, ts) : q \in {x \in g[n - 1] : PlacementDue(x, ts)}}
    BY <1>4 DEF Turns
  <2> QED BY <1>3, <2>1
<1>8. TickOK(p, a, bk, ts)
  BY <1>6, <1>7, PlacedOnceSound
<1> QED BY <1>3, <1>8

\* How the loop ends: the schedule is ahead of the clock, or the backlog is
\* given up.
LoopEnds(s, bk, ts, g, p) ==
  /\ Turns(s, bk, ts, g)
  /\ \/ \E n \in 0..CatchUpLimit : p \in g[n] /\ ~PlacementDue(p, ts)
     \/ \E q \in g[CatchUpLimit], gap \in Gaps : p = GivenUp(q, ts, gap)

LEMMA PlacementsDoneCases ==
  ASSUME NEW s, NEW bk, NEW ts, NEW p \in PlacementsDone(s, bk, ts)
  PROVE  \E g : LoopEnds(s, bk, ts, g, p)
<1> DEFINE g == CHOOSE g : Turns(s, bk, ts, g)
<1>1. Turns(s, bk, ts, g)
  BY TurnsExist
<1>2. PlacementsDone(s, bk, ts) =
        (UNION {{q \in g[n] : ~PlacementDue(q, ts)} : n \in 0..CatchUpLimit})
        \cup {GivenUp(q, ts, gap) :
                q \in {x \in g[CatchUpLimit] : PlacementDue(x, ts)}, gap \in Gaps}
  BY DEF PlacementsDone, Turns
<1> HIDE DEF g
<1>3. CASE p \in UNION {{q \in g[n] : ~PlacementDue(q, ts)} : n \in 0..CatchUpLimit}
  BY <1>1, <1>3 DEF LoopEnds
<1>4. CASE p \in {GivenUp(q, ts, gap) :
                    q \in {x \in g[CatchUpLimit] : PlacementDue(x, ts)}, gap \in Gaps}
  BY <1>1, <1>4 DEF LoopEnds
<1> QED BY <1>2, <1>3, <1>4

LEMMA PlacementsDoneSound ==
  ASSUME NEW s, NEW bk, NEW ts, NEW p \in PlacementsDone(s, bk, ts),
         NEW a, TickOK(s, a, bk, ts)
  PROVE  TickOK(p, a, bk, ts)
<1>1. PICK g : LoopEnds(s, bk, ts, g, p)
  BY PlacementsDoneCases
<1>2. \A n \in 0..CatchUpLimit : \A q \in g[n] : TickOK(q, a, bk, ts)
  BY <1>1, LoopStays DEF LoopEnds
<1>3. CASE \E n \in 0..CatchUpLimit : p \in g[n] /\ ~PlacementDue(p, ts)
  BY <1>2, <1>3
<1>4. ASSUME NEW q \in g[CatchUpLimit], NEW gap \in Gaps,
             p = GivenUp(q, ts, gap)
      PROVE  TickOK(p, a, bk, ts)
  <2>1. CatchUpLimit \in 0..CatchUpLimit
    BY QueueSimAssumption
  <2>2. TickOK(q, a, bk, ts)
    BY <1>2, <1>4, <2>1
  <2>3. DOMAIN q = SimFields /\ q.two_sided \subseteq Locates
    BY <2>2 DEF TickOK, Indexed
  <2>4. /\ DOMAIN p = SimFields /\ p.live = q.live /\ p.by_locate = q.by_locate
        /\ p.two_sided = q.two_sided /\ p.finished = q.finished
    BY <1>4, <2>3 DEF SimFields, GivenUp
  <2> QED BY <2>2, <2>3, <2>4, AsideSound
<1> QED BY <1>1, <1>3, <1>4 DEF LoopEnds

\* The sweep expires the old and forgets what is out of play.
SweptLive(s, ts) ==
  [i \in DOMAIN s.live |->
     IF s.live[i].any_live /\ ts - s.live[i].entered >= MaxLife
     THEN Expired(s.live[i]) ELSE s.live[i]]

LEMMA ExpiredSound ==
  ASSUME NEW o, IsOrder(o)
  PROVE  /\ Becoming(Expired(o), o) /\ ~Expired(o).any_live
         /\ \A m \in Models : ~Live(Expired(o), m)
  BY FilledSound DEF Expired

LEMMA SweptLiveSound ==
  ASSUME NEW s, Indexed(s), NEW ts
  PROVE  /\ SweptLive(s, ts) = [i \in DOMAIN s.live |-> SweptLive(s, ts)[i]]
         /\ \A i \in DOMAIN s.live :
              /\ Becoming(SweptLive(s, ts)[i], s.live[i])
              /\ SweptLive(s, ts)[i].any_live => SweptLive(s, ts)[i] = s.live[i]
<1>1. ASSUME NEW i \in DOMAIN s.live
      PROVE  /\ Becoming(SweptLive(s, ts)[i], s.live[i])
             /\ SweptLive(s, ts)[i].any_live => SweptLive(s, ts)[i] = s.live[i]
  <2>1. IsOrder(s.live[i])
    BY DEF Indexed
  <2>2. SweptLive(s, ts)[i] = s.live[i] \/ SweptLive(s, ts)[i] = Expired(s.live[i])
    BY DEF SweptLive
  <2>3. Becoming(s.live[i], s.live[i])
    BY <2>1 DEF Becoming, SameOrder
  <2> QED BY <2>1, <2>2, <2>3, ExpiredSound
<1>2. SweptLive(s, ts) = [i \in DOMAIN s.live |-> SweptLive(s, ts)[i]]
  <2> DEFINE At(i) == IF s.live[i].any_live /\ ts - s.live[i].entered >= MaxLife
                      THEN Expired(s.live[i]) ELSE s.live[i]
  <2>1. SweptLive(s, ts) = [i \in DOMAIN s.live |-> At(i)]
    BY DEF SweptLive
  <2> HIDE DEF At
  <2> QED BY <2>1
<1> QED BY <1>1, <1>2

LEMMA SweptSound ==
  ASSUME NEW s, Indexed(s), NEW bk, NEW ts
  PROVE  TickOK(Swept(s, ts), s, bk, ts)
<1>1. CASE ts - s.last_sweep < SweepEvery
  BY <1>1 DEF Swept, TickOK, From
<1>2. CASE ~(ts - s.last_sweep < SweepEvery)
  <2> DEFINE t == [s EXCEPT !.last_sweep = ts]
             b == Booked(t, SweptLive(s, ts), ts)
  <2>1. /\ DOMAIN t = SimFields /\ t.live = s.live /\ t.by_locate = s.by_locate
        /\ t.two_sided = s.two_sided /\ t.finished = s.finished
    BY DEF Indexed, SimFields
  <2>2. Indexed(t)
    <3> HIDE DEF t
    <3> QED BY <2>1 DEF Indexed
  <2>3. Swept(s, ts) = Compacted(b)
    <3>1. Swept(s, ts) = Compacted(Booked(t, SweptLive(t, ts), ts))
      BY <1>2 DEF Swept, SweptLive
    <3>2. SweptLive(t, ts) = SweptLive(s, ts)
      <4> HIDE DEF t
      <4> QED BY <2>1 DEF SweptLive
    <3> QED BY <3>1, <3>2
  <2> HIDE DEF t
  <2>4. Indexed(b)
    BY <2>1, <2>2, SweptLiveSound, BookedSound DEF Becoming
  <2>5. b.live = SweptLive(s, ts) /\ b.finished = s.finished
    BY <2>1, BookedFields DEF SimFields
  <2> HIDE DEF b
  <2> DEFINE c == Compacted(b)
  <2>6. /\ Indexed(c)
        /\ \A f \in SimFields \ {"live", "by_locate"} : c[f] = b[f]
        /\ \A i \in DOMAIN c.live : \E j \in DOMAIN b.live :
             c.live[i] = b.live[j] /\ b.live[j].any_live
    BY <2>4, CompactedSound
  <2> HIDE DEF c
  <2>7. c.finished = s.finished
    BY <2>5, <2>6 DEF SimFields
  <2>8. ASSUME NEW i \in DOMAIN c.live PROVE From(c.live[i], s, bk, ts)
    <3>1. PICK j \in DOMAIN b.live : c.live[i] = b.live[j] /\ b.live[j].any_live
      BY <2>6
    <3>2. j \in DOMAIN s.live /\ b.live[j] = s.live[j]
      BY <2>5, <3>1, SweptLiveSound
    <3> QED BY <3>1, <3>2 DEF From
  <2> QED BY <2>3, <2>6, <2>7, <2>8 DEF TickOK, c
<1> QED BY <1>1, <1>2

LEMMA ClockedSound ==
  ASSUME NEW s, Indexed(s), NEW bk, NEW ts
  PROVE  TickOK(Clocked(s, bk, ts), s, bk, ts)
<1> DEFINE t == [s EXCEPT !.last_ts = ts]
           u == Settled(t, bk, ts)
<1>1. DOMAIN t = SimFields /\ \A f \in SimFields \ {"last_ts"} : t[f] = s[f]
  BY DEF Indexed, SimFields
<1> HIDE DEF t
<1>2. DOMAIN u = SimFields /\ \A f \in SimFields \ {"pending", "res"} : u[f] = t[f]
  BY <1>1 DEF Settled, SimFields
<1> HIDE DEF u
<1>3. /\ u.live = s.live /\ u.by_locate = s.by_locate /\ u.two_sided = s.two_sided
      /\ u.finished = s.finished
  BY <1>1, <1>2 DEF SimFields
<1>4. Indexed(u)
  BY <1>2, <1>3 DEF Indexed
<1>5. TickOK(Swept(u, ts), u, bk, ts)
  BY <1>4, SweptSound
<1>6. Clocked(s, bk, ts) = Swept(u, ts)
  BY DEF Clocked, u, t
<1> QED BY <1>3, <1>5, <1>6 DEF TickOK, From

\* A tick keeps the index and touches no order it does not drop.
LEMMA TickedSound ==
  ASSUME NEW s, Indexed(s), NEW bk, NEW ts, NEW p \in Ticked(s, bk, ts)
  PROVE  TickOK(p, s, bk, ts)
<1>1. TickOK(Clocked(s, bk, ts), s, bk, ts)
  BY ClockedSound
<1>2. TickOK(s, s, bk, ts)
  BY DEF TickOK, From
<1>3. \/ p = s \/ p = Clocked(s, bk, ts) \/ p \in PlacementsDone(Clocked(s, bk, ts), bk, ts)
  BY DEF Ticked
<1> QED BY <1>1, <1>2, <1>3, PlacementsDoneSound
----------------------------------------------------------------------------
(* What a message does to the simulator.                                   *)

\* What a message makes of one synthetic order, bk being the book it leaves.
AttributedTo(p, o, m, bk) ==
  \/ /\ m.type = "E" /\ o.locate = resting[m.ref].locate
     /\ p = AfterExecution(o, m.ref, resting[m.ref], m.qty)
  \/ m.type = "E" /\ o.locate # resting[m.ref].locate /\ p = o
  \/ m.type = "X" /\ p \in AfterCancel(bk, o, m.ref, resting[m.ref], m.qty)
  \/ /\ m.type \in {"D", "U"}
     /\ p \in AfterCancel(bk, o, m.ref, resting[m.ref], resting[m.ref].shares)
  \/ m.type = "P" /\ (p = o \/ p = FilledUnderAll(o, "non_displayed_print"))
  \/ m.type \in {"A", "B"} /\ p = o

\* The simulator t holds the orders of s after the message, one for one.
HandOK(t, s, m, bk) ==
  /\ Indexed(t) /\ t.finished = s.finished /\ DOMAIN t.live = DOMAIN s.live
  /\ \A i \in DOMAIN s.live : AttributedTo(t.live[i], s.live[i], m, bk)

LEMMA BookedHand ==
  ASSUME NEW s, Indexed(s), NEW m, NEW bk, NEW after, NEW ts,
         after = [i \in DOMAIN s.live |-> after[i]],
         \A i \in DOMAIN s.live : Becoming(after[i], s.live[i])
                                  /\ AttributedTo(after[i], s.live[i], m, bk)
  PROVE  HandOK(Booked(s, after, ts), s, m, bk)
<1> DEFINE t == Booked(s, after, ts)
<1>1. Indexed(t)
  BY BookedSound DEF Becoming
<1>2. t.live = after /\ t.finished = s.finished
  BY BookedFields DEF Indexed, SimFields
<1> HIDE DEF t
<1>3. DOMAIN t.live = DOMAIN s.live
  BY <1>2
<1> QED BY <1>1, <1>2, <1>3 DEF HandOK, t

LEMMA OnExecutionSound ==
  ASSUME NEW s, Indexed(s), NEW m, NEW bk, NEW ts, m.type = "E",
         resting[m.ref].locate \in Locates
  PROVE  HandOK(OnExecution(s, m.ref, resting[m.ref], m.qty, ts), s, m, bk)
<1> DEFINE l == resting[m.ref].locate
           after == [i \in DOMAIN s.live |->
                       IF i \in AtLocate(s, l)
                       THEN AfterExecution(s.live[i], m.ref, resting[m.ref], m.qty)
                       ELSE s.live[i]]
<1>1. AtLocate(s, l) = {i \in DOMAIN s.live : s.live[i].locate = l}
  BY AtLocateIsExact
<1>2. ASSUME NEW i \in DOMAIN s.live
      PROVE  Becoming(after[i], s.live[i]) /\ AttributedTo(after[i], s.live[i], m, bk)
  <2>1. IsOrder(s.live[i])
    BY DEF Indexed
  <2>2. CASE s.live[i].locate = l
    <3>1. after[i] = AfterExecution(s.live[i], m.ref, resting[m.ref], m.qty)
      BY <1>1, <2>2
    <3> HIDE DEF after
    <3> QED BY <2>1, <2>2, <3>1, AfterExecutionSound DEF AttributedTo
  <2>3. CASE s.live[i].locate # l
    <3>1. after[i] = s.live[i]
      BY <1>1, <2>3
    <3> HIDE DEF after
    <3> QED BY <2>1, <2>3, <3>1 DEF AttributedTo, Becoming, SameOrder
  <2> QED BY <2>2, <2>3
<1>3. after = [i \in DOMAIN s.live |-> after[i]]
  OBVIOUS
<1>4. OnExecution(s, m.ref, resting[m.ref], m.qty, ts) = Booked(s, after, ts)
  BY DEF OnExecution
<1> HIDE DEF after
<1> QED BY <1>2, <1>3, <1>4, BookedHand

LEMMA OnPrintSound ==
  ASSUME NEW s, Indexed(s), NEW m, NEW bk, NEW ts, m.type = "P"
  PROVE  HandOK(OnPrint(s, m.locate, m.price, ts), s, m, bk)
<1>1. CASE ~rule4
  BY <1>1 DEF OnPrint, HandOK, AttributedTo
<1>2. CASE rule4
  <2> DEFINE after == [i \in DOMAIN s.live |->
                         IF i \in AtLocate(s, m.locate)
                         THEN AfterPrint(s.live[i], m.price) ELSE s.live[i]]
  <2>1. ASSUME NEW i \in DOMAIN s.live
        PROVE  Becoming(after[i], s.live[i]) /\ AttributedTo(after[i], s.live[i], m, bk)
    <3>1. IsOrder(s.live[i])
      BY DEF Indexed
    <3>2. after[i] = s.live[i] \/ after[i] = FilledUnderAll(s.live[i], "non_displayed_print")
      BY DEF AfterPrint
    <3> HIDE DEF after
    <3>3. Becoming(after[i], s.live[i])
      BY <3>1, <3>2, FilledSound DEF Becoming, SameOrder
    <3> QED BY <3>2, <3>3 DEF AttributedTo
  <2>2. after = [i \in DOMAIN s.live |-> after[i]]
    OBVIOUS
  <2>3. OnPrint(s, m.locate, m.price, ts) = Booked(s, after, ts)
    BY <1>2 DEF OnPrint
  <2> HIDE DEF after
  <2> QED BY <2>1, <2>2, <2>3, BookedHand
<1> QED BY <1>1, <1>2

LEMMA OnCancelSound ==
  ASSUME NEW s, Indexed(s), NEW m, NEW bk, NEW qty,
         NEW t \in OnCancel(s, bk, m.ref, resting[m.ref], qty),
         \/ m.type = "X" /\ qty = m.qty
         \/ m.type \in {"D", "U"} /\ qty = resting[m.ref].shares
  PROVE  HandOK(t, s, m, bk)
<1> DEFINE C(i) == AfterCancel(bk, s.live[i], m.ref, resting[m.ref], qty)
<1>1. PICK a \in [DOMAIN s.live -> UNION {C(i) : i \in DOMAIN s.live}] :
        /\ \A i \in DOMAIN s.live : a[i] \in C(i)
        /\ t = [s EXCEPT !.live = a]
  <2> DEFINE D == [DOMAIN s.live -> UNION {C(i) : i \in DOMAIN s.live}]
  <2>1. OnCancel(s, bk, m.ref, resting[m.ref], qty) =
          {[s EXCEPT !.live = after] : after \in {a \in D : \A i \in DOMAIN s.live : a[i] \in C(i)}}
    BY DEF OnCancel
  <2> HIDE DEF C, D
  <2> QED BY <2>1 DEF D
<1>2. /\ DOMAIN t = SimFields /\ t.live = a /\ t.by_locate = s.by_locate
      /\ t.two_sided = s.two_sided /\ t.finished = s.finished
  BY <1>1 DEF Indexed, SimFields
<1>3. a = [i \in DOMAIN s.live |-> a[i]]
  <2> DEFINE R == UNION {C(i) : i \in DOMAIN s.live}
  <2>1. a \in [DOMAIN s.live -> R]
    BY <1>1
  <2> HIDE DEF R
  <2> QED BY <2>1
<1> HIDE DEF C
<1>4. ASSUME NEW i \in DOMAIN s.live
      PROVE  Becoming(a[i], s.live[i]) /\ AttributedTo(a[i], s.live[i], m, bk)
  <2>1. a[i] \in AfterCancel(bk, s.live[i], m.ref, resting[m.ref], qty)
    BY <1>1 DEF C
  <2>2. IsOrder(s.live[i])
    BY DEF Indexed
  <2>3. Becoming(a[i], s.live[i])
    BY <2>1, <2>2, AfterCancelSound
  <2>4. AttributedTo(a[i], s.live[i], m, bk)
    BY <2>1 DEF AttributedTo
  <2> QED BY <2>3, <2>4
<1>5. Indexed(t)
  BY <1>2, <1>3, <1>4, IndexKept DEF Becoming, SameOrder
<1>6. DOMAIN t.live = DOMAIN s.live
  BY <1>2, <1>3
<1> QED BY <1>2, <1>4, <1>5, <1>6 DEF HandOK

LEMMA AttributedSound ==
  ASSUME FeedOK, NEW s, Indexed(s), NEW m, Effect(m), m.type # "H", NEW bk, NEW ts,
         NEW t \in Attributed(s, m, bk, ts)
  PROVE  HandOK(t, s, m, bk)
<1>1. CASE m.type = "E"
  <2>1. resting[m.ref].locate \in Locates
    BY <1>1 DEF Effect, FeedOK, Order
  <2>2. t = OnExecution(s, m.ref, resting[m.ref], m.qty, ts)
    BY <1>1 DEF Attributed
  <2> QED BY <1>1, <2>1, <2>2, OnExecutionSound
<1>2. CASE m.type = "X"
  <2>1. t \in OnCancel(s, bk, m.ref, resting[m.ref], m.qty)
    BY <1>2 DEF Attributed
  <2> QED BY <1>2, <2>1, OnCancelSound
<1>3. CASE m.type \in {"D", "U"}
  <2>1. t \in OnCancel(s, bk, m.ref, resting[m.ref], resting[m.ref].shares)
    BY <1>3 DEF Attributed
  <2> QED BY <1>3, <2>1, OnCancelSound
<1>4. CASE m.type = "P"
  <2>1. t = OnPrint(s, m.locate, m.price, ts)
    BY <1>4 DEF Attributed
  <2> QED BY <1>4, <2>1, OnPrintSound
<1>5. CASE m.type \in {"A", "B"}
  <2>1. t = s
    BY <1>5 DEF Attributed
  <2> QED BY <1>5, <2>1 DEF HandOK, AttributedTo
<1> QED BY <1>1, <1>2, <1>3, <1>4, <1>5 DEF Effect

\* After the whole handler an order was one before, as the message leaves it, or
\* has just been placed.
HandledOK(p, s, m, bk, ts) ==
  /\ Indexed(p) /\ p.finished = s.finished
  /\ \A i \in DOMAIN p.live :
       \/ \E j \in DOMAIN s.live : IF m.type = "H" THEN p.live[i] = s.live[j]
                                   ELSE AttributedTo(p.live[i], s.live[j], m, bk)
       \/ Fresh(p.live[i], bk, ts)

LEMMA HandledSound ==
  ASSUME FeedOK, NEW s, Indexed(s), NEW m, Effect(m), NEW bk, NEW ts,
         NEW p \in Handled(s, m, bk, ts)
  PROVE  HandledOK(p, s, m, bk, ts)
<1>1. CASE m.type = "H"
  BY <1>1 DEF Handled, HandledOK
<1>2. CASE m.type # "H"
  <2>1. PICK t \in Attributed(s, m, bk, ts) : p \in Ticked(t, bk, ts)
    BY <1>2 DEF Handled
  <2>2. HandOK(t, s, m, bk)
    BY <1>2, AttributedSound
  <2>3. TickOK(p, t, bk, ts)
    BY <2>1, <2>2, TickedSound DEF HandOK
  <2> QED BY <1>2, <2>2, <2>3 DEF HandOK, TickOK, From, HandledOK
<1> QED BY <1>1, <1>2
----------------------------------------------------------------------------
(* The index is exact.                                                     *)

\* No list, and no positions.
LEMMA NothingIsListed ==
  IsList(<<>>) /\ DOMAIN <<>> = {} /\ \A l : Ascending(Positions(<<>>, l)) = <<>>
<1>1. IsList(<<>>) /\ DOMAIN <<>> = {}
  BY DEF IsList
<1>2. \A l : Positions(<<>>, l) = {}
  BY <1>1 DEF Positions
<1>3. Ascending({}) = <<>>
  <2>1. Cardinality({}) = 0
    BY FS_EmptySet
  <2>2. 1..0 = {}
    OBVIOUS
  <2>3. DOMAIN Ascending({}) = {}
    BY <2>1, <2>2 DEF Ascending
  <2>4. Ascending({}) = [k \in {} |-> Ascending({})[k]]
    BY <2>1, <2>2 DEF Ascending
  <2> QED BY <2>4
<1> QED BY <1>1, <1>2, <1>3

LEMMA NewSimulatorIndexed == Indexed(NewSimulator) /\ NewSimulator.finished = FALSE
                             /\ NewSimulator.live = <<>>
<1> DEFINE s == NewSimulator
<1>1. /\ DOMAIN s = SimFields /\ s.live = <<>> /\ s.by_locate = [l \in Locates |-> <<>>]
      /\ s.two_sided = {} /\ s.finished = FALSE
  BY DEF NewSimulator, SimFields
<1> HIDE DEF s
<1>2. Indexed(s)
  BY <1>1, NothingIsListed DEF Indexed
<1> QED BY <1>1, <1>2 DEF s

IndexInv ==
  /\ FeedOK
  /\ sim.finished => sim.live = <<>>
  /\ ~sim.finished => Indexed(sim)

\* What one step does to the simulator: a message, or the end of the session.
FrontRule(m) == m.type = "E" /\ priority => ahead[m.ref] = {}
QueueStep ==
  \/ /\ ~sim.finished /\ UNCHANGED priority
     /\ \E m, ts : /\ FeedOK' /\ Effect(m) /\ FrontRule(m)
                   /\ HandledOK(sim', sim, m, resting', ts)
  \/ sim'.finished /\ sim'.live = <<>> /\ UNCHANGED feedVars
  \/ UNCHANGED queueVars

LEMMA QueueSteps ==
  ASSUME IndexInv, [QueueSimNext]_queueVars
  PROVE  QueueStep
<1>1. CASE UNCHANGED queueVars
  BY <1>1 DEF QueueStep
<1>2. ASSUME ~sim.finished, NEW m \in LegalMessages, NEW d \in Delays, Message(m, now + d)
      PROVE  QueueStep
  <2> DEFINE ts == now + d
  <2>1. Delivered(m, ts) /\ sim' \in Handled(sim, m, resting', ts) /\ ts \in Nat
    BY <1>2, SessionFeedAssumption DEF Message, IndexInv, FeedOK
  <2> HIDE DEF ts
  <2>2. Effect(m)
    BY <2>1, MessageEffect DEF IndexInv
  <2>3. FeedOK'
    BY <2>1, <2>2, FeedKept DEF IndexInv, Delivered
  <2>4. HandledOK(sim', sim, m, resting', ts)
    BY <1>2, <2>1, <2>2, HandledSound DEF IndexInv
  <2>5. FrontRule(m) /\ UNCHANGED priority
    BY <2>1 DEF Delivered, Applied, AtTheFront, FrontRule
  <2> QED BY <1>2, <2>2, <2>3, <2>4, <2>5 DEF QueueStep
<1>3. CASE Finish
  <2>0. PICK after : sim' = [Booked(sim, after, now) EXCEPT !.live = <<>>, !.finished = TRUE]
    BY <1>3 DEF Finish
  <2>1. DOMAIN sim = SimFields
    BY <1>3 DEF Finish, IndexInv, Indexed
  <2>2. DOMAIN Booked(sim, after, now) = SimFields
    BY <2>1, BookedFields
  <2>3. sim'.finished = TRUE /\ sim'.live = <<>>
    BY <2>0, <2>2 DEF SimFields
  <2> QED BY <1>3, <2>3 DEF Finish, QueueStep
<1> QED BY <1>1, <1>2, <1>3 DEF QueueSimNext

LEMMA IndexInvariant == QueueSimSpec => []IndexInv
<1>1. QueueSimInit => IndexInv
  <2> SUFFICES ASSUME QueueSimInit PROVE IndexInv
    OBVIOUS
  <2>1. FeedOK
    BY FeedStarts DEF QueueSimInit
  <2>2. TickOK(sim, NewSimulator, resting, now)
    BY NewSimulatorIndexed, TickedSound DEF QueueSimInit
  <2> QED BY <2>1, <2>2, NewSimulatorIndexed DEF TickOK, IndexInv
<1>2. IndexInv /\ [QueueSimNext]_queueVars => IndexInv'
  <2> SUFFICES ASSUME IndexInv, [QueueSimNext]_queueVars PROVE IndexInv'
    OBVIOUS
  <2>1. QueueStep
    BY QueueSteps
  <2>2. ASSUME ~sim.finished, NEW m, NEW ts, FeedOK', HandledOK(sim', sim, m, resting', ts)
        PROVE  IndexInv'
    BY <2>2 DEF HandledOK, IndexInv
  <2>3. CASE sim'.finished /\ sim'.live = <<>> /\ UNCHANGED feedVars
    BY <2>3 DEF IndexInv, FeedOK, feedVars, bookVars
  <2>4. CASE UNCHANGED queueVars
    BY <2>4 DEF IndexInv, FeedOK, Indexed, queueVars, simVars, feedVars, bookVars
  <2> QED BY <2>1, <2>2, <2>3, <2>4 DEF QueueStep
<1> QED BY <1>1, <1>2, PTL DEF QueueSimSpec

\* The positions the simulator keeps per symbol are always exactly that
\* symbol's, whatever was placed, expired, dropped or compacted before.
THEOREM IndexExact == QueueSimSpec => []IndexIsExact
<1>1. IndexInv => IndexIsExact
  BY DEF IndexInv, IndexIsExact, Indexed
<1> QED BY <1>1, IndexInvariant, PTL
----------------------------------------------------------------------------
(* The exact model counts what rests ahead.                                *)

\* A sum of numbers that are not negative is not negative.
LEMMA TotalIsNat ==
  ASSUME NEW f, NEW S, IsFiniteSet(S), \A x \in S : f[x] \in Nat
  PROVE  Total(f, S) \in Nat
<1> DEFINE C == {s \in SUBSET S : Total(f, s) \notin Nat}
<1> SUFFICES ASSUME C # {} PROVE FALSE
  OBVIOUS
<1>1. PICK s \in C : \A t \in C : Cardinality(s) <= Cardinality(t)
  <2>1. \A s \in C : IsFiniteSet(s)
    BY FS_Subset
  <2> HIDE DEF C
  <2> QED BY <2>1, SmallestExists
<1>2. s \in SUBSET S /\ IsFiniteSet(s) /\ Total(f, s) \notin Nat
  BY FS_Subset
<1>3. s # {}
  <2>1. s = {} => Total(f, s) = 0
    BY <1>2, TotalUnfolds
  <2> QED BY <1>2, <2>1
<1>4. OneOf(s) \in s /\ Total(f, s) = f[OneOf(s)] + Total(f, s \ {OneOf(s)})
  BY <1>2, <1>3, OneOfIsOne, TotalUnfolds
<1>5. ~(Cardinality(s) <= Cardinality(s \ {OneOf(s)}))
  <2>1. /\ Cardinality(s) \in Nat /\ Cardinality(s \ {OneOf(s)}) \in Nat
        /\ Cardinality(s \ {OneOf(s)}) = Cardinality(s) - 1
    BY <1>2, <1>4, OneLess
  <2> QED BY <2>1
<1>6. s \ {OneOf(s)} \notin C
  <2> HIDE DEF C
  <2> QED BY <1>1, <1>5
<1>7. Total(f, s \ {OneOf(s)}) \in Nat /\ f[OneOf(s)] \in Nat
  BY <1>2, <1>4, <1>6
<1> QED BY <1>2, <1>4, <1>7

LEMMA SharesAreNatural ==
  ASSUME FeedOK, NEW S, S \subseteq DOMAIN resting
  PROVE  SharesOf(S) \in Nat
<1>1. \A r \in S : SharesIn(resting)[r] = resting[r].shares /\ resting[r].shares \in Nat
  BY SessionFeedAssumption DEF SharesIn, FeedOK, Order
<1>2. IsFiniteSet(S)
  BY FS_Subset DEF FeedOK
<1> QED BY <1>1, <1>2, TotalIsNat DEF SharesOf

\* The references refs are what the book bk, with its priority ah, has ahead of
\* an order at o's price, and n is their shares.
Counts(o, refs, n, bk, ah) ==
  /\ refs \subseteq Level(bk, o.locate, o.side, o.price)
  /\ n = Whole(Total(SharesIn(bk), refs))
  /\ \A r \in refs : ah[r] \subseteq refs

CountedFor(o, bk, ah) == Counts(o, o.ahead_refs, o.models["exact"].ahead, bk, ah)
ExactOK(o, bk, ah) == o.any_live /\ Live(o, "exact") => CountedFor(o, bk, ah)

\* An order has left the book, for good or for a replacement.
Taken(ref) ==
  /\ ref \in DOMAIN resting /\ ref \notin DOMAIN resting'
  /\ DOMAIN resting \ {ref} \subseteq DOMAIN resting' /\ Kept(DOMAIN resting \ {ref})
  /\ \A r \in DOMAIN resting \ {ref} : ahead'[r] = ahead[r] \ {ref}

\* The message takes qty shares of ref off the book.
Removes(ref, qty) ==
  \/ Lowered(ref, qty) /\ qty \in Nat
  \/ Taken(ref) /\ qty = resting[ref].shares

\* What the message does not touch is counted as before.
LEMMA CountKept ==
  ASSUME FeedOK, FeedOK', NEW o, NEW refs, NEW n, Counts(o, refs, n, resting, ahead),
         refs \subseteq DOMAIN resting', Kept(refs), \A r \in refs : ahead'[r] \subseteq ahead[r]
  PROVE  Counts(o, refs, n, resting', ahead')
<1>1. refs \subseteq DOMAIN resting
  BY DEF Counts, Level
<1>2. Total(SharesIn(resting'), refs) = SharesOf(refs)
  BY <1>1, SharesOfUnchanged
<1>3. refs \subseteq Level(resting', o.locate, o.side, o.price)
  BY DEF Counts, Level, Kept
<1> QED BY <1>2, <1>3 DEF Counts, SharesOf

\* A reference that is not counted is taken off.
LEMMA OthersCount ==
  ASSUME FeedOK, FeedOK', NEW ref, NEW qty, Removes(ref, qty),
         NEW o, NEW refs, NEW n, Counts(o, refs, n, resting, ahead), ref \notin refs
  PROVE  Counts(o, refs, n, resting', ahead')
<1>1. refs \subseteq DOMAIN resting \ {ref}
  BY DEF Counts, Level
<1>2. CASE Lowered(ref, qty)
  BY <1>1, <1>2, CountKept DEF Lowered, Kept
<1>3. CASE Taken(ref)
  BY <1>1, <1>3, CountKept DEF Taken, Kept
<1> QED BY <1>2, <1>3 DEF Removes

\* Taking off no more than there is.
LEMMA LessIsExact ==
  ASSUME NEW n \in Nat, NEW qty \in Nat, NEW k \in Nat, n = k + qty
  PROVE  Less(Whole(n), qty) = Whole(k)
<1>1. CASE n <= qty
  <2>1. k = 0
    BY <1>1
  <2>2. Whole(n)[1] = n /\ Whole(n)[2] = 1
    BY DEF Whole
  <2>3. Whole(n)[1] <= qty * Whole(n)[2]
    BY <1>1, <2>2
  <2> QED BY <2>1, <2>3 DEF Less
<1>2. CASE ~(n <= qty)
  <2>2. Whole(n)[1] = n /\ Whole(n)[2] = 1
    BY DEF Whole
  <2>3. ~(Whole(n)[1] <= qty * Whole(n)[2]) /\ n - qty * 1 = k
    BY <1>2, <2>2
  <2> QED BY <2>2, <2>3 DEF Less, Whole
<1> QED BY <1>1, <1>2

\* A counted one is: it is struck from the references once nothing is left of
\* it, and its shares from the number.
LEMMA OneCountsLess ==
  ASSUME FeedOK, FeedOK', NEW ref, NEW qty, Removes(ref, qty),
         NEW o, NEW refs, NEW n, Counts(o, refs, n, resting, ahead), ref \in refs
  PROVE  Counts(o, IF qty >= resting[ref].shares THEN refs \ {ref} ELSE refs, Less(n, qty),
                resting', ahead')
<1>1. /\ refs \subseteq DOMAIN resting /\ n = Whole(SharesOf(refs))
      /\ SharesOf(refs) \in Nat
  BY SharesAreNatural DEF Counts, Level, SharesOf
<1>2. resting[ref].shares \in Nat /\ resting[ref] \in Order
  BY <1>1, SessionFeedAssumption DEF FeedOK, Order
<1>3. CASE Lowered(ref, qty) /\ qty \in Nat
  <2>1. ~(qty >= resting[ref].shares)
    BY <1>2, <1>3 DEF Lowered
  <2>2. DOMAIN resting' = DOMAIN resting /\ ahead' = ahead
    BY <1>3 DEF Lowered
  <2>3. Total(SharesIn(resting'), refs) = SharesOf(refs) - qty
    BY <1>1, <1>3, SharesOfLowered
  <2>4. Total(SharesIn(resting'), refs) \in Nat
    <3>1. \A r \in refs : SharesIn(resting')[r] = resting'[r].shares
                          /\ resting'[r].shares \in Nat
      BY <1>1, <2>2, SessionFeedAssumption DEF SharesIn, FeedOK, Order
    <3>2. IsFiniteSet(refs)
      BY <1>1, FS_Subset DEF FeedOK
    <3> QED BY <3>1, <3>2, TotalIsNat
  <2>5. Less(n, qty) = Whole(Total(SharesIn(resting'), refs))
    <3> DEFINE k == Total(SharesIn(resting'), refs)
    <3> HIDE DEF k
    <3>1. SharesOf(refs) = k + qty
      BY ONLY <1>1, <1>3, <2>3, <2>4 DEF k
    <3> QED BY <1>1, <1>3, <2>4, <3>1, LessIsExact DEF k
  <2>6. refs \subseteq Level(resting', o.locate, o.side, o.price)
    <3> SUFFICES ASSUME NEW r \in refs PROVE r \in Level(resting', o.locate, o.side, o.price)
      OBVIOUS
    <3>1. r \in DOMAIN resting /\ r \in Level(resting, o.locate, o.side, o.price)
      BY <1>1 DEF Counts
    <3>2. /\ resting'[r].locate = resting[r].locate /\ resting'[r].side = resting[r].side
          /\ resting'[r].price = resting[r].price
      BY <1>3, <3>1, PlaceKept
    <3> QED BY <2>2, <3>1, <3>2 DEF Level
  <2> QED BY <2>1, <2>2, <2>5, <2>6 DEF Counts
<1>4. CASE Taken(ref) /\ qty = resting[ref].shares
  <2> DEFINE f == SharesIn(resting)
             h == SharesIn(resting')
             rest == refs \ {ref}
  <2>1. rest \subseteq DOMAIN resting /\ rest \subseteq DOMAIN resting'
    BY <1>1, <1>4 DEF Taken
  <2>2. Total(f, refs) = f[ref] + Total(h, rest) /\ Total(h, rest) \in Int /\ f[ref] \in Int
    <3>1. IntegersOn(f, refs) /\ OneMore(rest, refs, ref)
      BY <1>1, SharesAreIntegers DEF OneMore
    <3>2. AgreeOn(f, h, rest)
      BY <1>1, <1>4, <2>1 DEF AgreeOn, SharesIn, Taken, Kept
    <3> HIDE DEF f, h, rest
    <3> QED BY <3>1, <3>2, TotalOfOneMore DEF f, h, rest
  <2>3. Total(h, rest) \in Nat
    <3>1. \A r \in rest : h[r] = resting'[r].shares /\ resting'[r].shares \in Nat
      BY <2>1, SessionFeedAssumption DEF SharesIn, FeedOK, Order
    <3>2. IsFiniteSet(rest)
      BY <2>1, FS_Subset DEF FeedOK
    <3> HIDE DEF h, rest
    <3> QED BY <3>1, <3>2, TotalIsNat
  <2>4. f[ref] = qty /\ qty \in Nat /\ qty >= resting[ref].shares
    BY <1>2, <1>4 DEF SharesIn, Taken
  <2>5. Less(n, qty) = Whole(Total(h, rest))
    <3> DEFINE k == Total(h, rest)
               a == Total(f, refs)
    <3>0. a = SharesOf(refs)
      BY DEF SharesOf
    <3> HIDE DEF k, a, f
    <3>1. a = k + qty /\ a \in Nat
      <4>1. a = qty + k /\ k \in Nat /\ qty \in Nat
        BY <2>2, <2>3, <2>4 DEF k, a
      <4> QED BY ONLY <4>1
    <3>2. n = Whole(a)
      BY <1>1, <3>0
    <3> QED BY <2>3, <2>4, <3>1, <3>2, LessIsExact DEF k
  <2>6. rest \subseteq Level(resting', o.locate, o.side, o.price)
    BY <1>4, <2>1 DEF Counts, Level, Taken, Kept
  <2>7. \A r \in rest : ahead'[r] \subseteq rest
    BY <1>4, <2>1 DEF Counts, Taken
  <2>8. (IF qty >= resting[ref].shares THEN refs \ {ref} ELSE refs) = rest
    BY <2>4
  <2> HIDE DEF f, h, rest
  <2> QED BY <2>5, <2>6, <2>7, <2>8 DEF Counts, h
<1> QED BY <1>3, <1>4 DEF Removes
\* What a message removes, and whether it can be an order the count is about.
LEMMA RemovalEffect ==
  ASSUME NEW m, Effect(m)
  PROVE  /\ m.type \in {"E", "X"} => Removes(m.ref, m.qty)
         /\ m.type \in {"D", "U"} => Removes(m.ref, resting[m.ref].shares)
<1>1. \A ref : Gone(ref) => Taken(ref)
  BY DEF Gone, Taken
<1>2. \A ref, new, o : Swapped(ref, new, o) => Taken(ref)
  BY DEF Swapped, Taken
<1>3. CASE m.type \in {"E", "X"}
  <2>1. m.qty \in Nat
    BY <1>3 DEF Effect
  <2> QED BY <1>1, <1>3, <2>1 DEF Effect, Removes
<1>4. CASE m.type \in {"D", "U"}
  BY <1>1, <1>2, <1>4 DEF Effect, Removes
<1> QED BY <1>3, <1>4

\* Becoming another order of the same place leaves the count to the references.
LEMMA CountsSamePlace ==
  ASSUME NEW p, NEW o, SameOrder(p, o), NEW refs, NEW n, NEW bk, NEW ah
  PROVE  Counts(p, refs, n, bk, ah) <=> Counts(o, refs, n, bk, ah)
  BY DEF SameOrder, Counts

\* An order whose level the removed order does not rest at does not count it.
LEMMA NotCounted ==
  ASSUME NEW o, NEW refs, NEW n, Counts(o, refs, n, resting, ahead), NEW ref,
         \/ resting[ref].locate # o.locate \/ resting[ref].side # o.side
         \/ resting[ref].price # o.price
  PROVE  ref \notin refs
  BY DEF Counts, Level

\* A synthetic order after an execution.
LEMMA ExecutionCounts ==
  ASSUME FeedOK, FeedOK', NEW ref, NEW qty, Removes(ref, qty),
         NEW o, IsOrder(o), ExactOK(o, resting, ahead), NEW p,
         p = AfterExecution(o, ref, resting[ref], qty)
  PROVE  ExactOK(p, resting', ahead')
<1> SUFFICES ASSUME p.any_live, Live(p, "exact")
             PROVE  CountedFor(p, resting', ahead')
  BY DEF ExactOK
<1> DEFINE resolved == resting[ref]
<1>0. "exact" \in Models
  BY DEF Models
<1>1. CASE p = o /\ (o.side # resolved.side \/ resolved.price # o.price)
  <2>1. Counts(o, o.ahead_refs, o.models["exact"].ahead, resting, ahead)
    BY <1>1 DEF ExactOK, CountedFor
  <2>2. ref \notin o.ahead_refs
    BY <1>1, <2>1, NotCounted
  <2> QED BY <1>1, <2>1, <2>2, OthersCount DEF CountedFor
<1>2. CASE o.any_live /\ p = ExecutedAt(o, ref, resolved, qty)
  <2> DEFINE models == ModelsAfterExecution(o, ref, qty)
             refs == AheadRefsAfter(o, ref, resolved, qty)
  <2>1. /\ DOMAIN models = Models
        /\ \A m \in Models : DOMAIN models[m] = {"ahead", "live", "reason"}
    BY ModelsAfterExecutionSound
  <2>2. models["exact"] = ExactAfterExecution(o, ref, qty)
    BY <1>0 DEF ModelsAfterExecution
  <2>3. p = Judged(o, models, refs)
    BY <1>2 DEF ExecutedAt
  <2>4. refs = IF Live(o, "exact") /\ qty >= resting[ref].shares
               THEN o.ahead_refs \ {ref} ELSE o.ahead_refs
    BY DEF AheadRefsAfter
  <2> HIDE DEF models, refs
  <2>5. SameOrder(p, o) /\ p.models = models /\ p.ahead_refs = refs
    BY <2>1, <2>3, RemodelledSound DEF Becoming
  <2>6. models["exact"].live
    BY <2>5 DEF Live
  <2>7. DOMAIN o.models["exact"] = {"ahead", "live", "reason"}
    BY <1>0 DEF IsOrder
  <2>8. Live(o, "exact")
    BY <2>2, <2>6 DEF ExactAfterExecution, Live
  <2>9. ref \in o.ahead_refs
    <3>1. ref \notin o.ahead_refs => models["exact"] = Filled(o.models["exact"], "execution_behind")
      BY <2>2, <2>8 DEF ExactAfterExecution, Live
    <3>2. ~Filled(o.models["exact"], "execution_behind").live
      BY <2>7 DEF Filled
    <3> QED BY <2>6, <3>1, <3>2
  <2>10. models["exact"].ahead = Less(o.models["exact"].ahead, qty)
    <3>1. models["exact"] = [o.models["exact"] EXCEPT !.ahead = Less(@, qty)]
      BY <2>2, <2>8, <2>9 DEF ExactAfterExecution, Live
    <3> QED BY <2>7, <3>1
  <2>11. Counts(o, o.ahead_refs, o.models["exact"].ahead, resting, ahead)
    BY <1>2, <2>8 DEF ExactOK, CountedFor
  <2>12. Counts(o, refs, models["exact"].ahead, resting', ahead')
    <3>1. Counts(o, IF qty >= resting[ref].shares THEN o.ahead_refs \ {ref} ELSE o.ahead_refs,
                 Less(o.models["exact"].ahead, qty), resting', ahead')
      BY <2>9, <2>11, OneCountsLess
    <3> QED BY <2>4, <2>8, <2>10, <3>1
  <2> QED BY <2>5, <2>12, CountsSamePlace DEF CountedFor
<1>3. CASE ~o.any_live /\ p = o
  BY <1>3
<1>4. CASE p = FilledUnderAll(o, "trade_through")
  BY <1>4, FilledSound
<1> QED BY <1>1, <1>2, <1>3, <1>4, AfterExecutionCases

\* And after a cancel.
LEMMA CancelCounts ==
  ASSUME FeedOK, FeedOK', NEW ref, NEW qty, Removes(ref, qty), NEW bk,
         NEW o, IsOrder(o), ExactOK(o, resting, ahead),
         NEW p \in AfterCancel(bk, o, ref, resting[ref], qty)
  PROVE  ExactOK(p, resting', ahead')
<1> SUFFICES ASSUME p.any_live, Live(p, "exact")
             PROVE  CountedFor(p, resting', ahead')
  BY DEF ExactOK
<1> DEFINE resolved == resting[ref]
<1>0. "exact" \in Models
  BY DEF Models
<1>1. CASE p = o /\ ~AtLevel(o, resolved)
  <2>1. Counts(o, o.ahead_refs, o.models["exact"].ahead, resting, ahead)
    BY <1>1 DEF ExactOK, CountedFor
  <2>2. ref \notin o.ahead_refs
    BY <1>1, <2>1, NotCounted DEF AtLevel
  <2> QED BY <1>1, <2>1, <2>2, OthersCount DEF CountedFor
<1>2. ASSUME o.any_live, NEW before, NEW coin,
             p = CancelledAt(o, ref, resolved, qty, before, coin)
      PROVE  CountedFor(p, resting', ahead')
  <2> DEFINE models == ModelsAfterCancel(o, ref \in o.ahead_refs, qty, before, coin)
             refs == AheadRefsAfter(o, ref, resolved, qty)
  <2>1. /\ DOMAIN models = Models
        /\ \A m \in Models : /\ DOMAIN models[m] = {"ahead", "live", "reason"}
                             /\ models[m].live <=> o.models[m].live
    BY ModelsAfterCancelSound
  <2>2. models["exact"] = ModelAfterCancel(o, "exact", ref \in o.ahead_refs, qty, before, coin)
    BY <1>0 DEF ModelsAfterCancel
  <2>3. p = Charged(o, models, refs)
    BY <1>2 DEF CancelledAt
  <2>4. refs = IF Live(o, "exact") /\ qty >= resting[ref].shares
               THEN o.ahead_refs \ {ref} ELSE o.ahead_refs
    BY DEF AheadRefsAfter
  <2> HIDE DEF models, refs
  <2>5. SameOrder(p, o) /\ p.models = models /\ p.ahead_refs = refs
    BY <2>1, <2>3, RemodelledSound DEF Becoming
  <2>6. Live(o, "exact") /\ DOMAIN o.models["exact"] = {"ahead", "live", "reason"}
    BY <1>0, <2>1, <2>5 DEF Live, IsOrder
  <2>7. models["exact"].ahead = IF ref \in o.ahead_refs THEN Less(o.models["exact"].ahead, qty)
                                ELSE o.models["exact"].ahead
    BY <2>2, <2>6 DEF ModelAfterCancel, Live
  <2>8. Counts(o, o.ahead_refs, o.models["exact"].ahead, resting, ahead)
    BY <1>2, <2>6 DEF ExactOK, CountedFor
  <2>9. Counts(o, refs, models["exact"].ahead, resting', ahead')
    <3>1. CASE ref \in o.ahead_refs
      <4>1. Counts(o, IF qty >= resting[ref].shares THEN o.ahead_refs \ {ref} ELSE o.ahead_refs,
                   Less(o.models["exact"].ahead, qty), resting', ahead')
        BY <2>8, <3>1, OneCountsLess
      <4> QED BY <2>4, <2>6, <2>7, <3>1, <4>1
    <3>2. CASE ref \notin o.ahead_refs
      <4>1. refs = o.ahead_refs
        BY <2>4, <3>2
      <4>2. Counts(o, o.ahead_refs, o.models["exact"].ahead, resting', ahead')
        BY <2>8, <3>2, OthersCount
      <4> QED BY <2>7, <3>2, <4>1, <4>2
    <3> QED BY <3>1, <3>2
  <2> QED BY <2>5, <2>9, CountsSamePlace DEF CountedFor
<1>3. CASE ~o.any_live /\ p = o
  BY <1>3
<1> QED BY <1>1, <1>2, <1>3, AfterCancelCases
\* A message that takes nothing off the book.
LEMMA ArrivalCounts ==
  ASSUME FeedOK, FeedOK', NEW m, Effect(m), m.type \in {"A", "P", "B", "H"},
         NEW o, ExactOK(o, resting, ahead)
  PROVE  ExactOK(o, resting', ahead')
<1>1. /\ DOMAIN resting \subseteq DOMAIN resting' /\ Kept(DOMAIN resting)
      /\ \A r \in DOMAIN resting : ahead'[r] = ahead[r]
  BY DEF Effect, Joined, Kept
<1>2. ASSUME CountedFor(o, resting, ahead) PROVE CountedFor(o, resting', ahead')
  <2>1. Counts(o, o.ahead_refs, o.models["exact"].ahead, resting, ahead)
        /\ o.ahead_refs \subseteq DOMAIN resting
    BY <1>2 DEF CountedFor, Counts, Level
  <2>2. o.ahead_refs \subseteq DOMAIN resting' /\ Kept(o.ahead_refs)
    BY <1>1, <2>1 DEF Kept
  <2>3. \A r \in o.ahead_refs : ahead'[r] \subseteq ahead[r]
    BY <1>1, <2>1
  <2> QED BY <2>1, <2>2, <2>3, CountKept DEF CountedFor
<1> QED BY <1>2 DEF ExactOK

\* A new order is counted from what its whole level holds.
LEMMA FreshCounts ==
  FeedOK => \A o, ts : Fresh(o, resting, ts) => ExactOK(o, resting, ahead)
<1> SUFFICES ASSUME FeedOK, NEW o, NEW ts, Fresh(o, resting, ts)
             PROVE  CountedFor(o, resting, ahead)
  BY DEF ExactOK
<1>1. PICK l \in Locates, side \in Sides : o = NewOrder(o.id, resting, l, side, ts)
  BY DEF Fresh
<1>2. IsNew(o, o.id, resting, l, side, ts)
  BY <1>1, NewOrderSound
<1>3. /\ o.locate = l /\ o.side = side
      /\ o.depth = Depth(resting, l, side, o.price)
      /\ o.ahead_refs = Level(resting, l, side, o.price)
      /\ o.models["exact"].ahead = Whole(o.depth)
  BY <1>2 DEF IsNew, Models
<1>4. o.depth = SharesOf(o.ahead_refs)
  BY <1>3, DepthIsTotal
<1>5. ASSUME NEW r \in o.ahead_refs PROVE ahead[r] \subseteq o.ahead_refs
  <2>1. r \in DOMAIN resting /\ ahead[r] \subseteq {x \in DOMAIN resting : SamePlace(resting[x], resting[r])}
    BY <1>3 DEF Level, FeedOK
  <2> QED BY <1>3, <2>1 DEF Level, SamePlace
<1> QED BY <1>3, <1>4, <1>5 DEF CountedFor, Counts, SharesOf

LEMMA FreshCountsNext ==
  FeedOK' => \A o, ts : Fresh(o, resting', ts) => ExactOK(o, resting', ahead')
<1>1. FeedOK => \A o, ts : Fresh(o, resting, ts) => ExactOK(o, resting, ahead)
  BY FreshCounts
<1>2. (FeedOK => \A o, ts : Fresh(o, resting, ts) => ExactOK(o, resting, ahead))'
  BY <1>1, PTL
<1> QED BY <1>2

LEMMA AttributionCounts ==
  ASSUME FeedOK, FeedOK', NEW m, Effect(m), NEW o, IsOrder(o), ExactOK(o, resting, ahead),
         NEW p, AttributedTo(p, o, m, resting')
  PROVE  ExactOK(p, resting', ahead')
<1>1. CASE m.type = "E" /\ o.locate = resting[m.ref].locate
  <2>1. Removes(m.ref, m.qty) /\ p = AfterExecution(o, m.ref, resting[m.ref], m.qty)
    BY <1>1, RemovalEffect DEF AttributedTo
  <2> QED BY <2>1, ExecutionCounts
<1>2. CASE m.type = "E" /\ o.locate # resting[m.ref].locate
  <2>1. Removes(m.ref, m.qty) /\ p = o
    BY <1>2, RemovalEffect DEF AttributedTo
  <2>2. ASSUME CountedFor(o, resting, ahead) PROVE CountedFor(o, resting', ahead')
    <3>1. Counts(o, o.ahead_refs, o.models["exact"].ahead, resting, ahead)
      BY <2>2 DEF CountedFor
    <3>2. m.ref \notin o.ahead_refs
      BY <1>2, <3>1, NotCounted
    <3> QED BY <2>1, <3>1, <3>2, OthersCount DEF CountedFor
  <2> QED BY <2>1, <2>2 DEF ExactOK
<1>3. CASE m.type = "X"
  <2>1. Removes(m.ref, m.qty) /\ p \in AfterCancel(resting', o, m.ref, resting[m.ref], m.qty)
    BY <1>3, RemovalEffect DEF AttributedTo
  <2> QED BY <2>1, CancelCounts
<1>4. CASE m.type \in {"D", "U"}
  <2>1. /\ Removes(m.ref, resting[m.ref].shares)
        /\ p \in AfterCancel(resting', o, m.ref, resting[m.ref], resting[m.ref].shares)
    BY <1>4, RemovalEffect DEF AttributedTo
  <2> QED BY <2>1, CancelCounts
<1>5. CASE m.type \in {"P", "A", "B"}
  <2>1. p = o \/ p = FilledUnderAll(o, "non_displayed_print")
    BY <1>5 DEF AttributedTo
  <2>2. ExactOK(o, resting', ahead')
    BY <1>5, ArrivalCounts
  <2>3. ~FilledUnderAll(o, "non_displayed_print").any_live
    BY FilledSound
  <2> QED BY <2>1, <2>2, <2>3 DEF ExactOK
<1> QED BY <1>1, <1>2, <1>3, <1>4, <1>5 DEF AttributedTo

CountInv == IndexInv /\ \A i \in DOMAIN sim.live : ExactOK(sim.live[i], resting, ahead)

LEMMA CountKeptByMessage ==
  ASSUME CountInv, ~sim.finished, FeedOK', NEW m, Effect(m), NEW ts,
         HandledOK(sim', sim, m, resting', ts)
  PROVE  \A i \in DOMAIN sim'.live : ExactOK(sim'.live[i], resting', ahead')
<1> SUFFICES ASSUME NEW i \in DOMAIN sim'.live PROVE ExactOK(sim'.live[i], resting', ahead')
  OBVIOUS
<1>0. FeedOK /\ Indexed(sim)
  BY DEF CountInv, IndexInv
<1>1. CASE Fresh(sim'.live[i], resting', ts)
  BY <1>1, FreshCountsNext
<1>2. ASSUME NEW j \in DOMAIN sim.live,
             IF m.type = "H" THEN sim'.live[i] = sim.live[j]
             ELSE AttributedTo(sim'.live[i], sim.live[j], m, resting')
      PROVE  ExactOK(sim'.live[i], resting', ahead')
  <2>1. IsOrder(sim.live[j]) /\ ExactOK(sim.live[j], resting, ahead)
    BY <1>0 DEF CountInv, Indexed
  <2>2. CASE m.type = "H"
    <3>1. ExactOK(sim.live[j], resting', ahead')
      BY <1>0, <2>1, <2>2, ArrivalCounts
    <3> QED BY <1>2, <2>2, <3>1
  <2>3. CASE m.type # "H"
    <3>1. AttributedTo(sim'.live[i], sim.live[j], m, resting')
      BY <1>2, <2>3
    <3> QED BY <1>0, <2>1, <3>1, AttributionCounts
  <2> QED BY <2>2, <2>3
<1> QED BY <1>1, <1>2 DEF HandledOK

LEMMA CountInvariant == QueueSimSpec => []CountInv
<1>1. QueueSimInit => CountInv
  <2> SUFFICES ASSUME QueueSimInit PROVE CountInv
    OBVIOUS
  <2>1. FeedOK
    BY FeedStarts DEF QueueSimInit
  <2>2. TickOK(sim, NewSimulator, resting, now)
    BY NewSimulatorIndexed, TickedSound DEF QueueSimInit
  <2>3. \A i \in DOMAIN sim.live : Fresh(sim.live[i], resting, now)
    BY <2>2, NewSimulatorIndexed, NothingIsListed DEF TickOK, From
  <2> QED BY <2>1, <2>2, <2>3, NewSimulatorIndexed, FreshCounts DEF TickOK, CountInv, IndexInv
<1>2. CountInv /\ IndexInv' /\ [QueueSimNext]_queueVars => CountInv'
  <2> SUFFICES ASSUME CountInv, IndexInv', [QueueSimNext]_queueVars PROVE CountInv'
    OBVIOUS
  <2>1. QueueStep
    BY QueueSteps DEF CountInv
  <2>2. ASSUME ~sim.finished, NEW m, NEW ts, FeedOK', Effect(m),
               HandledOK(sim', sim, m, resting', ts)
        PROVE  CountInv'
    <3>1. \A i \in DOMAIN sim'.live : ExactOK(sim'.live[i], resting', ahead')
      BY <2>2, CountKeptByMessage
    <3> QED BY <3>1 DEF CountInv
  <2>3. CASE sim'.live = <<>>
    BY <2>3, NothingIsListed DEF CountInv
  <2>4. CASE UNCHANGED queueVars
    BY <2>4 DEF CountInv, queueVars, simVars, feedVars, bookVars
  <2> QED BY <2>1, <2>2, <2>3, <2>4 DEF QueueStep
<1> QED BY <1>1, <1>2, IndexInvariant, PTL DEF QueueSimSpec

\* The exact model's number is the sum of the shares that really rest ahead of
\* its order, each of its references is live at the order's price, and no order
\* ahead of one of them is missing, whatever executes, is cancelled or replaced.
THEOREM ExactIsExact == QueueSimSpec => []ExactCountsTheOrdersAhead
<1>1. CountInv => ExactCountsTheOrdersAhead
  <2> SUFFICES ASSUME CountInv, NEW i \in InPlay, Live(sim.live[i], "exact")
               PROVE  LET o == sim.live[i]
                      IN  /\ o.ahead_refs \subseteq Level(resting, o.locate, o.side, o.price)
                          /\ o.models["exact"].ahead =
                               Whole(Sum(o.ahead_refs, LAMBDA r : resting[r].shares))
                          /\ \A r \in o.ahead_refs : ahead[r] \subseteq o.ahead_refs
    BY DEF ExactCountsTheOrdersAhead
  <2> DEFINE o == sim.live[i]
             refs == o.ahead_refs
  <2>1. Counts(o, refs, o.models["exact"].ahead, resting, ahead)
    BY DEF CountInv, InPlay, ExactOK, CountedFor
  <2>2. refs \subseteq DOMAIN resting /\ IsFiniteSet(refs)
    <3>1. refs \subseteq DOMAIN resting
      BY <2>1 DEF Counts, Level
    <3> QED BY <3>1, FS_Subset DEF CountInv, IndexInv, FeedOK
  <2> HIDE DEF refs
  <2>3. Sum(refs, LAMBDA r : resting[r].shares) = Total(SharesIn(resting), refs)
    BY <2>2, SumOfShares DEF Sum
  <2>4. o.models["exact"].ahead = Whole(Sum(refs, LAMBDA r : resting[r].shares))
    BY <2>1, <2>3 DEF Counts
  <2> QED BY <2>1, <2>4 DEF Counts, refs
<1> QED BY <1>1, CountInvariant, PTL

----------------------------------------------------------------------------
(* Shares ahead as fractions.                                              *)

\* A fraction of a number that is not negative, zero in one form only.
Fraction(x) ==
  /\ x = <<x[1], x[2]>> /\ x[1] \in Nat /\ x[2] \in Nat \ {0}
  /\ x[1] = 0 => x = Whole(0)

LEMMA WholeSound ==
  ASSUME NEW n \in Nat
  PROVE  Fraction(Whole(n)) /\ Whole(n)[1] = n /\ Whole(n)[2] = 1
  BY DEF Fraction, Whole

\* Multiplying an inequality.
LEMMA TimesKeeps ==
  ASSUME NEW a \in Nat, NEW b \in Nat, NEW c \in Nat, a <= b
  PROVE  a * c <= b * c
<1>1. PICK k \in Nat : b = a + k
  <2>1. b - a \in Nat /\ b = a + (b - a)
    OBVIOUS
  <2> QED BY <2>1
<1>2. b * c = a * c + k * c /\ k * c \in Nat /\ a * c \in Nat
  BY <1>1
<1> QED BY ONLY <1>2

LEMMA TimesReflects ==
  ASSUME NEW a \in Nat, NEW b \in Nat, NEW c \in Nat \ {0}, a * c <= b * c
  PROVE  a <= b
<1> SUFFICES ASSUME b < a PROVE FALSE
  OBVIOUS
<1>1. PICK k \in Nat \ {0} : a = b + k
  <2>1. a - b \in Nat \ {0} /\ a = b + (a - b)
    OBVIOUS
  <2> QED BY <2>1
<1>2. a * c = b * c + k * c /\ k * c \in Nat /\ b * c \in Nat
  BY <1>1
<1>3. k * c > 0
  BY <1>1
<1> QED BY ONLY <1>2, <1>3, a * c <= b * c

LEMMA AtMostRefl == ASSUME NEW x, Fraction(x) PROVE AtMost(x, x)
  BY DEF AtMost, Fraction

LEMMA AtMostTrans ==
  ASSUME NEW x, NEW y, NEW z, Fraction(x), Fraction(y), Fraction(z), AtMost(x, y), AtMost(y, z)
  PROVE  AtMost(x, z)
<1> DEFINE a == x[1]
           b == x[2]
           c == y[1]
           d == y[2]
           e == z[1]
           f == z[2]
<1>1. /\ a \in Nat /\ c \in Nat /\ e \in Nat
      /\ b \in Nat \ {0} /\ d \in Nat \ {0} /\ f \in Nat \ {0}
      /\ a * d <= c * b /\ c * f <= e * d
  BY DEF Fraction, AtMost
<1> HIDE DEF a, b, c, d, e, f
<1>2. (a * d) * f <= (c * b) * f
  <2>1. a * d \in Nat /\ c * b \in Nat /\ f \in Nat
    BY <1>1
  <2> QED BY <1>1, <2>1, TimesKeeps
<1>3. (c * f) * b <= (e * d) * b
  <2>1. c * f \in Nat /\ e * d \in Nat /\ b \in Nat
    BY <1>1
  <2> QED BY <1>1, <2>1, TimesKeeps
<1>4. /\ (a * d) * f = (a * f) * d /\ (c * b) * f = (c * f) * b /\ (e * d) * b = (e * b) * d
      /\ (a * f) * d \in Nat /\ (c * f) * b \in Nat /\ (e * b) * d \in Nat
      /\ a * f \in Nat /\ e * b \in Nat
  BY <1>1
<1>5. (a * f) * d <= (e * b) * d
  BY ONLY <1>2, <1>3, <1>4
<1>6. a * f <= e * b
  BY <1>1, <1>4, <1>5, TimesReflects
<1> QED BY <1>6 DEF AtMost, a, b, e, f

\* Subtracting, and stopping at zero.
LEMMA LessSound ==
  ASSUME NEW x, Fraction(x), NEW q \in Nat
  PROVE  /\ Fraction(Less(x, q)) /\ AtMost(Less(x, q), x)
         /\ x[1] <= q * x[2] => Less(x, q) = Whole(0)
         /\ ~(x[1] <= q * x[2]) => /\ Less(x, q)[1] = x[1] - q * x[2] /\ Less(x, q)[2] = x[2]
                                   /\ Less(x, q)[1] \in Nat \ {0}
<1> DEFINE n == x[1]
           d == x[2]
<1>1. n \in Nat /\ d \in Nat \ {0} /\ q * d \in Nat
  BY DEF Fraction
<1>2. CASE n <= q * d
  <2>1. Less(x, q) = Whole(0)
    BY <1>2 DEF Less
  <2>2. Fraction(Whole(0)) /\ Whole(0)[1] = 0 /\ Whole(0)[2] = 1
    BY WholeSound
  <2>3. AtMost(Whole(0), x)
    BY <1>1, <2>2 DEF AtMost
  <2> QED BY <1>2, <2>1, <2>2, <2>3
<1>3. CASE ~(n <= q * d)
  <2> DEFINE y == Less(x, q)
             k == n - q * d
  <2>1. y = <<k, d>>
    BY <1>3 DEF Less
  <2>2. k \in Nat \ {0} /\ k <= n
    BY ONLY <1>1, <1>3 DEF k
  <2> HIDE DEF y, k
  <2>3. Fraction(y) /\ y[1] = k /\ y[2] = d
    BY <1>1, <2>1, <2>2 DEF Fraction
  <2> HIDE DEF n, d
  <2>4. k * d <= n * d
    BY <1>1, <2>2, TimesKeeps
  <2>5. AtMost(y, x)
    BY <2>3, <2>4 DEF AtMost, n, d
  <2> QED BY <1>3, <2>2, <2>3, <2>5 DEF y, k, n, d
<1> QED BY <1>2, <1>3

LEMMA LessMonotone ==
  ASSUME NEW x, NEW y, Fraction(x), Fraction(y), AtMost(x, y), NEW q \in Nat
  PROVE  AtMost(Less(x, q), Less(y, q))
<1> DEFINE a == x[1]
           b == x[2]
           c == y[1]
           d == y[2]
<1>1. /\ a \in Nat /\ c \in Nat /\ b \in Nat \ {0} /\ d \in Nat \ {0}
      /\ a * d <= c * b
  BY DEF Fraction, AtMost
<1>2. CASE a <= q * b
  <2>1. Less(x, q) = Whole(0) /\ Whole(0)[1] = 0 /\ Whole(0)[2] = 1 /\ Fraction(Less(y, q))
    BY <1>2, LessSound, WholeSound
  <2>2. AtMost(Whole(0), Less(y, q))
    BY <2>1 DEF AtMost, Fraction
  <2> QED BY <2>1, <2>2
<1>3. CASE ~(a <= q * b)
  <2>1. /\ Less(x, q)[1] = a - q * b /\ Less(x, q)[2] = b
    BY <1>3, LessSound
  <2>2. /\ c <= q * d => Less(y, q) = Whole(0)
        /\ ~(c <= q * d) => Less(y, q)[1] = c - q * d /\ Less(y, q)[2] = d
    BY LessSound
  <2> HIDE DEF a, b, c, d
  <2>3. ~(c <= q * d)
    <3> SUFFICES ASSUME c <= q * d PROVE FALSE
      OBVIOUS
    <3>1. c * b <= (q * d) * b
      <4>1. q * d \in Nat /\ b \in Nat
        BY <1>1
      <4> QED BY <1>1, <4>1, TimesKeeps
    <3>2. (q * d) * b = (q * b) * d /\ a * d \in Nat /\ c * b \in Nat /\ (q * b) * d \in Nat /\ q * b \in Nat
      BY <1>1
    <3>3. a * d <= (q * b) * d
      BY ONLY <1>1, <3>1, <3>2
    <3>4. a <= q * b
      BY <1>1, <3>2, <3>3, TimesReflects
    <3> QED BY <1>3, <3>4
  <2>4. (a - q * b) * d <= (c - q * d) * b
    <3>1. (a - q * b) * d = a * d - (q * b) * d /\ (c - q * d) * b = c * b - (q * d) * b
      BY <1>1
    <3>2. (q * d) * b = (q * b) * d /\ a * d \in Int /\ c * b \in Int /\ (q * b) * d \in Int
      BY <1>1
    <3> QED BY ONLY <1>1, <3>1, <3>2
  <2> QED BY <2>1, <2>2, <2>3, <2>4 DEF AtMost
<1> QED BY <1>2, <1>3
\* A divisor goes in as often as the quotient says.
LEMMA DividesExactly ==
  ASSUME NEW n \in Nat, NEW g \in Nat \ {0}, Divides(g, n)
  PROVE  n \div g \in Nat /\ n = g * (n \div g)
<1>1. n % g = 0
  BY DEF Divides
<1>2. n % g \in 0..g - 1 /\ n \div g \in Int /\ n = g * (n \div g) + (n % g)
  OBVIOUS
<1>3. n \div g \in Nat
  BY DivisionBounds
<1>4. g * (n \div g) \in Nat
  BY <1>3
<1> QED BY ONLY <1>1, <1>2, <1>3, <1>4

\* Lowest terms are the same fraction.
LEMMA LowestTermsSound ==
  ASSUME NEW n \in Nat, NEW d \in Nat \ {0}
  PROVE  LET y == LowestTerms(n, d)
         IN  Fraction(y) /\ y[1] * d = n * y[2]
<1> DEFINE Common(k) == /\ Divides(k, n) /\ Divides(k, d)
                        /\ \A j \in 1..d : Divides(j, n) /\ Divides(j, d) => j <= k
           S == {k \in 1..d : Divides(k, n) /\ Divides(k, d)}
           g == CHOOSE k \in 1..d : Common(k)
           y == LowestTerms(n, d)
<1>1. \E k \in 1..d : Common(k)
  <2>1. S \in SUBSET Nat /\ IsFiniteSet(S)
    <3>1. IsFiniteSet(1..d)
      BY FS_Interval
    <3> QED BY <3>1, FS_Subset
  <2>2. 1 \in S
    BY DEF Divides
  <2>3. PICK x \in S : \A z \in S : z <= x
    <3> HIDE DEF S
    <3> QED BY <2>1, <2>2, LargestExists
  <2> QED BY <2>3
<1>2. g \in 1..d /\ Common(g)
  <2> HIDE DEF Common
  <2> QED BY <1>1
<1>3. y = <<n \div g, d \div g>>
  BY DEF LowestTerms
<1> HIDE DEF g, y
<1> DEFINE a == n \div g
           b == d \div g
<1>4. /\ g \in Nat \ {0} /\ a \in Nat /\ b \in Nat /\ n = g * a /\ d = g * b
  <2>1. Divides(g, n) /\ Divides(g, d) /\ g \in Nat \ {0} /\ d \in Nat
    BY <1>2
  <2> HIDE DEF Common
  <2> QED BY <2>1, DividesExactly
<1>5. ASSUME a = 0 PROVE y = Whole(0)
  <2>1. n = 0
    BY <1>4, <1>5
  <2>2. Divides(d, n) /\ Divides(d, d) /\ d \in 1..d
    <3>1. 0 % d = 0 /\ d % d = 0
      OBVIOUS
    <3> QED BY <2>1, <3>1 DEF Divides
  <2>3. d <= g
    BY <1>2, <2>2
  <2>4. d = g
    BY <1>2, <2>3
  <2>5. b = 1
    BY <2>4
  <2> QED BY <1>3, <1>5, <2>5 DEF Whole
<1> HIDE DEF a, b, Common
<1>6. b # 0
  BY <1>4
<1>7. y[1] = a /\ y[2] = b /\ y = <<y[1], y[2]>>
  BY <1>3 DEF a, b
<1>8. a * d = n * b
  <2>1. a * (g * b) = (g * a) * b
    BY <1>4
  <2> QED BY <1>4, <2>1
<1> QED BY <1>4, <1>5, <1>6, <1>7, <1>8 DEF Fraction, y

\* What the proportional model keeps of x when q of `before` shares go.
Share(x, q, before) == LowestTerms(x[1] * (before - q), x[2] * before)

LEMMA ShareSound ==
  ASSUME NEW x, Fraction(x), NEW before \in Nat \ {0}, NEW q \in 0..before
  PROVE  /\ Fraction(Share(x, q, before)) /\ AtMost(Share(x, q, before), x)
         /\ AtMost(x, Whole(before)) => /\ AtMost(Share(x, q, before), Whole(before - q))
                                        /\ AtMost(Less(x, q), Share(x, q, before))
<1> DEFINE z == Share(x, q, before)
           n == x[1]
           d == x[2]
           k == before - q
           u == z[1]
           v == z[2]
<1>1. n \in Nat /\ d \in Nat \ {0} /\ k \in Nat /\ q \in Nat /\ k + q = before
      /\ k <= before
  BY DEF Fraction
<1> HIDE DEF k
<1>2. n * k \in Nat /\ d * before \in Nat \ {0} /\ z = LowestTerms(n * k, d * before)
  BY <1>1 DEF Share, k
<1>3. Fraction(z) /\ u * (d * before) = (n * k) * v
  <2> HIDE DEF z, n, d
  <2> QED BY <1>2, LowestTermsSound
<1>4. u \in Nat /\ v \in Nat \ {0}
  BY <1>3 DEF Fraction
<1> HIDE DEF z, n, d, u, v
<1>5. (u * d) * before = (n * v) * k /\ u * d \in Nat /\ n * v \in Nat
  BY <1>1, <1>3, <1>4
<1>6. u * d <= n * v
  <2>1. (n * v) * k <= (n * v) * before
    <3>1. k * (n * v) <= before * (n * v)
      BY <1>1, <1>5, TimesKeeps
    <3>2. (n * v) * k = k * (n * v) /\ (n * v) * before = before * (n * v)
      BY <1>1, <1>5
    <3> QED BY <3>1, <3>2
  <2> QED BY <1>5, <2>1, TimesReflects
<1>7. AtMost(z, x)
  BY <1>6 DEF AtMost, u, v, n, d
<1>8. ASSUME AtMost(x, Whole(before))
      PROVE  AtMost(z, Whole(k)) /\ AtMost(Less(x, q), z)
  <2>1. n <= before * d
    <3>1. Whole(before)[1] = before /\ Whole(before)[2] = 1
      BY DEF Whole
    <3>2. n * 1 <= before * d
      BY <1>8, <3>1 DEF AtMost, n, d
    <3> QED BY <1>1, <3>2
  <2>2. u <= k * v
    <3>1. n * (v * k) <= (before * d) * (v * k)
      <4>1. v * k \in Nat /\ before * d \in Nat
        BY <1>1, <1>4
      <4> QED BY <1>1, <2>1, <4>1, TimesKeeps
    <3>2. /\ n * (v * k) = (n * v) * k
          /\ (before * d) * (v * k) = (k * v) * (d * before)
          /\ (u * d) * before = u * (d * before)
          /\ k * v \in Nat
      BY <1>1, <1>4
    <3>3. u * (d * before) <= (k * v) * (d * before)
      BY <1>5, <3>1, <3>2
    <3> QED BY <1>2, <1>4, <3>2, <3>3, TimesReflects
  <2>3. AtMost(z, Whole(k))
    <3>1. Whole(k)[1] = k /\ Whole(k)[2] = 1 /\ u * 1 = u
      BY <1>4 DEF Whole
    <3> QED BY <2>2, <3>1 DEF AtMost, u, v
  <2>4. CASE n <= q * d
    <3>1. Less(x, q) = Whole(0) /\ Whole(0)[1] = 0 /\ Whole(0)[2] = 1
      BY <1>1, <2>4, LessSound, WholeSound DEF n, d
    <3>2. 0 * v <= u * 1
      BY <1>4
    <3>3. AtMost(Less(x, q), z)
      BY <3>1, <3>2 DEF AtMost, u, v
    <3> QED BY <2>3, <3>3
  <2>5. CASE ~(n <= q * d)
    <3>1. Less(x, q)[1] = n - q * d /\ Less(x, q)[2] = d /\ n - q * d \in Nat
      BY <1>1, <2>5, LessSound DEF n, d
    <3>2. n * (q * v) <= (before * d) * (q * v)
      <4>1. q * v \in Nat /\ before * d \in Nat
        BY <1>1, <1>4
      <4> QED BY <1>1, <2>1, <4>1, TimesKeeps
    <3>3. /\ ((n - q * d) * v) * before = (n * v) * before - (before * d) * (q * v)
          /\ (n * v) * before = (n * v) * k + n * (q * v)
          /\ (n * v) * before \in Int /\ (before * d) * (q * v) \in Int
          /\ (n * v) * k \in Int /\ n * (q * v) \in Int
          /\ (n - q * d) * v \in Nat
      BY <1>1, <1>4, <3>1
    <3>4. ((n - q * d) * v) * before <= (u * d) * before
      BY ONLY <1>5, <3>2, <3>3
    <3>5. (n - q * d) * v <= u * d
      BY <1>5, <3>3, <3>4, TimesReflects
    <3>6. AtMost(Less(x, q), z)
      BY <3>1, <3>5 DEF AtMost, u, v
    <3> QED BY <2>3, <3>6
  <2> QED BY <2>4, <2>5
<1> QED BY <1>3, <1>7, <1>8 DEF z, k
----------------------------------------------------------------------------
(* The five models of one order stay in their order.                       *)

Numbers(o) == \A m \in Models : Fraction(o.models[m].ahead)
Brackets(o, pr) == \A m \in Models : m # "exact" \/ pr => Bracketed(o, m)
Bounded(o, bk) ==
  o.any_live /\ Live(o, "proportional") =>
    AtMost(o.models["proportional"].ahead, Whole(Depth(bk, o.locate, o.side, o.price)))
ModelsOK(o, bk, pr) == Numbers(o) /\ Brackets(o, pr) /\ Bounded(o, bk)

\* A model that saw q shares executed at the order's price, and one that saw q
\* cancelled there.
Served(p, o, m, q) ==
  /\ Live(p, m) <=> Live(o, m) /\ o.models[m].ahead # Whole(0)
  /\ Live(p, m) => p.models[m].ahead = Less(o.models[m].ahead, q)
Relieved(p, o, m, q) ==
  /\ Live(p, m) <=> Live(o, m)
  /\ Live(p, m) => /\ AtMost(p.models[m].ahead, o.models[m].ahead)
                   /\ AtMost(Less(o.models[m].ahead, q), p.models[m].ahead)

LEMMA NothingIsLeast ==
  ASSUME NEW x, Fraction(x), NEW y, Fraction(y), AtMost(x, y), y = Whole(0)
  PROVE  x = Whole(0)
<1>1. Whole(0)[1] = 0 /\ Whole(0)[2] = 1
  BY WholeSound
<1>2. x[1] * 1 <= 0 * x[2] /\ x[1] \in Nat /\ x[2] \in Nat
  BY <1>1 DEF AtMost, Fraction
<1>3. x[1] = 0
  BY <1>2
<1> QED BY <1>3 DEF Fraction

LEMMA ServedBracket ==
  ASSUME NEW o, NEW p, Numbers(o), Numbers(p), NEW q \in Nat, NEW m \in Models,
         Served(p, o, m, q), Served(p, o, "conservative", q), Served(p, o, "optimistic", q),
         Bracketed(o, m)
  PROVE  Bracketed(p, m)
<1>0. "conservative" \in Models /\ "optimistic" \in Models
  BY DEF Models
<1> DEFINE x == o.models[m].ahead
           c == o.models["conservative"].ahead
           b == o.models["optimistic"].ahead
<1>1. Fraction(x) /\ Fraction(c) /\ Fraction(b)
  BY <1>0 DEF Numbers
<1>2. ASSUME Live(p, m)
      PROVE  Live(p, "conservative") /\ AtMost(p.models[m].ahead, p.models["conservative"].ahead)
  <2>1. Live(o, m) /\ x # Whole(0) /\ p.models[m].ahead = Less(x, q)
    BY <1>2 DEF Served
  <2>2. Live(o, "conservative") /\ AtMost(x, c)
    BY <2>1 DEF Bracketed
  <2> HIDE DEF x, c
  <2>3. c # Whole(0)
    BY <1>1, <2>1, <2>2, NothingIsLeast
  <2>4. Live(p, "conservative") /\ p.models["conservative"].ahead = Less(c, q)
    BY <2>2, <2>3 DEF Served, c
  <2>5. AtMost(Less(x, q), Less(c, q))
    BY <1>1, <2>2, LessMonotone
  <2> QED BY <2>1, <2>4, <2>5
<1>3. ASSUME Live(p, "optimistic")
      PROVE  Live(p, m) /\ AtMost(p.models["optimistic"].ahead, p.models[m].ahead)
  <2>1. Live(o, "optimistic") /\ b # Whole(0) /\ p.models["optimistic"].ahead = Less(b, q)
    BY <1>3 DEF Served
  <2>2. Live(o, m) /\ AtMost(b, x)
    BY <2>1 DEF Bracketed
  <2> HIDE DEF x, b
  <2>3. x # Whole(0)
    BY <1>1, <2>1, <2>2, NothingIsLeast
  <2>4. Live(p, m) /\ p.models[m].ahead = Less(x, q)
    BY <2>2, <2>3 DEF Served, x
  <2>5. AtMost(Less(b, q), Less(x, q))
    BY <1>1, <2>2, LessMonotone
  <2> QED BY <2>1, <2>4, <2>5
<1> QED BY <1>2, <1>3 DEF Bracketed

\* What the conservative model never subtracts and the optimistic one always
\* does, every other model does in part.
LEMMA RelievedBracket ==
  ASSUME NEW o, NEW p, Numbers(o), Numbers(p), NEW q \in Nat, NEW m \in Models,
         Relieved(p, o, m, q), Relieved(p, o, "conservative", q),
         Relieved(p, o, "optimistic", q),
         p.models["conservative"].ahead = o.models["conservative"].ahead,
         Live(p, "optimistic") =>
           p.models["optimistic"].ahead = Less(o.models["optimistic"].ahead, q),
         Bracketed(o, m)
  PROVE  Bracketed(p, m)
<1>0. "conservative" \in Models /\ "optimistic" \in Models
  BY DEF Models
<1> DEFINE x == o.models[m].ahead
           y == p.models[m].ahead
           c == o.models["conservative"].ahead
           b == o.models["optimistic"].ahead
<1>1. Fraction(x) /\ Fraction(c) /\ Fraction(b) /\ Fraction(y)
  BY <1>0 DEF Numbers
<1>2. ASSUME Live(p, m)
      PROVE  Live(p, "conservative") /\ AtMost(p.models[m].ahead, p.models["conservative"].ahead)
  <2>1. Live(o, m) /\ AtMost(y, x)
    BY <1>2 DEF Relieved
  <2>2. Live(o, "conservative") /\ AtMost(x, c)
    BY <2>1 DEF Bracketed
  <2>3. Live(p, "conservative") /\ p.models["conservative"].ahead = c
    BY <2>2 DEF Relieved
  <2>4. AtMost(y, c)
    <3> HIDE DEF x, y, c
    <3> QED BY <1>1, <2>1, <2>2, AtMostTrans
  <2> QED BY <2>3, <2>4
<1>3. ASSUME Live(p, "optimistic")
      PROVE  Live(p, m) /\ AtMost(p.models["optimistic"].ahead, p.models[m].ahead)
  <2>1. Live(o, "optimistic") /\ p.models["optimistic"].ahead = Less(b, q)
    BY <1>3 DEF Relieved
  <2>2. Live(o, m) /\ AtMost(b, x)
    BY <2>1 DEF Bracketed
  <2>3. Live(p, m)
    BY <2>2 DEF Relieved
  <2>4. AtMost(Less(x, q), y)
    BY <2>3 DEF Relieved
  <2>5. AtMost(Less(b, q), y)
    <3> HIDE DEF x, y, b
    <3>1. AtMost(Less(b, q), Less(x, q)) /\ Fraction(Less(b, q)) /\ Fraction(Less(x, q))
      BY <1>1, <2>2, LessMonotone, LessSound
    <3> QED BY <1>1, <2>4, <3>1, AtMostTrans
  <2> QED BY <2>1, <2>3, <2>5
<1> QED BY <1>2, <1>3 DEF Bracketed

\* Taking q from what is at most k + q leaves at most k.
LEMMA LessBelow ==
  ASSUME NEW x, Fraction(x), NEW n \in Nat, NEW q \in Nat, NEW k \in Nat, n <= k + q,
         AtMost(x, Whole(n))
  PROVE  AtMost(Less(x, q), Whole(k))
<1>1. Fraction(Whole(n)) /\ Whole(n)[1] = n /\ Whole(n)[2] = 1
  BY WholeSound
<1>2. Fraction(Whole(k + q)) /\ Whole(k + q)[1] = k + q /\ Whole(k + q)[2] = 1
  BY WholeSound
<1>3. AtMost(Whole(n), Whole(k + q))
  BY <1>1, <1>2 DEF AtMost
<1>4. AtMost(x, Whole(k + q))
  BY <1>1, <1>2, <1>3, AtMostTrans
<1>5. AtMost(Less(x, q), Less(Whole(k + q), q))
  BY <1>2, <1>4, LessMonotone
<1>6. Less(Whole(k + q), q) = Whole(k)
  <2>1. k + q \in Nat
    OBVIOUS
  <2> QED BY <2>1, LessIsExact
<1> QED BY <1>5, <1>6

LEMMA WholeMonotone ==
  ASSUME NEW n \in Nat, NEW k \in Nat, n <= k
  PROVE  AtMost(Whole(n), Whole(k))
<1>1. /\ Whole(n)[1] = n /\ Whole(n)[2] = 1 /\ Whole(k)[1] = k /\ Whole(k)[2] = 1
  BY WholeSound
<1> QED BY <1>1 DEF AtMost

\* Fewer orders have no more shares.
LEMMA TotalOfFewer ==
  ASSUME NEW f, NEW S, NEW T, IsFiniteSet(T), S \subseteq T, \A x \in T : f[x] \in Nat
  PROVE  Total(f, S) <= Total(f, T) /\ Total(f, S) \in Nat /\ Total(f, T) \in Nat
<1> DEFINE C == {s \in SUBSET T : ~(Total(f, S \cap s) <= Total(f, s))}
<1>1. \A s \in SUBSET T : /\ IsFiniteSet(s) /\ IsFiniteSet(S \cap s)
                          /\ Total(f, s) \in Nat /\ Total(f, S \cap s) \in Nat
  <2> TAKE s \in SUBSET T
  <2>1. IsFiniteSet(s) /\ IsFiniteSet(S \cap s)
    BY FS_Subset
  <2> QED BY <2>1, TotalIsNat
<1>2. C = {}
  <2> SUFFICES ASSUME C # {} PROVE FALSE
    OBVIOUS
  <2>1. PICK s \in C : \A t \in C : Cardinality(s) <= Cardinality(t)
    <3>1. \A s \in C : IsFiniteSet(s)
      BY <1>1
    <3> HIDE DEF C
    <3> QED BY <3>1, SmallestExists
  <2>2. s \in SUBSET T /\ ~(Total(f, S \cap s) <= Total(f, s))
    OBVIOUS
  <2>3. s # {}
    <3>1. s = {} => S \cap s = s
      OBVIOUS
    <3>2. Total(f, s) \in Nat
      BY <1>1, <2>2
    <3> QED BY <2>2, <3>1, <3>2
  <2> DEFINE a == OneOf(s)
             r == s \ {a}
  <2>4. a \in s /\ Total(f, s) = f[a] + Total(f, r) /\ f[a] \in Nat
    BY <1>1, <2>2, <2>3, OneOfIsOne, TotalUnfolds
  <2>5. ~(Cardinality(s) <= Cardinality(r)) /\ r \in SUBSET T
    <3>1. /\ Cardinality(s) \in Nat /\ Cardinality(r) \in Nat
          /\ Cardinality(r) = Cardinality(s) - 1
      BY <1>1, <2>2, <2>4, OneLess
    <3> QED BY <2>2, <3>1
  <2>6. Total(f, S \cap r) <= Total(f, r) /\ Total(f, S \cap r) \in Nat /\ Total(f, r) \in Nat
    <3>1. r \notin C
      <4> HIDE DEF C, r
      <4> QED BY <2>1, <2>5
    <3> QED BY <1>1, <2>5, <3>1
  <2>7. CASE a \in S
    <3>1. S \cap r = (S \cap s) \ {a} /\ a \in S \cap s
      BY <2>4, <2>7
    <3>2. Total(f, S \cap s) = f[a] + Total(f, (S \cap s) \ {a})
      <4> DEFINE m == S \cap s
      <4>1. IsFiniteSet(m) /\ a \in m /\ \A x \in m : f[x] \in Int
        BY <1>1, <2>2, <3>1
      <4> HIDE DEF a, m
      <4>2. Total(f, m) = f[a] + Total(f, m \ {a})
        BY <4>1, TotalSplits
      <4> QED BY <4>2 DEF m
    <3>3. Total(f, S \cap s) = f[a] + Total(f, S \cap r)
      BY <3>1, <3>2
    <3> QED BY <2>2, <2>4, <2>6, <3>3
  <2>8. CASE a \notin S
    <3>1. S \cap r = S \cap s
      BY <2>8
    <3>2. Total(f, S \cap s) <= Total(f, r) /\ Total(f, S \cap s) \in Nat
      BY <2>6, <3>1
    <3> QED BY <2>2, <2>4, <2>6, <3>2
  <2> QED BY <2>7, <2>8
<1>3. T \in SUBSET T /\ S \cap T = S /\ T \notin C
  BY <1>2
<1>4. Total(f, S) <= Total(f, T)
  BY <1>3
<1> QED BY <1>1, <1>3, <1>4

DepthOf(bk, o) == Depth(bk, o.locate, o.side, o.price)
LevelOf(bk, o) == Level(bk, o.locate, o.side, o.price)

LEMMA DepthIsNat == FeedOK => \A o : /\ DepthOf(resting, o) = Total(SharesIn(resting), LevelOf(resting, o))
                                     /\ DepthOf(resting, o) \in Nat
<1> SUFFICES ASSUME FeedOK, NEW o
             PROVE  /\ DepthOf(resting, o) = Total(SharesIn(resting), LevelOf(resting, o))
                    /\ DepthOf(resting, o) \in Nat
  OBVIOUS
<1>1. DepthOf(resting, o) = SharesOf(LevelOf(resting, o))
  BY DepthIsTotal DEF DepthOf, LevelOf
<1>2. LevelOf(resting, o) \subseteq DOMAIN resting
  BY DEF LevelOf, Level
<1> QED BY <1>1, <1>2, SharesAreNatural DEF SharesOf

LEMMA DepthIsNatNext == FeedOK' => \A o : /\ DepthOf(resting', o) = Total(SharesIn(resting'), LevelOf(resting', o))
                                          /\ DepthOf(resting', o) \in Nat
<1>1. FeedOK => \A o : /\ DepthOf(resting, o) = Total(SharesIn(resting), LevelOf(resting, o))
                       /\ DepthOf(resting, o) \in Nat
  BY DepthIsNat
<1>2. (FeedOK => \A o : /\ DepthOf(resting, o) = Total(SharesIn(resting), LevelOf(resting, o))
                        /\ DepthOf(resting, o) \in Nat)'
  BY <1>1, PTL
<1> QED BY <1>2

\* Orders that stay at a level keep it at least as deep as they are.
LEMMA StayersDepth ==
  ASSUME FeedOK, FeedOK', NEW o, NEW S, S \subseteq LevelOf(resting, o),
         S \subseteq DOMAIN resting', Kept(S)
  PROVE  /\ SharesOf(S) <= DepthOf(resting', o)
         /\ SharesOf(S) \in Nat /\ DepthOf(resting', o) \in Nat
<1>1. S \subseteq DOMAIN resting
  BY DEF LevelOf, Level
<1>2. Total(SharesIn(resting'), S) = SharesOf(S)
  BY <1>1, SharesOfUnchanged
<1> DEFINE h == SharesIn(resting')
           T == LevelOf(resting', o)
<1>3. S \subseteq T
  BY DEF LevelOf, Level, Kept
<1>4. IsFiniteSet(T) /\ \A x \in T : h[x] \in Nat
  <2>1. T \subseteq DOMAIN resting'
    BY DEF LevelOf, Level
  <2>2. \A r \in T : h[r] = resting'[r].shares /\ resting'[r].shares \in Nat
    BY <2>1, SessionFeedAssumption DEF SharesIn, FeedOK, Order
  <2> HIDE DEF T
  <2> QED BY <2>1, <2>2, FS_Subset DEF FeedOK
<1> HIDE DEF h, T
<1>5. Total(h, S) <= Total(h, T) /\ Total(h, S) \in Nat /\ Total(h, T) \in Nat
  BY <1>3, <1>4, TotalOfFewer
<1>6. DepthOf(resting', o) = Total(h, T)
  BY DepthIsNatNext DEF h, T
<1> QED BY <1>2, <1>5, <1>6 DEF h

\* A level loses no more than what the message takes off, and only where it
\* rests.
LEMMA DepthRemoved ==
  ASSUME FeedOK, FeedOK', NEW ref, NEW qty, Removes(ref, qty), NEW o
  PROVE  /\ DepthOf(resting, o) \in Nat /\ DepthOf(resting', o) \in Nat /\ qty \in Nat
         /\ DepthOf(resting, o) <= DepthOf(resting', o) + qty
         /\ ref \notin LevelOf(resting, o) => DepthOf(resting, o) <= DepthOf(resting', o)
<1> DEFINE L == LevelOf(resting, o)
           D == DepthOf(resting, o)
           E == DepthOf(resting', o)
<1>1. L \subseteq DOMAIN resting
  BY DEF LevelOf, Level
<1>2. D \in Nat /\ D = SharesOf(L) /\ E \in Nat
  BY DepthIsNat, DepthIsNatNext DEF SharesOf
<1>3. ref \in DOMAIN resting /\ resting[ref].shares \in Nat
  BY SessionFeedAssumption DEF Removes, Lowered, Taken, FeedOK, Order
<1>4. qty \in Nat
  BY <1>3 DEF Removes
<1> HIDE DEF L, D, E
<1>5. CASE ref \notin L
  <2>1. L \subseteq DOMAIN resting' /\ Kept(L)
    BY <1>1, <1>5 DEF Removes, Lowered, Taken, Kept
  <2>2. SharesOf(L) <= E
    BY <2>1, StayersDepth DEF L, E
  <2>3. D <= E
    BY <1>2, <2>2
  <2>4. D <= E + qty
    BY ONLY <1>2, <1>4, <2>3
  <2> QED BY <1>2, <1>4, <2>3, <2>4 DEF D, E
<1>6. CASE ref \in L /\ Lowered(ref, qty)
  <2>1. LevelOf(resting', o) = L
    <3>1. DOMAIN resting' = DOMAIN resting
      BY <1>6 DEF Lowered
    <3>2. \A r \in DOMAIN resting :
            /\ resting'[r].locate = resting[r].locate /\ resting'[r].side = resting[r].side
            /\ resting'[r].price = resting[r].price
      BY <1>6, PlaceKept
    <3> QED BY <3>1, <3>2 DEF LevelOf, Level, L
  <2>2. E = Total(SharesIn(resting'), L)
    BY <2>1, DepthIsNatNext DEF E
  <2>3. Total(SharesIn(resting'), L) = SharesOf(L) - qty
    BY <1>1, <1>4, <1>6, SharesOfLowered
  <2>4. D <= E + qty
    BY <1>2, <1>4, <2>2, <2>3
  <2> QED BY <1>2, <1>4, <1>6, <2>4 DEF D, E, L
<1>7. CASE ref \in L /\ Taken(ref) /\ qty = resting[ref].shares
  <2> DEFINE S == L \ {ref}
             f == SharesIn(resting)
  <2>1. S \subseteq L /\ S \subseteq DOMAIN resting' /\ Kept(S)
    BY <1>1, <1>7 DEF Taken, Kept
  <2>2. SharesOf(S) <= E /\ SharesOf(S) \in Nat
    <3> HIDE DEF S
    <3> QED BY <2>1, StayersDepth DEF L, E
  <2>3. Total(f, L) = f[ref] + Total(f, L \ {ref})
    <3>1. IsFiniteSet(L) /\ \A x \in L : f[x] \in Int
      BY <1>1, SharesAreIntegers DEF IntegersOn
    <3> HIDE DEF f
    <3> QED BY <1>7, <3>1, TotalSplits
  <2>4. f[ref] = qty
    BY <1>3, <1>7 DEF SharesIn
  <2>5. D = qty + SharesOf(S)
    BY <1>2, <2>3, <2>4 DEF SharesOf
  <2>6. D <= E + qty
    <3> DEFINE k == SharesOf(S)
    <3> HIDE DEF k
    <3>1. k <= E /\ k \in Nat /\ D = qty + k
      BY <2>2, <2>5 DEF k
    <3> QED BY ONLY <1>2, <1>4, <3>1
  <2> QED BY <1>2, <1>4, <1>7, <2>6 DEF D, E, L
<1> QED BY <1>5, <1>6, <1>7 DEF Removes
\* Of two orders at a price one is ahead of the other.
Ranked ==
  \A r \in DOMAIN resting : \A x \in DOMAIN resting \ {r} :
    SamePlace(resting[x], resting[r]) => x \in ahead[r] \/ r \in ahead[x]

LEMMA RankedKept ==
  ASSUME FeedOK, Ranked, NEW m, Effect(m)
  PROVE  Ranked'
<1> DEFINE Pair(x, r) == SamePlace(resting'[x], resting'[r]) => x \in ahead'[r] \/ r \in ahead'[x]
<1>1. ASSUME NEW ref, Taken(ref), NEW r \in DOMAIN resting \ {ref},
             NEW x \in (DOMAIN resting \ {ref}) \ {r}
      PROVE  Pair(x, r)
  <2>1. resting'[x] = resting[x] /\ resting'[r] = resting[r]
        /\ ahead'[x] = ahead[x] \ {ref} /\ ahead'[r] = ahead[r] \ {ref}
    BY <1>1 DEF Taken, Kept
  <2>2. SamePlace(resting[x], resting[r]) => x \in ahead[r] \/ r \in ahead[x]
    BY <1>1 DEF Ranked
  <2> QED BY <1>1, <2>1, <2>2
<1>2. ASSUME NEW ref, Gone(ref) PROVE Ranked'
  <2>1. Taken(ref) /\ DOMAIN resting' = DOMAIN resting \ {ref}
    BY <1>2 DEF Gone, Taken
  <2> HIDE DEF Pair
  <2>2. \A r \in DOMAIN resting' : \A x \in DOMAIN resting' \ {r} : Pair(x, r)
    BY <1>1, <2>1
  <2> QED BY <2>2 DEF Ranked, Pair
<1>3. ASSUME NEW ref, NEW qty, Lowered(ref, qty) PROVE Ranked'
  <2>1. DOMAIN resting' = DOMAIN resting /\ ahead' = ahead
    BY <1>3 DEF Lowered
  <2>2. \A x, r \in DOMAIN resting :
          SamePlace(resting'[x], resting'[r]) => SamePlace(resting[x], resting[r])
    BY <1>3, PlaceKept DEF SamePlace
  <2> QED BY <2>1, <2>2 DEF Ranked
<1>4. ASSUME NEW ref, NEW o, Joined(ref, o) PROVE Ranked'
  <2> SUFFICES ASSUME NEW r \in DOMAIN resting', NEW x \in DOMAIN resting' \ {r},
                      SamePlace(resting'[x], resting'[r])
               PROVE  x \in ahead'[r] \/ r \in ahead'[x]
    BY DEF Ranked
  <2>1. CASE r = ref
    BY <1>4, <2>1 DEF Joined, Kept
  <2>2. CASE x = ref
    <3>1. SamePlace(resting'[r], resting'[x])
      BY DEF SamePlace
    <3> QED BY <1>4, <2>2, <3>1 DEF Joined, Kept
  <2>3. CASE r # ref /\ x # ref
    BY <1>4, <2>3 DEF Joined, Kept, Ranked
  <2> QED BY <2>1, <2>2, <2>3
<1>5. ASSUME NEW ref, NEW new, NEW o, Swapped(ref, new, o) PROVE Ranked'
  <2> SUFFICES ASSUME NEW r \in DOMAIN resting', NEW x \in DOMAIN resting' \ {r},
                      SamePlace(resting'[x], resting'[r])
               PROVE  x \in ahead'[r] \/ r \in ahead'[x]
    BY DEF Ranked
  <2>1. CASE r = new
    BY <1>5, <2>1 DEF Swapped, Kept
  <2>2. CASE x = new
    <3>1. SamePlace(resting'[r], resting'[x])
      BY DEF SamePlace
    <3> QED BY <1>5, <2>2, <3>1 DEF Swapped, Kept
  <2>3. CASE r # new /\ x # new
    <3>1. Taken(ref) /\ r \in DOMAIN resting \ {ref} /\ x \in (DOMAIN resting \ {ref}) \ {r}
      BY <1>5, <2>3 DEF Swapped, Taken
    <3> QED BY <1>1, <3>1
  <2> QED BY <2>1, <2>2, <2>3
<1>6. CASE m.type \in {"P", "B", "H"}
  BY <1>6 DEF Effect, Ranked
<1> QED BY <1>2, <1>3, <1>4, <1>5, <1>6 DEF Effect

\* Where the venue keeps priority, an execution meets an order that the exact
\* model counts, or nothing is ahead any more.
LEMMA FrontIsCounted ==
  ASSUME FeedOK, Ranked, NEW ref \in DOMAIN resting, ahead[ref] = {},
         NEW o, CountedFor(o, resting, ahead), AtLevel(o, resting[ref])
  PROVE  ref \in o.ahead_refs <=> o.models["exact"].ahead # Whole(0)
<1> DEFINE refs == o.ahead_refs
           f == SharesIn(resting)
<1>1. /\ refs \subseteq LevelOf(resting, o) /\ o.models["exact"].ahead = Whole(Total(f, refs))
      /\ \A r \in refs : ahead[r] \subseteq refs
  BY DEF CountedFor, Counts, LevelOf
<1>2. refs \subseteq DOMAIN resting /\ IsFiniteSet(refs)
  <2>1. refs \subseteq DOMAIN resting
    BY <1>1 DEF LevelOf, Level
  <2> QED BY <2>1, FS_Subset DEF FeedOK
<1>3. ref \in LevelOf(resting, o)
  BY DEF AtLevel, LevelOf, Level
<1>4. Whole(Total(f, refs)) = Whole(0) <=> Total(f, refs) = 0
  BY DEF Whole
<1>5. ASSUME ref \in refs PROVE Total(f, refs) # 0
  <2>1. \A r \in refs : f[r] = resting[r].shares /\ resting[r].shares \in Nat
    BY <1>2, SessionFeedAssumption DEF SharesIn, FeedOK, Order
  <2>2. f[ref] \in Nat \ {0}
    BY SessionFeedAssumption DEF SharesIn, FeedOK, Order
  <2>3. Total(f, refs) = f[ref] + Total(f, refs \ {ref}) /\ Total(f, refs \ {ref}) \in Nat
    <3>1. \A r \in refs : f[r] \in Int
      BY <2>1
    <3>2. Total(f, refs) = f[ref] + Total(f, refs \ {ref})
      <4> HIDE DEF f, refs
      <4> QED BY ZenonT(40), <1>2, <1>5, <3>1, TotalSplits
    <3>3. IsFiniteSet(refs \ {ref}) /\ \A r \in refs \ {ref} : f[r] \in Nat
      BY <1>2, <2>1, FS_Subset
    <3>4. Total(f, refs \ {ref}) \in Nat
      <4> HIDE DEF f, refs
      <4> QED BY <3>3, TotalIsNat
    <3> QED BY <3>2, <3>4
  <2> HIDE DEF f, refs
  <2> QED BY ONLY <2>2, <2>3
<1>6. ASSUME Total(f, refs) # 0 PROVE ref \in refs
  <2>1. refs # {}
    <3> HIDE DEF f, refs
    <3> QED BY <1>2, <1>6, TotalUnfolds
  <2>2. PICK r \in refs : TRUE
    BY <2>1
  <2>3. CASE r = ref
    BY <2>2, <2>3
  <2>4. CASE r # ref
    <3>1. r \in DOMAIN resting /\ SamePlace(resting[r], resting[ref])
      BY <1>1, <1>3, <2>2 DEF LevelOf, Level, SamePlace
    <3>2. r \in ahead[ref] \/ ref \in ahead[r]
      BY <2>4, <3>1 DEF Ranked
    <3> QED BY <1>1, <2>2, <3>2
  <2> QED BY <2>3, <2>4
<1> QED BY <1>1, <1>4, <1>5, <1>6

\* What an execution at its price does to each model of an order.
LEMMA ExecutedModels ==
  ASSUME NEW o, IsOrder(o), Numbers(o), NEW ref, NEW resolved, NEW qty \in Nat, NEW p,
         p = ExecutedAt(o, ref, resolved, qty)
  PROVE  /\ SameOrder(p, o) /\ Numbers(p)
         /\ \A m \in Models \ {"exact"} : Served(p, o, m, qty)
         /\ Live(p, "exact") <=> Live(o, "exact") /\ ref \in o.ahead_refs
         /\ Live(p, "exact") => p.models["exact"].ahead = Less(o.models["exact"].ahead, qty)
<1> DEFINE models == ModelsAfterExecution(o, ref, qty)
           refs == AheadRefsAfter(o, ref, resolved, qty)
<1>1. /\ DOMAIN models = Models
      /\ \A m \in Models : DOMAIN models[m] = {"ahead", "live", "reason"}
  BY ModelsAfterExecutionSound
<1>2. p = Judged(o, models, refs)
  BY DEF ExecutedAt
<1>3. \A m \in Models : models[m] = IF m = "exact" THEN ExactAfterExecution(o, ref, qty)
                                    ELSE ModelAfterExecution(o.models[m], qty)
  BY DEF ModelsAfterExecution
<1> HIDE DEF models, refs
<1>4. SameOrder(p, o) /\ p.models = models
  BY <1>1, <1>2, RemodelledSound DEF Becoming
<1>5. ASSUME NEW m \in Models
      PROVE  /\ Fraction(o.models[m].ahead) /\ Fraction(Less(o.models[m].ahead, qty))
             /\ DOMAIN o.models[m] = {"ahead", "live", "reason"}
  <2>1. Fraction(o.models[m].ahead)
    BY DEF Numbers
  <2> QED BY <2>1, LessSound DEF IsOrder
<1>6. ASSUME NEW s, DOMAIN s = {"ahead", "live", "reason"}, NEW why
      PROVE  ~Filled(s, why).live /\ Filled(s, why).ahead = s.ahead
  BY <1>6 DEF Filled
<1>7. ASSUME NEW m \in Models \ {"exact"}
      PROVE  Served(p, o, m, qty) /\ Fraction(p.models[m].ahead)
  <2> DEFINE s == o.models[m]
             t == models[m]
  <2>1. t = ModelAfterExecution(s, qty)
    BY <1>3
  <2>2. DOMAIN s = {"ahead", "live", "reason"} /\ Fraction(s.ahead) /\ Fraction(Less(s.ahead, qty))
    BY <1>5
  <2> HIDE DEF s, t
  <2>3. CASE ~s.live
    <3>1. t = s
      BY <2>1, <2>3 DEF ModelAfterExecution
    <3> QED BY <1>4, <2>2, <2>3, <3>1 DEF Served, Live, s, t
  <2>4. CASE s.live /\ s.ahead = Whole(0)
    <3>1. t = Filled(s, "execution_behind")
      BY <2>1, <2>4 DEF ModelAfterExecution
    <3>2. ~t.live /\ t.ahead = s.ahead
      BY <1>6, <2>2, <3>1
    <3> QED BY <1>4, <2>2, <2>4, <3>2 DEF Served, Live, s, t
  <2>5. CASE s.live /\ s.ahead # Whole(0)
    <3>1. t = [s EXCEPT !.ahead = Less(@, qty)]
      BY <2>1, <2>5 DEF ModelAfterExecution
    <3>2. t.live /\ t.ahead = Less(s.ahead, qty)
      BY <2>2, <2>5, <3>1
    <3> QED BY <1>4, <2>2, <2>5, <3>2 DEF Served, Live, s, t
  <2> QED BY <2>3, <2>4, <2>5
<1>8. /\ Live(p, "exact") <=> Live(o, "exact") /\ ref \in o.ahead_refs
      /\ Live(p, "exact") => p.models["exact"].ahead = Less(o.models["exact"].ahead, qty)
      /\ Fraction(p.models["exact"].ahead)
  <2> DEFINE s == o.models["exact"]
             t == models["exact"]
  <2>0. "exact" \in Models
    BY DEF Models
  <2>1. t = ExactAfterExecution(o, ref, qty)
    BY <1>3, <2>0
  <2>2. DOMAIN s = {"ahead", "live", "reason"} /\ Fraction(s.ahead) /\ Fraction(Less(s.ahead, qty))
    BY <1>5, <2>0
  <2>3. CASE ~s.live
    <3>1. t = s
      BY <2>1, <2>3 DEF ExactAfterExecution
    <3> QED BY <1>4, <2>2, <2>3, <3>1 DEF Live
  <2>4. CASE s.live /\ ref \notin o.ahead_refs
    <3>1. t = Filled(s, "execution_behind")
      BY <2>1, <2>4 DEF ExactAfterExecution
    <3>2. ~t.live /\ t.ahead = s.ahead
      <4> HIDE DEF s, t
      <4> QED BY <1>6, <2>2, <3>1
    <3> QED BY <1>4, <2>2, <2>4, <3>2 DEF Live
  <2>5. CASE s.live /\ ref \in o.ahead_refs
    <3>1. t = [s EXCEPT !.ahead = Less(@, qty)]
      BY <2>1, <2>5 DEF ExactAfterExecution
    <3>2. t.live /\ t.ahead = Less(s.ahead, qty)
      <4> HIDE DEF s, t
      <4> QED BY <2>2, <2>5, <3>1
    <3> QED BY <1>4, <2>2, <2>5, <3>2 DEF Live
  <2> QED BY <2>3, <2>4, <2>5
<1>9. Numbers(p)
  BY <1>7, <1>8 DEF Numbers
<1> QED BY <1>4, <1>7, <1>8, <1>9
\* An order out of play, and one the message does not reach.
LEMMA FilledOrdered ==
  ASSUME NEW o, IsOrder(o), NEW bk, NEW why, NEW pr, Numbers(o)
  PROVE  ModelsOK(FilledUnderAll(o, why), bk, pr)
<1> DEFINE p == FilledUnderAll(o, why)
<1>1. /\ ~p.any_live
      /\ \A m \in Models : ~Live(p, m) /\ p.models[m].ahead = o.models[m].ahead
  BY FilledSound
<1>2. "conservative" \in Models /\ "optimistic" \in Models
  BY DEF Models
<1> HIDE DEF p
<1> QED BY <1>1, <1>2 DEF ModelsOK, Numbers, Brackets, Bracketed, Bounded, p

LEMMA UntouchedOrdered ==
  ASSUME FeedOK, FeedOK', NEW o, NEW pr, ModelsOK(o, resting, pr),
         o.any_live => DepthOf(resting, o) <= DepthOf(resting', o)
  PROVE  ModelsOK(o, resting', pr)
<1>1. ASSUME o.any_live, Live(o, "proportional")
      PROVE  AtMost(o.models["proportional"].ahead, Whole(DepthOf(resting', o)))
  <2> DEFINE x == o.models["proportional"].ahead
             n == DepthOf(resting, o)
             k == DepthOf(resting', o)
  <2>1. n \in Nat /\ k \in Nat /\ n <= k
    BY <1>1, DepthIsNat, DepthIsNatNext
  <2>2. Fraction(x) /\ AtMost(x, Whole(n))
    BY <1>1 DEF ModelsOK, Numbers, Bounded, DepthOf, Models
  <2> HIDE DEF x, n, k
  <2>3. Fraction(Whole(n)) /\ Fraction(Whole(k)) /\ AtMost(Whole(n), Whole(k))
    BY <2>1, WholeSound, WholeMonotone
  <2> QED BY <2>2, <2>3, AtMostTrans DEF x, k
<1> QED BY <1>1 DEF ModelsOK, Bounded, DepthOf

\* A message that takes nothing off the book makes no level shallower.
LEMMA ArrivalOrdered ==
  ASSUME FeedOK, FeedOK', NEW m, Effect(m), m.type \in {"A", "P", "B", "H"},
         NEW o, NEW pr, ModelsOK(o, resting, pr)
  PROVE  ModelsOK(o, resting', pr)
<1>1. DOMAIN resting \subseteq DOMAIN resting' /\ Kept(DOMAIN resting)
  BY DEF Effect, Joined, Kept
<1>2. LevelOf(resting, o) \subseteq DOMAIN resting
  BY DEF LevelOf, Level
<1>3. SharesOf(LevelOf(resting, o)) <= DepthOf(resting', o)
  BY <1>1, <1>2, StayersDepth DEF Kept
<1>4. DepthOf(resting, o) <= DepthOf(resting', o)
  BY <1>3, DepthIsNat DEF SharesOf
<1> QED BY <1>4, UntouchedOrdered

LEMMA ExecutionOrdered ==
  ASSUME FeedOK, FeedOK', Ranked, NEW ref, NEW qty, Removes(ref, qty),
         priority => ahead[ref] = {},
         NEW o, IsOrder(o), o.locate = resting[ref].locate,
         ExactOK(o, resting, ahead), ModelsOK(o, resting, priority), NEW p,
         p = AfterExecution(o, ref, resting[ref], qty)
  PROVE  ModelsOK(p, resting', priority)
<1>0. /\ DepthOf(resting, o) \in Nat /\ DepthOf(resting', o) \in Nat /\ qty \in Nat
      /\ DepthOf(resting, o) <= DepthOf(resting', o) + qty
      /\ ref \notin LevelOf(resting, o) => DepthOf(resting, o) <= DepthOf(resting', o)
      /\ ref \in DOMAIN resting
  BY DepthRemoved DEF Removes, Lowered, Taken
<1>1. CASE p = o /\ (~o.any_live \/ o.side # resting[ref].side \/ resting[ref].price # o.price)
  <2>1. o.any_live => ref \notin LevelOf(resting, o)
    BY <1>1 DEF LevelOf, Level
  <2> QED BY <1>0, <1>1, <2>1, UntouchedOrdered
<1>2. CASE p = FilledUnderAll(o, "trade_through")
  BY <1>2, FilledOrdered DEF ModelsOK
<1>3. CASE /\ o.any_live /\ o.side = resting[ref].side /\ resting[ref].price = o.price
           /\ p = ExecutedAt(o, ref, resting[ref], qty)
  <2>1. /\ SameOrder(p, o) /\ Numbers(p) /\ Numbers(o)
        /\ \A m \in Models \ {"exact"} : Served(p, o, m, qty)
        /\ Live(p, "exact") <=> Live(o, "exact") /\ ref \in o.ahead_refs
        /\ Live(p, "exact") => p.models["exact"].ahead = Less(o.models["exact"].ahead, qty)
    BY <1>0, <1>3, ExecutedModels DEF ModelsOK
  <2>2. priority => Served(p, o, "exact", qty)
    <3> SUFFICES ASSUME priority PROVE Served(p, o, "exact", qty)
      OBVIOUS
    <3>1. AtLevel(o, resting[ref])
      BY <1>3 DEF AtLevel
    <3>2. Live(o, "exact") => CountedFor(o, resting, ahead)
      BY <1>3 DEF ExactOK
    <3>3. Live(o, "exact") => (ref \in o.ahead_refs <=> o.models["exact"].ahead # Whole(0))
      BY <1>0, <3>1, <3>2, FrontIsCounted
    <3> QED BY <2>1, <3>3 DEF Served
  <2>3. Brackets(p, priority)
    <3> SUFFICES ASSUME NEW m \in Models, m # "exact" \/ priority PROVE Bracketed(p, m)
      BY DEF Brackets
    <3>1. Bracketed(o, m) /\ Served(p, o, m, qty)
      BY <2>1, <2>2 DEF ModelsOK, Brackets
    <3>2. Served(p, o, "conservative", qty) /\ Served(p, o, "optimistic", qty)
      BY <2>1 DEF Models
    <3> QED BY <1>0, <2>1, <3>1, <3>2, ServedBracket
  <2>4. Bounded(p, resting')
    <3> SUFFICES ASSUME Live(p, "proportional")
                 PROVE  AtMost(p.models["proportional"].ahead, Whole(DepthOf(resting', o)))
      BY <2>1 DEF Bounded, SameOrder, DepthOf
    <3>1. /\ Live(o, "proportional")
          /\ p.models["proportional"].ahead = Less(o.models["proportional"].ahead, qty)
      BY <2>1 DEF Served, Models
    <3> DEFINE x == o.models["proportional"].ahead
               n == DepthOf(resting, o)
               k == DepthOf(resting', o)
    <3>2. Fraction(x) /\ AtMost(x, Whole(n))
      BY <1>3, <2>1, <3>1 DEF ModelsOK, Numbers, Bounded, DepthOf, Models
    <3>3. n \in Nat /\ k \in Nat /\ qty \in Nat /\ n <= k + qty
      BY <1>0
    <3> HIDE DEF x, n, k
    <3>4. AtMost(Less(x, qty), Whole(k))
      BY <3>2, <3>3, LessBelow
    <3> QED BY <3>1, <3>4 DEF x, k
  <2> QED BY <2>1, <2>3, <2>4 DEF ModelsOK
<1> QED BY <1>1, <1>2, <1>3, AfterExecutionCases

LEMMA CancelOrdered ==
  ASSUME FeedOK, FeedOK', NEW ref, NEW qty \in Nat \ {0}, Removes(ref, qty),
         NEW o, IsOrder(o), NEW pr, ModelsOK(o, resting, pr),
         NEW p \in AfterCancel(resting', o, ref, resting[ref], qty)
  PROVE  ModelsOK(p, resting', pr)
<1>0. /\ DepthOf(resting, o) \in Nat /\ DepthOf(resting', o) \in Nat
      /\ DepthOf(resting, o) <= DepthOf(resting', o) + qty
      /\ ref \notin LevelOf(resting, o) => DepthOf(resting, o) <= DepthOf(resting', o)
  BY DepthRemoved
<1>1. CASE p = o /\ (~o.any_live \/ ~AtLevel(o, resting[ref]))
  <2>1. o.any_live => ref \notin LevelOf(resting, o)
    BY <1>1 DEF LevelOf, Level, AtLevel
  <2> QED BY <1>0, <1>1, <2>1, UntouchedOrdered
<1>2. ASSUME o.any_live, NEW before, before = DepthBefore(resting', o, qty), NEW coin,
             p = CancelledAt(o, ref, resting[ref], qty, before, coin)
      PROVE  ModelsOK(p, resting', pr)
  <2> DEFINE wasAhead == ref \in o.ahead_refs
             models == ModelsAfterCancel(o, wasAhead, qty, before, coin)
             refs == AheadRefsAfter(o, ref, resting[ref], qty)
             k == DepthOf(resting', o)
  <2>1. /\ DOMAIN models = Models
        /\ \A m \in Models : /\ DOMAIN models[m] = {"ahead", "live", "reason"}
                             /\ models[m].live <=> o.models[m].live
    BY ModelsAfterCancelSound
  <2>2. \A m \in Models : models[m] = ModelAfterCancel(o, m, wasAhead, qty, before, coin)
    BY DEF ModelsAfterCancel
  <2>3. p = Charged(o, models, refs)
    BY <1>2 DEF CancelledAt
  <2> HIDE DEF models, refs
  <2>4. SameOrder(p, o) /\ p.models = models /\ p.any_live = o.any_live
    BY <2>1, <2>3, RemodelledSound DEF Becoming
  <2>5. before = k + qty /\ before \in Nat \ {0} /\ k \in Nat /\ qty \in 0..before
        /\ before - qty = k /\ DepthOf(resting, o) <= before
    BY <1>0, <1>2 DEF DepthBefore, DepthOf
  <2>6. Numbers(o)
    BY DEF ModelsOK
  <2> HIDE DEF k, wasAhead
  \* What each model keeps: all of it, or a part that is one of two.
  <2>7. ASSUME NEW m \in Models, Live(o, m)
        PROVE  \/ m \notin {"optimistic", "proportional"}
                  /\ models[m].ahead = o.models[m].ahead
               \/ m \notin {"conservative", "proportional"}
                  /\ models[m].ahead = Less(o.models[m].ahead, qty)
               \/ m = "proportional"
                  /\ models[m].ahead = Share(o.models[m].ahead, qty, before)
    <3> DEFINE s == o.models[m]
               t == models[m]
    <3>1. /\ s.live /\ DOMAIN s = {"ahead", "live", "reason"}
          /\ t = ModelAfterCancel(o, m, wasAhead, qty, before, coin)
      BY <2>2, <2>7 DEF Live, IsOrder
    <3>2. m = "exact" => t.ahead = IF wasAhead THEN Less(s.ahead, qty) ELSE s.ahead
      BY <3>1 DEF ModelAfterCancel
    <3>3. m = "conservative" => t.ahead = s.ahead
      BY <3>1 DEF ModelAfterCancel
    <3>4. m = "optimistic" => t.ahead = Less(s.ahead, qty)
      BY <3>1 DEF ModelAfterCancel
    <3>5. m = "proportional" => t.ahead = Share(s.ahead, qty, before)
      BY <3>1 DEF ModelAfterCancel, Share
    <3>6. m = "bernoulli" => t.ahead = IF coin THEN Less(s.ahead, qty) ELSE s.ahead
      BY <3>1 DEF ModelAfterCancel
    <3> HIDE DEF s, t
    <3>7. m \in {"exact", "conservative", "optimistic", "proportional", "bernoulli"}
      BY DEF Models
    <3> QED BY <3>2, <3>3, <3>4, <3>5, <3>6, <3>7 DEF s, t
  <2>8. ASSUME Live(o, "proportional")
        PROVE  AtMost(o.models["proportional"].ahead, Whole(before))
    <3> DEFINE x == o.models["proportional"].ahead
               n == DepthOf(resting, o)
    <3>1. Fraction(x) /\ AtMost(x, Whole(n))
      BY <1>2, <2>8 DEF ModelsOK, Numbers, Bounded, DepthOf, Models
    <3>2. n \in Nat /\ before \in Nat /\ n <= before
      BY <1>0, <2>5
    <3> HIDE DEF x, n
    <3>3. Fraction(Whole(n)) /\ Fraction(Whole(before)) /\ AtMost(Whole(n), Whole(before))
      BY <3>2, WholeSound, WholeMonotone
    <3> QED BY <3>1, <3>3, AtMostTrans DEF x
  <2>9. ASSUME NEW m \in Models, Live(o, m)
        PROVE  Relieved(p, o, m, qty) /\ Fraction(p.models[m].ahead)
    <3> DEFINE x == o.models[m].ahead
               y == models[m].ahead
    <3>1. Live(p, m)
      BY <2>1, <2>4, <2>9 DEF Live
    <3>2. Fraction(x)
      BY <2>6 DEF Numbers
    <3>3. /\ Fraction(Less(x, qty)) /\ AtMost(Less(x, qty), x)
          /\ AtMost(x, x) /\ AtMost(Less(x, qty), Less(x, qty))
      BY <3>2, LessSound, AtMostRefl
    <3>4. m = "proportional" =>
            /\ Fraction(Share(x, qty, before)) /\ AtMost(Share(x, qty, before), x)
            /\ AtMost(Less(x, qty), Share(x, qty, before))
      BY <2>5, <2>8, <2>9, <3>2, ShareSound
    <3>5. \/ y = x
          \/ y = Less(x, qty)
          \/ m = "proportional" /\ y = Share(x, qty, before)
      BY <2>7, <2>9
    <3> HIDE DEF x, y
    <3>6. Fraction(y) /\ AtMost(y, x) /\ AtMost(Less(x, qty), y)
      BY <3>2, <3>3, <3>4, <3>5
    <3> QED BY <2>4, <2>9, <3>1, <3>6 DEF Relieved, x, y
  <2>10. ASSUME NEW m \in Models, ~Live(o, m)
         PROVE  Relieved(p, o, m, qty) /\ p.models[m].ahead = o.models[m].ahead
    <3>1. ~Live(p, m)
      BY <2>1, <2>4, <2>10 DEF Live
    <3>2. models[m] = o.models[m]
      BY <2>2, <2>10 DEF ModelAfterCancel, Live
    <3> QED BY <2>4, <2>10, <3>1, <3>2 DEF Relieved
  <2>11. Numbers(p)
    BY <2>6, <2>9, <2>10 DEF Numbers
  <2>12. /\ p.models["conservative"].ahead = o.models["conservative"].ahead
         /\ Live(p, "optimistic") =>
              p.models["optimistic"].ahead = Less(o.models["optimistic"].ahead, qty)
    <3>1. "conservative" \in Models /\ "optimistic" \in Models
      BY DEF Models
    <3>2. p.models["conservative"].ahead = o.models["conservative"].ahead
      BY <2>4, <2>7, <2>10, <3>1
    <3>3. Live(p, "optimistic") =>
            p.models["optimistic"].ahead = Less(o.models["optimistic"].ahead, qty)
      BY <2>4, <2>7, <2>10, <3>1 DEF Relieved
    <3> QED BY <3>2, <3>3
  <2>13. Brackets(p, pr)
    <3> SUFFICES ASSUME NEW m \in Models, m # "exact" \/ pr PROVE Bracketed(p, m)
      BY DEF Brackets
    <3>1. Bracketed(o, m)
      BY DEF ModelsOK, Brackets
    <3>2. /\ Relieved(p, o, m, qty) /\ Relieved(p, o, "conservative", qty)
          /\ Relieved(p, o, "optimistic", qty)
      BY <2>9, <2>10 DEF Models
    <3> QED BY <2>6, <2>11, <2>12, <3>1, <3>2, RelievedBracket
  <2>14. Bounded(p, resting')
    <3> SUFFICES ASSUME Live(p, "proportional")
                 PROVE  AtMost(p.models["proportional"].ahead, Whole(k))
      BY <2>4 DEF Bounded, SameOrder, DepthOf, k
    <3> DEFINE x == o.models["proportional"].ahead
    <3>1. "proportional" \in Models /\ Live(o, "proportional")
      BY <2>1, <2>4 DEF Live, Models
    <3>2. p.models["proportional"].ahead = Share(x, qty, before)
      BY <2>4, <2>7, <3>1
    <3>3. Fraction(x) /\ AtMost(x, Whole(before))
      BY <2>6, <2>8, <3>1 DEF Numbers
    <3> HIDE DEF x
    <3>4. AtMost(Share(x, qty, before), Whole(before - qty))
      BY <2>5, <3>3, ShareSound
    <3> QED BY <2>5, <3>2, <3>4
  <2> QED BY <2>11, <2>13, <2>14 DEF ModelsOK
<1> QED BY <1>1, <1>2, AfterCancelCases
\* Placed behind the whole level, all five see the same.
LEMMA FreshOrdered ==
  FeedOK => \A o, ts, pr : Fresh(o, resting, ts) => ModelsOK(o, resting, pr)
<1> SUFFICES ASSUME FeedOK, NEW o, NEW ts, NEW pr, Fresh(o, resting, ts)
             PROVE  ModelsOK(o, resting, pr)
  OBVIOUS
<1>1. PICK l \in Locates, side \in Sides : o = NewOrder(o.id, resting, l, side, ts)
  BY DEF Fresh
<1>2. IsNew(o, o.id, resting, l, side, ts)
  BY <1>1, NewOrderSound
<1>3. /\ o.depth = DepthOf(resting, o)
      /\ \A m \in Models : Live(o, m) /\ o.models[m].ahead = Whole(o.depth)
  BY <1>2 DEF IsNew, DepthOf
<1>4. o.depth \in Nat
  BY <1>3, DepthIsNat
<1>5. Fraction(Whole(o.depth)) /\ AtMost(Whole(o.depth), Whole(o.depth))
  BY <1>4, WholeSound, AtMostRefl
<1>6. {"conservative", "optimistic", "proportional"} \subseteq Models
  BY DEF Models
<1> QED BY <1>3, <1>5, <1>6 DEF ModelsOK, Numbers, Brackets, Bracketed, Bounded, DepthOf

LEMMA FreshOrderedNext ==
  FeedOK' => \A o, ts, pr : Fresh(o, resting', ts) => ModelsOK(o, resting', pr)
<1>1. FeedOK => \A o, ts, pr : Fresh(o, resting, ts) => ModelsOK(o, resting, pr)
  BY FreshOrdered
<1>2. (FeedOK => \A o, ts, pr : Fresh(o, resting, ts) => ModelsOK(o, resting, pr))'
  BY <1>1, PTL
<1> QED BY <1>2

LEMMA AttributionOrdered ==
  ASSUME FeedOK, FeedOK', Ranked, NEW m, Effect(m), FrontRule(m), NEW o, IsOrder(o),
         ExactOK(o, resting, ahead), ModelsOK(o, resting, priority),
         NEW p, AttributedTo(p, o, m, resting')
  PROVE  ModelsOK(p, resting', priority)
<1>0. ASSUME m.type \in {"E", "X", "D", "U"}
      PROVE  resting[m.ref].shares \in Nat \ {0}
  <2>1. m.ref \in DOMAIN resting
    BY <1>0 DEF Effect, Gone, Swapped
  <2> QED BY <2>1, SessionFeedAssumption DEF FeedOK, Order
<1>1. CASE m.type = "E" /\ o.locate = resting[m.ref].locate
  <2>1. /\ Removes(m.ref, m.qty) /\ p = AfterExecution(o, m.ref, resting[m.ref], m.qty)
        /\ priority => ahead[m.ref] = {}
    BY <1>1, RemovalEffect DEF AttributedTo, FrontRule
  <2> QED BY <1>1, <2>1, ExecutionOrdered
<1>2. CASE m.type = "E" /\ o.locate # resting[m.ref].locate
  <2>1. Removes(m.ref, m.qty) /\ p = o
    BY <1>2, RemovalEffect DEF AttributedTo
  <2>2. m.ref \notin LevelOf(resting, o)
    BY <1>2 DEF LevelOf, Level
  <2>3. DepthOf(resting, o) <= DepthOf(resting', o)
    BY <2>1, <2>2, DepthRemoved
  <2> QED BY <2>1, <2>3, UntouchedOrdered
<1>3. CASE m.type = "X"
  <2>1. /\ Removes(m.ref, m.qty) /\ p \in AfterCancel(resting', o, m.ref, resting[m.ref], m.qty)
        /\ m.qty \in Nat \ {0}
    BY <1>3, RemovalEffect DEF AttributedTo, Effect
  <2> QED BY <2>1, CancelOrdered
<1>4. CASE m.type \in {"D", "U"}
  <2>1. /\ Removes(m.ref, resting[m.ref].shares)
        /\ p \in AfterCancel(resting', o, m.ref, resting[m.ref], resting[m.ref].shares)
        /\ resting[m.ref].shares \in Nat \ {0}
    BY <1>0, <1>4, RemovalEffect DEF AttributedTo
  <2> QED BY <2>1, CancelOrdered
<1>5. CASE m.type \in {"P", "A", "B"}
  <2>1. p = o \/ p = FilledUnderAll(o, "non_displayed_print")
    BY <1>5 DEF AttributedTo
  <2>2. ModelsOK(o, resting', priority)
    BY <1>5, ArrivalOrdered
  <2>3. ModelsOK(FilledUnderAll(o, "non_displayed_print"), resting', priority)
    BY FilledOrdered DEF ModelsOK
  <2> QED BY <2>1, <2>2, <2>3
<1> QED BY <1>1, <1>2, <1>3, <1>4, <1>5 DEF AttributedTo

OrderedInv ==
  /\ CountInv /\ Ranked
  /\ \A i \in DOMAIN sim.live : ModelsOK(sim.live[i], resting, priority)

LEMMA OrderedKeptByMessage ==
  ASSUME OrderedInv, ~sim.finished, FeedOK', NEW m, Effect(m), FrontRule(m), NEW ts,
         HandledOK(sim', sim, m, resting', ts)
  PROVE  \A i \in DOMAIN sim'.live : ModelsOK(sim'.live[i], resting', priority)
<1> SUFFICES ASSUME NEW i \in DOMAIN sim'.live
             PROVE  ModelsOK(sim'.live[i], resting', priority)
  OBVIOUS
<1>0. FeedOK /\ Indexed(sim) /\ Ranked
  BY DEF OrderedInv, CountInv, IndexInv
<1>1. CASE Fresh(sim'.live[i], resting', ts)
  BY <1>1, FreshOrderedNext
<1>2. ASSUME NEW j \in DOMAIN sim.live,
             IF m.type = "H" THEN sim'.live[i] = sim.live[j]
             ELSE AttributedTo(sim'.live[i], sim.live[j], m, resting')
      PROVE  ModelsOK(sim'.live[i], resting', priority)
  <2>1. /\ IsOrder(sim.live[j]) /\ ExactOK(sim.live[j], resting, ahead)
        /\ ModelsOK(sim.live[j], resting, priority)
    BY <1>0 DEF OrderedInv, CountInv, Indexed
  <2>2. CASE m.type = "H"
    <3>1. ModelsOK(sim.live[j], resting', priority)
      BY <1>0, <2>1, <2>2, ArrivalOrdered
    <3> QED BY <1>2, <2>2, <3>1
  <2>3. CASE m.type # "H"
    <3>1. AttributedTo(sim'.live[i], sim.live[j], m, resting')
      BY <1>2, <2>3
    <3> QED BY <1>0, <2>1, <3>1, AttributionOrdered
  <2> QED BY <2>2, <2>3
<1> QED BY <1>1, <1>2 DEF HandledOK

LEMMA OrderedInvariant == QueueSimSpec => []OrderedInv
<1>1. QueueSimInit /\ CountInv => OrderedInv
  <2> SUFFICES ASSUME QueueSimInit, CountInv PROVE OrderedInv
    OBVIOUS
  <2>1. FeedOK
    BY FeedStarts DEF QueueSimInit
  <2>2. Ranked
    <3>1. PICK b \in OpeningBooks : resting = b.resting /\ ahead = b.ahead
      BY DEF QueueSimInit, FeedInit
    <3>2. WellFormed(b)
      BY SessionFeedAssumption
    <3> QED BY <3>1, <3>2 DEF WellFormed, Ranked
  <2>3. TickOK(sim, NewSimulator, resting, now)
    BY NewSimulatorIndexed, TickedSound DEF QueueSimInit
  <2>4. \A i \in DOMAIN sim.live : Fresh(sim.live[i], resting, now)
    BY <2>3, NewSimulatorIndexed, NothingIsListed DEF TickOK, From
  <2> QED BY <2>1, <2>2, <2>4, FreshOrdered DEF OrderedInv
<1>2. OrderedInv /\ CountInv' /\ [QueueSimNext]_queueVars => OrderedInv'
  <2> SUFFICES ASSUME OrderedInv, CountInv', [QueueSimNext]_queueVars PROVE OrderedInv'
    OBVIOUS
  <2>1. QueueStep
    BY QueueSteps DEF OrderedInv, CountInv
  <2>2. ASSUME ~sim.finished, UNCHANGED priority, NEW m, NEW ts, FeedOK', Effect(m),
               FrontRule(m), HandledOK(sim', sim, m, resting', ts)
        PROVE  OrderedInv'
    <3>1. \A i \in DOMAIN sim'.live : ModelsOK(sim'.live[i], resting', priority)
      BY <2>2, OrderedKeptByMessage
    <3>2. Ranked'
      BY <2>2, RankedKept DEF OrderedInv, CountInv, IndexInv
    <3> QED BY <2>2, <3>1, <3>2 DEF OrderedInv
  <2>3. CASE sim'.live = <<>> /\ UNCHANGED feedVars
    BY <2>3, NothingIsListed DEF OrderedInv, Ranked, feedVars, bookVars
  <2>4. CASE UNCHANGED queueVars
    BY <2>4 DEF OrderedInv, Ranked, queueVars, simVars, feedVars, bookVars
  <2> QED BY <2>1, <2>2, <2>3, <2>4 DEF QueueStep
<1> QED BY <1>1, <1>2, CountInvariant, PTL DEF QueueSimSpec

\* What the five models say of one order stays consistent with one another and
\* with the level: every one is between the optimistic and the conservative one,
\* the exact one too where the venue keeps priority, and the proportional model
\* never believes more is ahead than the whole level holds.
THEOREM ModelsInOrder == QueueSimSpec => []ModelsAreOrdered
<1>1. OrderedInv => ModelsAreOrdered
  <2> SUFFICES ASSUME OrderedInv PROVE ModelsAreBracketed /\ NoMoreAheadThanTheLevel
    BY DEF ModelsAreOrdered
  <2>1. ModelsAreBracketed
    BY DEF ModelsAreBracketed, OrderedInv, ModelsOK, Brackets
  <2>2. NoMoreAheadThanTheLevel
    BY DEF NoMoreAheadThanTheLevel, OrderedInv, ModelsOK, Bounded, InPlay
  <2> QED BY <2>1, <2>2
<1> QED BY <1>1, OrderedInvariant, PTL
----------------------------------------------------------------------------
(* Counting by kind.                                                       *)

Keys == Locates \X Buckets

LEMMA UnionCount ==
  ASSUME NEW A, NEW B, IsFiniteSet(A), IsFiniteSet(B)
  PROVE  /\ IsFiniteSet(A \cup B)
         /\ Cardinality(A) \in Nat /\ Cardinality(B) \in Nat /\ Cardinality(A \cup B) \in Nat
         /\ Cardinality(A \cup B) <= Cardinality(A) + Cardinality(B)
         /\ A \cap B = {} => Cardinality(A \cup B) = Cardinality(A) + Cardinality(B)
<1>1. IsFiniteSet(A \cup B) /\ IsFiniteSet(A \cap B)
  BY FS_Union, FS_Intersection
<1>2. /\ Cardinality(A) \in Nat /\ Cardinality(B) \in Nat /\ Cardinality(A \cup B) \in Nat
      /\ Cardinality(A \cap B) \in Nat
  BY <1>1, FS_CardinalityType
<1>3. Cardinality(A \cup B) = Cardinality(A) + Cardinality(B) - Cardinality(A \cap B)
  BY FS_Union
<1>4. A \cap B = {} => Cardinality(A \cap B) = 0
  BY FS_EmptySet
<1> QED BY <1>1, <1>2, <1>3, <1>4

OfKind(F, kind, k) == {i \in F : kind[i] = k}

\* Naturals over a set K, to each of which are added the members of F of its
\* kind: the total grows by the members of F.
Fibred(f, h, K, F, kind) ==
  \A k \in K : h[k] = f[k] + Cardinality(OfKind(F, kind, k))

LEMMA OneMoreFibre ==
  ASSUME NEW K, IsFiniteSet(K), NEW f, \A k \in K : f[k] \in Nat,
         NEW G, IsFiniteSet(G), NEW kind, \A i \in G : kind[i] \in K,
         NEW x \in G,
         NEW h, Fibred(f, h, K, G \ {x}, kind),
         NEW e, Fibred(f, e, K, G, kind)
  PROVE  Total(e, K) = Total(h, K) + 1
<1> DEFINE a == kind[x]
           H == G \ {x}
<1>1. a \in K /\ IsFiniteSet(H) /\ H \subseteq G
  BY FS_Subset
<1> HIDE DEF H
<1>2. ASSUME NEW S, S \subseteq G, NEW k
      PROVE  IsFiniteSet(OfKind(S, kind, k)) /\ Cardinality(OfKind(S, kind, k)) \in Nat
  <2>1. OfKind(S, kind, k) \in SUBSET G
    BY <1>2 DEF OfKind
  <2> QED BY <2>1, FS_Subset, FS_CardinalityType
<1>3. ASSUME NEW k \in K, k # a PROVE e[k] = h[k]
  <2>1. OfKind(G, kind, k) = OfKind(H, kind, k)
    BY <1>3 DEF OfKind, H
  <2> QED BY <2>1 DEF Fibred, H
<1>4. e[a] = h[a] + 1
  <2>1. OfKind(H, kind, a) = OfKind(G, kind, a) \ {x} /\ x \in OfKind(G, kind, a)
    BY DEF OfKind, H
  <2>2. /\ IsFiniteSet(OfKind(G, kind, a)) /\ Cardinality(OfKind(G, kind, a)) \in Nat
        /\ Cardinality(OfKind(H, kind, a)) \in Nat
    BY <1>1, <1>2
  <2>3. Cardinality(OfKind(H, kind, a)) = Cardinality(OfKind(G, kind, a)) - 1
    BY ZenonT(40), <2>1, <2>2, FS_RemoveElement
  <2>4. /\ e[a] = f[a] + Cardinality(OfKind(G, kind, a))
        /\ h[a] = f[a] + Cardinality(OfKind(H, kind, a)) /\ f[a] \in Nat
    BY <1>1 DEF Fibred, H
  <2> QED BY <2>2, <2>3, <2>4
<1>5. \A k \in K : e[k] \in Int /\ h[k] \in Int
  <2> SUFFICES ASSUME NEW k \in K PROVE e[k] \in Int /\ h[k] \in Int
    OBVIOUS
  <2>1. /\ e[k] = f[k] + Cardinality(OfKind(G, kind, k))
        /\ h[k] = f[k] + Cardinality(OfKind(H, kind, k)) /\ f[k] \in Nat
    BY DEF Fibred, H
  <2>2. Cardinality(OfKind(G, kind, k)) \in Nat /\ Cardinality(OfKind(H, kind, k)) \in Nat
    BY <1>1, <1>2
  <2> QED BY <2>1, <2>2
<1> HIDE DEF a
<1>6. /\ Total(e, K) = Total(h, K) + (e[a] - h[a]) /\ Total(h, K) \in Int /\ h[a] \in Int
  BY <1>1, <1>3, <1>5, TotalOfOneChanged DEF IntegersOn, AgreeOn
<1> QED BY <1>4, <1>6

LEMMA FiberTotal ==
  ASSUME NEW K, IsFiniteSet(K), NEW f, \A k \in K : f[k] \in Nat,
         NEW F, IsFiniteSet(F), NEW kind, \A i \in F : kind[i] \in K,
         NEW h, Fibred(f, h, K, F, kind)
  PROVE  /\ Total(h, K) = Total(f, K) + Cardinality(F)
         /\ Total(f, K) \in Nat /\ Cardinality(F) \in Nat
         /\ \A k \in K : h[k] \in Nat
<1> DEFINE Grown(G) == [k \in K |-> f[k] + Cardinality(OfKind(G, kind, k))]
           C == {G \in SUBSET F : Total(Grown(G), K) # Total(f, K) + Cardinality(G)}
<1>1. \A G : Fibred(f, Grown(G), K, G, kind)
  BY DEF Fibred
<1>2. Total(f, K) \in Nat
  BY TotalIsNat
<1>3. \A G \in SUBSET F : IsFiniteSet(G) /\ Cardinality(G) \in Nat
  BY FS_Subset, FS_CardinalityType
<1> HIDE DEF Grown
<1>4. C = {}
  <2> SUFFICES ASSUME C # {} PROVE FALSE
    OBVIOUS
  <2>1. \A H \in C : IsFiniteSet(H)
    BY <1>3
  <2>2. \A G \in SUBSET F : G \in C <=> Total(Grown(G), K) # Total(f, K) + Cardinality(G)
    OBVIOUS
  <2>3. C \subseteq SUBSET F
    OBVIOUS
  <2> HIDE DEF C
  <2>4. PICK G \in C : \A H \in C : Cardinality(G) <= Cardinality(H)
    BY <2>1, SmallestExists
  <2>5. G \in SUBSET F /\ Total(Grown(G), K) # Total(f, K) + Cardinality(G)
    BY <2>2, <2>3
  <2>6. CASE G = {}
    <3>1. Cardinality(G) = 0 /\ \A k : OfKind(G, kind, k) = {}
      BY <2>6, FS_EmptySet DEF OfKind
    <3>2. \A k \in K : Grown(G)[k] = f[k]
      <4> SUFFICES ASSUME NEW k \in K PROVE Grown(G)[k] = f[k]
        OBVIOUS
      <4>1. Grown(G)[k] = f[k] + Cardinality(OfKind(G, kind, k)) /\ f[k] \in Nat
        BY <1>1 DEF Fibred
      <4>2. Cardinality(OfKind(G, kind, k)) = 0
        BY <3>1, FS_EmptySet
      <4> QED BY <4>1, <4>2
    <3>3. Total(Grown(G), K) = Total(f, K)
      BY <3>2, TotalOfSame
    <3> QED BY <1>2, <2>5, <3>1, <3>3
  <2>7. CASE G # {}
    <3>1. PICK x \in G : TRUE
      BY <2>7
    <3> DEFINE H == G \ {x}
    <3>2. /\ H \in SUBSET F /\ Cardinality(H) = Cardinality(G) - 1
          /\ Cardinality(G) \in Nat /\ Cardinality(H) \in Nat
      BY <1>3, <2>5, FS_RemoveElement
    <3>3. Total(Grown(G), K) = Total(Grown(H), K) + 1
      <4>1. IsFiniteSet(G) /\ \A i \in G : kind[i] \in K
        BY <1>3, <2>5
      <4> QED BY <1>1, <4>1, OneMoreFibre
    <3> HIDE DEF H
    <3>4. H \notin C
      BY <2>4, <3>2
    <3>5. Total(Grown(H), K) = Total(f, K) + Cardinality(H)
      BY <2>2, <3>2, <3>4
    <3> QED BY <1>2, <2>5, <3>2, <3>3, <3>5
  <2> QED BY <2>6, <2>7
<1>5. F \in SUBSET F
  OBVIOUS
<1>6. Total(Grown(F), K) = Total(f, K) + Cardinality(F)
  BY <1>4, <1>5
<1> HIDE DEF C
<1>7. \A k \in K : h[k] = Grown(F)[k] /\ h[k] \in Nat
  <2> SUFFICES ASSUME NEW k \in K PROVE h[k] = Grown(F)[k] /\ h[k] \in Nat
    OBVIOUS
  <2>1. OfKind(F, kind, k) \in SUBSET F
    BY DEF OfKind
  <2>2. Cardinality(OfKind(F, kind, k)) \in Nat
    BY <1>3, <2>1
  <2> QED BY <1>1, <2>2 DEF Fibred
<1>8. Total(h, K) = Total(Grown(F), K)
  BY <1>7, TotalOfSame
<1> QED BY <1>2, <1>3, <1>5, <1>6, <1>7, <1>8
----------------------------------------------------------------------------
(* The account of one model's placements.                                  *)

Consistent(o) == \A m \in Models : Live(o, m) => o.any_live
Playing(q, m) == {i \in DOMAIN q : Live(q[i], m)}
Kinds(q) == [i \in DOMAIN q |-> Key(q[i])]
PendingOf(w, m) == {p \in w : p.model = m}

IsRow(r) ==
  /\ DOMAIN r = {"placed", "filled", "reasons", "valued"}
  /\ DOMAIN r.placed = Keys /\ DOMAIN r.filled = Keys
  /\ \A k \in Keys : r.placed[k] \in Nat /\ r.filled[k] \in Nat
  /\ \A w \in Reasons : r.reasons[w] \in Nat
  /\ r.valued \in Nat

\* The account r of a model: n orders were placed, those in P are in play, each
\* of its kind, and the valuations in w are to come.
Ledger(r, n, P, kind, w) ==
  /\ IsRow(r)
  /\ Total(r.placed, Keys) = n
  /\ n = Total(r.filled, Keys) + r.reasons["expired"] + Cardinality(P)
  /\ \A k \in Keys : r.filled[k] + Cardinality(OfKind(P, kind, k)) <= r.placed[k]
  /\ IsFiniteSet(w)
  /\ r.valued + Cardinality(w) <= Cardinality(Horizons) * Total(r.filled, Keys)

LEMMA KeysFinite == IsFiniteSet(Keys) /\ IsFiniteSet(Horizons) /\ Cardinality(Horizons) \in Nat
<1>1. IsFiniteSet(Buckets)
  <2>1. Buckets = ({} \cup {"shallow"}) \cup {"deep"}
    BY DEF Buckets
  <2> QED BY <2>1, FS_EmptySet, FS_AddElement
<1>2. IsFiniteSet(Locates)
  BY SessionFeedAssumption
<1> QED BY <1>1, <1>2, FS_Product, FS_CardinalityType, QueueSimAssumption DEF Keys

\* What booking does to the account of a model when the orders of F fill and
\* those of E expire.
BookedFor(r, e, F, E, kind) ==
  /\ IsRow(e)
  /\ e.placed = r.placed /\ e.valued = r.valued
  /\ e.reasons["expired"] = r.reasons["expired"] + Cardinality(E)
  /\ Fibred(r.filled, e.filled, Keys, F, kind)

LEMMA LedgerAfterFills ==
  ASSUME NEW r, NEW n, NEW P, NEW kind, NEW w, Ledger(r, n, P, kind, w),
         IsFiniteSet(P), \A i \in P : kind[i] \in Keys,
         NEW Q, NEW F, NEW E, P = (Q \cup F) \cup E,
         Q \cap F = {}, (Q \cup F) \cap E = {},
         NEW e, BookedFor(r, e, F, E, kind),
         NEW N, IsFiniteSet(N), Cardinality(N) <= Cardinality(Horizons) * Cardinality(F)
  PROVE  Ledger(e, n, Q, kind, w \cup N)
<1> DEFINE H == Cardinality(Horizons)
           f == Total(r.filled, Keys)
<1>1. /\ IsFiniteSet(Q) /\ IsFiniteSet(F) /\ IsFiniteSet(E) /\ IsFiniteSet(Q \cup F)
      /\ Cardinality(Q) \in Nat /\ Cardinality(F) \in Nat /\ Cardinality(E) \in Nat
  BY FS_Subset, FS_CardinalityType
<1>2. Cardinality(P) = Cardinality(Q) + Cardinality(F) + Cardinality(E)
  <2>1. Cardinality(Q \cup F) = Cardinality(Q) + Cardinality(F)
    BY <1>1, UnionCount
  <2>2. Cardinality(P) = Cardinality(Q \cup F) + Cardinality(E)
    BY <1>1, UnionCount
  <2> QED BY <2>1, <2>2
<1>3. Total(e.filled, Keys) = f + Cardinality(F) /\ f \in Nat
  <2>1. \A k \in Keys : r.filled[k] \in Nat
    BY DEF Ledger, IsRow
  <2>2. \A i \in F : kind[i] \in Keys
    OBVIOUS
  <2> QED BY <1>1, <2>1, <2>2, KeysFinite, FiberTotal DEF BookedFor
<1>4. ASSUME NEW k \in Keys
      PROVE  e.filled[k] + Cardinality(OfKind(Q, kind, k)) <= e.placed[k]
  <2> DEFINE p == OfKind(P, kind, k)
             x == OfKind(F, kind, k)
             y == OfKind(Q, kind, k)
  <2>1. p \in SUBSET P /\ x \cup y \in SUBSET p /\ x \in SUBSET P /\ y \in SUBSET P /\ x \cap y = {}
    BY DEF OfKind
  <2> HIDE DEF p, x, y
  <2>2. /\ IsFiniteSet(p) /\ IsFiniteSet(x) /\ IsFiniteSet(y)
        /\ Cardinality(p) \in Nat /\ Cardinality(x) \in Nat /\ Cardinality(y) \in Nat
    BY <2>1, FS_Subset, FS_CardinalityType
  <2>3. Cardinality(x \cup y) = Cardinality(x) + Cardinality(y)
    BY <2>1, <2>2, UnionCount
  <2>4. Cardinality(x \cup y) <= Cardinality(p)
    BY <2>1, <2>2, FS_Subset
  <2>5. r.filled[k] + Cardinality(p) <= r.placed[k] /\ r.filled[k] \in Nat /\ r.placed[k] \in Nat
    BY DEF Ledger, IsRow, p
  <2>6. e.filled[k] = r.filled[k] + Cardinality(x) /\ e.placed[k] = r.placed[k]
    BY DEF BookedFor, Fibred, x
  <2>7. e.filled[k] + Cardinality(y) <= e.placed[k]
    BY <2>2, <2>3, <2>4, <2>5, <2>6
  <2> QED BY <2>7 DEF y
<1>5. /\ IsFiniteSet(w \cup N) /\ Cardinality(w \cup N) \in Nat
      /\ Cardinality(w \cup N) <= Cardinality(w) + Cardinality(N)
      /\ Cardinality(w) \in Nat /\ Cardinality(N) \in Nat
  <2>1. IsFiniteSet(w)
    BY DEF Ledger
  <2> QED BY <2>1, UnionCount
<1>6. e.valued + Cardinality(w \cup N) <= H * (f + Cardinality(F))
  <2>1. H \in Nat
    BY KeysFinite
  <2>2. H * (f + Cardinality(F)) = H * f + H * Cardinality(F)
    BY <1>1, <1>3, <2>1
  <2>3. H * f \in Nat /\ H * Cardinality(F) \in Nat
    BY <1>1, <1>3, <2>1
  <2>4. r.valued + Cardinality(w) <= H * f /\ e.valued = r.valued /\ r.valued \in Nat
    BY DEF Ledger, BookedFor, IsRow
  <2> HIDE DEF H, f
  <2>5. Cardinality(N) <= H * Cardinality(F)
    BY DEF H
  <2> QED BY <1>5, <2>2, <2>3, <2>4, <2>5
<1>7. /\ Total(r.placed, Keys) = n /\ n = f + r.reasons["expired"] + Cardinality(P)
      /\ e.placed = r.placed /\ e.reasons["expired"] = r.reasons["expired"] + Cardinality(E)
      /\ r.reasons["expired"] \in Nat /\ IsRow(e)
  BY DEF Ledger, BookedFor, IsRow, Reasons
<1> HIDE DEF H, f
<1>8. n = Total(e.filled, Keys) + e.reasons["expired"] + Cardinality(Q)
  BY <1>1, <1>2, <1>3, <1>7
<1>9. e.valued + Cardinality(w \cup N) <= Cardinality(Horizons) * Total(e.filled, Keys)
  BY <1>3, <1>6 DEF H
<1> QED BY <1>4, <1>5, <1>7, <1>8, <1>9 DEF Ledger
\* A valuation that is due is made or, without a mid, forgotten.
LEMMA LedgerAfterValuations ==
  ASSUME NEW r, NEW n, NEW P, NEW kind, NEW w, Ledger(r, n, P, kind, w),
         NEW V, NEW D, V \subseteq D, D \subseteq w,
         NEW e, e = [r EXCEPT !.valued = @ + Cardinality(V)]
  PROVE  Ledger(e, n, P, kind, w \ D)
<1>1. IsFiniteSet(w) /\ IsRow(r)
  BY DEF Ledger
<1>2. /\ DOMAIN e = {"placed", "filled", "reasons", "valued"}
      /\ e.placed = r.placed /\ e.filled = r.filled /\ e.reasons = r.reasons
      /\ e.valued = r.valued + Cardinality(V)
  BY <1>1 DEF IsRow
<1>3. /\ IsFiniteSet(V) /\ IsFiniteSet(w \ D)
      /\ Cardinality(V) \in Nat /\ Cardinality(w \ D) \in Nat /\ Cardinality(w) \in Nat
  BY <1>1, FS_Subset, FS_CardinalityType
<1>4. Cardinality(V) + Cardinality(w \ D) <= Cardinality(w)
  <2>1. V \cap (w \ D) = {} /\ V \cup (w \ D) \in SUBSET w
    OBVIOUS
  <2>2. Cardinality(V \cup (w \ D)) <= Cardinality(w)
    BY <1>1, <2>1, FS_Subset
  <2> QED BY <1>3, <2>1, <2>2, UnionCount
<1>5. IsRow(e)
  BY <1>1, <1>2, <1>3 DEF IsRow
<1>6. e.valued + Cardinality(w \ D) <= Cardinality(Horizons) * Total(e.filled, Keys)
  <2> DEFINE z == Cardinality(Horizons) * Total(r.filled, Keys)
  <2>1. r.valued + Cardinality(w) <= z /\ r.valued \in Nat
    BY <1>1 DEF Ledger, IsRow
  <2>2. z \in Nat
    <3>1. \A k \in Keys : r.filled[k] \in Nat
      BY <1>1 DEF IsRow
    <3>2. Total(r.filled, Keys) \in Nat
      BY <3>1, KeysFinite, TotalIsNat
    <3> QED BY <3>2, KeysFinite
  <2>3. Cardinality(Horizons) * Total(e.filled, Keys) = z
    BY <1>2
  <2> HIDE DEF z
  <2> QED BY <1>2, <1>3, <1>4, <2>1, <2>2, <2>3
<1> QED BY <1>2, <1>3, <1>5, <1>6 DEF Ledger

\* One order more is placed and in play.
LEMMA LedgerAfterPlacement ==
  ASSUME NEW r, NEW n \in Nat, NEW P, NEW kind, NEW w, Ledger(r, n, P, kind, w),
         IsFiniteSet(P), NEW x, x \notin P, NEW h, h[x] \in Keys,
         \A i \in P : h[i] = kind[i],
         NEW e, e = OneMorePlaced(r, h[x])
  PROVE  Ledger(e, n + 1, P \cup {x}, h, w)
<1> DEFINE a == h[x]
           Q == P \cup {x}
<1>1. IsRow(r) /\ a \in Keys
  BY DEF Ledger
<1>2. /\ DOMAIN e = {"placed", "filled", "reasons", "valued"}
      /\ e.filled = r.filled /\ e.reasons = r.reasons /\ e.valued = r.valued
      /\ DOMAIN e.placed = Keys
      /\ e.placed[a] = r.placed[a] + 1
      /\ \A k \in Keys \ {a} : e.placed[k] = r.placed[k]
  BY <1>1 DEF IsRow, OneMorePlaced
<1> HIDE DEF a
<1>3. IsRow(e)
  <2>1. \A k \in Keys : e.placed[k] \in Nat
    BY <1>1, <1>2 DEF IsRow
  <2> QED BY <1>1, <1>2, <2>1 DEF IsRow
<1>4. Total(e.placed, Keys) = n + 1
  <2>1. \A k \in Keys : e.placed[k] \in Int /\ r.placed[k] \in Int
    BY <1>1, <1>3 DEF IsRow
  <2>2. /\ Total(e.placed, Keys) = Total(r.placed, Keys) + (e.placed[a] - r.placed[a])
        /\ r.placed[a] \in Int
    BY <1>1, <1>2, <2>1, KeysFinite, TotalOfOneChanged DEF IntegersOn, AgreeOn
  <2> QED BY <1>2, <2>2 DEF Ledger
<1>5. Cardinality(Q) = Cardinality(P) + 1 /\ Cardinality(P) \in Nat
  BY FS_AddElement, FS_CardinalityType
<1>6. n + 1 = Total(e.filled, Keys) + e.reasons["expired"] + Cardinality(Q)
  <2>1. Total(r.filled, Keys) \in Nat
    <3>1. \A k \in Keys : r.filled[k] \in Nat
      BY <1>1 DEF IsRow
    <3> QED BY <3>1, KeysFinite, TotalIsNat
  <2>2. r.reasons["expired"] \in Nat
    BY <1>1 DEF IsRow, Reasons
  <2>3. n = Total(r.filled, Keys) + r.reasons["expired"] + Cardinality(P)
    BY DEF Ledger
  <2> QED BY <1>2, <1>5, <2>1, <2>2, <2>3
<1>7. ASSUME NEW k \in Keys
      PROVE  e.filled[k] + Cardinality(OfKind(Q, h, k)) <= e.placed[k]
  <2>1. r.filled[k] + Cardinality(OfKind(P, kind, k)) <= r.placed[k]
    BY DEF Ledger
  <2>2. OfKind(P, h, k) = OfKind(P, kind, k) /\ OfKind(P, h, k) \in SUBSET P
    BY DEF OfKind
  <2>3. IsFiniteSet(OfKind(P, h, k)) /\ Cardinality(OfKind(P, h, k)) \in Nat
    BY <2>2, FS_Subset, FS_CardinalityType
  <2>4. r.filled[k] \in Nat /\ r.placed[k] \in Nat
    BY <1>1 DEF IsRow
  <2>5. CASE k = a
    <3>1. OfKind(Q, h, k) = OfKind(P, h, k) \cup {x} /\ x \notin OfKind(P, h, k)
      BY <2>5 DEF OfKind, a
    <3>2. Cardinality(OfKind(Q, h, k)) = Cardinality(OfKind(P, h, k)) + 1
      BY <2>3, <3>1, FS_AddElement
    <3> HIDE DEF Q
    <3> QED BY <1>2, <2>1, <2>2, <2>3, <2>4, <2>5, <3>2
  <2>6. CASE k # a
    <3>1. OfKind(Q, h, k) = OfKind(P, h, k)
      BY <2>6 DEF OfKind, a
    <3> HIDE DEF Q
    <3> QED BY <1>2, <2>1, <2>2, <2>6, <3>1
  <2> QED BY <2>5, <2>6
<1>8. IsFiniteSet(w) /\ e.valued + Cardinality(w) <= Cardinality(Horizons) * Total(e.filled, Keys)
  BY <1>2 DEF Ledger
<1> QED BY <1>3, <1>4, <1>6, <1>7, <1>8 DEF Ledger

\* Orders in play move to other positions, and the account stands.
LEMMA LedgerAfterMoving ==
  ASSUME NEW r, NEW n, NEW P, NEW kind, NEW w, Ledger(r, n, P, kind, w),
         IsFiniteSet(P), NEW Q, IsFiniteSet(Q), NEW h, NEW g \in Bijection(Q, P),
         \A i \in Q : h[i] = kind[g[i]]
  PROVE  Ledger(r, n, Q, h, w)
<1>1. Cardinality(Q) = Cardinality(P)
  BY FS_Bijection DEF ExistsBijection
<1>2. ASSUME NEW k \in Keys
      PROVE  Cardinality(OfKind(Q, h, k)) = Cardinality(OfKind(P, kind, k))
  <2> DEFINE x == OfKind(Q, h, k)
             y == OfKind(P, kind, k)
             z == [i \in x |-> g[i]]
  <2>1. /\ \A i \in Q : g[i] \in P
        /\ \A i, j \in Q : g[i] = g[j] => i = j
        /\ \A j \in P : \E i \in Q : g[i] = j
    BY DEF Bijection, Injection, Surjection, IsInjective
  <2>2. /\ \A i \in x : i \in Q /\ g[i] \in y
        /\ \A j \in y : \E i \in x : g[i] = j
    BY <2>1 DEF OfKind
  <2> HIDE DEF x, y
  <2>3. z \in Bijection(x, y)
    BY <2>1, <2>2 DEF Bijection, Injection, Surjection, IsInjective
  <2>4. IsFiniteSet(x)
    <3>1. x \in SUBSET Q
      BY DEF x, OfKind
    <3> QED BY <3>1, FS_Subset
  <2>5. Cardinality(x) = Cardinality(y)
    <3> HIDE DEF z
    <3> QED BY <2>3, <2>4, FS_Bijection DEF ExistsBijection
  <2> QED BY <2>5 DEF x, y
<1> QED BY <1>1, <1>2 DEF Ledger
----------------------------------------------------------------------------
(* What the simulator's functions do to the accounts.                      *)

ValuationsOf(q, m, ts, F) == UNION {Valuations(q[i], m, ts) : i \in F}

\* The valuations a set of fills leaves are one per fill and horizon at most.
LEMMA ValuationsBound ==
  ASSUME NEW q, NEW m, NEW ts, NEW F, IsFiniteSet(F)
  PROVE  /\ IsFiniteSet(ValuationsOf(q, m, ts, F))
         /\ Cardinality(ValuationsOf(q, m, ts, F)) <= Cardinality(Horizons) * Cardinality(F)
<1> DEFINE N == UNION {Valuations(q[i], m, ts) : i \in F}
           V(i, h) == [id |-> q[i].id, model |-> m, horizon |-> h, locate |-> q[i].locate,
                       due |-> ts + h]
           g == [x \in F \X Horizons |-> V(x[1], x[2])]
<1>1. /\ IsFiniteSet(F \X Horizons)
      /\ Cardinality(F \X Horizons) = Cardinality(F) * Cardinality(Horizons)
  BY KeysFinite, FS_Product
<1>2. \A i : Valuations(q[i], m, ts) = {V(i, h) : h \in Horizons}
  BY DEF Valuations
<1> HIDE DEF V
<1>3. \A x \in F \X Horizons : g[x] \in N
  <2> SUFFICES ASSUME NEW i \in F, NEW h \in Horizons PROVE g[<<i, h>>] \in N
    OBVIOUS
  <2>1. g[<<i, h>>] = V(i, h)
    OBVIOUS
  <2>2. V(i, h) \in Valuations(q[i], m, ts)
    BY <1>2
  <2> QED BY <2>1, <2>2
<1>4. \A v \in N : \E x \in F \X Horizons : g[x] = v
  <2> SUFFICES ASSUME NEW i \in F, NEW v \in Valuations(q[i], m, ts)
               PROVE  \E x \in F \X Horizons : g[x] = v
    OBVIOUS
  <2>1. PICK h \in Horizons : v = V(i, h)
    BY <1>2
  <2>2. <<i, h>> \in F \X Horizons /\ g[<<i, h>>] = V(i, h)
    OBVIOUS
  <2> QED BY <2>1, <2>2
<1> HIDE DEF N
<1>5. g \in Surjection(F \X Horizons, N)
  <2>1. g \in [F \X Horizons -> N]
    BY <1>3
  <2> HIDE DEF g
  <2> QED BY <1>4, <2>1 DEF Surjection
<1> HIDE DEF g
<1>6. IsFiniteSet(N) /\ Cardinality(N) <= Cardinality(F) * Cardinality(Horizons)
  BY <1>1, <1>5, FS_Surjection
<1>7. Cardinality(F) * Cardinality(Horizons) = Cardinality(Horizons) * Cardinality(F)
  BY KeysFinite, FS_CardinalityType
<1> QED BY <1>6, <1>7 DEF N, ValuationsOf

\* An order an event may turn another into, as far as the accounts go.
Passes(p, o) ==
  /\ Becoming(p, o) /\ Consistent(p) /\ (p.any_live => o.any_live)
  /\ \A m \in Models : /\ Live(p, m) => Live(o, m)
                       /\ Live(o, m) /\ ~Live(p, m) => p.models[m].reason \in Reasons

Ledgers(s) ==
  /\ DOMAIN s = SimFields /\ IsList(s.live) /\ s.placements \in Nat
  /\ \A i \in DOMAIN s.live : IsOrder(s.live[i]) /\ Consistent(s.live[i])
  /\ \A m \in Models : Ledger(s.res[m], s.placements, Playing(s.live, m), Kinds(s.live),
                              PendingOf(s.pending, m))

LEMMA PlayingFinite ==
  ASSUME NEW q, IsList(q), NEW m
  PROVE  /\ IsFiniteSet(Playing(q, m)) /\ Playing(q, m) \subseteq DOMAIN q
<1>0. Len(q) \in Nat /\ DOMAIN q = 1..Len(q)
  BY DEF IsList
<1>1. IsFiniteSet(1..Len(q)) /\ DOMAIN q = 1..Len(q)
  BY <1>0, FS_Interval
<1>2. Playing(q, m) \in SUBSET (1..Len(q))
  BY <1>1 DEF Playing
<1> QED BY <1>1, <1>2, FS_Subset

LEMMA KindIsKey ==
  ASSUME NEW q, NEW i \in DOMAIN q, IsOrder(q[i])
  PROVE  Kinds(q)[i] \in Keys /\ Kinds(q)[i] = Key(q[i])
  BY DEF Kinds, Key, Keys, IsOrder, DepthBucket, Buckets

NewValuations(before, after, m, ts) ==
  ValuationsOf(after, m, ts, FilledNow(before, after, m))

AccountsBooked(b, s, after, ts) ==
  /\ \A m \in Models : b.res[m] = Tallied(s.res[m], s.live, after, m)
  /\ b.pending = s.pending \cup UNION {NewValuations(s.live, after, m, ts) : m \in Models}

LEMMA BookedAccounts ==
  ASSUME NEW s, DOMAIN s = SimFields, NEW after, after # s.live, NEW ts
  PROVE  AccountsBooked(Booked(s, after, ts), s, after, ts)
<1> DEFINE b == Booked(s, after, ts)
           N(m) == UNION {Valuations(after[i], m, ts) : i \in FilledNow(s.live, after, m)}
<1>1. b = [s EXCEPT
          !.live = after,
          !.res = [m \in Models |-> Tallied(@[m], s.live, after, m)],
          !.pending = @ \cup UNION {N(m) : m \in Models}]
  BY DEF Booked
<1> HIDE DEF b, N
<1>2. b.pending = s.pending \cup UNION {N(m) : m \in Models}
  BY <1>1 DEF SimFields
<1>3. b.res = [m \in Models |-> Tallied(s.res[m], s.live, after, m)]
  BY <1>1 DEF SimFields
<1> QED BY <1>2, <1>3 DEF AccountsBooked, NewValuations, ValuationsOf, N, b
\* One for one, what an event makes of the orders.
Onward(after, q) ==
  /\ after = [i \in DOMAIN q |-> after[i]]
  /\ \A i \in DOMAIN q : Passes(after[i], q[i])

\* Of the orders a model had in play, each is still, has filled or has expired.
LEMMA RetiredSplits ==
  ASSUME NEW q, NEW after, Onward(after, q), NEW m \in Models
  PROVE  LET Q == Playing(after, m)
             F == FilledNow(q, after, m)
             E == Retired(q, after, m, "expired")
         IN  /\ Playing(q, m) = (Q \cup F) \cup E
             /\ Q \cap F = {} /\ (Q \cup F) \cap E = {}
             /\ Kinds(after) = Kinds(q)
<1> DEFINE Q == Playing(after, m)
           F == FilledNow(q, after, m)
           E == Retired(q, after, m, "expired")
<1>0. DOMAIN after = DOMAIN q
  BY DEF Onward
<1>1. \A i : i \in F <=> /\ i \in DOMAIN q /\ Live(q[i], m) /\ ~Live(after[i], m)
                         /\ after[i].models[m].reason \in FillReasons
  BY DEF FilledNow, Retired
<1>2. \A i : i \in E <=> /\ i \in DOMAIN q /\ Live(q[i], m) /\ ~Live(after[i], m)
                         /\ after[i].models[m].reason = "expired"
  BY DEF Retired
<1>3. \A i : i \in Q <=> i \in DOMAIN q /\ Live(after[i], m)
  BY <1>0 DEF Playing
<1>4. \A i \in DOMAIN q : /\ Live(after[i], m) => Live(q[i], m)
                          /\ Live(q[i], m) /\ ~Live(after[i], m) =>
                               after[i].models[m].reason \in Reasons
  BY DEF Onward, Passes
<1>5. "expired" \notin FillReasons /\ Reasons = FillReasons \cup {"expired"}
  BY DEF FillReasons, Reasons
<1>6. \A i : i \in Playing(q, m) <=> i \in DOMAIN q /\ Live(q[i], m)
  BY DEF Playing
<1> HIDE DEF Q, F, E
<1>7. Playing(q, m) = (Q \cup F) \cup E
  <2>1. \A i : i \in Playing(q, m) => i \in (Q \cup F) \cup E
    BY <1>1, <1>2, <1>3, <1>4, <1>5, <1>6
  <2>2. \A i : i \in (Q \cup F) \cup E => i \in Playing(q, m)
    BY <1>1, <1>2, <1>3, <1>4, <1>6
  <2> QED BY <2>1, <2>2
<1>8. Q \cap F = {} /\ (Q \cup F) \cap E = {}
  BY <1>1, <1>2, <1>3, <1>5
<1>9. Kinds(after) = Kinds(q)
  <2>1. \A i \in DOMAIN q : Key(after[i]) = Key(q[i])
    BY DEF Onward, Passes, Becoming, SameOrder, Key
  <2> QED BY <1>0, <2>1 DEF Kinds
<1> QED BY <1>7, <1>8, <1>9 DEF Q, F, E

LEMMA TalliedSound ==
  ASSUME NEW q, IsList(q), NEW after, Onward(after, q), \A i \in DOMAIN q : IsOrder(q[i]),
         NEW m \in Models, NEW r, IsRow(r)
  PROVE  BookedFor(r, Tallied(r, q, after, m), FilledNow(q, after, m),
                   Retired(q, after, m, "expired"), Kinds(q))
<1> DEFINE e == Tallied(r, q, after, m)
           F == FilledNow(q, after, m)
           R(w) == Retired(q, after, m, w)
           G(k) == {i \in F : Key(after[i]) = k}
<1>1. e = [r EXCEPT !.reasons = [w \in Reasons |-> @[w] + Cardinality(R(w))],
                    !.filled  = [k \in Keys |-> @[k] + Cardinality(G(k))]]
  BY DEF Tallied, Keys
<1>2. ASSUME NEW w PROVE R(w) \subseteq Playing(q, m)
  BY DEF Retired, Playing
<1>3. F \subseteq Playing(q, m)
  BY <1>2 DEF FilledNow
<1>4. ASSUME NEW k \in Keys PROVE G(k) = OfKind(F, Kinds(q), k)
  <2>1. \A i \in F : Kinds(q)[i] = Key(after[i])
    <3> SUFFICES ASSUME NEW i \in F PROVE Kinds(q)[i] = Key(after[i])
      OBVIOUS
    <3>1. i \in DOMAIN q
      BY <1>3 DEF Playing
    <3> QED BY <3>1 DEF Onward, Passes, Becoming, SameOrder, Key, Kinds
  <2> HIDE DEF F
  <2> QED BY <2>1 DEF OfKind
<1> HIDE DEF e, F, R, G
<1>5. IsFiniteSet(Playing(q, m))
  BY PlayingFinite
<1>6. \A w \in Reasons : Cardinality(R(w)) \in Nat
  BY <1>2, <1>5, FS_Subset, FS_CardinalityType
<1>7. \A k \in Keys : Cardinality(G(k)) \in Nat
  <2> SUFFICES ASSUME NEW k \in Keys PROVE Cardinality(G(k)) \in Nat
    OBVIOUS
  <2>1. G(k) \in SUBSET Playing(q, m)
    BY <1>3, <1>4 DEF OfKind
  <2> QED BY <1>5, <2>1, FS_Subset, FS_CardinalityType
<1>8. DOMAIN e = {"placed", "filled", "reasons", "valued"}
  BY <1>1 DEF IsRow
<1>9. e.placed = r.placed /\ e.valued = r.valued
  BY <1>1 DEF IsRow
<1>10. e.reasons = [w \in Reasons |-> r.reasons[w] + Cardinality(R(w))]
  BY <1>1 DEF IsRow
<1>11. e.filled = [k \in Keys |-> r.filled[k] + Cardinality(G(k))]
  BY <1>1 DEF IsRow
<1>12. IsRow(e)
  <2>1. DOMAIN e.filled = Keys /\ \A k \in Keys : e.filled[k] \in Nat
    BY <1>7, <1>11 DEF IsRow
  <2>2. \A w \in Reasons : e.reasons[w] \in Nat
    BY <1>6, <1>10 DEF IsRow
  <2> QED BY <1>8, <1>9, <2>1, <2>2 DEF IsRow
<1>13. Fibred(r.filled, e.filled, Keys, F, Kinds(q))
  BY <1>4, <1>11 DEF Fibred
<1>14. e.reasons["expired"] = r.reasons["expired"] + Cardinality(R("expired"))
  BY <1>10 DEF Reasons
<1> QED BY <1>9, <1>12, <1>13, <1>14 DEF BookedFor, e, F, R

LEMMA BookedLedgers ==
  ASSUME NEW s, Ledgers(s), NEW after, Onward(after, s.live), NEW ts
  PROVE  Ledgers(Booked(s, after, ts))
<1>1. CASE after = s.live
  BY <1>1 DEF Booked
<1>2. CASE after # s.live
  <2> DEFINE b == Booked(s, after, ts)
             q == s.live
  <2>1. /\ DOMAIN b = SimFields /\ b.live = after /\ b.placements = s.placements
        /\ DOMAIN s = SimFields /\ IsList(q) /\ s.placements \in Nat
        /\ \A i \in DOMAIN q : IsOrder(q[i])
    BY BookedFields DEF Ledgers, SimFields
  <2>0. AccountsBooked(b, s, after, ts)
    BY <1>2, <2>1, BookedAccounts
  <2> HIDE DEF b
  <2>2. /\ \A m \in Models : b.res[m] = Tallied(s.res[m], q, after, m)
        /\ b.pending = s.pending \cup UNION {NewValuations(q, after, m, ts) : m \in Models}
    BY <2>0 DEF AccountsBooked
  <2>3. IsList(after) /\ DOMAIN after = DOMAIN q
    BY <2>1, ListOf DEF Onward, IsList
  <2>4. ASSUME NEW m \in Models
        PROVE  Ledger(b.res[m], b.placements, Playing(after, m), Kinds(after),
                      PendingOf(b.pending, m))
    <3> DEFINE F == FilledNow(q, after, m)
               E == Retired(q, after, m, "expired")
               N == NewValuations(q, after, m, ts)
               w == PendingOf(s.pending, m)
               P == Playing(q, m)
    <3>1. Ledger(s.res[m], s.placements, P, Kinds(q), w)
      BY DEF Ledgers
    <3>2. IsFiniteSet(P) /\ \A i \in P : Kinds(q)[i] \in Keys
      BY <2>1, PlayingFinite, KindIsKey
    <3>3. /\ P = (Playing(after, m) \cup F) \cup E
          /\ Playing(after, m) \cap F = {} /\ (Playing(after, m) \cup F) \cap E = {}
          /\ Kinds(after) = Kinds(q)
      BY RetiredSplits
    <3>4. BookedFor(s.res[m], b.res[m], F, E, Kinds(q))
      BY <2>1, <2>2, <3>1, TalliedSound DEF Ledger
    <3>5. IsFiniteSet(N) /\ Cardinality(N) <= Cardinality(Horizons) * Cardinality(F)
      <4>1. F \in SUBSET P
        BY <3>3
      <4>2. IsFiniteSet(F)
        BY <3>2, <4>1, FS_Subset
      <4> QED BY <4>2, ValuationsBound DEF NewValuations
    <3>6. PendingOf(b.pending, m) = w \cup N
      <4>1. \A x \in Models : \A p \in NewValuations(q, after, x, ts) : p.model = x
        BY DEF NewValuations, ValuationsOf, Valuations
      <4> HIDE DEF F, E, P, q
      <4> QED BY <2>2, <4>1 DEF PendingOf
    <3> HIDE DEF F, E, N, w, P, q
    <3>7. Ledger(b.res[m], s.placements, Playing(after, m), Kinds(q), w \cup N)
      BY <3>1, <3>2, <3>3, <3>4, <3>5, LedgerAfterFills
    <3> QED BY <2>1, <3>3, <3>6, <3>7
  <2>5. \A i \in DOMAIN after : IsOrder(after[i]) /\ Consistent(after[i])
    BY <2>3 DEF Onward, Passes, Becoming
  <2> QED BY <2>1, <2>3, <2>4, <2>5 DEF Ledgers, b
<1> QED BY <1>1, <1>2
\* Fields outside the accounts may change as they like.
LEMMA LedgersAside ==
  ASSUME NEW s, Ledgers(s), NEW p, DOMAIN p = SimFields, p.live = s.live, p.res = s.res,
         p.placements = s.placements, p.pending = s.pending
  PROVE  Ledgers(p)
  BY DEF Ledgers

\* What changes of the orders leaves them in play as they were.
LEMMA LedgersSteady ==
  ASSUME NEW s, Ledgers(s), NEW p, DOMAIN p = SimFields, p.res = s.res,
         p.placements = s.placements, p.pending = s.pending,
         p.live = [i \in DOMAIN s.live |-> p.live[i]],
         \A i \in DOMAIN s.live : /\ Becoming(p.live[i], s.live[i]) /\ Consistent(p.live[i])
                                  /\ \A m \in Models : Live(p.live[i], m) <=> Live(s.live[i], m)
  PROVE  Ledgers(p)
<1>1. DOMAIN p.live = DOMAIN s.live
  OBVIOUS
<1>2. IsList(p.live)
  BY ListOf DEF Ledgers, IsList
<1>3. \A m \in Models : Playing(p.live, m) = Playing(s.live, m)
  BY <1>1 DEF Playing
<1>4. Kinds(p.live) = Kinds(s.live)
  <2>1. \A i \in DOMAIN s.live : Key(p.live[i]) = Key(s.live[i])
    BY DEF Becoming, SameOrder, Key
  <2> QED BY <1>1, <2>1 DEF Kinds
<1>5. \A i \in DOMAIN p.live : IsOrder(p.live[i]) /\ Consistent(p.live[i])
  BY <1>1 DEF Becoming
<1> QED BY <1>2, <1>3, <1>4, <1>5 DEF Ledgers

\* What is out of play under every model may be forgotten.
LEMMA CompactedLedgers ==
  ASSUME NEW s, Ledgers(s), DOMAIN s.by_locate = Locates
  PROVE  Ledgers(Compacted(s))
<1> DEFINE S == {i \in DOMAIN s.live : s.live[i].any_live}
           keep == Ascending(S)
           n == Cardinality(S)
           live == [k \in DOMAIN keep |-> s.live[keep[k]]]
           c == Compacted(s)
<1>1. /\ DOMAIN s = SimFields /\ IsList(s.live) /\ s.placements \in Nat
      /\ DOMAIN s.live = 1..Len(s.live) /\ Len(s.live) \in Nat
      /\ \A i \in DOMAIN s.live : IsOrder(s.live[i]) /\ Consistent(s.live[i])
  BY DEF Ledgers, IsList
<1>2. c = [s EXCEPT !.live = live, !.by_locate = [l \in Locates |-> Ascending(Positions(live, l))]]
  BY DEF Compacted
<1>3. S \in SUBSET Nat /\ IsFiniteSet(S)
  <2>1. S \in SUBSET (1..Len(s.live))
    BY <1>1
  <2> HIDE DEF S
  <2>2. IsFiniteSet(1..Len(s.live)) /\ 1..Len(s.live) \subseteq Nat
    BY <1>1, FS_Interval
  <2> QED BY <2>1, <2>2, FS_Subset
<1> HIDE DEF live
<1>4. /\ DOMAIN c = SimFields /\ c.live = live /\ c.placements = s.placements
      /\ c.res = s.res /\ c.pending = s.pending
  BY <1>1, <1>2 DEF SimFields
<1> HIDE DEF c
<1>5. \A i : i \in S <=> i \in DOMAIN s.live /\ s.live[i].any_live
  OBVIOUS
<1> HIDE DEF S
<1>6. /\ n \in Nat /\ DOMAIN keep = 1..n
      /\ \A k \in 1..n : keep[k] \in S /\ Cardinality(Below(S, keep[k])) = k - 1
      /\ \A x \in S : \E k \in 1..n : keep[k] = x
  BY <1>3, AscendingSound
<1> HIDE DEF keep, n
<1>7. /\ live = [k \in 1..n |-> live[k]] /\ DOMAIN live = 1..n
      /\ \A k \in 1..n : live[k] = s.live[keep[k]]
  BY <1>6 DEF live
<1>8. IsList(live)
  BY <1>6, <1>7, ListOf
<1>9. \A i \in DOMAIN live : IsOrder(live[i]) /\ Consistent(live[i])
  BY <1>1, <1>5, <1>6, <1>7
<1>10. ASSUME NEW m \in Models
       PROVE  Ledger(s.res[m], s.placements, Playing(live, m), Kinds(live), PendingOf(s.pending, m))
  <2> DEFINE P == Playing(s.live, m)
             Q == Playing(live, m)
             g == [k \in Q |-> keep[k]]
  <2>1. Ledger(s.res[m], s.placements, P, Kinds(s.live), PendingOf(s.pending, m))
    BY DEF Ledgers
  <2>2. IsFiniteSet(P) /\ IsFiniteSet(Q)
    BY <1>1, <1>8, PlayingFinite
  <2>3. \A k \in Q : k \in 1..n /\ keep[k] \in P
    BY <1>5, <1>6, <1>7 DEF Playing
  <2>4. \A i \in P : \E k \in Q : keep[k] = i
    <3> SUFFICES ASSUME NEW i \in P PROVE \E k \in Q : keep[k] = i
      OBVIOUS
    <3>1. i \in S
      BY <1>1, <1>5 DEF Playing, Consistent
    <3>2. PICK k \in 1..n : keep[k] = i
      BY <1>6, <3>1
    <3>3. k \in Q
      BY <1>7, <3>2 DEF Playing
    <3> QED BY <3>2, <3>3
  <2>5. \A k, j \in Q : keep[k] = keep[j] => k = j
    <3> SUFFICES ASSUME NEW k \in Q, NEW j \in Q, keep[k] = keep[j] PROVE k = j
      OBVIOUS
    <3>1. k \in 1..n /\ j \in 1..n
      BY <2>3
    <3>2. k - 1 = j - 1
      BY <1>6, <3>1
    <3> QED BY <1>6, <3>1, <3>2
  <2>6. \A k \in Q : Kinds(live)[k] = Kinds(s.live)[g[k]]
    <3> SUFFICES ASSUME NEW k \in Q PROVE Kinds(live)[k] = Kinds(s.live)[keep[k]]
      OBVIOUS
    <3>1. k \in DOMAIN live /\ keep[k] \in DOMAIN s.live /\ live[k] = s.live[keep[k]]
      BY <1>7, <2>3 DEF Playing
    <3> QED BY <3>1 DEF Kinds
  <2> HIDE DEF P, Q
  <2>7. g \in Bijection(Q, P)
    BY <2>3, <2>4, <2>5 DEF Bijection, Injection, Surjection, IsInjective
  <2> HIDE DEF g
  <2>8. Ledger(s.res[m], s.placements, Q, Kinds(live), PendingOf(s.pending, m))
    BY <2>1, <2>2, <2>6, <2>7, LedgerAfterMoving
  <2> QED BY <2>8 DEF Q
<1> QED BY <1>1, <1>4, <1>8, <1>9, <1>10 DEF Ledgers, c

LEMMA SettledLedgers ==
  ASSUME NEW s, Ledgers(s), NEW bk, NEW ts
  PROVE  /\ Ledgers(Settled(s, bk, ts))
         /\ Settled(s, bk, ts).pending = {p \in s.pending : ~(p.due <= ts)}
         /\ \A m \in Models : Settled(s, bk, ts).res[m].reasons = s.res[m].reasons
<1> DEFINE t == Settled(s, bk, ts)
           due == {p \in s.pending : p.due <= ts}
           V(m) == {p \in due : p.model = m /\ TwoSided(bk, p.locate)}
           D(m) == {p \in due : p.model = m}
<1>1. t = [s EXCEPT !.pending = @ \ due,
                    !.res = [m \in Models |-> Valued(@[m], Cardinality(V(m)))]]
  BY DEF Settled
<1>2. DOMAIN s = SimFields /\ IsList(s.live)
  BY DEF Ledgers
<1>3. due \subseteq s.pending /\ \A p \in s.pending : p \in due <=> p.due <= ts
  OBVIOUS
<1>4. \A m : V(m) \subseteq D(m) /\ D(m) \subseteq PendingOf(s.pending, m)
  BY DEF PendingOf
<1>5. \A m : PendingOf(s.pending \ due, m) = PendingOf(s.pending, m) \ D(m)
  BY DEF PendingOf
<1> HIDE DEF t, due, V, D
<1>6. /\ DOMAIN t = SimFields /\ t.live = s.live /\ t.placements = s.placements
      /\ t.pending = s.pending \ due
  BY <1>1, <1>2 DEF SimFields
<1>7. \A m \in Models : t.res[m] = Valued(s.res[m], Cardinality(V(m)))
  BY <1>1, <1>2 DEF SimFields
<1>8. ASSUME NEW m \in Models
      PROVE  /\ Ledger(t.res[m], s.placements, Playing(s.live, m), Kinds(s.live),
                       PendingOf(t.pending, m))
             /\ t.res[m].reasons = s.res[m].reasons
  <2>1. Ledger(s.res[m], s.placements, Playing(s.live, m), Kinds(s.live), PendingOf(s.pending, m))
    BY DEF Ledgers
  <2>2. t.res[m] = [s.res[m] EXCEPT !.valued = @ + Cardinality(V(m))]
    BY <1>7 DEF Valued
  <2>3. Ledger(t.res[m], s.placements, Playing(s.live, m), Kinds(s.live),
               PendingOf(s.pending, m) \ D(m))
    BY <1>4, <2>1, <2>2, LedgerAfterValuations
  <2>4. t.res[m].reasons = s.res[m].reasons
    BY <2>1, <2>2 DEF Ledger, IsRow
  <2> QED BY <1>5, <1>6, <2>3, <2>4
<1>9. Ledgers(t)
  BY <1>6, <1>8 DEF Ledgers
<1>10. t.pending = {p \in s.pending : ~(p.due <= ts)}
  BY <1>3, <1>6
<1> QED BY <1>8, <1>9, <1>10 DEF t

LEMMA PlacedLedgers ==
  ASSUME NEW s, Ledgers(s), NEW p, NEW o, NEW l, HasPlaced(p, s, o, l),
         NEW id, NEW bk, NEW side, NEW ts, IsNew(o, id, bk, l, side, ts)
  PROVE  Ledgers(p)
<1> DEFINE n == Len(s.live)
<1>1. /\ DOMAIN s = SimFields /\ IsList(s.live) /\ s.placements \in Nat
      /\ \A i \in DOMAIN s.live : IsOrder(s.live[i]) /\ Consistent(s.live[i])
  BY DEF Ledgers
<1>2. DOMAIN s.live = 1..n /\ n \in Nat
  BY <1>1 DEF IsList
<1>3. /\ DOMAIN p = SimFields /\ p.live = Append(s.live, o) /\ p.placements = s.placements + 1
      /\ p.res = [m \in Models |-> OneMorePlaced(s.res[m], Key(o))]
      /\ p.pending = s.pending
  BY DEF HasPlaced, SimFields
<1>4. IsOrder(o) /\ Consistent(o) /\ \A m \in Models : Live(o, m)
  BY DEF IsNew, Consistent
<1> HIDE DEF n
<1>5. /\ IsList(p.live) /\ DOMAIN p.live = 1..(n + 1)
      /\ \A i \in 1..n : p.live[i] = s.live[i]
      /\ p.live[n + 1] = o
  BY <1>1, <1>3, ListAppends DEF IsList, n
<1>6. /\ \A i : i \in 1..(n + 1) <=> i \in 1..n \/ i = n + 1
      /\ n + 1 \notin 1..n
  BY <1>2
<1>7. \A i \in DOMAIN p.live : IsOrder(p.live[i]) /\ Consistent(p.live[i])
  BY <1>1, <1>2, <1>4, <1>5, <1>6
<1>8. ASSUME NEW m \in Models
      PROVE  Ledger(p.res[m], p.placements, Playing(p.live, m), Kinds(p.live),
                    PendingOf(p.pending, m))
  <2> DEFINE P == Playing(s.live, m)
             x == n + 1
             h == Kinds(p.live)
  <2>1. Ledger(s.res[m], s.placements, P, Kinds(s.live), PendingOf(s.pending, m))
    BY DEF Ledgers
  <2>2. IsFiniteSet(P) /\ x \notin P
    BY <1>1, <1>2, <1>6, PlayingFinite
  <2>3. Playing(p.live, m) = P \cup {x}
    BY <1>2, <1>4, <1>5, <1>6 DEF Playing
  <2>4. h[x] = Key(o) /\ h[x] \in Keys
    BY <1>5, <1>6, <1>7, KindIsKey
  <2>5. \A i \in P : h[i] = Kinds(s.live)[i]
    <3> SUFFICES ASSUME NEW i \in P PROVE h[i] = Kinds(s.live)[i]
      OBVIOUS
    <3>1. i \in 1..n
      BY <1>2 DEF Playing
    <3> QED BY <1>2, <1>5, <1>6, <3>1 DEF Kinds
  <2>6. p.res[m] = OneMorePlaced(s.res[m], h[x])
    BY <1>3, <2>4
  <2> HIDE DEF P, x, h
  <2>7. Ledger(p.res[m], s.placements + 1, P \cup {x}, h, PendingOf(s.pending, m))
    BY <1>1, <2>1, <2>2, <2>4, <2>5, <2>6, LedgerAfterPlacement
  <2> QED BY <1>3, <2>3, <2>7 DEF h
<1>9. p.placements \in Nat
  BY <1>1, <1>3
<1>10. DOMAIN p = SimFields /\ IsList(p.live)
  BY <1>3, <1>5
<1> QED BY <1>7, <1>8, <1>9, <1>10 DEF Ledgers
----------------------------------------------------------------------------
(* What an event does to one order, as far as the accounts go.             *)

LEMMA SamePasses ==
  ASSUME NEW o, IsOrder(o), Consistent(o)
  PROVE  Passes(o, o)
  BY DEF Passes, Becoming, SameOrder

LEMMA FilledPasses ==
  ASSUME NEW o, IsOrder(o), NEW why \in Reasons
  PROVE  Passes(FilledUnderAll(o, why), o)
<1> DEFINE p == FilledUnderAll(o, why)
<1>1. /\ Becoming(p, o) /\ ~p.any_live
      /\ \A m \in Models : ~Live(p, m) /\ (Live(o, m) => p.models[m].reason = why)
  BY FilledSound
<1> HIDE DEF p
<1> QED BY <1>1 DEF Passes, Consistent, p

LEMMA ExpiredPasses ==
  ASSUME NEW o, IsOrder(o)
  PROVE  Passes(Expired(o), o)
  BY FilledPasses DEF Expired, Reasons

\* A model an execution at the level retires is filled by it.
LEMMA ExecutedReasons ==
  ASSUME NEW o, IsOrder(o), NEW ref, NEW qty, NEW m \in Models
  PROVE  LET s == ModelsAfterExecution(o, ref, qty)[m]
         IN  /\ s.live => Live(o, m)
             /\ Live(o, m) /\ ~s.live => s.reason = "execution_behind"
             /\ m = "exact" /\ Live(o, m) => (s.live <=> ref \in o.ahead_refs)
<1> DEFINE r == o.models[m]
           s == ModelsAfterExecution(o, ref, qty)[m]
<1>1. DOMAIN r = {"ahead", "live", "reason"}
  BY DEF IsOrder
<1>2. \/ s = r /\ (m = "exact" => ~r.live)
      \/ /\ s = [r EXCEPT !.ahead = Less(@, qty)] /\ r.live
         /\ m = "exact" => ref \in o.ahead_refs
      \/ /\ s = Filled(r, "execution_behind") /\ r.live
         /\ m = "exact" => ref \notin o.ahead_refs
  BY DEF ModelsAfterExecution, ExactAfterExecution, ModelAfterExecution
<1> HIDE DEF s, r
<1>3. CASE s = r /\ (m = "exact" => ~r.live)
  BY <1>3 DEF Live, r, s
<1>4. CASE /\ s = [r EXCEPT !.ahead = Less(@, qty)] /\ r.live
           /\ m = "exact" => ref \in o.ahead_refs
  <2>1. s.live = r.live
    BY <1>1, <1>4
  <2> QED BY <1>4, <2>1 DEF Live, r, s
<1>5. CASE /\ s = Filled(r, "execution_behind") /\ r.live
           /\ m = "exact" => ref \notin o.ahead_refs
  <2>1. s.live = FALSE /\ s.reason = "execution_behind"
    BY <1>1, <1>5 DEF Filled
  <2> QED BY <1>5, <2>1 DEF Live, r, s
<1> QED BY <1>2, <1>3, <1>4, <1>5

LEMMA ExecutionPasses ==
  ASSUME NEW o, IsOrder(o), Consistent(o), NEW ref, NEW resolved, NEW qty
  PROVE  Passes(AfterExecution(o, ref, resolved, qty), o)
<1> DEFINE p == AfterExecution(o, ref, resolved, qty)
<1>1. \/ p = o \/ p = FilledUnderAll(o, "trade_through") \/ p = ExecutedAt(o, ref, resolved, qty)
  BY AfterExecutionCases
<1> HIDE DEF p
<1>2. ASSUME p = FilledUnderAll(o, "trade_through") PROVE Passes(p, o)
  BY <1>2, FilledPasses DEF Reasons, FillReasons
<1>3. ASSUME p = ExecutedAt(o, ref, resolved, qty) PROVE Passes(p, o)
  <2> DEFINE models == ModelsAfterExecution(o, ref, qty)
             refs == AheadRefsAfter(o, ref, resolved, qty)
  <2>1. p = Judged(o, models, refs)
    BY <1>3 DEF ExecutedAt
  <2>2. /\ DOMAIN models = Models
        /\ \A m \in Models : DOMAIN models[m] = {"ahead", "live", "reason"}
    BY ModelsAfterExecutionSound
  <2>3. \A m \in Models : /\ models[m].live => Live(o, m)
                          /\ Live(o, m) /\ ~models[m].live => models[m].reason = "execution_behind"
    BY ExecutedReasons
  <2> HIDE DEF models, refs
  <2>4. /\ Becoming(p, o) /\ p.models = models
        /\ p.any_live <=> \E m \in Models : models[m].live
    BY <2>1, <2>2, RemodelledSound
  <2> QED BY <2>3, <2>4 DEF Passes, Consistent, Live, Reasons, FillReasons
<1> QED BY <1>1, <1>2, <1>3, SamePasses DEF p

LEMMA PrintPasses ==
  ASSUME NEW o, IsOrder(o), Consistent(o), NEW price
  PROVE  Passes(AfterPrint(o, price), o)
  BY SamePasses, FilledPasses DEF AfterPrint, Reasons, FillReasons

\* A cancel retires no model.
LEMMA CancelSteady ==
  ASSUME NEW bk, NEW o, IsOrder(o), Consistent(o), NEW ref, NEW resolved, NEW qty,
         NEW p \in AfterCancel(bk, o, ref, resolved, qty)
  PROVE  /\ Becoming(p, o) /\ Consistent(p)
         /\ \A m \in Models : Live(p, m) <=> Live(o, m)
<1>1. Becoming(p, o) /\ (p.any_live <=> o.any_live)
  BY AfterCancelSound
<1>2. \A m \in Models : Live(p, m) <=> Live(o, m)
  <2>1. CASE p = o
    BY <2>1
  <2>2. ASSUME NEW before, NEW coin, p = CancelledAt(o, ref, resolved, qty, before, coin)
        PROVE  \A m \in Models : Live(p, m) <=> Live(o, m)
    <3> DEFINE models == ModelsAfterCancel(o, ref \in o.ahead_refs, qty, before, coin)
               refs == AheadRefsAfter(o, ref, resolved, qty)
    <3>1. p = Charged(o, models, refs)
      BY <2>2 DEF CancelledAt
    <3>2. /\ DOMAIN models = Models
          /\ \A m \in Models : /\ DOMAIN models[m] = {"ahead", "live", "reason"}
                               /\ models[m].live <=> o.models[m].live
      BY ModelsAfterCancelSound
    <3> HIDE DEF models, refs
    <3>3. p.models = models
      BY <3>1, <3>2, RemodelledSound
    <3> QED BY <3>2, <3>3 DEF Live
  <2> QED BY <2>1, <2>2, AfterCancelCases
<1> QED BY <1>1, <1>2 DEF Consistent
----------------------------------------------------------------------------
(* The clocks of the simulator.                                            *)

\* An order in play was young at the last sweep, or has entered since.
OnClock(o, sweep) ==
  /\ o.entered \in Nat
  /\ o.any_live => sweep - o.entered < MaxLife \/ o.entered >= sweep

Clocks(s) ==
  /\ s.last_ts \in Nat /\ s.last_sweep \in Nat /\ s.next_placement \in Nat
  /\ s.last_sweep <= s.last_ts
  /\ \A p \in s.pending : p.due \in Nat /\ p.due > s.last_ts

Orderly(s) == Clocks(s) /\ \A i \in DOMAIN s.live : OnClock(s.live[i], s.last_sweep)
InTime(s) == s.last_ts - s.last_sweep < SweepEvery
Scheduled(s) ==
  s.next_placement > s.last_ts \/ s.next_placement >= EndOfTrading \/ ~TimerPlacement

\* The fills of the exact model by executions from behind.
Behind(s) == s.res["exact"].reasons["execution_behind"]

Good(s) == Indexed(s) /\ Ledgers(s) /\ Orderly(s)

LEMMA BookedClocks ==
  ASSUME NEW s, DOMAIN s = SimFields, Clocks(s), NEW after, NEW ts \in Nat, s.last_ts <= ts
  PROVE  Clocks(Booked(s, after, ts))
<1> DEFINE b == Booked(s, after, ts)
<1>1. CASE after = s.live
  BY <1>1 DEF Booked
<1>2. CASE after # s.live
  <2>1. /\ b.last_ts = s.last_ts /\ b.last_sweep = s.last_sweep
        /\ b.next_placement = s.next_placement
    BY BookedFields DEF SimFields
  <2>2. AccountsBooked(b, s, after, ts)
    BY <1>2, BookedAccounts
  <2> HIDE DEF b
  <2>3. ASSUME NEW p \in b.pending PROVE p.due \in Nat /\ p.due > b.last_ts
    <3>1. CASE p \in s.pending
      BY <2>1, <3>1 DEF Clocks
    <3>2. ASSUME NEW m \in Models, p \in NewValuations(s.live, after, m, ts)
          PROVE  p.due \in Nat /\ p.due > b.last_ts
      <4>1. PICK h \in Horizons : p.due = ts + h
        BY <3>2 DEF NewValuations, ValuationsOf, Valuations
      <4>2. h \in Nat \ {0} /\ s.last_ts \in Nat
        BY QueueSimAssumption DEF Clocks
      <4> QED BY <2>1, <4>1, <4>2
    <3> QED BY <2>2, <3>1, <3>2 DEF AccountsBooked
  <2> QED BY <2>1, <2>3 DEF Clocks, b
<1> QED BY <1>1, <1>2

LEMMA BookedBehind ==
  ASSUME NEW s, Ledgers(s), NEW after, NEW ts
  PROVE  Behind(Booked(s, after, ts)) =
           Behind(s) + Cardinality(Retired(s.live, after, "exact", "execution_behind"))
<1> DEFINE b == Booked(s, after, ts)
           R == Retired(s.live, after, "exact", "execution_behind")
           r == s.res["exact"]
<1>0. IsRow(r) /\ "exact" \in Models /\ "execution_behind" \in Reasons /\ DOMAIN s = SimFields
  BY DEF Ledgers, Ledger, Models, Reasons, FillReasons
<1>1. CASE after = s.live
  <2>1. R = {}
    BY <1>1 DEF Retired
  <2>2. Behind(s) \in Nat /\ Cardinality(R) = 0
    BY <1>0, <2>1, FS_EmptySet DEF Behind, IsRow
  <2>3. b = s
    BY <1>1 DEF Booked
  <2> QED BY ONLY <2>2, <2>3
<1>2. CASE after # s.live
  <2>1. b.res["exact"] = Tallied(r, s.live, after, "exact")
    BY ZenonT(40), <1>0, <1>2, BookedAccounts DEF AccountsBooked
  <2> HIDE DEF b, r
  <2>2. Tallied(r, s.live, after, "exact").reasons =
          [w \in Reasons |-> r.reasons[w] + Cardinality(Retired(s.live, after, "exact", w))]
    BY <1>0 DEF Tallied, IsRow
  <2> QED BY <1>0, <2>1, <2>2 DEF Behind, b, r
<1> QED BY <1>1, <1>2

LEMMA BookedGood ==
  ASSUME NEW s, Good(s), NEW after, Onward(after, s.live), NEW ts \in Nat, s.last_ts <= ts
  PROVE  LET b == Booked(s, after, ts)
         IN  Good(b) /\ b.last_ts = s.last_ts
<1> DEFINE b == Booked(s, after, ts)
<1>1. Indexed(b) /\ Ledgers(b) /\ Clocks(b)
  <2>1. Indexed(s) /\ Ledgers(s) /\ Clocks(s) /\ DOMAIN s = SimFields
    BY DEF Good, Orderly, Ledgers
  <2>2. /\ after = [i \in DOMAIN s.live |-> after[i]]
        /\ \A i \in DOMAIN s.live : IsOrder(after[i]) /\ SameOrder(after[i], s.live[i])
    BY DEF Onward, Passes, Becoming
  <2> HIDE DEF b
  <2> QED BY <2>1, <2>2, BookedSound, BookedLedgers, BookedClocks DEF b
<1>2. b.live = after /\ b.last_ts = s.last_ts /\ b.last_sweep = s.last_sweep
  BY BookedFields DEF Good, Ledgers, SimFields
<1> HIDE DEF b
<1>3. \A i \in DOMAIN after : OnClock(after[i], s.last_sweep)
  <2> SUFFICES ASSUME NEW i \in DOMAIN after PROVE OnClock(after[i], s.last_sweep)
    OBVIOUS
  <2>1. i \in DOMAIN s.live /\ Passes(after[i], s.live[i])
    BY DEF Onward
  <2> QED BY <2>1 DEF Good, Orderly, OnClock, Passes, Becoming, SameOrder
<1> QED BY <1>1, <1>2, <1>3 DEF Good, Orderly, b

\* A simulator that has run its tick at ts.
Ticking(p, ts, n) ==
  Good(p) /\ InTime(p) /\ p.last_ts = ts /\ Behind(p) = n

LEMMA SweptTicks ==
  ASSUME NEW s, Good(s), NEW ts \in Nat, s.last_ts = ts
  PROVE  Ticking(Swept(s, ts), ts, Behind(s))
<1>0. /\ Indexed(s) /\ Ledgers(s) /\ Clocks(s) /\ DOMAIN s = SimFields
      /\ \A i \in DOMAIN s.live : IsOrder(s.live[i]) /\ Consistent(s.live[i])
                                  /\ OnClock(s.live[i], s.last_sweep)
  BY DEF Good, Orderly, Ledgers
<1>1. CASE ts - s.last_sweep < SweepEvery
  BY <1>1 DEF Swept, Ticking, InTime
<1>2. CASE ~(ts - s.last_sweep < SweepEvery)
  <2> DEFINE t == [s EXCEPT !.last_sweep = ts]
             after == SweptLive(s, ts)
             b == Booked(t, after, ts)
             c == Compacted(b)
  <2>1. /\ DOMAIN t = SimFields /\ \A f \in SimFields \ {"last_sweep"} : t[f] = s[f]
        /\ t.last_sweep = ts
    BY <1>0 DEF SimFields
  <2>2. Swept(s, ts) = Compacted(Booked(t, SweptLive(t, ts), ts))
    BY <1>2 DEF Swept, SweptLive
  <2> HIDE DEF t
  <2>3. SweptLive(t, ts) = after
    BY <2>1 DEF SweptLive, SimFields
  <2>4. Indexed(t) /\ Ledgers(t) /\ Clocks(t) /\ t.last_ts = ts /\ t.live = s.live
    <3>1. Indexed(t)
      BY <1>0, <2>1 DEF Indexed, SimFields
    <3>2. Ledgers(t)
      BY <1>0, <2>1, LedgersAside DEF SimFields
    <3>3. Clocks(t)
      BY <1>0, <2>1 DEF Clocks, SimFields
    <3> QED BY <2>1, <3>1, <3>2, <3>3 DEF SimFields
  <2>5. ASSUME NEW i \in DOMAIN s.live
        PROVE  /\ Passes(after[i], s.live[i])
               /\ ~(Live(s.live[i], "exact") /\ ~Live(after[i], "exact")
                    /\ after[i].models["exact"].reason = "execution_behind")
               /\ after[i].any_live => /\ after[i] = s.live[i]
                                       /\ ts - s.live[i].entered < MaxLife
    <3> DEFINE o == s.live[i]
    <3>1. after[i] = IF o.any_live /\ ts - o.entered >= MaxLife THEN Expired(o) ELSE o
      BY DEF SweptLive
    <3>2. IsOrder(o) /\ Consistent(o) /\ o.entered \in Nat /\ MaxLife \in Nat
      BY <1>0, QueueSimAssumption DEF OnClock
    <3> HIDE DEF o, after
    <3>3. CASE after[i] = Expired(o) /\ o.any_live /\ ts - o.entered >= MaxLife
      <4>1. Passes(Expired(o), o) /\ ~Expired(o).any_live
        BY <3>2, ExpiredPasses, ExpiredSound
      <4>2. Live(o, "exact") => Expired(o).models["exact"].reason = "expired"
        BY <3>2, FilledSound DEF Expired, Models
      <4> QED BY <3>3, <4>1, <4>2 DEF o
    <3>4. CASE after[i] = o /\ ~(o.any_live /\ ts - o.entered >= MaxLife)
      BY <3>2, <3>4, SamePasses DEF o
    <3> QED BY <3>1, <3>3, <3>4
  <2>6. Onward(after, t.live)
    BY <1>0, <2>4, <2>5, SweptLiveSound DEF Onward
  <2>7. /\ Indexed(b) /\ Ledgers(b) /\ Clocks(b)
        /\ b.live = after /\ b.last_ts = ts /\ b.last_sweep = ts
    <3>1. Indexed(b)
      BY <1>0, <2>4, SweptLiveSound, BookedSound DEF Becoming
    <3>2. Ledgers(b)
      <4> HIDE DEF after
      <4> QED BY <2>4, <2>6, BookedLedgers
    <3>3. Clocks(b)
      BY <2>1, <2>4, BookedClocks
    <3>4. b.live = after /\ b.last_ts = ts /\ b.last_sweep = ts
      <4> HIDE DEF after
      <4> QED BY <2>1, <2>4, BookedFields DEF SimFields
    <3> QED BY <3>1, <3>2, <3>3, <3>4
  <2>8. Behind(b) = Behind(s)
    <3>1. Retired(s.live, after, "exact", "execution_behind") = {}
      <4> HIDE DEF after
      <4> QED BY <2>5 DEF Retired
    <3> HIDE DEF after
    <3>2. Behind(b) = Behind(t) + 0
      BY <2>4, <3>1, BookedBehind, FS_EmptySet
    <3>3. Behind(t) = Behind(s) /\ Behind(s) \in Nat
      <4>1. t.res = s.res
        BY <2>1 DEF SimFields
      <4>2. IsRow(s.res["exact"])
        BY <1>0 DEF Ledgers, Ledger, Models
      <4> QED BY <4>1, <4>2 DEF Behind, IsRow, Reasons, FillReasons
    <3> QED BY <3>2, <3>3
  <2> HIDE DEF b
  <2>9. /\ Indexed(c) /\ Ledgers(c)
        /\ \A f \in SimFields \ {"live", "by_locate"} : c[f] = b[f]
        /\ \A i \in DOMAIN c.live : \E j \in DOMAIN b.live :
             c.live[i] = b.live[j] /\ b.live[j].any_live
    BY <2>7, CompactedSound, CompactedLedgers DEF Indexed
  <2> HIDE DEF c
  <2>10. ASSUME NEW i \in DOMAIN c.live PROVE OnClock(c.live[i], c.last_sweep)
    <3>1. PICK j \in DOMAIN b.live : c.live[i] = b.live[j] /\ b.live[j].any_live
      BY <2>9
    <3>2. j \in DOMAIN s.live /\ b.live[j] = after[j]
      BY <2>7, <3>1 DEF SweptLive
    <3> HIDE DEF after
    <3>3. c.live[i] = s.live[j] /\ ts - s.live[j].entered < MaxLife
      BY <2>5, <3>1, <3>2
    <3>4. c.last_sweep = ts /\ s.live[j].entered \in Nat
      BY <1>0, <2>7, <2>9, <3>2 DEF SimFields, OnClock
    <3> QED BY <3>3, <3>4 DEF OnClock
  <2>11. Clocks(c) /\ c.last_ts = ts /\ c.last_sweep = ts /\ Behind(c) = Behind(b)
    BY <2>7, <2>9 DEF SimFields, Clocks, Behind
  <2>12. InTime(c)
    BY <2>11, QueueSimAssumption DEF InTime
  <2> QED BY <2>2, <2>3, <2>8, <2>9, <2>10, <2>11, <2>12 DEF Ticking, Good, Orderly, b, c
<1> QED BY <1>1, <1>2

LEMMA ClockedTicks ==
  ASSUME NEW s, Good(s), NEW bk, NEW ts \in Nat, s.last_ts <= ts
  PROVE  Ticking(Clocked(s, bk, ts), ts, Behind(s))
<1> DEFINE t == [s EXCEPT !.last_ts = ts]
           u == Settled(t, bk, ts)
<1>0. /\ Indexed(s) /\ Ledgers(s) /\ Clocks(s) /\ DOMAIN s = SimFields
      /\ \A i \in DOMAIN s.live : OnClock(s.live[i], s.last_sweep)
  BY DEF Good, Orderly, Ledgers
<1>1. /\ DOMAIN t = SimFields /\ \A f \in SimFields \ {"last_ts"} : t[f] = s[f]
      /\ t.last_ts = ts
  BY <1>0 DEF SimFields
<1> HIDE DEF t
<1>2. DOMAIN u = SimFields /\ \A f \in SimFields \ {"pending", "res"} : u[f] = t[f]
  BY <1>1 DEF Settled, SimFields
<1>3. Ledgers(t)
  BY <1>0, <1>1, LedgersAside DEF SimFields
<1>4. /\ Ledgers(u) /\ u.pending = {p \in t.pending : ~(p.due <= ts)}
      /\ u.res["exact"].reasons = t.res["exact"].reasons
  BY <1>3, SettledLedgers DEF Models
<1> HIDE DEF u
<1>5. /\ u.live = s.live /\ u.by_locate = s.by_locate /\ u.two_sided = s.two_sided
      /\ u.last_ts = ts /\ u.last_sweep = s.last_sweep /\ u.next_placement = s.next_placement
  BY <1>1, <1>2 DEF SimFields
<1>6. Indexed(u)
  BY <1>0, <1>2, <1>5 DEF Indexed
<1>7. Clocks(u)
  <2>1. \A p \in u.pending : p.due \in Nat /\ p.due > ts
    <3> SUFFICES ASSUME NEW p \in u.pending PROVE p.due \in Nat /\ p.due > ts
      OBVIOUS
    <3>1. p \in s.pending /\ ~(p.due <= ts)
      BY <1>1, <1>4 DEF SimFields
    <3> QED BY <1>0, <3>1 DEF Clocks
  <2>2. s.last_sweep \in Nat /\ s.last_ts \in Nat /\ s.last_sweep <= s.last_ts
        /\ s.next_placement \in Nat
    BY <1>0 DEF Clocks
  <2>3. s.last_sweep <= ts
    BY <2>2
  <2> QED BY <1>5, <2>1, <2>2, <2>3 DEF Clocks
<1>8. Good(u)
  BY <1>0, <1>4, <1>5, <1>6, <1>7 DEF Good, Orderly
<1>9. Behind(u) = Behind(s)
  BY <1>1, <1>4 DEF Behind, SimFields
<1>10. Ticking(Swept(u, ts), ts, Behind(u))
  BY <1>5, <1>8, SweptTicks
<1> QED BY <1>9, <1>10 DEF Clocked, u, t
\* Fields outside the accounts, the clocks and the index may change as they like.
LEMMA TickingAside ==
  ASSUME NEW a, NEW ts, NEW n, Ticking(a, ts, n), NEW p,
         DOMAIN p = SimFields, p.live = a.live, p.by_locate = a.by_locate, p.res = a.res,
         p.placements = a.placements, p.pending = a.pending, p.last_ts = a.last_ts,
         p.last_sweep = a.last_sweep, p.two_sided \subseteq Locates, p.next_placement \in Nat
  PROVE  Ticking(p, ts, n)
<1>1. /\ Indexed(a) /\ Ledgers(a) /\ Clocks(a)
      /\ \A i \in DOMAIN a.live : OnClock(a.live[i], a.last_sweep)
  BY DEF Ticking, Good, Orderly
<1>2. Indexed(p)
  BY <1>1 DEF Indexed
<1>3. Ledgers(p)
  BY <1>1, LedgersAside
<1>4. Orderly(p)
  BY <1>1 DEF Orderly, Clocks
<1>5. InTime(p) /\ p.last_ts = ts /\ Behind(p) = n
  BY DEF Ticking, InTime, Behind
<1> QED BY <1>2, <1>3, <1>4, <1>5 DEF Ticking, Good

LEMMA TickingFields ==
  ASSUME NEW a, NEW ts, NEW n, Ticking(a, ts, n)
  PROVE  DOMAIN a = SimFields /\ a.two_sided \subseteq Locates /\ a.next_placement \in Nat
  BY DEF Ticking, Good, Indexed, Orderly, Clocks

LEMMA RefreshedTicks ==
  ASSUME NEW bk, NEW ts, NEW n, NEW a, Ticking(a, ts, n)
  PROVE  Ticking(Refreshed(a, bk), ts, n)
<1> DEFINE p == Refreshed(a, bk)
<1>1. DOMAIN a = SimFields /\ a.two_sided \subseteq Locates /\ a.next_placement \in Nat
  BY TickingFields
<1>2. CASE p = a
  BY <1>2
<1>3. CASE p # a
  <2> DEFINE u == {l \in Locates : TwoSided(bk, l)}
  <2>1. p = [a EXCEPT !.two_sided = u, !.universe_refreshed = a.last_ts]
    BY <1>3 DEF Refreshed
  <2>2. u \subseteq Locates
    OBVIOUS
  <2> HIDE DEF u, p
  <2>3. /\ DOMAIN p = SimFields /\ p.two_sided = u
        /\ \A f \in SimFields \ {"two_sided", "universe_refreshed"} : p[f] = a[f]
    BY <1>1, <2>1 DEF SimFields
  <2>4. /\ p.live = a.live /\ p.by_locate = a.by_locate /\ p.res = a.res
        /\ p.placements = a.placements /\ p.pending = a.pending /\ p.last_ts = a.last_ts
        /\ p.last_sweep = a.last_sweep /\ p.next_placement = a.next_placement
    BY <2>3 DEF SimFields
  <2> QED BY <1>1, <2>2, <2>3, <2>4, TickingAside DEF p
<1> QED BY <1>2, <1>3

LEMMA SkippedTicks ==
  ASSUME NEW ts, NEW n, NEW a, Ticking(a, ts, n)
  PROVE  Ticking(Skipped(a), ts, n)
<1> DEFINE p == Skipped(a)
<1>1. DOMAIN a = SimFields /\ a.two_sided \subseteq Locates /\ a.next_placement \in Nat
  BY TickingFields
<1>2. DOMAIN p = SimFields /\ \A f \in SimFields \ {"skipped"} : p[f] = a[f]
  BY <1>1 DEF Skipped, SimFields
<1> HIDE DEF p
<1>3. /\ p.live = a.live /\ p.by_locate = a.by_locate /\ p.res = a.res
      /\ p.placements = a.placements /\ p.pending = a.pending /\ p.last_ts = a.last_ts
      /\ p.last_sweep = a.last_sweep /\ p.next_placement = a.next_placement
      /\ p.two_sided = a.two_sided
  BY <1>2 DEF SimFields
<1> QED BY <1>1, <1>2, <1>3, TickingAside DEF p

LEMMA PlacedTicks ==
  ASSUME NEW ts \in Nat, NEW n, NEW a, Ticking(a, ts, n), NEW bk, NEW l \in Locates,
         NEW side \in Sides
  PROVE  Ticking(PlacedAt(a, bk, l, side, ts), ts, n)
<1>1. CASE ~TwoSided(bk, l)
  BY <1>1, SkippedTicks DEF PlacedAt
<1>2. CASE TwoSided(bk, l)
  <2> DEFINE p == PlacedAt(a, bk, l, side, ts)
             o == NewOrder(a.placements, bk, l, side, ts)
             k == Len(a.live)
  <2>1. /\ Indexed(a) /\ Ledgers(a) /\ Clocks(a) /\ InTime(a) /\ a.last_ts = ts /\ Behind(a) = n
        /\ \A i \in DOMAIN a.live : OnClock(a.live[i], a.last_sweep)
        /\ IsList(a.live)
    BY DEF Ticking, Good, Orderly, Ledgers
  <2>2. HasPlaced(p, a, o, l)
    BY <1>2, <2>1, PlacedFields
  <2>3. IsNew(o, a.placements, bk, l, side, ts)
    BY NewOrderSound
  <2>4. Indexed(p)
    BY <1>2, <2>1, PlacedSound
  <2> HIDE DEF p, o, k
  <2>5. Ledgers(p)
    BY <2>1, <2>2, <2>3, PlacedLedgers
  <2>6. /\ DOMAIN p = SimFields /\ p.last_ts = a.last_ts /\ p.last_sweep = a.last_sweep
        /\ p.next_placement = a.next_placement /\ p.pending = a.pending
        /\ p.live = Append(a.live, o)
        /\ p.res = [m \in Models |-> OneMorePlaced(a.res[m], Key(o))]
    BY <2>2 DEF HasPlaced, SimFields
  <2>7. /\ DOMAIN p.live = 1..(k + 1) /\ DOMAIN a.live = 1..k /\ k \in Nat
        /\ \A i \in 1..k : p.live[i] = a.live[i]
        /\ p.live[k + 1] = o
    BY <2>1, <2>6, ListAppends DEF IsList, k
  <2>8. OnClock(o, a.last_sweep)
    BY <2>1, <2>3 DEF IsNew, OnClock, Clocks
  <2>9. \A i \in DOMAIN p.live : OnClock(p.live[i], p.last_sweep)
    <3>1. \A i \in 1..(k + 1) : i \in 1..k \/ i = k + 1
      BY <2>7
    <3> QED BY <2>1, <2>6, <2>7, <2>8, <3>1
  <2>10. Clocks(p) /\ InTime(p) /\ p.last_ts = ts
    BY <2>1, <2>6 DEF Clocks, InTime
  <2>11. Behind(p) = Behind(a)
    <3>1. DOMAIN a.res["exact"] = {"placed", "filled", "reasons", "valued"}
      BY <2>1 DEF Ledgers, Ledger, IsRow, Models
    <3>2. p.res["exact"] = OneMorePlaced(a.res["exact"], Key(o))
      BY <2>6 DEF Models
    <3>3. OneMorePlaced(a.res["exact"], Key(o)).reasons = a.res["exact"].reasons
      BY <3>1 DEF OneMorePlaced
    <3> QED BY <3>2, <3>3 DEF Behind
  <2> QED BY <2>1, <2>4, <2>5, <2>9, <2>10, <2>11 DEF Ticking, Good, Orderly, p
<1> QED BY <1>1, <1>2

LEMMA PlacedOnceTicks ==
  ASSUME NEW ts \in Nat, NEW n, NEW a, Ticking(a, ts, n), NEW bk, NEW p \in PlacedOnce(a, bk, ts)
  PROVE  Ticking(p, ts, n)
<1>1. PICK b \in Placements(a, bk, ts), gap \in Gaps : p = [b EXCEPT !.next_placement = @ + gap]
  BY DEF PlacedOnce
<1>2. Ticking(b, ts, n)
  <2> DEFINE t == Refreshed(a, bk)
  <2>1. Ticking(t, ts, n)
    BY RefreshedTicks
  <2> HIDE DEF t
  <2>2. CASE b = Skipped(t)
    BY <2>1, <2>2, SkippedTicks
  <2>3. ASSUME NEW l \in t.two_sided, NEW side \in Sides, b = PlacedAt(t, bk, l, side, ts)
        PROVE  Ticking(b, ts, n)
    <3>1. l \in Locates
      BY <2>1, TickingFields
    <3> QED BY <2>1, <2>3, <3>1, PlacedTicks
  <2> QED BY <1>1, <2>2, <2>3 DEF Placements, t
<1>3. DOMAIN b = SimFields /\ b.two_sided \subseteq Locates /\ b.next_placement \in Nat
  BY <1>2, TickingFields
<1>4. /\ DOMAIN p = SimFields /\ p.next_placement = b.next_placement + gap
      /\ \A f \in SimFields \ {"next_placement"} : p[f] = b[f]
  BY <1>1, <1>3 DEF SimFields
<1>5. /\ p.live = b.live /\ p.by_locate = b.by_locate /\ p.res = b.res
      /\ p.placements = b.placements /\ p.pending = b.pending /\ p.last_ts = b.last_ts
      /\ p.last_sweep = b.last_sweep /\ p.two_sided = b.two_sided
  BY <1>4 DEF SimFields
<1>6. p.next_placement \in Nat
  BY <1>3, <1>4, QueueSimAssumption
<1> HIDE <1>1
<1> QED BY <1>2, <1>3, <1>4, <1>5, <1>6, TickingAside

\* The loop keeps what one placement keeps.
LEMMA LoopTicks ==
  ASSUME NEW ts \in Nat, NEW n, NEW s, Ticking(s, ts, n), NEW bk, NEW g, Turns(s, bk, ts, g)
  PROVE  \A k \in 0..CatchUpLimit : \A p \in g[k] : Ticking(p, ts, n)
<1> DEFINE Bad == {k \in 0..CatchUpLimit : \E p \in g[k] : ~Ticking(p, ts, n)}
<1> SUFFICES ASSUME Bad # {} PROVE FALSE
  OBVIOUS
<1>1. CatchUpLimit \in Nat
  BY QueueSimAssumption
<1>2. PICK k \in Bad : \A m \in Bad : k <= m
  <2> HIDE DEF Bad
  <2>1. Bad \in SUBSET Nat
    BY <1>1 DEF Bad
  <2> QED BY <2>1, LeastExists
<1>3. PICK p \in g[k] : ~Ticking(p, ts, n)
  OBVIOUS
<1>4. k # 0
  <2>1. k = 0 => g[k] = {s}
    BY <1>1 DEF Turns
  <2> QED BY <1>3, <2>1
<1>5. k - 1 \in 0..CatchUpLimit /\ ~(k <= k - 1)
  BY <1>1, <1>4
<1>6. \A q \in g[k - 1] : Ticking(q, ts, n)
  BY <1>2, <1>5
<1>7. PICK q \in g[k - 1] : p \in PlacedOnce(q, bk, ts)
  <2>1. g[k] = UNION {PlacedOnce(q, bk, ts) : q \in {x \in g[k - 1] : PlacementDue(x, ts)}}
    BY <1>4 DEF Turns
  <2> QED BY <1>3, <2>1
<1>8. Ticking(p, ts, n)
  BY <1>6, <1>7, PlacedOnceTicks
<1> QED BY <1>3, <1>8

\* tick(): the accounts are kept, the sweep is done, nothing due is left, and
\* the schedule is ahead of the clock.
LEMMA TickedTicks ==
  ASSUME NEW s, Good(s), NEW bk, NEW ts \in Nat, s.last_ts <= ts, NEW p \in Ticked(s, bk, ts)
  PROVE  Ticking(p, ts, Behind(s)) /\ Scheduled(p)
<1> DEFINE c == Clocked(s, bk, ts)
           n == Behind(s)
<1>1. Ticking(c, ts, n)
  BY ClockedTicks
<1>2. ~(ts < s.last_ts)
  BY DEF Good, Orderly, Clocks
<1>3. IF TimerPlacement THEN p \in PlacementsDone(c, bk, ts) ELSE p = c
  BY <1>2 DEF Ticked
<1> HIDE DEF c, n
<1>4. CASE ~TimerPlacement
  BY <1>1, <1>3, <1>4 DEF Scheduled, n
<1>5. CASE TimerPlacement
  <2>1. PICK g : LoopEnds(c, bk, ts, g, p)
    BY <1>3, <1>5, PlacementsDoneCases
  <2>2. \A k \in 0..CatchUpLimit : \A q \in g[k] : Ticking(q, ts, n)
    BY <1>1, <2>1, LoopTicks DEF LoopEnds
  <2>3. CASE \E k \in 0..CatchUpLimit : p \in g[k] /\ ~PlacementDue(p, ts)
    <3>1. Ticking(p, ts, n) /\ ~PlacementDue(p, ts)
      BY <2>2, <2>3
    <3>2. p.next_placement \in Nat /\ p.last_ts = ts /\ EndOfTrading \in Nat
      BY <3>1, TickingFields, QueueSimAssumption DEF Ticking
    <3>3. Scheduled(p)
      BY <3>1, <3>2 DEF PlacementDue, Scheduled
    <3> QED BY <3>1, <3>3 DEF n
  <2>4. ASSUME NEW q \in g[CatchUpLimit], NEW gap \in Gaps, p = GivenUp(q, ts, gap)
        PROVE  Ticking(p, ts, n) /\ Scheduled(p)
    <3>1. CatchUpLimit \in 0..CatchUpLimit
      BY QueueSimAssumption
    <3>2. Ticking(q, ts, n)
      BY <2>2, <3>1
    <3>3. DOMAIN q = SimFields /\ q.two_sided \subseteq Locates
      BY <3>2, TickingFields
    <3>4. /\ DOMAIN p = SimFields /\ p.next_placement = ts + gap
          /\ \A f \in SimFields \ {"next_placement", "overrun"} : p[f] = q[f]
      BY <2>4, <3>3 DEF SimFields, GivenUp
    <3>5. /\ p.live = q.live /\ p.by_locate = q.by_locate /\ p.res = q.res
          /\ p.placements = q.placements /\ p.pending = q.pending /\ p.last_ts = q.last_ts
          /\ p.last_sweep = q.last_sweep /\ p.two_sided = q.two_sided
      BY <3>4 DEF SimFields
    <3>6. gap \in Nat \ {0}
      BY QueueSimAssumption
    <3>7. Ticking(p, ts, n)
      BY <3>2, <3>3, <3>4, <3>5, <3>6, TickingAside
    <3>8. p.next_placement > p.last_ts
      BY <3>2, <3>4, <3>5, <3>6 DEF Ticking
    <3> QED BY <3>7, <3>8 DEF Scheduled
  <2> QED BY <2>1, <2>3, <2>4 DEF LoopEnds, n
<1> QED BY <1>4, <1>5
----------------------------------------------------------------------------
(* What an attribution does to the accounts and to the clocks.             *)

\* The orders an execution of m's reference fills from behind under the exact
\* model: at its level, and not behind it.
Unmet(s, m) ==
  {i \in DOMAIN s.live : /\ m.type = "E" /\ s.live[i].any_live /\ Live(s.live[i], "exact")
                         /\ AtLevel(s.live[i], resting[m.ref])
                         /\ m.ref \notin s.live[i].ahead_refs}

LEMMA ExecutionBehind ==
  ASSUME NEW o, IsOrder(o), NEW ref, NEW resolved, NEW qty, o.locate = resolved.locate,
         NEW p, p = AfterExecution(o, ref, resolved, qty),
         Live(o, "exact"), ~Live(p, "exact"), p.models["exact"].reason = "execution_behind"
  PROVE  o.any_live /\ AtLevel(o, resolved) /\ ref \notin o.ahead_refs
<1>0. "exact" \in Models
  BY DEF Models
<1>1. p # o
  OBVIOUS
<1>2. p # FilledUnderAll(o, "trade_through")
  <2>1. FilledUnderAll(o, "trade_through").models["exact"].reason = "trade_through"
    BY <1>0, FilledSound
  <2> QED BY <2>1
<1>3. /\ o.any_live /\ o.side = resolved.side /\ resolved.price = o.price
      /\ p = ExecutedAt(o, ref, resolved, qty)
  BY <1>1, <1>2, AfterExecutionCases
<1>4. p.models = ModelsAfterExecution(o, ref, qty)
  BY <1>3, ModelsAfterExecutionSound, RemodelledSound DEF ExecutedAt
<1>5. ModelsAfterExecution(o, ref, qty)["exact"].live <=> ref \in o.ahead_refs
  BY <1>0, ExecutedReasons
<1>6. ref \notin o.ahead_refs
  BY <1>4, <1>5 DEF Live
<1> QED BY <1>3, <1>6 DEF AtLevel

\* The executions from behind that an attribution adds to those of s.
Attribution(t, s, m) ==
  /\ Good(t) /\ t.last_ts = s.last_ts
  /\ \E F \in SUBSET Unmet(s, m) : Behind(t) = Behind(s) + Cardinality(F)

LEMMA NoneBehind ==
  ASSUME NEW s, Good(s), NEW t, Good(t), t.last_ts = s.last_ts, Behind(t) = Behind(s), NEW m
  PROVE  Attribution(t, s, m)
<1>1. Behind(s) \in Nat
  BY DEF Good, Ledgers, Ledger, IsRow, Behind, Models, Reasons, FillReasons
<1>2. Cardinality({}) = 0 /\ {} \in SUBSET Unmet(s, m)
  BY FS_EmptySet
<1>3. Behind(t) = Behind(s) + Cardinality({})
  BY <1>1, <1>2
<1> QED BY <1>2, <1>3 DEF Attribution

LEMMA OnExecutionGood ==
  ASSUME NEW s, Good(s), NEW m, m.type = "E", resting[m.ref].locate \in Locates,
         NEW ts \in Nat, s.last_ts <= ts
  PROVE  Attribution(OnExecution(s, m.ref, resting[m.ref], m.qty, ts), s, m)
<1> DEFINE l == resting[m.ref].locate
           after == [i \in DOMAIN s.live |->
                       IF i \in AtLocate(s, l)
                       THEN AfterExecution(s.live[i], m.ref, resting[m.ref], m.qty)
                       ELSE s.live[i]]
           F == Retired(s.live, after, "exact", "execution_behind")
           t == Booked(s, after, ts)
<1>0. Indexed(s) /\ Ledgers(s)
  BY DEF Good
<1>1. AtLocate(s, l) = {i \in DOMAIN s.live : s.live[i].locate = l}
  BY <1>0, AtLocateIsExact
<1>2. ASSUME NEW i \in DOMAIN s.live
      PROVE  /\ Passes(after[i], s.live[i])
             /\ i \in F => i \in Unmet(s, m)
  <2>1. IsOrder(s.live[i]) /\ Consistent(s.live[i])
    BY <1>0 DEF Ledgers
  <2>2. CASE s.live[i].locate = l
    <3>1. after[i] = AfterExecution(s.live[i], m.ref, resting[m.ref], m.qty)
      BY <1>1, <2>2
    <3>2. i \in F => /\ Live(s.live[i], "exact") /\ ~Live(after[i], "exact")
                     /\ after[i].models["exact"].reason = "execution_behind"
      BY DEF Retired
    <3> HIDE DEF after, F
    <3>3. Passes(after[i], s.live[i])
      BY <2>1, <3>1, ExecutionPasses
    <3>4. ASSUME i \in F PROVE i \in Unmet(s, m)
      <4>1. /\ s.live[i].any_live /\ AtLevel(s.live[i], resting[m.ref])
            /\ m.ref \notin s.live[i].ahead_refs
        BY <2>1, <2>2, <3>1, <3>2, <3>4, ExecutionBehind
      <4> QED BY <3>2, <3>4, <4>1 DEF Unmet
    <3> QED BY <3>3, <3>4
  <2>3. CASE s.live[i].locate # l
    <3>1. after[i] = s.live[i]
      BY <1>1, <2>3
    <3>2. i \in F => Live(s.live[i], "exact") /\ ~Live(after[i], "exact")
      BY DEF Retired
    <3> HIDE DEF after, F
    <3> QED BY <2>1, <3>1, <3>2, SamePasses
  <2> QED BY <2>2, <2>3
<1>3. after = [i \in DOMAIN s.live |-> after[i]]
  OBVIOUS
<1>4. OnExecution(s, m.ref, resting[m.ref], m.qty, ts) = t
  BY DEF OnExecution
<1>5. F \subseteq DOMAIN s.live
  BY DEF Retired
<1>6. Behind(t) = Behind(s) + Cardinality(F)
  BY <1>0, BookedBehind
<1> HIDE DEF after, F
<1>7. Onward(after, s.live)
  BY <1>2, <1>3 DEF Onward
<1>8. Good(t) /\ t.last_ts = s.last_ts
  BY <1>7, BookedGood
<1>9. F \in SUBSET Unmet(s, m)
  BY <1>2, <1>5
<1> QED BY <1>4, <1>6, <1>8, <1>9 DEF Attribution

LEMMA OnPrintGood ==
  ASSUME NEW s, Good(s), NEW m, NEW l, NEW price, NEW ts \in Nat, s.last_ts <= ts
  PROVE  Attribution(OnPrint(s, l, price, ts), s, m)
<1>1. CASE ~rule4
  BY <1>1, NoneBehind DEF OnPrint
<1>2. CASE rule4
  <2> DEFINE after == [i \in DOMAIN s.live |->
                         IF i \in AtLocate(s, l)
                         THEN AfterPrint(s.live[i], price) ELSE s.live[i]]
             F == Retired(s.live, after, "exact", "execution_behind")
             t == Booked(s, after, ts)
  <2>0. Ledgers(s) /\ "exact" \in Models
    BY DEF Good, Models
  <2>1. ASSUME NEW i \in DOMAIN s.live
        PROVE  Passes(after[i], s.live[i]) /\ i \notin F
    <3>1. IsOrder(s.live[i]) /\ Consistent(s.live[i])
      BY <2>0 DEF Ledgers
    <3>2. after[i] = s.live[i] \/ after[i] = FilledUnderAll(s.live[i], "non_displayed_print")
      BY DEF AfterPrint
    <3>3. i \in F => /\ Live(s.live[i], "exact") /\ ~Live(after[i], "exact")
                     /\ after[i].models["exact"].reason = "execution_behind"
      BY DEF Retired
    <3> HIDE DEF after, F
    <3>4. Passes(after[i], s.live[i])
      BY <3>1, <3>2, SamePasses, FilledPasses DEF Reasons, FillReasons
    <3>5. Live(s.live[i], "exact") =>
            FilledUnderAll(s.live[i], "non_displayed_print").models["exact"].reason
              = "non_displayed_print"
      BY <2>0, <3>1, FilledSound
    <3>6. i \notin F
      BY <3>2, <3>3, <3>5
    <3> QED BY <3>4, <3>6
  <2>2. after = [i \in DOMAIN s.live |-> after[i]]
    OBVIOUS
  <2>3. OnPrint(s, l, price, ts) = t
    BY <1>2 DEF OnPrint
  <2>4. F \subseteq DOMAIN s.live
    BY DEF Retired
  <2>5. Behind(t) = Behind(s) + Cardinality(F)
    BY <2>0, BookedBehind
  <2> HIDE DEF after, F
  <2>6. Onward(after, s.live)
    BY <2>1, <2>2 DEF Onward
  <2>7. Good(t) /\ t.last_ts = s.last_ts
    BY <2>6, BookedGood
  <2>8. F = {}
    BY <2>1, <2>4
  <2>9. F \in SUBSET Unmet(s, m)
    BY <2>8
  <2> QED BY <2>3, <2>5, <2>7, <2>9 DEF Attribution
<1> QED BY <1>1, <1>2
LEMMA OnCancelGood ==
  ASSUME NEW s, Good(s), NEW m, NEW bk, NEW ref, NEW resolved, NEW qty,
         NEW t \in OnCancel(s, bk, ref, resolved, qty), Indexed(t)
  PROVE  Attribution(t, s, m)
<1> DEFINE C(i) == AfterCancel(bk, s.live[i], ref, resolved, qty)
<1>0. Ledgers(s) /\ Clocks(s) /\ \A i \in DOMAIN s.live : OnClock(s.live[i], s.last_sweep)
  BY DEF Good, Orderly
<1>1. PICK a \in [DOMAIN s.live -> UNION {C(i) : i \in DOMAIN s.live}] :
        /\ \A i \in DOMAIN s.live : a[i] \in C(i)
        /\ t = [s EXCEPT !.live = a]
  <2> DEFINE D == [DOMAIN s.live -> UNION {C(i) : i \in DOMAIN s.live}]
  <2>1. OnCancel(s, bk, ref, resolved, qty) =
          {[s EXCEPT !.live = after] : after \in {a \in D : \A i \in DOMAIN s.live : a[i] \in C(i)}}
    BY DEF OnCancel
  <2> HIDE DEF C, D
  <2>2. PICK a \in D : (\A i \in DOMAIN s.live : a[i] \in C(i)) /\ t = [s EXCEPT !.live = a]
    BY <2>1
  <2> QED BY <2>2 DEF D
<1>2. /\ DOMAIN t = SimFields /\ t.live = a /\ t.res = s.res /\ t.placements = s.placements
      /\ t.pending = s.pending /\ t.last_ts = s.last_ts /\ t.last_sweep = s.last_sweep
      /\ t.next_placement = s.next_placement
  BY <1>0, <1>1 DEF Ledgers, SimFields
<1>3. a = [i \in DOMAIN s.live |-> a[i]]
  <2> DEFINE R == UNION {C(i) : i \in DOMAIN s.live}
  <2>1. a \in [DOMAIN s.live -> R]
    BY <1>1
  <2> HIDE DEF R
  <2> QED BY <2>1
<1>4. ASSUME NEW i \in DOMAIN s.live
      PROVE  /\ Becoming(a[i], s.live[i]) /\ Consistent(a[i])
             /\ \A k \in Models : Live(a[i], k) <=> Live(s.live[i], k)
             /\ OnClock(a[i], s.last_sweep)
  <2>1. a[i] \in AfterCancel(bk, s.live[i], ref, resolved, qty)
    BY <1>1
  <2>2. IsOrder(s.live[i]) /\ Consistent(s.live[i]) /\ OnClock(s.live[i], s.last_sweep)
    BY <1>0 DEF Ledgers
  <2> HIDE DEF C
  <2>3. /\ Becoming(a[i], s.live[i]) /\ Consistent(a[i])
        /\ \A k \in Models : Live(a[i], k) <=> Live(s.live[i], k)
    BY <2>1, <2>2, CancelSteady
  <2>4. a[i].any_live <=> s.live[i].any_live
    BY <2>1, <2>2, AfterCancelSound
  <2>5. OnClock(a[i], s.last_sweep)
    BY <2>2, <2>3, <2>4 DEF OnClock, Becoming, SameOrder
  <2> QED BY <2>3, <2>5
<1> HIDE DEF C
<1>5. t.live = [i \in DOMAIN s.live |-> t.live[i]]
  BY <1>2, <1>3
<1>6. Ledgers(t)
  BY <1>0, <1>2, <1>4, <1>5, LedgersSteady
<1>7. \A i \in DOMAIN t.live : OnClock(t.live[i], t.last_sweep)
  BY <1>2, <1>3, <1>4
<1>8. Clocks(t)
  BY <1>0, <1>2 DEF Clocks
<1>9. Good(t) /\ Behind(t) = Behind(s)
  BY <1>2, <1>6, <1>7, <1>8 DEF Good, Orderly, Behind
<1> QED BY <1>2, <1>9, NoneBehind

LEMMA AttributedGood ==
  ASSUME FeedOK, NEW s, Good(s), NEW m, Effect(m), m.type # "H", NEW bk, NEW ts \in Nat,
         s.last_ts <= ts, NEW t \in Attributed(s, m, bk, ts)
  PROVE  Attribution(t, s, m)
<1>0. Indexed(t)
  BY AttributedSound DEF Good, HandOK
<1>1. CASE m.type = "E"
  <2>1. resting[m.ref].locate \in Locates
    BY <1>1 DEF Effect, FeedOK, Order
  <2>2. t = OnExecution(s, m.ref, resting[m.ref], m.qty, ts)
    BY <1>1 DEF Attributed
  <2> QED BY <1>1, <2>1, <2>2, OnExecutionGood
<1>2. CASE m.type \in {"X", "D", "U"}
  <2>1. \E qty : t \in OnCancel(s, bk, m.ref, resting[m.ref], qty)
    BY <1>2 DEF Attributed
  <2> QED BY <1>0, <2>1, OnCancelGood
<1>3. CASE m.type = "P"
  <2>1. t = OnPrint(s, m.locate, m.price, ts)
    BY <1>3 DEF Attributed
  <2> QED BY <2>1, OnPrintGood
<1>4. CASE m.type \in {"A", "B"}
  <2>1. t = s
    BY <1>4 DEF Attributed
  <2> QED BY <2>1, NoneBehind
<1> QED BY <1>1, <1>2, <1>3, <1>4 DEF Effect

\* What holds after every message.
InOrder(s) == Ledgers(s) /\ Orderly(s) /\ InTime(s) /\ Scheduled(s)

\* The handler leaves the accounts right and no timer behind, and the exact
\* model was filled from behind only where the executed order was not counted.
LEMMA HandledGood ==
  ASSUME FeedOK, NEW s, Indexed(s), InOrder(s), NEW m, Effect(m), NEW bk, NEW ts \in Nat,
         s.last_ts <= ts, NEW p \in Handled(s, m, bk, ts)
  PROVE  /\ InOrder(p) /\ p.last_ts <= ts
         /\ \E F \in SUBSET Unmet(s, m) : Behind(p) = Behind(s) + Cardinality(F)
<1>0. Good(s)
  BY DEF Good, InOrder
<1>1. CASE m.type = "H"
  <2>1. p = s
    BY <1>1 DEF Handled
  <2> QED BY <1>0, <2>1, NoneBehind DEF Attribution, InOrder
<1>2. CASE m.type # "H"
  <2>1. PICK t \in Attributed(s, m, bk, ts) : p \in Ticked(t, bk, ts)
    BY <1>2 DEF Handled
  <2>2. Attribution(t, s, m)
    BY <1>0, <1>2, AttributedGood
  <2>3. Good(t) /\ t.last_ts <= ts
    BY <2>2 DEF Attribution
  <2>4. Ticking(p, ts, Behind(t)) /\ Scheduled(p)
    BY <2>1, <2>3, TickedTicks
  <2>5. InOrder(p) /\ p.last_ts <= ts
    BY <2>4 DEF Ticking, Good, InOrder
  <2> QED BY <2>2, <2>4, <2>5 DEF Attribution, Ticking
<1> QED BY <1>1, <1>2
----------------------------------------------------------------------------
(* The accounts and the timers, from the first message to the last.        *)

LEMMA TotalOfZeros ==
  ASSUME NEW f, NEW S, IsFiniteSet(S), \A x \in S : f[x] = 0
  PROVE  Total(f, S) = 0
<1> DEFINE C == {s \in SUBSET S : Total(f, s) # 0}
<1> SUFFICES ASSUME C # {} PROVE FALSE
  OBVIOUS
<1>1. PICK s \in C : \A t \in C : Cardinality(s) <= Cardinality(t)
  <2>1. \A s \in C : IsFiniteSet(s)
    BY FS_Subset
  <2> HIDE DEF C
  <2> QED BY <2>1, SmallestExists
<1>2. s \in SUBSET S /\ IsFiniteSet(s) /\ Total(f, s) # 0
  BY FS_Subset
<1>3. s # {}
  <2>1. s = {} => Total(f, s) = 0
    BY <1>2, TotalUnfolds
  <2> QED BY <1>2, <2>1
<1>4. OneOf(s) \in s /\ Total(f, s) = f[OneOf(s)] + Total(f, s \ {OneOf(s)})
  BY <1>2, <1>3, OneOfIsOne, TotalUnfolds
<1>5. ~(Cardinality(s) <= Cardinality(s \ {OneOf(s)}))
  <2>1. /\ Cardinality(s) \in Nat /\ Cardinality(s \ {OneOf(s)}) \in Nat
        /\ Cardinality(s \ {OneOf(s)}) = Cardinality(s) - 1
    BY <1>2, <1>4, OneLess
  <2> QED BY <2>1
<1>6. s \ {OneOf(s)} \notin C
  <2> HIDE DEF C
  <2> QED BY <1>1, <1>5
<1>7. Total(f, s \ {OneOf(s)}) = 0 /\ f[OneOf(s)] = 0
  BY <1>2, <1>4, <1>6
<1> QED BY <1>2, <1>4, <1>7

\* A ledger with nothing in it.
LEMMA EmptyLedger ==
  ASSUME NEW kind
  PROVE  Ledger(NoResults, 0, {}, kind, {})
<1>1. IsRow(NoResults)
  <2>1. DOMAIN NoResults = {"placed", "filled", "reasons", "valued"}
    BY DEF NoResults
  <2>2. /\ NoResults.placed = [k \in Locates \X Buckets |-> 0]
        /\ NoResults.filled = [k \in Locates \X Buckets |-> 0]
        /\ NoResults.reasons = [w \in Reasons |-> 0] /\ NoResults.valued = 0
    BY DEF NoResults
  <2> QED BY <2>1, <2>2 DEF IsRow, Keys
<1>2. /\ \A k \in Keys : NoResults.placed[k] = 0 /\ NoResults.filled[k] = 0
      /\ NoResults.reasons["expired"] = 0 /\ NoResults.valued = 0
  BY DEF NoResults, Keys, Reasons
<1>3. Total(NoResults.placed, Keys) = 0 /\ Total(NoResults.filled, Keys) = 0
  BY <1>2, KeysFinite, TotalOfZeros
<1>4. IsFiniteSet({}) /\ Cardinality({}) = 0
  BY FS_EmptySet
<1>5. \A k \in Keys : OfKind({}, kind, k) = {}
  BY DEF OfKind
<1>6. Cardinality(Horizons) \in Nat
  BY KeysFinite
<1>7. \A k \in Keys :
        NoResults.filled[k] + Cardinality(OfKind({}, kind, k)) <= NoResults.placed[k]
  BY <1>2, <1>4, <1>5
<1>8. NoResults.valued + Cardinality({}) <= Cardinality(Horizons) * Total(NoResults.filled, Keys)
  BY <1>2, <1>3, <1>4, <1>6
<1>9. 0 = Total(NoResults.filled, Keys) + NoResults.reasons["expired"] + Cardinality({})
  BY <1>2, <1>3, <1>4
<1> QED BY <1>1, <1>3, <1>4, <1>7, <1>8, <1>9 DEF Ledger

LEMMA NewSimulatorGood == Good(NewSimulator) /\ NewSimulator.last_ts = 0
<1> DEFINE s == NewSimulator
<1>1. /\ DOMAIN s = SimFields /\ s.live = <<>> /\ s.placements = 0 /\ s.pending = {}
      /\ s.last_ts = 0 /\ s.last_sweep = 0 /\ s.next_placement = StartOfTrading
      /\ s.res = [m \in Models |-> NoResults]
  BY DEF NewSimulator, SimFields
<1>2. Indexed(s)
  BY NewSimulatorIndexed
<1> HIDE DEF s
<1>3. IsList(s.live) /\ DOMAIN s.live = {}
  BY <1>1, NothingIsListed
<1>4. \A m \in Models : Playing(s.live, m) = {} /\ PendingOf(s.pending, m) = {}
  BY <1>1, <1>3 DEF Playing, PendingOf
<1>5. Ledgers(s)
  <2>1. Ledger(NoResults, 0, {}, Kinds(s.live), {})
    BY EmptyLedger
  <2>2. ASSUME NEW m \in Models
        PROVE  Ledger(s.res[m], s.placements, Playing(s.live, m), Kinds(s.live),
                      PendingOf(s.pending, m))
    <3>1. /\ s.res[m] = NoResults /\ s.placements = 0 /\ Playing(s.live, m) = {}
          /\ PendingOf(s.pending, m) = {}
      BY <1>1, <1>4
    <3> QED BY <2>1, <3>1
  <2>3. s.placements \in Nat /\ \A i \in DOMAIN s.live : IsOrder(s.live[i]) /\ Consistent(s.live[i])
    BY <1>1, <1>3
  <2> QED BY <1>1, <1>3, <2>2, <2>3 DEF Ledgers
<1>6. Orderly(s)
  BY <1>1, <1>3, QueueSimAssumption DEF Orderly, Clocks
<1> QED BY <1>1, <1>2, <1>5, <1>6 DEF Good, s

\* finish(): every order in play expires and is forgotten.
LEMMA FinishedInOrder ==
  ASSUME NEW s, Indexed(s), InOrder(s), NEW ts \in Nat, s.last_ts <= ts,
         NEW p, p = [Booked(s, [i \in DOMAIN s.live |->
                                  IF s.live[i].any_live THEN Expired(s.live[i])
                                  ELSE s.live[i]], ts)
                     EXCEPT !.live = <<>>, !.finished = TRUE]
  PROVE  InOrder(p) /\ p.last_ts = s.last_ts /\ Behind(p) = Behind(s)
<1> DEFINE after == [i \in DOMAIN s.live |->
                       IF s.live[i].any_live THEN Expired(s.live[i]) ELSE s.live[i]]
           F == Retired(s.live, after, "exact", "execution_behind")
           b == Booked(s, after, ts)
<1>0. Good(s) /\ Ledgers(s) /\ DOMAIN s = SimFields /\ "exact" \in Models
  BY DEF Good, InOrder, Ledgers, Models
<1>1. ASSUME NEW i \in DOMAIN s.live
      PROVE  /\ Passes(after[i], s.live[i]) /\ i \notin F
             /\ \A m \in Models : ~Live(after[i], m)
  <2>1. IsOrder(s.live[i]) /\ Consistent(s.live[i])
    BY <1>0 DEF Ledgers
  <2>2. i \in F => /\ Live(s.live[i], "exact") /\ ~Live(after[i], "exact")
                   /\ after[i].models["exact"].reason = "execution_behind"
    BY DEF Retired
  <2>3. after[i] = IF s.live[i].any_live THEN Expired(s.live[i]) ELSE s.live[i]
    OBVIOUS
  <2> HIDE DEF after, F
  <2>4. CASE s.live[i].any_live
    <3>1. after[i] = FilledUnderAll(s.live[i], "expired")
      BY <2>3, <2>4 DEF Expired
    <3>2. /\ \A m \in Models : ~Live(after[i], m)
          /\ Live(s.live[i], "exact") => after[i].models["exact"].reason = "expired"
      BY <1>0, <2>1, <3>1, FilledSound
    <3>3. Passes(after[i], s.live[i])
      BY <2>1, <2>3, <2>4, ExpiredPasses
    <3> QED BY <2>2, <3>2, <3>3
  <2>5. CASE ~s.live[i].any_live
    <3>1. after[i] = s.live[i] /\ \A m \in Models : ~Live(s.live[i], m)
      BY <2>1, <2>3, <2>5 DEF Consistent
    <3> QED BY <2>1, <2>2, <3>1, SamePasses
  <2> QED BY <2>4, <2>5
<1>2. after = [i \in DOMAIN s.live |-> after[i]] /\ F \subseteq DOMAIN s.live
  BY DEF Retired
<1>3. p = [b EXCEPT !.live = <<>>, !.finished = TRUE]
  OBVIOUS
<1>4. Behind(b) = Behind(s) + Cardinality(F)
  BY <1>0, BookedBehind
<1>5. DOMAIN b = SimFields /\ b.live = after
      /\ \A f \in SimFields \ {"live", "res", "pending"} : b[f] = s[f]
  BY <1>0, BookedFields
<1> HIDE DEF after, F, b
<1>6. Good(b)
  <2>1. Onward(after, s.live)
    BY <1>1, <1>2 DEF Onward
  <2> QED BY <1>0, <2>1, BookedGood DEF b, after
<1>7. /\ DOMAIN p = SimFields /\ p.live = <<>>
      /\ \A f \in SimFields \ {"live", "finished"} : p[f] = b[f]
  BY <1>3, <1>5 DEF SimFields
<1>8. /\ p.res = b.res /\ p.pending = b.pending /\ p.placements = b.placements
      /\ p.last_ts = s.last_ts /\ p.last_sweep = s.last_sweep
      /\ p.next_placement = s.next_placement
      /\ b.last_ts = s.last_ts /\ b.last_sweep = s.last_sweep
      /\ b.next_placement = s.next_placement
  BY <1>5, <1>7 DEF SimFields
<1>9. IsList(p.live) /\ DOMAIN p.live = {}
  BY <1>7, NothingIsListed
<1>10. \A m \in Models : Playing(p.live, m) = {} /\ Playing(b.live, m) = {}
  BY <1>1, <1>2, <1>5, <1>9 DEF Playing
<1>11. Ledgers(p)
  <2> SUFFICES ASSUME NEW m \in Models
               PROVE  Ledger(p.res[m], p.placements, {}, Kinds(p.live), PendingOf(p.pending, m))
    BY <1>6, <1>7, <1>8, <1>9, <1>10 DEF Ledgers, Good
  <2>1. Ledger(b.res[m], b.placements, {}, Kinds(b.live), PendingOf(b.pending, m))
    BY <1>6, <1>10 DEF Good, Ledgers
  <2>2. \A k : OfKind({}, Kinds(p.live), k) = OfKind({}, Kinds(b.live), k)
    BY DEF OfKind
  <2> QED BY <1>8, <2>1, <2>2 DEF Ledger
<1>12. Orderly(p)
  BY <1>6, <1>8, <1>9 DEF Good, Orderly, Clocks
<1>13. InTime(p) /\ Scheduled(p)
  BY <1>8 DEF InOrder, InTime, Scheduled
<1>14. Behind(p) = Behind(s)
  <2>1. F = {}
    BY <1>1, <1>2
  <2>2. Cardinality(F) = 0
    BY <2>1, FS_EmptySet
  <2>3. Behind(s) \in Nat
    BY <1>0 DEF Ledgers, Ledger, IsRow, Behind, Reasons, FillReasons
  <2>4. Behind(p) = Behind(b)
    BY <1>8 DEF Behind
  <2> QED BY ONLY <1>4, <2>2, <2>3, <2>4
<1> QED BY <1>8, <1>11, <1>12, <1>13, <1>14 DEF InOrder
AccountInv == OrderedInv /\ InOrder(sim) /\ sim.last_ts <= now

\* Where the venue keeps priority, the executed order is at the front of its
\* level: an order of the simulator that does not count it counts nothing.
LEMMA UnmetAreAtTheHead ==
  ASSUME OrderedInv, ~sim.finished, priority, NEW m, Effect(m), FrontRule(m)
  PROVE  Unmet(sim, m) \subseteq AtTheHead
<1> SUFFICES ASSUME NEW i \in Unmet(sim, m) PROVE i \in AtTheHead
  OBVIOUS
<1> DEFINE o == sim.live[i]
<1>1. /\ i \in DOMAIN sim.live /\ m.type = "E" /\ o.any_live /\ Live(o, "exact")
      /\ AtLevel(o, resting[m.ref]) /\ m.ref \notin o.ahead_refs
  BY DEF Unmet
<1>2. FeedOK /\ Ranked /\ ExactOK(o, resting, ahead)
  BY <1>1 DEF OrderedInv, CountInv, IndexInv
<1>3. m.ref \in DOMAIN resting /\ ahead[m.ref] = {}
  BY <1>1 DEF Effect, FrontRule
<1>4. CountedFor(o, resting, ahead)
  BY <1>1, <1>2 DEF ExactOK
<1> HIDE DEF o
<1>5. o.models["exact"].ahead = Whole(0)
  BY <1>1, <1>2, <1>3, <1>4, FrontIsCounted
<1> QED BY <1>1, <1>5 DEF AtTheHead, InPlay, o

\* What a step does to the accounts.
AccountStep ==
  /\ InOrder(sim')
  /\ sim'.last_ts <= now'
  /\ priority => \E F \in SUBSET AtTheHead : Behind(sim') = Behind(sim) + Cardinality(F)

LEMMA AccountSteps ==
  ASSUME AccountInv, [QueueSimNext]_queueVars
  PROVE  AccountStep
<1>0. /\ OrderedInv /\ IndexInv /\ FeedOK /\ InOrder(sim) /\ sim.last_ts <= now /\ now \in Nat
      /\ Behind(sim) \in Nat /\ sim.last_ts \in Nat
  <2>1. OrderedInv /\ IndexInv /\ FeedOK /\ InOrder(sim) /\ sim.last_ts <= now
    BY DEF AccountInv, OrderedInv, CountInv, IndexInv
  <2>2. now \in Nat
    BY <2>1 DEF FeedOK
  <2>3. Behind(sim) \in Nat /\ sim.last_ts \in Nat
    BY <2>1 DEF InOrder, Orderly, Clocks, Ledgers, Ledger, IsRow, Behind, Models, Reasons,
                FillReasons
  <2> QED BY <2>1, <2>2, <2>3
<1>1. ASSUME Behind(sim') = Behind(sim)
      PROVE  \E F \in SUBSET AtTheHead : Behind(sim') = Behind(sim) + Cardinality(F)
  <2>1. Cardinality({}) = 0 /\ {} \in SUBSET AtTheHead
    BY FS_EmptySet
  <2>2. Behind(sim') = Behind(sim) + Cardinality({})
    BY <1>0, <1>1, <2>1
  <2> QED BY <2>1, <2>2
<1>2. CASE UNCHANGED queueVars
  <2>1. sim' = sim /\ now' = now
    BY <1>2 DEF queueVars, simVars, feedVars
  <2> QED BY <1>0, <1>1, <2>1 DEF AccountStep
<1>3. ASSUME ~sim.finished, NEW m \in LegalMessages, NEW d \in Delays, Message(m, now + d)
      PROVE  AccountStep
  <2> DEFINE ts == now + d
  <2>1. /\ Delivered(m, ts) /\ sim' \in Handled(sim, m, resting', ts)
        /\ ts \in Nat /\ now <= ts
    <3>1. d \in Nat
      BY SessionFeedAssumption
    <3> QED BY <1>0, <1>3, <3>1 DEF Message
  <2> HIDE DEF ts
  <2>2. Effect(m)
    BY <1>0, <2>1, MessageEffect
  <2>3. FrontRule(m) /\ now' = ts
    BY <2>1 DEF Delivered, Applied, AtTheFront, FrontRule
  <2>4. Indexed(sim)
    BY <1>0, <1>3 DEF IndexInv
  <2>5. sim.last_ts <= ts
    BY <1>0, <2>1
  <2>6. /\ InOrder(sim') /\ sim'.last_ts <= ts
        /\ \E F \in SUBSET Unmet(sim, m) : Behind(sim') = Behind(sim) + Cardinality(F)
    BY <1>0, <2>1, <2>2, <2>4, <2>5, HandledGood
  <2>7. priority => Unmet(sim, m) \subseteq AtTheHead
    BY <1>0, <1>3, <2>2, <2>3, UnmetAreAtTheHead
  <2> QED BY <2>3, <2>6, <2>7 DEF AccountStep
<1>4. CASE Finish
  <2>1. Indexed(sim)
    BY <1>0, <1>4 DEF Finish, IndexInv
  <2>2. InOrder(sim') /\ sim'.last_ts = sim.last_ts /\ Behind(sim') = Behind(sim)
    BY <1>0, <1>4, <2>1, FinishedInOrder DEF Finish
  <2>3. now' = now
    BY <1>4 DEF Finish, feedVars
  <2> QED BY <1>0, <1>1, <2>2, <2>3 DEF AccountStep
<1> QED BY <1>2, <1>3, <1>4 DEF QueueSimNext

LEMMA AccountInvariant == QueueSimSpec => []AccountInv
<1>1. QueueSimInit /\ OrderedInv => AccountInv
  <2> SUFFICES ASSUME QueueSimInit, OrderedInv PROVE AccountInv
    OBVIOUS
  <2>1. now = 0 /\ sim \in Ticked(NewSimulator, resting, now)
    BY DEF QueueSimInit, FeedInit
  <2>2. Ticking(sim, 0, Behind(NewSimulator)) /\ Scheduled(sim)
    BY <2>1, NewSimulatorGood, TickedTicks
  <2> QED BY <2>1, <2>2 DEF AccountInv, InOrder, Ticking, Good
<1>2. AccountInv /\ OrderedInv' /\ [QueueSimNext]_queueVars => AccountInv'
  BY AccountSteps DEF AccountInv, AccountStep
<1> QED BY <1>1, <1>2, OrderedInvariant, PTL DEF QueueSimSpec

\* Every placement is accounted for once under every model, in its own symbol
\* and depth bucket, every fill is valued at most once at each horizon, and after
\* every message no order, fill or placement is left behind its time, whether a
\* fill, a sweep or the end of the session gets to it first.
THEOREM OrdersResolved == QueueSimSpec => []OrdersAreResolvedInTime
<1>1. AccountInv => PlacementsReconcile
  <2> SUFFICES ASSUME AccountInv, NEW m \in Models
               PROVE  LET r == sim.res[m] IN
                 /\ Count(r.placed) = sim.placements
                 /\ Count(r.placed) = Count(r.filled) + r.reasons["expired"]
                                      + Cardinality({i \in DOMAIN sim.live : Live(sim.live[i], m)})
                 /\ \A k \in DOMAIN r.placed :
                      r.filled[k] + Cardinality(Unresolved(m, k)) <= r.placed[k]
                 /\ r.valued + Cardinality({p \in sim.pending : p.model = m})
                      <= Cardinality(Horizons) * Count(r.filled)
    BY DEF PlacementsReconcile
  <2> DEFINE r == sim.res[m]
             P == Playing(sim.live, m)
  <2>1. Ledger(r, sim.placements, P, Kinds(sim.live), PendingOf(sim.pending, m))
    BY DEF AccountInv, InOrder, Ledgers
  <2>2. IsRow(r)
    BY <2>1 DEF Ledger
  <2>3. DOMAIN r.placed = Keys /\ DOMAIN r.filled = Keys
    BY <2>2 DEF IsRow
  <2>4. \A k : Unresolved(m, k) = OfKind(P, Kinds(sim.live), k)
    BY DEF Unresolved, OfKind, Playing, Kinds
  <2>5. /\ P = {i \in DOMAIN sim.live : Live(sim.live[i], m)}
        /\ PendingOf(sim.pending, m) = {p \in sim.pending : p.model = m}
    BY DEF Playing, PendingOf
  <2> HIDE DEF r, P
  <2>6. Count(r.placed) = Total(r.placed, Keys) /\ Count(r.filled) = Total(r.filled, Keys)
    BY <2>3, KeysFinite, CountIsTotal
  <2>7. Count(r.placed) = sim.placements
    BY <2>1, <2>6 DEF Ledger
  <2>8. Count(r.placed) = Count(r.filled) + r.reasons["expired"] + Cardinality(P)
    BY <2>1, <2>6 DEF Ledger
  <2>9. \A k \in DOMAIN r.placed : r.filled[k] + Cardinality(Unresolved(m, k)) <= r.placed[k]
    BY <2>1, <2>3, <2>4 DEF Ledger
  <2>10. r.valued + Cardinality(PendingOf(sim.pending, m))
           <= Cardinality(Horizons) * Count(r.filled)
    BY <2>1, <2>6 DEF Ledger
  <2> QED BY <2>5, <2>7, <2>8, <2>9, <2>10 DEF r
<1>2. AccountInv => TimersKeepUp
  <2> SUFFICES ASSUME AccountInv PROVE TimersKeepUp
    OBVIOUS
  <2>1. Clocks(sim) /\ InTime(sim) /\ Scheduled(sim)
        /\ \A i \in DOMAIN sim.live : OnClock(sim.live[i], sim.last_sweep)
    BY DEF AccountInv, InOrder, Orderly
  <2>2. MaxLife \in Nat /\ SweepEvery \in Nat \ {0}
    BY QueueSimAssumption
  <2>3. ASSUME NEW i \in InPlay
        PROVE  sim.last_ts - sim.live[i].entered < MaxLife + SweepEvery
    <3> DEFINE e == sim.live[i].entered
               w == sim.last_sweep
               t == sim.last_ts
    <3>1. e \in Nat /\ (w - e < MaxLife \/ e >= w)
      BY <2>1 DEF InPlay, OnClock
    <3>2. t \in Nat /\ w \in Nat /\ w <= t /\ t - w < SweepEvery
      BY <2>1 DEF Clocks, InTime
    <3> HIDE DEF e, w, t
    <3>3. t - e < MaxLife + SweepEvery
      BY ONLY <2>2, <3>1, <3>2
    <3> QED BY <3>3 DEF e, t
  <2>4. \A p \in sim.pending : p.due > sim.last_ts
    BY <2>1 DEF Clocks
  <2> QED BY <2>1, <2>3, <2>4 DEF TimersKeepUp, Scheduled
<1> QED BY <1>1, <1>2, AccountInvariant, PTL DEF OrdersAreResolvedInTime

\* Where the venue keeps price-time priority, an execution fills the exact model
\* only where it has nothing ahead: at most as many fills as orders at the head.
THEOREM FillsAtTheFront == QueueSimSpec => ExactFillsAtTheFront
<1>1. AccountInv /\ [QueueSimNext]_queueVars =>
        [priority =>
          sim'.res["exact"].reasons["execution_behind"]
            <= sim.res["exact"].reasons["execution_behind"] + Cardinality(AtTheHead)]_queueVars
  <2> SUFFICES ASSUME AccountInv, [QueueSimNext]_queueVars, priority
               PROVE  Behind(sim') <= Behind(sim) + Cardinality(AtTheHead)
    BY DEF Behind
  <2>1. PICK F \in SUBSET AtTheHead : Behind(sim') = Behind(sim) + Cardinality(F)
    BY AccountSteps DEF AccountStep
  <2>2. InOrder(sim) /\ Ledgers(sim) /\ IsList(sim.live)
    BY DEF AccountInv, InOrder, Ledgers
  <2>3. IsFiniteSet(AtTheHead)
    <3>1. IsFiniteSet(Playing(sim.live, "exact"))
      BY <2>2, PlayingFinite
    <3>2. AtTheHead \subseteq Playing(sim.live, "exact")
      BY DEF AtTheHead, InPlay, Playing
    <3> QED BY <3>1, <3>2, FS_Subset
  <2>4. /\ Cardinality(F) \in Nat /\ Cardinality(AtTheHead) \in Nat
        /\ Cardinality(F) <= Cardinality(AtTheHead)
    BY <2>3, FS_Subset, FS_CardinalityType
  <2>5. Behind(sim) \in Nat
    BY <2>2 DEF Ledgers, Ledger, IsRow, Behind, Models, Reasons, FillReasons
  <2> QED BY ONLY <2>1, <2>4, <2>5
<1> QED BY <1>1, AccountInvariant, PTL DEF QueueSimSpec, ExactFillsAtTheFront

----------------------------------------------------------------------------
(* The maker and its simulator.                                            *)

\* The fills the registered model reports, and the orders in play for a symbol.
Fills(s) == Total(s.res["exact"].filled, Keys)
PlayOf(s, l) == {i \in DOMAIN s.live : s.live[i].any_live /\ s.live[i].locate = l}

LEMMA FillsAreNatural ==
  ASSUME NEW s, Ledgers(s)
  PROVE  Fills(s) \in Nat /\ IsRow(s.res["exact"])
<1>1. IsRow(s.res["exact"])
  BY DEF Ledgers, Ledger, Models
<1>2. \A k \in Keys : s.res["exact"].filled[k] \in Nat
  BY <1>1 DEF IsRow
<1>3. Fills(s) \in Nat
  BY <1>2, KeysFinite, TotalIsNat DEF Fills
<1> QED BY <1>1, <1>3

\* Booking counts just the orders the registered model fills.
LEMMA BookedFills ==
  ASSUME NEW s, Ledgers(s), NEW after, Onward(after, s.live), NEW ts
  PROVE  LET F == FilledNow(s.live, after, "exact")
         IN  /\ Fills(Booked(s, after, ts)) = Fills(s) + Cardinality(F)
             /\ F \subseteq Playing(s.live, "exact")
<1> DEFINE F == FilledNow(s.live, after, "exact")
           b == Booked(s, after, ts)
           r == s.res["exact"]
<1>0. "exact" \in Models /\ DOMAIN s = SimFields /\ IsList(s.live)
      /\ \A i \in DOMAIN s.live : IsOrder(s.live[i])
  BY DEF Models, Ledgers
<1>1. F \subseteq Playing(s.live, "exact")
  BY DEF FilledNow, Retired, Playing
<1>2. Fills(s) \in Nat /\ IsRow(r)
  BY FillsAreNatural
<1>3. CASE after = s.live
  <2>1. F = {}
    BY <1>3 DEF FilledNow, Retired
  <2>2. b = s
    BY <1>3 DEF Booked
  <2> QED BY <1>1, <1>2, <2>1, <2>2, FS_EmptySet
<1>4. CASE after # s.live
  <2>1. b.res["exact"] = Tallied(r, s.live, after, "exact")
    BY ZenonT(40), <1>0, <1>4, BookedAccounts DEF AccountsBooked
  <2> HIDE DEF b, r
  <2>2. BookedFor(r, b.res["exact"], F, Retired(s.live, after, "exact", "expired"), Kinds(s.live))
    BY <1>0, <1>2, <2>1, TalliedSound
  <2> HIDE DEF F
  <2>3. Fibred(r.filled, b.res["exact"].filled, Keys, F, Kinds(s.live))
    BY <2>2 DEF BookedFor
  <2>4. IsFiniteSet(F)
    BY <1>0, <1>1, PlayingFinite, FS_Subset
  <2>5. \A i \in F : Kinds(s.live)[i] \in Keys
    BY <1>0, <1>1, KindIsKey DEF Playing
  <2>6. \A k \in Keys : r.filled[k] \in Nat
    BY <1>2 DEF IsRow
  <2>7. Total(b.res["exact"].filled, Keys) = Total(r.filled, Keys) + Cardinality(F)
    BY <2>3, <2>4, <2>5, <2>6, KeysFinite, FiberTotal
  <2> QED BY <1>1, <2>7 DEF Fills, b, r, F
<1> QED BY <1>3, <1>4

\* An order as a message may leave it: what the registered model loses, it fills.
Advances(p, o) ==
  /\ Passes(p, o)
  /\ Live(o, "exact") /\ ~Live(p, "exact") => p.models["exact"].reason \in FillReasons

\* What the attribution of a message of symbol l makes of the simulator.
MovesOn(t, s, l) ==
  /\ Good(t) /\ t.last_ts = s.last_ts
  /\ t.live = [i \in DOMAIN s.live |-> t.live[i]]
  /\ \A i \in DOMAIN s.live : /\ Advances(t.live[i], s.live[i])
                              /\ s.live[i].locate # l => t.live[i] = s.live[i]
  /\ t.placements = s.placements /\ t.skipped = s.skipped
  /\ Fills(t) = Fills(s) + Cardinality(FilledNow(s.live, t.live, "exact"))

LEMMA BookedMoves ==
  ASSUME NEW s, Good(s), NEW l, NEW after, NEW ts \in Nat, s.last_ts <= ts,
         after = [i \in DOMAIN s.live |-> after[i]],
         \A i \in DOMAIN s.live : /\ Advances(after[i], s.live[i])
                                  /\ s.live[i].locate # l => after[i] = s.live[i]
  PROVE  MovesOn(Booked(s, after, ts), s, l)
<1> DEFINE b == Booked(s, after, ts)
<1>1. Ledgers(s) /\ DOMAIN s = SimFields
  BY DEF Good, Ledgers
<1>2. Onward(after, s.live)
  BY DEF Onward, Advances
<1>3. Good(b) /\ b.last_ts = s.last_ts
  BY <1>2, BookedGood
<1>4. b.live = after /\ b.placements = s.placements /\ b.skipped = s.skipped
  BY <1>1, BookedFields DEF SimFields
<1>5. Fills(b) = Fills(s) + Cardinality(FilledNow(s.live, after, "exact"))
  BY <1>1, <1>2, BookedFills
<1> HIDE DEF b
<1> QED BY <1>3, <1>4, <1>5 DEF MovesOn, b

LEMMA ExecutionAdvances ==
  ASSUME NEW o, IsOrder(o), Consistent(o), NEW ref, NEW resolved, NEW qty
  PROVE  Advances(AfterExecution(o, ref, resolved, qty), o)
<1> DEFINE p == AfterExecution(o, ref, resolved, qty)
<1>0. "exact" \in Models /\ {"execution_behind", "trade_through"} \subseteq FillReasons
  BY DEF Models, FillReasons
<1>1. Passes(p, o)
  BY ExecutionPasses
<1>2. \/ p = o \/ p = FilledUnderAll(o, "trade_through")
      \/ p = ExecutedAt(o, ref, resolved, qty)
  BY AfterExecutionCases
<1> HIDE DEF p
<1>3. ASSUME p = o PROVE Advances(p, o)
  BY <1>1, <1>3 DEF Advances
<1>4. ASSUME p = FilledUnderAll(o, "trade_through") PROVE Advances(p, o)
  <2>1. Live(o, "exact") => FilledUnderAll(o, "trade_through").models["exact"].reason = "trade_through"
    BY <1>0, FilledSound
  <2> QED BY <1>0, <1>1, <1>4, <2>1 DEF Advances
<1>5. ASSUME p = ExecutedAt(o, ref, resolved, qty) PROVE Advances(p, o)
  <2>1. p.models = ModelsAfterExecution(o, ref, qty)
    <3> DEFINE models == ModelsAfterExecution(o, ref, qty)
    <3>1. /\ DOMAIN models = Models
          /\ \A m \in Models : DOMAIN models[m] = {"ahead", "live", "reason"}
      BY ModelsAfterExecutionSound
    <3> HIDE DEF models
    <3>2. Judged(o, models, AheadRefsAfter(o, ref, resolved, qty)).models = models
      BY <3>1, RemodelledSound
    <3> QED BY <1>5, <3>2 DEF ExecutedAt, models
  <2>2. Live(o, "exact") /\ ~p.models["exact"].live =>
          p.models["exact"].reason = "execution_behind"
    BY <1>0, <2>1, ExecutedReasons
  <2> QED BY <1>0, <1>1, <2>2 DEF Advances, Live
<1>6. Advances(p, o)
  BY <1>2, <1>3, <1>4, <1>5
<1> QED BY <1>6 DEF p

LEMMA PrintAdvances ==
  ASSUME NEW o, IsOrder(o), Consistent(o), NEW price
  PROVE  Advances(AfterPrint(o, price), o)
<1> DEFINE p == AfterPrint(o, price)
<1>0. "exact" \in Models /\ "non_displayed_print" \in FillReasons
  BY DEF Models, FillReasons
<1>1. Passes(p, o)
  BY PrintPasses
<1>2. p = o \/ p = FilledUnderAll(o, "non_displayed_print")
  BY DEF AfterPrint
<1> HIDE DEF p
<1>3. Live(o, "exact") =>
        FilledUnderAll(o, "non_displayed_print").models["exact"].reason = "non_displayed_print"
  BY <1>0, FilledSound
<1>4. Advances(p, o)
  BY <1>0, <1>1, <1>2, <1>3 DEF Advances
<1> QED BY <1>4 DEF p

LEMMA SameAdvances ==
  ASSUME NEW o, IsOrder(o), Consistent(o)
  PROVE  Advances(o, o)
  BY SamePasses DEF Advances
\* The simulator is as it was.
LEMMA NothingMoves ==
  ASSUME NEW s, Good(s), NEW l
  PROVE  MovesOn(s, s, l)
<1>1. Ledgers(s) /\ IsList(s.live)
  BY DEF Good, Ledgers
<1>2. s.live = [i \in DOMAIN s.live |-> s.live[i]]
  BY <1>1 DEF IsList
<1>3. \A i \in DOMAIN s.live : Advances(s.live[i], s.live[i])
  BY <1>1, SameAdvances DEF Ledgers
<1>4. FilledNow(s.live, s.live, "exact") = {}
  BY DEF FilledNow, Retired
<1>5. Fills(s) = Fills(s) + Cardinality(FilledNow(s.live, s.live, "exact"))
  BY <1>1, <1>4, FillsAreNatural, FS_EmptySet
<1> QED BY <1>2, <1>3, <1>5 DEF MovesOn

LEMMA OnExecutionMoves ==
  ASSUME NEW s, Good(s), NEW m, m.type = "E", resting[m.ref].locate \in Locates,
         NEW ts \in Nat, s.last_ts <= ts
  PROVE  MovesOn(OnExecution(s, m.ref, resting[m.ref], m.qty, ts), s, resting[m.ref].locate)
<1> DEFINE l == resting[m.ref].locate
           after == [i \in DOMAIN s.live |->
                       IF i \in AtLocate(s, l)
                       THEN AfterExecution(s.live[i], m.ref, resting[m.ref], m.qty)
                       ELSE s.live[i]]
<1>0. Indexed(s) /\ Ledgers(s)
  BY DEF Good
<1>1. AtLocate(s, l) = {i \in DOMAIN s.live : s.live[i].locate = l}
  BY <1>0, AtLocateIsExact
<1>2. ASSUME NEW i \in DOMAIN s.live
      PROVE  /\ Advances(after[i], s.live[i])
             /\ s.live[i].locate # l => after[i] = s.live[i]
  <2>1. IsOrder(s.live[i]) /\ Consistent(s.live[i])
    BY <1>0 DEF Ledgers
  <2>2. CASE s.live[i].locate = l
    <3>1. after[i] = AfterExecution(s.live[i], m.ref, resting[m.ref], m.qty)
      BY <1>1, <2>2
    <3> HIDE DEF after
    <3> QED BY <2>1, <2>2, <3>1, ExecutionAdvances
  <2>3. CASE s.live[i].locate # l
    <3>1. after[i] = s.live[i]
      BY <1>1, <2>3
    <3> HIDE DEF after
    <3> QED BY <2>1, <3>1, SameAdvances
  <2> QED BY <2>2, <2>3
<1>3. after = [i \in DOMAIN s.live |-> after[i]]
  OBVIOUS
<1>4. OnExecution(s, m.ref, resting[m.ref], m.qty, ts) = Booked(s, after, ts)
  BY DEF OnExecution
<1> HIDE DEF after, l
<1>5. MovesOn(Booked(s, after, ts), s, l)
  BY <1>2, <1>3, BookedMoves
<1> QED BY <1>4, <1>5 DEF l

LEMMA OnPrintMoves ==
  ASSUME NEW s, Good(s), NEW l \in Locates, NEW price, NEW ts \in Nat, s.last_ts <= ts
  PROVE  MovesOn(OnPrint(s, l, price, ts), s, l)
<1>1. CASE ~rule4
  BY <1>1, NothingMoves DEF OnPrint
<1>2. CASE rule4
  <2> DEFINE after == [i \in DOMAIN s.live |->
                         IF i \in AtLocate(s, l)
                         THEN AfterPrint(s.live[i], price) ELSE s.live[i]]
  <2>0. Indexed(s) /\ Ledgers(s)
    BY DEF Good
  <2>1. AtLocate(s, l) = {i \in DOMAIN s.live : s.live[i].locate = l}
    BY <2>0, AtLocateIsExact
  <2>2. ASSUME NEW i \in DOMAIN s.live
        PROVE  /\ Advances(after[i], s.live[i])
               /\ s.live[i].locate # l => after[i] = s.live[i]
    <3>1. IsOrder(s.live[i]) /\ Consistent(s.live[i])
      BY <2>0 DEF Ledgers
    <3>2. CASE s.live[i].locate = l
      <4>1. after[i] = AfterPrint(s.live[i], price)
        BY <2>1, <3>2
      <4> HIDE DEF after
      <4> QED BY <3>1, <3>2, <4>1, PrintAdvances
    <3>3. CASE s.live[i].locate # l
      <4>1. after[i] = s.live[i]
        BY <2>1, <3>3
      <4> HIDE DEF after
      <4> QED BY <3>1, <4>1, SameAdvances
    <3> QED BY <3>2, <3>3
  <2>3. after = [i \in DOMAIN s.live |-> after[i]]
    OBVIOUS
  <2>4. OnPrint(s, l, price, ts) = Booked(s, after, ts)
    BY <1>2 DEF OnPrint
  <2> HIDE DEF after
  <2>5. MovesOn(Booked(s, after, ts), s, l)
    BY <2>2, <2>3, BookedMoves
  <2> QED BY <2>4, <2>5
<1> QED BY <1>1, <1>2

LEMMA OnCancelMoves ==
  ASSUME NEW s, Good(s), NEW bk, NEW ref, NEW resolved, NEW qty,
         NEW t \in OnCancel(s, bk, ref, resolved, qty), Good(t)
  PROVE  MovesOn(t, s, resolved.locate)
<1> DEFINE C(i) == AfterCancel(bk, s.live[i], ref, resolved, qty)
<1>0. Ledgers(s) /\ DOMAIN s = SimFields
  BY DEF Good, Ledgers
<1>1. PICK a \in [DOMAIN s.live -> UNION {C(i) : i \in DOMAIN s.live}] :
        /\ \A i \in DOMAIN s.live : a[i] \in C(i)
        /\ t = [s EXCEPT !.live = a]
  <2> DEFINE D == [DOMAIN s.live -> UNION {C(i) : i \in DOMAIN s.live}]
  <2>1. OnCancel(s, bk, ref, resolved, qty) =
          {[s EXCEPT !.live = after] : after \in {a \in D : \A i \in DOMAIN s.live : a[i] \in C(i)}}
    BY DEF OnCancel
  <2> HIDE DEF C, D
  <2>2. PICK a \in D : (\A i \in DOMAIN s.live : a[i] \in C(i)) /\ t = [s EXCEPT !.live = a]
    BY <2>1
  <2> QED BY <2>2 DEF D
<1>2. /\ t.live = a /\ t.res = s.res /\ t.placements = s.placements
      /\ t.skipped = s.skipped /\ t.last_ts = s.last_ts
  BY <1>0, <1>1 DEF SimFields
<1>3. a = [i \in DOMAIN s.live |-> a[i]]
  <2> DEFINE R == UNION {C(i) : i \in DOMAIN s.live}
  <2>1. a \in [DOMAIN s.live -> R]
    BY <1>1
  <2> HIDE DEF R
  <2> QED BY <2>1
<1>4. ASSUME NEW i \in DOMAIN s.live
      PROVE  /\ Advances(a[i], s.live[i])
             /\ s.live[i].locate # resolved.locate => a[i] = s.live[i]
             /\ Live(a[i], "exact") <=> Live(s.live[i], "exact")
  <2>1. a[i] \in AfterCancel(bk, s.live[i], ref, resolved, qty)
    BY <1>1
  <2>2. IsOrder(s.live[i]) /\ Consistent(s.live[i])
    BY <1>0 DEF Ledgers
  <2> HIDE DEF C
  <2>3. /\ Becoming(a[i], s.live[i]) /\ Consistent(a[i])
        /\ \A k \in Models : Live(a[i], k) <=> Live(s.live[i], k)
    BY <2>1, <2>2, CancelSteady
  <2>4. a[i].any_live <=> s.live[i].any_live
    BY <2>1, <2>2, AfterCancelSound
  <2>5. s.live[i].locate # resolved.locate => a[i] = s.live[i]
    BY <2>1, AfterCancelCases DEF AtLevel
  <2>6. Live(a[i], "exact") <=> Live(s.live[i], "exact")
    BY <2>3 DEF Models
  <2>7. Advances(a[i], s.live[i])
    BY <2>3, <2>4, <2>6 DEF Advances, Passes
  <2> QED BY <2>5, <2>6, <2>7
<1> HIDE DEF C
<1>5. FilledNow(s.live, a, "exact") = {}
  BY <1>4 DEF FilledNow, Retired
<1>6. Fills(t) = Fills(s) + Cardinality(FilledNow(s.live, t.live, "exact"))
  <2>1. Fills(t) = Fills(s) /\ Fills(s) \in Nat
    BY <1>0, <1>2, FillsAreNatural DEF Fills
  <2>2. Cardinality(FilledNow(s.live, t.live, "exact")) = 0
    <3>1. FilledNow(s.live, t.live, "exact") = {}
      BY <1>2, <1>5
    <3> QED BY <3>1, FS_EmptySet
  <2> QED BY <2>1, <2>2
<1> QED BY <1>2, <1>3, <1>4, <1>6 DEF MovesOn

\* The attribution touches only the orders of the message's symbol.
LEMMA AttributedMoves ==
  ASSUME FeedOK, NEW s, Good(s), NEW m, Effect(m), m.type # "H", NEW bk, NEW ts \in Nat,
         s.last_ts <= ts, NEW t \in Attributed(s, m, bk, ts)
  PROVE  MovesOn(t, s, LocateOf(m))
<1>0. LocateOf(m) \in Locates /\ Good(t)
  BY MessageHasSymbol, AttributedGood DEF Attribution
<1>1. CASE m.type = "E"
  <2>1. LocateOf(m) = resting[m.ref].locate
    BY <1>1 DEF LocateOf
  <2>2. t = OnExecution(s, m.ref, resting[m.ref], m.qty, ts)
    BY <1>1 DEF Attributed
  <2> QED BY <1>0, <1>1, <2>1, <2>2, OnExecutionMoves
<1>2. CASE m.type \in {"X", "D", "U"}
  <2>1. \E qty : t \in OnCancel(s, bk, m.ref, resting[m.ref], qty)
    BY <1>2 DEF Attributed
  <2>2. LocateOf(m) = resting[m.ref].locate
    BY <1>2 DEF LocateOf
  <2> QED BY <1>0, <2>1, <2>2, OnCancelMoves
<1>3. CASE m.type = "P"
  <2>1. t = OnPrint(s, m.locate, m.price, ts)
    BY <1>3 DEF Attributed
  <2>2. LocateOf(m) = m.locate
    BY <1>3 DEF LocateOf
  <2> QED BY <1>0, <2>1, <2>2, OnPrintMoves
<1>4. CASE m.type \in {"A", "B"}
  <2>1. t = s
    BY <1>4 DEF Attributed
  <2> QED BY <2>1, NothingMoves
<1> QED BY <1>1, <1>2, <1>3, <1>4 DEF Effect
\* A quote and the orders in play for its symbol: an open, unfilled quote is the
\* only one, still queued under the registered model; a filled one is queued no
\* more; and without an open quote there is none.
Answers(o, q) == Live(o, "exact") /\ o.side = q.side /\ o.price = q.price
OnlyOne(s, l) == \A i, j \in PlayOf(s, l) : i = j
Stands(s, l, q) ==
  /\ OnlyOne(s, l)
  /\ ~q.open => PlayOf(s, l) = {}
  /\ q.open /\ ~q.filled => \E i \in PlayOf(s, l) : Answers(s.live[i], q)
  /\ q.filled => \A i \in PlayOf(s, l) : ~Live(s.live[i], "exact")

\* The orders of p in play for a symbol are those of s, one for one.
Carries(p, s, l) ==
  /\ \A i \in PlayOf(p, l) : \E j \in PlayOf(s, l) : p.live[i] = s.live[j]
  /\ \A j \in PlayOf(s, l) : \E i \in PlayOf(p, l) : p.live[i] = s.live[j]
  /\ OnlyOne(s, l) => OnlyOne(p, l)

LEMMA CarriesStand ==
  ASSUME NEW p, NEW s, NEW l, Carries(p, s, l), NEW q, Stands(s, l, q)
  PROVE  Stands(p, l, q)
<1>1. OnlyOne(p, l)
  BY DEF Carries, Stands
<1>2. ~q.open => PlayOf(p, l) = {}
  BY DEF Carries, Stands
<1>3. q.open /\ ~q.filled => \E i \in PlayOf(p, l) : Answers(p.live[i], q)
  <2> SUFFICES ASSUME q.open, ~q.filled PROVE \E i \in PlayOf(p, l) : Answers(p.live[i], q)
    OBVIOUS
  <2>1. PICK j \in PlayOf(s, l) : Answers(s.live[j], q)
    BY DEF Stands
  <2>2. PICK i \in PlayOf(p, l) : p.live[i] = s.live[j]
    BY DEF Carries
  <2> QED BY <2>1, <2>2
<1>4. q.filled => \A i \in PlayOf(p, l) : ~Live(p.live[i], "exact")
  <2> SUFFICES ASSUME q.filled, NEW i \in PlayOf(p, l) PROVE ~Live(p.live[i], "exact")
    OBVIOUS
  <2>1. PICK j \in PlayOf(s, l) : p.live[i] = s.live[j]
    BY DEF Carries
  <2> QED BY <2>1 DEF Stands
<1> QED BY <1>1, <1>2, <1>3, <1>4 DEF Stands

LEMMA CarriesTwice ==
  ASSUME NEW p, NEW s, NEW t, NEW l, Carries(p, s, l), Carries(s, t, l)
  PROVE  Carries(p, t, l)
<1>1. ASSUME NEW i \in PlayOf(p, l) PROVE \E j \in PlayOf(t, l) : p.live[i] = t.live[j]
  <2>1. PICK k \in PlayOf(s, l) : p.live[i] = s.live[k]
    BY DEF Carries
  <2>2. PICK j \in PlayOf(t, l) : s.live[k] = t.live[j]
    BY DEF Carries
  <2> QED BY <2>1, <2>2
<1>2. ASSUME NEW j \in PlayOf(t, l) PROVE \E i \in PlayOf(p, l) : p.live[i] = t.live[j]
  <2>1. PICK k \in PlayOf(s, l) : s.live[k] = t.live[j]
    BY DEF Carries
  <2>2. PICK i \in PlayOf(p, l) : p.live[i] = s.live[k]
    BY DEF Carries
  <2> QED BY <2>1, <2>2
<1>3. OnlyOne(t, l) => OnlyOne(p, l)
  BY DEF Carries
<1> QED BY <1>1, <1>2, <1>3 DEF Carries

LEMMA SamePlayCarries ==
  ASSUME NEW p, NEW s, NEW l, PlayOf(p, l) = PlayOf(s, l),
         \A i \in PlayOf(s, l) : p.live[i] = s.live[i]
  PROVE  Carries(p, s, l)
  BY DEF Carries, OnlyOne

\* A message of another symbol leaves a symbol's orders as they are.
LEMMA OthersCarried ==
  ASSUME NEW s, NEW t, NEW l, MovesOn(t, s, l), NEW h, h # l
  PROVE  Carries(t, s, h)
<1>1. DOMAIN t.live = DOMAIN s.live
  BY DEF MovesOn
<1>2. ASSUME NEW i \in DOMAIN s.live
      PROVE  /\ t.live[i].locate = s.live[i].locate
             /\ s.live[i].locate # l => t.live[i] = s.live[i]
  BY DEF MovesOn, Advances, Passes, Becoming, SameOrder
<1>3. PlayOf(t, h) = PlayOf(s, h)
  BY <1>1, <1>2 DEF PlayOf
<1>4. \A i \in PlayOf(s, h) : t.live[i] = s.live[i]
  BY <1>2 DEF PlayOf
<1> QED BY <1>3, <1>4, SamePlayCarries

\* What on_fill() writes.
LEMMA NotifiedMarks ==
  ASSUME NEW k \in MakerType, NEW l, NEW before, NEW after
  PROVE  LET y == Notified(k, l, before, after)
         IN  /\ y \in MakerType /\ y.prev = k.prev
             /\ y.quote.open = k.quote.open
             /\ k.quote.open => y.quote.side = k.quote.side /\ y.quote.price = k.quote.price
             /\ y.quote.filled <=> \/ k.quote.filled
                                   \/ ExactFill(before, after, l) /\ k.quote.open
<1> DEFINE y == Notified(k, l, before, after)
           q == k.quote
           r == [q EXCEPT !.filled = TRUE]
           z == [k EXCEPT !.quote = r]
<1>1. y \in MakerType /\ SameQuote(k, y)
  BY NotifiedKeeps
<1>2. y.prev = k.prev
  BY <1>1 DEF SameQuote
<1>3. CASE ExactFill(before, after, l) /\ k.quote.open
  <2>1. y = z
    BY <1>3 DEF Notified
  <2>2. q \in QuoteType /\ q.open
    BY <1>3 DEF MakerType
  <2>3. q \in [open : {TRUE}, filled : BOOLEAN, side : {"B", "S"}, price : Int]
    BY <2>2 DEF QuoteType
  <2> HIDE DEF q
  <2>4. r.open = q.open /\ r.side = q.side /\ r.price = q.price
    BY <2>3
  <2>5. r.filled = TRUE
    BY <2>3
  <2> HIDE DEF r
  <2>6. z.quote = r
    BY DEF MakerType
  <2> HIDE DEF y, z
  <2>7. y.quote = r
    BY <2>1, <2>6
  <2>8. /\ y.quote.open = q.open /\ y.quote.side = q.side /\ y.quote.price = q.price
        /\ y.quote.filled
    BY <2>4, <2>5, <2>7
  <2> QED BY <1>1, <1>2, <1>3, <2>8 DEF y, q
<1>4. CASE ~(ExactFill(before, after, l) /\ k.quote.open)
  <2>1. y = k
    BY <1>4 DEF Notified
  <2> HIDE DEF y
  <2> QED BY <1>4, <2>1 DEF y
<1> QED BY <1>3, <1>4

\* A fill of the registered model and the mark on the quote are one thing.
LEMMA NotifiedStands ==
  ASSUME NEW s, Good(s), NEW t, NEW l, MovesOn(t, s, l),
         NEW k \in MakerType, Stands(s, l, k.quote)
  PROVE  LET y == Notified(k, l, s.live, t.live)
             F == FilledNow(s.live, t.live, "exact")
         IN  /\ Stands(t, l, y.quote)
             /\ \/ F = {} /\ (y.quote.filled <=> k.quote.filled)
                \/ (\E x : F = {x}) /\ ~k.quote.filled /\ y.quote.filled
<1> DEFINE y == Notified(k, l, s.live, t.live)
           F == FilledNow(s.live, t.live, "exact")
           P == PlayOf(s, l)
           Q == PlayOf(t, l)
<1>1. /\ y.quote.open = k.quote.open
      /\ k.quote.open => y.quote.side = k.quote.side /\ y.quote.price = k.quote.price
      /\ y.quote.filled <=> k.quote.filled \/ (ExactFill(s.live, t.live, l) /\ k.quote.open)
  BY NotifiedMarks
<1>2. k.quote.filled => k.quote.open
  BY DEF MakerType, QuoteType
<1> HIDE DEF y
<1>3. DOMAIN t.live = DOMAIN s.live
  BY DEF MovesOn
<1>4. ASSUME NEW i \in DOMAIN s.live
      PROVE  /\ t.live[i].locate = s.live[i].locate /\ t.live[i].side = s.live[i].side
             /\ t.live[i].price = s.live[i].price
             /\ t.live[i].any_live => s.live[i].any_live
             /\ Live(t.live[i], "exact") => t.live[i].any_live /\ Live(s.live[i], "exact")
             /\ Live(s.live[i], "exact") => s.live[i].any_live
             /\ i \in F <=> Live(s.live[i], "exact") /\ ~Live(t.live[i], "exact")
             /\ s.live[i].locate # l => i \notin F
  <2>1. Advances(t.live[i], s.live[i]) /\ (s.live[i].locate # l => t.live[i] = s.live[i])
    BY DEF MovesOn
  <2>2. Consistent(s.live[i]) /\ "exact" \in Models
    BY DEF Good, Ledgers, Models
  <2>3. Passes(t.live[i], s.live[i])
    BY <2>1 DEF Advances
  <2>4. i \in F <=> Live(s.live[i], "exact") /\ ~Live(t.live[i], "exact")
    BY <2>1 DEF FilledNow, Retired, Advances
  <2>5. /\ t.live[i].locate = s.live[i].locate /\ t.live[i].side = s.live[i].side
        /\ t.live[i].price = s.live[i].price
    BY <2>3 DEF Passes, Becoming, SameOrder
  <2>6. /\ t.live[i].any_live => s.live[i].any_live
        /\ Live(t.live[i], "exact") => t.live[i].any_live /\ Live(s.live[i], "exact")
        /\ Live(s.live[i], "exact") => s.live[i].any_live
    BY <2>2, <2>3 DEF Passes, Consistent
  <2>7. s.live[i].locate # l => i \notin F
    BY <2>1, <2>4
  <2> QED BY <2>4, <2>5, <2>6, <2>7
<1>5. F \subseteq DOMAIN s.live
  BY DEF FilledNow, Retired
<1>6. ExactFill(s.live, t.live, l) <=> F # {}
  BY <1>4, <1>5 DEF ExactFill
<1> HIDE DEF F
<1>7. F \subseteq P
  BY <1>4, <1>5 DEF PlayOf
<1>8. Q \subseteq P
  BY <1>3, <1>4 DEF PlayOf
<1>9. /\ \A i, j \in P : i = j
      /\ ~k.quote.open => P = {}
      /\ k.quote.open /\ ~k.quote.filled => \E i \in P : Answers(s.live[i], k.quote)
      /\ k.quote.filled => \A i \in P : ~Live(s.live[i], "exact")
  BY DEF Stands, OnlyOne
<1>10. P \subseteq DOMAIN s.live /\ Q \subseteq DOMAIN s.live
  BY <1>3 DEF PlayOf
<1>11. ASSUME NEW i \in P, t.live[i].any_live PROVE i \in Q
  BY <1>3, <1>4, <1>10, <1>11 DEF PlayOf
<1> HIDE DEF P, Q
<1>12. CASE F = {}
  <2>1. y.quote.filled <=> k.quote.filled
    BY <1>1, <1>6, <1>12
  <2>2. (\A i, j \in Q : i = j) /\ (~y.quote.open => Q = {})
    BY <1>1, <1>8, <1>9
  <2>3. ASSUME y.quote.open, ~y.quote.filled PROVE \E i \in Q : Answers(t.live[i], y.quote)
    <3>1. PICK i \in P : Answers(s.live[i], k.quote)
      BY <1>1, <1>9, <2>1, <2>3
    <3>2. Live(t.live[i], "exact") /\ i \in Q
      BY <1>4, <1>10, <1>11, <1>12, <3>1 DEF Answers
    <3> QED BY <1>1, <1>4, <1>10, <2>3, <3>1, <3>2 DEF Answers
  <2>4. y.quote.filled => \A i \in Q : ~Live(t.live[i], "exact")
    BY <1>4, <1>8, <1>9, <1>10, <2>1
  <2>5. Stands(t, l, y.quote)
    BY <2>2, <2>3, <2>4 DEF Stands, OnlyOne, Q
  <2> QED BY <1>12, <2>1, <2>5 DEF y, F
<1>13. CASE F # {}
  <2>1. PICK x \in F : TRUE
    BY <1>13
  <2>2. F = {x} /\ x \in P
    BY <1>7, <1>9, <2>1
  <2>3. Live(s.live[x], "exact") /\ ~Live(t.live[x], "exact")
    BY <1>4, <1>10, <2>1, <2>2
  <2>4. ~k.quote.filled /\ k.quote.open
    BY <1>9, <2>2, <2>3
  <2>5. y.quote.filled /\ y.quote.open
    BY <1>1, <1>6, <1>13, <2>4
  <2>6. \A i \in Q : ~Live(t.live[i], "exact")
    BY <1>8, <1>9, <2>2, <2>3
  <2>7. Stands(t, l, y.quote)
    BY <1>8, <1>9, <2>5, <2>6 DEF Stands, OnlyOne, Q
  <2> QED BY <2>2, <2>4, <2>5, <2>7 DEF y, F
<1> QED BY <1>12, <1>13
\* The counts the maker's account is held against.
Books(p, s) == Fills(p) = Fills(s) /\ p.placements = s.placements /\ p.skipped = s.skipped

LEMMA CompactedCarries ==
  ASSUME NEW s, Ledgers(s), NEW l
  PROVE  Carries(Compacted(s), s, l)
<1> DEFINE S == {i \in DOMAIN s.live : s.live[i].any_live}
           keep == Ascending(S)
           n == Cardinality(S)
           live == [k \in DOMAIN keep |-> s.live[keep[k]]]
           c == Compacted(s)
<1>1. /\ DOMAIN s = SimFields /\ IsList(s.live)
      /\ DOMAIN s.live = 1..Len(s.live) /\ Len(s.live) \in Nat
  BY DEF Ledgers, IsList
<1>2. c = [s EXCEPT !.live = live, !.by_locate = [h \in Locates |-> Ascending(Positions(live, h))]]
  BY DEF Compacted
<1>3. S \in SUBSET Nat /\ IsFiniteSet(S)
  <2>1. S \in SUBSET (1..Len(s.live))
    BY <1>1
  <2> HIDE DEF S
  <2>2. IsFiniteSet(1..Len(s.live)) /\ 1..Len(s.live) \subseteq Nat
    BY <1>1, FS_Interval
  <2> QED BY <2>1, <2>2, FS_Subset
<1> HIDE DEF live
<1>4. c.live = live
  BY <1>1, <1>2 DEF SimFields
<1> HIDE DEF c
<1>5. \A i : i \in S <=> i \in DOMAIN s.live /\ s.live[i].any_live
  OBVIOUS
<1> HIDE DEF S
<1>6. /\ n \in Nat /\ DOMAIN keep = 1..n
      /\ \A k \in 1..n : keep[k] \in S /\ Cardinality(Below(S, keep[k])) = k - 1
      /\ \A x \in S : \E k \in 1..n : keep[k] = x
  BY <1>3, AscendingSound
<1> HIDE DEF keep, n
<1>7. DOMAIN live = 1..n /\ \A k \in 1..n : live[k] = s.live[keep[k]]
  BY <1>6 DEF live
<1>8. ASSUME NEW i \in PlayOf(c, l)
      PROVE  i \in 1..n /\ keep[i] \in PlayOf(s, l) /\ c.live[i] = s.live[keep[i]]
  <2>1. i \in 1..n /\ c.live[i] = s.live[keep[i]] /\ c.live[i].locate = l
    BY <1>4, <1>7 DEF PlayOf
  <2>2. keep[i] \in DOMAIN s.live /\ s.live[keep[i]].any_live
    BY <1>5, <1>6, <2>1
  <2> QED BY <2>1, <2>2 DEF PlayOf
<1>9. ASSUME NEW j \in PlayOf(s, l) PROVE \E i \in PlayOf(c, l) : c.live[i] = s.live[j]
  <2>1. j \in S /\ s.live[j].any_live /\ s.live[j].locate = l
    BY <1>5 DEF PlayOf
  <2>2. PICK k \in 1..n : keep[k] = j
    BY <1>6, <2>1
  <2>3. k \in DOMAIN c.live /\ c.live[k] = s.live[j]
    BY <1>4, <1>7, <2>2
  <2> QED BY <2>1, <2>3 DEF PlayOf
<1>10. ASSUME OnlyOne(s, l) PROVE OnlyOne(c, l)
  <2> SUFFICES ASSUME NEW i \in PlayOf(c, l), NEW j \in PlayOf(c, l) PROVE i = j
    BY DEF OnlyOne
  <2>1. i \in 1..n /\ j \in 1..n /\ keep[i] = keep[j]
    BY <1>8, <1>10 DEF OnlyOne
  <2>2. i - 1 = j - 1
    BY <1>6, <2>1
  <2> QED BY <1>6, <2>1, <2>2
<1> QED BY <1>8, <1>9, <1>10 DEF Carries, c

LEMMA CompactedGood ==
  ASSUME NEW s, Good(s)
  PROVE  LET c == Compacted(s)
         IN  Good(c) /\ \A f \in SimFields \ {"live", "by_locate"} : c[f] = s[f]
<1> DEFINE c == Compacted(s)
<1>0. Indexed(s) /\ Ledgers(s) /\ Clocks(s)
      /\ \A i \in DOMAIN s.live : OnClock(s.live[i], s.last_sweep)
  BY DEF Good, Orderly
<1>1. /\ Indexed(c) /\ Ledgers(c)
      /\ \A f \in SimFields \ {"live", "by_locate"} : c[f] = s[f]
      /\ \A i \in DOMAIN c.live : \E j \in DOMAIN s.live : c.live[i] = s.live[j]
  BY <1>0, CompactedSound, CompactedLedgers DEF Indexed
<1> HIDE DEF c
<1>2. /\ c.last_ts = s.last_ts /\ c.last_sweep = s.last_sweep /\ c.pending = s.pending
      /\ c.next_placement = s.next_placement
  BY <1>1 DEF SimFields
<1>3. Clocks(c)
  BY <1>0, <1>2 DEF Clocks
<1>4. \A i \in DOMAIN c.live : OnClock(c.live[i], c.last_sweep)
  BY <1>0, <1>1, <1>2
<1> QED BY <1>1, <1>3, <1>4 DEF Good, Orderly, c

LEMMA SameBooks ==
  ASSUME NEW s, NEW p, p.res = s.res, p.placements = s.placements, p.skipped = s.skipped
  PROVE  Books(p, s)
  BY DEF Books, Fills

\* Within the life of an order the sweep only forgets what is out of play.
LEMMA SweptCarries ==
  ASSUME NEW s, Ledgers(s), DOMAIN s.by_locate = Locates,
         \A i \in DOMAIN s.live : s.live[i].entered \in Nat,
         NEW ts \in Nat, ts < MaxLife, NEW l
  PROVE  Carries(Swept(s, ts), s, l) /\ Books(Swept(s, ts), s)
<1>0. Ledgers(s) /\ DOMAIN s = SimFields /\ IsList(s.live)
  BY DEF Ledgers
<1>1. CASE ts - s.last_sweep < SweepEvery
  <2>1. Swept(s, ts) = s
    BY <1>1 DEF Swept
  <2> QED BY <2>1, SamePlayCarries, SameBooks
<1>2. CASE ~(ts - s.last_sweep < SweepEvery)
  <2> DEFINE t == [s EXCEPT !.last_sweep = ts]
             c == Compacted(t)
  <2>1. /\ DOMAIN t = SimFields /\ \A f \in SimFields \ {"last_sweep"} : t[f] = s[f]
    BY <1>0 DEF SimFields
  <2>2. Swept(s, ts) = Compacted(Booked(t, SweptLive(t, ts), ts))
    BY <1>2 DEF Swept, SweptLive
  <2> HIDE DEF t
  <2>3. t.live = s.live /\ Ledgers(t) /\ DOMAIN t.by_locate = Locates
    <3>1. Ledgers(t) /\ t.live = s.live /\ t.by_locate = s.by_locate
      BY <1>0, <2>1, LedgersAside DEF SimFields
    <3> QED BY <3>1
  <2>4. SweptLive(t, ts) = t.live
    <3>1. \A i \in DOMAIN s.live : ~(ts - s.live[i].entered >= MaxLife)
      BY QueueSimAssumption
    <3>2. SweptLive(t, ts) = [i \in DOMAIN s.live |-> s.live[i]]
      BY <2>3, <3>1 DEF SweptLive
    <3>3. s.live = [i \in 1..Len(s.live) |-> s.live[i]] /\ DOMAIN s.live = 1..Len(s.live)
      BY <1>0 DEF IsList
    <3>4. s.live = [i \in DOMAIN s.live |-> s.live[i]]
      BY <3>3
    <3> QED BY <2>3, <3>2, <3>4
  <2>5. Booked(t, SweptLive(t, ts), ts) = t
    BY <2>4 DEF Booked
  <2>6. Swept(s, ts) = c
    BY <2>2, <2>5
  <2>7. Carries(c, t, l)
    BY <2>3, CompactedCarries
  <2>8. c.res = s.res /\ c.placements = s.placements /\ c.skipped = s.skipped
    <3>1. DOMAIN c = SimFields /\ \A f \in SimFields \ {"live", "by_locate"} : c[f] = t[f]
      BY <2>1 DEF Compacted, SimFields
    <3> HIDE DEF c
    <3> QED BY <2>1, <3>1 DEF SimFields
  <2> HIDE DEF c
  <2>9. Carries(t, s, l)
    BY <2>3, SamePlayCarries DEF PlayOf
  <2> QED BY <2>6, <2>7, <2>8, <2>9, CarriesTwice, SameBooks
<1> QED BY <1>1, <1>2

\* A simulator whose tick at ts is done.
Ready(p, ts) == Good(p) /\ InTime(p) /\ p.last_ts = ts

LEMMA TickedCarries ==
  ASSUME ~TimerPlacement, NEW s, Good(s), NEW bk, NEW ts \in Nat, s.last_ts <= ts, ts < MaxLife,
         NEW p \in Ticked(s, bk, ts)
  PROVE  /\ Ready(p, ts) /\ Books(p, s)
         /\ \A l \in Locates : Carries(p, s, l)
<1> DEFINE t == [s EXCEPT !.last_ts = ts]
           u == Settled(t, bk, ts)
<1>0. /\ Indexed(s) /\ Ledgers(s) /\ DOMAIN s = SimFields /\ s.last_ts \in Nat
      /\ \A i \in DOMAIN s.live : OnClock(s.live[i], s.last_sweep)
  BY DEF Good, Orderly, Ledgers, Clocks
<1>1. p = Swept(u, ts)
  BY <1>0 DEF Ticked, Clocked
<1>2. Ready(p, ts)
  BY TickedTicks DEF Ticking, Ready
<1>3. DOMAIN t = SimFields /\ \A f \in SimFields \ {"last_ts"} : t[f] = s[f]
  BY <1>0 DEF SimFields
<1> HIDE DEF t
<1>4. /\ DOMAIN u = SimFields /\ \A f \in SimFields \ {"pending", "res"} : u[f] = t[f]
  BY <1>3 DEF Settled, SimFields
<1>5. u.res["exact"].filled = s.res["exact"].filled
  <2>1. t.res = s.res /\ IsRow(s.res["exact"])
    BY <1>0, <1>3, FillsAreNatural DEF SimFields
  <2> DEFINE D == {q \in t.pending : q.due <= ts}
             V(m) == Cardinality({q \in D : q.model = m /\ TwoSided(bk, q.locate)})
  <2>2. u = [t EXCEPT !.pending = @ \ D, !.res = [m \in Models |-> Valued(@[m], V(m))]]
    BY DEF Settled
  <2> HIDE DEF D, V
  <2>3. u.res = [m \in Models |-> Valued(s.res[m], V(m))]
    BY <1>3, <2>1, <2>2 DEF SimFields
  <2>4. u.res["exact"] = Valued(s.res["exact"], V("exact"))
    BY <2>3 DEF Models
  <2> QED BY <2>1, <2>4 DEF Valued, IsRow
<1> HIDE DEF u
<1>6. u.live = s.live /\ u.placements = s.placements /\ u.skipped = s.skipped
  BY <1>3, <1>4 DEF SimFields
<1>7. Ledgers(u) /\ DOMAIN u.by_locate = Locates
  <2>1. Ledgers(t)
    BY <1>0, <1>3, LedgersAside DEF SimFields
  <2>2. u.by_locate = s.by_locate
    BY <1>3, <1>4 DEF SimFields
  <2> QED BY <1>0, <2>1, <2>2, SettledLedgers DEF u, Indexed
<1>8. \A i \in DOMAIN u.live : u.live[i].entered \in Nat
  BY <1>0, <1>6 DEF OnClock
<1>9. ASSUME NEW l PROVE Carries(p, u, l) /\ Books(p, u) /\ Carries(u, s, l)
  <2>1. Carries(p, u, l) /\ Books(p, u)
    BY <1>1, <1>7, <1>8, SweptCarries
  <2>2. Carries(u, s, l)
    BY <1>6, SamePlayCarries DEF PlayOf
  <2> QED BY <2>1, <2>2
<1>10. Books(p, s)
  BY <1>5, <1>6, <1>9 DEF Books, Fills
<1> QED BY <1>2, <1>9, <1>10, CarriesTwice
\* The previous quote leaves the simulator and no other symbol's order does.
LEMMA CancelledClears ==
  ASSUME NEW ts \in Nat, NEW s, Ready(s, ts), NEW l \in Locates
  PROVE  LET c == SymbolCancelled(s, l, ts)
         IN  /\ Ready(c, ts) /\ Books(c, s) /\ PlayOf(c, l) = {}
             /\ \A h : h # l => Carries(c, s, h)
<1> DEFINE after == [i \in DOMAIN s.live |->
                       IF i \in AtLocate(s, l) /\ s.live[i].any_live THEN Expired(s.live[i])
                       ELSE s.live[i]]
           b == Booked(s, after, ts)
           c == Compacted(b)
<1>0. /\ Good(s) /\ Indexed(s) /\ Ledgers(s) /\ DOMAIN s = SimFields
      /\ s.last_ts = ts /\ InTime(s) /\ s.last_ts <= ts
  BY DEF Ready, Good, Ledgers
<1>1. SymbolCancelled(s, l, ts) = c
  BY DEF SymbolCancelled
<1>2. AtLocate(s, l) = {i \in DOMAIN s.live : s.live[i].locate = l}
  BY <1>0, AtLocateIsExact
<1>3. ASSUME NEW i \in DOMAIN s.live
      PROVE  /\ Passes(after[i], s.live[i])
             /\ after[i].locate = s.live[i].locate
             /\ s.live[i].locate # l => after[i] = s.live[i]
             /\ s.live[i].locate = l => ~after[i].any_live
             /\ ~(Live(s.live[i], "exact") /\ ~Live(after[i], "exact")
                  /\ after[i].models["exact"].reason \in FillReasons)
  <2> DEFINE o == s.live[i]
  <2>1. IsOrder(o) /\ Consistent(o)
    BY <1>0 DEF Ledgers
  <2>2. CASE o.locate = l /\ o.any_live
    <3>1. after[i] = Expired(o)
      BY <1>2, <2>2
    <3> HIDE DEF after, o
    <3>2. Passes(after[i], o) /\ ~after[i].any_live
      BY <2>1, <3>1, ExpiredPasses, ExpiredSound
    <3>3. Live(o, "exact") => after[i].models["exact"].reason = "expired"
      BY <2>1, <3>1, FilledSound DEF Expired, Models
    <3>4. "expired" \notin FillReasons
      BY DEF FillReasons
    <3>5. after[i].locate = o.locate
      BY <3>2 DEF Passes, Becoming, SameOrder
    <3> QED BY <2>2, <3>2, <3>3, <3>4, <3>5 DEF o
  <2>3. CASE ~(o.locate = l /\ o.any_live)
    <3>1. after[i] = o
      BY <1>2, <2>3
    <3> HIDE DEF after, o
    <3> QED BY <2>1, <2>3, <3>1, SamePasses DEF o
  <2> QED BY <2>2, <2>3
<1>4. after = [i \in DOMAIN s.live |-> after[i]]
  OBVIOUS
<1> HIDE DEF after
<1>5. Onward(after, s.live) /\ DOMAIN after = DOMAIN s.live
  BY <1>3, <1>4 DEF Onward
<1>6. Good(b) /\ b.last_ts = ts
  BY <1>0, <1>5, BookedGood
<1>7. Fills(b) = Fills(s)
  <2>1. FilledNow(s.live, after, "exact") = {}
    BY <1>3 DEF FilledNow, Retired
  <2>2. Fills(s) \in Nat
    BY <1>0, FillsAreNatural
  <2>3. Fills(b) = Fills(s) + Cardinality({})
    BY <1>0, <1>5, <2>1, BookedFills
  <2> QED BY <2>2, <2>3, FS_EmptySet
<1>8. /\ b.live = after /\ b.placements = s.placements /\ b.skipped = s.skipped
      /\ b.last_sweep = s.last_sweep
  BY <1>0, BookedFields DEF SimFields
<1> HIDE DEF b
<1>9. Good(c) /\ \A f \in SimFields \ {"live", "by_locate"} : c[f] = b[f]
  BY <1>6, CompactedGood
<1>10. \A h : Carries(c, b, h)
  BY <1>6, CompactedCarries DEF Good
<1> HIDE DEF c
<1>11. Ready(c, ts) /\ Books(c, s)
  <2>1. /\ c.res = b.res /\ c.placements = b.placements /\ c.skipped = b.skipped
        /\ c.last_ts = b.last_ts /\ c.last_sweep = b.last_sweep
    BY <1>9 DEF SimFields
  <2> QED BY <1>0, <1>6, <1>7, <1>8, <1>9, <2>1 DEF Ready, InTime, Books, Fills
<1>12. PlayOf(c, l) = {}
  <2>1. PlayOf(b, l) = {}
    BY <1>3, <1>5, <1>8 DEF PlayOf
  <2> QED BY <1>10, <2>1 DEF Carries
<1>13. ASSUME NEW h, h # l PROVE Carries(c, s, h)
  <2>1. PlayOf(b, h) = PlayOf(s, h) /\ \A i \in PlayOf(s, h) : b.live[i] = s.live[i]
    BY <1>3, <1>5, <1>8, <1>13 DEF PlayOf
  <2>2. Carries(b, s, h)
    BY <2>1, SamePlayCarries
  <2> QED BY <1>10, <2>2, CarriesTwice
<1> QED BY <1>1, <1>11, <1>12, <1>13

\* The order placed for a quote is its symbol's only one.
LEMMA PlacedStands ==
  ASSUME NEW ts \in Nat, NEW s, Ready(s, ts), NEW bk, NEW l \in Locates, NEW side \in Sides,
         TwoSided(bk, l), PlayOf(s, l) = {},
         NEW q, q.open, ~q.filled, q.side = side, q.price = Best(bk, l, side)
  PROVE  LET p == PlacedAt(s, bk, l, side, ts)
         IN  /\ Ready(p, ts) /\ Stands(p, l, q)
             /\ \A h : h # l => Carries(p, s, h)
             /\ Fills(p) = Fills(s) /\ p.placements = s.placements + 1 /\ p.skipped = s.skipped
<1> DEFINE p == PlacedAt(s, bk, l, side, ts)
           o == NewOrder(s.placements, bk, l, side, ts)
           n == Len(s.live)
<1>0. /\ Good(s) /\ Indexed(s) /\ Ledgers(s) /\ IsList(s.live) /\ n \in Nat
      /\ DOMAIN s.live = 1..n
  BY DEF Ready, Good, Ledgers, IsList
<1>1. HasPlaced(p, s, o, l)
  BY <1>0, PlacedFields
<1>2. IsNew(o, s.placements, bk, l, side, ts)
  BY NewOrderSound
<1>3. Ready(p, ts)
  <2>1. Ticking(s, ts, Behind(s))
    BY DEF Ready, Ticking
  <2>2. Ticking(p, ts, Behind(s))
    BY <2>1, PlacedTicks
  <2> QED BY <2>2 DEF Ready, Ticking
<1> HIDE DEF p, o
<1>4. /\ p.live = Append(s.live, o) /\ p.placements = s.placements + 1
      /\ p.skipped = s.skipped
      /\ p.res = [m \in Models |-> OneMorePlaced(s.res[m], Key(o))]
  BY <1>1 DEF HasPlaced, SimFields
<1>5. Fills(p) = Fills(s)
  <2>1. p.res["exact"] = OneMorePlaced(s.res["exact"], Key(o))
    BY <1>4 DEF Models
  <2>2. p.res["exact"].filled = s.res["exact"].filled
    BY <1>0, <2>1, FillsAreNatural DEF OneMorePlaced, IsRow
  <2> QED BY <2>2 DEF Fills
<1>6. /\ DOMAIN p.live = 1..(n + 1) /\ p.live[n + 1] = o
      /\ \A i \in 1..n : p.live[i] = s.live[i]
  BY <1>0, <1>4, ListAppends DEF IsList
<1>7. o.any_live /\ o.locate = l /\ o.side = side /\ o.price = Best(bk, l, side)
      /\ Live(o, "exact")
  BY <1>2 DEF IsNew, Models
<1> HIDE DEF n
<1>8. PlayOf(p, l) = {n + 1}
  <2>1. ASSUME NEW i \in PlayOf(p, l) PROVE i = n + 1
    <3>1. i \in 1..(n + 1) /\ p.live[i].any_live /\ p.live[i].locate = l
      BY <1>6, <2>1 DEF PlayOf
    <3>2. CASE i \in 1..n
      <4>1. i \in PlayOf(s, l)
        BY <1>0, <1>6, <3>1, <3>2 DEF PlayOf
      <4> QED BY <4>1
    <3> QED BY <1>0, <3>1, <3>2
  <2>2. n + 1 \in PlayOf(p, l)
    BY <1>0, <1>6, <1>7 DEF PlayOf
  <2> QED BY <2>1, <2>2
<1>9. Stands(p, l, q)
  <2>1. Answers(p.live[n + 1], q)
    BY <1>6, <1>7 DEF Answers
  <2> QED BY <1>8, <2>1 DEF Stands, OnlyOne
<1>10. ASSUME NEW h, h # l PROVE Carries(p, s, h)
  <2>1. ASSUME NEW i \in PlayOf(p, h) PROVE i \in PlayOf(s, h)
    <3>1. i \in 1..(n + 1) /\ p.live[i].any_live /\ p.live[i].locate = h
      BY <1>6, <2>1 DEF PlayOf
    <3>2. i \in 1..n
      BY <1>0, <1>6, <1>7, <1>10, <3>1
    <3> QED BY <1>0, <1>6, <3>1, <3>2 DEF PlayOf
  <2>2. ASSUME NEW i \in PlayOf(s, h) PROVE i \in PlayOf(p, h) /\ p.live[i] = s.live[i]
    BY <1>0, <1>6, <2>2 DEF PlayOf
  <2>3. PlayOf(p, h) = PlayOf(s, h)
    BY <2>1, <2>2
  <2> QED BY <2>2, <2>3, SamePlayCarries
<1> QED BY <1>3, <1>4, <1>5, <1>9, <1>10 DEF p
\* What after() does to the account: the simulator gains the orders the tally
\* gains, and a marked fill is settled once.
LEMMA AfterStands ==
  ASSUME NEW k \in MakerType, NEW t, NEW ts \in Nat, NEW s, Ready(s, ts), NEW bk,
         NEW l \in Locates, Inside(bk, l) \in InsideType, Stands(s, l, k.quote)
  PROVE  LET a == After(k, t, s, bk, l, ts)
             q == a.maker.quote
         IN  /\ Ready(a.sim, ts) /\ Stands(a.sim, l, q)
             /\ \A h : h # l => Carries(a.sim, s, h)
             /\ Fills(a.sim) = Fills(s) /\ a.sim.skipped = s.skipped
             /\ \/ a.sim.placements = s.placements /\ a.tally.quotes = t.quotes
                \/ a.sim.placements = s.placements + 1 /\ a.tally.quotes = t.quotes + 1
             /\ \/ a.tally.fills = t.fills /\ (q.filled <=> k.quote.filled)
                \/ a.tally.fills = t.fills + 1 /\ k.quote.filled /\ ~q.filled
<1> DEFINE in == Inside(bk, l)
           a == After(k, t, s, bk, l, ts)
           q == a.maker.quote
           n == Advanced(k, in, ts)
           quotes == Quotes(n, in, ts)
           idle == Withdrawn(s, k, l, ts)
<1>0. \A h : Carries(s, s, h)
  BY SamePlayCarries
<1>1. /\ ~IsUpdate(k.prev, in) => q = k.quote
      /\ IsUpdate(k.prev, in) /\ n.updates < window => a.maker = n
      /\ IsUpdate(k.prev, in) /\ ~(n.updates < window) =>
           q = IF quotes THEN NewQuote(in) ELSE NoQuote
  BY AfterMakes
<1>2. n.quote = k.quote
  BY AdvancedCounts
<1>3. CASE ~IsUpdate(k.prev, in) \/ n.updates < window
  <2>1. a.tally = t /\ a.sim = s
    BY <1>3 DEF After
  <2> HIDE DEF a, n, in, quotes
  <2>2. q = k.quote
    BY <1>1, <1>2, <1>3
  <2> QED BY <1>0, <2>1, <2>2 DEF a
<1>4. CASE IsUpdate(k.prev, in) /\ ~(n.updates < window)
  <2>1. /\ a.tally = [quotes |-> IF quotes THEN t.quotes + 1 ELSE t.quotes,
                      fills  |-> IF k.quote.open /\ k.quote.filled THEN t.fills + 1
                                 ELSE t.fills]
        /\ a.sim = IF quotes THEN PlacedAt(idle, bk, l, FavouredSide(in), ts) ELSE idle
    BY <1>4 DEF After
  <2>2. q = IF quotes THEN NewQuote(in) ELSE NoQuote
    BY <1>1, <1>4
  <2>3. /\ Ready(idle, ts) /\ Books(idle, s) /\ PlayOf(idle, l) = {}
        /\ \A h : h # l => Carries(idle, s, h)
    <3>1. CASE k.quote.open
      BY <3>1, CancelledClears DEF Withdrawn
    <3>2. CASE ~k.quote.open
      <4>1. idle = s
        BY <3>2 DEF Withdrawn
      <4>2. PlayOf(s, l) = {}
        BY <3>2 DEF Stands
      <4> QED BY <1>0, <4>1, <4>2 DEF Books
    <3> QED BY <3>1, <3>2
  <2>4. TwoSided(bk, l)
    BY <1>4 DEF IsUpdate, Inside
  <2>5. FavouredSide(in) \in Sides
    BY FeatureExportAssumption DEF FavouredSide
  <2>6. /\ NewQuote(in).open /\ ~NewQuote(in).filled /\ NewQuote(in).side = FavouredSide(in)
        /\ NewQuote(in).price = Best(bk, l, FavouredSide(in))
    <3>1. in.bid = Best(bk, l, "B") /\ in.ask = Best(bk, l, "S")
      BY <2>4 DEF Inside
    <3> HIDE DEF in
    <3> QED BY <3>1 DEF NewQuote, FavouredSide
  <2>7. \/ a.tally.fills = t.fills /\ ~k.quote.filled
        \/ a.tally.fills = t.fills + 1 /\ k.quote.filled
    <3>1. k.quote.filled => k.quote.open
      BY DEF MakerType, QuoteType
    <3> QED BY <2>1, <3>1
  <2>8. ~q.filled
    BY <2>2, <2>6 DEF NoQuote
  <2> HIDE DEF a, n, in, quotes, idle
  <2>9. CASE quotes
    <3> DEFINE p == PlacedAt(idle, bk, l, FavouredSide(in), ts)
    <3>1. a.sim = p /\ a.tally.quotes = t.quotes + 1 /\ q = NewQuote(in)
      BY <2>1, <2>2, <2>9
    <3>2. /\ Ready(p, ts) /\ Stands(p, l, NewQuote(in))
          /\ \A h : h # l => Carries(p, idle, h)
          /\ Fills(p) = Fills(idle) /\ p.placements = idle.placements + 1
          /\ p.skipped = idle.skipped
      BY <2>3, <2>4, <2>5, <2>6, PlacedStands
    <3> HIDE DEF p
    <3>3. \A h : h # l => Carries(p, s, h)
      BY <2>3, <3>2, CarriesTwice
    <3> QED BY <2>3, <2>7, <2>8, <3>1, <3>2, <3>3 DEF Books, a
  <2>10. CASE ~quotes
    <3>1. a.sim = idle /\ a.tally.quotes = t.quotes /\ q = NoQuote
      BY <2>1, <2>2, <2>10
    <3>2. Stands(idle, l, NoQuote)
      BY <2>3 DEF Stands, OnlyOne, NoQuote
    <3> QED BY <2>3, <2>7, <2>8, <3>1, <3>2 DEF Books, a
  <2> QED BY <2>9, <2>10
<1> QED BY <1>3, <1>4

\* The symbols whose open quote is marked filled.
OpenIn(mk) == {h \in Locates : mk[h].quote.filled}

LEMMA OpenChanges ==
  ASSUME NEW mk \in [Locates -> MakerType], NEW l \in Locates, NEW y
  PROVE  LET n == [mk EXCEPT ![l] = y]
         IN  /\ Cardinality(OpenIn(mk)) \in Nat
             /\ (y.quote.filled <=> mk[l].quote.filled) =>
                  Cardinality(OpenIn(n)) = Cardinality(OpenIn(mk))
             /\ y.quote.filled /\ ~mk[l].quote.filled =>
                  Cardinality(OpenIn(n)) = Cardinality(OpenIn(mk)) + 1
             /\ ~y.quote.filled /\ mk[l].quote.filled =>
                  Cardinality(OpenIn(n)) = Cardinality(OpenIn(mk)) - 1
<1> DEFINE n == [mk EXCEPT ![l] = y]
           S == OpenIn(mk)
           T == OpenIn(n)
<1>1. n[l] = y /\ \A h \in Locates \ {l} : n[h] = mk[h]
  OBVIOUS
<1> HIDE DEF n
<1>2. \A h \in Locates \ {l} : h \in T <=> h \in S
  BY <1>1 DEF OpenIn
<1>3. (l \in T <=> y.quote.filled) /\ (l \in S <=> mk[l].quote.filled)
  BY <1>1 DEF OpenIn
<1>4. S \subseteq Locates /\ T \subseteq Locates
  BY DEF OpenIn
<1>5. IsFiniteSet(S) /\ Cardinality(S) \in Nat
  BY <1>4, SessionFeedAssumption, FS_Subset, FS_CardinalityType
<1> HIDE DEF S, T
<1>6. (y.quote.filled <=> mk[l].quote.filled) => T = S
  BY <1>2, <1>3, <1>4
<1>7. y.quote.filled /\ ~mk[l].quote.filled => T = S \cup {l} /\ l \notin S
  BY <1>2, <1>3, <1>4
<1>8. ~y.quote.filled /\ mk[l].quote.filled => T = S \ {l} /\ l \in S
  BY <1>2, <1>3, <1>4
<1>9. l \notin S => Cardinality(S \cup {l}) = Cardinality(S) + 1
  BY <1>5, FS_AddElement
<1>10. l \in S => Cardinality(S \ {l}) = Cardinality(S) - 1
  BY <1>5, FS_RemoveElement
<1> QED BY <1>5, <1>6, <1>7, <1>8, <1>9, <1>10 DEF S, T, n

\* The maker and its simulator agree on every symbol's quote, and on how many
\* were placed and filled.
MakerInv ==
  /\ FollowInv /\ ~TimerPlacement /\ Good(sim) /\ sim.last_ts <= now
  /\ \A l \in Locates : Stands(sim, l, maker[l].quote)
  /\ tally.quotes = sim.placements /\ sim.skipped = 0
  /\ tally.fills \in Nat
  /\ tally.fills + Cardinality(OpenIn(maker)) = Fills(sim)

LEMMA MakerStarts ==
  ASSUME SessionInit, FollowInv
  PROVE  MakerInv
<1>1. /\ sim = NewSimulator /\ tally = [quotes |-> 0, fills |-> 0] /\ ~TimerPlacement
      /\ \A l \in Locates : maker[l].quote = NoQuote
  BY DEF SessionInit, StrategyInit, NewMaker
<1>2. now \in Nat
  BY DEF FollowInv, ExportInv, FeedOK
<1>3. Good(sim) /\ sim.last_ts <= now
  BY <1>1, <1>2, NewSimulatorGood
<1>4. sim.placements = 0 /\ sim.skipped = 0 /\ sim.live = <<>>
      /\ sim.res["exact"].filled = [k \in Keys |-> 0]
  BY <1>1 DEF NewSimulator, NoResults, Keys, Models
<1>5. Fills(sim) = 0
  BY <1>4, KeysFinite, TotalOfZeros DEF Fills
<1>6. OpenIn(maker) = {}
  BY <1>1 DEF OpenIn, NoQuote
<1>7. ASSUME NEW l \in Locates PROVE Stands(sim, l, maker[l].quote)
  <2>1. PlayOf(sim, l) = {}
    BY <1>4 DEF PlayOf
  <2> QED BY <1>1, <2>1 DEF Stands, OnlyOne, NoQuote
<1>8. tally.fills + Cardinality(OpenIn(maker)) = Fills(sim) /\ tally.fills \in Nat
      /\ tally.quotes = sim.placements
  BY <1>1, <1>4, <1>5, <1>6, FS_EmptySet
<1> QED BY <1>1, <1>3, <1>4, <1>7, <1>8 DEF MakerInv
\* A message other than a trading action: the fills it makes are marked, and the
\* strategy settles and quotes on the book it leaves.
LEMMA MessageKeepsMaker ==
  ASSUME MakerInv, FollowInv', NEW m, Effect(m), m.type # "H",
         NEW ts \in Nat, now <= ts, ts < MaxLife, now' = ts, StrategyMessage(m, ts)
  PROVE  MakerInv'
<1> DEFINE l == LocateOf(m)
           j == maker[l]
<1>0. /\ FeedOK /\ l \in Locates /\ maker \in [Locates -> MakerType] /\ j \in MakerType
      /\ Good(sim) /\ Ledgers(sim) /\ sim.last_ts \in Nat /\ sim.last_ts <= ts
      /\ Stands(sim, l, j.quote) /\ ~TimerPlacement
  <2>1. FeedOK /\ maker \in [Locates -> MakerType] /\ now \in Nat
    BY DEF MakerInv, FollowInv, ExportInv, FeedOK
  <2>2. l \in Locates
    BY <2>1, MessageHasSymbol
  <2>3. Good(sim) /\ Ledgers(sim) /\ sim.last_ts \in Nat /\ sim.last_ts <= ts
    BY <2>1 DEF MakerInv, Good, Orderly, Clocks
  <2> HIDE DEF l
  <2> QED BY <2>1, <2>2, <2>3 DEF MakerInv
<1>1. PICK t \in Attributed(sim, m, resting', ts) :
        \E s \in Ticked(t, resting', ts) :
          LET after == After(Notified(j, l, sim.live, t.live), tally, s, resting', l, ts)
          IN /\ maker' = [maker EXCEPT ![l] = after.maker]
             /\ tally' = after.tally
             /\ sim' = after.sim
  BY DEF StrategyMessage
<1> DEFINE k == Notified(j, l, sim.live, t.live)
<1>2. PICK s \in Ticked(t, resting', ts) :
        LET after == After(k, tally, s, resting', l, ts)
        IN /\ maker' = [maker EXCEPT ![l] = after.maker]
           /\ tally' = after.tally
           /\ sim' = after.sim
  BY <1>1
<1> DEFINE a == After(k, tally, s, resting', l, ts)
           y == a.maker
           F == FilledNow(sim.live, t.live, "exact")
<1>3. maker' = [maker EXCEPT ![l] = y] /\ tally' = a.tally /\ sim' = a.sim
  BY <1>2
<1>4. MovesOn(t, sim, l)
  BY <1>0, AttributedMoves
<1>5. k \in MakerType
  BY <1>0, NotifiedMarks
<1>6. /\ Stands(t, l, k.quote)
      /\ \/ F = {} /\ (k.quote.filled <=> j.quote.filled)
         \/ (\E x : F = {x}) /\ ~j.quote.filled /\ k.quote.filled
  BY <1>0, <1>4, NotifiedStands
<1> HIDE DEF k, F, l, j
<1>7. /\ Good(t) /\ t.last_ts = sim.last_ts /\ t.placements = sim.placements
      /\ t.skipped = sim.skipped /\ Fills(t) = Fills(sim) + Cardinality(F)
  BY <1>4 DEF MovesOn, F
<1>8. /\ Ready(s, ts) /\ Books(s, t)
      /\ \A h \in Locates : Carries(s, t, h)
  BY <1>0, <1>7, TickedCarries
<1>9. Stands(s, l, k.quote)
  BY <1>0, <1>6, <1>8, CarriesStand
<1>10. Inside(resting', l) \in InsideType
  <2>1. FeedOK'
    BY DEF FollowInv, ExportInv
  <2> QED BY <2>1, InsideTypedNext
<1>11. /\ Ready(a.sim, ts) /\ Stands(a.sim, l, y.quote)
       /\ \A h : h # l => Carries(a.sim, s, h)
       /\ Fills(a.sim) = Fills(s) /\ a.sim.skipped = s.skipped
       /\ \/ a.sim.placements = s.placements /\ a.tally.quotes = tally.quotes
          \/ a.sim.placements = s.placements + 1 /\ a.tally.quotes = tally.quotes + 1
       /\ \/ a.tally.fills = tally.fills /\ (y.quote.filled <=> k.quote.filled)
          \/ a.tally.fills = tally.fills + 1 /\ k.quote.filled /\ ~y.quote.filled
  BY <1>0, <1>5, <1>8, <1>9, <1>10, AfterStands
<1> HIDE DEF a
<1>12. ASSUME NEW h \in Locates PROVE Stands(sim', h, maker'[h].quote)
  <2>1. CASE h = l
    <3>1. maker'[h] = y
      BY <1>0, <1>3, <2>1
    <3> QED BY <1>3, <1>11, <2>1, <3>1
  <2>2. CASE h # l
    <3>1. maker'[h] = maker[h]
      BY <1>0, <1>3, <2>2
    <3>2. Stands(sim, h, maker[h].quote)
      BY DEF MakerInv
    <3>3. Carries(t, sim, h)
      BY <1>4, <2>2, OthersCarried
    <3>4. Carries(a.sim, t, h)
      BY <1>8, <1>11, <2>2, CarriesTwice
    <3>5. Stands(a.sim, h, maker[h].quote)
      BY <3>2, <3>3, <3>4, CarriesStand
    <3> QED BY <1>3, <3>1, <3>5
  <2> QED BY <2>1, <2>2
<1>13. sim'.skipped = 0 /\ tally'.quotes = sim'.placements
  BY <1>3, <1>7, <1>8, <1>11 DEF MakerInv, Books
<1>14. tally'.fills \in Nat /\ tally'.fills + Cardinality(OpenIn(maker')) = Fills(sim')
  <2> DEFINE marked == [maker EXCEPT ![l] = k]
             c0 == Cardinality(OpenIn(maker))
             c1 == Cardinality(OpenIn(marked))
             c2 == Cardinality(OpenIn(maker'))
  <2>1. marked \in [Locates -> MakerType] /\ marked[l] = k
    BY <1>0, <1>5
  <2>2. maker' = [marked EXCEPT ![l] = y]
    BY <1>0, <1>3
  <2>3. c0 \in Nat /\ c1 = c0 + Cardinality(F)
    <3>1. CASE F = {} /\ (k.quote.filled <=> j.quote.filled)
      <4>1. c0 \in Nat /\ c1 = c0
        BY <1>0, <3>1, OpenChanges DEF j
      <4>2. Cardinality(F) = 0
        BY <3>1, FS_EmptySet
      <4> QED BY <4>1, <4>2
    <3>2. CASE (\E x : F = {x}) /\ ~j.quote.filled /\ k.quote.filled
      <4>1. c0 \in Nat /\ c1 = c0 + 1
        BY <1>0, <3>2, OpenChanges DEF j
      <4>2. Cardinality(F) = 1
        BY <3>2, FS_Singleton
      <4> QED BY <4>1, <4>2
    <3> QED BY <1>6, <3>1, <3>2
  <2> HIDE DEF marked
  <2>4. /\ c1 \in Nat
        /\ (y.quote.filled <=> k.quote.filled) => c2 = c1
        /\ k.quote.filled /\ ~y.quote.filled => c2 = c1 - 1
    BY <1>0, <2>1, <2>2, OpenChanges
  <2> DEFINE n0 == tally.fills
             n2 == tally'.fills
             f0 == Fills(sim)
             f2 == Fills(sim')
             d == Cardinality(F)
  <2>5. n0 \in Nat /\ n0 + c0 = f0
    BY DEF MakerInv
  <2>6. f2 = f0 + d
    BY <1>3, <1>7, <1>8, <1>11 DEF Books
  <2>7. (n2 = n0 /\ c2 = c1) \/ (n2 = n0 + 1 /\ c2 = c1 - 1)
    BY <1>3, <1>11, <2>4
  <2>8. d \in Nat
    BY SMTT(30), <1>6, FS_EmptySet, FS_Singleton
  <2> HIDE DEF c0, c1, c2, n0, n2, f0, f2, d
  <2>9. c0 \in Nat /\ c1 = c0 + d /\ c1 \in Nat
    BY <2>3, <2>4 DEF c0, c1, d
  <2>10. n2 \in Nat /\ n2 + c2 = n0 + c1
    BY ONLY <2>5, <2>7, <2>9
  <2>11. n0 + c1 = (n0 + c0) + d
    BY ONLY <2>5, <2>8, <2>9
  <2>12. n2 + c2 = f2
    BY ONLY <2>5, <2>6, <2>10, <2>11
  <2> QED BY <2>10, <2>12 DEF n2, c2, f2
<1>15. Good(sim') /\ sim'.last_ts <= now'
  BY <1>3, <1>11 DEF Ready
<1>16. (\A h \in Locates : Stands(sim, h, maker[h].quote))'
  BY <1>12
<1>17. (sim.last_ts <= now)' /\ (Good(sim))'
  BY <1>15
<1>18. (~TimerPlacement)'
  BY <1>0
<1>19. (tally.quotes = sim.placements /\ sim.skipped = 0)'
  BY <1>13
<1>20. (tally.fills \in Nat /\ tally.fills + Cardinality(OpenIn(maker)) = Fills(sim))'
  BY <1>14
<1> QED BY <1>16, <1>17, <1>18, <1>19, <1>20 DEF MakerInv

LEMMA MakerKept ==
  ASSUME MakerInv, FollowInv', SessionNext, (now < MaxLife)'
  PROVE  MakerInv'
<1>1. PICK m \in LegalMessages, d \in Delays : SessionMessage(m, now + d)
  BY DEF SessionNext
<1> DEFINE ts == now + d
<1>2. /\ Effect(m) /\ StrategyMessage(m, ts) /\ now' = ts /\ FeedOK /\ now \in Nat
  <2>1. ExportInv /\ FeedOK /\ now \in Nat
    BY DEF MakerInv, FollowInv, ExportInv, FeedOK
  <2>2. Effect(m)
    BY <1>1, <2>1, ExportEffects
  <2> QED BY <1>1, <2>1, <2>2 DEF SessionMessage, Delivered
<1>3. ts \in Nat /\ now <= ts /\ ts < MaxLife
  <2>1. d \in Nat
    BY SessionFeedAssumption
  <2>2. ts < MaxLife
    BY <1>2
  <2> QED BY <1>2, <2>1, <2>2
<1> HIDE DEF ts
<1>4. CASE m.type # "H"
  BY <1>2, <1>3, <1>4, MessageKeepsMaker
<1>5. CASE m.type = "H"
  <2> DEFINE l == LocateOf(m)
  <2>1. /\ maker' = [maker EXCEPT ![l] = Interrupted(maker[l], m.state)]
        /\ sim' = sim /\ tally' = tally
    BY <1>2, <1>5 DEF StrategyMessage
  <2>2. l \in Locates /\ maker \in [Locates -> MakerType]
    BY <1>2, MessageHasSymbol DEF MakerInv, FollowInv
  <2> HIDE DEF l
  <2>3. ASSUME NEW h \in Locates PROVE maker'[h].quote = maker[h].quote
    <3>1. CASE h = l
      BY <2>1, <2>2, <3>1, InterruptedMarks
    <3>2. CASE h # l
      BY <2>1, <2>2, <3>2
    <3> QED BY <3>1, <3>2
  <2>4. OpenIn(maker') = OpenIn(maker)
    BY <2>3 DEF OpenIn
  <2>5. \A h \in Locates : Stands(sim', h, maker'[h].quote)
    BY <2>1, <2>3 DEF MakerInv
  <2>6. sim.last_ts \in Nat /\ sim.last_ts <= now
    BY DEF MakerInv, Good, Orderly, Clocks
  <2>7. sim'.last_ts <= now'
    BY <1>2, <1>3, <2>1, <2>6
  <2>8. (\A h \in Locates : Stands(sim, h, maker[h].quote))'
    BY <2>5
  <2>9. (Good(sim) /\ sim.last_ts <= now /\ ~TimerPlacement)'
    <3>1. Good(sim) /\ ~TimerPlacement
      BY DEF MakerInv
    <3> QED BY <2>1, <2>7, <3>1
  <2>10. (tally.quotes = sim.placements /\ sim.skipped = 0 /\ tally.fills \in Nat)'
    BY <2>1 DEF MakerInv
  <2>11. (tally.fills + Cardinality(OpenIn(maker)) = Fills(sim))'
    BY <2>1, <2>4 DEF MakerInv
  <2> QED BY <2>8, <2>9, <2>10, <2>11 DEF MakerInv
<1> QED BY <1>4, <1>5

LEMMA MakerInvariant == SessionSpec /\ [](now < MaxLife) => []MakerInv
<1>1. SessionInit /\ FollowInv => MakerInv
  BY MakerStarts
<1>2. MakerInv /\ FollowInv' /\ (now < MaxLife)' /\ [SessionNext]_sessionVars => MakerInv'
  <2>1. ASSUME MakerInv, FollowInv', UNCHANGED sessionVars PROVE MakerInv'
    <3>1. sim' = sim /\ maker' = maker /\ tally' = tally /\ now' = now
      BY <2>1 DEF sessionVars, feedVars, simVars, strategyVars
    <3>2. (\A h \in Locates : Stands(sim, h, maker[h].quote))'
      BY <2>1, <3>1 DEF MakerInv
    <3>3. (Good(sim) /\ sim.last_ts <= now /\ ~TimerPlacement)'
      BY <2>1, <3>1 DEF MakerInv
    <3>4. (tally.quotes = sim.placements /\ sim.skipped = 0 /\ tally.fills \in Nat)'
      BY <2>1, <3>1 DEF MakerInv
    <3>5. (tally.fills + Cardinality(OpenIn(maker)) = Fills(sim))'
      BY <2>1, <3>1 DEF MakerInv
    <3> QED BY <2>1, <3>2, <3>3, <3>4, <3>5 DEF MakerInv
  <2> QED BY <2>1, MakerKept
<1> QED BY <1>1, <1>2, FollowInvariant, PTL DEF SessionSpec

\* As long as the session is shorter than the life of an order, which is all of
\* 64 bits where the strategy runs the simulator (max_life_ns in run_strategy):
\* an open, unfilled quote is the one order in play for its symbol, at its side
\* and price; and every fill of the registered model is settled once.
THEOREM QuotesAccounted == SessionSpec /\ [](now < MaxLife) => []QuotesAreAccountedFor
<1>1. MakerInv => QuoteIsInTheQueue
  <2> SUFFICES ASSUME MakerInv, NEW l \in Locates
               PROVE  LET q == maker[l].quote IN
                 /\ Cardinality(OrdersOf(l)) <= 1
                 /\ ~q.open => OrdersOf(l) = {}
                 /\ q.open /\ ~q.filled =>
                      \E i \in OrdersOf(l) : LET o == sim.live[i] IN
                        Live(o, "exact") /\ o.side = q.side /\ o.price = q.price
                 /\ q.filled => \A i \in OrdersOf(l) : ~Live(sim.live[i], "exact")
    BY DEF QuoteIsInTheQueue
  <2>1. OrdersOf(l) = PlayOf(sim, l)
    BY DEF OrdersOf, InPlay, PlayOf
  <2>2. Stands(sim, l, maker[l].quote)
    BY DEF MakerInv
  <2>3. Cardinality(PlayOf(sim, l)) <= 1
    <3>1. CASE PlayOf(sim, l) = {}
      BY <3>1, FS_EmptySet
    <3>2. CASE PlayOf(sim, l) # {}
      <4>1. PICK x : PlayOf(sim, l) = {x}
        BY <2>2, <3>2 DEF Stands, OnlyOne
      <4>2. Cardinality(PlayOf(sim, l)) = 1
        BY <4>1, FS_Singleton
      <4> QED BY <4>2
    <3> QED BY <3>1, <3>2
  <2> QED BY <2>1, <2>2, <2>3 DEF Stands, Answers
<1>2. MakerInv => FillsAreSettledOnce
  <2> SUFFICES ASSUME MakerInv PROVE FillsAreSettledOnce
    OBVIOUS
  <2>1. OpenFills = OpenIn(maker)
    BY DEF OpenFills, OpenIn
  <2>2. DOMAIN sim.res["exact"].filled = Keys
    BY FillsAreNatural DEF MakerInv, Good, IsRow
  <2>3. Count(sim.res["exact"].filled) = Fills(sim)
    BY <2>2, KeysFinite, CountIsTotal DEF Fills
  <2> QED BY <2>1, <2>3 DEF MakerInv, FillsAreSettledOnce
<1> QED BY <1>1, <1>2, MakerInvariant, PTL DEF QuotesAreAccountedFor
=============================================================================
