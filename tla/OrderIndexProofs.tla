-------------------------- MODULE OrderIndexProofs --------------------------
(***************************************************************************)
(* The index is right for every table size, every policy and every set of  *)
(* references: each entry stays reachable through deletions, a reference   *)
(* has one slot, and the table is a bounded map.                           *)
(***************************************************************************)
EXTENDS OrderIndex, FiniteSetTheorems, WellFoundedInduction, TLAPS

\* What a deletion has looked at: the slots from the hole on are in use, and
\* none of their probes passes the hole.
Scanned ==
  hole # NoSlot =>
    /\ ~Used(hole)
    /\ \A x \in Slots : Within(hole, x, scan) =>
         Used(x) /\ ~Passed(home[slots[x].key], hole, x)

\* The shape of the state, without the range of size.
Shape ==
  /\ slots \in [Slots -> Slot]
  /\ home \in [Keys -> Slots] /\ home \in Policies
  /\ \/ hole = NoSlot /\ scan = NoSlot
     \/ hole \in Slots /\ scan \in Slots

TableInv == Shape /\ EveryEntryReachable /\ OneSlotPerKey /\ Scanned

----------------------------------------------------------------------------
(* Going round the table.                                                  *)

LEMMA TableSize == Size \in Nat /\ Size >= 2 /\ NoSlot \notin Slots
  BY IndexAssumption DEF NoSlot, Slots

LEMMA AfterIs ==
  ASSUME NEW i \in Slots
  PROVE  After(i) \in Slots /\ After(i) = IF i = Size - 1 THEN 0 ELSE i + 1
<1>1. Size \in Nat /\ Size >= 2 /\ i \in Int /\ i >= 0 /\ i < Size
  BY TableSize DEF Slots
<1> DEFINE r == (i + 1) % Size
           q == (i + 1) \div Size
<1>2. r \in 0..Size - 1 /\ q \in Int /\ i + 1 = Size * q + r
  BY <1>1, SMT
<1> HIDE DEF r, q
<1>3. q <= 1 /\ q >= 0
  <2>1. CASE q >= 2
    <3>1. Size * q >= Size * 2
      BY <1>1, <1>2, <2>1
    <3> QED BY <1>1, <1>2, <3>1
  <2>2. CASE q < 0
    <3>1. Size * q <= Size * (-1)
      BY <1>1, <1>2, <2>2
    <3> QED BY <1>1, <1>2, <3>1
  <2> QED BY <1>2, <2>1, <2>2
<1>4. CASE q = 0
  BY <1>1, <1>2, <1>4 DEF After, Slots, r
<1>5. CASE q = 1
  BY <1>1, <1>2, <1>5 DEF After, Slots, r
<1> QED BY <1>2, <1>3, <1>4, <1>5

\* Of two slots, a probe passes one before it comes to the other.
LEMMA OneComesFirst ==
  ASSUME NEW h \in Slots, NEW i \in Slots, NEW j \in Slots, i # j
  PROVE  Passed(h, i, j) \/ Passed(h, j, i)
  BY TableSize DEF Passed, Slots

LEMMA NotPassedItself ==
  ASSUME NEW h \in Slots, NEW i \in Slots
  PROVE  ~Passed(h, i, i)
  BY TableSize DEF Passed, Slots

\* What is passed on the way to a slot that is passed is passed.
LEMMA PassedOnTheWay ==
  ASSUME NEW h \in Slots, NEW x \in Slots, NEW i \in Slots, NEW j \in Slots,
         Passed(h, i, j), Passed(h, x, i)
  PROVE  Passed(h, x, j)
  BY TableSize DEF Passed, Slots

\* cannot_move says whether the probe for j starts after the hole i.
LEMMA CannotMoveIs ==
  ASSUME NEW i \in Slots, NEW j \in Slots, i # j, NEW h \in Slots
  PROVE  Within(i, h, j) <=> ~Passed(h, i, j)
  BY TableSize DEF Passed, Within, Slots

LEMMA NothingWithin ==
  ASSUME NEW i \in Slots, NEW x \in Slots
  PROVE  ~Within(i, x, i)
  BY TableSize DEF Within, Slots

\* One slot further.
LEMMA WithinNext ==
  ASSUME NEW i \in Slots, NEW s \in Slots, NEW x \in Slots, After(s) # i,
         Within(i, x, After(s))
  PROVE  x = After(s) \/ Within(i, x, s)
  BY TableSize, AfterIs DEF Within, Slots

\* A probe that passes the hole and ends beyond what was scanned passes the next
\* slot, or ends there.
LEMMA BeyondTheScan ==
  ASSUME NEW i \in Slots, NEW s \in Slots, NEW h \in Slots, NEW p \in Slots,
         p # i, Passed(h, i, p), ~Within(i, p, s)
  PROVE  /\ After(s) # i
         /\ p = After(s) \/ Passed(h, After(s), p)
  BY TableSize, AfterIs DEF Passed, Within, Slots

----------------------------------------------------------------------------
(* The table.                                                              *)

LEMMA ShapeFacts ==
  ASSUME Shape
  PROVE  /\ \A i \in Slots : /\ slots[i] \in Slot /\ slots[i].key \in Keys
                             /\ home[slots[i].key] \in Slots
         /\ \A k \in Keys : home[k] \in Slots
  BY DEF Shape, Slot

\* What a probe that has stopped knows: the key is in the slot or nowhere.
LEMMA KeyIsHereOrNowhere ==
  ASSUME TableInv, Idle, NEW k \in Keys, NEW i \in Slots, StopsAt(i, k)
  PROVE  \A j \in Slots : Used(j) /\ slots[j].key = k => j = i
<1> SUFFICES ASSUME NEW j \in Slots, Used(j), slots[j].key = k, j # i PROVE FALSE
  OBVIOUS
<1>1. home[k] \in Slots
  BY ShapeFacts DEF TableInv
<1>2. ~Passed(home[k], j, i)
  BY DEF StopsAt, Stops
<1>3. Passed(home[k], i, j)
  BY <1>1, <1>2, OneComesFirst
<1>4. Used(i)
  BY <1>3, TableSize DEF TableInv, EveryEntryReachable, Idle
<1>5. slots[i].key = k
  BY <1>4 DEF StopsAt, Stops
<1> QED BY <1>4, <1>5 DEF TableInv, OneSlotPerKey

LEMMA InsertKeeps ==
  ASSUME TableInv, Idle, NEW k \in Keys, NEW v \in Values, NEW i \in Slots, StopsAt(i, k),
         Inserted(i, k, v), UNCHANGED <<home, hole, scan>>
  PROVE  TableInv'
<1>1. /\ slots' = [slots EXCEPT ![i] = [key |-> k, value |-> v]]
      /\ home' = home /\ hole' = hole /\ scan' = scan /\ v # NoOrder /\ hole = NoSlot
  BY IndexAssumption DEF Inserted, Idle
<1>2. Shape'
  BY <1>1 DEF TableInv, Shape, Slot
<1>3. /\ Used(i)' /\ slots'[i].key = k
      /\ \A j \in Slots : j # i => (Used(j)' <=> Used(j)) /\ slots'[j] = slots[j]
  BY <1>1 DEF TableInv, Shape, Used
<1>4. \A x \in Slots : Used(x) => Used(x)'
  BY <1>3
<1>5. EveryEntryReachable'
  <2> SUFFICES ASSUME NEW j \in Slots, Used(j)', NEW x \in Slots,
                      Passed(home[slots'[j].key], x, j)
               PROVE  Used(x)'
    BY <1>1 DEF EveryEntryReachable, Passed
  <2>1. CASE j = i
    <3>1. ~Stops(x, k)
      BY <1>3, <2>1 DEF StopsAt
    <3> QED BY <1>4, <3>1 DEF Stops
  <2>2. CASE j # i
    <3>1. Used(j) /\ Passed(home[slots[j].key], x, j)
      BY <1>3, <2>2
    <3>2. Used(x) \/ x = hole
      BY <3>1 DEF TableInv, EveryEntryReachable
    <3> QED BY <1>1, <1>4, <3>2, TableSize
  <2> QED BY <2>1, <2>2
<1>6. OneSlotPerKey'
  <2> SUFFICES ASSUME NEW a \in Slots, NEW b \in Slots, Used(a)', Used(b)',
                      slots'[a].key = slots'[b].key
               PROVE  a = b
    BY DEF OneSlotPerKey
  <2>1. \A j \in Slots : j # i /\ Used(j)' => slots'[j].key # k
    BY <1>3, KeyIsHereOrNowhere
  <2>2. CASE a = i \/ b = i
    BY <1>3, <2>1, <2>2
  <2>3. CASE a # i /\ b # i
    BY <1>3, <2>3 DEF TableInv, OneSlotPerKey
  <2> QED BY <2>2, <2>3
<1>7. Scanned'
  BY <1>1 DEF Scanned
<1> QED BY <1>2, <1>5, <1>6, <1>7 DEF TableInv

\* Emptying a slot, which becomes the hole.
LEMMA EraseKeeps ==
  ASSUME TableInv, Idle, NEW i \in Slots, Used(i),
         slots' = [slots EXCEPT ![i].value = NoOrder], hole' = i, scan' = i, home' = home
  PROVE  TableInv'
<1>1. Shape'
  BY DEF TableInv, Shape, Slot
<1>2. /\ ~Used(i)' /\ slots'[i].key = slots[i].key
      /\ \A j \in Slots : j # i => (Used(j)' <=> Used(j)) /\ slots'[j] = slots[j]
  BY DEF TableInv, Shape, Used, Slot
<1>3. EveryEntryReachable'
  <2> SUFFICES ASSUME NEW j \in Slots, Used(j)', NEW x \in Slots,
                      Passed(home[slots'[j].key], x, j), x # i
               PROVE  Used(x)'
    BY DEF EveryEntryReachable, Passed
  <2>1. Used(j) /\ Passed(home[slots[j].key], x, j)
    BY <1>2
  <2>2. Used(x) \/ x = hole
    BY <2>1 DEF TableInv, EveryEntryReachable
  <2> QED BY <1>2, <2>2, TableSize DEF Idle
<1>4. OneSlotPerKey'
  BY <1>2 DEF TableInv, OneSlotPerKey
<1>5. Scanned'
  <2>1. ~Used(hole)'
    BY <1>2
  <2>2. \A x \in Slots : ~Within(i, x, i)
    BY NothingWithin
  <2> QED BY <2>1, <2>2 DEF Scanned, Within
<1> QED BY <1>1, <1>3, <1>4, <1>5 DEF TableInv

LEMMA ShiftEndsKeeps == ASSUME TableInv, ShiftEnds PROVE TableInv'
<1>1. /\ slots' = slots /\ home' = home /\ hole' = NoSlot /\ scan' = NoSlot
      /\ hole \in Slots /\ scan \in Slots /\ ~Used(After(scan)) /\ hole # NoSlot
  BY TableSize DEF ShiftEnds, Idle, TableInv, Shape
<1>2. Shape' /\ OneSlotPerKey' /\ Scanned'
  BY <1>1 DEF TableInv, Shape, OneSlotPerKey, Used, Scanned
<1>3. EveryEntryReachable'
  <2> SUFFICES ASSUME NEW p \in Slots, Used(p), NEW x \in Slots,
                      Passed(home[slots[p].key], x, p), x = hole
               PROVE  FALSE
    BY <1>1 DEF TableInv, EveryEntryReachable, Used
  <2>1. home[slots[p].key] \in Slots
    BY ShapeFacts DEF TableInv
  <2>2. p # hole /\ ~Within(hole, p, scan)
    BY <1>1 DEF TableInv, Scanned
  <2>3. /\ After(scan) # hole
        /\ p = After(scan) \/ Passed(home[slots[p].key], After(scan), p)
    BY <1>1, <2>1, <2>2, BeyondTheScan
  <2>4. After(scan) \in Slots
    BY <1>1, AfterIs
  <2> QED BY <1>1, <2>3, <2>4 DEF TableInv, EveryEntryReachable
<1> QED BY <1>2, <1>3 DEF TableInv

LEMMA ShiftPassesKeeps == ASSUME TableInv, ShiftPasses PROVE TableInv'
<1> DEFINE j == After(scan)
<1>1. /\ slots' = slots /\ home' = home /\ hole' = hole /\ scan' = j
      /\ hole \in Slots /\ scan \in Slots /\ hole # NoSlot
      /\ Used(j) /\ Within(hole, home[slots[j].key], j)
  BY TableSize DEF ShiftPasses, CannotMove, Idle, TableInv, Shape
<1>2. j \in Slots /\ j # hole
  BY <1>1, AfterIs DEF TableInv, Scanned
<1>3. Shape' /\ OneSlotPerKey' /\ EveryEntryReachable'
  BY <1>1, <1>2 DEF TableInv, Shape, OneSlotPerKey, EveryEntryReachable, Used
<1>4. \A x \in Slots : Within(hole, x, j) => Used(x) /\ ~Passed(home[slots[x].key], hole, x)
  <2> SUFFICES ASSUME NEW x \in Slots, Within(hole, x, j)
               PROVE  Used(x) /\ ~Passed(home[slots[x].key], hole, x)
    OBVIOUS
  <2>1. CASE x = j
    <3>1. home[slots[j].key] \in Slots
      BY <1>2, ShapeFacts DEF TableInv
    <3> QED BY <1>1, <1>2, <2>1, <3>1, CannotMoveIs
  <2>2. CASE Within(hole, x, scan)
    BY <1>1, <2>2 DEF TableInv, Scanned
  <2> QED BY <1>1, <1>2, <2>1, <2>2, WithinNext
<1>5. Scanned'
  BY <1>1, <1>4 DEF TableInv, Scanned, Used
<1> QED BY <1>3, <1>5 DEF TableInv

\* The entry that fills the hole is reached sooner; what was behind it may now
\* have the new hole on its way.
LEMMA ShiftMovesKeeps == ASSUME TableInv, ShiftMoves PROVE TableInv'
<1>1. PICK j \in Slots : j = After(scan)
  BY AfterIs DEF ShiftMoves, Idle, TableInv, Shape
<1>2. PICK g \in Slots : g = hole
  BY DEF ShiftMoves, Idle, TableInv, Shape
<1>3. /\ slots' = [slots EXCEPT ![g] = slots[j], ![j].value = NoOrder]
      /\ home' = home /\ hole' = j /\ scan' = j
      /\ Used(j) /\ ~Within(g, home[slots[j].key], j)
  BY <1>1, <1>2 DEF ShiftMoves, CannotMove
<1>4. ~Used(g) /\ j # g
  BY <1>3, <1>2, TableSize DEF TableInv, Scanned
<1>5. PICK h \in Slots : h = home[slots[j].key]
  BY ShapeFacts DEF TableInv
<1>6. Passed(h, g, j)
  BY <1>3, <1>4, <1>5, CannotMoveIs
<1>7. Shape'
  BY <1>3 DEF TableInv, Shape, Slot
<1>8. /\ ~Used(j)' /\ slots'[g] = slots[j]
      /\ \A x \in Slots : x # j /\ x # g => slots'[x] = slots[x]
  BY <1>3, <1>4 DEF TableInv, Shape, Used, Slot
<1>9. /\ Used(g)'
      /\ \A x \in Slots : x # j /\ x # g => (Used(x)' <=> Used(x))
  BY <1>3, <1>8 DEF Used
<1>10. EveryEntryReachable'
  <2> SUFFICES ASSUME NEW p \in Slots, Used(p)', NEW x \in Slots,
                      Passed(home[slots'[p].key], x, p), x # j
               PROVE  Used(x)'
    BY <1>3 DEF EveryEntryReachable, Passed
  <2>1. p # j
    BY <1>8
  <2>2. CASE p = g
    <3>1. Passed(h, x, g)
      BY <1>8, <1>5, <2>2
    <3>2. Passed(h, x, j)
      BY <1>6, <3>1, PassedOnTheWay
    <3>3. x # g
      BY <3>1, NotPassedItself
    <3>4. Used(x)
      BY <1>3, <1>2, <1>5, <3>2, <3>3 DEF TableInv, EveryEntryReachable
    <3> QED BY <1>9, <3>3, <3>4
  <2>3. CASE p # g
    <3>1. Used(p) /\ Passed(home[slots[p].key], x, p)
      BY <1>8, <1>9, <2>1, <2>3
    <3>2. Used(x) \/ x = g
      BY <1>2, <3>1 DEF TableInv, EveryEntryReachable
    <3> QED BY <1>9, <3>2
  <2> QED BY <2>2, <2>3
<1>11. OneSlotPerKey'
  <2> SUFFICES ASSUME NEW a \in Slots, NEW b \in Slots, Used(a)', Used(b)',
                      slots'[a].key = slots'[b].key
               PROVE  a = b
    BY DEF OneSlotPerKey
  <2>1. a # j /\ b # j
    BY <1>8
  <2>2. \A c \in Slots : c # j /\ c # g /\ Used(c)' => slots'[c].key # slots[j].key
    BY <1>3, <1>8, <1>9 DEF TableInv, OneSlotPerKey
  <2>3. CASE a = g \/ b = g
    BY <1>8, <2>1, <2>2, <2>3
  <2>4. CASE a # g /\ b # g
    BY <1>8, <1>9, <2>1, <2>4 DEF TableInv, OneSlotPerKey
  <2> QED BY <2>3, <2>4
<1>12. Scanned'
  <2>1. \A x \in Slots : ~Within(j, x, j)
    BY NothingWithin
  <2> QED BY <1>3, <1>8, <2>1 DEF Scanned, Within
<1> QED BY <1>7, <1>10, <1>11, <1>12 DEF TableInv

----------------------------------------------------------------------------
(* The count.                                                              *)

UsedSlots == {i \in Slots : Used(i)}

LEMMA UsedSlotsFinite == IsFiniteSet(UsedSlots) /\ Cardinality(UsedSlots) \in Nat
<1>1. IsFiniteSet(Slots)
  BY TableSize, FS_Interval DEF Slots
<1>2. UsedSlots \subseteq Slots
  BY DEF UsedSlots
<1> QED BY <1>1, <1>2, FS_Subset, FS_CardinalityType

LEMMA InsertCounts ==
  ASSUME Shape, NEW k \in Keys, NEW v \in Values, NEW i \in Slots, Inserted(i, k, v),
         SizeIsExact, Idle, hole' = hole
  PROVE  SizeIsExact'
<1>1. /\ \A j \in Slots : Used(j)' <=> Used(j) \/ j = i
      /\ size' = IF Used(i) THEN size ELSE size + 1
  BY IndexAssumption DEF Inserted, Shape, Used
<1>2. UsedSlots' = UsedSlots \cup {i}
  BY <1>1 DEF UsedSlots
<1>3. Cardinality(UsedSlots') = IF Used(i) THEN Cardinality(UsedSlots)
                                ELSE Cardinality(UsedSlots) + 1
  <2>1. i \in UsedSlots <=> Used(i)
    BY DEF UsedSlots
  <2> QED BY <1>2, <2>1, UsedSlotsFinite, FS_AddElement
<1>4. size = Cardinality(UsedSlots) + 0
  BY DEF SizeIsExact, UsedSlots
<1>5. size' = Cardinality(UsedSlots') + 0
  BY <1>1, <1>3, <1>4, UsedSlotsFinite
<1>6. Idle'
  BY DEF Idle
<1> QED BY <1>5, <1>6 DEF SizeIsExact, UsedSlots

LEMMA EraseCounts ==
  ASSUME Shape, SizeIsExact, Idle, NEW i \in Slots, Used(i),
         slots' = [slots EXCEPT ![i].value = NoOrder], hole' = i, size' = size
  PROVE  SizeIsExact'
<1>1. \A j \in Slots : Used(j)' <=> Used(j) /\ j # i
  BY DEF Shape, Used, Slot
<1>2. UsedSlots' = UsedSlots \ {i} /\ i \in UsedSlots
  BY <1>1 DEF UsedSlots
<1>3. Cardinality(UsedSlots') = Cardinality(UsedSlots) - 1
  BY <1>2, UsedSlotsFinite, FS_RemoveElement
<1>4. size = Cardinality(UsedSlots) + 0
  BY DEF SizeIsExact, UsedSlots
<1>5. size' = Cardinality(UsedSlots') + 1
  BY <1>3, <1>4, UsedSlotsFinite
<1>6. ~Idle'
  BY TableSize DEF Idle
<1> QED BY <1>5, <1>6 DEF SizeIsExact, UsedSlots

LEMMA MoveCounts ==
  ASSUME TableInv, SizeIsExact, ShiftMoves
  PROVE  SizeIsExact'
<1>1. PICK j \in Slots : j = After(scan)
  BY AfterIs DEF ShiftMoves, Idle, TableInv, Shape
<1>2. PICK g \in Slots : g = hole
  BY DEF ShiftMoves, Idle, TableInv, Shape
<1>3. /\ slots' = [slots EXCEPT ![g] = slots[j], ![j].value = NoOrder]
      /\ Used(j) /\ hole' = j /\ size' = size
  BY <1>1, <1>2 DEF ShiftMoves
<1>4. ~Used(g) /\ j # g
  BY <1>2, <1>3, TableSize DEF TableInv, Scanned
<1>5. \A x \in Slots : Used(x)' <=> x = g \/ (Used(x) /\ x # j)
  BY <1>3, <1>4 DEF TableInv, Shape, Used, Slot
<1> DEFINE rest == UsedSlots \ {j}
<1>6. UsedSlots' = rest \cup {g} /\ j \in UsedSlots /\ g \notin rest
  BY <1>3, <1>4, <1>5 DEF UsedSlots
<1>7. IsFiniteSet(rest) /\ Cardinality(rest) = Cardinality(UsedSlots) - 1
  BY <1>6, UsedSlotsFinite, FS_RemoveElement
<1> HIDE DEF rest
<1>8. Cardinality(UsedSlots') = Cardinality(rest) + 1
  BY <1>6, <1>7, FS_AddElement
<1>9. Cardinality(UsedSlots') = Cardinality(UsedSlots)
  BY <1>7, <1>8, UsedSlotsFinite
<1>10. ~Idle /\ ~Idle'
  BY <1>2, <1>3, TableSize DEF Idle
<1> QED BY <1>3, <1>9, <1>10 DEF SizeIsExact, UsedSlots

----------------------------------------------------------------------------
(* The invariant.                                                          *)

IInv == TypeOK /\ TableInv /\ SizeIsExact

LEMMA InitIInv == Init => IInv
<1> SUFFICES ASSUME Init PROVE IInv
  OBVIOUS
<1>1. Shape /\ (\A i \in Slots : ~Used(i)) /\ Idle
  BY IndexAssumption DEF Init, Shape, NeverUsed, Slot, Used, Idle
<1>2. TypeOK
  <2>1. 0 \in 0..Size \div 2
    BY TableSize
  <2> QED BY <1>1, <2>1 DEF Init, Shape, TypeOK
<1>3. EveryEntryReachable /\ OneSlotPerKey /\ Scanned
  BY <1>1 DEF EveryEntryReachable, OneSlotPerKey, Scanned, Idle
<1>4. SizeIsExact
  <2>1. UsedSlots = {}
    BY <1>1 DEF UsedSlots
  <2> QED BY <1>1, <2>1, FS_EmptySet DEF SizeIsExact, UsedSlots, Init
<1> QED BY <1>1, <1>2, <1>3, <1>4 DEF IInv, TableInv

\* What the count says of the range of size.
LEMMA CountInRange ==
  ASSUME SizeIsExact, size <= Size \div 2
  PROVE  size \in 0..Size \div 2 /\ (~Idle => size >= 1)
<1>1. size = Cardinality(UsedSlots) + (IF Idle THEN 0 ELSE 1)
  BY DEF SizeIsExact, UsedSlots
<1>2. Size \div 2 \in Int
  BY TableSize
<1> QED BY <1>1, <1>2, UsedSlotsFinite

LEMMA InsertIInv ==
  ASSUME IInv, NEW k \in Keys, NEW v \in Values \cup {NoOrder}, Insert(k, v)
  PROVE  IInv'
<1>1. CASE UNCHANGED <<slots, size>>
  BY <1>1 DEF IInv, Insert, TypeOK, TableInv, Shape, EveryEntryReachable, OneSlotPerKey, Scanned,
              SizeIsExact, Used, Idle
<1>2. CASE v \in Values /\ ~AtLimit /\ \E i \in Slots : StopsAt(i, k) /\ Inserted(i, k, v)
  <2>1. PICK i \in Slots : StopsAt(i, k) /\ Inserted(i, k, v)
    BY <1>2
  <2>2. Idle /\ UNCHANGED <<home, hole, scan>> /\ answer' \in BOOLEAN
    BY DEF Insert
  <2>3. TableInv' /\ SizeIsExact'
    BY <1>2, <2>1, <2>2, InsertKeeps, InsertCounts DEF IInv, TableInv
  <2>4. size' <= Size \div 2
    BY <1>2, <2>1, TableSize DEF IInv, TypeOK, AtLimit, Inserted
  <2>5. size' \in 0..Size \div 2
    <3>1. (SizeIsExact /\ size <= Size \div 2 => size \in 0..Size \div 2)'
      BY CountInRange, PTL
    <3> QED BY <2>3, <2>4, <3>1
  <2> QED BY <2>2, <2>3, <2>5 DEF IInv, TypeOK, TableInv, Shape
<1>3. v \in Values \/ v = NoOrder
  OBVIOUS
<1> QED BY <1>1, <1>2, <1>3 DEF Insert

LEMMA EraseIInv == ASSUME IInv, NEW k \in Keys, Erase(k) PROVE IInv'
<1>1. PICK i \in Slots :
        /\ answer' = slots[i].value
        /\ IF Used(i) THEN /\ slots' = [slots EXCEPT ![i].value = NoOrder]
                           /\ hole' = i /\ scan' = i
                      ELSE UNCHANGED <<slots, hole, scan>>
  BY DEF Erase
<1>2. Idle /\ size' = size /\ home' = home /\ answer' \in Values \cup {NoOrder}
  BY <1>1 DEF Erase, IInv, TypeOK, Slot
<1>3. CASE Used(i)
  <2>1. TableInv' /\ SizeIsExact'
    BY <1>1, <1>2, <1>3, EraseKeeps, EraseCounts DEF IInv, TableInv
  <2> QED BY <1>1, <1>2, <1>3, <2>1 DEF IInv, TypeOK, TableInv, Shape
<1>4. CASE ~Used(i)
  BY <1>1, <1>2, <1>4 DEF IInv, TypeOK, TableInv, Shape, EveryEntryReachable, OneSlotPerKey,
                          Scanned, SizeIsExact, Used, Idle
<1> QED BY <1>3, <1>4

LEMMA ShiftIInv == ASSUME IInv, ShiftEnds \/ ShiftPasses \/ ShiftMoves PROVE IInv'
<1>1. CASE ShiftEnds
  <2>1. TableInv'
    BY <1>1, ShiftEndsKeeps DEF IInv
  <2>2. SizeIsExact'
    <3>1. UsedSlots' = UsedSlots /\ Idle' /\ ~Idle /\ size' = size - 1
      BY <1>1 DEF ShiftEnds, UsedSlots, Used, Idle
    <3>2. size = Cardinality(UsedSlots) + 1
      BY <3>1 DEF IInv, SizeIsExact, UsedSlots
    <3>3. size' = Cardinality(UsedSlots') + 0
      BY <3>1, <3>2, UsedSlotsFinite
    <3> QED BY <3>1, <3>3 DEF SizeIsExact, UsedSlots
  <2>3. size' \in 0..Size \div 2
    <3>1. size >= 1 /\ size' = size - 1 /\ size \in 0..Size \div 2
      BY <1>1, CountInRange, TableSize DEF ShiftEnds, IInv, TypeOK
    <3> QED BY <3>1, TableSize
  <2> QED BY <1>1, <2>1, <2>2, <2>3 DEF ShiftEnds, IInv, TypeOK, TableInv, Shape
<1>2. CASE ShiftPasses
  <2>1. TableInv'
    BY <1>2, ShiftPassesKeeps DEF IInv
  <2>2. SizeIsExact'
    BY <1>2 DEF ShiftPasses, IInv, SizeIsExact, Used, Idle
  <2> QED BY <1>2, <2>1, <2>2 DEF ShiftPasses, IInv, TypeOK, TableInv, Shape
<1>3. CASE ShiftMoves
  <2>1. TableInv' /\ SizeIsExact'
    BY <1>3, ShiftMovesKeeps, MoveCounts DEF IInv
  <2> QED BY <1>3, <2>1 DEF ShiftMoves, IInv, TypeOK, TableInv, Shape
<1> QED BY <1>1, <1>2, <1>3

LEMMA ClearIInv == ASSUME IInv, Clear PROVE IInv'
<1>1. /\ slots' = NeverUsed /\ size' = 0 /\ home' = home /\ answer' = answer /\ Idle
      /\ hole' = hole /\ scan' = scan
  BY DEF Clear
<1>2. Shape' /\ Idle' /\ \A i \in Slots : ~Used(i)'
  BY <1>1, IndexAssumption DEF IInv, TableInv, Shape, NeverUsed, Slot, Used, Idle
<1>3. (EveryEntryReachable /\ OneSlotPerKey /\ Scanned)'
  BY <1>1, <1>2 DEF EveryEntryReachable, OneSlotPerKey, Scanned, Idle
<1>4. SizeIsExact'
  <2>1. UsedSlots' = {}
    BY <1>2 DEF UsedSlots
  <2>2. Cardinality(UsedSlots') = 0
    BY <2>1, FS_EmptySet
  <2> QED BY <1>1, <1>2, <2>2 DEF SizeIsExact, UsedSlots
<1>5. size' \in 0..Size \div 2
  BY <1>1, TableSize
<1> QED BY <1>1, <1>2, <1>3, <1>4, <1>5 DEF IInv, TypeOK, TableInv, Shape

LEMMA StepKeeps == IInv /\ [Next]_vars => IInv'
<1> SUFFICES ASSUME IInv, [Next]_vars PROVE IInv'
  OBVIOUS
<1>1. CASE UNCHANGED vars
  BY <1>1 DEF vars, IInv, TypeOK, TableInv, Shape, EveryEntryReachable, OneSlotPerKey, Scanned,
              SizeIsExact, Used, Idle
<1>2. ASSUME NEW k \in Keys, Find(k) PROVE IInv'
  <2>1. answer' \in Values \cup {NoOrder} /\ UNCHANGED <<slots, size, home, hole, scan>>
    BY <1>2 DEF Find, IInv, TypeOK, Slot
  <2> QED BY <2>1 DEF IInv, TypeOK, TableInv, Shape, EveryEntryReachable, OneSlotPerKey, Scanned,
                      SizeIsExact, Used, Idle
<1> QED BY <1>1, <1>2, InsertIInv, EraseIInv, ShiftIInv, ClearIInv DEF Next

\* Whatever the references, the policy and the size of the table, insertions and
\* deletions leave every entry where a probe finds it, each reference in one slot
\* at most, and the count on which the load limit rests exact.
THEOREM EntriesStayReachable ==
  Spec => [](TypeOK /\ EveryEntryReachable /\ OneSlotPerKey /\ SizeIsExact)
<1>1. IInv => TypeOK /\ EveryEntryReachable /\ OneSlotPerKey /\ SizeIsExact
  BY DEF IInv, TableInv
<1> QED BY <1>1, InitIInv, StepKeeps, PTL DEF Spec

----------------------------------------------------------------------------
(* Every probe ends.                                                       *)

LEMMA Least ==
  ASSUME NEW T \in SUBSET Nat, T # {}
  PROVE  \E x \in T : \A y \in T : x <= y
<1> DEFINE R == OpToRel(<, Nat)
<1>1. IsWellFoundedOn(R, Nat)
  BY NatLessThanWellFounded
<1>2. \A x, y \in Nat : x < y => <<x, y>> \in R
  BY DEF OpToRel
<1> HIDE DEF R
<1>3. PICK x \in T : \A y \in T : ~(<<y, x>> \in R)
  BY <1>1, WFMin
<1>4. ASSUME NEW y \in T PROVE x <= y
  <2>1. x \in Nat /\ y \in Nat
    OBVIOUS
  <2>2. ~(y < x)
    BY <1>2, <1>3, <2>1
  <2> QED BY <2>1, <2>2
<1> QED BY <1>4

\* Some slot is empty: the load limit is below the size of the table.
LEMMA SomeSlotIsEmpty == ASSUME IInv PROVE \E i \in Slots : ~Used(i)
<1> SUFFICES ASSUME \A i \in Slots : Used(i) PROVE FALSE
  OBVIOUS
<1>1. UsedSlots = Slots /\ Slots = 0..Size - 1
  BY DEF UsedSlots, Slots
<1>2. Cardinality(UsedSlots) = Size
  BY <1>1, TableSize, FS_Interval
<1>3. size = Cardinality(UsedSlots) + (IF Idle THEN 0 ELSE 1) /\ size <= Size \div 2
  BY TableSize DEF IInv, SizeIsExact, TypeOK, UsedSlots
<1>4. Size \div 2 < Size /\ Size \div 2 \in Int
  BY TableSize
<1> QED BY <1>2, <1>3, <1>4, TableSize

\* The first slot at or after the home where the loops stop, or else the first
\* of the table.
LEMMA ProbeStops == ASSUME IInv, NEW k \in Keys PROVE \E i \in Slots : StopsAt(i, k)
<1>1. PICK h \in Slots : h = home[k]
  BY ShapeFacts DEF IInv, TableInv
<1> DEFINE all == {i \in Slots : Stops(i, k)}
           high == {i \in all : h <= i}
<1>2. all \subseteq Nat /\ high \subseteq Nat /\ all # {}
  <2>1. PICK i \in Slots : ~Used(i)
    BY SomeSlotIsEmpty
  <2> QED BY <2>1, TableSize DEF Stops, Slots
<1>3. CASE high # {}
  <2>1. PICK i \in high : \A y \in high : i <= y
    BY <1>2, <1>3, Least
  <2>2. StopsAt(i, k)
    BY <1>1, <2>1, TableSize DEF StopsAt, Passed, Slots
  <2> QED BY <2>1, <2>2
<1>4. CASE high = {}
  <2>1. PICK i \in all : \A y \in all : i <= y
    BY <1>2, Least
  <2>2. StopsAt(i, k)
    BY <1>1, <1>4, <2>1, TableSize DEF StopsAt, Passed, Slots
  <2> QED BY <2>1, <2>2
<1> QED BY <1>3, <1>4

\* Every probe ends, for every reference, in the table or not: find, insert and
\* erase do not loop.
THEOREM ProbesEnd == Spec => [](\A k \in Keys : \E i \in Slots : StopsAt(i, k))
<1>1. IInv => \A k \in Keys : \E i \in Slots : StopsAt(i, k)
  BY ProbeStops
<1> QED BY <1>1, InitIInv, StepKeeps, PTL DEF Spec

----------------------------------------------------------------------------
(* The table as a map.                                                     *)

\* What Contents says of the slots.
Reading ==
  /\ Contents \in [Keys -> Values \cup {NoOrder}]
  /\ \A i \in Slots : Used(i) => Contents[slots[i].key] = slots[i].value
  /\ \A k \in Keys : Contents[k] # NoOrder => \E i \in Slots : Used(i) /\ slots[i].key = k

LEMMA ContentsRead == TableInv => Reading
<1> SUFFICES ASSUME TableInv PROVE Reading
  OBVIOUS
<1>1. ASSUME NEW i \in Slots, Used(i) PROVE Contents[slots[i].key] = slots[i].value
  <2>1. slots[i].key \in Keys
    BY ShapeFacts DEF TableInv
  <2>2. PICK k \in Keys : k = slots[i].key
    BY <2>1
  <2>3. Contents[k] = slots[CHOOSE j \in Slots : Used(j) /\ slots[j].key = k].value
    BY <1>1, <2>2 DEF Contents
  <2>4. (CHOOSE j \in Slots : Used(j) /\ slots[j].key = k) = i
    BY <1>1, <2>2 DEF TableInv, OneSlotPerKey
  <2> QED BY <2>2, <2>3, <2>4
<1>2. \A k \in Keys : Contents[k] # NoOrder => \E i \in Slots : Used(i) /\ slots[i].key = k
  BY DEF Contents
<1>3. ASSUME NEW k \in Keys PROVE Contents[k] \in Values \cup {NoOrder}
  <2>1. CASE \E i \in Slots : Used(i) /\ slots[i].key = k
    <3>1. PICK i \in Slots : Used(i) /\ slots[i].key = k
      BY <2>1
    <3>2. slots[i] \in Slot
      BY ShapeFacts DEF TableInv
    <3> QED BY <1>1, <3>1, <3>2 DEF Slot
  <2>2. CASE ~\E i \in Slots : Used(i) /\ slots[i].key = k
    BY <2>2 DEF Contents
  <2> QED BY <2>1, <2>2
<1>4. Contents \in [Keys -> Values \cup {NoOrder}]
  BY <1>3 DEF Contents
<1> QED BY <1>1, <1>2, <1>4 DEF Reading

\* A reference whose entry, if any, is the same in both states.
LEMMA CarriedOver ==
  ASSUME Reading, Reading', NEW m \in Keys,
         \A i \in Slots : Used(i) /\ slots[i].key = m
           => \E j \in Slots : Used(j)' /\ slots'[j].key = m /\ slots'[j].value = slots[i].value,
         \A j \in Slots : Used(j)' /\ slots'[j].key = m
           => \E i \in Slots : Used(i) /\ slots[i].key = m
  PROVE  Contents'[m] = Contents[m]
<1>1. CASE \E i \in Slots : Used(i) /\ slots[i].key = m
  <2>1. PICK i \in Slots : Used(i) /\ slots[i].key = m
    BY <1>1
  <2>2. PICK j \in Slots : Used(j)' /\ slots'[j].key = m /\ slots'[j].value = slots[i].value
    BY <2>1
  <2> QED BY <2>1, <2>2 DEF Reading
<1>2. CASE ~\E i \in Slots : Used(i) /\ slots[i].key = m
  <2>1. ~\E j \in Slots : Used(j)' /\ slots'[j].key = m
    BY <1>2
  <2> QED BY <1>2, <2>1 DEF Reading
<1> QED BY <1>1, <1>2

\* Where a probe stops is what the map says.
LEMMA ProbeReads ==
  ASSUME TableInv, Idle, NEW k \in Keys, NEW i \in Slots, StopsAt(i, k)
  PROVE  slots[i].value = Contents[k] /\ (Used(i) <=> Contents[k] # NoOrder)
<1>1. Reading
  BY ContentsRead
<1>2. CASE Used(i)
  BY <1>1, <1>2 DEF StopsAt, Stops, Reading, Used
<1>3. CASE ~Used(i)
  <2>1. ~\E j \in Slots : Used(j) /\ slots[j].key = k
    BY <1>3, KeyIsHereOrNowhere
  <2> QED BY <1>1, <1>3, <2>1 DEF Reading, Used
<1> QED BY <1>2, <1>3

LEMMA InsertedReads ==
  ASSUME TableInv, TableInv', Idle, NEW k \in Keys, NEW v \in Values, NEW i \in Slots,
         StopsAt(i, k), Inserted(i, k, v)
  PROVE  Contents' = [Contents EXCEPT ![k] = v]
<1>1. Reading /\ Reading'
  BY ContentsRead, PTL
<1>2. /\ Used(i)' /\ slots'[i].key = k /\ slots'[i].value = v
      /\ \A j \in Slots : j # i => (Used(j)' <=> Used(j)) /\ slots'[j] = slots[j]
  BY IndexAssumption DEF Inserted, TableInv, Shape, Used
<1>3. Contents'[k] = v
  BY <1>1, <1>2 DEF Reading
<1>4. ASSUME NEW m \in Keys, m # k PROVE Contents'[m] = Contents[m]
  <2>1. \A j \in Slots : Used(j) /\ slots[j].key = m => j # i
    BY <1>4 DEF StopsAt, Stops
  <2>2. \A j \in Slots : Used(j)' /\ slots'[j].key = m => j # i
    BY <1>2, <1>4
  <2> QED BY <1>1, <1>2, <2>1, <2>2, CarriedOver
<1> QED BY <1>1, <1>3, <1>4 DEF Reading

LEMMA ErasedReads ==
  ASSUME TableInv, TableInv', NEW k \in Keys, NEW i \in Slots, Used(i), slots[i].key = k,
         slots' = [slots EXCEPT ![i].value = NoOrder]
  PROVE  Contents' = [Contents EXCEPT ![k] = NoOrder]
<1>1. Reading /\ Reading'
  BY ContentsRead, PTL
<1>2. /\ ~Used(i)'
      /\ \A j \in Slots : j # i => (Used(j)' <=> Used(j)) /\ slots'[j] = slots[j]
  BY DEF TableInv, Shape, Used, Slot
<1>3. Contents'[k] = NoOrder
  <2>1. ~\E j \in Slots : Used(j)' /\ slots'[j].key = k
    BY <1>2 DEF TableInv, OneSlotPerKey
  <2> QED BY <1>1, <2>1 DEF Reading
<1>4. ASSUME NEW m \in Keys, m # k PROVE Contents'[m] = Contents[m]
  BY <1>1, <1>2, <1>4, CarriedOver
<1> QED BY <1>1, <1>3, <1>4 DEF Reading

LEMMA MovesRead == ASSUME TableInv, TableInv', ShiftMoves PROVE Contents' = Contents
<1>1. Reading /\ Reading'
  BY ContentsRead, PTL
<1>2. PICK j \in Slots : j = After(scan)
  BY AfterIs DEF ShiftMoves, Idle, TableInv, Shape
<1>3. PICK g \in Slots : g = hole
  BY DEF ShiftMoves, Idle, TableInv, Shape
<1>4. slots' = [slots EXCEPT ![g] = slots[j], ![j].value = NoOrder] /\ Used(j)
  BY <1>2, <1>3 DEF ShiftMoves
<1>5. ~Used(g) /\ j # g
  BY <1>3, <1>4, TableSize DEF TableInv, Scanned
<1>6. /\ Used(g)' /\ ~Used(j)' /\ slots'[g] = slots[j]
      /\ \A x \in Slots : x # j /\ x # g => (Used(x)' <=> Used(x)) /\ slots'[x] = slots[x]
  BY <1>4, <1>5 DEF TableInv, Shape, Used, Slot
<1>7. ASSUME NEW m \in Keys PROVE Contents'[m] = Contents[m]
  <2>1. ASSUME NEW i \in Slots, Used(i), slots[i].key = m
        PROVE  \E x \in Slots : Used(x)' /\ slots'[x].key = m /\ slots'[x].value = slots[i].value
    <3>1. CASE i = j
      BY <1>6, <2>1, <3>1
    <3>2. CASE i # j
      BY <1>5, <1>6, <2>1, <3>2
    <3> QED BY <3>1, <3>2
  <2>2. ASSUME NEW x \in Slots, Used(x)', slots'[x].key = m
        PROVE  \E i \in Slots : Used(i) /\ slots[i].key = m
    <3>1. CASE x = g
      BY <1>4, <1>6, <2>2, <3>1
    <3>2. CASE x # g
      BY <1>6, <2>2, <3>2
    <3> QED BY <3>1, <3>2
  <2> QED BY <1>1, <2>1, <2>2, CarriedOver
<1> QED BY <1>1, <1>7 DEF Reading

----------------------------------------------------------------------------
(* The steps of the map.                                                   *)

LiveKeys == {k \in Keys : Contents[k] # NoOrder}

\* size_ counts the references as it counts the slots.
LiveCount ==
  IsFiniteSet(LiveKeys) /\ size = Cardinality(LiveKeys) + (IF Idle THEN 0 ELSE 1)

MapInv == IInv /\ LiveCount

LEMMA InitMap == Init => Map!Init /\ LiveCount
<1> SUFFICES ASSUME Init PROVE Map!Init /\ LiveCount
  OBVIOUS
<1>1. Reading
  BY InitIInv, ContentsRead DEF IInv
<1>2. \A i \in Slots : ~Used(i)
  BY DEF Init, NeverUsed, Used
<1>3. Contents = [k \in Keys |-> NoOrder]
  BY <1>1, <1>2 DEF Reading
<1>4. LiveKeys = {}
  BY <1>3 DEF LiveKeys
<1>5. size = 0 /\ Idle /\ answer = NoOrder
  BY DEF Init, Idle
<1> QED BY <1>3, <1>4, <1>5, FS_EmptySet DEF LiveCount, Map!Init

LEMMA EntriesAre == Map!Entries = Cardinality(LiveKeys)
  BY DEF Map!Entries, LiveKeys, Map!Cardinality, Cardinality

LEMMA InsertOfMap ==
  ASSUME MapInv, IInv', NEW k \in Keys, NEW v \in Values \cup {NoOrder}, Insert(k, v)
  PROVE  LiveCount' /\ Map!Insert(k, v)
<1>1. Idle /\ Idle' /\ size \in 0..Size \div 2 /\ Size \div 2 \in Int
  BY TableSize DEF Insert, Idle, MapInv, IInv, TypeOK
<1>2. size = Cardinality(LiveKeys) + 0 /\ IsFiniteSet(LiveKeys) /\ Cardinality(LiveKeys) \in Nat
  BY <1>1, FS_CardinalityType DEF MapInv, LiveCount
<1>3. CASE (v = NoOrder \/ AtLimit) /\ answer' = FALSE /\ UNCHANGED <<slots, size>>
  <2>1. Contents' = Contents /\ LiveKeys' = LiveKeys
    BY <1>3 DEF Contents, LiveKeys, Used
  <2>2. LiveCount'
    BY <1>1, <1>2, <1>3, <2>1 DEF LiveCount
  <2>3. v = NoOrder \/ Map!Entries = Size \div 2
    BY <1>1, <1>2, <1>3, EntriesAre DEF AtLimit
  <2> QED BY <1>3, <2>1, <2>2, <2>3 DEF Map!Insert
<1>4. CASE /\ v # NoOrder /\ ~AtLimit /\ answer' = TRUE
           /\ \E i \in Slots : StopsAt(i, k) /\ Inserted(i, k, v)
  <2>1. PICK i \in Slots : StopsAt(i, k) /\ Inserted(i, k, v)
    BY <1>4
  <2>2. v \in Values
    BY <1>4
  <2>3. Contents' = [Contents EXCEPT ![k] = v] /\ Reading
    BY <1>1, <2>1, <2>2, InsertedReads, ContentsRead DEF MapInv, IInv
  <2>4. LiveKeys' = LiveKeys \cup {k}
    BY <1>4, <2>3 DEF LiveKeys, Reading
  <2>5. k \in LiveKeys <=> Used(i)
    BY <1>1, <2>1, ProbeReads DEF LiveKeys, MapInv, IInv
  <2>6. /\ IsFiniteSet(LiveKeys')
        /\ Cardinality(LiveKeys') = IF Used(i) THEN Cardinality(LiveKeys)
                                    ELSE Cardinality(LiveKeys) + 1
    BY <1>2, <2>4, <2>5, FS_AddElement
  <2>7. size' = Cardinality(LiveKeys') + 0
    BY <1>2, <2>1, <2>6 DEF Inserted
  <2>8. LiveCount'
    BY <1>1, <2>6, <2>7 DEF LiveCount
  <2>9. Map!Entries < Size \div 2
    BY <1>1, <1>2, <1>4, EntriesAre DEF AtLimit
  <2> QED BY <1>4, <2>3, <2>8, <2>9 DEF Map!Insert
<1> QED BY <1>3, <1>4 DEF Insert

LEMMA EraseOfMap ==
  ASSUME MapInv, IInv', NEW k \in Keys, Erase(k)
  PROVE  LiveCount' /\ Map!Erase(k)
<1>1. PICK i \in Slots :
        /\ StopsAt(i, k) /\ answer' = slots[i].value
        /\ IF Used(i) THEN /\ slots' = [slots EXCEPT ![i].value = NoOrder]
                           /\ hole' = i /\ scan' = i
                      ELSE UNCHANGED <<slots, hole, scan>>
  BY DEF Erase
<1>2. Idle /\ size' = size
  BY DEF Erase
<1>3. answer' = Contents[k] /\ (Used(i) <=> Contents[k] # NoOrder)
  BY <1>1, <1>2, ProbeReads DEF MapInv, IInv
<1>4. size = Cardinality(LiveKeys) + 0 /\ IsFiniteSet(LiveKeys) /\ Cardinality(LiveKeys) \in Nat
  BY <1>2, FS_CardinalityType DEF MapInv, LiveCount
<1>5. Reading
  BY ContentsRead DEF MapInv, IInv
<1>6. CASE Used(i)
  <2>1. slots[i].key = k
    BY <1>1, <1>6 DEF StopsAt, Stops
  <2>2. Contents' = [Contents EXCEPT ![k] = NoOrder]
    BY <1>1, <1>6, <2>1, ErasedReads DEF MapInv, IInv
  <2>3. LiveKeys' = LiveKeys \ {k} /\ k \in LiveKeys
    BY <1>3, <1>5, <1>6, <2>2 DEF LiveKeys, Reading
  <2>4. IsFiniteSet(LiveKeys') /\ Cardinality(LiveKeys') = Cardinality(LiveKeys) - 1
    BY <1>4, <2>3, FS_RemoveElement
  <2>5. ~Idle'
    BY <1>1, <1>6, TableSize DEF Idle
  <2>6. size' = Cardinality(LiveKeys') + 1
    BY <1>2, <1>4, <2>4
  <2> QED BY <1>3, <2>2, <2>4, <2>5, <2>6 DEF LiveCount, Map!Erase
<1>7. CASE ~Used(i)
  <2>1. UNCHANGED <<slots, hole>>
    BY <1>1, <1>7
  <2>2. Contents' = Contents /\ LiveKeys' = LiveKeys /\ Idle'
    BY <1>2, <2>1 DEF Contents, LiveKeys, Used, Idle
  <2>3. Contents = [Contents EXCEPT ![k] = NoOrder]
    BY <1>3, <1>5, <1>7 DEF Reading
  <2> QED BY <1>2, <1>3, <1>4, <2>2, <2>3 DEF LiveCount, Map!Erase
<1> QED BY <1>6, <1>7

LEMMA ShiftOfMap ==
  ASSUME MapInv, IInv', ShiftEnds \/ ShiftPasses \/ ShiftMoves
  PROVE  LiveCount' /\ UNCHANGED Map!mapVars
<1>1. Contents' = Contents /\ answer' = answer /\ LiveKeys' = LiveKeys
  <2>1. CASE ShiftEnds \/ ShiftPasses
    BY <2>1 DEF ShiftEnds, ShiftPasses, Contents, LiveKeys, Used
  <2>2. CASE ShiftMoves
    <3>1. Contents' = Contents
      BY <2>2, MovesRead DEF MapInv, IInv
    <3> QED BY <2>2, <3>1 DEF ShiftMoves, LiveKeys
  <2> QED BY <2>1, <2>2
<1>2. ~Idle /\ IsFiniteSet(LiveKeys) /\ Cardinality(LiveKeys) \in Nat
  BY FS_CardinalityType DEF ShiftEnds, ShiftPasses, ShiftMoves, MapInv, LiveCount
<1>3. size = Cardinality(LiveKeys) + 1
  BY <1>2 DEF MapInv, LiveCount
<1>4. CASE ShiftEnds
  <2>1. size' = Cardinality(LiveKeys') + 0 /\ Idle'
    BY <1>1, <1>2, <1>3, <1>4 DEF ShiftEnds, Idle
  <2> QED BY <1>1, <1>2, <2>1 DEF LiveCount, Map!mapVars
<1>5. CASE ShiftPasses \/ ShiftMoves
  <2>1. ~Idle' /\ size' = size
    <3>1. After(scan) # NoSlot
      BY <1>2, AfterIs, TableSize DEF MapInv, IInv, TypeOK, Idle
    <3> QED BY <1>2, <1>5, <3>1 DEF ShiftPasses, ShiftMoves, Idle
  <2> QED BY <1>1, <1>2, <1>3, <2>1 DEF LiveCount, Map!mapVars
<1> QED BY <1>4, <1>5

LEMMA ClearOfMap ==
  ASSUME MapInv, IInv', Clear
  PROVE  LiveCount' /\ Map!Clear
<1>1. \A i \in Slots : ~Used(i)'
  BY DEF Clear, NeverUsed, Used
<1>2. Contents' = [k \in Keys |-> NoOrder]
  BY <1>1 DEF Contents
<1>3. LiveKeys' = {}
  BY <1>2 DEF LiveKeys
<1>4. size' = 0 /\ Idle' /\ answer' = answer
  BY DEF Clear, Idle
<1> QED BY <1>2, <1>3, <1>4, FS_EmptySet DEF LiveCount, Map!Clear

LEMMA StepOfMap ==
  MapInv /\ IInv' /\ [Next]_vars => LiveCount' /\ [Map!Next]_Map!mapVars
<1> SUFFICES ASSUME MapInv, IInv', [Next]_vars
             PROVE  LiveCount' /\ [Map!Next]_Map!mapVars
  BY SMTT(60)
<1>1. CASE UNCHANGED vars
  BY <1>1 DEF vars, MapInv, LiveCount, LiveKeys, Contents, Used, Idle, Map!mapVars
<1>2. ASSUME NEW k \in Keys, Find(k) PROVE LiveCount' /\ Map!Find(k)
  <2>1. UNCHANGED <<slots, size, hole>> /\ answer' = Contents[k]
    BY <1>2, ProbeReads DEF Find, MapInv, IInv
  <2>2. Contents' = Contents /\ LiveKeys' = LiveKeys
    BY <2>1 DEF Contents, LiveKeys, Used
  <2> QED BY <2>1, <2>2 DEF MapInv, LiveCount, Idle, Map!Find
<1>3. ASSUME NEW k \in Keys, Erase(k) PROVE LiveCount' /\ Map!Erase(k)
  BY <1>3, EraseOfMap
<1>4. ASSUME NEW k \in Keys, NEW v \in Values \cup {NoOrder}, Insert(k, v)
      PROVE  LiveCount' /\ Map!Insert(k, v)
  BY <1>4, InsertOfMap
<1>5. CASE ShiftEnds \/ ShiftPasses \/ ShiftMoves
  BY <1>5, ShiftOfMap
<1>6. CASE Clear
  BY <1>6, ClearOfMap DEF Map!Next
<1>7. CASE \E k \in Keys : Find(k) \/ Erase(k) \/ \E v \in Values \cup {NoOrder} : Insert(k, v)
  BY <1>2, <1>3, <1>4, <1>7 DEF Map!Next
<1> QED BY <1>1, <1>5, <1>6, <1>7 DEF Next

\* The index is a bounded map, for every table size, policy and set of
\* references: find, insert and erase answer and act as on the map of the
\* entries, and the steps of the backward shift do not show.
THEOREM IndexIsAMap == Spec => IsAMap
<1>1. Init => MapInv
  BY InitIInv, InitMap DEF MapInv
<1>2. MapInv /\ [Next]_vars => MapInv' /\ [Map!Next]_Map!mapVars
  BY StepKeeps, StepOfMap DEF MapInv
<1> QED BY <1>1, <1>2, InitMap, PTL DEF Spec, IsAMap
=============================================================================
