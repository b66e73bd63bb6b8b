----------------------------- MODULE OrderIndex -----------------------------
(***************************************************************************)
(* The order index of the fast book (order_index.hpp): linear probing in a *)
(* table of fixed size, and deletion by backward shift.                    *)
(*                                                                         *)
(* A probe is given by where it stops (StopsAt).  Deletion, which rewrites *)
(* the table as it goes, is a step per slot it looks at; nothing else      *)
(* happens before it ends.  The hash policy is any function.  Probe        *)
(* statistics are left out.                                                *)
(***************************************************************************)
EXTENDS Integers, FiniteSets

CONSTANTS
  Size,      \* slots_.size(), a power of two
  Keys,      \* order references
  Zero,      \* the reference 0, the key of a slot never used
  Values,    \* pool indices
  NoOrder,   \* kNoOrder, the value of an empty slot
  Policies   \* the hash policies: where each key's probe starts

Slots == 0..Size - 1

ASSUME IndexAssumption ==
  /\ Size \in Nat /\ Size >= 2
  /\ Zero \in Keys /\ NoOrder \notin Values
  /\ Policies \subseteq [Keys -> Slots]

VARIABLES
  slots,   \* slots_
  size,    \* size_
  home,    \* the policy the index was compiled with
  hole,    \* i of erase_at, the slot to be filled, or NoSlot
  scan,    \* j of erase_at, the slot looked at last, or NoSlot
  answer   \* what the last operation returned

vars == <<slots, size, home, hole, scan, answer>>

NoSlot == -1

Slot == [key : Keys, value : Values \cup {NoOrder}]

TypeOK ==
  /\ slots \in [Slots -> Slot]
  /\ size \in 0..Size \div 2
  /\ home \in Policies
  /\ \/ hole = NoSlot /\ scan = NoSlot
     \/ hole \in Slots /\ scan \in Slots
  /\ answer \in Values \cup {NoOrder} \cup BOOLEAN

NeverUsed == [i \in Slots |-> [key |-> Zero, value |-> NoOrder]]

Init ==
  /\ slots = NeverUsed /\ size = 0
  /\ home \in Policies
  /\ hole = NoSlot /\ scan = NoSlot /\ answer = NoOrder

----------------------------------------------------------------------------
Used(i) == slots[i].value # NoOrder

\* i + 1, round the end of the table.
After(i) == (i + 1) % Size

\* x is cyclically in [i, j): the slots a probe from i passes before j.
Passed(i, x, j) == IF i <= j THEN i <= x /\ x < j ELSE i <= x \/ x < j

\* x is cyclically in (i, j].
Within(i, x, j) == IF i <= j THEN i < x /\ x <= j ELSE i < x \/ x <= j

\* A mutant: an empty slot is recognised by its key.
Stops_ByKey(i, k) == slots[i].key = Zero \/ slots[i].key = k

\* Where the loops of find, insert and erase end.
Stops(i, k) == ~Used(i) \/ slots[i].key = k

StopsAt(i, k) ==
  /\ Stops(i, k)
  /\ \A x \in Slots : Passed(home[k], x, i) => ~Stops(x, k)

AtLimit == size + 1 > Size \div 2

Idle == hole = NoSlot

Find(k) ==
  /\ Idle
  /\ \E i \in Slots : StopsAt(i, k) /\ answer' = slots[i].value
  /\ UNCHANGED <<slots, size, home, hole, scan>>

Inserted(i, k, v) ==
  /\ slots' = [slots EXCEPT ![i] = [key |-> k, value |-> v]]
  /\ size' = IF Used(i) THEN size ELSE size + 1

Insert(k, v) ==
  /\ Idle
  /\ \/ /\ v = NoOrder \/ AtLimit
        /\ answer' = FALSE
        /\ UNCHANGED <<slots, size>>
     \/ /\ v # NoOrder /\ ~AtLimit
        /\ \E i \in Slots : StopsAt(i, k) /\ Inserted(i, k, v)
        /\ answer' = TRUE
  /\ UNCHANGED <<home, hole, scan>>

\* erase() up to the first turn of erase_at, which empties the slot.
Erase(k) ==
  /\ Idle
  /\ \E i \in Slots :
       /\ StopsAt(i, k)
       /\ answer' = slots[i].value
       /\ IF Used(i) THEN /\ slots' = [slots EXCEPT ![i].value = NoOrder]
                          /\ hole' = i /\ scan' = i
                     ELSE UNCHANGED <<slots, hole, scan>>
  /\ UNCHANGED <<size, home>>

\* A mutant: the comparison without its cyclic case.
CannotMove_NoWrap(j) == hole < home[slots[j].key] /\ home[slots[j].key] <= j

CannotMove(j) == Within(hole, home[slots[j].key], j)

\* The run has ended; then erase() counts.
ShiftEnds ==
  /\ ~Idle /\ ~Used(After(scan))
  /\ hole' = NoSlot /\ scan' = NoSlot
  /\ size' = size - 1
  /\ UNCHANGED <<slots, home, answer>>

\* An entry at or after its home, seen from the hole, stays.
ShiftPasses ==
  /\ ~Idle
  /\ Used(After(scan)) /\ CannotMove(After(scan))
  /\ scan' = After(scan)
  /\ UNCHANGED <<slots, size, home, hole, answer>>

\* Another fills the hole and leaves one.
ShiftMoves ==
  /\ ~Idle
  /\ LET j == After(scan)
     IN  /\ Used(j) /\ ~CannotMove(j)
         /\ slots' = [slots EXCEPT ![hole] = slots[j], ![j].value = NoOrder]
         /\ hole' = j /\ scan' = j
  /\ UNCHANGED <<size, home, answer>>

Clear ==
  /\ Idle
  /\ slots' = NeverUsed /\ size' = 0
  /\ UNCHANGED <<home, hole, scan, answer>>

Next ==
  \/ \E k \in Keys : Find(k) \/ Erase(k) \/ \E v \in Values \cup {NoOrder} : Insert(k, v)
  \/ ShiftEnds \/ ShiftPasses \/ ShiftMoves
  \/ Clear

Spec == Init /\ [][Next]_vars

----------------------------------------------------------------------------
(* Properties.                                                             *)

\* Every entry can be reached: no slot that its probe passes is empty, but for
\* the hole of a deletion under way.
EveryEntryReachable ==
  \A i \in Slots : Used(i) =>
    \A x \in Slots : Passed(home[slots[i].key], x, i) => Used(x) \/ x = hole

\* A reference has one slot at most, so that none survives its deletion.
OneSlotPerKey ==
  \A i, j \in Slots : Used(i) /\ Used(j) /\ slots[i].key = slots[j].key => i = j

\* size_, on which the load limit rests, counts the entries and, until its
\* deletion ends, the one that is being deleted.
SizeIsExact == size = Cardinality({i \in Slots : Used(i)}) + (IF Idle THEN 0 ELSE 1)

\* The index is a bounded map.
Contents ==
  [k \in Keys |->
     IF \E i \in Slots : Used(i) /\ slots[i].key = k
     THEN slots[CHOOSE i \in Slots : Used(i) /\ slots[i].key = k].value
     ELSE NoOrder]
Map == INSTANCE OrderMap WITH Limit <- Size \div 2, map <- Contents
IsAMap == Map!Init /\ [][Map!Next]_Map!mapVars
=============================================================================
