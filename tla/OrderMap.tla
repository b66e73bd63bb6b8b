------------------------------ MODULE OrderMap ------------------------------
(***************************************************************************)
(* What the order index promises the fast book: a map from order           *)
(* references to pool indices that holds up to Limit entries.              *)
(***************************************************************************)
EXTENDS Naturals, FiniteSets

CONSTANTS
  Keys,     \* order references
  Values,   \* pool indices
  NoOrder,  \* kNoOrder
  Limit     \* entries the map takes

VARIABLES
  map,      \* per reference its index, or NoOrder
  answer    \* what the last operation returned

mapVars == <<map, answer>>

Init == map = [k \in Keys |-> NoOrder] /\ answer = NoOrder

Entries == Cardinality({k \in Keys : map[k] # NoOrder})

Find(k) == answer' = map[k] /\ UNCHANGED map

\* At the limit nothing is taken, not even a new value for a key that is there.
Insert(k, v) ==
  \/ /\ v # NoOrder /\ Entries < Limit
     /\ map' = [map EXCEPT ![k] = v]
     /\ answer' = TRUE
  \/ /\ v = NoOrder \/ Entries = Limit
     /\ answer' = FALSE
     /\ UNCHANGED map

Erase(k) == map' = [map EXCEPT ![k] = NoOrder] /\ answer' = map[k]

Clear == map' = [k \in Keys |-> NoOrder] /\ UNCHANGED answer

Next ==
  \/ \E k \in Keys : Find(k) \/ Erase(k) \/ \E v \in Values \cup {NoOrder} : Insert(k, v)
  \/ Clear

Spec == Init /\ [][Next]_mapVars
=============================================================================
