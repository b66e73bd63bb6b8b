-------------------------- MODULE MCReferenceBook --------------------------
(* The instance of ReferenceBook that TLC explores.  Nothing in the book      *)
(* orders references or symbols or compares them but for equality, so that    *)
(* permuting them is a symmetry.                                              *)
EXTENDS ReferenceBook, TLC

Interchangeable == Permutations(Refs) \cup Permutations(Locates)

\* The symbols about which a trading state or a halt was announced.
Announced == {l \in Locates : trading[l].state # "none" \/ trading[l].op_halted}

\* All of the book, on one symbol about which nothing is announced.
BookInFull ==
  /\ Announced = {} /\ \A k \in Kinds : gate.observations[k] <= 1
  /\ Cardinality({orders[r].locate : r \in DOMAIN orders}) <= 1

\* The gate over books of single shares on two symbols, one of which reopens
\* before orders come.
GateInFull ==
  /\ orders # <<>> =>
       /\ gate.windows = 1
       /\ \A l \in Announced : trading[l].state = "T" /\ ~trading[l].op_halted
  /\ Cardinality(Announced) <= 1
  /\ \A r \in DOMAIN orders : orders[r].shares = 1
  /\ \A k \in Kinds : gate.observations[k] = 0 \/ \A j \in Kinds \ {k} : gate.observations[j] = 0
  /\ AllOrphans + seen["D"] + counters.over_execute + counters.removed_at_zero <= 1

Explored == BookInFull \/ GateInFull
=============================================================================
