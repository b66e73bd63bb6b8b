---------------------------- MODULE MCOrderIndex ----------------------------
(* A table of eight slots and the policies that send four references to      *)
(* three neighbouring slots: reference 0 to the last of the table, the       *)
(* others there or next to it.  They are interchangeable: one policy stands  *)
(* for those that differ only in which of them go where.                     *)
EXTENDS OrderIndex, TLC
AnyValue == Permutations(Values)
MCKeys == 0..3
MCPolicies == {p \in [Keys -> {6, 7, 0}] : p[0] = 7 /\ p[1] <= p[2] /\ p[2] <= p[3]}
=============================================================================
