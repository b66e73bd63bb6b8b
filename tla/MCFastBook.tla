----------------------------- MODULE MCFastBook -----------------------------
(* The instances of FastBook that TLC explores.  Nothing in the book orders  *)
(* references, so that permuting them is a symmetry.                         *)
EXTENDS FastBook, TLC
AnyReference == Permutations(Refs)
=============================================================================
