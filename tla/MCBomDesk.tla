----------------------------- MODULE MCBomDesk -----------------------------
(* Compositions with one component at most, two resources, two bases
   of units, and one offer. *)
EXTENDS BomDesk, TLC

Symmetry == Permutations(Resources) \cup Permutations(Units)
=============================================================================
