------------------------------- MODULE MCSales -------------------------------
(* Small instances of Sales for TLC. *)
EXTENDS Sales, TLC

Symmetry == Permutations(Clients) \cup Permutations(Orders) \cup Permutations(Invoices)
=============================================================================
