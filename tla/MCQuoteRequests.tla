-------------------------- MODULE MCQuoteRequests --------------------------
(* Two administrators, each with the qualification form and one proposal dialog of the page. *)
EXTENDS QuoteRequests, TLC

Symmetry == Permutations(Pages)
=============================================================================
