--------------------------- MODULE MCOfferPipeline ---------------------------
EXTENDS OfferPipeline, TLC

Symmetry == Permutations(Ids) \cup Permutations(Data)
=============================================================================
