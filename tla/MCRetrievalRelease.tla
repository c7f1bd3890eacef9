------------------------- MODULE MCRetrievalRelease -------------------------
EXTENDS ReleaseRefinement, TLC
Symmetry == Permutations(Handlers) \cup Permutations(Proposals) \cup Permutations(Actions)
=============================================================================
