------------------------- MODULE MCRetrievalServing -------------------------
EXTENDS RetrievalServing, TLC
Symmetry == Permutations(Callers) \cup Permutations(Proposals)
                \cup Permutations(Indexes)
=============================================================================
