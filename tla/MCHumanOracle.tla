--------------------------- MODULE MCHumanOracle ---------------------------
EXTENDS HumanOracle, TLC
CONSTANTS rewritten, source, other, b1, b2
MCBatchOf == (rewritten :> b1) @@ (source :> b1) @@ (other :> b2)
Symmetry  == Permutations(Actors)
=============================================================================
