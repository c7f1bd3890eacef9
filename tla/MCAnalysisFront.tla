-------------------------- MODULE MCAnalysisFront --------------------------
(***************************************************************************)
(* AnalysisFront on a small instance.                                      *)
(***************************************************************************)
EXTENDS AnalysisFront, TLC

Symmetry == Permutations(Handlers) \cup Permutations(Proposals)
            \cup Permutations(Tokens) \cup Permutations(Revisions)
=============================================================================
