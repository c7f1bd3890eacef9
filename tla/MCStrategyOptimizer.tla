------------------------ MODULE MCStrategyOptimizer ------------------------
(***************************************************************************)
(* Judged queries for StrategyOptimizer.  From plain title BM25 the search *)
(* adopts two strategies one after the other in the first world and one in *)
(* the second, where that one would not be an improvement if it was        *)
(* measured against anything else.  In the third a candidate has two       *)
(* regressions, of which a comparison names one.                           *)
(***************************************************************************)
EXTENDS StrategyOptimizer

Product(label, bm25, terms, phrase) ==
    [label |-> label, bm25 |-> bm25, terms |-> terms, phrase |-> phrase]
Query(terms, numeric, products) ==
    [terms |-> terms, numeric |-> numeric, products |-> products]
ab  == {"a", "b"}
abc == {"a", "b", "c"}

TwoSteps == <<
    Query(ab, {"a"}, <<Product("E", 15, {"a"}, FALSE), Product("E", 24, {"b"}, FALSE),
                       Product("S", 30, {"b"}, FALSE)>>),
    Query(ab, {"b"}, <<Product("C", 6, ab, FALSE), Product("I", 9, {"b"}, FALSE)>>)>>

OneStep == <<
    Query(ab, {}, <<Product("S", 10, ab, TRUE), Product("I", 11, {"b"}, FALSE)>>),
    Query(abc, {}, <<Product("E", 19, abc, FALSE), Product("I", 25, {"a", "c"}, FALSE)>>)>>

Regressions == <<
    Query(abc, {"b"}, <<Product("I", 12, abc, TRUE), Product("E", 15, abc, FALSE),
                        Product("C", 21, {"c"}, FALSE)>>),
    Query(ab, {"a"}, <<Product("S", 22, {"a"}, FALSE), Product("E", 4, {"a"}, FALSE),
                       Product("E", 18, ab, FALSE)>>),
    Query(abc, {"b"}, <<Product("E", 5, abc, TRUE), Product("I", 18, {"a"}, FALSE)>>),
    Query(ab, {}, <<Product("I", 6, ab, TRUE), Product("S", 10, ab, FALSE)>>)>>

MCWorlds    == <<TwoSteps, OneStep, Regressions>>
MCDiscounts == <<1000, 631, 500>>
Symmetry    == Permutations(Proposals) \cup Permutations(Codes)

ASSUME SearchResults == SearchFits
=============================================================================
