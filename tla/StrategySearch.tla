---------------------------- MODULE StrategySearch ----------------------------
(***************************************************************************)
(* What a proposal of the optimizer is made of: the ranked runs over the   *)
(* judged queries (evaluation/baseline.py, ranking/bm25.py), their         *)
(* comparison (evaluation/comparison.py), and the diagnosis, candidates,   *)
(* gates and winner of agent/strategy_search.py.                           *)
(*                                                                         *)
(* A judged query has its terms, which of them are numeric, and a sequence *)
(* of products in the order of their keys.  A product has a label, the     *)
(* terms of the query its title contains, whether it contains the query as *)
(* a phrase, and its BM25 score, in tenths like the boosts.  A mean over   *)
(* the queries is kept as the sum: compared runs have the same queries.    *)
(***************************************************************************)
EXTENDS RankingMetrics

CONSTANTS Cutoff, ShortCutoff,  \* the ranks metrics look at: 10 and 5
          ExampleLimit,         \* regressions a comparison names: 5
          RateCeiling,          \* regressed queries allowed, in percent: 15
          WorstLoss,            \* nDCG that one query may lose: 0.05
          ShortLoss             \* nDCG at the short cut-off that may be lost: 0.02

ASSUME SearchAssumption ==
    /\ {Cutoff, ShortCutoff} \subseteq 1 .. Len(Discounts)
    /\ ExampleLimit \in Nat \ {0}
    /\ {RateCeiling, WorstLoss, ShortLoss} \subseteq Nat

Boost(coverage, numeric, phrase) ==
    [coverage |-> coverage, numeric |-> numeric, phrase |-> phrase]

(* The candidates of the family, and what may be active before one is.      *)
CandidateFor ==
    [numeric_token          |-> "exact-numeric-v1",
     coverage_gap           |-> "exact-coverage-v1",
     exact_phrase_displaced |-> "exact-phrase-v1"]
Conservative   == "exact-conservative-v1"
Strategies     == {CandidateFor[k] : k \in DOMAIN CandidateFor} \cup {Conservative}
Baseline       == "candidate-title-bm25-v1"
LegacyStrategy == "candidate-title-bm25-exact-boost-v1"
Engineering    == "requires-engineering"

Boosts(s) == CASE s = Baseline            -> Boost(0, 0, 0)
               [] s = LegacyStrategy      -> Boost(8, 10, 12)
               [] s = Conservative        -> Boost(2, 3, 3)
               [] s = "exact-numeric-v1"  -> Boost(8, 18, 10)
               [] s = "exact-coverage-v1" -> Boost(14, 10, 10)
               [] s = "exact-phrase-v1"   -> Boost(6, 8, 18)
Complexity(s) == Boosts(s).coverage + Boosts(s).numeric + Boosts(s).phrase

(* Judged queries as the program meets them.                               *)
JudgedQuery(q) ==
    /\ IsFiniteSet(q.terms) /\ q.terms # {} /\ q.numeric \subseteq q.terms
    /\ q.products \in Seq([label : Labels, bm25 : Nat, terms : SUBSET q.terms,
                           phrase : BOOLEAN])
    /\ q.products # <<>>
    /\ \A k \in DOMAIN q.products :
         LET p == q.products[k] IN
         /\ p.bm25 > 0 <=> p.terms # {}
         /\ Cardinality(q.terms) = 1 /\ p.terms = q.terms => p.phrase
-----------------------------------------------------------------------------
(* One run.                                                                *)

(* The score in tenths, times what its two fractions are divided by.        *)
Score(q, p, s) ==
    LET size    == Cardinality(q.terms)
        numbers == IF q.numeric = {} THEN 1 ELSE Cardinality(q.numeric)
        boosts  == Boosts(s)
    IN size * numbers * (p.bm25 + IF p.phrase THEN boosts.phrase ELSE 0)
       + numbers * boosts.coverage * Cardinality(p.terms)
       + size * boosts.numeric * Cardinality(p.terms \cap q.numeric)

Ranking(q, s) ==
    Descending([k \in DOMAIN q.products |-> Score(q, q.products[k], s)])

MetricNames == {"ndcg", "ndcg_short", "mrr", "success_1", "success_short"}

Metrics(q, s) ==
    LET list     == Ranking(q, s)
        label(k) == q.products[k].label
        gains    == [r \in DOMAIN list |-> Gain[label(list[r])]]
        relevant == [r \in DOMAIN list |-> label(list[r]) \in RelevantLabels]
    IN [ndcg          |-> Ndcg(gains, gains, Cutoff),
        ndcg_short    |-> Ndcg(gains, gains, ShortCutoff),
        mrr           |-> ReciprocalRank(relevant, Cutoff),
        success_1     |-> Success(relevant, 1),
        success_short |-> Success(relevant, ShortCutoff)]
-----------------------------------------------------------------------------
(* Diagnosis of a run and the candidates it supports.                      *)

(* The best product that was judged, the first of them in the ranking.      *)
BestRank(q, list) ==
    LET gain(r) == Gain[q.products[list[r]].label]
    IN CHOOSE r \in DOMAIN list : \A t \in DOMAIN list :
           gain(r) > gain(t) \/ (gain(r) = gain(t) /\ r <= t)

Causes(q, s) ==
    LET list  == Ranking(q, s)
        best  == q.products[list[BestRank(q, list)]]
        top   == q.products[list[1]]
        gap   == Cardinality(best.terms) - Cardinality(top.terms)
    IN IF Gain[best.label] = 0 \/ BestRank(q, list) = 1 THEN {}
       ELSE {c \in {"numeric_token", "coverage_gap", "exact_phrase_displaced",
                    "missing_title_signal"} :
               CASE c = "numeric_token" ->
                        ~ (best.terms \cap q.numeric \subseteq top.terms)
                 [] c = "coverage_gap" ->
                        best.terms # {} /\ 4 * gap >= Cardinality(q.terms)
                 [] c = "exact_phrase_displaced" ->
                        Cardinality(q.terms) >= 2 /\ best.phrase /\ ~top.phrase
                 [] c = "missing_title_signal" -> best.terms = {}}

(* There is room for every candidate of the family, so that their order and *)
(* the number of queries behind them leave none out.                        *)
SelectedCandidates(queries, s) ==
    LET causes == UNION {Causes(queries[i], s) : i \in DOMAIN queries}
        chosen == {CandidateFor[c] : c \in causes \cap DOMAIN CandidateFor}
    IN IF chosen = {} THEN {} ELSE chosen \cup {Conservative}
-----------------------------------------------------------------------------
(* Comparison of two runs, and its summary.                                *)

Deltas(queries, s0, s1) ==
    [i \in DOMAIN queries |->
        LET before == Metrics(queries[i], s0)
            after  == Metrics(queries[i], s1)
        IN [m \in MetricNames |-> after[m] - before[m]]]

Regressed(deltas) == {i \in DOMAIN deltas : deltas[i].ndcg < 0}

(* Deviation: the first ones are named.                                     *)
FirstRegressions(deltas) ==
    {i \in Regressed(deltas) :
        Cardinality({j \in Regressed(deltas) : j < i}) < ExampleLimit}

(* The regressions that are named: the worst ones.                          *)
NamedRegressions(deltas) ==
    {i \in Regressed(deltas) :
        Cardinality({j \in Regressed(deltas) :
                        \/ deltas[j].ndcg < deltas[i].ndcg
                        \/ deltas[j].ndcg = deltas[i].ndcg /\ j < i}) < ExampleLimit}

Payload(deltas) ==
    [queries     |-> Len(deltas),
     aggregate   |-> [m \in MetricNames |->
                         SumFunction([i \in DOMAIN deltas |-> deltas[i][m]])],
     regressed   |-> Cardinality(Regressed(deltas)),
     regressions |-> {deltas[i].ndcg : i \in NamedRegressions(deltas)}]

Worst(payload) == Max({0} \cup {-d : d \in payload.regressions})

SelectionScore(payload) ==
    LET total == payload.aggregate
    IN 50 * total.ndcg + 15 * (total.ndcg_short + total.mrr + total.success_1)
       + 5 * total.success_short
       - 10 * (Unit * payload.regressed + payload.queries * Worst(payload))

GatesPass(payload) ==
    LET total == payload.aggregate
    IN /\ total.ndcg > 0
       /\ total.ndcg_short >= -(ShortLoss * payload.queries)
       /\ total.mrr >= 0
       /\ total.success_1 >= 0
       /\ total.success_short >= 0
       /\ 100 * payload.regressed <= RateCeiling * payload.queries
       /\ Worst(payload) <= WorstLoss
-----------------------------------------------------------------------------
(* The experiments of one proposal and the one that is selected.           *)

(* A candidate with the configuration of the active strategy has its run    *)
(* and is skipped.                                                          *)
Experiments(queries, s0) ==
    {[strategy |-> s, payload |-> Payload(Deltas(queries, s0, s))] :
        s \in SelectedCandidates(queries, s0) \ {s0}}

Evaluation(x) ==
    [strategy |-> x.strategy, score |-> SelectionScore(x.payload),
     gain |-> x.payload.aggregate.ndcg,
     kind |-> IF GatesPass(x.payload) THEN "ready" ELSE "gate_failed"]

Before(e, f) ==
    \/ e.score > f.score
    \/ e.score = f.score /\ e.gain > f.gain
    \/ /\ e.score = f.score /\ e.gain = f.gain
       /\ Complexity(e.strategy) < Complexity(f.strategy)

(* The best candidate that passes its gates, or else the best of them all.  *)
Selected(evaluations) ==
    CHOOSE e \in evaluations : \A f \in evaluations \ {e} :
        \/ e.kind = "ready" /\ f.kind # "ready"
        \/ e.kind = f.kind /\ Before(e, f)

(* What of it becomes part of the proposal.                                 *)
Search(queries, s0) ==
    LET tested == {Evaluation(x) : x \in Experiments(queries, s0)}
    IN IF tested = {} THEN [kind |-> "terminal", strategy |-> Engineering]
       ELSE Restrict(Selected(tested), {"kind", "strategy"})
=============================================================================
