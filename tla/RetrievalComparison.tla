------------------------- MODULE RetrievalComparison -------------------------
(***************************************************************************)
(* evaluation/retrieval_comparison.py: a candidate's run against the       *)
(* baseline's, the twelve gates, and what to do next; and the summary the  *)
(* agent's tool makes of it, with the summary's validators                 *)
(* (agent/retrieval_tools.py).                                             *)
(***************************************************************************)
EXTENDS StageDiagnosis

CONSTANTS WorstFloor,    \* what one query may lose, in units: 0.02
          RateCeiling    \* the queries that may regress, in percent: 10

ASSUME GatesAssumption == WorstFloor \in Nat /\ RateCeiling \in 0..100

Comparable(baseline, candidate) ==
    /\ ValidRun(baseline) /\ ValidRun(candidate)
    /\ baseline.variant = "baseline"
    /\ candidate.variant \in Candidates
    /\ DOMAIN baseline.queries = DOMAIN candidate.queries
    /\ \A q \in DOMAIN baseline.queries :
           /\ baseline.queries[q].judgments = candidate.queries[q].judgments
           /\ baseline.queries[q].relevant = candidate.queries[q].relevant
    /\ \A run \in {baseline, candidate} :
           MeanInUnit(run, run.coverage) /\ \A m \in MetricNames :
               MeanInUnit(run, run.fusion[m]) /\ MeanInUnit(run, run.ranking[m])

(* The relevant products that only the candidate's channels return.         *)
Recovered(before, after) ==
    {k \in DOMAIN before.lineage :
        before.lineage[k] = "recall" /\ after.lineage[k] # "recall"}

QueryChange(before, after) ==
    [coarse    |-> after.ranking.ndcg - before.ranking.ndcg,
     fusion    |-> after.fusion.ndcg - before.fusion.ndcg,
     coverage  |-> after.coverage - before.coverage,
     recovered |-> Recovered(before, after)]

Changes(baseline, candidate) ==
    [q \in DOMAIN baseline.queries |->
        QueryChange(baseline.queries[q], candidate.queries[q])]

Worst(changes, stage) == Min({changes[q][stage] : q \in DOMAIN changes})
Regressed(changes, stage) == Cardinality({q \in DOMAIN changes : changes[q][stage] < 0})

Gains  == {"unique_relevant_contribution", "union_coverage_improvement"}
Means  == [fusion_recall_floor |-> <<"fusion", "recall">>,
           fusion_ndcg_floor   |-> <<"fusion", "ndcg">>,
           fusion_mrr_floor    |-> <<"fusion", "mrr">>,
           coarse_recall_floor |-> <<"ranking", "recall">>,
           coarse_ndcg_floor   |-> <<"ranking", "ndcg">>,
           coarse_mrr_floor    |-> <<"ranking", "mrr">>]
Floors == {"worst_query_coarse_ndcg_delta_floor", "worst_query_fusion_ndcg_delta_floor"}
Rates  == {"regressed_query_rate_ceiling", "fusion_regressed_query_rate_ceiling"}

GateNames == Gains \cup DOMAIN Means \cup Floors \cup Rates

(* What each gate observes: a mean change or a count of regressed queries.  *)
Observed(baseline, candidate, changes, gate) ==
    CASE gate = "unique_relevant_contribution" -> candidate.unique["fields"]
      [] gate = "union_coverage_improvement"   -> candidate.coverage - baseline.coverage
      [] gate = "worst_query_coarse_ndcg_delta_floor" -> Worst(changes, "coarse")
      [] gate = "worst_query_fusion_ndcg_delta_floor" -> Worst(changes, "fusion")
      [] gate = "regressed_query_rate_ceiling"        -> Regressed(changes, "coarse")
      [] gate = "fusion_regressed_query_rate_ceiling" -> Regressed(changes, "fusion")
      [] gate \in DOMAIN Means ->
             LET stage == Means[gate][1]
                 m     == Means[gate][2]
             IN candidate[stage][m] - baseline[stage][m]

GatePassed(gate, observed, queries) ==
    CASE gate \in Gains  -> observed > 0
      [] gate \in Floors -> observed >= -WorstFloor
      [] gate \in Rates  -> 100 * observed <= RateCeiling * queries
      [] OTHER           -> observed >= 0

NextAction(passed, coverage) ==
    IF passed            THEN "request_owner_review"
    ELSE IF coverage > 0 THEN "run_recall_channel_and_rrf_ablation"
    ELSE "replace_recall_candidate"

Comparison(baseline, candidate) ==
    LET changes  == Changes(baseline, candidate)
        observed == [g \in GateNames |-> Observed(baseline, candidate, changes, g)]
        failed   == {g \in GateNames : ~GatePassed(g, observed[g], Len(changes))}
    IN [variant  |-> candidate.variant,
        changes  |-> changes,
        observed |-> observed,
        failed   |-> failed,
        passed   |-> failed = {},
        next     |-> NextAction(failed = {}, observed["union_coverage_improvement"])]
-----------------------------------------------------------------------------
(* The summary of an experiment: what a planner sees of it.                 *)

Summary(candidate, comparison) ==
    [variant        |-> comparison.variant,
     unique         |-> candidate.unique["fields"],
     worst          |-> [s \in {"coarse", "fusion"} |-> Worst(comparison.changes, s)],
     regressed      |-> [s \in {"coarse", "fusion"} |-> Regressed(comparison.changes, s)],
     coarse_ndcg    |-> comparison.observed["coarse_ndcg_floor"],
     coverage       |-> comparison.observed["union_coverage_improvement"],
     failed         |-> comparison.failed,
     passed         |-> comparison.passed,
     recommendation |-> IF comparison.passed THEN "review_candidate" ELSE "reject_candidate",
     next           |-> comparison.next]

(* Every gate must be reproducible from the summary's own figures, and the  *)
(* recommendation and the next action follow from the gates.                *)
SummaryAccepted(summary, comparison) ==
    LET n == Len(comparison.changes)
        o == comparison.observed
        bounded(delta) == -Unit * n <= delta /\ delta <= Unit * n
    IN /\ \A g \in GateNames : g \in summary.failed <=> ~GatePassed(g, o[g], n)
       /\ summary.passed <=> summary.failed = {}
       /\ o["unique_relevant_contribution"] = summary.unique /\ summary.unique >= 0
       /\ o["union_coverage_improvement"] = summary.coverage
       /\ o["worst_query_coarse_ndcg_delta_floor"] = summary.worst["coarse"]
       /\ o["worst_query_fusion_ndcg_delta_floor"] = summary.worst["fusion"]
       /\ o["regressed_query_rate_ceiling"] = summary.regressed["coarse"]
       /\ o["fusion_regressed_query_rate_ceiling"] = summary.regressed["fusion"]
       /\ \A g \in GateNames \ Rates : bounded(o[g]) \/ g = "unique_relevant_contribution"
       /\ \A s \in {"coarse", "fusion"} :
              InUnit(-summary.worst[s]) \/ InUnit(summary.worst[s])
       /\ summary.recommendation = "review_candidate" <=> summary.passed
       /\ summary.next = "request_owner_review" <=> summary.passed

(* The order of experiments: the fusion's worst query, then the mean of the *)
(* coarse ranking, then the name of the variant; the greatest key is best.  *)
Precedes(a, b) ==
    \E i \in DOMAIN a : a[i] < b[i] /\ \A j \in 1..(i - 1) : a[j] = b[j]

NameOrder == [uniform |-> 1, aggressive |-> 2, conservative |-> 3]
SelectionKey(s) == <<s.worst["fusion"], s.coarse_ndcg, NameOrder[s.variant]>>
Best(summaries) ==
    CHOOSE s \in summaries : \A t \in summaries : ~Precedes(SelectionKey(s), SelectionKey(t))
=============================================================================
